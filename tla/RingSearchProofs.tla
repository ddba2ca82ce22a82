-------------------------- MODULE RingSearchProofs --------------------------
(***************************************************************************)
(* What the two binary searches return, proved for every slice of every    *)
(* length and every word size: that the loop, as a function of its state,  *)
(* is well defined and where it ends (by induction on the length of the    *)
(* interval); that the machine of RingSearch computes that function; and   *)
(* the contracts of the callers.                                           *)
(***************************************************************************)
EXTENDS RingSearch, SearchContract, TLAPS, WellFoundedInduction

-----------------------------------------------------------------------------
(* The loop as a function *)

\* The least element of a set of naturals: induction without an operator.
LEMMA LeastElement ==
  ASSUME NEW T \in SUBSET Nat, T # {}
  PROVE  \E x \in T : \A y \in T : x <= y
<1>1. IsWellFoundedOn(OpToRel(<, Nat), Nat)
  BY NatLessThanWellFounded
<1>2. PICK x \in T : \A y \in T : ~ (<<y, x>> \in OpToRel(<, Nat))
  BY <1>1, WFMin, Zenon
<1>3. ASSUME NEW y \in T PROVE x <= y
  <2>1. ~ (y < x)
    BY <1>2 DEF OpToRel
  <2> QED BY <2>1
<1> QED BY <1>3

Width(s) == s.high - s.low

\* The probe of an interval that is still open lies inside it.
LEMMA ProbeInside ==
  ASSUME NEW lo \in Int, NEW hi \in Int, lo < hi
  PROVE  LET m == (lo + hi) \div 2
         IN  m \in Int /\ lo <= m /\ m < hi
OBVIOUS

\* An iteration looks only at narrower intervals.
LEMMA IterateLocal ==
  ASSUME NEW a \in Seq(Int), NEW t \in Int, NEW f, NEW g, NEW s \in Probes(Len(a)),
         \A r \in Probes(Len(a)) : Width(r) < Width(s) => f[r] = g[r]
  PROVE  Iterate(a, t, f, s) = Iterate(a, t, g, s)
<1> DEFINE n == Len(a)
           m == (s.low + s.high) \div 2
           left == Probe(s.low, m - 1, m)
           right == Probe(m + 1, s.high, m)
<1>1. n \in Nat /\ s.low \in 0 .. n /\ s.high \in -1 .. n /\ s.mid \in 0 .. n
  BY DEF Probes
<1>2. CASE s.low >= s.high
  BY <1>2 DEF Iterate
<1>3. CASE s.low < s.high
  <2>1. m \in Int /\ s.low <= m /\ m < s.high
    BY <1>1, <1>3, ProbeInside
  <2> HIDE DEF m
  <2>2. left \in Probes(n) /\ Width(left) < Width(s)
    BY <1>1, <2>1 DEF Probes, Probe, Width
  <2>3. right \in Probes(n) /\ Width(right) < Width(s)
    BY <1>1, <2>1 DEF Probes, Probe, Width
  <2>4. f[left] = g[left] /\ f[right] = g[right]
    BY <2>2, <2>3
  <2> QED BY <2>4 DEF Iterate, m
<1> QED BY <1>1, <1>2, <1>3

\* There is a function that satisfies the recursion, built interval by interval.
LEMMA LoopExists ==
  ASSUME NEW a \in Seq(Int), NEW t \in Int
  PROVE  \E g : g = [s \in Probes(Len(a)) |-> Iterate(a, t, g, s)]
<1> DEFINE S == Probes(Len(a))
           Solves(f, k) == \A s \in S : Width(s) < k => f[s] = Iterate(a, t, f, s)
           Unsolved == {k \in Nat : ~ \E f : Solves(f, k)}
<1>0. Len(a) \in Nat /\ \A s \in S : Width(s) \in Int /\ Width(s) <= Len(a)
  BY DEF Probes, Width
<1>1. ASSUME NEW k \in Nat, NEW f, Solves(f, k)
      PROVE  \E g : Solves(g, k + 1)
  <2> DEFINE g == [s \in S |-> IF Width(s) < k THEN f[s] ELSE Iterate(a, t, f, s)]
  <2>1. ASSUME NEW s \in S, Width(s) < k + 1 PROVE g[s] = Iterate(a, t, g, s)
    <3>1. g[s] = Iterate(a, t, f, s)
      BY <1>1, <2>1
    <3>2. \A r \in S : Width(r) < Width(s) => f[r] = g[r]
      BY <1>0, <2>1
    <3> HIDE DEF g
    <3>3. Iterate(a, t, f, s) = Iterate(a, t, g, s)
      BY <3>2, IterateLocal
    <3> QED BY <3>1, <3>3
  <2> QED BY <2>1
<1>2. \E f : Solves(f, 0)
  <2> DEFINE f == [s \in S |-> Stop("out", s.mid)]
  <2>1. ASSUME NEW s \in S, Width(s) < 0 PROVE f[s] = Iterate(a, t, f, s)
    <3>1. s.low >= s.high
      BY <2>1 DEF Probes, Width
    <3> QED BY <3>1 DEF Iterate
  <2> QED BY <2>1
<1> HIDE DEF Solves
<1>3. Unsolved = {}
  <2> SUFFICES ASSUME Unsolved # {} PROVE FALSE
    OBVIOUS
  <2>1. PICK k \in Unsolved : \A y \in Unsolved : k <= y
    BY LeastElement
  <2>2. k \in Nat /\ k # 0 /\ ~ \E f : Solves(f, k)
    BY <1>2, <2>1
  <2>3. k - 1 \in Nat /\ k - 1 \notin Unsolved
    BY <2>1, <2>2
  <2>4. PICK f : Solves(f, k - 1)
    BY <2>3
  <2>5. \E g : Solves(g, (k - 1) + 1)
    BY <1>1, <2>3, <2>4
  <2> QED BY <2>2, <2>5
<1>4. PICK f : Solves(f, Len(a) + 1)
  <2>1. Len(a) + 1 \in Nat
    BY <1>0
  <2>2. Len(a) + 1 \notin Unsolved
    BY <1>3
  <2> QED BY <2>1, <2>2
<1>5. \A s \in S : f[s] = Iterate(a, t, f, s)
  BY <1>0, <1>4 DEF Solves
<1> DEFINE g == [s \in S |-> Iterate(a, t, f, s)]
<1>6. \A s \in S : f[s] = g[s]
  BY <1>5
<1> HIDE DEF g
<1>7. \A s \in S : Iterate(a, t, f, s) = Iterate(a, t, g, s)
  BY <1>6, IterateLocal
<1>8. g = [s \in S |-> Iterate(a, t, g, s)]
  BY <1>7 DEF g
<1> QED BY <1>8

\* The recursion of SearchFrom, iteration by iteration.
LEMMA SearchFromUnfolds ==
  ASSUME NEW a \in Seq(Int), NEW t \in Int, NEW s \in Probes(Len(a))
  PROVE  SearchFrom(a, t)[s] = Iterate(a, t, SearchFrom(a, t), s)
<1> DEFINE Solution(f) == f = [r \in Probes(Len(a)) |-> Iterate(a, t, f, r)]
<1>1. SearchFrom(a, t) = CHOOSE f : Solution(f)
  BY Zenon DEF SearchFrom
<1>2. \E f : Solution(f)
  BY LoopExists
<1> HIDE DEF Solution
<1>3. Solution(SearchFrom(a, t))
  BY <1>1, <1>2, Zenon
<1>4. SearchFrom(a, t) = [r \in Probes(Len(a)) |-> Iterate(a, t, SearchFrom(a, t), r)]
  BY <1>3 DEF Solution
<1> DEFINE F == SearchFrom(a, t)
<1>5. F = [r \in Probes(Len(a)) |-> Iterate(a, t, F, r)]
  BY <1>4
<1> HIDE DEF F
<1>6. F[s] = Iterate(a, t, F, s)
  BY <1>5
<1> QED BY <1>6 DEF F

-----------------------------------------------------------------------------
(* Where the loop ends *)

\* The loop's invariant on its states: LoopInvariant, with the two intervals
\* that a slice of at most four elements can come to.
Bracketed(a, t, s) ==
  /\ s.low <= s.high /\ s.high < Len(a)
  /\ a[s.low + 1] <= t /\ t <= a[s.high + 1]
  /\ s.mid < Len(a)
  /\ s.low = s.high => s.mid \in {s.low - 1, s.low + 1}
  /\ Len(a) <= 4 => \/ s.low = 0 /\ s.high = Len(a) - 1
                    \/ Len(a) = 4 /\ s.low = 2 /\ s.high = 3

IsHit(a, t, stop) ==
  stop.how = "hit" /\ stop.at \in 0 .. Len(a) - 1 /\ a[stop.at + 1] = t

IsGap(a, t, stop) ==
  /\ stop.how = "gap" /\ stop.at \in 0 .. Len(a) - 2
  /\ a[stop.at + 1] < t /\ t < a[stop.at + 2]

\* The interval has closed on the target, with the last probe beside it.
IsOut(a, t, stop) ==
  /\ stop.how = "out" /\ Len(a) > 4
  /\ stop.at \in 0 .. Len(a) - 1
  /\ \E j \in 0 .. Len(a) - 1 : a[j + 1] = t /\ stop.at \in {j - 1, j + 1}

Ends(a, t, stop) == IsHit(a, t, stop) \/ IsGap(a, t, stop) \/ IsOut(a, t, stop)

\* The probe of an interval, and of those a short slice can come to.
LEMMA ProbeOfShort ==
  ASSUME NEW n \in 2 .. 4, NEW lo \in Nat, NEW hi \in Int,
         (lo = 0 /\ hi = n - 1) \/ (n = 4 /\ lo = 2 /\ hi = 3),
         NEW m, m = (lo + hi) \div 2
  PROVE  /\ lo = 0 => m = IF n = 2 THEN 0 ELSE 1
         /\ lo = 2 => m = 2
<1>1. n = 2 \/ n = 3 \/ n = 4
  OBVIOUS
<1> QED BY <1>1

\* An iteration by the outcome of its comparisons.
ByComparison(a, t, f, s, m) ==
  /\ t = a[m + 1] => Iterate(a, t, f, s) = Stop("hit", m)
  /\ t < a[m + 1] /\ m > 0 /\ t > a[m] => Iterate(a, t, f, s) = Stop("gap", m - 1)
  /\ t < a[m + 1] /\ ~ (m > 0 /\ t > a[m])
       => Iterate(a, t, f, s) = f[Probe(s.low, m - 1, m)]
  /\ t > a[m + 1] /\ m < Len(a) - 1 /\ t < a[m + 2]
       => Iterate(a, t, f, s) = Stop("gap", m)
  /\ t > a[m + 1] /\ ~ (m < Len(a) - 1 /\ t < a[m + 2])
       => Iterate(a, t, f, s) = f[Probe(m + 1, s.high, m)]

LEMMA IterateCases ==
  ASSUME NEW a, NEW t \in Int, NEW f, NEW s, NEW m,
         m = (s.low + s.high) \div 2, ~ (s.low >= s.high), a[m + 1] \in Int
  PROVE  ByComparison(a, t, f, s, m)
<1>1. /\ t < a[m + 1] => ~ (t = a[m + 1])
      /\ t > a[m + 1] => ~ (t = a[m + 1]) /\ ~ (t < a[m + 1])
  OBVIOUS
<1> QED BY <1>1 DEF ByComparison, Iterate

\* The state of an open interval and its probe m, with what is around the probe.
OpenAt(a, t, s, m) ==
  /\ s \in Probes(Len(a)) /\ Bracketed(a, t, s)
  /\ Len(a) > 1 /\ a[1] < t /\ t < a[Len(a)]
  /\ s.low < s.high /\ m = (s.low + s.high) \div 2

LEMMA OpenFacts ==
  ASSUME NEW a \in Seq(Int), NEW t \in Int, NEW s, NEW m, OpenAt(a, t, s, m)
  PROVE  /\ Len(a) \in Nat /\ Len(a) > 1 /\ a[1] < t /\ t < a[Len(a)]
         /\ s.low \in Nat /\ s.high \in Int /\ s.high < Len(a)
         /\ a[s.low + 1] <= t /\ t <= a[s.high + 1]
         /\ m \in Nat /\ s.low <= m /\ m < s.high
         /\ a[m + 1] \in Int /\ a[m + 2] \in Int /\ (m > 0 => a[m] \in Int)
         /\ ~ (s.low >= s.high)
         /\ Len(a) <= 4 => \/ s.low = 0 /\ s.high = Len(a) - 1 /\ (m = IF Len(a) = 2 THEN 0 ELSE 1)
                           \/ Len(a) = 4 /\ s.low = 2 /\ s.high = 3 /\ m = 2
<1> DEFINE n == Len(a)
<1>1. s \in Probes(n) /\ Bracketed(a, t, s)
  BY DEF OpenAt
<1>2. n \in Nat /\ s.low \in Nat /\ s.high \in Int
  BY <1>1 DEF Probes
<1>3. n > 1 /\ a[1] < t /\ t < a[n] /\ s.low < s.high /\ m = (s.low + s.high) \div 2
  BY DEF OpenAt
<1>4. s.high < n /\ a[s.low + 1] <= t /\ t <= a[s.high + 1]
  BY <1>1 DEF Bracketed
<1>5. n <= 4 => (s.low = 0 /\ s.high = n - 1) \/ (n = 4 /\ s.low = 2 /\ s.high = 3)
  BY <1>1 DEF Bracketed
<1>6. \A i \in 1 .. n : a[i] \in Int
  OBVIOUS
<1> HIDE DEF n
<1>7. m \in Int /\ s.low <= m /\ m < s.high
  BY <1>2, <1>3, ProbeInside
<1>8. n <= 4 => \/ s.low = 0 /\ s.high = n - 1 /\ (m = IF n = 2 THEN 0 ELSE 1)
                \/ n = 4 /\ s.low = 2 /\ s.high = 3 /\ m = 2
  <2> SUFFICES ASSUME n <= 4
               PROVE  \/ s.low = 0 /\ s.high = n - 1 /\ (m = IF n = 2 THEN 0 ELSE 1)
                      \/ n = 4 /\ s.low = 2 /\ s.high = 3 /\ m = 2
    OBVIOUS
  <2>1. n \in 2 .. 4
    BY <1>2, <1>3
  <2>2. (s.low = 0 => m = IF n = 2 THEN 0 ELSE 1) /\ (s.low = 2 => m = 2)
    BY <1>2, <1>3, <1>5, <2>1, ProbeOfShort
  <2> QED BY <1>5, <2>2
<1>9. m + 1 \in 1 .. n /\ m + 2 \in 1 .. n /\ (m > 0 => m \in 1 .. n) /\ m \in Nat
  BY <1>2, <1>4, <1>7
<1>10. a[m + 1] \in Int /\ a[m + 2] \in Int /\ (m > 0 => a[m] \in Int)
  BY <1>6, <1>9
<1>11. ~ (s.low >= s.high)
  BY <1>2, <1>3
<1> QED BY <1>2, <1>3, <1>4, <1>7, <1>8, <1>9, <1>10, <1>11 DEF n

\* Below the probe, if the gap is not there, the interval still holds the target.
LEMMA LeftFacts ==
  ASSUME NEW a \in Seq(Int), NEW t \in Int, NEW s, NEW m, OpenAt(a, t, s, m),
         t < a[m + 1], ~ (m > 0 /\ t > a[m])
  PROVE  /\ Probe(s.low, m - 1, m) \in Probes(Len(a))
         /\ Bracketed(a, t, Probe(s.low, m - 1, m))
         /\ Width(Probe(s.low, m - 1, m)) < Width(s)
<1> DEFINE n == Len(a)
           left == Probe(s.low, m - 1, m)
<1>1. /\ n \in Nat /\ n > 1 /\ a[1] < t
      /\ s.low \in Nat /\ s.high \in Int /\ s.high < n
      /\ a[s.low + 1] <= t
      /\ m \in 0 .. n - 1 /\ s.low <= m /\ m < s.high
      /\ a[m + 1] \in Int /\ (m > 0 => a[m] \in Int)
      /\ n <= 4 => \/ s.low = 0 /\ s.high = n - 1 /\ m = IF n = 2 THEN 0 ELSE 1
                   \/ n = 4 /\ s.low = 2 /\ s.high = 3 /\ m = 2
  BY OpenFacts
<1> HIDE DEF n
<1>2. m # 0
  <2>1. m = 0 => a[m + 1] = a[1]
    BY <1>1
  <2> QED BY <1>1, <2>1
<1>3. m > 0 /\ s.low # m
  <2>1. s.low = m => a[s.low + 1] = a[m + 1]
    OBVIOUS
  <2>2. ~ (a[m + 1] <= t)
    BY <1>1
  <2> QED BY <1>1, <1>2, <2>1, <2>2
<1>4. t <= a[m]
  BY <1>1, <1>3
<1>5. n > 4
  <2> SUFFICES ASSUME n <= 4 PROVE FALSE
    BY <1>1
  <2>1. m = 1 \/ (m = 2 /\ s.low = 2)
    BY <1>1, <1>3
  <2>2. m # 1
    BY <1>1, <1>4
  <2> QED BY <1>3, <2>1, <2>2
<1>6. /\ s.low <= m - 1 /\ m - 1 < n /\ m < n
      /\ m \in {s.low - 1, s.low + 1} \/ s.low # m - 1
  BY <1>1, <1>3
<1>7. t <= a[(m - 1) + 1]
  <2>1. (m - 1) + 1 = m
    BY <1>1
  <2> QED BY <1>4, <2>1
<1>8. left.low = s.low /\ left.high = m - 1 /\ left.mid = m
  BY DEF Probe
<1>9. left \in Probes(n) /\ Width(left) < Width(s)
  BY <1>1, <1>3 DEF Probes, Probe, Width
<1> HIDE DEF left
<1>10. Bracketed(a, t, left)
  BY <1>1, <1>5, <1>6, <1>7, <1>8 DEF Bracketed, n
<1> QED BY <1>9, <1>10 DEF left, n

\* And above it.
LEMMA RightFacts ==
  ASSUME NEW a \in Seq(Int), NEW t \in Int, NEW s, NEW m, OpenAt(a, t, s, m),
         t > a[m + 1], ~ (m < Len(a) - 1 /\ t < a[m + 2])
  PROVE  /\ Probe(m + 1, s.high, m) \in Probes(Len(a))
         /\ Bracketed(a, t, Probe(m + 1, s.high, m))
         /\ Width(Probe(m + 1, s.high, m)) < Width(s)
<1> DEFINE n == Len(a)
           right == Probe(m + 1, s.high, m)
<1>1. /\ n \in Nat /\ n > 1 /\ t < a[n]
      /\ s.low \in Nat /\ s.high \in Int /\ s.high < n
      /\ t <= a[s.high + 1]
      /\ m \in 0 .. n - 1 /\ s.low <= m /\ m < s.high
      /\ a[m + 2] \in Int
  <2>1. m \in Nat /\ m < s.high /\ s.high < Len(a) /\ s.high \in Int /\ Len(a) \in Nat
    BY OpenFacts
  <2>2. m \in 0 .. Len(a) - 1
    BY <2>1
  <2> QED BY <2>2, OpenFacts
<1>0. n <= 4 => \/ s.low = 0 /\ s.high = n - 1 /\ (m = IF n = 2 THEN 0 ELSE 1)
                \/ n = 4 /\ s.low = 2 /\ s.high = 3 /\ m = 2
  BY OpenFacts
<1>2. ~ (t < a[m + 2]) /\ (m + 1) + 1 = m + 2
  BY <1>1
<1> HIDE DEF n
<1>3. a[(m + 1) + 1] <= t
  BY <1>1, <1>2
<1>4. n <= 4 => n = 4 /\ m + 1 = 2 /\ s.high = 3
  <2> SUFFICES ASSUME n <= 4 PROVE n = 4 /\ m + 1 = 2 /\ s.high = 3
    OBVIOUS
  <2>1. m + 2 # n
    <3>1. m + 2 = n => a[m + 2] = a[n]
      OBVIOUS
    <3> QED BY <1>1, <1>2, <3>1
  <2> QED BY <1>0, <1>1, <2>1
<1>5. m + 1 <= s.high /\ m \in {(m + 1) - 1, (m + 1) + 1} /\ m < n
  BY <1>1
<1>6. right.low = m + 1 /\ right.high = s.high /\ right.mid = m
  BY DEF Probe
<1>7. right \in Probes(n) /\ Width(right) < Width(s)
  <2>0. m \in Nat /\ m < s.high /\ s.high < n /\ s.high \in Int /\ n \in Nat
    BY <1>1
  <2>1. m + 1 \in 0 .. n /\ s.high \in -1 .. n /\ m \in 0 .. n
    BY <2>0
  <2>2. s.high - (m + 1) < s.high - s.low
    BY <1>1
  <2> QED BY <2>1, <2>2 DEF Probes, Probe, Width
<1> HIDE DEF right
<1>8. Bracketed(a, t, right)
  BY <1>1, <1>3, <1>4, <1>5, <1>6 DEF Bracketed, n
<1> QED BY <1>7, <1>8 DEF right, n

\* A closed interval has closed on the target.
LEMMA ClosedFacts ==
  ASSUME NEW a \in Seq(Int), NEW t \in Int, NEW s \in Probes(Len(a)), Bracketed(a, t, s),
         Len(a) > 1, s.low >= s.high
  PROVE  IsOut(a, t, Stop("out", s.mid))
<1> DEFINE n == Len(a)
<1>1. /\ n \in Nat /\ n > 1
      /\ s.low \in Nat /\ s.high \in Int /\ s.mid \in Nat
      /\ s.low = s.high /\ s.high < n /\ s.mid < n
      /\ a[s.low + 1] <= t /\ t <= a[s.high + 1]
      /\ s.mid \in {s.low - 1, s.low + 1}
      /\ n <= 4 => \/ s.low = 0 /\ s.high = n - 1
                   \/ n = 4 /\ s.low = 2 /\ s.high = 3
  BY DEF Probes, Bracketed
<1>2. s.low \in 0 .. n - 1 /\ s.mid \in 0 .. n - 1 /\ n > 4
  BY <1>1
<1>3. a[s.low + 1] \in Int
  BY <1>2
<1>4. a[s.low + 1] = t
  BY <1>1, <1>3
<1> QED BY <1>1, <1>2, <1>4 DEF IsOut, Stop, n

\* An iteration ends the loop, or leaves a narrower interval that still holds
\* the target.
LEMMA IterateFacts ==
  ASSUME NEW a \in Seq(Int), NEW t \in Int, NEW f, NEW s \in Probes(Len(a)),
         Len(a) > 1, a[1] < t, t < a[Len(a)], Bracketed(a, t, s)
  PROVE  \/ Ends(a, t, Iterate(a, t, f, s))
         \/ \E r \in Probes(Len(a)) :
              /\ Bracketed(a, t, r) /\ Width(r) < Width(s)
              /\ Iterate(a, t, f, s) = f[r]
<1>1. CASE s.low >= s.high
  <2>1. Iterate(a, t, f, s) = Stop("out", s.mid)
    BY <1>1 DEF Iterate
  <2> QED BY <1>1, <2>1, ClosedFacts DEF Ends
<1>2. CASE ~ (s.low >= s.high)
  <2>1. PICK m : m = (s.low + s.high) \div 2
    OBVIOUS
  <2>2. OpenAt(a, t, s, m)
    <3>1. s.low < s.high
      BY <1>2 DEF Probes
    <3> QED BY <2>1, <3>1 DEF OpenAt
  <2>3. /\ Len(a) \in Nat /\ m \in 0 .. Len(a) - 1 /\ m < s.high /\ s.high \in Int /\ s.high < Len(a)
        /\ a[m + 1] \in Int /\ a[m + 2] \in Int /\ (m > 0 => a[m] \in Int)
    BY <2>2, OpenFacts
  <2>10. ByComparison(a, t, f, s, m)
    <3>1. a[m + 1] \in Int
      BY <2>3
    <3> QED BY <1>2, <2>1, <3>1, IterateCases
  <2>4. CASE t = a[m + 1]
    <3>1. Iterate(a, t, f, s) = Stop("hit", m)
      BY <2>4, <2>10 DEF ByComparison
    <3>2. IsHit(a, t, Stop("hit", m))
      BY <2>3, <2>4 DEF IsHit, Stop
    <3> QED BY <3>1, <3>2 DEF Ends
  <2>5. CASE t < a[m + 1] /\ m > 0 /\ t > a[m]
    <3>1. Iterate(a, t, f, s) = Stop("gap", m - 1)
      BY <2>5, <2>10 DEF ByComparison
    <3>2. m - 1 \in 0 .. Len(a) - 2 /\ (m - 1) + 1 = m /\ (m - 1) + 2 = m + 1 /\ a[m] < t
      BY <2>3, <2>5
    <3>3. IsGap(a, t, Stop("gap", m - 1))
      BY <2>5, <3>2 DEF IsGap, Stop
    <3> QED BY <3>1, <3>3 DEF Ends
  <2>6. CASE t < a[m + 1] /\ ~ (m > 0 /\ t > a[m])
    BY <2>2, <2>6, <2>10, LeftFacts DEF ByComparison
  <2>7. CASE t > a[m + 1] /\ m < Len(a) - 1 /\ t < a[m + 2]
    <3>1. Iterate(a, t, f, s) = Stop("gap", m)
      BY <2>7, <2>10 DEF ByComparison
    <3>2. m \in 0 .. Len(a) - 2 /\ a[m + 1] < t
      BY <2>3, <2>7
    <3>3. IsGap(a, t, Stop("gap", m))
      BY <2>7, <3>2 DEF IsGap, Stop
    <3> QED BY <3>1, <3>3 DEF Ends
  <2>8. CASE t > a[m + 1] /\ ~ (m < Len(a) - 1 /\ t < a[m + 2])
    BY <2>2, <2>8, <2>10, RightFacts DEF ByComparison
  <2>9. t = a[m + 1] \/ t < a[m + 1] \/ t > a[m + 1]
    BY <2>3
  <2> QED BY <2>4, <2>5, <2>6, <2>7, <2>8, <2>9
<1> QED BY <1>1, <1>2

\* From every such state the loop ends at the target, in the gap around it or,
\* with more than four elements, beside it.
LEMMA LoopEnds ==
  ASSUME NEW a \in Seq(Int), NEW t \in Int, Len(a) > 1, a[1] < t, t < a[Len(a)]
  PROVE  \A s \in Probes(Len(a)) : Bracketed(a, t, s) => Ends(a, t, SearchFrom(a, t)[s])
<1> DEFINE Bad(s) == Bracketed(a, t, s) /\ ~ Ends(a, t, SearchFrom(a, t)[s])
           Widths == {k \in Nat : \E s \in Probes(Len(a)) : Bad(s) /\ Width(s) = k}
<1> SUFFICES ASSUME NEW s \in Probes(Len(a)), Bad(s) PROVE FALSE
  OBVIOUS
<1>1. \A r \in Probes(Len(a)) : Bracketed(a, t, r) => Width(r) \in Nat
  BY DEF Probes, Width, Bracketed
<1>2. Width(s) \in Widths
  BY <1>1
<1>3. PICK k \in Widths : \A y \in Widths : k <= y
  BY <1>2, LeastElement
<1>4. PICK q \in Probes(Len(a)) : Bad(q) /\ Width(q) = k
  BY <1>3
<1>5. SearchFrom(a, t)[q] = Iterate(a, t, SearchFrom(a, t), q)
  BY SearchFromUnfolds
<1>6. PICK r \in Probes(Len(a)) :
        /\ Bracketed(a, t, r) /\ Width(r) < Width(q)
        /\ Iterate(a, t, SearchFrom(a, t), q) = SearchFrom(a, t)[r]
  BY <1>4, <1>5, IterateFacts
<1>7. Bad(r)
  BY <1>4, <1>5, <1>6
<1>8. Width(r) \in Widths /\ Width(r) < k
  BY <1>1, <1>4, <1>6, <1>7
<1>9. k <= Width(r) /\ k \in Nat /\ Width(r) \in Nat
  BY <1>3, <1>8
<1> QED BY <1>8, <1>9

LEMMA SearchEnds ==
  ASSUME NEW a \in Seq(Int), NEW t \in Int, Len(a) > 1, a[1] < t, t < a[Len(a)]
  PROVE  Ends(a, t, SearchLoop(a, t))
<1> DEFINE s == Probe(0, Len(a) - 1, 0)
<1>1. s \in Probes(Len(a))
  BY DEF Probes, Probe
<1>2. Bracketed(a, t, s)
  <2>1. a[1] \in Int /\ a[Len(a)] \in Int /\ (Len(a) - 1) + 1 = Len(a)
    OBVIOUS
  <2> QED BY <2>1 DEF Bracketed, Probe
<1> QED BY <1>1, <1>2, LoopEnds DEF SearchLoop

-----------------------------------------------------------------------------
(* What the two functions return *)

\* The answers of findIndex: below the first element, above the last, at the
\* target, in the gap around it, or beside it.
IndexCase(a, t, n, i) ==
  \/ t <= a[1] /\ i = 0
  \/ a[1] < t /\ a[n] <= t /\ i = n - 1
  \/ a[i + 1] = t
  \/ a[1] < t /\ i \in 0 .. n - 2 /\ a[i + 1] < t /\ t < a[i + 2]
  \/ n > 4 /\ \E j \in 0 .. n - 1 : a[j + 1] = t /\ i \in {j - 1, j + 1}

LEMMA FindIndexCases ==
  ASSUME NEW a \in Seq(Int), a # <<>>, NEW t \in Int, NEW i, i = FindIndex(a, t)
  PROVE  i \in 0 .. Len(a) - 1 /\ IndexCase(a, t, Len(a), i)
<1>1. Len(a) \in Nat /\ Len(a) > 0 /\ a[1] \in Int /\ a[Len(a)] \in Int
  OBVIOUS
<1>2. CASE t <= a[1]
  <2>1. i = 0
    BY <1>2 DEF FindIndex
  <2> QED BY <1>1, <1>2, <2>1 DEF IndexCase
<1>3. CASE ~ (t <= a[1]) /\ t >= a[Len(a)]
  <2>1. i = Len(a) - 1
    BY <1>3 DEF FindIndex
  <2> QED BY <1>1, <1>3, <2>1 DEF IndexCase
<1>4. CASE ~ (t <= a[1]) /\ ~ (t >= a[Len(a)])
  <2> DEFINE stop == SearchLoop(a, t)
  <2>1. i = stop.at
    BY <1>4 DEF FindIndex
  <2>2. Len(a) > 1 /\ a[1] < t /\ t < a[Len(a)]
    <3>1. Len(a) # 1
      BY <1>1, <1>4
    <3> QED BY <1>1, <1>4, <3>1
  <2>3. Ends(a, t, stop)
    BY <2>2, SearchEnds
  <2> HIDE DEF stop
  <2>4. CASE IsHit(a, t, stop)
    BY <2>1, <2>4 DEF IsHit, IndexCase
  <2>5. CASE IsGap(a, t, stop)
    BY <1>1, <2>1, <2>2, <2>5 DEF IsGap, IndexCase
  <2>6. CASE IsOut(a, t, stop)
    BY <2>1, <2>6 DEF IsOut, IndexCase
  <2> QED BY <2>3, <2>4, <2>5, <2>6 DEF Ends
<1> QED BY <1>2, <1>3, <1>4

LEMMA FindClosestCases ==
  ASSUME NEW a \in Seq(Int), a # <<>>, NEW t \in Int, NEW e, e = FindClosestElement(a, t)
  PROVE  \/ t <= a[1] /\ e = a[1]
         \/ t >= a[Len(a)] /\ e = a[Len(a)]
         \/ \E k \in 1 .. Len(a) : a[k] = t /\ e = a[k]
         \/ \E k \in 1 .. Len(a) - 1 :
              a[k] < t /\ t < a[k + 1] /\ e = GetClosest(t, a[k], a[k + 1])
         \/ t \in Elements(a) /\ e \in 0 .. Len(a) - 1
<1>1. Len(a) \in Nat /\ Len(a) > 0 /\ a[1] \in Int /\ a[Len(a)] \in Int
  OBVIOUS
<1>2. CASE t <= a[1]
  BY <1>2 DEF FindClosestElement
<1>3. CASE ~ (t <= a[1]) /\ t >= a[Len(a)]
  BY <1>3 DEF FindClosestElement
<1>4. CASE ~ (t <= a[1]) /\ ~ (t >= a[Len(a)])
  <2> DEFINE stop == SearchLoop(a, t)
  <2>1. e = IF stop.how = "hit" THEN a[stop.at + 1]
            ELSE IF stop.how = "gap" THEN GetClosest(t, a[stop.at + 1], a[stop.at + 2])
            ELSE stop.at
    BY <1>4 DEF FindClosestElement
  <2>2. Len(a) > 1 /\ a[1] < t /\ t < a[Len(a)]
    <3>1. Len(a) # 1
      BY <1>1, <1>4
    <3> QED BY <1>1, <1>4, <3>1
  <2>3. Ends(a, t, stop)
    BY <2>2, SearchEnds
  <2> HIDE DEF stop
  <2>4. CASE IsHit(a, t, stop)
    <3>1. stop.at + 1 \in 1 .. Len(a) /\ a[stop.at + 1] = t /\ e = a[stop.at + 1]
      BY <1>1, <2>1, <2>4 DEF IsHit
    <3> QED BY <3>1
  <2>5. CASE IsGap(a, t, stop)
    <3> DEFINE k == stop.at + 1
    <3>0. stop.at \in 0 .. Len(a) - 2
      BY <2>5 DEF IsGap
    <3>1. k \in 1 .. Len(a) - 1
      BY <1>1, <3>0
    <3>3. stop.at + 2 = k + 1
      BY <3>0
    <3>2. a[k] < t /\ t < a[k + 1] /\ e = GetClosest(t, a[k], a[k + 1])
      BY <2>1, <2>5, <3>3 DEF IsGap
    <3> HIDE DEF k
    <3> QED BY <3>1, <3>2
  <2>6. CASE IsOut(a, t, stop)
    <3>1. PICK j \in 0 .. Len(a) - 1 : a[j + 1] = t
      BY <2>6 DEF IsOut
    <3>2. j + 1 \in 1 .. Len(a)
      BY <1>1
    <3>3. t \in Elements(a)
      BY <3>1, <3>2 DEF Elements
    <3>4. e = stop.at /\ e \in 0 .. Len(a) - 1
      BY <2>1, <2>6 DEF IsOut
    <3> QED BY <3>3, <3>4
  <2> QED BY <2>3, <2>4, <2>5, <2>6 DEF Ends
<1> QED BY <1>2, <1>3, <1>4

\* What the ring assumes of findIndex holds of it on every slice: an index of
\* the slice; the place of an id that is new; and the index of one that is there
\* if the slice is in order and has at most four elements (dht.go:103-141).
THEOREM FindIndexLocates ==
  \A a \in Seq(Int), t \in Int : Locates(a, t, FindIndex(a, t))
<1> SUFFICES ASSUME NEW a \in Seq(Int), NEW t \in Int, NEW i, i = FindIndex(a, t)
             PROVE  Locates(a, t, i)
  OBVIOUS
<1>1. CASE a = <<>>
  BY <1>1 DEF Locates, FindIndex
<1>2. CASE a # <<>>
  <2> DEFINE n == Len(a)
  <2>1. /\ n \in Nat /\ n > 0 /\ i \in 0 .. n - 1
        /\ \A k \in 1 .. n : a[k] \in Int
    <3>1. n \in Nat /\ n > 0 /\ \A k \in 1 .. n : a[k] \in Int
      BY <1>2
    <3>2. i \in 0 .. Len(a) - 1
      BY <1>2, FindIndexCases, Zenon
    <3> QED BY <3>1, <3>2
  <2>2. IndexCase(a, t, n, i)
    BY <1>2, FindIndexCases, Zenon
  <2>3. t \in Elements(a) <=> \E k \in 1 .. n : a[k] = t
    BY DEF Elements
  <2>4. Ascending(a) <=> \A j, k \in 1 .. n : j < k => a[j] < a[k]
    BY DEF Ascending
  <2> HIDE DEF n
  <2>5. ASSUME t \notin Elements(a)
        PROVE  IF t < a[1] THEN i = 0
               ELSE a[i + 1] < t /\ (i + 1 < n => t < a[i + 2])
    <3>1. \A j \in 0 .. n - 1 : a[j + 1] # t
      <4> SUFFICES ASSUME NEW j \in 0 .. n - 1 PROVE a[j + 1] # t
        OBVIOUS
      <4>1. j + 1 \in 1 .. n
        BY <2>1
      <4> QED BY <2>3, <2>5, <4>1
    <3>2. a[1] # t /\ a[n] # t /\ a[1] \in Int /\ a[n] \in Int
      BY <2>1, <2>3, <2>5
    <3>3. CASE t <= a[1] /\ i = 0
      BY <3>2, <3>3
    <3>4. CASE a[1] < t /\ a[n] <= t /\ i = n - 1
      <4>1. i + 1 = n
        BY <2>1, <3>4
      <4> QED BY <3>2, <3>4, <4>1
    <3>5. CASE a[1] < t /\ i \in 0 .. n - 2 /\ a[i + 1] < t /\ t < a[i + 2]
      BY <3>2, <3>5
    <3> QED BY <2>1, <2>2, <3>1, <3>3, <3>4, <3>5 DEF IndexCase
  <2>6. ASSUME Ascending(a), n <= 4, NEW k \in 1 .. n, a[k] = t
        PROVE  i = k - 1
    <3>1. \A j \in 1 .. n : (j < k => a[j] < t) /\ (k < j => t < a[j])
      BY <2>4, <2>6
    <3>2. \A j \in 1 .. n : (a[j] <= t => j <= k) /\ (t <= a[j] => k <= j)
      BY <2>1, <3>1
    <3>3. i + 1 \in 1 .. n /\ 1 \in 1 .. n /\ n \in 1 .. n
      BY <2>1
    <3>4. CASE t <= a[1] /\ i = 0
      BY <2>1, <3>2, <3>3, <3>4
    <3>5. CASE a[n] <= t /\ i = n - 1
      BY <2>1, <3>2, <3>3, <3>5
    <3>6. CASE a[i + 1] = t
      BY <2>1, <3>2, <3>3, <3>6
    <3>7. CASE i \in 0 .. n - 2 /\ a[i + 1] < t /\ t < a[i + 2]
      <4>1. i + 2 \in 1 .. n /\ a[i + 1] \in Int /\ a[i + 2] \in Int
        BY <2>1, <3>3, <3>7
      <4>2. i + 1 <= k /\ k <= i + 2
        <5>1. a[i + 1] <= t /\ t <= a[i + 2]
          BY <3>7, <4>1
        <5> QED BY <3>2, <3>3, <4>1, <5>1
      <4>3. k # i + 1
        BY <2>6, <3>7, <4>1
      <4>4. k # i + 2
        BY <2>6, <3>7, <4>1
      <4> QED BY <2>1, <4>2, <4>3, <4>4
    <3> QED BY <2>1, <2>2, <2>6, <3>4, <3>5, <3>6, <3>7 DEF IndexCase
  <2> QED BY <1>2, <2>1, <2>5, <2>6 DEF Locates, n
<1> QED BY <1>1, <1>2

\* What the ring assumes of findClosestElement holds of it on every slice: it
\* returns an element, unless the target is one itself (dht.go:143-188).
THEOREM FindClosestElementRoutes ==
  \A a \in Seq(Int), t \in Int : Routes(a, t, FindClosestElement(a, t))
<1> SUFFICES ASSUME NEW a \in Seq(Int), NEW t \in Int, NEW e, e = FindClosestElement(a, t)
             PROVE  Routes(a, t, e)
  OBVIOUS
<1>1. CASE a = <<>>
  BY <1>1 DEF Routes, FindClosestElement
<1>2. CASE a # <<>>
  <2>1. Len(a) \in Nat /\ Len(a) > 0
    BY <1>2
  <2>2. \A k \in 1 .. Len(a) : a[k] \in Elements(a)
    BY DEF Elements
  <2>3. \/ e = a[1]
        \/ e = a[Len(a)]
        \/ \E k \in 1 .. Len(a) : e = a[k]
        \/ \E k \in 1 .. Len(a) - 1 : e = GetClosest(t, a[k], a[k + 1])
        \/ t \in Elements(a) /\ e \in 0 .. Len(a) - 1
    BY <1>2, FindClosestCases
  <2>4. ASSUME NEW k \in 1 .. Len(a) - 1, e = GetClosest(t, a[k], a[k + 1])
        PROVE  e \in Elements(a)
    <3>1. e = a[k] \/ e = a[k + 1]
      BY <2>4 DEF GetClosest
    <3>2. k \in 1 .. Len(a) /\ k + 1 \in 1 .. Len(a)
      BY <2>1
    <3> QED BY <2>2, <3>1, <3>2
  <2>5. 1 \in 1 .. Len(a) /\ Len(a) \in 1 .. Len(a)
    BY <2>1
  <2> QED BY <1>2, <2>2, <2>3, <2>4, <2>5 DEF Routes
<1> QED BY <1>1, <1>2

-----------------------------------------------------------------------------
(* The machine computes the function *)

State == Probe(low, high, mid)

\* While the machine loops, its variables are a state of the loop that brackets
\* the target and from which the function comes to its result.
InLoop ==
  pc = "loop" =>
    /\ N > 1 /\ At(0) < target /\ target < At(N - 1)
    /\ Bracketed(arr, target, State)
    /\ SearchFrom(arr, target)[State] = SearchLoop(arr, target)

Inv == TypeOK /\ InLoop

LEMMA ArgumentsTyped ==
  ASSUME TypeOK
  PROVE  /\ arr \in Seq(Int) /\ N \in Nat /\ target \in Int
         /\ \A i \in 0 .. N - 1 : At(i) \in Int
<1>1. Ints \subseteq Int
  BY HalfRangeAssumption DEF Ints
<1>2. arr \in Seq(Int) /\ N \in Nat /\ target \in Int
  <2>1. arr \in Seq(Ints) /\ target \in Ints /\ N \in Nat
    BY DEF TypeOK, N
  <2>2. arr = [i \in 1 .. Len(arr) |-> arr[i]] /\ \A i \in 1 .. Len(arr) : arr[i] \in Int
    BY <1>1, <2>1
  <2>3. [i \in 1 .. Len(arr) |-> arr[i]] \in Seq(Int)
    BY <2>2
  <2> QED BY <1>1, <2>1, <2>2, <2>3
<1>3. \A i \in 0 .. N - 1 : At(i) \in Int
  BY <1>2 DEF N, At
<1> QED BY <1>2, <1>3

\* Two distances that fit in a word are compared as integers.
LEMMA GetClosestInReach ==
  ASSUME NEW t \in Int, NEW v1 \in Int, NEW v2 \in Int,
         v1 < t, t < v2, t - v1 < HalfRange, v2 - t < HalfRange
  PROVE  GetClosest(t, v1, v2) = IF t - v1 >= v2 - t THEN v2 ELSE v1
  BY HalfRangeAssumption DEF GetClosest, Minus

\* While the loop runs the probe lies inside the slice.
LEMMA MiddleInRange ==
  ASSUME TypeOK, pc = "loop", low < high
  PROVE  /\ Middle \in 0 .. N - 1
         /\ low <= Middle /\ Middle < high
         /\ N \in Nat /\ high <= N - 1
  BY DEF TypeOK, Middle, N

LEMMA StateTyped ==
  ASSUME TypeOK
  PROVE  /\ State \in Probes(Len(arr))
         /\ State.low = low /\ State.high = high /\ State.mid = mid
  BY DEF TypeOK, State, Probe, Probes, N

LEMMA LoopIsOpen ==
  ASSUME Inv, pc = "loop", low < high
  PROVE  OpenAt(arr, target, State, Middle)
<1>1. State \in Probes(Len(arr)) /\ State.low = low /\ State.high = high
  BY StateTyped DEF Inv
<1>2. Len(arr) > 1 /\ arr[1] < target /\ target < arr[Len(arr)] /\ Bracketed(arr, target, State)
  <2>1. 0 + 1 = 1 /\ (N - 1) + 1 = N
    BY ArgumentsTyped DEF Inv
  <2> QED BY <2>1 DEF Inv, InLoop, N, At
<1> QED BY <1>1, <1>2 DEF OpenAt, Middle

\* What the function says of the state the machine is in.
LEMMA LoopUnfolds ==
  ASSUME Inv, pc = "loop"
  PROVE  /\ SearchLoop(arr, target) = Iterate(arr, target, SearchFrom(arr, target), State)
         /\ low < high => ByComparison(arr, target, SearchFrom(arr, target), State, Middle)
<1>1. arr \in Seq(Int) /\ target \in Int /\ State \in Probes(Len(arr))
      /\ State.low = low /\ State.high = high
  BY StateTyped, ArgumentsTyped DEF Inv
<1>2. SearchFrom(arr, target)[State] = Iterate(arr, target, SearchFrom(arr, target), State)
  BY <1>1, SearchFromUnfolds
<1>3. SearchLoop(arr, target) = Iterate(arr, target, SearchFrom(arr, target), State)
  BY <1>2 DEF Inv, InLoop
<1>4. ASSUME low < high
      PROVE  ByComparison(arr, target, SearchFrom(arr, target), State, Middle)
  <2>1. Middle \in 0 .. N - 1
    BY <1>4, MiddleInRange DEF Inv
  <2>2. arr[Middle + 1] \in Int
    BY <2>1, ArgumentsTyped DEF Inv, At
  <2>3. Middle = (State.low + State.high) \div 2 /\ ~ (State.low >= State.high)
    <3>1. low \in Int /\ high \in Int
      BY DEF Inv, TypeOK
    <3> QED BY <1>1, <1>4, <3>1 DEF Middle
  <2> QED BY <1>1, <2>2, <2>3, IterateCases
<1> QED BY <1>3, <1>4

LEMMA InvInit == Init => Inv
<1> SUFFICES ASSUME Init PROVE Inv
  OBVIOUS
<1>1. arr \in Seq(Ints)
  BY ArraysAssumption DEF Init
<1>2. N \in Nat
  BY <1>1 DEF N
<1> QED BY <1>1, <1>2 DEF Init, Inv, TypeOK, InLoop

LEMMA ResultTyped ==
  ASSUME TypeOK, Next
  PROVE  result' \in Int
<1>1. N \in Nat /\ \A i \in 0 .. N - 1 : At(i) \in Int
  BY ArgumentsTyped
<1>2. ASSUME NEW i \in 0 .. N - 1, Return(i) PROVE result' \in Int
  BY <1>1, <1>2 DEF Return
<1>3. ASSUME NEW i \in 0 .. N - 2, ReturnGap(i) PROVE result' \in Int
  <2>1. At(i) \in Int /\ At(i + 1) \in Int
    BY <1>1
  <2> QED BY <1>3, <2>1 DEF ReturnGap, GetClosest
<1>4. CASE EmptySlice
  BY <1>4 DEF EmptySlice
<1>5. CASE AtOrBelowFirst
  BY <1>1, <1>2, <1>5 DEF AtOrBelowFirst
<1>6. CASE AtOrAboveLast
  BY <1>1, <1>2, <1>6 DEF AtOrAboveLast
<1>7. CASE Hit
  BY <1>2, <1>7, MiddleInRange DEF Hit
<1>8. CASE GapBelow
  BY <1>3, <1>8, MiddleInRange DEF GapBelow, InGapBelow
<1>9. CASE GapAbove
  BY <1>3, <1>9, MiddleInRange DEF GapAbove, InGapAbove
<1>10. CASE FallOut
  BY <1>10 DEF FallOut, TypeOK
<1>11. CASE EnterLoop \/ GoLeft \/ GoRight
  BY <1>11 DEF EnterLoop, GoLeft, GoRight, TypeOK
<1> QED
  BY <1>4, <1>5, <1>6, <1>7, <1>8, <1>9, <1>10, <1>11 DEF Next

\* The arguments of a call never change.
LEMMA ArgumentsFixed ==
  ASSUME [Next]_vars
  PROVE  UNCHANGED <<fn, arr, target>>
  BY DEF Next, vars, EmptySlice, AtOrBelowFirst, AtOrAboveLast, EnterLoop, Hit,
         GapBelow, GoLeft, GapAbove, GoRight, FallOut, Return, ReturnGap

LEMMA TypeOKStep ==
  ASSUME TypeOK, [Next]_vars
  PROVE  TypeOK'
<1>1. CASE UNCHANGED vars
  BY <1>1 DEF vars, TypeOK, N
<1>2. CASE Next
  <2> USE ResultTyped, ArgumentsFixed, <1>2
  <2>1. CASE EnterLoop
    <3>1. N \in Nat /\ N > 0
      BY <2>1 DEF EnterLoop, TypeOK, N
    <3> QED BY <2>1, <3>1 DEF EnterLoop, TypeOK, N
  <2>2. CASE GoLeft
    BY <2>2, MiddleInRange DEF GoLeft, TypeOK, N
  <2>3. CASE GoRight
    BY <2>3, MiddleInRange DEF GoRight, TypeOK, N
  <2>4. CASE EmptySlice \/ AtOrBelowFirst \/ AtOrAboveLast \/ Hit
             \/ GapBelow \/ GapAbove \/ FallOut
    BY <2>4 DEF EmptySlice, AtOrBelowFirst, AtOrAboveLast, Hit, GapBelow,
                GapAbove, FallOut, Return, ReturnGap, TypeOK, N
  <2> QED
    BY <1>2, <2>1, <2>2, <2>3, <2>4 DEF Next
<1> QED BY <1>1, <1>2

LEMMA InLoopStep ==
  ASSUME Inv, [Next]_vars
  PROVE  InLoop'
<1>1. CASE UNCHANGED vars
  BY <1>1 DEF vars, Inv, InLoop, N, At, State
<1>2. CASE pc' # "loop"
  BY <1>2 DEF InLoop
<1>3. CASE EnterLoop
  <2>1. N \in Nat /\ N > 0 /\ target \in Int
    BY <1>3, ArgumentsTyped DEF EnterLoop, Inv
  <2>2. At(0) \in Int /\ At(N - 1) \in Int
    BY <2>1, ArgumentsTyped DEF Inv
  <2>3. At(0) < target /\ target < At(N - 1)
    BY <1>3, <2>1, <2>2 DEF EnterLoop
  <2>4. N > 1
    <3>1. N = 1 => At(0) = At(N - 1)
      OBVIOUS
    <3> QED BY <2>1, <2>2, <2>3, <3>1
  <2>5. State' = Probe(0, N - 1, 0) /\ arr' = arr /\ target' = target
    BY <1>3 DEF EnterLoop, State
  <2>6. SearchFrom(arr, target)[Probe(0, N - 1, 0)] = SearchLoop(arr, target)
    BY DEF SearchLoop, N
  <2>7. Bracketed(arr, target, Probe(0, N - 1, 0))
    BY <2>1, <2>2, <2>3, <2>4 DEF Bracketed, Probe, N, At
  <2> QED BY <2>3, <2>4, <2>5, <2>6, <2>7 DEF InLoop, N, At
<1>4. CASE GoLeft
  <2>1. OpenAt(arr, target, State, Middle) /\ arr \in Seq(Int) /\ target \in Int
    BY <1>4, LoopIsOpen, ArgumentsTyped DEF GoLeft, Inv
  <2>2. target < arr[Middle + 1] /\ ~ (Middle > 0 /\ target > arr[Middle])
    <3>1. (Middle - 1) + 1 = Middle
      BY <1>4, MiddleInRange DEF GoLeft, Inv
    <3> QED BY <1>4, <3>1 DEF GoLeft, InGapBelow, At
  <2>3. Bracketed(arr, target, Probe(State.low, Middle - 1, Middle))
    BY <2>1, <2>2, LeftFacts
  <2>4. SearchLoop(arr, target) = SearchFrom(arr, target)[Probe(State.low, Middle - 1, Middle)]
    BY <1>4, <2>2, LoopUnfolds DEF GoLeft, ByComparison
  <2>5. State' = Probe(State.low, Middle - 1, Middle) /\ arr' = arr /\ target' = target
    BY <1>4, StateTyped DEF GoLeft, State, Inv
  <2> QED BY <1>4, <2>3, <2>4, <2>5 DEF GoLeft, Inv, InLoop, N, At
<1>5. CASE GoRight
  <2>1. OpenAt(arr, target, State, Middle) /\ arr \in Seq(Int) /\ target \in Int
    BY <1>5, LoopIsOpen, ArgumentsTyped DEF GoRight, Inv
  <2>2. target > arr[Middle + 1] /\ ~ (Middle < Len(arr) - 1 /\ target < arr[Middle + 2])
    <3>1. (Middle + 1) + 1 = Middle + 2
      BY <1>5, MiddleInRange DEF GoRight, Inv
    <3> QED BY <1>5, <3>1 DEF GoRight, InGapAbove, At, N
  <2>3. Bracketed(arr, target, Probe(Middle + 1, State.high, Middle))
    BY <2>1, <2>2, RightFacts
  <2>4. SearchLoop(arr, target) = SearchFrom(arr, target)[Probe(Middle + 1, State.high, Middle)]
    BY <1>5, <2>2, LoopUnfolds DEF GoRight, ByComparison
  <2>5. State' = Probe(Middle + 1, State.high, Middle) /\ arr' = arr /\ target' = target
    BY <1>5, StateTyped DEF GoRight, State, Inv
  <2> QED BY <1>5, <2>3, <2>4, <2>5 DEF GoRight, Inv, InLoop, N, At
<1>6. CASE EmptySlice \/ AtOrBelowFirst \/ AtOrAboveLast \/ Hit
           \/ GapBelow \/ GapAbove \/ FallOut
  BY <1>6, <1>2 DEF EmptySlice, AtOrBelowFirst, AtOrAboveLast, Hit, GapBelow,
              GapAbove, FallOut, Return, ReturnGap
<1> QED
  BY <1>1, <1>3, <1>4, <1>5, <1>6 DEF Next

LEMMA InvHolds == Spec => []Inv
<1>1. Inv /\ [Next]_vars => Inv'
  BY TypeOKStep, InLoopStep DEF Inv
<1> QED BY InvInit, <1>1, PTL DEF Spec

\* The searches keep their variables typed and their loop invariant, on every
\* slice: the probe never leaves the slice, and the interval keeps bracketing
\* the target (dht.go:118-141 and 158-181).
THEOREM LoopInvariantHolds == Spec => [](TypeOK /\ LoopInvariant)
<1>1. Inv => TypeOK /\ LoopInvariant
  <2> SUFFICES ASSUME Inv, pc = "loop" PROVE LoopInvariant
    BY DEF Inv, LoopInvariant
  <2>1. /\ low <= high /\ At(low) <= target /\ target <= At(high)
        /\ low = high => mid \in {low - 1, low + 1}
        /\ N <= 4 => \/ low = 0 /\ high = N - 1
                     \/ N = 4 /\ low = 2 /\ high = 3
    BY StateTyped DEF Inv, InLoop, Bracketed, N, At
  <2>2. N > 1 /\ At(0) < target /\ target < At(N - 1) /\ N \in Nat
    BY ArgumentsTyped DEF Inv, InLoop
  <2>3. N <= 4 => low < high
    BY <2>1, <2>2
  <2> QED BY <2>1, <2>2, <2>3 DEF LoopInvariant
<1> QED BY <1>1, InvHolds, PTL

\* Every iteration that goes on narrows the interval, so either loop runs at
\* most Len(arr) times (dht.go:121 and 161).
THEOREM LoopNarrowsHolds == Spec => LoopNarrows
<1>1. Inv /\ [Next]_vars => [pc = "loop" /\ pc' = "loop" => high' - low' < high - low]_vars
  <2> SUFFICES ASSUME TypeOK, Next, pc = "loop", pc' = "loop"
               PROVE  high' - low' < high - low
    BY DEF vars, Inv
  <2>1. low \in Nat /\ high \in Int
    BY DEF TypeOK
  <2>2. CASE GoLeft
    BY <2>1, <2>2, MiddleInRange DEF GoLeft
  <2>3. CASE GoRight
    BY <2>1, <2>3, MiddleInRange DEF GoRight
  <2> QED
    BY <2>2, <2>3 DEF Next, EmptySlice, AtOrBelowFirst, AtOrAboveLast, EnterLoop,
                      Hit, GapBelow, GapAbove, FallOut, Return, ReturnGap
<1> QED BY <1>1, InvHolds, PTL DEF Spec, LoopNarrows

\* What the functions say of a machine in its loop.
LEMMA FunctionsInLoop ==
  ASSUME Inv, pc = "loop"
  PROVE  LET stop == SearchLoop(arr, target)
         IN  /\ FindIndex(arr, target) = stop.at
             /\ FindClosestElement(arr, target)
                  = IF stop.how = "hit" THEN At(stop.at)
                    ELSE IF stop.how = "gap"
                      THEN GetClosest(target, At(stop.at), arr[stop.at + 2])
                    ELSE stop.at
<1>1. N \in Nat /\ N > 1 /\ At(0) \in Int /\ At(N - 1) \in Int /\ target \in Int
  BY ArgumentsTyped DEF Inv, InLoop
<1>2. At(0) < target /\ target < At(N - 1) /\ 0 + 1 = 1 /\ (N - 1) + 1 = N
  BY <1>1 DEF Inv, InLoop
<1>3. ~ (target <= arr[1]) /\ ~ (target >= arr[Len(arr)]) /\ arr # <<>>
  BY <1>1, <1>2 DEF At, N
<1> QED BY <1>3 DEF FindIndex, FindClosestElement, At

\* The machine computes the functions of RingOps on every slice of every length
\* (dht.go:103-188): by induction on the iterations it still has to make.
THEOREM FunctionalHolds == Spec => []Functional
<1>1. Init => Functional
  BY DEF Init, Functional
<1>2. ASSUME Inv, Functional, [Next]_vars PROVE Functional'
  <2>1. UNCHANGED <<fn, arr, target>> /\ fn \in Fns
    BY <1>2, ArgumentsFixed DEF Inv, TypeOK
  <2>2. N \in Nat /\ target \in Int /\ \A i \in 0 .. N - 1 : At(i) \in Int
    BY <1>2, ArgumentsTyped DEF Inv
  <2>3. CASE UNCHANGED vars
    BY <1>2, <2>3 DEF vars, Functional
  <2>4. CASE EmptySlice
    <3>1. arr = <<>>
      BY <1>2, <2>4 DEF EmptySlice, N, Inv, TypeOK
    <3> QED BY <2>1, <2>4, <3>1 DEF EmptySlice, Functional, FindIndex, FindClosestElement
  <2>5. CASE AtOrBelowFirst
    <3>1. target <= arr[1] /\ arr # <<>>
      BY <2>5 DEF AtOrBelowFirst, At, N
    <3> QED
      BY <2>1, <2>5, <3>1 DEF AtOrBelowFirst, Return, At, Functional, FindIndex, FindClosestElement
  <2>6. CASE AtOrAboveLast
    <3>1. ~ (target <= arr[1]) /\ target >= arr[Len(arr)] /\ arr # <<>>
          /\ (Len(arr) - 1) + 1 = Len(arr)
      <4>1. At(0) \in Int /\ (N - 1) + 1 = N /\ 0 + 1 = 1
        BY <2>2, <2>6 DEF AtOrAboveLast
      <4> QED BY <2>2, <2>6, <4>1 DEF AtOrAboveLast, At, N
    <3> QED
      BY <2>1, <2>6, <3>1 DEF AtOrAboveLast, Return, At, N, Functional, FindIndex,
                              FindClosestElement
  <2>7. ASSUME pc = "loop", pc' = "done",
               NEW stop, stop = SearchLoop(arr, target),
               result' = IF fn = "findIndex" THEN stop.at
                         ELSE IF stop.how = "hit" THEN At(stop.at)
                         ELSE IF stop.how = "gap"
                           THEN GetClosest(target, At(stop.at), arr[stop.at + 2])
                         ELSE stop.at
        PROVE  Functional'
    BY <1>2, <2>1, <2>7, FunctionsInLoop DEF Functional
  <2>8. CASE Hit
    <3>1. pc = "loop" /\ low < high /\ target = arr[Middle + 1] /\ pc' = "done"
          /\ result' = IF fn = "findIndex" THEN Middle ELSE At(Middle)
      BY <2>8 DEF Hit, Return, At
    <3>2. SearchLoop(arr, target) = Stop("hit", Middle)
      BY <1>2, <3>1, LoopUnfolds DEF ByComparison
    <3>3. Stop("hit", Middle).at = Middle /\ Stop("hit", Middle).how = "hit"
      BY DEF Stop
    <3> QED BY <2>7, <3>1, <3>2, <3>3
  <2>9. CASE GapBelow
    <3>0. Middle \in 0 .. N - 1 /\ (Middle - 1) + 1 = Middle /\ (Middle - 1) + 2 = Middle + 1
      BY <1>2, <2>9, MiddleInRange DEF GapBelow, Inv
    <3>1. pc = "loop" /\ low < high /\ target < arr[Middle + 1] /\ pc' = "done"
          /\ Middle > 0 /\ target > arr[Middle]
          /\ result' = IF fn = "findIndex" THEN Middle - 1
                       ELSE GetClosest(target, At(Middle - 1), arr[(Middle - 1) + 2])
      BY <2>9, <3>0 DEF GapBelow, InGapBelow, ReturnGap, At
    <3>2. SearchLoop(arr, target) = Stop("gap", Middle - 1)
      BY <1>2, <3>1, LoopUnfolds DEF ByComparison
    <3>3. Stop("gap", Middle - 1).at = Middle - 1 /\ Stop("gap", Middle - 1).how = "gap"
      BY DEF Stop
    <3> QED BY <2>7, <3>1, <3>2, <3>3
  <2>10. CASE GapAbove
    <3>0. Middle \in 0 .. N - 1 /\ (Middle + 1) + 1 = Middle + 2
      BY <1>2, <2>10, MiddleInRange DEF GapAbove, Inv
    <3>1. pc = "loop" /\ low < high /\ target > arr[Middle + 1] /\ pc' = "done"
          /\ Middle < Len(arr) - 1 /\ target < arr[Middle + 2]
          /\ result' = IF fn = "findIndex" THEN Middle
                       ELSE GetClosest(target, At(Middle), arr[Middle + 2])
      BY <2>10, <3>0 DEF GapAbove, InGapAbove, ReturnGap, At, N
    <3>2. SearchLoop(arr, target) = Stop("gap", Middle)
      BY <1>2, <3>1, LoopUnfolds DEF ByComparison
    <3>3. Stop("gap", Middle).at = Middle /\ Stop("gap", Middle).how = "gap"
      BY DEF Stop
    <3> QED BY <2>7, <3>1, <3>2, <3>3
  <2>11. CASE FallOut
    <3>1. pc = "loop" /\ low >= high /\ pc' = "done" /\ result' = mid
      BY <2>11 DEF FallOut
    <3>2. State.low >= State.high /\ State.mid = mid
      BY <1>2, <3>1, StateTyped DEF Inv
    <3>3. SearchLoop(arr, target) = Stop("out", mid)
      BY <1>2, <3>1, <3>2, LoopUnfolds DEF Iterate
    <3>4. Stop("out", mid).at = mid /\ Stop("out", mid).how = "out"
      BY DEF Stop
    <3> QED BY <2>7, <3>1, <3>3, <3>4
  <2>12. CASE EnterLoop \/ GoLeft \/ GoRight
    BY <2>12 DEF EnterLoop, GoLeft, GoRight, Functional
  <2> QED
    BY <1>2, <2>3, <2>4, <2>5, <2>6, <2>8, <2>9, <2>10, <2>11, <2>12 DEF Next
<1> QED BY <1>1, <1>2, InvHolds, PTL DEF Spec

-----------------------------------------------------------------------------
(* The contracts of the callers *)

\* findIndex returns an index of the slice, sorted or not (dht.go:103-141).
THEOREM IndexInRangeHolds == Spec => []IndexInRange
<1>1. Inv /\ Functional => IndexInRange
  <2> SUFFICES ASSUME Inv, Functional, Done("findIndex"), N > 0
               PROVE  result \in 0 .. N - 1
    BY DEF IndexInRange
  <2>1. arr \in Seq(Int) /\ target \in Int /\ arr # <<>>
    BY ArgumentsTyped DEF Inv, N
  <2>2. result = FindIndex(arr, target)
    BY DEF Functional, Done
  <2> QED BY <2>1, <2>2, FindIndexCases DEF N
<1> QED BY <1>1, InvHolds, FunctionalHolds, PTL

\* insertId's contract: for an id that is not in the slice, sorted or not,
\* findIndex returns an index whose element is below the id and the next one
\* above it, or 0 if the id is below the first (dht.go:93).
THEOREM LowerNeighbourHolds == Spec => []LowerNeighbour
<1>1. Inv /\ Functional => LowerNeighbour
  <2> SUFFICES ASSUME Inv, Functional, Done("findIndex"), N > 0, Absent
               PROVE  IF target < At(0) THEN result = 0
                      ELSE At(result) < target /\ (result < N - 1 => target < At(result + 1))
    BY DEF LowerNeighbour
  <2>1. arr \in Seq(Int) /\ target \in Int /\ arr # <<>> /\ N \in Nat
    BY ArgumentsTyped DEF Inv, N
  <2>2. result = FindIndex(arr, target)
    BY DEF Functional, Done
  <2>3. Locates(arr, target, result)
    BY <2>1, <2>2, FindIndexLocates
  <2>4. target \notin Elements(arr)
    BY DEF Absent, Elements, N
  <2>5. result \in 0 .. N - 1
    BY <2>1, <2>2, FindIndexCases DEF N
  <2>6. IF target < arr[1] THEN result = 0
        ELSE arr[result + 1] < target /\ (result + 1 < Len(arr) => target < arr[result + 2])
    BY <2>1, <2>3, <2>4 DEF Locates
  <2>7. (result + 1) + 1 = result + 2 /\ 0 + 1 = 1 /\ (result < N - 1 => result + 1 < N)
    BY <2>1, <2>5
  <2> QED BY <2>6, <2>7 DEF At, N
<1> QED BY <1>1, InvHolds, FunctionalHolds, PTL

\* RemoveNode's use of it: for an id that is in a sorted slice, findIndex
\* returns its index or a neighbouring one, and its index itself if the slice
\* has at most four elements (dht.go:57, 140).
THEOREM HitOrNeighbourHolds == Spec => []HitOrNeighbour
<1>1. Inv /\ Functional => HitOrNeighbour
  <2> SUFFICES ASSUME Inv, Functional, Done("findIndex"), Sorted,
                      NEW j \in 0 .. N - 1, At(j) = target
               PROVE  result \in {j - 1, j, j + 1} /\ (N <= 4 => result = j)
    BY DEF HitOrNeighbour
  <2>1. /\ arr \in Seq(Int) /\ target \in Int /\ N \in Nat /\ N > 0 /\ j \in Int
        /\ \A i \in 0 .. N - 1 : At(i) \in Int
    BY ArgumentsTyped DEF Inv
  <2>2. result = FindIndex(arr, target)
    BY DEF Functional, Done
  <2>3. arr # <<>>
    BY <2>1 DEF N
  <2>4. result \in 0 .. N - 1 /\ IndexCase(arr, target, N, result)
    BY <2>1, <2>2, <2>3, FindIndexCases DEF N
  <2>5. N <= 4 => result = j
    <3>1. Locates(arr, target, result)
      BY <2>1, <2>2, FindIndexLocates
    <3>2. j + 1 \in 1 .. N /\ arr[j + 1] = target /\ (j + 1) - 1 = j
      BY <2>1 DEF At
    <3>3. Ascending(arr)
      BY DEF Sorted, Ascending, N
    <3>4. Len(arr) <= 4 => \A k \in 1 .. Len(arr) : arr[k] = target => result = k - 1
      BY <2>3, <3>1, <3>3 DEF Locates
    <3> QED BY <3>2, <3>4 DEF N
  <2>6. \A i, k \in 0 .. N - 1 : i < k => At(i) < At(k)
    <3> SUFFICES ASSUME NEW i \in 0 .. N - 1, NEW k \in 0 .. N - 1, i < k
                 PROVE  At(i) < At(k)
      OBVIOUS
    <3>1. i + 1 \in 1 .. N /\ k + 1 \in 1 .. N /\ i + 1 < k + 1
      BY <2>1
    <3> QED BY <3>1 DEF Sorted, At
  <2>7. \A i \in 0 .. N - 1 : (At(i) <= target => i <= j) /\ (target <= At(i) => j <= i)
    BY <2>1, <2>6
  <2>8. result \in {j - 1, j, j + 1}
    <3>0. 0 \in 0 .. N - 1 /\ N - 1 \in 0 .. N - 1 /\ (N - 1) + 1 = N /\ 0 + 1 = 1
      BY <2>1
    <3>6. At(0) = arr[1] /\ At(N - 1) = arr[N]
      BY <3>0 DEF At
    <3>1. CASE target <= arr[1] /\ result = 0
      <4>1. j <= 0
        BY <2>7, <3>0, <3>1, <3>6
      <4> QED BY <2>1, <3>1, <4>1
    <3>2. CASE arr[N] <= target /\ result = N - 1
      <4>1. N - 1 <= j
        BY <2>7, <3>0, <3>2, <3>6
      <4> QED BY <2>1, <3>2, <4>1
    <3>3. CASE arr[result + 1] = target
      BY <2>1, <2>4, <2>7, <3>3 DEF At
    <3>4. CASE result \in 0 .. N - 2 /\ arr[result + 1] < target /\ target < arr[result + 2]
      <4>1. result + 1 \in 0 .. N - 1 /\ (result + 1) + 1 = result + 2
            /\ At(result) = arr[result + 1]
        BY <2>1, <3>4 DEF At
      <4>2. At(result + 1) = arr[result + 2]
        BY <4>1 DEF At
      <4>3. At(result) \in Int /\ At(result + 1) \in Int
        BY <2>1, <2>4, <4>1
      <4>4. result <= j /\ j <= result + 1
        BY <2>1, <2>4, <2>7, <3>4, <4>1, <4>2, <4>3
      <4> QED BY <2>1, <2>4, <4>4
    <3>5. CASE \E i \in 0 .. N - 1 : arr[i + 1] = target /\ result \in {i - 1, i + 1}
      <4>1. PICK i \in 0 .. N - 1 : arr[i + 1] = target /\ result \in {i - 1, i + 1}
        BY <3>5
      <4>2. i = j
        BY <2>1, <2>7, <4>1 DEF At
      <4> QED BY <4>1, <4>2
    <3> QED BY <2>4, <3>1, <3>2, <3>3, <3>4, <3>5 DEF IndexCase
  <2> QED BY <2>5, <2>8
<1> QED BY <1>1, InvHolds, FunctionalHolds, PTL

\* Of the two ends of the gap the nearer is picked, and it is the nearest of a
\* sorted slice.
LEMMA GapNearest ==
  ASSUME NEW a \in Seq(Int), NEW t \in Int, NEW k \in 1 .. Len(a) - 1,
         a[k] < t, t < a[k + 1],
         t - a[k] < HalfRange, a[k + 1] - t < HalfRange,
         \A i, j \in 1 .. Len(a) : i < j => a[i] < a[j]
  PROVE  LET e == GetClosest(t, a[k], a[k + 1])
         IN  \A j \in 1 .. Len(a) : Distance(e, t) <= Distance(a[j], t)
<1> DEFINE n == Len(a)
           e == GetClosest(t, a[k], a[k + 1])
<1>1. n \in Nat /\ k \in 1 .. n /\ k + 1 \in 1 .. n /\ \A j \in 1 .. n : a[j] \in Int
  OBVIOUS
<1>2. e = IF t - a[k] >= a[k + 1] - t THEN a[k + 1] ELSE a[k]
  BY <1>1, GetClosestInReach
<1> HIDE DEF n, e
<1> SUFFICES ASSUME NEW j \in 1 .. n PROVE Distance(e, t) <= Distance(a[j], t)
  BY DEF n, e
<1>3. \A i \in 1 .. n : (i < j => a[i] < a[j]) /\ (j < i => a[j] < a[i])
  BY DEF n
<1>4. (a[j] <= a[k] \/ a[k + 1] <= a[j]) /\ a[j] \in Int /\ a[k] \in Int /\ a[k + 1] \in Int
  <2>1. j < k \/ j = k \/ j = k + 1 \/ k + 1 < j
    BY <1>1
  <2> QED BY <1>1, <1>3, <2>1
<1> QED BY <1>2, <1>4 DEF Distance

\* Routing: a key that is not itself an id goes to an element of the slice,
\* sorted or not; if it is sorted, to one at least distance from the key's hash,
\* within the reach of the word's subtraction (dht.go:143-188).
THEOREM ClosestNodeHolds == Spec => []ClosestNode
<1>1. Inv /\ Functional => ClosestNode
  <2> SUFFICES ASSUME Inv, Functional, Done("findClosestElement"), N > 0, Absent
               PROVE  \E i \in 1 .. N :
                        /\ result = arr[i]
                        /\ Sorted /\ NeighboursInReach =>
                             \A j \in 1 .. N : Distance(arr[i], target) <= Distance(arr[j], target)
    BY DEF ClosestNode
  <2>1. /\ arr \in Seq(Int) /\ target \in Int /\ N \in Nat /\ arr # <<>>
        /\ \A i \in 1 .. N : arr[i] \in Int
    BY ArgumentsTyped DEF Inv, N
  <2>2. result = FindClosestElement(arr, target)
    BY DEF Functional, Done, Fns
  <2>3. 1 \in 1 .. N /\ N \in 1 .. N
    BY <2>1
  <2>4. target \notin Elements(arr) /\ \A k \in 1 .. N : arr[k] # target
    BY DEF Absent, Elements, N
  <2>5. \/ target <= arr[1] /\ result = arr[1]
        \/ target >= arr[N] /\ result = arr[N]
        \/ \E k \in 1 .. N - 1 :
             /\ arr[k] < target /\ target < arr[k + 1]
             /\ result = GetClosest(target, arr[k], arr[k + 1])
    BY <2>1, <2>2, <2>4, FindClosestCases DEF N
  <2>6. CASE target <= arr[1] /\ result = arr[1]
    <3>1. ASSUME Sorted, NEW j \in 1 .. N
          PROVE  Distance(arr[1], target) <= Distance(arr[j], target)
      <4>1. arr[1] <= arr[j] /\ arr[1] \in Int /\ arr[j] \in Int
        <5>1. j = 1 \/ 1 < j
          BY <2>1
        <5> QED BY <2>1, <2>3, <3>1, <5>1 DEF Sorted
      <4> QED BY <2>1, <2>6, <4>1 DEF Distance
    <3> QED BY <2>3, <2>6, <3>1
  <2>7. CASE target >= arr[N] /\ result = arr[N]
    <3>1. ASSUME Sorted, NEW j \in 1 .. N
          PROVE  Distance(arr[N], target) <= Distance(arr[j], target)
      <4>1. arr[j] <= arr[N] /\ arr[N] \in Int /\ arr[j] \in Int
        <5>1. j = N \/ j < N
          BY <2>1
        <5> QED BY <2>1, <2>3, <3>1, <5>1 DEF Sorted
      <4> QED BY <2>1, <2>7, <4>1 DEF Distance
    <3> QED BY <2>3, <2>7, <3>1
  <2>8. ASSUME NEW k \in 1 .. N - 1, arr[k] < target, target < arr[k + 1],
               result = GetClosest(target, arr[k], arr[k + 1])
        PROVE  \E i \in 1 .. N :
                 /\ result = arr[i]
                 /\ Sorted /\ NeighboursInReach =>
                      \A j \in 1 .. N : Distance(arr[i], target) <= Distance(arr[j], target)
    <3>1. k \in 1 .. N /\ k + 1 \in 1 .. N
      BY <2>1
    <3>2. PICK i \in 1 .. N : result = arr[i]
      BY <2>8, <3>1 DEF GetClosest
    <3>3. ASSUME Sorted, NeighboursInReach
          PROVE  \A j \in 1 .. N : Distance(result, target) <= Distance(arr[j], target)
      <4>1. target - arr[k] < HalfRange /\ arr[k + 1] - target < HalfRange
        BY <2>8, <3>3 DEF NeighboursInReach
      <4>2. \A x, j \in 1 .. Len(arr) : x < j => arr[x] < arr[j]
        BY <3>3 DEF Sorted, N
      <4> QED BY <2>1, <2>8, <4>1, <4>2, GapNearest DEF N
    <3> QED BY <3>2, <3>3
  <2> QED BY <2>5, <2>6, <2>7, <2>8
<1> QED BY <1>1, InvHolds, FunctionalHolds, PTL

=============================================================================
