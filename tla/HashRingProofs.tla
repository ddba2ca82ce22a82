--------------------------- MODULE HashRingProofs ---------------------------
EXTENDS HashRing, TLAPS, FiniteSetTheorems, SequenceTheorems

(* Slices *)

LEMMA SubSeqFacts ==
  ASSUME NEW arr \in Seq(Ids), NEW a \in 1 .. Len(arr) + 1, NEW b \in 0 .. Len(arr),
         a <= b + 1
  PROVE  /\ SubSeq(arr, a, b) \in Seq(Ids)
         /\ Len(SubSeq(arr, a, b)) = b - a + 1
         /\ \A k \in 1 .. b - a + 1 : SubSeq(arr, a, b)[k] = arr[a + k - 1]
OBVIOUS

LEMMA ConcatFacts ==
  ASSUME NEW s \in Seq(Ids), NEW t \in Seq(Ids)
  PROVE  /\ s \o t \in Seq(Ids)
         /\ Len(s \o t) = Len(s) + Len(t)
         /\ \A k \in 1 .. Len(s) : (s \o t)[k] = s[k]
         /\ \A k \in 1 .. Len(t) : (s \o t)[Len(s) + k] = t[k]
OBVIOUS

LEMMA FunctionIsSeq ==
  ASSUME NEW n \in Nat, NEW f \in [1 .. n -> Ids]
  PROVE  f \in Seq(Ids) /\ Len(f) = n
OBVIOUS

\* What the process is given has the types the assumptions say.
LEMMA GivenTyped ==
  ASSUME scenario \in Scenarios
  PROVE  /\ MaxIds \in Nat /\ Len(ConfigNodes) + Len(SyncedNodes) <= MaxIds
         /\ ConfigNodes \in Seq(Strings) /\ SyncedNodes \in Seq(Strings)
         /\ NewNames \subseteq Strings /\ RemovedNames \subseteq Strings /\ Keys \subseteq Strings
BY ScenariosAssumption DEF MaxIds, ConfigNodes, SyncedNodes, NewNames, RemovedNames, Keys

\* What the searches may be relied on for, for every slice the ring can have.
LEMMA SearchContracts ==
  ASSUME scenario \in Scenarios,
         NEW arr \in Seq(Ids), Len(arr) <= MaxIds, NEW x \in Ids
  PROVE  Locates(arr, x, IndexFor(arr, x)) /\ Routes(arr, x, ClosestTo(arr, x))
<1>1. Len(arr) \in 0 .. MaxIds /\ arr \in [1 .. Len(arr) -> Ids]
  BY GivenTyped
<1> QED BY <1>1, SearchAssumption DEF MaxIds

LEMMA FindIndexRange ==
  ASSUME scenario \in Scenarios,
         NEW arr \in Seq(Ids), Len(arr) <= MaxIds, NEW x \in Ids
  PROVE  /\ IndexFor(arr, x) \in Nat
         /\ Len(arr) > 0 => IndexFor(arr, x) < Len(arr)
         /\ ClosestTo(arr, x) \in Ids \cup 0 .. MaxIds
<1>1. Locates(arr, x, IndexFor(arr, x)) /\ Routes(arr, x, ClosestTo(arr, x))
  BY SearchContracts
<1>2. Elements(arr) \subseteq Ids /\ Len(arr) \in Nat /\ MaxIds \in Nat
  BY GivenTyped DEF Elements
<1>3. CASE arr = <<>>
  BY <1>1, <1>2, <1>3 DEF Locates, Routes
<1>4. CASE arr # <<>>
  BY <1>1, <1>2, <1>4 DEF Locates, Routes
<1> QED BY <1>3, <1>4

\* new is arr with x behind its first pos elements, and the rest moved up by one.
InsertedAt(new, arr, x, pos) ==
  /\ new \in Seq(Ids) /\ Len(new) = Len(arr) + 1
  /\ \A k \in 1 .. pos : new[k] = arr[k]
  /\ new[pos + 1] = x
  /\ \A k \in pos + 2 .. Len(arr) + 1 : new[k] = arr[k - 1]

LEMMA Splice ==
  ASSUME NEW arr \in Seq(Ids), NEW x \in Ids, NEW pos \in Nat, 1 <= pos, pos <= Len(arr)
  PROVE  InsertedAt(SubSeq(arr, 1, pos) \o <<x>> \o SubSeq(arr, pos + 1, Len(arr)), arr, x, pos)
<1> DEFINE front == SubSeq(arr, 1, pos)
           back == SubSeq(arr, pos + 1, Len(arr))
           start == front \o <<x>>
<1>1. Len(arr) \in Nat /\ pos \in Nat /\ 1 <= pos /\ pos <= Len(arr)
  OBVIOUS
<1>2. /\ front \in Seq(Ids) /\ Len(front) = pos
      /\ \A k \in 1 .. pos : front[k] = arr[k]
  BY <1>1, SubSeqFacts
<1>3. /\ back \in Seq(Ids) /\ Len(back) = Len(arr) - pos
      /\ \A k \in 1 .. Len(arr) - pos : back[k] = arr[pos + k]
  BY <1>1, SubSeqFacts
<1>4. <<x>> \in Seq(Ids) /\ Len(<<x>>) = 1 /\ <<x>>[1] = x
  OBVIOUS
<1> HIDE DEF front, back
<1>5. /\ start \in Seq(Ids) /\ Len(start) = pos + 1
      /\ \A k \in 1 .. pos : start[k] = arr[k]
      /\ start[pos + 1] = x
  BY <1>1, <1>2, <1>4, ConcatFacts
<1> HIDE DEF start
<1>6. /\ start \o back \in Seq(Ids) /\ Len(start \o back) = Len(arr) + 1
      /\ \A k \in 1 .. pos + 1 : (start \o back)[k] = start[k]
      /\ \A k \in 1 .. Len(arr) - pos : (start \o back)[pos + 1 + k] = arr[pos + k]
  <2>1. /\ start \o back \in Seq(Ids) /\ Len(start \o back) = Len(start) + Len(back)
        /\ \A k \in 1 .. Len(start) : (start \o back)[k] = start[k]
        /\ \A k \in 1 .. Len(back) : (start \o back)[Len(start) + k] = back[k]
    BY <1>3, <1>5, ConcatFacts
  <2>2. Len(start) + Len(back) = Len(arr) + 1
    BY <1>1, <1>3, <1>5
  <2> QED BY <1>3, <1>5, <2>1, <2>2
<1> DEFINE new == start \o back
<1>8. \A k \in pos + 2 .. Len(arr) + 1 :
        /\ k - pos - 1 \in 1 .. Len(arr) - pos
        /\ pos + 1 + (k - pos - 1) = k /\ pos + (k - pos - 1) = k - 1
  BY <1>1
<1>9. \A k \in pos + 2 .. Len(arr) + 1 : new[k] = arr[k - 1]
  BY <1>6, <1>8
<1>10. (\A k \in 1 .. pos : new[k] = arr[k]) /\ new[pos + 1] = x
  BY <1>1, <1>5, <1>6
<1>7. InsertedAt(new, arr, x, pos)
  BY <1>6, <1>9, <1>10 DEF InsertedAt
<1> QED BY <1>7 DEF start, front, back

LEMMA InsertIdElements ==
  ASSUME NEW arr \in Seq(Ids), NEW x \in Ids, arr # <<>>,
         NEW pos \in 1 .. Len(arr), pos = IndexFor(arr, x) + 1
  PROVE  InsertedAt(InsertId(arr, x), arr, x, pos)
BY Splice DEF InsertId

\* It lengthens the slice by one and adds the id to its elements.
LEMMA InsertIdFacts ==
  ASSUME scenario \in Scenarios,
         NEW arr \in Seq(Ids), Len(arr) < MaxIds, NEW x \in Ids
  PROVE  /\ InsertId(arr, x) \in Seq(Ids)
         /\ Len(InsertId(arr, x)) = Len(arr) + 1
         /\ Elements(InsertId(arr, x)) = Elements(arr) \cup {x}
<1>1. CASE arr = <<>>
  <2>1. InsertId(arr, x) = <<x>>
    BY <1>1 DEF InsertId
  <2>2. Elements(<<x>>) = {x} /\ Elements(arr) = {}
    BY <1>1 DEF Elements
  <2>3. <<x>> \in Seq(Ids) /\ Len(<<x>>) = 1 /\ Len(arr) = 0
    BY <1>1
  <2> QED BY <2>1, <2>2, <2>3
<1>2. CASE arr # <<>>
  <2> DEFINE pos == IndexFor(arr, x) + 1
             new == InsertId(arr, x)
  <2>1. Len(arr) \in Nat /\ Len(arr) > 0
    BY <1>2
  <2>2. pos \in 1 .. Len(arr)
    BY <2>1, FindIndexRange, GivenTyped
  <2>3. InsertedAt(new, arr, x, pos)
    BY <1>2, <2>2, InsertIdElements
  <2> HIDE DEF pos
  <2>4. /\ new \in Seq(Ids) /\ Len(new) = Len(arr) + 1
        /\ \A k \in 1 .. pos : new[k] = arr[k]
        /\ new[pos + 1] = x
        /\ \A k \in pos + 2 .. Len(arr) + 1 : new[k] = arr[k - 1]
    BY <2>3 DEF InsertedAt
  <2> HIDE DEF new
  <2>5. Elements(new) = Elements(arr) \cup {x}
    <3>3. ASSUME NEW e \in Elements(new) PROVE e \in Elements(arr) \cup {x}
      <4>1. PICK k \in 1 .. Len(new) : e = new[k]
        BY DEF Elements
      <4>2. k \in Nat /\ 1 <= k /\ k <= Len(arr) + 1
        BY <4>1, <2>4, <2>1
      <4>3. CASE k <= pos
        <5>1. e = arr[k] /\ k \in 1 .. Len(arr)
          BY <4>1, <4>2, <4>3, <2>4, <2>1, <2>2
        <5> QED BY <5>1 DEF Elements
      <4>4. CASE k = pos + 1
        BY <4>1, <4>4, <2>4
      <4>5. CASE k >= pos + 2
        <5>1. k \in pos + 2 .. Len(arr) + 1 /\ k - 1 \in 1 .. Len(arr)
          BY <4>2, <4>5, <2>1, <2>2
        <5>2. e = arr[k - 1]
          BY <5>1, <4>1, <2>4
        <5> QED BY <5>1, <5>2 DEF Elements
      <4> QED BY <4>2, <4>3, <4>4, <4>5, <2>2
    <3>4. x \in Elements(new)
      BY <2>4, <2>1, <2>2 DEF Elements
    <3>5. ASSUME NEW k \in 1 .. Len(arr) PROVE arr[k] \in Elements(new)
      <4>1. k \in Nat /\ 1 <= k /\ k <= Len(arr)
        BY <2>1
      <4>2. CASE k <= pos
        <5>1. new[k] = arr[k] /\ k \in 1 .. Len(new)
          BY <4>1, <4>2, <2>4, <2>1, <2>2
        <5> QED BY <5>1 DEF Elements
      <4>3. CASE k > pos
        <5>1. k + 1 \in pos + 2 .. Len(arr) + 1 /\ (k + 1) - 1 = k
          BY <4>1, <4>3, <2>1, <2>2
        <5>2. new[k + 1] = arr[k] /\ k + 1 \in 1 .. Len(new)
          BY <5>1, <4>1, <2>4, <2>1
        <5> QED BY <5>2 DEF Elements
      <4> QED BY <4>1, <4>2, <4>3, <2>2
    <3>6. Elements(arr) \subseteq Elements(new)
      BY <3>5 DEF Elements
    <3> QED BY <3>3, <3>4, <3>6
  <2> QED BY <2>4, <2>5 DEF new
<1> QED BY <1>1, <1>2

\* The shape insertId keeps: RingShape, of a slice.
Distinct(arr) == \A j, k \in 1 .. Len(arr) : j # k => arr[j] # arr[k]

Shaped(arr) ==
  \A j, k \in 2 .. Len(arr) : j < k =>
    /\ arr[k] < arr[1] => arr[j] < arr[1]
    /\ arr[j] > arr[1] => arr[j] < arr[k]

LEMMA SpliceKeepsShape ==
  ASSUME NEW arr \in Seq(Ids), NEW x \in Ids, NEW pos \in 1 .. Len(arr), NEW new,
         InsertedAt(new, arr, x, pos), Locates(arr, x, pos - 1),
         Distinct(new), Distinct(arr) => Shaped(arr)
  PROVE  Shaped(new)
<1> DEFINE n == Len(arr)
<1>1. /\ n \in Nat /\ pos \in Nat /\ 1 <= pos /\ pos <= n
      /\ \A k \in 1 .. n : arr[k] \in Int
      /\ x \in Int
  <2>1. Ids \subseteq Int
    BY StringsAssumption
  <2>2. (\A k \in 1 .. n : arr[k] \in Ids) /\ n \in Nat
    OBVIOUS
  <2>3. \A k \in 1 .. n : arr[k] \in Int
    BY <2>1, <2>2
  <2>4. pos \in Nat /\ 1 <= pos /\ pos <= n
    BY <2>2
  <2> QED BY <2>1, <2>2, <2>3, <2>4
<1>2. /\ Len(new) = n + 1
      /\ \A k \in 1 .. pos : new[k] = arr[k]
      /\ new[pos + 1] = x
      /\ \A k \in pos + 2 .. n + 1 : new[k] = arr[k - 1]
  BY DEF InsertedAt
<1>3. x \notin Elements(arr)
  <2> SUFFICES ASSUME NEW k \in 1 .. n, arr[k] = x PROVE FALSE
    BY DEF Elements
  <2>1. CASE k <= pos
    <3>1. new[k] = new[pos + 1] /\ k # pos + 1 /\ k \in 1 .. n + 1 /\ pos + 1 \in 1 .. n + 1
      BY <1>1, <1>2, <2>1
    <3> QED BY <1>2, <3>1 DEF Distinct
  <2>2. CASE ~ (k <= pos)
    <3>1. k + 1 \in pos + 2 .. n + 1 /\ (k + 1) - 1 = k
      BY <1>1, <2>2
    <3>2. new[k + 1] = arr[(k + 1) - 1]
      BY <1>2, <3>1
    <3>3. k + 1 # pos + 1 /\ k + 1 \in 1 .. n + 1 /\ pos + 1 \in 1 .. n + 1
      BY <1>1, <2>2
    <3>4. new[k + 1] = new[pos + 1]
      BY <1>2, <3>1, <3>2
    <3> QED BY <1>2, <3>3, <3>4 DEF Distinct
  <2> QED BY <2>1, <2>2
<1>4. IF x < arr[1] THEN pos = 1 ELSE arr[pos] < x /\ (pos < n => x < arr[pos + 1])
  <2>1. arr # <<>> /\ (pos - 1) + 1 = pos /\ (pos - 1) + 2 = pos + 1 /\ (pos - 1 = 0 <=> pos = 1)
    BY <1>1
  <2> QED BY <1>3, <2>1 DEF Locates
<1>5. Distinct(arr)
  <2> SUFFICES ASSUME NEW j \in 1 .. n, NEW k \in 1 .. n, j < k PROVE arr[j] # arr[k]
    <3>1. \A j, k \in 1 .. n : j # k => j < k \/ k < j
      BY <1>1
    <3> QED BY <3>1 DEF Distinct
  <2>1. \A i \in 1 .. n : i <= pos => new[i] = arr[i] /\ i \in 1 .. n + 1
    BY <1>1, <1>2
  <2>2. \A i \in 1 .. n : ~ (i <= pos) => new[i + 1] = arr[i] /\ i + 1 \in 1 .. n + 1
    <3> SUFFICES ASSUME NEW i \in 1 .. n, ~ (i <= pos)
                 PROVE  new[i + 1] = arr[i] /\ i + 1 \in 1 .. n + 1
      OBVIOUS
    <3>1. i + 1 \in pos + 2 .. n + 1 /\ (i + 1) - 1 = i /\ i + 1 \in 1 .. n + 1
      BY <1>1
    <3> QED BY <1>2, <3>1
  <2>3. \A u, v \in 1 .. n + 1 : u < v => new[u] # new[v]
    BY <1>1, <1>2 DEF Distinct
  <2>4. CASE k <= pos
    <3>1. j <= pos
      BY <1>1, <2>4
    <3> QED BY <2>1, <2>3, <2>4, <3>1
  <2>5. CASE ~ (k <= pos) /\ j <= pos
    <3>1. j < k + 1
      BY <1>1
    <3> QED BY <2>1, <2>2, <2>3, <2>5, <3>1
  <2>6. CASE ~ (k <= pos) /\ ~ (j <= pos)
    <3>1. j + 1 < k + 1
      BY <1>1
    <3> QED BY <2>2, <2>3, <2>6, <3>1
  <2> QED BY <2>4, <2>5, <2>6
<1>6. /\ \A k \in 1 .. n : k # 1 => arr[k] # arr[1]
      /\ \A j, k \in 2 .. n : j < k => /\ arr[k] < arr[1] => arr[j] < arr[1]
                                       /\ arr[j] > arr[1] => arr[j] < arr[k]
  <2>1. 1 \in 1 .. n
    BY <1>1
  <2>2. Shaped(arr)
    BY <1>5
  <2> QED BY <1>5, <2>1, <2>2 DEF Distinct, Shaped
<1>7. x # arr[1] /\ arr[1] \in Int /\ new[1] = arr[1]
  <2>1. 1 \in 1 .. n /\ 1 \in 1 .. pos
    BY <1>1
  <2> QED BY <1>1, <1>2, <1>3, <2>1 DEF Elements
<1> HIDE DEF n
<1> DEFINE Pair(j, k) == /\ new[k] < arr[1] => new[j] < arr[1]
                         /\ new[j] > arr[1] => new[j] < new[k]
<1>8. SUFFICES ASSUME NEW j \in 2 .. n + 1, NEW k \in 2 .. n + 1, j < k PROVE Pair(j, k)
  BY <1>2, <1>7, <1>8 DEF Shaped
<1> DEFINE Old(i) == IF i <= pos THEN i ELSE i - 1
<1>9. ASSUME NEW i \in 2 .. n + 1, i # pos + 1
      PROVE  Old(i) \in 2 .. n /\ new[i] = arr[Old(i)]
  <2>1. CASE i <= pos
    BY <1>1, <1>2, <2>1
  <2>2. CASE ~ (i <= pos)
    <3>1. i \in pos + 2 .. n + 1 /\ i - 1 \in 2 .. n
      BY <1>1, <1>9, <2>2
    <3> QED BY <1>2, <2>2, <3>1
  <2> QED BY <2>1, <2>2
<1>10. CASE j # pos + 1 /\ k # pos + 1
  <2>1. Old(j) \in 2 .. n /\ Old(k) \in 2 .. n /\ new[j] = arr[Old(j)] /\ new[k] = arr[Old(k)]
    BY <1>9, <1>10
  <2>2. Old(j) < Old(k)
    BY <1>1, <1>8, <1>10
  <2>3. PICK u \in 2 .. n, v \in 2 .. n : u < v /\ new[j] = arr[u] /\ new[k] = arr[v]
    <3> HIDE DEF Old
    <3> QED BY <2>1, <2>2
  <2>4. /\ arr[v] < arr[1] => arr[u] < arr[1]
        /\ arr[u] > arr[1] => arr[u] < arr[v]
    BY <1>6, <2>3
  <2> QED BY <2>3, <2>4, Zenon
<1>11. CASE j = pos + 1
  <2>1. k # pos + 1 /\ Old(k) = k - 1 /\ k - 1 >= pos + 1 /\ pos < n
    BY <1>1, <1>8, <1>11
  <2>2. k - 1 \in 2 .. n /\ new[k] = arr[k - 1] /\ new[j] = x
    BY <1>2, <1>9, <1>11, <2>1
  <2>3. CASE x < arr[1]
    BY <1>1, <1>7, <2>2, <2>3
  <2>4. CASE ~ (x < arr[1])
    <3>1. x < arr[pos + 1] /\ pos + 1 \in 2 .. n /\ arr[pos + 1] \in Int /\ arr[k - 1] \in Int
      BY <1>1, <1>4, <2>1, <2>2, <2>4
    <3>2. arr[1] < x /\ arr[1] < arr[pos + 1]
      BY <1>1, <1>7, <2>4, <3>1
    <3>3. k - 1 = pos + 1 \/ pos + 1 < k - 1
      BY <1>1, <2>1
    <3>4. x < arr[k - 1]
      <4>1. CASE k - 1 = pos + 1
        BY <3>1, <4>1
      <4>2. CASE pos + 1 < k - 1
        <5>1. arr[pos + 1] < arr[k - 1]
          BY <1>6, <2>2, <3>1, <3>2, <4>2
        <5> QED BY <1>1, <3>1, <5>1
      <4> QED BY <3>3, <4>1, <4>2
    <3> QED BY <1>1, <1>7, <2>2, <3>1, <3>2, <3>4
  <2> QED BY <2>3, <2>4, Zenon
<1>12. CASE k = pos + 1
  <2>1. j <= pos /\ j \in 2 .. n /\ new[j] = arr[j] /\ new[k] = x /\ arr[j] \in Int
    BY <1>1, <1>2, <1>8, <1>12
  <2>2. pos # 1 /\ ~ (x < arr[1]) /\ arr[pos] < x /\ pos \in 2 .. n /\ arr[pos] \in Int
    BY <1>1, <1>4, <2>1
  <2>3. arr[j] > arr[1] => arr[j] < x
    <3>1. j = pos \/ j < pos
      BY <1>1, <2>1
    <3>2. CASE j = pos
      BY <2>2, <3>2
    <3>3. CASE j < pos
      <4>1. arr[j] > arr[1] => arr[j] < arr[pos]
        BY <1>6, <2>1, <2>2, <3>3
      <4> QED BY <1>1, <2>1, <2>2, <4>1
    <3> QED BY <3>1, <3>2, <3>3
  <2> QED BY <1>1, <1>7, <2>1, <2>2, <2>3
<1> QED BY <1>10, <1>11, <1>12

LEMMA InsertKeepsShape ==
  ASSUME scenario \in Scenarios,
         NEW arr \in Seq(Ids), Len(arr) < MaxIds, NEW x \in Ids,
         Distinct(InsertId(arr, x)), Distinct(arr) => Shaped(arr)
  PROVE  Shaped(InsertId(arr, x))
<1>1. CASE arr = <<>>
  <2>1. InsertId(arr, x) = <<x>>
    BY <1>1 DEF InsertId
  <2> QED BY <2>1 DEF Shaped
<1>2. CASE arr # <<>>
  <2> DEFINE i == IndexFor(arr, x)
             new == InsertId(arr, x)
             pos == i + 1
  <2>1. i \in Nat /\ i < Len(arr) /\ Locates(arr, x, i)
    BY <1>2, FindIndexRange, SearchContracts, GivenTyped
  <2>2. pos \in 1 .. Len(arr) /\ pos - 1 = i
    <3> HIDE DEF i
    <3> QED BY <2>1
  <2>3. InsertedAt(new, arr, x, pos)
    BY <1>2, <2>2, InsertIdElements
  <2>4. Locates(arr, x, pos - 1)
    BY <2>1, <2>2
  <2> HIDE DEF new, pos
  <2>5. Shaped(new)
    <3>1. Distinct(new)
      BY DEF new
    <3> QED BY <2>2, <2>3, <2>4, <3>1, SpliceKeepsShape
  <2> QED BY <2>5 DEF new
<1> QED BY <1>1, <1>2

LEMMA CutAtFacts ==
  ASSUME NEW arr \in Seq(Ids), NEW i \in Nat, i < Len(arr)
  PROVE  CutAt(arr, i) \in Seq(Ids) /\ Len(CutAt(arr, i)) = Len(arr) - 1
<1>1. Len(arr) \in Nat /\ i + 2 \in 1 .. Len(arr) + 1 /\ i \in 0 .. Len(arr)
  OBVIOUS
<1>2. SubSeq(arr, 1, i) \in Seq(Ids) /\ Len(SubSeq(arr, 1, i)) = i
  BY <1>1, SubSeqFacts
<1>3. /\ SubSeq(arr, i + 2, Len(arr)) \in Seq(Ids)
      /\ Len(SubSeq(arr, i + 2, Len(arr))) = Len(arr) - i - 1
  BY <1>1, SubSeqFacts
<1> DEFINE front == SubSeq(arr, 1, i)
           back == SubSeq(arr, i + 2, Len(arr))
<1>4. CutAt(arr, i) = front \o back
  BY DEF CutAt
<1>7. Len(front) = i /\ Len(back) = Len(arr) - i - 1
  BY <1>2, <1>3
<1> HIDE DEF front, back
<1>5. front \o back \in Seq(Ids) /\ Len(front \o back) = Len(front) + Len(back)
  BY <1>2, <1>3, ConcatFacts DEF front, back
<1>6. Len(front) + Len(back) = Len(arr) - 1
  BY <1>1, <1>7
<1> QED BY <1>4, <1>5, <1>6

-----------------------------------------------------------------------------

\* What waits to be added or searched for is an id.
IdTyped ==
  \A p \in Procs : pc[p] \in {"addLock", "addStore", "addPut", "rmIndex"} => id[p] \in Ids

\* The holder's new slice is still the one insertId makes of the current slice.
InsertBuilt ==
  \A p \in Procs : pc[p] = "addStore" => newIds[p] = InsertId(ids, id[p])

NoRemovals ==
  AddsOnly => \A p \in Procs : pc[p] \notin {"rmIndex", "rmLock", "rmDelete", "rmCut"}

RoomLeft == Len(ids) + Cardinality(Adding) + Len(toLoad) <= MaxIds

LEMMA ProcFacts == Loader \in Procs /\ NoProc \notin Procs /\ IsFiniteSet(Procs)
<1>1. IsFiniteSet(Procs)
  BY ProcsAssumption, FS_AddElement DEF Procs
<1> QED BY <1>1, ProcsAssumption DEF Procs

\* A request comes from a handler, and no step changes what has been given.
LEMMA ServingHandlers ==
  ASSUME TypeOK
  PROVE  scenario.handlers \subseteq Handlers
BY ScenariosAssumption DEF TypeOK

LEMMA GivenStays ==
  ASSUME [Next]_vars
  PROVE  scenario' = scenario /\ MaxIds' = MaxIds /\ (AddsOnly' <=> AddsOnly)
BY DEF Next, vars, MaxIds, AddsOnly, RemovedNames

LEMMA AddingFinite == IsFiniteSet(Adding) /\ Cardinality(Adding) \in Nat
BY ProcFacts, FS_Subset, FS_CardinalityType DEF Adding

LEMMA HashKeyTyped ==
  ASSUME NEW s \in Strings
  PROVE  HashKey[s] \in Ids /\ HashKey[Resolve[s]] \in Ids
BY StringsAssumption

\* Every slice a read may find is one of ids, and not too long for the searches.
LEMMA VisibleTyped ==
  ASSUME TypeOK, IdTyped, InsertBuilt, NEW view \in VisibleIds
  PROVE  view \in Seq(Ids) /\ Len(view) <= MaxIds
<1> USE DEF TypeOK
<1>1. Len(ids) \in Nat /\ Len(toLoad) \in Nat /\ Cardinality(Adding) \in Nat
  BY AddingFinite
<1>2. Len(ids) <= MaxIds
  BY <1>1, GivenTyped
<1>3. CASE view = ids
  BY <1>2, <1>3
<1>4. ASSUME NEW p \in Procs, pc[p] = "addStore", view \in TornStores(p)
      PROVE  view \in Seq(Ids) /\ Len(view) <= MaxIds
  <2>1. p \in Adding
    BY <1>4 DEF Adding
  <2>2. Cardinality(Adding) # 0
    BY <2>1, AddingFinite, FS_EmptySet
  <2>3. Len(ids) + 1 <= MaxIds
    BY <1>1, <2>2, GivenTyped
  <2>4. newIds[p] \in Seq(Ids) /\ Len(newIds[p]) = Len(ids) + 1
    <3>1. id[p] \in Ids /\ newIds[p] = InsertId(ids, id[p])
      BY <1>4 DEF IdTyped, InsertBuilt
    <3>2. Len(ids) < MaxIds
      BY <1>1, <2>3, GivenTyped
    <3> QED BY <3>1, <3>2, InsertIdFacts
  <2>5. CASE view = newIds[p]
    BY <2>3, <2>4, <2>5
  <2>6. CASE view = SubSeq(newIds[p], 1, Len(ids))
    <3>1. Len(ids) \in 0 .. Len(newIds[p]) /\ 1 \in 1 .. Len(newIds[p]) + 1
      BY <1>1, <2>4
    <3> QED BY <1>1, <1>2, <2>4, <2>6, <3>1, SubSeqFacts
  <2>7. CASE \E w \in StaleWords : view = Append(ids, w)
    BY <2>3, <2>7, StringsAssumption
  <2> QED BY <1>4, <2>5, <2>6, <2>7 DEF TornStores
<1>5. ASSUME NEW p \in Procs, view \in PartialShifts(p)
      PROVE  view \in Seq(Ids) /\ Len(view) <= MaxIds
  <2>0. PICK j \in 1 .. Len(ids) :
          view = [k \in 1 .. Len(ids) |->
                    IF index[p] < k /\ k < j THEN ids[k + 1] ELSE ids[k]]
    BY <1>5 DEF PartialShifts
  <2>1. \A k \in 1 .. Len(ids) : k < j => ids[k + 1] \in Ids
    BY <1>1
  <2>2. \A k \in 1 .. Len(ids) : ids[k] \in Ids
    OBVIOUS
  <2>3. view \in [1 .. Len(ids) -> Ids]
    BY <2>0, <2>1, <2>2
  <2> QED BY <1>1, <1>2, <2>3, FunctionIsSeq
<1>6. \/ view = ids
      \/ \E p \in Procs : pc[p] = "addStore" /\ view \in TornStores(p)
      \/ \E p \in Procs : view \in PartialShifts(p)
  BY Zenon DEF VisibleIds
<1> QED BY <1>3, <1>4, <1>5, <1>6, Zenon

-----------------------------------------------------------------------------

LEMMA InitInv ==
  Init => TypeOK /\ LockDiscipline /\ IdTyped /\ InsertBuilt /\ NoRemovals
<1> SUFFICES ASSUME Init
             PROVE  TypeOK /\ LockDiscipline /\ IdTyped /\ InsertBuilt /\ NoRemovals
  OBVIOUS
<1> USE DEF Init
<1>1. Adding = {} /\ Cardinality(Adding) = 0
  BY FS_EmptySet DEF Adding
<1>2. toLoad \in Seq(Strings) /\ Len(toLoad) = Len(ConfigNodes) + Len(SyncedNodes)
  BY GivenTyped
<1>3. TypeOK
  BY <1>1, <1>2, GivenTyped, StringsAssumption DEF TypeOK
<1>4. LockDiscipline /\ IdTyped /\ InsertBuilt /\ NoRemovals
  BY DEF LockDiscipline, Critical, IdTyped, InsertBuilt, NoRemovals
<1> QED BY <1>3, <1>4

\* A request starts nothing but a wait, a search or a read.
LEMMA RequestFacts ==
  ASSUME NEW p \in Handlers, Request(p)
  PROVE  /\ p \in Procs
         /\ UNCHANGED <<mu, ids, nodes, newIds>>
         /\ \/ UNCHANGED <<pc, id>>
            \/ /\ pc[p] = "idle"
               /\ \E label \in {"addLock", "rmIndex", "lookup"} :
                    pc' = [pc EXCEPT ![p] = label]
               /\ \E x : id' = [id EXCEPT ![p] = x]
<1>1. p \in Procs
  BY DEF Procs
<1>2. ASSUME NEW name \in NewNames, AnnounceNewNode(p, name)
      PROVE  /\ UNCHANGED <<mu, ids, nodes, newIds>> /\ pc[p] = "idle"
             /\ pc' = [pc EXCEPT ![p] = "addLock"]
             /\ \E x : id' = [id EXCEPT ![p] = x]
  BY <1>2, Zenon DEF AnnounceNewNode, Goto
<1>3. ASSUME NEW name \in RemovedNames, AnnounceRemoveNode(p, name)
      PROVE  /\ UNCHANGED <<mu, ids, nodes, newIds>> /\ pc[p] = "idle"
             /\ pc' = [pc EXCEPT ![p] = "rmIndex"]
             /\ \E x : id' = [id EXCEPT ![p] = x]
  BY <1>3, Zenon DEF AnnounceRemoveNode, Goto
<1>4. ASSUME NEW key \in Keys, LookupId(p, key)
      PROVE  /\ UNCHANGED <<mu, ids, nodes, newIds>> /\ pc[p] = "idle"
             /\ pc' = [pc EXCEPT ![p] = "lookup"]
             /\ \E x : id' = [id EXCEPT ![p] = x]
  BY <1>4, Zenon DEF LookupId, Goto
<1>5. CASE FatalMapRace(p)
  BY <1>1, <1>5 DEF FatalMapRace
<1> QED BY <1>1, <1>2, <1>3, <1>4, <1>5 DEF Request

LEMMA LockDisciplineStep ==
  ASSUME TypeOK, LockDiscipline, [Next]_vars
  PROVE  LockDiscipline'
<1> USE DEF TypeOK, LockDiscipline, Critical, Goto
<1>1. CASE Load
  BY <1>1 DEF Load, LoadNext, LoadFails
<1>2. ASSUME NEW p \in Procs, Lock(p) PROVE LockDiscipline'
  <2>1. mu = NoProc /\ \A q \in Procs : ~Critical(q)
    BY <1>2, ProcFacts DEF Lock, AddLock, RmLock
  <2>2. mu' = p /\ \A q \in Procs : q # p => pc'[q] = pc[q]
    BY <1>2 DEF Lock, AddLock, RmLock
  <2>3. ASSUME NEW q \in Procs, Critical(q)' PROVE mu' = q
    <3>1. CASE q = p
      BY <2>2, <3>1
    <3>2. CASE q # p
      BY <2>1, <2>2, <2>3, <3>2
    <3> QED BY <3>1, <3>2
  <2> QED BY <2>3
<1>3. ASSUME NEW p \in Procs, Continue(p) PROVE LockDiscipline'
  <2>1. CASE AddStore(p)
    BY <2>1 DEF AddStore
  <2>2. CASE AddPut(p)
    BY <2>2 DEF AddPut
  <2>3. CASE RmIndex(p)
    BY <2>3 DEF RmIndex
  <2>4. CASE RmDelete(p)
    BY <2>4 DEF RmDelete
  <2>5. CASE RmCut(p)
    BY <2>5 DEF RmCut
  <2>6. CASE RmPanic(p)
    BY <2>6 DEF RmPanic
  <2>7. CASE LookupNode(p)
    BY <2>7 DEF LookupNode
  <2> QED BY <1>3, <2>1, <2>2, <2>3, <2>4, <2>5, <2>6, <2>7 DEF Continue
<1>4. ASSUME NEW p \in Handlers, Request(p) PROVE LockDiscipline'
  BY <1>4, RequestFacts
<1>5. CASE UNCHANGED vars
  BY <1>5 DEF vars, state
<1> QED BY ServingHandlers, <1>1, <1>2, <1>3, <1>4, <1>5 DEF Next

\* Beside the holder of the mutex nobody stores ids, so the slice it has built
\* stays the right one until it stores it.
LEMMA InsertBuiltStep ==
  ASSUME TypeOK, LockDiscipline, InsertBuilt, [Next]_vars
  PROVE  InsertBuilt'
<1> USE DEF TypeOK, LockDiscipline, InsertBuilt, Critical, Goto
<1>1. CASE Load
  BY <1>1 DEF Load, LoadNext, LoadFails
<1>2. ASSUME NEW p \in Procs, Lock(p) PROVE InsertBuilt'
  BY <1>2, ProcFacts DEF Lock, AddLock, RmLock
<1>3. ASSUME NEW p \in Procs, Continue(p) PROVE InsertBuilt'
  <2>1. CASE AddStore(p)
    BY <2>1 DEF AddStore
  <2>2. CASE AddPut(p)
    BY <2>2 DEF AddPut
  <2>3. CASE RmIndex(p)
    BY <2>3 DEF RmIndex
  <2>4. CASE RmDelete(p)
    BY <2>4 DEF RmDelete
  <2>5. CASE RmCut(p)
    BY <2>5 DEF RmCut
  <2>6. CASE RmPanic(p)
    BY <2>6 DEF RmPanic
  <2>7. CASE LookupNode(p)
    BY <2>7 DEF LookupNode
  <2> QED BY <1>3, <2>1, <2>2, <2>3, <2>4, <2>5, <2>6, <2>7 DEF Continue
<1>4. ASSUME NEW p \in Handlers, Request(p) PROVE InsertBuilt'
  BY <1>4, RequestFacts
<1>5. CASE UNCHANGED vars
  BY <1>5 DEF vars, state
<1> QED BY ServingHandlers, <1>1, <1>2, <1>3, <1>4, <1>5 DEF Next

LEMMA IdTypedStep ==
  ASSUME TypeOK, IdTyped, [Next]_vars
  PROVE  IdTyped'
<1> USE DEF TypeOK, IdTyped, Goto
<1>1. CASE Load
  <2>1. CASE LoadNext
    <3>1. Head(toLoad) \in Strings
      BY <2>1 DEF LoadNext
    <3>2. HashKey[Resolve[Head(toLoad)]] \in Ids
      BY <2>1, <3>1, HashKeyTyped DEF LoadNext
    <3> QED BY <2>1, <3>2, ProcFacts DEF LoadNext
  <2>2. CASE LoadFails
    BY <2>2 DEF LoadFails
  <2> QED BY <1>1, <2>1, <2>2 DEF Load
<1>2. ASSUME NEW p \in Procs, Lock(p) \/ Continue(p) PROVE IdTyped'
  BY <1>2 DEF Lock, Continue, AddLock, RmLock, AddStore, AddPut, RmIndex, RmDelete,
              RmCut, RmPanic, LookupNode
<1>3. ASSUME NEW p \in Handlers, Request(p) PROVE IdTyped'
  <2>1. ASSUME NEW name \in NewNames, AnnounceNewNode(p, name) PROVE IdTyped'
    <3>1. HashKey[Resolve[name]] \in Ids
      BY <2>1, GivenTyped, HashKeyTyped DEF AnnounceNewNode
    <3> QED BY <2>1, <3>1 DEF AnnounceNewNode, Procs
  <2>2. ASSUME NEW name \in RemovedNames, AnnounceRemoveNode(p, name) PROVE IdTyped'
    <3>1. HashKey[Resolve[name]] \in Ids
      BY <2>2, GivenTyped, HashKeyTyped DEF AnnounceRemoveNode
    <3> QED BY <2>2, <3>1 DEF AnnounceRemoveNode, Procs
  <2> QED BY <1>3, <2>1, <2>2 DEF Request, LookupId, FatalMapRace, Procs
<1>4. CASE UNCHANGED vars
  BY <1>4 DEF vars, state
<1> QED BY ServingHandlers, <1>1, <1>2, <1>3, <1>4 DEF Next

LEMMA NoRemovalsStep ==
  ASSUME TypeOK, NoRemovals, [Next]_vars
  PROVE  NoRemovals'
<1> USE GivenStays DEF TypeOK, NoRemovals, AddsOnly, Goto
<1>1. CASE Load
  BY <1>1 DEF Load, LoadNext, LoadFails
<1>2. ASSUME NEW p \in Procs, Lock(p) \/ Continue(p) PROVE NoRemovals'
  BY <1>2 DEF Lock, Continue, AddLock, RmLock, AddStore, AddPut, RmIndex, RmDelete,
              RmCut, RmPanic, LookupNode
<1>3. ASSUME NEW p \in Handlers, Request(p) PROVE NoRemovals'
  BY <1>3 DEF Request, AnnounceNewNode, AnnounceRemoveNode, LookupId, FatalMapRace, Procs
<1>4. CASE UNCHANGED vars
  BY <1>4 DEF vars, state
<1> QED BY ServingHandlers, <1>1, <1>2, <1>3, <1>4 DEF Next

LEMMA AddingGrows ==
  ASSUME TypeOK, NEW p \in Procs, pc[p] = "idle", Goto(p, "addLock")
  PROVE  Cardinality(Adding') = Cardinality(Adding) + 1
<1>1. Adding' = Adding \cup {p} /\ p \notin Adding
  BY DEF TypeOK, Goto, Adding
<1> QED BY <1>1, AddingFinite, FS_AddElement

LEMMA AddingShrinks ==
  ASSUME TypeOK, NEW p \in Procs, pc[p] = "addStore", Goto(p, "addPut")
  PROVE  Cardinality(Adding') = Cardinality(Adding) - 1
<1>1. Adding' = Adding \ {p} /\ p \in Adding
  BY DEF TypeOK, Goto, Adding
<1> QED BY <1>1, AddingFinite, FS_RemoveElement

LEMMA AddingSame ==
  ASSUME TypeOK, NEW p \in Procs, NEW label, Goto(p, label),
         pc[p] \in {"addLock", "addStore"} <=> label \in {"addLock", "addStore"}
  PROVE  Cardinality(Adding') = Cardinality(Adding)
<1>1. Adding' = Adding
  BY DEF TypeOK, Goto, Adding
<1> QED BY <1>1

LEMMA TypeOKStep ==
  ASSUME TypeOK, LockDiscipline, IdTyped, InsertBuilt, [Next]_vars
  PROVE  TypeOK'
<1>0. scenario' = scenario /\ MaxIds' = MaxIds
  BY GivenStays
<1> USE <1>0
<1>1. /\ Len(ids) \in Nat /\ Len(toLoad) \in Nat
      /\ Cardinality(Adding) \in Nat /\ MaxIds \in Nat
  BY AddingFinite, GivenTyped DEF TypeOK
<1>2. CASE LoadNext
  <2>1. HashKey[Resolve[Head(toLoad)]] \in Ids /\ Tail(toLoad) \in Seq(Strings)
    <3>1. Head(toLoad) \in Strings /\ Tail(toLoad) \in Seq(Strings)
      BY <1>2 DEF LoadNext, TypeOK
    <3> QED BY <1>2, <3>1, HashKeyTyped DEF LoadNext
  <2>2. Len(toLoad') = Len(toLoad) - 1
    BY <1>2 DEF LoadNext, TypeOK
  <2>3. Cardinality(Adding') = Cardinality(Adding) + 1
    BY <1>2, AddingGrows, ProcFacts DEF LoadNext
  <2>4. Len(ids') + Cardinality(Adding') + Len(toLoad') <= MaxIds
    BY <1>1, <1>2, <2>2, <2>3 DEF LoadNext, TypeOK
  <2> QED BY <1>2, <2>1, <2>4, ProcFacts DEF LoadNext, TypeOK, Goto
<1>3. CASE LoadFails
  BY <1>3 DEF LoadFails, TypeOK, Adding
<1>4. ASSUME NEW p \in Procs, AddLock(p) PROVE TypeOK'
  <2>1. p \in Adding
    BY <1>4 DEF AddLock, Adding
  <2>2. Cardinality(Adding) # 0
    BY <2>1, AddingFinite, FS_EmptySet
  <2>3. Len(ids) < MaxIds
    BY <1>1, <2>2 DEF TypeOK
  <2>4. InsertId(ids, id[p]) \in Seq(Ids)
    BY <1>4, <2>3, InsertIdFacts DEF AddLock, IdTyped, TypeOK
  <2>5. Cardinality(Adding') = Cardinality(Adding)
    BY <1>4, AddingSame DEF AddLock
  <2> QED BY <1>4, <2>4, <2>5 DEF AddLock, TypeOK, Goto
<1>5. ASSUME NEW p \in Procs, AddStore(p) PROVE TypeOK'
  <2>1. p \in Adding
    BY <1>5 DEF AddStore, Adding
  <2>2. Cardinality(Adding) # 0
    BY <2>1, AddingFinite, FS_EmptySet
  <2>3. Len(ids) < MaxIds
    BY <1>1, <2>2 DEF TypeOK
  <2>4. ids' \in Seq(Ids) /\ Len(ids') = Len(ids) + 1
    BY <1>5, <2>3, InsertIdFacts DEF AddStore, IdTyped, InsertBuilt, TypeOK
  <2>5. Cardinality(Adding') = Cardinality(Adding) - 1
    BY <1>5, AddingShrinks DEF AddStore
  <2>6. Len(ids') + Cardinality(Adding') + Len(toLoad') <= MaxIds
    BY <1>1, <1>5, <2>4, <2>5 DEF AddStore, TypeOK
  <2>7. <<>> \in Seq(Ids)
    OBVIOUS
  <2> QED BY <1>5, <2>4, <2>6, <2>7 DEF AddStore, TypeOK, Goto
<1>6. ASSUME NEW p \in Procs, AddPut(p) PROVE TypeOK'
  <2>1. Cardinality(Adding') = Cardinality(Adding)
    BY <1>6, AddingSame DEF AddPut
  <2>2. id[p] \in Ids
    BY <1>6 DEF AddPut, IdTyped
  <2> QED BY <1>6, <2>1, <2>2 DEF AddPut, TypeOK, Goto
<1>7. ASSUME NEW p \in Procs, RmIndex(p) PROVE TypeOK'
  <2>1. Cardinality(Adding') = Cardinality(Adding)
    BY <1>7, AddingSame DEF RmIndex
  <2>2. PICK view \in VisibleIds : index' = [index EXCEPT ![p] = IndexFor(view, id[p])]
    BY <1>7 DEF RmIndex
  <2>3. id[p] \in Ids
    BY <1>7 DEF RmIndex, IdTyped
  <2>4. IndexFor(view, id[p]) \in Nat
    BY <2>3, VisibleTyped, FindIndexRange DEF TypeOK
  <2> QED BY <1>7, <2>1, <2>2, <2>4 DEF RmIndex, TypeOK, Goto
<1>8. ASSUME NEW p \in Procs, RmLock(p) PROVE TypeOK'
  <2>1. Cardinality(Adding') = Cardinality(Adding)
    BY <1>8, AddingSame DEF RmLock
  <2> QED BY <1>8, <2>1 DEF RmLock, TypeOK, Goto
<1>9. ASSUME NEW p \in Procs, RmDelete(p) PROVE TypeOK'
  <2>1. Cardinality(Adding') = Cardinality(Adding)
    BY <1>9, AddingSame DEF RmDelete
  <2> QED BY <1>9, <2>1 DEF RmDelete, TypeOK, Goto
<1>10. ASSUME NEW p \in Procs, RmCut(p) PROVE TypeOK'
  <2>1. Cardinality(Adding') = Cardinality(Adding)
    BY <1>10, AddingSame DEF RmCut
  <2>2. ids' \in Seq(Ids) /\ Len(ids') = Len(ids) - 1
    BY <1>10, CutAtFacts DEF RmCut, TypeOK
  <2>3. Len(ids') + Cardinality(Adding') + Len(toLoad') <= MaxIds
    BY <1>1, <1>10, <2>1, <2>2 DEF RmCut, TypeOK
  <2> QED BY <1>10, <2>2, <2>3 DEF RmCut, TypeOK, Goto
<1>11. ASSUME NEW p \in Procs, RmPanic(p) PROVE TypeOK'
  <2>1. Cardinality(Adding') = Cardinality(Adding)
    BY <1>11, AddingSame DEF RmPanic
  <2> QED BY <1>11, <2>1 DEF RmPanic, TypeOK, Goto
<1>12. ASSUME NEW p \in Procs, LookupNode(p) PROVE TypeOK'
  <2>1. Cardinality(Adding') = Cardinality(Adding)
    BY <1>12, AddingSame DEF LookupNode
  <2> QED BY <1>12, <2>1 DEF LookupNode, TypeOK, Goto
<1>13. ASSUME NEW p \in Handlers, NEW name \in NewNames, AnnounceNewNode(p, name)
       PROVE  TypeOK'
  <2>1. p \in Procs
    BY DEF Procs
  <2>2. HashKey[Resolve[name]] \in Ids
    BY <1>13, GivenTyped, HashKeyTyped DEF AnnounceNewNode, TypeOK
  <2>3. Cardinality(Adding') = Cardinality(Adding) + 1
    BY <1>13, <2>1, AddingGrows DEF AnnounceNewNode
  <2>4. Len(ids') + Cardinality(Adding') + Len(toLoad') <= MaxIds
    BY <1>1, <1>13, <2>3 DEF AnnounceNewNode, RoomForOne, TypeOK
  <2> QED BY <1>13, <2>1, <2>2, <2>4 DEF AnnounceNewNode, TypeOK, Goto
<1>14. ASSUME NEW p \in Handlers, NEW name \in RemovedNames, AnnounceRemoveNode(p, name)
       PROVE  TypeOK'
  <2>1. p \in Procs
    BY DEF Procs
  <2>2. HashKey[Resolve[name]] \in Ids
    BY <1>14, GivenTyped, HashKeyTyped DEF AnnounceRemoveNode, TypeOK
  <2>3. Cardinality(Adding') = Cardinality(Adding)
    BY <1>14, <2>1, AddingSame DEF AnnounceRemoveNode
  <2> QED BY <1>14, <2>1, <2>2, <2>3 DEF AnnounceRemoveNode, TypeOK, Goto
<1>15. ASSUME NEW p \in Handlers, NEW key \in Keys, LookupId(p, key) PROVE TypeOK'
  <2>1. p \in Procs
    BY DEF Procs
  <2>2. Cardinality(Adding') = Cardinality(Adding)
    BY <1>15, <2>1, AddingSame DEF LookupId
  <2>3. PICK view \in VisibleIds :
          id' = [id EXCEPT ![p] = ClosestTo(view, HashKey[key])]
    BY <1>15 DEF LookupId
  <2>4. HashKey[key] \in Ids
    BY GivenTyped, StringsAssumption DEF TypeOK
  <2>5. ClosestTo(view, HashKey[key]) \in Ids \cup 0 .. MaxIds
    BY <2>4, VisibleTyped, FindIndexRange DEF TypeOK
  <2> QED BY <1>15, <2>1, <2>2, <2>3, <2>5 DEF LookupId, TypeOK, Goto
<1>16. ASSUME NEW p \in Handlers, FatalMapRace(p) PROVE TypeOK'
  BY <1>16 DEF FatalMapRace, TypeOK, Adding
<1>17. CASE UNCHANGED vars
  BY <1>17 DEF vars, state, TypeOK, Adding
<1> QED
  BY ServingHandlers, <1>2, <1>3, <1>4, <1>5, <1>6, <1>7, <1>8, <1>9, <1>10, <1>11, <1>12, <1>13, <1>14,
     <1>15, <1>16, <1>17
  DEF Next, Load, Lock, Continue, Request

LEMMA IdsMatchNodesStep ==
  ASSUME TypeOK, IdTyped, InsertBuilt, NoRemovals, IdsMatchNodes, [Next]_vars
  PROVE  IdsMatchNodes'
<1> SUFFICES ASSUME AddsOnly PROVE IdsMatchNodes'
  BY GivenStays DEF IdsMatchNodes
<1> DEFINE Pending == {id[p] : p \in {q \in Procs : pc[q] = "addPut"}}
<1>1. IdSet = nodes \cup Pending
  BY DEF IdsMatchNodes
<1> SUFFICES IdSet' = nodes' \cup Pending'
  BY DEF IdsMatchNodes
<1>2. ASSUME UNCHANGED ring,
             \A q \in Procs : /\ pc'[q] = "addPut" <=> pc[q] = "addPut"
                              /\ pc[q] = "addPut" => id'[q] = id[q]
      PROVE  IdSet' = nodes' \cup Pending'
  <2>1. Pending' = Pending
    BY <1>2
  <2>2. IdSet' = IdSet /\ nodes' = nodes
    BY <1>2 DEF ring, IdSet
  <2> QED BY <1>1, <2>1, <2>2
<1>3. CASE Load
  BY <1>2, <1>3, ProcFacts DEF Load, LoadNext, LoadFails, Goto, TypeOK, ring
<1>4. ASSUME NEW p \in Procs, Lock(p) PROVE IdSet' = nodes' \cup Pending'
  BY <1>2, <1>4 DEF Lock, AddLock, RmLock, Goto, TypeOK, ring
<1>5. ASSUME NEW p \in Procs, AddStore(p) PROVE IdSet' = nodes' \cup Pending'
  <2>1. p \in Adding
    BY <1>5 DEF AddStore, Adding
  <2>2. Cardinality(Adding) # 0
    BY <2>1, AddingFinite, FS_EmptySet
  <2>3. Len(ids) < MaxIds
    BY <2>2, AddingFinite, GivenTyped DEF TypeOK
  <2>4. ids \in Seq(Ids) /\ id[p] \in Ids /\ ids' = InsertId(ids, id[p])
    BY <1>5 DEF AddStore, InsertBuilt, IdTyped, TypeOK
  <2>5. Elements(ids') = Elements(ids) \cup {id[p]}
    BY <2>3, <2>4, InsertIdFacts DEF TypeOK
  <2>6. IdSet' = IdSet \cup {id[p]}
    BY <2>5 DEF IdSet, Elements
  <2>7. Pending' = Pending \cup {id[p]} /\ nodes' = nodes
    BY <1>5 DEF AddStore, Goto, TypeOK
  <2> QED BY <1>1, <2>6, <2>7
<1>6. ASSUME NEW p \in Procs, AddPut(p) PROVE IdSet' = nodes' \cup Pending'
  <2>1. Pending = Pending' \cup {id[p]}
    BY <1>6 DEF AddPut, Goto, TypeOK
  <2>2. nodes' = nodes \cup {id[p]} /\ IdSet' = IdSet
    BY <1>6 DEF AddPut, IdSet
  <2> QED BY <1>1, <2>1, <2>2
<1>7. ASSUME NEW p \in Procs, RmIndex(p) \/ RmDelete(p) \/ RmCut(p) \/ RmPanic(p)
      PROVE  FALSE
  BY <1>7 DEF NoRemovals, RmIndex, RmDelete, RmCut, RmPanic
<1>8. ASSUME NEW p \in Procs, LookupNode(p) PROVE IdSet' = nodes' \cup Pending'
  BY <1>2, <1>8 DEF LookupNode, Goto, TypeOK, ring
<1>9. ASSUME NEW p \in Handlers, Request(p) PROVE IdSet' = nodes' \cup Pending'
  BY <1>2, <1>9, RequestFacts DEF TypeOK, ring
<1>10. CASE UNCHANGED vars
  BY <1>2, <1>10 DEF vars, state, ring
<1> QED
  BY ServingHandlers, <1>3, <1>4, <1>5, <1>6, <1>7, <1>8, <1>9, <1>10 DEF Next, Continue

\* The slice changes when an add stores its own or a removal cuts it.
LEMMA IdsWriters ==
  ASSUME [Next]_vars, TypeOK
  PROVE  \/ ids' = ids
         \/ \E p \in Procs : AddStore(p) \/ RmCut(p)
<1>1. CASE Load
  BY <1>1 DEF Load, LoadNext, LoadFails
<1>2. ASSUME NEW p \in Procs, Lock(p) PROVE ids' = ids
  BY <1>2 DEF Lock, AddLock, RmLock
<1>3. ASSUME NEW p \in Procs, Continue(p) PROVE ids' = ids \/ AddStore(p) \/ RmCut(p)
  BY <1>3 DEF Continue, AddPut, RmIndex, RmDelete, RmPanic, LookupNode
<1>4. ASSUME NEW p \in Handlers, Request(p) PROVE ids' = ids
  BY <1>4, RequestFacts
<1>5. CASE UNCHANGED vars
  BY <1>5 DEF vars, state
<1> QED BY ServingHandlers, <1>1, <1>2, <1>3, <1>4, <1>5 DEF Next

LEMMA RingShapeStep ==
  ASSUME TypeOK, IdTyped, InsertBuilt, NoRemovals, RingShape, [Next]_vars
  PROVE  RingShape'
<1> SUFFICES ASSUME AddsOnly, Distinct(ids') PROVE Shaped(ids')
  BY GivenStays DEF RingShape, NoDuplicateIds, Distinct, Shaped
<1>1. Distinct(ids) => Shaped(ids)
  BY DEF RingShape, NoDuplicateIds, Distinct, Shaped
<1>2. CASE ids' = ids
  BY <1>1, <1>2
<1>3. ASSUME NEW p \in Procs, AddStore(p) PROVE Shaped(ids')
  <2>1. p \in Adding
    BY <1>3 DEF AddStore, Adding
  <2>2. Cardinality(Adding) # 0
    BY <2>1, AddingFinite, FS_EmptySet
  <2>3. Len(ids) < MaxIds
    BY <2>2, AddingFinite, GivenTyped DEF TypeOK
  <2>4. ids \in Seq(Ids) /\ id[p] \in Ids /\ ids' = InsertId(ids, id[p]) /\ scenario \in Scenarios
    BY <1>3 DEF AddStore, InsertBuilt, IdTyped, TypeOK
  <2> QED BY <1>1, <2>3, <2>4, InsertKeepsShape
<1>4. ASSUME NEW p \in Procs, RmCut(p) PROVE FALSE
  BY <1>4 DEF NoRemovals, RmCut
<1> QED BY <1>2, <1>3, <1>4, IdsWriters

LEMMA LeakFreezesRingStep ==
  ASSUME TypeOK, LockDiscipline, [Next]_vars, ~MutexReleased
  PROVE  ~MutexReleased' /\ UNCHANGED ring
<1>1. mu \in Procs /\ \A q \in Procs : ~Critical(q)
  BY DEF TypeOK, LockDiscipline, MutexReleased
<1>2. ASSUME UNCHANGED <<mu, ids, nodes>>, ~Critical(mu)'
      PROVE  ~MutexReleased' /\ UNCHANGED ring
  BY <1>1, <1>2, ProcFacts DEF MutexReleased, ring
<1> USE DEF TypeOK, Critical, Goto
<1>3. CASE Load
  BY <1>1, <1>2, <1>3 DEF Load, LoadNext, LoadFails
<1>4. ASSUME NEW p \in Procs, Lock(p) PROVE FALSE
  BY <1>1, <1>4, ProcFacts DEF Lock, AddLock, RmLock
<1>5. ASSUME NEW p \in Procs, Continue(p) PROVE ~MutexReleased' /\ UNCHANGED ring
  <2>1. RmIndex(p) \/ LookupNode(p)
    BY <1>1, <1>5 DEF Continue, AddStore, AddPut, RmDelete, RmCut, RmPanic
  <2> QED BY <1>1, <1>2, <2>1 DEF RmIndex, LookupNode
<1>6. ASSUME NEW p \in Handlers, Request(p) PROVE ~MutexReleased' /\ UNCHANGED ring
  BY <1>1, <1>2, <1>6, RequestFacts
<1>7. CASE UNCHANGED vars
  BY <1>1, <1>2, <1>7 DEF vars, state
<1> QED BY ServingHandlers, <1>3, <1>4, <1>5, <1>6, <1>7 DEF Next

-----------------------------------------------------------------------------

\* The inductive invariant.
IInv == TypeOK /\ LockDiscipline /\ IdTyped /\ InsertBuilt /\ NoRemovals /\ IdsMatchNodes

LEMMA InvariantHolds == Spec => []IInv
<1>1. Init => IInv
  <2>1. Init => IdsMatchNodes
    BY DEF Init, IdsMatchNodes, IdSet, Elements
  <2> QED BY <2>1, InitInv DEF IInv
<1>2. IInv /\ [Next]_vars => IInv'
  BY TypeOKStep, LockDisciplineStep, IdTypedStep, InsertBuiltStep, NoRemovalsStep,
     IdsMatchNodesStep DEF IInv
<1> QED BY <1>1, <1>2, PTL DEF Spec

\* In every ring, whatever adds, removes, looks up and loads: the state is well
\* typed and the ring is written only by the process that holds the mutex.
THEOREM LockDisciplineHolds == Spec => [](TypeOK /\ LockDiscipline)
<1>1. IInv => TypeOK /\ LockDiscipline
  BY DEF IInv
<1> QED BY <1>1, InvariantHolds, PTL

\* Types are right, and the slice never grows beyond what was given to be added.
THEOREM TypeOKHolds == Spec => []TypeOK
<1>1. IInv => TypeOK
  BY DEF IInv
<1> QED BY <1>1, InvariantHolds, PTL

\* Without removals no concurrent add is lost: the slice and the map agree.
THEOREM IdsMatchNodesHolds == Spec => []IdsMatchNodes
<1>1. IInv => IdsMatchNodes
  BY DEF IInv
<1> QED BY <1>1, InvariantHolds, PTL

\* A mutex left locked by a panicking RemoveNode freezes the ring for good.
THEOREM LeakFreezesRingHolds == Spec => LeakFreezesRing
<1>1. IInv /\ [Next]_vars => [~MutexReleased => ~MutexReleased' /\ UNCHANGED ring]_vars
  BY LeakFreezesRingStep DEF IInv
<1> QED BY <1>1, InvariantHolds, PTL DEF Spec, LeakFreezesRing

\* What insertId makes of the slice instead of a sorted one, whoever adds at the
\* same time: the first id in front, the smaller ones behind it, the larger ones
\* in order at the end (dht.go:79-101).
THEOREM RingShapeHolds == Spec => []RingShape
<1>1. Init => RingShape
  BY DEF Init, RingShape
<1>2. IInv /\ RingShape /\ [Next]_vars => RingShape'
  BY RingShapeStep DEF IInv
<1> QED BY <1>1, <1>2, InvariantHolds, PTL DEF Spec

\* Beside a removal the slice read has the ids of the ring and no other.
LEMMA ShiftedElements ==
  ASSUME TypeOK, NEW q \in Procs, NEW view \in PartialShifts(q)
  PROVE  Elements(view) \subseteq IdSet /\ Len(view) = Len(ids)
<1>1. PICK j \in 1 .. Len(ids) :
        view = [k \in 1 .. Len(ids) |->
                  IF index[q] < k /\ k < j THEN ids[k + 1] ELSE ids[k]]
  BY DEF PartialShifts
<1>2. Len(ids) \in Nat /\ Len(view) = Len(ids)
  BY <1>1 DEF TypeOK
<1>3. ASSUME NEW k \in 1 .. Len(ids) PROVE view[k] \in IdSet
  <2>1. CASE index[q] < k /\ k < j
    <3>1. view[k] = ids[k + 1] /\ k + 1 \in 1 .. Len(ids)
      BY <1>1, <1>2, <2>1
    <3> QED BY <3>1 DEF IdSet, Elements
  <2>2. CASE ~ (index[q] < k /\ k < j)
    <3>1. view[k] = ids[k]
      BY <1>1, <2>2
    <3> QED BY <3>1 DEF IdSet, Elements
  <2> QED BY <2>1, <2>2
<1> QED BY <1>2, <1>3 DEF Elements

\* A lookup that reads beside no store of a new slice finds an id of the ring,
\* in whatever order it is, even beside a removal (dht.go:67-77, 143-188).
THEOREM LookupFindsAnIdHolds == Spec => LookupFindsAnId
<1> DEFINE Finds == \A p \in Handlers : \A key \in Keys :
                      /\ LookupId(p, key)
                      /\ ids # <<>> /\ HashKey[key] \notin IdSet
                      /\ \A q \in Procs : pc[q] # "addStore"
                      => id'[p] \in IdSet
<1>1. IInv => Finds
  <2> SUFFICES ASSUME IInv, NEW p \in Handlers, NEW key \in Keys, LookupId(p, key),
                      ids # <<>>, HashKey[key] \notin IdSet,
                      \A q \in Procs : pc[q] # "addStore"
               PROVE  id'[p] \in IdSet
    OBVIOUS
  <2>1. PICK view \in VisibleIds : id' = [id EXCEPT ![p] = ClosestTo(view, HashKey[key])]
    BY DEF LookupId
  <2>2. id'[p] = ClosestTo(view, HashKey[key])
    BY <2>1 DEF IInv, TypeOK, Procs
  <2>3. view \in Seq(Ids) /\ Len(view) <= MaxIds
    BY VisibleTyped DEF IInv
  <2>4. Elements(view) \subseteq IdSet /\ Len(view) = Len(ids)
    <3>1. view = ids \/ \E q \in Procs : view \in PartialShifts(q)
      BY Zenon DEF VisibleIds
    <3> QED BY <3>1, ShiftedElements DEF IInv, IdSet
  <2>5. scenario \in Scenarios /\ HashKey[key] \in Ids
    BY GivenTyped, StringsAssumption DEF IInv, TypeOK
  <2>6. Routes(view, HashKey[key], ClosestTo(view, HashKey[key]))
    BY <2>3, <2>5, SearchContracts
  <2>7. view # <<>>
    BY <2>3, <2>4 DEF IInv, TypeOK
  <2> QED BY <2>2, <2>4, <2>6, <2>7 DEF Routes
<1>2. IInv /\ [Next]_vars => [Finds]_vars
  BY <1>1
<1> HIDE DEF Finds
<1>3. Spec => [][Finds]_vars
  BY <1>2, InvariantHolds, PTL DEF Spec
<1> QED BY <1>3 DEF LookupFindsAnId, Finds
=============================================================================
