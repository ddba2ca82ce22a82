------------------------------ MODULE RingOps -------------------------------
(***************************************************************************)
(* The arithmetic of pkg/dht/dht.go on Go ints, and its two binary         *)
(* searches as functions of their arguments, for the modules in which a    *)
(* search is one step.  RingSearch runs the same searches an iteration at  *)
(* a time.                                                                 *)
(*                                                                         *)
(* Ints are the Go ints: signed words between -HalfRange and HalfRange - 1 *)
(* (HalfRange is 2^63 in the build).  A slice need not be sorted: insertId *)
(* does not keep it so.                                                    *)
(***************************************************************************)
EXTENDS Integers, Sequences

CONSTANT HalfRange  \* half the range of a Go int

Ints == -HalfRange .. HalfRange - 1

ASSUME HalfRangeAssumption == HalfRange \in Nat \ {0}

\* Subtraction of two Go ints: the difference is reduced modulo 2 * HalfRange.
Minus(a, b) ==
  IF a - b >= HalfRange THEN a - b - 2 * HalfRange
  ELSE IF a - b < -HalfRange THEN a - b + 2 * HalfRange
  ELSE a - b

\* Deviation: the nearer of the two is dropped.
GetClosestSwapped(t, val1, val2) ==
  IF Minus(t, val1) >= Minus(val2, t) THEN val1 ELSE val2

\* The upper neighbour wins a tie.
GetClosest(t, val1, val2) ==
  IF Minus(t, val1) >= Minus(val2, t) THEN val2 ELSE val1

\* The states of the loop common to both searches, on a slice of n elements.
Probes(n) == [low : 0 .. n, high : -1 .. n, mid : 0 .. n]

Probe(low, high, mid) == [low |-> low, high |-> high, mid |-> mid]

\* Where the loop ends, and why: at an element equal to the target, at the lower
\* end of the gap the target falls into, or out of the loop, at the last probe.
Stop(how, at) == [how |-> how, at |-> at]

\* One iteration; rest is what the iterations after it come to.
Iterate(arr, target, rest, s) ==
  LET m == (s.low + s.high) \div 2
  IN  IF s.low >= s.high THEN Stop("out", s.mid)
      ELSE IF target = arr[m + 1] THEN Stop("hit", m)
      ELSE IF target < arr[m + 1]
        THEN IF m > 0 /\ target > arr[m]
               THEN Stop("gap", m - 1) ELSE rest[Probe(s.low, m - 1, m)]
        ELSE IF m < Len(arr) - 1 /\ target < arr[m + 2]
               THEN Stop("gap", m) ELSE rest[Probe(m + 1, s.high, m)]

SearchFrom(arr, target) ==
  LET loop[s \in Probes(Len(arr))] == Iterate(arr, target, loop, s)
  IN  loop

SearchLoop(arr, target) == SearchFrom(arr, target)[Probe(0, Len(arr) - 1, 0)]

FindIndex(arr, target) ==
  IF arr = <<>> \/ target <= arr[1] THEN 0
  ELSE IF target >= arr[Len(arr)] THEN Len(arr) - 1
  ELSE SearchLoop(arr, target).at

\* Out of the loop the code returns the index, not the element stored there.
FindClosestElement(arr, target) ==
  IF arr = <<>> THEN 0
  ELSE IF target <= arr[1] THEN arr[1]
  ELSE IF target >= arr[Len(arr)] THEN arr[Len(arr)]
  ELSE LET stop == SearchLoop(arr, target)
       IN  IF stop.how = "hit" THEN arr[stop.at + 1]
           ELSE IF stop.how = "gap"
             THEN GetClosest(target, arr[stop.at + 1], arr[stop.at + 2])
           ELSE stop.at
=============================================================================
