----------------------------- MODULE RingSearch -----------------------------
(***************************************************************************)
(* The two binary searches of pkg/dht/dht.go, one loop iteration per step: *)
(* findIndex, which places an id in the ring's id slice, and               *)
(* findClosestElement, which picks the id that owns a key.  The two loops  *)
(* test the same conditions in the same order and differ only in what they *)
(* return, so one machine runs either of them (fn).                        *)
(*                                                                         *)
(* The slice need not be sorted: insertId does not keep it so.              *)
(***************************************************************************)
EXTENDS RingOps

CONSTANT Arrays  \* the slices the searches are run on

ASSUME ArraysAssumption == Arrays \subseteq Seq(Ints)

VARIABLES
  fn,        \* the function called: "findIndex" or "findClosestElement"
  arr,       \* its argument arr, a TLA+ sequence (At is 0-based like the code)
  target,    \* its argument target
  low, high, mid,
  pc,        \* "start", "loop" or "done"
  result     \* the value returned, meaningful when pc = "done"

vars == <<fn, arr, target, low, high, mid, pc, result>>

Fns == {"findIndex", "findClosestElement"}

At(i) == arr[i + 1]
N == Len(arr)

-----------------------------------------------------------------------------

Init ==
  /\ fn \in Fns
  /\ arr \in Arrays
  /\ target \in Ints
  /\ low = 0 /\ high = 0 /\ mid = 0
  /\ pc = "start"
  /\ result = 0

\* findIndex returns the index, findClosestElement the element stored there.
Return(index) ==
  /\ pc' = "done"
  /\ result' = IF fn = "findIndex" THEN index ELSE At(index)
  /\ UNCHANGED <<fn, arr, target, low, high, mid>>

\* Both functions return 0 for an empty slice.
EmptySlice ==
  /\ pc = "start"
  /\ N = 0
  /\ pc' = "done"
  /\ result' = 0
  /\ UNCHANGED <<fn, arr, target, low, high, mid>>

\* Deviation: the insertion point before the first element is reported as -1.
AtOrBelowFirstMinusOne ==
  /\ pc = "start"
  /\ N > 0
  /\ target <= At(0)
  /\ pc' = "done"
  /\ result' = IF fn = "findIndex" THEN -1 ELSE At(0)
  /\ UNCHANGED <<fn, arr, target, low, high, mid>>

AtOrBelowFirst ==
  /\ pc = "start"
  /\ N > 0
  /\ target <= At(0)
  /\ Return(0)

AtOrAboveLast ==
  /\ pc = "start"
  /\ N > 0
  /\ target > At(0)
  /\ target >= At(N - 1)
  /\ Return(N - 1)

EnterLoop ==
  /\ pc = "start"
  /\ N > 0
  /\ target > At(0)
  /\ target < At(N - 1)
  /\ low' = 0
  /\ high' = N - 1
  /\ mid' = 0
  /\ pc' = "loop"
  /\ UNCHANGED <<fn, arr, target, result>>

Middle == (low + high) \div 2

Hit ==
  /\ pc = "loop"
  /\ low < high
  /\ At(Middle) = target
  /\ Return(Middle)

\* The gap the target falls into was found: its lower end is at index i.
ReturnGap(i) ==
  /\ pc' = "done"
  /\ result' = IF fn = "findIndex" THEN i ELSE GetClosest(target, At(i), At(i + 1))
  /\ UNCHANGED <<fn, arr, target, low, high, mid>>

InGapBelow == Middle > 0 /\ target > At(Middle - 1)
InGapAbove == Middle < N - 1 /\ target < At(Middle + 1)

\* Deviation: the gap below the probe is reported at its upper end.
GapBelowUpperEnd ==
  /\ pc = "loop"
  /\ low < high
  /\ target < At(Middle)
  /\ InGapBelow
  /\ ReturnGap(Middle)

GapBelow ==
  /\ pc = "loop"
  /\ low < high
  /\ target < At(Middle)
  /\ InGapBelow
  /\ ReturnGap(Middle - 1)

GoLeft ==
  /\ pc = "loop"
  /\ low < high
  /\ target < At(Middle)
  /\ ~InGapBelow
  /\ mid' = Middle
  /\ high' = Middle - 1
  /\ UNCHANGED <<fn, arr, target, low, pc, result>>

GapAbove ==
  /\ pc = "loop"
  /\ low < high
  /\ target > At(Middle)
  /\ InGapAbove
  /\ ReturnGap(Middle)

\* Deviation: the probe stays in the interval.
GoRightKeepsMiddle ==
  /\ pc = "loop"
  /\ low < high
  /\ target > At(Middle)
  /\ ~InGapAbove
  /\ mid' = Middle
  /\ low' = Middle
  /\ UNCHANGED <<fn, arr, target, high, pc, result>>

\* Deviation: one element too many is skipped.
GoRightSkips ==
  /\ pc = "loop"
  /\ low < high
  /\ target > At(Middle)
  /\ ~InGapAbove
  /\ mid' = Middle
  /\ low' = Middle + 2
  /\ UNCHANGED <<fn, arr, target, high, pc, result>>

GoRight ==
  /\ pc = "loop"
  /\ low < high
  /\ target > At(Middle)
  /\ ~InGapAbove
  /\ mid' = Middle
  /\ low' = Middle + 1
  /\ UNCHANGED <<fn, arr, target, high, pc, result>>

\* Deviation: the last probe is forgotten.
FallOutAtZero ==
  /\ pc = "loop"
  /\ low >= high
  /\ pc' = "done"
  /\ result' = 0
  /\ UNCHANGED <<fn, arr, target, low, high, mid>>

\* The loop ends without looking at arr[low]: both functions return the index
\* of the last probe, findClosestElement too, whose callers take it for an id.
FallOut ==
  /\ pc = "loop"
  /\ low >= high
  /\ pc' = "done"
  /\ result' = mid
  /\ UNCHANGED <<fn, arr, target, low, high, mid>>

Next ==
  \/ EmptySlice \/ AtOrBelowFirst \/ AtOrAboveLast \/ EnterLoop
  \/ Hit \/ GapBelow \/ GoLeft \/ GapAbove \/ GoRight \/ FallOut

Spec == Init /\ [][Next]_vars

-----------------------------------------------------------------------------
(* Properties *)

Sorted == \A i, j \in 1 .. N : i < j => arr[i] < arr[j]
Absent == \A i \in 1 .. N : arr[i] # target
Done(f) == pc = "done" /\ fn = f

TypeOK ==
  /\ fn \in Fns
  /\ arr \in Seq(Ints)
  /\ target \in Ints
  /\ pc \in {"start", "loop", "done"}
  /\ low \in 0 .. N
  /\ high \in -1 .. N
  /\ mid \in 0 .. N
  /\ pc = "loop" => low < N /\ high < N /\ mid < N
  /\ result \in Int

\* The loop's invariant, on any slice, sorted or not: the target stays between
\* arr[low] and arr[high], the probe that closed the interval was next to it,
\* and with at most four elements the interval never closes.
LoopInvariant ==
  pc = "loop" =>
    /\ N > 1
    /\ At(0) < target /\ target < At(N - 1)
    /\ low <= high
    /\ At(low) <= target /\ target <= At(high)
    /\ low = high => mid \in {low - 1, low + 1}
    /\ N <= 4 => low < high

\* On any non-empty slice, sorted or not, findIndex returns an index of the
\* slice: the caller's slice expressions (insertId, RemoveNode) are in bounds
\* as long as the slice has not changed in between.
IndexInRange ==
  Done("findIndex") /\ N > 0 => result \in 0 .. N - 1

\* The contract insertId relies on: for an id that is not in the slice, sorted
\* or not, findIndex returns an index whose element is below the id and the next
\* one, if any, above it -- except below the first element, where it returns 0
\* all the same.
LowerNeighbour ==
  Done("findIndex") /\ N > 0 /\ Absent =>
    IF target < At(0)
    THEN result = 0
    ELSE At(result) < target /\ (result < N - 1 => target < At(result + 1))

\* What RemoveNode can rely on, on a sorted slice: for an id that is there,
\* findIndex returns its index or one next to it (the fall-through answers),
\* and its index if there are at most four.
HitOrNeighbour ==
  Done("findIndex") /\ Sorted =>
    \A j \in 0 .. N - 1 : At(j) = target =>
      /\ result \in {j - 1, j, j + 1}
      /\ N <= 4 => result = j

\* Routing: a key whose hash is not itself an id goes to an id of the slice,
\* sorted or not, and if it is sorted to one at least distance from it, as long
\* as the ids on either side of it are less than HalfRange away (further than
\* that the subtraction in getClosest overflows and the farther one is returned).
Distance(x, y) == IF x >= y THEN x - y ELSE y - x

NeighboursInReach ==
  \A j \in 1 .. N - 1 :
    arr[j] < target /\ target < arr[j + 1] =>
      target - arr[j] < HalfRange /\ arr[j + 1] - target < HalfRange

ClosestNode ==
  Done("findClosestElement") /\ N > 0 /\ Absent =>
    \E i \in 1 .. N :
      /\ result = arr[i]
      /\ Sorted /\ NeighboursInReach =>
           \A j \in 1 .. N : Distance(arr[i], target) <= Distance(arr[j], target)

\* The machine computes what RingOps says of the same arguments, on any slice:
\* the ring's modules may take a search as one step.
Functional ==
  pc = "done" =>
    result = IF fn = "findIndex" THEN FindIndex(arr, target)
             ELSE FindClosestElement(arr, target)

\* Every iteration that goes on narrows the interval, on any slice.
LoopNarrows ==
  [][pc = "loop" /\ pc' = "loop" => high' - low' < high - low]_vars
=============================================================================
