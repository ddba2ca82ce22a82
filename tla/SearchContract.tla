--------------------------- MODULE SearchContract ---------------------------
(***************************************************************************)
(* What the callers of the ring's two binary searches (pkg/dht/dht.go) may *)
(* rely on.  HashRing assumes it of its searches, RingSearchProofs proves  *)
(* it of those of RingOps.  Indices are the code's: i is the element i + 1. *)
(***************************************************************************)
EXTENDS Integers, Sequences

Elements(arr) == {arr[k] : k \in 1 .. Len(arr)}

Ascending(arr) == \A j, k \in 1 .. Len(arr) : j < k => arr[j] < arr[k]

\* findIndex: where insertId puts an id that is new, and where RemoveNode finds
\* one that is there, if the slice is in order and short.
Locates(arr, x, i) ==
  IF arr = <<>> THEN i = 0
  ELSE /\ i \in 0 .. Len(arr) - 1
       /\ x \notin Elements(arr) =>
            IF x < arr[1] THEN i = 0
            ELSE arr[i + 1] < x /\ (i + 1 < Len(arr) => x < arr[i + 2])
       /\ Ascending(arr) /\ Len(arr) <= 4 =>
            \A k \in 1 .. Len(arr) : arr[k] = x => i = k - 1

\* findClosestElement: an element of the slice, or, for a target that is one, an
\* index in its place.
Routes(arr, x, e) ==
  IF arr = <<>> THEN e = 0
  ELSE e \in Elements(arr) \/ (x \in Elements(arr) /\ e \in 0 .. Len(arr) - 1)
=============================================================================
