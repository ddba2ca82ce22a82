---------------------------- MODULE MCRingSearch ----------------------------
(* Words of three bits: every sorted slice of them; every slice, sorted or  *)
(* not, of at most four of them, and of at most six of the middle four.     *)
EXTENDS RingSearch, FiniteSets, SequencesExt

MCHalfRange == 4

Ascending(S) ==
  [i \in 1 .. Cardinality(S) |->
     CHOOSE x \in S : Cardinality({y \in S : y < x}) = i - 1]

MCArrays ==
  {Ascending(S) : S \in SUBSET (-4 .. 3)} \cup BoundedSeq(-4 .. 3, 4)
    \cup BoundedSeq(-1 .. 2, 6)
=============================================================================
