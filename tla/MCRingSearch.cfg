CONSTANTS
  HalfRange <- MCHalfRange
  Arrays <- MCArrays
SPECIFICATION Spec
INVARIANTS LoopInvariant IndexInRange LowerNeighbour HitOrNeighbour ClosestNode Functional
PROPERTIES LoopNarrows
CHECK_DEADLOCK FALSE
