\* A test without the fence and one with it, of three rounds each.
CONSTANTS
  Iterations = 3
  FenceMode = "both"
SPECIFICATION FairSpec
INVARIANTS
  TypeOK
  FencePreventsReordering
  RoundsAreComplete
  NobodyCancelled
PROPERTY
  Terminates
\* The program ends.
CHECK_DEADLOCK FALSE
