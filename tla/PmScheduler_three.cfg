CONSTANTS
  NTasks = 3
  Modulus = 2
  RamZeroed = TRUE
SPECIFICATION FairSpec
INVARIANTS
  TypeOK
  OwnFrames
  CurrentRuns
PROPERTIES
  TasksUndisturbed
  EveryTaskAdvances
