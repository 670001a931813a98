CONSTANTS
  NTasks = 3
  Modulus = 2
  RamZeroed = FALSE
SPECIFICATION Spec
INVARIANT
  FirstRoundStartsA
