CONSTANTS
  Process = {p1, p2}
  NThreads = 1
  Addr = {a, b}
  Sizes = {1}
  Calls = {"malloc"}
  LeakLimit = 1
  Large = 2
  MaxRegions = 2
  MaxProfiles = 2
  Width = 8
  RingSize = 1
  MaxCalls = 4
SPECIFICATION Spec
INVARIANT
  NoFalseDoubleFree
