\* Two processes of two threads.
CONSTANTS
  Process = {p1, p2}
  NThreads = 2
  Addr = {a, b}
  Sizes = {1, 3}
  Calls = {"malloc", "mmap", "exit", "fault"}
  LeakLimit = 1
  Large = 2
  MaxRegions = 2
  MaxProfiles = 2
  Width = 8
  RingSize = 1
  MaxCalls = 4
  Lone = p1
SPECIFICATION MCSpec
INVARIANTS
  TypeOK
  RegionsTrackBlocks
  BooksBalance
  ActiveCoversHeld
  OwnProfileOnly
\* The programs stop calling when MaxCalls is reached.
CHECK_DEADLOCK FALSE
