\* Every test of the three programs, three rounds each.
CONSTANTS
  Rounds = 3
  Programs = {"cache_pingpong_perf", "extreme_cache_test", "contention_test"}
SPECIFICATION FairSpec
INVARIANTS
  TypeOK
  FinalCounts
PROPERTIES
  ImplementsTurns
  Terminates
\* The programs end.
CHECK_DEADLOCK FALSE
