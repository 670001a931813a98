\* The four agents, two CPUs, a ring of two records.
CONSTANTS
  Agents = {"sentinel", "sentinel_fentry", "memory_analyzer", "syscall_modifier"}
  CPU = {c1, c2}
  RingCap = 2
  Path = {"/etc/shadow", "/tmp/"}
  Uid = {0}
SPECIFICATION FairSpec
INVARIANTS
  TypeOK
  KeptLinksLive
  FieldsAgree
  Protects
PROPERTIES
  EndsUnlessFlooded
  RecordsShown
\* A loader ends.
CHECK_DEADLOCK FALSE
