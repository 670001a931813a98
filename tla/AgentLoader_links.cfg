\* The memory analyzer's loader; it ends.
CONSTANTS
  Agents = {"memory_analyzer"}
  CPU = {c1}
  RingCap = 1
  Path = {"/etc/shadow"}
  Uid = {0}
SPECIFICATION Spec
INVARIANT AttachedAsReported
CHECK_DEADLOCK FALSE
