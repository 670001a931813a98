\* The sentinel; a loader ends.
CONSTANTS
  Agents = {"sentinel"}
  CPU = {c1, c2}
  RingCap = 2
  Path = {"/etc/shadow", "/tmp/"}
  Uid = {0}
SPECIFICATION Spec
INVARIANT ShownAsSent
CHECK_DEADLOCK FALSE
