\* Two CPUs share the ring.
CONSTANTS
  CPU = {c1, c2}
  Pid <- MCPid
  MaxBatch = 2
  RingCap = 2
  CacheCap = 1
  Attached <- Program
  Rate = 2
  MaxClock = 5
  MaxPackets = 1
  SharedClock = 3
  Lone = c1
SPECIFICATION MCSpec
INVARIANTS
  TypeOK
  InOrder
  Conserved
  OneOpenRecord
  FlushTimeBoundsAge
  NeverDrops
  BatchIdIsPlace
  TotalCounts
PROPERTIES
  BatchEmpties
  ImplementsChannel
