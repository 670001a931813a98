CONSTANTS
  Cpu = {c1}
  Packet = {p, q}
  Size = 4
  Width = 8
SPECIFICATION Spec
INVARIANT
  TypeOK
PROPERTIES
  RefusesOnlyFull
  ImplementsFifo
  PublishedStays
