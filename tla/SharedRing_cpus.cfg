CONSTANTS
  Cpu = {c1, c2}
  Packet = {p, q}
  Size = 4
  Width = 8
SPECIFICATION Spec
PROPERTY
  PublishedStays
