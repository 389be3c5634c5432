SPECIFICATION Spec
CONSTANTS
  ALIGN = 2
  HDR = 2
  HeapAddr = 3
  HeapSize = 22
  Owner = {a, b, c}
  Requests = {0, 1, 5, 8, 18, 19}
  HEADER = HEADER
  JUNK = JUNK
SYMMETRY OwnersAlike
INVARIANTS
  TypeOK
  Tiled
  Coalesced
  MaxAllocExact
  Accounted
  DataIntact
PROPERTIES
  Implements
