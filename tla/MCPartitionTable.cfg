SPECIFICATION Spec
CONSTANTS
  ALIGN = 2
  HDR = 2
  HeapAddr = 3
  HeapSize = 33
  ArraySize = 3
  SECTOR = 8
  WORD = 3
  Earlier = {4, 18, 29}
  Counts = {0, 1, 3, 4, 5}
  Sizes = {3, 4, 8}
  Types = {tsl, kernel}
  NOTYPE = notype
INVARIANTS
  TypeOK
  MemorySafe
  Filtered
PROPERTIES
  Terminates
