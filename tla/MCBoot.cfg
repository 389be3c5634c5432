SPECIFICATION Spec
CONSTANTS
  ALIGN = 2
  HDR = 2
  HeapAddr = 3
  HeapSize = 81
  Machines <- MCMachines
  Sizeof <- MCSizeof
  SECTOR = 8
  SSL = 1000
  RAMFS = 4000
  LIMIT16 = 16
  LIMIT4 = 2
  PAGE = 8
INVARIANTS
  TypeOK
  A20Exact
  EntersReady
  InfoComplete
PROPERTIES
  Terminates
