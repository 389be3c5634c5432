SPECIFICATION Spec
CONSTANTS
  ALIGN = 2
  HDR = 2
  HeapAddr = 3
  HeapSize = 31
  MapSize = 2
  NodeSize = 3
  Earlier = {8, 14, 20, 22, 27}
  Entries = {usable, reserved}
  BLANK = blank
  Cookies = {1, 2}
INVARIANTS
  TypeOK
  OwnsExactly
  MapComplete
PROPERTIES
  Terminates
