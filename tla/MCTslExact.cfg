SPECIFICATION Spec
CONSTANTS
  ALIGN = 2
  HDR = 2
  HeapAddr = 3
  HeapSize = 21
  SECTOR = 8
  MANY = 3
  WORD = 16
  Earlier = {4, 10}
  TslSizes = {1, 3, 4, 5}
  KernelSizes = {1, 2, 3}
INVARIANTS
  TslExact
