SPECIFICATION Spec
CONSTANTS
  STATES_MAX = 3
  RAMFS = 6
  KERNEL <- kernelName
  Archives <- MCArchives
  PAGE = 2
  ENTRIES = 11
  SEGMENT = 1
  SSL = 2
  TSL = 4
  BIOS_AREA = 40
  BIOS_END = 45
  Devices = {0, 1, 2}
  Functions = {0, 1, 2}
  Firmwares <- MCFirmwares
INVARIANTS
  FullName
