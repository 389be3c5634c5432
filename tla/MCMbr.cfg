SPECIFICATION Spec
CONSTANTS
  SECTOR = 4
  SEGMENT = 16
  SSL_SECTORS = 3
  WORD = 8
  DWORD = 12
  Drives <- MCDrives
INVARIANTS
  TypeOK
  SearchExact
PROPERTIES
  Terminates
