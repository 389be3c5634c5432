SPECIFICATION CallSpec
CONSTANTS
  Bits <- MCBits
  MAXBITS = 6
  UINT16 = 8
  NUM_BUFFER = 6
  Calls <- MCCalls
INVARIANTS
  CallTypeOK
  BufferExact
  TextExact
