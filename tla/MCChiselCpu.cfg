CONSTANTS
  XLEN = 8
  AddrBits = 6
  MemLatency = 5
  NRegs = 3
  Fuel = 14
  Programs <- MCPrograms
SPECIFICATION Spec
INVARIANTS InOrderEffects HaltsComplete
PROPERTIES Halts
CHECK_DEADLOCK FALSE
