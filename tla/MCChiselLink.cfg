CONSTANTS
  XLEN = 8
  AddrBits = 6
  MemLatency = 5
  NRegs = 3
  Fuel = 14
  Programs <- LinkPrograms
SPECIFICATION Spec
INVARIANTS HaltsComplete
CHECK_DEADLOCK FALSE
