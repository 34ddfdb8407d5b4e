CONSTANTS
  BufferCapacity = 8
  Word <- MCWord
  ZeroWord <- MCZeroWord
  Garbage = {0}
  Transfers <- MCTransfers
  MaxTransfers = 2
  MemSize = 110
  InitMem <- MCInitMem
  Latency = 1
SPECIFICATION SysSpec
INVARIANTS CopiedWhenQuiet WritesCarrySource
PROPERTIES ImplementsDma
CHECK_DEADLOCK FALSE
