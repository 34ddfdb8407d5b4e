CONSTANTS
  BufferCapacity = 8
  Word <- MCWord
  ZeroWord <- MCZeroWord
  Garbage = {0}
  Transfers <- MCPartialTransfers
  MaxTransfers = 1
  MemSize = 110
  InitMem <- MCInitMem
  Latency = 1
SPECIFICATION SysSpec
INVARIANTS RowsCopied
CHECK_DEADLOCK FALSE
