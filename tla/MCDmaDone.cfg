CONSTANTS
  BufferCapacity = 8
  Word = {w0}
  ZeroWord = w0
  Garbage = {0}
  Transfers <- MCSmallTransfers
  MaxTransfers = 1
SPECIFICATION FairSpec
PROPERTIES DoneEventually
CHECK_DEADLOCK FALSE
