CONSTANTS
  BufferCapacity = 8
  Word = {w0}
  ZeroWord = w0
  Garbage <- MCGarbage
  Transfers <- MCTransfers
  MaxTransfers = 2
SPECIFICATION FairSpec
INVARIANTS TypeOK SingleFetch ReadFits LegalBursts DoneMeansIssued
PROPERTIES DoneUnlessSingleBurst
CHECK_DEADLOCK FALSE
