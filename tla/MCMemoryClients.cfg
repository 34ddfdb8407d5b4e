CONSTANTS
  MemSize = 16
  InitMem <- MCInitMem
  Latency = 1
  Clients = {"cpu", "dma"}
  Writers = {"dma"}
  Readers = {"cpu"}
  Base <- MCBase
  ReadShapes <- MCReadShapes
  MaxBursts = 2
SPECIFICATION FairSpec
INVARIANTS TrackersAccounted OnlyShorterOvertakes AcknowledgedWritesVisible WaitingIsServed
PROPERTIES EveryBurstAnswered
CHECK_DEADLOCK FALSE
