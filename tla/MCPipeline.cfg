CONSTANTS
  Streams <- MCStreams
  Objects = {1, 2, 3, 4, 5, 6, 7, 8}
  memory_access_time = 2
SPECIFICATION FairSpec
INVARIANTS InOrder PushesSucceed
PROPERTIES RawSeparated Drains
CHECK_DEADLOCK FALSE
