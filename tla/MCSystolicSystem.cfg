CONSTANTS
  SASIZE = 3
  Modulus = 65536
  Garbage <- MCGarbage
  BufferCapacity = 8
  Latency = 1
  SramSize = 48
  MatrixDim = 4
  Jobs <- MCJobs
  Images <- MCImages
SPECIFICATION SysSpec
INVARIANTS EmittedIsProduct DepositIsProduct DoneMeansProduct
PROPERTIES ImplementsCore LoadsOperands PhaseFollowsTransfer AllJobsFinish
CHECK_DEADLOCK FALSE
