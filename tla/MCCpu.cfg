CONSTANTS
  LaneBits = 4
  NRegs = 5
  Addr = {6144, 6148}
  ImemWords = 30
  text_offset = 0
  data_offset = 6144
  max_label_count = 8
  Sources <- MCSources
SPECIFICATION SocFairSpec
INVARIANTS OneInstruction
PROPERTIES FollowsIsa Finishes LoadsConstant JumpsLandOnLabels
CHECK_DEADLOCK FALSE
