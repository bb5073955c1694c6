SPECIFICATION FootageSpec
CONSTANTS
  RingCap = 3
  PoolSize = 3
  FailLimit = 1
  PipeWire = FALSE
  MaxAttempts = 6
  MaxSegments = 2
  Period = 2
  MaxTicks = 13
  MaxParts = 2
  StreamSizes = {1, 2, 3}
  NodePatience = 2
  Full = 2
  FoldTicks = 2
INVARIANTS
  EveryAttemptAccounted
  
  FootageKeepsTime
  CastIsSound
  
PROPERTIES
  EncodedInCaptureOrder
  
CHECK_DEADLOCK FALSE
