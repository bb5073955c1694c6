CONSTANTS
  RingCap = 3
  PoolSize = 4
  FailLimit = 1
  PipeWire = TRUE
SPECIFICATION FairSpec
PROPERTIES
  ImplementsQueue
  LeavingLoopEndsRecording
