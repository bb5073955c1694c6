CONSTANTS
  RingCap = 2
  PoolSize = 2
  FailLimit = 0
  PipeWire = TRUE
SPECIFICATION FairSpec
PROPERTY StopEndsRecording
