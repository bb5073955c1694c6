CONSTANTS
  RingCap = 3
  PoolSize = 4
  FailLimit = 1
  PipeWire = FALSE
SPECIFICATION FairSpec
INVARIANTS
  BufferHasOneHolder
  NoLostWakeup
  PauseLeavesNothingQueued
PROPERTY StopEndsRecording
