CONSTANTS
  MaxSegs = 2
  FfmpegFails = TRUE
  Broadcast = FALSE
  RecorderMayCrash = TRUE
  Procs = {1, 2, 3}
  UnlinkFirst = FALSE
  Crashes = TRUE
SPECIFICATION RecordingSpec
INVARIANTS
  FootageKept
  EndsAsAsked
  
  OneRecordingUnlessOverlap
  RecorderIsFindable
PROPERTIES
  StopReachesEnd
  LabelCatchesUp
  TrayEnds
  ToldEnds
