CONSTANTS
  Preset = FALSE
  MaxUndo = 3
  MaxAnnos = 2
  MaxRegion = 1
  MaxAttr = 1
  MaxAtOnce = 2
  Coords = {0, 1}
  Attrs = {0, 1}
  Rects = {0, 1}
SPECIFICATION Spec
INVARIANTS
  HistoryIsSound
  
CHECK_DEADLOCK FALSE
