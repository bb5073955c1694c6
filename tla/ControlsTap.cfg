SPECIFICATION ControlsSpec
CONSTANTS
  Full = 2
  FoldTicks = 2
PROPERTY TapOpensBar
CHECK_DEADLOCK FALSE
