SPECIFICATION KeysSpec
CONSTANTS
  KeyActions <- AskedInTurn
  ByButton <- ButtonOrder
  KeyTools = {"tool"}
  Loupe = "loupe"
  Default <- DefaultBinds
  Syms = {"u", "z"}
  MouseButtons = {"left", "side"}
  MaxCaps = 2
  MaxBinds = 2
  MaxWatches = 1
INVARIANT CapturedFires
CHECK_DEADLOCK FALSE
