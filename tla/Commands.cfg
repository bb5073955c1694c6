SPECIFICATION CommandsSpec
CONSTANTS
  PluginOps = {a, b}
  MaxVersion = 2
  MaxSize = 7
  ChunkSizes = {2, 5}
  Copies = {c1, c2, c3}
  Shooters = {s1, s2}
  Pictures = 4
  Editors = {"e1", "e2"}
  OwnValue <- OwnValues
  KeyActions <- AskedInTurn
  ByButton <- ButtonOrder
  KeyTools = {"tool"}
  Loupe = "loupe"
  Default <- DefaultBinds
  Syms = {"u", "z"}
  MouseButtons = {"left", "side"}
  MaxCaps = 2
  MaxBinds = 2
  MaxWatches = 2
  MaxLines = 3
  MaxTextEdits = 2
INVARIANTS
  CommandIsVerified
  
  
  CapturesAreKept
  SettingsSurvive
  TextFollowsCommands
  BindingsAreHonoured
CHECK_DEADLOCK FALSE
