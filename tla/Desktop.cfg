SPECIFICATION DesktopSpec
CONSTANTS
  Frozen = {f1, f2}
  Sizes = {1, 2}
  Region <- SecondColumn
  Frames = 2
  Image = 2
  MaxPipe = 3
  Patience = 2
  Places = {0, 1}
  FullSize = 2
  AnimTicks = 2
  MaxDrawn = 2
  MaxHosts = 2
  MaxAsked = 2
  Heads = {h1, h2}
  MaxMoves = 2
  OutX <- TwoOutputs
  FirstOutputs = {"o1"}
  OutW = 1
  PinW = 1
  MaxMotion = 2
INVARIANTS
  GrabbedIsWhole
  
  HostIsServed
  
  SurfacesMatchOutputs
  
CHECK_DEADLOCK FALSE
