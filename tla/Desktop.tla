------------------------------- MODULE Desktop -------------------------------
(***************************************************************************)
(* What grabit shows on the desktop and takes from it: the monitors a      *)
(* process knows of, the frozen frames, the screen of the selector and its *)
(* menu bar, the windows of pins and the tray icon.  They are surfaces,    *)
(* sessions and connections of their own, so each is checked in behaviours *)
(* of its own.                                                             *)
(***************************************************************************)
EXTENDS Integers, Grab, Screen, TrayHost, WlOutputs, PinWindow

VARIABLE scene     \* the part of this behaviour

desktopVars == <<scene, grabVars, screenVars, trayHostVars, wlVars, winVars>>

\* The columns of the region that is recorded.
SecondColumn == <<1, 1>>

\* The monitors a pin is on: side by side, the second plugged in later.
TwoOutputs == [o1 |-> 0, o2 |-> 1]

Others(part) ==
  /\ scene = part
  /\ UNCHANGED scene
  /\ part = "grab"    \/ UNCHANGED grabVars
  /\ part = "screen"  \/ UNCHANGED screenVars
  /\ part = "tray"    \/ UNCHANGED trayHostVars
  /\ part = "outputs" \/ UNCHANGED wlVars
  /\ part = "pin"     \/ UNCHANGED winVars

DesktopInit ==
  /\ scene \in {"grab", "screen", "tray", "outputs", "pin"}
  /\ GrabInit /\ ScreenInit /\ TrayHostInit /\ WlInit /\ PinWindowInit
  \* what is not looked at starts in one way
  /\ scene = "grab" \/ \A w \in Sizes : ext.output <= w
  /\ scene = "tray" \/ host.up
  /\ scene = "outputs" \/ (manages /\ ~oldDone /\ \A h \in Heads : Plugged(h))

DesktopNext ==
  \/ Others("grab") /\ GrabNext
  \/ Others("screen") /\ ScreenNext
  \/ Others("tray") /\ TrayHostNext
  \/ Others("outputs") /\ WlNext
  \/ Others("pin") /\ PinWindowNext

DesktopSpec == DesktopInit /\ [][DesktopNext]_desktopVars
=============================================================================
