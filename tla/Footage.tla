------------------------------- MODULE Footage -------------------------------
(***************************************************************************)
(* The frames of a recording and what its loop does beside them: which     *)
(* frames are written (FrameTrace), when they are taken (CaptureClock),    *)
(* the cast they come from (CastStream) and the controls that the loop     *)
(* moves once per turn (Controls).  Each is checked in behaviours of its   *)
(* own; the flags by which they touch are in FrameRing and RecTray.        *)
(***************************************************************************)
EXTENDS FrameTrace, CaptureClock, CastStream, Controls

VARIABLE part     \* the part of this behaviour

footageVars == <<part, allVars, clockVars, castVars, ctlVars>>

OnlyPart(p) ==
  /\ part = p
  /\ UNCHANGED part
  /\ p = "frames"   \/ UNCHANGED allVars
  /\ p = "clock"    \/ UNCHANGED clockVars
  /\ p = "cast"     \/ UNCHANGED castVars
  /\ p = "controls" \/ UNCHANGED ctlVars

FootageInit ==
  /\ part \in {"frames", "clock", "cast", "controls"}
  /\ TraceInit /\ ClockInit /\ CastInit /\ ControlsInit

FootageNext ==
  \/ OnlyPart("frames") /\ TraceNext
  \/ OnlyPart("clock") /\ ClockNext
  \/ OnlyPart("cast") /\ CastNext
  \/ OnlyPart("controls") /\ ControlsNext

FootageSpec == FootageInit /\ [][FootageNext]_footageVars
=============================================================================
