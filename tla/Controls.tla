------------------------------ MODULE Controls ------------------------------
(***************************************************************************)
(* The controls of a recording (record/controls.c, controls_input.c,       *)
(* controls_render.c): a bar outside the recorded region, or, where there  *)
(* is no room, a handle inside it that unfolds into the bar when it is     *)
(* reached.  The two are layer surfaces that are never both in use: the    *)
(* other one is destroyed, and built again when it comes back.  The        *)
(* capture loop moves them once per turn.                                  *)
(***************************************************************************)
EXTENDS Integers, FiniteSets

CONSTANTS
  Full,          \* k of an open bar, rise of a handle in its place
  FoldTicks      \* CB_ANIM_MS and CB_RISE_MS
ASSUME ControlsAssumption == {Full, FoldTicks} \subseteq Nat \ {0}

VARIABLES
  ctl,      \* struct rec_controls and the flags it sets
  hand      \* where the user's pointer and finger really are, and what they did

ctlVars == <<ctl, hand>>

Surfs    == {"bar", "handle"}
\* `shown` is its picture: none, of what is so now, or of before.
NoSurf   == [up |-> FALSE, configured |-> FALSE, dirty |-> FALSE, frame |-> FALSE, shown |-> "nothing"]
At(v)    == [v |-> v, from |-> v, age |-> 0]
\* Places of a surface: the corner that the handle covers, a button.  Coordinates
\* are those of the surface: the corner is of both.
Buttons  == {"pause", "abort"}
SpotsOf(s) == IF s = "off" THEN {} ELSE IF s = "handle" THEN {"corner"} ELSE {"corner"} \cup Buttons

NoControls == [inside |-> FALSE, expanded |-> FALSE, k |-> At(0), rise |-> At(0), paused |-> FALSE,
               surf |-> [bar |-> NoSurf, handle |-> NoSurf], at |-> "corner", pc |-> "none",
               pauseFlag |-> FALSE, abortFlag |-> FALSE]
\* The finger is up, or on what it touched; it is the one of touch_slot.  The user
\* points or touches, not both at once.
NoHand == [on |-> "off", at |-> "corner", finger |-> "up"]

-----------------------------------------------------------------------------
(* What is visible, and drawing it.                                        *)

\* ctl_output_visible
Visible(c, s) == IF s = "handle" THEN c.inside /\ c.k.v = 0
                 ELSE ~c.inside \/ c.expanded \/ c.k.v > 0

\* What draw_bar and draw_handle draw has changed.
Outdated(c) == LET old(s) == IF s.shown = "now" THEN [s EXCEPT !.shown = "before"] ELSE s
               IN [c EXCEPT !.surf = [bar |-> old(c.surf.bar), handle |-> old(c.surf.handle)]]

\* ctl_output_redraw; `free`: the pool has a buffer.
CtlRedraw(c, s, free) ==
  IF ~c.surf[s].configured \/ ~Visible(c, s) THEN c
  ELSE IF ~free THEN [c EXCEPT !.surf[s].dirty = TRUE]
  ELSE [c EXCEPT !.surf[s] = [@ EXCEPT !.dirty = FALSE, !.frame = TRUE, !.shown = "now"]]

\* ctl_output_request_redraw
CtlRequest(c, s, free) ==
  LET d == [c EXCEPT !.surf[s].dirty = TRUE] IN IF d.surf[s].frame THEN d ELSE CtlRedraw(d, s, free)

\* ctl_redraw_all: one of the two.
CtlRedrawAll(c, free) ==
  IF c.surf["bar"].up /\ Visible(c, "bar") THEN CtlRequest(c, "bar", free)
  ELSE IF c.surf["handle"].up /\ Visible(c, "handle") THEN CtlRequest(c, "handle", free) ELSE c

\* ctl_output_create_surface, ctl_output_hide
Create(c, s) == [c EXCEPT !.surf[s] = [NoSurf EXCEPT !.up = TRUE]]
Hide(c, s)   == [c EXCEPT !.surf[s] = NoSurf]

\* ctl_set_expanded
SetExpanded(c, open) ==
  IF ~c.inside \/ c.expanded = open THEN c
  ELSE LET e == [c EXCEPT !.expanded = open] IN IF open /\ ~c.surf["bar"].up THEN Create(e, "bar") ELSE e

-----------------------------------------------------------------------------
(* anim_step and ctl_anim_step; the ease is a straight line.               *)

Moves(x, target) == x.v # target \/ x.age # 0
Moved(x, target) ==
  IF ~Moves(x, target) THEN x
  ELSE LET y == IF x.age = 0 THEN [x EXCEPT !.from = x.v, !.age = 1] ELSE x
       IN IF y.age > FoldTicks THEN At(target)
          ELSE [y EXCEPT !.v = y.from + ((target - y.from) * (y.age - 1)) \div FoldTicks]

\* The bar unfolds or folds, and is gone when it is folded ...
Folded(c) ==
  LET a == IF c.expanded /\ ~c.surf["bar"].up /\ c.k.v = 0 THEN Create(c, "bar") ELSE c
      b == IF a.surf["bar"].up THEN [a EXCEPT !.k = Moved(@, IF a.expanded THEN Full ELSE 0)] ELSE a
  IN IF ~b.expanded /\ b.k.v = 0 THEN Hide(b, "bar") ELSE b

\* Slip: the handle is only ever hidden, as it is there at the start.
RisenOnce(c) ==
  IF ~c.expanded /\ c.k.v = 0 THEN [c EXCEPT !.rise = Moved(@, Full)]
  ELSE IF c.rise.v = 0 THEN c
  ELSE LET r == [c EXCEPT !.rise = Moved(@, 0)] IN IF r.rise.v = 0 THEN Hide(r, "handle") ELSE r
\* ... then the handle is built again and rises, or sinks and goes.
Risen(c) ==
  IF ~c.expanded /\ c.k.v = 0
  THEN [(IF c.surf["handle"].up THEN c ELSE Create(c, "handle")) EXCEPT !.rise = Moved(@, Full)]
  ELSE IF c.rise.v = 0 THEN c
  ELSE LET r == [c EXCEPT !.rise = Moved(@, 0)] IN IF r.rise.v = 0 THEN Hide(r, "handle") ELSE r

Animated(c, free) ==
  LET m == Risen(Folded(c))
      still == c.surf["bar"].up => ~Moves(c.k, IF c.expanded THEN Full ELSE 0)
  IN IF ~c.inside \/ (m = c /\ still) THEN c ELSE CtlRedrawAll(Outdated(m), free)

\* controls_set_paused
SetPaused(c, free) == IF c.paused = c.pauseFlag THEN c
                      ELSE CtlRedrawAll([Outdated(c) EXCEPT !.paused = c.pauseFlag], free)

\* rec_clock_step, with controls_tick; in another second or the same.
Clocked(c, other, free) ==
  LET a == Animated(SetPaused(c, free), free) IN IF other THEN CtlRedrawAll(Outdated(a), free) ELSE a

-----------------------------------------------------------------------------
(* The recording.                                                          *)

Recording == ctl.pc = "runs" /\ ~ctl.abortFlag

\* controls_start
ControlsStart(inside) ==
  /\ ctl.pc = "none"
  /\ LET c == [NoControls EXCEPT !.inside = inside, !.expanded = ~inside, !.pc = "runs"]
     IN ctl' = Create(c, IF inside THEN "handle" ELSE "bar")
  /\ UNCHANGED hand

ControlsTick(other, free) ==
  /\ Recording /\ ctl' = Clocked(ctl, other, free)
  /\ UNCHANGED hand

\* SIGUSR1 and the tray reach the same flag.
PauseToggled == Recording /\ ctl' = [ctl EXCEPT !.pauseFlag = ~@] /\ UNCHANGED hand

Older(x) == IF x.age = 0 \/ x.age > FoldTicks THEN x ELSE [x EXCEPT !.age = @ + 1]
CtlTime  == /\ Recording /\ {ctl.k.age, ctl.rise.age} # {0}
            /\ ctl' = [ctl EXCEPT !.k = Older(@), !.rise = Older(@)] /\ UNCHANGED hand

\* controls_stop
ControlsStop == /\ ctl.pc = "runs" /\ ctl' = [NoControls EXCEPT !.pc = "done"] /\ hand' = NoHand

\* layer_configure
CtlConfigured(s, free) ==
  /\ Recording /\ ctl.surf[s].up
  /\ LET c == [ctl EXCEPT !.surf[s].configured = TRUE]
     IN ctl' = IF Visible(c, s) THEN CtlRedraw(c, s, free) ELSE Hide(c, s)
  /\ UNCHANGED hand

\* frame_done
CtlFrame(s, free) ==
  /\ Recording /\ ctl.surf[s].frame
  /\ LET c == [ctl EXCEPT !.surf[s].frame = FALSE]
     IN ctl' = IF ctl.surf[s].dirty THEN CtlRedraw(c, s, free) ELSE c
  /\ UNCHANGED hand

-----------------------------------------------------------------------------
(* controls_input.c.  A surface that shows something takes input.  `cx` and *)
(* `cy` are one place, for the pointer and for the finger.                  *)

\* reach_handle
ReachHandle(c) == IF c.inside /\ ~c.expanded /\ c.at = "corner" THEN SetExpanded(c, TRUE) ELSE c

\* Slip: only motion says where the pointer is.
EnterOutputNowhere(c, at) == c
\* enter_output
EnterOutput(c, at) == [c EXCEPT !.at = at]

\* press_event
PressEvent(c) ==
  IF c.inside /\ ~c.expanded THEN IF c.at = "corner" THEN SetExpanded(c, TRUE) ELSE c
  ELSE CASE c.at = "pause" -> [c EXCEPT !.pauseFlag = TRUE]
         [] c.at = "abort" -> [c EXCEPT !.abortFlag = TRUE]
         [] OTHER          -> c

Shows(s) == ctl.surf[s].up /\ ctl.surf[s].shown # "nothing"

\* pointer_enter
CtlEnters(s, at) ==
  /\ Recording /\ hand = NoHand /\ Shows(s)
  /\ LET c == EnterOutput(ctl, at) IN ctl' = IF s = "handle" THEN ReachHandle(c) ELSE c
  /\ hand' = [hand EXCEPT !.on = s, !.at = at]

\* pointer_leave; libwayland names no surface if it was destroyed meanwhile, and
\* that is what ctl_output_for_surface takes for a bar that is not there.
CtlLeaves ==
  /\ Recording /\ hand.on # "off"
  /\ LET bar == IF ctl.surf[hand.on].up THEN hand.on = "bar" ELSE ~ctl.surf["bar"].up
     IN ctl' = IF bar /\ ctl.inside /\ ctl.expanded THEN SetExpanded(ctl, FALSE) ELSE ctl
  /\ hand' = [hand EXCEPT !.on = "off", !.at = "corner"]

\* pointer_motion, pointer_button; none comes for a surface that was destroyed.
CtlMotion(at) ==
  /\ Recording /\ hand.on # "off" /\ ctl.surf[hand.on].up
  /\ LET c == [ctl EXCEPT !.at = at] IN ctl' = ReachHandle(c)
  /\ hand' = [hand EXCEPT !.at = at]
CtlButton ==
  /\ Recording /\ hand.on # "off" /\ ctl.surf[hand.on].up
  /\ ctl' = PressEvent(ctl) /\ UNCHANGED hand

\* touch_down, touch_motion, touch_cancel
CtlTouch(s, at) ==
  /\ Recording /\ Shows(s) /\ hand.finger = "up" /\ hand.on = "off"
  /\ ctl' = PressEvent(EnterOutput(ctl, at))
  /\ hand' = [hand EXCEPT !.finger = IF at = "abort" THEN at ELSE s]
CtlDrag(at) == Recording /\ hand.finger # "up" /\ ctl' = [ctl EXCEPT !.at = at] /\ UNCHANGED hand
CtlCancels  == Recording /\ hand.finger # "up" /\ hand' = NoHand /\ UNCHANGED ctl

\* touch_up, of that finger or of another one that touched nothing.
CtlLifts(other) ==
  /\ Recording /\ hand.finger # "up"
  /\ ctl' = SetExpanded(ctl, FALSE)
  /\ hand' = IF other THEN hand ELSE NoHand

-----------------------------------------------------------------------------
ControlsInit == ctl = NoControls /\ hand = NoHand

ControlsNext ==
  \/ (\E inside \in BOOLEAN : ControlsStart(inside)) \/ PauseToggled \/ CtlTime \/ ControlsStop
  \/ \E free \in BOOLEAN :
       \/ \E other \in BOOLEAN : ControlsTick(other, free)
       \/ \E s \in Surfs : CtlConfigured(s, free) \/ CtlFrame(s, free)
  \/ (\E s \in Surfs : \E at \in SpotsOf(s) : CtlEnters(s, at) \/ CtlTouch(s, at))
  \/ (\E at \in SpotsOf(hand.on) : CtlMotion(at))
  \/ CtlLeaves \/ CtlButton \/ (\E at \in SpotsOf("bar") : CtlDrag(at))
  \/ (\E other \in BOOLEAN : CtlLifts(other)) \/ CtlCancels

ControlsSpec == ControlsInit /\ [][ControlsNext]_ctlVars

-----------------------------------------------------------------------------
ControlsTypeOK == {ctl.k.v, ctl.rise.v} \subseteq 0 .. Full /\ ctl.at \in SpotsOf("bar")

\* When the loop has nothing more to move (controls.c:393) the right one of the
\* two is there, and its picture is right or waits for a frame or a buffer:
\* however the bar was opened and folded half way, a recording is never left
\* without its controls.  The other one is gone, or is a handle that had not begun
\* to rise when the bar was opened: it stays behind, with nothing in it
\* (controls.c:417).
ControlsAtRest ==
  Recording /\ ctl.k.age = 0 /\ ctl.rise.age = 0 /\ Clocked(ctl, FALSE, TRUE) = ctl =>
    LET s == IF ctl.inside /\ ~ctl.expanded THEN "handle" ELSE "bar" IN
    /\ ctl.surf[s].up /\ Visible(ctl, s)
    /\ \A q \in Surfs \ {s} : ctl.surf[q].up => q = "handle" /\ ctl.rise.v = 0
    /\ ctl.surf[s].configured =>
         ctl.surf[s].shown = "now" \/ ctl.surf[s].dirty

\* A press is of the button under the pointer or the finger (controls_input.c:20),
\* though the surface it is on comes and goes under it: no recording is thrown
\* away by a press elsewhere.
PressIsMeant ==
  [][ ctl'.abortFlag /\ ~ctl.abortFlag =>
        hand'.finger = "abort" \/ (hand.on = "bar" /\ hand.at = "abort") ]_ctlVars

\* OPTIONS.md:285: "tap it on a touchscreen and the bar grows out of the handle";
\* a tap is a finger that goes down and up.
TapOpensBar ==
  [][ hand.finger = "handle" /\ hand'.finger = "up" /\ ctl'.pc = "runs" => ctl'.expanded ]_ctlVars
=============================================================================
