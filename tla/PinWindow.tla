----------------------------- MODULE PinWindow -----------------------------
(***************************************************************************)
(* One pin or card on the screen: a layer surface per output, redrawn at   *)
(* the pace of frame callbacks with two buffers, dragged by relative       *)
(* motion (pin/pin_outputs.c, pin_render.c, pin_input.c, the loop of       *)
(* pin.c).                                                                 *)
(*                                                                         *)
(* One axis: outputs are intervals, and an output that comes back is a new *)
(* one.  Motion is in half pixels, as it comes in fractions.  `win` is     *)
(* struct pin_state with the outputs of struct grabit_wl_state.            *)
(***************************************************************************)
EXTENDS Integers, FiniteSets, FiniteSetsExt, Functions

CONSTANTS
  OutX,         \* where each output that will ever be there is
  FirstOutputs, \* those at the start
  OutW, PinW,   \* the width of an output, and of the pin
  MaxMotion     \* bound on the motion kept back

Outputs == DOMAIN OutX
NoOut   == "none"

ASSUME PinWindowAssumption ==
  /\ OutX \in [Outputs -> Int] /\ IsFiniteSet(Outputs) /\ FirstOutputs \subseteq Outputs
  /\ {OutW, PinW, MaxMotion} \subseteq Nat

VARIABLES win, winGhost
winVars == <<win, winGhost>>

NoSurface == [up |-> FALSE, configured |-> FALSE, dirty |-> FALSE, frame |-> FALSE,
              starved |-> FALSE, shown |-> <<>>]

NoWindow == [opened |-> FALSE, finished |-> FALSE, transient |-> FALSE, clickable |-> FALSE,
             target |-> NoOut, px |-> 0, lo |-> 0, hi |-> 0, acc |-> 0, dragging |-> FALSE,
             hovering |-> FALSE, grabbed |-> FALSE, ptrOn |-> NoOut,
             alive |-> FirstOutputs, gone |-> {}, stale |-> FALSE,
             surf |-> [o \in Outputs |-> NoSurface]]

\* The loop ends with this round: pin_outputs_finish and the rest of gpin_main.
Finished == [NoWindow EXCEPT !.opened = TRUE, !.finished = TRUE]

-----------------------------------------------------------------------------
(* pin_render.c; `free`: one of the two buffers is not in use.             *)

\* What a buffer shows: where the pin is, and its button or caption.
Look(w) == <<w.px, w.grabbed \/ w.hovering>>

Drawn(w, s) == [s EXCEPT !.dirty = FALSE, !.starved = FALSE, !.frame = TRUE, !.shown = Look(w)]

\* pin_render_output_redraw; `starved` is history.
Redrawn(w, s, free) ==
  IF ~s.configured THEN s ELSE IF free THEN Drawn(w, s)
  ELSE [s EXCEPT !.dirty = TRUE, !.starved = TRUE]

\* output_request_redraw
Requested(w, s, free) ==
  LET d == [s EXCEPT !.dirty = TRUE] IN IF s.frame THEN d ELSE Redrawn(w, d, free)

RedrawAll(w, free) ==
  [w EXCEPT !.surf = [o \in Outputs |-> IF @[o].up THEN Requested(w, @[o], free) ELSE @[o]]]

-----------------------------------------------------------------------------
(* pin_outputs.c                                                           *)

\* rect_clamp_into; the left edge wins.
Within(lo, hi, x) == Max({lo, Min({x, hi - PinW})})
Clamped(w, x)     == Within(w.lo, w.hi, x)

\* grabit_wl_outputs_bbox, into st->bounds.
Bounded(w) ==
  LET lo == Min({OutX[o] : o \in w.alive})
      hi == Max({OutX[o] + OutW : o \in w.alive})
  IN IF w.alive = {} THEN [w EXCEPT !.lo = 0, !.hi = 0]
     ELSE [w EXCEPT !.lo = lo, !.hi = hi, !.px = Within(lo, hi, @)]

Wanted(w) == IF w.transient THEN w.alive \cap {w.target} ELSE w.alive

\* pin_output_create; a configure will come.
Surfaces(w) == [o \in Outputs |-> IF o \notin Wanted(w) THEN NoSurface
                                  ELSE [w.surf[o] EXCEPT !.up = TRUE]]

\* Slip: the pointer's output is not forgotten with its surface.
SyncOutputsKeepsPtr(w, free) ==
  LET m == [Bounded(w) EXCEPT !.surf = Surfaces(w)]
  IN IF Wanted(w) = {} THEN Finished ELSE RedrawAll(m, free)

\* pin_sync_outputs
SyncOutputs(w, free) ==
  LET m == [Bounded(w) EXCEPT !.surf = Surfaces(w), !.ptrOn = IF @ \in Wanted(w) THEN @ ELSE NoOut]
  IN IF Wanted(w) = {} THEN Finished ELSE RedrawAll(m, free)

-----------------------------------------------------------------------------
(* pin_input.c                                                             *)

MoveTo(w, x, free) ==
  IF Clamped(w, x) = w.px THEN w ELSE SyncOutputs([w EXCEPT !.px = Clamped(w, x)], free)

WholePixels(a) == IF a >= 0 THEN a \div 2 ELSE -((-a) \div 2)

\* Slip: what is left of a pixel is dropped with each step.
DragApplyDrops(w, tooSoon, free) ==
  LET m == WholePixels(w.acc) IN
  IF m = 0 \/ tooSoon THEN w ELSE MoveTo([w EXCEPT !.acc = 0], w.px + m, free)

\* pin_drag_apply: whole pixels at most every 8 ms, the rest is kept.
DragApply(w, tooSoon, free) ==
  LET m == WholePixels(w.acc) IN
  IF m = 0 \/ tooSoon THEN w ELSE MoveTo([w EXCEPT !.acc = @ - 2 * m], w.px + m, free)

\* press_event, where the pointer is inside the pin.
Pressed(w, onClose) ==
  IF w.clickable \/ onClose THEN Finished
  ELSE IF w.transient /\ ~w.grabbed THEN w
  ELSE [w EXCEPT !.dragging = TRUE, !.acc = 0]

\* release_event; the rest of a pixel is only dropped by the next press.
Released(w, free) ==
  LET m == IF w.dragging THEN DragApply(w, FALSE, free) ELSE w
  IN [m EXCEPT !.dragging = FALSE, !.acc = 0]

-----------------------------------------------------------------------------
(* Events.  winGhost.off: by how many halves the drag lags behind the      *)
(* pointer; winGhost.hit: it ran into the bounds.                          *)

Running        == win.opened /\ ~win.finished
Quiet          == UNCHANGED winGhost
Hover(w, h, f) == IF w.hovering = h THEN w ELSE RedrawAll([w EXCEPT !.hovering = h], f)

\* gpin_main: a card shows on its target only.
WinOpens(transient, clickable, target, f) ==
  /\ ~win.opened
  /\ clickable => transient
  /\ win' = SyncOutputs([win EXCEPT !.opened = TRUE, !.transient = transient,
                            !.clickable = clickable, !.target = target, !.px = OutX[target]], f)
  /\ Quiet

LayerConfigured(o, f) ==
  /\ Running /\ win.surf[o].up
  /\ win' = [win EXCEPT !.surf[o] = Redrawn(win, [@ EXCEPT !.configured = TRUE], f)]
  /\ Quiet

\* layer_surface_closed: with no other configured surface the pin ends.
LayerClosed(o) ==
  /\ Running /\ win.surf[o].up
  /\ win' = IF \A q \in Outputs \ {o} : ~win.surf[q].configured THEN Finished
            ELSE [win EXCEPT !.surf[o].configured = FALSE, !.surf[o].frame = FALSE]
  /\ Quiet

FrameDone(o, f) ==
  /\ Running /\ win.surf[o].frame
  /\ LET s == [win.surf[o] EXCEPT !.frame = FALSE]
     IN win' = [win EXCEPT !.surf[o] = IF s.dirty THEN Redrawn(win, s, f) ELSE s]
  /\ Quiet

PointerEnters(o, f) ==
  /\ Running /\ win.surf[o].up /\ win.ptrOn # o
  /\ win' = Hover([win EXCEPT !.ptrOn = o], TRUE, f)
  /\ Quiet

\* From the surface it is on, or one that is not there any more.
PointerLeaves(f) ==
  /\ Running /\ win.hovering
  /\ win' = Hover([win EXCEPT !.ptrOn = NoOut], FALSE, f)
  /\ Quiet

DragStarts(w) == winGhost' = IF w.dragging THEN [off |-> 0, hit |-> FALSE] ELSE winGhost

ButtonPressed(onClose) ==
  /\ Running /\ win.ptrOn # NoOut
  /\ win' = Pressed(win, onClose)
  /\ DragStarts(win')

\* touch_down: it sets ptr_on, but there is no hovering.
TouchDown(o, onClose) ==
  /\ Running /\ ~win.dragging /\ win.surf[o].up
  /\ win' = Pressed([win EXCEPT !.ptrOn = o], onClose)
  /\ DragStarts(win')

\* The bounds are in the way, those of the last round or those of now.
Hits(w) == LET x == w.px + WholePixels(w.acc)
           IN Clamped(w, x) # x \/ Clamped(Bounded(w), x) # x

\* relative_motion, by d halves; the last step was less than 8 ms ago.
Motion(d, tooSoon, f) ==
  /\ Running /\ win.dragging
  /\ LET m == [win EXCEPT !.acc = @ + d] IN
     /\ win' = DragApply(m, tooSoon, f)
     /\ win'.acc \in -MaxMotion .. MaxMotion
     /\ winGhost' = IF winGhost.hit \/ Hits(m) THEN [off |-> 0, hit |-> TRUE]
                    ELSE [winGhost EXCEPT !.off = @ + d - 2 * (win'.px - win.px) - (win'.acc - win.acc)]

\* The button is let go, the finger lifted, or its touch cancelled.
DragEnds(f) ==
  /\ Running /\ win.dragging
  /\ win' = Released(win, f)
  /\ winGhost' = [off |-> 0, hit |-> FALSE]

\* pin_ipc_handle; a card has no socket.
Grabbed(g, f) ==
  /\ Running /\ ~win.transient /\ win.grabbed # g
  /\ win' = RedrawAll([win EXCEPT !.grabbed = g, !.dragging = @ /\ g, !.acc = IF g THEN @ ELSE 0], f)
  /\ winGhost' = IF g THEN winGhost ELSE [off |-> 0, hit |-> FALSE]

\* The timer, --close-all, a signal.
WinFinishes == Running /\ win' = Finished /\ Quiet

\* registry_global_remove and registry_global set a serial ...
OutputGoes(o) ==
  /\ Running /\ o \in win.alive
  /\ win' = [win EXCEPT !.alive = @ \ {o}, !.stale = TRUE, !.gone = @ \cup {o}]
  /\ Quiet

OutputComes(o) ==
  /\ Running /\ o \notin win.alive \cup win.gone
  /\ win' = [win EXCEPT !.alive = @ \cup {o}, !.stale = TRUE]
  /\ Quiet

\* ... that gpin_main compares after the events of a round.
Resync(f) ==
  /\ Running /\ win.stale
  /\ win' = SyncOutputs([win EXCEPT !.stale = FALSE], f)
  /\ winGhost' = IF win.dragging /\ Bounded(win).px # win.px THEN [off |-> 0, hit |-> TRUE]
                 ELSE winGhost

-----------------------------------------------------------------------------
PinWindowInit ==
  /\ win = NoWindow
  /\ winGhost = [off |-> 0, hit |-> FALSE]

PinWindowNext ==
  \/ \E o \in Outputs : \/ OutputGoes(o) \/ OutputComes(o) \/ LayerClosed(o)
                        \/ \E c \in BOOLEAN : TouchDown(o, c)
  \/ \E c \in BOOLEAN : ButtonPressed(c)
  \/ \E d \in {-1, 1} : Motion(d, TRUE, TRUE)
  \/ WinFinishes
  \/ \E f \in BOOLEAN :
       \/ \E o \in Outputs : LayerConfigured(o, f) \/ FrameDone(o, f) \/ PointerEnters(o, f)
       \/ \E t, c \in BOOLEAN, o \in FirstOutputs : WinOpens(t, c, o, f)
       \/ \E d \in {-1, 1} : Motion(d, FALSE, f)
       \/ \E g \in BOOLEAN : Grabbed(g, f)
       \/ PointerLeaves(f) \/ DragEnds(f) \/ Resync(f)

PinWindowSpec == PinWindowInit /\ [][PinWindowNext]_winVars

-----------------------------------------------------------------------------
(* Properties.                                                             *)

\* Kinds of values; a card is never dragged.
PinWindowTypeOK ==
  /\ win.acc \in -MaxMotion .. MaxMotion /\ win.ptrOn \in Outputs \cup {NoOut}
  /\ win.alive \subseteq Outputs
  /\ win.dragging => ~win.transient

\* ptr_on never points to a surface that was destroyed (pin_outputs.c:108), also
\* when an output goes in the middle of a drag; and after the events of a round
\* the pin has a surface on every output that wants one, and on no other.
SurfacesMatchOutputs ==
  Running => /\ win.ptrOn # NoOut => win.surf[win.ptrOn].up
             /\ ~win.stale => \A o \in Outputs : win.surf[o].up <=> o \in Wanted(win)

\* A configured surface shows the pin as it is, or the pin knows it does not and
\* a frame callback is on its way, or both buffers were in use: then the code
\* waits for the next event that asks for a redraw (pin_render.c:148).
ChangeIsDrawn ==
  Running => \A o \in Outputs :
    LET s == win.surf[o]
    IN s.configured => s.shown = Look(win) \/ (s.dirty /\ (s.frame \/ s.starved))

\* The throttle of pin_drag_apply (pin_input.c:69) loses no motion: short of the
\* bounds the pin is where the pointer took it, to less than a pixel once the
\* button is let go.
DragLosesNothing == Running /\ win.dragging => winGhost.off = 0 \/ winGhost.hit

\* What happens to the pin reaches the screen: each change of its look by
\* pin_render_all and the frame callbacks, each motion of a drag by pin_drag_apply.
EveryChangeIsDrawn == ChangeIsDrawn /\ DragLosesNothing

=============================================================================
