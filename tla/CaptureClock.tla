---------------------------- MODULE CaptureClock ----------------------------
(***************************************************************************)
(* When a wlr recording takes its frames (rec_capture_loop, record/loop.c):*)
(* a deadline per frame, the jump after a stall, the interruptions by a    *)
(* pause or a stop, and the time that counts as recorded.  What becomes of *)
(* the frames is FrameRing's.  Any call may take any time.                 *)
(***************************************************************************)
EXTENDS Integers

CONSTANTS Period,     \* period_ns, in ticks
          MaxTicks,   \* bound of the clock
          MaxParts    \* bound of the segments
ASSUME CaptureClockAssumption == Period \in Nat \ {0} /\ MaxTicks \in Nat /\ MaxParts \in Nat

VARIABLES
  tick,       \* grabit_now_ns
  askPause,   \* grabit_rec_pause
  askStop,    \* grabit_rec_stop
  clk,        \* the loop: struct rec_clock, frame_idx, deadline, cur >= deadline
  ran, shots, parts, burst, unbegun
    \* history: ticks in which a segment was open, frames captured, segments, frames
    \* tried since the last tick, and whether a segment could not be begun

clockVars == <<tick, askPause, askStop, clk, ran, shots, parts, burst, unbegun>>
clockSeen == <<ran, shots, parts, unbegun>>

\* rec_clock_active_ns
ActiveTicks == clk.active + (IF clk.paused THEN 0 ELSE tick - clk.start)

-----------------------------------------------------------------------------
\* Time passes, in a wait or in a call.
Ticks ==
  /\ tick < MaxTicks /\ clk.pc # "out"
  /\ tick' = tick + 1 /\ burst' = 0
  /\ ran' = IF clk.paused \/ clk.pc = "begin" THEN ran ELSE ran + 1
  /\ UNCHANGED <<askPause, askStop, clk, shots, parts, unbegun>>

\* SIGUSR1, the tray or the controls.
PauseAsked == clk.pc # "out" /\ askPause' = ~askPause /\ UNCHANGED <<tick, askStop, clk, burst, clockSeen>>
StopAsked  == clk.pc # "out" /\ askStop' = TRUE /\ UNCHANGED <<tick, askPause, clk, burst, clockSeen>>

LoopLeft ==
  /\ clk.pc = "top" /\ askStop
  /\ clk' = [clk EXCEPT !.pc = "out"]
  /\ UNCHANGED <<tick, askPause, askStop, burst, clockSeen>>

\* rec_clock_step: the time counts up to here, not what seg_finish takes.
ClockPauses ==
  /\ clk.pc = "top" /\ ~askStop /\ askPause /\ ~clk.paused
  /\ clk' = [clk EXCEPT !.active = @ + tick - clk.start, !.paused = TRUE]
  /\ UNCHANGED <<tick, askPause, askStop, burst, clockSeen>>

ClockResumes ==
  /\ clk.pc = "top" /\ ~askStop /\ ~askPause /\ clk.paused /\ parts < MaxParts
  /\ clk' = [clk EXCEPT !.paused = FALSE, !.pc = "begin"]
  /\ UNCHANGED <<tick, askPause, askStop, burst, clockSeen>>

\* Slip: the frames go on counting.
SegmentBegunGoesOn ==
  /\ clk.pc = "begin"
  /\ clk' = [clk EXCEPT !.start = tick, !.pc = "aim"] /\ parts' = parts + 1 /\ burst' = 0
  /\ UNCHANGED <<tick, askPause, askStop, ran, shots, unbegun>>

\* seg_begin has returned; the frames count from 0 again.
SegmentBegun ==
  /\ clk.pc = "begin"
  /\ clk' = [clk EXCEPT !.start = tick, !.idx = 0, !.pc = "aim"] /\ parts' = parts + 1 /\ burst' = 0
  /\ UNCHANGED <<tick, askPause, askStop, ran, shots, unbegun>>

\* The loop is left with the start of the segment before.
SegmentFails ==
  /\ clk.pc = "begin"
  /\ clk' = [clk EXCEPT !.pc = "out"] /\ askStop' = TRUE /\ unbegun' = TRUE
  /\ UNCHANGED <<tick, askPause, ran, shots, parts, burst>>

Deadline == clk.start + clk.idx * Period

\* More than four periods late: the frames in between are given up.  The one
\* that is due is taken at once, whatever its number has become.
Aims ==
  /\ clk.pc = "aim" \/ (clk.pc = "top" /\ ~askStop /\ ~clk.paused /\ ~askPause)
  /\ clk' = [clk EXCEPT !.pc = "wait", !.due = Deadline, !.late = tick >= Deadline,
                        !.idx = IF tick - Deadline > 4 * Period THEN (tick - clk.start) \div Period ELSE @]
  /\ UNCHANGED <<tick, askPause, askStop, burst, clockSeen>>

\* Woken by an event, by the time or by a signal; without a word from anybody
\* the clock is read again.
WaitLooks ==
  /\ clk.pc = "wait" /\ ~clk.late
  /\ clk' = IF askStop \/ askPause THEN [clk EXCEPT !.pc = "top", !.due = 0, !.late = FALSE] ELSE [clk EXCEPT !.late = tick >= clk.due]
  /\ UNCHANGED <<tick, askPause, askStop, burst, clockSeen>>

\* pump_or_stop
WaitLosesWayland ==
  /\ clk.pc = "wait" /\ ~clk.late
  /\ clk' = [clk EXCEPT !.pc = "top", !.due = 0, !.late = FALSE] /\ askStop' = TRUE
  /\ UNCHANGED <<tick, askPause, burst, clockSeen>>

\* A frame is captured, or there is no buffer, or the capture fails (for the
\* last time, perhaps): the next one is due a period later in any case.
Tries(outcome) ==
  /\ clk.pc = "wait" /\ clk.late
  /\ clk' = [clk EXCEPT !.pc = "top", !.idx = @ + 1, !.due = 0, !.late = FALSE]
  /\ shots' = IF outcome = "captured" THEN shots + 1 ELSE shots
  /\ burst' = burst + 1
  /\ askStop' \in (IF outcome = "failed" THEN {askStop, TRUE} ELSE {askStop})
  /\ UNCHANGED <<tick, askPause, ran, parts, unbegun>>

-----------------------------------------------------------------------------
ClockInit ==
  /\ tick = 0 /\ askPause = FALSE /\ askStop = FALSE
  /\ clk = [pc |-> "top", paused |-> FALSE, start |-> 0, active |-> 0, idx |-> 0, due |-> 0, late |-> FALSE]
  /\ ran = 0 /\ shots = 0 /\ parts = 1 /\ burst = 0 /\ unbegun = FALSE

ClockNext ==
  \/ Ticks \/ PauseAsked \/ StopAsked \/ LoopLeft \/ ClockPauses \/ ClockResumes \/ SegmentBegun
  \/ SegmentFails \/ Aims \/ WaitLooks \/ WaitLosesWayland
  \/ \E outcome \in {"captured", "dropped", "failed"} : Tries(outcome)

ClockSpec == ClockInit /\ [][ClockNext]_clockVars

-----------------------------------------------------------------------------
ClockTypeOK == tick \in 0 .. MaxTicks /\ clk.idx \in Nat /\ ActiveTicks \in Nat

\* Through stalls, pauses and resumptions at any moment: a recording has at most
\* the frames that fit into the time it ran, one more per segment (so the length
\* that the compression counts with, loop.c:243, is never too short); that
\* length is the time it ran, unless its last resumption failed; after a stall
\* the loop does not catch up with more than the frames of five periods at once;
\* and it never waits for a frame more than a period away.
FootageKeepsTime ==
  /\ shots * Period <= ActiveTicks + Period * parts
  /\ clk.pc = "begin" \/ unbegun \/ ActiveTicks = ran
  /\ burst <= 6
  /\ clk.pc = "wait" => clk.due <= tick + Period
=============================================================================
