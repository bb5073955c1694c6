-------------------------------- MODULE Grab --------------------------------
(***************************************************************************)
(* The capture backends: one picture of every output through               *)
(* wlr-screencopy (capture/wlr_screencopy.c), frame after frame of a       *)
(* region through ext-image-copy with a session and a buffer that live as  *)
(* long as the recording (ext_session.c, ext_image_copy.c, pixels.c), and  *)
(* a picture that KWin writes into a pipe while it answers on the bus      *)
(* (kwin_screenshot.c).  Events are handled in the order they were sent;   *)
(* one dispatch handles any number of them.                                *)
(***************************************************************************)
EXTENDS Naturals, Sequences, FiniteSets

CONSTANTS
  Frozen,           \* that are frozen together
  Sizes,             \* of the recorded output (its width is all that varies)
  Region,            \* <<first column, columns>>
  Frames,            \* how many frames are recorded (a bound)
  Image, MaxPipe,    \* bytes of KWin's image; how many it may write (a bound)
  Patience           \* KWIN_CALL_TIMEOUT_MS, in ticks
ASSUME GrabAssumption == /\ Sizes \subseteq Nat \ {0} /\ Region \in Nat \X (Nat \ {0})
                         /\ {Frames, Image, MaxPipe, Patience} \subseteq Nat \ {0}

VARIABLES
  backend,  \* what resolve_backend picked, for as long as the process runs
  wlr,      \* rc, and per output: status, whether it has a buffer, what the compositor does
  ext,      \* the session, the pool, the frame, the compositor and its events
  kwin      \* kwin_exchange, KWin and the pipe

grabVars == <<backend, wlr, ext, kwin>>

Backends == {"wlr", "ext", "kwin"}
Image0   == [pc |-> "start", replied |-> FALSE, eof |-> FALSE, len |-> 0, want |-> 0,
             answer |-> "none", pipe |-> 0, written |-> 0, closed |-> FALSE, waited |-> 0]
NoFrame  == [status |-> 0, buffer |-> FALSE, compositor |-> "none"]

\* pick_backend: a forced one or none; otherwise the first there is.
PickBackend(have, pref) ==
  IF pref # "auto" THEN IF pref \in have THEN pref ELSE "none"
  ELSE IF "wlr" \in have THEN "wlr" ELSE IF "ext" \in have THEN "ext"
  ELSE IF "kwin" \in have THEN "kwin" ELSE "none"

GrabBegins(have, pref) ==
  /\ backend = "unset" /\ backend' = PickBackend(have, pref)
  /\ UNCHANGED <<wlr, ext, kwin>>

-----------------------------------------------------------------------------
(* grabit_wlr_capture_many.                                                *)

WlrOnly == backend = "wlr" /\ UNCHANGED <<backend, ext, kwin>>
Sees(o, status, buffer, compositor) ==
  wlr' = [wlr EXCEPT !.frames[o] = [status |-> status, buffer |-> buffer, compositor |-> compositor]]

\* A dead output fails all: the others are asked, never waited for.
WlrAsks(dead) ==
  /\ WlrOnly /\ wlr.pc = "start"
  /\ wlr' = [pc |-> "wait", rc |-> IF dead = {} THEN 0 ELSE 1,
             frames |-> [o \in Frozen |-> IF o \in dead THEN [NoFrame EXCEPT !.status = 2]
                                                         ELSE [NoFrame EXCEPT !.compositor = "asked"]]]

\* sc_buffer, with a sane geometry and a buffer for it, or not (status 2 is -1);
\* a format nobody knows leaves it without both.
SentBuffer(o, how) ==
  /\ WlrOnly /\ wlr.pc = "wait" /\ wlr.frames[o].compositor = "asked"
  /\ Sees(o, IF how = "bogus" THEN 2 ELSE 0, how = "good", "offered")

SentBufferDone(o) ==
  /\ WlrOnly /\ wlr.pc = "wait" /\ wlr.frames[o].compositor = "offered"
  /\ IF wlr.frames[o].buffer THEN Sees(o, wlr.frames[o].status, TRUE, "copies") ELSE Sees(o, 2, FALSE, "idle")

\* sc_ready, sc_failed
SentReady(o)  == /\ WlrOnly /\ wlr.pc = "wait" /\ wlr.frames[o].compositor = "copies" /\ Sees(o, 1, TRUE, "copied")
SentFailed(o) == /\ WlrOnly /\ wlr.pc = "wait" /\ wlr.frames[o].compositor \in {"asked", "copies"}
                 /\ Sees(o, 2, wlr.frames[o].buffer, "idle")

\* Slip: one answer is enough.
WlrPendingFirst == \A o \in Frozen : wlr.frames[o].status = 0
WlrPending == \E o \in Frozen : wlr.frames[o].status = 0

WlrLosesDisplay == WlrOnly /\ wlr.pc = "wait" /\ wlr.rc = 0 /\ WlrPending /\ wlr' = [wlr EXCEPT !.rc = 1]

\* Every picture or none; frames and buffers are destroyed either way.
WlrCollects ==
  LET bad == wlr.rc # 0 \/ \E o \in Frozen : wlr.frames[o].status = 2 IN
  /\ WlrOnly /\ wlr.pc = "wait" /\ (wlr.rc # 0 \/ ~WlrPending)
  /\ wlr' = [wlr EXCEPT !.pc = IF bad THEN "failed" ELSE "taken"]

-----------------------------------------------------------------------------
(* do_capture and grabit_ext_capture_region, with a pool.                  *)

ExtOnly == backend = "ext" /\ UNCHANGED <<backend, wlr, kwin>>
ExtAt(pc) == ExtOnly /\ ext.pc = pc

\* gext_session_get: the session of the frame before, unless it stopped or could
\* not take the buffer.
ExtGetsSession ==
  /\ ExtAt("start") /\ ext.n < Frames
  /\ ext' = IF ext.session = "live" THEN [ext EXCEPT !.pc = "alloc", !.n = @ + 1]
            ELSE [ext EXCEPT !.pc = "session", !.n = @ + 1, !.session = "new", !.status = 0,
                             !.events = <<[is |-> "size", of |-> ext.output]>>]

\* pixels_pool_acquire keeps the buffer if nothing about it changed; the frame
\* is created, the buffer attached and the capture asked for.
PoolAcquire == [ext EXCEPT !.pool = ext.width]
ExtAsks == /\ ExtAt("alloc")
           /\ ext' = [PoolAcquire EXCEPT !.pc = "wait", !.status = 0, !.frame = PoolAcquire.pool, !.asked = TRUE, !.late = FALSE]

\* The compositor: it copies into a buffer of the right size, and tells of a new
\* size (and of the end of the session) when it comes.
ExtAnswers ==
  /\ ExtOnly /\ ext.asked
  /\ ext' = [ext EXCEPT !.asked = FALSE,
       !.events = Append(@, [is |-> IF ext.frame = ext.output THEN "ready" ELSE "constraints", of |-> 0])]
ExtResized(w) ==
  /\ ExtOnly /\ ext.session # "none" /\ w # ext.output /\ Len(ext.events) < 2
  /\ ext' = [ext EXCEPT !.output = w, !.events = Append(@, [is |-> "size", of |-> w])]
ExtStops ==
  /\ ExtOnly /\ ext.session # "none" /\ ext.ends = FALSE /\ Len(ext.events) < 2
  /\ ext' = [ext EXCEPT !.ends = TRUE, !.asked = FALSE, !.events = Append(@, [is |-> "stopped", of |-> 0])]

\* sess_buffer_size and sess_done, sess_stopped, frame_ready, frame_failed.  The
\* dispatch that brings the answer may bring what follows it.
Handled(e) ==
  CASE e.is = "size"    -> [ext EXCEPT !.width = e.of, !.late = ext.pc = "wait" /\ ext.status = 1,
                                       !.session = IF @ = "new" THEN "live" ELSE @]
    [] e.is = "ready"   -> [ext EXCEPT !.status = 1]
    [] e.is = "stopped" -> [ext EXCEPT !.session = "over", !.status = IF ext.pc = "wait" THEN 2 ELSE @]
    [] OTHER            -> [ext EXCEPT !.session = "over", !.status = 2]
ExtHandles ==
  /\ ExtOnly /\ ext.pc \in {"session", "wait"} /\ ext.events # <<>>
  /\ ext' = [Handled(Head(ext.events)) EXCEPT !.events = Tail(ext.events)]

\* wait_session_done, pixels_wl_wait.
ExtWaits ==
  \/ /\ ExtAt("session") /\ ext.session # "new"
     /\ ext' = [ext EXCEPT !.pc = IF ext.session = "live" THEN "alloc" ELSE "failed"]
  \/ /\ ExtAt("wait") /\ ext.status # 0
     /\ ext' = [ext EXCEPT !.pc = IF ext.status = 1 THEN "copy" ELSE "failed"]
ExtLosesDisplay == ExtOnly /\ ext.pc \in {"session", "wait"} /\ ext' = [ext EXCEPT !.pc = "failed", !.n = Frames]

InFrame == Region[1] + Region[2] <= ext.width

\* The region is cut out of the buffer that was attached.
ExtCopies ==
  /\ ExtAt("copy")
  /\ ext' = IF InFrame THEN [ext EXCEPT !.pc = "copied"] ELSE [ext EXCEPT !.pc = "failed"]

\* A session that failed to start or has stopped is destroyed with the next one;
\* the pool stays.
ExtGoesOn == /\ ExtOnly /\ ext.pc \in {"copied", "failed"} /\ ext.n < Frames
             /\ ext' = IF ext.session = "live" THEN [ext EXCEPT !.pc = "start", !.asked = FALSE]
                       ELSE [ext EXCEPT !.pc = "start", !.asked = FALSE, !.session = "none",
                                        !.events = <<>>, !.ends = FALSE]

-----------------------------------------------------------------------------
(* kwin_capture.                                                           *)

KwinOnly == backend = "kwin" /\ UNCHANGED <<backend, wlr, ext>>
KwinLoops == KwinOnly /\ kwin.pc = "loop"
KwinGives(result) == kwin' = [Image0 EXCEPT !.pc = result, !.len = kwin.len, !.want = kwin.want]

\* The call is sent and the write end closed here, so that KWin's is the last.
KwinCalls == /\ KwinOnly /\ kwin.pc = "start" /\ kwin' = [Image0 EXCEPT !.pc = "loop"]

KwinWrites   == KwinLoops /\ ~kwin.closed /\ kwin.written < MaxPipe
                /\ kwin' = [kwin EXCEPT !.pipe = @ + 1, !.written = @ + 1]
KwinCloses   == KwinLoops /\ ~kwin.closed /\ kwin' = [kwin EXCEPT !.closed = TRUE]
KwinAnswers(answer) == KwinLoops /\ kwin.answer = "none" /\ kwin' = [kwin EXCEPT !.answer = answer]
KwinTime     == KwinLoops /\ kwin.waited <= Patience /\ kwin' = [kwin EXCEPT !.waited = @ + 1]

\* kwin_exchange, a turn of its loop at a time.
KwinTimesOut    == KwinLoops /\ kwin.waited > Patience /\ KwinGives("failed")
KwinLosesBus    == KwinLoops /\ ~kwin.replied /\ KwinGives("failed")
KwinTakesAnswer ==
  /\ KwinLoops /\ ~kwin.replied /\ kwin.answer # "none"
  /\ IF kwin.answer = "error" THEN KwinGives("failed")
     ELSE kwin' = [kwin EXCEPT !.replied = TRUE, !.want = Image]
\* read; before the answer the room is bounded.
KwinReads == /\ KwinLoops /\ ~kwin.eof /\ kwin.pipe > 0 /\ ~(kwin.replied /\ kwin.len >= kwin.want)
             /\ \E n \in 1 .. kwin.pipe : kwin' = [kwin EXCEPT !.pipe = @ - n, !.len = @ + n]
KwinTooMuch == KwinLoops /\ ~kwin.replied /\ kwin.pipe > 0 /\ kwin.len >= Image /\ KwinGives("failed")
KwinSeesEnd == KwinLoops /\ ~kwin.eof /\ kwin.pipe = 0 /\ kwin.closed /\ kwin' = [kwin EXCEPT !.eof = TRUE]

KwinHasAll == kwin.replied /\ kwin.len >= kwin.want

\* ... then an unknown format or stride fails, a known one is converted.
KwinConverts  == KwinLoops /\ KwinHasAll /\ \E result \in {"taken", "failed"} : KwinGives(result)
KwinEndsShort == KwinLoops /\ kwin.replied /\ kwin.eof /\ kwin.len < kwin.want /\ KwinGives("failed")

-----------------------------------------------------------------------------
GrabInit ==
  /\ backend = "unset" /\ kwin = Image0
  /\ wlr = [pc |-> "start", rc |-> 0, frames |-> [o \in Frozen |-> NoFrame]]
  /\ \E w \in Sizes :
       ext = [pc |-> "start", n |-> 0, session |-> "none", width |-> w, status |-> 0, pool |-> 0, frame |-> 0,
              asked |-> FALSE, events |-> <<>>, output |-> w, ends |-> FALSE, late |-> FALSE]

GrabNext ==
  \/ \E have \in SUBSET Backends, pref \in Backends \cup {"auto"} : GrabBegins(have, pref)
  \/ (\E dead \in SUBSET Frozen : WlrAsks(dead)) \/ WlrLosesDisplay \/ WlrCollects
  \/ \E o \in Frozen : \/ \E how \in {"good", "bogus", "unknown"} : SentBuffer(o, how)
                        \/ SentBufferDone(o) \/ SentReady(o) \/ SentFailed(o)
  \/ ExtGetsSession \/ ExtAsks \/ ExtAnswers \/ (\E w \in Sizes : ExtResized(w)) \/ ExtStops
  \/ ExtHandles \/ ExtWaits \/ ExtLosesDisplay \/ ExtCopies \/ ExtGoesOn
  \/ KwinCalls \/ KwinWrites \/ KwinCloses \/ (\E answer \in {"image", "error"} : KwinAnswers(answer))
  \/ KwinTime \/ KwinTimesOut \/ KwinLosesBus \/ KwinTakesAnswer \/ KwinReads \/ KwinTooMuch
  \/ KwinSeesEnd \/ KwinConverts \/ KwinEndsShort

-----------------------------------------------------------------------------
GrabTypeOK ==
  /\ \A o \in Frozen : wlr.frames[o].status \in 0 .. 2
  /\ ext.width \in Sizes /\ ext.n <= Frames /\ kwin.len <= MaxPipe

\* A picture that is handed on is whole: the copy of every output was finished;
\* the recorded region lies in the buffer the compositor filled, through resizes
\* of the output, sessions that stop and frames that fail; KWin's pipe has brought
\* all that its answer announced, in whichever order they came.  Left out: a
\* resize told in the very dispatch that brings the frame, whose new size is used
\* to cut the region out of the old buffer (ext_image_copy.c:172).
GrabbedIsWhole ==
  /\ wlr.pc = "taken" => \A o \in Frozen : wlr.frames[o].compositor = "copied"
  /\ ext.pc = "copied" /\ ~ext.late => Region[1] + Region[2] <= ext.frame
  /\ kwin.pc = "taken" => kwin.want = Image /\ kwin.len >= Image
=============================================================================
