------------------------------ MODULE FrameRing ------------------------------
(***************************************************************************)
(* The threads that move frames while grabit records.                      *)
(*                                                                         *)
(*   source   takes a free pool buffer, fills it, pushes it on the ring.   *)
(*            PipeWire = TRUE: the callback on_process, on a thread of its *)
(*            own (record/pw.c).  FALSE: the main thread itself, between   *)
(*            two rounds of rec_capture_loop (record/loop.c).              *)
(*   encoder  one thread per segment: pops a frame, writes it to ffmpeg's  *)
(*            pipe, gives the buffer back (encoder_thread, record/ring.c). *)
(*   main     runs the loop, pauses (seg_finish), resumes (seg_begin),     *)
(*            stops, and finally destroys the ring.                        *)
(*                                                                         *)
(* A critical section under ring.mu or pool.mu is one step; what the code  *)
(* does between two of them is a place where the other threads interleave. *)
(* Frames are known by the pool buffer they use.  The state is finite, so  *)
(* nothing here is bounded: histories are in FrameTrace.                   *)
(***************************************************************************)
EXTENDS Naturals

CONSTANTS
  RingCap,    (* RING_CAP: entries of ring.slots                            *)
  PoolSize,   (* buf_pool.n: buffers, pool_slots_for() of the frame size    *)
  FailLimit,  (* 30 in rec_capture_loop: tolerated consecutive failures     *)
  PipeWire    (* use_screencast: frames come from on_process                *)

ASSUME RingCapAssumption   == RingCap \in Nat /\ RingCap >= 2
ASSUME PoolSizeAssumption  == PoolSize \in Nat /\ PoolSize >= 1
ASSUME FailLimitAssumption == FailLimit \in Nat
ASSUME PipeWireAssumption  == PipeWire \in BOOLEAN

Bufs  == 1 .. PoolSize
NoBuf == 0                      \* frame.data = NULL
Index == 0 .. RingCap - 1

VARIABLES
  busy,          \* buf_pool.busy
  slots,         \* ring.slots, the buffer each entry points at
  head, tail,    \* ring.head, ring.tail
  stopped,       \* ring.stopped
  srcPc,         \* where the source is: "idle", "acquire", "push"
  srcBuf,        \* frame_buf of the source
  encPc,         \* encoder thread: "off", "pop", "wait", "write", "release", "done"
  encBuf,        \* f.data of the encoder thread
  writeFailed,   \* enc_state.write_failed
  mainPc,        \* where the main thread is, see MainPcs
  paused,        \* rec_clock.paused
  streamPaused,  \* pw_capture.paused
  streamFailed,  \* pw_capture.failed
  consecFail,    \* consec_fail of rec_capture_loop
  stop, pause    \* grabit_rec_stop, grabit_rec_pause

MainPcs == {"loop", "step", "capture", "drain", "setPaused", "ending", "finish",
            "join", "done", "gone"}

ringVars == <<slots, head, tail, stopped>>
srcVars  == <<srcPc, srcBuf>>
encVars  == <<encPc, encBuf, writeFailed>>
mainVars == <<mainPc, paused, consecFail>>
flagVars == <<streamPaused, streamFailed, stop, pause>>
vars == <<busy, ringVars, srcVars, encVars, mainVars, flagVars>>

-----------------------------------------------------------------------------
(* The pool and the ring.                                                  *)

\* Slips: bugs the definitions after them could have.
ReleasedNever(b)    == busy
WokenNever          == encPc

\* (i + 1) % RING_CAP for an index of the ring.
NextIndex(i) == IF i = RingCap - 1 THEN 0 ELSE i + 1

\* The entries holding a queued frame: tail up to, not including, head.
Window == IF tail <= head THEN tail .. (head - 1)
                          ELSE (tail .. RingCap - 1) \cup (0 .. head - 1)

RingEmpty == head = tail

\* pool_try_acquire takes the first buffer that is not busy.
FirstFree(b) == /\ b \in Bufs
                /\ ~busy[b]
                /\ \A c \in Bufs : c < b => busy[c]

PoolExhausted == \A b \in Bufs : busy[b]

\* frame_release: nothing for a NULL frame, else the buffer is free again.
Released(b) == IF b = NoBuf THEN busy ELSE [busy EXCEPT ![b] = FALSE]

\* pthread_cond_signal / broadcast on cv_data: a waiting encoder runs again.
Woken == IF encPc = "wait" THEN "pop" ELSE encPc

RingFull == NextIndex(head) = tail

\* Slip: the new frame takes the place of the one it pushed out.
PushIndexEvicted == IF RingFull THEN tail ELSE head

\* The entry ring_push writes.
PushIndex == head

\* ring_push: a full ring gives up its oldest frame for the new one.
RingPush(b) ==
  /\ slots' = IF RingFull THEN [slots EXCEPT ![tail] = NoBuf, ![PushIndex] = b]
                          ELSE [slots EXCEPT ![PushIndex] = b]
  /\ busy' = IF RingFull THEN Released(slots[tail]) ELSE busy
  /\ tail' = IF RingFull THEN NextIndex(tail) ELSE tail
  /\ head' = NextIndex(head)
  /\ encPc' = Woken
  /\ UNCHANGED stopped

\* ring_stop, as seg_finish calls it.
RingStop ==
  /\ stopped' = TRUE
  /\ encPc' = Woken
  /\ UNCHANGED <<slots, head, tail>>

-----------------------------------------------------------------------------
(* The source.                                                             *)

\* The source is done with this frame; the main thread goes on when it is it.
SrcReturn == /\ mainPc' = IF PipeWire THEN mainPc ELSE "loop"
             /\ UNCHANGED paused

\* on_process reads c->paused and goes on to copy the buffer PipeWire gave it.
StreamFrame ==
  /\ PipeWire
  /\ srcPc = "idle" /\ ~streamPaused
  /\ srcPc' = "acquire"
  /\ UNCHANGED <<busy, ringVars, srcBuf, encVars, mainVars, flagVars>>

\* No buffer is free, or the stream was renegotiated to a size the pool's
\* buffers do not hold: ring_record_drop, and this frame is lost.
SrcDrop ==
  /\ srcPc = "acquire" /\ (PoolExhausted \/ PipeWire)
  /\ srcPc' = "idle"
  /\ SrcReturn /\ UNCHANGED consecFail
  /\ UNCHANGED <<busy, ringVars, srcBuf, encVars, flagVars>>

SrcAcquire ==
  /\ srcPc = "acquire"
  /\ \E b \in Bufs : FirstFree(b) /\ srcBuf' = b /\ busy' = [busy EXCEPT ![b] = TRUE]
  /\ srcPc' = "push"
  /\ UNCHANGED <<ringVars, encVars, mainVars, flagVars>>

\* rec_layout_capture_* failed: pool_release, and stop after too many in a row.
CaptureFails ==
  /\ ~PipeWire /\ srcPc = "push"
  /\ busy' = Released(srcBuf)
  /\ srcBuf' = NoBuf /\ srcPc' = "idle"
  /\ consecFail' = consecFail + 1
  /\ IF consecFail = FailLimit THEN stop' = TRUE /\ mainPc' = "ending"
                               ELSE stop' = stop /\ mainPc' = "loop"
  /\ UNCHANGED <<ringVars, encVars, paused, streamPaused, streamFailed, pause>>

SrcPush ==
  /\ srcPc = "push"
  /\ RingPush(srcBuf)
  /\ srcBuf' = NoBuf /\ srcPc' = "idle"
  /\ SrcReturn
  /\ consecFail' = IF PipeWire THEN consecFail ELSE 0
  /\ UNCHANGED <<encBuf, writeFailed, flagVars>>

SrcStep == SrcDrop \/ SrcAcquire \/ CaptureFails \/ SrcPush

-----------------------------------------------------------------------------
(* The encoder thread.                                                     *)

\* Slip: a stopped ring ends the thread before it has been emptied.
EncStopSeenEarly == stopped

\* ring_pop returns -1 only when nothing is queued.
EncStopSeen == RingEmpty /\ stopped

\* ring_pop hands out the oldest frame.  The entry keeps its stale copy.
EncPop ==
  /\ encPc = "pop" /\ ~RingEmpty /\ ~EncStopSeen
  /\ encBuf' = slots[tail] /\ tail' = NextIndex(tail)
  /\ encPc' = "write"
  /\ UNCHANGED <<busy, slots, head, stopped, srcVars, writeFailed, mainVars, flagVars>>

\* ring_pop blocks in pthread_cond_wait.
EncWait ==
  /\ encPc = "pop" /\ RingEmpty /\ ~stopped
  /\ encPc' = "wait"
  /\ UNCHANGED <<busy, ringVars, srcVars, encBuf, writeFailed, mainVars, flagVars>>

\* pthread_cond_wait may return without a signal; ring_pop tests again.
EncSpuriousWake ==
  /\ encPc = "wait"
  /\ encPc' = "pop"
  /\ UNCHANGED <<busy, ringVars, srcVars, encBuf, writeFailed, mainVars, flagVars>>

\* The frame is written, or skipped once a write has failed.
EncWrite ==
  /\ encPc = "write"
  /\ encPc' = "release"
  /\ UNCHANGED <<busy, ringVars, srcVars, encBuf, writeFailed, mainVars, flagVars>>

\* ffmpeg closed its end: EPIPE.  The encoder asks the recording to stop and
\* keeps draining the ring.
EncWriteFails ==
  /\ encPc = "write" /\ ~writeFailed
  /\ writeFailed' = TRUE /\ stop' = TRUE
  /\ encPc' = "release"
  /\ UNCHANGED <<busy, ringVars, srcVars, encBuf, mainVars, streamPaused, streamFailed, pause>>

EncRelease ==
  /\ encPc = "release"
  /\ busy' = Released(encBuf) /\ encBuf' = NoBuf
  /\ encPc' = "pop"
  /\ UNCHANGED <<ringVars, srcVars, writeFailed, mainVars, flagVars>>

\* The thread sets enc_state.done and returns.
EncExit ==
  /\ encPc = "pop" /\ EncStopSeen
  /\ encPc' = "done"
  /\ UNCHANGED <<busy, ringVars, srcVars, encBuf, writeFailed, mainVars, flagVars>>

Encoder == EncPop \/ EncWait \/ EncWrite \/ EncWriteFails \/ EncRelease \/ EncExit

-----------------------------------------------------------------------------
(* The main thread: rec_capture_loop and rec_pw_loop, then record_toggle.  *)

MainGoto(from, to) == mainPc = from /\ mainPc' = to

\* The head of the loop: grabit_rec_stop, then pw_capture_failed.
LoopTop ==
  /\ mainPc = "loop"
  /\ mainPc' = IF stop \/ (PipeWire /\ streamFailed) THEN "ending" ELSE "step"
  /\ stop' = (stop \/ (PipeWire /\ streamFailed))
  /\ UNCHANGED <<busy, ringVars, srcVars, encVars, paused, consecFail, streamPaused, streamFailed, pause>>

\* Slip: a paused wlr recording goes on capturing.
StepSameCaptures ==
  /\ pause = paused
  /\ MainGoto("step", IF PipeWire THEN "loop" ELSE "capture")
  /\ UNCHANGED <<busy, ringVars, srcVars, encVars, paused, consecFail, flagVars>>

\* rec_clock_step finds no change; a live wlr recording goes on to a capture.
StepSame ==
  /\ pause = paused
  /\ MainGoto("step", IF PipeWire \/ paused THEN "loop" ELSE "capture")
  /\ UNCHANGED <<busy, ringVars, srcVars, encVars, paused, consecFail, flagVars>>

\* rec_clock_step pauses: seg_finish stops the ring and waits for the encoder.
StepPause ==
  /\ pause /\ ~paused
  /\ MainGoto("step", "drain")
  /\ paused' = TRUE
  /\ RingStop
  /\ UNCHANGED <<busy, srcVars, encBuf, writeFailed, consecFail, flagVars>>

\* seg_finish joins the encoder once it has drained the ring.
DrainDone ==
  /\ encPc = "done"
  /\ MainGoto("drain", IF PipeWire THEN "setPaused" ELSE "loop")
  /\ encPc' = "off"
  /\ UNCHANGED <<busy, ringVars, srcVars, encBuf, writeFailed, paused, consecFail, flagVars>>

\* rec_clock_step resumes: seg_begin reopens the ring and starts an encoder.
StepResume ==
  /\ ~pause /\ paused
  /\ MainGoto("step", IF PipeWire THEN "setPaused" ELSE "capture")
  /\ paused' = FALSE
  /\ stopped' = FALSE
  /\ encPc' = "pop" /\ writeFailed' = FALSE
  /\ UNCHANGED <<busy, slots, head, tail, srcVars, encBuf, consecFail, flagVars>>

\* seg_begin failed: the recording ends.
StepResumeFails ==
  /\ ~pause /\ paused
  /\ MainGoto("step", "ending")
  /\ paused' = FALSE /\ stop' = TRUE
  /\ UNCHANGED <<busy, ringVars, srcVars, encVars, consecFail, streamPaused, streamFailed, pause>>

\* pw_capture_set_paused, after rec_clock_step has returned.
SetStreamPaused ==
  /\ MainGoto("setPaused", "loop")
  /\ streamPaused' = paused
  /\ UNCHANGED <<busy, ringVars, srcVars, encVars, paused, consecFail, streamFailed, stop, pause>>

\* The frame is due: the main thread becomes the source.
CaptureDue ==
  /\ mainPc = "capture" /\ srcPc = "idle"
  /\ srcPc' = "acquire"
  /\ UNCHANGED <<busy, ringVars, srcBuf, encVars, mainVars, flagVars>>

\* A stop or a pause cuts the wait for the deadline short.
CaptureInterrupted ==
  /\ srcPc = "idle" /\ (stop \/ pause)
  /\ MainGoto("capture", "loop")
  /\ UNCHANGED <<busy, ringVars, srcVars, encVars, paused, consecFail, flagVars>>

\* pump_or_stop: the compositor is gone.
WaylandLost ==
  /\ mainPc \in {"loop", "capture"} /\ srcPc = "idle"
  /\ mainPc' = "ending" /\ stop' = TRUE
  /\ UNCHANGED <<busy, ringVars, srcVars, encVars, paused, consecFail, streamPaused, streamFailed, pause>>

\* Leaving rec_pw_loop pauses the stream for good.
LoopExit ==
  /\ MainGoto("ending", "finish")
  /\ streamPaused' = (PipeWire \/ streamPaused)
  /\ UNCHANGED <<busy, ringVars, srcVars, encVars, paused, consecFail, streamFailed, stop, pause>>

\* seg_finish(&sc, NULL): nothing to do when no encoder runs.
FinishIdle ==
  /\ encPc = "off"
  /\ MainGoto("finish", "done")
  /\ UNCHANGED <<busy, ringVars, srcVars, encVars, paused, consecFail, flagVars>>

FinishStop ==
  /\ encPc # "off"
  /\ MainGoto("finish", "join")
  /\ RingStop
  /\ UNCHANGED <<busy, srcVars, encBuf, writeFailed, paused, consecFail, flagVars>>

FinishJoin ==
  /\ encPc = "done"
  /\ MainGoto("join", "done")
  /\ encPc' = "off"
  /\ UNCHANGED <<busy, ringVars, srcVars, encBuf, writeFailed, paused, consecFail, flagVars>>

\* ring_destroy gives back what is still queued.  The segments have been
\* assembled and published by then: the callback has long returned.
Destroy ==
  /\ srcPc = "idle"
  /\ MainGoto("done", "gone")
  /\ busy' = [b \in Bufs |-> busy[b] /\ \A i \in Window : slots[i] # b]
  /\ slots' = [i \in Index |-> IF i \in Window THEN NoBuf ELSE slots[i]]
  /\ UNCHANGED <<head, tail, stopped, srcVars, encVars, paused, consecFail, flagVars>>

Main == \/ LoopTop \/ StepSame \/ StepPause \/ DrainDone \/ StepResume
        \/ StepResumeFails \/ SetStreamPaused \/ CaptureDue \/ CaptureInterrupted
        \/ LoopExit \/ FinishIdle \/ FinishStop \/ FinishJoin \/ Destroy

-----------------------------------------------------------------------------
(* What the user, the signals and the compositor do.                       *)

\* SIGINT, SIGTERM, SIGHUP, the tray, the stop button or a second grabit --record.
UserStop ==
  /\ mainPc # "gone" /\ ~stop
  /\ stop' = TRUE
  /\ UNCHANGED <<busy, ringVars, srcVars, encVars, mainVars, streamPaused, streamFailed, pause>>

\* SIGUSR1 flips the flag; the start and pause buttons set it to 0 and 1.
UserPause ==
  /\ mainPc # "gone"
  /\ pause' = ~pause
  /\ UNCHANGED <<busy, ringVars, srcVars, encVars, mainVars, streamPaused, streamFailed, stop>>

\* on_state_changed: PipeWire reports an error or the stream unconnected.
StreamFails ==
  /\ PipeWire /\ ~streamFailed /\ mainPc # "gone"
  /\ streamFailed' = TRUE
  /\ UNCHANGED <<busy, ringVars, srcVars, encVars, mainVars, streamPaused, stop, pause>>

Over == mainPc = "gone" /\ UNCHANGED vars

Init ==
  /\ busy = [b \in Bufs |-> FALSE]
  /\ slots = [i \in Index |-> NoBuf] /\ head = 0 /\ tail = 0 /\ stopped = FALSE
  /\ srcPc = "idle" /\ srcBuf = NoBuf
  /\ encPc = "pop" /\ encBuf = NoBuf /\ writeFailed = FALSE
  /\ mainPc = "loop" /\ paused = FALSE /\ consecFail = 0
  /\ streamPaused = FALSE /\ streamFailed = FALSE
  /\ stop = FALSE /\ pause = FALSE

Next == \/ StreamFrame \/ SrcStep
        \/ Encoder \/ EncSpuriousWake
        \/ Main \/ WaylandLost
        \/ UserStop \/ UserPause \/ StreamFails
        \/ Over

Spec == Init /\ [][Next]_vars

\* No thread is starved: ffmpeg reads its pipe or dies, the callback returns,
\* and the main thread runs.  Nobody promises that the source ever slows down.
Fairness == /\ WF_vars(SrcStep)
            /\ WF_vars(Encoder)
            /\ WF_vars(Main)

FairSpec == Spec /\ Fairness

-----------------------------------------------------------------------------
(* Properties.                                                             *)

\* Every variable has its type.
TypeOK ==
  /\ busy \in [Bufs -> BOOLEAN]
  /\ slots \in [Index -> Bufs \cup {NoBuf}]
  /\ head \in Index /\ tail \in Index /\ stopped \in BOOLEAN
  /\ srcPc \in {"idle", "acquire", "push"} /\ srcBuf \in Bufs \cup {NoBuf}
  /\ encPc \in {"off", "pop", "wait", "write", "release", "done"}
  /\ encBuf \in Bufs \cup {NoBuf} /\ writeFailed \in BOOLEAN
  /\ mainPc \in MainPcs /\ paused \in BOOLEAN /\ consecFail \in 0 .. FailLimit + 1
  /\ streamPaused \in BOOLEAN /\ streamFailed \in BOOLEAN
  /\ stop \in BOOLEAN /\ pause \in BOOLEAN

\* A pool buffer has at most one holder among the source, the encoder and the
\* queued ring entries, and it is busy exactly while it has one: no frame is
\* overwritten while ffmpeg reads it, and no buffer leaks (pool_try_acquire,
\* ring_push's eviction, frame_release).
BufferHasOneHolder ==
  /\ mainPc # "gone" => \A i \in Window : slots[i] # NoBuf
  /\ \A i, j \in Window : slots[i] = slots[j] /\ slots[i] # NoBuf => i = j
  /\ \A i \in Window : slots[i] # NoBuf => slots[i] \notin {srcBuf, encBuf}
  /\ srcBuf # NoBuf => srcBuf # encBuf
  /\ \A b \in Bufs : busy[b] <=> (b \in {srcBuf, encBuf} \/ \E i \in Window : slots[i] = b)

\* The encoder never sleeps on cv_data while a frame is queued or the ring is
\* stopped: no wakeup is lost between ring_push, ring_stop and ring_pop.
NoLostWakeup == encPc = "wait" => RingEmpty /\ ~stopped

\* A wlr recording that is paused left no frame behind: everything captured
\* before the pause went to the segment that the pause closed.
PauseLeavesNothingQueued ==
  ~PipeWire /\ paused /\ encPc = "off" => RingEmpty

\* The loop runs with an encoder exactly while it is not paused, and never
\* with two: seg_begin and seg_finish alternate however the flag is toggled.
EncoderMatchesPause ==
  mainPc \in {"loop", "step", "capture"} => (paused <=> encPc = "off")

\* Once a stop was asked for, the recording gets to its end
\* (docs/design/recording.md, "A recording ends when the user stops it").
StopEndsRecording == stop ~> (mainPc = "gone")

\* Once the loop has been left, the ring drains and the encoder is joined, even
\* with a callback that still has one frame in flight after the stream paused.
LeavingLoopEndsRecording == (mainPc = "ending") ~> (mainPc = "gone")

=============================================================================
