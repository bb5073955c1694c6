------------------------------ MODULE FrameTrace ------------------------------
(***************************************************************************)
(* FrameRing with a memory: the counters of the ring, and for every frame  *)
(* when it was captured.  Each step is a step of FrameRing that also       *)
(* updates the history, so nothing here changes what the threads do; the   *)
(* two bounds keep the history finite.                                     *)
(***************************************************************************)
EXTENDS FrameRing

CONSTANTS MaxAttempts,  \* bound: frames the source tries to capture
          MaxSegments   \* bound: encoder segments started

ASSUME TraceAssumption == MaxAttempts \in Nat /\ MaxSegments \in Nat \ {0}

VARIABLES
  attempts,  \* frames the source set out to capture
  failures,  \* captures that failed
  popped,    \* ring.popped
  dropped,   \* ring.dropped
  segment,   \* segments begun: seg_ctx.n_segs
  tags,      \* for each ring entry, the capture it holds
  srcTag,    \* the capture in the source's hands
  encTag,    \* the capture in the encoder's hands
  lastOut    \* number of the newest capture popped so far

history == <<attempts, failures, popped, dropped, segment, tags, srcTag, encTag, lastOut>>
allVars == <<vars, history>>

\* A capture: its number, the segment being recorded, and whether the clock of
\* the recording stood still (rec_clock.paused) when its pixels were read.
Tag(n) == [seq |-> n, seg |-> segment, late |-> paused]
NoTag  == [seq |-> 0, seg |-> 0, late |-> FALSE]

RingLen == IF tail <= head THEN head - tail ELSE RingCap - tail + head

InFlight == IF srcBuf = NoBuf THEN 0 ELSE 1

\* Slips: the frame pushed out is not counted, or its pusher counts it again.
EvictUncounted == 0
EvictTwice     == IF RingFull THEN 2 ELSE 0

\* ring_push counts the frame it pushes out.
EvictCount == IF RingFull THEN 1 ELSE 0

Room == attempts < MaxAttempts

TraceDrop ==
  /\ Room /\ SrcDrop
  /\ attempts' = attempts + 1 /\ dropped' = dropped + 1
  /\ UNCHANGED <<failures, popped, segment, tags, srcTag, encTag, lastOut>>

TraceAcquire ==
  /\ Room /\ SrcAcquire
  /\ attempts' = attempts + 1
  /\ srcTag' = Tag(attempts + 1)
  /\ UNCHANGED <<failures, popped, dropped, segment, tags, encTag, lastOut>>

TraceCaptureFails ==
  /\ CaptureFails
  /\ failures' = failures + 1 /\ srcTag' = NoTag
  /\ UNCHANGED <<attempts, popped, dropped, segment, tags, encTag, lastOut>>

TracePush ==
  /\ SrcPush
  /\ dropped' = dropped + EvictCount
  /\ tags' = [tags EXCEPT ![PushIndex] = srcTag] /\ srcTag' = NoTag
  /\ UNCHANGED <<attempts, failures, popped, segment, encTag, lastOut>>

TracePop ==
  /\ EncPop
  /\ popped' = popped + 1
  /\ encTag' = tags[tail] /\ lastOut' = tags[tail].seq
  /\ UNCHANGED <<attempts, failures, dropped, segment, tags, srcTag>>

TraceResume ==
  /\ segment < MaxSegments /\ StepResume
  /\ segment' = segment + 1
  /\ UNCHANGED <<attempts, failures, popped, dropped, tags, srcTag, encTag, lastOut>>

\* The steps that touch neither a frame nor a counter.
TraceOther ==
  /\ \/ StreamFrame \/ EncWait \/ EncWrite \/ EncWriteFails \/ EncRelease \/ EncExit
     \/ LoopTop \/ StepSame \/ StepPause \/ DrainDone \/ StepResumeFails \/ SetStreamPaused
     \/ CaptureDue \/ CaptureInterrupted \/ LoopExit \/ FinishIdle \/ FinishStop
     \/ FinishJoin \/ Destroy \/ WaylandLost
     \/ EncSpuriousWake \/ UserStop \/ UserPause \/ StreamFails \/ Over
  /\ UNCHANGED history

TraceInit ==
  /\ Init
  /\ attempts = 0 /\ failures = 0 /\ popped = 0 /\ dropped = 0 /\ lastOut = 0
  /\ segment = 1
  /\ tags = [i \in Index |-> NoTag] /\ srcTag = NoTag /\ encTag = NoTag

TraceNext == \/ TraceDrop \/ TraceAcquire \/ TraceCaptureFails \/ TracePush
             \/ TracePop \/ TraceResume \/ TraceOther

TraceSpec == TraceInit /\ [][TraceNext]_allVars

-----------------------------------------------------------------------------
\* Every variable of the history has its type.
TraceTypeOK ==
  /\ attempts \in 0 .. MaxAttempts /\ {failures, popped, dropped, lastOut} \subseteq 0 .. attempts
  /\ segment \in 1 .. MaxSegments
  /\ LET Tags == [seq : 0 .. attempts, seg : 0 .. segment, late : BOOLEAN] IN
     tags \in [Index -> Tags] /\ srcTag \in Tags /\ encTag \in Tags

\* Every capture attempt ends in exactly one place: encoded, dropped, failed,
\* queued or in the source's hands.  The totals that record_toggle logs when a
\* recording ends (ring.popped, ring.dropped) miss no frame and count none twice.
EveryAttemptAccounted ==
  attempts = popped + dropped + failures + RingLen + InFlight

\* ffmpeg receives frames in the order they were captured, over all segments:
\* neither the eviction of the oldest frame nor the ring's wrap swaps two.
EncodedInCaptureOrder == [][popped' # popped => lastOut' > lastOut]_allVars

\* A frame is encoded in the segment it was captured in: pausing drains the
\* ring, so no frame of one segment opens the next.
EncodedInOwnSegment == encPc = "write" => encTag.seg = segment

\* OPTIONS.md, recording: "paused time never appears in the output".  No frame
\* whose pixels were read while the clock was paused is written to ffmpeg.
PausedTimeNeverWritten == encPc = "write" => ~encTag.late

=============================================================================
