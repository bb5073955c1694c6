---------------------------- MODULE FrameRingProofs ----------------------------
(***************************************************************************)
(* The safety of FrameRing for every ring capacity, pool size and failure  *)
(* limit, and for both kinds of source; and that the ring implements the   *)
(* queue: each step of the threads is a step of FrameQueue or leaves it    *)
(* alone.                                                                  *)
(***************************************************************************)
EXTENDS FrameRingQueue, TLAPS

-----------------------------------------------------------------------------
(* What moving an end of the ring does to the set of queued entries.       *)

LEMMA NextIndexType ==
  ASSUME NEW i \in Index
  PROVE  NextIndex(i) \in Index
BY RingCapAssumption DEF NextIndex, Index

LEMMA WindowType ==
  ASSUME TypeOK
  PROVE  Window \subseteq Index /\ head \notin Window
BY RingCapAssumption DEF TypeOK, Window, Index

LEMMA WindowSame ==
  ASSUME UNCHANGED <<head, tail>>
  PROVE  Window' = Window
BY DEF Window

\* ring_pop takes the entry at tail out of the window, and no other.
LEMMA WindowPop ==
  ASSUME TypeOK, ~RingEmpty, head' = head, tail' = NextIndex(tail)
  PROVE  tail \in Window /\ Window' = Window \ {tail}
BY RingCapAssumption DEF TypeOK, Window, Index, RingEmpty, NextIndex

\* ring_push adds the entry at head when there is room ...
LEMMA WindowPush ==
  ASSUME TypeOK, ~RingFull, head' = NextIndex(head), tail' = tail
  PROVE  Window' = Window \cup {head}
BY RingCapAssumption DEF TypeOK, Window, Index, RingFull, NextIndex

\* ... and exchanges the oldest entry for it when there is none.
LEMMA WindowPushFull ==
  ASSUME TypeOK, RingFull, head' = NextIndex(head), tail' = NextIndex(tail)
  PROVE  /\ tail \in Window /\ tail # head
         /\ Window' = (Window \ {tail}) \cup {head}
BY RingCapAssumption DEF TypeOK, Window, Index, RingFull, NextIndex

-----------------------------------------------------------------------------
(* The inductive invariant.  The named properties of FrameRing are not     *)
(* inductive: they need to know where the three threads can be together.   *)

\* A thread that is past its acquisition, and no other, has a buffer.
HandsMatchPc ==
  /\ srcPc = "push" <=> srcBuf # NoBuf
  /\ encPc \in {"write", "release"} <=> encBuf # NoBuf

\* Where the encoder thread and the ring's stop flag can be, seen from main.
MainKnowsEncoder ==
  /\ mainPc \in {"loop", "step", "capture", "setPaused"} =>
       (paused <=> encPc = "off") /\ (encPc # "off" => ~stopped)
  /\ mainPc = "capture" => ~paused
  /\ mainPc = "drain" => paused /\ encPc # "off"
  /\ mainPc = "join" => encPc # "off"
  /\ mainPc \in {"done", "gone"} => encPc = "off"
  /\ encPc = "done" => stopped

\* Where the source can be, seen from main.
MainKnowsSource ==
  /\ ~PipeWire /\ srcPc # "idle" => mainPc = "capture"
  /\ PipeWire /\ mainPc \in {"finish", "join", "done", "gone"} => streamPaused
  /\ mainPc = "gone" => srcPc = "idle"

\* The loop has been left when the limit is passed.
FailuresBounded ==
  mainPc \in {"loop", "step", "capture", "drain", "setPaused"} => consecFail <= FailLimit

\* A wlr encoder that has ended, or was joined by a pause, left the ring empty.
EndedMeansEmpty ==
  /\ ~PipeWire /\ encPc = "done" => RingEmpty
  /\ PauseLeavesNothingQueued

Control == /\ HandsMatchPc
           /\ MainKnowsEncoder
           /\ MainKnowsSource
           /\ FailuresBounded
           /\ EndedMeansEmpty
           /\ NoLostWakeup

IInv == TypeOK /\ Control /\ BufferHasOneHolder

-----------------------------------------------------------------------------

LEMMA InitIInv == Init => IInv
<1> SUFFICES ASSUME Init PROVE IInv
  OBVIOUS
<1> USE DEF Init
<1>1. TypeOK
  <2>1. 0 \in Index /\ 0 \in 0 .. FailLimit + 1
    BY RingCapAssumption, FailLimitAssumption DEF Index
  <2>2. busy \in [Bufs -> BOOLEAN] /\ slots \in [Index -> Bufs \cup {NoBuf}]
    OBVIOUS
  <2>3. QED
    BY <2>1, <2>2 DEF TypeOK, NoBuf, MainPcs
<1>2. Control
  BY RingCapAssumption, FailLimitAssumption
  DEF Control, HandsMatchPc, MainKnowsEncoder, MainKnowsSource, FailuresBounded,
      EndedMeansEmpty, PauseLeavesNothingQueued, NoLostWakeup, NoBuf
<1>3. Window = {}
  BY DEF Window
<1>4. BufferHasOneHolder
  BY <1>3 DEF BufferHasOneHolder, Bufs, NoBuf
<1>5. QED
  BY <1>1, <1>2, <1>4 DEF IInv

-----------------------------------------------------------------------------
(* Types.                                                                  *)

\* The two critical sections of the ring keep its types.
LEMMA RingPushType ==
  ASSUME TypeOK, NEW b \in Bufs, RingPush(b)
  PROVE  /\ slots' \in [Index -> Bufs \cup {NoBuf}] /\ head' \in Index /\ tail' \in Index
         /\ stopped' \in BOOLEAN /\ busy' \in [Bufs -> BOOLEAN]
         /\ encPc' \in {"off", "pop", "wait", "write", "release", "done"}
BY NextIndexType DEF TypeOK, RingPush, PushIndex, Released, Woken

LEMMA SrcTypes ==
  ASSUME TypeOK, Control, StreamFrame \/ SrcStep
  PROVE  TypeOK'
<1>1. CASE StreamFrame
  BY <1>1 DEF StreamFrame, TypeOK, ringVars, encVars, mainVars, flagVars
<1>2. CASE SrcDrop
  BY <1>2 DEF SrcDrop, SrcReturn, TypeOK, MainPcs, ringVars, encVars, flagVars
<1>3. CASE SrcAcquire
  BY <1>3 DEF SrcAcquire, FirstFree, TypeOK, ringVars, encVars, mainVars, flagVars
<1>4. CASE CaptureFails
  <2>1. consecFail' \in 0 .. FailLimit + 1
    <3>1. mainPc = "capture"
      BY <1>4 DEF CaptureFails, Control, MainKnowsSource
    <3>2. consecFail \in Nat /\ consecFail <= FailLimit
      BY <3>1, FailLimitAssumption DEF Control, FailuresBounded, TypeOK
    <3>3. QED
      BY <1>4, <3>2, FailLimitAssumption DEF CaptureFails
  <2>2. stop' \in BOOLEAN /\ mainPc' \in MainPcs
    BY <1>4 DEF CaptureFails, TypeOK, MainPcs
  <2>3. QED
    BY <1>4, <2>1, <2>2 DEF CaptureFails, Released, TypeOK, ringVars, encVars
<1>5. CASE SrcPush
  <2>1. srcBuf \in Bufs
    BY <1>5 DEF SrcPush, Control, HandsMatchPc, TypeOK
  <2>2. QED
    BY <1>5, <2>1, RingPushType, FailLimitAssumption
    DEF SrcPush, SrcReturn, TypeOK, MainPcs, flagVars
<1>6. QED
  BY <1>1, <1>2, <1>3, <1>4, <1>5 DEF SrcStep

LEMMA EncTypes ==
  ASSUME TypeOK, Encoder \/ EncSpuriousWake
  PROVE  TypeOK'
<1> USE DEF TypeOK, ringVars, srcVars, mainVars, flagVars
<1>1. CASE EncPop
  BY <1>1, NextIndexType DEF EncPop
<1>2. CASE EncWait \/ EncSpuriousWake \/ EncWrite \/ EncExit
  BY <1>2 DEF EncWait, EncSpuriousWake, EncWrite, EncExit
<1>3. CASE EncWriteFails
  BY <1>3 DEF EncWriteFails
<1>4. CASE EncRelease
  BY <1>4 DEF EncRelease, Released
<1>5. QED
  BY <1>1, <1>2, <1>3, <1>4 DEF Encoder

LEMMA MainTypes ==
  ASSUME TypeOK, Main \/ WaylandLost
  PROVE  TypeOK'
<1> USE DEF TypeOK, MainPcs, MainGoto, ringVars, srcVars, encVars, flagVars
<1>1. CASE LoopTop
  BY <1>1, PipeWireAssumption DEF LoopTop
<1>2. CASE StepSame
  BY <1>2 DEF StepSame
<1>3. CASE StepPause
  BY <1>3 DEF StepPause, RingStop, Woken
<1>4. CASE DrainDone
  BY <1>4 DEF DrainDone
<1>5. CASE StepResume
  BY <1>5 DEF StepResume
<1>6. CASE StepResumeFails
  BY <1>6 DEF StepResumeFails
<1>7. CASE SetStreamPaused
  BY <1>7 DEF SetStreamPaused
<1>8. CASE CaptureDue
  BY <1>8 DEF CaptureDue, mainVars
<1>9. CASE CaptureInterrupted
  BY <1>9 DEF CaptureInterrupted
<1>10. CASE LoopExit
  BY <1>10, PipeWireAssumption DEF LoopExit
<1>11. CASE FinishIdle
  BY <1>11 DEF FinishIdle
<1>12. CASE FinishStop
  BY <1>12 DEF FinishStop, RingStop, Woken
<1>13. CASE FinishJoin
  BY <1>13 DEF FinishJoin
<1>14. CASE Destroy
  BY <1>14 DEF Destroy
<1>15. CASE WaylandLost
  BY <1>15 DEF WaylandLost
<1>16. QED
  BY <1>1, <1>2, <1>3, <1>4, <1>5, <1>6, <1>7, <1>8, <1>9, <1>10, <1>11, <1>12, <1>13, <1>14, <1>15 DEF Main

LEMMA OtherTypes ==
  ASSUME TypeOK, UserStop \/ UserPause \/ StreamFails \/ Over \/ UNCHANGED vars
  PROVE  TypeOK'
<1> USE DEF TypeOK, ringVars, srcVars, encVars, mainVars, flagVars
<1>1. CASE UserStop
  BY <1>1 DEF UserStop
<1>2. CASE UserPause
  BY <1>2 DEF UserPause
<1>3. CASE StreamFails
  BY <1>3 DEF StreamFails
<1>4. CASE Over \/ UNCHANGED vars
  BY <1>4 DEF Over, vars
<1>5. QED
  BY <1>1, <1>2, <1>3, <1>4

-----------------------------------------------------------------------------
(* Control: where the three threads can be together.                       *)

\* What ring_pop hands out is a buffer.
LEMMA QueuedIsBuf ==
  ASSUME IInv, EncPop
  PROVE  slots[tail] \in Bufs
<1>1. tail \in Window
  BY WindowPop DEF IInv, EncPop
<1>2. mainPc # "gone"
  BY DEF IInv, EncPop, Control, MainKnowsEncoder
<1>3. QED
  BY <1>1, <1>2 DEF IInv, TypeOK, BufferHasOneHolder

LEMMA SrcControl ==
  ASSUME IInv, StreamFrame \/ SrcStep
  PROVE  Control'
<1> USE DEF IInv, TypeOK, Control, HandsMatchPc, MainKnowsEncoder, MainKnowsSource,
            FailuresBounded, EndedMeansEmpty, PauseLeavesNothingQueued, NoLostWakeup,
            RingEmpty, Bufs, NoBuf, MainGoto, ringVars, srcVars, encVars, mainVars, flagVars
<1>1. CASE StreamFrame
  BY <1>1 DEF StreamFrame
<1>2. CASE SrcDrop
  BY <1>2 DEF SrcDrop, SrcReturn
<1>3. CASE SrcAcquire
  BY <1>3 DEF SrcAcquire, FirstFree
<1>4. CASE CaptureFails
  BY <1>4, FailLimitAssumption DEF CaptureFails
<1>5. CASE SrcPush
  BY <1>5, FailLimitAssumption DEF SrcPush, RingPush, SrcReturn, Woken
<1>6. QED
  BY <1>1, <1>2, <1>3, <1>4, <1>5 DEF SrcStep

LEMMA EncControl ==
  ASSUME IInv, Encoder \/ EncSpuriousWake
  PROVE  Control'
<1> USE DEF IInv, TypeOK, Control, HandsMatchPc, MainKnowsEncoder, MainKnowsSource,
            FailuresBounded, EndedMeansEmpty, PauseLeavesNothingQueued, NoLostWakeup,
            RingEmpty, Bufs, NoBuf, MainGoto, ringVars, srcVars, encVars, mainVars, flagVars
<1>1. CASE EncPop
  BY <1>1, QueuedIsBuf DEF EncPop
<1>2. CASE EncWait
  BY <1>2 DEF EncWait
<1>3. CASE EncSpuriousWake
  BY <1>3 DEF EncSpuriousWake
<1>4. CASE EncWrite
  BY <1>4 DEF EncWrite
<1>5. CASE EncWriteFails
  BY <1>5 DEF EncWriteFails
<1>6. CASE EncRelease
  BY <1>6 DEF EncRelease
<1>7. CASE EncExit
  BY <1>7 DEF EncExit, EncStopSeen
<1>8. QED
  BY <1>1, <1>2, <1>3, <1>4, <1>5, <1>6, <1>7 DEF Encoder

LEMMA MainControl ==
  ASSUME IInv, Main \/ WaylandLost
  PROVE  Control'
<1> USE DEF IInv, TypeOK, Control, HandsMatchPc, MainKnowsEncoder, MainKnowsSource,
            FailuresBounded, EndedMeansEmpty, PauseLeavesNothingQueued, NoLostWakeup,
            RingEmpty, Bufs, NoBuf, MainGoto, ringVars, srcVars, encVars, mainVars, flagVars
<1>1. CASE LoopTop
  BY <1>1 DEF LoopTop
<1>2. CASE StepSame
  BY <1>2 DEF StepSame
<1>3. CASE StepPause
  BY <1>3 DEF StepPause, RingStop, Woken
<1>4. CASE DrainDone
  BY <1>4 DEF DrainDone
<1>5. CASE StepResume
  BY <1>5 DEF StepResume
<1>6. CASE StepResumeFails
  BY <1>6 DEF StepResumeFails
<1>7. CASE SetStreamPaused
  BY <1>7 DEF SetStreamPaused
<1>8. CASE CaptureDue
  BY <1>8 DEF CaptureDue
<1>9. CASE CaptureInterrupted
  BY <1>9 DEF CaptureInterrupted
<1>10. CASE LoopExit
  BY <1>10 DEF LoopExit
<1>11. CASE FinishIdle
  BY <1>11 DEF FinishIdle
<1>12. CASE FinishStop
  BY <1>12 DEF FinishStop, RingStop, Woken
<1>13. CASE FinishJoin
  BY <1>13 DEF FinishJoin
<1>14. CASE Destroy
  BY <1>14 DEF Destroy
<1>15. CASE WaylandLost
  BY <1>15 DEF WaylandLost
<1>16. QED
  BY <1>1, <1>2, <1>3, <1>4, <1>5, <1>6, <1>7, <1>8, <1>9, <1>10, <1>11, <1>12, <1>13, <1>14, <1>15 DEF Main

LEMMA OtherControl ==
  ASSUME IInv, UserStop \/ UserPause \/ StreamFails \/ Over \/ UNCHANGED vars
  PROVE  Control'
<1> USE DEF IInv, TypeOK, Control, HandsMatchPc, MainKnowsEncoder, MainKnowsSource,
            FailuresBounded, EndedMeansEmpty, PauseLeavesNothingQueued, NoLostWakeup,
            RingEmpty, Bufs, NoBuf, MainGoto, ringVars, srcVars, encVars, mainVars, flagVars
<1>1. CASE UserStop
  BY <1>1 DEF UserStop
<1>2. CASE UserPause
  BY <1>2 DEF UserPause
<1>3. CASE StreamFails
  BY <1>3 DEF StreamFails
<1>4. CASE Over \/ UNCHANGED vars
  BY <1>4 DEF Over, vars
<1>5. QED
  BY <1>1, <1>2, <1>3, <1>4

-----------------------------------------------------------------------------
(* Every buffer has one holder.                                            *)

\* Steps that move no frame.
LEMMA HolderUntouched ==
  ASSUME BufferHasOneHolder, UNCHANGED <<busy, slots, head, tail, srcBuf, encBuf>>,
         mainPc' # "gone" => mainPc # "gone"
  PROVE  BufferHasOneHolder'
BY WindowSame DEF BufferHasOneHolder

\* pool_try_acquire: the first free buffer was in nobody's hands.
LEMMA HolderAcquire ==
  ASSUME IInv, SrcAcquire
  PROVE  BufferHasOneHolder'
<1>1. Window' = Window /\ UNCHANGED <<slots, encBuf, mainPc>>
  BY WindowSame DEF SrcAcquire, ringVars, encVars, mainVars
<1>2. PICK b \in Bufs : ~busy[b] /\ srcBuf' = b /\ busy' = [busy EXCEPT ![b] = TRUE]
  BY DEF SrcAcquire, FirstFree
<1>3. srcBuf = NoBuf
  BY DEF SrcAcquire, IInv, Control, HandsMatchPc
<1>4. b # encBuf /\ \A i \in Window : slots[i] # b
  BY <1>2 DEF IInv, BufferHasOneHolder
<1>5. QED
  BY <1>1, <1>2, <1>3, <1>4 DEF IInv, TypeOK, BufferHasOneHolder, Bufs, NoBuf

\* A frame given back by a failed capture was in the source's hands only.
LEMMA HolderCaptureFails ==
  ASSUME IInv, CaptureFails
  PROVE  BufferHasOneHolder'
<1>1. Window' = Window /\ UNCHANGED <<slots, encBuf>> /\ mainPc' # "gone" /\ mainPc # "gone"
  BY WindowSame DEF CaptureFails, ringVars, encVars, IInv, Control, MainKnowsSource
<1>2. srcBuf # NoBuf /\ srcBuf' = NoBuf /\ busy' = [busy EXCEPT ![srcBuf] = FALSE]
  BY DEF CaptureFails, Released, IInv, Control, HandsMatchPc
<1>3. srcBuf # encBuf /\ \A i \in Window : slots[i] # srcBuf
  BY <1>1, <1>2 DEF IInv, BufferHasOneHolder
<1>4. QED
  BY <1>1, <1>2, <1>3 DEF IInv, TypeOK, BufferHasOneHolder, Bufs, NoBuf

\* The encoder gives back what only it held.
LEMMA HolderRelease ==
  ASSUME IInv, EncRelease
  PROVE  BufferHasOneHolder'
<1>1. Window' = Window /\ UNCHANGED <<slots, srcBuf, mainPc>> /\ mainPc # "gone"
  BY WindowSame
  DEF EncRelease, ringVars, srcVars, mainVars, IInv, Control, MainKnowsEncoder
<1>2. encBuf # NoBuf /\ encBuf' = NoBuf /\ busy' = [busy EXCEPT ![encBuf] = FALSE]
  BY DEF EncRelease, Released, IInv, Control, HandsMatchPc
<1>3. srcBuf # encBuf /\ \A i \in Window : slots[i] # encBuf
  BY <1>1, <1>2 DEF IInv, BufferHasOneHolder
<1>4. QED
  BY <1>1, <1>2, <1>3 DEF IInv, TypeOK, BufferHasOneHolder, Bufs, NoBuf

\* ring_pop moves the oldest frame from the ring to the encoder's hands.
LEMMA HolderPop ==
  ASSUME IInv, EncPop
  PROVE  BufferHasOneHolder'
<1>1. tail \in Window /\ Window' = Window \ {tail}
  BY WindowPop DEF IInv, EncPop
<1>2. encBuf = NoBuf /\ encBuf' = slots[tail] /\ UNCHANGED <<busy, slots, srcBuf, mainPc>>
  BY DEF EncPop, srcVars, mainVars, IInv, Control, HandsMatchPc
<1>3. slots[tail] \in Bufs
  BY QueuedIsBuf
<1>4. QED
  BY <1>1, <1>2, <1>3 DEF IInv, TypeOK, BufferHasOneHolder, Bufs, NoBuf

\* ring_push moves the source's frame to the ring; a full ring first gives its
\* oldest frame back to the pool.
LEMMA HolderPush ==
  ASSUME IInv, SrcPush
  PROVE  BufferHasOneHolder'
<1> DEFINE b == srcBuf
<1>1. b \in Bufs /\ srcBuf' = NoBuf /\ UNCHANGED encBuf
  BY DEF SrcPush, IInv, TypeOK, Control, HandsMatchPc
<1>2. mainPc # "gone"
  BY DEF SrcPush, IInv, Control, MainKnowsSource
<1>3. RingPush(b)
  BY DEF SrcPush
<1>4. b # encBuf /\ (\A i \in Window : slots[i] # b) /\ busy[b]
  BY <1>1, <1>2 DEF IInv, BufferHasOneHolder, NoBuf, Bufs
<1>5. Window \subseteq Index /\ head \notin Window /\ head \in Index
  BY WindowType DEF IInv, TypeOK
<1>6. CASE ~RingFull
  <2>1. Window' = Window \cup {head} /\ busy' = busy /\ slots' = [slots EXCEPT ![head] = b]
    BY <1>3, <1>6, WindowPush DEF RingPush, PushIndex, IInv
  <2>2. QED
    BY <1>1, <1>2, <1>4, <1>5, <2>1 DEF IInv, TypeOK, BufferHasOneHolder, Bufs, NoBuf
<1>7. CASE RingFull
  <2> DEFINE e == slots[tail]
  <2>1. tail \in Window /\ tail # head /\ Window' = (Window \ {tail}) \cup {head}
    BY <1>3, <1>7, WindowPushFull DEF RingPush, IInv
  <2>2. e \in Bufs /\ e # b /\ e # encBuf /\ \A i \in Window : i # tail => slots[i] # e
    BY <1>1, <1>2, <1>4, <1>5, <2>1 DEF IInv, TypeOK, BufferHasOneHolder
  <2>3. busy' = [busy EXCEPT ![e] = FALSE]
    BY <1>3, <1>7, <2>2 DEF RingPush, Released, NoBuf, Bufs
  <2>4. slots' \in [Index -> Bufs \cup {NoBuf}] /\ slots'[head] = b
        /\ \A i \in Window \ {tail} : slots'[i] = slots[i]
    BY <1>1, <1>3, <1>5, <1>7, <2>1 DEF RingPush, PushIndex, IInv, TypeOK
  <2>5. \A i \in Window' : slots'[i] = IF i = head THEN b ELSE slots[i]
    BY <2>1, <2>4
  <2>6. \A i \in Window' : slots'[i] # NoBuf /\ slots'[i] # encBuf /\ slots'[i] # e
    BY <1>1, <1>2, <1>4, <2>1, <2>2, <2>5 DEF IInv, BufferHasOneHolder, NoBuf, Bufs
  <2>7. \A i, j \in Window' : slots'[i] = slots'[j] => i = j
    BY <1>2, <1>4, <2>1, <2>5 DEF IInv, BufferHasOneHolder
  <2>8. ASSUME NEW c \in Bufs
        PROVE  busy'[c] <=> (c = encBuf \/ \E i \in Window' : slots'[i] = c)
    <3>1. busy[c] <=> (c \in {b, encBuf} \/ \E i \in Window : slots[i] = c)
      BY DEF IInv, BufferHasOneHolder
    <3>2. CASE c = e
      BY <2>2, <2>3, <2>6, <3>2 DEF IInv, TypeOK
    <3>3. CASE c # e
      <4>1. busy'[c] <=> busy[c]
        BY <2>3, <3>3 DEF IInv, TypeOK
      <4>2. (\E i \in Window' : slots'[i] = c) <=> (c = b \/ \E i \in Window : slots[i] = c)
        BY <1>5, <2>1, <2>5, <3>3
      <4>3. QED
        BY <3>1, <4>1, <4>2
    <3>4. QED
      BY <3>2, <3>3
  <2>9. QED
    BY <1>1, <2>6, <2>7, <2>8 DEF BufferHasOneHolder, Bufs, NoBuf
<1>8. QED
  BY <1>6, <1>7

\* ring_destroy gives back every queued frame; nobody holds any other.
LEMMA HolderDestroy ==
  ASSUME IInv, Destroy
  PROVE  BufferHasOneHolder'
<1>1. Window' = Window /\ UNCHANGED <<srcBuf, encBuf>> /\ mainPc' = "gone"
  BY WindowSame DEF Destroy, MainGoto, srcVars, encVars
<1>2. srcBuf = NoBuf /\ encBuf = NoBuf
  BY DEF Destroy, MainGoto, IInv, Control, HandsMatchPc, MainKnowsEncoder
<1>3. \A i \in Window' : slots'[i] = NoBuf
  BY <1>1, WindowType DEF Destroy, IInv
<1>4. ASSUME NEW b \in Bufs PROVE ~busy'[b]
  <2>1. busy'[b] <=> busy[b] /\ \A i \in Window : slots[i] # b
    BY DEF Destroy
  <2>2. busy[b] => \E i \in Window : slots[i] = b
    BY <1>2 DEF IInv, BufferHasOneHolder, Bufs, NoBuf
  <2>3. QED
    BY <2>1, <2>2
<1>5. QED
  BY <1>1, <1>2, <1>3, <1>4 DEF BufferHasOneHolder, Bufs, NoBuf

-----------------------------------------------------------------------------
(* The theorems.                                                           *)

LEMMA HolderNext ==
  ASSUME IInv, [Next]_vars
  PROVE  BufferHasOneHolder'
<1> USE DEF ringVars, srcVars, encVars, mainVars, flagVars, MainGoto
<1>1. BufferHasOneHolder
  BY DEF IInv
<1>2. CASE StreamFrame \/ SrcDrop
  <2>1. SrcDrop => mainPc # "gone"
    BY DEF SrcDrop, IInv, Control, MainKnowsSource
  <2>2. QED
    BY <1>1, <1>2, <2>1, HolderUntouched DEF StreamFrame, SrcDrop, SrcReturn
<1>3. CASE SrcAcquire \/ CaptureFails \/ SrcPush
  BY <1>3, HolderAcquire, HolderCaptureFails, HolderPush
<1>4. CASE EncPop \/ EncRelease
  BY <1>4, HolderPop, HolderRelease
<1>5. CASE EncWait \/ EncSpuriousWake \/ EncWrite \/ EncWriteFails \/ EncExit
  BY <1>1, <1>5, HolderUntouched
  DEF EncWait, EncSpuriousWake, EncWrite, EncWriteFails, EncExit
<1>6. CASE LoopTop \/ StepSame \/ StepPause \/ DrainDone \/ StepResume \/ StepResumeFails
  BY <1>1, <1>6, HolderUntouched
  DEF LoopTop, StepSame, StepPause, DrainDone, StepResume, StepResumeFails, RingStop
<1>7. CASE SetStreamPaused \/ CaptureDue \/ CaptureInterrupted \/ LoopExit \/ WaylandLost
  BY <1>1, <1>7, HolderUntouched
  DEF SetStreamPaused, CaptureDue, CaptureInterrupted, LoopExit, WaylandLost
<1>8. CASE FinishIdle \/ FinishStop \/ FinishJoin
  BY <1>1, <1>8, HolderUntouched DEF FinishIdle, FinishStop, FinishJoin, RingStop
<1>9. CASE Destroy
  BY <1>9, HolderDestroy
<1>10. CASE UserStop \/ UserPause \/ StreamFails \/ Over \/ UNCHANGED vars
  BY <1>1, <1>10, HolderUntouched DEF UserStop, UserPause, StreamFails, Over, vars
<1>11. QED
  BY <1>2, <1>3, <1>4, <1>5, <1>6, <1>7, <1>8, <1>9, <1>10 DEF Next, SrcStep, Encoder, Main

LEMMA NextIInv == IInv /\ [Next]_vars => IInv'
<1> SUFFICES ASSUME IInv, [Next]_vars PROVE IInv'
  OBVIOUS
<1>1. TypeOK'
  BY SrcTypes, EncTypes, MainTypes, OtherTypes DEF IInv, Next
<1>2. Control'
  BY SrcControl, EncControl, MainControl, OtherControl DEF Next
<1>3. QED
  BY <1>1, <1>2, HolderNext DEF IInv

THEOREM Inductive == Spec => []IInv
BY InitIInv, NextIInv, PTL DEF Spec

\* The ring, the pool, the counter of failures and the positions of the
\* threads stay in their types.
THEOREM Typing == Spec => []TypeOK
<1>1. IInv => TypeOK
  BY DEF IInv
<1>2. QED
  BY <1>1, Inductive, PTL

\* No pool buffer is ever in two hands or leaked (ring_push, ring_pop,
\* pool_try_acquire, frame_release), whatever the ring and pool sizes.
THEOREM OneHolder == Spec => []BufferHasOneHolder
<1>1. IInv => BufferHasOneHolder
  BY DEF IInv
<1>2. QED
  BY <1>1, Inductive, PTL

\* The encoder never sleeps with a frame queued or the ring stopped.
THEOREM NoWakeupLost == Spec => []NoLostWakeup
<1>1. IInv => NoLostWakeup
  BY DEF IInv, Control
<1>2. QED
  BY <1>1, Inductive, PTL

\* A pause of a wlr recording leaves no frame for the next segment.
THEOREM PauseDrains == Spec => []PauseLeavesNothingQueued
<1>1. IInv => PauseLeavesNothingQueued
  BY DEF IInv, Control, EndedMeansEmpty
<1>2. QED
  BY <1>1, Inductive, PTL

\* The loop has one encoder while it runs and none while it is paused.
THEOREM OneEncoder == Spec => []EncoderMatchesPause
<1>1. IInv => EncoderMatchesPause
  BY DEF IInv, Control, MainKnowsEncoder, EncoderMatchesPause
<1>2. QED
  BY <1>1, Inductive, PTL

-----------------------------------------------------------------------------
(* Where the k-th frame is.                                                *)

Entry(k) == IF tail + k - 1 < RingCap THEN tail + k - 1 ELSE tail + k - 1 - RingCap

\* The remainder takes at most one turn of the ring off.
LEMMA OneTurn ==
  ASSUME TypeOK, NEW k \in 1 .. RingCap
  PROVE  Entry(k) = (tail + k - 1) % RingCap /\ Entry(k) \in Index
<1> USE RingCapAssumption DEF TypeOK, Index
<1>1. tail + k - 1 \in 0 .. 2 * RingCap - 1
  OBVIOUS
<1>2. CASE tail + k - 1 < RingCap
  BY <1>1, <1>2 DEF Entry
<1>3. CASE tail + k - 1 >= RingCap
  BY <1>1, <1>3 DEF Entry
<1> QED
  BY <1>1, <1>2, <1>3

LEMMA LenType ==
  ASSUME TypeOK
  PROVE  QueueLen \in 0 .. RingCap - 1
BY RingCapAssumption DEF TypeOK, QueueLen, Index

\* The k-th of the queue, counted from the oldest.
LEMMA QueuedAt ==
  ASSUME TypeOK, mainPc # "gone"
  PROVE  /\ Queued = [k \in 1 .. QueueLen |-> slots[Entry(k)]]
         /\ Queued \in Seq(Bufs \cup {NoBuf}) /\ Len(Queued) = QueueLen
<1>1. \A k \in 1 .. QueueLen : k \in 1 .. RingCap
  BY LenType, RingCapAssumption
<1>2. \A k \in 1 .. QueueLen : Entry(k) = (tail + k - 1) % RingCap /\ Entry(k) \in Index
  BY <1>1, OneTurn
<1>3. Queued = [k \in 1 .. QueueLen |-> slots[Entry(k)]]
  BY <1>2 DEF Queued
<1>4. \A k \in 1 .. QueueLen : slots[Entry(k)] \in Bufs \cup {NoBuf}
  BY <1>2 DEF TypeOK
<1>5. Queued \in [1 .. QueueLen -> Bufs \cup {NoBuf}]
  BY <1>3, <1>4
<1> QED
  BY <1>3, <1>5, LenType, RingCapAssumption
LEMMA QueuedAtNext ==
  (TypeOK /\ mainPc # "gone")' => Queued' = [k \in 1 .. QueueLen' |-> slots'[Entry(k)']]
<1>1. TypeOK /\ mainPc # "gone" => Queued = [k \in 1 .. QueueLen |-> slots[Entry(k)]]
  BY QueuedAt
<1>2. (TypeOK /\ mainPc # "gone" => Queued = [k \in 1 .. QueueLen |-> slots[Entry(k)]])'
  BY <1>1, PTL
<1> QED
  BY <1>2

-----------------------------------------------------------------------------
(* The steps of the ring.                                                  *)

\* Nothing the queue is made of changes.
LEMMA QueueUntouched ==
  ASSUME UNCHANGED <<slots, head, tail>>, mainPc' = "gone" <=> mainPc = "gone"
  PROVE  Queued' = Queued
BY DEF Queued, QueueLen

\* ring_pop takes the oldest.
LEMMA QueuePop ==
  ASSUME TypeOK, mainPc # "gone", ~RingEmpty,
         UNCHANGED <<mainPc, slots, head>>, tail' = NextIndex(tail), TypeOK'
  PROVE  Queued # <<>> /\ Head(Queued) = slots[tail] /\ Queued' = Tail(Queued)
<1> USE RingCapAssumption
<1>1. QueueLen' = QueueLen - 1 /\ QueueLen \in 1 .. RingCap - 1
  BY DEF TypeOK, QueueLen, Index, RingEmpty, NextIndex
<1>2. Queued = [k \in 1 .. QueueLen |-> slots[Entry(k)]] /\ Len(Queued) = QueueLen
  BY QueuedAt
<1>3. Queued' = [k \in 1 .. QueueLen' |-> slots'[Entry(k)']]
  BY QueuedAtNext
<1>4. \A k \in 1 .. QueueLen - 1 : Entry(k)' = Entry(k + 1)
  BY <1>1 DEF Entry, NextIndex, TypeOK, Index
<1>5. Entry(1) = tail
  BY DEF Entry, TypeOK, Index
<1>6. Queued # <<>> /\ Head(Queued) = slots[tail]
  BY <1>1, <1>2, <1>5
<1>7. Tail(Queued) = [k \in 1 .. QueueLen - 1 |-> slots[Entry(k + 1)]]
  BY <1>1, <1>2
<1> QED
  BY <1>1, <1>3, <1>4, <1>6, <1>7

\* ring_push puts the new frame last ...
LEMMA QueuePush ==
  ASSUME TypeOK, TypeOK', mainPc # "gone", mainPc' # "gone", NEW b \in Bufs, RingPush(b), ~RingFull
  PROVE  Len(Queued) < RingCap - 1 /\ Queued' = Append(Queued, b)
<1> USE RingCapAssumption
<1>1. QueueLen' = QueueLen + 1 /\ QueueLen \in 0 .. RingCap - 2
  BY DEF RingPush, TypeOK, QueueLen, Index, RingFull, NextIndex
<1>2. Queued = [k \in 1 .. QueueLen |-> slots[Entry(k)]] /\ Len(Queued) = QueueLen
  BY QueuedAt
<1>3. Queued' = [k \in 1 .. QueueLen' |-> slots'[Entry(k)']]
  BY QueuedAtNext
<1>4. \A k \in 1 .. QueueLen : Entry(k)' = Entry(k) /\ Entry(k) \in Index \ {head}
  BY <1>1 DEF Entry, RingPush, TypeOK, Index, QueueLen
<1>5. Entry(QueueLen)' = head
  BY <1>1 DEF Entry, RingPush, TypeOK, Index, QueueLen
<1>6. slots' = [slots EXCEPT ![head] = b]
  BY DEF RingPush, PushIndex
<1>7. \A k \in 1 .. QueueLen + 1 : slots'[Entry(k)'] = IF k = QueueLen + 1 THEN b ELSE slots[Entry(k)]
  BY <1>1, <1>4, <1>5, <1>6 DEF TypeOK
<1>8. Append(Queued, b) = [k \in 1 .. QueueLen + 1 |-> IF k = QueueLen + 1 THEN b ELSE slots[Entry(k)]]
  BY <1>1, <1>2
<1> QED
  BY <1>1, <1>2, <1>3, <1>7, <1>8

\* ... and pushes the oldest out of a full ring.
LEMMA QueuePushFull ==
  ASSUME TypeOK, TypeOK', mainPc # "gone", mainPc' # "gone", NEW b \in Bufs, RingPush(b), RingFull
  PROVE  Len(Queued) = RingCap - 1 /\ Queued' = Append(Tail(Queued), b)
<1> USE RingCapAssumption
<1>1. QueueLen' = QueueLen /\ QueueLen = RingCap - 1
  BY DEF RingPush, TypeOK, QueueLen, Index, RingFull, NextIndex
<1>2. Queued = [k \in 1 .. QueueLen |-> slots[Entry(k)]] /\ Len(Queued) = QueueLen
  BY QueuedAt
<1>3. Queued' = [k \in 1 .. QueueLen' |-> slots'[Entry(k)']]
  BY QueuedAtNext
<1>4. \A k \in 1 .. QueueLen - 1 : Entry(k)' = Entry(k + 1) /\ Entry(k + 1) \in Index \ {head, tail}
  BY <1>1 DEF Entry, RingPush, TypeOK, Index, RingFull, NextIndex
<1>5. Entry(QueueLen)' = head
  BY <1>1 DEF Entry, RingPush, TypeOK, Index, RingFull, NextIndex
<1>6. slots' = [slots EXCEPT ![tail] = NoBuf, ![head] = b]
  BY DEF RingPush, PushIndex
<1>7. \A k \in 1 .. QueueLen : slots'[Entry(k)'] = IF k = QueueLen THEN b ELSE slots[Entry(k + 1)]
  BY <1>1, <1>4, <1>5, <1>6 DEF TypeOK
<1>8. Append(Tail(Queued), b) = [k \in 1 .. QueueLen |-> IF k = QueueLen THEN b ELSE slots[Entry(k + 1)]]
  <2> DEFINE Rest == Tail(Queued)
             n    == QueueLen - 1
  <2>1. n \in Nat /\ n + 1 = QueueLen
    BY <1>1
  <2>2. Rest = [k \in 1 .. n |-> slots[Entry(k + 1)]] /\ Len(Rest) = n
    BY <1>1, <1>2
  <2> HIDE DEF Rest, n
  <2>3. Append(Rest, b) = [k \in 1 .. n + 1 |-> IF k = n + 1 THEN b ELSE slots[Entry(k + 1)]]
    BY <2>1, <2>2
  <2> QED
    BY <2>1, <2>3 DEF Rest
<1> QED
  BY <1>1, <1>2, <1>3, <1>7, <1>8

-----------------------------------------------------------------------------
(* The refinement.                                                         *)

QueueEnded == encPc \in {"done", "off"}

LEMMA InitRefines == Init => Queue!Init
<1> SUFFICES ASSUME Init PROVE Queue!Init
  OBVIOUS
<1>1. QueueLen = 0
  BY DEF Init, QueueLen
<1>2. Queued = <<>>
  BY <1>1 DEF Init, Queued
<1> QED
  BY <1>2 DEF Init, Queue!Init

\* A step that leaves the ring, the encoder's frame and its end alone.
LEMMA Stutters ==
  ASSUME UNCHANGED <<slots, head, tail, stopped, encBuf>>, mainPc' = "gone" <=> mainPc = "gone",
         QueueEnded' <=> QueueEnded
  PROVE  UNCHANGED Queue!qvars
BY QueueUntouched DEF Queue!qvars, QueueEnded

LEMMA SrcRefines ==
  ASSUME IInv, TypeOK', StreamFrame \/ SrcStep
  PROVE  [Queue!Next]_Queue!qvars
<1> USE DEF IInv, Control
<1>1. CASE StreamFrame \/ SrcAcquire
  <2>1. UNCHANGED <<slots, head, tail, stopped, encBuf, mainPc, encPc>>
    BY <1>1 DEF StreamFrame, SrcAcquire, ringVars, encVars, mainVars
  <2> QED
    BY <2>1, Stutters DEF QueueEnded
<1>2. CASE SrcDrop
  <2>1. UNCHANGED <<slots, head, tail, stopped, encBuf, encPc>> /\ mainPc # "gone" /\ mainPc' # "gone"
    BY <1>2 DEF SrcDrop, SrcReturn, MainKnowsSource, ringVars, encVars
  <2> QED
    BY <2>1, Stutters DEF QueueEnded
<1>3. CASE CaptureFails
  <2>1. UNCHANGED <<slots, head, tail, stopped, encBuf, encPc>> /\ mainPc # "gone" /\ mainPc' # "gone"
    BY <1>3 DEF CaptureFails, MainKnowsSource, ringVars, encVars
  <2> QED
    BY <2>1, Stutters DEF QueueEnded
<1>4. CASE SrcPush
  <2>1. srcBuf \in Bufs /\ RingPush(srcBuf) /\ mainPc # "gone" /\ mainPc' # "gone"
    BY <1>4 DEF SrcPush, SrcReturn, MainKnowsSource, HandsMatchPc, TypeOK
  <2>2. UNCHANGED <<stopped, encBuf>> /\ (QueueEnded' <=> QueueEnded)
    BY <1>4 DEF SrcPush, RingPush, Woken, QueueEnded
  <2>3. Queued' = IF Len(Queued) < RingCap - 1 THEN Append(Queued, srcBuf)
                                              ELSE Append(Tail(Queued), srcBuf)
    <3>1. CASE RingFull
      BY <2>1, <3>1, QueuePushFull, RingCapAssumption
    <3>2. CASE ~RingFull
      BY <2>1, <3>2, QueuePush
    <3> QED
      BY <3>1, <3>2
  <2>4. Queue!Put(srcBuf)
    BY <2>2, <2>3 DEF Queue!Put, QueueEnded
  <2> QED
    BY <2>1, <2>4 DEF Queue!Next
<1> QED
  BY <1>1, <1>2, <1>3, <1>4 DEF SrcStep

LEMMA EncRefines ==
  ASSUME IInv, TypeOK', Encoder \/ EncSpuriousWake
  PROVE  [Queue!Next]_Queue!qvars
<1> USE DEF IInv, Control
<1>1. CASE EncPop
  <2>1. encPc = "pop" /\ encPc' = "write" /\ ~RingEmpty /\ encBuf' = slots[tail] /\ tail' = NextIndex(tail)
        /\ UNCHANGED <<slots, head, stopped, mainPc>>
    BY <1>1 DEF EncPop, mainVars
  <2>2. encBuf = NoBuf /\ mainPc # "gone"
    BY <2>1 DEF HandsMatchPc, MainKnowsEncoder
  <2>3. Queued # <<>> /\ Head(Queued) = slots[tail] /\ Queued' = Tail(Queued)
    BY <2>1, <2>2, QueuePop
  <2> QED
    BY <2>1, <2>2, <2>3 DEF Queue!Next, Queue!Take
<1>2. CASE EncWait \/ EncSpuriousWake \/ EncWrite \/ EncWriteFails
  <2>1. UNCHANGED <<slots, head, tail, stopped, encBuf, mainPc>> /\ (QueueEnded' <=> QueueEnded)
    BY <1>2 DEF EncWait, EncSpuriousWake, EncWrite, EncWriteFails, ringVars, mainVars, QueueEnded
  <2> QED
    BY <2>1, Stutters
<1>3. CASE EncRelease
  <2>1. UNCHANGED <<slots, head, tail, stopped, mainPc>> /\ encPc = "release" /\ encPc' = "pop" /\ encBuf' = NoBuf
    BY <1>3 DEF EncRelease, ringVars, mainVars
  <2>2. Queued' = Queued /\ encBuf # NoBuf
    BY <2>1, QueueUntouched DEF HandsMatchPc
  <2> QED
    BY <2>1, <2>2 DEF Queue!Next, Queue!Return
<1>4. CASE EncExit
  <2>1. UNCHANGED <<slots, head, tail, stopped, mainPc, encBuf>> /\ encPc = "pop" /\ encPc' = "done"
        /\ RingEmpty /\ stopped
    BY <1>4 DEF EncExit, EncStopSeen, ringVars, mainVars
  <2>2. encBuf = NoBuf /\ mainPc # "gone"
    BY <2>1 DEF HandsMatchPc, MainKnowsEncoder
  <2>3. Queued = <<>> /\ Queued' = Queued
    <3>1. QueueLen = 0
      BY <2>1 DEF RingEmpty, QueueLen, TypeOK, Index
    <3> QED
      BY <2>1, <2>2, <3>1, QueuedAt, QueueUntouched
  <2> QED
    BY <2>1, <2>2, <2>3 DEF Queue!Next, Queue!End
<1> QED
  BY <1>1, <1>2, <1>3, <1>4 DEF Encoder

LEMMA MainRefines ==
  ASSUME IInv, TypeOK', Main \/ WaylandLost
  PROVE  [Queue!Next]_Queue!qvars
<1> USE DEF IInv, Control, MainGoto
<1>1. CASE LoopTop \/ StepSame \/ StepResumeFails \/ SetStreamPaused \/ CaptureDue \/ CaptureInterrupted
           \/ LoopExit \/ FinishIdle \/ WaylandLost
  <2>1. UNCHANGED <<slots, head, tail, stopped, encBuf, encPc>> /\ mainPc # "gone" /\ mainPc' # "gone"
    BY <1>1 DEF LoopTop, StepSame, StepResumeFails, SetStreamPaused, CaptureDue, CaptureInterrupted,
                LoopExit, FinishIdle, WaylandLost, ringVars, encVars, mainVars
  <2> QED
    BY <2>1, Stutters DEF QueueEnded
<1>2. CASE DrainDone \/ FinishJoin
  <2>1. UNCHANGED <<slots, head, tail, stopped, encBuf>> /\ mainPc # "gone" /\ mainPc' # "gone"
        /\ (QueueEnded' <=> QueueEnded)
    BY <1>2 DEF DrainDone, FinishJoin, ringVars, QueueEnded
  <2> QED
    BY <2>1, Stutters
<1>3. CASE StepPause \/ FinishStop
  <2>1. UNCHANGED <<slots, head, tail, encBuf>> /\ stopped' = TRUE /\ mainPc # "gone" /\ mainPc' # "gone"
        /\ (QueueEnded' <=> QueueEnded)
    BY <1>3 DEF StepPause, FinishStop, RingStop, Woken, QueueEnded
  <2>2. Queue!Close
    BY <2>1, QueueUntouched DEF Queue!Close, QueueEnded
  <2> QED
    BY <2>2 DEF Queue!Next
<1>4. CASE StepResume
  <2>1. UNCHANGED <<slots, head, tail, encBuf>> /\ stopped' = FALSE /\ mainPc # "gone" /\ mainPc' # "gone"
        /\ encPc' = "pop"
    BY <1>4 DEF StepResume
  <2>2. encPc = "off"
    BY <1>4 DEF StepResume, MainKnowsEncoder
  <2>3. Queue!Reopen
    BY <2>1, <2>2, QueueUntouched DEF Queue!Reopen
  <2> QED
    BY <2>3 DEF Queue!Next
<1>5. CASE Destroy
  <2>1. UNCHANGED <<stopped, encBuf, encPc>> /\ mainPc = "done" /\ mainPc' = "gone"
    BY <1>5 DEF Destroy, encVars
  <2>2. encPc = "off" /\ Queued' = <<>>
    BY <2>1 DEF MainKnowsEncoder, Queued
  <2>3. Queue!Discard
    BY <2>1, <2>2 DEF Queue!Discard
  <2> QED
    BY <2>3 DEF Queue!Next
<1> QED
  BY <1>1, <1>2, <1>3, <1>4, <1>5 DEF Main

\* ring.c under its threads is a drop-oldest queue: the circular buffer never
\* reorders, duplicates or loses a frame other than the oldest of a full ring,
\* and the encoder of a segment ends only after the last frame queued for it.
THEOREM RingIsAQueue == Spec => ImplementsQueue
<1>1. Init => Queue!Init
  BY InitRefines
<1>2. IInv /\ IInv' /\ [Next]_vars => [Queue!Next]_Queue!qvars
  <2> SUFFICES ASSUME IInv, TypeOK', [Next]_vars
               PROVE  [Queue!Next]_Queue!qvars
    BY DEF IInv
  <2>1. CASE UserStop \/ UserPause \/ StreamFails \/ Over \/ UNCHANGED vars
    <3>1. UNCHANGED <<slots, head, tail, stopped, encBuf, encPc, mainPc>>
      BY <2>1 DEF UserStop, UserPause, StreamFails, Over, vars, ringVars, encVars, mainVars
    <3> QED
      BY <3>1, Stutters DEF QueueEnded
  <2> QED
    BY <2>1, SrcRefines, EncRefines, MainRefines DEF Next
<1> QED
  BY <1>1, <1>2, Inductive, PTL DEF Spec, ImplementsQueue, Queue!Spec

=============================================================================
