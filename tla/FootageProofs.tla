----------------------------- MODULE FootageProofs -----------------------------
(***************************************************************************)
(* The frames of a recording, for every ring, pool, rate, stream and bound: *)
(* the accounting and the order of the captures, when they are taken, the   *)
(* cast they come from, and the controls that the loop moves beside them.   *)
(***************************************************************************)
EXTENDS Footage, FrameRingProofs

\* What moving an end of the ring does to the number of queued frames.
LEMMA RingLenPop ==
  ASSUME TypeOK, ~RingEmpty, head' = head, tail' = NextIndex(tail)
  PROVE  RingLen' = RingLen - 1 /\ RingLen \in Nat
BY RingCapAssumption DEF TypeOK, RingLen, Index, RingEmpty, NextIndex

LEMMA RingLenPush ==
  ASSUME TypeOK, ~RingFull, head' = NextIndex(head), tail' = tail
  PROVE  RingLen' = RingLen + 1 /\ RingLen \in Nat
BY RingCapAssumption DEF TypeOK, RingLen, Index, RingFull, NextIndex

LEMMA RingLenPushFull ==
  ASSUME TypeOK, RingFull, head' = NextIndex(head), tail' = NextIndex(tail)
  PROVE  RingLen' = RingLen /\ RingLen \in Nat
BY RingCapAssumption DEF TypeOK, RingLen, Index, RingFull, NextIndex

LEMMA RingLenSame ==
  ASSUME UNCHANGED <<head, tail>>
  PROVE  RingLen' = RingLen
BY DEF RingLen

LEMMA RingLenType ==
  ASSUME TypeOK
  PROVE  RingLen \in Nat
BY RingCapAssumption DEF TypeOK, RingLen, Index

-----------------------------------------------------------------------------
\* The history only watches: its steps are steps of the threads.
LEMMA StepIsNext == [TraceNext]_allVars => [Next]_vars
<1> SUFFICES ASSUME [TraceNext]_allVars PROVE [Next]_vars
  OBVIOUS
<1>1. CASE TraceDrop \/ TraceAcquire \/ TraceCaptureFails \/ TracePush
  BY <1>1 DEF TraceDrop, TraceAcquire, TraceCaptureFails, TracePush, Next, SrcStep
<1>2. CASE TracePop \/ TraceResume
  BY <1>2 DEF TracePop, TraceResume, Next, Encoder, Main
<1>3. CASE TraceOther
  BY <1>3 DEF TraceOther, Next, Encoder, Main
<1>4. CASE UNCHANGED allVars
  BY <1>4 DEF allVars
<1>5. QED
  BY <1>1, <1>2, <1>3, <1>4 DEF TraceNext

Counters == attempts \in Nat /\ failures \in Nat /\ popped \in Nat /\ dropped \in Nat

TInv == IInv /\ Counters /\ EveryAttemptAccounted

LEMMA InitTInv == TraceInit => TInv
<1> SUFFICES ASSUME TraceInit PROVE TInv
  OBVIOUS
<1>1. IInv
  BY InitIInv DEF TraceInit
<1>2. RingLen = 0 /\ InFlight = 0
  BY DEF TraceInit, Init, RingLen, InFlight
<1>3. QED
  BY <1>1, <1>2 DEF TraceInit, TInv, Counters, EveryAttemptAccounted

\* A step that moves neither an end of the ring nor the source's frame.
LEMMA AccountUntouched ==
  ASSUME EveryAttemptAccounted,
         UNCHANGED <<head, tail, srcBuf, attempts, failures, popped, dropped>>
  PROVE  EveryAttemptAccounted'
BY RingLenSame DEF EveryAttemptAccounted, InFlight

LEMMA AccountNext ==
  ASSUME TInv, [TraceNext]_allVars
  PROVE  Counters' /\ EveryAttemptAccounted'
<1> USE DEF TInv, Counters, IInv
<1>1. RingLen \in Nat /\ InFlight \in Nat
  BY RingLenType DEF InFlight
<1>2. CASE TraceDrop
  <2>1. RingLen' = RingLen /\ InFlight' = InFlight
    BY <1>2, RingLenSame DEF TraceDrop, SrcDrop, ringVars, InFlight
  <2>2. attempts' = attempts + 1 /\ dropped' = dropped + 1 /\ UNCHANGED <<failures, popped>>
    BY <1>2 DEF TraceDrop
  <2>3. QED
    BY <1>1, <2>1, <2>2 DEF EveryAttemptAccounted
<1>3. CASE TraceAcquire
  <2>1. RingLen' = RingLen /\ InFlight = 0 /\ InFlight' = 1
    BY <1>3, RingLenSame
    DEF TraceAcquire, SrcAcquire, ringVars, InFlight, Control, HandsMatchPc, Bufs, NoBuf
  <2>2. attempts' = attempts + 1 /\ UNCHANGED <<failures, popped, dropped>>
    BY <1>3 DEF TraceAcquire
  <2>3. QED
    BY <1>1, <2>1, <2>2 DEF EveryAttemptAccounted
<1>4. CASE TraceCaptureFails
  <2>1. RingLen' = RingLen /\ InFlight = 1 /\ InFlight' = 0
    BY <1>4, RingLenSame
    DEF TraceCaptureFails, CaptureFails, ringVars, InFlight, Control, HandsMatchPc
  <2>2. failures' = failures + 1 /\ UNCHANGED <<attempts, popped, dropped>>
    BY <1>4 DEF TraceCaptureFails
  <2>3. QED
    BY <1>1, <2>1, <2>2 DEF EveryAttemptAccounted
<1>5. CASE TracePush
  <2>1. InFlight = 1 /\ InFlight' = 0
    BY <1>5 DEF TracePush, SrcPush, InFlight, Control, HandsMatchPc
  <2>2. dropped' = dropped + EvictCount /\ UNCHANGED <<attempts, failures, popped>>
    BY <1>5 DEF TracePush
  <2>3. RingPush(srcBuf)
    BY <1>5 DEF TracePush, SrcPush
  <2>4. RingLen' \in Nat /\ EvictCount \in Nat /\ RingLen' = RingLen + 1 - EvictCount
    <3>1. CASE RingFull
      BY <1>1, <2>3, <3>1, RingLenPushFull DEF RingPush, EvictCount
    <3>2. CASE ~RingFull
      BY <1>1, <2>3, <3>2, RingLenPush DEF RingPush, EvictCount
    <3>3. QED
      BY <3>1, <3>2
  <2>5. QED
    BY <1>1, <2>1, <2>2, <2>4 DEF EveryAttemptAccounted
<1>6. CASE TracePop
  <2>1. InFlight' = InFlight /\ RingLen' = RingLen - 1
    BY <1>6, RingLenPop DEF TracePop, EncPop, srcVars, InFlight
  <2>2. popped' = popped + 1 /\ UNCHANGED <<attempts, failures, dropped>>
    BY <1>6 DEF TracePop
  <2>3. QED
    BY <1>1, <2>1, <2>2 DEF EveryAttemptAccounted
<1>7. CASE TraceResume
  BY <1>7, AccountUntouched DEF TraceResume, StepResume, srcVars
<1>8. CASE TraceOther
  <2>1. UNCHANGED <<attempts, failures, popped, dropped>>
    BY <1>8 DEF TraceOther, history
  <2>2. UNCHANGED <<head, tail, srcBuf>>
    BY <1>8
    DEF TraceOther, StreamFrame, EncWait, EncWrite, EncWriteFails, EncRelease, EncExit,
        LoopTop, StepSame, StepPause, DrainDone, StepResumeFails, SetStreamPaused,
        CaptureDue, CaptureInterrupted, LoopExit, FinishIdle, FinishStop, FinishJoin,
        Destroy, WaylandLost, EncSpuriousWake, UserStop, UserPause, StreamFails, Over,
        RingStop, vars, ringVars, srcVars
  <2>3. QED
    BY <2>1, <2>2, AccountUntouched
<1>9. CASE UNCHANGED allVars
  BY <1>9, AccountUntouched DEF allVars, vars, ringVars, srcVars, history
<1>10. QED
  BY <1>2, <1>3, <1>4, <1>5, <1>6, <1>7, <1>8, <1>9 DEF TraceNext

-----------------------------------------------------------------------------
(* What is stamped on a frame: the order of the captures, and the clock.   *)

CapTags == [seq : Nat, seg : Nat, late : BOOLEAN]

TagTypes ==
  /\ segment \in Nat /\ lastOut \in Nat
  /\ tags \in [Index -> CapTags] /\ srcTag \in CapTags /\ encTag \in CapTags

\* The number of queued frames that are popped before the one at i.
Turn(i) == IF i >= tail THEN i - tail ELSE i + RingCap - tail

\* Nothing that waits is older than what was popped, and the older of two
\* frames leaves first; what is in the source's hands is newest of all.
Order ==
  /\ lastOut <= attempts
  /\ \A i \in Window : lastOut < tags[i].seq /\ tags[i].seq <= attempts
  /\ \A i, j \in Window : Turn(i) < Turn(j) => tags[i].seq < tags[j].seq
  /\ srcPc = "push" =>
       /\ lastOut < srcTag.seq /\ srcTag.seq <= attempts
       /\ \A i \in Window : tags[i].seq < srcTag.seq

\* The wlr source captures in the loop, so never while the clock stands still.
NoneLate ==
  ~PipeWire => ~srcTag.late /\ ~encTag.late /\ \A i \in Index : ~tags[i].late

FrameInv == TInv /\ TagTypes /\ Order /\ NoneLate

\* What moving an end of the ring does to the turns.
LEMMA TurnPop ==
  ASSUME TypeOK, ~RingEmpty, head' = head, tail' = NextIndex(tail)
  PROVE  \A i \in Window \ {tail} : /\ Turn(tail) < Turn(i)
                                    /\ Turn(i)' = Turn(i) - 1 /\ Turn(i) \in Nat
BY RingCapAssumption DEF TypeOK, Window, Index, RingEmpty, NextIndex, Turn

LEMMA TurnPush ==
  ASSUME NEW h, h = head, TypeOK, ~RingFull, head' = NextIndex(head), tail' = tail
  PROVE  \A i \in Window : /\ Turn(i)' < Turn(h)' /\ ~(Turn(h)' < Turn(i)')
                           /\ Turn(i)' = Turn(i)
BY RingCapAssumption DEF TypeOK, Window, Index, RingFull, NextIndex, Turn

LEMMA TurnPushFull ==
  ASSUME NEW h, h = head, TypeOK, RingFull, head' = NextIndex(head), tail' = NextIndex(tail)
  PROVE  \A i \in Window \ {tail} :
           /\ Turn(i)' < Turn(h)' /\ ~(Turn(h)' < Turn(i)')
           /\ Turn(i)' = Turn(i) - 1 /\ Turn(i) \in Nat
BY RingCapAssumption DEF TypeOK, Window, Index, RingFull, NextIndex, Turn

LEMMA InitFrameInv == TraceInit => FrameInv
<1> SUFFICES ASSUME TraceInit PROVE FrameInv
  OBVIOUS
<1>1. TInv /\ Window = {}
  BY InitTInv DEF TraceInit, Init, Window
<1>2. TagTypes
  BY DEF TraceInit, TagTypes, CapTags, NoTag
<1>3. Order
  BY <1>1 DEF TraceInit, Init, Order
<1>4. NoneLate
  BY DEF TraceInit, NoneLate, NoTag
<1>5. QED
  BY <1>1, <1>2, <1>3, <1>4 DEF FrameInv

\* What the steps that touch neither a frame nor a counter leave as it is.
LEMMA OtherKeeps ==
  ASSUME TraceOther \/ UNCHANGED allVars
  PROVE  UNCHANGED <<head, tail, history>> /\ (srcPc' = "push" => srcPc = "push")
<1>1. CASE TraceOther
  BY <1>1
  DEF TraceOther, StreamFrame, EncWait, EncWrite, EncWriteFails, EncRelease, EncExit,
      LoopTop, StepSame, StepPause, DrainDone, StepResumeFails, SetStreamPaused,
      CaptureDue, CaptureInterrupted, LoopExit, FinishIdle, FinishStop, FinishJoin,
      Destroy, WaylandLost, EncSpuriousWake, UserStop, UserPause, StreamFails, Over,
      RingStop, vars, ringVars, srcVars
<1>2. CASE UNCHANGED allVars
  BY <1>2 DEF allVars, vars, ringVars, srcVars
<1>3. QED
  BY <1>1, <1>2

LEMMA TagTypesNext ==
  ASSUME FrameInv, [TraceNext]_allVars
  PROVE  TagTypes'
<1> USE DEF FrameInv, TagTypes
<1>1. attempts \in Nat /\ paused \in BOOLEAN /\ head \in Index /\ tail \in Index
  BY DEF TInv, Counters, IInv, TypeOK
<1>2. CASE TraceDrop
  BY <1>2 DEF TraceDrop
<1>3. CASE TraceAcquire
  BY <1>1, <1>3 DEF TraceAcquire, CapTags, Tag
<1>4. CASE TraceCaptureFails
  BY <1>4 DEF TraceCaptureFails, CapTags, NoTag
<1>5. CASE TracePush
  BY <1>1, <1>5 DEF TracePush, CapTags, NoTag, PushIndex
<1>6. CASE TracePop
  BY <1>1, <1>6 DEF TracePop, CapTags
<1>7. CASE TraceResume
  BY <1>7 DEF TraceResume
<1>8. CASE TraceOther \/ UNCHANGED allVars
  BY <1>8, OtherKeeps DEF history
<1>9. QED
  BY <1>2, <1>3, <1>4, <1>5, <1>6, <1>7, <1>8 DEF TraceNext

LEMMA NoneLateNext ==
  ASSUME FrameInv, [TraceNext]_allVars
  PROVE  NoneLate'
<1> USE DEF FrameInv, NoneLate
<1> SUFFICES ASSUME ~PipeWire
             PROVE  ~srcTag'.late /\ ~encTag'.late /\ \A i \in Index : ~tags'[i].late
  OBVIOUS
<1>1. head \in Index /\ tail \in Index /\ tags \in [Index -> CapTags]
  BY DEF TInv, IInv, TypeOK, TagTypes
<1>2. CASE TraceDrop
  BY <1>2 DEF TraceDrop
<1>3. CASE TraceAcquire
  <2>1. ~paused
    BY <1>3 DEF TraceAcquire, SrcAcquire, TInv, IInv, Control, MainKnowsSource, MainKnowsEncoder
  <2>2. QED
    BY <1>3, <2>1 DEF TraceAcquire, Tag
<1>4. CASE TraceCaptureFails
  BY <1>4 DEF TraceCaptureFails, NoTag
<1>5. CASE TracePush
  BY <1>1, <1>5 DEF TracePush, NoTag, PushIndex
<1>6. CASE TracePop
  BY <1>1, <1>6 DEF TracePop
<1>7. CASE TraceResume
  BY <1>7 DEF TraceResume
<1>8. CASE TraceOther \/ UNCHANGED allVars
  BY <1>8, OtherKeeps DEF history
<1>9. QED
  BY <1>2, <1>3, <1>4, <1>5, <1>6, <1>7, <1>8 DEF TraceNext

\* Steps that move no frame and take no capture.
LEMMA OrderUntouched ==
  ASSUME Order, UNCHANGED <<head, tail, attempts, tags, srcTag, lastOut>>,
         srcPc' = "push" => srcPc = "push"
  PROVE  Order'
<1>1. Window' = Window /\ \A i \in Window : Turn(i)' = Turn(i)
  BY WindowSame DEF Turn
<1>2. QED
  BY <1>1 DEF Order

LEMMA OrderAcquire ==
  ASSUME FrameInv, TraceAcquire
  PROVE  Order'
<1> USE DEF FrameInv
<1>1. Window' = Window /\ \A i \in Window : Turn(i)' = Turn(i)
  BY WindowSame DEF TraceAcquire, SrcAcquire, ringVars, Turn
<1>2. Window \subseteq Index /\ attempts \in Nat /\ lastOut \in Nat
      /\ \A i \in Window : tags[i].seq \in Nat
  BY WindowType DEF TInv, IInv, Counters, TagTypes, CapTags
<1>3. attempts' = attempts + 1 /\ srcTag'.seq = attempts + 1 /\ UNCHANGED <<tags, lastOut>>
  BY DEF TraceAcquire, Tag
<1>4. QED
  BY <1>1, <1>2, <1>3 DEF Order

\* ring_pop takes the frame whose turn it is: the oldest.
LEMMA OrderPop ==
  ASSUME FrameInv, TracePop
  PROVE  Order' /\ lastOut' > lastOut
<1> USE DEF FrameInv
<1>1. /\ tail \in Window /\ Window' = Window \ {tail}
      /\ \A i \in Window' : /\ Turn(tail) < Turn(i)
                            /\ Turn(i)' = Turn(i) - 1 /\ Turn(i) \in Nat
  BY WindowPop, TurnPop DEF TracePop, EncPop, TInv, IInv
<1>2. Window \subseteq Index /\ attempts \in Nat /\ lastOut \in Nat
      /\ \A i \in Window : tags[i].seq \in Nat
  BY WindowType DEF TInv, IInv, Counters, TagTypes, CapTags
<1>3. lastOut' = tags[tail].seq /\ UNCHANGED <<attempts, tags, srcTag, srcPc>>
  BY DEF TracePop, EncPop, srcVars
<1>4. lastOut' > lastOut /\ lastOut' <= attempts /\ \A i \in Window' : lastOut' < tags[i].seq
  BY <1>1, <1>2, <1>3 DEF Order
<1>5. \A i, j \in Window' : Turn(i)' < Turn(j)' => tags[i].seq < tags[j].seq
  BY <1>1 DEF Order
<1>6. QED
  BY <1>1, <1>2, <1>3, <1>4, <1>5 DEF Order

\* ring_push appends the newest frame, in place of the oldest or of none.
LEMMA OrderPush ==
  ASSUME FrameInv, TracePush, NEW h, h = head
  PROVE  Order'
<1> USE DEF FrameInv
<1>1. \E W \in SUBSET Window :
        /\ Window' = W \cup {h}
        /\ \A i \in W : Turn(i)' < Turn(h)' /\ ~(Turn(h)' < Turn(i)')
        /\ \A i, j \in W : Turn(i)' < Turn(j)' => Turn(i) < Turn(j)
  <2>1. TypeOK /\ RingPush(srcBuf)
    BY DEF TracePush, SrcPush, TInv, IInv
  <2>2. CASE RingFull
    <3>1. head' = NextIndex(head) /\ tail' = NextIndex(tail)
      BY <2>1, <2>2 DEF RingPush
    <3>2. Window' = (Window \ {tail}) \cup {h}
      BY <2>1, <2>2, <3>1, WindowPushFull
    <3>3. \A i, j \in Window \ {tail} : Turn(i)' < Turn(j)' => Turn(i) < Turn(j)
      BY <2>1, <2>2, <3>1, TurnPushFull
    <3>4. QED
      BY <2>1, <2>2, <3>1, <3>2, <3>3, TurnPushFull
  <2>3. CASE ~RingFull
    <3>1. head' = NextIndex(head) /\ tail' = tail
      BY <2>1, <2>3 DEF RingPush
    <3>2. Window' = Window \cup {h}
      BY <2>1, <2>3, <3>1, WindowPush
    <3>3. QED
      BY <2>1, <2>3, <3>1, <3>2, TurnPush
  <2>4. QED
    BY <2>2, <2>3
<1>2. PICK W \in SUBSET Window :
        /\ Window' = W \cup {h}
        /\ \A i \in W : Turn(i)' < Turn(h)' /\ ~(Turn(h)' < Turn(i)')
        /\ \A i, j \in W : Turn(i)' < Turn(j)' => Turn(i) < Turn(j)
  BY <1>1
<1>3. Window \subseteq Index /\ h \in Index /\ h \notin Window
  BY WindowType DEF TInv, IInv, TypeOK
<1>4. tags'[h] = srcTag /\ \A i \in W : tags'[i] = tags[i]
  BY <1>3 DEF TracePush, PushIndex, TagTypes
<1>5. srcPc = "push" /\ srcPc' = "idle" /\ UNCHANGED <<attempts, lastOut>>
  BY DEF TracePush, SrcPush
<1>6. ~(Turn(h)' < Turn(h)')
  BY <1>3, RingCapAssumption, NextIndexType
  DEF TracePush, SrcPush, RingPush, Turn, TInv, IInv, TypeOK, Index
<1>7. \A i \in Window' : lastOut < tags'[i].seq /\ tags'[i].seq <= attempts
  BY <1>2, <1>4, <1>5 DEF Order
<1>8. ASSUME NEW i \in Window', NEW j \in Window', Turn(i)' < Turn(j)'
      PROVE  tags'[i].seq < tags'[j].seq
  <2>1. i # h
    BY <1>2, <1>6, <1>8
  <2>2. i \in W /\ tags'[i].seq = tags[i].seq
    BY <1>2, <1>4, <2>1
  <2>3. CASE j = h
    BY <1>4, <1>5, <2>2, <2>3 DEF Order
  <2>4. CASE j \in W
    BY <1>2, <1>4, <1>8, <2>2, <2>4 DEF Order
  <2>5. QED
    BY <1>2, <2>3, <2>4
<1>9. QED
  BY <1>5, <1>7, <1>8 DEF Order

LEMMA OrderNext ==
  ASSUME FrameInv, [TraceNext]_allVars
  PROVE  Order' /\ (popped' # popped => lastOut' > lastOut)
<1>1. Order /\ attempts \in Nat
  BY DEF FrameInv, TInv, Counters
<1>2. CASE TraceDrop
  <2>1. Window' = Window /\ \A i \in Window : Turn(i)' = Turn(i)
    BY <1>2, WindowSame DEF TraceDrop, SrcDrop, ringVars, Turn
  <2>2. Window \subseteq Index /\ lastOut \in Nat /\ \A i \in Window : tags[i].seq \in Nat
    BY WindowType DEF FrameInv, TInv, IInv, TagTypes, CapTags
  <2>3. srcPc' = "idle" /\ attempts' = attempts + 1 /\ UNCHANGED <<tags, lastOut, popped>>
    BY <1>2 DEF TraceDrop, SrcDrop
  <2>4. QED
    BY <1>1, <2>1, <2>2, <2>3 DEF Order
<1>3. CASE TraceAcquire
  BY <1>3, OrderAcquire DEF TraceAcquire
<1>4. CASE TraceCaptureFails
  <2>1. Window' = Window /\ \A i \in Window : Turn(i)' = Turn(i)
    BY <1>4, WindowSame DEF TraceCaptureFails, CaptureFails, ringVars, Turn
  <2>2. srcPc' = "idle" /\ UNCHANGED <<attempts, tags, lastOut, popped>>
    BY <1>4 DEF TraceCaptureFails, CaptureFails
  <2>3. QED
    BY <1>1, <2>1, <2>2 DEF Order
<1>5. CASE TracePush
  BY <1>5, OrderPush DEF TracePush
<1>6. CASE TracePop
  BY <1>6, OrderPop
<1>7. CASE TraceResume
  BY <1>1, <1>7, OrderUntouched DEF TraceResume, StepResume, srcVars
<1>8. CASE TraceOther \/ UNCHANGED allVars
  BY <1>1, <1>8, OtherKeeps, OrderUntouched DEF history
<1>9. QED
  BY <1>2, <1>3, <1>4, <1>5, <1>6, <1>7, <1>8 DEF TraceNext

LEMMA NextFrameInv == FrameInv /\ [TraceNext]_allVars => FrameInv'
<1> SUFFICES ASSUME FrameInv, [TraceNext]_allVars PROVE FrameInv'
  OBVIOUS
<1>1. TInv'
  BY AccountNext, StepIsNext, NextIInv DEF FrameInv, TInv
<1>2. QED
  BY <1>1, TagTypesNext, NoneLateNext, OrderNext DEF FrameInv

-----------------------------------------------------------------------------
(* The clock of the recording.                                             *)

\* The length of n periods.
Span(n) == n * Period

Running == ~clk.paused /\ clk.pc # "begin" /\ ~unbegun

ClockPlaces == {"top", "begin", "aim", "wait", "out"}
Clocks == [pc : ClockPlaces, paused : BOOLEAN, start : Nat, active : Nat, idx : Nat, due : Nat,
           late : BOOLEAN]

ClockTypes ==
  /\ tick \in Nat /\ ran \in Nat /\ shots \in Nat /\ parts \in Nat /\ burst \in Nat
  /\ clk \in Clocks
  /\ clk.start <= tick
  /\ clk.paused => clk.pc \in {"top", "out"}
  /\ unbegun => clk.pc = "out"

\* The loop's clock is the time in which a segment was open.
RunIsCounted ==
  /\ ~unbegun /\ (clk.paused \/ clk.pc = "begin") => clk.active = ran
  /\ Running => clk.active + (tick - clk.start) = ran

\* The number of the next frame is at most one ahead of the time, and there are
\* at most as many frames as numbers were counted, and one per segment.
ShotsHaveTime ==
  /\ Running => /\ Span(shots) + Period <= clk.active + Span(clk.idx) + Span(parts)
                /\ Span(clk.idx) <= tick - clk.start + Period
  /\ ~Running => Span(shots) <= clk.active + Span(parts)

\* A frame that is waited for is the next one, and taken when its time is there.
WaitIsDue ==
  clk.pc = "wait" =>
    /\ clk.due <= tick + Period
    /\ ~clk.late => clk.due = clk.start + Span(clk.idx)
    /\ clk.late => Span(clk.idx) <= tick - clk.start

\* How late the loop can be after so many frames without a tick between them.
BurstEnds ==
  /\ burst <= 6
  /\ Running /\ burst >= 2 => tick + Span(burst) <= clk.start + Span(clk.idx) + 5 * Period
  /\ clk.pc = "wait" /\ burst = 1 => tick <= clk.start + Span(clk.idx) + 4 * Period

ClockInv == ClockTypes /\ RunIsCounted /\ ShotsHaveTime /\ WaitIsDue /\ BurstEnds

LEMMA SpanNext ==
  ASSUME NEW n \in Nat
  PROVE  Span(n) \in Nat /\ Span(n + 1) = Span(n) + Period
BY CaptureClockAssumption DEF Span

LEMMA SpanSmall ==
  /\ Span(0) = 0 /\ Span(1) = Period /\ Span(2) = Period + Period
  /\ Period \in Nat /\ Period >= 1
  /\ \A n \in Nat : Span(n) <= 5 * Period => n <= 5
BY CaptureClockAssumption DEF Span

\* The periods that have gone by.
LEMMA SpanDiv ==
  ASSUME NEW t \in Nat
  PROVE  /\ t \div Period \in Nat
         /\ Span(t \div Period) <= t /\ t < Span(t \div Period) + Period
BY CaptureClockAssumption DEF Span

LEMMA InitClockInv == ClockInit => ClockInv
BY SpanSmall, CaptureClockAssumption
DEF ClockInit, ClockInv, ClockTypes, Clocks, ClockPlaces, RunIsCounted, ShotsHaveTime, WaitIsDue, BurstEnds, Running

\* What Aims makes of the number of the next frame.
LEMMA AimsAt ==
  ASSUME ClockTypes, Aims
  PROVE  \E n \in Nat :
           /\ clk' = [clk EXCEPT !.pc = "wait", !.due = clk.start + Span(clk.idx),
                                 !.late = tick >= clk.start + Span(clk.idx), !.idx = n]
           /\ \/ n = clk.idx /\ tick <= clk.start + Span(clk.idx) + 4 * Period
              \/ /\ tick > clk.start + Span(clk.idx) + 4 * Period
                 /\ Span(n) <= tick - clk.start /\ tick - clk.start < Span(n) + Period
<1> DEFINE q == (tick - clk.start) \div Period
<1>1. clk.idx \in Nat /\ clk.start \in Nat /\ tick \in Nat /\ tick - clk.start \in Nat
  BY DEF ClockTypes, Clocks
<1>2. /\ q \in Nat /\ Span(q) <= tick - clk.start /\ tick - clk.start < Span(q) + Period
      /\ Span(clk.idx) \in Nat /\ Period \in Nat
  BY <1>1, SpanDiv, SpanNext, SpanSmall
<1>3. Deadline = clk.start + Span(clk.idx)
  BY DEF Deadline, Span
<1> HIDE DEF q
<1>4. CASE tick - Deadline > 4 * Period
  <2>1. clk' = [clk EXCEPT !.pc = "wait", !.due = Deadline, !.late = tick >= Deadline, !.idx = q]
    BY <1>4 DEF Aims, q
  <2>2. tick > clk.start + Span(clk.idx) + 4 * Period
    BY <1>1, <1>2, <1>3, <1>4
  <2>3. QED
    BY <1>2, <1>3, <2>1, <2>2
<1>5. CASE ~(tick - Deadline > 4 * Period)
  <2>1. clk' = [clk EXCEPT !.pc = "wait", !.due = Deadline, !.late = tick >= Deadline, !.idx = clk.idx]
    BY <1>5 DEF Aims
  <2>2. tick <= clk.start + Span(clk.idx) + 4 * Period
    BY <1>1, <1>2, <1>3, <1>5
  <2>3. QED
    BY <1>1, <1>3, <2>1, <2>2
<1>6. QED
  BY <1>4, <1>5

\* The steps of the clock that count nothing.
Passing == PauseAsked \/ StopAsked \/ LoopLeft \/ WaitLosesWayland \/ UNCHANGED clockVars

LEMMA ClocksNext ==
  ASSUME ClockInv, [ClockNext]_clockVars
  PROVE  clk' \in Clocks
<1>1. tick \in Nat /\ clk \in Clocks /\ clk.start <= tick
  BY DEF ClockInv, ClockTypes
<1>2. clk.active + tick - clk.start \in Nat /\ clk.idx + 1 \in Nat
  BY <1>1 DEF Clocks
<1>3. ASSUME NEW p \in ClockPlaces, NEW d \in Nat, NEW l \in BOOLEAN, NEW n \in Nat
      PROVE  /\ [clk EXCEPT !.pc = p, !.due = d, !.late = l, !.idx = n] \in Clocks
             /\ [clk EXCEPT !.pc = p, !.idx = n, !.due = d, !.late = l] \in Clocks
             /\ [clk EXCEPT !.pc = p, !.due = d, !.late = l] \in Clocks
             /\ [clk EXCEPT !.late = l] \in Clocks
  BY <1>1 DEF Clocks, ClockPlaces
<1>4. CASE Ticks \/ PauseAsked \/ StopAsked \/ UNCHANGED clockVars
  BY <1>1, <1>4 DEF Ticks, PauseAsked, StopAsked, clockVars, Clocks, ClockPlaces
<1>5. CASE LoopLeft
  BY <1>1, <1>5 DEF LoopLeft, Clocks, ClockPlaces
<1>6. CASE ClockPauses
  <2> DEFINE a == clk.active + tick - clk.start
  <2>1. clk' = [clk EXCEPT !.active = a, !.paused = TRUE] /\ a \in Nat
    BY <1>2, <1>6 DEF ClockPauses
  <2> HIDE DEF a
  <2>2. QED
    BY <1>1, <2>1 DEF Clocks
<1>7. CASE ClockResumes
  BY <1>1, <1>7 DEF ClockResumes, Clocks, ClockPlaces
<1>8. CASE SegmentBegun
  BY <1>1, <1>8 DEF SegmentBegun, Clocks, ClockPlaces
<1>9. CASE SegmentFails
  BY <1>1, <1>9 DEF SegmentFails, Clocks, ClockPlaces
<1>10. CASE Aims
  <2>1. PICK n \in Nat :
          clk' = [clk EXCEPT !.pc = "wait", !.due = clk.start + Span(clk.idx),
                             !.late = tick >= clk.start + Span(clk.idx), !.idx = n]
    BY <1>10, AimsAt DEF ClockInv
  <2>2. clk.start + Span(clk.idx) \in Nat
    BY <1>1, SpanNext DEF Clocks
  <2>3. (tick >= clk.start + Span(clk.idx)) \in BOOLEAN /\ "wait" \in ClockPlaces
    BY DEF ClockPlaces
  <2>4. QED
    BY <1>3, <2>1, <2>2, <2>3
<1>11. CASE WaitLooks
  <2>1. (tick >= clk.due) \in BOOLEAN /\ "top" \in ClockPlaces /\ 0 \in Nat
    BY DEF ClockPlaces
  <2>2. QED
    BY <1>3, <1>11, <2>1 DEF WaitLooks
<1>12. CASE WaitLosesWayland
  BY <1>1, <1>12 DEF WaitLosesWayland, Clocks, ClockPlaces
<1>13. ASSUME NEW outcome \in {"captured", "dropped", "failed"}, Tries(outcome)
       PROVE  clk' \in Clocks
  <2>1. "top" \in ClockPlaces /\ 0 \in Nat /\ FALSE \in BOOLEAN
    BY DEF ClockPlaces
  <2>2. QED
    BY <1>2, <1>3, <1>13, <2>1 DEF Tries
<1>14. QED
  BY <1>4, <1>5, <1>6, <1>7, <1>8, <1>9, <1>10, <1>11, <1>12, <1>13 DEF ClockNext

LEMMA ClockTypesNext ==
  ASSUME ClockInv, [ClockNext]_clockVars
  PROVE  ClockTypes'
<1>1. tick \in Nat /\ ran \in Nat /\ shots \in Nat /\ parts \in Nat /\ burst \in Nat
  BY DEF ClockInv, ClockTypes
<1>2. tick' \in Nat /\ ran' \in Nat /\ shots' \in Nat /\ parts' \in Nat /\ burst' \in Nat
  <2> USE DEF clockVars, clockSeen
  <2>1. CASE Ticks \/ Passing
    BY <1>1, <2>1 DEF Ticks, Passing, PauseAsked, StopAsked, LoopLeft, WaitLosesWayland
  <2>2. CASE ClockPauses \/ ClockResumes \/ SegmentBegun \/ SegmentFails
    BY <1>1, <2>2 DEF ClockPauses, ClockResumes, SegmentBegun, SegmentFails
  <2>3. CASE Aims \/ WaitLooks
    BY <1>1, <2>3 DEF Aims, WaitLooks
  <2>4. ASSUME NEW outcome \in {"captured", "dropped", "failed"}, Tries(outcome)
        PROVE  tick' \in Nat /\ ran' \in Nat /\ shots' \in Nat /\ parts' \in Nat /\ burst' \in Nat
    BY <1>1, <2>4 DEF Tries
  <2>5. QED
    BY <2>1, <2>2, <2>3, <2>4 DEF ClockNext, Passing
<1>3. clk' \in Clocks
  BY ClocksNext
<1>4. clk'.start <= tick' /\ (clk'.paused => clk'.pc \in {"top", "out"}) /\ (unbegun' => clk'.pc = "out")
  <2> USE DEF ClockInv, ClockTypes, clockVars, clockSeen
  <2>1. CASE Ticks \/ Passing
    <3>1. CASE Ticks \/ PauseAsked \/ StopAsked \/ UNCHANGED clockVars
      BY <3>1 DEF Ticks, PauseAsked, StopAsked, Clocks
    <3>2. CASE LoopLeft
      BY <3>2 DEF LoopLeft, Clocks
    <3>3. CASE WaitLosesWayland
      BY <3>3 DEF WaitLosesWayland, Clocks
    <3>4. QED
      BY <2>1, <3>1, <3>2, <3>3 DEF Passing
  <2>2. CASE ClockPauses \/ ClockResumes \/ SegmentBegun \/ SegmentFails
    <3>1. CASE ClockPauses
      BY <3>1 DEF ClockPauses, Clocks
    <3>2. CASE ClockResumes
      BY <3>2 DEF ClockResumes, Clocks
    <3>3. CASE SegmentBegun
      BY <3>3 DEF SegmentBegun, Clocks
    <3>4. CASE SegmentFails
      BY <3>4 DEF SegmentFails, Clocks
    <3>5. QED
      BY <2>2, <3>1, <3>2, <3>3, <3>4
  <2>3. CASE Aims
    BY <2>3 DEF Aims, Clocks
  <2>4. CASE WaitLooks
    BY <2>4 DEF WaitLooks, Clocks
  <2>5. ASSUME NEW outcome \in {"captured", "dropped", "failed"}, Tries(outcome)
        PROVE  clk'.start <= tick' /\ (clk'.paused => clk'.pc \in {"top", "out"}) /\ (unbegun' => clk'.pc = "out")
    BY <2>5 DEF Tries, Clocks
  <2>6. QED
    BY <2>1, <2>2, <2>3, <2>4, <2>5 DEF ClockNext, Passing
<1>5. QED
  BY <1>2, <1>3, <1>4 DEF ClockTypes

LEMMA RunIsCountedNext ==
  ASSUME ClockInv, [ClockNext]_clockVars
  PROVE  RunIsCounted'
<1> USE DEF ClockInv, ClockTypes, Clocks, ClockPlaces, RunIsCounted, Running, clockVars, clockSeen
<1>1. CASE Ticks
  BY <1>1 DEF Ticks
<1>2. CASE Passing
  BY <1>2 DEF Passing, PauseAsked, StopAsked, LoopLeft, WaitLosesWayland
<1>3. CASE ClockPauses
  BY <1>3 DEF ClockPauses
<1>4. CASE ClockResumes \/ SegmentFails
  BY <1>4 DEF ClockResumes, SegmentFails
<1>5. CASE SegmentBegun
  BY <1>5 DEF SegmentBegun
<1>6. CASE Aims
  BY <1>6 DEF Aims
<1>7. CASE WaitLooks
  BY <1>7 DEF WaitLooks
<1>8. ASSUME NEW outcome \in {"captured", "dropped", "failed"}, Tries(outcome)
      PROVE  RunIsCounted'
  BY <1>8 DEF Tries
<1>9. QED
  BY <1>1, <1>2, <1>3, <1>4, <1>5, <1>6, <1>7, <1>8 DEF ClockNext, Passing

LEMMA TimeNext ==
  ASSUME ClockInv, [ClockNext]_clockVars
  PROVE  ShotsHaveTime' /\ WaitIsDue' /\ BurstEnds'
<1> USE DEF ClockInv, ClockTypes, Clocks, ClockPlaces, ShotsHaveTime, WaitIsDue, BurstEnds, Running, clockVars, clockSeen
<1>1. /\ Span(shots) \in Nat /\ Span(parts) \in Nat /\ Span(clk.idx) \in Nat /\ Span(burst) \in Nat
      /\ Span(shots + 1) = Span(shots) + Period /\ Span(parts + 1) = Span(parts) + Period
      /\ Span(clk.idx + 1) = Span(clk.idx) + Period /\ Span(burst + 1) = Span(burst) + Period
      /\ Span(0) = 0 /\ Span(1) = Period /\ Span(2) = Period + Period
      /\ Period \in Nat /\ Period >= 1 /\ (Span(burst) <= 5 * Period => burst <= 5)
  BY SpanNext, SpanSmall
<1>2. CASE Ticks
  BY <1>1, <1>2 DEF Ticks
<1>3. CASE Passing
  <2>1. ShotsHaveTime'
    <3>1. CASE PauseAsked \/ StopAsked \/ UNCHANGED clockVars
      BY <1>1, <3>1 DEF PauseAsked, StopAsked
    <3>2. CASE LoopLeft
      BY <1>1, <3>2 DEF LoopLeft
    <3>3. CASE WaitLosesWayland
      BY <1>1, <3>3 DEF WaitLosesWayland
    <3>4. QED
      BY <1>3, <3>1, <3>2, <3>3 DEF Passing
  <2>2. WaitIsDue'
    BY <1>1, <1>3 DEF Passing, PauseAsked, StopAsked, LoopLeft, WaitLosesWayland
  <2>3. BurstEnds'
    BY <1>1, <1>3 DEF Passing, PauseAsked, StopAsked, LoopLeft, WaitLosesWayland
  <2>4. QED
    BY <2>1, <2>2, <2>3
<1>4. CASE ClockPauses
  BY <1>1, <1>4 DEF ClockPauses
<1>5. CASE ClockResumes \/ SegmentFails
  BY <1>1, <1>5 DEF ClockResumes, SegmentFails
<1>6. CASE SegmentBegun
  BY <1>1, <1>6 DEF SegmentBegun
<1>7. CASE Aims
  <2>1. PICK n \in Nat :
           /\ clk' = [clk EXCEPT !.pc = "wait", !.due = clk.start + Span(clk.idx),
                                 !.late = tick >= clk.start + Span(clk.idx), !.idx = n]
           /\ \/ n = clk.idx /\ tick <= clk.start + Span(clk.idx) + 4 * Period
              \/ /\ tick > clk.start + Span(clk.idx) + 4 * Period
                 /\ Span(n) <= tick - clk.start /\ tick - clk.start < Span(n) + Period
    BY <1>7, AimsAt
  <2>2. UNCHANGED <<tick, burst, clockSeen>> /\ ~clk.paused /\ clk.pc # "begin" /\ ~unbegun
    BY <1>7 DEF Aims
  <2>3. Span(n) \in Nat
    BY SpanNext
  <2>4. ShotsHaveTime'
    BY <1>1, <2>1, <2>2, <2>3
  <2>5. WaitIsDue'
    <3>1. /\ clk'.due = clk.start + Span(clk.idx) /\ clk'.start = clk.start /\ clk'.idx = n
          /\ clk'.late <=> tick >= clk.start + Span(clk.idx)
      BY <2>1
    <3>2. QED
      BY <1>1, <2>1, <2>2, <2>3, <3>1
  <2>6. BurstEnds'
    BY <1>1, <2>1, <2>2, <2>3
  <2>7. QED
    BY <2>4, <2>5, <2>6
<1>8. CASE WaitLooks
  BY <1>1, <1>8 DEF WaitLooks
<1>9. ASSUME NEW outcome \in {"captured", "dropped", "failed"}, Tries(outcome)
      PROVE  ShotsHaveTime' /\ WaitIsDue' /\ BurstEnds'
  <2>1. ShotsHaveTime'
    BY <1>1, <1>9 DEF Tries
  <2>2. WaitIsDue'
    BY <1>1, <1>9 DEF Tries
  <2>3. BurstEnds'
    BY <1>1, <1>9 DEF Tries
  <2>4. QED
    BY <2>1, <2>2, <2>3
<1>10. QED
  BY <1>2, <1>3, <1>4, <1>5, <1>6, <1>7, <1>8, <1>9 DEF ClockNext, Passing

LEMMA ClockInvMeans == ClockInv => FootageKeepsTime
<1> SUFFICES ASSUME ClockInv PROVE FootageKeepsTime
  OBVIOUS
<1>1. /\ shots * Period = Span(shots) /\ Period * parts = Span(parts)
      /\ Span(shots) \in Nat /\ Span(parts) \in Nat /\ Span(clk.idx) \in Nat
  BY CaptureClockAssumption, SpanNext DEF Span, ClockInv, ClockTypes, Clocks
<1>2. QED
  BY <1>1, SpanSmall
  DEF ClockInv, ClockTypes, Clocks, RunIsCounted, ShotsHaveTime, WaitIsDue, BurstEnds, Running,
      FootageKeepsTime, ActiveTicks

-----------------------------------------------------------------------------
(* The cast that the frames come from.                                     *)

CastPlaces == {"pick", "resolve", "bind", "roundtrip", "create", "area", "match", "begin", "node",
               "deaf", "open", "negotiate", "size", "prepare", "pool", "loop", "finish", "done",
               "failed", "cancelled"}
Casts == [pc : CastPlaces, kind : {"none", "kde", "gnome"}, waited : Nat]
Streams == [open : BOOLEAN, format : BOOLEAN, size : Nat, failed : BOOLEAN, bound : BOOLEAN,
            buf : Nat, paused : BOOLEAN, pushed : Nat]
Givers == [session : BOOLEAN, stream : BOOLEAN, matched : BOOLEAN,
           signal : {"unsent", "queued", "read"}]

CastTypes == cast \in Casts /\ pw \in Streams /\ giver \in Givers

\* Only a bound stream fills buffers, and when their size is chosen none is.
BuffersAreBound ==
  /\ pw.bound => cast.pc \in {"loop", "finish"}
  /\ ~pw.bound => pw.pushed = 0
  /\ pw.pushed <= pw.buf

\* Mutter is only asked to start when its signal is listened for.
SignalIsHeard ==
  /\ cast.pc \in {"begin", "node", "deaf"} => giver.matched
  /\ cast.pc \in {"pick", "resolve", "create", "area", "match", "begin"} => giver.signal = "unsent"
  /\ cast.pc = "node" => giver.signal # "read"
  /\ cast.pc = "deaf" => giver.signal = "unsent"

CastInv == CastTypes /\ BuffersAreBound /\ SignalIsHeard

LEMMA InitCastInv == CastInit => CastInv
BY DEF CastInit, NoCast, NoStream, NoGiver, CastInv, CastTypes, Casts, CastPlaces, Streams, Givers,
       BuffersAreBound, SignalIsHeard

\* The ways in which record_toggle goes on, and what they leave of the cast.
LEMMA CastGoes ==
  ASSUME cast \in Casts, NEW p \in CastPlaces, cast' = [cast EXCEPT !.pc = p]
  PROVE  cast' \in Casts /\ cast'.pc = p
BY DEF Casts

LEMMA CastChosen ==
  ASSUME cast \in Casts, NEW p \in CastPlaces, NEW k \in {"kde", "gnome"},
         cast' = [cast EXCEPT !.kind = k, !.pc = p]
  PROVE  cast' \in Casts /\ cast'.pc = p
BY DEF Casts

LEMMA CastWaits ==
  ASSUME cast \in Casts, GnomeHears \/ GnomeWaits \/ GnomeGivesUp
  PROVE  cast' \in Casts /\ (cast'.pc = "open" \/ cast'.pc = cast.pc \/ cast'.pc = "deaf")
<1>1. CASE GnomeHears
  BY <1>1 DEF Casts, CastPlaces, GnomeHears
<1>2. CASE GnomeWaits
  BY <1>2 DEF Casts, CastPlaces, GnomeWaits
<1>3. CASE GnomeGivesUp
  BY <1>3 DEF Casts, CastPlaces, GnomeGivesUp, NoCast
<1>4. QED
  BY <1>1, <1>2, <1>3

LEMMA CastEnding ==
  ASSUME cast \in Casts, NEW p \in CastPlaces, CastEnds(p)
  PROVE  cast' \in Casts /\ cast'.pc = p
BY DEF Casts, CastEnds, NoCast

LEMMA CastFailing ==
  ASSUME cast \in Casts, CastFails
  PROVE  cast' \in Casts /\ cast'.pc = "failed" /\ giver' = NoGiver /\ pw' = pw
<1>1. "failed" \in CastPlaces
  BY DEF CastPlaces
<1>2. QED
  BY <1>1, CastEnding DEF CastFails

\* Start is answered, and the signal may already be there; or the cast fails.
LEMMA GnomeStarts ==
  ASSUME NEW ok, GnomeBegins(ok)
  PROVE  /\ cast.pc = "begin"
         /\ \/ CastFails
            \/ /\ cast' = [cast EXCEPT !.pc = "node"] /\ UNCHANGED pw
               /\ \E sig \in {giver.signal, IF giver.matched THEN "queued" ELSE "lost"} :
                    giver' = [giver EXCEPT !.stream = TRUE, !.signal = sig]
<1>1. /\ cast.pc = "begin"
      /\ \/ CastFails
         \/ /\ cast' = [cast EXCEPT !.pc = "node"] /\ UNCHANGED pw
            /\ \E early \in BOOLEAN :
                 giver' = [giver EXCEPT !.stream = TRUE,
                             !.signal = IF early THEN IF giver.matched THEN "queued" ELSE "lost" ELSE @]
  BY Zenon DEF GnomeBegins
<1>2. ASSUME NEW early \in BOOLEAN
      PROVE  (IF early THEN IF giver.matched THEN "queued" ELSE "lost" ELSE giver.signal)
             \in {giver.signal, IF giver.matched THEN "queued" ELSE "lost"}
  OBVIOUS
<1>3. QED
  BY <1>1, <1>2, Zenon

\* Where the conversation with the compositor goes.
LEMMA CastsNext ==
  ASSUME CastInv, [CastNext]_castVars
  PROVE  cast' \in Casts
<1>1. cast \in Casts
  BY DEF CastInv, CastTypes
<1> USE <1>1 DEF CastPlaces
<1>2. CASE UNCHANGED castVars
  BY <1>2 DEF castVars
<1>3. ASSUME NEW how \in {"selected", "none"}, PicksRegion(how) PROVE cast' \in Casts
  <2>1. CastEnds("cancelled") \/ cast' = [cast EXCEPT !.pc = "resolve"]
    BY <1>3 DEF PicksRegion
  <2>2. QED
    BY <2>1, CastEnding, CastGoes
<1>4. ASSUME NEW kde \in BOOLEAN, NEW gnome \in BOOLEAN, CastResolves(kde, gnome)
      PROVE  cast' \in Casts
  <2>1. \/ cast' = [cast EXCEPT !.kind = "kde", !.pc = "bind"]
        \/ cast' = [cast EXCEPT !.kind = "gnome", !.pc = "create"]
    BY <1>4 DEF CastResolves
  <2>2. QED
    BY <2>1, CastChosen
<1>5. ASSUME NEW ok \in BOOLEAN, KdeBinds(ok) \/ KdeAnswers(ok) PROVE cast' \in Casts
  <2>1. CastFails \/ cast' = [cast EXCEPT !.pc = "roundtrip"] \/ cast' = [cast EXCEPT !.pc = "open"]
    BY <1>5 DEF KdeBinds, KdeAnswers
  <2>2. QED
    BY <2>1, CastFailing, CastGoes
<1>6. ASSUME NEW ok \in BOOLEAN, Setup(ok) PROVE cast' \in Casts
  <2>1. \/ CastFails
        \/ cast' = [cast EXCEPT !.pc = "area"] \/ cast' = [cast EXCEPT !.pc = "match"]
        \/ cast' = [cast EXCEPT !.pc = "begin"] \/ cast' = [cast EXCEPT !.pc = "node"]
    <3>1. CASE GnomeCalls("create", "area", ok) \/ GnomeCalls("area", "match", ok)
      BY <3>1 DEF GnomeCalls
    <3>2. CASE GnomeMatches(ok)
      BY <3>2 DEF GnomeMatches
    <3>3. CASE GnomeBegins(ok)
      BY <3>3, GnomeStarts
    <3>4. QED
      BY <1>6, <3>1, <3>2, <3>3 DEF Setup
  <2>2. QED
    BY <2>1, CastFailing, CastGoes
<1>7. ASSUME NEW ok \in BOOLEAN, PwOpens(ok) \/ CastPrepares(ok) \/ PwPauses(ok)
      PROVE  cast' \in Casts
  <2>1. \/ CastFails \/ CastEnds("failed") \/ cast' = cast
        \/ cast' = [cast EXCEPT !.pc = "negotiate"] \/ cast' = [cast EXCEPT !.pc = "pool"]
    BY <1>7 DEF PwOpens, CastPrepares, PwPauses
  <2>2. QED
    BY <2>1, CastFailing, CastEnding, CastGoes
<1>8. CASE GnomeHears \/ GnomeWaits \/ GnomeGivesUp
  BY <1>8, CastWaits
<1>9. CASE MutterSignals \/ GnomeStops
  BY <1>9, CastFailing DEF MutterSignals, GnomeStops
<1>10. CASE PwNegotiated \/ PwFails \/ PwSize \/ PwBinds \/ CastLoopEnds \/ CastStops
  <2>1. \/ CastEnds("failed") \/ CastEnds("done")
        \/ cast' = [cast EXCEPT !.pc = "size"] \/ cast' = [cast EXCEPT !.pc = "prepare"]
        \/ cast' = [cast EXCEPT !.pc = "loop"] \/ cast' = [cast EXCEPT !.pc = "finish"]
    BY <1>10 DEF PwNegotiated, PwFails, PwSize, PwBinds, CastLoopEnds, CastStops
  <2>2. QED
    BY <2>1, CastEnding, CastGoes
<1>11. ASSUME NEW size \in StreamSizes, NEW known \in BOOLEAN, PwFormat(size, known)
       PROVE  cast' \in Casts
  BY <1>11 DEF PwFormat
<1>12. CASE PwStreamEnds \/ PwFrame
  BY <1>12 DEF PwStreamEnds, PwFrame
<1>13. QED
  BY <1>2, <1>3, <1>4, <1>5, <1>6, <1>7, <1>8, <1>9, <1>10, <1>11, <1>12 DEF CastNext

LEMMA StreamsNext ==
  ASSUME CastInv, [CastNext]_castVars
  PROVE  pw' \in Streams /\ BuffersAreBound'
<1>1. cast \in Casts /\ pw \in Streams /\ BuffersAreBound
  BY DEF CastInv, CastTypes
<1> USE <1>1 DEF Streams, BuffersAreBound, NoStream, CastPlaces
<1>2. CASE UNCHANGED castVars
  BY <1>2 DEF castVars
<1>3. ASSUME UNCHANGED pw, cast.pc \notin {"loop", "finish"} PROVE pw' \in Streams /\ BuffersAreBound'
  BY <1>3
<1>4. ASSUME NEW how \in {"selected", "none"}, PicksRegion(how)
      PROVE  pw' \in Streams /\ BuffersAreBound'
  BY <1>3, <1>4 DEF PicksRegion
<1>5. ASSUME NEW kde \in BOOLEAN, NEW gnome \in BOOLEAN, CastResolves(kde, gnome)
      PROVE  pw' \in Streams /\ BuffersAreBound'
  BY <1>3, <1>5 DEF CastResolves
<1>6. ASSUME NEW ok \in BOOLEAN, KdeBinds(ok) \/ KdeAnswers(ok) \/ Setup(ok)
      PROVE  pw' \in Streams /\ BuffersAreBound'
  <2>1. UNCHANGED pw /\ cast.pc \notin {"loop", "finish"}
    <3>1. CASE KdeBinds(ok) \/ KdeAnswers(ok)
      BY <3>1 DEF KdeBinds, KdeAnswers, CastFails
    <3>2. CASE GnomeCalls("create", "area", ok) \/ GnomeCalls("area", "match", ok) \/ GnomeMatches(ok)
      BY <3>2 DEF GnomeCalls, GnomeMatches, CastFails
    <3>3. CASE GnomeBegins(ok)
      <4>1. CastFails => UNCHANGED pw
        BY DEF CastFails
      <4>2. UNCHANGED pw /\ cast.pc = "begin"
        BY <3>3, <4>1, GnomeStarts
      <4>3. QED
        BY <4>2
    <3>4. QED
      BY <1>6, <3>1, <3>2, <3>3 DEF Setup
  <2>2. QED
    BY <1>3, <2>1
<1>7. ASSUME NEW ok \in BOOLEAN, PwOpens(ok) \/ CastPrepares(ok)
      PROVE  pw' \in Streams /\ BuffersAreBound'
  <2>1. pw' = [NoStream EXCEPT !.open = TRUE] \/ pw' = NoStream \/ UNCHANGED pw
    BY <1>7 DEF PwOpens, CastPrepares, CastFails
  <2>2. cast.pc \notin {"loop", "finish"}
    BY <1>7 DEF PwOpens, CastPrepares
  <2>3. CASE pw' = NoStream
    BY <2>3
  <2>4. CASE pw' = [NoStream EXCEPT !.open = TRUE]
    <3>1. pw' = [open |-> TRUE, format |-> FALSE, size |-> 0, failed |-> FALSE, bound |-> FALSE,
                 buf |-> 0, paused |-> FALSE, pushed |-> 0]
      BY <2>4
    <3>2. QED
      BY <3>1
  <2>5. QED
    BY <1>3, <2>1, <2>2, <2>3, <2>4
<1>8. ASSUME NEW ok \in BOOLEAN, PwPauses(ok) PROVE pw' \in Streams /\ BuffersAreBound'
  BY <1>8 DEF PwPauses
<1>9. CASE MutterSignals \/ GnomeHears \/ GnomeWaits \/ GnomeGivesUp \/ GnomeStops
  BY <1>3, <1>9 DEF MutterSignals, GnomeHears, GnomeWaits, GnomeGivesUp, GnomeStops, CastFails
<1>10. ASSUME NEW size \in StreamSizes, NEW known \in BOOLEAN, PwFormat(size, known)
       PROVE  pw' \in Streams /\ BuffersAreBound'
  BY <1>10, CastAssumption DEF PwFormat
<1>11. CASE PwStreamEnds \/ PwFrame
  BY <1>11 DEF PwStreamEnds, PwFrame, Fits
<1>12. CASE PwNegotiated
  BY <1>3, <1>12 DEF PwNegotiated
<1>13. CASE PwFails \/ CastStops
  <2>1. pw' = NoStream
    BY <1>13 DEF PwFails, CastStops
  <2>2. QED
    BY <2>1
<1>14. CASE PwSize
  BY <1>14 DEF PwSize
<1>15. CASE PwBinds
  <2>1. cast'.pc = "loop" /\ pw' = [pw EXCEPT !.bound = TRUE]
    BY <1>15, CastGoes DEF PwBinds
  <2>2. QED
    BY <2>1
<1>16. CASE CastLoopEnds
  <2>1. cast'.pc = "finish" /\ pw' = [pw EXCEPT !.paused = TRUE]
    BY <1>16, CastGoes DEF CastLoopEnds
  <2>2. QED
    BY <2>1
<1>17. QED
  BY <1>2, <1>4, <1>5, <1>6, <1>7, <1>8, <1>9, <1>10, <1>11, <1>12, <1>13, <1>14, <1>15, <1>16
  DEF CastNext

LEMMA GiversNext ==
  ASSUME CastInv, [CastNext]_castVars
  PROVE  giver' \in Givers /\ SignalIsHeard'
<1>1. cast \in Casts /\ giver \in Givers /\ SignalIsHeard
  BY DEF CastInv, CastTypes
<1>2. CASE UNCHANGED castVars
  BY <1>1, <1>2 DEF castVars, SignalIsHeard
<1> USE <1>1 DEF Givers, SignalIsHeard, NoGiver, CastPlaces
<1>3. ASSUME giver' = NoGiver, cast'.pc \in {"failed", "done"} PROVE giver' \in Givers /\ SignalIsHeard'
  BY <1>3
<1>4. ASSUME CastFails PROVE giver' \in Givers /\ SignalIsHeard'
  BY <1>3, <1>4, CastFailing
<1>5. ASSUME UNCHANGED giver,
             cast'.pc \in {"open", "negotiate", "size", "prepare", "pool", "loop", "finish",
                           "cancelled", "bind", "failed", "done"}
      PROVE  giver' \in Givers /\ SignalIsHeard'
  BY <1>5
<1>6. ASSUME NEW how \in {"selected", "none"}, PicksRegion(how)
      PROVE  giver' \in Givers /\ SignalIsHeard'
  <2>1. cast.pc = "pick" /\ UNCHANGED giver
        /\ (CastEnds("cancelled") \/ cast' = [cast EXCEPT !.pc = "resolve"])
    BY <1>6 DEF PicksRegion
  <2>2. cast'.pc \in {"cancelled", "resolve"}
    BY <2>1, CastEnding, CastGoes
  <2>3. QED
    BY <2>1, <2>2
<1>7. ASSUME NEW kde \in BOOLEAN, NEW gnome \in BOOLEAN, CastResolves(kde, gnome)
      PROVE  giver' \in Givers /\ SignalIsHeard'
  <2>1. /\ cast.pc = "resolve" /\ UNCHANGED giver
        /\ \/ cast' = [cast EXCEPT !.kind = "kde", !.pc = "bind"]
           \/ cast' = [cast EXCEPT !.kind = "gnome", !.pc = "create"]
    BY <1>7 DEF CastResolves
  <2>2. cast'.pc \in {"bind", "create"}
    BY <2>1, CastChosen
  <2>3. QED
    BY <2>1, <2>2
<1>8. ASSUME NEW ok \in BOOLEAN, KdeBinds(ok) PROVE giver' \in Givers /\ SignalIsHeard'
  <2>1. CASE ok
    <3>1. (cast'.pc = "roundtrip" /\ giver' = [giver EXCEPT !.session = TRUE]) \/ CastFails
      BY <1>8, CastGoes DEF KdeBinds
    <3>2. QED
      BY <1>4, <3>1
  <2>2. CASE ~ok
    <3>1. cast'.pc = "roundtrip" /\ giver' = [giver EXCEPT !.session = TRUE]
      BY <1>8, <2>2, CastGoes DEF KdeBinds
    <3>2. QED
      BY <3>1
  <2>3. QED
    BY <2>1, <2>2
<1>9. ASSUME NEW node \in BOOLEAN, KdeAnswers(node) PROVE giver' \in Givers /\ SignalIsHeard'
  <2>1. (cast'.pc = "open" /\ giver' = [giver EXCEPT !.stream = TRUE]) \/ CastFails
    BY <1>9, CastGoes DEF KdeAnswers
  <2>2. QED
    BY <1>4, <2>1
<1>10. ASSUME NEW ok \in BOOLEAN, GnomeCalls("create", "area", ok) \/ GnomeCalls("area", "match", ok)
       PROVE  giver' \in Givers /\ SignalIsHeard'
  <2>1. \/ /\ cast.pc \in {"create", "area"} /\ cast'.pc \in {"area", "match"}
           /\ giver' = [giver EXCEPT !.session = TRUE]
        \/ CastFails
    BY <1>10, CastGoes DEF GnomeCalls
  <2>2. QED
    BY <1>4, <2>1
<1>11. ASSUME NEW ok \in BOOLEAN, GnomeMatches(ok) PROVE giver' \in Givers /\ SignalIsHeard'
  <2>1. \/ /\ cast.pc = "match" /\ cast'.pc = "begin"
           /\ giver' = [giver EXCEPT !.matched = TRUE]
        \/ CastFails
    BY <1>11, CastGoes DEF GnomeMatches
  <2>2. QED
    BY <1>4, <2>1
<1>12. ASSUME NEW ok \in BOOLEAN, GnomeBegins(ok) PROVE giver' \in Givers /\ SignalIsHeard'
  <2>1. CASE CastFails
    BY <1>4, <2>1
  <2>2. CASE ~CastFails
    <3>1. /\ cast.pc = "begin" /\ cast' = [cast EXCEPT !.pc = "node"]
          /\ \E sig \in {giver.signal, IF giver.matched THEN "queued" ELSE "lost"} :
               giver' = [giver EXCEPT !.stream = TRUE, !.signal = sig]
      BY <1>12, <2>2, GnomeStarts
    <3>2. giver.matched /\ giver.signal = "unsent" /\ cast'.pc = "node"
      BY <3>1, CastGoes
    <3>3. \/ giver' = [giver EXCEPT !.stream = TRUE, !.signal = "queued"]
          \/ giver' = [giver EXCEPT !.stream = TRUE, !.signal = "unsent"]
      BY <3>1, <3>2
    <3>4. QED
      BY <3>2, <3>3
  <2>3. QED
    BY <2>1, <2>2
<1>13. CASE MutterSignals
  <2>1. cast' = cast /\ cast.pc = "node" /\ giver' = [giver EXCEPT !.signal = "queued"]
    BY <1>13 DEF MutterSignals
  <2>2. QED
    BY <2>1
<1>14. CASE GnomeHears
  <2>1. "open" \in CastPlaces /\ 0 \in Nat
    OBVIOUS
  <2>2. cast' = [cast EXCEPT !.pc = "open", !.waited = 0] /\ giver' = [giver EXCEPT !.signal = "read"]
    BY <1>14 DEF GnomeHears
  <2>3. cast'.pc = "open"
    BY <2>2 DEF Casts
  <2>4. QED
    BY <2>2, <2>3
<1>15. CASE GnomeWaits
  <2>1. cast'.pc = cast.pc /\ giver' = giver
    BY <1>15 DEF GnomeWaits, Casts
  <2>2. QED
    BY <2>1
<1>16. CASE GnomeGivesUp
  <2>1. cast.pc = "node" /\ cast'.pc = "deaf" /\ giver' = giver /\ giver.signal # "queued"
    BY <1>16 DEF GnomeGivesUp, NoCast
  <2>2. QED
    BY <2>1
<1>17. CASE GnomeStops
  BY <1>4, <1>17 DEF GnomeStops
<1>18. ASSUME NEW ok \in BOOLEAN, PwOpens(ok) PROVE giver' \in Givers /\ SignalIsHeard'
  <2>1. (cast'.pc = "negotiate" /\ giver' = giver) \/ CastFails
    BY <1>18, CastGoes DEF PwOpens
  <2>2. QED
    BY <1>4, <1>5, <2>1
<1>19. ASSUME NEW ok \in BOOLEAN, CastPrepares(ok) PROVE giver' \in Givers /\ SignalIsHeard'
  <2>1. \/ cast'.pc = "pool" /\ giver' = giver
        \/ cast'.pc = "failed" /\ giver' = NoGiver
    <3>1. \/ cast' = [cast EXCEPT !.pc = "pool"] /\ giver' = giver
          \/ CastEnds("failed") /\ giver' = NoGiver
      BY <1>19 DEF CastPrepares
    <3>2. QED
      BY <3>1, CastGoes, CastEnding
  <2>2. QED
    BY <1>3, <1>5, <2>1
<1>20. ASSUME NEW ok \in BOOLEAN, PwPauses(ok) PROVE giver' \in Givers /\ SignalIsHeard'
  BY <1>20 DEF PwPauses
<1>21. ASSUME NEW size \in StreamSizes, NEW known \in BOOLEAN, PwFormat(size, known)
       PROVE  giver' \in Givers /\ SignalIsHeard'
  BY <1>21 DEF PwFormat
<1>22. CASE PwStreamEnds \/ PwFrame
  BY <1>22 DEF PwStreamEnds, PwFrame
<1>23. CASE PwNegotiated \/ PwSize \/ PwBinds \/ CastLoopEnds
  <2>1. cast'.pc \in {"size", "prepare", "loop", "finish"} /\ giver' = giver
    BY <1>23, CastGoes DEF PwNegotiated, PwSize, PwBinds, CastLoopEnds
  <2>2. QED
    BY <1>5, <2>1
<1>24. CASE PwFails \/ CastStops
  <2>1. cast'.pc \in {"failed", "done"} /\ giver' = NoGiver
    BY <1>24, CastEnding DEF PwFails, CastStops
  <2>2. QED
    BY <1>3, <2>1
<1>25. QED
  BY <1>2, <1>6, <1>7, <1>8, <1>9, <1>10, <1>11, <1>12, <1>13, <1>14, <1>15, <1>16, <1>17, <1>18,
     <1>19, <1>20, <1>21, <1>22, <1>23, <1>24 DEF CastNext, Setup

-----------------------------------------------------------------------------
(* The controls.  Every operation of Controls is a function of the record   *)
(* of the controls: what each leaves alone and what it makes right is a     *)
(* lemma about any such record, and the steps are put together from them.   *)

\* The records of a surface and of the controls.
IsSurf(s) == s = [up |-> s.up, configured |-> s.configured, dirty |-> s.dirty, frame |-> s.frame,
                  shown |-> s.shown]
Motions   == [v : 0 .. Full, from : 0 .. Full, age : Nat]
IsCtl(c) ==
  /\ c = [inside |-> c.inside, expanded |-> c.expanded, k |-> c.k, rise |-> c.rise, paused |-> c.paused,
          surf |-> c.surf, at |-> c.at, pc |-> c.pc, pauseFlag |-> c.pauseFlag, abortFlag |-> c.abortFlag]
  /\ c.surf = [bar |-> c.surf.bar, handle |-> c.surf.handle]
  /\ IsSurf(c.surf.bar) /\ IsSurf(c.surf.handle)

\* What drawing leaves alone: all but the pictures of the two surfaces.
SameCtl(d, c) ==
  /\ d.inside = c.inside /\ d.expanded = c.expanded /\ d.k = c.k /\ d.rise = c.rise /\ d.at = c.at
  /\ d.pc = c.pc /\ d.pauseFlag = c.pauseFlag /\ d.abortFlag = c.abortFlag
SameSurf(t, s) == t.up = s.up /\ t.configured = s.configured

\* A picture that is right or waits for a frame or a buffer.
Due(s) == s.shown = "now" \/ s.dirty

LEMMA SameVisible ==
  ASSUME NEW c, NEW d, NEW s, SameCtl(d, c)
  PROVE  Visible(d, s) <=> Visible(c, s)
BY DEF SameCtl, Visible

LEMMA NoSurfIs == /\ IsSurf(NoSurf) /\ ~NoSurf.up /\ ~NoSurf.configured
BY DEF IsSurf, NoSurf

LEMMA OutdatedIs ==
  ASSUME NEW c, IsCtl(c)
  PROVE  /\ IsCtl(Outdated(c)) /\ SameCtl(Outdated(c), c) /\ Outdated(c).paused = c.paused
         /\ SameSurf(Outdated(c).surf.bar, c.surf.bar) /\ SameSurf(Outdated(c).surf.handle, c.surf.handle)
<1> DEFINE old(s) == IF s.shown = "now" THEN [s EXCEPT !.shown = "before"] ELSE s
<1>1. \A s : IsSurf(s) => IsSurf(old(s)) /\ SameSurf(old(s), s)
  BY DEF IsSurf, SameSurf
<1> HIDE DEF old
<1>2. PICK bar, handle : bar = old(c.surf.bar) /\ handle = old(c.surf.handle)
  OBVIOUS
<1>3. IsSurf(bar) /\ IsSurf(handle) /\ SameSurf(bar, c.surf.bar) /\ SameSurf(handle, c.surf.handle)
  BY <1>1, <1>2 DEF IsCtl
<1>4. PICK d : d = [c EXCEPT !.surf = [bar |-> bar, handle |-> handle]]
  OBVIOUS
<1>5. Outdated(c) = d
  BY <1>2, <1>4 DEF Outdated, old
<1>6. IsCtl(d) /\ SameCtl(d, c) /\ d.surf.bar = bar /\ d.surf.handle = handle /\ d.paused = c.paused
  BY <1>3, <1>4 DEF IsCtl, SameCtl
<1>7. QED
  BY <1>3, <1>5, <1>6

\* A surface is replaced by another.
LEMMA PutBar ==
  ASSUME NEW c, NEW t, IsCtl(c), IsSurf(t)
  PROVE  LET d == [c EXCEPT !.surf["bar"] = t]
         IN IsCtl(d) /\ SameCtl(d, c) /\ d.surf.bar = t /\ d.surf.handle = c.surf.handle /\ d.paused = c.paused
BY DEF IsCtl, SameCtl
LEMMA PutHandle ==
  ASSUME NEW c, NEW t, IsCtl(c), IsSurf(t)
  PROVE  LET d == [c EXCEPT !.surf["handle"] = t]
         IN IsCtl(d) /\ SameCtl(d, c) /\ d.surf.handle = t /\ d.surf.bar = c.surf.bar /\ d.paused = c.paused
BY DEF IsCtl, SameCtl

\* Only surface s is another one.
OnlySurf(d, c, s) ==
  /\ IsCtl(d) /\ SameCtl(d, c) /\ d.paused = c.paused
  /\ \A q \in Surfs \ {s} : d.surf[q] = c.surf[q]

LEMMA Put ==
  ASSUME NEW c, NEW s \in Surfs, NEW t, IsCtl(c), IsSurf(t)
  PROVE  LET d == [c EXCEPT !.surf[s] = t] IN OnlySurf(d, c, s) /\ d.surf[s] = t
<1>1. CASE s = "bar"
  BY <1>1, PutBar DEF OnlySurf, Surfs
<1>2. CASE s = "handle"
  BY <1>2, PutHandle DEF OnlySurf, Surfs
<1>3. QED
  BY <1>1, <1>2 DEF Surfs

LEMMA SurfIs ==
  ASSUME NEW c, NEW s \in Surfs, IsCtl(c)
  PROVE  IsSurf(c.surf[s])
BY DEF IsCtl, Surfs

LEMMA RedrawIs ==
  ASSUME NEW c, NEW s \in Surfs, NEW free, IsCtl(c)
  PROVE  LET d == CtlRedraw(c, s, free) IN
         /\ OnlySurf(d, c, s) /\ SameSurf(d.surf[s], c.surf[s])
         /\ c.surf[s].dirty \/ (c.surf[s].configured /\ Visible(c, s)) => Due(d.surf[s])
         /\ c.surf[s].shown = "now" => Due(d.surf[s])
<1>1. IsSurf(c.surf[s])
  BY SurfIs
<1>2. CASE ~c.surf[s].configured \/ ~Visible(c, s)
  BY <1>2 DEF CtlRedraw, OnlySurf, SameCtl, SameSurf, Due
<1>3. CASE ~(~c.surf[s].configured \/ ~Visible(c, s)) /\ ~free
  <2>1. PICK t : t = [c.surf[s] EXCEPT !.dirty = TRUE]
    OBVIOUS
  <2>2. IsSurf(t) /\ SameSurf(t, c.surf[s]) /\ t.dirty
    BY <1>1, <2>1 DEF IsSurf, SameSurf
  <2>3. CtlRedraw(c, s, free) = [c EXCEPT !.surf[s].dirty = TRUE]
    BY <1>3 DEF CtlRedraw
  <2>4. CtlRedraw(c, s, free) = [c EXCEPT !.surf[s] = t]
    BY <2>1, <2>3
  <2>5. QED
    BY <2>2, <2>4, Put DEF Due
<1>4. CASE ~(~c.surf[s].configured \/ ~Visible(c, s)) /\ free
  <2>1. PICK t : t = [c.surf[s] EXCEPT !.dirty = FALSE, !.frame = TRUE, !.shown = "now"]
    OBVIOUS
  <2>2. IsSurf(t) /\ SameSurf(t, c.surf[s]) /\ t.shown = "now"
    BY <1>1, <2>1 DEF IsSurf, SameSurf
  <2>3. CtlRedraw(c, s, free) = [c EXCEPT !.surf[s] = [@ EXCEPT !.dirty = FALSE, !.frame = TRUE, !.shown = "now"]]
    BY <1>4 DEF CtlRedraw
  <2>4. CtlRedraw(c, s, free) = [c EXCEPT !.surf[s] = t]
    BY <2>1, <2>3
  <2>5. QED
    BY <2>2, <2>4, Put DEF Due
<1>5. QED
  BY <1>2, <1>3, <1>4

LEMMA OnlyOnly ==
  ASSUME NEW c, NEW d, NEW e, NEW s, OnlySurf(d, c, s), OnlySurf(e, d, s)
  PROVE  OnlySurf(e, c, s)
BY DEF OnlySurf, SameCtl

LEMMA RequestIs ==
  ASSUME NEW c, NEW s \in Surfs, NEW free, IsCtl(c)
  PROVE  LET d == CtlRequest(c, s, free) IN
         /\ OnlySurf(d, c, s) /\ SameSurf(d.surf[s], c.surf[s]) /\ Due(d.surf[s])
<1>1. PICK t : t = [c.surf[s] EXCEPT !.dirty = TRUE]
  OBVIOUS
<1>2. IsSurf(t) /\ SameSurf(t, c.surf[s]) /\ t.dirty
  <2>1. IsSurf(c.surf[s])
    BY SurfIs
  <2>2. QED
    BY <1>1, <2>1 DEF IsSurf, SameSurf
<1>3. PICK d : d = [c EXCEPT !.surf[s] = t]
  OBVIOUS
<1>4. OnlySurf(d, c, s) /\ d.surf[s] = t
  BY <1>2, <1>3, Put
<1>5. d = [c EXCEPT !.surf[s].dirty = TRUE]
  BY <1>1, <1>3
<1>6. CtlRequest(c, s, free) = IF d.surf[s].frame THEN d ELSE CtlRedraw(d, s, free)
  BY <1>5 DEF CtlRequest
<1>7. CASE d.surf[s].frame
  BY <1>2, <1>4, <1>6, <1>7 DEF Due
<1>8. CASE ~d.surf[s].frame
  <2>1. IsCtl(d)
    BY <1>4 DEF OnlySurf
  <2>2. PICK e : e = CtlRedraw(d, s, free)
    OBVIOUS
  <2>3. OnlySurf(e, d, s) /\ SameSurf(e.surf[s], d.surf[s]) /\ Due(e.surf[s])
    BY <1>2, <1>4, <2>1, <2>2, RedrawIs
  <2>4. OnlySurf(e, c, s)
    BY <1>4, <2>3, OnlyOnly
  <2>5. QED
    BY <1>2, <1>4, <1>6, <1>8, <2>2, <2>3, <2>4 DEF SameSurf
<1>9. QED
  BY <1>7, <1>8

\* ctl_redraw_all: the surface that shows, the bar first.
LEMMA RedrawAllIs ==
  ASSUME NEW c, NEW free, IsCtl(c)
  PROVE  LET d == CtlRedrawAll(c, free)
             bar == c.surf.bar.up /\ Visible(c, "bar") IN
         /\ IsCtl(d) /\ SameCtl(d, c) /\ d.paused = c.paused
         /\ SameSurf(d.surf.bar, c.surf.bar) /\ SameSurf(d.surf.handle, c.surf.handle)
         /\ bar => Due(d.surf.bar)
         /\ ~bar /\ c.surf.handle.up /\ Visible(c, "handle") => Due(d.surf.handle)
<1> DEFINE bar == c.surf.bar.up /\ Visible(c, "bar")
<1> DEFINE d == CtlRedrawAll(c, free)
<1>1. "bar" \in Surfs /\ "handle" \in Surfs /\ "bar" \in Surfs \ {"handle"} /\ "handle" \in Surfs \ {"bar"}
  BY DEF Surfs
<1>2. CASE bar
  <2>1. d = CtlRequest(c, "bar", free)
    BY <1>2 DEF CtlRedrawAll
  <2>2. OnlySurf(d, c, "bar") /\ SameSurf(d.surf["bar"], c.surf["bar"]) /\ Due(d.surf["bar"])
    BY <1>1, <2>1, RequestIs
  <2>3. QED
    BY <1>1, <1>2, <2>2 DEF OnlySurf, SameSurf
<1>3. CASE ~bar /\ c.surf.handle.up /\ Visible(c, "handle")
  <2>1. d = CtlRequest(c, "handle", free)
    BY <1>3 DEF CtlRedrawAll
  <2>2. OnlySurf(d, c, "handle") /\ SameSurf(d.surf["handle"], c.surf["handle"]) /\ Due(d.surf["handle"])
    BY <1>1, <2>1, RequestIs
  <2>3. QED
    BY <1>1, <1>3, <2>2 DEF OnlySurf, SameSurf
<1>4. CASE ~bar /\ ~(c.surf.handle.up /\ Visible(c, "handle"))
  <2>1. d = c
    BY <1>4 DEF CtlRedrawAll
  <2>2. QED
    BY <1>4, <2>1 DEF SameCtl, SameSurf
<1>5. QED
  BY <1>2, <1>3, <1>4

-----------------------------------------------------------------------------
(* What moves.                                                             *)

LEMMA Quotient ==
  ASSUME NEW a \in Int, NEW n \in Nat \ {0}, NEW lo \in Int, NEW hi \in Int, lo * n <= a, a <= hi * n
  PROVE  a \div n \in lo .. hi
<1>1. PICK q \in Int : q = a \div n
  OBVIOUS
<1>2. PICK r \in Int : r = a % n
  OBVIOUS
<1>3. 0 <= r /\ r < n /\ a = n * q + r
  BY <1>1, <1>2
<1>4. ~(q < lo)
  <2> SUFFICES ASSUME q < lo PROVE FALSE
    OBVIOUS
  <2>1. n * (q + 1) <= n * lo
    OBVIOUS
  <2>2. n * (q + 1) = n * q + n
    OBVIOUS
  <2>3. QED
    BY <1>3, <2>1, <2>2
<1>5. ~(q > hi)
  <2> SUFFICES ASSUME q > hi PROVE FALSE
    OBVIOUS
  <2>1. n * (hi + 1) <= n * q
    OBVIOUS
  <2>2. n * (hi + 1) = n * hi + n
    OBVIOUS
  <2>3. QED
    BY <1>3, <2>1, <2>2
<1>6. QED
  BY <1>1, <1>4, <1>5

\* The value of a motion lies between where it began and where it goes.
LEMMA EaseIs ==
  ASSUME NEW from \in 0 .. Full, NEW target \in {0, Full}, NEW n \in 0 .. FoldTicks
  PROVE  from + ((target - from) * n) \div FoldTicks \in 0 .. Full
<1>1. FoldTicks \in Nat \ {0} /\ Full \in Nat
  BY ControlsAssumption
<1>2. PICK d \in Int : d = target - from
  BY <1>1
<1>3. PICK a \in Int : a = d * n
  OBVIOUS
<1>4. CASE target = Full
  <2>1. d \in Nat
    BY <1>1, <1>2, <1>4
  <2>2. 0 <= a /\ a <= d * FoldTicks
    BY <1>1, <1>3, <2>1
  <2>3. a \div FoldTicks \in 0 .. d
    BY <1>1, <2>1, <2>2, Quotient
  <2>4. QED
    BY <1>1, <1>2, <1>3, <1>4, <2>3
<1>5. CASE target = 0
  <2>1. d = -from /\ from \in Nat
    BY <1>1, <1>2, <1>5
  <2>2. a <= 0 * FoldTicks /\ d * FoldTicks <= a
    BY <1>1, <1>3, <2>1
  <2>3. a \div FoldTicks \in d .. 0
    BY <1>1, <2>1, <2>2, Quotient
  <2>4. QED
    BY <1>1, <1>2, <1>3, <1>5, <2>1, <2>3
<1>6. QED
  BY <1>4, <1>5

LEMMA AtIs ==
  ASSUME NEW v \in {0, Full}
  PROVE  At(v) \in Motions /\ At(v).v = v /\ At(v).age = 0
BY ControlsAssumption DEF At, Motions

\* A motion that is over is where it goes.
LEMMA MovedIs ==
  ASSUME NEW x \in Motions, NEW target \in {0, Full}
  PROVE  /\ Moved(x, target) \in Motions
         /\ Moved(x, target).age = 0 => Moved(x, target).v = target
<1>1. CASE ~Moves(x, target)
  BY <1>1 DEF Moved, Moves
<1>2. CASE Moves(x, target)
  <2>1. PICK y : y = IF x.age = 0 THEN [x EXCEPT !.from = x.v, !.age = 1] ELSE x
    OBVIOUS
  <2>2. y \in Motions /\ y.age >= 1
    <3>1. CASE x.age = 0
      <4>1. y = [x EXCEPT !.from = x.v, !.age = 1]
        BY <2>1, <3>1
      <4>2. x = [v |-> x.v, from |-> x.from, age |-> x.age] /\ x.v \in 0 .. Full
        BY DEF Motions
      <4>3. y = [v |-> x.v, from |-> x.v, age |-> 1]
        BY <4>1, <4>2
      <4>4. QED
        BY <4>2, <4>3 DEF Motions
    <3>2. CASE x.age # 0
      BY <2>1, <3>2 DEF Motions
    <3>3. QED
      BY <3>1, <3>2
  <2>3. Moved(x, target) = IF y.age > FoldTicks THEN At(target)
             ELSE [y EXCEPT !.v = y.from + ((target - y.from) * (y.age - 1)) \div FoldTicks]
    BY <1>2, <2>1 DEF Moved
  <2>4. CASE y.age > FoldTicks
    BY <2>3, <2>4, AtIs
  <2>5. CASE ~(y.age > FoldTicks)
    <3>1. y.age - 1 \in 0 .. FoldTicks /\ y.from \in 0 .. Full
      BY <2>2, <2>5, ControlsAssumption DEF Motions
    <3>2. PICK w \in 0 .. Full : w = y.from + ((target - y.from) * (y.age - 1)) \div FoldTicks
      BY <3>1, EaseIs
    <3>3. Moved(x, target) = [y EXCEPT !.v = w]
      BY <2>3, <2>5, <3>2
    <3>4. QED
      BY <2>2, <3>3 DEF Motions
  <2>6. QED
    BY <2>4, <2>5
<1>3. QED
  BY <1>1, <1>2

LEMMA OlderIs ==
  ASSUME NEW x \in Motions
  PROVE  /\ Older(x) \in Motions /\ Older(x).v = x.v
         /\ Older(x).age = 0 <=> x.age = 0
         /\ x.age = 0 => Older(x) = x
BY DEF Older, Motions

-----------------------------------------------------------------------------
(* What holds of the controls while they run.                              *)

\* Flags of the controls that no motion changes.
SameFlags(d, c) ==
  /\ d.inside = c.inside /\ d.expanded = c.expanded /\ d.at = c.at
  /\ d.pc = c.pc /\ d.pauseFlag = c.pauseFlag /\ d.abortFlag = c.abortFlag /\ d.paused = c.paused

\* A bar outside the region is open and stays; no handle is there.
OutsideIsOpen(c) ==
  ~c.inside => c.expanded /\ c.k = At(0) /\ c.rise = At(0) /\ ~c.surf.handle.up
\* An open bar is there, and one that is not there has folded.
BarIsThere(c) == (c.expanded => c.surf.bar.up) /\ (~c.surf.bar.up => c.k.v = 0)
ConfiguredIsUp(c) == \A s \in Surfs : c.surf[s].configured => c.surf[s].up
Built(c) ==
  /\ IsCtl(c) /\ c.k \in Motions /\ c.rise \in Motions
  /\ OutsideIsOpen(c) /\ BarIsThere(c) /\ ConfiguredIsUp(c)

\* The pictures: of the bar, and of a handle that is there while nothing unfolds.
BarIsDue(c) == c.surf.bar.configured => Due(c.surf.bar)
HandleIsDue(c) ==
  c.inside /\ c.surf.handle.configured /\ c.k.v = 0 /\ c.k.age = 0 => Due(c.surf.handle)
CtlOk(c) == Built(c) /\ BarIsDue(c) /\ HandleIsDue(c)

\* Between two steps of a turn, only what shows has to be right ...
ShowingIsDue(c) ==
  /\ Visible(c, "bar") => BarIsDue(c)
  /\ ~c.expanded => HandleIsDue(c)
\* ... and after one, a bar that is there shows and an open one unfolds.
TurnDone(c) ==
  /\ c.inside /\ c.surf.bar.up => Visible(c, "bar")
  /\ c.inside /\ c.expanded /\ c.k.age = 0 => c.k.v = Full

LEMMA BuiltKept ==
  ASSUME NEW c, NEW d, Built(c), IsCtl(d), SameCtl(d, c), SameSurf(d.surf.bar, c.surf.bar),
         SameSurf(d.surf.handle, c.surf.handle)
  PROVE  Built(d)
BY DEF Built, SameCtl, SameSurf, OutsideIsOpen, BarIsThere, ConfiguredIsUp, Surfs

LEMMA VisibleIs ==
  ASSUME NEW c, Built(c)
  PROVE  /\ Visible(c, "bar") <=> ~c.inside \/ c.expanded \/ c.k.v # 0
         /\ Visible(c, "handle") <=> c.inside /\ c.k.v = 0
BY DEF Visible, Built, Motions

\* Drawing all leaves what shows right, and everything after a turn.
LEMMA DrawnAll ==
  ASSUME NEW c, NEW o, NEW free, Built(c), IsCtl(o), SameCtl(o, c), SameSurf(o.surf.bar, c.surf.bar),
         SameSurf(o.surf.handle, c.surf.handle)
  PROVE  LET d == CtlRedrawAll(o, free) IN
         /\ Built(d) /\ SameCtl(d, c) /\ d.paused = o.paused /\ ShowingIsDue(d)
         /\ SameSurf(d.surf.bar, c.surf.bar) /\ SameSurf(d.surf.handle, c.surf.handle)
         /\ TurnDone(c) => CtlOk(d) /\ TurnDone(d)
<1>1. PICK d : d = CtlRedrawAll(o, free)
  OBVIOUS
<1>2. Built(o)
  BY BuiltKept
<1>3. /\ IsCtl(d) /\ SameCtl(d, o) /\ d.paused = o.paused
      /\ SameSurf(d.surf.bar, o.surf.bar) /\ SameSurf(d.surf.handle, o.surf.handle)
      /\ o.surf.bar.up /\ Visible(o, "bar") => Due(d.surf.bar)
      /\ ~(o.surf.bar.up /\ Visible(o, "bar")) /\ o.surf.handle.up /\ Visible(o, "handle")
           => Due(d.surf.handle)
  BY <1>1, RedrawAllIs
<1>4. Built(d) /\ SameCtl(d, c)
  <2>1. Built(d)
    BY <1>2, <1>3, BuiltKept
  <2>2. QED
    BY <1>3, <2>1 DEF SameCtl
<1>5. SameSurf(d.surf.bar, c.surf.bar) /\ SameSurf(d.surf.handle, c.surf.handle)
  BY <1>3 DEF SameSurf
<1>6. (Visible(o, "bar") <=> Visible(d, "bar")) /\ (Visible(o, "handle") <=> Visible(d, "handle"))
  BY <1>3, SameVisible
<1>7. (d.surf.bar.configured => d.surf.bar.up) /\ (d.surf.handle.configured => d.surf.handle.up)
  BY <1>4 DEF Built, ConfiguredIsUp, Surfs
<1>8. d.surf.bar.up /\ Visible(d, "bar") => Due(d.surf.bar)
  BY <1>3, <1>6 DEF SameSurf
<1>9. ~(d.surf.bar.up /\ Visible(d, "bar")) /\ d.surf.handle.up /\ Visible(d, "handle") => Due(d.surf.handle)
  BY <1>3, <1>6 DEF SameSurf
<1>10. ShowingIsDue(d)
  <2>1. Visible(d, "bar") => BarIsDue(d)
    BY <1>7, <1>8 DEF BarIsDue
  <2>2. ~d.expanded => HandleIsDue(d)
    BY <1>4, <1>7, <1>9, VisibleIs DEF HandleIsDue
  <2>3. QED
    BY <2>1, <2>2 DEF ShowingIsDue
<1>11. TurnDone(c) => TurnDone(d)
  BY <1>4, <1>5, SameVisible DEF TurnDone, SameCtl, SameSurf
<1>12. TurnDone(d) => CtlOk(d)
  <2> SUFFICES ASSUME TurnDone(d) PROVE BarIsDue(d) /\ HandleIsDue(d)
    BY <1>4 DEF CtlOk
  <2>1. BarIsDue(d)
    BY <1>4, <1>7, <1>8, VisibleIs DEF BarIsDue, TurnDone
  <2>2. d.inside /\ d.k.v = 0 /\ d.k.age = 0 => ~d.expanded
    BY ControlsAssumption DEF TurnDone
  <2>3. HandleIsDue(d)
    BY <1>4, <1>7, <1>9, <2>2, VisibleIs DEF HandleIsDue
  <2>4. QED
    BY <2>1, <2>3
<1>13. QED
  BY <1>1, <1>3, <1>4, <1>5, <1>10, <1>11, <1>12

LEMMA CreateIs ==
  ASSUME NEW c, NEW s \in Surfs, IsCtl(c)
  PROVE  /\ OnlySurf(Create(c, s), c, s) /\ Create(c, s).surf[s].up /\ ~Create(c, s).surf[s].configured
<1>1. PICK t : t = [NoSurf EXCEPT !.up = TRUE]
  OBVIOUS
<1>2. IsSurf(t) /\ t.up /\ ~t.configured
  BY <1>1 DEF NoSurf, IsSurf
<1>3. Create(c, s) = [c EXCEPT !.surf[s] = t]
  BY <1>1 DEF Create
<1>4. QED
  BY <1>2, <1>3, Put

LEMMA HideIs ==
  ASSUME NEW c, NEW s \in Surfs, IsCtl(c)
  PROVE  /\ OnlySurf(Hide(c, s), c, s) /\ ~Hide(c, s).surf[s].up /\ ~Hide(c, s).surf[s].configured
<1>1. Hide(c, s) = [c EXCEPT !.surf[s] = NoSurf]
  BY DEF Hide
<1>2. QED
  BY <1>1, NoSurfIs, Put

\* ctl_set_expanded
OnlyExpanded(e, c) ==
  /\ IsCtl(e) /\ e.k = c.k /\ e.rise = c.rise /\ e.surf = c.surf
  /\ e.inside = c.inside /\ e.at = c.at /\ e.pc = c.pc /\ e.abortFlag = c.abortFlag

LEMMA SetExpandedIs ==
  ASSUME NEW c, NEW e, CtlOk(c), c.inside, OnlyExpanded(e, c)
  PROVE  /\ (e.expanded => c.surf["bar"].up) => CtlOk(e)
         /\ CtlOk(Create(e, "bar")) /\ SameCtl(Create(e, "bar"), e)
<1>0. "bar" \in Surfs /\ "handle" \in Surfs \ {"bar"} /\ IsCtl(c)
  BY DEF Surfs, CtlOk, Built
<1>1. (e.expanded => c.surf["bar"].up) => CtlOk(e)
  BY DEF OnlyExpanded, CtlOk, Built, OutsideIsOpen, BarIsThere, ConfiguredIsUp, BarIsDue, HandleIsDue
<1>2. PICK d : d = Create(e, "bar")
  OBVIOUS
<1>3. OnlySurf(d, e, "bar") /\ d.surf["bar"].up /\ ~d.surf["bar"].configured
  BY <1>0, <1>2, CreateIs DEF OnlyExpanded
<1>4. IsCtl(d) /\ SameCtl(d, e) /\ d.surf["handle"] = c.surf["handle"]
  BY <1>0, <1>3 DEF OnlySurf, OnlyExpanded
<1>5. CtlOk(d)
  BY <1>3, <1>4 DEF SameCtl, OnlyExpanded, CtlOk, Built, OutsideIsOpen, BarIsThere, ConfiguredIsUp,
     BarIsDue, HandleIsDue, Surfs
<1>6. QED
  BY <1>0, <1>1, <1>2, <1>4, <1>5 DEF OnlyExpanded

\* The bar unfolds or folds.
LEMMA FoldedIs ==
  ASSUME NEW c, Built(c), c.inside
  PROVE  LET d == Folded(c) IN
         /\ Built(d) /\ SameFlags(d, c) /\ TurnDone(d)
         /\ d.rise = c.rise /\ d.surf.handle = c.surf.handle
         /\ ~c.expanded /\ d.k.age = 0 => d.k.v = 0
<1>0. "bar" \in Surfs /\ "handle" \in Surfs \ {"bar"} /\ IsCtl(c) /\ c.k \in Motions
  BY DEF Surfs, Built
<1>1. PICK target \in {0, Full} : target = IF c.expanded THEN Full ELSE 0
  BY ControlsAssumption
<1>2. PICK k : k = IF c.surf["bar"].up THEN Moved(c.k, target) ELSE c.k
  OBVIOUS
<1>3. k \in Motions /\ (c.surf["bar"].up /\ k.age = 0 => k.v = target) /\ (~c.surf["bar"].up => k.v = 0)
  BY <1>0, <1>1, <1>2, MovedIs DEF Built, BarIsThere
<1>4. PICK b : b = [c EXCEPT !.k = k]
  OBVIOUS
<1>5. IsCtl(b) /\ SameFlags(b, c) /\ b.k = k /\ b.rise = c.rise /\ b.surf = c.surf
  BY <1>0, <1>4 DEF IsCtl, SameFlags
<1>6. ~(c.expanded /\ ~c.surf["bar"].up /\ c.k.v = 0)
  BY DEF Built, BarIsThere
<1>7. Folded(c) = IF ~b.expanded /\ b.k.v = 0 THEN Hide(b, "bar") ELSE b
  <2>1. CASE c.surf["bar"].up
    <3>1. b = [c EXCEPT !.k = Moved(@, target)]
      BY <1>2, <1>4, <2>1
    <3>2. QED
      BY <1>1, <1>6, <2>1, <3>1 DEF Folded
  <2>2. CASE ~c.surf["bar"].up
    <3>1. b = c
      BY <1>0, <1>2, <1>4, <2>2 DEF IsCtl
    <3>2. QED
      BY <1>1, <1>6, <2>2, <3>1 DEF Folded
  <2>3. QED
    BY <2>1, <2>2
<1>8. CASE ~b.expanded /\ b.k.v = 0
  <2>1. PICK d : d = Hide(b, "bar")
    OBVIOUS
  <2>2. OnlySurf(d, b, "bar") /\ ~d.surf["bar"].up /\ ~d.surf["bar"].configured
    BY <1>0, <1>5, <2>1, HideIs
  <2>3. IsCtl(d) /\ SameCtl(d, b) /\ d.surf["handle"] = c.surf["handle"] /\ d.paused = b.paused
    BY <1>0, <1>5, <2>2 DEF OnlySurf
  <2>4. SameFlags(d, c) /\ d.k = k /\ d.rise = c.rise
    BY <1>5, <2>3 DEF SameFlags, SameCtl
  <2>5. Built(d)
    BY <1>3, <1>5, <1>8, <2>2, <2>3, <2>4
       DEF SameFlags, Built, OutsideIsOpen, BarIsThere, ConfiguredIsUp, Surfs
  <2>6. TurnDone(d)
    BY <1>5, <1>8, <2>2, <2>4 DEF TurnDone, SameFlags
  <2>7. QED
    BY <1>3, <1>5, <1>7, <1>8, <2>1, <2>3, <2>4, <2>5, <2>6
<1>9. CASE ~(~b.expanded /\ b.k.v = 0)
  <2>1. Built(b)
    BY <1>3, <1>5 DEF SameFlags, Built, OutsideIsOpen, BarIsThere, ConfiguredIsUp
  <2>2. TurnDone(b)
    BY <1>1, <1>3, <1>5, <1>9, <2>1, VisibleIs DEF TurnDone, SameFlags, Built, BarIsThere
  <2>3. ~c.expanded /\ b.k.age = 0 => b.k.v = 0
    BY <1>1, <1>3, <1>5
  <2>4. QED
    BY <1>5, <1>7, <1>9, <2>1, <2>2, <2>3
<1>10. QED
  BY <1>8, <1>9

\* The handle rises when the bar is gone, and sinks when it opens.
LEMMA RisenIs ==
  ASSUME NEW c, Built(c), c.inside, TurnDone(c)
  PROVE  LET d == Risen(c) IN
         /\ Built(d) /\ SameFlags(d, c) /\ TurnDone(d)
         /\ d.k = c.k /\ d.surf.bar = c.surf.bar
         /\ ~c.expanded /\ c.k.v = 0 => d.surf.handle.up
         /\ d.rise.age = 0 /\ ~(~c.expanded /\ c.k.v = 0) => d.rise.v = 0
<1>0. "handle" \in Surfs /\ "bar" \in Surfs \ {"handle"} /\ IsCtl(c) /\ c.rise \in Motions
  BY DEF Surfs, Built
<1>1. CASE ~c.expanded /\ c.k.v = 0
  <2>1. PICK a : a = IF c.surf["handle"].up THEN c ELSE Create(c, "handle")
    OBVIOUS
  <2>2. /\ OnlySurf(a, c, "handle") /\ a.surf["handle"].up
        /\ a.surf["handle"].configured => c.surf["handle"].up
    <3>1. CASE c.surf["handle"].up
      BY <1>0, <2>1, <3>1 DEF OnlySurf, SameCtl
    <3>2. CASE ~c.surf["handle"].up
      BY <1>0, <2>1, <3>2, CreateIs
    <3>3. QED
      BY <3>1, <3>2
  <2>3. IsCtl(a) /\ SameCtl(a, c) /\ a.surf["bar"] = c.surf["bar"] /\ a.paused = c.paused
    BY <1>0, <2>2 DEF OnlySurf
  <2>4. PICK r : r = Moved(c.rise, Full)
    OBVIOUS
  <2>5. r \in Motions
    BY <1>0, <2>4, MovedIs
  <2>6. PICK d : d = [a EXCEPT !.rise = r]
    OBVIOUS
  <2>7. Risen(c) = d
    <3>1. Risen(c) = [a EXCEPT !.rise = Moved(@, Full)]
      BY <1>1, <2>1 DEF Risen
    <3>2. a.rise = c.rise
      BY <2>3 DEF SameCtl
    <3>3. QED
      BY <2>4, <2>6, <3>1, <3>2
  <2>8. IsCtl(d) /\ SameFlags(d, c) /\ d.k = c.k /\ d.rise = r /\ d.surf = a.surf
    BY <2>3, <2>6 DEF IsCtl, SameCtl, SameFlags
  <2>9. Built(d)
    BY <2>2, <2>3, <2>5, <2>8 DEF Built, SameFlags, OutsideIsOpen, BarIsThere, ConfiguredIsUp, Surfs
  <2>10. TurnDone(d)
    BY <2>3, <2>8, <2>9, VisibleIs DEF TurnDone, SameFlags
  <2>11. QED
    BY <1>1, <2>2, <2>3, <2>7, <2>8, <2>9, <2>10
<1>2. CASE ~(~c.expanded /\ c.k.v = 0) /\ c.rise.v = 0
  <2>1. Risen(c) = c
    BY <1>2 DEF Risen
  <2>2. QED
    BY <1>2, <2>1 DEF SameFlags
<1>3. CASE ~(~c.expanded /\ c.k.v = 0) /\ c.rise.v # 0
  <2>1. PICK m : m = Moved(c.rise, 0)
    OBVIOUS
  <2>2. m \in Motions /\ (m.age = 0 => m.v = 0)
    BY <1>0, <2>1, MovedIs
  <2>3. PICK r : r = [c EXCEPT !.rise = m]
    OBVIOUS
  <2>4. IsCtl(r) /\ SameFlags(r, c) /\ r.k = c.k /\ r.rise = m /\ r.surf = c.surf
    BY <1>0, <2>3 DEF IsCtl, SameFlags
  <2>5. Risen(c) = IF r.rise.v = 0 THEN Hide(r, "handle") ELSE r
    BY <1>3, <2>1, <2>3 DEF Risen
  <2>6. Built(r) /\ TurnDone(r)
    BY <2>2, <2>4, VisibleIs DEF Built, SameFlags, OutsideIsOpen, BarIsThere, ConfiguredIsUp, TurnDone
  <2>7. CASE r.rise.v # 0
    BY <1>3, <2>2, <2>4, <2>5, <2>6, <2>7
  <2>8. CASE r.rise.v = 0
    <3>1. PICK d : d = Hide(r, "handle")
      OBVIOUS
    <3>2. OnlySurf(d, r, "handle") /\ ~d.surf["handle"].up /\ ~d.surf["handle"].configured
      BY <1>0, <2>4, <3>1, HideIs
    <3>3. IsCtl(d) /\ SameCtl(d, r) /\ d.surf["bar"] = c.surf["bar"] /\ d.paused = r.paused
      BY <1>0, <2>4, <3>2 DEF OnlySurf
    <3>4. SameFlags(d, c) /\ d.k = c.k /\ d.rise = m
      BY <2>4, <3>3 DEF SameFlags, SameCtl
    <3>5. Built(d)
      BY <2>2, <2>4, <2>6, <3>2, <3>3, <3>4 DEF Built, SameFlags, OutsideIsOpen, BarIsThere, ConfiguredIsUp, Surfs
    <3>6. TurnDone(d)
      BY <2>4, <2>6, <3>3, <3>4, <3>5, VisibleIs DEF TurnDone, SameFlags
    <3>7. QED
      BY <1>3, <2>2, <2>5, <2>8, <3>1, <3>3, <3>4, <3>5, <3>6
  <2>9. QED
    BY <2>7, <2>8
<1>4. QED
  BY <1>1, <1>2, <1>3


\* ctl_anim_step
LEMMA AnimatedIs ==
  ASSUME NEW c, NEW free, Built(c), ShowingIsDue(c)
  PROVE  LET d == Animated(c, free) IN CtlOk(d) /\ SameFlags(d, c) /\ TurnDone(d)
<1>1. CASE ~c.inside
  <2>1. Animated(c, free) = c
    BY <1>1 DEF Animated
  <2>2. QED
    BY <1>1, <2>1, VisibleIs DEF CtlOk, ShowingIsDue, BarIsDue, HandleIsDue, TurnDone, SameFlags
<1>2. CASE c.inside
  <2>1. PICK m : m = Risen(Folded(c))
    OBVIOUS
  <2>2. Built(m) /\ SameFlags(m, c) /\ TurnDone(m)
    <3>1. PICK f : f = Folded(c)
      OBVIOUS
    <3>2. Built(f) /\ SameFlags(f, c) /\ TurnDone(f)
      BY <1>2, <3>1, FoldedIs
    <3>3. f.inside
      BY <1>2, <3>2 DEF SameFlags
    <3>4. Built(m) /\ SameFlags(m, f) /\ TurnDone(m)
      BY <2>1, <3>1, <3>2, <3>3, RisenIs
    <3>5. QED
      BY <3>2, <3>4 DEF SameFlags
  <2>3. CASE Animated(c, free) = c /\ m = c
    <3>1. TurnDone(c)
      BY <2>2, <2>3
    <3>2. BarIsDue(c)
      BY <1>2, <3>1 DEF TurnDone, ShowingIsDue, BarIsDue, Built, ConfiguredIsUp, Surfs
    <3>3. HandleIsDue(c)
      BY <1>2, <3>1, ControlsAssumption DEF TurnDone, ShowingIsDue, HandleIsDue
    <3>4. QED
      BY <2>3, <3>1, <3>2, <3>3 DEF CtlOk, SameFlags
  <2>4. CASE Animated(c, free) = CtlRedrawAll(Outdated(m), free)
    <3>1. PICK o : o = Outdated(m)
      OBVIOUS
    <3>2. /\ IsCtl(o) /\ SameCtl(o, m) /\ o.paused = m.paused
          /\ SameSurf(o.surf.bar, m.surf.bar) /\ SameSurf(o.surf.handle, m.surf.handle)
      BY <2>2, <3>1, OutdatedIs DEF Built
    <3>3. PICK d : d = CtlRedrawAll(o, free)
      OBVIOUS
    <3>4. CtlOk(d) /\ TurnDone(d) /\ SameCtl(d, m) /\ d.paused = o.paused
      BY <2>2, <3>2, <3>3, DrawnAll
    <3>5. SameFlags(d, c)
      BY <2>2, <3>2, <3>4 DEF SameCtl, SameFlags
    <3>6. QED
      BY <2>4, <3>1, <3>3, <3>4, <3>5
  <2>5. QED
    BY <1>2, <2>1, <2>3, <2>4 DEF Animated
<1>3. QED
  BY <1>1, <1>2

\* controls_set_paused
LEMMA SetPausedIs ==
  ASSUME NEW c, NEW free, CtlOk(c)
  PROVE  LET d == SetPaused(c, free) IN
         /\ Built(d) /\ ShowingIsDue(d) /\ SameCtl(d, c) /\ d.paused = c.pauseFlag
<1>1. CASE c.paused = c.pauseFlag
  <2>1. SetPaused(c, free) = c
    BY <1>1 DEF SetPaused
  <2>2. QED
    BY <1>1, <2>1 DEF CtlOk, ShowingIsDue, SameCtl
<1>2. CASE c.paused # c.pauseFlag
  <2>1. PICK a : a = Outdated(c)
    OBVIOUS
  <2>2. /\ IsCtl(a) /\ SameCtl(a, c)
        /\ SameSurf(a.surf.bar, c.surf.bar) /\ SameSurf(a.surf.handle, c.surf.handle)
    BY <2>1, OutdatedIs DEF CtlOk, Built
  <2>3. PICK o : o = [a EXCEPT !.paused = c.pauseFlag]
    OBVIOUS
  <2>4. IsCtl(o) /\ SameCtl(o, c) /\ o.surf = a.surf /\ o.paused = c.pauseFlag
    BY <2>2, <2>3 DEF IsCtl, SameCtl
  <2>5. SetPaused(c, free) = CtlRedrawAll(o, free)
    BY <1>2, <2>1, <2>3 DEF SetPaused
  <2>6. QED
    BY <2>2, <2>4, <2>5, DrawnAll DEF CtlOk
<1>3. QED
  BY <1>1, <1>2

\* rec_clock_step
LEMMA ClockedIs ==
  ASSUME NEW c, NEW other, NEW free, CtlOk(c)
  PROVE  LET d == Clocked(c, other, free) IN
         /\ CtlOk(d) /\ d.paused = c.pauseFlag
         /\ d.inside = c.inside /\ d.at = c.at /\ d.pc = c.pc /\ d.abortFlag = c.abortFlag
<1>1. PICK p : p = SetPaused(c, free)
  OBVIOUS
<1>2. Built(p) /\ ShowingIsDue(p) /\ SameCtl(p, c) /\ p.paused = c.pauseFlag
  BY <1>1, SetPausedIs
<1>3. PICK a : a = Animated(p, free)
  OBVIOUS
<1>4. CtlOk(a) /\ SameFlags(a, p) /\ TurnDone(a)
  BY <1>2, <1>3, AnimatedIs
<1>5. Clocked(c, other, free) = IF other THEN CtlRedrawAll(Outdated(a), free) ELSE a
  BY <1>1, <1>3 DEF Clocked
<1>6. CASE ~other
  BY <1>2, <1>4, <1>5, <1>6 DEF SameCtl, SameFlags
<1>7. CASE other
  <2>1. PICK o : o = Outdated(a)
    OBVIOUS
  <2>2. /\ Built(a) /\ IsCtl(o) /\ SameCtl(o, a) /\ o.paused = a.paused
        /\ SameSurf(o.surf.bar, a.surf.bar) /\ SameSurf(o.surf.handle, a.surf.handle)
    BY <1>4, <2>1, OutdatedIs DEF CtlOk, Built
  <2>3. PICK d : d = CtlRedrawAll(o, free)
    OBVIOUS
  <2>4. CtlOk(d) /\ SameCtl(d, a) /\ d.paused = o.paused
    BY <1>4, <2>2, <2>3, DrawnAll
  <2>5. QED
    BY <1>2, <1>4, <1>5, <1>7, <2>1, <2>2, <2>3, <2>4 DEF SameCtl, SameFlags
<1>8. QED
  BY <1>6, <1>7

LEMMA OpenIs ==
  ASSUME NEW c, CtlOk(c)
  PROVE  LET d == SetExpanded(c, TRUE) IN
         CtlOk(d) /\ d.inside = c.inside /\ d.at = c.at /\ d.pc = c.pc /\ d.abortFlag = c.abortFlag
<1>1. PICK e : e = [c EXCEPT !.expanded = TRUE]
  OBVIOUS
<1>2. OnlyExpanded(e, c)
  BY <1>1 DEF CtlOk, Built, IsCtl, OnlyExpanded
<1>3. PICK d : d = Create(e, "bar")
  OBVIOUS
<1>4. SetExpanded(c, TRUE) = IF ~c.inside \/ c.expanded = TRUE THEN c
                             ELSE IF ~c.surf["bar"].up THEN d ELSE e
  <2>1. e.surf = c.surf
    BY <1>2 DEF OnlyExpanded
  <2>2. QED
    BY <1>1, <1>3, <2>1 DEF SetExpanded
<1>5. CASE ~c.inside \/ c.expanded = TRUE
  BY <1>4, <1>5
<1>6. CASE ~(~c.inside \/ c.expanded = TRUE)
  <2>1. CtlOk(d) /\ SameCtl(d, e) /\ (c.surf["bar"].up => CtlOk(e))
    BY <1>2, <1>3, <1>6, SetExpandedIs
  <2>2. QED
    BY <1>2, <1>4, <1>6, <2>1 DEF OnlyExpanded, SameCtl
<1>7. QED
  BY <1>5, <1>6

LEMMA CloseIs ==
  ASSUME NEW c, CtlOk(c)
  PROVE  LET d == SetExpanded(c, FALSE) IN
         CtlOk(d) /\ d.inside = c.inside /\ d.at = c.at /\ d.pc = c.pc /\ d.abortFlag = c.abortFlag
<1>1. PICK e : e = [c EXCEPT !.expanded = FALSE]
  OBVIOUS
<1>2. OnlyExpanded(e, c) /\ ~e.expanded
  BY <1>1 DEF CtlOk, Built, IsCtl, OnlyExpanded
<1>3. SetExpanded(c, FALSE) = IF ~c.inside \/ c.expanded = FALSE THEN c ELSE e
  BY <1>1 DEF SetExpanded
<1>4. CASE ~c.inside \/ c.expanded = FALSE
  BY <1>3, <1>4
<1>5. CASE ~(~c.inside \/ c.expanded = FALSE)
  <2>1. CtlOk(e)
    BY <1>2, <1>5, SetExpandedIs
  <2>2. QED
    BY <1>2, <1>3, <1>5, <2>1 DEF OnlyExpanded
<1>6. QED
  BY <1>4, <1>5

\* A flag or the pointer's place changes nothing of the surfaces.
LEMMA FlagIs ==
  ASSUME NEW c, NEW d, CtlOk(c),
         \/ d = [c EXCEPT !.pauseFlag = TRUE]
         \/ d = [c EXCEPT !.abortFlag = TRUE]
         \/ d = [c EXCEPT !.pauseFlag = ~@]
         \/ \E at : d = [c EXCEPT !.at = at]
  PROVE  CtlOk(d) /\ d.inside = c.inside /\ d.expanded = c.expanded /\ d.pc = c.pc
<1>1. IsCtl(c)
  BY DEF CtlOk, Built
<1>2. /\ IsCtl(d) /\ d.inside = c.inside /\ d.expanded = c.expanded /\ d.pc = c.pc
      /\ d.k = c.k /\ d.rise = c.rise /\ d.surf = c.surf
  BY <1>1 DEF IsCtl
<1>3. CtlOk(d)
  BY <1>2 DEF CtlOk, Built, OutsideIsOpen, BarIsThere, ConfiguredIsUp, BarIsDue, HandleIsDue
<1>4. QED
  BY <1>2, <1>3

LEMMA PointIs ==
  ASSUME NEW c, NEW at, CtlOk(c)
  PROVE  LET d == [c EXCEPT !.at = at] IN
         CtlOk(d) /\ d.at = at /\ d.pc = c.pc /\ d.inside = c.inside /\ d.expanded = c.expanded
           /\ d.abortFlag = c.abortFlag
<1>1. PICK d : d = [c EXCEPT !.at = at]
  OBVIOUS
<1>2. IsCtl(c)
  BY DEF CtlOk, Built
<1>3. d.at = at /\ d.abortFlag = c.abortFlag
  BY <1>1, <1>2 DEF IsCtl
<1>4. QED
  BY <1>1, <1>3, FlagIs

\* reach_handle
LEMMA ReachIs ==
  ASSUME NEW c, CtlOk(c)
  PROVE  LET d == ReachHandle(c) IN
         CtlOk(d) /\ d.inside = c.inside /\ d.at = c.at /\ d.pc = c.pc /\ d.abortFlag = c.abortFlag
BY OpenIs DEF ReachHandle

\* press_event: only a press of the abort button aborts.
LEMMA PressIs ==
  ASSUME NEW c, CtlOk(c)
  PROVE  LET d == PressEvent(c) IN
         /\ CtlOk(d) /\ d.inside = c.inside /\ d.at = c.at /\ d.pc = c.pc
         /\ d.abortFlag = c.abortFlag \/ c.at = "abort"
<1>1. CASE c.inside /\ ~c.expanded
  BY <1>1, OpenIs DEF PressEvent
<1>2. CASE ~(c.inside /\ ~c.expanded) /\ c.at = "pause"
  <2>1. PICK d : d = [c EXCEPT !.pauseFlag = TRUE]
    OBVIOUS
  <2>2. PressEvent(c) = d
    BY <1>2, <2>1 DEF PressEvent
  <2>3. IsCtl(c)
    BY DEF CtlOk, Built
  <2>4. d.at = c.at /\ d.abortFlag = c.abortFlag
    BY <2>1, <2>3 DEF IsCtl
  <2>5. QED
    BY <2>1, <2>2, <2>4, FlagIs
<1>3. CASE ~(c.inside /\ ~c.expanded) /\ c.at = "abort"
  <2>1. PICK d : d = [c EXCEPT !.abortFlag = TRUE]
    OBVIOUS
  <2>2. PressEvent(c) = d
    BY <1>3, <2>1 DEF PressEvent
  <2>3. IsCtl(c)
    BY DEF CtlOk, Built
  <2>4. d.at = c.at
    BY <2>1, <2>3 DEF IsCtl
  <2>5. QED
    BY <1>3, <2>1, <2>2, <2>4, FlagIs
<1>4. CASE ~(c.inside /\ ~c.expanded) /\ c.at \notin {"pause", "abort"}
  BY <1>4 DEF PressEvent
<1>5. QED
  BY <1>1, <1>2, <1>3, <1>4

-----------------------------------------------------------------------------
(* What every step keeps.                                                  *)

\* The loop knows where the pointer is, and a finger is not down beside it.
HandOk ==
  /\ hand = [on |-> hand.on, at |-> hand.at, finger |-> hand.finger]
  /\ hand.on # "off" => ctl.at = hand.at /\ hand.finger = "up"
  /\ hand.on = "handle" => hand.at = "corner"
  /\ hand.on \in Surfs \cup {"off"}
  /\ ctl.pc # "runs" => hand = NoHand
CtlInv == IsCtl(ctl) /\ (ctl.pc = "runs" => CtlOk(ctl)) /\ HandOk

LEMMA InitCtlInv == ControlsInit => CtlInv
BY DEF ControlsInit, CtlInv, HandOk, NoHand, NoControls, IsCtl, NoSurf, IsSurf

LEMMA StartNext ==
  ASSUME NEW inside \in BOOLEAN, CtlInv, ControlsStart(inside)
  PROVE  CtlInv' /\ ~ctl'.abortFlag
<1>1. PICK c : c = [NoControls EXCEPT !.inside = inside, !.expanded = ~inside, !.pc = "runs"]
  OBVIOUS
<1>2. /\ IsCtl(c) /\ c.inside = inside /\ (c.expanded <=> ~inside) /\ c.pc = "runs" /\ c.k = At(0)
      /\ c.rise = At(0) /\ c.surf["bar"] = NoSurf /\ c.surf["handle"] = NoSurf /\ ~c.abortFlag
  BY <1>1 DEF NoControls, IsCtl, NoSurf, IsSurf
<1>3. PICK s \in Surfs : s = IF inside THEN "handle" ELSE "bar"
  BY DEF Surfs
<1>4. PICK d : d = Create(c, s)
  OBVIOUS
<1>5. ctl' = d /\ hand' = hand /\ ctl.pc = "none"
  BY <1>1, <1>3, <1>4 DEF ControlsStart
<1>6. OnlySurf(d, c, s) /\ d.surf[s].up /\ ~d.surf[s].configured
  BY <1>2, <1>4, CreateIs
<1>7. IsCtl(d) /\ SameCtl(d, c) /\ \A q \in Surfs \ {s} : d.surf[q] = NoSurf
  BY <1>2, <1>6 DEF OnlySurf, Surfs
<1>8. At(0) \in Motions /\ At(0).v = 0
  BY AtIs
<1>9. \A q \in Surfs : ~d.surf[q].configured /\ (d.surf[q].up <=> q = s)
  BY <1>6, <1>7, NoSurfIs
<1>10. CtlOk(d)
  BY <1>2, <1>3, <1>7, <1>8, <1>9
     DEF SameCtl, CtlOk, Built, OutsideIsOpen, BarIsThere, ConfiguredIsUp, BarIsDue, HandleIsDue, Surfs
<1>11. HandOk'
  <2>1. hand = NoHand /\ d.pc = "runs"
    BY <1>2, <1>5, <1>7 DEF CtlInv, HandOk, SameCtl
  <2>2. QED
    BY <1>5, <2>1 DEF HandOk, NoHand
<1>12. QED
  BY <1>2, <1>5, <1>7, <1>10, <1>11 DEF CtlInv, SameCtl

\* The loop's turn, time and the answers of the compositor: hand and place stay.
Untouched == hand' = hand /\ ctl'.at = ctl.at /\ ctl'.pc = ctl.pc /\ ctl'.abortFlag = ctl.abortFlag

LEMMA UntouchedNext ==
  ASSUME CtlInv, ctl.pc = "runs", Untouched, CtlOk(ctl)'
  PROVE  CtlInv'
BY DEF Untouched, CtlInv, HandOk, CtlOk, Built

LEMMA TimeStep ==
  ASSUME CtlInv, CtlTime
  PROVE  CtlOk(ctl)' /\ Untouched
<1>1. CtlOk(ctl) /\ IsCtl(ctl) /\ ctl.k \in Motions /\ ctl.rise \in Motions
  BY DEF CtlTime, Recording, CtlInv, CtlOk, Built
<1>2. PICK k, rise : k = Older(ctl.k) /\ rise = Older(ctl.rise)
  OBVIOUS
<1>3. /\ k \in Motions /\ k.v = ctl.k.v /\ (k.age = 0 <=> ctl.k.age = 0) /\ (ctl.k.age = 0 => k = ctl.k)
      /\ rise \in Motions /\ (ctl.rise.age = 0 => rise = ctl.rise)
  BY <1>1, <1>2, OlderIs
<1>4. PICK d : d = [ctl EXCEPT !.k = k, !.rise = rise]
  OBVIOUS
<1>5. ctl' = d /\ hand' = hand
  BY <1>2, <1>4 DEF CtlTime
<1>6. /\ IsCtl(d) /\ d.k = k /\ d.rise = rise /\ d.surf = ctl.surf /\ d.inside = ctl.inside
      /\ d.expanded = ctl.expanded /\ d.at = ctl.at /\ d.pc = ctl.pc /\ d.abortFlag = ctl.abortFlag
  BY <1>1, <1>4 DEF IsCtl
<1>7. At(0).age = 0
  BY AtIs
<1>8. CtlOk(d)
  BY <1>1, <1>3, <1>6, <1>7
     DEF CtlOk, Built, OutsideIsOpen, BarIsThere, ConfiguredIsUp, BarIsDue, HandleIsDue
<1>9. QED
  BY <1>5, <1>6, <1>8 DEF Untouched

LEMMA TickStep ==
  ASSUME NEW other \in BOOLEAN, NEW free \in BOOLEAN, CtlInv, ControlsTick(other, free)
  PROVE  CtlOk(ctl)' /\ Untouched
BY ClockedIs DEF ControlsTick, Recording, CtlInv, Untouched

LEMMA ToggleStep ==
  ASSUME CtlInv, PauseToggled
  PROVE  CtlOk(ctl)' /\ Untouched
<1>1. CtlOk(ctl) /\ IsCtl(ctl)
  BY DEF PauseToggled, Recording, CtlInv
<1>2. PICK d : d = [ctl EXCEPT !.pauseFlag = ~@]
  OBVIOUS
<1>3. ctl' = d /\ hand' = hand
  BY <1>2 DEF PauseToggled
<1>4. d.at = ctl.at /\ d.abortFlag = ctl.abortFlag
  BY <1>1, <1>2 DEF IsCtl
<1>5. CtlOk(d) /\ d.pc = ctl.pc
  BY <1>1, <1>2, FlagIs
<1>6. QED
  BY <1>3, <1>4, <1>5 DEF Untouched

\* A surface that shows something is drawn, or hidden.
LEMMA ConfiguredStep ==
  ASSUME NEW s \in Surfs, NEW free \in BOOLEAN, CtlInv, CtlConfigured(s, free)
  PROVE  CtlOk(ctl)' /\ Untouched
<1>1. CtlOk(ctl) /\ Built(ctl) /\ IsCtl(ctl) /\ ctl.surf[s].up /\ IsSurf(ctl.surf[s])
  BY SurfIs DEF CtlConfigured, Recording, CtlInv, CtlOk, Built
<1>2. PICK t : t = [ctl.surf[s] EXCEPT !.configured = TRUE]
  OBVIOUS
<1>3. IsSurf(t) /\ t.up /\ t.configured
  BY <1>1, <1>2 DEF IsSurf
<1>4. PICK c : c = [ctl EXCEPT !.surf[s] = t]
  OBVIOUS
<1>5. c = [ctl EXCEPT !.surf[s].configured = TRUE]
  BY <1>2, <1>4
<1>6. ctl' = (IF Visible(c, s) THEN CtlRedraw(c, s, free) ELSE Hide(c, s)) /\ hand' = hand
  BY <1>5 DEF CtlConfigured
<1>7. OnlySurf(c, ctl, s) /\ c.surf[s] = t
  BY <1>1, <1>3, <1>4, Put
<1>8. (Visible(c, s) <=> Visible(ctl, s)) /\ IsCtl(c)
  BY <1>7, SameVisible DEF OnlySurf
<1>9. CASE Visible(c, s)
  <2>1. PICK d : d = CtlRedraw(c, s, free)
    OBVIOUS
  <2>2. OnlySurf(d, c, s) /\ SameSurf(d.surf[s], c.surf[s]) /\ Due(d.surf[s])
    BY <1>3, <1>7, <1>8, <1>9, <2>1, RedrawIs
  <2>3. OnlySurf(d, ctl, s) /\ d.surf[s].up /\ Due(d.surf[s])
    BY <1>3, <1>7, <2>2, OnlyOnly DEF SameSurf
  <2>4. CtlOk(d)
    BY <1>1, <2>3 DEF OnlySurf, SameCtl, CtlOk, Built, OutsideIsOpen, BarIsThere, ConfiguredIsUp,
       BarIsDue, HandleIsDue, Surfs
  <2>5. QED
    BY <1>6, <1>9, <2>1, <2>3, <2>4 DEF Untouched, OnlySurf, SameCtl
<1>10. CASE ~Visible(c, s)
  <2>1. PICK d : d = Hide(c, s)
    OBVIOUS
  <2>2. OnlySurf(d, c, s) /\ ~d.surf[s].up /\ ~d.surf[s].configured
    BY <1>8, <2>1, HideIs
  <2>3. OnlySurf(d, ctl, s)
    BY <1>7, <2>2, OnlyOnly
  <2>4. s = "bar" => ~ctl.expanded /\ ctl.k.v = 0
    BY <1>1, <1>8, <1>10, VisibleIs
  <2>5. CtlOk(d)
    BY <1>1, <2>2, <2>3, <2>4 DEF OnlySurf, SameCtl, CtlOk, Built, OutsideIsOpen, BarIsThere,
       ConfiguredIsUp, BarIsDue, HandleIsDue, Surfs
  <2>6. QED
    BY <1>6, <1>10, <2>1, <2>3, <2>5 DEF Untouched, OnlySurf, SameCtl
<1>11. QED
  BY <1>9, <1>10

LEMMA FrameStep ==
  ASSUME NEW s \in Surfs, NEW free \in BOOLEAN, CtlInv, CtlFrame(s, free)
  PROVE  CtlOk(ctl)' /\ Untouched
<1>1. CtlOk(ctl) /\ Built(ctl) /\ IsCtl(ctl) /\ IsSurf(ctl.surf[s])
  BY SurfIs DEF CtlFrame, Recording, CtlInv, CtlOk, Built
<1>2. PICK t : t = [ctl.surf[s] EXCEPT !.frame = FALSE]
  OBVIOUS
<1>3. IsSurf(t) /\ SameSurf(t, ctl.surf[s]) /\ t.dirty = ctl.surf[s].dirty /\ t.shown = ctl.surf[s].shown
  BY <1>1, <1>2 DEF IsSurf, SameSurf
<1>4. PICK c : c = [ctl EXCEPT !.surf[s] = t]
  OBVIOUS
<1>5. c = [ctl EXCEPT !.surf[s].frame = FALSE]
  BY <1>2, <1>4
<1>6. ctl' = (IF ctl.surf[s].dirty THEN CtlRedraw(c, s, free) ELSE c) /\ hand' = hand
  BY <1>5 DEF CtlFrame
<1>7. OnlySurf(c, ctl, s) /\ c.surf[s] = t /\ IsCtl(c)
  BY <1>1, <1>3, <1>4, Put DEF OnlySurf
<1>8. PICK d : d = IF ctl.surf[s].dirty THEN CtlRedraw(c, s, free) ELSE c
  OBVIOUS
<1>9. OnlySurf(d, ctl, s) /\ SameSurf(d.surf[s], ctl.surf[s]) /\ (Due(ctl.surf[s]) => Due(d.surf[s]))
  <2>1. CASE ctl.surf[s].dirty
    <3>1. OnlySurf(d, c, s) /\ SameSurf(d.surf[s], c.surf[s]) /\ Due(d.surf[s])
      BY <1>3, <1>7, <1>8, <2>1, RedrawIs
    <3>2. QED
      BY <1>3, <1>7, <3>1, OnlyOnly DEF SameSurf
  <2>2. CASE ~ctl.surf[s].dirty
    BY <1>3, <1>7, <1>8, <2>2 DEF Due
  <2>3. QED
    BY <2>1, <2>2
<1>10. CtlOk(d)
  BY <1>1, <1>9 DEF OnlySurf, SameCtl, SameSurf, CtlOk, Built, OutsideIsOpen, BarIsThere,
     ConfiguredIsUp, BarIsDue, HandleIsDue, Surfs
<1>11. QED
  BY <1>6, <1>8, <1>9, <1>10 DEF Untouched, OnlySurf, SameCtl

\* The pointer and the finger.
Aborts == ctl'.abortFlag /\ ~ctl.abortFlag
Meant  == hand'.finger = "abort" \/ (hand.on = "bar" /\ hand.at = "abort")

LEMMA HandIs ==
  ASSUME HandOk
  PROVE  /\ hand.finger # "up" => hand.on = "off"
         /\ \A on, at : LET h == [hand EXCEPT !.on = on, !.at = at]
                        IN h = [on |-> on, at |-> at, finger |-> hand.finger]
         /\ \A f : [hand EXCEPT !.finger = f] = [on |-> hand.on, at |-> hand.at, finger |-> f]
<1>1. hand.finger # "up" => hand.on = "off"
  BY DEF HandOk
<1>2. ASSUME NEW on, NEW at
      PROVE  [hand EXCEPT !.on = on, !.at = at] = [on |-> on, at |-> at, finger |-> hand.finger]
  <2>1. PICK h : h = [hand EXCEPT !.on = on]
    OBVIOUS
  <2>2. h = [on |-> on, at |-> hand.at, finger |-> hand.finger]
    BY <2>1 DEF HandOk
  <2>3. [hand EXCEPT !.on = on, !.at = at] = [h EXCEPT !.at = at]
    BY <2>1
  <2>4. QED
    BY <2>2, <2>3
<1>3. ASSUME NEW f
      PROVE  [hand EXCEPT !.finger = f] = [on |-> hand.on, at |-> hand.at, finger |-> f]
  BY DEF HandOk
<1>4. QED
  BY <1>1, <1>2, <1>3

LEMMA EntersStep ==
  ASSUME NEW s \in Surfs, NEW at \in SpotsOf(s), CtlInv, CtlEnters(s, at)
  PROVE  CtlInv' /\ ~Aborts
<1>1. CtlOk(ctl) /\ ctl.pc = "runs" /\ hand = NoHand /\ HandOk
  BY DEF CtlEnters, Recording, CtlInv
<1>2. PICK c : c = EnterOutput(ctl, at)
  OBVIOUS
<1>3. CtlOk(c) /\ c.at = at /\ c.pc = "runs" /\ c.abortFlag = ctl.abortFlag
  BY <1>1, <1>2, PointIs DEF EnterOutput
<1>4. CtlOk(ctl') /\ ctl'.at = at /\ ctl'.pc = "runs" /\ ctl'.abortFlag = ctl.abortFlag
  BY <1>2, <1>3, ReachIs DEF CtlEnters
<1>5. hand' = [on |-> s, at |-> at, finger |-> "up"]
  <2>1. hand' = [on |-> s, at |-> at, finger |-> hand.finger]
    BY <1>1, HandIs DEF CtlEnters
  <2>2. QED
    BY <1>1, <2>1 DEF NoHand
<1>6. s = "handle" => at = "corner"
  BY DEF SpotsOf
<1>7. QED
  BY <1>4, <1>5, <1>6 DEF CtlInv, HandOk, CtlOk, Built, Aborts

LEMMA TouchStep ==
  ASSUME NEW s \in Surfs, NEW at \in SpotsOf(s), CtlInv, CtlTouch(s, at)
  PROVE  CtlInv' /\ (Aborts => Meant)
<1>1. CtlOk(ctl) /\ ctl.pc = "runs" /\ HandOk /\ hand.on = "off"
  BY DEF CtlTouch, Recording, CtlInv
<1>2. PICK c : c = EnterOutput(ctl, at)
  OBVIOUS
<1>3. CtlOk(c) /\ c.at = at /\ c.pc = "runs" /\ c.abortFlag = ctl.abortFlag
  BY <1>1, <1>2, PointIs DEF EnterOutput
<1>4. /\ CtlOk(ctl') /\ ctl'.at = at /\ ctl'.pc = "runs"
      /\ ctl'.abortFlag = ctl.abortFlag \/ at = "abort"
  BY <1>2, <1>3, PressIs DEF CtlTouch
<1>5. hand' = [on |-> "off", at |-> hand.at, finger |-> IF at = "abort" THEN at ELSE s]
  BY <1>1, HandIs DEF CtlTouch
<1>6. QED
  BY <1>4, <1>5 DEF CtlInv, HandOk, CtlOk, Built, Aborts, Meant

LEMMA LeavesStep ==
  ASSUME CtlInv, CtlLeaves
  PROVE  CtlInv' /\ ~Aborts
<1>1. CtlOk(ctl) /\ ctl.pc = "runs" /\ HandOk
  BY DEF CtlLeaves, Recording, CtlInv
<1>2. ctl' = SetExpanded(ctl, FALSE) \/ ctl' = ctl
  BY DEF CtlLeaves
<1>3. CtlOk(ctl') /\ ctl'.pc = "runs" /\ ctl'.abortFlag = ctl.abortFlag
  BY <1>1, <1>2, CloseIs
<1>4. hand' = [on |-> "off", at |-> "corner", finger |-> hand.finger]
  BY <1>1, HandIs DEF CtlLeaves
<1>5. QED
  BY <1>3, <1>4 DEF CtlInv, HandOk, CtlOk, Built, Aborts

LEMMA MotionStep ==
  ASSUME NEW at \in SpotsOf(hand.on), CtlInv, CtlMotion(at)
  PROVE  CtlInv' /\ ~Aborts
<1>1. CtlOk(ctl) /\ ctl.pc = "runs" /\ HandOk /\ hand.on # "off"
  BY DEF CtlMotion, Recording, CtlInv
<1>2. PICK c : c = [ctl EXCEPT !.at = at]
  OBVIOUS
<1>3. CtlOk(c) /\ c.at = at /\ c.pc = "runs" /\ c.abortFlag = ctl.abortFlag
  BY <1>1, <1>2, PointIs
<1>4. CtlOk(ctl') /\ ctl'.at = at /\ ctl'.pc = "runs" /\ ctl'.abortFlag = ctl.abortFlag
  BY <1>2, <1>3, ReachIs DEF CtlMotion
<1>5. hand' = [on |-> hand.on, at |-> at, finger |-> hand.finger]
  BY <1>1 DEF CtlMotion, HandOk
<1>6. hand.on = "handle" => at = "corner"
  BY DEF SpotsOf
<1>7. QED
  BY <1>1, <1>4, <1>5, <1>6 DEF CtlInv, HandOk, CtlOk, Built, Aborts

LEMMA ButtonStep ==
  ASSUME CtlInv, CtlButton
  PROVE  CtlInv' /\ (Aborts => Meant)
<1>1. CtlOk(ctl) /\ ctl.pc = "runs" /\ HandOk /\ hand.on # "off"
  BY DEF CtlButton, Recording, CtlInv
<1>2. /\ CtlOk(ctl') /\ ctl'.at = ctl.at /\ ctl'.pc = "runs"
      /\ ctl'.abortFlag = ctl.abortFlag \/ ctl.at = "abort"
  BY <1>1, PressIs DEF CtlButton
<1>3. hand' = hand
  BY DEF CtlButton
<1>4. QED
  BY <1>1, <1>2, <1>3 DEF CtlInv, HandOk, CtlOk, Built, Aborts, Meant, Surfs

LEMMA FingerStep ==
  ASSUME CtlInv,
         \/ \E at \in SpotsOf("bar") : CtlDrag(at)
         \/ \E other \in BOOLEAN : CtlLifts(other)
         \/ CtlCancels
  PROVE  CtlInv' /\ ~Aborts
<1>1. CtlOk(ctl) /\ ctl.pc = "runs" /\ HandOk /\ hand.on = "off"
  BY HandIs DEF CtlDrag, CtlLifts, CtlCancels, Recording, CtlInv
<1>2. CtlOk(ctl') /\ ctl'.pc = "runs" /\ ctl'.abortFlag = ctl.abortFlag
  <2>1. CASE \E at \in SpotsOf("bar") : CtlDrag(at)
    BY <1>1, <2>1, PointIs DEF CtlDrag
  <2>2. CASE \E other \in BOOLEAN : CtlLifts(other)
    BY <1>1, <2>2, CloseIs DEF CtlLifts
  <2>3. CASE CtlCancels
    BY <1>1, <2>3 DEF CtlCancels
  <2>4. QED
    BY <2>1, <2>2, <2>3
<1>3. hand' = hand \/ hand' = NoHand
  BY DEF CtlDrag, CtlLifts, CtlCancels
<1>4. QED
  BY <1>1, <1>2, <1>3 DEF CtlInv, HandOk, CtlOk, Built, Aborts, NoHand

LEMMA StopStep ==
  ASSUME CtlInv, ControlsStop
  PROVE  CtlInv' /\ ~Aborts
BY DEF ControlsStop, CtlInv, HandOk, NoHand, NoControls, IsCtl, NoSurf, IsSurf, Aborts

LEMMA NextCtl ==
  ASSUME CtlInv, [ControlsNext]_ctlVars
  PROVE  CtlInv' /\ (Aborts => Meant)
<1>1. ASSUME CtlOk(ctl)' /\ Untouched /\ ctl.pc = "runs"
      PROVE  CtlInv' /\ ~Aborts
  BY <1>1, UntouchedNext DEF Untouched, Aborts
<1>2. ASSUME NEW inside \in BOOLEAN, ControlsStart(inside)
      PROVE  CtlInv' /\ ~Aborts
  BY <1>2, StartNext DEF Aborts
<1>3. CASE PauseToggled
  <2>1. ctl.pc = "runs"
    BY <1>3 DEF PauseToggled, Recording
  <2>2. QED
    BY <1>1, <1>3, <2>1, ToggleStep
<1>4. CASE CtlTime
  <2>1. ctl.pc = "runs"
    BY <1>4 DEF CtlTime, Recording
  <2>2. QED
    BY <1>1, <1>4, <2>1, TimeStep
<1>5. ASSUME NEW free \in BOOLEAN, NEW other \in BOOLEAN, ControlsTick(other, free)
      PROVE  CtlInv' /\ ~Aborts
  <2>1. ctl.pc = "runs"
    BY <1>5 DEF ControlsTick, Recording
  <2>2. QED
    BY <1>1, <1>5, <2>1, TickStep
<1>6. ASSUME NEW free \in BOOLEAN, NEW s \in Surfs, CtlConfigured(s, free) \/ CtlFrame(s, free)
      PROVE  CtlInv' /\ ~Aborts
  <2>1. ctl.pc = "runs"
    BY <1>6 DEF CtlConfigured, CtlFrame, Recording
  <2>2. QED
    BY <1>1, <1>6, <2>1, ConfiguredStep, FrameStep
<1>7. CASE UNCHANGED ctlVars
  BY <1>7 DEF ctlVars, CtlInv, CtlOk, Built, OutsideIsOpen, BarIsThere, ConfiguredIsUp, BarIsDue,
     HandleIsDue, HandOk, Aborts, IsCtl, Due
<1>8. QED
  BY <1>2, <1>3, <1>4, <1>5, <1>6, <1>7, StopStep, EntersStep, TouchStep, LeavesStep, MotionStep,
     ButtonStep, FingerStep DEF ControlsNext

-----------------------------------------------------------------------------
(* When nothing moves any more.                                            *)

\* A turn that changes nothing leaves the motions and what is there.
LEMMA TurnIsStill ==
  ASSUME NEW c, NEW free, CtlOk(c), c.inside, Animated(SetPaused(c, free), free) = c
  PROVE  LET m == Risen(Folded(c)) IN
         /\ m.k = c.k /\ m.rise = c.rise
         /\ (m.surf.bar.up <=> c.surf.bar.up) /\ (m.surf.handle.up <=> c.surf.handle.up)
<1>1. PICK p : p = SetPaused(c, free)
  OBVIOUS
<1>2. Built(p) /\ ShowingIsDue(p) /\ p.paused = c.pauseFlag
  BY <1>1, SetPausedIs
<1>3. SameFlags(c, p)
  BY <1>1, <1>2, AnimatedIs
<1>4. p = c
  BY <1>1, <1>2, <1>3 DEF SetPaused, SameFlags
<1>5. PICK m : m = Risen(Folded(c))
  OBVIOUS
<1>6. m = c \/ CtlRedrawAll(Outdated(m), free) = c
  BY <1>1, <1>4, <1>5 DEF Animated
<1>7. CASE m = c
  BY <1>5, <1>7
<1>8. CASE CtlRedrawAll(Outdated(m), free) = c
  <2>1. IsCtl(m)
    <3>1. PICK f : f = Folded(c)
      OBVIOUS
    <3>2. Built(f) /\ TurnDone(f) /\ f.inside
      BY <3>1, FoldedIs DEF CtlOk, SameFlags
    <3>3. QED
      BY <1>5, <3>1, <3>2, RisenIs DEF Built
  <2>2. PICK o : o = Outdated(m)
    OBVIOUS
  <2>3. /\ IsCtl(o) /\ SameCtl(o, m)
        /\ SameSurf(o.surf.bar, m.surf.bar) /\ SameSurf(o.surf.handle, m.surf.handle)
    BY <2>1, <2>2, OutdatedIs
  <2>4. SameCtl(c, o) /\ SameSurf(c.surf.bar, o.surf.bar) /\ SameSurf(c.surf.handle, o.surf.handle)
    BY <1>8, <2>2, <2>3, RedrawAllIs
  <2>5. QED
    BY <1>5, <2>3, <2>4 DEF SameCtl, SameSurf
<1>9. QED
  BY <1>6, <1>7, <1>8

LEMMA Resting ==
  ASSUME NEW c, NEW free, CtlOk(c), c.k.age = 0, c.rise.age = 0,
         c.inside => Animated(SetPaused(c, free), free) = c
  PROVE  LET s == IF c.inside /\ ~c.expanded THEN "handle" ELSE "bar" IN
         /\ c.surf[s].up /\ Visible(c, s)
         /\ \A q \in Surfs \ {s} : c.surf[q].up => q = "handle" /\ c.rise.v = 0
         /\ c.surf[s].configured => c.surf[s].shown = "now" \/ c.surf[s].dirty
<1>1. Built(c) /\ BarIsDue(c) /\ HandleIsDue(c)
  BY DEF CtlOk
<1>2. CASE ~c.inside
  BY <1>1, <1>2, VisibleIs DEF Built, OutsideIsOpen, BarIsThere, BarIsDue, Due, Surfs
<1>3. ASSUME c.inside
      PROVE  /\ c.expanded => c.rise.v = 0
             /\ ~c.expanded => c.k.v = 0 /\ c.surf.handle.up /\ ~c.surf.bar.up
  <2>1. PICK f : f = Folded(c)
    OBVIOUS
  <2>2. /\ Built(f) /\ TurnDone(f) /\ f.inside /\ f.expanded = c.expanded
        /\ ~c.expanded /\ f.k.age = 0 => f.k.v = 0
    BY <1>1, <1>3, <2>1, FoldedIs DEF SameFlags
  <2>3. PICK m : m = Risen(f)
    OBVIOUS
  <2>4. /\ Built(m) /\ TurnDone(m) /\ m.inside /\ m.expanded = c.expanded /\ m.k = f.k
        /\ ~f.expanded /\ f.k.v = 0 => m.surf.handle.up
        /\ m.rise.age = 0 /\ ~(~f.expanded /\ f.k.v = 0) => m.rise.v = 0
    BY <2>2, <2>3, RisenIs DEF SameFlags
  <2>5. /\ m.k = c.k /\ m.rise = c.rise
        /\ (m.surf.bar.up <=> c.surf.bar.up) /\ (m.surf.handle.up <=> c.surf.handle.up)
    BY <1>3, <2>1, <2>3, TurnIsStill
  <2>6. CASE c.expanded
    BY <2>2, <2>4, <2>5, <2>6
  <2>7. CASE ~c.expanded
    <3>1. c.k.v = 0 /\ c.surf.handle.up
      BY <2>2, <2>4, <2>5, <2>7
    <3>2. ~Visible(m, "bar")
      BY <2>4, <2>5, <2>7, <3>1, VisibleIs
    <3>3. QED
      BY <2>4, <2>5, <2>7, <3>1, <3>2 DEF TurnDone
  <2>8. QED
    BY <2>6, <2>7
<1>4. CASE c.inside /\ c.expanded
  BY <1>1, <1>3, <1>4, VisibleIs DEF Built, BarIsThere, BarIsDue, Due, Surfs
<1>5. CASE c.inside /\ ~c.expanded
  BY <1>1, <1>3, <1>5, VisibleIs DEF HandleIsDue, Due, Surfs
<1>6. QED
  BY <1>2, <1>4, <1>5

LEMMA CtlInvMeans == CtlInv => ControlsAtRest
<1> SUFFICES ASSUME CtlInv, Recording, ctl.k.age = 0, ctl.rise.age = 0, Clocked(ctl, FALSE, TRUE) = ctl
             PROVE  LET s == IF ctl.inside /\ ~ctl.expanded THEN "handle" ELSE "bar" IN
                    /\ ctl.surf[s].up /\ Visible(ctl, s)
                    /\ \A q \in Surfs \ {s} : ctl.surf[q].up => q = "handle" /\ ctl.rise.v = 0
                    /\ ctl.surf[s].configured => ctl.surf[s].shown = "now" \/ ctl.surf[s].dirty
  BY DEF ControlsAtRest
<1>1. CtlOk(ctl)
  BY DEF Recording, CtlInv
<1>2. Animated(SetPaused(ctl, TRUE), TRUE) = ctl
  BY DEF Clocked
<1>3. QED
  BY <1>1, <1>2, Resting

-----------------------------------------------------------------------------
(* The parts of Footage are checked side by side: a step of one leaves the *)
(* others alone.                                                           *)

LEMMA FootageSteps ==
  [FootageNext]_footageVars =>
    [TraceNext]_allVars /\ [ClockNext]_clockVars /\ [CastNext]_castVars /\ [ControlsNext]_ctlVars
BY DEF FootageNext, OnlyPart, footageVars

LEMMA FrameAlways == FootageSpec => []FrameInv
<1>1. FootageInit => FrameInv
  BY InitFrameInv DEF FootageInit
<1>2. QED
  BY <1>1, NextFrameInv, FootageSteps, PTL DEF FootageSpec

\* The totals ring.popped and ring.dropped account for every capture that did
\* not fail, for any capacity, pool and interleaving of the threads.
THEOREM Accounting == FootageSpec => []EveryAttemptAccounted
<1>1. FrameInv => EveryAttemptAccounted
  BY DEF FrameInv, TInv
<1>2. QED
  BY <1>1, FrameAlways, PTL

\* The encoder gets the frames in the order of their capture, from either
\* source, whatever is evicted and wherever the ring wraps.
THEOREM OrderOfCapture == FootageSpec => EncodedInCaptureOrder
<1>1. FrameInv /\ [TraceNext]_allVars => [popped' # popped => lastOut' > lastOut]_allVars
  BY OrderNext
<1>2. QED
  BY <1>1, FrameAlways, FootageSteps, PTL DEF FootageSpec, EncodedInCaptureOrder

\* A recording of wlr frames never writes one that was taken while paused.  A
\* screencast may: PipeWire's thread delivers frames until pw_capture_set_paused
\* has stopped it.  Hence the hypothesis.
THEOREM PauseIsNotFilmed ==
  ASSUME ~PipeWire
  PROVE  FootageSpec => []PausedTimeNeverWritten
<1>1. FrameInv => PausedTimeNeverWritten
  BY DEF FrameInv, NoneLate, PausedTimeNeverWritten
<1>2. QED
  BY <1>1, FrameAlways, PTL

\* A recording has no more frames than its time, its length is the time it ran,
\* and the loop neither races to catch up nor waits too long: at any rate, with
\* any number of segments, however the calls stall.
THEOREM TimeIsKept == FootageSpec => []FootageKeepsTime
<1>1. FootageInit => ClockInv
  BY InitClockInv DEF FootageInit
<1>2. ClockInv /\ [ClockNext]_clockVars => ClockInv'
  BY ClockTypesNext, RunIsCountedNext, TimeNext DEF ClockInv
<1>3. QED
  BY <1>1, <1>2, ClockInvMeans, FootageSteps, PTL DEF FootageSpec

\* A frame of the stream never exceeds its buffer, whenever the format changes,
\* and no announcement of the node is missed, for all sizes and any patience.
THEOREM CastIsHeard == FootageSpec => []CastIsSound
<1>1. FootageInit => CastInv
  BY InitCastInv DEF FootageInit
<1>2. CastInv /\ [CastNext]_castVars => CastInv'
  BY CastsNext, StreamsNext, GiversNext DEF CastInv, CastTypes
<1>3. CastInv => CastIsSound
  BY DEF CastInv, BuffersAreBound, SignalIsHeard, CastIsSound
<1>4. QED
  BY <1>1, <1>2, <1>3, FootageSteps, PTL DEF FootageSpec

LEMMA CtlAlways == FootageSpec => []CtlInv
<1>1. FootageInit => CtlInv
  BY InitCtlInv DEF FootageInit
<1>2. QED
  BY <1>1, NextCtl, FootageSteps, PTL DEF FootageSpec

\* When the loop has nothing more to move, the surface that should show is
\* there and its picture is right or due, and the other one is gone or is empty:
\* for any length of the motions, however the pointer and the finger came and
\* went while the bar unfolded or folded, and whatever the pool had.
THEOREM ControlsComeToRest == FootageSpec => []ControlsAtRest
BY CtlAlways, CtlInvMeans, PTL

\* A recording is aborted only by a press of the abort button, with the pointer
\* or with a finger, though the surfaces come and go under them.
THEOREM PressesAreMeant == FootageSpec => PressIsMeant
<1>1. CtlInv /\ [ControlsNext]_ctlVars =>
        [ctl'.abortFlag /\ ~ctl.abortFlag =>
           hand'.finger = "abort" \/ (hand.on = "bar" /\ hand.at = "abort")]_ctlVars
  BY NextCtl DEF Aborts, Meant
<1>2. QED
  BY <1>1, CtlAlways, FootageSteps, PTL DEF FootageSpec, PressIsMeant

=============================================================================
