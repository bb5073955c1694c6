--------------------------- MODULE RecordingProofs ---------------------------
(***************************************************************************)
(* What a recording promises, for any number of segments and whether or    *)
(* not ffmpeg may fail: nothing that was encoded is lost, and it ends the  *)
(* way it was asked to.  Its tray follows what was requested, and the pid  *)
(* file names the one process that records.                                *)
(***************************************************************************)
EXTENDS Recording, TLAPS

-----------------------------------------------------------------------------
(* The session: its segments, their children and their files.              *)

Files    == {"none", "part", "whole"}
Children == {"none", "run", "killed", "ok", "bad", "reaped"}

\* The main thread waits for the child of the segment it just ended.
CurWaits == {"waitThread", "waitPause", "waitFinish", "waitError"}

\* Nothing has been put together yet.
BeforeOutput == SessionPcs \ {"concat", "publish", "compress", "upload", "over"}

\* The output holds every segment.
Published == {"publish", "compress", "upload"}

\* Every child is reaped.
Quiet == {"discard", "assemble", "concat", "over"} \cup Published

SessTypes ==
  /\ sessPc \in SessionPcs /\ opts \in [upload : BOOLEAN, keep : BOOLEAN, shrink : BOOLEAN]
  /\ nSegs \in 0 .. MaxSegs /\ cur \in 0 .. nSegs
  /\ child \in [Segs -> Children] /\ file \in [Segs -> Files]
  /\ pending \subseteq 1 .. nSegs /\ shot \subseteq 1 .. nSegs

\* The abort flag is up before the stop flag of an abort is, and whoever left
\* the loop has read the one after the other.
AbortOrder ==
  /\ recStop <=> stopCause # "none"
  /\ inAbort \/ stopCause = "abort" => abort
  /\ sessPc = "leave" \/ aborted # "unread" => recStop
  /\ stopCause = "abort" /\ aborted # "unread" => aborted = "yes"
  /\ sessPc \in {"kill", "reapKilled", "discard"} => aborted = "yes"

\* The pipe is open and cur is set while an encoder runs or its child is waited
\* for, and who has no children left waits for none.
Control ==
  /\ fdOpen <=> encRunning
  /\ cur # 0 <=> encRunning \/ sessPc \in CurWaits
  /\ encRunning => sessPc \in {"pool", "loop", "leave", "finish", "errFinish"}
  /\ sessPc = "begin" => nSegs = 0 /\ pending = {}
  /\ sessPc = "loop" => (paused <=> ~encRunning)
  /\ sessPc \in {"begin", "pool"} => ~paused
  /\ sessPc = "pool" => encRunning
  /\ sessPc = "waitPause" => paused
  /\ sessPc \notin {"begin", "errFinish", "errReap", "over"} => nSegs > 0
  /\ sessPc \in Quiet => pending = {}

\* A child that is not reaped is the current one or pending, and never both.
ChildrenHeld ==
  /\ \A k \in Segs : child[k] = "none" <=> k > nSegs
  /\ \A k \in Segs : child[k] \notin {"none", "reaped"} => k = cur \/ k \in pending
  /\ \A k \in pending : child[k] # "reaped" /\ k # cur
  /\ cur # 0 => child[cur] # "reaped"

\* A segment counts as shot from the end of its encoder on; one that was reaped
\* without is a failure.
ShotIsKnown ==
  /\ \A k \in Segs : child[k] = "ok" => k \in shot
  /\ \A k \in shot : child[k] \in {"ok", "reaped"}
  /\ sessPc \notin {"errFinish", "waitError", "errReap", "over"} /\ ~failed =>
       \A k \in Segs : child[k] = "reaped" => k \in shot

\* Where the footage is.
FilesHeld ==
  /\ \A k \in Segs : k > nSegs => file[k] = "none"
  /\ sessPc \in BeforeOutput => out = "none" /\ tmp = "none" /\ tool = "none"
  /\ sessPc \in BeforeOutput \cup {"concat"} \/ result = "failed" => \A k \in shot : file[k] = "whole"
  /\ sessPc \in Published \cup {"concat"} => ~failed /\ shot = 1 .. nSegs
  /\ sessPc \in Published => out = "whole" /\ outSegs = 1 .. nSegs
  /\ sessPc = "concat" => tool # "none" /\ tmp = "none"
                          /\ (tool = "ok" => out = "whole" /\ outSegs = 1 .. nSegs)
  /\ sessPc = "compress" => tool # "none" /\ (tool = "ok" => tmp = "whole")
  /\ sessPc \notin {"concat", "compress"} => tool = "none"
  /\ sessPc \notin {"concat", "compress", "over"} => tmp = "none"

\* How it ended says what is left.
EndIsKnown ==
  /\ result # "none" <=> sessPc = "over"
  /\ result = "ok" => uploaded \/ (out = "whole" /\ shot \subseteq outSegs)
  /\ result = "aborted" => aborted = "yes" /\ out = "none" /\ tmp = "none" /\ \A k \in Segs : file[k] = "none"
  /\ result \in {"none", "ok", "failed", "aborted", "error"}

SessInv == SessTypes /\ AbortOrder /\ Control /\ ChildrenHeld /\ ShotIsKnown /\ FilesHeld /\ EndIsKnown

LEMMA SessInitInv == SessionInit => SessInv
<1> SUFFICES ASSUME SessionInit PROVE SessInv
  OBVIOUS
<1> USE MaxSegsAssumption DEF SessionInit, Segs, Quiet, Published, BeforeOutput, CurWaits
<1>1. SessTypes
  BY DEF SessTypes, SessionPcs, Children, Files
<1>2. AbortOrder /\ Control
  BY DEF AbortOrder, Control
<1>3. ChildrenHeld /\ ShotIsKnown
  BY DEF ChildrenHeld, ShotIsKnown
<1>4. FilesHeld /\ EndIsKnown
  BY DEF FilesHeld, EndIsKnown
<1> QED
  BY <1>1, <1>2, <1>3, <1>4 DEF SessInv


\* When every child was reaped without a failure, every segment was shot.
LEMMA AllShot ==
  ASSUME SessTypes, Control, ChildrenHeld, ShotIsKnown, sessPc = "assemble", ~failed
  PROVE  shot = 1 .. nSegs
<1> USE MaxSegsAssumption DEF SessTypes, Segs
<1>1. cur = 0 /\ pending = {}
  BY DEF Control, CurWaits, Quiet
<1>2. \A k \in 1 .. nSegs : k \in Segs /\ child[k] = "reaped"
  BY <1>1 DEF ChildrenHeld
<1>3. \A k \in 1 .. nSegs : k \in shot
  BY <1>2 DEF ShotIsKnown
<1> QED
  BY <1>3

\* Every variable keeps its type.
LEMMA SessTypesNext == SessTypes /\ Control /\ ChildrenHeld /\ [SessionNext]_sessionVars => SessTypes'
<1> SUFFICES ASSUME SessTypes, Control, ChildrenHeld, [SessionNext]_sessionVars PROVE SessTypes'
  OBVIOUS
<1> USE MaxSegsAssumption DEF SessTypes, Control, ChildrenHeld, Segs, SessionPcs, Children, Files,
  CurWaits, SessionGoto, flagVars, segVars, outVars, ctlVars
<1>1. ASSUME NEW k \in Segs, ChildOpensFile(k)
      PROVE  SessTypes'
  BY <1>1 DEF ChildOpensFile
<1>2. ASSUME NEW k \in Segs, ChildEnds(k)
      PROVE  SessTypes'
  <2>1. (sessPc \in SessionPcs /\ opts \in [upload : BOOLEAN, keep : BOOLEAN, shrink : BOOLEAN])'
    BY <1>2 DEF ChildEnds
  <2>2. (nSegs \in 0 .. MaxSegs /\ cur \in 0 .. nSegs)'
    BY <1>2 DEF ChildEnds
  <2>3. (child \in [Segs -> Children] /\ file \in [Segs -> Files])'
    BY <1>2 DEF ChildEnds
  <2>4. (pending \subseteq 1 .. nSegs /\ shot \subseteq 1 .. nSegs)'
    BY <1>2 DEF ChildEnds
  <2> QED
    BY <2>1, <2>2, <2>3, <2>4
<1>3. ASSUME NEW k \in Segs, ChildDies(k)
      PROVE  SessTypes'
  BY <1>3 DEF ChildDies
<1>4. ASSUME NEW k \in Segs, ChildFails(k)
      PROVE  SessTypes'
  BY <1>4 DEF ChildFails
<1>5. CASE ToolWrites \/ ToolEnds \/ ToolFails
  BY <1>5 DEF ToolWrites, ToolRuns, ToolEnds, ToolFails
<1>6. CASE EncoderSeesDeath \/ SourceLost \/ SignalStop \/ SignalPause \/ SignalAbort
  BY <1>6 DEF EncoderSeesDeath, AskStop, SourceLost, SignalStop, ToolInterrupted, SignalPause,
    SignalAbort
<1>7. CASE BeginFirst
  <2>1. CASE sessPc' = "pool" /\ SegBegin
    <3>1. (sessPc \in SessionPcs /\ opts \in [upload : BOOLEAN, keep : BOOLEAN, shrink : BOOLEAN])'
      BY <1>7, <2>1 DEF BeginFirst, SegBegin, Spawn
    <3>2. (nSegs \in 0 .. MaxSegs /\ cur \in 0 .. nSegs)'
      BY <1>7, <2>1 DEF BeginFirst, SegBegin, Spawn
    <3>3. (child \in [Segs -> Children] /\ file \in [Segs -> Files])'
      BY <1>7, <2>1 DEF BeginFirst, SegBegin, Spawn
    <3>4. (pending \subseteq 1 .. nSegs /\ shot \subseteq 1 .. nSegs)'
      BY <1>7, <2>1 DEF BeginFirst, SegBegin, Spawn
    <3> QED
      BY <3>1, <3>2, <3>3, <3>4
  <2>2. CASE sessPc' = "waitThread" /\ SegBeginNoThread
    <3>1. (sessPc \in SessionPcs /\ opts \in [upload : BOOLEAN, keep : BOOLEAN, shrink : BOOLEAN])'
      BY <1>7, <2>2 DEF BeginFirst, SegBeginNoThread, Spawn
    <3>2. (nSegs \in 0 .. MaxSegs /\ cur \in 0 .. nSegs)'
      BY <1>7, <2>2 DEF BeginFirst, SegBeginNoThread, Spawn
    <3>3. (child \in [Segs -> Children] /\ file \in [Segs -> Files])'
      BY <1>7, <2>2 DEF BeginFirst, SegBeginNoThread, Spawn
    <3>4. (pending \subseteq 1 .. nSegs /\ shot \subseteq 1 .. nSegs)'
      BY <1>7, <2>2 DEF BeginFirst, SegBeginNoThread, Spawn
    <3> QED
      BY <3>1, <3>2, <3>3, <3>4
  <2>3. CASE sessPc' = "errFinish" /\ UNCHANGED segVars
    BY <1>7, <2>3 DEF BeginFirst
  <2> QED
    BY <1>7, <2>1, <2>2, <2>3 DEF BeginFirst
<1>8. CASE PoolInit
  BY <1>8 DEF PoolInit
<1>9. CASE ThreadlessReaped
  BY <1>9 DEF ThreadlessReaped, AskStop, Exited
<1>10. CASE Pause
  <2>1. CASE sessPc' = "loop" /\ SegFinish
    <3>1. (sessPc \in SessionPcs /\ opts \in [upload : BOOLEAN, keep : BOOLEAN, shrink : BOOLEAN])'
      BY <1>10, <2>1 DEF Pause, SegFinish
    <3>2. (nSegs \in 0 .. MaxSegs /\ cur \in 0 .. nSegs)'
      BY <1>10, <2>1 DEF Pause, SegFinish
    <3>3. (child \in [Segs -> Children] /\ file \in [Segs -> Files])'
      BY <1>10, <2>1 DEF Pause, SegFinish
    <3>4. (pending \subseteq 1 .. nSegs /\ shot \subseteq 1 .. nSegs)'
      BY <1>10, <2>1 DEF Pause, SegFinish
    <3> QED
      BY <3>1, <3>2, <3>3, <3>4
  <2>2. CASE sessPc' = "waitPause" /\ SegFinishFull
    <3>1. (sessPc \in SessionPcs /\ opts \in [upload : BOOLEAN, keep : BOOLEAN, shrink : BOOLEAN])'
      BY <1>10, <2>2 DEF Pause, SegFinishFull
    <3>2. (nSegs \in 0 .. MaxSegs /\ cur \in 0 .. nSegs)'
      BY <1>10, <2>2 DEF Pause, SegFinishFull
    <3>3. (child \in [Segs -> Children] /\ file \in [Segs -> Files])'
      BY <1>10, <2>2 DEF Pause, SegFinishFull
    <3>4. (pending \subseteq 1 .. nSegs /\ shot \subseteq 1 .. nSegs)'
      BY <1>10, <2>2 DEF Pause, SegFinishFull
    <3> QED
      BY <3>1, <3>2, <3>3, <3>4
  <2> QED
    BY <1>10, <2>1, <2>2 DEF Pause
<1>11. CASE Resume
  <2>1. CASE sessPc' = "loop" /\ SegBegin
    <3>1. (sessPc \in SessionPcs /\ opts \in [upload : BOOLEAN, keep : BOOLEAN, shrink : BOOLEAN])'
      BY <1>11, <2>1 DEF Resume, SegBegin, Spawn
    <3>2. (nSegs \in 0 .. MaxSegs /\ cur \in 0 .. nSegs)'
      BY <1>11, <2>1 DEF Resume, SegBegin, Spawn
    <3>3. (child \in [Segs -> Children] /\ file \in [Segs -> Files])'
      BY <1>11, <2>1 DEF Resume, SegBegin, Spawn
    <3>4. (pending \subseteq 1 .. nSegs /\ shot \subseteq 1 .. nSegs)'
      BY <1>11, <2>1 DEF Resume, SegBegin, Spawn
    <3> QED
      BY <3>1, <3>2, <3>3, <3>4
  <2>2. CASE sessPc' = "waitThread" /\ SegBeginNoThread
    <3>1. (sessPc \in SessionPcs /\ opts \in [upload : BOOLEAN, keep : BOOLEAN, shrink : BOOLEAN])'
      BY <1>11, <2>2 DEF Resume, SegBeginNoThread, Spawn
    <3>2. (nSegs \in 0 .. MaxSegs /\ cur \in 0 .. nSegs)'
      BY <1>11, <2>2 DEF Resume, SegBeginNoThread, Spawn
    <3>3. (child \in [Segs -> Children] /\ file \in [Segs -> Files])'
      BY <1>11, <2>2 DEF Resume, SegBeginNoThread, Spawn
    <3>4. (pending \subseteq 1 .. nSegs /\ shot \subseteq 1 .. nSegs)'
      BY <1>11, <2>2 DEF Resume, SegBeginNoThread, Spawn
    <3> QED
      BY <3>1, <3>2, <3>3, <3>4
  <2> QED
    BY <1>11, <2>1, <2>2 DEF Resume
<1>12. CASE ResumeFails
  BY <1>12 DEF ResumeFails, AskStop
<1>13. CASE LeaveLoop \/ ReadAbort
  BY <1>13 DEF LeaveLoop, ReadAbort
<1>14. CASE CurReaped("waitPause", "loop")
  BY <1>14 DEF CurReaped, Reap, Exited
<1>15. CASE CurReaped("waitFinish", AfterFinish)
  BY <1>15 DEF CurReaped, Reap, Exited, AfterFinish
<1>16. CASE CurReaped("waitError", "errReap")
  BY <1>16 DEF CurReaped, Reap, Exited
<1>17. CASE Finish
  <2>1. CASE encRunning /\ sessPc' = AfterFinish /\ SegFinish
    <3>1. (sessPc \in SessionPcs /\ opts \in [upload : BOOLEAN, keep : BOOLEAN, shrink : BOOLEAN])'
      BY <1>17, <2>1 DEF Finish, SegFinish, AfterFinish
    <3>2. (nSegs \in 0 .. MaxSegs /\ cur \in 0 .. nSegs)'
      BY <1>17, <2>1 DEF Finish, SegFinish, AfterFinish
    <3>3. (child \in [Segs -> Children] /\ file \in [Segs -> Files])'
      BY <1>17, <2>1 DEF Finish, SegFinish, AfterFinish
    <3>4. (pending \subseteq 1 .. nSegs /\ shot \subseteq 1 .. nSegs)'
      BY <1>17, <2>1 DEF Finish, SegFinish, AfterFinish
    <3> QED
      BY <3>1, <3>2, <3>3, <3>4
  <2>2. CASE encRunning /\ sessPc' = "waitFinish" /\ SegFinishFull
    <3>1. (sessPc \in SessionPcs /\ opts \in [upload : BOOLEAN, keep : BOOLEAN, shrink : BOOLEAN])'
      BY <1>17, <2>2 DEF Finish, SegFinishFull
    <3>2. (nSegs \in 0 .. MaxSegs /\ cur \in 0 .. nSegs)'
      BY <1>17, <2>2 DEF Finish, SegFinishFull
    <3>3. (child \in [Segs -> Children] /\ file \in [Segs -> Files])'
      BY <1>17, <2>2 DEF Finish, SegFinishFull
    <3>4. (pending \subseteq 1 .. nSegs /\ shot \subseteq 1 .. nSegs)'
      BY <1>17, <2>2 DEF Finish, SegFinishFull
    <3> QED
      BY <3>1, <3>2, <3>3, <3>4
  <2>3. CASE ~encRunning /\ sessPc' = AfterFinish /\ UNCHANGED segVars
    BY <1>17, <2>3 DEF Finish, AfterFinish
  <2> QED
    BY <1>17, <2>1, <2>2, <2>3 DEF Finish
<1>18. CASE ErrFinish
  <2>1. CASE encRunning /\ sessPc' = "errReap" /\ SegFinish
    <3>1. (sessPc \in SessionPcs /\ opts \in [upload : BOOLEAN, keep : BOOLEAN, shrink : BOOLEAN])'
      BY <1>18, <2>1 DEF ErrFinish, SegFinish
    <3>2. (nSegs \in 0 .. MaxSegs /\ cur \in 0 .. nSegs)'
      BY <1>18, <2>1 DEF ErrFinish, SegFinish
    <3>3. (child \in [Segs -> Children] /\ file \in [Segs -> Files])'
      BY <1>18, <2>1 DEF ErrFinish, SegFinish
    <3>4. (pending \subseteq 1 .. nSegs /\ shot \subseteq 1 .. nSegs)'
      BY <1>18, <2>1 DEF ErrFinish, SegFinish
    <3> QED
      BY <3>1, <3>2, <3>3, <3>4
  <2>2. CASE encRunning /\ sessPc' = "waitError" /\ SegFinishFull
    <3>1. (sessPc \in SessionPcs /\ opts \in [upload : BOOLEAN, keep : BOOLEAN, shrink : BOOLEAN])'
      BY <1>18, <2>2 DEF ErrFinish, SegFinishFull
    <3>2. (nSegs \in 0 .. MaxSegs /\ cur \in 0 .. nSegs)'
      BY <1>18, <2>2 DEF ErrFinish, SegFinishFull
    <3>3. (child \in [Segs -> Children] /\ file \in [Segs -> Files])'
      BY <1>18, <2>2 DEF ErrFinish, SegFinishFull
    <3>4. (pending \subseteq 1 .. nSegs /\ shot \subseteq 1 .. nSegs)'
      BY <1>18, <2>2 DEF ErrFinish, SegFinishFull
    <3> QED
      BY <3>1, <3>2, <3>3, <3>4
  <2>3. CASE ~encRunning /\ sessPc' = "errReap" /\ UNCHANGED segVars
    BY <1>18, <2>3 DEF ErrFinish
  <2> QED
    BY <1>18, <2>1, <2>2, <2>3 DEF ErrFinish
<1>19. CASE KillPending
  BY <1>19 DEF KillPending
<1>20. CASE ReapAll("reapKilled", "discard")
  BY <1>20 DEF ReapAll, Reap, Exited
<1>21. CASE ReapAll("reap", "assemble")
  BY <1>21 DEF ReapAll, Reap, Exited
<1>22. CASE Poll
  BY <1>22 DEF Poll, Reap, Exited
<1>23. CASE Discard
  BY <1>23 DEF Discard, UnlinkAll
<1>24. CASE ErrReap
  BY <1>24 DEF ErrReap, Reap, Exited, UnlinkAll
<1>25. CASE AssembleFails \/ ConcatStart \/ AssembleOne \/ ConcatDone
  BY <1>25 DEF AssembleFails, ConcatStart, AssembleOne, ConcatDone, UnlinkAll
<1>26. CASE CompressStart \/ CompressSkip \/ CompressDone \/ Upload
  BY <1>26 DEF CompressStart, CompressSkip, CompressDone, Upload
<1>27. CASE UNCHANGED sessionVars
  BY <1>27 DEF sessionVars
<1> QED
  BY <1>1, <1>2, <1>3, <1>4, <1>5, <1>6, <1>7, <1>8, <1>9, <1>10, <1>11, <1>12, <1>13, <1>14, <1>15,
    <1>16, <1>17, <1>18, <1>19, <1>20, <1>21, <1>22, <1>23, <1>24, <1>25, <1>26, <1>27 DEF
    SessionNext, Main, Child, Tool, SessionOver

\* The flags of an abort keep their order.
LEMMA AbortOrderNext == AbortOrder /\ [SessionNext]_sessionVars => AbortOrder'
<1> SUFFICES ASSUME AbortOrder, [SessionNext]_sessionVars PROVE AbortOrder'
  OBVIOUS
<1> USE MaxSegsAssumption DEF AbortOrder, SessionGoto, flagVars, segVars, outVars, ctlVars
<1>1. ASSUME NEW k \in Segs, ChildOpensFile(k) \/ ChildEnds(k) \/ ChildDies(k) \/ ChildFails(k)
      PROVE  AbortOrder'
  BY <1>1 DEF ChildOpensFile, ChildEnds, ChildDies, ChildFails
<1>2. CASE ToolWrites \/ ToolEnds \/ ToolFails
  BY <1>2 DEF ToolWrites, ToolRuns, ToolEnds, ToolFails
<1>3. CASE EncoderSeesDeath \/ SourceLost \/ SignalStop \/ SignalPause \/ SignalAbort
  BY <1>3 DEF EncoderSeesDeath, AskStop, SourceLost, SignalStop, ToolInterrupted, SignalPause,
    SignalAbort
<1>4. CASE BeginFirst \/ PoolInit \/ ThreadlessReaped
  BY <1>4 DEF BeginFirst, SegBegin, SegBeginNoThread, Spawn, PoolInit, ThreadlessReaped, AskStop,
    Exited
<1>5. CASE Pause \/ Resume \/ ResumeFails
  BY <1>5 DEF Pause, SegFinish, SegFinishFull, Resume, SegBegin, SegBeginNoThread, Spawn,
    ResumeFails, AskStop
<1>6. CASE LeaveLoop \/ ReadAbort
  BY <1>6 DEF LeaveLoop, ReadAbort
<1>7. CASE CurReaped("waitPause", "loop") \/ CurReaped("waitFinish", AfterFinish) \/
  CurReaped("waitError", "errReap")
  BY <1>7 DEF CurReaped, Reap, Exited, AfterFinish
<1>8. CASE Finish \/ ErrFinish
  BY <1>8 DEF Finish, SegFinish, SegFinishFull, AfterFinish, ErrFinish
<1>9. CASE KillPending \/ ReapAll("reapKilled", "discard") \/ ReapAll("reap", "assemble") \/ Poll
  BY <1>9 DEF KillPending, ReapAll, Reap, Exited, Poll
<1>10. CASE Discard \/ ErrReap
  BY <1>10 DEF Discard, UnlinkAll, ErrReap, Reap, Exited
<1>11. CASE AssembleFails \/ ConcatStart \/ AssembleOne \/ ConcatDone
  BY <1>11 DEF AssembleFails, ConcatStart, AssembleOne, ConcatDone, UnlinkAll
<1>12. CASE CompressStart \/ CompressSkip \/ CompressDone \/ Upload
  BY <1>12 DEF CompressStart, CompressSkip, CompressDone, Upload
<1>13. CASE UNCHANGED sessionVars
  BY <1>13 DEF sessionVars
<1> QED
  BY <1>1, <1>2, <1>3, <1>4, <1>5, <1>6, <1>7, <1>8, <1>9, <1>10, <1>11, <1>12, <1>13 DEF
    SessionNext, Main, Child, Tool, SessionOver

\* What the main thread has open follows from where it is.
LEMMA ControlNext == SessTypes /\ Control /\ [SessionNext]_sessionVars => Control'
<1> SUFFICES ASSUME SessTypes, Control, [SessionNext]_sessionVars PROVE Control'
  OBVIOUS
<1> USE MaxSegsAssumption DEF SessTypes, Control, Segs, Quiet, Published, CurWaits, SessionGoto,
  flagVars, segVars, outVars, ctlVars
<1>1. ASSUME NEW k \in Segs, ChildOpensFile(k)
      PROVE  Control'
  BY <1>1 DEF ChildOpensFile
<1>2. ASSUME NEW k \in Segs, ChildEnds(k)
      PROVE  Control'
  BY <1>2 DEF ChildEnds
<1>3. ASSUME NEW k \in Segs, ChildDies(k)
      PROVE  Control'
  BY <1>3 DEF ChildDies
<1>4. ASSUME NEW k \in Segs, ChildFails(k)
      PROVE  Control'
  BY <1>4 DEF ChildFails
<1>5. CASE ToolWrites
  BY <1>5 DEF ToolWrites, ToolRuns
<1>6. CASE ToolEnds
  BY <1>6 DEF ToolEnds
<1>7. CASE ToolFails
  BY <1>7 DEF ToolFails
<1>8. CASE EncoderSeesDeath
  BY <1>8 DEF EncoderSeesDeath, AskStop
<1>9. CASE SourceLost
  BY <1>9 DEF SourceLost, AskStop
<1>10. CASE SignalStop
  BY <1>10 DEF SignalStop, AskStop, ToolInterrupted
<1>11. CASE SignalPause
  BY <1>11 DEF SignalPause, ToolInterrupted
<1>12. CASE SignalAbort
  BY <1>12 DEF SignalAbort, AskStop, ToolInterrupted
<1>13. CASE BeginFirst
  <2>1. CASE sessPc' = "pool" /\ SegBegin
    BY <1>13, <2>1 DEF BeginFirst, SegBegin, Spawn
  <2>2. CASE sessPc' = "waitThread" /\ SegBeginNoThread
    BY <1>13, <2>2 DEF BeginFirst, SegBeginNoThread, Spawn
  <2>3. CASE sessPc' = "errFinish" /\ UNCHANGED segVars
    BY <1>13, <2>3 DEF BeginFirst
  <2> QED
    BY <1>13, <2>1, <2>2, <2>3 DEF BeginFirst
<1>14. CASE PoolInit
  <2>1. (fdOpen <=> encRunning)'
    BY <1>14 DEF PoolInit
  <2>2. (cur # 0 <=> encRunning \/ sessPc \in CurWaits)'
    BY <1>14 DEF PoolInit
  <2>3. (encRunning => sessPc \in {"pool", "loop", "leave", "finish", "errFinish"})'
    BY <1>14 DEF PoolInit
  <2>4. (sessPc = "begin" => nSegs = 0 /\ pending = {})'
    BY <1>14 DEF PoolInit
  <2>5. (sessPc = "loop" => (paused <=> ~encRunning))'
    BY <1>14 DEF PoolInit
  <2>6. (sessPc \in {"begin", "pool"} => ~paused)'
    BY <1>14 DEF PoolInit
  <2>7. (sessPc = "pool" => encRunning)'
    BY <1>14 DEF PoolInit
  <2>8. (sessPc = "waitPause" => paused)'
    BY <1>14 DEF PoolInit
  <2>9. (sessPc \notin {"begin", "errFinish", "errReap", "over"} => nSegs > 0)'
    BY <1>14 DEF PoolInit
  <2>10. (sessPc \in Quiet => pending = {})'
    BY <1>14 DEF PoolInit
  <2> QED
    BY <2>1, <2>2, <2>3, <2>4, <2>5, <2>6, <2>7, <2>8, <2>9, <2>10
<1>15. CASE ThreadlessReaped
  BY <1>15 DEF ThreadlessReaped, AskStop, Exited
<1>16. CASE Pause \/ Resume \/ ResumeFails
  BY <1>16 DEF Pause, SegFinish, SegFinishFull, Resume, SegBegin, SegBeginNoThread, Spawn,
    ResumeFails, AskStop
<1>17. CASE LeaveLoop \/ ReadAbort
  BY <1>17 DEF LeaveLoop, ReadAbort
<1>18. CASE CurReaped("waitPause", "loop")
  <2>1. (fdOpen <=> encRunning)'
    BY <1>18 DEF CurReaped, Reap, Exited
  <2>2. (cur # 0 <=> encRunning \/ sessPc \in CurWaits)'
    BY <1>18 DEF CurReaped, Reap, Exited
  <2>3. (encRunning => sessPc \in {"pool", "loop", "leave", "finish", "errFinish"})'
    BY <1>18 DEF CurReaped, Reap, Exited
  <2>4. (sessPc = "begin" => nSegs = 0 /\ pending = {})'
    BY <1>18 DEF CurReaped, Reap, Exited
  <2>5. (sessPc = "loop" => (paused <=> ~encRunning))'
    BY <1>18 DEF CurReaped, Reap, Exited
  <2>6. (sessPc \in {"begin", "pool"} => ~paused)'
    BY <1>18 DEF CurReaped, Reap, Exited
  <2>7. (sessPc = "pool" => encRunning)'
    BY <1>18 DEF CurReaped, Reap, Exited
  <2>8. (sessPc = "waitPause" => paused)'
    BY <1>18 DEF CurReaped, Reap, Exited
  <2>9. (sessPc \notin {"begin", "errFinish", "errReap", "over"} => nSegs > 0)'
    BY <1>18 DEF CurReaped, Reap, Exited
  <2>10. (sessPc \in Quiet => pending = {})'
    BY <1>18 DEF CurReaped, Reap, Exited
  <2> QED
    BY <2>1, <2>2, <2>3, <2>4, <2>5, <2>6, <2>7, <2>8, <2>9, <2>10
<1>19. CASE CurReaped("waitFinish", AfterFinish)
  BY <1>19 DEF CurReaped, Reap, Exited, AfterFinish
<1>20. CASE CurReaped("waitError", "errReap")
  BY <1>20 DEF CurReaped, Reap, Exited
<1>21. CASE Finish \/ ErrFinish
  BY <1>21 DEF Finish, SegFinish, SegFinishFull, AfterFinish, ErrFinish
<1>22. CASE KillPending \/ ReapAll("reapKilled", "discard") \/ ReapAll("reap", "assemble") \/ Poll
  BY <1>22 DEF KillPending, ReapAll, Reap, Exited, Poll
<1>23. CASE Discard
  BY <1>23 DEF Discard, UnlinkAll
<1>24. CASE ErrReap
  BY <1>24 DEF ErrReap, Reap, Exited, UnlinkAll
<1>25. CASE AssembleFails
  BY <1>25 DEF AssembleFails
<1>26. CASE ConcatStart
  BY <1>26 DEF ConcatStart
<1>27. CASE AssembleOne
  BY <1>27 DEF AssembleOne
<1>28. CASE ConcatDone
  <2>1. CASE tool = "ok" /\ sessPc' = "publish"
    BY <1>28, <2>1 DEF ConcatDone, UnlinkAll
  <2>2. CASE tool = "bad" /\ sessPc' = "over"
    BY <1>28, <2>2 DEF ConcatDone
  <2> QED
    BY <1>28, <2>1, <2>2 DEF ConcatDone
<1>29. CASE CompressStart
  BY <1>29 DEF CompressStart
<1>30. CASE CompressSkip
  BY <1>30 DEF CompressSkip
<1>31. CASE CompressDone
  BY <1>31 DEF CompressDone
<1>32. CASE Upload
  BY <1>32 DEF Upload
<1>33. CASE UNCHANGED sessionVars
  BY <1>33 DEF sessionVars
<1> QED
  BY <1>1, <1>2, <1>3, <1>4, <1>5, <1>6, <1>7, <1>8, <1>9, <1>10, <1>11, <1>12, <1>13, <1>14, <1>15,
    <1>16, <1>17, <1>18, <1>19, <1>20, <1>21, <1>22, <1>23, <1>24, <1>25, <1>26, <1>27, <1>28,
    <1>29, <1>30, <1>31, <1>32, <1>33 DEF SessionNext, Main, Child, Tool, SessionOver

\* No child is lost.
LEMMA ChildrenHeldNext == SessTypes /\ Control /\ ChildrenHeld /\ [SessionNext]_sessionVars => ChildrenHeld'
<1> SUFFICES ASSUME SessTypes, Control, ChildrenHeld, [SessionNext]_sessionVars PROVE ChildrenHeld'
  OBVIOUS
<1> USE MaxSegsAssumption DEF SessTypes, Control, ChildrenHeld, Segs, Quiet, Published, CurWaits,
  SessionGoto, flagVars, segVars, outVars, ctlVars
<1>1. ASSUME NEW k \in Segs, ChildOpensFile(k)
      PROVE  ChildrenHeld'
  BY <1>1 DEF ChildOpensFile
<1>2. ASSUME NEW k \in Segs, ChildEnds(k)
      PROVE  ChildrenHeld'
  BY <1>2 DEF ChildEnds
<1>3. ASSUME NEW k \in Segs, ChildDies(k)
      PROVE  ChildrenHeld'
  BY <1>3 DEF ChildDies
<1>4. ASSUME NEW k \in Segs, ChildFails(k)
      PROVE  ChildrenHeld'
  BY <1>4 DEF ChildFails
<1>5. CASE ToolWrites \/ ToolEnds \/ ToolFails
  BY <1>5 DEF ToolWrites, ToolRuns, ToolEnds, ToolFails
<1>6. CASE EncoderSeesDeath \/ SourceLost \/ SignalStop \/ SignalPause \/ SignalAbort
  BY <1>6 DEF EncoderSeesDeath, AskStop, SourceLost, SignalStop, ToolInterrupted, SignalPause,
    SignalAbort
<1>7. CASE BeginFirst
  <2>1. CASE sessPc' = "pool" /\ SegBegin
    <3>1. (\A k \in Segs : child[k] = "none" <=> k > nSegs)'
      BY <1>7, <2>1 DEF BeginFirst, SegBegin, Spawn
    <3>2. (\A k \in Segs : child[k] \notin {"none", "reaped"} => k = cur \/ k \in pending)'
      BY <1>7, <2>1 DEF BeginFirst, SegBegin, Spawn
    <3>3. (\A k \in pending : child[k] # "reaped" /\ k # cur)'
      BY <1>7, <2>1 DEF BeginFirst, SegBegin, Spawn
    <3>4. (cur # 0 => child[cur] # "reaped")'
      BY <1>7, <2>1 DEF BeginFirst, SegBegin, Spawn
    <3> QED
      BY <3>1, <3>2, <3>3, <3>4
  <2>2. CASE sessPc' = "waitThread" /\ SegBeginNoThread
    <3>1. (\A k \in Segs : child[k] = "none" <=> k > nSegs)'
      BY <1>7, <2>2 DEF BeginFirst, SegBeginNoThread, Spawn
    <3>2. (\A k \in Segs : child[k] \notin {"none", "reaped"} => k = cur \/ k \in pending)'
      BY <1>7, <2>2 DEF BeginFirst, SegBeginNoThread, Spawn
    <3>3. (\A k \in pending : child[k] # "reaped" /\ k # cur)'
      BY <1>7, <2>2 DEF BeginFirst, SegBeginNoThread, Spawn
    <3>4. (cur # 0 => child[cur] # "reaped")'
      BY <1>7, <2>2 DEF BeginFirst, SegBeginNoThread, Spawn
    <3> QED
      BY <3>1, <3>2, <3>3, <3>4
  <2>3. CASE sessPc' = "errFinish" /\ UNCHANGED segVars
    BY <1>7, <2>3 DEF BeginFirst
  <2> QED
    BY <1>7, <2>1, <2>2, <2>3 DEF BeginFirst
<1>8. CASE PoolInit
  BY <1>8 DEF PoolInit
<1>9. CASE ThreadlessReaped
  BY <1>9 DEF ThreadlessReaped, AskStop, Exited
<1>10. CASE Pause
  <2>1. CASE sessPc' = "loop" /\ SegFinish
    <3>1. (\A k \in Segs : child[k] = "none" <=> k > nSegs)'
      BY <1>10, <2>1 DEF Pause, SegFinish
    <3>2. (\A k \in Segs : child[k] \notin {"none", "reaped"} => k = cur \/ k \in pending)'
      BY <1>10, <2>1 DEF Pause, SegFinish
    <3>3. (\A k \in pending : child[k] # "reaped" /\ k # cur)'
      BY <1>10, <2>1 DEF Pause, SegFinish
    <3>4. (cur # 0 => child[cur] # "reaped")'
      BY <1>10, <2>1 DEF Pause, SegFinish
    <3> QED
      BY <3>1, <3>2, <3>3, <3>4
  <2>2. CASE sessPc' = "waitPause" /\ SegFinishFull
    <3>1. (\A k \in Segs : child[k] = "none" <=> k > nSegs)'
      BY <1>10, <2>2 DEF Pause, SegFinishFull
    <3>2. (\A k \in Segs : child[k] \notin {"none", "reaped"} => k = cur \/ k \in pending)'
      BY <1>10, <2>2 DEF Pause, SegFinishFull
    <3>3. (\A k \in pending : child[k] # "reaped" /\ k # cur)'
      BY <1>10, <2>2 DEF Pause, SegFinishFull
    <3>4. (cur # 0 => child[cur] # "reaped")'
      BY <1>10, <2>2 DEF Pause, SegFinishFull
    <3> QED
      BY <3>1, <3>2, <3>3, <3>4
  <2> QED
    BY <1>10, <2>1, <2>2 DEF Pause
<1>11. CASE Resume
  <2>1. CASE sessPc' = "loop" /\ SegBegin
    <3>1. (\A k \in Segs : child[k] = "none" <=> k > nSegs)'
      BY <1>11, <2>1 DEF Resume, SegBegin, Spawn
    <3>2. (\A k \in Segs : child[k] \notin {"none", "reaped"} => k = cur \/ k \in pending)'
      BY <1>11, <2>1 DEF Resume, SegBegin, Spawn
    <3>3. (\A k \in pending : child[k] # "reaped" /\ k # cur)'
      BY <1>11, <2>1 DEF Resume, SegBegin, Spawn
    <3>4. (cur # 0 => child[cur] # "reaped")'
      BY <1>11, <2>1 DEF Resume, SegBegin, Spawn
    <3> QED
      BY <3>1, <3>2, <3>3, <3>4
  <2>2. CASE sessPc' = "waitThread" /\ SegBeginNoThread
    <3>1. (\A k \in Segs : child[k] = "none" <=> k > nSegs)'
      BY <1>11, <2>2 DEF Resume, SegBeginNoThread, Spawn
    <3>2. (\A k \in Segs : child[k] \notin {"none", "reaped"} => k = cur \/ k \in pending)'
      BY <1>11, <2>2 DEF Resume, SegBeginNoThread, Spawn
    <3>3. (\A k \in pending : child[k] # "reaped" /\ k # cur)'
      BY <1>11, <2>2 DEF Resume, SegBeginNoThread, Spawn
    <3>4. (cur # 0 => child[cur] # "reaped")'
      BY <1>11, <2>2 DEF Resume, SegBeginNoThread, Spawn
    <3> QED
      BY <3>1, <3>2, <3>3, <3>4
  <2> QED
    BY <1>11, <2>1, <2>2 DEF Resume
<1>12. CASE ResumeFails
  BY <1>12 DEF ResumeFails, AskStop
<1>13. CASE LeaveLoop \/ ReadAbort
  BY <1>13 DEF LeaveLoop, ReadAbort
<1>14. CASE CurReaped("waitPause", "loop")
  BY <1>14 DEF CurReaped, Reap, Exited
<1>15. CASE CurReaped("waitFinish", AfterFinish)
  BY <1>15 DEF CurReaped, Reap, Exited, AfterFinish
<1>16. CASE CurReaped("waitError", "errReap")
  BY <1>16 DEF CurReaped, Reap, Exited
<1>17. CASE Finish
  <2>1. CASE encRunning /\ sessPc' = AfterFinish /\ SegFinish
    <3>1. (\A k \in Segs : child[k] = "none" <=> k > nSegs)'
      BY <1>17, <2>1 DEF Finish, SegFinish, AfterFinish
    <3>2. (\A k \in Segs : child[k] \notin {"none", "reaped"} => k = cur \/ k \in pending)'
      BY <1>17, <2>1 DEF Finish, SegFinish, AfterFinish
    <3>3. (\A k \in pending : child[k] # "reaped" /\ k # cur)'
      BY <1>17, <2>1 DEF Finish, SegFinish, AfterFinish
    <3>4. (cur # 0 => child[cur] # "reaped")'
      BY <1>17, <2>1 DEF Finish, SegFinish, AfterFinish
    <3> QED
      BY <3>1, <3>2, <3>3, <3>4
  <2>2. CASE encRunning /\ sessPc' = "waitFinish" /\ SegFinishFull
    <3>1. (\A k \in Segs : child[k] = "none" <=> k > nSegs)'
      BY <1>17, <2>2 DEF Finish, SegFinishFull
    <3>2. (\A k \in Segs : child[k] \notin {"none", "reaped"} => k = cur \/ k \in pending)'
      BY <1>17, <2>2 DEF Finish, SegFinishFull
    <3>3. (\A k \in pending : child[k] # "reaped" /\ k # cur)'
      BY <1>17, <2>2 DEF Finish, SegFinishFull
    <3>4. (cur # 0 => child[cur] # "reaped")'
      BY <1>17, <2>2 DEF Finish, SegFinishFull
    <3> QED
      BY <3>1, <3>2, <3>3, <3>4
  <2>3. CASE ~encRunning /\ sessPc' = AfterFinish /\ UNCHANGED segVars
    BY <1>17, <2>3 DEF Finish, AfterFinish
  <2> QED
    BY <1>17, <2>1, <2>2, <2>3 DEF Finish
<1>18. CASE ErrFinish
  <2>1. CASE encRunning /\ sessPc' = "errReap" /\ SegFinish
    <3>1. (\A k \in Segs : child[k] = "none" <=> k > nSegs)'
      BY <1>18, <2>1 DEF ErrFinish, SegFinish
    <3>2. (\A k \in Segs : child[k] \notin {"none", "reaped"} => k = cur \/ k \in pending)'
      BY <1>18, <2>1 DEF ErrFinish, SegFinish
    <3>3. (\A k \in pending : child[k] # "reaped" /\ k # cur)'
      BY <1>18, <2>1 DEF ErrFinish, SegFinish
    <3>4. (cur # 0 => child[cur] # "reaped")'
      BY <1>18, <2>1 DEF ErrFinish, SegFinish
    <3> QED
      BY <3>1, <3>2, <3>3, <3>4
  <2>2. CASE encRunning /\ sessPc' = "waitError" /\ SegFinishFull
    <3>1. (\A k \in Segs : child[k] = "none" <=> k > nSegs)'
      BY <1>18, <2>2 DEF ErrFinish, SegFinishFull
    <3>2. (\A k \in Segs : child[k] \notin {"none", "reaped"} => k = cur \/ k \in pending)'
      BY <1>18, <2>2 DEF ErrFinish, SegFinishFull
    <3>3. (\A k \in pending : child[k] # "reaped" /\ k # cur)'
      BY <1>18, <2>2 DEF ErrFinish, SegFinishFull
    <3>4. (cur # 0 => child[cur] # "reaped")'
      BY <1>18, <2>2 DEF ErrFinish, SegFinishFull
    <3> QED
      BY <3>1, <3>2, <3>3, <3>4
  <2>3. CASE ~encRunning /\ sessPc' = "errReap" /\ UNCHANGED segVars
    BY <1>18, <2>3 DEF ErrFinish
  <2> QED
    BY <1>18, <2>1, <2>2, <2>3 DEF ErrFinish
<1>19. CASE KillPending
  BY <1>19 DEF KillPending
<1>20. CASE ReapAll("reapKilled", "discard")
  BY <1>20 DEF ReapAll, Reap, Exited
<1>21. CASE ReapAll("reap", "assemble")
  BY <1>21 DEF ReapAll, Reap, Exited
<1>22. CASE Poll
  BY <1>22 DEF Poll, Reap, Exited
<1>23. CASE Discard
  BY <1>23 DEF Discard, UnlinkAll
<1>24. CASE ErrReap
  BY <1>24 DEF ErrReap, Reap, Exited, UnlinkAll
<1>25. CASE AssembleFails \/ ConcatStart \/ AssembleOne \/ ConcatDone
  BY <1>25 DEF AssembleFails, ConcatStart, AssembleOne, ConcatDone, UnlinkAll
<1>26. CASE CompressStart \/ CompressSkip \/ CompressDone \/ Upload
  BY <1>26 DEF CompressStart, CompressSkip, CompressDone, Upload
<1>27. CASE UNCHANGED sessionVars
  BY <1>27 DEF sessionVars
<1> QED
  BY <1>1, <1>2, <1>3, <1>4, <1>5, <1>6, <1>7, <1>8, <1>9, <1>10, <1>11, <1>12, <1>13, <1>14, <1>15,
    <1>16, <1>17, <1>18, <1>19, <1>20, <1>21, <1>22, <1>23, <1>24, <1>25, <1>26, <1>27 DEF
    SessionNext, Main, Child, Tool, SessionOver

\* A segment whose encoder failed is never taken for one that was shot.
LEMMA ShotIsKnownNext == SessTypes /\ Control /\ ChildrenHeld /\ ShotIsKnown /\ [SessionNext]_sessionVars => ShotIsKnown'
<1> SUFFICES ASSUME SessTypes, Control, ChildrenHeld, ShotIsKnown, [SessionNext]_sessionVars PROVE ShotIsKnown'
  OBVIOUS
<1> USE MaxSegsAssumption DEF SessTypes, Control, ChildrenHeld, ShotIsKnown, Segs, CurWaits,
  SessionGoto, flagVars, segVars, outVars, ctlVars
<1>1. ASSUME NEW k \in Segs, ChildOpensFile(k)
      PROVE  ShotIsKnown'
  BY <1>1 DEF ChildOpensFile
<1>2. ASSUME NEW k \in Segs, ChildEnds(k)
      PROVE  ShotIsKnown'
  BY <1>2 DEF ChildEnds
<1>3. ASSUME NEW k \in Segs, ChildDies(k)
      PROVE  ShotIsKnown'
  BY <1>3 DEF ChildDies
<1>4. ASSUME NEW k \in Segs, ChildFails(k)
      PROVE  ShotIsKnown'
  BY <1>4 DEF ChildFails
<1>5. CASE ToolWrites \/ ToolEnds \/ ToolFails
  BY <1>5 DEF ToolWrites, ToolRuns, ToolEnds, ToolFails
<1>6. CASE EncoderSeesDeath \/ SourceLost \/ SignalStop \/ SignalPause \/ SignalAbort
  BY <1>6 DEF EncoderSeesDeath, AskStop, SourceLost, SignalStop, ToolInterrupted, SignalPause,
    SignalAbort
<1>7. CASE BeginFirst
  <2>1. CASE sessPc' = "pool" /\ SegBegin
    <3>1. (\A k \in Segs : child[k] = "ok" => k \in shot)'
      BY <1>7, <2>1 DEF BeginFirst, SegBegin, Spawn
    <3>2. (\A k \in shot : child[k] \in {"ok", "reaped"})'
      BY <1>7, <2>1 DEF BeginFirst, SegBegin, Spawn
    <3>3. (sessPc \notin {"errFinish", "waitError", "errReap", "over"} /\ ~failed =>
              \A k \in Segs : child[k] = "reaped" => k \in shot)'
      BY <1>7, <2>1 DEF BeginFirst, SegBegin, Spawn
    <3> QED
      BY <3>1, <3>2, <3>3
  <2>2. CASE sessPc' = "waitThread" /\ SegBeginNoThread
    <3>1. (\A k \in Segs : child[k] = "ok" => k \in shot)'
      BY <1>7, <2>2 DEF BeginFirst, SegBeginNoThread, Spawn
    <3>2. (\A k \in shot : child[k] \in {"ok", "reaped"})'
      BY <1>7, <2>2 DEF BeginFirst, SegBeginNoThread, Spawn
    <3>3. (sessPc \notin {"errFinish", "waitError", "errReap", "over"} /\ ~failed =>
              \A k \in Segs : child[k] = "reaped" => k \in shot)'
      BY <1>7, <2>2 DEF BeginFirst, SegBeginNoThread, Spawn
    <3> QED
      BY <3>1, <3>2, <3>3
  <2>3. CASE sessPc' = "errFinish" /\ UNCHANGED segVars
    BY <1>7, <2>3 DEF BeginFirst
  <2> QED
    BY <1>7, <2>1, <2>2, <2>3 DEF BeginFirst
<1>8. CASE PoolInit
  BY <1>8 DEF PoolInit
<1>9. CASE ThreadlessReaped
  BY <1>9 DEF ThreadlessReaped, AskStop, Exited
<1>10. CASE Pause
  <2>1. CASE sessPc' = "loop" /\ SegFinish
    BY <1>10, <2>1 DEF Pause, SegFinish
  <2>2. CASE sessPc' = "waitPause" /\ SegFinishFull
    BY <1>10, <2>2 DEF Pause, SegFinishFull
  <2> QED
    BY <1>10, <2>1, <2>2 DEF Pause
<1>11. CASE Resume
  <2>1. CASE sessPc' = "loop" /\ SegBegin
    <3>1. (\A k \in Segs : child[k] = "ok" => k \in shot)'
      BY <1>11, <2>1 DEF Resume, SegBegin, Spawn
    <3>2. (\A k \in shot : child[k] \in {"ok", "reaped"})'
      BY <1>11, <2>1 DEF Resume, SegBegin, Spawn
    <3>3. (sessPc \notin {"errFinish", "waitError", "errReap", "over"} /\ ~failed =>
              \A k \in Segs : child[k] = "reaped" => k \in shot)'
      BY <1>11, <2>1 DEF Resume, SegBegin, Spawn
    <3> QED
      BY <3>1, <3>2, <3>3
  <2>2. CASE sessPc' = "waitThread" /\ SegBeginNoThread
    <3>1. (\A k \in Segs : child[k] = "ok" => k \in shot)'
      BY <1>11, <2>2 DEF Resume, SegBeginNoThread, Spawn
    <3>2. (\A k \in shot : child[k] \in {"ok", "reaped"})'
      BY <1>11, <2>2 DEF Resume, SegBeginNoThread, Spawn
    <3>3. (sessPc \notin {"errFinish", "waitError", "errReap", "over"} /\ ~failed =>
              \A k \in Segs : child[k] = "reaped" => k \in shot)'
      BY <1>11, <2>2 DEF Resume, SegBeginNoThread, Spawn
    <3> QED
      BY <3>1, <3>2, <3>3
  <2> QED
    BY <1>11, <2>1, <2>2 DEF Resume
<1>12. CASE ResumeFails
  BY <1>12 DEF ResumeFails, AskStop
<1>13. CASE LeaveLoop \/ ReadAbort
  BY <1>13 DEF LeaveLoop, ReadAbort
<1>14. CASE CurReaped("waitPause", "loop")
  <2>1. (\A k \in Segs : child[k] = "ok" => k \in shot)'
    BY <1>14 DEF CurReaped, Reap, Exited
  <2>2. (\A k \in shot : child[k] \in {"ok", "reaped"})'
    BY <1>14 DEF CurReaped, Reap, Exited
  <2>3. (sessPc \notin {"errFinish", "waitError", "errReap", "over"} /\ ~failed =>
              \A k \in Segs : child[k] = "reaped" => k \in shot)'
    BY <1>14 DEF CurReaped, Reap, Exited
  <2> QED
    BY <2>1, <2>2, <2>3
<1>15. CASE CurReaped("waitFinish", AfterFinish)
  <2>1. (\A k \in Segs : child[k] = "ok" => k \in shot)'
    BY <1>15 DEF CurReaped, Reap, Exited, AfterFinish
  <2>2. (\A k \in shot : child[k] \in {"ok", "reaped"})'
    BY <1>15 DEF CurReaped, Reap, Exited, AfterFinish
  <2>3. (sessPc \notin {"errFinish", "waitError", "errReap", "over"} /\ ~failed =>
              \A k \in Segs : child[k] = "reaped" => k \in shot)'
    BY <1>15 DEF CurReaped, Reap, Exited, AfterFinish
  <2> QED
    BY <2>1, <2>2, <2>3
<1>16. CASE CurReaped("waitError", "errReap")
  BY <1>16 DEF CurReaped, Reap, Exited
<1>17. CASE Finish \/ ErrFinish
  BY <1>17 DEF Finish, SegFinish, SegFinishFull, AfterFinish, ErrFinish
<1>18. CASE KillPending
  BY <1>18 DEF KillPending
<1>19. CASE ReapAll("reapKilled", "discard")
  <2>1. (\A k \in Segs : child[k] = "ok" => k \in shot)'
    BY <1>19 DEF ReapAll, Reap, Exited
  <2>2. (\A k \in shot : child[k] \in {"ok", "reaped"})'
    BY <1>19 DEF ReapAll, Reap, Exited
  <2>3. (sessPc \notin {"errFinish", "waitError", "errReap", "over"} /\ ~failed =>
              \A k \in Segs : child[k] = "reaped" => k \in shot)'
    BY <1>19 DEF ReapAll, Reap, Exited
  <2> QED
    BY <2>1, <2>2, <2>3
<1>20. CASE ReapAll("reap", "assemble")
  <2>1. (\A k \in Segs : child[k] = "ok" => k \in shot)'
    BY <1>20 DEF ReapAll, Reap, Exited
  <2>2. (\A k \in shot : child[k] \in {"ok", "reaped"})'
    BY <1>20 DEF ReapAll, Reap, Exited
  <2>3. (sessPc \notin {"errFinish", "waitError", "errReap", "over"} /\ ~failed =>
              \A k \in Segs : child[k] = "reaped" => k \in shot)'
    BY <1>20 DEF ReapAll, Reap, Exited
  <2> QED
    BY <2>1, <2>2, <2>3
<1>21. CASE Poll
  <2>1. (\A k \in Segs : child[k] = "ok" => k \in shot)'
    BY <1>21 DEF Poll, Reap, Exited
  <2>2. (\A k \in shot : child[k] \in {"ok", "reaped"})'
    BY <1>21 DEF Poll, Reap, Exited
  <2>3. (sessPc \notin {"errFinish", "waitError", "errReap", "over"} /\ ~failed =>
              \A k \in Segs : child[k] = "reaped" => k \in shot)'
    BY <1>21 DEF Poll, Reap, Exited
  <2> QED
    BY <2>1, <2>2, <2>3
<1>22. CASE Discard
  BY <1>22 DEF Discard, UnlinkAll
<1>23. CASE ErrReap
  BY <1>23 DEF ErrReap, Reap, Exited, UnlinkAll
<1>24. CASE AssembleFails \/ ConcatStart \/ AssembleOne \/ ConcatDone
  BY <1>24 DEF AssembleFails, ConcatStart, AssembleOne, ConcatDone, UnlinkAll
<1>25. CASE CompressStart \/ CompressSkip \/ CompressDone \/ Upload
  BY <1>25 DEF CompressStart, CompressSkip, CompressDone, Upload
<1>26. CASE UNCHANGED sessionVars
  BY <1>26 DEF sessionVars
<1> QED
  BY <1>1, <1>2, <1>3, <1>4, <1>5, <1>6, <1>7, <1>8, <1>9, <1>10, <1>11, <1>12, <1>13, <1>14, <1>15,
    <1>16, <1>17, <1>18, <1>19, <1>20, <1>21, <1>22, <1>23, <1>24, <1>25, <1>26 DEF SessionNext,
    Main, Child, Tool, SessionOver

\* The footage stays where it is until the output holds it.
LEMMA FilesHeldNext == SessTypes /\ Control /\ ChildrenHeld /\ ShotIsKnown /\ FilesHeld /\ EndIsKnown /\ [SessionNext]_sessionVars => FilesHeld'
<1> SUFFICES ASSUME SessTypes, Control, ChildrenHeld, ShotIsKnown, FilesHeld, EndIsKnown, [SessionNext]_sessionVars PROVE FilesHeld'
  OBVIOUS
<1> USE MaxSegsAssumption, AllShot DEF SessTypes, Control, ChildrenHeld, ShotIsKnown, FilesHeld,
  EndIsKnown, Segs, Quiet, Published, BeforeOutput, CurWaits, SessionPcs, SessionGoto, flagVars,
  segVars, outVars, ctlVars
<1>1. ASSUME NEW k \in Segs, ChildOpensFile(k)
      PROVE  FilesHeld'
  BY <1>1 DEF ChildOpensFile
<1>2. ASSUME NEW k \in Segs, ChildEnds(k)
      PROVE  FilesHeld'
  BY <1>2 DEF ChildEnds
<1>3. ASSUME NEW k \in Segs, ChildDies(k)
      PROVE  FilesHeld'
  BY <1>3 DEF ChildDies
<1>4. ASSUME NEW k \in Segs, ChildFails(k)
      PROVE  FilesHeld'
  BY <1>4 DEF ChildFails
<1>5. CASE ToolWrites \/ ToolEnds \/ ToolFails
  BY <1>5 DEF ToolWrites, ToolRuns, ToolEnds, ToolFails
<1>6. CASE EncoderSeesDeath
  BY <1>6 DEF EncoderSeesDeath, AskStop
<1>7. CASE SourceLost
  BY <1>7 DEF SourceLost, AskStop
<1>8. CASE SignalStop
  BY <1>8 DEF SignalStop, AskStop, ToolInterrupted
<1>9. CASE SignalPause
  BY <1>9 DEF SignalPause, ToolInterrupted
<1>10. CASE SignalAbort
  BY <1>10 DEF SignalAbort, AskStop, ToolInterrupted
<1>11. CASE BeginFirst
  <2>1. CASE sessPc' = "pool" /\ SegBegin
    <3>1. (\A k \in Segs : k > nSegs => file[k] = "none")'
      BY <1>11, <2>1 DEF BeginFirst, SegBegin, Spawn
    <3>2. (sessPc \in BeforeOutput => out = "none" /\ tmp = "none" /\ tool = "none")'
      BY <1>11, <2>1 DEF BeginFirst, SegBegin, Spawn
    <3>3. (sessPc \in BeforeOutput \cup {"concat"} \/ result = "failed" => \A k \in shot : file[k] = "whole")'
      BY <1>11, <2>1 DEF BeginFirst, SegBegin, Spawn
    <3>4. (sessPc \in Published \cup {"concat"} => ~failed /\ shot = 1 .. nSegs)'
      BY <1>11, <2>1 DEF BeginFirst, SegBegin, Spawn
    <3>5. (sessPc \in Published => out = "whole" /\ outSegs = 1 .. nSegs)'
      BY <1>11, <2>1 DEF BeginFirst, SegBegin, Spawn
    <3>6. (sessPc = "concat" => tool # "none" /\ tmp = "none"
              /\ (tool = "ok" => out = "whole" /\ outSegs = 1 .. nSegs))'
      BY <1>11, <2>1 DEF BeginFirst, SegBegin, Spawn
    <3>7. (sessPc = "compress" => tool # "none" /\ (tool = "ok" => tmp = "whole"))'
      BY <1>11, <2>1 DEF BeginFirst, SegBegin, Spawn
    <3>8. (sessPc \notin {"concat", "compress"} => tool = "none")'
      BY <1>11, <2>1 DEF BeginFirst, SegBegin, Spawn
    <3>9. (sessPc \notin {"concat", "compress", "over"} => tmp = "none")'
      BY <1>11, <2>1 DEF BeginFirst, SegBegin, Spawn
    <3> QED
      BY <3>1, <3>2, <3>3, <3>4, <3>5, <3>6, <3>7, <3>8, <3>9
  <2>2. CASE sessPc' = "waitThread" /\ SegBeginNoThread
    <3>1. (\A k \in Segs : k > nSegs => file[k] = "none")'
      BY <1>11, <2>2 DEF BeginFirst, SegBeginNoThread, Spawn
    <3>2. (sessPc \in BeforeOutput => out = "none" /\ tmp = "none" /\ tool = "none")'
      BY <1>11, <2>2 DEF BeginFirst, SegBeginNoThread, Spawn
    <3>3. (sessPc \in BeforeOutput \cup {"concat"} \/ result = "failed" => \A k \in shot : file[k] = "whole")'
      BY <1>11, <2>2 DEF BeginFirst, SegBeginNoThread, Spawn
    <3>4. (sessPc \in Published \cup {"concat"} => ~failed /\ shot = 1 .. nSegs)'
      BY <1>11, <2>2 DEF BeginFirst, SegBeginNoThread, Spawn
    <3>5. (sessPc \in Published => out = "whole" /\ outSegs = 1 .. nSegs)'
      BY <1>11, <2>2 DEF BeginFirst, SegBeginNoThread, Spawn
    <3>6. (sessPc = "concat" => tool # "none" /\ tmp = "none"
              /\ (tool = "ok" => out = "whole" /\ outSegs = 1 .. nSegs))'
      BY <1>11, <2>2 DEF BeginFirst, SegBeginNoThread, Spawn
    <3>7. (sessPc = "compress" => tool # "none" /\ (tool = "ok" => tmp = "whole"))'
      BY <1>11, <2>2 DEF BeginFirst, SegBeginNoThread, Spawn
    <3>8. (sessPc \notin {"concat", "compress"} => tool = "none")'
      BY <1>11, <2>2 DEF BeginFirst, SegBeginNoThread, Spawn
    <3>9. (sessPc \notin {"concat", "compress", "over"} => tmp = "none")'
      BY <1>11, <2>2 DEF BeginFirst, SegBeginNoThread, Spawn
    <3> QED
      BY <3>1, <3>2, <3>3, <3>4, <3>5, <3>6, <3>7, <3>8, <3>9
  <2>3. CASE sessPc' = "errFinish" /\ UNCHANGED segVars
    BY <1>11, <2>3 DEF BeginFirst
  <2> QED
    BY <1>11, <2>1, <2>2, <2>3 DEF BeginFirst
<1>12. CASE PoolInit
  BY <1>12 DEF PoolInit
<1>13. CASE ThreadlessReaped
  BY <1>13 DEF ThreadlessReaped, AskStop, Exited
<1>14. CASE Pause
  <2>1. CASE sessPc' = "loop" /\ SegFinish
    BY <1>14, <2>1 DEF Pause, SegFinish
  <2>2. CASE sessPc' = "waitPause" /\ SegFinishFull
    BY <1>14, <2>2 DEF Pause, SegFinishFull
  <2> QED
    BY <1>14, <2>1, <2>2 DEF Pause
<1>15. CASE Resume
  <2>1. CASE sessPc' = "loop" /\ SegBegin
    <3>1. (\A k \in Segs : k > nSegs => file[k] = "none")'
      BY <1>15, <2>1 DEF Resume, SegBegin, Spawn
    <3>2. (sessPc \in BeforeOutput => out = "none" /\ tmp = "none" /\ tool = "none")'
      BY <1>15, <2>1 DEF Resume, SegBegin, Spawn
    <3>3. (sessPc \in BeforeOutput \cup {"concat"} \/ result = "failed" => \A k \in shot : file[k] = "whole")'
      BY <1>15, <2>1 DEF Resume, SegBegin, Spawn
    <3>4. (sessPc \in Published \cup {"concat"} => ~failed /\ shot = 1 .. nSegs)'
      BY <1>15, <2>1 DEF Resume, SegBegin, Spawn
    <3>5. (sessPc \in Published => out = "whole" /\ outSegs = 1 .. nSegs)'
      BY <1>15, <2>1 DEF Resume, SegBegin, Spawn
    <3>6. (sessPc = "concat" => tool # "none" /\ tmp = "none"
              /\ (tool = "ok" => out = "whole" /\ outSegs = 1 .. nSegs))'
      BY <1>15, <2>1 DEF Resume, SegBegin, Spawn
    <3>7. (sessPc = "compress" => tool # "none" /\ (tool = "ok" => tmp = "whole"))'
      BY <1>15, <2>1 DEF Resume, SegBegin, Spawn
    <3>8. (sessPc \notin {"concat", "compress"} => tool = "none")'
      BY <1>15, <2>1 DEF Resume, SegBegin, Spawn
    <3>9. (sessPc \notin {"concat", "compress", "over"} => tmp = "none")'
      BY <1>15, <2>1 DEF Resume, SegBegin, Spawn
    <3> QED
      BY <3>1, <3>2, <3>3, <3>4, <3>5, <3>6, <3>7, <3>8, <3>9
  <2>2. CASE sessPc' = "waitThread" /\ SegBeginNoThread
    <3>1. (\A k \in Segs : k > nSegs => file[k] = "none")'
      BY <1>15, <2>2 DEF Resume, SegBeginNoThread, Spawn
    <3>2. (sessPc \in BeforeOutput => out = "none" /\ tmp = "none" /\ tool = "none")'
      BY <1>15, <2>2 DEF Resume, SegBeginNoThread, Spawn
    <3>3. (sessPc \in BeforeOutput \cup {"concat"} \/ result = "failed" => \A k \in shot : file[k] = "whole")'
      BY <1>15, <2>2 DEF Resume, SegBeginNoThread, Spawn
    <3>4. (sessPc \in Published \cup {"concat"} => ~failed /\ shot = 1 .. nSegs)'
      BY <1>15, <2>2 DEF Resume, SegBeginNoThread, Spawn
    <3>5. (sessPc \in Published => out = "whole" /\ outSegs = 1 .. nSegs)'
      BY <1>15, <2>2 DEF Resume, SegBeginNoThread, Spawn
    <3>6. (sessPc = "concat" => tool # "none" /\ tmp = "none"
              /\ (tool = "ok" => out = "whole" /\ outSegs = 1 .. nSegs))'
      BY <1>15, <2>2 DEF Resume, SegBeginNoThread, Spawn
    <3>7. (sessPc = "compress" => tool # "none" /\ (tool = "ok" => tmp = "whole"))'
      BY <1>15, <2>2 DEF Resume, SegBeginNoThread, Spawn
    <3>8. (sessPc \notin {"concat", "compress"} => tool = "none")'
      BY <1>15, <2>2 DEF Resume, SegBeginNoThread, Spawn
    <3>9. (sessPc \notin {"concat", "compress", "over"} => tmp = "none")'
      BY <1>15, <2>2 DEF Resume, SegBeginNoThread, Spawn
    <3> QED
      BY <3>1, <3>2, <3>3, <3>4, <3>5, <3>6, <3>7, <3>8, <3>9
  <2> QED
    BY <1>15, <2>1, <2>2 DEF Resume
<1>16. CASE ResumeFails
  BY <1>16 DEF ResumeFails, AskStop
<1>17. CASE LeaveLoop \/ ReadAbort
  BY <1>17 DEF LeaveLoop, ReadAbort
<1>18. CASE CurReaped("waitPause", "loop") \/ CurReaped("waitFinish", AfterFinish) \/
  CurReaped("waitError", "errReap")
  BY <1>18 DEF CurReaped, Reap, Exited, AfterFinish
<1>19. CASE Finish \/ ErrFinish
  BY <1>19 DEF Finish, SegFinish, SegFinishFull, AfterFinish, ErrFinish
<1>20. CASE KillPending
  BY <1>20 DEF KillPending
<1>21. CASE ReapAll("reapKilled", "discard")
  BY <1>21 DEF ReapAll, Reap, Exited
<1>22. CASE ReapAll("reap", "assemble")
  BY <1>22 DEF ReapAll, Reap, Exited
<1>23. CASE Poll
  BY <1>23 DEF Poll, Reap, Exited
<1>24. CASE Discard \/ ErrReap
  BY <1>24 DEF Discard, UnlinkAll, ErrReap, Reap, Exited
<1>25. CASE AssembleFails
  BY <1>25 DEF AssembleFails
<1>26. CASE ConcatStart
  <2>1. (\A k \in Segs : k > nSegs => file[k] = "none")'
    BY <1>26 DEF ConcatStart
  <2>2. (sessPc \in BeforeOutput => out = "none" /\ tmp = "none" /\ tool = "none")'
    BY <1>26 DEF ConcatStart
  <2>3. (sessPc \in BeforeOutput \cup {"concat"} \/ result = "failed" => \A k \in shot : file[k] = "whole")'
    BY <1>26 DEF ConcatStart
  <2>4. (sessPc \in Published \cup {"concat"} => ~failed /\ shot = 1 .. nSegs)'
    BY <1>26 DEF ConcatStart
  <2>5. (sessPc \in Published => out = "whole" /\ outSegs = 1 .. nSegs)'
    BY <1>26 DEF ConcatStart
  <2>6. (sessPc = "concat" => tool # "none" /\ tmp = "none"
              /\ (tool = "ok" => out = "whole" /\ outSegs = 1 .. nSegs))'
    BY <1>26 DEF ConcatStart
  <2>7. (sessPc = "compress" => tool # "none" /\ (tool = "ok" => tmp = "whole"))'
    BY <1>26 DEF ConcatStart
  <2>8. (sessPc \notin {"concat", "compress"} => tool = "none")'
    BY <1>26 DEF ConcatStart
  <2>9. (sessPc \notin {"concat", "compress", "over"} => tmp = "none")'
    BY <1>26 DEF ConcatStart
  <2> QED
    BY <2>1, <2>2, <2>3, <2>4, <2>5, <2>6, <2>7, <2>8, <2>9
<1>27. CASE AssembleOne
  <2>1. (\A k \in Segs : k > nSegs => file[k] = "none")'
    BY <1>27 DEF AssembleOne
  <2>2. (sessPc \in BeforeOutput => out = "none" /\ tmp = "none" /\ tool = "none")'
    BY <1>27 DEF AssembleOne
  <2>3. (sessPc \in BeforeOutput \cup {"concat"} \/ result = "failed" => \A k \in shot : file[k] = "whole")'
    BY <1>27 DEF AssembleOne
  <2>4. (sessPc \in Published \cup {"concat"} => ~failed /\ shot = 1 .. nSegs)'
    BY <1>27 DEF AssembleOne
  <2>5. (sessPc \in Published => out = "whole" /\ outSegs = 1 .. nSegs)'
    BY <1>27 DEF AssembleOne
  <2>6. (sessPc = "concat" => tool # "none" /\ tmp = "none"
              /\ (tool = "ok" => out = "whole" /\ outSegs = 1 .. nSegs))'
    BY <1>27 DEF AssembleOne
  <2>7. (sessPc = "compress" => tool # "none" /\ (tool = "ok" => tmp = "whole"))'
    BY <1>27 DEF AssembleOne
  <2>8. (sessPc \notin {"concat", "compress"} => tool = "none")'
    BY <1>27 DEF AssembleOne
  <2>9. (sessPc \notin {"concat", "compress", "over"} => tmp = "none")'
    BY <1>27 DEF AssembleOne
  <2> QED
    BY <2>1, <2>2, <2>3, <2>4, <2>5, <2>6, <2>7, <2>8, <2>9
<1>28. CASE ConcatDone
  <2>1. CASE tool = "ok" /\ sessPc' = "publish"
    <3>1. (\A k \in Segs : k > nSegs => file[k] = "none")'
      BY <1>28, <2>1 DEF ConcatDone, UnlinkAll
    <3>2. (sessPc \in BeforeOutput => out = "none" /\ tmp = "none" /\ tool = "none")'
      BY <1>28, <2>1 DEF ConcatDone, UnlinkAll
    <3>3. (sessPc \in BeforeOutput \cup {"concat"} \/ result = "failed" => \A k \in shot : file[k] = "whole")'
      BY <1>28, <2>1 DEF ConcatDone, UnlinkAll
    <3>4. (sessPc \in Published \cup {"concat"} => ~failed /\ shot = 1 .. nSegs)'
      BY <1>28, <2>1 DEF ConcatDone, UnlinkAll
    <3>5. (sessPc \in Published => out = "whole" /\ outSegs = 1 .. nSegs)'
      BY <1>28, <2>1 DEF ConcatDone, UnlinkAll
    <3>6. (sessPc = "concat" => tool # "none" /\ tmp = "none"
              /\ (tool = "ok" => out = "whole" /\ outSegs = 1 .. nSegs))'
      BY <1>28, <2>1 DEF ConcatDone, UnlinkAll
    <3>7. (sessPc = "compress" => tool # "none" /\ (tool = "ok" => tmp = "whole"))'
      BY <1>28, <2>1 DEF ConcatDone, UnlinkAll
    <3>8. (sessPc \notin {"concat", "compress"} => tool = "none")'
      BY <1>28, <2>1 DEF ConcatDone, UnlinkAll
    <3>9. (sessPc \notin {"concat", "compress", "over"} => tmp = "none")'
      BY <1>28, <2>1 DEF ConcatDone, UnlinkAll
    <3> QED
      BY <3>1, <3>2, <3>3, <3>4, <3>5, <3>6, <3>7, <3>8, <3>9
  <2>2. CASE tool = "bad" /\ sessPc' = "over"
    <3>1. (\A k \in Segs : k > nSegs => file[k] = "none")'
      BY <1>28, <2>2 DEF ConcatDone
    <3>2. (sessPc \in BeforeOutput => out = "none" /\ tmp = "none" /\ tool = "none")'
      BY <1>28, <2>2 DEF ConcatDone
    <3>3. (sessPc \in BeforeOutput \cup {"concat"} \/ result = "failed" => \A k \in shot : file[k] = "whole")'
      BY <1>28, <2>2 DEF ConcatDone
    <3>4. (sessPc \in Published \cup {"concat"} => ~failed /\ shot = 1 .. nSegs)'
      BY <1>28, <2>2 DEF ConcatDone
    <3>5. (sessPc \in Published => out = "whole" /\ outSegs = 1 .. nSegs)'
      BY <1>28, <2>2 DEF ConcatDone
    <3>6. (sessPc = "concat" => tool # "none" /\ tmp = "none"
              /\ (tool = "ok" => out = "whole" /\ outSegs = 1 .. nSegs))'
      BY <1>28, <2>2 DEF ConcatDone
    <3>7. (sessPc = "compress" => tool # "none" /\ (tool = "ok" => tmp = "whole"))'
      BY <1>28, <2>2 DEF ConcatDone
    <3>8. (sessPc \notin {"concat", "compress"} => tool = "none")'
      BY <1>28, <2>2 DEF ConcatDone
    <3>9. (sessPc \notin {"concat", "compress", "over"} => tmp = "none")'
      BY <1>28, <2>2 DEF ConcatDone
    <3> QED
      BY <3>1, <3>2, <3>3, <3>4, <3>5, <3>6, <3>7, <3>8, <3>9
  <2> QED
    BY <1>28, <2>1, <2>2 DEF ConcatDone
<1>29. CASE CompressStart \/ CompressSkip \/ CompressDone \/ Upload
  BY <1>29 DEF CompressStart, CompressSkip, CompressDone, Upload
<1>30. CASE UNCHANGED sessionVars
  BY <1>30 DEF sessionVars
<1> QED
  BY <1>1, <1>2, <1>3, <1>4, <1>5, <1>6, <1>7, <1>8, <1>9, <1>10, <1>11, <1>12, <1>13, <1>14, <1>15,
    <1>16, <1>17, <1>18, <1>19, <1>20, <1>21, <1>22, <1>23, <1>24, <1>25, <1>26, <1>27, <1>28,
    <1>29, <1>30 DEF SessionNext, Main, Child, Tool, SessionOver

\* The result says what is left.
LEMMA EndIsKnownNext == SessTypes /\ AbortOrder /\ Control /\ ChildrenHeld /\ FilesHeld /\ EndIsKnown /\ [SessionNext]_sessionVars => EndIsKnown'
<1> SUFFICES ASSUME SessTypes, AbortOrder, Control, ChildrenHeld, FilesHeld, EndIsKnown, [SessionNext]_sessionVars PROVE EndIsKnown'
  OBVIOUS
<1> USE MaxSegsAssumption DEF SessTypes, AbortOrder, Control, ChildrenHeld, FilesHeld, EndIsKnown,
  Segs, Quiet, Published, BeforeOutput, CurWaits, SessionPcs, SessionGoto, flagVars, segVars,
  outVars, ctlVars
<1>1. ASSUME NEW k \in Segs, ChildOpensFile(k) \/ ChildEnds(k) \/ ChildDies(k) \/ ChildFails(k)
      PROVE  EndIsKnown'
  BY <1>1 DEF ChildOpensFile, ChildEnds, ChildDies, ChildFails
<1>2. CASE ToolWrites \/ ToolEnds \/ ToolFails
  BY <1>2 DEF ToolWrites, ToolRuns, ToolEnds, ToolFails
<1>3. CASE EncoderSeesDeath \/ SourceLost \/ SignalStop \/ SignalPause \/ SignalAbort
  BY <1>3 DEF EncoderSeesDeath, AskStop, SourceLost, SignalStop, ToolInterrupted, SignalPause,
    SignalAbort
<1>4. CASE BeginFirst \/ PoolInit \/ ThreadlessReaped
  BY <1>4 DEF BeginFirst, SegBegin, SegBeginNoThread, Spawn, PoolInit, ThreadlessReaped, AskStop,
    Exited
<1>5. CASE Pause \/ Resume \/ ResumeFails
  BY <1>5 DEF Pause, SegFinish, SegFinishFull, Resume, SegBegin, SegBeginNoThread, Spawn,
    ResumeFails, AskStop
<1>6. CASE LeaveLoop \/ ReadAbort
  BY <1>6 DEF LeaveLoop, ReadAbort
<1>7. CASE CurReaped("waitPause", "loop") \/ CurReaped("waitFinish", AfterFinish) \/
  CurReaped("waitError", "errReap")
  BY <1>7 DEF CurReaped, Reap, Exited, AfterFinish
<1>8. CASE Finish \/ ErrFinish
  BY <1>8 DEF Finish, SegFinish, SegFinishFull, AfterFinish, ErrFinish
<1>9. CASE KillPending \/ ReapAll("reapKilled", "discard") \/ ReapAll("reap", "assemble") \/ Poll
  BY <1>9 DEF KillPending, ReapAll, Reap, Exited, Poll
<1>10. CASE Discard \/ ErrReap
  BY <1>10 DEF Discard, UnlinkAll, ErrReap, Reap, Exited
<1>11. CASE AssembleFails \/ ConcatStart \/ AssembleOne \/ ConcatDone
  BY <1>11 DEF AssembleFails, ConcatStart, AssembleOne, ConcatDone, UnlinkAll
<1>12. CASE CompressStart \/ CompressSkip \/ CompressDone \/ Upload
  BY <1>12 DEF CompressStart, CompressSkip, CompressDone, Upload
<1>13. CASE UNCHANGED sessionVars
  BY <1>13 DEF sessionVars
<1> QED
  BY <1>1, <1>2, <1>3, <1>4, <1>5, <1>6, <1>7, <1>8, <1>9, <1>10, <1>11, <1>12, <1>13 DEF
    SessionNext, Main, Child, Tool, SessionOver

LEMMA SessNextInv == SessInv /\ [SessionNext]_sessionVars => SessInv'
  BY SessTypesNext, AbortOrderNext, ControlNext, ChildrenHeldNext, ShotIsKnownNext, FilesHeldNext,
     EndIsKnownNext DEF SessInv

LEMMA SessionStep == [RecordingNext]_recordingVars => [SessionNext]_sessionVars
  BY DEF RecordingNext, recordingVars

\* The footage of a shot segment is its own file until an output holds it whole.
LEMMA HeldFootage == SessInv => FootageKept
<1> SUFFICES ASSUME SessInv, aborted # "yes", sessPc # "errReap", result # "error", ~uploaded,
                    NEW k \in shot
             PROVE  file[k] = "whole" \/ (out = "whole" /\ k \in outSegs)
  BY DEF FootageKept
<1> USE DEF SessInv
<1>1. k \in 1 .. nSegs
  BY DEF SessTypes
<1>2. CASE sessPc \in BeforeOutput \cup {"concat"} \/ result = "failed"
  BY <1>2 DEF FilesHeld
<1>3. CASE sessPc \in Published
  BY <1>1, <1>3 DEF FilesHeld
<1>4. CASE sessPc = "over" /\ result = "ok"
  BY <1>4 DEF EndIsKnown
<1>5. sessPc = "over" => result \in {"ok", "failed", "aborted", "error"}
  BY DEF EndIsKnown
<1>6. result = "aborted" => aborted = "yes"
  BY DEF EndIsKnown
<1> QED
  BY <1>2, <1>3, <1>4, <1>5, <1>6 DEF SessTypes, BeforeOutput, Published

LEMMA EndAsAsked == SessInv => EndsAsAsked
<1> SUFFICES ASSUME SessInv PROVE EndsAsAsked
  OBVIOUS
<1> USE DEF SessInv, SessTypes
<1>1. PublishedIsComplete
  BY DEF PublishedIsComplete, FilesHeld, Published
<1>2. AbortHonoured
  BY DEF AbortHonoured, AbortOrder
<1>3. AbortLeavesNothing
  BY DEF AbortLeavesNothing, EndIsKnown
<1>4. ASSUME sessPc = "over", NEW k \in Segs PROVE child[k] \in {"none", "reaped"}
  BY <1>4 DEF Control, ChildrenHeld, Quiet, CurWaits, Segs
<1>5. EveryChildReaped
  BY <1>4 DEF EveryChildReaped, FilesHeld
<1> QED
  BY <1>1, <1>2, <1>3, <1>5 DEF EndsAsAsked

LEMMA SessAlways == RecordingSpec => []SessInv
<1>1. RecordingInit => SessInv
  BY SessInitInv DEF RecordingInit
<1>2. SessInv /\ [RecordingNext]_recordingVars => SessInv'
  BY SessNextInv, SessionStep
<1> QED
  BY <1>1, <1>2, PTL DEF RecordingSpec

\* Whatever was encoded is on the disk or uploaded at every moment: in the file
\* of its segment, or inside a whole output (segments.c, record_publish).
THEOREM NoFootageLost == RecordingSpec => []FootageKept
  BY SessAlways, HeldFootage, PTL

\* What is published is complete, an abort publishes and leaves nothing, and no
\* ffmpeg outlives the recording (record_toggle, segments.c, ffmpeg.c).
THEOREM RecordingsEndAsAsked == RecordingSpec => []EndsAsAsked
  BY SessAlways, EndAsAsked, PTL

-----------------------------------------------------------------------------
(* The tray: the pause flag and the signals on their way to it.            *)

\* The pause flag is what the user asked for, but for a SIGUSR1 the recorder
\* still has to handle; the tray process gets none.
TrayInv ==
  /\ pauseAsked \in BOOLEAN /\ pausedNow \in BOOLEAN /\ want \in BOOLEAN
  /\ "USR1" \notin trayPend
  /\ RecAlive => ((pauseAsked <=> want) <=> "USR1" \notin recPend)

LEMMA TrayInitInv == RecTrayInit => TrayInv
  BY DEF RecTrayInit, TrayInv, RecAlive

LEMMA TrayNextInv ==
  ASSUME ~Broadcast, TrayInv, [RecTrayNext]_recTrayVars
  PROVE  TrayInv'
<1> USE DEF TrayInv, RecAlive, flags, trayVars
<1>1. ASSUME NEW sig \in Signals, RecHandles(sig)
      PROVE  TrayInv'
  BY <1>1 DEF RecHandles, OnPause
<1>2. ASSUME NEW sig \in Signals, TrayHandlesInherited(sig)
      PROVE  TrayInv'
  BY <1>2 DEF TrayHandlesInherited, OnPause
<1>3. ASSUME NEW sig \in Signals, TrayHandlesOwn(sig)
      PROVE  TrayInv'
  BY <1>3 DEF TrayHandlesOwn
<1>4. CASE Recorder
  <2> USE DEF RecGoto, ToTray
  <2>1. CASE StartSegment \/ StartFails \/ LoopEnds
    BY <2>1 DEF StartSegment, StartFails, LoopEnds
  <2>2. CASE ClockStep
    BY <2>2 DEF ClockStep
  <2>3. CASE TrayKill \/ TrayReap
    BY <2>3 DEF TrayKill, TrayReap
  <2> QED
    BY <1>4, <2>1, <2>2, <2>3 DEF Recorder
<1>5. CASE RecorderCrashes
  BY <1>5 DEF RecorderCrashes, ToTray
<1>6. CASE Tray \/ TrayBails \/ HostFetches
  BY <1>6 DEF Tray, TrayArm, TrayCheckParent, TrayInstall, TrayRegister, TrayStops, TrayTakesUpdate,
              TrayEmits, TrayBails, HostFetches, TrayGoto
<1>7. CASE ButtonPauses
  BY <1>7 DEF ButtonPauses, Settled
<1>8. CASE UserPauses
  BY <1>8 DEF UserPauses, Settled, ToRec
<1>9. CASE UserStops
  BY <1>9 DEF UserStops, ToRec
<1>10. CASE UNCHANGED recTrayVars
  BY <1>10 DEF recTrayVars
<1> QED
  BY <1>1, <1>2, <1>3, <1>4, <1>5, <1>6, <1>7, <1>8, <1>9, <1>10 DEF RecTrayNext

\* Once every SIGUSR1 was handled, the pause flag is what the user's requests
\* add up to, whatever the two processes do in between and whichever dies
\* (on_pause_signal, rec_clock_step, tray.c) - when the requests come from the
\* buttons and the tray menu, which signal the recorder alone.
THEOREM RequestsAreFollowed ==
  ASSUME ~Broadcast
  PROVE  RecordingSpec => []PauseFollowsRequests
<1>1. RecordingInit => TrayInv
  BY TrayInitInv DEF RecordingInit
<1>2. TrayInv /\ [RecordingNext]_recordingVars => TrayInv'
  <2>1. [RecordingNext]_recordingVars => [RecTrayNext]_recTrayVars
    BY DEF RecordingNext, recordingVars
  <2> QED
    BY <2>1, TrayNextInv
<1>3. TrayInv => PauseFollowsRequests
  BY DEF TrayInv, PauseFollowsRequests
<1> QED
  BY <1>1, <1>2, <1>3, PTL DEF RecordingSpec


-----------------------------------------------------------------------------
(* The pid file, for any number of invocations and both orders of the      *)
(* teardown.                                                               *)

\* What a process has open follows from where it is.
OpenMatchesPc ==
  \A p \in Procs :
    /\ pc[p] \in {"probe", "kill", "start", "create", "gone"} => fd[p] = None
    /\ pc[p] \in {"share", "unshare", "read", "lock", "restored"} \cup Recording => fd[p] # None
    /\ pc[p] = "tidy" => (fd[p] = None <=> ~UnlinkFirst)
    /\ pc[p] = "kill" => prev[p] # None

\* Who records holds LOCK_EX on the file it has open.
RecordersHoldLock == \A p \in Recorders : ex[fd[p]] = p

\* Until a teardown overlaps, everybody who has opened the file to lock it has
\* opened the one the path names.
OnePathToLock ==
  ~overlap => \A p \in Procs : pc[p] \in {"lock"} \cup Recording => fd[p] = dir

\* The inductive invariant.
PidInv == TypeOK /\ OpenMatchesPc /\ RecordersHoldLock /\ OnePathToLock

\* A step of one process.
StepOf(p) == \/ Probe(p) \/ UserSelects(p) \/ UserGivesUp(p) \/ Acquire(p)
             \/ RecordEnds(p) \/ TearDown(p) \/ Crash(p)

LEMMA NoneIsNoProc == None \notin Procs
BY ProcsAssumption DEF None

\* The initial state satisfies the invariant.
LEMMA PidInit == Init => PidInv
BY NoneIsNoProc DEF Init, PidInv, TypeOK, OpenMatchesPc, RecordersHoldLock, OnePathToLock,
                    Recorders, Recording, Pcs

\* TypeOK is preserved.
LEMMA TypeStep == ASSUME PidInv, NEW p \in Procs, StepOf(p) PROVE TypeOK'
<1> USE NoneIsNoProc DEF PidInv, TypeOK, OpenMatchesPc, Recording, Pcs, Goto, Opened
<1>1. CASE ProbeOpen(p) BY <1>1 DEF ProbeOpen
<1>2. CASE ProbeShare(p) BY <1>2 DEF ProbeShare
<1>3. CASE ProbeUnshare(p) BY <1>3, SMTT(40) DEF ProbeUnshare, Closed
<1>4. CASE ProbeRead(p) BY <1>4, SMTT(40) DEF ProbeRead, Closed
<1>5. CASE KillMisses(p) BY <1>5 DEF KillMisses
<1>19. CASE KillStops(p) BY <1>19 DEF KillStops
<1>20. CASE KillEnds(p)
  <2>1. pc[p] = "kill" /\ prev[p] \in Procs BY <1>20 DEF KillEnds
  <2> QED BY <1>20, <2>1, SMTT(40) DEF KillEnds, Closed
<1>6. CASE UserSelects(p) BY <1>6 DEF UserSelects
<1>7. CASE UserGivesUp(p) BY <1>7 DEF UserGivesUp
<1>8. CASE LockOpen(p) BY <1>8 DEF LockOpen
<1>9. CASE LockTaken(p) BY <1>9 DEF LockTaken
<1>10. CASE LockRefused(p) BY <1>10, SMTT(40) DEF LockRefused, Closed
<1>11. CASE LockTruncate(p) BY <1>11 DEF LockTruncate
<1>12. CASE LockWrite(p) BY <1>12 DEF LockWrite
<1>13. CASE ResetFlags(p) BY <1>13 DEF ResetFlags
<1>14. CASE Install(p) BY <1>14 DEF Install
<1>15. CASE RecordEnds(p) BY <1>15 DEF RecordEnds
<1>16. CASE TearDownFirst(p)
  <2>1. CASE UnlinkFirst BY <1>16, <2>1 DEF TearDownFirst, Unlinked
  <2>2. CASE ~(UnlinkFirst) BY <1>16, <2>2, SMTT(40) DEF TearDownFirst, JustClosed, Closed
  <2> QED BY <2>1, <2>2
<1>17. CASE TearDownSecond(p)
  <2>1. CASE ~UnlinkFirst BY <1>17, <2>1 DEF TearDownSecond, Unlinked
  <2>2. CASE ~(~UnlinkFirst) BY <1>17, <2>2, SMTT(40) DEF TearDownSecond, JustClosed, Closed
  <2> QED BY <2>1, <2>2
<1>18. CASE Crash(p) BY <1>18, SMTT(40) DEF Crash, Closed
<1> QED BY <1>1, <1>2, <1>3, <1>4, <1>5, <1>6, <1>7, <1>8, <1>9, <1>10, <1>11, <1>12, <1>13,
          <1>14, <1>15, <1>16, <1>17, <1>18,
          <1>19, <1>20 DEF StepOf, Probe, Acquire, TearDown

\* What the processes have open, who holds the lock, and which file the path
\* names: one lemma, because closing and unlinking disturb all three.
LEMMA LockStep ==
  ASSUME PidInv, NEW p \in Procs, StepOf(p)
  PROVE  OpenMatchesPc' /\ RecordersHoldLock' /\ OnePathToLock'
<1> USE NoneIsNoProc DEF PidInv, TypeOK, OpenMatchesPc, RecordersHoldLock, OnePathToLock,
                         Recorders, Recording, Pcs, Goto, Opened
<1>1. CASE ProbeOpen(p) BY <1>1 DEF ProbeOpen
<1>2. CASE ProbeShare(p) BY <1>2 DEF ProbeShare
<1>3. CASE ProbeUnshare(p) BY <1>3, SMTT(40) DEF ProbeUnshare, Closed
<1>4. CASE ProbeRead(p) BY <1>4, SMTT(40) DEF ProbeRead, Closed
<1>5. CASE KillMisses(p) BY <1>5 DEF KillMisses
<1>19. CASE KillStops(p) BY <1>19 DEF KillStops
<1>20. CASE KillEnds(p)
  <2>1. pc[p] = "kill" /\ prev[p] \in Procs BY <1>20 DEF KillEnds
  <2> QED BY <1>20, <2>1, SMTT(40) DEF KillEnds, Closed
<1>6. CASE UserSelects(p) BY <1>6 DEF UserSelects
<1>7. CASE UserGivesUp(p) BY <1>7 DEF UserGivesUp
<1>8. CASE LockOpen(p) BY <1>8 DEF LockOpen
<1>9. CASE LockTaken(p) BY <1>9 DEF LockTaken
<1>10. CASE LockRefused(p) BY <1>10, SMTT(40) DEF LockRefused, Closed
<1>11. CASE LockTruncate(p) BY <1>11 DEF LockTruncate
<1>12. CASE LockWrite(p) BY <1>12 DEF LockWrite
<1>13. CASE ResetFlags(p) BY <1>13 DEF ResetFlags
<1>14. CASE Install(p) BY <1>14 DEF Install
<1>15. CASE RecordEnds(p) BY <1>15 DEF RecordEnds
<1>16. CASE TearDownFirst(p)
  <2>1. CASE UnlinkFirst BY <1>16, <2>1 DEF TearDownFirst, Unlinked
  <2>2. CASE ~(UnlinkFirst) BY <1>16, <2>2, SMTT(40) DEF TearDownFirst, JustClosed, Closed
  <2> QED BY <2>1, <2>2
<1>17. CASE TearDownSecond(p)
  <2>1. CASE ~UnlinkFirst BY <1>17, <2>1 DEF TearDownSecond, Unlinked
  <2>2. CASE ~(~UnlinkFirst) BY <1>17, <2>2, SMTT(40) DEF TearDownSecond, JustClosed, Closed
  <2> QED BY <2>1, <2>2
<1>18. CASE Crash(p) BY <1>18, SMTT(40) DEF Crash, Closed
<1> QED BY <1>1, <1>2, <1>3, <1>4, <1>5, <1>6, <1>7, <1>8, <1>9, <1>10, <1>11, <1>12, <1>13,
          <1>14, <1>15, <1>16, <1>17, <1>18,
          <1>19, <1>20 DEF StepOf, Probe, Acquire, TearDown

\* The invariant is inductive.
THEOREM PidInductive == Spec => []PidInv
<1>1. PidInv /\ [Next]_vars => PidInv'
  <2> SUFFICES ASSUME PidInv, [Next]_vars PROVE PidInv' OBVIOUS
  <2>1. ASSUME NEW p \in Procs, StepOf(p) PROVE PidInv'
    BY <2>1, TypeStep, LockStep DEF PidInv
  <2>2. CASE UNCHANGED vars
    BY <2>2 DEF vars, PidInv, TypeOK, OpenMatchesPc, RecordersHoldLock, OnePathToLock, Recorders
  <2> QED BY <2>1, <2>2 DEF Next, StepOf, Over
<1> QED BY PidInit, <1>1, PTL DEF Spec

\* Every variable has its type, and a lock belongs to who has the file open.
THEOREM PidTyping == Spec => []TypeOK
BY PidInductive, PTL DEF PidInv

\* Concurrent starts, stops and crashes never make two recordings, however many
\* invocations there are: it takes a teardown that unlinks the file under one.
THEOREM OneRecorder == Spec => []OneRecordingUnlessOverlap
<1>1. PidInv => OneRecordingUnlessOverlap
  BY DEF PidInv, RecordersHoldLock, OnePathToLock, OneRecordingUnlessOverlap, OneRecording,
         Recorders, Recording
<1> QED BY PidInductive, <1>1, PTL

\* Until then the path names the recorder's file, so the next invocation finds it.
THEOREM Findable == Spec => []RecorderIsFindable
<1>1. PidInv => RecorderIsFindable
  BY DEF PidInv, RecordersHoldLock, OnePathToLock, RecorderIsFindable, Recorders, Recording
<1> QED BY PidInductive, <1>1, PTL

\* In a recording, where the pid file is one of three parts, it behaves as on its own, so both
\* hold there too.
THEOREM LockInRecording == RecordingSpec => [](OneRecordingUnlessOverlap /\ RecorderIsFindable)
<1>1. RecordingInit => Init  BY DEF RecordingInit
<1>2. [RecordingNext]_recordingVars => [Next]_vars  BY DEF RecordingNext, recordingVars
<1>3. RecordingSpec => Spec  BY <1>1, <1>2, PTL DEF RecordingSpec, Spec
<1> QED BY <1>3, OneRecorder, Findable, PTL
=============================================================================
