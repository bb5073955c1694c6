------------------------------ MODULE RecSession ------------------------------
(***************************************************************************)
(* One recording, from the first segment to the published file: the main   *)
(* thread of record_toggle with its segments (record/segments.c), the      *)
(* ffmpeg children it starts and reaps (record/ffmpeg.c), the files they   *)
(* leave and what record_publish does with the result.  Frames and threads *)
(* are in FrameRing: here an encoder thread runs or it does not.           *)
(***************************************************************************)
EXTENDS Naturals

CONSTANTS
  MaxSegs,      \* bound: segments a recording is made of
  FfmpegFails   \* whether ffmpeg may fail for reasons of its own

ASSUME MaxSegsAssumption     == MaxSegs \in Nat \ {0}
ASSUME FfmpegFailsAssumption == FfmpegFails \in BOOLEAN

VARIABLES
  sessPc,          \* where the main thread is, see Pcs
  opts,        \* publish_opts: [upload, keep], and shrink: max_size_mb is exceeded
  recStop, pause, abort,   \* grabit_rec_stop, grabit_rec_pause, grabit_rec_abort
  inAbort,     \* on_abort_signal is between its two stores
  stopCause,   \* history: what first asked for the stop
  paused,      \* rec_clock.paused
  aborted,     \* what record_toggle read of the abort flag after the loop
  nSegs,       \* seg_ctx.n_segs
  child,       \* the ffmpeg of each segment
  file,        \* the file of each segment
  cur,         \* seg_ctx.pid, by segment; 0 is -1
  fdOpen,      \* seg_ctx.fd >= 0
  encRunning,  \* seg_ctx.enc_running
  pending,     \* seg_ctx.pending without the entries already reaped
  failed,      \* seg_ctx.failed
  shot,        \* history: the segments whose encoder finished well
  tool,        \* the child of ffmpeg_run
  out,         \* the file at final_path
  outSegs,     \* history: the segments in it
  tmp,         \* the .compressing.mp4 next to it
  uploaded,    \* history: the service has the file
  result       \* how record_toggle ended

Segs == 1 .. MaxSegs

SessionPcs == {"begin", "pool", "loop", "leave", "finish", "kill", "reapKilled", "discard", "poll",
        "reap", "assemble", "concat", "publish", "compress", "upload", "over",
        "waitThread", "waitPause", "waitFinish", "errFinish", "waitError", "errReap"}

flagVars == <<recStop, pause, abort, inAbort, stopCause>>
segVars  == <<nSegs, child, file, cur, fdOpen, encRunning, pending, failed, shot>>
outVars  == <<tool, out, outSegs, tmp, uploaded>>
ctlVars  == <<opts, paused, aborted, result>>
sessionVars == <<sessPc, flagVars, segVars, outVars, ctlVars>>

SessionGoto(from, to) == sessPc = from /\ sessPc' = to

AskStop(cause) == /\ recStop' = TRUE
                  /\ stopCause' = IF stopCause = "none" THEN cause ELSE stopCause

Exited(k) == child[k] \in {"ok", "bad"}

\* waitpid and ffmpeg_exit_rc for the children in K.
Reap(K) == /\ child' = [k \in Segs |-> IF k \in K THEN "reaped" ELSE child[k]]
           /\ failed' = (failed \/ \E k \in K : child[k] = "bad")

\* seg_unlink_all
UnlinkAll == file' = [k \in Segs |-> IF k <= nSegs THEN "none" ELSE file[k]]

-----------------------------------------------------------------------------
(* The encoders' ffmpeg.  It ends well only after the end of its input.    *)

\* It opens its output some time after the fork, at the latest in a call that
\* a SIGKILL finds in progress.
ChildOpensFile(k) ==
  /\ child[k] \in {"run", "killed"} /\ file[k] = "none"
  /\ file' = [file EXCEPT ![k] = "part"]
  /\ UNCHANGED <<sessPc, flagVars, nSegs, child, cur, fdOpen, encRunning, pending, failed, shot,
                 outVars, ctlVars>>

\* Nobody can write to its pipe any more: the trailer is written, exit code 0.
ChildEnds(k) ==
  /\ child[k] = "run" /\ file[k] = "part" /\ ~(fdOpen /\ cur = k)
  /\ child' = [child EXCEPT ![k] = "ok"]
  /\ file' = [file EXCEPT ![k] = "whole"]
  /\ shot' = shot \cup {k}
  /\ UNCHANGED <<sessPc, flagVars, nSegs, cur, fdOpen, encRunning, pending, failed, outVars, ctlVars>>

\* It is killed ...
ChildDies(k) ==
  /\ child[k] = "killed"
  /\ child' = [child EXCEPT ![k] = "bad"]
  /\ UNCHANGED <<sessPc, flagVars, nSegs, file, cur, fdOpen, encRunning, pending, failed, shot,
                 outVars, ctlVars>>

\* ... or cannot run, or cannot write.
ChildFails(k) ==
  /\ FfmpegFails /\ child[k] = "run"
  /\ child' = [child EXCEPT ![k] = "bad"]
  /\ UNCHANGED <<sessPc, flagVars, nSegs, file, cur, fdOpen, encRunning, pending, failed, shot,
                 outVars, ctlVars>>

\* The encoder thread's write fails with EPIPE: it asks for the stop.
EncoderSeesDeath ==
  /\ encRunning /\ child[cur] = "bad" /\ ~recStop
  /\ AskStop("encoder")
  /\ UNCHANGED <<sessPc, pause, abort, inAbort, segVars, outVars, ctlVars>>

-----------------------------------------------------------------------------
(* Signals and buttons.                                                    *)

\* waitpid in ffmpeg_run returns EINTR on any signal with a handler, and the
\* child gets one SIGINT if the stop flag is up - as it is after every stop.
\* A signal that comes before waitpid, or to another thread, does not do that.
ToolInterrupted(stopping) ==
  /\ tool' \in (IF tool = "run" /\ stopping THEN {"run", "sigint"} ELSE {tool})
  /\ UNCHANGED <<out, outSegs, tmp, uploaded>>

SignalStop ==
  /\ sessPc # "over"
  /\ AskStop("user")
  /\ ToolInterrupted(TRUE)
  /\ UNCHANGED <<sessPc, pause, abort, inAbort, segVars, ctlVars>>

SignalPause ==
  /\ sessPc # "over"
  /\ pause' = ~pause
  /\ ToolInterrupted(recStop)
  /\ UNCHANGED <<sessPc, recStop, abort, inAbort, stopCause, segVars, ctlVars>>

\* on_abort_signal and the abort button: the abort flag first, then the stop
\* flag.  The handler may run on any thread, so the main thread can be between.
SignalAbort ==
  /\ \/ /\ sessPc # "over" /\ ~inAbort /\ ~abort
        /\ abort' = TRUE /\ inAbort' = TRUE /\ UNCHANGED <<recStop, stopCause, outVars>>
     \/ /\ inAbort
        /\ AskStop("abort") /\ inAbort' = FALSE /\ ToolInterrupted(TRUE) /\ UNCHANGED abort
  /\ UNCHANGED <<sessPc, pause, segVars, ctlVars>>

\* The source or the compositor is gone, or captures keep failing.
SourceLost ==
  /\ sessPc = "loop" /\ ~recStop
  /\ AskStop("source")
  /\ UNCHANGED <<sessPc, pause, abort, inAbort, segVars, outVars, ctlVars>>

-----------------------------------------------------------------------------
(* Segments.                                                               *)

Spawn == /\ nSegs < MaxSegs
         /\ nSegs' = nSegs + 1 /\ cur' = nSegs + 1
         /\ child' = [child EXCEPT ![nSegs + 1] = "run"]

\* seg_begin: one more segment, with an encoder.
SegBegin == /\ Spawn /\ fdOpen' = TRUE /\ encRunning' = TRUE
            /\ UNCHANGED <<file, pending, failed, shot>>

\* pthread_create failed after the fork: the segment stays in the list, its
\* pipe is closed and its child is waited for.
SegBeginNoThread == /\ Spawn
                    /\ UNCHANGED <<file, fdOpen, encRunning, pending, failed, shot>>

\* Slip: the pipe of the segment stays open.
SegFinishKeepsPipe ==
  /\ encRunning' = FALSE
  /\ pending' = pending \cup {cur}
  /\ UNCHANGED <<nSegs, child, file, cur, fdOpen, failed, shot>>

\* seg_finish: the encoder is joined and its pipe closed; the child goes on the
\* pending list.
SegFinish ==
  /\ encRunning' = FALSE /\ fdOpen' = FALSE
  /\ pending' = pending \cup {cur} /\ cur' = 0
  /\ UNCHANGED <<nSegs, child, file, failed, shot>>

\* The pending list cannot grow: seg_finish waits for this child on the spot.
SegFinishFull ==
  /\ encRunning' = FALSE /\ fdOpen' = FALSE
  /\ UNCHANGED <<nSegs, child, file, cur, pending, failed, shot>>

\* The wait of SegFinishFull is over.
CurReaped(from, to) ==
  /\ SessionGoto(from, to)
  /\ Exited(cur) /\ Reap({cur}) /\ cur' = 0
  /\ UNCHANGED <<flagVars, nSegs, file, fdOpen, encRunning, pending, shot, outVars, ctlVars>>

-----------------------------------------------------------------------------
(* The main thread: start and loop.                                        *)

BeginFirst ==
  /\ \/ SessionGoto("begin", "pool") /\ SegBegin
     \/ SessionGoto("begin", "waitThread") /\ SegBeginNoThread
     \/ SessionGoto("begin", "errFinish") /\ UNCHANGED segVars
  /\ UNCHANGED <<flagVars, outVars, ctlVars>>

\* pool_init, then the loop or err_pipeline.
PoolInit ==
  /\ sessPc = "pool" /\ sessPc' \in {"loop", "errFinish"}
  /\ UNCHANGED <<flagVars, segVars, outVars, ctlVars>>

\* wait_ffmpeg after a failed pthread_create.  The first segment ends in
\* err_pipeline, a later one makes rec_clock_step leave the loop.
ThreadlessReaped ==
  /\ sessPc = "waitThread" /\ Exited(cur)
  /\ child' = [child EXCEPT ![cur] = "reaped"] /\ cur' = 0
  /\ IF nSegs = 1 THEN /\ sessPc' = "errFinish"
                       /\ UNCHANGED <<recStop, stopCause, failed>>
                  ELSE /\ sessPc' = "leave"
                       /\ failed' = TRUE /\ AskStop("source")
  /\ UNCHANGED <<pause, abort, inAbort, nSegs, file, fdOpen, encRunning, pending, shot,
                 outVars, ctlVars>>

\* rec_clock_step pauses.
Pause ==
  /\ ~recStop /\ pause /\ ~paused
  /\ paused' = TRUE
  /\ \/ SessionGoto("loop", "loop") /\ SegFinish
     \/ SessionGoto("loop", "waitPause") /\ SegFinishFull
  /\ UNCHANGED <<flagVars, outVars, opts, aborted, result>>

\* rec_clock_step resumes ...
Resume ==
  /\ ~recStop /\ ~pause /\ paused
  /\ paused' = FALSE
  /\ \/ SessionGoto("loop", "loop") /\ SegBegin
     \/ SessionGoto("loop", "waitThread") /\ SegBeginNoThread
  /\ UNCHANGED <<flagVars, outVars, opts, aborted, result>>

\* ... or finds no child to resume with.
ResumeFails ==
  /\ ~recStop /\ ~pause /\ paused
  /\ SessionGoto("loop", "leave")
  /\ paused' = FALSE
  /\ failed' = TRUE /\ AskStop("source")
  /\ UNCHANGED <<pause, abort, inAbort, nSegs, child, file, cur, fdOpen, encRunning, pending,
                 shot, outVars, opts, aborted, result>>

LeaveLoop ==
  /\ recStop
  /\ SessionGoto("loop", "leave")
  /\ UNCHANGED <<flagVars, segVars, outVars, ctlVars>>

\* The abort flag is read once, after the loop.
ReadAbort ==
  /\ SessionGoto("leave", "finish")
  /\ aborted' = IF abort THEN "yes" ELSE "no"
  /\ UNCHANGED <<flagVars, segVars, outVars, opts, paused, result>>

-----------------------------------------------------------------------------
(* The main thread: the end.                                               *)

AfterFinish == IF aborted = "yes" THEN "kill" ELSE "poll"

\* seg_finish(&sc, NULL)
Finish ==
  /\ \/ encRunning /\ SessionGoto("finish", AfterFinish) /\ SegFinish
     \/ encRunning /\ SessionGoto("finish", "waitFinish") /\ SegFinishFull
     \/ ~encRunning /\ SessionGoto("finish", AfterFinish) /\ UNCHANGED segVars
  /\ UNCHANGED <<flagVars, outVars, ctlVars>>

\* Aborted: every pending child is killed ...
KillPending ==
  /\ SessionGoto("kill", "reapKilled")
  /\ child' = [k \in Segs |-> IF k \in pending /\ child[k] = "run" THEN "killed" ELSE child[k]]
  /\ UNCHANGED <<flagVars, nSegs, file, cur, fdOpen, encRunning, pending, failed, shot,
                 outVars, ctlVars>>

\* ... seg_reap_all waits for the pending children ...
ReapAll(from, to) ==
  /\ SessionGoto(from, to)
  /\ \A k \in pending : Exited(k)
  /\ Reap(pending) /\ pending' = {}
  /\ UNCHANGED <<flagVars, nSegs, file, cur, fdOpen, encRunning, shot, outVars, ctlVars>>

\* ... and the files go.
Discard ==
  /\ SessionGoto("discard", "over") /\ result' = "aborted"
  /\ UnlinkAll
  /\ UNCHANGED <<flagVars, nSegs, child, cur, fdOpen, encRunning, pending, failed, shot,
                 outVars, opts, paused, aborted>>

\* Slip: a child that had already exited is reaped without a look at its status.
PollForgetsStatus ==
  /\ SessionGoto("poll", "reap")
  /\ LET K == {k \in pending : Exited(k)} IN
     child' = [k \in Segs |-> IF k \in K THEN "reaped" ELSE child[k]] /\ pending' = pending \ K
  /\ UNCHANGED <<flagVars, nSegs, file, cur, fdOpen, encRunning, failed, shot, outVars, ctlVars>>

\* seg_any_pending_alive reaps the children that have exited already.
Poll ==
  /\ SessionGoto("poll", "reap")
  /\ LET K == {k \in pending : Exited(k)} IN Reap(K) /\ pending' = pending \ K
  /\ UNCHANGED <<flagVars, nSegs, file, cur, fdOpen, encRunning, shot, outVars, ctlVars>>

\* seg_assemble cannot even start.
AssembleFails ==
  /\ sessPc = "assemble"
  /\ sessPc' = "over" /\ result' = "failed"
  /\ UNCHANGED <<flagVars, segVars, outVars, opts, paused, aborted>>

\* One segment: it becomes the recording.
AssembleOne ==
  /\ ~failed /\ nSegs = 1
  /\ SessionGoto("assemble", "publish")
  /\ out' = file[1] /\ outSegs' = {1} /\ file' = [file EXCEPT ![1] = "none"]
  /\ UNCHANGED <<flagVars, nSegs, child, cur, fdOpen, encRunning, pending, failed, shot,
                 tool, tmp, uploaded, ctlVars>>

\* Several: ffmpeg concatenates them.
ConcatStart ==
  /\ ~failed /\ nSegs > 1
  /\ SessionGoto("assemble", "concat")
  /\ tool' = "run"
  /\ UNCHANGED <<flagVars, segVars, out, outSegs, tmp, uploaded, ctlVars>>

\* Slip: the segments go as soon as concat has ended, however it ended.
ConcatDoneUnlinks ==
  /\ sessPc = "concat" /\ tool' = "none" /\ UnlinkAll
  /\ \/ tool = "ok" /\ sessPc' = "publish" /\ UNCHANGED result
     \/ tool = "bad" /\ sessPc' = "over" /\ result' = "failed"
  /\ UNCHANGED <<flagVars, nSegs, child, cur, fdOpen, encRunning, pending, failed, shot,
                 out, outSegs, tmp, uploaded, opts, paused, aborted>>

\* The segments are unlinked once the recording holds them all; after a failure
\* they are kept.
ConcatDone ==
  /\ sessPc = "concat" /\ tool' = "none"
  /\ \/ tool = "ok" /\ sessPc' = "publish" /\ UnlinkAll /\ UNCHANGED result
     \/ tool = "bad" /\ sessPc' = "over" /\ result' = "failed" /\ UNCHANGED file
  /\ UNCHANGED <<flagVars, nSegs, child, cur, fdOpen, encRunning, pending, failed, shot,
                 out, outSegs, tmp, uploaded, opts, paused, aborted>>

-----------------------------------------------------------------------------
(* The ffmpeg of ffmpeg_run: concat writes final_path, compress the tmp.   *)

ToolRuns == tool \in {"run", "sigint"}

ToolWrites ==
  /\ ToolRuns
  /\ IF sessPc = "concat" THEN out = "none" /\ out' = "part" /\ UNCHANGED tmp
                      ELSE tmp = "none" /\ tmp' = "part" /\ UNCHANGED out
  /\ UNCHANGED <<sessPc, flagVars, segVars, tool, outSegs, uploaded, ctlVars>>

ToolEnds ==
  /\ tool = "run" /\ tool' = "ok"
  /\ IF sessPc = "concat" THEN out = "part" /\ out' = "whole" /\ outSegs' = 1 .. nSegs /\ UNCHANGED tmp
                      ELSE tmp = "part" /\ tmp' = "whole" /\ UNCHANGED <<out, outSegs>>
  /\ UNCHANGED <<sessPc, flagVars, segVars, uploaded, ctlVars>>

\* After a SIGINT ffmpeg closes its output early and exits with 255.
ToolFails ==
  /\ tool = "sigint" \/ (FfmpegFails /\ tool = "run")
  /\ tool' = "bad"
  /\ UNCHANGED <<sessPc, flagVars, segVars, out, outSegs, tmp, uploaded, ctlVars>>

-----------------------------------------------------------------------------
(* record_publish, and the ways out.                                       *)

\* maybe_compress: a file over max_size_mb is encoded again next to itself.
CompressStart ==
  /\ opts.shrink
  /\ SessionGoto("publish", "compress")
  /\ tool' = "run" /\ tmp' = "none"
  /\ UNCHANGED <<flagVars, segVars, out, outSegs, uploaded, ctlVars>>

\* Nothing to compress, or no child to compress with.
CompressSkip ==
  /\ SessionGoto("publish", "upload")
  /\ UNCHANGED <<flagVars, segVars, outVars, ctlVars>>

\* The new file replaces the recording when it is whole and can be renamed.
CompressDone ==
  /\ tool \in {"ok", "bad"} /\ tool' = "none"
  /\ SessionGoto("compress", "upload")
  /\ \/ tool = "ok" /\ out' = tmp
     \/ out' = out
  /\ tmp' = "none"
  /\ UNCHANGED <<flagVars, segVars, outSegs, uploaded, ctlVars>>

\* The recording stays where it is unless it was uploaded and is not to be kept.
Upload ==
  /\ SessionGoto("upload", "over") /\ result' = "ok"
  /\ \/ /\ opts.upload /\ uploaded' = TRUE
        /\ out' = IF opts.keep THEN out ELSE "none"
     \/ UNCHANGED <<uploaded, out>>
  /\ UNCHANGED <<flagVars, segVars, tool, outSegs, tmp, opts, paused, aborted>>

\* err_pipeline: seg_finish, seg_reap_all, seg_unlink_all.
ErrFinish ==
  /\ \/ encRunning /\ SessionGoto("errFinish", "errReap") /\ SegFinish
     \/ encRunning /\ SessionGoto("errFinish", "waitError") /\ SegFinishFull
     \/ ~encRunning /\ SessionGoto("errFinish", "errReap") /\ UNCHANGED segVars
  /\ UNCHANGED <<flagVars, outVars, ctlVars>>

ErrReap ==
  /\ SessionGoto("errReap", "over") /\ result' = "error"
  /\ \A k \in pending : Exited(k)
  /\ Reap(pending) /\ pending' = {}
  /\ UnlinkAll
  /\ UNCHANGED <<flagVars, nSegs, cur, fdOpen, encRunning, shot, outVars, opts, paused, aborted>>

SessionOver == sessPc = "over" /\ UNCHANGED sessionVars

-----------------------------------------------------------------------------
SessionInit ==
  /\ sessPc = "begin"
  /\ opts \in [upload : BOOLEAN, keep : BOOLEAN, shrink : BOOLEAN]
  /\ opts.upload \/ opts.keep
  /\ recStop = FALSE /\ pause = FALSE /\ abort = FALSE /\ inAbort = FALSE /\ stopCause = "none"
  /\ paused = FALSE /\ aborted = "unread" /\ result = "none"
  /\ nSegs = 0 /\ cur = 0 /\ fdOpen = FALSE /\ encRunning = FALSE
  /\ child = [k \in Segs |-> "none"] /\ file = [k \in Segs |-> "none"]
  /\ pending = {} /\ failed = FALSE /\ shot = {}
  /\ tool = "none" /\ out = "none" /\ outSegs = {} /\ tmp = "none" /\ uploaded = FALSE

Main == \/ BeginFirst \/ PoolInit \/ ThreadlessReaped
        \/ Pause \/ Resume \/ ResumeFails \/ LeaveLoop \/ ReadAbort
        \/ CurReaped("waitPause", "loop")
        \/ Finish \/ CurReaped("waitFinish", AfterFinish)
        \/ KillPending \/ ReapAll("reapKilled", "discard") \/ Discard
        \/ Poll \/ ReapAll("reap", "assemble")
        \/ AssembleFails \/ AssembleOne \/ ConcatStart \/ ConcatDone
        \/ CompressStart \/ CompressSkip \/ CompressDone \/ Upload
        \/ ErrFinish \/ CurReaped("waitError", "errReap") \/ ErrReap

Child(k) == ChildOpensFile(k) \/ ChildEnds(k) \/ ChildDies(k)

Tool == ToolWrites \/ ToolEnds \/ ToolFails

SessionNext == \/ Main \/ Tool
        \/ \E k \in Segs : Child(k) \/ ChildFails(k)
        \/ EncoderSeesDeath \/ SourceLost
        \/ SignalStop \/ SignalPause \/ SignalAbort
        \/ SessionOver

SessionSpec == SessionInit /\ [][SessionNext]_sessionVars

\* The main thread runs, a signal handler returns, and ffmpeg ends when its
\* input does.
SessionFairness == /\ WF_sessionVars(Main)
            /\ WF_sessionVars(Tool)
            /\ \A k \in Segs : WF_sessionVars(Child(k))
            /\ WF_sessionVars(inAbort /\ SignalAbort)

SessionFairSpec == SessionSpec /\ SessionFairness

-----------------------------------------------------------------------------
(* Properties.                                                             *)

\* Every variable has its type.
SessionTypeOK ==
  LET Files == {"none", "part", "whole"} IN
  /\ sessPc \in SessionPcs
  /\ {recStop, pause, abort, inAbort, paused, fdOpen, encRunning, failed, uploaded} \subseteq BOOLEAN
  /\ aborted \in {"unread", "yes", "no"} /\ result \in {"none", "ok", "failed", "aborted", "error"}
  /\ stopCause \in {"none", "user", "abort", "encoder", "source"}
  /\ nSegs \in 0 .. MaxSegs /\ cur \in 0 .. nSegs
  /\ child \in [Segs -> {"none", "run", "killed", "ok", "bad", "reaped"}]
  /\ file \in [Segs -> Files] /\ out \in Files /\ tmp \in Files
  /\ pending \subseteq 1 .. nSegs /\ shot \subseteq 1 .. nSegs /\ outSegs \subseteq 1 .. nSegs
  /\ tool \in {"none", "run", "sigint", "ok", "bad"}

\* Whatever was encoded is on the disk or uploaded at every moment, so also when
\* grabit is killed at that moment: as its segment, or inside a whole output
\* (seg_assemble, concat_segments, compress_to_target_size, record_publish).
\* Only an abort and a start that failed throw footage away.
FootageKept ==
  aborted = "yes" \/ sessPc = "errReap" \/ result = "error"
  \/ uploaded
  \/ \A k \in shot : file[k] = "whole" \/ (out = "whole" /\ k \in outSegs)

\* What is published is the whole recording: every segment, each from an
\* encoder that finished well.
PublishedIsComplete ==
  sessPc \in {"publish", "compress", "upload"} =>
    out = "whole" /\ outSegs = 1 .. nSegs /\ outSegs \subseteq shot

\* When it was an abort that ended the loop, record_toggle reads the abort flag
\* as set and discards: on_abort_signal and the button set it before the stop flag.
AbortHonoured == stopCause = "abort" /\ aborted # "unread" => aborted = "yes"

\* An aborted recording leaves nothing behind, not even a file that a child
\* creates while it is being killed.
AbortLeavesNothing ==
  result = "aborted" => out = "none" /\ tmp = "none" /\ \A k \in Segs : file[k] = "none"

\* No ffmpeg outlives the recording or stays a zombie.
EveryChildReaped ==
  sessPc = "over" => tool = "none" /\ \A k \in Segs : child[k] \in {"none", "reaped"}

\* A recording ends the way it was asked to: what is published is complete, an
\* abort publishes and leaves nothing, and no child survives it.
EndsAsAsked ==
  PublishedIsComplete /\ AbortHonoured /\ AbortLeavesNothing /\ EveryChildReaped

\* A recording that was asked to stop ends: no wait for a child comes before the
\* end of that child's input.
StopReachesEnd == recStop \/ abort ~> (sessPc = "over")

\* docs/design/recording.md: "the file is finalized rather than left partial".
FinalizedNotPartial == sessPc = "over" => out # "part"

=============================================================================
