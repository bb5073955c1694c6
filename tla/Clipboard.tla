------------------------------ MODULE Clipboard ------------------------------
(***************************************************************************)
(* Copying to the clipboard (src/clipboard): a detached child owns the     *)
(* selection and serves it until another client takes it; the command      *)
(* waits up to five seconds for the child's byte on a pipe.  The           *)
(* compositor may be slow, and the Wayland connection may be lost.         *)
(***************************************************************************)
EXTENDS FiniteSets

CONSTANT Copies                    \* invocations that copy
ASSUME CopiesAssumption == "nobody" \notin Copies

VARIABLES
  clipCmd,    \* per copy: the command
  clipChild,  \* per copy: the serving child
  clipPipe,   \* per copy: what the pipe holds: "empty", "ready", "failed", "eof"
  clipOwner,  \* whose source is the selection, or "nobody"
  clipGone,   \* copies whose source was cancelled, not yet told
  clipLate    \* history: the byte came between the timeout and close

clipVars == <<clipCmd, clipChild, clipPipe, clipOwner, clipGone, clipLate>>

CmdGoes(c, from, to)   == clipCmd[c] = from /\ clipCmd' = [clipCmd EXCEPT ![c] = to]
ChildGoes(c, from, to) == clipChild[c] = from /\ clipChild' = [clipChild EXCEPT ![c] = to]
PipeHolds(c, what)     == clipPipe' = [clipPipe EXCEPT ![c] = what]
\* The connection of a child ends: the compositor drops its source.
Dropped(c) == /\ clipOwner' = IF clipOwner = c THEN "nobody" ELSE clipOwner
              /\ clipGone' = clipGone \ {c}

-----------------------------------------------------------------------------
(* clipboard_send_bytes.                                                   *)

\* No connection, no protocol, no seat, no fork.
CopyRefused(c) == CmdGoes(c, "idle", "failed")
                  /\ UNCHANGED <<clipChild, clipPipe, clipOwner, clipGone, clipLate>>

\* fork; the child forks again and the first one is reaped.
CopyForks(c) == /\ CmdGoes(c, "idle", "wait") /\ ChildGoes(c, "none", "connect")
                /\ UNCHANGED <<clipPipe, clipOwner, clipGone, clipLate>>

\* Slip: any byte counts, a failure's too.
CopyHearsAny(c) == /\ clipPipe[c] # "empty"
                   /\ CmdGoes(c, "wait", IF clipPipe[c] = "eof" THEN "failed" ELSE "copied")
                   /\ UNCHANGED <<clipChild, clipPipe, clipOwner, clipGone, clipLate>>
CopyHears(c) == /\ clipPipe[c] # "empty"
                /\ CmdGoes(c, "wait", IF clipPipe[c] = "ready" THEN "copied" ELSE "failed")
                /\ UNCHANGED <<clipChild, clipPipe, clipOwner, clipGone, clipLate>>

\* poll returns 0 after CLIP_READY_TIMEOUT_MS; then close.
CopyTimesOut(c) == /\ clipPipe[c] = "empty" /\ CmdGoes(c, "wait", "close")
                   /\ UNCHANGED <<clipChild, clipPipe, clipOwner, clipGone, clipLate>>
CopyCloses(c) == /\ CmdGoes(c, "close", "failed")
                 /\ UNCHANGED <<clipChild, clipPipe, clipOwner, clipGone, clipLate>>

-----------------------------------------------------------------------------
(* clip_child, clip_wlr_serve, clip_ext_serve.                             *)

\* clip_signal_ready: on a pipe nobody reads it kills the child, since SIGPIPE
\* is ignored only once something has been pasted.
ChildSignals(c, what, to) ==
  IF clipCmd[c] = "failed"
  THEN /\ clipChild' = [clipChild EXCEPT ![c] = "gone"]
       /\ Dropped(c) /\ UNCHANGED <<clipPipe, clipLate>>
  ELSE /\ clipChild' = [clipChild EXCEPT ![c] = to]
       /\ PipeHolds(c, what)
       /\ clipLate' = IF clipCmd[c] = "close" THEN clipLate \cup {c} ELSE clipLate
       /\ IF to = "gone" THEN Dropped(c) ELSE UNCHANGED <<clipOwner, clipGone>>

\* No connection, no seat, no protocol by now, or the roundtrip fails.
ChildFails(c) == /\ clipChild[c] \in {"connect", "roundtrip"}
                 /\ ChildSignals(c, "failed", "gone")
                 /\ UNCHANGED clipCmd

\* set_selection reaches the compositor: the owner before is cancelled.
ChildSelects(c) ==
  /\ ChildGoes(c, "connect", "roundtrip")
  /\ clipGone' = IF clipOwner = "nobody" THEN clipGone ELSE clipGone \cup {clipOwner}
  /\ clipOwner' = c
  /\ UNCHANGED <<clipCmd, clipPipe, clipLate>>

ChildIsReady(c) == /\ clipChild[c] = "roundtrip" /\ ChildSignals(c, "ready", "serve")
                   /\ UNCHANGED clipCmd

\* A paste: write until the reader has it all or closes its end.
ChildWrites(c) == /\ clipOwner = c /\ ChildGoes(c, "serve", "write")
                  /\ UNCHANGED <<clipCmd, clipPipe, clipOwner, clipGone, clipLate>>
ReaderTakes(c) == /\ ChildGoes(c, "write", "serve")
                  /\ UNCHANGED <<clipCmd, clipPipe, clipOwner, clipGone, clipLate>>

\* cancelled, or the connection is lost.
ChildEnds(c) == /\ c \in clipGone /\ ChildGoes(c, "serve", "ended") /\ Dropped(c)
                /\ UNCHANGED <<clipCmd, clipPipe, clipLate>>
ChildLosesWayland(c) == /\ ChildGoes(c, "serve", "ended") /\ Dropped(c)
                        /\ UNCHANGED <<clipCmd, clipPipe, clipLate>>

\* Killed: the pipe's last writer is gone.
ChildDies(c) == /\ clipChild[c] \in {"connect", "roundtrip"} /\ clipChild' = [clipChild EXCEPT ![c] = "gone"]
                /\ PipeHolds(c, "eof") /\ Dropped(c)
                /\ UNCHANGED <<clipCmd, clipLate>>

-----------------------------------------------------------------------------
ClipboardInit ==
  /\ clipCmd = [c \in Copies |-> "idle"] /\ clipChild = [c \in Copies |-> "none"]
  /\ clipPipe = [c \in Copies |-> "empty"] /\ clipOwner = "nobody"
  /\ clipGone = {} /\ clipLate = {}

ClipboardNext == \E c \in Copies :
  \/ CopyRefused(c) \/ CopyForks(c) \/ CopyHears(c) \/ CopyTimesOut(c) \/ CopyCloses(c)
  \/ ChildFails(c) \/ ChildSelects(c) \/ ChildIsReady(c) \/ ChildWrites(c) \/ ReaderTakes(c)
  \/ ChildEnds(c) \/ ChildLosesWayland(c) \/ ChildDies(c)

-----------------------------------------------------------------------------
ClipboardTypeOK ==
  /\ clipOwner \in Copies \cup {"nobody"} /\ clipGone \subseteq Copies /\ clipLate \subseteq Copies
  /\ \A c \in Copies : /\ clipCmd[c] \in {"idle", "wait", "close", "copied", "failed"}
                       /\ clipChild[c] \in {"none", "connect", "roundtrip", "serve", "write", "ended", "gone"}
                       /\ clipPipe[c] \in {"empty", "ready", "failed", "eof"}

\* What the command reports is what the selection became (send.c:161-220): once
\* it says "copied", its child serves the copy until somebody else takes the
\* selection or the connection is lost, and a child whose command gave up never
\* stays the owner, but for a byte that came while the command was closing the
\* pipe.  Everybody that is neither the owner nor told to end is gone.
ReportMatchesSelection ==
  \A c \in Copies :
    /\ clipCmd[c] = "copied" => clipChild[c] \in {"serve", "write", "ended"}
    /\ clipCmd[c] = "failed" /\ c \notin clipLate => clipChild[c] \notin {"serve", "write"}
    /\ clipChild[c] \in {"serve", "write"} => clipOwner = c \/ c \in clipGone

=============================================================================
