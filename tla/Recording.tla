------------------------------ MODULE Recording ------------------------------
(***************************************************************************)
(* The processes of a recording.  Its session (segments, ffmpeg children,  *)
(* files), its tray child and the pid file by which invocations find each  *)
(* other share no state but the flags that the signals set, so each is     *)
(* checked in behaviours of its own.                                       *)
(***************************************************************************)
EXTENDS RecSession, RecTray, PidLock

VARIABLE about     \* the part of this behaviour: "session", "tray" or "lock"

recordingVars == <<about, sessionVars, recTrayVars, vars>>

RecordingInit ==
  /\ about \in {"session", "tray", "lock"}
  /\ SessionInit /\ RecTrayInit /\ Init
  \* what is not looked at starts in one way
  /\ about = "session" \/ opts = [upload |-> FALSE, keep |-> TRUE, shrink |-> FALSE]

RecordingNext ==
  \/ about = "session" /\ SessionNext /\ UNCHANGED <<about, recTrayVars, vars>>
  \/ about = "tray" /\ RecTrayNext /\ UNCHANGED <<about, sessionVars, vars>>
  \/ about = "tray" /\ ~RecAlive /\ ~TrayAlive /\ UNCHANGED recordingVars
  \/ about = "lock" /\ Next /\ UNCHANGED <<about, sessionVars, recTrayVars>>

\* The fairness of each part, in its behaviours: what a thread, a process or a
\* child can do it does, and a signal that was sent is handled.
RecordingFairness ==
  /\ WF_sessionVars(about = "session" /\ Main)
  /\ WF_sessionVars(about = "session" /\ Tool)
  /\ \A k \in Segs : WF_sessionVars(about = "session" /\ Child(k))
  /\ WF_sessionVars(about = "session" /\ inAbort /\ SignalAbort)
  /\ \A sig \in Signals : /\ WF_recTrayVars(about = "tray" /\ RecHandles(sig))
                          /\ WF_recTrayVars(about = "tray" /\ TrayHandlesInherited(sig))
                          /\ WF_recTrayVars(about = "tray" /\ TrayHandlesOwn(sig))
  /\ WF_recTrayVars(about = "tray" /\ Recorder)
  /\ WF_recTrayVars(about = "tray" /\ Tray)
  /\ WF_recTrayVars(about = "tray" /\ HostFetches)
  /\ \A p \in Procs : /\ WF_vars(about = "lock" /\ Probe(p))
                      /\ WF_vars(about = "lock" /\ Acquire(p))
                      /\ WF_vars(about = "lock" /\ StopSeen(p))
                      /\ WF_vars(about = "lock" /\ TearDown(p))

RecordingSpec == RecordingInit /\ [][RecordingNext]_recordingVars /\ RecordingFairness

\* The types of the three.
RecordingTypeOK == SessionTypeOK /\ RecTrayTypeOK /\ TypeOK
=============================================================================
