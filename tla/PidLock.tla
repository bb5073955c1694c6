------------------------------- MODULE PidLock -------------------------------
(***************************************************************************)
(* One command that starts a recorder or stops the one that runs: the pid  *)
(* file with its flock, for grabit --record (record/pid.c, record/record.c)*)
(* and, with UnlinkFirst, for grabit --tray (tray/apptray.c).              *)
(*                                                                         *)
(* Each process is one invocation of the command.  Every system call is a  *)
(* step of its own.  A process creates at most one file, so an inode is    *)
(* named by its creator.                                                   *)
(***************************************************************************)
EXTENDS Naturals

CONSTANTS
  Procs,        (* invocations of the command                              *)
  UnlinkFirst,  (* unlink_tray_pid removes the file, then closes it;
                   unlink_pid_file closes it, then removes it              *)
  Crashes       (* a recorder may be killed with no cleanup                *)

ASSUME ProcsAssumption  == Procs \subseteq Nat \ {0}
ASSUME OptionAssumption == {UnlinkFirst, Crashes} \subseteq BOOLEAN

None == 0        \* no inode, no process, an empty file

VARIABLES
  dir,       \* the inode the path names, or None
  ex, sh,    \* per inode: the holder of LOCK_EX, the holders of LOCK_SH
  content,   \* per inode: the pid in the file, or None
  pc,        \* per process: where it is, see Pcs
  fd,        \* per process: the inode it has open, or None
  prev,      \* per process: the pid it read
  stop,      \* per process: grabit_rec_stop
  told,      \* history, per process: a SIGINT was sent to it
  overlap    \* history: a process unlinked a file another one was about to lock or had locked

vars == <<dir, ex, sh, content, pc, fd, prev, stop, told, overlap>>

Pcs == {"probe", "share", "unshare", "read", "kill", "start", "create", "lock", "truncate",
        "write", "reset", "install", "record", "restored", "tidy", "gone"}

\* Where the process holds the pid file for a recording of its own.
Recording == {"truncate", "write", "reset", "install", "record"}
Recorders == {p \in Procs : pc[p] \in Recording}

Goto(p, from, to) == pc[p] = from /\ pc' = [pc EXCEPT ![p] = to]

Opened(p, i) == fd' = [fd EXCEPT ![p] = i]

\* close(fd) drops the lock the open file holds.
Closed(p) == /\ ex' = [i \in Procs |-> IF ex[i] = p THEN None ELSE ex[i]]
             /\ sh' = [i \in Procs |-> sh[i] \ {p}]
             /\ Opened(p, None)

Alive(p) == pc[p] # "gone"

\* Slip: the handlers are installed before the flags are cleared.
HasHandlersEarly(p) == pc[p] \in {"reset", "install", "record"}

\* record_signals_install has run, and record_signals_restore has not.
\* The tray never restores its own.
HasHandlers(p) == pc[p] \in {"record"} \cup IF UnlinkFirst THEN {"restored", "tidy"} ELSE {}

-----------------------------------------------------------------------------
(* stop_running_recording, with grabit_lock_owner.                         *)

\* open(path, O_RDONLY): without a file nobody records.
ProbeOpen(p) ==
  /\ Goto(p, "probe", IF dir = None THEN "start" ELSE "share")
  /\ Opened(p, dir)
  /\ UNCHANGED <<dir, ex, sh, content, prev, stop, told, overlap>>

\* flock(LOCK_SH | LOCK_NB)
ProbeShare(p) ==
  /\ Goto(p, "share", IF ex[fd[p]] = None THEN "unshare" ELSE "read")
  /\ sh' = IF ex[fd[p]] = None THEN [sh EXCEPT ![fd[p]] = @ \cup {p}] ELSE sh
  /\ UNCHANGED <<dir, ex, content, fd, prev, stop, told, overlap>>

\* It succeeded: nobody records.  The lock is held until close.
ProbeUnshare(p) ==
  /\ Goto(p, "unshare", "start") /\ Closed(p)
  /\ UNCHANGED <<dir, content, prev, stop, told, overlap>>

\* It failed: read the owner's pid.  An empty file names nobody.
ProbeRead(p) ==
  /\ Goto(p, "read", IF content[fd[p]] = None THEN "start" ELSE "kill")
  /\ prev' = [prev EXCEPT ![p] = content[fd[p]]] /\ Closed(p)
  /\ UNCHANGED <<dir, content, stop, told, overlap>>

\* kill(prev, SIGINT) finds nobody (ESRCH): nothing to stop.
KillMisses(p) ==
  /\ Goto(p, "kill", "start") /\ ~Alive(prev[p])
  /\ UNCHANGED <<dir, ex, sh, content, fd, prev, stop, told, overlap>>

\* The recorder's handler sets its stop flag.
KillStops(p) ==
  /\ Goto(p, "kill", "gone") /\ Alive(prev[p]) /\ HasHandlers(prev[p])
  /\ stop' = [stop EXCEPT ![prev[p]] = TRUE]
  /\ told' = [told EXCEPT ![prev[p]] = TRUE]
  /\ UNCHANGED <<dir, ex, sh, content, fd, prev, overlap>>

\* Without a handler the signal ends it on the spot.
KillEnds(p) ==
  /\ pc[p] = "kill" /\ Alive(prev[p]) /\ ~HasHandlers(prev[p])
  /\ pc' = [r \in Procs |-> IF r \in {p, prev[p]} THEN "gone" ELSE pc[r]]
  /\ Closed(prev[p])
  /\ told' = [told EXCEPT ![prev[p]] = TRUE]
  /\ UNCHANGED <<dir, content, prev, stop, overlap>>

-----------------------------------------------------------------------------
(* record_toggle starts a recording of its own; grabit_lock_acquire.       *)

\* The user picks a region; stop_running_recording is not asked again.
UserSelects(p) == /\ Goto(p, "start", "create")
                  /\ UNCHANGED <<dir, ex, sh, content, fd, prev, stop, told, overlap>>

\* The user gives up, or anything before write_pid_file fails.
UserGivesUp(p) == /\ Goto(p, "start", "gone")
                  /\ UNCHANGED <<dir, ex, sh, content, fd, prev, stop, told, overlap>>

\* open(path, O_RDWR | O_CREAT)
LockOpen(p) ==
  /\ Goto(p, "create", "lock")
  /\ dir' = IF dir = None THEN p ELSE dir
  /\ Opened(p, dir')
  /\ UNCHANGED <<ex, sh, content, prev, stop, told, overlap>>

\* Slip: a LOCK_EX that does not exclude another one.
LockTakenShared(p) ==
  /\ Goto(p, "lock", "truncate")
  /\ ex' = [ex EXCEPT ![fd[p]] = p]
  /\ UNCHANGED <<dir, sh, content, fd, prev, stop, told, overlap>>

\* flock(LOCK_EX | LOCK_NB)
LockTaken(p) ==
  /\ Goto(p, "lock", "truncate")
  /\ ex[fd[p]] = None /\ sh[fd[p]] = {}
  /\ ex' = [ex EXCEPT ![fd[p]] = p]
  /\ UNCHANGED <<dir, sh, content, fd, prev, stop, told, overlap>>

\* Slip: the refused process unlinks the pid file on its way out.
LockRefusedUnlinks(p) ==
  /\ Goto(p, "lock", "gone")
  /\ ex[fd[p]] # None \/ sh[fd[p]] # {}
  /\ Closed(p) /\ dir' = None
  /\ UNCHANGED <<content, prev, stop, told, overlap>>

\* "another grabit recording started concurrently; aborting this one"
LockRefused(p) ==
  /\ Goto(p, "lock", "gone")
  /\ ex[fd[p]] # None \/ sh[fd[p]] # {}
  /\ Closed(p)
  /\ UNCHANGED <<dir, content, prev, stop, told, overlap>>

\* ftruncate, then write of the pid.
LockTruncate(p) ==
  /\ Goto(p, "truncate", "write")
  /\ content' = [content EXCEPT ![fd[p]] = None]
  /\ UNCHANGED <<dir, ex, sh, fd, prev, stop, told, overlap>>

LockWrite(p) ==
  /\ Goto(p, "write", "reset")
  /\ content' = [content EXCEPT ![fd[p]] = p]
  /\ UNCHANGED <<dir, ex, sh, fd, prev, stop, told, overlap>>

\* The flags are cleared, and only then record_signals_install runs.
ResetFlags(p) ==
  /\ Goto(p, "reset", "install")
  /\ stop' = [stop EXCEPT ![p] = FALSE]
  /\ UNCHANGED <<dir, ex, sh, content, fd, prev, told, overlap>>

Install(p) == /\ Goto(p, "install", "record")
              /\ UNCHANGED <<dir, ex, sh, content, fd, prev, stop, told, overlap>>

-----------------------------------------------------------------------------
(* The end of the recording.                                               *)

\* The stop flag is seen, or the source went away; the output is published
\* and record_signals_restore runs.
RecordEnds(p) ==
  /\ Goto(p, "record", "restored")
  /\ UNCHANGED <<dir, ex, sh, content, fd, prev, stop, told, overlap>>

\* unlink(path), whoever's file it names by now.
Unlinked(p) ==
  /\ dir' = None
  /\ overlap' = (overlap \/ \E q \in Procs \ {p} : /\ fd[q] = dir
                                                  /\ pc[q] \in {"lock"} \cup Recording)
  /\ UNCHANGED <<ex, sh, fd>>

JustClosed(p) == Closed(p) /\ UNCHANGED <<dir, overlap>>

\* The first of close and unlink.
TearDownFirst(p) ==
  /\ Goto(p, "restored", "tidy")
  /\ IF UnlinkFirst THEN Unlinked(p) ELSE JustClosed(p)
  /\ UNCHANGED <<content, prev, stop, told>>

\* The second.
TearDownSecond(p) ==
  /\ Goto(p, "tidy", "gone")
  /\ IF UnlinkFirst THEN JustClosed(p) ELSE Unlinked(p)
  /\ UNCHANGED <<content, prev, stop, told>>

\* The kernel closes the file, and nobody removes it.
Crash(p) ==
  /\ Crashes /\ pc[p] \in Recording
  /\ pc' = [pc EXCEPT ![p] = "gone"] /\ Closed(p)
  /\ UNCHANGED <<dir, content, prev, stop, told, overlap>>

Over == (\A p \in Procs : pc[p] = "gone") /\ UNCHANGED vars

Init ==
  /\ dir = None
  /\ ex = [i \in Procs |-> None] /\ sh = [i \in Procs |-> {}]
  /\ content = [i \in Procs |-> None]
  /\ pc = [p \in Procs |-> "probe"] /\ fd = [p \in Procs |-> None]
  /\ prev = [p \in Procs |-> None]
  /\ stop = [p \in Procs |-> FALSE] /\ told = [p \in Procs |-> FALSE]
  /\ overlap = FALSE

Probe(p)    == \/ ProbeOpen(p) \/ ProbeShare(p) \/ ProbeUnshare(p) \/ ProbeRead(p)
               \/ KillMisses(p) \/ KillStops(p) \/ KillEnds(p)
Acquire(p)  == \/ LockOpen(p) \/ LockTaken(p) \/ LockRefused(p)
               \/ LockTruncate(p) \/ LockWrite(p) \/ ResetFlags(p) \/ Install(p)
TearDown(p) == TearDownFirst(p) \/ TearDownSecond(p)
StopSeen(p) == stop[p] /\ RecordEnds(p)

Next == \/ \E p \in Procs : \/ Probe(p) \/ UserSelects(p) \/ UserGivesUp(p) \/ Acquire(p)
                            \/ RecordEnds(p) \/ TearDown(p) \/ Crash(p)
        \/ Over

Spec == Init /\ [][Next]_vars

\* Nobody has to start recording, and nobody has to stop; but no process
\* stays between two system calls, and a stop flag is seen.
FairSpec == Spec /\ \A p \in Procs : /\ WF_vars(Probe(p)) /\ WF_vars(Acquire(p))
                                     /\ WF_vars(StopSeen(p)) /\ WF_vars(TearDown(p))

-----------------------------------------------------------------------------
(* Properties.                                                             *)

\* Every variable has its type, and a lock belongs to who has the file open.
TypeOK ==
  /\ dir \in Procs \cup {None}
  /\ ex \in [Procs -> Procs \cup {None}] /\ sh \in [Procs -> SUBSET Procs]
  /\ content \in [Procs -> Procs \cup {None}]
  /\ pc \in [Procs -> Pcs]
  /\ fd \in [Procs -> Procs \cup {None}] /\ prev \in [Procs -> Procs \cup {None}]
  /\ stop \in [Procs -> BOOLEAN] /\ told \in [Procs -> BOOLEAN]
  /\ overlap \in BOOLEAN
  /\ \A i \in Procs : \A p \in Procs : ex[i] = p \/ p \in sh[i] => fd[p] = i

\* OPTIONS.md:9, "toggle recording (run again to stop)", and record.c:200:
\* two recordings never run at the same time.
OneRecording == \A p, q \in Recorders : p = q

\* Two recordings run at the same time only after a teardown has unlinked a pid
\* file under a process that had opened it to lock it: concurrent starts, stops
\* and crashes alone never make two.
OneRecordingUnlessOverlap == overlap \/ OneRecording

\* While a recording runs and no teardown overlapped, the path names its file:
\* the next grabit --record can find it.
RecorderIsFindable == overlap \/ \A p \in Recorders : dir = fd[p] /\ ex[dir] = p

\* Who is sent a SIGINT by grabit --record ends, whenever it arrives: before
\* the handlers are installed, while it records, or during the teardown.
ToldEnds == \A p \in Procs : told[p] ~> ~Alive(p)

=============================================================================
