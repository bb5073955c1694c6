------------------------------- MODULE RecTray -------------------------------
(***************************************************************************)
(* The recorder and the tray process it forks (tray/tray.c, tray/sni.c,    *)
(* record/loop.c).                                                         *)
(*                                                                         *)
(* The flags stop, pause and abort live in memory both processes share     *)
(* (loop_init_shared).  The child is forked after record_signals_install   *)
(* and never execs: until its install_signals has run it answers signals   *)
(* with the recorder's handlers, and for SIGUSR1 it always does.           *)
(*                                                                         *)
(* kill() puts a signal in the set its target has pending; running the     *)
(* handler is a later step, so a second signal of one kind may merge with  *)
(* the first.                                                              *)
(***************************************************************************)
EXTENDS Naturals

CONSTANTS
  Broadcast,   (* the user pauses with pkill -USR1 -x grabit (OPTIONS.md:287),
                  which signals both processes; otherwise with the tray menu *)
  RecorderMayCrash      (* the recorder may die without running any cleanup           *)

ASSUME SwitchesAssumption == {Broadcast, RecorderMayCrash} \subseteq BOOLEAN

VARIABLES
  recPc,      \* recorder: "starting", "loop", "trayKill", "trayWait", "over" (tray_stop
              \* has returned; what follows is RecSession's), "crashed"
  stopAsked, pauseAsked, abortAsked,   \* grabit_rec_stop, grabit_rec_pause, grabit_rec_abort
  pausedNow,     \* rec_clock.paused
  recPend,    \* signals pending for the recorder
  trayPc,     \* child: "forked", "armed", "checked", "setup", "serving", "emit", "exited", "reaped"
  trayPend,   \* signals pending for the child
  trayStop,   \* g_tray_stop
  update,     \* g_tray_layout_update
  stale,      \* the host has an update to fetch (a LayoutUpdated it has not answered)
  label,      \* the label of the pause item the host shows
  want,       \* history: the pauses and resumes the user asked for, as the state they add up to
  diedAt      \* history: where the child was when the recorder crashed

flags    == <<stopAsked, pauseAsked, abortAsked>>
trayVars == <<trayPc, trayStop, update, stale, label>>
recTrayVars == <<recPc, flags, pausedNow, recPend, trayVars, trayPend, want, diedAt>>

Signals   == {"INT", "QUIT", "TERM", "USR1", "USR2"}
RecAlive  == recPc \notin {"over", "crashed"}
TrayAlive == trayPc \notin {"exited", "reaped"}
OwnHandlers == trayPc \in {"setup", "serving", "emit"}

\* pause_label
Label(p) == IF p THEN "Continue" ELSE "Pause"

-----------------------------------------------------------------------------
(* Sending and handling signals.                                           *)

ToRec(sig) == IF RecAlive THEN recPend \cup {sig} ELSE recPend

\* SIGUSR2 is ignored until install_signals: tray_start asked for that.
ToTray(sig) == IF TrayAlive /\ (sig = "USR2" => OwnHandlers) THEN trayPend \cup {sig}
                                                             ELSE trayPend

\* Slip: the handler pauses instead of toggling.
OnPauseSticks(sig) == pauseAsked \/ sig = "USR1"

\* on_stop_signal, on_pause_signal, on_abort_signal on the shared flags.
OnStop(sig)  == stopAsked \/ sig \in {"INT", "TERM", "QUIT"}
OnPause(sig) == IF sig = "USR1" THEN ~pauseAsked ELSE pauseAsked
OnAbort(sig) == abortAsked \/ sig = "QUIT"

RecHandles(sig) ==
  /\ RecAlive /\ sig \in recPend
  /\ recPend' = recPend \ {sig}
  /\ stopAsked' = OnStop(sig) /\ pauseAsked' = OnPause(sig) /\ abortAsked' = OnAbort(sig)
  /\ UNCHANGED <<recPc, pausedNow, trayVars, trayPend, want, diedAt>>

\* The child runs the handlers it inherited, on the same flags ...
TrayHandlesInherited(sig) ==
  /\ TrayAlive /\ sig \in trayPend
  /\ sig = "USR1" \/ ~OwnHandlers
  /\ trayPend' = trayPend \ {sig}
  /\ stopAsked' = OnStop(sig) /\ pauseAsked' = OnPause(sig) /\ abortAsked' = OnAbort(sig)
  /\ UNCHANGED <<recPc, pausedNow, recPend, trayVars, want, diedAt>>

\* Slip: install_signals left SIGTERM out.
TrayHandlesUpdatesOnly(sig) ==
  /\ TrayAlive /\ OwnHandlers /\ sig \in trayPend \ {"USR1"}
  /\ trayPend' = trayPend \ {sig}
  /\ update' = (update \/ sig = "USR2")
  /\ UNCHANGED <<recPc, flags, pausedNow, recPend, trayPc, trayStop, stale, label, want, diedAt>>

\* ... and tray_signal and tray_layout_signal once they are installed.
TrayHandlesOwn(sig) ==
  /\ TrayAlive /\ OwnHandlers /\ sig \in trayPend \ {"USR1"}
  /\ trayPend' = trayPend \ {sig}
  /\ trayStop' = (trayStop \/ sig = "TERM")
  /\ update' = (update \/ sig = "USR2")
  /\ UNCHANGED <<recPc, flags, pausedNow, recPend, trayPc, stale, label, want, diedAt>>

-----------------------------------------------------------------------------
(* The recorder.                                                           *)

RecGoto(from, to) == /\ recPc = from /\ recPc' = to
                     /\ UNCHANGED <<pauseAsked, abortAsked, recPend, trayVars, want, diedAt>>

\* seg_begin and pool_init succeed, and the loop starts.
StartSegment == RecGoto("starting", "loop") /\ UNCHANGED <<stopAsked, pausedNow, trayPend>>

\* They fail: err_pipeline, whose first act is tray_stop.
StartFails == RecGoto("starting", "trayKill") /\ UNCHANGED <<stopAsked, pausedNow, trayPend>>

\* Slip: only a pause is told to the tray, not a resume.
ClockStepTellsPauses ==
  /\ ~stopAsked /\ pauseAsked # pausedNow
  /\ RecGoto("loop", "loop")
  /\ pausedNow' = pauseAsked
  /\ trayPend' = IF pauseAsked THEN ToTray("USR2") ELSE trayPend
  /\ stopAsked' \in {stopAsked, ~pauseAsked}

\* rec_clock_step follows the flag and tells the tray.  A resume whose
\* seg_begin fails ends the recording.
ClockStep ==
  /\ ~stopAsked /\ pauseAsked # pausedNow
  /\ RecGoto("loop", "loop")
  /\ pausedNow' = pauseAsked
  /\ trayPend' = ToTray("USR2")
  /\ stopAsked' \in {stopAsked, ~pauseAsked}

\* The loop sees the stop flag.
LoopEnds == stopAsked /\ RecGoto("loop", "trayKill") /\ UNCHANGED <<stopAsked, pausedNow, trayPend>>

\* tray_stop: SIGTERM, then waitpid without a timeout.
TrayKill == /\ RecGoto("trayKill", "trayWait")
            /\ trayPend' = ToTray("TERM") /\ UNCHANGED <<stopAsked, pausedNow>>

TrayReap ==
  /\ recPc = "trayWait" /\ trayPc = "exited"
  /\ recPc' = "over" /\ trayPc' = "reaped" /\ recPend' = {}
  /\ UNCHANGED <<flags, pausedNow, trayStop, update, stale, label, trayPend, want, diedAt>>

Recorder == StartSegment \/ StartFails \/ ClockStep \/ LoopEnds \/ TrayKill \/ TrayReap

\* prctl(PR_SET_PDEATHSIG, SIGTERM) has been called.
Armed == trayPc # "forked"

\* SIGKILL, or a bug: no handler and no tray_stop runs.
RecorderCrashes ==
  /\ RecorderMayCrash /\ RecAlive
  /\ recPc' = "crashed" /\ recPend' = {} /\ diedAt' = trayPc
  /\ trayPend' = IF Armed THEN ToTray("TERM") ELSE trayPend
  /\ UNCHANGED <<flags, pausedNow, trayVars, want>>

-----------------------------------------------------------------------------
(* The child.                                                              *)

TrayGoto(from, to) == /\ trayPc = from /\ trayPc' = to
                      /\ UNCHANGED <<recPc, flags, pausedNow, recPend, label, want, diedAt>>

\* prctl
TrayArm == TrayGoto("forked", "armed") /\ UNCHANGED <<trayPend, trayStop, update, stale>>

\* if (getppid() == 1) _exit(0)
TrayCheckParent ==
  /\ TrayGoto("armed", IF recPc = "crashed" THEN "exited" ELSE "checked")
  /\ UNCHANGED <<trayPend, trayStop, update, stale>>

\* install_signals
TrayInstall == TrayGoto("checked", "setup") /\ UNCHANGED <<trayPend, trayStop, update, stale>>

\* sni_run reaches its loop; the host fetches the menu of the new item.
TrayRegister == /\ TrayGoto("setup", "serving") /\ stale' = TRUE
                /\ UNCHANGED <<trayPend, trayStop, update>>

\* No bus, no host, or the bus went away: sni_run returns.
TrayBails == /\ \/ TrayGoto("setup", "exited")
                \/ TrayGoto("serving", "exited")
             /\ UNCHANGED <<trayPend, trayStop, update, stale>>

\* while (!*stop)
TrayStops == /\ trayStop
             /\ TrayGoto("serving", "exited")
             /\ UNCHANGED <<trayPend, trayStop, update, stale>>

\* *layout_update = 0
TrayTakesUpdate == /\ ~trayStop /\ update
                   /\ TrayGoto("serving", "emit") /\ update' = FALSE
                   /\ UNCHANGED <<trayPend, trayStop, stale>>

\* gmenu_emit_layout_updated
TrayEmits == /\ TrayGoto("emit", "serving") /\ stale' = TRUE
             /\ UNCHANGED <<trayPend, trayStop, update>>

\* The host calls GetLayout; the answer reads the shared flag.
HostFetches ==
  /\ trayPc = "serving" /\ stale
  /\ stale' = FALSE /\ label' = Label(pauseAsked)
  /\ UNCHANGED <<recPc, flags, pausedNow, recPend, trayPc, trayPend, trayStop, update, want, diedAt>>

Tray == \/ TrayArm \/ TrayCheckParent \/ TrayInstall \/ TrayRegister \/ TrayStops
        \/ TrayTakesUpdate \/ TrayEmits

-----------------------------------------------------------------------------
(* The user.                                                               *)

\* One request at a time: the recorder has followed the last one.
Settled == /\ recPc = "loop" /\ ~stopAsked /\ pauseAsked = pausedNow
           /\ "USR1" \notin recPend \cup trayPend

\* The start and pause buttons store 0 and 1; only the one that differs is shown.
ButtonPauses ==
  /\ Settled /\ want' = ~want
  /\ pauseAsked' = ~pausedNow
  /\ UNCHANGED <<recPc, stopAsked, abortAsked, pausedNow, recPend, trayVars, trayPend, diedAt>>

\* click_pause, or pkill.
UserPauses ==
  /\ Settled /\ want' = ~want
  /\ IF Broadcast THEN recPend' = ToRec("USR1") /\ trayPend' = ToTray("USR1")
                  ELSE trayPc = "serving" /\ recPend' = ToRec("USR1") /\ trayPend' = trayPend
  /\ UNCHANGED <<recPc, flags, pausedNow, trayVars, diedAt>>

\* click_stop, activate_stop and click_abort; or a second grabit --record.
UserStops ==
  /\ recPc \in {"starting", "loop"}
  /\ \E sig \in {"INT", "QUIT"} :
        /\ sig = "QUIT" => trayPc = "serving"
        /\ recPend' = ToRec(sig)
  /\ UNCHANGED <<recPc, flags, pausedNow, trayVars, trayPend, want, diedAt>>

RecTrayInit ==
  /\ recPc = "starting" /\ stopAsked = FALSE /\ pauseAsked = FALSE /\ abortAsked = FALSE /\ pausedNow = FALSE
  /\ recPend = {} /\ trayPend = {}
  /\ trayPc = "forked" /\ trayStop = FALSE /\ update = FALSE /\ stale = FALSE /\ label = "none"
  /\ want = FALSE /\ diedAt = "none"

RecTrayNext == \/ \E sig \in Signals : RecHandles(sig) \/ TrayHandlesInherited(sig) \/ TrayHandlesOwn(sig)
        \/ Recorder \/ RecorderCrashes
        \/ Tray \/ TrayBails \/ HostFetches
        \/ ButtonPauses \/ UserPauses \/ UserStops

RecTraySpec == RecTrayInit /\ [][RecTrayNext]_recTrayVars

\* Both processes run, signals are delivered, and the host answers.
RecTrayFairSpec == /\ RecTraySpec
            /\ \A sig \in Signals : /\ WF_recTrayVars(RecHandles(sig))
                                   /\ WF_recTrayVars(TrayHandlesInherited(sig))
                                   /\ WF_recTrayVars(TrayHandlesOwn(sig))
            /\ WF_recTrayVars(Recorder) /\ WF_recTrayVars(Tray) /\ WF_recTrayVars(HostFetches)

-----------------------------------------------------------------------------
(* Properties.                                                             *)

\* Every variable has its type, no signal is pending for a recorder that is gone,
\* and no SIGUSR2 for a child that has no handler for it yet.
RecTrayTypeOK ==
  /\ recPc \in {"starting", "loop", "trayKill", "trayWait", "over", "crashed"}
  /\ {stopAsked, pauseAsked, abortAsked, pausedNow, trayStop, update, stale, want} \subseteq BOOLEAN
  /\ recPend \subseteq {"INT", "QUIT", "USR1"} /\ trayPend \subseteq {"TERM", "USR1", "USR2"}
  /\ trayPc \in {"forked", "armed", "checked", "setup", "serving", "emit", "exited", "reaped"}
  /\ label \in {"none", "Pause", "Continue"}
  /\ diedAt \in {"none", "forked", "armed", "checked", "setup", "serving", "emit", "exited"}
  /\ ~RecAlive => recPend = {}
  /\ trayPc \in {"forked", "armed", "checked"} => "USR2" \notin trayPend

\* OPTIONS.md, recording: SIGUSR1 toggles the pause.  Once every SIGUSR1 has
\* been handled, the flag is what the user's requests add up to.
PauseFollowsRequests ==
  RecAlive /\ "USR1" \notin recPend \cup trayPend => pauseAsked = want

\* A label the tray host shows does not stay wrong: after each pause or resume
\* the recorder makes, the host fetches the menu again, unless the recording
\* moves on (tray_layout_signal, sni_run, pause_label).
LabelCatchesUp ==
  \A p \in BOOLEAN :
    (recPc = "loop" /\ trayPc = "serving" /\ pausedNow = p)
      ~> (label = Label(p) \/ pausedNow # p \/ recPc # "loop" \/ trayPc = "exited")

\* OPTIONS.md:291, "clicking the tray icon also stops the recording": a stop
\* that finds the child with handlers of its own ends with the child reaped.
ServedStopReachesEnd ==
  (OwnHandlers /\ recPc \in {"starting", "loop", "trayKill"} /\ (stopAsked \/ "INT" \in recPend))
    ~> (recPc \in {"over", "crashed"})

\* A crashed recorder leaves no tray icon behind: prctl covers a crash after
\* it, getppid one before it.  Left out: the step between getppid and
\* install_signals, in which the inherited handler swallows the SIGTERM.
OrphanTrayExits == (recPc = "crashed" /\ diedAt # "checked") ~> ~TrayAlive

\* The two processes end together: a stop ends both of them, and a recorder that
\* dies takes the tray with it.
TrayEnds == ServedStopReachesEnd /\ OrphanTrayExits

=============================================================================
