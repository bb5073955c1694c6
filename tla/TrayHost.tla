------------------------------ MODULE TrayHost ------------------------------
(***************************************************************************)
(* The tray icon of `grabit --tray` on the session bus (tray/apptray.c,    *)
(* sni.c, menu.c, menu_layout.c): it registers with the tray host that is  *)
(* there or that comes later, and answers what the host asks.  With        *)
(* `persist` off it is the icon of a recording, which gives up without a   *)
(* host.  The bus delivers the messages of one sender in order.            *)
(***************************************************************************)
EXTENDS Naturals, Sequences

CONSTANTS
  MaxHosts,     \* how often a host starts (a bound)
  MaxAsked      \* calls of the host that wait (a bound)
ASSUME TrayHostAssumption == {MaxHosts, MaxAsked} \subseteq Nat \ {0}

VARIABLES
  icon,    \* the process of the icon: sni_run and what calls it
  host     \* the bus, and the owner of org.kde.StatusNotifierWatcher

trayHostVars == <<icon, host>>

NoIcon == [pc |-> "off", persist |-> FALSE, matched |-> FALSE, inbox |-> <<>>, answer |-> "none",
           stop |-> FALSE, spawned |-> FALSE]
NoHost == [up |-> FALSE, inbox |-> <<>>, knows |-> FALSE, owed |-> 0, starts |-> 0]

\* What the host calls: properties and clicks of the item; of its menu the
\* properties, the layout of an entry, what many entries are, events.
ItemCalls == {"Get", "GetOther", "Activate", "Scroll"}
MenuCalls == {"Property", "Layout", "LayoutOfNothing", "Group", "Click", "Quit", "ClickOfNothing", "AboutToShow"}
Calls     == ItemCalls \cup MenuCalls \cup {"Unknown"}

-----------------------------------------------------------------------------
(* apptray.c                                                               *)

IconOff == icon' = NoIcon

\* `grabit --tray`, when none runs: a process is left behind that takes the lock.
TrayStarts(persist) ==
  /\ icon.pc = "off" /\ icon' = [NoIcon EXCEPT !.pc = "locked", !.persist = persist]
  /\ UNCHANGED host

\* ... and when one does: SIGTERM.  Before the handlers are there it just dies.
StopRunningTray ==
  /\ icon.pc # "off"
  /\ IF icon.pc = "locked" THEN IconOff ELSE icon' = [icon EXCEPT !.stop = TRUE]
  /\ UNCHANGED host

TrayHandlesSignals == icon.pc = "locked" /\ icon' = [icon EXCEPT !.pc = "connect"] /\ UNCHANGED host

-----------------------------------------------------------------------------
(* sni_run                                                                 *)

\* A message for the watcher: the bus has somebody to give it to, or an error.
ToHost(message) == host' = IF host.up THEN [host EXCEPT !.inbox = Append(@, message)] ELSE host

NoBus == icon.pc = "connect" /\ IconOff /\ UNCHANGED host

\* Slip: the icon registers with the host there is, and looks no further.
FirstMatchedNever == FALSE
\* dbus_bus_add_match and the filter, before the first registration.
FirstMatched == TRUE
Registers ==
  /\ icon.pc = "connect"
  /\ ToHost("register")
  /\ icon' = [icon EXCEPT !.pc = "wait", !.matched = FirstMatched, !.answer = IF host.up THEN "none" ELSE "error"]

\* The answer, an error, or neither in two seconds; a host that was only slow
\* still registers the icon later.
RegisterAnswered ==
  /\ icon.pc = "wait"
  /\ icon' = IF icon.answer # "yes" /\ ~icon.persist THEN NoIcon
             ELSE [icon EXCEPT !.pc = "loop", !.answer = "none"]
  /\ host' = IF icon'.pc = "off" THEN [host EXCEPT !.knows = FALSE, !.inbox = <<>>, !.owed = 0] ELSE host

\* watcher_filter and register_item_async
HostAppeared ==
  /\ icon.pc = "loop" /\ ~icon.stop /\ icon.inbox # <<>> /\ Head(icon.inbox).is = "appeared"
  /\ icon' = [icon EXCEPT !.inbox = Tail(@)]
  /\ ToHost("register")

\* handle_get, handle_get_all, sni_handler: what is not of its interface libdbus
\* answers with an error.
ItemAnswer(call) == IF call = "GetOther" THEN "error" ELSE "reply"

\* gmenu_find_item
MenuHas(call) == call \notin {"LayoutOfNothing", "ClickOfNothing"}

\* gmenu_handle_get_layout fails for an entry that is not there; the answers to
\* the rest are built of what there is, an event of no entry is ignored.
MenuAnswer(call) == IF call = "LayoutOfNothing" THEN "error" ELSE "reply"

Answer(call) == CASE call \in ItemCalls -> ItemAnswer(call)
                  [] call \in MenuCalls -> MenuAnswer(call)
                  [] OTHER              -> "error"

\* dispatch_event, activate_screenshot: grabit is started, or the icon stops.
Clicked(i, call) == IF ~MenuHas(call) THEN i
                    ELSE IF call = "Quit" THEN [i EXCEPT !.stop = TRUE]
                    ELSE IF call \in {"Click", "Activate"} THEN [i EXCEPT !.spawned = TRUE] ELSE i

\* The reply goes out after what the call asked for was done.
Answers(call) == <<Answer(call)>>

TrayAnswers ==
  /\ icon.pc = "loop" /\ ~icon.stop /\ icon.inbox # <<>> /\ Head(icon.inbox).is # "appeared"
  /\ LET call == Head(icon.inbox) IN
     /\ icon' = Clicked([icon EXCEPT !.inbox = Tail(@), !.spawned = FALSE], call.is)
     /\ host' = IF host.up /\ call.by = host.starts THEN [host EXCEPT !.inbox = @ \o Answers(call.is)] ELSE host

\* The connection is closed, the pid file goes.
TrayStopped == /\ icon.pc = "loop" /\ icon.stop /\ IconOff
               /\ host' = [host EXCEPT !.knows = FALSE, !.inbox = <<>>, !.owed = 0]
BusLost     == /\ icon.pc = "loop" /\ IconOff /\ host' = [NoHost EXCEPT !.starts = host.starts]

-----------------------------------------------------------------------------
(* The host.                                                               *)

Told(i) == IF i.matched THEN [i EXCEPT !.inbox = Append(@, [is |-> "appeared", by |-> 0])] ELSE i

HostStarts ==
  /\ ~host.up /\ host.starts < MaxHosts
  /\ host' = [host EXCEPT !.up = TRUE, !.starts = @ + 1]
  /\ icon' = Told(icon)

\* The calls it made are still dispatched, their answers go nowhere.
HostDies ==
  /\ host.up
  /\ host' = [NoHost EXCEPT !.starts = host.starts]
  /\ icon' = IF icon.pc = "wait" /\ icon.answer = "none" THEN [icon EXCEPT !.answer = "error"] ELSE icon

HostTakes ==
  /\ host.up /\ host.inbox # <<>>
  /\ IF Head(host.inbox) = "register"
     THEN /\ host' = [host EXCEPT !.inbox = Tail(@), !.knows = TRUE]
          /\ icon' = IF icon.pc = "wait" /\ icon.answer = "none" THEN [icon EXCEPT !.answer = "yes"] ELSE icon
     ELSE host' = [host EXCEPT !.inbox = Tail(@), !.owed = @ - 1] /\ UNCHANGED icon

HostCalls(call) ==
  /\ host.up /\ host.knows /\ host.owed < MaxAsked
  /\ host' = [host EXCEPT !.owed = @ + 1]
  /\ icon' = [icon EXCEPT !.inbox = Append(@, [is |-> call, by |-> host.starts])]

-----------------------------------------------------------------------------
TrayHostInit ==
  /\ icon = NoIcon
  /\ \E up \in BOOLEAN : host = [NoHost EXCEPT !.up = up]

TrayHostNext ==
  \/ (\E persist \in BOOLEAN : TrayStarts(persist)) \/ StopRunningTray \/ TrayHandlesSignals
  \/ NoBus \/ Registers \/ RegisterAnswered \/ HostAppeared \/ TrayAnswers \/ TrayStopped \/ BusLost
  \/ HostStarts \/ HostDies \/ HostTakes \/ (\E call \in Calls : HostCalls(call))

-----------------------------------------------------------------------------
TrayHostTypeOK == host.starts \in 0 .. MaxHosts /\ host.owed \in 0 .. MaxAsked

\* When nothing is on its way, a host that runs knows the icon, also one that
\* came while the icon was registering with nobody or with the one before
\* (sni.c:216, 229), and it waits for no answer.
HostIsServed ==
  icon.pc = "loop" /\ ~icon.stop /\ icon.inbox = <<>> /\ host.up /\ host.inbox = <<>>
    => host.knows /\ host.owed = 0
=============================================================================
