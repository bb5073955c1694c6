------------------------------ MODULE WlOutputs ------------------------------
(* What a grabit process knows of the monitors: grabit_wl_init asks in three  *)
(* roundtrips, the listeners of registry.c and output.c keep the list up to   *)
(* date afterwards, and a program that stays (pin.c) looks again each time    *)
(* outputs_serial has moved.                                                  *)
(*                                                                            *)
(* A connection is two queues: requests to the compositor and events from it, *)
(* both in order. Sizes are reduced to a width: a monitor in mode k has       *)
(* 3k pixels, an integer scale of 2 and a true (fractional) logical width of  *)
(* 2k, so that the width gwl_output_finalize computes from the scale is never *)
(* the true one. Rotation and heights follow the same path and are left out.  *)
EXTENDS Naturals, Sequences, FiniteSets, SequencesExt, FiniteSetsExt

CONSTANTS
  Heads,        \* the monitors there are, each connected at most once
  MaxMoves      \* bound: changes of the arrangement after the start

ASSUME HeadsAssumption == IsFiniteSet(Heads) /\ MaxMoves \in Nat

VARIABLES
  desk,         \* compositor: per monitor [state, at, mode]
  manages,      \* compositor: zxdg_output_manager_v1 is offered
  oldDone,      \* compositor: xdg_output.done is sent (version 2), not wl_output.done
  told,         \* compositor: monitors bound as wl_output, and as xdg_output
  moves,        \* arrangement changes so far
  asks,         \* requests under way
  wire,         \* events under way
  wlPhase,      \* "first", "second", "third": roundtrips of grabit_wl_init; "ready", "failed"
  manager,      \* s->xdg_output_manager is bound
  outs,         \* s->outputs, in order: grabit_output records
  outSerial,    \* s->outputs_serial
  early,        \* history: the outputs in the list when the first roundtrip ended
  picture       \* the consumer: outputs_serial and the monitors as it last read them

wlVars == <<desk, manages, oldDone, told, moves, asks, wire, wlPhase, manager,
            outs, outSerial, early, picture>>

TrueWidth(mode) == 2 * mode
Pixels(mode)    == 3 * mode
IntScale        == 2

NoPicture == [serial |-> 0, view |-> {}]

-----------------------------------------------------------------------------
(* The list of outputs.                                                      *)

Output(h) == [head |-> h, dead |-> FALSE, at |-> 0, width |-> 0, scale |-> 1,
              logical |-> 0, xdg |-> FALSE]

\* every live record of the list that describes h, changed by f(_)
Updated(h, New(_)) ==
  [i \in DOMAIN outs |-> IF outs[i].head = h /\ ~outs[i].dead THEN New(outs[i]) ELSE outs[i]]

\* gwl_output_finalize: the logical size is computed only while none is known
Finalized(o) ==
  IF o.logical > 0 THEN o ELSE [o EXCEPT !.logical = o.width \div o.scale]

\* the live records, by their places in the list, and the n-th of them
LiveAt      == {i \in DOMAIN outs : ~outs[i].dead}
LiveOutputs == {outs[i] : i \in LiveAt}
NthLive(n)  == outs[CHOOSE i \in LiveAt : Cardinality({j \in LiveAt : j <= i}) = n]

\* what grabit_output_rect says of each live output
View == {[head |-> o.head, at |-> o.at, w |-> o.logical] : o \in LiveOutputs}

\* grabit_wl_outputs_bbox
Bbox ==
  LET left  == Min({v.at : v \in View})
      right == Max({v.at + v.w : v \in View})
  IN [at |-> left, w |-> right - left]

\* the numbers a command line may give
Number == [spec \in {"1", "2"} |-> IF spec = "1" THEN 1 ELSE 2]

\* grabit_wl_fullscreen_plan for "all", for a number, for no argument: the
\* rectangles it leaves to choose from, one when it needs nobody to choose
FullscreenPlan(spec) ==
  LET Rect(o) == [at |-> o.at, w |-> o.logical]
      n == Cardinality(LiveAt)
  IN CASE n > 0 /\ spec = "all" -> {Bbox}
       [] spec \in DOMAIN Number /\ Number[spec] <= n -> {Rect(NthLive(Number[spec]))}
       [] spec = "" -> {Rect(o) : o \in LiveOutputs}
       [] OTHER -> {}

-----------------------------------------------------------------------------
(* The compositor.                                                           *)

Sends(events)     == wire' = wire \o events
Describes(h)      == <<[ev |-> "geometry", head |-> h, at |-> desk[h].at, mode |-> desk[h].mode]>>
DescribesLogical(h) == <<[ev |-> "logical", head |-> h, at |-> desk[h].at, mode |-> desk[h].mode]>>
DoneFor(h)        == <<[ev |-> "done", head |-> h]>>
XdgDoneFor(h)     == <<[ev |-> IF oldDone THEN "xdgdone" ELSE "done", head |-> h]>>
Plugged(h)        == desk[h].state = "on"

\* wl_display.get_registry: every global, the manager before or after the outputs
Advertise ==
  /\ Head(asks).req = "registry"
  /\ \E order \in SetToSeqs({h \in Heads : Plugged(h)}), managerFirst \in BOOLEAN :
       LET m  == IF manages THEN <<[ev |-> "manager"]>> ELSE <<>>
           os == [i \in DOMAIN order |-> [ev |-> "global", head |-> order[i]]]
       IN Sends(IF managerFirst THEN m \o os ELSE os \o m)
  /\ UNCHANGED told

\* binding an output that has gone meanwhile is answered by nothing
AnswerBind ==
  /\ Head(asks).req = "bind"
  /\ LET h == Head(asks).head IN
       IF Plugged(h)
       THEN Sends(Describes(h) \o DoneFor(h)) /\ told' = [told EXCEPT !.wl = @ \cup {h}]
       ELSE UNCHANGED <<wire, told>>

AnswerXdg ==
  /\ Head(asks).req = "xdg"
  /\ LET h == Head(asks).head IN
       IF Plugged(h)
       THEN Sends(DescribesLogical(h) \o XdgDoneFor(h)) /\ told' = [told EXCEPT !.xdg = @ \cup {h}]
       ELSE UNCHANGED <<wire, told>>

AnswerSync == Head(asks).req = "sync" /\ Sends(<<[ev |-> "synced"]>>) /\ UNCHANGED told

Serve ==
  /\ asks # <<>>
  /\ Advertise \/ AnswerBind \/ AnswerXdg \/ AnswerSync
  /\ asks' = Tail(asks)
  /\ UNCHANGED <<desk, manages, oldDone, moves, wlPhase, manager, outs, outSerial, early, picture>>

ServerMoves ==
  /\ moves < MaxMoves
  /\ moves' = moves + 1
  /\ UNCHANGED <<manages, oldDone, asks, wlPhase, manager, outs, outSerial, early, picture>>

\* the registry is known to the compositor once its request is served
Announced == ~\E i \in DOMAIN asks : asks[i].req = "registry"

\* a monitor is moved or changes its mode
Rearrange(h, at, mode) ==
  /\ Plugged(h)
  /\ <<at, mode>> # <<desk[h].at, desk[h].mode>>
  /\ desk' = [desk EXCEPT ![h].at = at, ![h].mode = mode]
  /\ LET new(ev) == <<[ev |-> ev, head |-> h, at |-> at, mode |-> mode]>>
     IN Sends((IF h \in told.wl THEN new("geometry") ELSE <<>>)
              \o (IF h \in told.xdg THEN new("logical") ELSE <<>>)
              \o (IF h \in told.xdg /\ oldDone THEN XdgDoneFor(h) ELSE <<>>)
              \o (IF h \in told.wl THEN DoneFor(h) ELSE <<>>))
  /\ UNCHANGED told
  /\ ServerMoves

Plug(h) ==
  /\ desk[h].state = "unseen"
  /\ desk' = [desk EXCEPT ![h].state = "on"]
  /\ IF Announced THEN Sends(<<[ev |-> "global", head |-> h]>>) ELSE UNCHANGED wire
  /\ UNCHANGED told
  /\ ServerMoves

Unplug(h) ==
  /\ Plugged(h)
  /\ desk' = [desk EXCEPT ![h].state = "gone"]
  /\ told' = [told EXCEPT !.wl = @ \ {h}, !.xdg = @ \ {h}]
  /\ IF Announced THEN Sends(<<[ev |-> "remove", head |-> h]>>) ELSE UNCHANGED wire
  /\ ServerMoves

-----------------------------------------------------------------------------
(* The client: what each event does.                                         *)

Asks(reqs) == asks' = asks \o reqs
Quietly    == UNCHANGED <<asks, wlPhase, manager, early>>

\* registry_global for wl_output: bound, listed, and asked about at once when
\* the manager is already known (gwl_output_attach_xdg)
HearGlobal(e) ==
  /\ e.ev = "global"
  /\ outs' = Append(outs, [Output(e.head) EXCEPT !.xdg = manager])
  /\ Asks(<<[req |-> "bind", head |-> e.head]>>
          \o (IF manager THEN <<[req |-> "xdg", head |-> e.head]>> ELSE <<>>))
  /\ UNCHANGED <<wlPhase, manager, outSerial, early>>

\* registry_global for zxdg_output_manager_v1
HearManager(e) ==
  /\ e.ev = "manager"
  /\ manager' = TRUE
  /\ UNCHANGED <<asks, wlPhase, outs, outSerial, early>>

\* registry_global_remove: the record stays in the list, dead
HearRemove(e) ==
  /\ e.ev = "remove"
  /\ IF \E i \in DOMAIN outs : outs[i].head = e.head /\ ~outs[i].dead
     THEN /\ outs' = Updated(e.head, LAMBDA o : [o EXCEPT !.dead = TRUE, !.xdg = FALSE])
          /\ outSerial' = outSerial + 1
     ELSE UNCHANGED <<outs, outSerial>>
  /\ Quietly

\* output_geometry, output_mode, output_scale
HearGeometry(e) ==
  /\ e.ev = "geometry"
  /\ outs' = Updated(e.head, LAMBDA o : [o EXCEPT !.at = e.at, !.width = Pixels(e.mode),
                                                  !.scale = IntScale])
  /\ UNCHANGED outSerial
  /\ Quietly

\* output_done
HearDone(e) ==
  /\ e.ev = "done"
  /\ LET live == \E i \in DOMAIN outs : outs[i].head = e.head /\ ~outs[i].dead
     IN /\ outs' = Updated(e.head, Finalized)
        /\ outSerial' = IF live THEN outSerial + 1 ELSE outSerial
  /\ Quietly

\* xdg_output_logical_position, xdg_output_logical_size
HearLogical(e) ==
  /\ e.ev = "logical"
  /\ outs' = Updated(e.head, LAMBDA o : [o EXCEPT !.at = e.at, !.logical = TrueWidth(e.mode)])
  /\ UNCHANGED outSerial
  /\ Quietly

\* xdg_output_done
HearXdgDone(e) ==
  /\ e.ev = "xdgdone"
  /\ LET live == \E i \in DOMAIN outs : outs[i].head = e.head /\ ~outs[i].dead
     IN outSerial' = IF live THEN outSerial + 1 ELSE outSerial
  /\ UNCHANGED outs
  /\ Quietly

\* the end of grabit_wl_init: every record is finalized, dead ones included, and
\* the list must not be empty; a failure frees it (grabit_wl_finish)
InitEnds(list) ==
  IF list = <<>>
  THEN wlPhase' = "failed" /\ outs' = <<>>
  ELSE wlPhase' = "ready"  /\ outs' = [i \in DOMAIN list |-> Finalized(list[i])]

SyncAgain == Asks(<<[req |-> "sync"]>>)

FirstSynced ==
  /\ wlPhase = "first"
  /\ wlPhase' = "second"
  /\ SyncAgain
  /\ early' = {o.head : o \in LiveOutputs}
  /\ UNCHANGED outs

\* gwl_output_attach_xdg for the live outputs that have none yet, in the order of
\* the list
AsksSizes(more) ==
  \E late \in SetToSeqs({i \in LiveAt : ~outs[i].xdg}) :
    /\ \A i, j \in DOMAIN late : i < j => late[i] < late[j]
    /\ Asks([i \in DOMAIN late |-> [req |-> "xdg", head |-> outs[late[i]].head]] \o more)

\* Slip: the sizes are asked for, and not waited for
SecondSyncedHurries ==
  /\ wlPhase = "second"
  /\ IF manager THEN AsksSizes(<<>>) ELSE UNCHANGED asks
  /\ InitEnds([i \in DOMAIN outs |->
                 IF outs[i].dead \/ ~manager THEN outs[i] ELSE [outs[i] EXCEPT !.xdg = TRUE]])
  /\ UNCHANGED early

\* the outputs announced before the manager are asked about now
SecondSynced ==
  /\ wlPhase = "second"
  /\ IF manager
     THEN /\ AsksSizes(<<[req |-> "sync"]>>)
          /\ outs' = [i \in DOMAIN outs |->
                        IF outs[i].dead THEN outs[i] ELSE [outs[i] EXCEPT !.xdg = TRUE]]
          /\ wlPhase' = "third"
     ELSE InitEnds(outs) /\ UNCHANGED asks
  /\ UNCHANGED early

ThirdSynced ==
  /\ wlPhase = "third"
  /\ InitEnds(outs)
  /\ UNCHANGED <<asks, early>>

HearSynced(e) ==
  /\ e.ev = "synced"
  /\ FirstSynced \/ SecondSynced \/ ThirdSynced
  /\ UNCHANGED <<manager, outSerial>>

Hear ==
  /\ wire # <<>>
  /\ wlPhase # "failed"
  /\ LET e == Head(wire) IN
       \/ HearGlobal(e) \/ HearManager(e) \/ HearRemove(e) \/ HearGeometry(e)
       \/ HearDone(e) \/ HearLogical(e) \/ HearXdgDone(e) \/ HearSynced(e)
  /\ wire' = Tail(wire)
  /\ UNCHANGED <<desk, manages, oldDone, told, moves, picture>>

\* pin.c's loop: the monitors are read again when outputs_serial has moved
LookAgain ==
  /\ wlPhase = "ready"
  /\ picture.serial # outSerial \/ picture = NoPicture
  /\ picture' = [serial |-> outSerial, view |-> View]
  /\ UNCHANGED <<desk, manages, oldDone, told, moves, asks, wire, wlPhase, manager,
                 outs, outSerial, early>>

-----------------------------------------------------------------------------
WlInit ==
  /\ desk \in [Heads -> [state : {"on", "unseen"}, at : {0}, mode : {1}]]
  /\ manages \in BOOLEAN
  /\ oldDone \in BOOLEAN
  /\ told = [wl |-> {}, xdg |-> {}]
  /\ moves = 0
  /\ asks = <<[req |-> "registry"], [req |-> "sync"]>>
  /\ wire = <<>>
  /\ wlPhase = "first"
  /\ manager = FALSE
  /\ outs = <<>>
  /\ outSerial = 0
  /\ early = {}
  /\ picture = NoPicture

WlNext ==
  \/ Serve
  \/ \E h \in Heads : \/ \E at \in 0 .. 1, mode \in 1 .. 2 : Rearrange(h, at, mode)
                      \/ Plug(h)
                      \/ Unplug(h)
  \/ Hear
  \/ LookAgain

-----------------------------------------------------------------------------
WlTypeOK ==
  /\ desk \in [Heads -> [state : {"on", "unseen", "gone"}, at : 0 .. 1, mode : 1 .. 2]]
  /\ wlPhase \in {"first", "second", "third", "ready", "failed"}
  /\ outSerial \in Nat
  /\ \A i \in DOMAIN outs : outs[i].head \in Heads /\ outs[i].logical \in 0 .. 4
  /\ told.wl \subseteq Heads /\ told.xdg \subseteq Heads

Truth == {[head |-> h, at |-> desk[h].at, w |-> TrueWidth(desk[h].mode)] :
            h \in {g \in Heads : Plugged(g)}}

\* grabit_wl_init: when it returns, every monitor it had heard of has a size,
\* and the true one where the compositor can say it
KnownWhenReady ==
  wlPhase = "ready" =>
    \A o \in LiveOutputs : o.head \in early =>
      /\ o.logical > 0
      /\ manages => \E mode \in 1 .. 2 : o.logical = TrueWidth(mode)

\* outputs_serial: once every event is in, a program that has looked since the
\* last bump has the arrangement the compositor shows
KnownWhenSeen ==
  (/\ wlPhase = "ready" /\ manages
   /\ asks = <<>> /\ wire = <<>>
   /\ picture # NoPicture /\ picture.serial = outSerial)
     => picture.view = Truth

\* monitors.c: a fullscreen capture is planned on what is really a live monitor
PlannedIsLive ==
  wlPhase = "ready" =>
    LET rects == {[at |-> v.at, w |-> v.w] : v \in View} IN
    /\ \A spec \in {""} \cup DOMAIN Number : FullscreenPlan(spec) \subseteq rects
    /\ View # {} => FullscreenPlan("1") # {}
    /\ \A p \in FullscreenPlan("all"), v \in rects :
         p.at <= v.at /\ v.at + v.w <= p.at + p.w

\* What the process believes of the monitors (grabit_wl_init, the output and
\* registry listeners, outputs_serial, grabit_wl_fullscreen_plan) is true
\* of the monitors there are, from the end of the start on.
OutputsAreKnown == KnownWhenReady /\ KnownWhenSeen /\ PlannedIsLive
=============================================================================
