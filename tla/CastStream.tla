----------------------------- MODULE CastStream -----------------------------
(***************************************************************************)
(* A recording from a screencast of the compositor: the session with KWin  *)
(* (record/sc_kde.c) or with Mutter over the bus (sc_gnome.c), the stream  *)
(* of PipeWire with a thread of its own (pw.c), and what record_toggle     *)
(* makes of them: the size it tells the encoder and allocates frames for.  *)
(* What the frames go through after that is FrameRing's.                   *)
(***************************************************************************)
EXTENDS Naturals

CONSTANTS
  StreamSizes,    \* bytes of a frame, as the stream may be negotiated
  NodePatience    \* MU_NODE_TIMEOUT_MS, in ticks
ASSUME CastAssumption == StreamSizes \subseteq Nat \ {0} /\ NodePatience \in Nat \ {0}

VARIABLES
  cast,      \* record_toggle and struct screencast
  pw,        \* struct pw_capture and the thread of its loop
  giver      \* the compositor

castVars == <<cast, pw, giver>>

NoCast   == [pc |-> "pick", kind |-> "none", waited |-> 0]
NoStream == [open |-> FALSE, format |-> FALSE, size |-> 0, failed |-> FALSE, bound |-> FALSE, buf |-> 0,
             paused |-> FALSE, pushed |-> 0]
\* `heard` is whether the bus will give us the signal; it keeps it until we read.
NoGiver  == [session |-> FALSE, stream |-> FALSE, matched |-> FALSE, signal |-> "unsent"]

-----------------------------------------------------------------------------
(* setup.c, screencast.c.                                                  *)

CastEnds(pc) == cast' = [NoCast EXCEPT !.pc = pc, !.kind = cast.kind]

\* rec_pick_region: selected, planned, or neither.
PicksRegion(how) ==
  /\ cast.pc = "pick"
  /\ IF how = "none" THEN CastEnds("cancelled") ELSE cast' = [cast EXCEPT !.pc = "resolve"]
  /\ UNCHANGED <<pw, giver>>

\* sc_resolve, once; with no source it never comes here.
CastResolves(kde, gnome) ==
  /\ cast.pc = "resolve" /\ (kde \/ gnome)
  /\ cast' = [cast EXCEPT !.kind = IF kde THEN "kde" ELSE "gnome", !.pc = IF kde THEN "bind" ELSE "create"]
  /\ UNCHANGED <<pw, giver>>

\* screencast_stop: closing the connection, or the objects, ends the session.
CastFails == CastEnds("failed") /\ giver' = NoGiver /\ UNCHANGED pw

-----------------------------------------------------------------------------
(* sc_kde.c                                                                *)

\* The version is too old, or the stream is asked for ...
KdeBinds(old) ==
  /\ cast.pc = "bind"
  /\ IF old THEN CastFails
     ELSE /\ cast' = [cast EXCEPT !.pc = "roundtrip"]
          /\ giver' = [giver EXCEPT !.session = TRUE] /\ UNCHANGED pw

\* ... and the loop ends with `created`, `failed` or `closed`, or a lost display;
\* what came first does not matter, a node is a node.
KdeAnswers(node) ==
  /\ cast.pc = "roundtrip" /\ cast.kind = "kde"
  /\ IF node THEN /\ cast' = [cast EXCEPT !.pc = "open"]
                  /\ giver' = [giver EXCEPT !.stream = TRUE] /\ UNCHANGED pw
     ELSE CastFails

-----------------------------------------------------------------------------
(* sc_gnome.c: one blocking call after the other.                          *)

\* CreateSession, RecordArea; an error, an answer that is malformed or none in
\* ten seconds fails.
GnomeCalls(from, to, ok) ==
  /\ cast.pc = from
  /\ IF ok THEN /\ cast' = [cast EXCEPT !.pc = to]
                /\ giver' = [giver EXCEPT !.session = TRUE] /\ UNCHANGED pw
     ELSE CastFails

GnomeMatches(ok) ==
  /\ cast.pc = "match"
  /\ IF ok THEN /\ cast' = [cast EXCEPT !.pc = "begin"]
                /\ giver' = [giver EXCEPT !.matched = TRUE] /\ UNCHANGED pw
     ELSE CastFails

\* Start; the signal may come before its answer.
GnomeBegins(ok) ==
  /\ cast.pc = "begin"
  /\ IF ok THEN /\ cast' = [cast EXCEPT !.pc = "node"] /\ UNCHANGED pw
                /\ \E early \in BOOLEAN :
                     giver' = [giver EXCEPT !.stream = TRUE,
                       !.signal = IF early THEN IF giver.matched THEN "queued" ELSE "lost" ELSE @]
     ELSE CastFails
MutterSignals ==
  /\ cast.pc = "node" /\ giver.signal = "unsent"
  /\ giver' = [giver EXCEPT !.signal = IF giver.matched THEN "queued" ELSE "lost"]
  /\ UNCHANGED <<cast, pw>>

\* wait_for_node, 50 ms at a time.
GnomeHears ==
  /\ cast.pc = "node" /\ giver.signal = "queued"
  /\ cast' = [cast EXCEPT !.pc = "open", !.waited = 0]
  /\ giver' = [giver EXCEPT !.signal = "read"] /\ UNCHANGED pw
GnomeWaits ==
  /\ cast.pc = "node" /\ giver.signal # "queued" /\ cast.waited < NodePatience
  /\ cast' = [cast EXCEPT !.waited = @ + 1] /\ UNCHANGED <<pw, giver>>
GnomeGivesUp ==
  /\ cast.pc = "node" /\ giver.signal # "queued" /\ cast.waited = NodePatience
  /\ cast' = [NoCast EXCEPT !.pc = "deaf", !.kind = "gnome"] /\ UNCHANGED <<pw, giver>>
GnomeStops == cast.pc = "deaf" /\ CastFails

-----------------------------------------------------------------------------
(* pw.c                                                                    *)

\* pw_capture_open: up to the connection to the node ...
PwOpens(ok) ==
  /\ cast.pc = "open"
  /\ IF ok THEN /\ pw' = [NoStream EXCEPT !.open = TRUE] /\ cast' = [cast EXCEPT !.pc = "negotiate"]
                /\ UNCHANGED giver
     ELSE CastFails

\* on_param_changed, in the thread, which needs the lock; while negotiating
\* the main thread waits with the lock let go.
PwFormat(size, known) ==
  /\ pw.open /\ ~pw.failed /\ size # pw.size
  /\ pw' = IF ~known \/ (pw.bound /\ size > pw.buf) THEN [pw EXCEPT !.failed = TRUE]
           ELSE [pw EXCEPT !.size = size, !.format = TRUE]
  /\ UNCHANGED <<cast, giver>>

\* on_state_changed
PwStreamEnds == /\ pw.open /\ ~pw.failed /\ pw' = [pw EXCEPT !.failed = TRUE]
                /\ UNCHANGED <<cast, giver>>

\* ... and until there is a format, or not in time.
PwNegotiated ==
  /\ cast.pc = "negotiate" /\ pw.format
  /\ cast' = [cast EXCEPT !.pc = "size"] /\ UNCHANGED <<pw, giver>>
PwFails ==
  /\ cast.pc = "negotiate" /\ ~pw.format
  /\ CastEnds("failed") /\ pw' = NoStream /\ giver' = NoGiver

\* pw_capture_size, without the lock: what a frame of the pool will hold.
PwSize ==
  /\ cast.pc = "size" /\ cast' = [cast EXCEPT !.pc = "prepare"]
  /\ pw' = [pw EXCEPT !.buf = pw.size] /\ UNCHANGED giver
\* The output path, the pid file, the encoder, the pool of frames: or nothing.
CastPrepares(ok) ==
  /\ cast.pc = "prepare"
  /\ IF ok THEN cast' = [cast EXCEPT !.pc = "pool"] /\ UNCHANGED <<pw, giver>>
     ELSE CastEnds("failed") /\ pw' = NoStream /\ giver' = NoGiver

\* pw_capture_bind
PwBinds == /\ cast.pc = "pool" /\ cast' = [cast EXCEPT !.pc = "loop"]
           /\ pw' = [pw EXCEPT !.bound = TRUE] /\ UNCHANGED giver

\* Slip: a stream that has grown is refused by on_param_changed.
FitsAlways == TRUE
\* on_process: a frame for which the buffers are too small is dropped.
Fits == pw.size <= pw.buf
PwFrame ==
  /\ pw.open /\ pw.bound /\ pw.format /\ ~pw.paused /\ pw.pushed # pw.size /\ Fits
  /\ pw' = [pw EXCEPT !.pushed = pw.size] /\ UNCHANGED <<cast, giver>>

\* pw_capture_set_paused; rec_pw_loop ends.
PwPauses(paused) == /\ cast.pc = "loop" /\ paused # pw.paused
                    /\ pw' = [pw EXCEPT !.paused = paused] /\ UNCHANGED <<cast, giver>>
CastLoopEnds == /\ cast.pc = "loop" /\ cast' = [cast EXCEPT !.pc = "finish"]
                /\ pw' = [pw EXCEPT !.paused = TRUE] /\ UNCHANGED giver

\* pw_capture_close, screencast_stop.
CastStops == /\ cast.pc = "finish" /\ CastEnds("done") /\ pw' = NoStream /\ giver' = NoGiver

-----------------------------------------------------------------------------
CastInit == cast = NoCast /\ pw = NoStream /\ giver = NoGiver

\* sc_gnome_start
Setup(ok) == \/ GnomeCalls("create", "area", ok) \/ GnomeCalls("area", "match", ok)
             \/ GnomeMatches(ok) \/ GnomeBegins(ok)

CastNext ==
  \/ (\E how \in {"selected", "none"} : PicksRegion(how)) \/ (\E kde, gnome \in BOOLEAN : CastResolves(kde, gnome))
  \/ \E ok \in BOOLEAN : KdeBinds(ok) \/ KdeAnswers(ok) \/ Setup(ok) \/ PwOpens(ok) \/ CastPrepares(ok) \/ PwPauses(ok)
  \/ MutterSignals \/ GnomeHears \/ GnomeWaits \/ GnomeGivesUp \/ GnomeStops
  \/ (\E size \in StreamSizes, known \in BOOLEAN : PwFormat(size, known)) \/ PwStreamEnds
  \/ PwNegotiated \/ PwFails \/ PwSize \/ PwBinds \/ PwFrame \/ CastLoopEnds \/ CastStops

-----------------------------------------------------------------------------
CastTypeOK == {pw.size, pw.buf, pw.pushed} \subseteq StreamSizes \cup {0}

\* No frame is larger than the buffers that were allocated for the size read
\* before, though the stream may be renegotiated at any time, also between the
\* reading of the size, which takes no lock, and the binding of the pool, when
\* on_param_changed has no pool to compare with (pw.c:83).  And the node that
\* Mutter announces before it answers Start is not missed (sc_gnome.c:220): only a
\* stream that was not announced is given up.
CastIsSound == pw.pushed <= pw.buf /\ (cast.pc = "deaf" => giver.signal = "unsent")
=============================================================================
