--------------------------- MODULE OutputsProofs ---------------------------
(***************************************************************************)
(* What a grabit process knows of the monitors, for any number of them and *)
(* any changes of their arrangement: grabit_wl_init returns with the sizes *)
(* of those it had heard of, outputs_serial tells a program when to look   *)
(* again, and a capture is planned on a monitor that is there.             *)
(***************************************************************************)
EXTENDS DesktopProofs

-----------------------------------------------------------------------------
(* The inductive invariant.                                                *)

\* What may be under way in either direction, the records, and what a program
\* keeps of them.
OutEvents == [ev : {"manager", "synced"}] \cup [ev : {"global", "remove", "done", "xdgdone"}, head : Heads]
               \cup [ev : {"geometry", "logical"}, head : Heads, at : 0 .. 1, mode : 1 .. 2]
OutAsks   == [req : {"registry", "sync"}] \cup [req : {"bind", "xdg"}, head : Heads]
Records   == [head : Heads, dead : BOOLEAN, at : 0 .. 1, width : {0, 3, 6}, scale : {1, 2},
              logical : Nat, xdg : BOOLEAN]
Monitors  == [state : {"on", "unseen", "gone"}, at : 0 .. 1, mode : 1 .. 2]
Pictures  == [serial : Nat, view : SUBSET [head : Heads, at : 0 .. 1, w : Nat]]

\* The events q hold one of kind ev about h; hold it before any "synced".
Holds(q, ev, h)  == \E i \in 1 .. Len(q) : q[i].ev = ev /\ q[i].head = h
Before(q, ev, h) == \E i \in 1 .. Len(q) : /\ q[i].ev = ev /\ q[i].head = h
                                           /\ \A j \in 1 .. i : q[j].ev # "synced"

\* The requests q hold one of kind req about h; hold it before a "sync".
AskIn(q, req, h)     == \E i \in 1 .. Len(q) : q[i].req = req /\ q[i].head = h
AskBefore(q, req, h) == \E i, j \in 1 .. Len(q) :
                          i < j /\ q[i].req = req /\ q[i].head = h /\ q[j].req = "sync"

\* The last that q tells of the place and of the size of h is true of d.
Carries(m, h) == m.ev \in {"geometry", "logical"} /\ m.head = h
LastTrue(q, h, d) ==
  \A i \in 1 .. Len(q) :
    /\ Carries(q[i], h) /\ (\A j \in i + 1 .. Len(q) : ~Carries(q[j], h)) => q[i].at = d.at
    /\ /\ q[i].ev = "logical" /\ q[i].head = h
       /\ \A j \in i + 1 .. Len(q) : ~(q[j].ev = "logical" /\ q[j].head = h)
       => q[i].mode = d.mode

\* Whatever is told of a monitor is followed by a done, which bumps the serial.
ThenDone(q) ==
  \A i \in 1 .. Len(q) : q[i].ev \in {"geometry", "logical"} =>
    \E j \in i + 1 .. Len(q) : q[j].ev \in {"done", "xdgdone"} /\ q[j].head = q[i].head

\* The announcement of h is followed by its removal; h is announced once.
ThenGone(q, h) ==
  \A i \in 1 .. Len(q) : q[i].ev = "global" /\ q[i].head = h =>
    \E j \in i + 1 .. Len(q) : q[j].ev = "remove" /\ q[j].head = h
OneGlobal(q, h) ==
  \A i, j \in 1 .. Len(q) :
    q[i].ev = "global" /\ q[j].ev = "global" /\ q[i].head = h /\ q[j].head = h => i = j

\* h is bound before its size is asked for.
BoundFirst(q, h) ==
  \A i \in 1 .. Len(q) : q[i].req = "xdg" /\ q[i].head = h =>
    \E j \in 1 .. i - 1 : q[j].req = "bind" /\ q[j].head = h

\* The true size or place of h is on its way, or h's removal is.
SizeComes(h)  == AskIn(asks, "xdg", h) \/ Holds(wire, "logical", h)
PlaceComes(h) == AskIn(asks, "bind", h) \/ Holds(wire, "geometry", h)
Leaving(h)    == Holds(wire, "remove", h)

\* The list has a record of h, a live one; a record has a true size, or what
\* gwl_output_finalize computes one from.
Listed(h)   == \E k \in DOMAIN outs : outs[k].head = h
Live(h)     == \E k \in DOMAIN outs : outs[k].head = h /\ ~outs[k].dead
Sized(o)    == \E mode \in 1 .. 2 : o.logical = TrueWidth(mode)
Measured(o) == o.width \in {3, 6} /\ o.scale = 2

\* What a record says of its monitor is true, or the truth is on its way.
Follows(o) ==
  LET h == o.head IN
  /\ Plugged(h) \/ Leaving(h)
  /\ Plugged(h) =>
       /\ o.at = desk[h].at \/ SizeComes(h) \/ PlaceComes(h)
       /\ o.logical = TrueWidth(desk[h].mode) \/ SizeComes(h) \/ ~o.xdg
       /\ h \in told.wl \/ AskIn(asks, "bind", h)
       /\ o.xdg => h \in told.xdg \/ AskIn(asks, "xdg", h)
       /\ Measured(o) \/ PlaceComes(h)

\* ... and of a monitor heard of in the first roundtrip it comes before the end
\* of the roundtrip that waits for it: the second without a manager, else the third.
InTime(o) ==
  LET h == o.head IN
  /\ o.xdg \/ ~manages \/ wlPhase \in {"first", "second"}
  /\ h \in early =>
       /\ wlPhase = "second" /\ ~manages =>
            Measured(o) \/ o.logical > 0 \/ AskBefore(asks, "bind", h) \/ Before(wire, "geometry", h)
              \/ Before(wire, "remove", h)
       /\ wlPhase = "third" =>
            Sized(o) \/ AskBefore(asks, "xdg", h) \/ Before(wire, "logical", h) \/ Before(wire, "remove", h)
       /\ wlPhase = "ready" => o.logical > 0 /\ (manages => Sized(o))
RecordsOk == \A k \in DOMAIN outs : ~outs[k].dead => Follows(outs[k]) /\ InTime(outs[k])

\* One roundtrip is under way at a time.
SyncOk ==
  /\ \A i, j \in 1 .. Len(asks) : asks[i].req = "sync" /\ asks[j].req = "sync" => i = j
  /\ \A i, j \in 1 .. Len(wire) : wire[i].ev = "synced" /\ wire[j].ev = "synced" => i = j
  /\ (\E i \in 1 .. Len(asks) : asks[i].req = "sync") => \A i \in 1 .. Len(wire) : wire[i].ev # "synced"

\* Nothing has happened before the registry is served.
BeginOk ==
  Announced \/ (/\ asks = <<[req |-> "registry"], [req |-> "sync"]>> /\ wire = <<>> /\ outs = <<>> /\ ~manager
                /\ wlPhase = "first" /\ early = {} /\ told = [wl |-> {}, xdg |-> {}])

\* A manager that is offered is bound when the first roundtrip ends.
ManagerOk ==
  /\ ~manages => ~manager /\ \A i \in 1 .. Len(wire) : wire[i].ev # "manager"
  /\ manages /\ ~manager =>
       /\ wlPhase = "first"
       /\ ~Announced \/ \E i \in 1 .. Len(wire) : wire[i].ev = "manager" /\ \A j \in 1 .. i : wire[j].ev # "synced"

\* A monitor there is is announced or listed, and what is told of it last is true.
HeadOk(h) ==
  /\ Holds(wire, "global", h) => (Plugged(h) \/ ThenGone(wire, h)) /\ ~Listed(h)
  /\ OneGlobal(wire, h)
  /\ desk[h].state = "unseen" => ~Holds(wire, "global", h) /\ ~Listed(h)
  /\ Leaving(h) => desk[h].state = "gone"
  /\ Plugged(h) => ~Announced \/ Holds(wire, "global", h) \/ \E k \in DOMAIN outs : outs[k].head = h /\ ~outs[k].dead
  /\ Plugged(h) => /\ LastTrue(wire, h, desk[h])
                   /\ Holds(wire, "geometry", h) => h \in told.wl
                   /\ Holds(wire, "logical", h) => h \in told.xdg
  /\ h \in early => Listed(h)

\* Only a monitor of the list is asked about, and it is bound first.
AskedOk(h) ==
  /\ h \in told.wl \/ h \in told.xdg \/ AskIn(asks, "bind", h) \/ AskIn(asks, "xdg", h) => Listed(h)
  /\ Holds(wire, "geometry", h) \/ Holds(wire, "logical", h) => Listed(h)
  /\ Plugged(h) => /\ h \in told.xdg => h \in told.wl
                   /\ h \in told.wl \/ BoundFirst(asks, h)

\* What a program read last is what the list says, or outputs_serial is about to
\* move.
ToCome(h) ==
  (Plugged(h) /\ AskIn(asks, "bind", h)) \/ Holds(wire, "done", h) \/ Holds(wire, "xdgdone", h) \/ Leaving(h)
PictureOk ==
  /\ picture.serial <= outSerial
  /\ wlPhase # "ready" => picture = NoPicture
  /\ picture # NoPicture /\ picture.serial = outSerial =>
       picture.view = View \/ \E k \in DOMAIN outs : ~outs[k].dead /\ ToCome(outs[k].head)

OutTypes ==
  /\ desk \in [Heads -> Monitors] /\ manages \in BOOLEAN /\ oldDone \in BOOLEAN
  /\ told \in [wl : SUBSET Heads, xdg : SUBSET Heads]
  /\ asks \in Seq(OutAsks) /\ wire \in Seq(OutEvents) /\ outs \in Seq(Records)
  /\ wlPhase \in {"first", "second", "third", "ready", "failed"} /\ manager \in BOOLEAN
  /\ outSerial \in Nat /\ early \subseteq Heads /\ picture \in Pictures

OutInv ==
  /\ OutTypes /\ RecordsOk /\ SyncOk /\ BeginOk /\ ManagerOk /\ ThenDone(wire)
  /\ (\A h \in Heads : HeadOk(h) /\ AskedOk(h)) /\ PictureOk

-----------------------------------------------------------------------------
(* The queues: one that loses its head, one that grows.                    *)

\* A queue without its head, by places.
LEMMA TailPlaces ==
  ASSUME NEW S, NEW q \in Seq(S), q # <<>>
  PROVE  /\ Tail(q) \in Seq(S) /\ Len(q) \in Nat \ {0} /\ Len(Tail(q)) = Len(q) - 1
         /\ \A i \in 1 .. Len(Tail(q)) : Tail(q)[i] = q[i + 1]
         /\ Head(q) = q[1] /\ q[1] \in S
  OBVIOUS

\* Two queues, one after the other, by places.
LEMMA JoinPlaces ==
  ASSUME NEW S, NEW q \in Seq(S), NEW r \in Seq(S)
  PROVE  /\ q \o r \in Seq(S) /\ Len(q) \in Nat /\ Len(r) \in Nat /\ Len(q \o r) = Len(q) + Len(r)
         /\ \A i \in 1 .. Len(q) : (q \o r)[i] = q[i]
         /\ \A i \in 1 .. Len(r) : (q \o r)[Len(q) + i] = r[i]
         /\ \A k \in 1 .. Len(q \o r) :
              k \in 1 .. Len(q) \/ \E i \in 1 .. Len(r) : k = Len(q) + i
  <1>1. /\ q \o r \in Seq(S) /\ Len(q) \in Nat /\ Len(r) \in Nat /\ Len(q \o r) = Len(q) + Len(r)
        /\ \A i \in 1 .. Len(q) : (q \o r)[i] = q[i]
        /\ \A i \in 1 .. Len(r) : (q \o r)[Len(q) + i] = r[i]
    OBVIOUS
  <1>2. ASSUME NEW k \in 1 .. Len(q \o r), k \notin 1 .. Len(q)
        PROVE  \E i \in 1 .. Len(r) : k = Len(q) + i
    <2>1. k - Len(q) \in 1 .. Len(r) /\ k = Len(q) + (k - Len(q))
      BY <1>1, <1>2
    <2> QED  BY <2>1
  <1> QED  BY <1>1, <1>2

\* A queue that loses its head.
LEMMA HoldsTail ==
  ASSUME NEW S, NEW q \in Seq(S), q # <<>>, NEW ev, NEW h
  PROVE  /\ Holds(Tail(q), ev, h) => Holds(q, ev, h)
         /\ Holds(q, ev, h) => Holds(Tail(q), ev, h) \/ (Head(q).ev = ev /\ Head(q).head = h)
         /\ Before(q, ev, h) => Before(Tail(q), ev, h) \/ (Head(q).ev = ev /\ Head(q).head = h)
         /\ Head(q).ev = "synced" /\ ev # "synced" => ~Before(q, ev, h)
  <1> DEFINE t == Tail(q)
  <1>1. /\ Len(q) \in Nat \ {0} /\ Len(t) = Len(q) - 1 /\ Head(q) = q[1]
        /\ \A i \in 1 .. Len(t) : t[i] = q[i + 1]
    BY TailPlaces
  <1> HIDE DEF t
  <1>2. ASSUME Holds(t, ev, h) PROVE Holds(q, ev, h)
    <2>1. PICK i \in 1 .. Len(t) : t[i].ev = ev /\ t[i].head = h  BY <1>2 DEF Holds
    <2>2. i + 1 \in 1 .. Len(q) /\ q[i + 1].ev = ev /\ q[i + 1].head = h  BY <2>1, <1>1
    <2> QED  BY <2>2 DEF Holds
  <1>3. ASSUME NEW i \in 1 .. Len(q), i # 1 PROVE i - 1 \in 1 .. Len(t) /\ t[i - 1] = q[i]
    BY <1>1, <1>3
  <1>4. Holds(q, ev, h) => Holds(t, ev, h) \/ (Head(q).ev = ev /\ Head(q).head = h)
    BY <1>1, <1>3 DEF Holds
  <1>5. ASSUME NEW i \in 1 .. Len(q), q[i].ev = ev, q[i].head = h, \A j \in 1 .. i : q[j].ev # "synced",
               i # 1
        PROVE  Before(t, ev, h)
    <2>1. i - 1 \in 1 .. Len(t) /\ t[i - 1].ev = ev /\ t[i - 1].head = h  BY <1>3, <1>5
    <2>2. \A j \in 1 .. i - 1 : t[j].ev # "synced"
      <3>1. ASSUME NEW j \in 1 .. i - 1 PROVE t[j] = q[j + 1] /\ j + 1 \in 1 .. i  BY <1>1, <1>5
      <3> QED  BY <3>1, <1>5
    <2> QED  BY <2>1, <2>2 DEF Before
  <1>6. Before(q, ev, h) => Before(t, ev, h) \/ (Head(q).ev = ev /\ Head(q).head = h)
    BY <1>1, <1>5 DEF Before
  <1>7. Head(q).ev = "synced" /\ ev # "synced" => ~Before(q, ev, h)
    BY <1>1 DEF Before
  <1> QED  BY <1>2, <1>4, <1>6, <1>7 DEF t

\* A request that is in the queue stays in it, or was its head.
LEMMA AskTail ==
  ASSUME NEW S, NEW q \in Seq(S), q # <<>>, NEW req, NEW h
  PROVE  /\ AskIn(Tail(q), req, h) => AskIn(q, req, h)
         /\ AskIn(q, req, h) => AskIn(Tail(q), req, h) \/ (Head(q).req = req /\ Head(q).head = h)
         /\ AskBefore(q, req, h) =>
              \/ AskBefore(Tail(q), req, h)
              \/ Head(q).req = req /\ Head(q).head = h /\ \E j \in 1 .. Len(q) : j > 1 /\ q[j].req = "sync"
  <1> DEFINE t == Tail(q)
  <1>1. /\ Len(q) \in Nat \ {0} /\ Len(t) = Len(q) - 1 /\ Head(q) = q[1]
        /\ \A i \in 1 .. Len(t) : t[i] = q[i + 1]
    BY TailPlaces
  <1> HIDE DEF t
  <1>2. ASSUME AskIn(t, req, h) PROVE AskIn(q, req, h)
    <2>1. PICK i \in 1 .. Len(t) : t[i].req = req /\ t[i].head = h  BY <1>2 DEF AskIn
    <2>2. i + 1 \in 1 .. Len(q) /\ q[i + 1].req = req /\ q[i + 1].head = h  BY <2>1, <1>1
    <2> QED  BY <2>2 DEF AskIn
  <1>3. ASSUME NEW i \in 1 .. Len(q), i # 1 PROVE i - 1 \in 1 .. Len(t) /\ t[i - 1] = q[i]
    BY <1>1, <1>3
  <1>4. AskIn(q, req, h) => AskIn(t, req, h) \/ (Head(q).req = req /\ Head(q).head = h)
    BY <1>1, <1>3 DEF AskIn
  <1>5. ASSUME AskBefore(q, req, h)
        PROVE  \/ AskBefore(t, req, h)
               \/ Head(q).req = req /\ Head(q).head = h /\ \E j \in 1 .. Len(q) : j > 1 /\ q[j].req = "sync"
    <2>1. PICK i, j \in 1 .. Len(q) : i < j /\ q[i].req = req /\ q[i].head = h /\ q[j].req = "sync"
      BY <1>5 DEF AskBefore
    <2>2. j # 1 /\ j > 1  BY <1>1, <2>1
    <2>3. CASE i = 1  BY <2>3, <2>2, <2>1, <1>1
    <2>4. CASE i # 1
      <3>1. /\ i - 1 \in 1 .. Len(t) /\ t[i - 1] = q[i] /\ j - 1 \in 1 .. Len(t) /\ t[j - 1] = q[j]
            /\ i - 1 < j - 1
        BY <1>3, <2>1, <2>2, <2>4, <1>1
      <3> QED  BY <3>1, <2>1 DEF AskBefore
    <2> QED  BY <2>3, <2>4
  <1> QED  BY <1>2, <1>4, <1>5 DEF t

\* What is said of the order of the events holds without the first of them.
LEMMA OrdersTail ==
  ASSUME NEW S, NEW q \in Seq(S), q # <<>>, NEW h, NEW d
  PROVE  /\ LastTrue(q, h, d) => LastTrue(Tail(q), h, d)
         /\ ThenDone(q) => ThenDone(Tail(q))
         /\ ThenGone(q, h) => ThenGone(Tail(q), h)
         /\ OneGlobal(q, h) => OneGlobal(Tail(q), h)
  <1> DEFINE t == Tail(q)
  <1>1. /\ Len(q) \in Nat \ {0} /\ Len(t) = Len(q) - 1 /\ Head(q) = q[1]
        /\ \A i \in 1 .. Len(t) : t[i] = q[i + 1]
    BY TailPlaces
  <1> HIDE DEF t
  <1>2. \A i \in 1 .. Len(t) : i + 1 \in 1 .. Len(q) /\ t[i] = q[i + 1]
    BY <1>1
  <1>3. ASSUME NEW i \in 1 .. Len(t), NEW j \in (i + 1) + 1 .. Len(q)
        PROVE  j - 1 \in i + 1 .. Len(t) /\ t[j - 1] = q[j]
    BY <1>1
  <1>4. ASSUME LastTrue(q, h, d) PROVE LastTrue(t, h, d)
    <2> SUFFICES ASSUME NEW i \in 1 .. Len(t)
                 PROVE  /\ Carries(t[i], h) /\ (\A j \in i + 1 .. Len(t) : ~Carries(t[j], h)) => t[i].at = d.at
                        /\ /\ t[i].ev = "logical" /\ t[i].head = h
                           /\ \A j \in i + 1 .. Len(t) : ~(t[j].ev = "logical" /\ t[j].head = h)
                           => t[i].mode = d.mode
      BY DEF LastTrue
    <2>1. i + 1 \in 1 .. Len(q) /\ t[i] = q[i + 1]  BY <1>2
    <2>2. /\ Carries(q[i + 1], h) /\ (\A j \in (i + 1) + 1 .. Len(q) : ~Carries(q[j], h)) => q[i + 1].at = d.at
          /\ /\ q[i + 1].ev = "logical" /\ q[i + 1].head = h
             /\ \A j \in (i + 1) + 1 .. Len(q) : ~(q[j].ev = "logical" /\ q[j].head = h)
             => q[i + 1].mode = d.mode
      BY <2>1, <1>4 DEF LastTrue
    <2>3. (\A j \in i + 1 .. Len(t) : ~Carries(t[j], h)) => \A j \in (i + 1) + 1 .. Len(q) : ~Carries(q[j], h)
      BY <1>3
    <2>4. (\A j \in i + 1 .. Len(t) : ~(t[j].ev = "logical" /\ t[j].head = h))
            => \A j \in (i + 1) + 1 .. Len(q) : ~(q[j].ev = "logical" /\ q[j].head = h)
      BY <1>3
    <2> QED  BY <2>1, <2>2, <2>3, <2>4
  <1>5. ASSUME ThenDone(q) PROVE ThenDone(t)
    <2> SUFFICES ASSUME NEW i \in 1 .. Len(t), t[i].ev \in {"geometry", "logical"}
                 PROVE  \E j \in i + 1 .. Len(t) : t[j].ev \in {"done", "xdgdone"} /\ t[j].head = t[i].head
      BY DEF ThenDone
    <2>1. i + 1 \in 1 .. Len(q) /\ t[i] = q[i + 1]  BY <1>2
    <2>2. PICK j \in (i + 1) + 1 .. Len(q) : q[j].ev \in {"done", "xdgdone"} /\ q[j].head = q[i + 1].head
      BY <2>1, <1>5 DEF ThenDone
    <2> QED  BY <1>3, <2>1, <2>2
  <1>6. ASSUME ThenGone(q, h) PROVE ThenGone(t, h)
    <2> SUFFICES ASSUME NEW i \in 1 .. Len(t), t[i].ev = "global", t[i].head = h
                 PROVE  \E j \in i + 1 .. Len(t) : t[j].ev = "remove" /\ t[j].head = h
      BY DEF ThenGone
    <2>1. i + 1 \in 1 .. Len(q) /\ t[i] = q[i + 1]  BY <1>2
    <2>2. PICK j \in (i + 1) + 1 .. Len(q) : q[j].ev = "remove" /\ q[j].head = h
      BY <2>1, <1>6 DEF ThenGone
    <2> QED  BY <1>3, <2>1, <2>2
  <1>7. ASSUME OneGlobal(q, h) PROVE OneGlobal(t, h)
    <2> SUFFICES ASSUME NEW i \in 1 .. Len(t), NEW j \in 1 .. Len(t), t[i].ev = "global", t[j].ev = "global",
                        t[i].head = h, t[j].head = h
                 PROVE  i = j
      BY DEF OneGlobal
    <2>1. i + 1 \in 1 .. Len(q) /\ t[i] = q[i + 1] /\ j + 1 \in 1 .. Len(q) /\ t[j] = q[j + 1]  BY <1>2
    <2>2. i + 1 = j + 1  BY <2>1, <1>7 DEF OneGlobal
    <2> QED  BY <2>2, <1>1
  <1> QED  BY <1>4, <1>5, <1>6, <1>7 DEF t

\* A queue that grows.
LEMMA HoldsJoin ==
  ASSUME NEW S, NEW q \in Seq(S), NEW r \in Seq(S), NEW ev, NEW h
  PROVE  /\ Holds(q \o r, ev, h) <=> Holds(q, ev, h) \/ Holds(r, ev, h)
         /\ Before(q, ev, h) => Before(q \o r, ev, h)
  <1> DEFINE u == q \o r
  <1>1. /\ u \in Seq(S) /\ Len(q) \in Nat /\ Len(r) \in Nat /\ Len(u) = Len(q) + Len(r)
        /\ \A i \in 1 .. Len(q) : u[i] = q[i]
        /\ \A i \in 1 .. Len(r) : u[Len(q) + i] = r[i]
        /\ \A k \in 1 .. Len(u) : k \in 1 .. Len(q) \/ \E i \in 1 .. Len(r) : k = Len(q) + i
    BY JoinPlaces
  <1> HIDE DEF u
  <1>2. ASSUME Holds(q, ev, h) PROVE Holds(u, ev, h)
    <2>1. PICK i \in 1 .. Len(q) : q[i].ev = ev /\ q[i].head = h  BY <1>2 DEF Holds
    <2>2. i \in 1 .. Len(u) /\ u[i] = q[i]  BY <1>1, <2>1
    <2> QED  BY <2>1, <2>2 DEF Holds
  <1>3. ASSUME Holds(r, ev, h) PROVE Holds(u, ev, h)
    <2>1. PICK i \in 1 .. Len(r) : r[i].ev = ev /\ r[i].head = h  BY <1>3 DEF Holds
    <2>2. Len(q) + i \in 1 .. Len(u) /\ u[Len(q) + i] = r[i]  BY <1>1, <2>1
    <2> QED  BY <2>1, <2>2 DEF Holds
  <1>4. ASSUME Holds(u, ev, h) PROVE Holds(q, ev, h) \/ Holds(r, ev, h)
    <2>1. PICK k \in 1 .. Len(u) : u[k].ev = ev /\ u[k].head = h  BY <1>4 DEF Holds
    <2>2. CASE k \in 1 .. Len(q)  BY <1>1, <2>1, <2>2 DEF Holds
    <2>3. CASE \E i \in 1 .. Len(r) : k = Len(q) + i  BY <1>1, <2>1, <2>3 DEF Holds
    <2> QED  BY <1>1, <2>2, <2>3
  <1>5. ASSUME Before(q, ev, h) PROVE Before(u, ev, h)
    <2>1. PICK i \in 1 .. Len(q) : q[i].ev = ev /\ q[i].head = h /\ \A j \in 1 .. i : q[j].ev # "synced"
      BY <1>5 DEF Before
    <2>2. i \in 1 .. Len(u) /\ u[i] = q[i] /\ \A j \in 1 .. i : u[j] = q[j]  BY <1>1, <2>1
    <2> QED  BY <2>1, <2>2 DEF Before
  <1> QED  BY <1>2, <1>3, <1>4, <1>5 DEF u

\* A request that was made before another is still before it, and before a sync
\* that follows.
LEMMA AskJoin ==
  ASSUME NEW S, NEW q \in Seq(S), NEW r \in Seq(S), NEW req, NEW h
  PROVE  /\ AskIn(q \o r, req, h) <=> AskIn(q, req, h) \/ AskIn(r, req, h)
         /\ AskBefore(q, req, h) => AskBefore(q \o r, req, h)
         /\ AskIn(q, req, h) /\ (\E i \in 1 .. Len(r) : r[i].req = "sync") => AskBefore(q \o r, req, h)
         /\ AskBefore(r, req, h) => AskBefore(q \o r, req, h)
  <1> DEFINE u == q \o r
  <1>1. /\ u \in Seq(S) /\ Len(q) \in Nat /\ Len(r) \in Nat /\ Len(u) = Len(q) + Len(r)
        /\ \A i \in 1 .. Len(q) : u[i] = q[i]
        /\ \A i \in 1 .. Len(r) : u[Len(q) + i] = r[i]
        /\ \A k \in 1 .. Len(u) : k \in 1 .. Len(q) \/ \E i \in 1 .. Len(r) : k = Len(q) + i
    BY JoinPlaces
  <1> HIDE DEF u
  <1>0. /\ \A i \in 1 .. Len(q) : i \in 1 .. Len(u) /\ u[i] = q[i]
        /\ \A i \in 1 .. Len(r) : Len(q) + i \in 1 .. Len(u) /\ u[Len(q) + i] = r[i]
    BY <1>1
  <1>2. ASSUME AskIn(q, req, h) PROVE AskIn(u, req, h)
    BY <1>0, <1>2 DEF AskIn
  <1>3. ASSUME AskIn(r, req, h) PROVE AskIn(u, req, h)
    <2>1. PICK i \in 1 .. Len(r) : r[i].req = req /\ r[i].head = h  BY <1>3 DEF AskIn
    <2>2. Len(q) + i \in 1 .. Len(u) /\ u[Len(q) + i] = r[i]  BY <1>0, <2>1
    <2> QED  BY <2>1, <2>2 DEF AskIn
  <1>4. ASSUME AskIn(u, req, h) PROVE AskIn(q, req, h) \/ AskIn(r, req, h)
    <2>1. PICK k \in 1 .. Len(u) : u[k].req = req /\ u[k].head = h  BY <1>4 DEF AskIn
    <2>2. CASE k \in 1 .. Len(q)  BY <1>1, <2>1, <2>2 DEF AskIn
    <2>3. CASE \E i \in 1 .. Len(r) : k = Len(q) + i  BY <1>1, <2>1, <2>3 DEF AskIn
    <2> QED  BY <1>1, <2>2, <2>3
  <1>5. ASSUME AskBefore(q, req, h) PROVE AskBefore(u, req, h)
    BY <1>0, <1>5 DEF AskBefore
  <1>6. ASSUME AskIn(q, req, h), NEW k \in 1 .. Len(r), r[k].req = "sync" PROVE AskBefore(u, req, h)
    <2>1. PICK i \in 1 .. Len(q) : q[i].req = req /\ q[i].head = h  BY <1>6 DEF AskIn
    <2>2. i \in 1 .. Len(u) /\ Len(q) + k \in 1 .. Len(u) /\ i < Len(q) + k /\ u[i] = q[i] /\ u[Len(q) + k] = r[k]
      BY <1>0, <1>1, <2>1
    <2> QED  BY <1>6, <2>1, <2>2 DEF AskBefore
  <1>7. ASSUME AskBefore(r, req, h) PROVE AskBefore(u, req, h)
    <2>1. PICK i, j \in 1 .. Len(r) : i < j /\ r[i].req = req /\ r[i].head = h /\ r[j].req = "sync"
      BY <1>7 DEF AskBefore
    <2>2. /\ Len(q) + i \in 1 .. Len(u) /\ u[Len(q) + i] = r[i] /\ Len(q) + j \in 1 .. Len(u)
          /\ u[Len(q) + j] = r[j] /\ Len(q) + i < Len(q) + j
      BY <1>0, <1>1, <2>1
    <2> QED  BY <2>1, <2>2 DEF AskBefore
  <1> QED  BY <1>2, <1>3, <1>4, <1>5, <1>6, <1>7 DEF u

\* What is said of the order of the events holds with others behind them that
\* keep it.
LEMMA OrdersJoin ==
  ASSUME NEW S, NEW q \in Seq(S), NEW r \in Seq(S), NEW h, NEW d
  PROVE  /\ ThenDone(q) /\ ThenDone(r) => ThenDone(q \o r)
         /\ ThenGone(q, h) /\ ~Holds(r, "global", h) => ThenGone(q \o r, h)
         /\ (\E i \in 1 .. Len(r) : r[i].ev = "remove" /\ r[i].head = h) /\ ~Holds(r, "global", h)
              => ThenGone(q \o r, h)
         /\ OneGlobal(q, h) /\ OneGlobal(r, h) /\ (~Holds(q, "global", h) \/ ~Holds(r, "global", h))
              => OneGlobal(q \o r, h)
  <1> DEFINE u == q \o r
  <1>1. /\ u \in Seq(S) /\ Len(q) \in Nat /\ Len(r) \in Nat /\ Len(u) = Len(q) + Len(r)
        /\ \A i \in 1 .. Len(q) : u[i] = q[i]
        /\ \A i \in 1 .. Len(r) : u[Len(q) + i] = r[i]
        /\ \A k \in 1 .. Len(u) : k \in 1 .. Len(q) \/ \E i \in 1 .. Len(r) : k = Len(q) + i
    BY JoinPlaces
  <1> HIDE DEF u
  <1>2. ASSUME NEW i \in 1 .. Len(q), NEW j \in i + 1 .. Len(q)
        PROVE  j \in i + 1 .. Len(u) /\ u[j] = q[j]
    BY <1>1
  <1>3. ASSUME NEW i \in 1 .. Len(r), NEW j \in i + 1 .. Len(r)
        PROVE  Len(q) + j \in (Len(q) + i) + 1 .. Len(u) /\ u[Len(q) + j] = r[j]
    BY <1>1
  <1>4. ASSUME NEW i \in 1 .. Len(q), NEW j \in 1 .. Len(r)
        PROVE  Len(q) + j \in i + 1 .. Len(u) /\ u[Len(q) + j] = r[j]
    BY <1>1
  <1>5. ASSUME ThenDone(q), ThenDone(r) PROVE ThenDone(u)
    <2> SUFFICES ASSUME NEW k \in 1 .. Len(u), u[k].ev \in {"geometry", "logical"}
                 PROVE  \E j \in k + 1 .. Len(u) : u[j].ev \in {"done", "xdgdone"} /\ u[j].head = u[k].head
      BY DEF ThenDone
    <2>1. CASE k \in 1 .. Len(q)
      <3>1. u[k] = q[k]  BY <1>1, <2>1
      <3>2. PICK j \in k + 1 .. Len(q) : q[j].ev \in {"done", "xdgdone"} /\ q[j].head = q[k].head
        BY <3>1, <2>1, <1>5 DEF ThenDone
      <3> QED  BY <3>1, <3>2, <1>2, <2>1
    <2>2. ASSUME NEW i \in 1 .. Len(r), k = Len(q) + i
          PROVE  \E j \in k + 1 .. Len(u) : u[j].ev \in {"done", "xdgdone"} /\ u[j].head = u[k].head
      <3>1. u[k] = r[i]  BY <1>1, <2>2
      <3>2. PICK j \in i + 1 .. Len(r) : r[j].ev \in {"done", "xdgdone"} /\ r[j].head = r[i].head
        BY <3>1, <2>2, <1>5 DEF ThenDone
      <3>3. Len(q) + j \in k + 1 .. Len(u) /\ u[Len(q) + j] = r[j]  BY <1>3, <2>2
      <3> QED  BY <3>1, <3>2, <3>3
    <2> QED  BY <1>1, <2>1, <2>2
  <1>6. ASSUME ~Holds(r, "global", h), NEW k \in 1 .. Len(u), u[k].ev = "global", u[k].head = h
        PROVE  k \in 1 .. Len(q) /\ q[k] = u[k]
    <2>1. ASSUME NEW i \in 1 .. Len(r), k = Len(q) + i PROVE FALSE
      BY <1>1, <1>6, <2>1 DEF Holds
    <2> QED  BY <1>1, <2>1
  <1>7. ASSUME ThenGone(q, h), ~Holds(r, "global", h) PROVE ThenGone(u, h)
    <2> SUFFICES ASSUME NEW k \in 1 .. Len(u), u[k].ev = "global", u[k].head = h
                 PROVE  \E j \in k + 1 .. Len(u) : u[j].ev = "remove" /\ u[j].head = h
      BY DEF ThenGone
    <2>1. k \in 1 .. Len(q) /\ q[k] = u[k]  BY <1>6, <1>7
    <2>2. PICK j \in k + 1 .. Len(q) : q[j].ev = "remove" /\ q[j].head = h
      BY <2>1, <1>7 DEF ThenGone
    <2> QED  BY <2>1, <2>2, <1>2
  <1>8. ASSUME NEW i \in 1 .. Len(r), r[i].ev = "remove", r[i].head = h, ~Holds(r, "global", h)
        PROVE  ThenGone(u, h)
    <2> SUFFICES ASSUME NEW k \in 1 .. Len(u), u[k].ev = "global", u[k].head = h
                 PROVE  \E j \in k + 1 .. Len(u) : u[j].ev = "remove" /\ u[j].head = h
      BY DEF ThenGone
    <2>1. k \in 1 .. Len(q)  BY <1>6, <1>8
    <2> QED  BY <2>1, <1>4, <1>8
  <1>9. ASSUME OneGlobal(q, h), OneGlobal(r, h), ~Holds(q, "global", h) \/ ~Holds(r, "global", h)
        PROVE  OneGlobal(u, h)
    <2> SUFFICES ASSUME NEW i \in 1 .. Len(u), NEW j \in 1 .. Len(u), u[i].ev = "global", u[j].ev = "global",
                        u[i].head = h, u[j].head = h
                 PROVE  i = j
      BY DEF OneGlobal
    <2>1. CASE ~Holds(r, "global", h)
      <3>1. i \in 1 .. Len(q) /\ q[i] = u[i] /\ j \in 1 .. Len(q) /\ q[j] = u[j]  BY <1>6, <2>1
      <3> QED  BY <3>1, <1>9 DEF OneGlobal
    <2>2. CASE ~Holds(q, "global", h)
      <3>1. i \notin 1 .. Len(q) /\ j \notin 1 .. Len(q)  BY <1>1, <2>2 DEF Holds
      <3>2. PICK a \in 1 .. Len(r) : i = Len(q) + a  BY <3>1, <1>1
      <3>3. PICK b \in 1 .. Len(r) : j = Len(q) + b  BY <3>1, <1>1
      <3>4. r[a] = u[i] /\ r[b] = u[j]  BY <3>2, <3>3, <1>1
      <3>5. a = b  BY <3>4, <1>9 DEF OneGlobal
      <3> QED  BY <3>5, <3>2, <3>3
    <2> QED  BY <2>1, <2>2, <1>9
  <1> QED  BY <1>5, <1>7, <1>8, <1>9 DEF u

\* What is added last counts: r tells d of h, or is silent and q tells it.
LEMMA LastTrueJoin ==
  ASSUME NEW S, NEW q \in Seq(S), NEW r \in Seq(S), NEW h, NEW d,
         \A i \in 1 .. Len(r) : Carries(r[i], h) => r[i].at = d.at /\ (r[i].ev = "logical" => r[i].mode = d.mode),
         \/ LastTrue(q, h, d)
         \/ /\ Holds(q, "geometry", h) => Holds(r, "geometry", h) \/ Holds(r, "logical", h)
            /\ Holds(q, "logical", h) => Holds(r, "logical", h)
  PROVE  LastTrue(q \o r, h, d)
  <1> DEFINE u == q \o r
  <1>1. /\ u \in Seq(S) /\ Len(q) \in Nat /\ Len(r) \in Nat /\ Len(u) = Len(q) + Len(r)
        /\ \A i \in 1 .. Len(q) : u[i] = q[i]
        /\ \A i \in 1 .. Len(r) : u[Len(q) + i] = r[i]
        /\ \A k \in 1 .. Len(u) : k \in 1 .. Len(q) \/ \E i \in 1 .. Len(r) : k = Len(q) + i
    BY JoinPlaces
  <1> HIDE DEF u
  <1>2. ASSUME NEW i \in 1 .. Len(q), NEW j \in i + 1 .. Len(q)
        PROVE  j \in i + 1 .. Len(u) /\ u[j] = q[j]
    BY <1>1
  <1>4. ASSUME NEW i \in 1 .. Len(q), NEW j \in 1 .. Len(r)
        PROVE  Len(q) + j \in i + 1 .. Len(u) /\ u[Len(q) + j] = r[j]
    BY <1>1
  <1> SUFFICES ASSUME NEW k \in 1 .. Len(u)
               PROVE  /\ Carries(u[k], h) /\ (\A j \in k + 1 .. Len(u) : ~Carries(u[j], h)) => u[k].at = d.at
                      /\ /\ u[k].ev = "logical" /\ u[k].head = h
                         /\ \A j \in k + 1 .. Len(u) : ~(u[j].ev = "logical" /\ u[j].head = h)
                         => u[k].mode = d.mode
    BY DEF LastTrue, u
  <1>5. ASSUME NEW i \in 1 .. Len(r), k = Len(q) + i
        PROVE  /\ Carries(u[k], h) => u[k].at = d.at
               /\ u[k].ev = "logical" /\ u[k].head = h => u[k].mode = d.mode
    <2>1. u[k] = r[i]  BY <1>1, <1>5
    <2>2. Carries(r[i], h) => r[i].at = d.at /\ (r[i].ev = "logical" => r[i].mode = d.mode)  OBVIOUS
    <2> QED  BY <2>1, <2>2 DEF Carries
  <1>6. ASSUME k \in 1 .. Len(q)
        PROVE  /\ Carries(u[k], h) /\ (\A j \in k + 1 .. Len(u) : ~Carries(u[j], h)) => u[k].at = d.at
               /\ /\ u[k].ev = "logical" /\ u[k].head = h
                  /\ \A j \in k + 1 .. Len(u) : ~(u[j].ev = "logical" /\ u[j].head = h)
                  => u[k].mode = d.mode
    <2>1. u[k] = q[k]  BY <1>1, <1>6
    <2>2. CASE LastTrue(q, h, d)
      <3>1. /\ Carries(q[k], h) /\ (\A j \in k + 1 .. Len(q) : ~Carries(q[j], h)) => q[k].at = d.at
            /\ /\ q[k].ev = "logical" /\ q[k].head = h
               /\ \A j \in k + 1 .. Len(q) : ~(q[j].ev = "logical" /\ q[j].head = h)
               => q[k].mode = d.mode
        BY <2>2, <1>6 DEF LastTrue
      <3>2. (\A j \in k + 1 .. Len(u) : ~Carries(u[j], h)) => \A j \in k + 1 .. Len(q) : ~Carries(q[j], h)
        BY <1>2, <1>6
      <3>3. (\A j \in k + 1 .. Len(u) : ~(u[j].ev = "logical" /\ u[j].head = h))
              => \A j \in k + 1 .. Len(q) : ~(q[j].ev = "logical" /\ q[j].head = h)
        BY <1>2, <1>6
      <3> QED  BY <2>1, <3>1, <3>2, <3>3
    <2>3. CASE /\ Holds(q, "geometry", h) => Holds(r, "geometry", h) \/ Holds(r, "logical", h)
               /\ Holds(q, "logical", h) => Holds(r, "logical", h)
      <3>1. ASSUME Carries(q[k], h) PROVE \E j \in k + 1 .. Len(u) : Carries(u[j], h)
        <4>1. Holds(q, "geometry", h) \/ Holds(q, "logical", h)  BY <3>1, <1>6 DEF Carries, Holds
        <4>2. PICK i \in 1 .. Len(r) : r[i].ev \in {"geometry", "logical"} /\ r[i].head = h
          BY <4>1, <2>3 DEF Holds
        <4>3. Carries(r[i], h)  BY <4>2 DEF Carries
        <4> QED  BY <4>3, <1>4, <1>6
      <3>2. ASSUME q[k].ev = "logical", q[k].head = h
            PROVE  \E j \in k + 1 .. Len(u) : u[j].ev = "logical" /\ u[j].head = h
        <4>1. Holds(q, "logical", h)  BY <3>2, <1>6 DEF Holds
        <4>2. PICK i \in 1 .. Len(r) : r[i].ev = "logical" /\ r[i].head = h  BY <4>1, <2>3 DEF Holds
        <4> QED  BY <4>2, <1>4, <1>6
      <3> QED  BY <2>1, <3>1, <3>2
    <2> QED  BY <2>2, <2>3
  <1> QED  BY <1>1, <1>5, <1>6

\* A monitor stays bound first when a request is served or made.
LEMMA BoundFirstStays ==
  ASSUME NEW S, NEW q \in Seq(S), NEW r \in Seq(S), NEW h
  PROVE  /\ q # <<>> /\ BoundFirst(q, h) /\ ~(Head(q).req = "bind" /\ Head(q).head = h)
              => BoundFirst(Tail(q), h) /\ ~(Head(q).req = "xdg" /\ Head(q).head = h)
         /\ BoundFirst(q, h) /\ (BoundFirst(r, h) \/ AskIn(q, "bind", h)) => BoundFirst(q \o r, h)
  <1>1. ASSUME q # <<>>, BoundFirst(q, h), ~(Head(q).req = "bind" /\ Head(q).head = h)
        PROVE  BoundFirst(Tail(q), h) /\ ~(Head(q).req = "xdg" /\ Head(q).head = h)
    <2> DEFINE t == Tail(q)
    <2>1. /\ Len(q) \in Nat \ {0} /\ Len(t) = Len(q) - 1 /\ Head(q) = q[1]
          /\ \A i \in 1 .. Len(t) : t[i] = q[i + 1]
      BY <1>1, TailPlaces
    <2> HIDE DEF t
    <2>2. ASSUME NEW i \in 1 .. Len(t), t[i].req = "xdg", t[i].head = h
          PROVE  \E j \in 1 .. i - 1 : t[j].req = "bind" /\ t[j].head = h
      <3>1. i + 1 \in 1 .. Len(q) /\ t[i] = q[i + 1]  BY <2>1
      <3>2. PICK j \in 1 .. (i + 1) - 1 : q[j].req = "bind" /\ q[j].head = h
        BY <3>1, <2>2, <1>1 DEF BoundFirst
      <3>3. j # 1  BY <3>2, <2>1, <1>1
      <3>4. j - 1 \in 1 .. i - 1 /\ j - 1 \in 1 .. Len(t) /\ t[j - 1] = q[j]  BY <3>3, <3>2, <2>1
      <3> QED  BY <3>4, <3>2
    <2>3. BoundFirst(t, h)  BY <2>2 DEF BoundFirst
    <2>4. ~(Head(q).req = "xdg" /\ Head(q).head = h)
      <3>1. 1 \in 1 .. Len(q) /\ 1 .. 1 - 1 = {}  BY <2>1
      <3> QED  BY <3>1, <2>1, <1>1 DEF BoundFirst
    <2> QED  BY <2>3, <2>4 DEF t
  <1>2. ASSUME BoundFirst(q, h), BoundFirst(r, h) \/ AskIn(q, "bind", h)
        PROVE  BoundFirst(q \o r, h)
    <2> DEFINE u == q \o r
    <2>1. /\ u \in Seq(S) /\ Len(q) \in Nat /\ Len(r) \in Nat /\ Len(u) = Len(q) + Len(r)
          /\ \A i \in 1 .. Len(q) : u[i] = q[i]
          /\ \A i \in 1 .. Len(r) : u[Len(q) + i] = r[i]
          /\ \A k \in 1 .. Len(u) : k \in 1 .. Len(q) \/ \E i \in 1 .. Len(r) : k = Len(q) + i
      BY JoinPlaces
    <2> HIDE DEF u
    <2> SUFFICES ASSUME NEW k \in 1 .. Len(u), u[k].req = "xdg", u[k].head = h
                 PROVE  \E j \in 1 .. k - 1 : u[j].req = "bind" /\ u[j].head = h
      BY DEF BoundFirst, u
    <2>2. CASE k \in 1 .. Len(q)
      <3>1. PICK j \in 1 .. k - 1 : q[j].req = "bind" /\ q[j].head = h
        BY <2>1, <2>2, <1>2 DEF BoundFirst
      <3>2. u[j] = q[j]  BY <2>1, <2>2, <3>1
      <3> QED  BY <3>1, <3>2
    <2>3. ASSUME NEW i \in 1 .. Len(r), k = Len(q) + i
          PROVE  \E j \in 1 .. k - 1 : u[j].req = "bind" /\ u[j].head = h
      <3>1. u[k] = r[i]  BY <2>1, <2>3
      <3>2. CASE AskIn(q, "bind", h)
        <4>1. PICK j \in 1 .. Len(q) : q[j].req = "bind" /\ q[j].head = h  BY <3>2 DEF AskIn
        <4>2. j \in 1 .. k - 1 /\ u[j] = q[j]  BY <4>1, <2>1, <2>3
        <4> QED  BY <4>1, <4>2
      <3>3. CASE BoundFirst(r, h)
        <4>1. PICK j \in 1 .. i - 1 : r[j].req = "bind" /\ r[j].head = h  BY <3>1, <3>3, <2>3 DEF BoundFirst
        <4>2. j \in 1 .. Len(r) /\ Len(q) + j \in 1 .. k - 1 /\ i \in Nat  BY <4>1, <2>1, <2>3
        <4>3. u[Len(q) + j] = r[j]  BY <4>2, <2>1
        <4> QED  BY <4>1, <4>2, <4>3
      <3> QED  BY <3>2, <3>3, <1>2
    <2> QED  BY <2>1, <2>2, <2>3
  <1> QED  BY <1>1, <1>2

\* One message, and a last one.
LEMMA OneMessage ==
  ASSUME NEW S, NEW m \in S
  PROVE  /\ <<m>> \in Seq(S) /\ Len(<<m>>) = 1 /\ <<m>>[1] = m
         /\ \A ev, h : Holds(<<m>>, ev, h) <=> m.ev = ev /\ m.head = h
         /\ \A h : OneGlobal(<<m>>, h)
         /\ ThenDone(<<>>)
         /\ m.ev \notin {"geometry", "logical"} => ThenDone(<<m>>)
         /\ \A ev, h : ~Holds(<<>>, ev, h)
         /\ \A h : OneGlobal(<<>>, h)
  <1>1. <<m>> \in Seq(S) /\ Len(<<m>>) = 1 /\ <<m>>[1] = m /\ 1 .. 1 = {1}  OBVIOUS
  <1>2. Len(<<>>) = 0 /\ 1 .. 0 = {}  OBVIOUS
  <1>3. \A ev, h : Holds(<<m>>, ev, h) <=> m.ev = ev /\ m.head = h  BY <1>1 DEF Holds
  <1>4. \A h : OneGlobal(<<m>>, h)  BY <1>1 DEF OneGlobal
  <1>5. ThenDone(<<>>)  BY <1>2 DEF ThenDone
  <1>6. m.ev \notin {"geometry", "logical"} => ThenDone(<<m>>)  BY <1>1 DEF ThenDone
  <1>7. \A ev, h : ~Holds(<<>>, ev, h)  BY <1>2 DEF Holds
  <1>8. \A h : OneGlobal(<<>>, h)  BY <1>2 DEF OneGlobal
  <1> QED  BY <1>1, <1>3, <1>4, <1>5, <1>6, <1>7, <1>8

\* Events about one monitor that end with a done.
LEMMA EndsDone ==
  ASSUME NEW S, NEW q \in Seq(S), NEW m \in S, m.ev \in {"done", "xdgdone"},
         \A i \in 1 .. Len(q) : q[i].ev \in {"geometry", "logical"} => q[i].head = m.head
  PROVE  ThenDone(q \o <<m>>)
  <1> DEFINE u == q \o <<m>>
  <1>1. u \in Seq(S) /\ Len(q) \in Nat /\ Len(u) = Len(q) + 1 /\ (\A i \in 1 .. Len(q) : u[i] = q[i]) /\ u[Len(u)] = m
    OBVIOUS
  <1> HIDE DEF u
  <1> SUFFICES ASSUME NEW k \in 1 .. Len(u), u[k].ev \in {"geometry", "logical"}
               PROVE  \E j \in k + 1 .. Len(u) : u[j].ev \in {"done", "xdgdone"} /\ u[j].head = u[k].head
    BY DEF ThenDone, u
  <1>2. k # Len(u)  BY <1>1
  <1>3. k \in 1 .. Len(q) /\ Len(u) \in k + 1 .. Len(u)  BY <1>1, <1>2
  <1>4. u[k].head = m.head  BY <1>1, <1>3
  <1> QED  BY <1>1, <1>3, <1>4

\* With no synced under way, whatever comes comes before it.
LEMMA NoSyncBefore ==
  ASSUME NEW q, NEW ev, NEW h, Holds(q, ev, h), \A i \in 1 .. Len(q) : q[i].ev # "synced",
         Len(q) \in Nat
  PROVE  Before(q, ev, h)
  BY DEF Holds, Before

-----------------------------------------------------------------------------
(* One monitor, when the compositor adds r to the events.                  *)

ClientStill == UNCHANGED <<manages, oldDone, wlPhase, manager, outs, outSerial, early, picture>>

\* A record still follows its monitor when the compositor has answered what was
\* asked about it.
LEMMA ServedRecord ==
  ASSUME NEW o, NEW h, h = o.head, UNCHANGED <<manages, wlPhase, early>>, desk'[h] = desk[h],
         \A ev : Holds(wire, ev, h) => Holds(wire', ev, h),
         \A ev : Before(wire, ev, h) => Before(wire', ev, h),
         h \in told.wl => h \in told'.wl, h \in told.xdg => h \in told'.xdg,
         AskIn(asks, "bind", h) /\ Plugged(h)
           => AskIn(asks', "bind", h) \/ (Holds(wire', "geometry", h) /\ h \in told'.wl),
         AskIn(asks, "xdg", h) /\ Plugged(h)
           => AskIn(asks', "xdg", h) \/ (Holds(wire', "logical", h) /\ h \in told'.xdg),
         AskBefore(asks, "bind", h)
           => AskBefore(asks', "bind", h) \/ Before(wire', "geometry", h) \/ Before(wire', "remove", h),
         AskBefore(asks, "xdg", h)
           => AskBefore(asks', "xdg", h) \/ Before(wire', "logical", h) \/ Before(wire', "remove", h),
         Follows(o), InTime(o)
  PROVE  Follows(o)' /\ InTime(o)'
  <1>1. Plugged(h)' = Plugged(h)  BY DEF Plugged
  <1>2. Plugged(h)' \/ Leaving(h)'  BY <1>1 DEF Follows, Leaving
  <1>3. ASSUME Plugged(h)
        PROVE  /\ SizeComes(h) => SizeComes(h)'
               /\ PlaceComes(h) => PlaceComes(h)'
    BY <1>3 DEF SizeComes, PlaceComes
  <1>4. Follows(o)'
    BY <1>1, <1>2, <1>3 DEF Follows
  <1>5. InTime(o)'
    BY DEF InTime
  <1> QED  BY <1>4, <1>5

\* A monitor of the list is still known when the compositor has told of it.
LEMMA ServedHead ==
  ASSUME NEW g, HeadOk(g), wire \in Seq(OutEvents), NEW r \in Seq(OutEvents), wire' = wire \o r,
         UNCHANGED <<outs, early>>, desk'[g] = desk[g], Announced,
         ~Holds(r, "global", g), ~Holds(r, "remove", g),
         \A i \in 1 .. Len(r) : Carries(r[i], g)
            => r[i].at = desk[g].at /\ (r[i].ev = "logical" => r[i].mode = desk[g].mode),
         Holds(r, "geometry", g) => g \in told'.wl, Holds(r, "logical", g) => g \in told'.xdg,
         g \in told.wl => g \in told'.wl, g \in told.xdg => g \in told'.xdg
  PROVE  HeadOk(g)'
  <1>1. Plugged(g)' = Plugged(g) /\ Listed(g)' = Listed(g)  BY DEF Plugged, Listed
  <1>2. \A ev : Holds(wire', ev, g) <=> Holds(wire, ev, g) \/ Holds(r, ev, g)
    BY HoldsJoin
  <1>3. /\ ThenGone(wire, g) => ThenGone(wire', g)
        /\ OneGlobal(wire, g) => OneGlobal(wire', g)
    <2>1. OneGlobal(r, g)  BY DEF OneGlobal, Holds
    <2> QED  BY <2>1, OrdersJoin
  <1>4. LastTrue(wire, g, desk[g]) => LastTrue(wire', g, desk'[g])
    BY LastTrueJoin
  <1>5. Leaving(g)' <=> Leaving(g)  BY <1>2 DEF Leaving
  <1> QED  BY <1>1, <1>2, <1>3, <1>4, <1>5 DEF HeadOk

-----------------------------------------------------------------------------
(* What the compositor does.                                               *)

\* Each message is of its type.
LEMMA OutTypesMessages ==
  ASSUME NEW h \in Heads, NEW at \in 0 .. 1, NEW mode \in 1 .. 2
  PROVE  /\ [ev |-> "geometry", head |-> h, at |-> at, mode |-> mode] \in OutEvents
         /\ [ev |-> "logical", head |-> h, at |-> at, mode |-> mode] \in OutEvents
         /\ [ev |-> "done", head |-> h] \in OutEvents /\ [ev |-> "xdgdone", head |-> h] \in OutEvents
         /\ [ev |-> "global", head |-> h] \in OutEvents /\ [ev |-> "remove", head |-> h] \in OutEvents
         /\ [ev |-> "synced"] \in OutEvents /\ [ev |-> "manager"] \in OutEvents
         /\ [req |-> "bind", head |-> h] \in OutAsks /\ [req |-> "xdg", head |-> h] \in OutAsks
         /\ [req |-> "sync"] \in OutAsks
  BY DEF OutEvents, OutAsks

\* What is not about h does not disturb PictureOk.
LEMMA ServedPicture ==
  ASSUME PictureOk, ClientStill,
         \A k \in DOMAIN outs : ~outs[k].dead /\ ToCome(outs[k].head) => ToCome(outs[k].head)'
  PROVE  PictureOk'
  <1>1. View' = View  BY DEF View, LiveOutputs, LiveAt, ClientStill
  <1>2. UNCHANGED <<wlPhase, outs, outSerial, picture>>  BY DEF ClientStill
  <1> QED  BY <1>1, <1>2 DEF PictureOk

-----------------------------------------------------------------------------
(* A request that is served, the registry's last.                          *)

\* what Serve appends for a bind or an xdg request of h
LEMMA AnswersSent ==
  ASSUME OutInv, NEW h \in Heads, Plugged(h), AnswerBind \/ AnswerXdg, h = Head(asks).head
  PROVE  \E r \in Seq(OutEvents) :
           /\ wire' = wire \o r /\ ThenDone(r)
           /\ \A i \in 1 .. Len(r) : r[i].ev \in {"geometry", "logical", "done", "xdgdone"} /\ r[i].head = h
           /\ \A i \in 1 .. Len(r) : Carries(r[i], h) => r[i].at = desk[h].at /\ r[i].mode = desk[h].mode
           /\ Head(asks).req = "bind" => Holds(r, "geometry", h) /\ Holds(r, "done", h)
           /\ Head(asks).req = "xdg" => Holds(r, "logical", h)
           /\ Holds(r, "geometry", h) => h \in told'.wl
           /\ Holds(r, "logical", h) => h \in told'.xdg
  <1>1. desk[h].at \in 0 .. 1 /\ desk[h].mode \in 1 .. 2  BY DEF OutInv, OutTypes, Monitors
  <1>2. CASE AnswerBind
    <2> DEFINE g == [ev |-> "geometry", head |-> h, at |-> desk[h].at, mode |-> desk[h].mode]
               d == [ev |-> "done", head |-> h]
    <2>1. g \in OutEvents /\ d \in OutEvents  BY <1>1, OutTypesMessages
    <2>2. wire' = wire \o (<<g>> \o <<d>>) /\ h \in told'.wl /\ Head(asks).req = "bind"
      BY <1>2 DEF AnswerBind, Sends, Describes, DoneFor, OutInv, OutTypes
    <2>3. g.ev = "geometry" /\ g.head = h /\ g.at = desk[h].at /\ g.mode = desk[h].mode /\ d.ev = "done" /\ d.head = h
      OBVIOUS
    <2> HIDE DEF g, d
    <2>0. <<g>> \in Seq(OutEvents) /\ \A i \in 1 .. Len(<<g>>) : <<g>>[i].head = h  BY <2>1, <2>3
    <2>4. ThenDone(<<g>> \o <<d>>)  BY EndsDone, <2>0, <2>1, <2>3
    <2>5. /\ <<g>> \o <<d>> \in Seq(OutEvents) /\ Len(<<g>> \o <<d>>) = 2
          /\ (<<g>> \o <<d>>)[1] = g /\ (<<g>> \o <<d>>)[2] = d /\ 1 .. 2 = {1, 2}
      BY <2>1
    <2> DEFINE r == <<g>> \o <<d>>
    <2> HIDE DEF r
    <2>6. /\ r \in Seq(OutEvents) /\ Len(r) = 2 /\ r[1] = g /\ r[2] = d /\ 1 .. 2 = {1, 2}
          /\ ThenDone(r) /\ wire' = wire \o r
      BY <2>4, <2>5, <2>2 DEF r
    <2>7. Holds(r, "geometry", h) /\ Holds(r, "done", h) /\ ~Holds(r, "logical", h)
      BY <2>6, <2>3 DEF Holds
    <2> QED  BY <2>6, <2>7, <2>2, <2>3 DEF Carries
  <1>3. CASE AnswerXdg
    <2> DEFINE g == [ev |-> "logical", head |-> h, at |-> desk[h].at, mode |-> desk[h].mode]
               d == [ev |-> IF oldDone THEN "xdgdone" ELSE "done", head |-> h]
    <2>1. g \in OutEvents /\ d \in OutEvents
      <3>1. g \in OutEvents  BY <1>1, OutTypesMessages
      <3>2. CASE oldDone  BY <3>2, OutTypesMessages, <1>1
      <3>3. CASE ~oldDone  BY <3>3, OutTypesMessages, <1>1
      <3> QED  BY <3>1, <3>2, <3>3
    <2>2. wire' = wire \o (<<g>> \o <<d>>) /\ h \in told'.xdg /\ Head(asks).req = "xdg"
      BY <1>3 DEF AnswerXdg, Sends, DescribesLogical, XdgDoneFor, OutInv, OutTypes
    <2>3. g.ev = "logical" /\ g.head = h /\ g.at = desk[h].at /\ g.mode = desk[h].mode /\ d.ev \in {"done", "xdgdone"}
          /\ d.head = h
      OBVIOUS
    <2> HIDE DEF g, d
    <2>0. <<g>> \in Seq(OutEvents) /\ \A i \in 1 .. Len(<<g>>) : <<g>>[i].head = h  BY <2>1, <2>3
    <2>4. ThenDone(<<g>> \o <<d>>)  BY EndsDone, <2>0, <2>1, <2>3
    <2>5. /\ <<g>> \o <<d>> \in Seq(OutEvents) /\ Len(<<g>> \o <<d>>) = 2
          /\ (<<g>> \o <<d>>)[1] = g /\ (<<g>> \o <<d>>)[2] = d /\ 1 .. 2 = {1, 2}
      BY <2>1
    <2> DEFINE r == <<g>> \o <<d>>
    <2> HIDE DEF r
    <2>6. /\ r \in Seq(OutEvents) /\ Len(r) = 2 /\ r[1] = g /\ r[2] = d /\ 1 .. 2 = {1, 2}
          /\ ThenDone(r) /\ wire' = wire \o r
      BY <2>4, <2>5, <2>2 DEF r
    <2>7. ~Holds(r, "geometry", h) /\ Holds(r, "logical", h)
      BY <2>6, <2>3 DEF Holds
    <2> QED  BY <2>6, <2>7, <2>2, <2>3 DEF Carries
  <1> QED  BY <1>2, <1>3

\* A bind or a request for a size is served.
LEMMA Answered ==
  ASSUME OutInv, Serve, AnswerBind \/ AnswerXdg
  PROVE  OutInv'
  <1> DEFINE h == Head(asks).head
             bind == Head(asks).req = "bind"
  <1>1. /\ asks # <<>> /\ asks' = Tail(asks) /\ asks \in Seq(OutAsks) /\ wire \in Seq(OutEvents)
        /\ ClientStill /\ UNCHANGED <<desk, moves>> /\ told \in [wl : SUBSET Heads, xdg : SUBSET Heads]
    BY DEF OutInv, OutTypes, Serve, ClientStill
  <1>2. Head(asks) \in OutAsks /\ Head(asks).req \in {"bind", "xdg"}
    BY <1>1, TailPlaces DEF AnswerBind, AnswerXdg
  <1>3. h \in Heads /\ (bind \/ Head(asks).req = "xdg") /\ (bind => AnswerBind) /\ (~bind => AnswerXdg)
    BY <1>2 DEF OutAsks, AnswerBind, AnswerXdg
  <1>4. Announced
    <2>1. ASSUME ~Announced PROVE FALSE
      BY <2>1, <1>2 DEF OutInv, BeginOk
    <2> QED  BY <2>1
  <1>5. \E r \in Seq(OutEvents) :
          /\ wire' = wire \o r /\ ThenDone(r)
          /\ \A i \in 1 .. Len(r) : r[i].ev \in {"geometry", "logical", "done", "xdgdone"} /\ r[i].head = h
          /\ \A i \in 1 .. Len(r) : Carries(r[i], h) => r[i].at = desk[h].at /\ r[i].mode = desk[h].mode
          /\ Plugged(h) /\ bind => Holds(r, "geometry", h) /\ Holds(r, "done", h) /\ h \in told'.wl
          /\ Plugged(h) /\ ~bind => Holds(r, "logical", h) /\ h \in told'.xdg
          /\ Holds(r, "geometry", h) => h \in told'.wl
          /\ Holds(r, "logical", h) => h \in told'.xdg
    <2>1. CASE Plugged(h)
      <3>1. PICK r \in Seq(OutEvents) :
           /\ wire' = wire \o r /\ ThenDone(r)
           /\ \A i \in 1 .. Len(r) : r[i].ev \in {"geometry", "logical", "done", "xdgdone"} /\ r[i].head = h
           /\ \A i \in 1 .. Len(r) : Carries(r[i], h) => r[i].at = desk[h].at /\ r[i].mode = desk[h].mode
           /\ Head(asks).req = "bind" => Holds(r, "geometry", h) /\ Holds(r, "done", h)
           /\ Head(asks).req = "xdg" => Holds(r, "logical", h)
           /\ Holds(r, "geometry", h) => h \in told'.wl
           /\ Holds(r, "logical", h) => h \in told'.xdg
        BY <1>3, <2>1, AnswersSent
      <3> QED  BY <3>1, <1>3
    <2>2. CASE ~Plugged(h)
      <3>1. wire' = wire  BY <2>2 DEF AnswerBind, AnswerXdg
      <3>2. wire \o <<>> = wire /\ <<>> \in Seq(OutEvents) /\ Len(<<>>) = 0 /\ 1 .. 0 = {}  BY <1>1
      <3>3. ThenDone(<<>>) /\ ~Holds(<<>>, "geometry", h) /\ ~Holds(<<>>, "logical", h)
        BY <3>2 DEF ThenDone, Holds
      <3> QED  BY <3>1, <3>2, <3>3, <2>2
    <2> QED  BY <2>1, <2>2
  <1>6. PICK r \in Seq(OutEvents) :
          /\ wire' = wire \o r /\ ThenDone(r)
          /\ \A i \in 1 .. Len(r) : r[i].ev \in {"geometry", "logical", "done", "xdgdone"} /\ r[i].head = h
          /\ \A i \in 1 .. Len(r) : Carries(r[i], h) => r[i].at = desk[h].at /\ r[i].mode = desk[h].mode
          /\ Plugged(h) /\ bind => Holds(r, "geometry", h) /\ Holds(r, "done", h) /\ h \in told'.wl
          /\ Plugged(h) /\ ~bind => Holds(r, "logical", h) /\ h \in told'.xdg
          /\ Holds(r, "geometry", h) => h \in told'.wl
          /\ Holds(r, "logical", h) => h \in told'.xdg
    BY <1>5
  <1>7. /\ told' \in [wl : SUBSET Heads, xdg : SUBSET Heads]
        /\ told.wl \subseteq told'.wl /\ told.xdg \subseteq told'.xdg
        /\ told'.wl \subseteq told.wl \cup {h} /\ told'.xdg \subseteq told.xdg \cup {h}
        /\ ~Plugged(h) => told' = told
        /\ ~bind => told'.wl = told.wl
        /\ bind => told'.xdg = told.xdg
    BY <1>1, <1>3 DEF AnswerBind, AnswerXdg
  <1>8. \A ev, g : Holds(wire', ev, g) <=> Holds(wire, ev, g) \/ Holds(r, ev, g)
    BY <1>1, <1>6, HoldsJoin
  <1>9. \A ev, g : Before(wire, ev, g) => Before(wire', ev, g)
    BY <1>1, <1>6, HoldsJoin
  <1>10. \A ev, g : Holds(r, ev, g) => g = h /\ ev \in {"geometry", "logical", "done", "xdgdone"}
    BY <1>6 DEF Holds
  <1>11. \A req, g : /\ AskIn(asks', req, g) => AskIn(asks, req, g)
                     /\ AskIn(asks, req, g) => AskIn(asks', req, g) \/ (Head(asks).req = req /\ g = h)
                     /\ AskBefore(asks, req, g) =>
                          \/ AskBefore(asks', req, g)
                          \/ Head(asks).req = req /\ g = h /\ \E j \in 1 .. Len(asks) : j > 1 /\ asks[j].req = "sync"
    BY <1>1, AskTail
  <1> HIDE DEF h, bind
  <1>12. Len(wire') = Len(wire) + Len(r) /\ Len(wire) \in Nat /\ Len(r) \in Nat
         /\ wire' \in Seq(OutEvents)
         /\ (\A i \in 1 .. Len(wire) : wire'[i] = wire[i])
         /\ (\A k \in 1 .. Len(wire') : \/ k \in 1 .. Len(wire)
                                        \/ wire'[k].ev \in {"geometry", "logical", "done", "xdgdone"})
    <2>1. /\ wire \o r \in Seq(OutEvents) /\ Len(wire) \in Nat /\ Len(r) \in Nat
          /\ Len(wire \o r) = Len(wire) + Len(r)
          /\ \A i \in 1 .. Len(wire) : (wire \o r)[i] = wire[i]
          /\ \A i \in 1 .. Len(r) : (wire \o r)[Len(wire) + i] = r[i]
          /\ \A k \in 1 .. Len(wire \o r) : k \in 1 .. Len(wire) \/ \E i \in 1 .. Len(r) : k = Len(wire) + i
      <3>1. wire \in Seq(OutEvents)  BY <1>1
      <3> QED  BY ONLY <3>1, JoinPlaces
    <2> QED  BY <2>1, <1>6
  <1>13. /\ asks' \in Seq(OutAsks) /\ Len(asks) \in Nat \ {0} /\ Len(asks') = Len(asks) - 1
         /\ \A i \in 1 .. Len(asks') : i + 1 \in 1 .. Len(asks) /\ asks'[i] = asks[i + 1]
    BY <1>1, TailPlaces
  <1>14. OutTypes'
    BY <1>1, <1>7, <1>12, <1>13 DEF OutInv, OutTypes, ClientStill
  <1>15. SyncOk'
    <2>1. \A i, j \in 1 .. Len(asks') : asks'[i].req = "sync" /\ asks'[j].req = "sync" => i = j
      <3> SUFFICES ASSUME NEW i \in 1 .. Len(asks'), NEW j \in 1 .. Len(asks'), asks'[i].req = "sync",
                          asks'[j].req = "sync"
                   PROVE  i = j
        OBVIOUS
      <3>1. i + 1 = j + 1  BY <1>13 DEF OutInv, SyncOk
      <3> QED  BY <3>1
    <2>2. \A i, j \in 1 .. Len(wire') : wire'[i].ev = "synced" /\ wire'[j].ev = "synced" => i = j
      BY <1>12 DEF OutInv, SyncOk
    <2>3. ASSUME NEW i \in 1 .. Len(asks'), asks'[i].req = "sync"
          PROVE  \A k \in 1 .. Len(wire') : wire'[k].ev # "synced"
      <3>1. \A k \in 1 .. Len(wire) : wire[k].ev # "synced"  BY <2>3, <1>13 DEF OutInv, SyncOk
      <3> QED  BY <3>1, <1>12
    <2> QED  BY <2>1, <2>2, <2>3 DEF SyncOk
  <1>16. BeginOk'
    BY <1>4, <1>13 DEF BeginOk, Announced
  <1>17. ManagerOk'
    <2>1. UNCHANGED <<manages, manager, wlPhase>>  BY <1>1 DEF ClientStill
    <2>2. ~manages => \A i \in 1 .. Len(wire') : wire'[i].ev # "manager"
      BY <1>12 DEF OutInv, ManagerOk
    <2>3. ASSUME NEW i \in 1 .. Len(wire), wire[i].ev = "manager", \A j \in 1 .. i : wire[j].ev # "synced"
          PROVE  \E k \in 1 .. Len(wire') : wire'[k].ev = "manager" /\ \A j \in 1 .. k : wire'[j].ev # "synced"
      <3>1. i \in 1 .. Len(wire') /\ \A j \in 1 .. i : j \in 1 .. Len(wire)  BY <1>12
      <3> QED  BY <3>1, <2>3, <1>12
    <2> QED  BY <2>1, <2>2, <2>3, <1>4 DEF OutInv, ManagerOk
  <1>18. ThenDone(wire')
    BY <1>1, <1>6, OrdersJoin DEF OutInv
  <1>19. ASSUME NEW g \in Heads PROVE HeadOk(g)' /\ AskedOk(g)'
    <2>1. HeadOk(g)'
      <3>1. \A i \in 1 .. Len(r) : Carries(r[i], g)
              => r[i].at = desk[g].at /\ (r[i].ev = "logical" => r[i].mode = desk[g].mode)
        BY <1>6 DEF Carries
      <3>2. /\ ~Holds(r, "global", g) /\ ~Holds(r, "remove", g)
            /\ Holds(r, "geometry", g) => g \in told'.wl
            /\ Holds(r, "logical", g) => g \in told'.xdg
        BY <1>10, <1>6
      <3>3. HeadOk(g) /\ desk'[g] = desk[g] /\ UNCHANGED <<outs, early>>
        BY <1>1 DEF OutInv, ClientStill
      <3> QED  BY <3>1, <3>2, <3>3, <1>1, <1>4, <1>6, <1>7, ServedHead
    <2>2. AskedOk(g)'
      <3>1. AskedOk(g) /\ (Plugged(g)' <=> Plugged(g)) /\ (Listed(g)' <=> Listed(g))
        BY <1>1 DEF OutInv, Plugged, Listed, ClientStill
      <3>2. AskIn(asks, "bind", h) \/ AskIn(asks, "xdg", h)
        <4>1. 1 \in 1 .. Len(asks) /\ asks[1] = Head(asks)  BY <1>1, <1>13
        <4> QED  BY <4>1, <1>3 DEF AskIn, h, bind
      <3>3. /\ g \in told'.wl \/ g \in told'.xdg \/ AskIn(asks', "bind", g) \/ AskIn(asks', "xdg", g) => Listed(g)
            /\ Holds(wire', "geometry", g) \/ Holds(wire', "logical", g) => Listed(g)
        BY <3>1, <3>2, <1>7, <1>8, <1>10, <1>11 DEF AskedOk
      <3>4. CASE bind /\ g = h
        BY <3>4, <3>1, <3>3, <1>6, <1>7 DEF AskedOk
      <3>5. CASE ~(bind /\ g = h)
        <4>1. BoundFirst(asks, g) => BoundFirst(asks', g) /\ ~(Head(asks).req = "xdg" /\ Head(asks).head = g)
          BY <3>5, <1>1, BoundFirstStays DEF h, bind
        <4>2. Plugged(g) /\ g \in told'.xdg => g \in told'.wl
          BY <4>1, <3>1, <3>5, <1>3, <1>7 DEF AskedOk, h
        <4> QED  BY <4>1, <4>2, <3>1, <3>3, <1>7 DEF AskedOk
      <3> QED  BY <3>4, <3>5
    <2> QED  BY <2>1, <2>2
  <1>20. RecordsOk'
    <2>1. outs' = outs /\ UNCHANGED <<manages, wlPhase, early>>  BY <1>1 DEF ClientStill
    <2> SUFFICES ASSUME NEW k \in DOMAIN outs, ~outs[k].dead
                 PROVE  Follows(outs[k])' /\ InTime(outs[k])'
      BY <2>1 DEF RecordsOk
    <2>2. PICK o : o = outs[k]  OBVIOUS
    <2>3. Follows(o) /\ InTime(o)  BY <2>2 DEF OutInv, RecordsOk
    <2>4. PICK g : g = o.head  OBVIOUS
    <2>5. /\ AskIn(asks, "bind", g) /\ Plugged(g)
               => AskIn(asks', "bind", g) \/ (Holds(wire', "geometry", g) /\ g \in told'.wl)
          /\ AskIn(asks, "xdg", g) /\ Plugged(g)
               => AskIn(asks', "xdg", g) \/ (Holds(wire', "logical", g) /\ g \in told'.xdg)
      BY <1>11, <1>6, <1>8, <1>3 DEF bind
    <2>6. ASSUME g = h, NEW j \in 1 .. Len(asks), asks[j].req = "sync"
          PROVE  IF bind THEN Before(wire', "geometry", g) \/ Before(wire', "remove", g)
                         ELSE Before(wire', "logical", g) \/ Before(wire', "remove", g)
      <3>1. \A i \in 1 .. Len(wire) : wire[i].ev # "synced"  BY <2>6 DEF OutInv, SyncOk
      <3>2. (\A i \in 1 .. Len(wire') : wire'[i].ev # "synced") /\ Len(wire') \in Nat  BY <3>1, <1>12
      <3>3. CASE Plugged(g)
        <4>1. IF bind THEN Holds(wire', "geometry", g) ELSE Holds(wire', "logical", g)
          BY <3>3, <2>6, <1>6, <1>8
        <4> QED  BY <4>1, <3>2, NoSyncBefore
      <3>4. CASE ~Plugged(g)
        <4>1. Holds(wire', "remove", g)  BY <3>4, <2>3, <2>4, <1>8 DEF Follows, Leaving
        <4> QED  BY <4>1, <3>2, NoSyncBefore
      <3> QED  BY <3>3, <3>4
    <2>7. /\ AskBefore(asks, "bind", g)
               => AskBefore(asks', "bind", g) \/ Before(wire', "geometry", g) \/ Before(wire', "remove", g)
          /\ AskBefore(asks, "xdg", g)
               => AskBefore(asks', "xdg", g) \/ Before(wire', "logical", g) \/ Before(wire', "remove", g)
      BY <2>6, <1>11, <1>3 DEF bind
    <2>8. Follows(o)' /\ InTime(o)'
      BY <2>1, <2>3, <2>4, <2>5, <2>7, <1>1, <1>7, <1>8, <1>9, ServedRecord
    <2> QED  BY <2>8, <2>2, <2>1
  <1>21. PictureOk'
    <2>1. ASSUME NEW k \in DOMAIN outs, ToCome(outs[k].head) PROVE ToCome(outs[k].head)'
      <3>1. PICK g : g = outs[k].head  OBVIOUS
      <3>2. ToCome(g)'
        BY <2>1, <3>1, <1>1, <1>6, <1>8, <1>11 DEF ToCome, Plugged, Leaving, bind
      <3>3. outs' = outs  BY <1>1 DEF ClientStill
      <3> QED  BY <3>1, <3>2, <3>3
    <2> QED  BY <2>1, <1>1, ServedPicture DEF OutInv
  <1> QED  BY <1>14, <1>15, <1>16, <1>17, <1>18, <1>19, <1>20, <1>21 DEF OutInv

\* An order of a finite set has each of its elements once.
LEMMA OrderHasAll ==
  ASSUME NEW S, IsFiniteSet(S), NEW f \in SetToSeqs(S)
  PROVE  /\ f \in Seq(S) /\ Len(f) = Cardinality(S) /\ Len(f) \in Nat
         /\ \A i, j \in 1 .. Len(f) : f[i] = f[j] => i = j
         /\ \A x \in S : \E i \in 1 .. Len(f) : f[i] = x
  <1> DEFINE n == Cardinality(S)
  <1>1. n \in Nat  BY FS_CardinalityType
  <1>2. f \in [1 .. n -> S] /\ \A i, j \in 1 .. n : i # j => f[i] # f[j]  BY DEF SetToSeqs
  <1>3. IsFiniteSet(1 .. n) /\ Cardinality(1 .. n) = n
    BY <1>1, FS_Interval
  <1> HIDE DEF n
  <1>4. f \in Injection(1 .. n, S)  BY <1>2 DEF Injection, IsInjective
  <1>5. f \in Surjection(1 .. n, S)
    <2>1. Cardinality(1 .. n) = Cardinality(S)  BY <1>3 DEF n
    <2> QED  BY <2>1, <1>4, FS_Injection
  <1>6. \A x \in S : \E i \in 1 .. n : f[i] = x  BY <1>5 DEF Surjection
  <1>7. f \in Seq(S) /\ Len(f) = n  BY <1>1, <1>2
  <1> QED  BY <1>1, <1>2, <1>6, <1>7 DEF n

\* The kinds of the events of two queues, one after the other.
LEMMA KindsJoin ==
  ASSUME NEW S, NEW q \in Seq(S), NEW r \in Seq(S), NEW T
  PROVE  (\A k \in 1 .. Len(q \o r) : (q \o r)[k].ev \in T)
           <=> (\A k \in 1 .. Len(q) : q[k].ev \in T) /\ (\A k \in 1 .. Len(r) : r[k].ev \in T)
  <1> DEFINE u == q \o r
  <1>1. /\ u \in Seq(S) /\ Len(q) \in Nat /\ Len(r) \in Nat /\ Len(u) = Len(q) + Len(r)
        /\ \A i \in 1 .. Len(q) : u[i] = q[i]
        /\ \A i \in 1 .. Len(r) : u[Len(q) + i] = r[i]
        /\ \A k \in 1 .. Len(u) : k \in 1 .. Len(q) \/ \E i \in 1 .. Len(r) : k = Len(q) + i
    BY JoinPlaces
  <1> HIDE DEF u
  <1>2. /\ \A i \in 1 .. Len(q) : i \in 1 .. Len(u)
        /\ \A i \in 1 .. Len(r) : Len(q) + i \in 1 .. Len(u)
    BY <1>1
  <1>3. (\A k \in 1 .. Len(u) : u[k].ev \in T)
          <=> (\A k \in 1 .. Len(q) : q[k].ev \in T) /\ (\A k \in 1 .. Len(r) : r[k].ev \in T)
    BY <1>1, <1>2
  <1> QED  BY <1>3 DEF u

\* What the compositor adds to the events, by place.
LEMMA WireJoin ==
  ASSUME wire \in Seq(OutEvents), NEW r \in Seq(OutEvents), wire' = wire \o r
  PROVE  /\ Len(wire') = Len(wire) + Len(r) /\ Len(wire) \in Nat /\ Len(r) \in Nat
         /\ wire' \in Seq(OutEvents)
         /\ \A i \in 1 .. Len(wire) : wire'[i] = wire[i] /\ i \in 1 .. Len(wire')
         /\ \A i \in 1 .. Len(r) : wire'[Len(wire) + i] = r[i]
         /\ \A k \in 1 .. Len(wire') : k \in 1 .. Len(wire) \/ \E i \in 1 .. Len(r) : k = Len(wire) + i
  <1>1. /\ wire \o r \in Seq(OutEvents) /\ Len(wire) \in Nat /\ Len(r) \in Nat
        /\ Len(wire \o r) = Len(wire) + Len(r)
        /\ \A i \in 1 .. Len(wire) : (wire \o r)[i] = wire[i]
        /\ \A i \in 1 .. Len(r) : (wire \o r)[Len(wire) + i] = r[i]
        /\ \A k \in 1 .. Len(wire \o r) : k \in 1 .. Len(wire) \/ \E i \in 1 .. Len(r) : k = Len(wire) + i
    BY JoinPlaces
  <1> QED  BY <1>1

\* the manager, before any "synced"
ManagerComes(q) == \E i \in 1 .. Len(q) : q[i].ev = "manager" /\ \A j \in 1 .. i : q[j].ev # "synced"

\* The manager stays on its way when other events follow.
LEMMA ManagerJoin ==
  ASSUME wire \in Seq(OutEvents), NEW r \in Seq(OutEvents), wire' = wire \o r,
         UNCHANGED <<manages, manager, wlPhase>>, Announced, ManagerOk,
         \A i \in 1 .. Len(r) : r[i].ev # "manager"
  PROVE  ManagerOk'
  <1>1. /\ \A i \in 1 .. Len(wire) : wire'[i] = wire[i] /\ i \in 1 .. Len(wire')
        /\ \A k \in 1 .. Len(wire') : k \in 1 .. Len(wire) \/ \E i \in 1 .. Len(r) : k = Len(wire) + i
        /\ \A i \in 1 .. Len(r) : wire'[Len(wire) + i] = r[i] /\ Len(wire) \in Nat
    BY WireJoin
  <1>2. ~manages => \A i \in 1 .. Len(wire') : wire'[i].ev # "manager"
    BY <1>1 DEF ManagerOk
  <1>3. ASSUME NEW i \in 1 .. Len(wire), wire[i].ev = "manager", \A j \in 1 .. i : wire[j].ev # "synced"
        PROVE  \E k \in 1 .. Len(wire') : wire'[k].ev = "manager" /\ \A j \in 1 .. k : wire'[j].ev # "synced"
    <2>1. i \in 1 .. Len(wire') /\ \A j \in 1 .. i : j \in 1 .. Len(wire)  BY <1>1
    <2> QED  BY <2>1, <1>3, <1>1
  <1> QED  BY <1>2, <1>3 DEF ManagerOk

-----------------------------------------------------------------------------
(* An arrangement that changes: what does not depend on how.               *)

\* What is said of the roundtrips and of the manager.
LEMMA MovedRest ==
  ASSUME OutInv, Announced, ServerMoves, desk' \in [Heads -> Monitors],
         told' \in [wl : SUBSET Heads, xdg : SUBSET Heads],
         NEW r \in Seq(OutEvents), wire' = wire \o r, ThenDone(r),
         \A i \in 1 .. Len(r) : r[i].ev \notin {"synced", "manager"}
  PROVE  OutTypes' /\ SyncOk' /\ BeginOk' /\ ManagerOk' /\ ThenDone(wire')
  <1>1. wire \in Seq(OutEvents) /\ ClientStill /\ UNCHANGED <<asks, wlPhase, manager, manages>>
    BY DEF OutInv, OutTypes, ServerMoves, ClientStill
  <1>2. /\ wire' \in Seq(OutEvents) /\ Len(wire) \in Nat
        /\ \A i \in 1 .. Len(wire) : wire'[i] = wire[i]
        /\ \A i \in 1 .. Len(r) : wire'[Len(wire) + i] = r[i]
        /\ \A k \in 1 .. Len(wire') : k \in 1 .. Len(wire) \/ \E i \in 1 .. Len(r) : k = Len(wire) + i
    BY <1>1, WireJoin
  <1>3. OutTypes'  BY <1>1, <1>2 DEF OutInv, OutTypes, ClientStill
  <1>4. \A k \in 1 .. Len(wire') : wire'[k].ev = "synced" => k \in 1 .. Len(wire) /\ wire[k].ev = "synced"
    BY <1>2
  <1>5. SyncOk'  BY <1>1, <1>4 DEF OutInv, SyncOk
  <1>6. BeginOk'  BY <1>1 DEF BeginOk, Announced
  <1>7. ManagerOk'
    <2>1. ManagerOk /\ \A i \in 1 .. Len(r) : r[i].ev # "manager"  BY DEF OutInv
    <2> QED  BY <2>1, <1>1, ManagerJoin
  <1>8. ThenDone(wire')  BY <1>1, OrdersJoin DEF OutInv
  <1> QED  BY <1>3, <1>5, <1>6, <1>7, <1>8

\* A sync is answered: what was asked before it is under way before it.
LEMMA SyncAnswered ==
  ASSUME OutInv, Serve, AnswerSync
  PROVE  OutInv'
  <1> DEFINE m == [ev |-> "synced"]
  <1>1. /\ asks # <<>> /\ asks' = Tail(asks) /\ asks \in Seq(OutAsks) /\ wire \in Seq(OutEvents)
        /\ ClientStill /\ UNCHANGED <<desk, told>> /\ Head(asks).req = "sync"
    BY DEF OutInv, OutTypes, Serve, ClientStill, AnswerSync
  <1>2. m \in OutEvents /\ wire' = wire \o <<m>> /\ m.ev = "synced"
    BY DEF OutEvents, AnswerSync, Sends
  <1> HIDE DEF m
  <1>3. Announced
    <2>1. ASSUME ~Announced PROVE FALSE
      BY <2>1, <1>1 DEF OutInv, BeginOk
    <2> QED  BY <2>1
  <1>4. /\ asks' \in Seq(OutAsks) /\ Len(asks) \in Nat \ {0} /\ Len(asks') = Len(asks) - 1
        /\ \A i \in 1 .. Len(asks') : i + 1 \in 1 .. Len(asks) /\ asks'[i] = asks[i + 1]
        /\ 1 \in 1 .. Len(asks) /\ asks[1] = Head(asks)
    BY <1>1, TailPlaces
  <1>5. /\ wire' \in Seq(OutEvents) /\ Len(wire) \in Nat /\ Len(wire') = Len(wire) + 1
        /\ \A i \in 1 .. Len(wire) : wire'[i] = wire[i]
        /\ \A k \in 1 .. Len(wire') : k \in 1 .. Len(wire) \/ k = Len(wire) + 1
    BY <1>1, <1>2
  <1>6. /\ <<m>> \in Seq(OutEvents) /\ Len(<<m>>) = 1 /\ <<m>>[1] = m
        /\ (\A ev, h : Holds(<<m>>, ev, h) <=> m.ev = ev /\ m.head = h) /\ ThenDone(<<m>>)
    BY <1>2, OneMessage
  <1>7. OutTypes'  BY <1>1, <1>4, <1>5 DEF OutInv, OutTypes, ClientStill
  <1>8. SyncOk'
    <2>1. ASSUME NEW i \in 1 .. Len(asks') PROVE asks'[i].req # "sync"
      <3>1. i + 1 # 1 /\ i + 1 \in 1 .. Len(asks)  BY <1>4
      <3> QED  BY <3>1, <1>1, <1>4 DEF OutInv, SyncOk
    <2>2. \A i \in 1 .. Len(wire) : wire[i].ev # "synced"
      BY <1>1, <1>4 DEF OutInv, SyncOk
    <2>3. \A i, j \in 1 .. Len(wire') : wire'[i].ev = "synced" /\ wire'[j].ev = "synced" => i = j
      BY <2>2, <1>5
    <2> QED  BY <2>1, <2>3 DEF SyncOk
  <1>9. BeginOk'  BY <1>3, <1>4 DEF BeginOk, Announced
  <1>10. ManagerOk'
    <2>1. \A i \in 1 .. Len(<<m>>) : <<m>>[i].ev # "manager"  BY <1>6, <1>2
    <2>2. ManagerOk /\ UNCHANGED <<manages, manager, wlPhase>>  BY <1>1 DEF OutInv, ClientStill
    <2> QED  BY <2>1, <2>2, <1>1, <1>2, <1>3, <1>6, ManagerJoin
  <1>11. ThenDone(wire')  BY <1>1, <1>2, <1>6, OrdersJoin DEF OutInv
  <1>12. /\ \A ev, g : Holds(wire, ev, g) => Holds(wire', ev, g)
         /\ \A ev, g : ev # "synced" /\ Holds(wire', ev, g) => Holds(wire, ev, g)
    BY <1>1, <1>2, <1>6, HoldsJoin
  <1>13. \A ev, g : Before(wire, ev, g) => Before(wire', ev, g)
    BY <1>1, <1>2, <1>6, HoldsJoin
  <1>14. \A g : /\ AskIn(asks', "bind", g) <=> AskIn(asks, "bind", g)
                /\ AskIn(asks', "xdg", g) <=> AskIn(asks, "xdg", g)
    BY <1>1, AskTail
  <1>15. \A g : /\ AskBefore(asks, "bind", g) => AskBefore(asks', "bind", g)
                /\ AskBefore(asks, "xdg", g) => AskBefore(asks', "xdg", g)
    BY <1>1, AskTail
  <1>16. ASSUME NEW g \in Heads PROVE HeadOk(g)' /\ AskedOk(g)'
    <2>1. /\ ~Holds(<<m>>, "global", g) /\ ~Holds(<<m>>, "remove", g)
          /\ ~Holds(<<m>>, "geometry", g) /\ ~Holds(<<m>>, "logical", g)
      BY <1>2, <1>6
    <2>2. \A i \in 1 .. Len(<<m>>) : ~Carries(<<m>>[i], g)
      BY <1>2, <1>6 DEF Carries
    <2>3. HeadOk(g) /\ desk'[g] = desk[g] /\ UNCHANGED <<outs, early, told>>  BY <1>1 DEF OutInv, ClientStill
    <2>4. HeadOk(g)'
      BY <2>1, <2>2, <2>3, <1>1, <1>2, <1>3, <1>6, ServedHead
    <2>5. BoundFirst(asks, g) => BoundFirst(asks', g)
      BY <1>1, BoundFirstStays
    <2>6. AskedOk(g) /\ (Plugged(g)' <=> Plugged(g)) /\ (Listed(g)' <=> Listed(g))
      BY <1>1 DEF OutInv, Plugged, Listed, ClientStill
    <2>7. AskedOk(g)'
      BY <2>3, <2>5, <2>6, <1>12, <1>14 DEF AskedOk
    <2> QED  BY <2>4, <2>7
  <1>17. RecordsOk'
    <2>1. outs' = outs /\ UNCHANGED <<manages, wlPhase, early>>  BY <1>1 DEF ClientStill
    <2> SUFFICES ASSUME NEW k \in DOMAIN outs, ~outs[k].dead
                 PROVE  Follows(outs[k])' /\ InTime(outs[k])'
      BY <2>1 DEF RecordsOk
    <2>2. PICK o : o = outs[k]  OBVIOUS
    <2>3. Follows(o) /\ InTime(o)  BY <2>2 DEF OutInv, RecordsOk
    <2>8. Follows(o)' /\ InTime(o)'
      BY <2>1, <2>3, <1>1, <1>12, <1>13, <1>14, <1>15, ServedRecord
    <2> QED  BY <2>8, <2>2, <2>1
  <1>18. PictureOk'
    <2>1. ASSUME NEW k \in DOMAIN outs, ToCome(outs[k].head) PROVE ToCome(outs[k].head)'
      <3>1. PICK g : g = outs[k].head  OBVIOUS
      <3>2. ToCome(g)'
        BY <2>1, <3>1, <1>1, <1>12, <1>14 DEF ToCome, Plugged, Leaving
      <3>3. outs' = outs  BY <1>1 DEF ClientStill
      <3> QED  BY <3>1, <3>2, <3>3
    <2> QED  BY <2>1, <1>1, ServedPicture DEF OutInv
  <1> QED  BY <1>7, <1>8, <1>9, <1>10, <1>11, <1>16, <1>17, <1>18 DEF OutInv

\* The registry is served: every monitor there is, in any order.
LEMMA Advertised ==
  ASSUME OutInv, IsFiniteSet(Heads), Serve, Advertise
  PROVE  OutInv'
  <1>1. /\ asks # <<>> /\ asks' = Tail(asks) /\ asks \in Seq(OutAsks) /\ wire \in Seq(OutEvents)
        /\ ClientStill /\ UNCHANGED <<desk, told>> /\ Head(asks).req = "registry"
    BY DEF OutInv, OutTypes, Serve, ClientStill, Advertise
  <1>2. ~Announced
    <2>1. 1 \in DOMAIN asks /\ asks[1] = Head(asks)  BY <1>1
    <2> QED  BY <2>1, <1>1 DEF Announced
  <1>3. /\ asks = <<[req |-> "registry"], [req |-> "sync"]>> /\ wire = <<>> /\ outs = <<>> /\ ~manager
        /\ wlPhase = "first" /\ early = {} /\ told = [wl |-> {}, xdg |-> {}]
    BY <1>2 DEF OutInv, BeginOk
  <1>4. asks' = <<[req |-> "sync"]>>
    BY <1>1, <1>3
  <1>5. asks' \in Seq(OutAsks) /\ Len(asks') = 1 /\ asks'[1] = [req |-> "sync"] /\ DOMAIN asks' = 1 .. 1
    BY <1>4 DEF OutAsks
  <1> DEFINE On == {h \in Heads : Plugged(h)}
             m  == IF manages THEN <<[ev |-> "manager"]>> ELSE <<>>
  <1>6. PICK order \in SetToSeqs(On), managerFirst \in BOOLEAN :
          wire' = wire \o (IF managerFirst
                  THEN m \o [i \in DOMAIN order |-> [ev |-> "global", head |-> order[i]]]
                  ELSE [i \in DOMAIN order |-> [ev |-> "global", head |-> order[i]]] \o m)
    BY <1>1 DEF Advertise, Sends
  <1>7. IsFiniteSet(On)  BY FS_Subset
  <1> HIDE DEF On
  <1>8. /\ order \in Seq(On) /\ Len(order) \in Nat /\ DOMAIN order = 1 .. Len(order)
        /\ \A i, j \in 1 .. Len(order) : order[i] = order[j] => i = j
        /\ \A x \in On : \E i \in 1 .. Len(order) : order[i] = x
    BY <1>7, OrderHasAll
  <1>9. \A h : h \in On <=> h \in Heads /\ Plugged(h)  BY DEF On
  <1> DEFINE os == [i \in DOMAIN order |-> [ev |-> "global", head |-> order[i]]]
  <1>10. /\ os \in Seq(OutEvents) /\ Len(os) = Len(order)
         /\ \A i \in 1 .. Len(os) : os[i].ev = "global" /\ os[i].head = order[i]
    <2>1. \A i \in 1 .. Len(order) : order[i] \in Heads  BY <1>8, <1>9
    <2>2. \A i \in 1 .. Len(order) : [ev |-> "global", head |-> order[i]] \in OutEvents
      BY <2>1 DEF OutEvents
    <2> QED  BY <1>8, <2>2
  <1>11. /\ m \in Seq(OutEvents) /\ \A i \in 1 .. Len(m) : m[i].ev = "manager" /\ i = 1
         /\ manages => 1 \in 1 .. Len(m)
         /\ ~manages => m = <<>>
    <2>1. [ev |-> "manager"] \in OutEvents  BY DEF OutEvents
    <2> QED  BY <2>1
  <1> HIDE DEF os, m
  <1>12. wire' = m \o os \/ wire' = os \o m
    <2>1. wire' = wire \o (IF managerFirst THEN m \o os ELSE os \o m)  BY <1>6 DEF os
    <2>2. m \o os \in Seq(OutEvents) /\ os \o m \in Seq(OutEvents)  BY <1>10, <1>11
    <2> QED  BY <2>1, <2>2, <1>3
  <1>13. \A ev, h : Holds(wire', ev, h) <=> Holds(m, ev, h) \/ Holds(os, ev, h)
    <2>1. \A ev, h : Holds(m \o os, ev, h) <=> Holds(m, ev, h) \/ Holds(os, ev, h)
      BY <1>10, <1>11, HoldsJoin
    <2>2. \A ev, h : Holds(os \o m, ev, h) <=> Holds(os, ev, h) \/ Holds(m, ev, h)
      BY <1>10, <1>11, HoldsJoin
    <2> QED  BY <2>1, <2>2, <1>12
  <1>14. \A ev, h : Holds(m, ev, h) => ev = "manager"
    BY <1>11 DEF Holds
  <1>15. \A ev, h : Holds(os, ev, h) <=> ev = "global" /\ h \in On
    BY <1>8, <1>10 DEF Holds
  <1>16. /\ wire' \in Seq(OutEvents)
         /\ \A k \in 1 .. Len(wire') : wire'[k].ev \in {"manager", "global"}
         /\ manages => \E k \in 1 .. Len(wire') : wire'[k].ev = "manager"
         /\ ~manages => \A k \in 1 .. Len(wire') : wire'[k].ev # "manager"
    <2>1. wire' \in Seq(OutEvents)
      <3>1. m \o os \in Seq(OutEvents) /\ os \o m \in Seq(OutEvents)  BY <1>10, <1>11
      <3> QED  BY <3>1, <1>12
    <2>2. \A T : (\A k \in 1 .. Len(wire') : wire'[k].ev \in T)
                   <=> (\A k \in 1 .. Len(m) : m[k].ev \in T) /\ (\A k \in 1 .. Len(os) : os[k].ev \in T)
      <3>1. \A T : (\A k \in 1 .. Len(m \o os) : (m \o os)[k].ev \in T)
                     <=> (\A k \in 1 .. Len(m) : m[k].ev \in T) /\ (\A k \in 1 .. Len(os) : os[k].ev \in T)
        BY <1>10, <1>11, KindsJoin
      <3>2. \A T : (\A k \in 1 .. Len(os \o m) : (os \o m)[k].ev \in T)
                     <=> (\A k \in 1 .. Len(os) : os[k].ev \in T) /\ (\A k \in 1 .. Len(m) : m[k].ev \in T)
        BY <1>10, <1>11, KindsJoin
      <3>3. CASE wire' = m \o os  BY <3>1, <3>3
      <3>4. CASE wire' = os \o m  BY <3>2, <3>4
      <3> QED  BY <3>3, <3>4, <1>12
    <2>3. /\ \A k \in 1 .. Len(m) : m[k].ev \in {"manager", "global"}
          /\ \A k \in 1 .. Len(os) : os[k].ev \in {"manager", "global"}
          /\ \A k \in 1 .. Len(os) : os[k].ev \in {"global"}
      BY <1>10, <1>11
    <2>4. \A k \in 1 .. Len(wire') : wire'[k].ev \in {"manager", "global"}
      BY <2>2, <2>3
    <2>5. ASSUME manages PROVE \E k \in 1 .. Len(wire') : wire'[k].ev = "manager"
      <3>1. ~(\A k \in 1 .. Len(m) : m[k].ev \in {"global"})  BY <2>5, <1>11
      <3>2. ~(\A k \in 1 .. Len(wire') : wire'[k].ev \in {"global"})  BY <3>1, <2>2
      <3> QED  BY <3>2, <2>4
    <2>6. ASSUME ~manages PROVE \A k \in 1 .. Len(wire') : wire'[k].ev # "manager"
      <3>1. \A k \in 1 .. Len(m) : m[k].ev \in {"global"}  BY <2>6, <1>11
      <3>2. \A k \in 1 .. Len(wire') : wire'[k].ev \in {"global"}  BY <3>1, <2>2, <2>3
      <3> QED  BY <3>2
    <2> QED  BY <2>1, <2>4, <2>5, <2>6
  <1>17. OutTypes'  BY <1>1, <1>5, <1>16 DEF OutInv, OutTypes, ClientStill
  <1>18. RecordsOk'  BY <1>1, <1>3 DEF RecordsOk, ClientStill
  <1>19. SyncOk'  BY <1>5, <1>16 DEF SyncOk
  <1>20. BeginOk'
    <2>1. Announced'  BY <1>5 DEF Announced
    <2> QED  BY <2>1 DEF BeginOk
  <1>21. ManagerOk'
    <2>1. wlPhase' = "first" /\ ~manager' /\ manages' = manages  BY <1>1, <1>3 DEF ClientStill
    <2>2. manages => \E k \in 1 .. Len(wire') : wire'[k].ev = "manager" /\ \A j \in 1 .. k : wire'[j].ev # "synced"
      BY <1>16
    <2> QED  BY <2>1, <2>2, <1>16 DEF ManagerOk
  <1>22. ThenDone(wire')  BY <1>16 DEF ThenDone
  <1>23. ASSUME NEW g \in Heads PROVE HeadOk(g)' /\ AskedOk(g)'
    <2>1. (Plugged(g)' <=> Plugged(g)) /\ ~Listed(g)' /\ desk' = desk /\ early' = {} /\ told' = told
      BY <1>1, <1>3 DEF Plugged, Listed, ClientStill
    <2>2. /\ Holds(wire', "global", g) <=> Plugged(g)
          /\ ~Holds(wire', "remove", g) /\ ~Holds(wire', "geometry", g) /\ ~Holds(wire', "logical", g)
      BY <1>9, <1>13, <1>14, <1>15
    <2>3. OneGlobal(wire', g)
      <3>1. OneGlobal(os, g)  BY <1>8, <1>10 DEF OneGlobal
      <3>2. OneGlobal(m, g) /\ ~Holds(m, "global", g)  BY <1>11, <1>14 DEF OneGlobal
      <3>3. OneGlobal(m \o os, g)  BY <3>1, <3>2, <1>10, <1>11, OrdersJoin
      <3>4. OneGlobal(os \o m, g)  BY <3>1, <3>2, <1>10, <1>11, OrdersJoin
      <3> QED  BY <3>3, <3>4, <1>12
    <2>4. LastTrue(wire', g, desk'[g])  BY <1>16 DEF LastTrue, Carries
    <2>5. desk[g].state = "unseen" => ~Plugged(g)  BY DEF Plugged
    <2>6. HeadOk(g)'
      BY <2>1, <2>2, <2>3, <2>4, <2>5 DEF HeadOk, Leaving
    <2>7. ~AskIn(asks', "bind", g) /\ ~AskIn(asks', "xdg", g) /\ BoundFirst(asks', g)
      BY <1>5 DEF AskIn, BoundFirst
    <2>8. AskedOk(g)'
      BY <2>1, <2>2, <2>7, <1>3 DEF AskedOk
    <2> QED  BY <2>6, <2>8
  <1>24. PictureOk'
    BY <1>1, <1>3, ServedPicture DEF OutInv, ClientStill
  <1> QED  BY <1>17, <1>18, <1>19, <1>20, <1>21, <1>22, <1>23, <1>24 DEF OutInv

\* Every request.
LEMMA Served == OutInv /\ IsFiniteSet(Heads) /\ Serve => OutInv'
  BY Advertised, Answered, SyncAnswered DEF Serve

-----------------------------------------------------------------------------
(* A monitor that does not move, and one that does.                        *)

\* What is said of a monitor that the events sent do not name.
LEMMA OthersStay ==
  ASSUME OutInv, Announced, ServerMoves, NEW r \in Seq(OutEvents), wire' = wire \o r,
         NEW h, \A i \in 1 .. Len(r) : r[i].head = h, NEW g \in Heads, g # h, desk'[g] = desk[g],
         (g \in told'.wl <=> g \in told.wl) /\ (g \in told'.xdg <=> g \in told.xdg)
  PROVE  /\ HeadOk(g)' /\ AskedOk(g)' /\ (ToCome(g) => ToCome(g)')
         /\ \A o : o.head = g /\ Follows(o) /\ InTime(o) => Follows(o)' /\ InTime(o)'
  <1>1. wire \in Seq(OutEvents) /\ UNCHANGED <<outs, early, asks, wlPhase, manages>>
    BY DEF OutInv, OutTypes, ServerMoves
  <1>2. \A ev : ~Holds(r, ev, g)  BY DEF Holds
  <1>3. HeadOk(g)'
    <2>1. \A i \in 1 .. Len(r) : ~Carries(r[i], g)  BY DEF Carries
    <2> QED  BY <1>1, <1>2, <2>1, ServedHead DEF OutInv
  <1>4. (Plugged(g)' <=> Plugged(g)) /\ (Listed(g)' <=> Listed(g))
    BY <1>1 DEF Plugged, Listed
  <1>6. \A ev : (Holds(wire', ev, g) <=> Holds(wire, ev, g)) /\ (Before(wire, ev, g) => Before(wire', ev, g))
    BY <1>1, <1>2, HoldsJoin
  <1>5. AskedOk(g)'  BY <1>1, <1>4, <1>6 DEF OutInv, AskedOk
  <1>7. ToCome(g) => ToCome(g)'  BY <1>1, <1>4, <1>6 DEF ToCome, Leaving
  <1>8. ASSUME NEW o, o.head = g, Follows(o), InTime(o) PROVE Follows(o)' /\ InTime(o)'
    BY <1>1, <1>6, <1>8, ServedRecord
  <1> QED  BY <1>3, <1>5, <1>7, <1>8

\* Before the registry's request is served nothing is sent.
LEMMA UnseenMoves ==
  ASSUME OutInv, ~Announced, ServerMoves, UNCHANGED <<wire, told>>, desk' \in [Heads -> Monitors]
  PROVE  OutInv'
  <1>1. /\ asks = <<[req |-> "registry"], [req |-> "sync"]>> /\ wire = <<>> /\ outs = <<>> /\ ~manager
        /\ wlPhase = "first" /\ early = {} /\ told = [wl |-> {}, xdg |-> {}]
    BY DEF OutInv, BeginOk
  <1>2. ClientStill /\ UNCHANGED <<asks, wire, told, outs, manager, manages, wlPhase, early>>
    BY DEF ServerMoves, ClientStill
  <1>3. ~Announced'  BY <1>2 DEF Announced
  <1>4. OutTypes'  BY <1>2 DEF OutInv, OutTypes, ClientStill
  <1>5. RecordsOk'  BY <1>1, <1>2 DEF RecordsOk
  <1>6. SyncOk' /\ ThenDone(wire')  BY <1>2 DEF OutInv, SyncOk
  <1>7. BeginOk'  BY <1>1, <1>2 DEF BeginOk
  <1>8. ManagerOk'  BY <1>2, <1>3 DEF OutInv, ManagerOk
  <1>9. ASSUME NEW g \in Heads PROVE HeadOk(g)' /\ AskedOk(g)'
    <2>1. /\ \A ev : ~Holds(wire', ev, g)
          /\ OneGlobal(wire', g) /\ LastTrue(wire', g, desk'[g])
      <3>1. Len(wire') = 0 /\ 1 .. 0 = {}  BY <1>1, <1>2
      <3> QED  BY <3>1 DEF Holds, OneGlobal, LastTrue
    <2>2. ~Listed(g)' /\ g \notin early'  BY <1>1, <1>2 DEF Listed
    <2>3. HeadOk(g)'  BY <2>1, <2>2, <1>3 DEF HeadOk, Leaving
    <2>4. ~AskIn(asks', "bind", g) /\ ~AskIn(asks', "xdg", g) /\ BoundFirst(asks', g)
      <3>1. Len(asks') = 2 /\ asks'[1].req = "registry" /\ asks'[2].req = "sync" /\ 1 .. 2 = {1, 2}
        BY <1>1, <1>2
      <3> QED  BY <3>1 DEF AskIn, BoundFirst
    <2>5. AskedOk(g)'  BY <2>1, <2>2, <2>4, <1>1, <1>2 DEF AskedOk
    <2> QED  BY <2>3, <2>5
  <1>10. PictureOk'  BY <1>1, <1>2, ServedPicture DEF OutInv
  <1> QED  BY <1>4, <1>5, <1>6, <1>7, <1>8, <1>9, <1>10 DEF OutInv

\* A record of the list, and its monitor.
LEMMA RecordsKnown ==
  ASSUME OutInv, NEW k \in DOMAIN outs
  PROVE  outs[k] \in Records /\ outs[k].head \in Heads
  <1>1. outs \in Seq(Records)  BY DEF OutInv, OutTypes
  <1>2. outs[k] \in Records  BY <1>1
  <1> QED  BY <1>2 DEF Records

\* What Rearrange sends.
Moved(r, h, at, mode) ==
  /\ wire' = wire \o r /\ ThenDone(r)
  /\ \A i \in 1 .. Len(r) : r[i].ev \in {"geometry", "logical", "done", "xdgdone"} /\ r[i].head = h
  /\ \A i \in 1 .. Len(r) : Carries(r[i], h) => r[i].at = at /\ r[i].mode = mode
  /\ Holds(r, "geometry", h) <=> h \in told.wl
  /\ Holds(r, "logical", h) <=> h \in told.xdg

\* What Rearrange sends is of this kind, with or without each part of it.
LEMMA MovesSent ==
  ASSUME OutInv, NEW h \in Heads, NEW at \in 0 .. 1, NEW mode \in 1 .. 2, Rearrange(h, at, mode)
  PROVE  \E r \in Seq(OutEvents) : Moved(r, h, at, mode)
  <1> DEFINE g == [ev |-> "geometry", head |-> h, at |-> at, mode |-> mode]
             l == [ev |-> "logical", head |-> h, at |-> at, mode |-> mode]
             x == [ev |-> IF oldDone THEN "xdgdone" ELSE "done", head |-> h]
             d == [ev |-> "done", head |-> h]
             T == {g, l, x, d}
             A == IF h \in told.wl THEN <<g>> ELSE <<>>
             B == IF h \in told.xdg THEN <<l>> ELSE <<>>
             C == IF h \in told.xdg /\ oldDone THEN <<x>> ELSE <<>>
             D == IF h \in told.wl THEN <<d>> ELSE <<>>
  <1>1. g \in OutEvents /\ l \in OutEvents /\ x \in OutEvents /\ d \in OutEvents
    <2>1. CASE oldDone  BY <2>1, OutTypesMessages
    <2>2. CASE ~oldDone  BY <2>2, OutTypesMessages
    <2> QED  BY <2>1, <2>2
  <1>2. wire' = wire \o (A \o B \o C \o D)
    BY DEF Rearrange, Sends, XdgDoneFor, DoneFor
  <1>3. /\ g.ev = "geometry" /\ g.head = h /\ g.at = at /\ g.mode = mode
        /\ l.ev = "logical" /\ l.head = h /\ l.at = at /\ l.mode = mode
        /\ x.ev \in {"done", "xdgdone"} /\ x.head = h /\ d.ev = "done" /\ d.head = h
    OBVIOUS
  <1> HIDE DEF g, l, x, d
  <1>4. T \subseteq OutEvents /\ A \in Seq(T) /\ B \in Seq(T) /\ C \in Seq(T) /\ D \in Seq(T)
    <2>1. T \subseteq OutEvents /\ g \in T /\ l \in T /\ x \in T /\ d \in T  BY <1>1
    <2> HIDE DEF T
    <2>2. <<g>> \in Seq(T) /\ <<l>> \in Seq(T) /\ <<x>> \in Seq(T) /\ <<d>> \in Seq(T) /\ <<>> \in Seq(T)
      BY <2>1
    <2> QED  BY <2>1, <2>2
  <1>5. \A t \in T : /\ t.ev \in {"geometry", "logical", "done", "xdgdone"} /\ t.head = h
                     /\ Carries(t, h) => t.at = at /\ t.mode = mode
    BY <1>3 DEF Carries
  <1>6. /\ Holds(A, "geometry", h) <=> h \in told.wl
        /\ ~Holds(A, "logical", h)
        /\ Holds(B, "logical", h) <=> h \in told.xdg
        /\ ~Holds(B, "geometry", h) /\ ~Holds(C, "geometry", h) /\ ~Holds(C, "logical", h)
        /\ ~Holds(D, "geometry", h) /\ ~Holds(D, "logical", h)
    <2>1. g \in T /\ l \in T /\ x \in T /\ d \in T  OBVIOUS
    <2> HIDE DEF T
    <2>2. /\ \A ev, k : Holds(<<g>>, ev, k) <=> g.ev = ev /\ g.head = k
          /\ \A ev, k : ~Holds(<<>>, ev, k)
      BY <2>1, OneMessage
    <2>3. \A ev, k : Holds(<<l>>, ev, k) <=> l.ev = ev /\ l.head = k  BY <2>1, OneMessage
    <2>4. \A ev, k : Holds(<<x>>, ev, k) <=> x.ev = ev /\ x.head = k  BY <2>1, OneMessage
    <2>5. \A ev, k : Holds(<<d>>, ev, k) <=> d.ev = ev /\ d.head = k  BY <2>1, OneMessage
    <2> QED  BY <2>2, <2>3, <2>4, <2>5, <1>3
  <1>7. h \in told.xdg => h \in told.wl  BY DEF OutInv, AskedOk, Rearrange
  <1>8. d \in T  OBVIOUS
  <1>9. h \notin told.wl => A \o B \o C \o D = <<>>
    BY <1>7
  <1>10. h \in told.wl => D = <<d>>  OBVIOUS
  <1> HIDE DEF A, B, C, D, T
  <1> DEFINE r == A \o B \o C \o D
  <1>11. A \o B \in Seq(T) /\ (A \o B) \o C \in Seq(T) /\ r \in Seq(T)
    BY <1>4
  <1>12. \A i \in 1 .. Len(r) : r[i] \in T
    BY <1>11
  <1>13. \A ev : Holds(r, ev, h) <=> Holds(A, ev, h) \/ Holds(B, ev, h) \/ Holds(C, ev, h) \/ Holds(D, ev, h)
    <2>1. \A ev : Holds(A \o B, ev, h) <=> Holds(A, ev, h) \/ Holds(B, ev, h)  BY <1>4, HoldsJoin
    <2>2. \A ev : Holds((A \o B) \o C, ev, h) <=> Holds(A \o B, ev, h) \/ Holds(C, ev, h)
      BY <1>4, <1>11, HoldsJoin
    <2>3. \A ev : Holds(((A \o B) \o C) \o D, ev, h) <=> Holds((A \o B) \o C, ev, h) \/ Holds(D, ev, h)
      <3>1. PICK q : q = (A \o B) \o C  OBVIOUS
      <3>2. q \in Seq(T)  BY <3>1, <1>11
      <3>3. \A ev : Holds(q \o D, ev, h) <=> Holds(q, ev, h) \/ Holds(D, ev, h)
        BY <1>4, <3>2, HoldsJoin
      <3> QED  BY <3>1, <3>3
    <2> QED  BY <2>1, <2>2, <2>3
  <1>14. ThenDone(r)
    <2>1. CASE h \notin told.wl
      <3>1. Len(<<>>) = 0 /\ 1 .. 0 = {}  OBVIOUS
      <3> QED  BY <3>1, <2>1, <1>9 DEF ThenDone
    <2>2. CASE h \in told.wl
      <3>1. \A i \in 1 .. Len((A \o B) \o C) : ((A \o B) \o C)[i] \in T  BY <1>11
      <3>2. \A i \in 1 .. Len((A \o B) \o C) : ((A \o B) \o C)[i].head = d.head  BY <3>1, <1>5, <1>3
      <3>3. ThenDone(((A \o B) \o C) \o <<d>>)
        BY <3>2, <1>11, <1>8, <1>3, EndsDone
      <3> QED  BY <3>3, <1>10, <2>2
    <2> QED  BY <2>1, <2>2
  <1>15. r \in Seq(OutEvents)  BY <1>4, <1>11
  <1>16. \A i \in 1 .. Len(r) : /\ r[i].ev \in {"geometry", "logical", "done", "xdgdone"} /\ r[i].head = h
                                /\ Carries(r[i], h) => r[i].at = at /\ r[i].mode = mode
    BY <1>12, <1>5
  <1> HIDE DEF r
  <1>17. wire' = wire \o r  BY <1>2 DEF r
  <1>18. (Holds(r, "geometry", h) <=> h \in told.wl) /\ (Holds(r, "logical", h) <=> h \in told.xdg)
    BY <1>6, <1>13
  <1> QED  BY <1>14, <1>15, <1>16, <1>17, <1>18 DEF Moved

\* A monitor is moved or changes its mode.
LEMMA Rearranged ==
  ASSUME OutInv, NEW h \in Heads, NEW at \in 0 .. 1, NEW mode \in 1 .. 2, Rearrange(h, at, mode)
  PROVE  OutInv'
  <1>1. PICK r \in Seq(OutEvents) : Moved(r, h, at, mode)
    BY MovesSent
  <1>2. /\ ServerMoves /\ told' = told /\ ClientStill /\ UNCHANGED <<asks, wlPhase, manages, outs, early>>
        /\ wire \in Seq(OutEvents) /\ told \in [wl : SUBSET Heads, xdg : SUBSET Heads]
    BY DEF OutInv, OutTypes, Rearrange, ServerMoves, ClientStill
  <1>3. /\ desk' \in [Heads -> Monitors] /\ \A g \in Heads : g # h => desk'[g] = desk[g]
        /\ desk'[h].at = at /\ desk'[h].mode = mode /\ desk'[h].state = "on" /\ desk[h].state = "on"
    <2>1. desk \in [Heads -> Monitors]  BY DEF OutInv, OutTypes
    <2>2. desk' = [desk EXCEPT ![h] = [[@ EXCEPT !.at = at] EXCEPT !.mode = mode]] /\ desk[h].state = "on"
      BY <2>1 DEF Rearrange, Plugged
    <2>3. PICK n : n = [[desk[h] EXCEPT !.at = at] EXCEPT !.mode = mode]  OBVIOUS
    <2>4. n \in Monitors /\ n.at = at /\ n.mode = mode /\ n.state = desk[h].state
      BY <2>1, <2>3 DEF Monitors
    <2>5. desk' = [desk EXCEPT ![h] = n]  BY <2>1, <2>2, <2>3
    <2> QED  BY <2>1, <2>2, <2>4, <2>5
  <1>4. CASE ~Announced
    <2>1. told.wl = {} /\ told.xdg = {}  BY <1>4 DEF OutInv, BeginOk
    <2>2. wire' = wire  BY <2>1, <1>2 DEF Rearrange, Sends
    <2> QED  BY <1>2, <1>3, <1>4, <2>2, UnseenMoves
  <1>5. CASE Announced
    <2>1. OutTypes' /\ SyncOk' /\ BeginOk' /\ ManagerOk' /\ ThenDone(wire')
      <3>1. \A i \in 1 .. Len(r) : r[i].ev \notin {"synced", "manager"}  BY <1>1 DEF Moved
      <3> QED  BY <3>1, <1>1, <1>2, <1>3, <1>5, MovedRest DEF Moved
    <2>2. ASSUME NEW g \in Heads, g # h
          PROVE  /\ HeadOk(g)' /\ AskedOk(g)' /\ (ToCome(g) => ToCome(g)')
                 /\ \A o : o.head = g /\ Follows(o) /\ InTime(o) => Follows(o)' /\ InTime(o)'
      <3>1. \A i \in 1 .. Len(r) : r[i].head = h  BY <1>1 DEF Moved
      <3> QED  BY <3>1, <2>2, <1>1, <1>2, <1>3, <1>5, OthersStay DEF Moved
    <2>3. /\ Plugged(h) /\ Plugged(h)' /\ (Listed(h)' <=> Listed(h)) /\ HeadOk(h) /\ AskedOk(h)
          /\ \A ev : Holds(wire', ev, h) <=> Holds(wire, ev, h) \/ Holds(r, ev, h)
          /\ \A ev : Before(wire, ev, h) => Before(wire', ev, h)
          /\ ~Holds(r, "global", h) /\ ~Holds(r, "remove", h) /\ ~Leaving(h)
      <3>1. \A ev : Holds(wire', ev, h) <=> Holds(wire, ev, h) \/ Holds(r, ev, h)
        BY <1>1, <1>2, HoldsJoin DEF Moved
      <3>2. \A ev : Before(wire, ev, h) => Before(wire', ev, h)
        BY <1>1, <1>2, HoldsJoin DEF Moved
      <3>3. ~Holds(r, "global", h) /\ ~Holds(r, "remove", h)  BY <1>1 DEF Moved, Holds
      <3>4. HeadOk(h) /\ AskedOk(h)  BY DEF OutInv
      <3>5. ~Leaving(h)  BY <3>4, <1>3 DEF HeadOk
      <3> QED  BY <3>1, <3>2, <3>3, <3>4, <3>5, <1>2, <1>3 DEF Plugged, Listed
    <2>4. HeadOk(h)'
      <3>1. LastTrue(wire', h, desk'[h])
        <4>1. \A i \in 1 .. Len(r) : Carries(r[i], h)
                => r[i].at = desk'[h].at /\ (r[i].ev = "logical" => r[i].mode = desk'[h].mode)
          BY <1>1, <1>3 DEF Moved
        <4>2. /\ Holds(wire, "geometry", h) => Holds(r, "geometry", h)
              /\ Holds(wire, "logical", h) => Holds(r, "logical", h)
          BY <2>3, <1>1 DEF HeadOk, Moved
        <4>3. PICK d : d = desk'[h]  OBVIOUS
        <4>4. LastTrue(wire \o r, h, d)
          BY <4>1, <4>2, <4>3, <1>2, LastTrueJoin
        <4> QED  BY <4>3, <4>4, <1>1 DEF Moved
      <3>2. OneGlobal(wire', h)
        <4>1. OneGlobal(r, h)  BY <2>3 DEF OneGlobal, Holds
        <4> QED  BY <4>1, <2>3, <1>1, <1>2, OrdersJoin DEF HeadOk, Moved
      <3>3. /\ Holds(wire', "geometry", h) => h \in told'.wl
            /\ Holds(wire', "logical", h) => h \in told'.xdg
            /\ Holds(wire', "global", h) <=> Holds(wire, "global", h)
            /\ ~Leaving(h)'
        BY <2>3, <1>1, <1>2 DEF HeadOk, Moved, Leaving
      <3>4. Announced' <=> Announced  BY <1>2 DEF Announced
      <3> QED  BY <3>1, <3>2, <3>3, <3>4, <2>3, <1>2, <1>3 DEF HeadOk
    <2>5. AskedOk(h)'  BY <2>3, <1>1, <1>2 DEF AskedOk, Moved
    <2>6. ASSUME NEW o, o.head = h, Follows(o), InTime(o) PROVE Follows(o)' /\ InTime(o)'
      <3>1. InTime(o)'  BY <2>6, <2>3, <1>2 DEF InTime
      <3>2. /\ AskIn(asks, "bind", h) => PlaceComes(h)'
            /\ h \in told.wl => PlaceComes(h)'
            /\ AskIn(asks, "xdg", h) => SizeComes(h)'
            /\ h \in told.xdg => SizeComes(h)'
        BY <2>3, <1>1, <1>2 DEF Moved, PlaceComes, SizeComes
      <3>3. (PlaceComes(h) => PlaceComes(h)') /\ (SizeComes(h) => SizeComes(h)')
        BY <2>3, <1>2 DEF PlaceComes, SizeComes
      <3>4. Follows(o)'
        BY <3>2, <3>3, <2>3, <2>6, <1>2 DEF Follows
      <3> QED  BY <3>1, <3>4
    <2>7. ToCome(h) => ToCome(h)'
      BY <2>3, <1>2 DEF ToCome, Leaving
    <2>8. RecordsOk'
      <3> SUFFICES ASSUME NEW k \in DOMAIN outs, ~outs[k].dead
                   PROVE  Follows(outs[k])' /\ InTime(outs[k])'
        BY <1>2 DEF RecordsOk
      <3>1. PICK o : o = outs[k]  OBVIOUS
      <3>2. Follows(o) /\ InTime(o)  BY <3>1 DEF OutInv, RecordsOk
      <3>3. o.head \in Heads  BY <3>1, RecordsKnown
      <3>4. Follows(o)' /\ InTime(o)'  BY <3>2, <3>3, <2>2, <2>6
      <3> QED  BY <3>1, <3>4, <1>2
    <2>9. PictureOk'
      <3>1. ASSUME NEW k \in DOMAIN outs, ToCome(outs[k].head) PROVE ToCome(outs[k].head)'
        <4>1. PICK g : g = outs[k].head  OBVIOUS
        <4>2. g \in Heads  BY <4>1, RecordsKnown
        <4>3. ToCome(g)'  BY <3>1, <4>1, <4>2, <2>2, <2>7
        <4> QED  BY <4>1, <4>3, <1>2
      <3> QED  BY <3>1, <1>2, ServedPicture DEF OutInv
    <2> QED  BY <2>1, <2>2, <2>4, <2>5, <2>8, <2>9 DEF OutInv
  <1> QED  BY <1>4, <1>5

\* Only the one monitor changes.
LEMMA DeskChanges ==
  ASSUME OutInv, NEW h \in Heads, NEW state \in {"on", "gone"}, desk' = [desk EXCEPT ![h].state = state]
  PROVE  /\ desk' \in [Heads -> Monitors] /\ \A g \in Heads : g # h => desk'[g] = desk[g]
         /\ desk'[h].state = state
  <1>1. desk \in [Heads -> Monitors]  BY DEF OutInv, OutTypes
  <1>2. PICK n : n = [desk[h] EXCEPT !.state = state]  OBVIOUS
  <1>3. n \in Monitors /\ n.state = state  BY <1>1, <1>2 DEF Monitors
  <1>4. desk' = [desk EXCEPT ![h] = n]  BY <1>1, <1>2
  <1> QED  BY <1>1, <1>3, <1>4

\* A monitor is plugged in.
LEMMA PluggedIn ==
  ASSUME OutInv, NEW h \in Heads, Plug(h)
  PROVE  OutInv'
  <1> DEFINE m == [ev |-> "global", head |-> h]
  <1>1. /\ ServerMoves /\ told' = told /\ ClientStill /\ UNCHANGED <<asks, wlPhase, manages, outs, early>>
        /\ wire \in Seq(OutEvents) /\ told \in [wl : SUBSET Heads, xdg : SUBSET Heads]
    BY DEF OutInv, OutTypes, Plug, ServerMoves, ClientStill
  <1>2. /\ desk' \in [Heads -> Monitors] /\ (\A g \in Heads : g # h => desk'[g] = desk[g])
        /\ desk'[h].state = "on" /\ desk[h].state = "unseen"
    BY DeskChanges DEF Plug
  <1>3. CASE ~Announced
    <2>1. wire' = wire  BY <1>3 DEF Plug
    <2> QED  BY <1>1, <1>2, <1>3, <2>1, UnseenMoves
  <1>4. CASE Announced
    <2>0. wire' = wire \o <<m>>  BY <1>4 DEF Plug, Sends
    <2>1. /\ m \in OutEvents /\ m.ev = "global" /\ m.head = h  BY OutTypesMessages DEF OutEvents
    <2> HIDE DEF m
    <2>2. /\ <<m>> \in Seq(OutEvents) /\ Len(<<m>>) = 1 /\ <<m>>[1] = m /\ ThenDone(<<m>>) /\ OneGlobal(<<m>>, h)
          /\ \A ev, g : Holds(<<m>>, ev, g) <=> m.ev = ev /\ m.head = g
      BY <2>1, OneMessage
    <2>3. PICK r \in Seq(OutEvents) : r = <<m>>  BY <2>2
    <2>4. /\ wire' = wire \o r /\ ThenDone(r) /\ OneGlobal(r, h)
          /\ \A i \in 1 .. Len(r) : r[i].ev = "global" /\ r[i].head = h
          /\ \A ev, g : Holds(r, ev, g) <=> ev = "global" /\ g = h
      BY <2>0, <2>1, <2>2, <2>3
    <2>5. OutTypes' /\ SyncOk' /\ BeginOk' /\ ManagerOk' /\ ThenDone(wire')
      BY <2>4, <1>1, <1>2, <1>4, MovedRest
    <2>6. ASSUME NEW g \in Heads, g # h
          PROVE  /\ HeadOk(g)' /\ AskedOk(g)' /\ (ToCome(g) => ToCome(g)')
                 /\ \A o : o.head = g /\ Follows(o) /\ InTime(o) => Follows(o)' /\ InTime(o)'
      <3>1. \A i \in 1 .. Len(r) : r[i].head = h  BY <2>4
      <3> QED  BY <3>1, <2>4, <2>6, <1>1, <1>2, <1>4, OthersStay
    <2>7. /\ HeadOk(h) /\ AskedOk(h) /\ ~Listed(h) /\ ~Listed(h)' /\ ~Holds(wire, "global", h) /\ Plugged(h)'
          /\ h \notin early /\ ~Leaving(h)
      <3>1. HeadOk(h) /\ AskedOk(h)  BY DEF OutInv
      <3>2. ~Listed(h) /\ ~Holds(wire, "global", h) /\ h \notin early /\ ~Leaving(h)  BY <3>1, <1>2 DEF HeadOk
      <3> QED  BY <3>1, <3>2, <1>1, <1>2 DEF Listed, Plugged
    <2>8. /\ ~AskIn(asks, "bind", h) /\ ~AskIn(asks, "xdg", h) /\ h \notin told.wl /\ h \notin told.xdg
          /\ ~Holds(wire, "geometry", h) /\ ~Holds(wire, "logical", h)
      BY <2>7 DEF AskedOk
    <2>9. AskedOk(h)'
      <3>1. BoundFirst(asks, h)  BY <2>8 DEF BoundFirst, AskIn
      <3>2. ~Holds(wire', "geometry", h) /\ ~Holds(wire', "logical", h)
        BY <2>4, <2>8, <1>1, HoldsJoin
      <3> QED  BY <3>1, <3>2, <2>8, <1>1 DEF AskedOk
    <2>10. HeadOk(h)'
      <3>1. \A ev : Holds(wire', ev, h) <=> Holds(wire, ev, h) \/ ev = "global"
        BY <2>4, <1>1, HoldsJoin
      <3>2. OneGlobal(wire', h)  BY <2>4, <2>7, <1>1, OrdersJoin DEF HeadOk
      <3>3. ~Holds(wire, "geometry", h) /\ ~Holds(wire, "logical", h) => LastTrue(wire', h, desk'[h])
        <4>1. /\ Len(wire) \in Nat
              /\ \A k \in 1 .. Len(wire') : wire'[k].ev = "global" \/ (k \in 1 .. Len(wire) /\ wire'[k] = wire[k])
          <5>1. /\ Len(wire) \in Nat
                /\ \A i \in 1 .. Len(wire) : wire'[i] = wire[i] /\ i \in 1 .. Len(wire')
                /\ \A i \in 1 .. Len(r) : wire'[Len(wire) + i] = r[i]
                /\ \A k \in 1 .. Len(wire') : k \in 1 .. Len(wire) \/ \E i \in 1 .. Len(r) : k = Len(wire) + i
            BY <1>1, <2>4, WireJoin
          <5>2. ASSUME NEW k \in 1 .. Len(wire'), NEW i \in 1 .. Len(r), k = Len(wire) + i
                PROVE  wire'[k].ev = "global"
            <6>1. wire'[k] = r[i]  BY <5>1, <5>2
            <6> QED  BY <6>1, <2>4
          <5> QED  BY <5>1, <5>2
        <4> QED  BY <4>1 DEF LastTrue, Holds, Carries
      <3>4. ~Holds(wire, "geometry", h) /\ ~Holds(wire, "logical", h)
        BY <2>8
      <3>5. /\ Holds(wire', "global", h) /\ ~Holds(wire', "geometry", h) /\ ~Holds(wire', "logical", h)
            /\ ~Holds(wire', "remove", h)
        BY <3>1, <2>7, <2>8 DEF Leaving
      <3>6. LastTrue(wire', h, desk'[h])  BY <3>3, <3>4
      <3> QED  BY <3>2, <3>5, <3>6, <2>7, <1>1, <1>2 DEF HeadOk, Leaving
    <2>11. RecordsOk'
      <3> SUFFICES ASSUME NEW k \in DOMAIN outs, ~outs[k].dead
                   PROVE  Follows(outs[k])' /\ InTime(outs[k])'
        BY <1>1 DEF RecordsOk
      <3>1. PICK o : o = outs[k]  OBVIOUS
      <3>2. Follows(o) /\ InTime(o)  BY <3>1 DEF OutInv, RecordsOk
      <3>3. o.head \in Heads /\ o.head # h  BY <3>1, <2>7, RecordsKnown DEF Listed
      <3>4. Follows(o)' /\ InTime(o)'  BY <3>2, <3>3, <2>6
      <3> QED  BY <3>1, <3>4, <1>1
    <2>12. PictureOk'
      <3>1. ASSUME NEW k \in DOMAIN outs, ToCome(outs[k].head) PROVE ToCome(outs[k].head)'
        <4>1. PICK g : g = outs[k].head  OBVIOUS
        <4>2. g \in Heads /\ g # h  BY <4>1, <2>7, RecordsKnown DEF Listed
        <4>3. ToCome(g)'  BY <3>1, <4>1, <4>2, <2>6
        <4> QED  BY <4>1, <4>3, <1>1
      <3> QED  BY <3>1, <1>1, ServedPicture DEF OutInv
    <2> QED  BY <2>5, <2>6, <2>9, <2>10, <2>11, <2>12 DEF OutInv
  <1> QED  BY <1>3, <1>4

\* A monitor is unplugged.
LEMMA PluggedOut ==
  ASSUME OutInv, NEW h \in Heads, Unplug(h)
  PROVE  OutInv'
  <1> DEFINE m == [ev |-> "remove", head |-> h]
  <1>1. /\ ServerMoves /\ ClientStill /\ UNCHANGED <<asks, wlPhase, manages, outs, early>>
        /\ wire \in Seq(OutEvents) /\ told \in [wl : SUBSET Heads, xdg : SUBSET Heads]
    BY DEF OutInv, OutTypes, Unplug, ServerMoves, ClientStill
  <1>2. /\ desk' \in [Heads -> Monitors] /\ (\A g \in Heads : g # h => desk'[g] = desk[g])
        /\ desk'[h].state = "gone" /\ desk[h].state = "on"
    BY DeskChanges DEF Unplug, Plugged
  <1>3. /\ told' \in [wl : SUBSET Heads, xdg : SUBSET Heads]
        /\ told'.wl = told.wl \ {h} /\ told'.xdg = told.xdg \ {h}
    BY <1>1 DEF Unplug
  <1>4. CASE ~Announced
    <2>1. wire' = wire  BY <1>4 DEF Unplug
    <2>2. told = [wl |-> {}, xdg |-> {}]  BY <1>4 DEF OutInv, BeginOk
    <2>3. told' = told
      <3>1. told'.wl = told.wl /\ told'.xdg = told.xdg  BY <2>2, <1>3
      <3>2. told' = [wl |-> told'.wl, xdg |-> told'.xdg] /\ told = [wl |-> told.wl, xdg |-> told.xdg]
        BY <1>1, <1>3
      <3> QED  BY <3>1, <3>2
    <2> QED  BY <1>1, <1>2, <1>4, <2>1, <2>3, UnseenMoves
  <1>5. CASE Announced
    <2>0. wire' = wire \o <<m>>  BY <1>5 DEF Unplug, Sends
    <2>1. /\ m \in OutEvents /\ m.ev = "remove" /\ m.head = h  BY OutTypesMessages DEF OutEvents
    <2> HIDE DEF m
    <2>2. /\ <<m>> \in Seq(OutEvents) /\ Len(<<m>>) = 1 /\ <<m>>[1] = m /\ ThenDone(<<m>>) /\ OneGlobal(<<m>>, h)
          /\ \A ev, g : Holds(<<m>>, ev, g) <=> m.ev = ev /\ m.head = g
      BY <2>1, OneMessage
    <2>3. PICK r \in Seq(OutEvents) : r = <<m>>  BY <2>2
    <2>4. /\ wire' = wire \o r /\ ThenDone(r) /\ OneGlobal(r, h)
          /\ \A i \in 1 .. Len(r) : r[i].ev = "remove" /\ r[i].head = h
          /\ \A ev, g : Holds(r, ev, g) <=> ev = "remove" /\ g = h
          /\ \E i \in 1 .. Len(r) : r[i].ev = "remove" /\ r[i].head = h
      BY <2>0, <2>1, <2>2, <2>3
    <2>5. OutTypes' /\ SyncOk' /\ BeginOk' /\ ManagerOk' /\ ThenDone(wire')
      BY <2>4, <1>1, <1>2, <1>3, <1>5, MovedRest
    <2>6. ASSUME NEW g \in Heads, g # h
          PROVE  /\ HeadOk(g)' /\ AskedOk(g)' /\ (ToCome(g) => ToCome(g)')
                 /\ \A o : o.head = g /\ Follows(o) /\ InTime(o) => Follows(o)' /\ InTime(o)'
      <3>1. \A i \in 1 .. Len(r) : r[i].head = h  BY <2>4
      <3> QED  BY <3>1, <2>4, <2>6, <1>1, <1>2, <1>3, <1>5, OthersStay
    <2>7. /\ HeadOk(h) /\ AskedOk(h) /\ (Listed(h)' <=> Listed(h)) /\ Plugged(h) /\ ~Plugged(h)'
          /\ \A ev : Holds(wire', ev, h) <=> Holds(wire, ev, h) \/ ev = "remove"
          /\ \A ev : Before(wire, ev, h) => Before(wire', ev, h)
          /\ OneGlobal(wire', h) /\ ThenGone(wire', h)
      <3>1. HeadOk(h) /\ AskedOk(h)  BY DEF OutInv
      <3>2. \A ev : Holds(wire', ev, h) <=> Holds(wire, ev, h) \/ ev = "remove"
        BY <2>4, <1>1, HoldsJoin
      <3>3. \A ev : Before(wire, ev, h) => Before(wire', ev, h)
        BY <2>4, <1>1, HoldsJoin
      <3>4. OneGlobal(wire', h) /\ ThenGone(wire', h)
        <4>1. ~Holds(r, "global", h)  BY <2>4
        <4> QED  BY <4>1, <2>4, <3>1, <1>1, OrdersJoin DEF HeadOk
      <3> QED  BY <3>1, <3>2, <3>3, <3>4, <1>1, <1>2 DEF Listed, Plugged
    <2>8. HeadOk(h)'
      BY <2>7, <1>1, <1>2 DEF HeadOk, Leaving
    <2>9. AskedOk(h)'
      BY <2>7, <1>1, <1>3 DEF AskedOk
    <2>10. Leaving(h)'  BY <2>7 DEF Leaving
    <2>11. RecordsOk'
      <3> SUFFICES ASSUME NEW k \in DOMAIN outs, ~outs[k].dead
                   PROVE  Follows(outs[k])' /\ InTime(outs[k])'
        BY <1>1 DEF RecordsOk
      <3>1. PICK o : o = outs[k]  OBVIOUS
      <3>2. Follows(o) /\ InTime(o)  BY <3>1 DEF OutInv, RecordsOk
      <3>3. o.head \in Heads  BY <3>1, RecordsKnown
      <3>4. ASSUME o.head = h PROVE Follows(o)' /\ InTime(o)'
        <4>1. Follows(o)'  BY <2>7, <2>10, <3>4 DEF Follows
        <4>2. InTime(o)'  BY <2>7, <3>2, <3>4, <1>1 DEF InTime
        <4> QED  BY <4>1, <4>2
      <3>5. Follows(o)' /\ InTime(o)'  BY <3>2, <3>3, <3>4, <2>6
      <3> QED  BY <3>1, <3>5, <1>1
    <2>12. PictureOk'
      <3>1. ASSUME NEW k \in DOMAIN outs, ToCome(outs[k].head) PROVE ToCome(outs[k].head)'
        <4>1. PICK g : g = outs[k].head  OBVIOUS
        <4>2. g \in Heads  BY <4>1, RecordsKnown
        <4>3. ToCome(h)'  BY <2>10 DEF ToCome
        <4>4. ToCome(g)'  BY <3>1, <4>1, <4>2, <4>3, <2>6
        <4> QED  BY <4>1, <4>4, <1>1
      <3> QED  BY <3>1, <1>1, ServedPicture DEF OutInv
    <2> QED  BY <2>5, <2>6, <2>8, <2>9, <2>11, <2>12 DEF OutInv
  <1> QED  BY <1>4, <1>5

-----------------------------------------------------------------------------
(* What the process does with an event.                                    *)

\* The fields of an event.
LEMMA EventKinds ==
  ASSUME NEW e \in OutEvents
  PROVE  /\ e.ev \in {"global", "remove", "done", "xdgdone", "geometry", "logical"} => e.head \in Heads
         /\ e.ev \in {"geometry", "logical"} => e.at \in 0 .. 1 /\ e.mode \in 1 .. 2
         /\ e.ev \in {"global", "remove", "done", "xdgdone", "geometry", "logical", "manager", "synced"}
  BY DEF OutEvents

\* the records each event leaves
LEMMA RecordFields ==
  ASSUME NEW o \in Records
  PROVE  /\ o.head \in Heads /\ o.dead \in BOOLEAN /\ o.at \in 0 .. 1 /\ o.width \in {0, 3, 6}
         /\ o.scale \in {1, 2} /\ o.logical \in Nat /\ o.xdg \in BOOLEAN
         /\ o = [head |-> o.head, dead |-> o.dead, at |-> o.at, width |-> o.width, scale |-> o.scale,
                 logical |-> o.logical, xdg |-> o.xdg]
  BY DEF Records

\* A record of these fields.
LEMMA RecordMade ==
  ASSUME NEW a \in Heads, NEW b \in BOOLEAN, NEW c \in 0 .. 1, NEW d \in {0, 3, 6}, NEW s \in {1, 2},
         NEW l \in Nat, NEW x \in BOOLEAN
  PROVE  /\ [head |-> a, dead |-> b, at |-> c, width |-> d, scale |-> s, logical |-> l, xdg |-> x] \in Records
  BY DEF Records

\* The record of a monitor that was removed.
LEMMA GoneRecord ==
  ASSUME NEW o \in Records, NEW p, p = [o EXCEPT !.dead = TRUE, !.xdg = FALSE]
  PROVE  p \in Records /\ p.head = o.head /\ p.dead
  <1>1. PICK q : q = [o EXCEPT !.dead = TRUE]  OBVIOUS
  <1>2. q \in Records /\ q.head = o.head /\ q.dead  BY <1>1 DEF Records
  <1>3. p = [q EXCEPT !.xdg = FALSE]  BY <1>1
  <1>4. p \in Records /\ p.head = q.head /\ p.dead = q.dead  BY <1>2, <1>3 DEF Records
  <1> QED  BY <1>2, <1>4

MeasuredAt(o, at, mode) == [o EXCEPT !.at = at, !.width = Pixels(mode), !.scale = IntScale]
SizedAt(o, at, mode)  == [o EXCEPT !.at = at, !.logical = TrueWidth(mode)]

\* The record after output_geometry, output_mode and output_scale.
LEMMA MeasuredRecord ==
  ASSUME NEW o \in Records, NEW at \in 0 .. 1, NEW mode \in 1 .. 2, NEW p, p = MeasuredAt(o, at, mode)
  PROVE  /\ p \in Records /\ p.head = o.head /\ p.dead = o.dead /\ p.xdg = o.xdg /\ p.at = at
         /\ p.logical = o.logical /\ Measured(p)
  <1>1. Pixels(mode) \in {3, 6} /\ IntScale = 2  BY DEF Pixels, IntScale
  <1>2. PICK w \in {3, 6} : w = Pixels(mode)  BY <1>1
  <1>3. PICK q : q = [o EXCEPT !.at = at]  OBVIOUS
  <1>4. q \in Records /\ q.head = o.head /\ q.dead = o.dead /\ q.xdg = o.xdg /\ q.at = at /\ q.logical = o.logical
    BY <1>3 DEF Records
  <1>5. PICK r : r = [q EXCEPT !.width = w]  OBVIOUS
  <1>6. r \in Records /\ r.head = q.head /\ r.dead = q.dead /\ r.xdg = q.xdg /\ r.at = q.at /\ r.logical = q.logical
        /\ r.width = w
    BY <1>4, <1>5 DEF Records
  <1>7. p = [r EXCEPT !.scale = 2]  BY <1>1, <1>2, <1>3, <1>5 DEF MeasuredAt
  <1>8. p \in Records /\ p.head = r.head /\ p.dead = r.dead /\ p.xdg = r.xdg /\ p.at = r.at /\ p.logical = r.logical
        /\ p.width = r.width /\ p.scale = 2
    BY <1>6, <1>7 DEF Records
  <1> QED  BY <1>4, <1>6, <1>8 DEF Measured

\* The record after xdg_output_logical_position and xdg_output_logical_size.
LEMMA SizedRecord ==
  ASSUME NEW o \in Records, NEW at \in 0 .. 1, NEW mode \in 1 .. 2, NEW p, p = SizedAt(o, at, mode)
  PROVE  /\ p \in Records /\ p.head = o.head /\ p.dead = o.dead /\ p.xdg = o.xdg /\ p.at = at
         /\ p.logical = TrueWidth(mode) /\ p.logical > 0 /\ Sized(p) /\ (Measured(o) => Measured(p))
  <1>1. PICK w \in Nat : w = TrueWidth(mode) /\ w > 0  BY DEF TrueWidth
  <1>2. PICK q : q = [o EXCEPT !.at = at]  OBVIOUS
  <1>3. q \in Records /\ q.head = o.head /\ q.dead = o.dead /\ q.xdg = o.xdg /\ q.at = at /\ q.width = o.width
        /\ q.scale = o.scale
    BY <1>2 DEF Records
  <1>4. p = [q EXCEPT !.logical = w]  BY <1>1, <1>2 DEF SizedAt
  <1>5. p \in Records /\ p.head = q.head /\ p.dead = q.dead /\ p.xdg = q.xdg /\ p.at = q.at /\ p.width = q.width
        /\ p.scale = q.scale /\ p.logical = w
    BY <1>3, <1>4 DEF Records
  <1> QED  BY <1>1, <1>3, <1>5 DEF Measured, Sized

\* The record after gwl_output_finalize.
LEMMA FinalRecord ==
  ASSUME NEW o \in Records, NEW p, p = Finalized(o)
  PROVE  /\ p \in Records /\ p.head = o.head /\ p.dead = o.dead /\ p.xdg = o.xdg /\ p.at = o.at
         /\ (p.logical = o.logical \/ o.logical = 0) /\ (o.logical > 0 => p.logical = o.logical)
         /\ (Measured(o) => Measured(p) /\ p.logical > 0) /\ (Sized(o) => Sized(p))
  <1>0. /\ o.logical \in Nat /\ o.width \in {0, 3, 6} /\ o.scale \in {1, 2}
    BY RecordFields
  <1>1. CASE o.logical > 0
    BY <1>1 DEF Finalized, Measured, Sized
  <1>2. CASE ~(o.logical > 0)
    <2>1. PICK n : n = o.width \div o.scale  OBVIOUS
    <2>2. n \in Nat /\ (Measured(o) => n > 0)
      <3>1. 0 \div 1 = 0 /\ 0 \div 2 = 0 /\ 3 \div 1 = 3 /\ 3 \div 2 = 1 /\ 6 \div 1 = 6 /\ 6 \div 2 = 3
        OBVIOUS
      <3>2. n \in {0, 1, 3, 6}  BY <3>1, <1>0, <2>1
      <3>3. Measured(o) => n \in {1, 3}  BY <3>1, <2>1 DEF Measured
      <3> QED  BY <3>2, <3>3
    <2>3. p = [o EXCEPT !.logical = n]  BY <1>2, <2>1 DEF Finalized
    <2>4. p = [head |-> o.head, dead |-> o.dead, at |-> o.at, width |-> o.width, scale |-> o.scale,
               logical |-> n, xdg |-> o.xdg]
      BY <2>3, RecordFields
    <2>5. p \in Records  BY <2>2, <2>4, RecordFields, RecordMade
    <2>6. o.logical = 0 /\ ~Sized(o)
      BY <1>0, <1>2 DEF Sized, TrueWidth
    <2> QED  BY <2>2, <2>4, <2>5, <2>6, <1>0 DEF Measured
  <1> QED  BY <1>1, <1>2

\* The process takes the first event.
LEMMA HeardPlaces ==
  ASSUME OutInv, Hear
  PROVE  /\ Announced /\ Head(wire) \in OutEvents /\ wire # <<>> /\ wire' = Tail(wire) /\ wire' \in Seq(OutEvents)
         /\ Len(wire) \in Nat \ {0} /\ Len(wire') = Len(wire) - 1
         /\ \A i \in 1 .. Len(wire') : i + 1 \in 1 .. Len(wire) /\ wire'[i] = wire[i + 1]
         /\ 1 \in 1 .. Len(wire) /\ wire[1] = Head(wire)
         /\ UNCHANGED <<desk, manages, oldDone, told, picture>> /\ wire \in Seq(OutEvents) /\ ThenDone(wire')
         /\ \A ev, h : /\ Holds(wire', ev, h) => Holds(wire, ev, h)
                       /\ Holds(wire, ev, h) => Holds(wire', ev, h) \/ (Head(wire).ev = ev /\ Head(wire).head = h)
                       /\ Before(wire, ev, h) => Before(wire', ev, h) \/ (Head(wire).ev = ev /\ Head(wire).head = h)
  <1>1. wire \in Seq(OutEvents) /\ wire # <<>> /\ wire' = Tail(wire)
        /\ UNCHANGED <<desk, manages, oldDone, told, picture>>
    BY DEF OutInv, OutTypes, Hear
  <1>2. Announced  BY <1>1 DEF OutInv, BeginOk
  <1>3. /\ Head(wire) \in OutEvents /\ wire' \in Seq(OutEvents)
        /\ Len(wire) \in Nat \ {0} /\ Len(wire') = Len(wire) - 1
        /\ \A i \in 1 .. Len(wire') : i + 1 \in 1 .. Len(wire) /\ wire'[i] = wire[i + 1]
        /\ 1 \in 1 .. Len(wire) /\ wire[1] = Head(wire)
    BY <1>1, TailPlaces
  <1>4. ThenDone(wire')  BY <1>1, OrdersTail DEF OutInv
  <1>5. \A ev, h : /\ Holds(wire', ev, h) => Holds(wire, ev, h)
                   /\ Holds(wire, ev, h) => Holds(wire', ev, h) \/ (Head(wire).ev = ev /\ Head(wire).head = h)
                   /\ Before(wire, ev, h) => Before(wire', ev, h) \/ (Head(wire).ev = ev /\ Head(wire).head = h)
    BY <1>1, HoldsTail
  <1> QED  BY <1>1, <1>2, <1>3, <1>4, <1>5

\* A monitor is still announced or listed.
LEMMA HeardHead ==
  ASSUME OutInv, Hear, NEW g \in Heads, NEW e, e = Head(wire),
         Listed(g)' => Listed(g) \/ (e.ev = "global" /\ e.head = g),
         Listed(g) => Listed(g)',
         Live(g) => Live(g)' \/ (e.ev = "remove" /\ e.head = g),
         e.ev = "global" /\ e.head = g => Live(g)',
         g \in early' => Listed(g)'
  PROVE  HeadOk(g)'
  <1>1. /\ HeadOk(g) /\ wire \in Seq(OutEvents) /\ wire # <<>> /\ wire' = Tail(wire) /\ Announced
        /\ UNCHANGED <<desk, told>>
        /\ \A ev : /\ Holds(wire', ev, g) => Holds(wire, ev, g)
                   /\ Holds(wire, ev, g) => Holds(wire', ev, g) \/ (e.ev = ev /\ e.head = g)
    BY HeardPlaces DEF OutInv
  <1>2. /\ ThenGone(wire, g) => ThenGone(wire', g)
        /\ OneGlobal(wire', g)
        /\ LastTrue(wire, g, desk[g]) => LastTrue(wire', g, desk[g])
    BY <1>1, OrdersTail DEF HeadOk
  <1>3. e.ev = "global" /\ e.head = g => ~Holds(wire', "global", g) /\ Holds(wire, "global", g)
    <2> SUFFICES ASSUME e.ev = "global", e.head = g
                 PROVE  ~Holds(wire', "global", g) /\ Holds(wire, "global", g)
      OBVIOUS
    <2>1. /\ \A i \in 1 .. Len(wire') : i + 1 \in 1 .. Len(wire) /\ wire'[i] = wire[i + 1] /\ i + 1 # 1
          /\ 1 \in 1 .. Len(wire) /\ wire[1] = e
      BY HeardPlaces
    <2>2. OneGlobal(wire, g)  BY <1>1 DEF HeadOk
    <2> QED  BY <2>1, <2>2 DEF Holds, OneGlobal
  <1>4. (Plugged(g)' <=> Plugged(g)) /\ (Live(g)' <=> \E k \in DOMAIN outs' : outs'[k].head = g /\ ~outs'[k].dead)
    BY <1>1 DEF Plugged, Live
  <1>5. Holds(wire', "global", g) => (Plugged(g)' \/ ThenGone(wire', g)) /\ ~Listed(g)'
    BY <1>1, <1>2, <1>3, <1>4 DEF HeadOk
  <1>6. desk'[g].state = "unseen" => ~Holds(wire', "global", g) /\ ~Listed(g)'
    BY <1>1, <1>3 DEF HeadOk
  <1>7. Leaving(g)' => desk'[g].state = "gone"
    BY <1>1 DEF HeadOk, Leaving
  <1>8. Plugged(g)' => Holds(wire', "global", g) \/ Live(g)'
    <2>1. Plugged(g) => ~Leaving(g)  BY <1>1 DEF HeadOk, Plugged
    <2>2. e.ev = "remove" /\ e.head = g => Leaving(g)
      BY HeardPlaces DEF Leaving, Holds
    <2>3. Plugged(g) => Holds(wire, "global", g) \/ Live(g)  BY <1>1 DEF HeadOk, Live
    <2> QED  BY <2>1, <2>2, <2>3, <1>1, <1>4
  <1>9. /\ LastTrue(wire', g, desk'[g]) \/ ~Plugged(g)'
        /\ Plugged(g)' /\ Holds(wire', "geometry", g) => g \in told'.wl
        /\ Plugged(g)' /\ Holds(wire', "logical", g) => g \in told'.xdg
    BY <1>1, <1>2, <1>4 DEF HeadOk
  <1> QED  BY <1>2, <1>4, <1>5, <1>6, <1>7, <1>8, <1>9 DEF HeadOk

\* A monitor that is asked about is listed and bound first.
LEMMA HeardAsked ==
  ASSUME OutInv, Hear, NEW g \in Heads, NEW a \in Seq(OutAsks), asks' = asks \o a,
         Listed(g) => Listed(g)',
         AskIn(a, "bind", g) \/ AskIn(a, "xdg", g) => Listed(g)',
         BoundFirst(a, g) \/ AskIn(asks, "bind", g) \/ g \in told.wl \/ ~Plugged(g)
  PROVE  AskedOk(g)'
  <1>1. AskedOk(g) /\ asks \in Seq(OutAsks)  BY DEF OutInv, OutTypes
  <1>2. /\ UNCHANGED <<desk, told>> /\ (Plugged(g)' <=> Plugged(g))
        /\ \A ev : Holds(wire', ev, g) => Holds(wire, ev, g)
    BY HeardPlaces DEF Plugged
  <1>3. \A req : AskIn(asks', req, g) <=> AskIn(asks, req, g) \/ AskIn(a, req, g)
    BY <1>1, AskJoin
  <1>4. BoundFirst(asks, g) /\ (BoundFirst(a, g) \/ AskIn(asks, "bind", g)) => BoundFirst(asks', g)
    BY <1>1, BoundFirstStays
  <1> QED  BY <1>1, <1>2, <1>3, <1>4 DEF AskedOk

\* What is said of the roundtrips and of the manager.
LEMMA HeardRest ==
  ASSUME OutInv, Hear, NEW e, e = Head(wire), e.ev # "synced", NEW a \in Seq(OutAsks),
         \A i \in 1 .. Len(a) : a[i].req \in {"bind", "xdg"}, asks' = asks \o a,
         wlPhase' = wlPhase, e.ev = "manager" => manager', e.ev # "manager" => manager' = manager
  PROVE  SyncOk' /\ BeginOk' /\ ManagerOk' /\ ThenDone(wire') /\ asks' \in Seq(OutAsks)
  <1>1. /\ Announced /\ manages' = manages /\ ThenDone(wire')
        /\ \A i \in 1 .. Len(wire') : i + 1 \in 1 .. Len(wire) /\ wire'[i] = wire[i + 1]
        /\ 1 \in 1 .. Len(wire) /\ wire[1] = e /\ Len(wire) \in Nat /\ Len(wire') = Len(wire) - 1
    BY HeardPlaces
  <1>2. asks \in Seq(OutAsks)  BY DEF OutInv, OutTypes
  <1>3. /\ asks' \in Seq(OutAsks) /\ DOMAIN asks' = 1 .. Len(asks')
        /\ \A i \in 1 .. Len(asks) : asks'[i] = asks[i] /\ i \in 1 .. Len(asks')
        /\ \A k \in 1 .. Len(asks') : (k \in 1 .. Len(asks) /\ asks'[k] = asks[k]) \/ asks'[k].req \in {"bind", "xdg"}
    <2>1. /\ asks \o a \in Seq(OutAsks) /\ Len(asks) \in Nat /\ Len(a) \in Nat
          /\ Len(asks \o a) = Len(asks) + Len(a)
          /\ \A i \in 1 .. Len(asks) : (asks \o a)[i] = asks[i]
          /\ \A i \in 1 .. Len(a) : (asks \o a)[Len(asks) + i] = a[i]
          /\ \A k \in 1 .. Len(asks \o a) :
               k \in 1 .. Len(asks) \/ \E i \in 1 .. Len(a) : k = Len(asks) + i
      <3>1. asks \in Seq(OutAsks) /\ a \in Seq(OutAsks)  BY <1>2
      <3> QED  BY ONLY <3>1, JoinPlaces
    <2>2. ASSUME NEW k \in 1 .. Len(asks'), NEW i \in 1 .. Len(a), k = Len(asks) + i
          PROVE  asks'[k].req \in {"bind", "xdg"}
      BY <2>1, <2>2
    <2>3. \A k \in 1 .. Len(asks') : k \in 1 .. Len(asks) \/ \E i \in 1 .. Len(a) : k = Len(asks) + i
      BY <2>1
    <2>4. \A k \in 1 .. Len(asks) : asks'[k] = asks[k] /\ k \in 1 .. Len(asks')
      BY <2>1
    <2>5. asks' \in Seq(OutAsks) /\ DOMAIN asks' = 1 .. Len(asks')  BY <2>1
    <2> QED  BY <2>2, <2>3, <2>4, <2>5
  <1>4. SyncOk'
    <2>1. \A i, j \in 1 .. Len(asks') : asks'[i].req = "sync" /\ asks'[j].req = "sync" => i = j
      <3>1. \A k \in 1 .. Len(asks') : asks'[k].req = "sync" => k \in 1 .. Len(asks) /\ asks[k].req = "sync"
        BY <1>3
      <3> QED  BY <3>1 DEF OutInv, SyncOk
    <2>2. \A i, j \in 1 .. Len(wire') : wire'[i].ev = "synced" /\ wire'[j].ev = "synced" => i = j
      <3> SUFFICES ASSUME NEW i \in 1 .. Len(wire'), NEW j \in 1 .. Len(wire'), wire'[i].ev = "synced",
                          wire'[j].ev = "synced"
                   PROVE  i = j
        OBVIOUS
      <3>1. i + 1 = j + 1  BY <1>1 DEF OutInv, SyncOk
      <3> QED  BY <3>1
    <2>3. (\E i \in 1 .. Len(asks') : asks'[i].req = "sync") => \A i \in 1 .. Len(wire') : wire'[i].ev # "synced"
      BY <1>1, <1>3 DEF OutInv, SyncOk
    <2> QED  BY <2>1, <2>2, <2>3 DEF SyncOk
  <1>5. BeginOk'
    <2>1. Announced'
      <3>1. \A k \in 1 .. Len(asks) : asks[k].req # "registry"  BY <1>1, <1>2 DEF Announced
      <3> QED  BY <3>1, <1>3 DEF Announced
    <2> QED  BY <2>1 DEF BeginOk
  <1>6. ManagerOk'
    <2>1. ~manages => ~manager' /\ \A i \in 1 .. Len(wire') : wire'[i].ev # "manager"
      BY <1>1 DEF OutInv, ManagerOk
    <2>2. ASSUME manages, ~manager'
          PROVE  /\ wlPhase' = "first"
                 /\ \E i \in 1 .. Len(wire') : wire'[i].ev = "manager" /\ \A j \in 1 .. i : wire'[j].ev # "synced"
      <3>1. ~manager /\ e.ev # "manager"  BY <2>2
      <3>2. PICK i \in 1 .. Len(wire) : wire[i].ev = "manager" /\ \A j \in 1 .. i : wire[j].ev # "synced"
        BY <2>2, <3>1, <1>1 DEF OutInv, ManagerOk
      <3>3. i # 1  BY <3>1, <3>2, <1>1
      <3>4. i - 1 \in 1 .. Len(wire') /\ wire'[i - 1] = wire[i]  BY <3>2, <3>3, <1>1
      <3>5. ASSUME NEW j \in 1 .. i - 1 PROVE wire'[j].ev # "synced"
        <4>1. j \in 1 .. Len(wire') /\ j + 1 \in 1 .. i  BY <3>2, <3>4, <1>1
        <4> QED  BY <4>1, <3>2, <1>1
      <3>6. wlPhase = "first"  BY <2>2, <3>1 DEF OutInv, ManagerOk
      <3> QED  BY <3>2, <3>4, <3>5, <3>6
    <2> QED  BY <2>1, <2>2, <1>1 DEF ManagerOk
  <1> QED  BY <1>1, <1>3, <1>4, <1>5, <1>6

\* One record, before (o) and after (p) an event that is not the end of a roundtrip.
LEMMA HeardRecord ==
  ASSUME OutInv, Hear, NEW e, e = Head(wire), UNCHANGED <<wlPhase, early>>,
         NEW g \in Heads, NEW o, NEW p, o.head = g, p.head = g, p.xdg = o.xdg, ~(e.ev = "remove" /\ e.head = g),
         \A req : AskIn(asks, req, g) => AskIn(asks', req, g),
         \A req : AskBefore(asks, req, g) => AskBefore(asks', req, g),
         Measured(o) => Measured(p), Sized(o) => Sized(p), o.logical > 0 => p.logical > 0,
         e.ev = "geometry" /\ e.head = g => Measured(p) /\ p.at = e.at,
         e.ev = "logical" /\ e.head = g => Sized(p) /\ p.at = e.at /\ p.logical = TrueWidth(e.mode),
         ~Carries(e, g) => p.at = o.at,
         ~(e.ev = "logical" /\ e.head = g) => p.logical = o.logical \/ o.logical = 0,
         Follows(o), InTime(o)
  PROVE  Follows(p)' /\ InTime(p)'
  <1>1. /\ UNCHANGED <<desk, told, manages>> /\ (Plugged(g)' <=> Plugged(g))
        /\ \A ev : /\ Holds(wire, ev, g) => Holds(wire', ev, g) \/ (e.ev = ev /\ e.head = g)
                   /\ Before(wire, ev, g) => Before(wire', ev, g) \/ (e.ev = ev /\ e.head = g)
    BY HeardPlaces DEF Plugged
  <1>2. InTime(p)'
    <2>1. \A mode \in 1 .. 2 : TrueWidth(mode) > 0  BY DEF TrueWidth
    <2> QED  BY <1>1 DEF InTime
  <1>3. Plugged(g)' \/ Leaving(g)'
    BY <1>1 DEF Follows, Leaving
  <1>4. ~(e.ev = "logical" /\ e.head = g) /\ SizeComes(g) => SizeComes(g)'
    BY <1>1 DEF SizeComes
  <1>5. ~(e.ev = "geometry" /\ e.head = g) /\ PlaceComes(g) => PlaceComes(g)'
    BY <1>1 DEF PlaceComes
  <1>6. ASSUME Plugged(g), Carries(e, g)
        PROVE  /\ e.at = desk[g].at \/ SizeComes(g)' \/ PlaceComes(g)'
               /\ e.ev = "logical" => e.mode = desk[g].mode \/ SizeComes(g)'
    <2>1. LastTrue(wire, g, desk[g])  BY <1>6 DEF OutInv, HeadOk
    <2>2. /\ 1 \in 1 .. Len(wire) /\ wire[1] = e /\ Len(wire) \in Nat /\ Len(wire') = Len(wire) - 1
          /\ \A i \in 1 .. Len(wire') : i + 1 \in 1 .. Len(wire) /\ wire'[i] = wire[i + 1]
      BY HeardPlaces
    <2>3. ASSUME NEW j \in 1 + 1 .. Len(wire)
          PROVE  j - 1 \in 1 .. Len(wire') /\ wire'[j - 1] = wire[j]
      BY <2>2
    <2>4. /\ (\A j \in 1 + 1 .. Len(wire) : ~Carries(wire[j], g)) => e.at = desk[g].at
          /\ /\ e.ev = "logical" /\ e.head = g
             /\ \A j \in 1 + 1 .. Len(wire) : ~(wire[j].ev = "logical" /\ wire[j].head = g)
             => e.mode = desk[g].mode
      BY <2>1, <2>2, <1>6 DEF LastTrue
    <2>5. ASSUME NEW j \in 1 + 1 .. Len(wire), Carries(wire[j], g) PROVE SizeComes(g)' \/ PlaceComes(g)'
      BY <2>3, <2>5 DEF Carries, SizeComes, PlaceComes, Holds
    <2>6. ASSUME NEW j \in 1 + 1 .. Len(wire), wire[j].ev = "logical", wire[j].head = g PROVE SizeComes(g)'
      BY <2>3, <2>6 DEF SizeComes, Holds
    <2>7. e.head = g  BY <1>6 DEF Carries
    <2> QED  BY <2>4, <2>5, <2>6, <2>7
  <1>7. ASSUME Plugged(g)
        PROVE  /\ p.at = desk[g].at \/ SizeComes(g)' \/ PlaceComes(g)'
               /\ p.logical = TrueWidth(desk[g].mode) \/ SizeComes(g)' \/ ~p.xdg
               /\ g \in told.wl \/ AskIn(asks', "bind", g)
               /\ p.xdg => g \in told.xdg \/ AskIn(asks', "xdg", g)
               /\ Measured(p) \/ PlaceComes(g)'
    <2>1. /\ o.at = desk[g].at \/ SizeComes(g) \/ PlaceComes(g)
          /\ o.logical = TrueWidth(desk[g].mode) \/ SizeComes(g) \/ ~o.xdg
          /\ g \in told.wl \/ AskIn(asks, "bind", g)
          /\ o.xdg => g \in told.xdg \/ AskIn(asks, "xdg", g)
          /\ Measured(o) \/ PlaceComes(g)
      BY <1>7 DEF Follows
    <2>2. p.at = desk[g].at \/ SizeComes(g)' \/ PlaceComes(g)'
      <3>1. CASE Carries(e, g)
        <4>1. p.at = e.at  BY <3>1 DEF Carries
        <4> QED  BY <4>1, <3>1, <1>6, <1>7
      <3>2. CASE ~Carries(e, g)
        BY <3>2, <2>1, <1>4, <1>5 DEF Carries
      <3> QED  BY <3>1, <3>2
    <2>3. p.logical = TrueWidth(desk[g].mode) \/ SizeComes(g)' \/ ~p.xdg
      <3>1. CASE e.ev = "logical" /\ e.head = g
        <4>1. e.mode = desk[g].mode \/ SizeComes(g)'  BY <3>1, <1>6, <1>7 DEF Carries
        <4> QED  BY <4>1, <3>1
      <3>2. CASE ~(e.ev = "logical" /\ e.head = g)
        <4>1. TrueWidth(desk[g].mode) # 0
          <5>1. desk[g].mode \in 1 .. 2  BY DEF OutInv, OutTypes, Monitors
          <5> QED  BY <5>1 DEF TrueWidth
        <4> QED  BY <4>1, <3>2, <2>1, <1>4
      <3> QED  BY <3>1, <3>2
    <2>4. Measured(p) \/ PlaceComes(g)'  BY <2>1, <1>5
    <2> QED  BY <2>1, <2>2, <2>3, <2>4
  <1>8. Follows(p)'  BY <1>1, <1>3, <1>7 DEF Follows
  <1> QED  BY <1>2, <1>8

\* outputs_serial has moved, or some monitor's change is still to be announced.
LEMMA HeardPicture ==
  ASSUME OutInv, Hear, wlPhase' = wlPhase, outSerial' = outSerial \/ outSerial' = outSerial + 1,
         outSerial' = outSerial =>
           \/ (\E k \in DOMAIN outs : ~outs[k].dead /\ ToCome(outs[k].head))'
           \/ /\ outs' = outs
              /\ \A k \in DOMAIN outs : ~outs[k].dead /\ ToCome(outs[k].head) => ToCome(outs[k].head)'
  PROVE  PictureOk'
  <1>1. picture' = picture /\ PictureOk /\ outSerial \in Nat /\ picture.serial \in Nat
    BY HeardPlaces DEF OutInv, OutTypes, Pictures
  <1>2. outs' = outs => View' = View  BY DEF View, LiveOutputs, LiveAt
  <1>3. CASE outSerial' = outSerial + 1
    <2>1. picture'.serial <= outSerial' /\ picture'.serial # outSerial'  BY <1>1, <1>3 DEF PictureOk
    <2> QED  BY <2>1, <1>1 DEF PictureOk
  <1>4. CASE outSerial' = outSerial
    BY <1>1, <1>2, <1>4 DEF PictureOk
  <1> QED  BY <1>3, <1>4

\* What registry_global asks about a monitor.
GlobalAsk(h) == <<[req |-> "bind", head |-> h]>> \o (IF manager THEN <<[req |-> "xdg", head |-> h]>> ELSE <<>>)
AsksAbout(a, h) ==
  /\ a \in Seq(OutAsks) /\ \A i \in 1 .. Len(a) : a[i].req \in {"bind", "xdg"} /\ a[i].head = h
  /\ AskIn(a, "bind", h) /\ (AskIn(a, "xdg", h) <=> manager)
  /\ \A g : BoundFirst(a, g) /\ (g # h => ~AskIn(a, "bind", g) /\ ~AskIn(a, "xdg", g))

\* It binds the output first, and asks for its size when the manager is known.
LEMMA GlobalAsks ==
  ASSUME NEW h \in Heads, manager \in BOOLEAN, NEW a, a = GlobalAsk(h)
  PROVE  AsksAbout(a, h)
  <1> DEFINE b == [req |-> "bind", head |-> h]
             x == [req |-> "xdg", head |-> h]
  <1>1. b \in OutAsks /\ x \in OutAsks /\ b.req = "bind" /\ b.head = h /\ x.req = "xdg" /\ x.head = h
    BY DEF OutAsks
  <1>2. a = <<b>> \o (IF manager THEN <<x>> ELSE <<>>)  BY DEF GlobalAsk
  <1> HIDE DEF b, x
  <1>3. CASE manager
    <2>1. a = <<b>> \o <<x>>  BY <1>2, <1>3
    <2>2. a \in Seq(OutAsks) /\ Len(a) = 2 /\ a[1] = b /\ a[2] = x /\ 1 .. 2 = {1, 2} /\ 1 .. 2 - 1 = {1} /\ 1 .. 1 - 1 = {}
      BY <2>1, <1>1
    <2>3. AskIn(a, "bind", h) /\ AskIn(a, "xdg", h)  BY <2>2, <1>1 DEF AskIn
    <2>4. \A g : BoundFirst(a, g) /\ (g # h => ~AskIn(a, "bind", g) /\ ~AskIn(a, "xdg", g))
      BY <2>2, <1>1 DEF AskIn, BoundFirst
    <2>5. \A i \in 1 .. Len(a) : a[i].req \in {"bind", "xdg"} /\ a[i].head = h
      BY <2>2, <1>1
    <2> QED  BY <2>2, <2>3, <2>4, <2>5, <1>3 DEF AsksAbout
  <1>4. CASE ~manager
    <2>1. a = <<b>>
      <3>1. a = <<b>> \o <<>>  BY <1>2, <1>4
      <3>2. <<b>> \in Seq(OutAsks)  BY <1>1
      <3>3. <<b>> \o <<>> = <<b>>  BY <3>2
      <3> QED  BY <3>1, <3>3
    <2>0. <<b>> \in Seq(OutAsks) /\ Len(<<b>>) = 1 /\ <<b>>[1] = b /\ 1 .. 1 = {1} /\ 1 .. 1 - 1 = {}
      BY <1>1
    <2>2. a \in Seq(OutAsks) /\ Len(a) = 1 /\ a[1] = b /\ 1 .. 1 = {1} /\ 1 .. 1 - 1 = {}
      BY <2>0, <2>1
    <2>3. AskIn(a, "bind", h) /\ ~AskIn(a, "xdg", h)  BY <2>2, <1>1 DEF AskIn
    <2>4. \A g : BoundFirst(a, g) /\ (g # h => ~AskIn(a, "bind", g) /\ ~AskIn(a, "xdg", g))
      BY <2>2, <1>1 DEF AskIn, BoundFirst
    <2>5. \A i \in 1 .. Len(a) : a[i].req \in {"bind", "xdg"} /\ a[i].head = h
      BY <2>2, <1>1
    <2> QED  BY <2>2, <2>3, <2>4, <2>5, <1>4 DEF AsksAbout
  <1> QED  BY <1>3, <1>4

\* The record of a new output.
LEMMA NewRecord ==
  ASSUME NEW h \in Heads, manager \in BOOLEAN, NEW n, n = [Output(h) EXCEPT !.xdg = manager]
  PROVE  n \in Records /\ n.head = h /\ ~n.dead /\ n.xdg = manager
  <1>1. n = [head |-> h, dead |-> FALSE, at |-> 0, width |-> 0, scale |-> 1, logical |-> 0, xdg |-> manager]
    BY DEF Output
  <1>2. CASE manager = TRUE
    <2>1. n = [head |-> h, dead |-> FALSE, at |-> 0, width |-> 0, scale |-> 1, logical |-> 0, xdg |-> TRUE]
      BY <1>1, <1>2
    <2>2. [head |-> h, dead |-> FALSE, at |-> 0, width |-> 0, scale |-> 1, logical |-> 0, xdg |-> TRUE] \in Records
      BY DEF Records
    <2>3. n.head = h /\ ~n.dead /\ n.xdg = TRUE  BY <2>1
    <2> QED  BY <2>1, <2>2, <2>3, <1>2
  <1>3. CASE manager = FALSE
    <2>1. n = [head |-> h, dead |-> FALSE, at |-> 0, width |-> 0, scale |-> 1, logical |-> 0, xdg |-> FALSE]
      BY <1>1, <1>3
    <2>2. [head |-> h, dead |-> FALSE, at |-> 0, width |-> 0, scale |-> 1, logical |-> 0, xdg |-> FALSE] \in Records
      BY DEF Records
    <2>3. n.head = h /\ ~n.dead /\ n.xdg = FALSE  BY <2>1
    <2> QED  BY <2>1, <2>2, <2>3, <1>3
  <1> QED  BY <1>2, <1>3

\* registry_global for an output: its record, and what is asked about it.
LEMMA GlobalHeard ==
  ASSUME OutInv, Hear, HearGlobal(Head(wire))
  PROVE  OutInv'
  <1>1. PICK e : e = Head(wire)  OBVIOUS
  <1>2. PICK h : h = e.head  OBVIOUS
  <1>3. /\ e.ev = "global" /\ h \in Heads /\ UNCHANGED <<wlPhase, manager, outSerial, early>>
        /\ manager \in BOOLEAN /\ asks \in Seq(OutAsks) /\ outs \in Seq(Records)
    <2>1. e \in OutEvents  BY <1>1, HeardPlaces
    <2> QED  BY <2>1, <1>1, <1>2, EventKinds DEF HearGlobal, OutInv, OutTypes
  <1>4. PICK n : n = [Output(h) EXCEPT !.xdg = manager]  OBVIOUS
  <1>5. n \in Records /\ n.head = h /\ ~n.dead /\ n.xdg = manager
    BY <1>3, <1>4, NewRecord
  <1>6. /\ outs' = Append(outs, n) /\ outs' \in Seq(Records) /\ Len(outs) \in Nat /\ Len(outs') = Len(outs) + 1
        /\ DOMAIN outs = 1 .. Len(outs) /\ DOMAIN outs' = 1 .. Len(outs')
        /\ \A k \in DOMAIN outs : k \in DOMAIN outs' /\ outs'[k] = outs[k]
        /\ \A k \in DOMAIN outs' : k \in DOMAIN outs \/ k = Len(outs) + 1
        /\ Len(outs) + 1 \in DOMAIN outs' /\ outs'[Len(outs) + 1] = n
    <2>1. outs' = Append(outs, n)  BY <1>1, <1>2, <1>4 DEF HearGlobal
    <2> QED  BY <2>1, <1>3, <1>5
  <1>7. PICK a : a = GlobalAsk(h)
    OBVIOUS
  <1>8. asks' = asks \o a  BY <1>1, <1>2, <1>7 DEF HearGlobal, Asks, GlobalAsk
  <1>9. /\ a \in Seq(OutAsks) /\ \A i \in 1 .. Len(a) : a[i].req \in {"bind", "xdg"} /\ a[i].head = h
        /\ AskIn(a, "bind", h) /\ (AskIn(a, "xdg", h) <=> manager)
        /\ \A g : BoundFirst(a, g) /\ (g # h => ~AskIn(a, "bind", g) /\ ~AskIn(a, "xdg", g))
    <2>1. AsksAbout(a, h)  BY <1>3, <1>7, GlobalAsks
    <2> QED  BY <2>1 DEF AsksAbout
  <1>10. /\ \A req, g : AskIn(asks', req, g) <=> AskIn(asks, req, g) \/ AskIn(a, req, g)
         /\ \A req, g : AskBefore(asks, req, g) => AskBefore(asks', req, g)
    BY <1>3, <1>8, <1>9, AskJoin
  <1>11. SyncOk' /\ BeginOk' /\ ManagerOk' /\ ThenDone(wire') /\ asks' \in Seq(OutAsks)
    BY <1>1, <1>3, <1>8, <1>9, HeardRest
  <1>12. OutTypes'
    BY <1>3, <1>6, <1>11, HeardPlaces DEF OutInv, OutTypes
  <1>13. HeadOk(h) /\ Holds(wire, "global", h) /\ ~Listed(h) /\ h \notin early /\ (Plugged(h) \/ Leaving(h)')
    <2>1. /\ 1 \in 1 .. Len(wire) /\ wire[1] = e /\ Len(wire) \in Nat /\ Len(wire') = Len(wire) - 1
          /\ \A i \in 1 .. Len(wire') : i + 1 \in 1 .. Len(wire) /\ wire'[i] = wire[i + 1]
      BY <1>1, HeardPlaces
    <2>2. Holds(wire, "global", h)  BY <2>1, <1>2, <1>3 DEF Holds
    <2>3. HeadOk(h)  BY <1>3 DEF OutInv
    <2>4. ASSUME ThenGone(wire, h) PROVE Leaving(h)'
      <3>1. PICK j \in 1 + 1 .. Len(wire) : wire[j].ev = "remove" /\ wire[j].head = h
        BY <2>1, <2>4, <1>2, <1>3 DEF ThenGone
      <3>2. j - 1 \in 1 .. Len(wire') /\ wire'[j - 1] = wire[j]  BY <2>1, <3>1
      <3> QED  BY <3>1, <3>2 DEF Leaving, Holds
    <2> QED  BY <2>2, <2>3, <2>4 DEF HeadOk
  <1>14. \A g : Listed(g)' <=> Listed(g) \/ g = h
    BY <1>5, <1>6 DEF Listed
  <1>15. ASSUME NEW g \in Heads PROVE HeadOk(g)' /\ AskedOk(g)'
    <2>1. Live(g) \/ g = h => Live(g)'  BY <1>5, <1>6 DEF Live
    <2>2. HeadOk(g)'
      <3>1. g \in early' => Listed(g)'  BY <1>3, <1>14 DEF OutInv, HeadOk
      <3> QED  BY <3>1, <2>1, <1>1, <1>2, <1>3, <1>14, HeardHead
    <2>3. AskedOk(g)'
      BY <1>8, <1>9, <1>14, HeardAsked
    <2> QED  BY <2>2, <2>3
  <1>16. Follows(n)' /\ InTime(n)'
    <2>1. /\ UNCHANGED <<desk, told, manages>> /\ (Plugged(h)' <=> Plugged(h))
      BY HeardPlaces DEF Plugged
    <2>2. PlaceComes(h)' /\ (manager => SizeComes(h)')
      BY <1>9, <1>10 DEF PlaceComes, SizeComes
    <2>3. Follows(n)'
      BY <2>1, <2>2, <1>5, <1>9, <1>10, <1>13 DEF Follows
    <2>4. manager \/ ~manages \/ wlPhase = "first"  BY DEF OutInv, ManagerOk
    <2>5. InTime(n)'  BY <2>1, <2>4, <1>3, <1>5, <1>13 DEF InTime
    <2> QED  BY <2>3, <2>5
  <1>17. RecordsOk'
    <2> SUFFICES ASSUME NEW k \in DOMAIN outs', ~outs'[k].dead
                 PROVE  Follows(outs[k])' /\ InTime(outs[k])'
      BY DEF RecordsOk
    <2>1. CASE k = Len(outs) + 1  BY <2>1, <1>6, <1>16
    <2>2. CASE k \in DOMAIN outs
      <3>1. PICK o : o = outs[k]  OBVIOUS
      <3>2. Follows(o) /\ InTime(o) /\ o.head \in Heads
        BY <3>1, <2>2, <1>6, RecordsKnown DEF OutInv, RecordsOk
      <3>3. ~Carries(e, o.head)  BY <1>3 DEF Carries
      <3>4. Follows(o)' /\ InTime(o)'
        BY <3>2, <3>3, <1>1, <1>3, <1>10, HeardRecord
      <3> QED  BY <3>1, <3>4, <2>2, <1>6
    <2> QED  BY <2>1, <2>2, <1>6
  <1>18. PictureOk'
    <2>1. ToCome(h)'
      <3>1. Plugged(h)' <=> Plugged(h)  BY HeardPlaces DEF Plugged
      <3> QED  BY <3>1, <1>9, <1>10, <1>13 DEF ToCome
    <2>2. (\E k \in DOMAIN outs : ~outs[k].dead /\ ToCome(outs[k].head))'
      BY <2>1, <1>5, <1>6
    <2> QED  BY <2>2, <1>3, HeardPicture
  <1> QED  BY <1>11, <1>12, <1>15, <1>17, <1>18 DEF OutInv

\* A record o, live before and after, that becomes p.
Becomes(e, o, p) ==
  /\ p.xdg = o.xdg /\ (Measured(o) => Measured(p)) /\ (Sized(o) => Sized(p)) /\ (o.logical > 0 => p.logical > 0)
  /\ e.ev = "geometry" /\ e.head = o.head => Measured(p) /\ p.at = e.at
  /\ e.ev = "logical" /\ e.head = o.head => Sized(p) /\ p.at = e.at /\ p.logical = TrueWidth(e.mode)
  /\ ~Carries(e, o.head) => p.at = o.at
  /\ ~(e.ev = "logical" /\ e.head = o.head) => p.logical = o.logical \/ o.logical = 0

\* An event that changes records and asks nothing.
LEMMA UpdateHeard ==
  ASSUME OutInv, Hear, NEW e, e = Head(wire), e.ev \notin {"synced", "global"}, UNCHANGED <<wlPhase, early, asks>>,
         e.ev = "manager" => manager', e.ev # "manager" => manager' = manager, manager' \in BOOLEAN,
         outs' \in Seq(Records), DOMAIN outs' = DOMAIN outs,
         \A k \in DOMAIN outs : outs'[k].head = outs[k].head,
         \A k \in DOMAIN outs : ~outs'[k].dead =>
            /\ ~outs[k].dead /\ ~(e.ev = "remove" /\ e.head = outs[k].head)
            /\ Becomes(e, outs[k], outs'[k]),
         \A k \in DOMAIN outs : ~outs[k].dead => ~outs'[k].dead \/ (e.ev = "remove" /\ e.head = outs[k].head),
         outSerial' = outSerial \/ outSerial' = outSerial + 1,
         outSerial' = outSerial =>
           \/ outs' = outs /\ (e.ev \in {"done", "xdgdone", "remove"} => ~Live(e.head))
           \/ e.ev \in {"geometry", "logical"} /\ Live(e.head)
  PROVE  OutInv'
  <1>1. /\ asks \in Seq(OutAsks) /\ outs \in Seq(Records) /\ outSerial' \in Nat /\ <<>> \in Seq(OutAsks)
        /\ asks' = asks \o <<>> /\ \A i \in 1 .. Len(<<>>) : FALSE
    <2>1. asks \in Seq(OutAsks) /\ outs \in Seq(Records) /\ outSerial \in Nat  BY DEF OutInv, OutTypes
    <2>2. asks \o <<>> = asks /\ outSerial + 1 \in Nat  BY <2>1
    <2> QED  BY <2>1, <2>2
  <1>2. SyncOk' /\ BeginOk' /\ ManagerOk' /\ ThenDone(wire') /\ asks' \in Seq(OutAsks)
    <2>1. PICK a \in Seq(OutAsks) : a = <<>> /\ \A i \in 1 .. Len(a) : FALSE  BY <1>1
    <2>2. asks' = asks \o a  BY <1>1, <2>1
    <2>3. \A i \in 1 .. Len(a) : a[i].req \in {"bind", "xdg"}  BY <2>1
    <2> QED  BY <2>2, <2>3, HeardRest
  <1>3. OutTypes'
    BY <1>1, <1>2, HeardPlaces DEF OutInv, OutTypes
  <1>4. \A g : Listed(g)' <=> Listed(g)  BY DEF Listed
  <1>5. \A g : Live(g) => Live(g)' \/ (e.ev = "remove" /\ e.head = g)  BY DEF Live
  <1>6. ASSUME NEW g \in Heads PROVE HeadOk(g)' /\ AskedOk(g)'
    <2>1. HeadOk(g)'
      <3>1. g \in early' => Listed(g)'  BY <1>4 DEF OutInv, HeadOk
      <3> QED  BY <3>1, <1>4, <1>5, HeardHead
    <2>2. AskedOk(g)'
      <3>1. PICK a \in Seq(OutAsks) : a = <<>>  BY <1>1
      <3>2. asks' = asks \o a  BY <1>1, <3>1
      <3>3. \A i \in 1 .. Len(a) : FALSE  BY <1>1, <3>1
      <3>4. ~AskIn(a, "bind", g) /\ ~AskIn(a, "xdg", g) /\ BoundFirst(a, g)  BY <3>3 DEF AskIn, BoundFirst
      <3> QED  BY <3>2, <3>4, <1>4, HeardAsked
    <2> QED  BY <2>1, <2>2
  <1>7. RecordsOk'
    <2> SUFFICES ASSUME NEW k \in DOMAIN outs, ~outs'[k].dead
                 PROVE  Follows(outs[k])' /\ InTime(outs[k])'
      BY DEF RecordsOk
    <2>1. PICK o, p : o = outs[k] /\ p = outs'[k]  OBVIOUS
    <2>2. PICK g \in Heads : g = o.head  BY <2>1, RecordsKnown
    <2>3. Follows(o) /\ InTime(o)  BY <2>1 DEF OutInv, RecordsOk
    <2>4. p.head = g /\ Becomes(e, o, p) /\ ~(e.ev = "remove" /\ e.head = g)  BY <2>1, <2>2
    <2>5. p.head = g /\ p.xdg = o.xdg /\ ~(e.ev = "remove" /\ e.head = g)  BY <2>4 DEF Becomes
    <2>6. (Measured(o) => Measured(p)) /\ (Sized(o) => Sized(p)) /\ (o.logical > 0 => p.logical > 0)
      BY <2>4 DEF Becomes
    <2>7. /\ e.ev = "geometry" /\ e.head = g => Measured(p) /\ p.at = e.at
          /\ e.ev = "logical" /\ e.head = g => Sized(p) /\ p.at = e.at /\ p.logical = TrueWidth(e.mode)
      BY <2>2, <2>4 DEF Becomes
    <2>8. /\ ~Carries(e, g) => p.at = o.at
          /\ ~(e.ev = "logical" /\ e.head = g) => p.logical = o.logical \/ o.logical = 0
      BY <2>2, <2>4 DEF Becomes
    <2>9. Follows(p)' /\ InTime(p)'
      BY <2>2, <2>3, <2>5, <2>6, <2>7, <2>8, HeardRecord
    <2> QED  BY <2>1, <2>9
  <1>8. PictureOk'
    <2>1. ASSUME e.ev \in {"geometry", "logical"}, Live(e.head)
          PROVE  (\E k \in DOMAIN outs : ~outs[k].dead /\ ToCome(outs[k].head))'
      <3>1. /\ 1 \in 1 .. Len(wire) /\ wire[1] = e /\ Len(wire) \in Nat /\ Len(wire') = Len(wire) - 1
            /\ \A i \in 1 .. Len(wire') : i + 1 \in 1 .. Len(wire) /\ wire'[i] = wire[i + 1]
        BY HeardPlaces
      <3>2. PICK j \in 1 + 1 .. Len(wire) : wire[j].ev \in {"done", "xdgdone"} /\ wire[j].head = e.head
        <4>1. ThenDone(wire)  BY DEF OutInv
        <4>2. wire[1].ev \in {"geometry", "logical"} /\ wire[1].head = e.head  BY <3>1, <2>1
        <4> QED  BY <4>1, <4>2, <3>1 DEF ThenDone
      <3>3. j - 1 \in 1 .. Len(wire') /\ wire'[j - 1] = wire[j]  BY <3>1, <3>2
      <3>4. ToCome(e.head)'
        <4>1. PICK g : g = e.head  OBVIOUS
        <4>2. ToCome(g)'  BY <3>2, <3>3, <4>1 DEF ToCome, Holds
        <4>3. e' = e  OBVIOUS
        <4> QED  BY <4>1, <4>2
      <3>5. PICK k \in DOMAIN outs : outs[k].head = e.head /\ ~outs[k].dead  BY <2>1 DEF Live
      <3>6. k \in DOMAIN outs' /\ outs'[k].head = e.head /\ ~outs'[k].dead  BY <3>5, <2>1
      <3> QED  BY <3>4, <3>6
    <2>2. ASSUME outs' = outs, e.ev \in {"done", "xdgdone", "remove"} => ~Live(e.head),
                 NEW k \in DOMAIN outs, ~outs[k].dead, ToCome(outs[k].head)
          PROVE  ToCome(outs[k].head)'
      <3>1. PICK g : g = outs[k].head  OBVIOUS
      <3>2. e.ev \in {"done", "xdgdone", "remove"} => e.head # g  BY <3>1, <2>2 DEF Live
      <3>3. /\ (Plugged(g)' <=> Plugged(g)) /\ asks' = asks
            /\ \A ev : Holds(wire, ev, g) => Holds(wire', ev, g) \/ (e.ev = ev /\ e.head = g)
        BY HeardPlaces DEF Plugged
      <3>4. ToCome(g)'  BY <3>1, <3>2, <3>3, <2>2 DEF ToCome, Leaving
      <3> QED  BY <3>1, <3>4, <2>2
    <2> QED  BY <2>1, <2>2, HeardPicture
  <1> QED  BY <1>2, <1>3, <1>6, <1>7, <1>8 DEF OutInv

\* A list whose elements stay records.
LEMMA ListOfRecords ==
  ASSUME outs \in Seq(Records), DOMAIN outs' = DOMAIN outs, outs' = [i \in DOMAIN outs |-> outs'[i]],
         \A k \in DOMAIN outs : outs'[k] \in Records
  PROVE  outs' \in Seq(Records)
  <1>1. PICK n \in Nat : DOMAIN outs = 1 .. n  OBVIOUS
  <1>2. outs' = [i \in 1 .. n |-> outs'[i]] /\ \A i \in 1 .. n : outs'[i] \in Records  BY <1>1
  <1> QED  BY <1>2

\* A record that the event does not tell of is as it was.
LEMMA SameRecord ==
  ASSUME NEW e, NEW o, ~Carries(e, o.head)
  PROVE  Becomes(e, o, o)
  BY DEF Becomes, Carries

\* A record of another monitor is as it was.
LEMMA OtherRecord ==
  ASSUME NEW e, NEW o, e.head # o.head
  PROVE  Becomes(e, o, o)
  BY DEF Becomes, Carries

\* output_geometry, output_mode, output_scale.
LEMMA GeometryHeard ==
  ASSUME OutInv, Hear, HearGeometry(Head(wire))
  PROVE  OutInv'
  <1>1. PICK e : e = Head(wire)  OBVIOUS
  <1>2. /\ e.ev = "geometry" /\ e.at \in 0 .. 1 /\ e.mode \in 1 .. 2
        /\ UNCHANGED <<wlPhase, manager, outSerial, early, asks>>
        /\ manager \in BOOLEAN /\ outs \in Seq(Records)
    <2>1. e \in OutEvents  BY <1>1, HeardPlaces
    <2>2. e.ev = "geometry"  BY <1>1 DEF HearGeometry
    <2> QED  BY <2>1, <2>2, <1>1, EventKinds DEF HearGeometry, Quietly, OutInv, OutTypes
  <1>3. outs' = [i \in DOMAIN outs |->
                   IF outs[i].head = e.head /\ ~outs[i].dead
                   THEN [outs[i] EXCEPT !.at = e.at, !.width = Pixels(e.mode), !.scale = IntScale]
                   ELSE outs[i]]
    BY <1>1 DEF HearGeometry, Updated
  <1>4. DOMAIN outs' = DOMAIN outs /\ outs' = [i \in DOMAIN outs |-> outs'[i]]  BY <1>3
  <1>5. ASSUME NEW k \in DOMAIN outs
        PROVE  /\ outs'[k] \in Records /\ outs'[k].head = outs[k].head /\ outs'[k].dead = outs[k].dead
               /\ outs'[k].dead \/ Becomes(e, outs[k], outs'[k])
    <2>1. PICK o, p : o = outs[k] /\ p = outs'[k]  OBVIOUS
    <2>2. o \in Records  BY <2>1, RecordsKnown
    <2>3. CASE o.head = e.head /\ ~o.dead
      <3>1. p = [o EXCEPT !.at = e.at, !.width = Pixels(e.mode), !.scale = IntScale]
        BY <1>3, <2>1, <2>3
      <3>2. /\ p \in Records /\ p.head = o.head /\ p.dead = o.dead /\ p.xdg = o.xdg /\ p.at = e.at
            /\ p.logical = o.logical /\ Measured(p)
        <4>1. PICK at \in 0 .. 1, mode \in 1 .. 2 : at = e.at /\ mode = e.mode  BY <1>2
        <4>2. p = MeasuredAt(o, at, mode)  BY <3>1, <4>1 DEF MeasuredAt
        <4>3. /\ p \in Records /\ p.head = o.head /\ p.dead = o.dead /\ p.xdg = o.xdg /\ p.at = at
              /\ p.logical = o.logical /\ Measured(p)
          BY <4>2, <2>2, MeasuredRecord
        <4> QED  BY <4>1, <4>3
      <3>3. Becomes(e, o, p)  BY <3>2, <2>3, <1>2 DEF Becomes, Carries, Sized
      <3> QED  BY <3>2, <3>3, <2>1
    <2>4. CASE o.head # e.head \/ o.dead
      <3>1. p = o  BY <1>3, <2>1, <2>4
      <3> QED  BY <3>1, <2>1, <2>2, <2>4, OtherRecord
    <2> QED  BY <2>3, <2>4
  <1>6. outs' \in Seq(Records)  BY <1>2, <1>4, <1>5, ListOfRecords
  <1>7. ~Live(e.head) => outs' = outs
    <2>1. ASSUME ~Live(e.head), NEW k \in DOMAIN outs PROVE outs'[k] = outs[k]
      BY <2>1, <1>3 DEF Live
    <2> QED  BY <2>1, <1>2, <1>4
  <1> QED  BY <1>1, <1>2, <1>4, <1>5, <1>6, <1>7, UpdateHeard

\* xdg_output_logical_position, xdg_output_logical_size.
LEMMA LogicalHeard ==
  ASSUME OutInv, Hear, HearLogical(Head(wire))
  PROVE  OutInv'
  <1>1. PICK e : e = Head(wire)  OBVIOUS
  <1>2. /\ e.ev = "logical" /\ e.at \in 0 .. 1 /\ e.mode \in 1 .. 2
        /\ UNCHANGED <<wlPhase, manager, outSerial, early, asks>>
        /\ manager \in BOOLEAN /\ outs \in Seq(Records)
    <2>1. e \in OutEvents  BY <1>1, HeardPlaces
    <2>2. e.ev = "logical"  BY <1>1 DEF HearLogical
    <2> QED  BY <2>1, <2>2, <1>1, EventKinds DEF HearLogical, Quietly, OutInv, OutTypes
  <1>3. outs' = [i \in DOMAIN outs |->
                   IF outs[i].head = e.head /\ ~outs[i].dead
                   THEN [outs[i] EXCEPT !.at = e.at, !.logical = TrueWidth(e.mode)]
                   ELSE outs[i]]
    BY <1>1 DEF HearLogical, Updated
  <1>4. DOMAIN outs' = DOMAIN outs /\ outs' = [i \in DOMAIN outs |-> outs'[i]]  BY <1>3
  <1>5. ASSUME NEW k \in DOMAIN outs
        PROVE  /\ outs'[k] \in Records /\ outs'[k].head = outs[k].head /\ outs'[k].dead = outs[k].dead
               /\ outs'[k].dead \/ Becomes(e, outs[k], outs'[k])
    <2>1. PICK o, p : o = outs[k] /\ p = outs'[k]  OBVIOUS
    <2>2. o \in Records  BY <2>1, RecordsKnown
    <2>3. CASE o.head = e.head /\ ~o.dead
      <3>1. p = [o EXCEPT !.at = e.at, !.logical = TrueWidth(e.mode)]
        BY <1>3, <2>1, <2>3
      <3>2. /\ p \in Records /\ p.head = o.head /\ p.dead = o.dead /\ p.xdg = o.xdg /\ p.at = e.at
            /\ p.logical = TrueWidth(e.mode) /\ p.logical > 0 /\ Sized(p) /\ (Measured(o) => Measured(p))
        <4>1. PICK at \in 0 .. 1, mode \in 1 .. 2 : at = e.at /\ mode = e.mode  BY <1>2
        <4>2. p = SizedAt(o, at, mode)  BY <3>1, <4>1 DEF SizedAt
        <4>3. /\ p \in Records /\ p.head = o.head /\ p.dead = o.dead /\ p.xdg = o.xdg /\ p.at = at
              /\ p.logical = TrueWidth(mode) /\ p.logical > 0 /\ Sized(p) /\ (Measured(o) => Measured(p))
          BY <4>2, <2>2, SizedRecord
        <4> QED  BY <4>1, <4>3
      <3>3. Becomes(e, o, p)  BY <3>2, <2>3, <1>2 DEF Becomes, Carries
      <3> QED  BY <3>2, <3>3, <2>1
    <2>4. CASE o.head # e.head \/ o.dead
      <3>1. p = o  BY <1>3, <2>1, <2>4
      <3> QED  BY <3>1, <2>1, <2>2, <2>4, OtherRecord
    <2> QED  BY <2>3, <2>4
  <1>6. outs' \in Seq(Records)  BY <1>2, <1>4, <1>5, ListOfRecords
  <1>7. ~Live(e.head) => outs' = outs
    <2>1. ASSUME ~Live(e.head), NEW k \in DOMAIN outs PROVE outs'[k] = outs[k]
      BY <2>1, <1>3 DEF Live
    <2> QED  BY <2>1, <1>2, <1>4
  <1> QED  BY <1>1, <1>2, <1>4, <1>5, <1>6, <1>7, UpdateHeard

\* output_done.
LEMMA DoneHeard ==
  ASSUME OutInv, Hear, HearDone(Head(wire))
  PROVE  OutInv'
  <1>1. PICK e : e = Head(wire)  OBVIOUS
  <1>2. /\ e.ev = "done" /\ UNCHANGED <<wlPhase, manager, early, asks>>
        /\ manager \in BOOLEAN /\ outs \in Seq(Records)
        /\ outSerial' = IF Live(e.head) THEN outSerial + 1 ELSE outSerial
    BY <1>1 DEF HearDone, Quietly, OutInv, OutTypes, Live
  <1>3. outs' = [i \in DOMAIN outs |->
                   IF outs[i].head = e.head /\ ~outs[i].dead THEN Finalized(outs[i]) ELSE outs[i]]
    BY <1>1 DEF HearDone, Updated
  <1>4. DOMAIN outs' = DOMAIN outs /\ outs' = [i \in DOMAIN outs |-> outs'[i]]  BY <1>3
  <1>5. ASSUME NEW k \in DOMAIN outs
        PROVE  /\ outs'[k] \in Records /\ outs'[k].head = outs[k].head /\ outs'[k].dead = outs[k].dead
               /\ outs'[k].dead \/ Becomes(e, outs[k], outs'[k])
    <2>1. PICK o, p : o = outs[k] /\ p = outs'[k]  OBVIOUS
    <2>2. o \in Records  BY <2>1, RecordsKnown
    <2>3. CASE o.head = e.head /\ ~o.dead
      <3>1. p = Finalized(o)  BY <1>3, <2>1, <2>3
      <3>2. /\ p \in Records /\ p.head = o.head /\ p.dead = o.dead /\ p.xdg = o.xdg /\ p.at = o.at
            /\ (p.logical = o.logical \/ o.logical = 0) /\ (o.logical > 0 => p.logical = o.logical)
            /\ (Measured(o) => Measured(p) /\ p.logical > 0) /\ (Sized(o) => Sized(p))
        BY <3>1, <2>2, FinalRecord
      <3>3. Becomes(e, o, p)  BY <3>2, <1>2 DEF Becomes, Carries
      <3> QED  BY <3>2, <3>3, <2>1
    <2>4. CASE o.head # e.head \/ o.dead
      <3>1. p = o  BY <1>3, <2>1, <2>4
      <3> QED  BY <3>1, <2>1, <2>2, <2>4, OtherRecord
    <2> QED  BY <2>3, <2>4
  <1>6. outs' \in Seq(Records)  BY <1>2, <1>4, <1>5, ListOfRecords
  <1>7. ~Live(e.head) => outs' = outs
    <2>1. ASSUME ~Live(e.head), NEW k \in DOMAIN outs PROVE outs'[k] = outs[k]
      BY <2>1, <1>3 DEF Live
    <2> QED  BY <2>1, <1>2, <1>4
  <1>8. /\ outSerial' = outSerial \/ outSerial' = outSerial + 1
        /\ outSerial' = outSerial => outs' = outs /\ ~Live(e.head)
    <2>1. outSerial \in Nat  BY DEF OutInv, OutTypes
    <2> QED  BY <2>1, <1>2, <1>7
  <1> QED  BY <1>1, <1>2, <1>4, <1>5, <1>6, <1>8, UpdateHeard

\* xdg_output_done; registry_global for the manager.
LEMMA XdgDoneHeard ==
  ASSUME OutInv, Hear, HearXdgDone(Head(wire)) \/ HearManager(Head(wire))
  PROVE  OutInv'
  <1>1. PICK e : e = Head(wire)  OBVIOUS
  <1>2. /\ e.ev \in {"xdgdone", "manager"} /\ UNCHANGED <<wlPhase, early, asks, outs>>
        /\ e.ev = "manager" => manager'
        /\ e.ev # "manager" => manager' = manager
        /\ manager' \in BOOLEAN /\ outs \in Seq(Records) /\ outSerial \in Nat
        /\ outSerial' = IF e.ev = "xdgdone" /\ Live(e.head) THEN outSerial + 1 ELSE outSerial
    BY <1>1 DEF HearXdgDone, HearManager, Quietly, OutInv, OutTypes, Live
  <1>3. /\ outSerial' = outSerial \/ outSerial' = outSerial + 1
        /\ outSerial' = outSerial => outs' = outs /\ (e.ev \in {"done", "xdgdone", "remove"} => ~Live(e.head))
    BY <1>2
  <1>4. ASSUME NEW k \in DOMAIN outs PROVE Becomes(e, outs[k], outs'[k])
    <2>1. PICK o : o = outs[k]  OBVIOUS
    <2>2. ~Carries(e, o.head)  BY <1>2 DEF Carries
    <2>3. Becomes(e, o, o)  BY <2>2, SameRecord
    <2> QED  BY <2>1, <2>3, <1>2
  <1> QED  BY <1>1, <1>2, <1>3, <1>4, UpdateHeard

\* registry_global_remove.
LEMMA RemoveHeard ==
  ASSUME OutInv, Hear, HearRemove(Head(wire))
  PROVE  OutInv'
  <1>1. PICK e : e = Head(wire)  OBVIOUS
  <1>2. /\ e.ev = "remove" /\ UNCHANGED <<wlPhase, manager, early, asks>>
        /\ manager \in BOOLEAN /\ outs \in Seq(Records) /\ outSerial \in Nat
    BY <1>1 DEF HearRemove, Quietly, OutInv, OutTypes
  <1>3. CASE ~Live(e.head)
    <2>1. outs' = outs /\ outSerial' = outSerial  BY <1>1, <1>3 DEF HearRemove, Live
    <2>2. ASSUME NEW k \in DOMAIN outs, ~outs[k].dead
          PROVE  e.head # outs[k].head /\ Becomes(e, outs[k], outs'[k])
      <3>1. PICK o : o = outs[k]  OBVIOUS
      <3>2. ~Carries(e, o.head)  BY <1>2 DEF Carries
      <3>3. Becomes(e, o, o)  BY <3>2, SameRecord
      <3>4. e.head # o.head  BY <3>1, <2>2, <1>3 DEF Live
      <3> QED  BY <3>1, <3>3, <3>4, <2>1
    <2> QED  BY <1>1, <1>2, <1>3, <2>1, <2>2, UpdateHeard
  <1>4. CASE Live(e.head)
    <2>1. outs' = [i \in DOMAIN outs |->
                     IF outs[i].head = e.head /\ ~outs[i].dead
                     THEN [outs[i] EXCEPT !.dead = TRUE, !.xdg = FALSE] ELSE outs[i]]
      BY <1>1, <1>4 DEF HearRemove, Updated, Live
    <2>2. outSerial' = outSerial + 1  BY <1>1, <1>4 DEF HearRemove, Live
    <2>3. DOMAIN outs' = DOMAIN outs /\ outs' = [i \in DOMAIN outs |-> outs'[i]]  BY <2>1
    <2>4. ASSUME NEW k \in DOMAIN outs
          PROVE  /\ outs'[k] \in Records /\ outs'[k].head = outs[k].head
                 /\ ~outs'[k].dead => ~outs[k].dead /\ e.head # outs[k].head /\ Becomes(e, outs[k], outs'[k])
                 /\ ~outs[k].dead => ~outs'[k].dead \/ e.head = outs[k].head
      <3>1. PICK o, p : o = outs[k] /\ p = outs'[k]  OBVIOUS
      <3>2. o \in Records  BY <3>1, RecordsKnown
      <3>3. CASE o.head = e.head /\ ~o.dead
        <4>1. p = [o EXCEPT !.dead = TRUE, !.xdg = FALSE]  BY <2>1, <3>1, <3>3
        <4>2. p \in Records /\ p.head = o.head /\ p.dead  BY <4>1, <3>2, GoneRecord
        <4> QED  BY <4>2, <3>1, <3>3
      <3>4. CASE o.head # e.head \/ o.dead
        <4>1. p = o  BY <2>1, <3>1, <3>4
        <4> QED  BY <4>1, <3>1, <3>2, <3>4, OtherRecord
      <3> QED  BY <3>3, <3>4
    <2>5. outs' \in Seq(Records)  BY <1>2, <2>3, <2>4, ListOfRecords
    <2>6. outSerial' # outSerial  BY <2>2, <1>2
    <2> QED  BY <1>1, <1>2, <2>2, <2>3, <2>4, <2>5, <2>6, UpdateHeard
  <1> QED  BY <1>3, <1>4

-----------------------------------------------------------------------------
(* The end of a roundtrip of grabit_wl_init.                               *)

\* What was asked before the sync has been answered, and the answer is heard or
\* nothing.
LEMMA SyncedPlaces ==
  ASSUME OutInv, Hear, HearSynced(Head(wire))
  PROVE  /\ UNCHANGED <<manager, outSerial>> /\ (manages => manager)
         /\ \A i \in 1 .. Len(asks) : asks[i].req # "sync"
         /\ \A i \in 1 .. Len(wire') : wire'[i].ev # "synced"
         /\ \A h, ev : ev # "synced" => ~Before(wire, ev, h) /\ (Holds(wire', ev, h) <=> Holds(wire, ev, h))
         /\ \A h, ev : Holds(wire', ev, h) => Before(wire', ev, h)
         /\ \A h, req : ~AskBefore(asks, req, h)
         /\ wlPhase \in {"first", "second", "third"} /\ picture = NoPicture
  <1>1. Head(wire).ev = "synced" /\ UNCHANGED <<manager, outSerial>> /\ wlPhase \in {"first", "second", "third"}
    BY DEF HearSynced, FirstSynced, SecondSynced, ThirdSynced
  <1>2. /\ wire \in Seq(OutEvents) /\ wire # <<>> /\ wire' = Tail(wire) /\ Announced
        /\ Len(wire') \in Nat
        /\ \A i \in 1 .. Len(wire') : i + 1 \in 1 .. Len(wire) /\ wire'[i] = wire[i + 1] /\ i + 1 # 1
        /\ 1 \in 1 .. Len(wire) /\ wire[1] = Head(wire)
    BY HeardPlaces
  <1>3. \A i \in 1 .. Len(asks) : asks[i].req # "sync"
    BY <1>1, <1>2 DEF OutInv, SyncOk
  <1>4. \A i \in 1 .. Len(wire') : wire'[i].ev # "synced"
    BY <1>1, <1>2 DEF OutInv, SyncOk
  <1>5. \A h, ev : ev # "synced" => ~Before(wire, ev, h) /\ (Holds(wire', ev, h) <=> Holds(wire, ev, h))
    BY <1>1, <1>2, HoldsTail
  <1>6. \A h, ev : Holds(wire', ev, h) => Before(wire', ev, h)
    BY <1>2, <1>4, NoSyncBefore
  <1>7. \A h, req : ~AskBefore(asks, req, h)  BY <1>3 DEF AskBefore
  <1>8. manages => manager
    <2>1. ASSUME NEW i \in 1 .. Len(wire), \A j \in 1 .. i : wire[j].ev # "synced" PROVE FALSE
      <3>1. 1 \in 1 .. i  BY <1>2
      <3> QED  BY <3>1, <2>1, <1>1, <1>2
    <2> QED  BY <2>1, <1>2 DEF OutInv, ManagerOk
  <1>9. picture = NoPicture  BY <1>1 DEF OutInv, PictureOk
  <1> QED  BY <1>1, <1>3, <1>4, <1>5, <1>6, <1>7, <1>8, <1>9

\* The end of a roundtrip, whatever it does to the records.
LEMMA SyncHeard ==
  ASSUME OutInv, Hear, HearSynced(Head(wire)),
         NEW a \in Seq(OutAsks), asks' = asks \o a, \A i \in 1 .. Len(a) : a[i].req \in {"xdg", "sync"},
         \A i, j \in 1 .. Len(a) : a[i].req = "sync" /\ a[j].req = "sync" => i = j,
         \A g : AskIn(a, "xdg", g) => Live(g),
         wlPhase' \in {"second", "third", "ready", "failed"}, outs' \in Seq(Records), early' \subseteq Heads,
         \A g : Listed(g)' <=> Listed(g), \A g : Live(g) => Live(g)', \A g \in early' : Listed(g), RecordsOk'
  PROVE  OutInv'
  <1>1. /\ UNCHANGED <<manager, outSerial, manages, oldDone, desk, told, picture>> /\ (manages => manager)
        /\ wire' \in Seq(OutEvents) /\ ThenDone(wire')
        /\ \A i \in 1 .. Len(wire') : i + 1 \in 1 .. Len(wire) /\ wire'[i] = wire[i + 1]
        /\ \A i \in 1 .. Len(asks) : asks[i].req # "sync"
        /\ \A i \in 1 .. Len(wire') : wire'[i].ev # "synced"
        /\ Announced /\ picture = NoPicture /\ asks \in Seq(OutAsks)
    BY HeardPlaces, SyncedPlaces DEF OutInv, OutTypes
  <1>2. /\ asks' \in Seq(OutAsks) /\ DOMAIN asks' = 1 .. Len(asks') /\ Len(asks) \in Nat
        /\ \A k \in 1 .. Len(asks') : \/ k \in 1 .. Len(asks) /\ asks'[k] = asks[k]
                                      \/ \E i \in 1 .. Len(a) : k = Len(asks) + i /\ asks'[k] = a[i]
    <2>1. /\ asks \o a \in Seq(OutAsks) /\ Len(asks) \in Nat /\ Len(a) \in Nat
          /\ Len(asks \o a) = Len(asks) + Len(a)
          /\ \A i \in 1 .. Len(asks) : (asks \o a)[i] = asks[i]
          /\ \A i \in 1 .. Len(a) : (asks \o a)[Len(asks) + i] = a[i]
          /\ \A k \in 1 .. Len(asks \o a) :
               k \in 1 .. Len(asks) \/ \E i \in 1 .. Len(a) : k = Len(asks) + i
      <3>1. asks \in Seq(OutAsks) /\ a \in Seq(OutAsks)  BY <1>1
      <3> QED  BY ONLY <3>1, JoinPlaces
    <2>2. asks' \in Seq(OutAsks) /\ DOMAIN asks' = 1 .. Len(asks')  BY <2>1
    <2>3. ASSUME NEW k \in 1 .. Len(asks'), k \notin 1 .. Len(asks)
          PROVE  \E i \in 1 .. Len(a) : k = Len(asks) + i /\ asks'[k] = a[i]
      <3>1. PICK i \in 1 .. Len(a) : k = Len(asks) + i  BY <2>1, <2>3
      <3>2. asks'[k] = a[i]  BY <3>1, <2>1
      <3> QED  BY <3>1, <3>2
    <2>4. \A k \in 1 .. Len(asks) : asks'[k] = asks[k]  BY <2>1
    <2> QED  BY <2>1, <2>2, <2>3, <2>4
  <1>3. SyncOk'
    <2>1. ASSUME NEW k \in 1 .. Len(asks'), asks'[k].req = "sync"
          PROVE  \E i \in 1 .. Len(a) : k = Len(asks) + i /\ a[i].req = "sync"
      BY <1>1, <1>2, <2>1
    <2>2. \A i, j \in 1 .. Len(asks') : asks'[i].req = "sync" /\ asks'[j].req = "sync" => i = j
      BY <2>1
    <2> QED  BY <2>2, <1>1 DEF SyncOk
  <1>4. BeginOk'
    <2>1. \A k \in 1 .. Len(asks) : asks[k].req # "registry"  BY <1>1 DEF Announced
    <2>2. Announced'  BY <2>1, <1>2 DEF Announced
    <2> QED  BY <2>2 DEF BeginOk
  <1>5. ManagerOk'
    <2>1. ~manages => ~manager' /\ \A i \in 1 .. Len(wire') : wire'[i].ev # "manager"
      BY <1>1 DEF OutInv, ManagerOk
    <2> QED  BY <2>1, <1>1 DEF ManagerOk
  <1>6. ASSUME NEW g \in Heads PROVE HeadOk(g)' /\ AskedOk(g)'
    <2>1. PICK e : e = Head(wire)  OBVIOUS
    <2>2. e.ev = "synced"  BY <2>1 DEF HearSynced
    <2>3. HeadOk(g)'  BY <2>1, <2>2, HeardHead
    <2>4. \A i \in 1 .. Len(a) : a[i].req # "bind"  BY DEF AskIn
    <2>5. ~AskIn(a, "bind", g)  BY <2>4 DEF AskIn
    <2>6. Live(g) => Listed(g)  BY DEF Live, Listed
    <2>7. BoundFirst(a, g) \/ AskIn(asks, "bind", g) \/ g \in told.wl \/ ~Plugged(g)
      <3>1. ~AskIn(a, "xdg", g) => BoundFirst(a, g)  BY DEF AskIn, BoundFirst
      <3>2. ASSUME Live(g), Plugged(g) PROVE AskIn(asks, "bind", g) \/ g \in told.wl
        <4>1. PICK k \in DOMAIN outs : outs[k].head = g /\ ~outs[k].dead  BY <3>2 DEF Live
        <4>2. PICK o : o = outs[k]  OBVIOUS
        <4>3. Follows(o)  BY <4>1, <4>2 DEF OutInv, RecordsOk
        <4> QED  BY <4>1, <4>2, <4>3, <3>2 DEF Follows
      <3> QED  BY <3>1, <3>2
    <2>8. AskedOk(g)'  BY <2>5, <2>6, <2>7, HeardAsked
    <2> QED  BY <2>3, <2>8
  <1>7. PictureOk'
    <2>1. outSerial \in Nat /\ picture.serial = 0  BY <1>1 DEF OutInv, OutTypes, NoPicture
    <2> QED  BY <2>1, <1>1 DEF PictureOk
  <1>8. OutTypes'
    BY <1>1, <1>2 DEF OutInv, OutTypes
  <1> QED  BY <1>1, <1>3, <1>4, <1>5, <1>6, <1>7, <1>8 DEF OutInv

\* What one record says at the end of a roundtrip, before (o) and after (p).
LEMMA SyncedFollows ==
  ASSUME OutInv, Hear, HearSynced(Head(wire)), NEW g \in Heads, NEW o, NEW p, o.head = g, p.head = g, p.at = o.at,
         \A req : AskIn(asks, req, g) => AskIn(asks', req, g),
         p.xdg => o.xdg \/ AskIn(asks', "xdg", g),
         p.logical = o.logical \/ o.logical = 0, Measured(o) => Measured(p), Follows(o)
  PROVE  Follows(p)'
  <1>1. /\ UNCHANGED <<desk, told>> /\ (Plugged(g)' <=> Plugged(g))
        /\ \A ev : ev # "synced" => (Holds(wire', ev, g) <=> Holds(wire, ev, g))
    BY HeardPlaces, SyncedPlaces DEF Plugged
  <1>2. (Leaving(g) => Leaving(g)') /\ (PlaceComes(g) => PlaceComes(g)') /\ (SizeComes(g) => SizeComes(g)')
        /\ (AskIn(asks', "xdg", g) => SizeComes(g)')
    BY <1>1 DEF Leaving, PlaceComes, SizeComes
  <1>3. TrueWidth(desk[g].mode) # 0
    <2>1. desk[g].mode \in 1 .. 2  BY DEF OutInv, OutTypes, Monitors
    <2> QED  BY <2>1 DEF TrueWidth
  <1> QED  BY <1>1, <1>2, <1>3 DEF Follows

\* The first roundtrip ends: what is under way now comes before the second one
\* ends.
LEMMA FirstHeard ==
  ASSUME OutInv, Hear, HearSynced(Head(wire)), FirstSynced
  PROVE  OutInv'
  <1> DEFINE s == [req |-> "sync"]
  <1>1. /\ wlPhase = "first" /\ wlPhase' = "second" /\ outs' = outs /\ early' = {o.head : o \in LiveOutputs}
        /\ asks' = asks \o <<s>> /\ s \in OutAsks /\ s.req = "sync"
        /\ asks \in Seq(OutAsks) /\ outs \in Seq(Records)
    BY DEF FirstSynced, SyncAgain, Asks, OutAsks, OutInv, OutTypes
  <1> HIDE DEF s
  <1>2. PICK a \in Seq(OutAsks) : a = <<s>> /\ Len(a) = 1 /\ a[1] = s
    <2>1. <<s>> \in Seq(OutAsks) /\ Len(<<s>>) = 1 /\ <<s>>[1] = s  BY <1>1
    <2> QED  BY <2>1
  <1>3. /\ asks' = asks \o a /\ \A i \in 1 .. Len(a) : a[i].req = "sync" /\ i = 1
        /\ \E i \in 1 .. Len(a) : a[i].req = "sync"
    BY <1>1, <1>2
  <1>4. /\ \A req, g : AskIn(asks, req, g) => AskIn(asks', req, g) /\ AskBefore(asks', req, g)
    BY <1>1, <1>3, AskJoin
  <1>5. ASSUME NEW g \in early' PROVE g \in Heads /\ Listed(g)
    <2>1. PICK k \in DOMAIN outs : outs[k].head = g  BY <1>1, <1>5 DEF LiveOutputs, LiveAt
    <2> QED  BY <2>1, RecordsKnown DEF Listed
  <1>6. RecordsOk'
    <2> SUFFICES ASSUME NEW k \in DOMAIN outs, ~outs[k].dead
                 PROVE  Follows(outs[k])' /\ InTime(outs[k])'
      BY <1>1 DEF RecordsOk
    <2>1. PICK o : o = outs[k]  OBVIOUS
    <2>2. PICK g \in Heads : g = o.head  BY <2>1, RecordsKnown
    <2>3. Follows(o)  BY <2>1 DEF OutInv, RecordsOk
    <2>4. Follows(o)'  BY <2>2, <2>3, <1>4, SyncedFollows
    <2>5. /\ Leaving(g) => Before(wire', "remove", g)
          /\ PlaceComes(g) => AskBefore(asks', "bind", g) \/ Before(wire', "geometry", g)
      <3>1. /\ Holds(wire, "remove", g) => Before(wire', "remove", g)
            /\ Holds(wire, "geometry", g) => Before(wire', "geometry", g)
        BY SyncedPlaces
      <3> QED  BY <3>1, <1>4 DEF Leaving, PlaceComes
    <2>6. Leaving(g) \/ Measured(o) \/ PlaceComes(g)  BY <2>2, <2>3 DEF Follows
    <2>7. InTime(o)'  BY <2>2, <2>5, <2>6, <1>1 DEF InTime
    <2> QED  BY <2>1, <2>4, <2>7, <1>1
  <1>7. \A g : (Listed(g)' <=> Listed(g)) /\ (Live(g) => Live(g)')  BY <1>1 DEF Listed, Live
  <1>8. \A i \in 1 .. Len(a) : a[i].req \in {"xdg", "sync"}  BY <1>3
  <1>9. \A i, j \in 1 .. Len(a) : a[i].req = "sync" /\ a[j].req = "sync" => i = j  BY <1>3
  <1>10. \A g : ~AskIn(a, "xdg", g)  BY <1>3 DEF AskIn
  <1> QED  BY <1>1, <1>3, <1>5, <1>6, <1>7, <1>8, <1>9, <1>10, SyncHeard

\* grabit_wl_init returns.
LEMMA EndHeard ==
  ASSUME OutInv, Hear, HearSynced(Head(wire)), InitEnds(outs), UNCHANGED <<asks, early>>,
         \A k \in DOMAIN outs : /\ ~outs[k].dead /\ outs[k].head \in early
                                => /\ Measured(outs[k]) \/ outs[k].logical > 0
                                   /\ manages => Sized(outs[k])
         , \A k \in DOMAIN outs : ~outs[k].dead => outs[k].xdg \/ ~manages
  PROVE  OutInv'
  <1>1. /\ asks \in Seq(OutAsks) /\ outs \in Seq(Records) /\ early \subseteq Heads
        /\ DOMAIN outs' = DOMAIN outs /\ outs' = [i \in DOMAIN outs |-> outs'[i]]
        /\ wlPhase' \in {"ready", "failed"}
        /\ \A k \in DOMAIN outs : outs'[k] = Finalized(outs[k]) /\ wlPhase' = "ready"
    <2>1. asks \in Seq(OutAsks) /\ outs \in Seq(Records) /\ early \subseteq Heads  BY DEF OutInv, OutTypes
    <2>2. CASE outs = <<>>
      <3>1. outs' = <<>> /\ wlPhase' = "failed" /\ DOMAIN <<>> = {} /\ <<>> = [i \in DOMAIN <<>> |-> <<>>[i]]
        BY <2>2 DEF InitEnds
      <3>2. DOMAIN outs = {} /\ DOMAIN outs' = {}  BY <2>2, <3>1
      <3> QED  BY <2>1, <2>2, <3>1, <3>2
    <2>3. CASE outs # <<>>
      <3>1. outs' = [i \in DOMAIN outs |-> Finalized(outs[i])] /\ wlPhase' = "ready"  BY <2>3 DEF InitEnds
      <3> QED  BY <2>1, <3>1
    <2> QED  BY <2>2, <2>3
  <1>2. ASSUME NEW k \in DOMAIN outs, NEW o, NEW p, o = outs[k], p = outs'[k]
        PROVE  /\ p \in Records /\ p.head = o.head /\ p.dead = o.dead /\ p.xdg = o.xdg /\ p.at = o.at
               /\ (p.logical = o.logical \/ o.logical = 0) /\ (o.logical > 0 => p.logical = o.logical)
               /\ (Measured(o) => Measured(p) /\ p.logical > 0) /\ (Sized(o) => Sized(p))
    <2>1. o \in Records /\ p = Finalized(o)  BY <1>1, <1>2, RecordsKnown
    <2> QED  BY <2>1, FinalRecord
  <1>3. ASSUME NEW k \in DOMAIN outs
        PROVE  outs'[k] \in Records /\ outs'[k].head = outs[k].head /\ outs'[k].dead = outs[k].dead
    <2>1. PICK o, p : o = outs[k] /\ p = outs'[k]  OBVIOUS
    <2> QED  BY <2>1, <1>2
  <1>4. outs' \in Seq(Records)  BY <1>1, <1>3, ListOfRecords
  <1>5. \A g : (Listed(g)' <=> Listed(g)) /\ (Live(g) => Live(g)')  BY <1>1, <1>3 DEF Listed, Live
  <1>6. RecordsOk'
    <2> SUFFICES ASSUME NEW k \in DOMAIN outs, ~outs'[k].dead
                 PROVE  Follows(outs[k])' /\ InTime(outs[k])'
      BY <1>1 DEF RecordsOk
    <2>1. PICK o, p : o = outs[k] /\ p = outs'[k]  OBVIOUS
    <2>2. /\ p \in Records /\ p.head = o.head /\ p.dead = o.dead /\ p.xdg = o.xdg /\ p.at = o.at
          /\ (p.logical = o.logical \/ o.logical = 0) /\ (o.logical > 0 => p.logical = o.logical)
          /\ (Measured(o) => Measured(p) /\ p.logical > 0) /\ (Sized(o) => Sized(p))
      BY <2>1, <1>2
    <2>3. PICK g \in Heads : g = o.head  BY <2>1, RecordsKnown
    <2>4. ~o.dead /\ Follows(o)  BY <2>1, <2>2 DEF OutInv, RecordsOk
    <2>5. Follows(p)'  BY <2>2, <2>3, <2>4, SyncedFollows
    <2>6. manages' = manages /\ wlPhase' = "ready"  BY <1>1, HeardPlaces
    <2>7. /\ o.head \in early => (Measured(o) \/ o.logical > 0) /\ (manages => Sized(o))
          /\ o.xdg \/ ~manages
      BY <2>1, <2>4
    <2>8. InTime(p)'  BY <2>2, <2>6, <2>7 DEF InTime
    <2> QED  BY <2>1, <2>5, <2>8
  <1>7. PICK a \in Seq(OutAsks) : a = <<>> /\ asks' = asks \o a /\ \A i \in 1 .. Len(a) : FALSE
    <2>1. <<>> \in Seq(OutAsks) /\ asks \o <<>> = asks /\ \A i \in 1 .. Len(<<>>) : FALSE  BY <1>1
    <2> QED  BY <2>1
  <1>8. \A g : ~AskIn(a, "xdg", g)  BY <1>7 DEF AskIn
  <1>9. \A g \in early' : Listed(g)  BY <1>1 DEF OutInv, HeadOk
  <1> QED  BY <1>1, <1>4, <1>5, <1>6, <1>7, <1>8, <1>9, SyncHeard

\* What gwl_output_attach_xdg asks for at the end of the second roundtrip.
SizesAsked(a) ==
  /\ a \in Seq(OutAsks) /\ asks' = asks \o a /\ \A i \in 1 .. Len(a) : a[i].req \in {"xdg", "sync"}
  /\ \A i, j \in 1 .. Len(a) : a[i].req = "sync" /\ a[j].req = "sync" => i = j
  /\ \E i \in 1 .. Len(a) : a[i].req = "sync"
  /\ \A g : AskIn(a, "xdg", g) => Live(g)
  /\ \A k \in DOMAIN outs : ~outs[k].dead /\ ~outs[k].xdg => AskBefore(a, "xdg", outs[k].head)

\* Every live output that has no xdg_output gets one, and then the third
\* roundtrip begins.
LEMMA SizesAreAsked ==
  ASSUME OutInv, AsksSizes(<<[req |-> "sync"]>>)
  PROVE  \E a : SizesAsked(a)
  <1> DEFINE s == [req |-> "sync"]
             L == {i \in LiveAt : ~outs[i].xdg}
  <1>1. outs \in Seq(Records) /\ asks \in Seq(OutAsks)  BY DEF OutInv, OutTypes
  <1>2. IsFiniteSet(L)
    <2>1. PICK n \in Nat : DOMAIN outs = 1 .. n  BY <1>1
    <2>2. L \subseteq 1 .. n /\ IsFiniteSet(1 .. n)  BY <2>1, FS_Interval DEF LiveAt
    <2> QED  BY <2>2, FS_Subset
  <1>3. \A i \in L : i \in DOMAIN outs /\ ~outs[i].dead /\ ~outs[i].xdg /\ outs[i].head \in Heads
    BY RecordsKnown DEF LiveAt
  <1>4. PICK late \in SetToSeqs(L) :
          Asks([i \in DOMAIN late |-> [req |-> "xdg", head |-> outs[late[i]].head]] \o <<s>>)
    BY DEF AsksSizes
  <1>5. \A i \in DOMAIN outs : ~outs[i].dead /\ ~outs[i].xdg => i \in L  BY DEF LiveAt
  <1>6. s \in OutAsks /\ s.req = "sync"  BY DEF OutAsks
  <1> HIDE DEF s, L
  <1>7. /\ late \in Seq(L) /\ Len(late) \in Nat
        /\ \A x \in L : \E i \in 1 .. Len(late) : late[i] = x
    BY <1>2, OrderHasAll
  <1>8. PICK q : q = [i \in DOMAIN late |-> [req |-> "xdg", head |-> outs[late[i]].head]]  OBVIOUS
  <1>9. /\ q \in Seq(OutAsks) /\ Len(q) = Len(late)
        /\ \A i \in 1 .. Len(late) : q[i].req = "xdg" /\ q[i].head = outs[late[i]].head /\ late[i] \in L
    <2>1. DOMAIN late = 1 .. Len(late)  BY <1>7
    <2>2. \A i \in 1 .. Len(late) : late[i] \in L  BY <1>7
    <2>3. \A i \in 1 .. Len(late) : [req |-> "xdg", head |-> outs[late[i]].head] \in OutAsks
      BY <2>2, <1>3 DEF OutAsks
    <2>4. q = [i \in 1 .. Len(late) |-> [req |-> "xdg", head |-> outs[late[i]].head]]  BY <2>1, <1>8
    <2>5. q \in Seq(OutAsks) /\ Len(q) = Len(late)  BY <2>3, <2>4, <1>7
    <2> QED  BY <2>2, <2>4, <2>5
  <1>10. PICK a : a = q \o <<s>>  OBVIOUS
  <1>11. /\ a \in Seq(OutAsks) /\ Len(q) \in Nat /\ Len(a) = Len(q) + 1 /\ a[Len(q) + 1] = s
         /\ \A i \in 1 .. Len(q) : a[i] = q[i]
    BY <1>9, <1>10, <1>6
  <1>12. asks' = asks \o a  BY <1>4, <1>8, <1>10 DEF Asks
  <1>13. \A i \in 1 .. Len(a) : \/ i \in 1 .. Len(q) /\ a[i].req = "xdg" /\ a[i].head = outs[late[i]].head
                                \/ i = Len(q) + 1 /\ a[i].req = "sync"
    <2>1. ASSUME NEW i \in 1 .. Len(a), i # Len(q) + 1 PROVE i \in 1 .. Len(q)  BY <2>1, <1>11
    <2> QED  BY <2>1, <1>6, <1>9, <1>11
  <1>14. \A g : AskIn(a, "xdg", g) => Live(g)
    <2> SUFFICES ASSUME NEW g, AskIn(a, "xdg", g) PROVE Live(g)  OBVIOUS
    <2>1. PICK i \in 1 .. Len(a) : a[i].req = "xdg" /\ a[i].head = g  BY DEF AskIn
    <2>2. i \in 1 .. Len(late) /\ outs[late[i]].head = g  BY <2>1, <1>9, <1>13
    <2> QED  BY <2>2, <1>3, <1>9 DEF Live
  <1>15. ASSUME NEW k \in DOMAIN outs, ~outs[k].dead, ~outs[k].xdg
         PROVE  AskBefore(a, "xdg", outs[k].head)
    <2>1. PICK i \in 1 .. Len(late) : late[i] = k  BY <1>5, <1>7, <1>15
    <2>2. /\ i \in 1 .. Len(a) /\ Len(q) + 1 \in 1 .. Len(a) /\ i < Len(q) + 1 /\ a[i] = q[i] /\ a[Len(q) + 1] = s
      BY <2>1, <1>9, <1>11
    <2>3. a[i].req = "xdg" /\ a[i].head = outs[k].head /\ a[Len(q) + 1].req = "sync"
      BY <2>1, <2>2, <1>6, <1>9
    <2> QED  BY <2>2, <2>3 DEF AskBefore
  <1>16. /\ \A i \in 1 .. Len(a) : a[i].req \in {"xdg", "sync"}
         /\ \A i, j \in 1 .. Len(a) : a[i].req = "sync" /\ a[j].req = "sync" => i = j
    BY <1>13
  <1>17. \E i \in 1 .. Len(a) : a[i].req = "sync"
    <2>1. Len(q) + 1 \in 1 .. Len(a)  BY <1>11
    <2> QED  BY <2>1, <1>6, <1>11
  <1> QED  BY <1>11, <1>12, <1>14, <1>15, <1>16, <1>17 DEF SizesAsked

\* The record of an output whose size was asked for.
LEMMA AttachedRecord ==
  ASSUME NEW o \in Records, NEW p, p = [o EXCEPT !.xdg = TRUE]
  PROVE  /\ p \in Records /\ p.head = o.head /\ p.dead = o.dead /\ p.xdg /\ p.at = o.at
         /\ p.logical = o.logical /\ (Measured(o) => Measured(p)) /\ (Sized(o) => Sized(p))
  <1>1. /\ p \in Records /\ p.head = o.head /\ p.dead = o.dead /\ p.xdg = TRUE /\ p.at = o.at
        /\ p.logical = o.logical /\ p.width = o.width /\ p.scale = o.scale
    BY DEF Records
  <1> QED  BY <1>1 DEF Measured, Sized

\* The second roundtrip ends, with the manager bound.
LEMMA SecondHeard ==
  ASSUME OutInv, Hear, HearSynced(Head(wire)), SecondSynced, manager
  PROVE  OutInv'
  <1>1. /\ wlPhase = "second" /\ wlPhase' = "third" /\ early' = early /\ early \subseteq Heads
        /\ AsksSizes(<<[req |-> "sync"]>>)
        /\ outs' = [i \in DOMAIN outs |-> IF outs[i].dead THEN outs[i] ELSE [outs[i] EXCEPT !.xdg = TRUE]]
        /\ asks \in Seq(OutAsks) /\ outs \in Seq(Records)
    BY DEF SecondSynced, OutInv, OutTypes
  <1>2. PICK a : SizesAsked(a)  BY <1>1, SizesAreAsked
  <1>3. /\ a \in Seq(OutAsks) /\ asks' = asks \o a /\ \A i \in 1 .. Len(a) : a[i].req \in {"xdg", "sync"}
        /\ \A i, j \in 1 .. Len(a) : a[i].req = "sync" /\ a[j].req = "sync" => i = j
        /\ \E i \in 1 .. Len(a) : a[i].req = "sync"
        /\ \A g : AskIn(a, "xdg", g) => Live(g)
        /\ \A k \in DOMAIN outs : ~outs[k].dead /\ ~outs[k].xdg => AskBefore(a, "xdg", outs[k].head)
    BY <1>2 DEF SizesAsked
  <1>4. /\ \A req, g : AskIn(asks, req, g) => AskIn(asks', req, g) /\ AskBefore(asks', req, g)
        /\ \A req, g : AskBefore(a, req, g) => AskBefore(asks', req, g)
        /\ \A req, g : AskBefore(asks', req, g) => AskIn(asks', req, g)
    <2>1. \A req, g : AskBefore(asks', req, g) => AskIn(asks', req, g)  BY DEF AskBefore, AskIn
    <2> QED  BY <2>1, <1>1, <1>3, AskJoin
  <1>5. ASSUME NEW k \in DOMAIN outs, NEW o, NEW p, o = outs[k], p = outs'[k]
        PROVE  /\ p \in Records /\ p.head = o.head /\ p.dead = o.dead /\ p.at = o.at /\ (~o.dead => p.xdg)
               /\ p.logical = o.logical /\ (Measured(o) => Measured(p)) /\ (Sized(o) => Sized(p))
    <2>1. o \in Records  BY <1>5, RecordsKnown
    <2>2. CASE o.dead  BY <2>1, <2>2, <1>1, <1>5
    <2>3. CASE ~o.dead
      <3>1. p = [o EXCEPT !.xdg = TRUE]  BY <2>3, <1>1, <1>5
      <3> QED  BY <3>1, <2>1, AttachedRecord
    <2> QED  BY <2>2, <2>3
  <1>6. ASSUME NEW k \in DOMAIN outs
        PROVE  outs'[k] \in Records /\ outs'[k].head = outs[k].head /\ outs'[k].dead = outs[k].dead
    <2>1. PICK o, p : o = outs[k] /\ p = outs'[k]  OBVIOUS
    <2> QED  BY <2>1, <1>5
  <1>7. DOMAIN outs' = DOMAIN outs /\ outs' = [i \in DOMAIN outs |-> outs'[i]]  BY <1>1
  <1>8. outs' \in Seq(Records)  BY <1>1, <1>6, <1>7, ListOfRecords
  <1>9. \A g : (Listed(g)' <=> Listed(g)) /\ (Live(g) => Live(g)')  BY <1>6, <1>7 DEF Listed, Live
  <1>10. RecordsOk'
    <2> SUFFICES ASSUME NEW k \in DOMAIN outs, ~outs'[k].dead
                 PROVE  Follows(outs[k])' /\ InTime(outs[k])'
      BY <1>7 DEF RecordsOk
    <2>1. PICK o, p : o = outs[k] /\ p = outs'[k]  OBVIOUS
    <2>2. /\ p \in Records /\ p.head = o.head /\ p.dead = o.dead /\ p.at = o.at /\ (~o.dead => p.xdg)
          /\ p.logical = o.logical /\ (Measured(o) => Measured(p)) /\ (Sized(o) => Sized(p))
      BY <2>1, <1>5
    <2>3. PICK g \in Heads : g = o.head  BY <2>1, RecordsKnown
    <2>4. ~o.dead /\ Follows(o)  BY <2>1, <2>2 DEF OutInv, RecordsOk
    <2>5. o.xdg \/ AskBefore(asks', "xdg", g)  BY <2>1, <2>3, <2>4, <1>3, <1>4
    <2>6. Follows(p)'  BY <2>2, <2>3, <2>4, <2>5, <1>4, SyncedFollows
    <2>7. Sized(o) \/ AskBefore(asks', "xdg", g) \/ Before(wire', "logical", g) \/ Before(wire', "remove", g)
      <3>1. /\ Holds(wire, "remove", g) => Before(wire', "remove", g)
            /\ Holds(wire, "logical", g) => Before(wire', "logical", g)
        BY SyncedPlaces
      <3>2. CASE ~Plugged(g)  BY <3>1, <3>2, <2>3, <2>4 DEF Follows, Leaving
      <3>3. CASE Plugged(g) /\ o.xdg
        <4>1. o.logical = TrueWidth(desk[g].mode) \/ SizeComes(g)  BY <3>3, <2>3, <2>4 DEF Follows
        <4>2. desk[g].mode \in 1 .. 2  BY DEF OutInv, OutTypes, Monitors
        <4>3. Sized(o) \/ SizeComes(g)  BY <4>1, <4>2 DEF Sized
        <4> QED  BY <4>3, <3>1, <1>4 DEF SizeComes
      <3> QED  BY <3>2, <3>3, <2>5
    <2>8. InTime(p)'  BY <2>2, <2>3, <2>4, <2>7, <1>1 DEF InTime
    <2> QED  BY <2>1, <2>6, <2>8
  <1>11. \A g \in early' : Listed(g)  BY <1>1 DEF OutInv, HeadOk
  <1> QED  BY <1>1, <1>3, <1>8, <1>9, <1>10, <1>11, SyncHeard

\* The end of each roundtrip.
LEMMA SyncedHeard ==
  ASSUME OutInv, Hear, HearSynced(Head(wire))
  PROVE  OutInv'
  <1>1. /\ manages => manager
        /\ \A h, ev : ev # "synced" => ~Before(wire, ev, h)
        /\ \A h, req : ~AskBefore(asks, req, h)
    BY SyncedPlaces
  <1>2. CASE FirstSynced  BY <1>2, FirstHeard
  <1>3. CASE SecondSynced /\ manager  BY <1>3, SecondHeard
  <1>4. CASE SecondSynced /\ ~manager
    <2>1. wlPhase = "second" /\ InitEnds(outs) /\ UNCHANGED <<asks, early>> /\ ~manages
      BY <1>1, <1>4 DEF SecondSynced
    <2>2. ASSUME NEW k \in DOMAIN outs, ~outs[k].dead, outs[k].head \in early
          PROVE  Measured(outs[k]) \/ outs[k].logical > 0
      <3>1. PICK o : o = outs[k]  OBVIOUS
      <3>2. InTime(o)  BY <3>1, <2>2 DEF OutInv, RecordsOk
      <3>3. Measured(o) \/ o.logical > 0  BY <3>1, <3>2, <2>1, <2>2, <1>1 DEF InTime
      <3> QED  BY <3>1, <3>3
    <2> QED  BY <2>1, <2>2, EndHeard
  <1>5. CASE ThirdSynced
    <2>1. wlPhase = "third" /\ InitEnds(outs) /\ UNCHANGED <<asks, early>>  BY <1>5 DEF ThirdSynced
    <2>2. ASSUME NEW k \in DOMAIN outs, ~outs[k].dead
          PROVE  /\ outs[k].xdg \/ ~manages
                 /\ outs[k].head \in early => Sized(outs[k]) /\ outs[k].logical > 0
      <3>1. PICK o : o = outs[k]  OBVIOUS
      <3>2. InTime(o)  BY <3>1, <2>2 DEF OutInv, RecordsOk
      <3>3. (o.xdg \/ ~manages) /\ (o.head \in early => Sized(o))
        BY <3>2, <2>1, <1>1 DEF InTime
      <3>4. Sized(o) => o.logical > 0  BY DEF Sized, TrueWidth
      <3> QED  BY <3>1, <3>3, <3>4
    <2> QED  BY <2>1, <2>2, EndHeard
  <1> QED  BY <1>2, <1>3, <1>4, <1>5 DEF HearSynced

\* Every event.
LEMMA Heard == OutInv /\ Hear => OutInv'
  BY SyncedHeard, GlobalHeard, XdgDoneHeard, RemoveHeard, GeometryHeard, DoneHeard, LogicalHeard DEF Hear

\* A program that stays looks again.
LEMMA LookedAgain ==
  ASSUME OutInv, LookAgain
  PROVE  OutInv'
  <1>1. /\ UNCHANGED <<desk, manages, oldDone, told, asks, wire, wlPhase, manager, outs, outSerial, early>>
        /\ picture' = [serial |-> outSerial, view |-> View] /\ wlPhase = "ready" /\ outSerial \in Nat
    BY DEF LookAgain, OutInv, OutTypes
  <1>2. View \in SUBSET [head : Heads, at : 0 .. 1, w : Nat]
    <2>1. ASSUME NEW k \in DOMAIN outs
          PROVE  [head |-> outs[k].head, at |-> outs[k].at, w |-> outs[k].logical] \in [head : Heads, at : 0 .. 1, w : Nat]
      <3>1. outs[k] \in Records  BY RecordsKnown
      <3> QED  BY <3>1, RecordFields
    <2> QED  BY <2>1 DEF View, LiveOutputs, LiveAt
  <1>3. picture' \in Pictures /\ picture'.serial = outSerial /\ picture'.view = View
    BY <1>1, <1>2 DEF Pictures
  <1>4. OutTypes'  BY <1>1, <1>3 DEF OutInv, OutTypes
  <1>5. View' = View  BY <1>1 DEF View, LiveOutputs, LiveAt
  <1>6. PictureOk'  BY <1>1, <1>3, <1>5 DEF PictureOk
  <1>7. SyncOk' /\ BeginOk' /\ ManagerOk' /\ ThenDone(wire')
    BY <1>1 DEF OutInv, SyncOk, BeginOk, ManagerOk, Announced
  <1>8. ASSUME NEW h \in Heads PROVE HeadOk(h)' /\ AskedOk(h)'
    BY <1>1 DEF OutInv, HeadOk, AskedOk, Plugged, Listed, Leaving, Announced
  <1>9. RecordsOk'
    BY <1>1 DEF OutInv, RecordsOk, Follows, InTime, Plugged, Leaving, SizeComes, PlaceComes
  <1> QED  BY <1>4, <1>6, <1>7, <1>8, <1>9 DEF OutInv

\* A step of another part.
LEMMA NothingHeard ==
  ASSUME OutInv, UNCHANGED wlVars
  PROVE  OutInv'
  <1>1. UNCHANGED <<desk, manages, oldDone, told, asks, wire, wlPhase, manager, outs, outSerial, early, picture>>
    BY DEF wlVars
  <1>2. OutTypes'  BY <1>1 DEF OutInv, OutTypes
  <1>3. View' = View  BY <1>1 DEF View, LiveOutputs, LiveAt
  <1>4. \A h : ToCome(h)' <=> ToCome(h)  BY <1>1 DEF ToCome, Plugged, Leaving
  <1>5. PictureOk'
    <2>1. ASSUME NEW k \in DOMAIN outs, ToCome(outs[k].head) PROVE ToCome(outs[k].head)'
      <3>1. PICK g : g = outs[k].head  OBVIOUS
      <3>2. ToCome(g)'  BY <3>1, <2>1, <1>4
      <3> QED  BY <3>1, <3>2, <1>1
    <2>2. PictureOk  BY DEF OutInv
    <2> QED  BY <2>1, <2>2, <1>1, <1>3 DEF PictureOk
  <1>7. SyncOk' /\ BeginOk' /\ ManagerOk' /\ ThenDone(wire')
    BY <1>1 DEF OutInv, SyncOk, BeginOk, ManagerOk, Announced
  <1>8. ASSUME NEW h \in Heads PROVE HeadOk(h)' /\ AskedOk(h)'
    BY <1>1 DEF OutInv, HeadOk, AskedOk, Plugged, Listed, Leaving, Announced
  <1>9. RecordsOk'
    BY <1>1 DEF OutInv, RecordsOk, Follows, InTime, Plugged, Leaving, SizeComes, PlaceComes
  <1> QED  BY <1>2, <1>5, <1>7, <1>8, <1>9 DEF OutInv

\* The start.
LEMMA OutputsInit == WlInit => OutInv
  <1> SUFFICES ASSUME WlInit PROVE OutInv  OBVIOUS
  <1> DEFINE r == [req |-> "registry"]
             s == [req |-> "sync"]
  <1>1. /\ told = [wl |-> {}, xdg |-> {}] /\ asks = <<r, s>> /\ wire = <<>> /\ wlPhase = "first" /\ manager = FALSE
        /\ outs = <<>> /\ outSerial = 0 /\ early = {} /\ picture = NoPicture /\ manages \in BOOLEAN
        /\ oldDone \in BOOLEAN /\ r \in OutAsks /\ s \in OutAsks /\ r.req = "registry" /\ s.req = "sync"
    BY DEF WlInit, OutAsks
  <1>2. desk \in [Heads -> Monitors] /\ \A h \in Heads : desk[h].state \in {"on", "unseen"}
    BY DEF WlInit, Monitors
  <1>3. asks = <<[req |-> "registry"], [req |-> "sync"]>>  BY DEF WlInit
  <1> HIDE DEF r, s
  <1>4. asks \in Seq(OutAsks) /\ Len(asks) = 2 /\ asks[1] = r /\ asks[2] = s /\ 1 .. 2 = {1, 2}
    BY <1>1
  <1>5. \A i \in 1 .. Len(wire) : FALSE
    BY <1>1
  <1>6. OutTypes
    <2>1. picture \in Pictures  BY <1>1 DEF Pictures, NoPicture
    <2>2. wire \in Seq(OutEvents) /\ outs \in Seq(Records)  BY <1>1
    <2>3. told \in [wl : SUBSET Heads, xdg : SUBSET Heads]  BY <1>1
    <2> QED  BY <2>1, <2>2, <2>3, <1>1, <1>2, <1>4 DEF OutTypes
  <1>7. \A k \in DOMAIN outs : FALSE  BY <1>1
  <1>8. RecordsOk  BY <1>7 DEF RecordsOk
  <1>9. SyncOk  BY <1>4, <1>1, <1>5 DEF SyncOk
  <1>10. ~Announced
    <2>1. 1 \in DOMAIN asks /\ asks[1].req = "registry"  BY <1>1, <1>4
    <2> QED  BY <2>1 DEF Announced
  <1>11. BeginOk  BY <1>1, <1>3 DEF BeginOk
  <1>12. ManagerOk  BY <1>1, <1>5, <1>10 DEF ManagerOk
  <1>13. ThenDone(wire)  BY <1>5 DEF ThenDone
  <1>14. ASSUME NEW h \in Heads PROVE HeadOk(h) /\ AskedOk(h)
    <2>1. \A ev : ~Holds(wire, ev, h)  BY <1>5 DEF Holds
    <2>2. ~AskIn(asks, "bind", h) /\ ~AskIn(asks, "xdg", h)  BY <1>1, <1>4 DEF AskIn
    <2>3. BoundFirst(asks, h)  BY <2>2 DEF BoundFirst, AskIn
    <2>4. OneGlobal(wire, h) /\ LastTrue(wire, h, desk[h])  BY <1>5 DEF OneGlobal, LastTrue
    <2>5. ~Listed(h)  BY <1>7 DEF Listed
    <2>6. h \notin told.wl /\ h \notin told.xdg  BY <1>1
    <2> QED  BY <2>1, <2>2, <2>3, <2>4, <2>5, <2>6, <1>1, <1>10 DEF HeadOk, AskedOk, Leaving
  <1>15. PictureOk  BY <1>1 DEF PictureOk, NoPicture
  <1> QED  BY <1>6, <1>8, <1>9, <1>11, <1>12, <1>13, <1>14, <1>15 DEF OutInv

\* Every step.
LEMMA OutputsNext == OutInv /\ [WlNext]_wlVars => OutInv'
  <1> SUFFICES ASSUME OutInv, [WlNext]_wlVars PROVE OutInv'  OBVIOUS
  <1>1. CASE Serve  BY <1>1, Served, HeadsAssumption
  <1>2. ASSUME NEW h \in Heads, NEW at \in 0 .. 1, NEW mode \in 1 .. 2, Rearrange(h, at, mode) PROVE OutInv'
    BY <1>2, Rearranged
  <1>3. ASSUME NEW h \in Heads, Plug(h) PROVE OutInv'  BY <1>3, PluggedIn
  <1>4. ASSUME NEW h \in Heads, Unplug(h) PROVE OutInv'  BY <1>4, PluggedOut
  <1>5. CASE Hear  BY <1>5, Heard
  <1>6. CASE LookAgain  BY <1>6, LookedAgain
  <1>7. CASE UNCHANGED wlVars  BY <1>7, NothingHeard
  <1> QED  BY <1>1, <1>2, <1>3, <1>4, <1>5, <1>6, <1>7 DEF WlNext

-----------------------------------------------------------------------------
(* What the invariant gives.                                               *)

\* grabit_wl_init returns with the sizes.
LEMMA ReadyKnows == OutInv => KnownWhenReady
  <1> SUFFICES ASSUME OutInv, wlPhase = "ready", NEW k \in LiveAt, outs[k].head \in early
               PROVE  /\ outs[k].logical > 0
                      /\ manages => \E mode \in 1 .. 2 : outs[k].logical = TrueWidth(mode)
    BY DEF KnownWhenReady, LiveOutputs
  <1>1. PICK o : o = outs[k]  OBVIOUS
  <1>2. InTime(o)  BY <1>1 DEF OutInv, RecordsOk, LiveAt
  <1> QED  BY <1>1, <1>2 DEF InTime, Sized

\* Who has looked since the last bump sees what there is.
LEMMA SeenKnows == OutInv => KnownWhenSeen
  <1> SUFFICES ASSUME OutInv, wlPhase = "ready", manages, asks = <<>>, wire = <<>>, picture # NoPicture,
                      picture.serial = outSerial
               PROVE  picture.view = Truth
    BY DEF KnownWhenSeen
  <1>1. (\A i \in 1 .. Len(wire) : FALSE) /\ (\A i \in 1 .. Len(asks) : FALSE) /\ \A i \in DOMAIN asks : FALSE
    OBVIOUS
  <1>2. \A ev, h : ~Holds(wire, ev, h) /\ ~AskIn(asks, ev, h)  BY <1>1 DEF Holds, AskIn
  <1>3. picture.view = View
    <2>1. \A h : ~ToCome(h)  BY <1>2 DEF ToCome, Leaving
    <2> QED  BY <2>1 DEF OutInv, PictureOk
  <1>4. ASSUME NEW k \in DOMAIN outs, ~outs[k].dead
        PROVE  /\ outs[k].head \in Heads /\ Plugged(outs[k].head) /\ outs[k].at = desk[outs[k].head].at
               /\ outs[k].logical = TrueWidth(desk[outs[k].head].mode)
    <2>1. PICK o : o = outs[k]  OBVIOUS
    <2>2. Follows(o) /\ InTime(o) /\ o.head \in Heads  BY <2>1, <1>4, RecordsKnown DEF OutInv, RecordsOk
    <2>3. Plugged(o.head)  BY <2>2, <1>2 DEF Follows, Leaving
    <2>4. o.xdg  BY <2>2 DEF InTime
    <2>5. o.at = desk[o.head].at /\ o.logical = TrueWidth(desk[o.head].mode)
      BY <2>2, <2>3, <2>4, <1>2 DEF Follows, SizeComes, PlaceComes
    <2> QED  BY <2>1, <2>2, <2>3, <2>5
  <1>5. ASSUME NEW v \in View PROVE v \in Truth
    <2>1. PICK k \in DOMAIN outs :
             ~outs[k].dead /\ v = [head |-> outs[k].head, at |-> outs[k].at, w |-> outs[k].logical]
      BY <1>5 DEF View, LiveOutputs, LiveAt
    <2>2. PICK g : g = outs[k].head  OBVIOUS
    <2>3. g \in Heads /\ Plugged(g) /\ v = [head |-> g, at |-> desk[g].at, w |-> TrueWidth(desk[g].mode)]
      BY <2>1, <2>2, <1>4
    <2> QED  BY <2>3 DEF Truth
  <1>6. ASSUME NEW v \in Truth PROVE v \in View
    <2>1. PICK g \in Heads : Plugged(g) /\ v = [head |-> g, at |-> desk[g].at, w |-> TrueWidth(desk[g].mode)]
      BY <1>6 DEF Truth
    <2>2. Announced  BY <1>1 DEF Announced
    <2>3. PICK k \in DOMAIN outs : outs[k].head = g /\ ~outs[k].dead
      BY <2>1, <2>2, <1>2 DEF OutInv, HeadOk
    <2>4. v = [head |-> outs[k].head, at |-> outs[k].at, w |-> outs[k].logical]  BY <2>1, <2>3, <1>4
    <2> QED  BY <2>3, <2>4 DEF View, LiveOutputs, LiveAt
  <1>7. View = Truth  BY <1>5, <1>6
  <1> QED  BY <1>3, <1>7

\* grabit_wl_fullscreen_plan: the first places of the list, and the box of all.
LEMMA LeastPlace ==
  ASSUME NEW S, IsFiniteSet(S), S # {}, S \subseteq Nat
  PROVE  \E x \in S : \A y \in S : x <= y
  <1>1. PICK g : g = [y \in S |-> y]  OBVIOUS
  <1>2. \A y \in S : g[y] = y /\ g[y] \in Int  BY <1>1
  <1>3. PICK x \in S : \A y \in S : g[x] <= g[y]  BY <1>2, LeastExists
  <1> QED  BY <1>2, <1>3

\* The live records are finitely many.
LEMMA LiveCounted ==
  ASSUME OutInv
  PROVE  /\ IsFiniteSet(LiveAt) /\ LiveAt \subseteq Nat /\ LiveAt \subseteq DOMAIN outs /\ Cardinality(LiveAt) \in Nat
         /\ (Cardinality(LiveAt) > 0 <=> LiveAt # {})
  <1>1. outs \in Seq(Records)  BY DEF OutInv, OutTypes
  <1>2. PICK n \in Nat : DOMAIN outs = 1 .. n  BY <1>1
  <1>3. LiveAt \subseteq 1 .. n /\ IsFiniteSet(1 .. n)  BY <1>2, FS_Interval DEF LiveAt
  <1>4. IsFiniteSet(LiveAt)  BY <1>3, FS_Subset
  <1>5. Cardinality(LiveAt) \in Nat /\ (Cardinality(LiveAt) = 0 <=> LiveAt = {})
    BY <1>4, FS_CardinalityType, FS_EmptySet
  <1>6. Cardinality(LiveAt) > 0 <=> LiveAt # {}  BY <1>5
  <1>7. 1 .. n \subseteq Nat  OBVIOUS
  <1>8. LiveAt \subseteq Nat /\ LiveAt \subseteq DOMAIN outs  BY <1>2, <1>3, <1>7
  <1> QED  BY <1>4, <1>5, <1>6, <1>8

\* The first and the second of them are live records.
LEMMA NthIsLive ==
  ASSUME OutInv, NEW m \in {1, 2}, m <= Cardinality(LiveAt)
  PROVE  NthLive(m) \in LiveOutputs
  <1> DEFINE Upto(i) == {j \in LiveAt : j <= i}
  <1>1. IsFiniteSet(LiveAt) /\ LiveAt \subseteq Nat /\ Cardinality(LiveAt) \in Nat /\ LiveAt # {}
    BY LiveCounted
  <1>2. PICK a \in LiveAt : \A y \in LiveAt : a <= y  BY <1>1, LeastPlace
  <1>3. \E i \in LiveAt : Cardinality(Upto(i)) = m
    <2>1. CASE m = 1
      <3>1. Upto(a) = {a}
        <4>1. \A j \in LiveAt : j <= a => j = a  BY <1>1, <1>2
        <4>2. a <= a  BY <1>1
        <4> QED  BY <4>1, <4>2
      <3> QED  BY <3>1, <2>1, FS_Singleton
    <2>2. CASE m = 2
      <3> DEFINE R == LiveAt \ {a}
      <3>1. IsFiniteSet(R) /\ Cardinality(R) = Cardinality(LiveAt) - 1  BY <1>1, <1>2, FS_RemoveElement
      <3>2. R # {}  BY <3>1, <2>2, <1>1, FS_EmptySet
      <3>3. PICK b \in R : \A y \in R : b <= y  BY <3>1, <3>2, <1>1, LeastPlace
      <3>4. Upto(b) = {a, b} /\ a # b /\ b \in LiveAt
        <4>1. a # b /\ b \in LiveAt /\ a \in Nat /\ b \in Nat  BY <1>1, <3>3
        <4>2. ASSUME NEW j \in LiveAt, j <= b, j # a PROVE j = b
          <5>1. j \in R /\ j \in Nat  BY <4>2, <1>1
          <5>2. b <= j  BY <5>1, <3>3
          <5> QED  BY <5>1, <5>2, <4>1, <4>2
        <4>3. a <= b /\ b <= b  BY <4>1, <1>2
        <4> QED  BY <4>1, <4>2, <4>3
      <3>5. Cardinality({a}) = 1 /\ IsFiniteSet({a}) /\ {a, b} = {a} \cup {b}  BY FS_Singleton
      <3>6. Cardinality({a, b}) = 2  BY <3>4, <3>5, FS_AddElement
      <3> QED  BY <3>4, <3>6, <2>2
    <2> QED  BY <2>1, <2>2
  <1>4. (CHOOSE i \in LiveAt : Cardinality(Upto(i)) = m) \in LiveAt  BY <1>3
  <1> QED  BY <1>4 DEF NthLive, LiveOutputs

\* grabit_wl_outputs_bbox holds every live output.
LEMMA BoxHoldsAll ==
  ASSUME OutInv, NEW u \in View
  PROVE  Bbox.at <= u.at /\ u.at + u.w <= Bbox.at + Bbox.w
  <1>1. ASSUME NEW k \in LiveAt PROVE outs[k].at \in Int /\ outs[k].logical \in Int
    <2>1. PICK o \in Records : o = outs[k]  BY RecordsKnown DEF LiveAt
    <2> QED  BY <2>1, RecordFields
  <1>2. IsFiniteSet(LiveAt) /\ LiveAt # {}  BY LiveCounted DEF View, LiveOutputs
  <1>3. PICK g : g = [k \in LiveAt |-> outs[k].at]  OBVIOUS
  <1>4. PICK f : f = [k \in LiveAt |-> 0 - (outs[k].at + outs[k].logical)]  OBVIOUS
  <1>5. \A k \in LiveAt : /\ g[k] = outs[k].at /\ g[k] \in Int
                         /\ f[k] = 0 - (outs[k].at + outs[k].logical) /\ f[k] \in Int
    BY <1>1, <1>3, <1>4
  <1>6. PICK l \in LiveAt : \A k \in LiveAt : outs[l].at <= outs[k].at
    <2>1. PICK l \in LiveAt : \A k \in LiveAt : g[l] <= g[k]  BY <1>2, <1>5, LeastExists
    <2> QED  BY <2>1, <1>5
  <1>7. PICK r \in LiveAt : \A k \in LiveAt : outs[k].at + outs[k].logical <= outs[r].at + outs[r].logical
    <2>1. PICK r \in LiveAt : \A k \in LiveAt : f[r] <= f[k]  BY <1>2, <1>5, LeastExists
    <2> QED  BY <2>1, <1>1, <1>5
  <1> DEFINE lefts  == {v.at : v \in View}
             rights == {v.at + v.w : v \in View}
  <1>8. /\ \A v \in View : \E k \in LiveAt : v.at = outs[k].at /\ v.w = outs[k].logical
        /\ \A k \in LiveAt : \E v \in View : v.at = outs[k].at /\ v.w = outs[k].logical
    <2>1. ASSUME NEW v \in View PROVE \E k \in LiveAt : v.at = outs[k].at /\ v.w = outs[k].logical
      <3>1. PICK k \in LiveAt : v = [head |-> outs[k].head, at |-> outs[k].at, w |-> outs[k].logical]
        BY DEF View, LiveOutputs
      <3> QED  BY <3>1
    <2>2. ASSUME NEW k \in LiveAt PROVE \E v \in View : v.at = outs[k].at /\ v.w = outs[k].logical
      <3>1. PICK v : v = [head |-> outs[k].head, at |-> outs[k].at, w |-> outs[k].logical]  OBVIOUS
      <3>2. v \in View  BY <3>1 DEF View, LiveOutputs
      <3>3. v.at = outs[k].at /\ v.w = outs[k].logical  BY <3>1
      <3> QED  BY <3>2, <3>3
    <2> QED  BY <2>1, <2>2
  <1>9. PICK left : left = Min(lefts)  OBVIOUS
  <1>10. left \in Int /\ \A v \in View : left <= v.at
    <2>1. \E x \in lefts : \A y \in lefts : x =< y
      <3>1. PICK v \in View : v.at = outs[l].at  BY <1>8
      <3>2. \A y \in lefts : v.at =< y  BY <3>1, <1>6, <1>8
      <3> QED  BY <3>2
    <2>2. left \in lefts /\ \A y \in lefts : left =< y  BY <2>1, <1>9 DEF Min
    <2>3. left \in Int  BY <2>2, <1>1, <1>8
    <2> QED  BY <2>2, <2>3
  <1>11. PICK right : right = Max(rights)  OBVIOUS
  <1>12. right \in Int /\ \A v \in View : v.at + v.w <= right
    <2>1. \E x \in rights : \A y \in rights : x >= y
      <3>1. PICK v \in View : v.at = outs[r].at /\ v.w = outs[r].logical  BY <1>8
      <3>2. ASSUME NEW y \in rights PROVE v.at + v.w >= y
        <4>1. PICK k \in LiveAt : y = outs[k].at + outs[k].logical  BY <1>8
        <4> QED  BY <4>1, <3>1, <1>1, <1>7
      <3>3. v.at + v.w \in rights  OBVIOUS
      <3> QED  BY <3>2, <3>3
    <2>2. right \in rights /\ \A y \in rights : right >= y  BY <2>1, <1>11 DEF Max
    <2>3. PICK z \in View : right = z.at + z.w  BY <2>2
    <2>4. PICK k \in LiveAt : right = outs[k].at + outs[k].logical  BY <2>3, <1>8
    <2>5. right \in Int  BY <2>4, <1>1
    <2>6. ASSUME NEW v \in View PROVE v.at + v.w <= right
      <3>1. PICK j \in LiveAt : v.at = outs[j].at /\ v.w = outs[j].logical  BY <1>8
      <3>2. v.at + v.w \in Int  BY <3>1, <1>1
      <3>3. right >= v.at + v.w  BY <2>2
      <3> QED  BY <3>2, <3>3, <2>5
    <2> QED  BY <2>5, <2>6
  <1>13. Bbox = [at |-> left, w |-> right - left]  BY <1>9, <1>11 DEF Bbox
  <1>14. Bbox.at = left /\ Bbox.at + Bbox.w = right  BY <1>10, <1>12, <1>13
  <1> QED  BY <1>10, <1>12, <1>14

\* The plans.
LEMMA PlansKnown == OutInv => PlannedIsLive
  <1> DEFINE rects == {[at |-> v.at, w |-> v.w] : v \in View}
             Rect(o) == [at |-> o.at, w |-> o.logical]
             n == Cardinality(LiveAt)
  <1> SUFFICES ASSUME OutInv
               PROVE  /\ \A spec \in {""} \cup DOMAIN Number : FullscreenPlan(spec) \subseteq rects
                      /\ View # {} => FullscreenPlan("1") # {}
                      /\ \A p \in FullscreenPlan("all"), v \in rects :
                           p.at <= v.at /\ v.at + v.w <= p.at + p.w
    BY DEF PlannedIsLive
  <1>1. DOMAIN Number = {"1", "2"} /\ Number["1"] = 1 /\ Number["2"] = 2  BY DEF Number
  <1>2. ASSUME NEW o \in LiveOutputs PROVE Rect(o) \in rects
    <2>1. PICK v \in View : v = [head |-> o.head, at |-> o.at, w |-> o.logical]  BY <1>2 DEF View
    <2>2. v.at = o.at /\ v.w = o.logical  BY <2>1
    <2> QED  BY <2>2
  <1>3. n \in Nat /\ (n > 0 <=> LiveAt # {})  BY LiveCounted
  <1>4. FullscreenPlan("") \subseteq rects
    <2>1. FullscreenPlan("") = {Rect(o) : o \in LiveOutputs}  BY <1>1 DEF FullscreenPlan
    <2> QED  BY <2>1, <1>2
  <1>5. ASSUME NEW spec \in {"1", "2"}
        PROVE  FullscreenPlan(spec) \subseteq rects /\ (Number[spec] <= n => FullscreenPlan(spec) # {})
    <2>1. CASE Number[spec] <= n
      <3>1. FullscreenPlan(spec) = {Rect(NthLive(Number[spec]))}  BY <2>1, <1>1 DEF FullscreenPlan
      <3>2. Number[spec] \in {1, 2}  BY <1>1
      <3>3. NthLive(Number[spec]) \in LiveOutputs  BY <2>1, <3>2, NthIsLive
      <3> QED  BY <3>1, <3>3, <1>2
    <2>2. CASE ~(Number[spec] <= n)
      <3>1. FullscreenPlan(spec) = {}  BY <2>2, <1>1 DEF FullscreenPlan
      <3> QED  BY <3>1, <2>2
    <2> QED  BY <2>1, <2>2
  <1>6. View # {} => FullscreenPlan("1") # {}
    <2> SUFFICES ASSUME View # {} PROVE FullscreenPlan("1") # {}  OBVIOUS
    <2>1. LiveAt # {}  BY DEF View, LiveOutputs
    <2>2. Number["1"] <= n  BY <2>1, <1>1, <1>3
    <2> QED  BY <2>2, <1>5
  <1>7. ASSUME NEW p \in FullscreenPlan("all"), NEW v \in rects
        PROVE  p.at <= v.at /\ v.at + v.w <= p.at + p.w
    <2>1. PICK u \in View : v = [at |-> u.at, w |-> u.w]  OBVIOUS
    <2>2. p = Bbox
      <3>1. LiveAt # {}  BY <2>1 DEF View, LiveOutputs
      <3>2. FullscreenPlan("all") = {Bbox}  BY <3>1, <1>1, <1>3 DEF FullscreenPlan
      <3> QED  BY <3>2
    <2>3. v.at = u.at /\ v.w = u.w  BY <2>1
    <2> QED  BY <2>2, <2>3, BoxHoldsAll
  <1> QED  BY <1>1, <1>4, <1>5, <1>6, <1>7

\* In every state, what the process believes of a monitor is true or the truth
\* is on its way to it, in the order and in the time that the roundtrips of
\* grabit_wl_init (wl.c) and output_done (output.c) count on.
THEOREM OutputsStayOk == DesktopSpec => []OutInv
  <1>1. DesktopInit => OutInv
    BY OutputsInit DEF DesktopInit
  <1>2. OutInv /\ [DesktopNext]_desktopVars => OutInv'
    BY DesktopSteps, OutputsNext
  <1> QED  BY <1>1, <1>2, PTL DEF DesktopSpec

\* grabit_wl_init returns with the true sizes, who has looked since the last bump
\* of outputs_serial sees the arrangement there is, and a fullscreen capture
\* (grabit_wl_fullscreen_plan) is planned on a live monitor: for any monitors,
\* plugged, moved and unplugged at any moment, before, while and after they are
\* asked about.
THEOREM OutputsStayKnown == DesktopSpec => []OutputsAreKnown
  <1>1. OutInv => OutputsAreKnown
    BY ReadyKnows, SeenKnows, PlansKnown DEF OutputsAreKnown
  <1> QED  BY <1>1, OutputsStayOk, PTL
=============================================================================
