------------------------------- MODULE PinIpc -------------------------------
(***************************************************************************)
(* The socket and the lock file of a pin, and the commands that reach all  *)
(* pins through them: --pin-grab, --pin-release, --close-all               *)
(* (pin/pin_ipc.c, util/proc.c).                                           *)
(*                                                                         *)
(* A pin is known by its pid, which its two file names carry; a pid comes  *)
(* back after its process is gone (a life).  Every system call between     *)
(* which another process can act is a step.  A life creates at most one    *)
(* lock file, so an inode is named by that life; 0 is none.                *)
(***************************************************************************)
EXTENDS Naturals, Sequences, SequencesExt

CONSTANTS Pins, MaxLives,  \* pids, and how often each is used (a bound)
          Casts,           \* invocations that broadcast
          QueueMax         \* net.unix.max_dgram_qlen

ASSUME PinsAssumption == /\ MaxLives \in Nat \ {0} /\ QueueMax \in Nat \ {0}
                         /\ "nobody" \notin Pins

Messages == {"grab", "release", "close"}
Lives    == 1 .. MaxLives

VARIABLES
  pinPc,      \* per pin: where it is
  life,       \* per pin: how many processes have had this pid
  sockName,   \* per pin: the life whose socket the name refers to, or 0
  lockName,   \* per pin: the inode the lock's name refers to, or 0
  lockFd,     \* per pin: the inode it has open, or 0
  lockText,   \* per pin: the inodes in which the pid is written
  inbox,      \* per pin: datagrams
  grabbed,    \* per pin: st.input_grabbed
  castPc, castMsg, castTodo,
  castAt,     \* per broadcast: the pin it looks at, or "nobody"
  castFd,     \* per broadcast: the inode it has open, or 0
  castLost,   \* history, per broadcast: pins whose queue was full
  raced       \* history: pins a broadcast looked at while they were starting

pinVars  == <<pinPc, life, sockName, lockName, lockFd, lockText, inbox, grabbed>>
castVars == <<castPc, castMsg, castTodo, castAt, castFd, castLost>>
pinIpcVars == <<pinVars, castVars, raced>>

Starting == {"open", "flock", "truncate", "write"}
Bound    == Starting \cup {"serve", "end"}             \* its socket is open
Locked   == {"truncate", "write", "serve", "end", "sockClosed"}
Ended    == {"none", "gone"}

HoldsEx(p, i) == lockFd[p] = i /\ pinPc[p] \in Locked
HoldsSh(p, i) == \E c \in Casts : castAt[c] = p /\ castFd[c] = i /\ castPc[c] = "shared"
Visited(p)    == \E c \in Casts : castAt[c] = p

PinGoes(p, from, to) == pinPc[p] = from /\ pinPc' = [pinPc EXCEPT ![p] = to]

-----------------------------------------------------------------------------
(* pin_ipc_open.                                                           *)

\* Slip: a name left by an earlier process of this pid is not removed, so
\* bind finds it and the pin runs without its socket.
PinBindsOnly(p) ==
  /\ pinPc[p] \in Ended /\ life[p] < MaxLives
  /\ life' = [life EXCEPT ![p] = @ + 1]
  /\ pinPc' = [pinPc EXCEPT ![p] = IF sockName[p] = 0 THEN "open" ELSE "deaf"]
  /\ sockName' = [sockName EXCEPT ![p] = IF @ = 0 THEN life'[p] ELSE @]
  /\ raced' = IF Visited(p) THEN raced \cup {p} ELSE raced \ {p}
  /\ UNCHANGED <<lockName, lockFd, lockText, inbox, grabbed, castVars>>

\* unlink, socket, bind.
PinBinds(p) ==
  /\ pinPc[p] \in Ended /\ life[p] < MaxLives
  /\ life' = [life EXCEPT ![p] = @ + 1]
  /\ pinPc' = [pinPc EXCEPT ![p] = "open"]
  /\ sockName' = [sockName EXCEPT ![p] = life'[p]]
  /\ raced' = IF Visited(p) THEN raced \cup {p} ELSE raced \ {p}
  /\ UNCHANGED <<lockName, lockFd, lockText, inbox, grabbed, castVars>>

\* grabit_lock_acquire: open(O_CREAT).
PinOpensLock(p) ==
  /\ PinGoes(p, "open", "flock")
  /\ lockName' = [lockName EXCEPT ![p] = IF @ = 0 THEN life[p] ELSE @]
  /\ lockFd' = [lockFd EXCEPT ![p] = lockName'[p]]
  /\ UNCHANGED <<life, sockName, lockText, inbox, grabbed, castVars, raced>>

\* flock(LOCK_EX | LOCK_NB)
PinLocks(p) ==
  /\ PinGoes(p, "flock", "truncate") /\ ~HoldsSh(p, lockFd[p])
  /\ UNCHANGED <<life, sockName, lockName, lockFd, lockText, inbox, grabbed, castVars, raced>>

\* A broadcast holds it shared: the pin stays, but "ipc disabled".
PinRefused(p) ==
  /\ PinGoes(p, "flock", "deaf") /\ HoldsSh(p, lockFd[p])
  /\ lockFd' = [lockFd EXCEPT ![p] = 0]
  /\ sockName' = [sockName EXCEPT ![p] = 0]
  /\ inbox' = [inbox EXCEPT ![p] = <<>>]
  /\ UNCHANGED <<life, lockName, lockText, grabbed, castVars, raced>>

PinTruncates(p) ==
  /\ PinGoes(p, "truncate", "write")
  /\ lockText' = [lockText EXCEPT ![p] = @ \ {lockFd[p]}]
  /\ UNCHANGED <<life, sockName, lockName, lockFd, inbox, grabbed, castVars, raced>>

PinWritesPid(p) ==
  /\ PinGoes(p, "write", "serve")
  /\ lockText' = [lockText EXCEPT ![p] = @ \cup {lockFd[p]}]
  /\ UNCHANGED <<life, sockName, lockName, lockFd, inbox, grabbed, castVars, raced>>

-----------------------------------------------------------------------------
(* The pin's poll loop and its end.                                        *)

AfterMessage(g, m) == CASE m = "grab" -> TRUE [] m = "release" -> FALSE [] OTHER -> g

\* pin_ipc_handle drains the socket; gpin_main then looks at `finished`.
PinHandles(p) ==
  /\ pinPc[p] = "serve" /\ inbox[p] # <<>>
  /\ grabbed' = [grabbed EXCEPT ![p] = FoldLeft(AfterMessage, @, inbox[p])]
  /\ inbox' = [inbox EXCEPT ![p] = <<>>]
  /\ pinPc' = [pinPc EXCEPT ![p] = IF Contains(inbox[p], "close") THEN "end" ELSE "serve"]
  /\ UNCHANGED <<life, sockName, lockName, lockFd, lockText, castVars, raced>>

\* The close button, a signal, the last output gone.
PinFinishes(p) ==
  /\ pinPc[p] \in {"serve", "deaf"}
  /\ pinPc' = [pinPc EXCEPT ![p] = IF @ = "deaf" THEN "gone" ELSE "end"]
  /\ UNCHANGED <<life, sockName, lockName, lockFd, lockText, inbox, grabbed, castVars, raced>>

\* pin_ipc_close: close(ipc_fd), close(ipc_lock_fd), unlink(lock), unlink(socket).
PinClosesSocket(p) ==
  /\ PinGoes(p, "end", "sockClosed")
  /\ inbox' = [inbox EXCEPT ![p] = <<>>]
  /\ UNCHANGED <<life, sockName, lockName, lockFd, lockText, grabbed, castVars, raced>>

PinUnlocks(p) ==
  /\ PinGoes(p, "sockClosed", "unlocked")
  /\ lockFd' = [lockFd EXCEPT ![p] = 0]
  /\ UNCHANGED <<life, sockName, lockName, lockText, inbox, grabbed, castVars, raced>>

PinUnlinksLock(p) ==
  /\ PinGoes(p, "unlocked", "lockUnlinked")
  /\ lockName' = [lockName EXCEPT ![p] = 0]
  /\ UNCHANGED <<life, sockName, lockFd, lockText, inbox, grabbed, castVars, raced>>

PinUnlinksSocket(p) ==
  /\ PinGoes(p, "lockUnlinked", "gone")
  /\ sockName' = [sockName EXCEPT ![p] = 0]
  /\ grabbed' = [grabbed EXCEPT ![p] = FALSE]
  /\ UNCHANGED <<life, lockName, lockFd, lockText, inbox, castVars, raced>>

\* Killed: the kernel closes its files, the names stay.
PinDies(p) ==
  /\ pinPc[p] \notin Ended
  /\ pinPc' = [pinPc EXCEPT ![p] = "gone"]
  /\ lockFd' = [lockFd EXCEPT ![p] = 0]
  /\ inbox' = [inbox EXCEPT ![p] = <<>>]
  /\ grabbed' = [grabbed EXCEPT ![p] = FALSE]
  /\ UNCHANGED <<life, sockName, lockName, lockText, castVars, raced>>

-----------------------------------------------------------------------------
(* pin_ipc_broadcast.                                                      *)

CastGoes(c, from, to) == castPc[c] = from /\ castPc' = [castPc EXCEPT ![c] = to]

\* Done with the pin it looked at.
CastLeaves(c, from) ==
  /\ CastGoes(c, from, "next")
  /\ castAt' = [castAt EXCEPT ![c] = "nobody"]
  /\ castFd' = [castFd EXCEPT ![c] = 0]

\* The first readdir takes the whole, small, directory.
CastLists(c, m) ==
  /\ CastGoes(c, "list", "next")
  /\ castMsg' = [castMsg EXCEPT ![c] = m]
  /\ castTodo' = [castTodo EXCEPT ![c] = {p \in Pins : sockName[p] # 0}]
  /\ UNCHANGED <<pinVars, castAt, castFd, castLost, raced>>

\* grabit_lock_owner: open(O_RDONLY); without a file nobody owns it.
CastOpens(c, p) ==
  /\ p \in castTodo[c]
  /\ CastGoes(c, "next", IF lockName[p] = 0 THEN "unlinkSock" ELSE "opened")
  /\ castTodo' = [castTodo EXCEPT ![c] = @ \ {p}]
  /\ castAt' = [castAt EXCEPT ![c] = p]
  /\ castFd' = [castFd EXCEPT ![c] = lockName[p]]
  /\ raced' = IF pinPc[p] \in Starting THEN raced \cup {p} ELSE raced
  /\ UNCHANGED <<pinVars, castMsg, castLost>>

\* flock(LOCK_SH | LOCK_NB): it succeeds when nobody has the lock.
CastShares(c) ==
  /\ CastGoes(c, "opened", IF HoldsEx(castAt[c], castFd[c]) THEN "read" ELSE "shared")
  /\ UNCHANGED <<pinVars, castMsg, castTodo, castAt, castFd, castLost, raced>>

CastFindsNoOwner(c) ==
  /\ CastGoes(c, "shared", "unlinkSock")
  /\ castFd' = [castFd EXCEPT ![c] = 0]
  /\ UNCHANGED <<pinVars, castMsg, castTodo, castAt, castLost, raced>>

\* Held exclusively: read the pid.  An empty file names nobody.
CastReads(c) ==
  /\ CastGoes(c, "read", IF castFd[c] \in lockText[castAt[c]] THEN "send" ELSE "unlinkSock")
  /\ castFd' = [castFd EXCEPT ![c] = 0]
  /\ UNCHANGED <<pinVars, castMsg, castTodo, castAt, castLost, raced>>

CastUnlinksSocket(c) ==
  /\ CastGoes(c, "unlinkSock", "unlinkLock")
  /\ sockName' = [sockName EXCEPT ![castAt[c]] = 0]
  /\ UNCHANGED <<pinPc, life, lockName, lockFd, lockText, inbox, grabbed,
                 castMsg, castTodo, castAt, castFd, castLost, raced>>

CastUnlinksLock(c) ==
  /\ CastLeaves(c, "unlinkLock")
  /\ lockName' = [lockName EXCEPT ![castAt[c]] = 0]
  /\ UNCHANGED <<pinPc, life, sockName, lockFd, lockText, inbox, grabbed,
                 castMsg, castTodo, castLost, raced>>

\* Slip: the message is never sent.
CastSendsNothing(c) ==
  /\ CastLeaves(c, "send")
  /\ UNCHANGED <<pinVars, castMsg, castTodo, castLost, raced>>

\* sendto(MSG_DONTWAIT): nobody bound to the name, a full queue, or delivered.
CastSends(c) ==
  LET p == castAt[c]
      bound == sockName[p] = life[p] /\ pinPc[p] \in Bound
      full  == Len(inbox[p]) >= QueueMax
  IN /\ CastLeaves(c, "send")
     /\ inbox' = IF bound /\ ~full THEN [inbox EXCEPT ![p] = Append(@, castMsg[c])] ELSE inbox
     /\ castLost' = IF bound /\ full THEN [castLost EXCEPT ![c] = @ \cup {p}] ELSE castLost
     /\ UNCHANGED <<pinPc, life, sockName, lockName, lockFd, lockText, grabbed,
                    castMsg, castTodo, raced>>

CastEnds(c) == /\ castTodo[c] = {} /\ CastGoes(c, "next", "gone")
               /\ UNCHANGED <<pinVars, castMsg, castTodo, castAt, castFd, castLost, raced>>

-----------------------------------------------------------------------------
PinIpcInit ==
  /\ pinPc = [p \in Pins |-> "none"] /\ life = [p \in Pins |-> 0]
  /\ sockName = [p \in Pins |-> 0] /\ lockName = [p \in Pins |-> 0]
  /\ lockFd = [p \in Pins |-> 0] /\ lockText = [p \in Pins |-> {}]
  /\ inbox = [p \in Pins |-> <<>>] /\ grabbed = [p \in Pins |-> FALSE]
  /\ castPc = [c \in Casts |-> "list"] /\ castMsg = [c \in Casts |-> "grab"]
  /\ castTodo = [c \in Casts |-> {}] /\ castAt = [c \in Casts |-> "nobody"]
  /\ castFd = [c \in Casts |-> 0] /\ castLost = [c \in Casts |-> {}]
  /\ raced = {}

PinOpens(p)  == \/ PinOpensLock(p) \/ PinLocks(p) \/ PinRefused(p)
                \/ PinTruncates(p) \/ PinWritesPid(p)
PinCloses(p) == \/ PinClosesSocket(p) \/ PinUnlocks(p)
                \/ PinUnlinksLock(p) \/ PinUnlinksSocket(p)
CastSteps(c) == \/ \E p \in Pins : CastOpens(c, p)
                \/ CastShares(c) \/ CastFindsNoOwner(c) \/ CastReads(c)
                \/ CastUnlinksSocket(c) \/ CastUnlinksLock(c) \/ CastSends(c) \/ CastEnds(c)

PinIpcNext ==
  \/ \E p \in Pins : PinBinds(p) \/ PinOpens(p) \/ PinHandles(p) \/ PinFinishes(p)
                      \/ PinCloses(p) \/ PinDies(p)
  \/ \E c \in Casts : CastSteps(c) \/ \E m \in Messages : CastLists(c, m)

\* A process that runs goes on; its poll loop serves what arrives.  Nobody has
\* to start a pin, to finish one, or to broadcast.
PinIpcFair ==
  /\ \A p \in Pins : /\ WF_pinIpcVars(PinOpens(p)) /\ WF_pinIpcVars(PinHandles(p))
                      /\ WF_pinIpcVars(PinCloses(p))
  /\ \A c \in Casts : WF_pinIpcVars(CastSteps(c))

-----------------------------------------------------------------------------
(* Properties.                                                             *)

\* Types; a lock is in use by one life, and text is only in inodes that exist.
PinIpcTypeOK ==
  /\ pinPc \in [Pins -> Ended \cup Bound \cup Locked \cup {"deaf", "unlocked", "lockUnlinked"}]
  /\ life \in [Pins -> 0 .. MaxLives]
  /\ {sockName, lockName, lockFd} \subseteq [Pins -> 0 .. MaxLives]
  /\ lockText \in [Pins -> SUBSET Lives] /\ grabbed \in [Pins -> BOOLEAN]
  /\ \A p \in Pins : /\ Len(inbox[p]) <= QueueMax
                      /\ sockName[p] <= life[p] /\ lockName[p] <= life[p]
                      /\ inbox[p] # <<>> => pinPc[p] \in Bound

\* pin_ipc.c:182 removes the names of pins without an owner.  It never takes
\* them from a pin that serves, and a broadcast never makes a pin give up its
\* socket, unless it looked at the pin while that one was still starting.
PinsReachable ==
  \A p \in Pins \ raced :
    /\ pinPc[p] # "deaf"
    /\ pinPc[p] = "serve" => sockName[p] = life[p] /\ lockName[p] = lockFd[p]

\* --close-all ends every pin that serves when it begins (pin_close_all),
\* whatever other broadcasts do, unless the pin's queue is full.
CloseReachesPins ==
  \A p \in Pins, c \in Casts :
    castPc[c] = "next" /\ castMsg[c] = "close" /\ p \in castTodo[c] \ raced /\ pinPc[p] = "serve"
      ~> pinPc[p] # "serve" \/ p \in castLost[c]

=============================================================================
