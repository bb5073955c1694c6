----------------------------- MODULE PinsProofs -----------------------------
(***************************************************************************)
(* What pins and cards promise, for any number of processes, lives of a    *)
(* pid and broadcasts: a pin that serves can be reached, and a card gives  *)
(* way.                                                                    *)
(***************************************************************************)
EXTENDS Pins, FiniteSetTheorems, TLAPS

-----------------------------------------------------------------------------
(* Pins: their files and the broadcasts that look at them.                 *)

PinPcs == {"none", "open", "flock", "truncate", "write", "serve", "end", "deaf", "sockClosed",
           "unlocked", "lockUnlinked", "gone"}

PinTypes ==
  /\ pinPc \in [Pins -> PinPcs] /\ life \in [Pins -> Nat]
  /\ sockName \in [Pins -> Nat] /\ lockName \in [Pins -> Nat] /\ lockFd \in [Pins -> Nat]
  /\ lockText \in [Pins -> SUBSET Nat]

CastPcs == {"list", "next", "opened", "shared", "read", "send", "unlinkSock", "unlinkLock", "gone"}

CastTypes ==
  /\ castPc \in [Casts -> CastPcs] /\ castAt \in [Casts -> Pins \cup {"nobody"}]
  /\ castFd \in [Casts -> Nat]

\* While a pin starts, its names are its own and no broadcast looks at it.
StartsUnseen(p) ==
  pinPc[p] \in Starting =>
    /\ ~Visited(p) /\ life[p] # 0 /\ sockName[p] = life[p]
    /\ pinPc[p] # "open" => lockFd[p] # 0 /\ lockName[p] = lockFd[p]

\* While it serves they stay its own, and a broadcast that looks at it finds the
\* file locked and the pid in it.
ServesFound(p) ==
  pinPc[p] = "serve" =>
    /\ sockName[p] = life[p] /\ lockFd[p] # 0 /\ lockName[p] = lockFd[p]
    /\ lockFd[p] \in lockText[p]
    /\ \A c \in Casts : castAt[c] = p => /\ castPc[c] \in {"opened", "read", "send"}
                                         /\ castPc[c] # "send" => castFd[c] = lockFd[p]

PinsHeld == \A p \in Pins \ raced : pinPc[p] # "deaf" /\ StartsUnseen(p) /\ ServesFound(p)

PinInv == PinTypes /\ CastTypes /\ PinsHeld

LEMMA PinInitInv == PinIpcInit => PinInv
<1> SUFFICES ASSUME PinIpcInit PROVE PinInv
  OBVIOUS
<1> USE PinsAssumption DEF PinIpcInit
<1>1. PinTypes
  BY DEF PinTypes, PinPcs
<1>2. CastTypes
  BY DEF CastTypes, CastPcs
<1>3. PinsHeld
  BY DEF PinsHeld, StartsUnseen, ServesFound, Starting
<1> QED
  BY <1>1, <1>2, <1>3 DEF PinInv

LEMMA PinTypesNext ==
  ASSUME PinTypes, CastTypes, [PinIpcNext]_pinIpcVars
  PROVE  PinTypes'
<1> USE DEF PinTypes, PinPcs, PinGoes
<1>1. ASSUME NEW p \in Pins, PinBinds(p)
      PROVE  PinTypes'
  BY <1>1 DEF PinBinds
<1>2. ASSUME NEW p \in Pins, PinOpens(p)
      PROVE  PinTypes'
  <2>1. CASE PinOpensLock(p)
    BY <2>1 DEF PinOpensLock
  <2>2. CASE PinLocks(p)
    BY <2>2 DEF PinLocks
  <2>3. CASE PinRefused(p)
    BY <2>3 DEF PinRefused
  <2>4. CASE PinTruncates(p) \/ PinWritesPid(p)
    BY <2>4 DEF PinTruncates, PinWritesPid
  <2> QED
    BY <1>2, <2>1, <2>2, <2>3, <2>4 DEF PinOpens
<1>3. ASSUME NEW p \in Pins, PinHandles(p) \/ PinFinishes(p) \/ PinDies(p)
      PROVE  PinTypes'
  <2>1. CASE PinHandles(p)
    BY <2>1 DEF PinHandles
  <2>2. CASE PinFinishes(p)
    BY <2>2 DEF PinFinishes
  <2>3. CASE PinDies(p)
    BY <2>3 DEF PinDies
  <2> QED
    BY <1>3, <2>1, <2>2, <2>3
<1>4. ASSUME NEW p \in Pins, PinCloses(p)
      PROVE  PinTypes'
  <2>1. CASE PinClosesSocket(p)
    BY <2>1 DEF PinClosesSocket
  <2>2. CASE PinUnlocks(p)
    BY <2>2 DEF PinUnlocks
  <2>3. CASE PinUnlinksLock(p)
    BY <2>3 DEF PinUnlinksLock
  <2>4. CASE PinUnlinksSocket(p)
    BY <2>4 DEF PinUnlinksSocket
  <2> QED
    BY <1>4, <2>1, <2>2, <2>3, <2>4 DEF PinCloses
<1>5. ASSUME NEW c \in Casts, CastSteps(c)
      PROVE  PinTypes'
  <2> USE DEF CastTypes, pinVars, CastLeaves, CastGoes
  <2>1. ASSUME NEW p \in Pins, CastOpens(c, p)
        PROVE  PinTypes'
    BY <2>1 DEF CastOpens
  <2>2. CASE CastShares(c) \/ CastFindsNoOwner(c) \/ CastReads(c) \/ CastEnds(c)
    BY <2>2 DEF CastShares, CastFindsNoOwner, CastReads, CastEnds
  <2>3. CASE CastUnlinksSocket(c) \/ CastUnlinksLock(c)
    BY <2>3 DEF CastUnlinksSocket, CastUnlinksLock
  <2>4. CASE CastSends(c)
    BY <2>4 DEF CastSends
  <2> QED
    BY <1>5, <2>1, <2>2, <2>3, <2>4 DEF CastSteps
<1>6. ASSUME NEW c \in Casts, NEW m \in Messages, CastLists(c, m)
      PROVE  PinTypes'
  BY <1>6 DEF CastLists, pinVars
<1>7. CASE UNCHANGED pinIpcVars
  BY <1>7 DEF pinIpcVars, pinVars
<1> QED
  BY <1>1, <1>2, <1>3, <1>4, <1>5, <1>6, <1>7 DEF PinIpcNext

\* What a pin does leaves every broadcast alone.
LEMMA PinsLeaveCasts ==
  ASSUME NEW p \in Pins,
         PinBinds(p) \/ PinOpens(p) \/ PinHandles(p) \/ PinFinishes(p) \/ PinCloses(p) \/ PinDies(p)
  PROVE  UNCHANGED castVars
  BY DEF PinBinds, PinOpens, PinHandles, PinFinishes, PinCloses, PinDies, PinOpensLock, PinLocks,
         PinRefused, PinTruncates, PinWritesPid, PinClosesSocket, PinUnlocks, PinUnlinksLock,
         PinUnlinksSocket

LEMMA CastTypesNext ==
  ASSUME PinTypes, CastTypes, [PinIpcNext]_pinIpcVars
  PROVE  CastTypes'
<1> USE DEF CastTypes, CastPcs, castVars, CastGoes, CastLeaves
<1>1. CASE UNCHANGED castVars
  BY <1>1
<1>2. ASSUME NEW c \in Casts, CastSteps(c)
      PROVE  CastTypes'
  <2>1. ASSUME NEW p \in Pins, CastOpens(c, p)
        PROVE  CastTypes'
    BY <2>1 DEF CastOpens, PinTypes
  <2>2. CASE CastShares(c) \/ CastFindsNoOwner(c) \/ CastReads(c)
    BY <2>2 DEF CastShares, CastFindsNoOwner, CastReads
  <2>3. CASE CastUnlinksSocket(c) \/ CastUnlinksLock(c)
    BY <2>3 DEF CastUnlinksSocket, CastUnlinksLock
  <2>4. CASE CastSends(c) \/ CastEnds(c)
    BY <2>4 DEF CastSends, CastEnds
  <2> QED
    BY <1>2, <2>1, <2>2, <2>3, <2>4 DEF CastSteps
<1>3. ASSUME NEW c \in Casts, NEW m \in Messages, CastLists(c, m)
      PROVE  CastTypes'
  BY <1>3 DEF CastLists
<1>4. CASE UNCHANGED pinIpcVars
  BY <1>4 DEF pinIpcVars
<1> QED
  BY <1>1, <1>2, <1>3, <1>4, PinsLeaveCasts DEF PinIpcNext

\* What has to be shown of a pin that no broadcast raced.
Held(p) == pinPc[p] # "deaf" /\ StartsUnseen(p) /\ ServesFound(p)

LEMMA PinsHeldNext ==
  ASSUME PinInv, [PinIpcNext]_pinIpcVars
  PROVE  PinsHeld'
<1> SUFFICES ASSUME NEW q \in Pins, q \notin raced'
             PROVE  Held(q)'
  BY DEF PinsHeld, Held
<1> USE PinsAssumption DEF PinInv, PinTypes, CastTypes, Starting, Visited
<1>0. q \notin raced => Held(q)
  BY DEF PinsHeld, Held
<1> USE <1>0 DEF Held, StartsUnseen, ServesFound
<1>1. ASSUME NEW p \in Pins, PinBinds(p)
      PROVE  Held(q)'
  BY <1>1 DEF PinBinds, castVars, Ended
<1>2. ASSUME NEW p \in Pins, PinOpens(p)
      PROVE  Held(q)'
  <2> USE DEF PinGoes, castVars
  <2>1. CASE PinOpensLock(p)
    BY <2>1 DEF PinOpensLock
  <2>2. CASE PinLocks(p)
    BY <2>2 DEF PinLocks
  <2>3. CASE PinRefused(p)
    BY <2>3 DEF PinRefused, HoldsSh
  <2>4. CASE PinTruncates(p)
    BY <2>4 DEF PinTruncates
  <2>5. CASE PinWritesPid(p)
    BY <2>5 DEF PinWritesPid
  <2> QED
    BY <1>2, <2>1, <2>2, <2>3, <2>4, <2>5 DEF PinOpens
<1>3. ASSUME NEW p \in Pins, PinHandles(p) \/ PinFinishes(p)
      PROVE  Held(q)'
  BY <1>3 DEF PinHandles, PinFinishes, castVars
<1>4. ASSUME NEW p \in Pins, PinDies(p)
      PROVE  Held(q)'
  BY <1>4 DEF PinDies, castVars
<1>5. ASSUME NEW p \in Pins, PinCloses(p)
      PROVE  Held(q)'
  BY <1>5 DEF PinCloses, PinClosesSocket, PinUnlocks, PinUnlinksLock, PinUnlinksSocket, PinGoes, castVars
<1>6. ASSUME NEW c \in Casts, CastSteps(c)
      PROVE  Held(q)'
  <2> USE DEF pinVars, CastLeaves, CastGoes
  <2>1. ASSUME NEW p \in Pins, CastOpens(c, p)
        PROVE  Held(q)'
    BY <2>1 DEF CastOpens
  <2>2. CASE CastShares(c)
    BY <2>2 DEF CastShares, HoldsEx, Locked
  <2>3. CASE CastFindsNoOwner(c)
    BY <2>3 DEF CastFindsNoOwner
  <2>4. CASE CastReads(c)
    BY <2>4 DEF CastReads
  <2>5. CASE CastUnlinksSocket(c)
    BY <2>5 DEF CastUnlinksSocket
  <2>6. CASE CastUnlinksLock(c)
    BY <2>6 DEF CastUnlinksLock
  <2>7. CASE CastSends(c)
    BY <2>7 DEF CastSends
  <2>8. CASE CastEnds(c)
    BY <2>8 DEF CastEnds
  <2> QED
    BY <1>6, <2>1, <2>2, <2>3, <2>4, <2>5, <2>6, <2>7, <2>8 DEF CastSteps
<1>7. ASSUME NEW c \in Casts, NEW m \in Messages, CastLists(c, m)
      PROVE  Held(q)'
  BY <1>7 DEF CastLists, CastGoes, pinVars
<1>8. CASE UNCHANGED pinIpcVars
  BY <1>8 DEF pinIpcVars, pinVars, castVars
<1> QED
  BY <1>1, <1>2, <1>3, <1>4, <1>5, <1>6, <1>7, <1>8 DEF PinIpcNext

\* pin_ipc.c:182 removes the names of pins without an owner.  It never takes
\* them from a pin that serves, and a broadcast never makes a pin give up its
\* socket, unless it looked at the pin while that one was still starting.
THEOREM ServingPinsAreReachable == PinsSpec => []PinsReachable
<1>1. PinsInit => PinInv
  BY PinInitInv DEF PinsInit
<1>2. PinInv /\ [PinsNext]_pinsVars => PinInv'
  <2>1. [PinsNext]_pinsVars => [PinIpcNext]_pinIpcVars
    BY DEF PinsNext, pinsVars
  <2>2. ASSUME PinInv, [PinIpcNext]_pinIpcVars
        PROVE  PinInv'
    BY <2>2, PinTypesNext, CastTypesNext, PinsHeldNext DEF PinInv
  <2> QED
    BY <2>1, <2>2
<1>3. PinInv => PinsReachable
  BY DEF PinInv, PinsHeld, StartsUnseen, ServesFound, PinsReachable
<1> QED
  BY <1>1, <1>2, <1>3, PTL DEF PinsSpec

-----------------------------------------------------------------------------
(* Cards: the pid file and the signals.                                    *)

ShowPcs == {"idle", "peek", "peekShare", "peekUnshare", "peekRead", "kill", "unlink", "create",
            "lock", "truncate", "write", "synced", "test", "armed", "poll", "clear", "clearShare",
            "clearUnshare", "clearRead", "clearUnlink", "close", "gone"}

ShowTypes ==
  /\ showPc \in [Shows -> ShowPcs] /\ showDir \in Shows \cup {0}
  /\ showFd \in [Shows -> Shows \cup {0}] /\ showPeek \in [Shows -> Shows \cup {0}]
  /\ showText \in [Shows -> Shows \cup {0}] /\ showPrev \in [Shows -> Shows \cup {0}]
  /\ showTerm \in [Shows -> BOOLEAN] /\ showTold \in [Shows -> BOOLEAN]
  /\ \A s \in Shows : showPc[s] \in {"peekShare", "peekRead", "clearShare", "clearRead"} => showPeek[s] # 0

\* The show came as far as writing its pid.
WasUp(t) == t \in Shows /\ showPc[t] \notin {"idle"} \cup Commanding

\* A signal goes to a show that was up, and one whose handlers are installed
\* remembers it.
SignalsHeard ==
  /\ \A i \in Shows : showText[i] # 0 => WasUp(showText[i])
  /\ \A s \in Shows : showPrev[s] # 0 => WasUp(showPrev[s])
  /\ \A s \in Shows : showPc[s] = "kill" => showPrev[s] # 0
  /\ \A s \in Shows : showTold[s] =>
       /\ WasUp(s) /\ showPc[s] # "synced"
       /\ showPc[s] \in Handling => showTerm[s]
       /\ showPc[s] \in {"armed", "poll"} => s \in showMissed

\* A card that is up, that the next show can find, and that was not told to end.
Live(s) == s \notin showDeaf /\ showPc[s] \in CardUp /\ ~showTold[s]

\* A show's own file has its own number, and only its own pid.
OwnFiles ==
  /\ \A s \in Shows : showFd[s] \in {0, s} /\ showText[s] \in {0, s}
  /\ \A s \in Shows : showPc[s] \in {"lock", "truncate", "write"} => showFd[s] = s /\ showDir = s
  /\ \A s, t \in Shows : showPc[s] \in Commanding /\ showPc[t] \in Commanding => s = t
  /\ \A s \in Shows : showPc[s] = "create" => showDir = 0

\* A card that removes its file still finds its own under the name.
ClearsOwn ==
  \A t \in Shows : /\ showPc[t] \in {"clearShare", "clearRead"} /\ showPeek[t] = t => showDir = t
                   /\ showPc[t] = "clearUnlink" => showDir = t

\* The live card is the one the name refers to, and a command that comes after
\* it is on the way to find it.
LiveIsFound ==
  \A s \in Shows : Live(s) =>
    /\ showDir = s /\ showFd[s] = s /\ showText[s] = s
    /\ \A u \in Shows : /\ showPc[u] \notin {"peekUnshare", "unlink", "create", "lock", "truncate", "write"}
                        /\ showPc[u] \in {"peekShare", "peekRead"} => showPeek[u] = s
                        /\ showPc[u] = "kill" => showPrev[u] = s

CardsFound == showOverlap \/ (OwnFiles /\ ClearsOwn /\ LiveIsFound)

CardInv == ShowTypes /\ SignalsHeard /\ CardsFound

LEMMA CardInitInv == ShowCardInit => CardInv
<1> SUFFICES ASSUME ShowCardInit PROVE CardInv
  OBVIOUS
<1> USE ShowsAssumption DEF ShowCardInit
<1>1. ShowTypes
  BY DEF ShowTypes, ShowPcs
<1>2. SignalsHeard
  BY DEF SignalsHeard
<1>3. CardsFound
  BY DEF CardsFound, OwnFiles, ClearsOwn, LiveIsFound, Live, Commanding, CardUp, Handling
<1> QED
  BY <1>1, <1>2, <1>3 DEF CardInv

LEMMA ShowTypesNext ==
  ASSUME ShowTypes, [ShowCardNext]_showVars
  PROVE  ShowTypes'
<1> USE ShowsAssumption DEF ShowTypes, ShowPcs, ShowGoes, ShowPeeks
<1>1. ASSUME NEW s \in Shows, ShowBegins(s) \/ ShowPeekOpens(s) \/ ShowPeekShares(s) \/ ShowPeekUnshares(s)
      PROVE  ShowTypes'
  BY <1>1 DEF ShowBegins, ShowPeekOpens, OwnerOpens, ShowPeekShares, OwnerShares, HasLock, Locking, ShowPeekUnshares
<1>2. ASSUME NEW s \in Shows, ShowPeekReads(s)
      PROVE  ShowTypes'
  BY <1>2 DEF ShowPeekReads
<1>3. ASSUME NEW s \in Shows, ShowKills(s)
      PROVE  ShowTypes'
  BY <1>3 DEF ShowKills
<1>4. ASSUME NEW s \in Shows, ShowUnlinks(s)
      PROVE  ShowTypes'
  BY <1>4 DEF ShowUnlinks
<1>5. ASSUME NEW s \in Shows, ShowFails(s)
      PROVE  ShowTypes'
  BY <1>5 DEF ShowFails
<1>6. ASSUME NEW s \in Shows, ShowCreates(s)
      PROVE  ShowTypes'
  BY <1>6 DEF ShowCreates
<1>7. ASSUME NEW s \in Shows, ShowLocks(s)
      PROVE  ShowTypes'
  BY <1>7 DEF ShowLocks
<1>8. ASSUME NEW s \in Shows, ShowLockRefused(s)
      PROVE  ShowTypes'
  BY <1>8 DEF ShowLockRefused
<1>9. ASSUME NEW s \in Shows, ShowTruncates(s)
      PROVE  ShowTypes'
  BY <1>9 DEF ShowTruncates
<1>10. ASSUME NEW s \in Shows, ShowWrites(s)
       PROVE  ShowTypes'
  BY <1>10 DEF ShowWrites
<1>11. ASSUME NEW s \in Shows, ShowInstalls(s)
       PROVE  ShowTypes'
  BY <1>11 DEF ShowInstalls
<1>12. ASSUME NEW s \in Shows, CardTests(s) \/ CardPolls(s)
       PROVE  ShowTypes'
  BY <1>12 DEF CardTests, CardPolls
<1>13. ASSUME NEW s \in Shows, CardWakes(s) \/ CardFinishes(s)
       PROVE  ShowTypes'
  BY <1>13 DEF CardWakes, CardFinishes
<1>14. ASSUME NEW s \in Shows, CardDies(s)
       PROVE  ShowTypes'
  BY <1>14 DEF CardDies
<1>15. ASSUME NEW s \in Shows, ClearOpens(s) \/ ClearShares(s)
       PROVE  ShowTypes'
  BY <1>15 DEF ClearOpens, OwnerOpens, ClearShares, OwnerShares
<1>16. ASSUME NEW s \in Shows, ClearUnshares(s) \/ ClearReads(s)
       PROVE  ShowTypes'
  BY <1>16 DEF ClearUnshares, ClearReads
<1>17. ASSUME NEW s \in Shows, ClearUnlinks(s) \/ ClearCloses(s)
       PROVE  ShowTypes'
  BY <1>17 DEF ClearUnlinks, ClearCloses
<1>18. CASE UNCHANGED showVars
  BY <1>18 DEF showVars
<1> QED
  BY <1>1, <1>2, <1>3, <1>4, <1>5, <1>6, <1>7, <1>8, <1>9, <1>10, <1>11, <1>12, <1>13, <1>14,
     <1>15, <1>16, <1>17, <1>18 DEF ShowCardNext, ShowCommand, CardRuns, CardClears

LEMMA SignalsHeardNext ==
  ASSUME ShowTypes, SignalsHeard, [ShowCardNext]_showVars
  PROVE  SignalsHeard'
<1> USE ShowsAssumption DEF ShowTypes, SignalsHeard, ShowGoes, ShowPeeks, WasUp, Commanding, Handling, CardUp, Clearing
<1>1. ASSUME NEW s \in Shows, ShowBegins(s) \/ ShowPeekOpens(s) \/ ShowPeekShares(s) \/ ShowPeekUnshares(s)
      PROVE  SignalsHeard'
  <2>1. CASE ShowBegins(s)
    BY <2>1 DEF ShowBegins
  <2>2. CASE ShowPeekOpens(s)
    BY <2>2 DEF ShowPeekOpens, OwnerOpens
  <2>3. CASE ShowPeekShares(s)
    BY <2>3 DEF ShowPeekShares, OwnerShares, HasLock, Locking
  <2>4. CASE ShowPeekUnshares(s)
    BY <2>4 DEF ShowPeekUnshares
  <2> QED
    BY <1>1, <2>1, <2>2, <2>3, <2>4
<1>2. ASSUME NEW s \in Shows, ShowPeekReads(s)
      PROVE  SignalsHeard'
  <2> HIDE DEF WasUp
  <2>1. showPeek[s] \in Shows /\ showText[showPeek[s]] \in Shows \cup {0}
    BY <1>2 DEF ShowPeekReads
  <2>2. \A t : WasUp(t) => WasUp(t)'
    BY <1>2 DEF ShowPeekReads, WasUp
  <2>3. (\A i \in Shows : showText[i] # 0 => WasUp(showText[i]))'
    BY <1>2, <2>2 DEF ShowPeekReads
  <2>4. (\A t \in Shows : showPrev[t] # 0 => WasUp(showPrev[t]))'
    BY <1>2, <2>1, <2>2 DEF ShowPeekReads
  <2>5. (\A t \in Shows : showPc[t] = "kill" => showPrev[t] # 0)'
    BY <1>2, <2>1 DEF ShowPeekReads
  <2>6. (\A t \in Shows : showTold[t] =>
           /\ WasUp(t) /\ showPc[t] # "synced"
           /\ showPc[t] \in Handling => showTerm[t]
           /\ showPc[t] \in {"armed", "poll"} => t \in showMissed)'
    BY <1>2, <2>2 DEF ShowPeekReads
  <2> QED
    BY <2>3, <2>4, <2>5, <2>6
<1>3. ASSUME NEW s \in Shows, ShowKills(s)
      PROVE  SignalsHeard'
  BY <1>3 DEF ShowKills
<1>4. ASSUME NEW s \in Shows, ShowUnlinks(s)
      PROVE  SignalsHeard'
  BY <1>4 DEF ShowUnlinks
<1>5. ASSUME NEW s \in Shows, ShowFails(s)
      PROVE  SignalsHeard'
  BY <1>5 DEF ShowFails
<1>6. ASSUME NEW s \in Shows, ShowCreates(s)
      PROVE  SignalsHeard'
  BY <1>6 DEF ShowCreates
<1>7. ASSUME NEW s \in Shows, ShowLocks(s)
      PROVE  SignalsHeard'
  BY <1>7 DEF ShowLocks
<1>8. ASSUME NEW s \in Shows, ShowLockRefused(s)
      PROVE  SignalsHeard'
  BY <1>8 DEF ShowLockRefused
<1>9. ASSUME NEW s \in Shows, ShowTruncates(s)
      PROVE  SignalsHeard'
  BY <1>9 DEF ShowTruncates
<1>10. ASSUME NEW s \in Shows, ShowWrites(s)
       PROVE  SignalsHeard'
  BY <1>10 DEF ShowWrites
<1>11. ASSUME NEW s \in Shows, ShowInstalls(s)
       PROVE  SignalsHeard'
  BY <1>11 DEF ShowInstalls
<1>12. ASSUME NEW s \in Shows, CardTests(s) \/ CardPolls(s)
       PROVE  SignalsHeard'
  <2>1. CASE CardTests(s)
    BY <2>1 DEF CardTests
  <2>2. CASE CardPolls(s)
    BY <2>2 DEF CardPolls
  <2> QED
    BY <1>12, <2>1, <2>2
<1>13. ASSUME NEW s \in Shows, CardWakes(s) \/ CardFinishes(s)
       PROVE  SignalsHeard'
  <2>1. CASE CardWakes(s)
    BY <2>1 DEF CardWakes
  <2>2. CASE CardFinishes(s)
    BY <2>2 DEF CardFinishes
  <2> QED
    BY <1>13, <2>1, <2>2
<1>14. ASSUME NEW s \in Shows, CardDies(s)
       PROVE  SignalsHeard'
  BY <1>14 DEF CardDies
<1>15. ASSUME NEW s \in Shows, ClearOpens(s) \/ ClearShares(s)
       PROVE  SignalsHeard'
  <2>1. CASE ClearOpens(s)
    <3> DEFINE to == IF showFd[s] = 0 THEN "gone" ELSE IF showDir = 0 THEN "close" ELSE "clearShare"
    <3>1. showPc[s] = "clear" /\ showPc' = [showPc EXCEPT ![s] = to]
      BY <2>1 DEF ClearOpens, OwnerOpens
    <3>2. to \in {"gone", "close", "clearShare"}
      OBVIOUS
    <3>3. UNCHANGED <<showText, showPrev, showTerm, showTold, showMissed>>
      BY <2>1 DEF ClearOpens
    <3> HIDE DEF to
    <3> QED
      BY <3>1, <3>2, <3>3
  <2>2. CASE ClearShares(s)
    BY <2>2 DEF ClearShares, OwnerShares
  <2> QED
    BY <1>15, <2>1, <2>2
<1>16. ASSUME NEW s \in Shows, ClearUnshares(s) \/ ClearReads(s)
       PROVE  SignalsHeard'
  <2>1. CASE ClearUnshares(s)
    BY <2>1 DEF ClearUnshares
  <2>2. CASE ClearReads(s)
    BY <2>2 DEF ClearReads
  <2> QED
    BY <1>16, <2>1, <2>2
<1>17. ASSUME NEW s \in Shows, ClearUnlinks(s) \/ ClearCloses(s)
       PROVE  SignalsHeard'
  <2>1. CASE ClearUnlinks(s)
    BY <2>1 DEF ClearUnlinks
  <2>2. CASE ClearCloses(s)
    BY <2>2 DEF ClearCloses
  <2> QED
    BY <1>17, <2>1, <2>2
<1>18. CASE UNCHANGED showVars
  BY <1>18 DEF showVars
<1> QED
  BY <1>1, <1>2, <1>3, <1>4, <1>5, <1>6, <1>7, <1>8, <1>9, <1>10, <1>11, <1>12, <1>13, <1>14,
     <1>15, <1>16, <1>17, <1>18 DEF ShowCardNext, ShowCommand, CardRuns, CardClears

LEMMA CardsFoundNext ==
  ASSUME ShowTypes, SignalsHeard, CardsFound, [ShowCardNext]_showVars
  PROVE  CardsFound'
<1> USE ShowsAssumption DEF ShowTypes, SignalsHeard, CardsFound, OwnFiles, ClearsOwn, LiveIsFound, Live, ShowGoes, ShowPeeks, WasUp, Commanding, Handling, CardUp, Clearing
<1>1. ASSUME NEW s \in Shows, ShowBegins(s) \/ ShowPeekOpens(s) \/ ShowPeekShares(s) \/ ShowPeekUnshares(s)
      PROVE  CardsFound'
  <2>1. CASE ShowBegins(s)
    <3>1. SUFFICES ASSUME ~showOverlap' PROVE (OwnFiles /\ ClearsOwn /\ LiveIsFound)'
      BY DEF CardsFound
    <3>2. ~showOverlap
      BY <2>1, <3>1 DEF ShowBegins
    <3>6. \A t \in Shows : showPc[t] \notin Commanding
      BY <2>1, <3>1 DEF ShowBegins
    <3>3. OwnFiles'
      BY <2>1, <3>1, <3>2, <3>6 DEF ShowBegins
    <3>4. ClearsOwn'
      BY <2>1, <3>1, <3>2 DEF ShowBegins
    <3>5. LiveIsFound'
      BY <2>1, <3>1, <3>2 DEF ShowBegins
    <3> QED
      BY <3>3, <3>4, <3>5
  <2>2. CASE ShowPeekOpens(s)
    BY <2>2 DEF ShowPeekOpens, OwnerOpens
  <2>3. CASE ShowPeekShares(s)
    BY <2>3 DEF ShowPeekShares, OwnerShares, HasLock, Locking
  <2>4. CASE ShowPeekUnshares(s)
    BY <2>4 DEF ShowPeekUnshares
  <2> QED
    BY <1>1, <2>1, <2>2, <2>3, <2>4
<1>2. ASSUME NEW s \in Shows, ShowPeekReads(s)
      PROVE  CardsFound'
  BY <1>2 DEF ShowPeekReads
<1>3. ASSUME NEW s \in Shows, ShowKills(s)
      PROVE  CardsFound'
  BY <1>3 DEF ShowKills
<1>4. ASSUME NEW s \in Shows, ShowUnlinks(s)
      PROVE  CardsFound'
  <2>1. SUFFICES ASSUME ~showOverlap' PROVE (OwnFiles /\ ClearsOwn /\ LiveIsFound)'
    BY DEF CardsFound
  <2>2. ~showOverlap
    BY <1>4, <2>1 DEF ShowUnlinks
  <2>3. OwnFiles'
    BY <1>4, <2>1, <2>2 DEF ShowUnlinks
  <2>6. \A t \in Shows : showPc[t] \notin {"clearShare", "clearRead", "clearUnlink"}
    BY <1>4, <2>1 DEF ShowUnlinks
  <2>4. ClearsOwn'
    BY <1>4, <2>1, <2>2, <2>6 DEF ShowUnlinks
  <2>5. LiveIsFound'
    BY <1>4, <2>1, <2>2 DEF ShowUnlinks
  <2> QED
    BY <2>3, <2>4, <2>5
<1>5. ASSUME NEW s \in Shows, ShowFails(s)
      PROVE  CardsFound'
  BY <1>5 DEF ShowFails
<1>6. ASSUME NEW s \in Shows, ShowCreates(s)
      PROVE  CardsFound'
  BY <1>6 DEF ShowCreates
<1>7. ASSUME NEW s \in Shows, ShowLocks(s)
      PROVE  CardsFound'
  BY <1>7 DEF ShowLocks
<1>8. ASSUME NEW s \in Shows, ShowLockRefused(s)
      PROVE  CardsFound'
  BY <1>8 DEF ShowLockRefused
<1>9. ASSUME NEW s \in Shows, ShowTruncates(s)
      PROVE  CardsFound'
  BY <1>9 DEF ShowTruncates
<1>10. ASSUME NEW s \in Shows, ShowWrites(s)
       PROVE  CardsFound'
  BY <1>10 DEF ShowWrites
<1>11. ASSUME NEW s \in Shows, ShowInstalls(s)
       PROVE  CardsFound'
  BY <1>11 DEF ShowInstalls
<1>12. ASSUME NEW s \in Shows, CardTests(s) \/ CardPolls(s)
       PROVE  CardsFound'
  BY <1>12 DEF CardTests, CardPolls
<1>13. ASSUME NEW s \in Shows, CardWakes(s) \/ CardFinishes(s)
       PROVE  CardsFound'
  BY <1>13 DEF CardWakes, CardFinishes
<1>14. ASSUME NEW s \in Shows, CardDies(s)
       PROVE  CardsFound'
  BY <1>14 DEF CardDies
<1>15. ASSUME NEW s \in Shows, ClearOpens(s) \/ ClearShares(s)
       PROVE  CardsFound'
  BY <1>15 DEF ClearOpens, OwnerOpens, ClearShares, OwnerShares
<1>16. ASSUME NEW s \in Shows, ClearUnshares(s) \/ ClearReads(s)
       PROVE  CardsFound'
  <2>1. CASE ClearUnshares(s)
    BY <2>1 DEF ClearUnshares
  <2>2. CASE ClearReads(s)
    <3>1. SUFFICES ASSUME ~showOverlap' PROVE (OwnFiles /\ ClearsOwn /\ LiveIsFound)'
      BY DEF CardsFound
    <3>2. ~showOverlap
      BY <2>2, <3>1 DEF ClearReads
    <3>3. OwnFiles'
      BY <2>2, <3>1, <3>2 DEF ClearReads
    <3>6. showText[showPeek[s]] = s => showPeek[s] = s /\ showDir = s
      <4>1. showPc[s] = "clearRead" /\ showPeek[s] \in Shows
        BY <2>2 DEF ClearReads
      <4>2. showText[showPeek[s]] \in {0, showPeek[s]}
        BY <3>2, <4>1
      <4> QED
        BY <3>2, <4>1, <4>2
    <3>4. ClearsOwn'
      BY <2>2, <3>1, <3>2, <3>6 DEF ClearReads
    <3>5. LiveIsFound'
      BY <2>2, <3>1, <3>2 DEF ClearReads
    <3> QED
      BY <3>3, <3>4, <3>5
  <2> QED
    BY <1>16, <2>1, <2>2
<1>17. ASSUME NEW s \in Shows, ClearUnlinks(s) \/ ClearCloses(s)
       PROVE  CardsFound'
  BY <1>17 DEF ClearUnlinks, ClearCloses
<1>18. CASE UNCHANGED showVars
  BY <1>18 DEF showVars
<1> QED
  BY <1>1, <1>2, <1>3, <1>4, <1>5, <1>6, <1>7, <1>8, <1>9, <1>10, <1>11, <1>12, <1>13, <1>14,
     <1>15, <1>16, <1>17, <1>18 DEF ShowCardNext, ShowCommand, CardRuns, CardClears

\* At most one live card, as the name refers to each.
LEMMA CardInvGivesWay == CardInv => CardsGiveWay
<1> SUFFICES ASSUME CardInv PROVE CardsGiveWay
  OBVIOUS
<1> USE DEF CardInv
<1>1. ToldCardEnds
  BY DEF SignalsHeard, ToldCardEnds
<1>2. ASSUME ~showOverlap
      PROVE  Cardinality({s \in Shows \ showDeaf : showPc[s] \in CardUp /\ ~showTold[s]}) <= 1
  <2> DEFINE Up == {s \in Shows \ showDeaf : showPc[s] \in CardUp /\ ~showTold[s]}
  <2>1. \A s, t \in Up : s = t
    BY <1>2 DEF CardsFound, LiveIsFound, Live
  <2>2. Up = {} \/ \E s : Up = {s}
    BY <2>1
  <2>3. Cardinality(Up) = 0 \/ Cardinality(Up) = 1
    BY <2>2, FS_EmptySet, FS_Singleton
  <2> QED
    BY <2>3
<1> QED
  BY <1>1, <1>2 DEF CardsGiveWay, OneCard

\* A card gives way: as long as the commands come one after the other at most
\* one card is up that was not told to end (kill_previous_show), and a card that
\* was told does not go to sleep again (gpin_main).
THEOREM CardsMakeRoom == PinsSpec => []CardsGiveWay
<1>1. PinsInit => CardInv
  BY CardInitInv DEF PinsInit
<1>2. CardInv /\ [PinsNext]_pinsVars => CardInv'
  <2>1. [PinsNext]_pinsVars => [ShowCardNext]_showVars
    BY DEF PinsNext, pinsVars
  <2>2. ASSUME CardInv, [ShowCardNext]_showVars
        PROVE  CardInv'
    BY <2>2, ShowTypesNext, SignalsHeardNext, CardsFoundNext DEF CardInv
  <2> QED
    BY <2>1, <2>2
<1> QED
  BY <1>1, <1>2, CardInvGivesWay, PTL DEF PinsSpec

=============================================================================
