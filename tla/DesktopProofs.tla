--------------------------- MODULE DesktopProofs ---------------------------
(***************************************************************************)
(* What grabit promises of the desktop, for any number of outputs, hosts,  *)
(* frames and annotations and any interleaving: the tray icon answers the  *)
(* host there is, a picture that is handed on is whole, the selector's     *)
(* screen is current, and a pin's window is on the outputs that want it.   *)
(***************************************************************************)
EXTENDS Desktop, FiniteSetTheorems, FunctionTheorems, TLAPS

\* A step of one part leaves the others as they are.
LEMMA DesktopSteps ==
  ASSUME [DesktopNext]_desktopVars
  PROVE  /\ [GrabNext]_grabVars /\ [ScreenNext]_screenVars /\ [TrayHostNext]_trayHostVars
         /\ [PinWindowNext]_winVars /\ [WlNext]_wlVars
  BY DEF DesktopNext, Others, desktopVars

-----------------------------------------------------------------------------
(* Sequences as queues, and how many elements of a kind wait in one.       *)

Waiting(q, S) == Cardinality({i \in 1 .. Len(q) : q[i] \in S})

LEMMA WaitingIsNat ==
  ASSUME NEW T, NEW q \in Seq(T), NEW S
  PROVE  /\ IsFiniteSet({i \in 1 .. Len(q) : q[i] \in S})
         /\ Waiting(q, S) \in Nat
         /\ q = <<>> => Waiting(q, S) = 0
<1> DEFINE At == {i \in 1 .. Len(q) : q[i] \in S}
<1>1. IsFiniteSet(1 .. Len(q)) /\ At \subseteq 1 .. Len(q)
  BY FS_Interval
<1>2. IsFiniteSet(At)
  BY <1>1, FS_Subset
<1>3. q = <<>> => At = {}
  OBVIOUS
<1> QED
  BY <1>2, <1>3, FS_CardinalityType, FS_EmptySet DEF Waiting

LEMMA WaitingAppend ==
  ASSUME NEW T, NEW q \in Seq(T), NEW S, NEW e \in T
  PROVE  Waiting(Append(q, e), S) = Waiting(q, S) + (IF e \in S THEN 1 ELSE 0)
<1> DEFINE At == {i \in 1 .. Len(q) : q[i] \in S}
           r == Append(q, e)
           More == {i \in 1 .. Len(r) : r[i] \in S}
<1>1. /\ Len(r) = Len(q) + 1 /\ r[Len(q) + 1] = e
      /\ \A i \in 1 .. Len(q) : r[i] = q[i]
  OBVIOUS
<1>2. More = IF e \in S THEN At \cup {Len(q) + 1} ELSE At
  BY <1>1
<1>3. Len(q) + 1 \notin At
  OBVIOUS
<1>4. IsFiniteSet(At)
  BY WaitingIsNat
<1>5. Waiting(q, S) = Cardinality(At) /\ Waiting(r, S) = Cardinality(More)
  BY DEF Waiting
<1> HIDE DEF At, More
<1>6. Cardinality(At \cup {Len(q) + 1}) = Cardinality(At) + 1
  BY <1>3, <1>4, FS_AddElement
<1>7. Cardinality(At) \in Nat
  BY <1>4, FS_CardinalityType
<1> QED
  BY <1>2, <1>5, <1>6, <1>7

LEMMA WaitingTail ==
  ASSUME NEW T, NEW q \in Seq(T), NEW S, q # <<>>
  PROVE  Waiting(Tail(q), S) = Waiting(q, S) - (IF Head(q) \in S THEN 1 ELSE 0)
<1> DEFINE At == {i \in 1 .. Len(q) : q[i] \in S}
           r == Tail(q)
           Less == {i \in 1 .. Len(r) : r[i] \in S}
           f == [i \in Less |-> i + 1]
<1>1. /\ Len(q) \in Nat \ {0} /\ Len(r) = Len(q) - 1 /\ Head(q) = q[1]
      /\ \A i \in 1 .. Len(r) : r[i] = q[i + 1]
  OBVIOUS
<1>2. r \in Seq(T)
  OBVIOUS
<1> HIDE DEF r
<1>8. IsFiniteSet(At) /\ IsFiniteSet(Less)
  BY <1>2, WaitingIsNat
<1>3. f \in Bijection(Less, At \ {1})
  <2>1. \A i \in Less : f[i] \in At \ {1}
    BY <1>1
  <2>2. \A i \in At \ {1} : i - 1 \in Less /\ f[i - 1] = i
    BY <1>1
  <2>3. \A i, j \in Less : f[i] = f[j] => i = j
    BY <1>1
  <2> QED
    BY <2>1, <2>2, <2>3, Fun_IsBij
<1>4. Waiting(q, S) = Cardinality(At) /\ Waiting(r, S) = Cardinality(Less)
  BY DEF Waiting
<1>6. 1 \in At <=> Head(q) \in S
  BY <1>1
<1> HIDE DEF At, Less, f
<1>5. Cardinality(Less) = Cardinality(At \ {1})
  BY <1>8, <1>3, FS_Bijection DEF ExistsBijection
<1>7. Cardinality(At \ {1}) = Cardinality(At) - (IF 1 \in At THEN 1 ELSE 0) /\ Cardinality(At) \in Nat
  BY <1>8, FS_RemoveElement, FS_CardinalityType
<1> QED
  BY <1>4, <1>5, <1>6, <1>7 DEF r

-----------------------------------------------------------------------------
(* TrayHost: the icon on the session bus.                                  *)

Asked == Calls \cup {"appeared"}

Notes   == [is : Asked, by : Nat]
Letters == {"register", "reply", "error"}
IconMail == Seq(Notes)
HostMail == Seq(Letters)

IconSet ==
  [pc : {"off", "locked", "connect", "wait", "loop"}, persist : BOOLEAN, matched : BOOLEAN,
   inbox : IconMail, answer : {"none", "yes", "error"},
   stop : BOOLEAN, spawned : BOOLEAN]
HostSet ==
  [up : BOOLEAN, inbox : HostMail, knows : BOOLEAN, owed : Int, starts : Nat]

IconTypes == icon \in IconSet
HostTypes == host \in HostSet

\* Before it registers an icon is not known, and it listens for hosts before
\* that; a host that is gone has left nothing.
NotThereIsUnknown ==
  /\ icon.pc \in {"off", "locked", "connect"} =>
       ~host.knows /\ host.owed = 0 /\ host.inbox = <<>> /\ icon.inbox = <<>> /\ ~icon.matched
  /\ ~host.up => ~host.knows /\ host.owed = 0 /\ host.inbox = <<>>
  /\ icon.pc \in {"wait", "loop"} => icon.matched

Registrations == {"register"}
News          == [is : {"appeared"}, by : Nat]

\* A host that runs knows the icon, or the registration is on its way, or the
\* news of the host is.
HostWillKnow ==
  icon.pc \in {"wait", "loop"} /\ host.up =>
    \/ host.knows
    \/ Waiting(host.inbox, Registrations) > 0
    \/ Waiting(icon.inbox, News) > 0

\* The answers a host waits for are its calls that wait for the icon and the
\* replies that wait for it.  Those to a host that is gone are of another start.
CallsOf(n) == [is : Calls, by : {n}]
Replies    == {"reply", "error"}
OwedIsUnderWay ==
  /\ \A i \in 1 .. Len(icon.inbox) : icon.inbox[i].by <= host.starts
  /\ host.up => host.owed = Waiting(icon.inbox, CallsOf(host.starts)) + Waiting(host.inbox, Replies)

TrayInv == IconTypes /\ HostTypes /\ NotThereIsUnknown /\ HostWillKnow /\ OwedIsUnderWay

\* Every call gets one answer.
LEMMA AnswersOneReply ==
  ASSUME NEW call
  PROVE  \E r \in Replies : Answers(call) = <<r>>
  BY DEF Replies, Answers, Answer, ItemAnswer, MenuAnswer

\* What may be done with mail.
LEMMA IconMailFacts ==
  /\ <<>> \in IconMail
  /\ \A q \in IconMail : \A e \in Notes : Append(q, e) \in IconMail
  /\ \A q \in IconMail : q # <<>> => Tail(q) \in IconMail /\ Head(q) \in Notes
BY DEF IconMail

LEMMA HostMailFacts ==
  /\ <<>> \in HostMail
  /\ \A q \in HostMail : \A e \in Letters : Append(q, e) \in HostMail /\ q \o <<e>> \in HostMail
  /\ \A q \in HostMail : q # <<>> => Tail(q) \in HostMail
BY DEF HostMail

LEMMA HostWaitingFacts ==
  ASSUME NEW S
  PROVE  /\ Waiting(<<>>, S) = 0
         /\ \A q \in HostMail :
              /\ Waiting(q, S) \in Nat
              /\ \A e \in Letters : q \o <<e>> = Append(q, e)
              /\ \A e \in Letters : Waiting(Append(q, e), S) = Waiting(q, S) + (IF e \in S THEN 1 ELSE 0)
              /\ q # <<>> => Waiting(Tail(q), S) = Waiting(q, S) - (IF Head(q) \in S THEN 1 ELSE 0)
<1>1. Waiting(<<>>, S) = 0
  <2>1. <<>> \in Seq({})
    OBVIOUS
  <2> QED
    BY <2>1, WaitingIsNat
<1>2. ASSUME NEW q \in HostMail PROVE Waiting(q, S) \in Nat
  BY WaitingIsNat DEF HostMail
<1>3. ASSUME NEW q \in HostMail, NEW e \in Letters
      PROVE  Waiting(Append(q, e), S) = Waiting(q, S) + (IF e \in S THEN 1 ELSE 0)
  BY WaitingAppend DEF HostMail
<1>4. ASSUME NEW q \in HostMail, q # <<>>
      PROVE  Waiting(Tail(q), S) = Waiting(q, S) - (IF Head(q) \in S THEN 1 ELSE 0)
  BY <1>4, WaitingTail DEF HostMail
<1>5. ASSUME NEW q \in HostMail, NEW e \in Letters PROVE q \o <<e>> = Append(q, e)
  BY DEF HostMail
<1> QED
  BY <1>1, <1>2, <1>3, <1>4, <1>5

LEMMA IconWaitingFacts ==
  ASSUME NEW S
  PROVE  /\ Waiting(<<>>, S) = 0
         /\ \A q \in IconMail :
              /\ Waiting(q, S) \in Nat
              /\ \A e \in Notes : Waiting(Append(q, e), S) = Waiting(q, S) + (IF e \in S THEN 1 ELSE 0)
              /\ q # <<>> => Waiting(Tail(q), S) = Waiting(q, S) - (IF Head(q) \in S THEN 1 ELSE 0)
<1>1. Waiting(<<>>, S) = 0
  <2>1. <<>> \in Seq({})
    OBVIOUS
  <2> QED
    BY <2>1, WaitingIsNat
<1>2. ASSUME NEW q \in IconMail PROVE Waiting(q, S) \in Nat
  BY WaitingIsNat DEF IconMail
<1>3. ASSUME NEW q \in IconMail, NEW e \in Notes
      PROVE  Waiting(Append(q, e), S) = Waiting(q, S) + (IF e \in S THEN 1 ELSE 0)
  BY WaitingAppend DEF IconMail
<1>4. ASSUME NEW q \in IconMail, q # <<>>
      PROVE  Waiting(Tail(q), S) = Waiting(q, S) - (IF Head(q) \in S THEN 1 ELSE 0)
  BY <1>4, WaitingTail DEF IconMail
<1> QED
  BY <1>1, <1>2, <1>3, <1>4

LEMMA TrayInitInv == TrayHostInit => TrayInv
<1> SUFFICES ASSUME TrayHostInit PROVE TrayInv
  OBVIOUS
<1> USE DEF TrayHostInit, NoIcon, NoHost
<1>1. IconTypes
  BY IconMailFacts DEF IconTypes, IconSet
<1>2. HostTypes
  <2>1. host = [NoHost EXCEPT !.up = host.up] /\ host.up \in BOOLEAN
    OBVIOUS
  <2> QED
    BY <2>1, HostMailFacts, 0 \in Int, 0 \in Nat DEF HostTypes, HostSet
<1>3. NotThereIsUnknown /\ HostWillKnow
  BY DEF NotThereIsUnknown, HostWillKnow
<1>4. OwedIsUnderWay
  <2>1. icon.inbox = <<>> /\ host.inbox = <<>> /\ host.owed = 0
    OBVIOUS
  <2>2. \A S : Waiting(<<>>, S) = 0
    BY IconWaitingFacts
  <2> QED
    BY <2>1, <2>2 DEF OwedIsUnderWay
<1> QED
  BY <1>1, <1>2, <1>3, <1>4 DEF TrayInv

LEMMA IconTypesNext ==
  ASSUME IconTypes, HostTypes, [TrayHostNext]_trayHostVars
  PROVE  IconTypes'
<1> USE IconMailFacts
<1>1. NoIcon \in IconSet
  BY DEF NoIcon, IconSet
<1>2. \A persist \in BOOLEAN : [NoIcon EXCEPT !.pc = "locked", !.persist = persist] \in IconSet
  BY DEF NoIcon, IconSet
<1> USE DEF IconTypes, IconOff
<1>3. CASE \E persist \in BOOLEAN : TrayStarts(persist)
  BY <1>2, <1>3 DEF TrayStarts
<1>4. CASE NoBus \/ TrayStopped \/ BusLost
  BY <1>1, <1>4 DEF NoBus, TrayStopped, BusLost
<1>5. CASE StopRunningTray \/ TrayHandlesSignals
  BY <1>1, <1>5 DEF StopRunningTray, TrayHandlesSignals, IconSet
<1>6. CASE Registers
  BY <1>6 DEF Registers, FirstMatched, IconSet
<1>7. CASE RegisterAnswered
  BY <1>1, <1>7 DEF RegisterAnswered, IconSet
<1>8. CASE HostAppeared
  BY <1>8 DEF HostAppeared, IconSet
<1>9. CASE TrayAnswers
  BY <1>9 DEF TrayAnswers, Clicked, IconSet
<1>10. CASE HostStarts
  <2>1. [is |-> "appeared", by |-> 0] \in Notes
    BY DEF Notes, Asked
  <2> QED
    BY <1>10, <2>1 DEF HostStarts, Told, IconSet
<1>11. CASE HostDies \/ HostTakes
  BY <1>11 DEF HostDies, HostTakes, IconSet
<1>12. ASSUME NEW call \in Calls, HostCalls(call) PROVE IconTypes'
  <2>1. [is |-> call, by |-> host.starts] \in Notes
    BY DEF Asked, HostTypes, HostSet, Notes
  <2>2. icon' = [icon EXCEPT !.inbox = Append(@, [is |-> call, by |-> host.starts])]
    BY <1>12 DEF HostCalls
  <2> QED
    BY <2>1, <2>2 DEF IconSet
<1>13. CASE UNCHANGED trayHostVars
  BY <1>13 DEF trayHostVars
<1> QED
  BY <1>3, <1>4, <1>5, <1>6, <1>7, <1>8, <1>9, <1>10, <1>11, <1>12, <1>13 DEF TrayHostNext

LEMMA HostTypesNext ==
  ASSUME IconTypes, HostTypes, [TrayHostNext]_trayHostVars
  PROVE  HostTypes'
<1>0. 0 \in Int /\ 0 \in Nat /\ \A n \in Nat : n + 1 \in Nat
  OBVIOUS
<1>20. \A n \in Int : n + 1 \in Int /\ n - 1 \in Int
  OBVIOUS
<1> USE <1>0, <1>20, HostMailFacts
<1>1. [NoHost EXCEPT !.starts = host.starts] \in HostSet
  BY DEF NoHost, HostTypes, HostSet
<1> USE DEF HostTypes
<1>2. CASE (\E persist \in BOOLEAN : TrayStarts(persist)) \/ StopRunningTray \/ TrayHandlesSignals \/ NoBus
  BY <1>2 DEF TrayStarts, StopRunningTray, TrayHandlesSignals, NoBus
<1>3. CASE Registers \/ HostAppeared
  BY <1>3 DEF Registers, HostAppeared, ToHost, HostSet, Letters
<1>4. CASE RegisterAnswered \/ TrayStopped
  BY <1>4 DEF RegisterAnswered, TrayStopped, HostSet
<1>5. CASE TrayAnswers
  <2>1. \E r \in Letters : Answers(Head(icon.inbox).is) = <<r>>
    BY Zenon, AnswersOneReply DEF Replies, Letters
  <2> QED
    BY <1>5, <2>1 DEF TrayAnswers, HostSet
<1>6. CASE BusLost \/ HostDies
  BY <1>1, <1>6 DEF BusLost, HostDies
<1>7. CASE HostStarts \/ HostTakes
  BY <1>7 DEF HostStarts, HostTakes, HostSet
<1>8. ASSUME NEW call \in Calls, HostCalls(call) PROVE HostTypes'
  BY <1>8 DEF HostCalls, HostSet
<1>9. CASE UNCHANGED trayHostVars
  BY <1>9 DEF trayHostVars
<1> QED
  BY <1>2, <1>3, <1>4, <1>5, <1>6, <1>7, <1>8, <1>9 DEF TrayHostNext

LEMMA RegisterWaits ==
  /\ \A m \in HostMail : Waiting(Append(m, "register"), Registrations) > 0
  /\ \A m \in HostMail : \A e \in Letters : Waiting(m \o <<e>>, Registrations) >= Waiting(m, Registrations)
  /\ \A m \in HostMail : Waiting(m, Registrations) \in Nat
  /\ \A m \in HostMail : m # <<>> /\ Head(m) # "register" =>
       Waiting(Tail(m), Registrations) = Waiting(m, Registrations)
  /\ Waiting(<<>>, Registrations) = 0
<1>1. "register" \in Letters
  BY DEF Letters
<1>2. \A e : e \in Registrations <=> e = "register"
  BY DEF Registrations
<1>3. /\ Waiting(<<>>, Registrations) = 0
      /\ \A q \in HostMail :
           /\ Waiting(q, Registrations) \in Nat
           /\ \A e \in Letters : q \o <<e>> = Append(q, e)
           /\ \A e \in Letters : Waiting(Append(q, e), Registrations)
                                  = Waiting(q, Registrations) + (IF e \in Registrations THEN 1 ELSE 0)
           /\ q # <<>> => Waiting(Tail(q), Registrations)
                          = Waiting(q, Registrations) - (IF Head(q) \in Registrations THEN 1 ELSE 0)
  BY HostWaitingFacts, Zenon
<1>4. ASSUME NEW m \in HostMail
      PROVE  /\ Waiting(Append(m, "register"), Registrations) > 0
             /\ m # <<>> /\ Head(m) # "register" =>
                  Waiting(Tail(m), Registrations) = Waiting(m, Registrations)
  BY <1>1, <1>2, <1>3
<1>5. ASSUME NEW m \in HostMail, NEW e \in Letters
      PROVE  Waiting(m \o <<e>>, Registrations) >= Waiting(m, Registrations)
  <2>1. m \o <<e>> = Append(m, e) /\ Waiting(m, Registrations) \in Nat
    BY <1>3
  <2>2. \/ Waiting(Append(m, e), Registrations) = Waiting(m, Registrations)
        \/ Waiting(Append(m, e), Registrations) = Waiting(m, Registrations) + 1
    BY <1>3
  <2>3. Waiting(Append(m, e), Registrations) >= Waiting(m, Registrations)
    <3> DEFINE a == Waiting(Append(m, e), Registrations)
               b == Waiting(m, Registrations)
    <3>1. b \in Nat /\ (a = b \/ a = b + 1)
      BY <2>1, <2>2
    <3> HIDE DEF a, b
    <3>2. a >= b
      BY <3>1
    <3> QED
      BY <3>2 DEF a, b
  <2> QED
    BY <2>1, <2>3, Zenon
<1> QED
  BY <1>3, <1>4, <1>5

LEMMA NewsWaits ==
  /\ \A m \in IconMail : Waiting(Append(m, [is |-> "appeared", by |-> 0]), News) > 0
  /\ \A m \in IconMail : \A n \in Notes : Waiting(Append(m, n), News) >= Waiting(m, News)
  /\ \A m \in IconMail : Waiting(m, News) \in Nat
  /\ \A m \in IconMail : m # <<>> /\ Head(m).is # "appeared" => Waiting(Tail(m), News) = Waiting(m, News)
  /\ Waiting(<<>>, News) = 0
<1>1. [is |-> "appeared", by |-> 0] \in Notes /\ [is |-> "appeared", by |-> 0] \in News
  BY DEF Notes, News, Asked
<1>2. \A n \in News : n.is = "appeared"
  BY DEF News
<1>3. /\ Waiting(<<>>, News) = 0
      /\ \A q \in IconMail :
           /\ Waiting(q, News) \in Nat
           /\ \A e \in Notes : Waiting(Append(q, e), News) = Waiting(q, News) + (IF e \in News THEN 1 ELSE 0)
           /\ q # <<>> => Waiting(Tail(q), News) = Waiting(q, News) - (IF Head(q) \in News THEN 1 ELSE 0)
  BY IconWaitingFacts, Zenon
<1> QED
  BY <1>1, <1>2, <1>3

LEMMA TrayThereNext ==
  ASSUME TrayInv, [TrayHostNext]_trayHostVars
  PROVE  NotThereIsUnknown'
<1> USE IconMailFacts, HostMailFacts DEF TrayInv, NotThereIsUnknown, NoIcon, NoHost, IconOff,
        IconTypes, HostTypes, IconSet, HostSet
<1>1. ASSUME NEW persist \in BOOLEAN, TrayStarts(persist) PROVE NotThereIsUnknown'
  BY <1>1 DEF TrayStarts
<1>2. CASE StopRunningTray \/ TrayHandlesSignals \/ NoBus
  BY <1>2 DEF StopRunningTray, TrayHandlesSignals, NoBus
<1>3. CASE Registers \/ HostAppeared
  BY <1>3 DEF Registers, HostAppeared, FirstMatched, ToHost
<1>4. CASE RegisterAnswered
  BY <1>4 DEF RegisterAnswered
<1>5. CASE TrayAnswers
  BY <1>5 DEF TrayAnswers, Clicked
<1>6. CASE TrayStopped
  BY <1>6 DEF TrayStopped
<1>11. CASE BusLost
  BY <1>11 DEF BusLost
<1>7. CASE HostStarts
  <2>1. /\ host'.knows = host.knows /\ host'.owed = host.owed /\ host'.inbox = host.inbox /\ host'.up
        /\ ~host.up
    BY <1>7 DEF HostStarts
  <2>2. CASE icon.matched
    <3>1. icon'.pc = icon.pc /\ icon'.matched = icon.matched /\ icon.pc \in {"wait", "loop"}
      BY <1>7, <2>2 DEF HostStarts, Told
    <3> QED
      BY <2>1, <3>1
  <2>3. CASE ~icon.matched
    BY <1>7, <2>1, <2>3 DEF HostStarts, Told
  <2> QED
    BY <2>2, <2>3
<1>12. CASE HostDies
  BY <1>12 DEF HostDies
<1>8. CASE HostTakes
  BY <1>8 DEF HostTakes
<1>9. ASSUME NEW call \in Calls, HostCalls(call) PROVE NotThereIsUnknown'
  BY <1>9 DEF HostCalls
<1>10. CASE UNCHANGED trayHostVars
  BY <1>10 DEF trayHostVars
<1> QED
  BY <1>1, <1>2, <1>3, <1>4, <1>5, <1>6, <1>7, <1>8, <1>9, <1>10, <1>11, <1>12 DEF TrayHostNext

LEMMA TrayKnownNext ==
  ASSUME TrayInv, [TrayHostNext]_trayHostVars
  PROVE  HostWillKnow'
<1> USE RegisterWaits, NewsWaits DEF TrayInv, NotThereIsUnknown, HostWillKnow, NoIcon, NoHost, IconOff,
        IconTypes, HostTypes, IconSet, HostSet
<1>1. ASSUME NEW persist \in BOOLEAN, TrayStarts(persist) PROVE HostWillKnow'
  BY <1>1 DEF TrayStarts
<1>2. CASE StopRunningTray \/ TrayHandlesSignals \/ NoBus
  BY <1>2 DEF StopRunningTray, TrayHandlesSignals, NoBus
<1>3. CASE Registers \/ HostAppeared
  BY <1>3 DEF Registers, HostAppeared, FirstMatched, ToHost
<1>4. CASE RegisterAnswered
  BY <1>4 DEF RegisterAnswered
<1>5. CASE TrayAnswers
  <2>1. icon.inbox # <<>> /\ Head(icon.inbox).is # "appeared"
    BY <1>5 DEF TrayAnswers
  <2>2. icon'.pc = icon.pc /\ icon'.inbox = Tail(icon.inbox)
    BY <1>5 DEF TrayAnswers, Clicked
  <2>3. /\ host'.up = host.up /\ host'.knows = host.knows
        /\ Waiting(host'.inbox, Registrations) >= Waiting(host.inbox, Registrations)
        /\ Waiting(host'.inbox, Registrations) \in Nat
    <3>1. PICK r \in Letters : Answers(Head(icon.inbox).is) = <<r>>
      BY Zenon, AnswersOneReply DEF Replies, Letters
    <3>2. /\ host.inbox \o <<r>> \in HostMail
          /\ Waiting(host.inbox \o <<r>>, Registrations) >= Waiting(host.inbox, Registrations)
      BY RegisterWaits, HostMailFacts
    <3> QED
      BY <1>5, <3>1, <3>2 DEF TrayAnswers
  <2> QED
    BY <2>1, <2>2, <2>3
<1>6. CASE TrayStopped \/ BusLost
  BY <1>6 DEF TrayStopped, BusLost
<1>7. CASE HostStarts
  BY <1>7 DEF HostStarts, Told
<1>8. CASE HostTakes
  BY <1>8 DEF HostTakes
<1>9. ASSUME NEW call \in Calls, HostCalls(call) PROVE HostWillKnow'
  BY <1>9 DEF HostCalls
<1>10. CASE UNCHANGED trayHostVars \/ HostDies
  BY <1>10 DEF trayHostVars, HostDies
<1> QED
  BY <1>1, <1>2, <1>3, <1>4, <1>5, <1>6, <1>7, <1>8, <1>9, <1>10 DEF TrayHostNext

LEMMA WaitingNone ==
  ASSUME NEW q, NEW S, \A i \in 1 .. Len(q) : q[i] \notin S
  PROVE  Waiting(q, S) = 0
<1>1. {i \in 1 .. Len(q) : q[i] \in S} = {}
  OBVIOUS
<1> QED
  BY <1>1, FS_EmptySet, Zenon DEF Waiting

CallsArePast(q, n) == \A i \in 1 .. Len(q) : q[i].by <= n

LEMMA PastFacts ==
  ASSUME NEW q \in IconMail, NEW n \in Nat, CallsArePast(q, n)
  PROVE  /\ CallsArePast(q, n + 1)
         /\ Waiting(q, CallsOf(n + 1)) = 0
         /\ q # <<>> => CallsArePast(Tail(q), n)
         /\ \A e \in Notes : e.by <= n => CallsArePast(Append(q, e), n)
<1>1. \A i \in 1 .. Len(q) : q[i].by \in Nat /\ q[i].by <= n
  <2>1. \A i \in 1 .. Len(q) : q[i] \in Notes
    BY DEF IconMail
  <2>2. \A e \in Notes : e.by \in Nat
    BY DEF Notes
  <2> QED
    BY <2>1, <2>2 DEF CallsArePast
<1>2. CallsArePast(q, n + 1)
  BY <1>1 DEF CallsArePast
<1>3. \A i \in 1 .. Len(q) : q[i] \notin CallsOf(n + 1)
  BY <1>1 DEF CallsOf
<1>4. Waiting(q, CallsOf(n + 1)) = 0
  BY <1>3, WaitingNone
<1>5. q # <<>> => CallsArePast(Tail(q), n)
  BY <1>1 DEF CallsArePast, IconMail
<1>6. \A e \in Notes : e.by <= n => CallsArePast(Append(q, e), n)
  BY <1>1 DEF CallsArePast, IconMail
<1> QED
  BY <1>2, <1>4, <1>5, <1>6

\* No host has made a call that is not of one that has started.
LEMMA TrayPastNext ==
  ASSUME TrayInv, [TrayHostNext]_trayHostVars
  PROVE  CallsArePast(icon'.inbox, host'.starts)
<1>1. /\ icon.inbox \in IconMail /\ host.starts \in Nat /\ CallsArePast(icon.inbox, host.starts)
      /\ CallsArePast(<<>>, host.starts)
  BY DEF TrayInv, OwedIsUnderWay, CallsArePast, IconTypes, HostTypes, IconSet, HostSet
<1> USE DEF IconTypes, HostTypes, IconSet, HostSet, NoIcon, NoHost, IconOff
<1>2. CASE host'.starts = host.starts /\ icon'.inbox = icon.inbox
  BY <1>1, <1>2
<1>3. CASE host'.starts = host.starts /\ icon'.inbox = <<>>
  BY <1>1, <1>3
<1>4. CASE host'.starts = host.starts /\ icon.inbox # <<>> /\ icon'.inbox = Tail(icon.inbox)
  BY <1>1, <1>4, PastFacts
<1>5. CASE HostStarts
  <2>1. host'.starts = host.starts + 1
    BY <1>5 DEF HostStarts, TrayInv
  <2>2. CASE icon'.inbox = icon.inbox
    BY <1>1, <2>1, <2>2, PastFacts
  <2>3. CASE icon'.inbox = Append(icon.inbox, [is |-> "appeared", by |-> 0])
    <3>1. [is |-> "appeared", by |-> 0] \in Notes
      BY DEF Notes, Asked
    <3>2. CallsArePast(icon'.inbox, host.starts) /\ icon'.inbox \in IconMail
      BY <1>1, <2>3, <3>1, PastFacts, IconMailFacts
    <3> QED
      BY <1>1, <2>1, <3>2, PastFacts
  <2> QED
    BY <1>5, <2>2, <2>3 DEF HostStarts, Told, TrayInv
<1>6. ASSUME NEW call \in Calls, HostCalls(call) PROVE CallsArePast(icon'.inbox, host'.starts)
  <2>1. [is |-> call, by |-> host.starts] \in Notes
    BY <1>1 DEF Notes, Asked
  <2>2. /\ icon'.inbox = Append(icon.inbox, [is |-> call, by |-> host.starts])
        /\ host'.starts = host.starts
    BY <1>6 DEF HostCalls, TrayInv
  <2> QED
    BY <1>1, <2>1, <2>2, PastFacts
<1>7. CASE \E persist \in BOOLEAN : TrayStarts(persist)
  BY <1>3, <1>7 DEF TrayStarts, TrayInv
<1>8. CASE NoBus
  BY <1>3, <1>8 DEF NoBus, TrayInv
<1>16. CASE TrayStopped
  BY <1>3, <1>16 DEF TrayStopped, TrayInv
<1>10. CASE BusLost
  BY <1>3, <1>10 DEF BusLost, TrayInv
<1>12. CASE StopRunningTray
  BY <1>2, <1>3, <1>12 DEF StopRunningTray, TrayInv
<1>13. CASE TrayHandlesSignals \/ UNCHANGED trayHostVars
  BY <1>2, <1>13 DEF TrayHandlesSignals, trayHostVars, TrayInv
<1>14. CASE Registers
  BY <1>2, <1>14 DEF Registers, ToHost, TrayInv
<1>15. CASE RegisterAnswered
  BY <1>2, <1>3, <1>15 DEF RegisterAnswered, TrayInv
<1>9. CASE HostAppeared \/ TrayAnswers
  BY <1>4, <1>9 DEF HostAppeared, TrayAnswers, ToHost, Clicked, TrayInv
<1>11. CASE HostDies \/ HostTakes
  BY <1>2, <1>11 DEF HostDies, HostTakes, TrayInv
<1> QED
  BY <1>5, <1>6, <1>7, <1>8, <1>9, <1>10, <1>11, <1>12, <1>13, <1>14, <1>15, <1>16 DEF TrayHostNext
\* What is owed is accounted for: each step moves one call or answer on, drops
\* all of them, or touches none.
LEMMA TrayOwedNext ==
  ASSUME TrayInv, [TrayHostNext]_trayHostVars
  PROVE  OwedIsUnderWay'
<1> DEFINE n == host.starts
           a(q) == Waiting(q, CallsOf(n))
           b(q) == Waiting(q, Replies)
<1>1. /\ a(<<>>) = 0
      /\ \A q \in IconMail :
           /\ a(q) \in Nat
           /\ \A e \in Notes : a(Append(q, e)) = a(q) + (IF e \in CallsOf(n) THEN 1 ELSE 0)
           /\ q # <<>> => a(Tail(q)) = a(q) - (IF Head(q) \in CallsOf(n) THEN 1 ELSE 0)
  BY IconWaitingFacts, Zenon
<1>2. /\ b(<<>>) = 0
      /\ \A q \in HostMail :
           /\ b(q) \in Nat
           /\ \A e \in Letters : q \o <<e>> = Append(q, e)
           /\ \A e \in Letters : b(Append(q, e)) = b(q) + (IF e \in Replies THEN 1 ELSE 0)
           /\ q # <<>> => b(Tail(q)) = b(q) - (IF Head(q) \in Replies THEN 1 ELSE 0)
  BY HostWaitingFacts, Zenon
<1>3. /\ icon.inbox \in IconMail /\ host.inbox \in HostMail /\ n \in Nat /\ host.owed \in Int
      /\ host.up => host.owed = a(icon.inbox) + b(host.inbox)
      /\ ~host.up => host.owed = 0 /\ host.inbox = <<>>
  BY DEF TrayInv, IconTypes, HostTypes, IconSet, HostSet, OwedIsUnderWay, NotThereIsUnknown
<1>4. \A e \in Letters : e \in Replies <=> e # "register"
  BY DEF Letters, Replies
<1>5. "register" \in Letters /\ Replies \subseteq Letters
  BY DEF Letters, Replies
<1>6. \A e \in Notes : e \in CallsOf(n) <=> e.is # "appeared" /\ e.by = n
  BY DEF Notes, CallsOf, Asked, Calls, ItemCalls, MenuCalls
<1>7. (host'.up => host'.owed = Waiting(icon'.inbox, CallsOf(host'.starts)) + b(host'.inbox))
        => OwedIsUnderWay'
  BY TrayPastNext DEF OwedIsUnderWay, CallsArePast
<1>8. ASSUME host'.starts = n, host'.owed = a(icon'.inbox) + b(host'.inbox)
      PROVE  OwedIsUnderWay'
  BY <1>7, <1>8
<1>9. ASSUME ~host'.up PROVE OwedIsUnderWay'
  BY <1>7, <1>9
<1> HIDE DEF a, b, n
\* Nothing is left, or nothing has changed.
<1>10. CASE host'.starts = n /\ icon'.inbox = <<>> /\ host'.inbox = <<>> /\ host'.owed = 0
  BY <1>1, <1>2, <1>8, <1>10
<1>11. CASE /\ host'.starts = n /\ host'.owed = host.owed /\ host'.up = host.up
            /\ a(icon'.inbox) = a(icon.inbox) /\ b(host'.inbox) = b(host.inbox)
  BY <1>3, <1>8, <1>9, <1>11
<1> USE DEF IconTypes, HostTypes, IconSet, HostSet, NoIcon, NoHost, IconOff, TrayInv
<1>12. CASE \E persist \in BOOLEAN : TrayStarts(persist)
  BY <1>10, <1>12 DEF TrayStarts, NotThereIsUnknown, n
<1>13. CASE NoBus
  BY <1>10, <1>13 DEF NoBus, NotThereIsUnknown, n
<1>14. CASE TrayStopped
  BY <1>10, <1>14 DEF TrayStopped, n
<1>15. CASE BusLost \/ HostDies
  BY <1>9, <1>15 DEF BusLost, HostDies
<1>16. CASE StopRunningTray
  BY <1>10, <1>11, <1>16 DEF StopRunningTray, NotThereIsUnknown, n
<1>17. CASE TrayHandlesSignals \/ UNCHANGED trayHostVars
  BY <1>11, <1>17 DEF TrayHandlesSignals, trayHostVars, n
<1>18. b(Append(host.inbox, "register")) = b(host.inbox)
  BY <1>2, <1>3, <1>4, <1>5
<1>19. CASE Registers
  BY <1>11, <1>18, <1>19 DEF Registers, ToHost, n
<1>20. CASE RegisterAnswered
  BY <1>10, <1>11, <1>20 DEF RegisterAnswered, n
<1>21. CASE HostAppeared
  <2>1. Head(icon.inbox) \notin CallsOf(n)
    BY <1>21 DEF HostAppeared, CallsOf, Calls, ItemCalls, MenuCalls
  <2>2. a(Tail(icon.inbox)) = a(icon.inbox)
    BY <1>1, <1>3, <1>21, <2>1 DEF HostAppeared
  <2> QED
    BY <1>11, <1>18, <1>21, <2>2 DEF HostAppeared, ToHost, n
<1>22. CASE TrayAnswers
  <2> DEFINE call == Head(icon.inbox)
  <2>1. icon.inbox # <<>> /\ call \in Notes /\ call.is # "appeared"
    BY <1>3, <1>22, IconMailFacts DEF TrayAnswers
  <2>2. icon'.inbox = Tail(icon.inbox)
    BY <1>22 DEF TrayAnswers, Clicked
  <2>3. CASE host.up /\ call.by = n
    <3>1. PICK r \in Replies : Answers(call.is) = <<r>>
      BY Zenon, AnswersOneReply
    <3>2. b(host.inbox \o <<r>>) = b(host.inbox) + 1
      BY <1>2, <1>3, <1>5
    <3>3. a(Tail(icon.inbox)) = a(icon.inbox) - 1
      BY <1>1, <1>3, <1>6, <2>1, <2>3
    <3>4. host'.inbox = host.inbox \o <<r>> /\ host'.owed = host.owed /\ host'.starts = n
      BY <1>22, <2>3, <3>1 DEF TrayAnswers, n
    <3>5. a(icon.inbox) \in Nat /\ b(host.inbox) \in Nat /\ host.owed = a(icon.inbox) + b(host.inbox)
      BY <1>1, <1>2, <1>3, <2>3
    <3>6. host'.owed = a(icon'.inbox) + b(host'.inbox)
      BY <2>2, <3>2, <3>3, <3>4, <3>5
    <3> QED
      BY <1>8, <3>4, <3>6
  <2>4. CASE ~(host.up /\ call.by = n)
    <3>1. host' = host
      BY <1>22, <2>4 DEF TrayAnswers, n
    <3>2. CASE ~host.up
      BY <1>9, <3>1, <3>2
    <3>3. CASE call.by # n
      <4>1. a(Tail(icon.inbox)) = a(icon.inbox)
        BY <1>1, <1>3, <1>6, <2>1, <3>3
      <4> QED
        BY <1>11, <2>2, <3>1, <4>1 DEF n
    <3> QED
      BY <2>4, <3>2, <3>3
  <2> QED
    BY <2>3, <2>4
<1>23. CASE HostStarts
  <2>1. /\ host'.starts = n + 1 /\ host'.inbox = <<>> /\ host'.owed = 0
    BY <1>3, <1>23 DEF HostStarts, n
  <2>2. Waiting(icon.inbox, CallsOf(n + 1)) = 0
    BY <1>3, PastFacts DEF OwedIsUnderWay, CallsArePast, n
  <2>3. Waiting(icon'.inbox, CallsOf(n + 1)) = 0
    <3>1. [is |-> "appeared", by |-> 0] \in Notes /\ [is |-> "appeared", by |-> 0] \notin CallsOf(n + 1)
      BY DEF Notes, Asked, CallsOf, Calls, ItemCalls, MenuCalls
    <3>2. Waiting(Append(icon.inbox, [is |-> "appeared", by |-> 0]), CallsOf(n + 1)) = 0
      <4>1. \A q \in IconMail : \A e \in Notes :
              Waiting(Append(q, e), CallsOf(n + 1))
                = Waiting(q, CallsOf(n + 1)) + (IF e \in CallsOf(n + 1) THEN 1 ELSE 0)
        BY IconWaitingFacts, Zenon
      <4> QED
        BY <1>3, <2>2, <3>1, <4>1
    <3> QED
      BY <1>23, <2>2, <3>2 DEF HostStarts, Told
  <2> QED
    BY <1>2, <1>7, <2>1, <2>3
<1>24. CASE HostTakes
  <2>1. host.up /\ host.inbox # <<>> /\ host'.starts = n /\ host'.up /\ host'.inbox = Tail(host.inbox)
    BY <1>24 DEF HostTakes, n
  <2>2. icon'.inbox = icon.inbox
    BY <1>24 DEF HostTakes
  <2>3. Head(host.inbox) \in Letters
    BY <1>3, <2>1 DEF HostMail
  <2>4. CASE Head(host.inbox) = "register"
    <3>1. b(Tail(host.inbox)) = b(host.inbox)
      BY <1>2, <1>3, <1>4, <1>5, <2>1, <2>4
    <3>2. host'.owed = host.owed
      BY <1>24, <2>4 DEF HostTakes
    <3> QED
      BY <1>11, <2>1, <2>2, <3>1, <3>2
  <2>5. CASE Head(host.inbox) # "register"
    <3>1. b(Tail(host.inbox)) = b(host.inbox) - 1
      BY <1>2, <1>3, <1>4, <2>1, <2>3, <2>5
    <3>2. host'.owed = host.owed - 1
      BY <1>24, <2>5 DEF HostTakes
    <3>3. a(icon.inbox) \in Nat /\ b(host.inbox) \in Nat
      BY <1>1, <1>2, <1>3
    <3> QED
      BY <1>3, <1>8, <2>1, <2>2, <3>1, <3>2, <3>3
  <2> QED
    BY <2>4, <2>5
<1>25. ASSUME NEW call \in Calls, HostCalls(call) PROVE OwedIsUnderWay'
  <2> DEFINE note == [is |-> call, by |-> n]
  <2>1. note \in Notes /\ note \in CallsOf(n)
    BY <1>3 DEF Notes, Asked, CallsOf
  <2>2. /\ icon'.inbox = Append(icon.inbox, note) /\ host'.owed = host.owed + 1
        /\ host'.starts = n /\ host'.inbox = host.inbox /\ host.up
    BY <1>25 DEF HostCalls, n
  <2> HIDE DEF note
  <2>3. a(Append(icon.inbox, note)) = a(icon.inbox) + 1
    BY <1>1, <1>3, <2>1
  <2>4. a(icon.inbox) \in Nat /\ b(host.inbox) \in Nat
    BY <1>1, <1>2, <1>3
  <2> QED
    BY <1>3, <1>8, <2>2, <2>3, <2>4
<1> QED
  BY <1>12, <1>13, <1>14, <1>15, <1>16, <1>17, <1>19, <1>20, <1>21, <1>22, <1>23, <1>24, <1>25
  DEF TrayHostNext

\* When nothing is on its way, the host there is knows the icon and waits for no
\* answer, for any number of hosts that come and go and any number of calls
\* (sni_run, register_item_async, gmenu_handle).
THEOREM HostGetsAnswers == DesktopSpec => []HostIsServed
<1>1. DesktopInit => TrayInv
  BY TrayInitInv DEF DesktopInit
<1>2. TrayInv /\ [DesktopNext]_desktopVars => TrayInv'
  BY DesktopSteps, IconTypesNext, HostTypesNext, TrayThereNext, TrayKnownNext, TrayOwedNext DEF TrayInv
<1>3. TrayInv => HostIsServed
  <2> SUFFICES ASSUME TrayInv, icon.pc = "loop", icon.inbox = <<>>, host.up, host.inbox = <<>>
               PROVE  host.knows /\ host.owed = 0
    BY DEF HostIsServed
  <2>1. Waiting(<<>>, Registrations) = 0 /\ Waiting(<<>>, News) = 0
    BY RegisterWaits, NewsWaits
  <2>2. Waiting(<<>>, CallsOf(host.starts)) = 0 /\ Waiting(<<>>, Replies) = 0
    BY IconWaitingFacts, Zenon
  <2> QED
    BY <2>1, <2>2 DEF TrayInv, HostWillKnow, OwedIsUnderWay
<1> QED
  BY <1>1, <1>2, <1>3, PTL DEF DesktopSpec

-----------------------------------------------------------------------------
(* Grab: the capture backends.                                             *)

FrameSet == [status : {0, 1, 2}, buffer : BOOLEAN, compositor : {"none", "asked", "offered", "copies", "copied", "idle"}]

WlrTypes == wlr \in [pc : {"start", "wait", "failed", "taken"}, rc : {0, 1}, frames : [Frozen -> FrameSet]]

\* An output is marked done once the compositor has copied it, and a picture is
\* handed on once all are.
CopiedOnce ==
  /\ \A o \in Frozen : wlr.frames[o].status = 1 => wlr.frames[o].compositor = "copied"
  /\ wlr.pc = "taken" => \A o \in Frozen : wlr.frames[o].status = 1

Events == [is : {"size", "ready", "stopped", "constraints"}, of : Nat]
EventQueues == Seq(Events)
ExtSet ==
  [pc : {"start", "session", "alloc", "wait", "copy", "copied", "failed"}, n : Nat,
   session : {"none", "new", "live", "over"}, width : Nat, status : {0, 1, 2}, pool : Nat, frame : Nat,
   asked : BOOLEAN, events : EventQueues, output : Nat, ends : BOOLEAN, late : BOOLEAN]
ExtTypes == ext \in ExtSet

\* The width the session believes in after k of the events of q, when it is w now.
NoSizes(q, m, k) == \A i \in m .. k : q[i].is # "size"
WidthAfter(q, k, w, v) ==
  \/ NoSizes(q, 1, k) /\ v = w
  \/ \E i \in 1 .. k : q[i].is = "size" /\ q[i].of = v /\ NoSizes(q, i + 1, k)

NoReady(q)  == \A i \in 1 .. Len(q) : q[i].is # "ready"
OneReady(q) == \A i, j \in 1 .. Len(q) : q[i].is = "ready" /\ q[j].is = "ready" => i = j
NothingDue  == ~ext.asked /\ NoReady(ext.events)

\* Where the session is while the code is at pc.
SessionFollows ==
  /\ ext.pc = "start" => ext.session \in {"none", "live"}
  /\ ext.pc \in {"session", "wait", "copy", "copied", "failed"} => ext.session # "none"
  /\ ext.pc = "alloc" => ext.session = "live"
  /\ ext.pc = "wait" /\ ext.status = 2 => ext.session = "over"
  /\ ext.session = "new" => ext.pc \in {"session", "failed"}

\* No answer of a frame is due once the code is done with it, and at most one
\* before.
AnswersAreOfThisFrame ==
  /\ ext.pc \in {"start", "session", "alloc", "copy", "copied"} => NothingDue
  /\ ext.pc = "wait" /\ ext.status = 1 => NothingDue
  /\ ext.pc = "failed" /\ ext.session = "live" /\ ext.n < Frames => NothingDue
  /\ ext.pc = "wait" /\ ext.asked => NoReady(ext.events)
  /\ ext.pc = "wait" => OneReady(ext.events)

\* The session ends up with the size of the output, and at the frame's answer with
\* that of the buffer it was copied to.
SizesFollow ==
  /\ ext.session # "none" => WidthAfter(ext.events, Len(ext.events), ext.width, ext.output)
  /\ ext.pc = "wait" => \A i \in 1 .. Len(ext.events) :
       ext.events[i].is = "ready" => WidthAfter(ext.events, i - 1, ext.width, ext.frame)
  /\ ext.pc = "wait" /\ ext.status = 1 /\ ~ext.late => ext.width = ext.frame
  /\ ext.pc = "copy" /\ ~ext.late => ext.width = ext.frame
  /\ ext.pc = "copied" /\ ~ext.late => Region[1] + Region[2] <= ext.frame

KwinTypes == kwin = [pc |-> kwin.pc, replied |-> kwin.replied, eof |-> kwin.eof, len |-> kwin.len, want |-> kwin.want,
                     answer |-> kwin.answer, pipe |-> kwin.pipe, written |-> kwin.written, closed |-> kwin.closed,
                     waited |-> kwin.waited]
\* KWin's answer says how much there is to read.
AnswerTellsSize ==
  /\ kwin.replied => kwin.want = Image
  /\ kwin.pc = "taken" => kwin.want = Image /\ kwin.len >= Image

ExtInv  == ExtTypes /\ SessionFollows /\ AnswersAreOfThisFrame /\ SizesFollow
WlrInv  == WlrTypes /\ CopiedOnce
KwinInv == KwinTypes /\ AnswerTellsSize

LEMMA EventFacts ==
  /\ <<>> \in EventQueues
  /\ \A q \in EventQueues : \A e \in Events : Append(q, e) \in EventQueues
  /\ \A q \in EventQueues : q # <<>> => Tail(q) \in EventQueues /\ Head(q) \in Events
BY DEF EventQueues

LEMMA WidthAfterNothing ==
  ASSUME NEW q, NEW w, NEW v
  PROVE  WidthAfter(q, 0, w, v) <=> v = w
BY DEF WidthAfter, NoSizes

LEMMA WidthAppend ==
  ASSUME NEW q \in EventQueues, NEW e \in Events, NEW w, NEW v
  PROVE  /\ \A k \in 0 .. Len(q) : WidthAfter(Append(q, e), k, w, v) <=> WidthAfter(q, k, w, v)
         /\ Len(Append(q, e)) = Len(q) + 1
         /\ e.is = "size" /\ v = e.of => WidthAfter(Append(q, e), Len(q) + 1, w, v)
         /\ e.is # "size" /\ WidthAfter(q, Len(q), w, v) => WidthAfter(Append(q, e), Len(q) + 1, w, v)
<1> DEFINE r == Append(q, e)
<1>1. /\ Len(q) \in Nat /\ Len(r) = Len(q) + 1 /\ r[Len(q) + 1] = e
      /\ \A i \in 1 .. Len(q) : r[i] = q[i]
  BY DEF EventQueues
<1> HIDE DEF r
<1>2. \A k \in 0 .. Len(q), m \in Nat \ {0} : NoSizes(r, m, k) <=> NoSizes(q, m, k)
  BY <1>1 DEF NoSizes
<1>3. \A k \in 0 .. Len(q) : WidthAfter(r, k, w, v) <=> WidthAfter(q, k, w, v)
  BY <1>1, <1>2 DEF WidthAfter
<1>4. e.is = "size" /\ v = e.of => WidthAfter(r, Len(q) + 1, w, v)
  BY <1>1 DEF WidthAfter, NoSizes
<1>5. ASSUME e.is # "size", WidthAfter(q, Len(q), w, v)
      PROVE  WidthAfter(r, Len(q) + 1, w, v)
  <2>1. \A m \in Nat \ {0} : NoSizes(q, m, Len(q)) => NoSizes(r, m, Len(q) + 1)
    BY <1>1, <1>5 DEF NoSizes
  <2> QED
    BY <1>1, <1>5, <2>1 DEF WidthAfter
<1> QED
  BY <1>1, <1>3, <1>4, <1>5 DEF r

LEMMA WidthTail ==
  ASSUME NEW q \in EventQueues, q # <<>>, NEW w, NEW v, NEW k \in 0 .. Len(q) - 1,
         WidthAfter(q, k + 1, w, v)
  PROVE  WidthAfter(Tail(q), k, IF Head(q).is = "size" THEN Head(q).of ELSE w, v)
<1> DEFINE r == Tail(q)
           u == IF q[1].is = "size" THEN q[1].of ELSE w
<1>1. /\ Len(q) \in Nat \ {0} /\ Len(r) = Len(q) - 1 /\ Head(q) = q[1]
      /\ \A i \in 1 .. Len(r) : r[i] = q[i + 1]
  BY DEF EventQueues
<1> HIDE DEF r
<1>2. \A m \in Nat \ {0} : NoSizes(q, m + 1, k + 1) => NoSizes(r, m, k)
  BY <1>1 DEF NoSizes
<1>3. CASE NoSizes(q, 1, k + 1) /\ v = w
  <2>1. NoSizes(q, 2, k + 1) /\ q[1].is # "size"
    BY <1>1, <1>3 DEF NoSizes
  <2>2. NoSizes(r, 1, k)
    BY <1>2, <2>1
  <2> QED
    BY <1>1, <1>3, <2>1, <2>2 DEF WidthAfter, r
<1>4. CASE \E i \in 1 .. k + 1 : q[i].is = "size" /\ q[i].of = v /\ NoSizes(q, i + 1, k + 1)
  <2>1. PICK i \in 1 .. k + 1 : q[i].is = "size" /\ q[i].of = v /\ NoSizes(q, i + 1, k + 1)
    BY <1>4
  <2>2. NoSizes(r, i, k)
    BY <1>2, <2>1
  <2>3. CASE i = 1
    BY <1>1, <2>1, <2>2, <2>3 DEF WidthAfter, r
  <2>4. CASE i # 1
    <3>1. i - 1 \in 1 .. k /\ r[i - 1] = q[i] /\ NoSizes(r, i - 1 + 1, k)
      BY <1>1, <2>1, <2>2, <2>4
    <3> QED
      BY <2>1, <3>1 DEF WidthAfter, r
  <2> QED
    BY <2>3, <2>4
<1> QED
  BY <1>3, <1>4 DEF WidthAfter

LEMMA GrabInitInv == GrabInit => WlrInv /\ ExtInv /\ KwinInv
<1> SUFFICES ASSUME GrabInit PROVE WlrInv /\ ExtInv /\ KwinInv
  OBVIOUS
<1> USE DEF GrabInit
<1>1. WlrInv
  BY DEF WlrInv, WlrTypes, CopiedOnce, FrameSet, NoFrame
<1>2. KwinInv
  BY DEF KwinInv, KwinTypes, AnswerTellsSize, Image0
<1>3. PICK w \in Sizes :
       ext = [pc |-> "start", n |-> 0, session |-> "none", width |-> w, status |-> 0, pool |-> 0, frame |-> 0,
              asked |-> FALSE, events |-> <<>>, output |-> w, ends |-> FALSE, late |-> FALSE]
  OBVIOUS
<1>4. w \in Nat /\ 0 \in Nat
  BY GrabAssumption
<1>5. ExtTypes
  BY <1>3, <1>4, EventFacts DEF ExtTypes, ExtSet
<1>6. SessionFollows /\ AnswersAreOfThisFrame /\ SizesFollow
  BY <1>3 DEF SessionFollows, AnswersAreOfThisFrame, SizesFollow, NothingDue, NoReady
<1> QED
  BY <1>1, <1>2, <1>5, <1>6 DEF ExtInv

LEMMA AskedFrames ==
  /\ [NoFrame EXCEPT !.status = 2] \in FrameSet /\ [NoFrame EXCEPT !.compositor = "asked"] \in FrameSet
  /\ [NoFrame EXCEPT !.status = 2].status # 1 /\ [NoFrame EXCEPT !.compositor = "asked"].status # 1
<1>1. NoFrame \in FrameSet /\ NoFrame.status = 0
  BY DEF FrameSet, NoFrame
<1>2. \A f \in FrameSet : /\ [f EXCEPT !.status = 2] \in FrameSet /\ [f EXCEPT !.status = 2].status = 2
                          /\ [f EXCEPT !.compositor = "asked"] \in FrameSet
                          /\ [f EXCEPT !.compositor = "asked"].status = f.status
  BY DEF FrameSet
<1> QED
  BY <1>1, <1>2

LEMMA WlrNext ==
  ASSUME WlrInv, [GrabNext]_grabVars
  PROVE  WlrInv'
<1> USE DEF WlrInv, WlrTypes, CopiedOnce, WlrOnly
<1>1. ASSUME NEW dead \in SUBSET Frozen, WlrAsks(dead) PROVE WlrInv'
  <2>1. wlr'.pc = "wait" /\ wlr'.rc \in {0, 1}
    BY <1>1 DEF WlrAsks
  <2>2. wlr'.frames = [o \in Frozen |-> IF o \in dead THEN [NoFrame EXCEPT !.status = 2]
                                                     ELSE [NoFrame EXCEPT !.compositor = "asked"]]
    BY <1>1 DEF WlrAsks
  <2>3. /\ [NoFrame EXCEPT !.status = 2] \in FrameSet /\ [NoFrame EXCEPT !.compositor = "asked"] \in FrameSet
        /\ [NoFrame EXCEPT !.status = 2].status # 1 /\ [NoFrame EXCEPT !.compositor = "asked"].status # 1
    BY AskedFrames, Zenon
  <2>4. wlr' = [pc |-> wlr'.pc, rc |-> wlr'.rc, frames |-> wlr'.frames]
    BY <1>1 DEF WlrAsks
  <2> HIDE DEF FrameSet
  <2>5. wlr'.frames \in [Frozen -> FrameSet]
    BY <2>2, <2>3, Zenon
  <2>6. \A o \in Frozen : wlr'.frames[o].status # 1
    BY <2>2, <2>3
  <2> QED
    BY <2>1, <2>4, <2>5, <2>6
<1>2. ASSUME NEW o \in Frozen, NEW status \in {0, 1, 2}, NEW buffer \in BOOLEAN,
             NEW compositor \in {"idle", "offered", "copies", "copied"},
             wlr.pc = "wait", status = 1 => compositor = "copied", Sees(o, status, buffer, compositor)
      PROVE  WlrInv'
  <2>1. [status |-> status, buffer |-> buffer, compositor |-> compositor] \in FrameSet
    BY DEF FrameSet
  <2>2. WlrTypes'
    BY <1>2, <2>1 DEF Sees
  <2> QED
    BY <1>2, <2>2 DEF Sees
<1>3. ASSUME NEW o \in Frozen, NEW how, SentBuffer(o, how) PROVE WlrInv'
  <2> DEFINE status == IF how = "bogus" THEN 2 ELSE 0
  <2>1. status \in {0, 1, 2} /\ status # 1 /\ (how = "good") \in BOOLEAN
    OBVIOUS
  <2>2. wlr.pc = "wait" /\ Sees(o, status, how = "good", "offered")
    BY <1>3 DEF SentBuffer
  <2> HIDE DEF status
  <2> QED
    BY <1>2, <2>1, <2>2
<1>4. ASSUME NEW o \in Frozen, SentBufferDone(o) PROVE WlrInv'
  <2>1. wlr.frames[o] \in FrameSet
    OBVIOUS
  <2>2. wlr.frames[o].status \in {0, 1, 2} /\ (wlr.frames[o].status = 1 => wlr.frames[o].compositor = "copied")
    BY <2>1 DEF FrameSet
  <2>3. wlr.frames[o].compositor = "offered" /\ wlr.pc = "wait" /\ wlr.frames[o].status # 1
    BY <1>4, <2>2 DEF SentBufferDone
  <2>4. CASE wlr.frames[o].buffer
    BY <1>2, <1>4, <2>2, <2>3, <2>4, TRUE \in BOOLEAN DEF SentBufferDone
  <2>5. CASE ~wlr.frames[o].buffer
    <3>1. Sees(o, 2, FALSE, "idle")
      BY <1>4, <2>5 DEF SentBufferDone
    <3>2. 2 \in {0, 1, 2} /\ 2 # 1 /\ FALSE \in BOOLEAN /\ "idle" \in {"idle", "offered", "copies", "copied"}
      OBVIOUS
    <3> QED
      BY <1>2, <2>3, <3>1, <3>2
  <2> QED
    BY <2>4, <2>5
<1>5. ASSUME NEW o \in Frozen, SentReady(o) PROVE WlrInv'
  BY <1>2, <1>5 DEF SentReady
<1>6. ASSUME NEW o \in Frozen, SentFailed(o) PROVE WlrInv'
  <2>1. wlr.frames[o].buffer \in BOOLEAN
    BY DEF FrameSet
  <2> QED
    BY <1>2, <1>6, <2>1 DEF SentFailed
<1>7. CASE WlrLosesDisplay
  BY <1>7 DEF WlrLosesDisplay
<1>8. CASE WlrCollects
  <2>1. WlrTypes'
    BY <1>8 DEF WlrCollects
  <2>2. wlr'.frames = wlr.frames
    BY <1>8 DEF WlrCollects
  <2>3. ASSUME wlr'.pc = "taken" PROVE \A o \in Frozen : wlr.frames[o].status = 1
    <3>1. \A o \in Frozen : wlr.frames[o].status \in {0, 1, 2}
      BY DEF FrameSet
    <3> QED
      BY <1>8, <2>3, <3>1 DEF WlrCollects, WlrPending
  <2> QED
    BY <2>1, <2>2, <2>3
<1>9. CASE UNCHANGED wlr
  BY <1>9
<1>10. UNCHANGED wlr \/ (\E dead \in SUBSET Frozen : WlrAsks(dead)) \/ WlrLosesDisplay \/ WlrCollects
       \/ \E o \in Frozen : \/ \E how \in {"good", "bogus", "unknown"} : SentBuffer(o, how)
                             \/ SentBufferDone(o) \/ SentReady(o) \/ SentFailed(o)
  BY DEF GrabNext, grabVars, GrabBegins, ExtOnly, ExtAt, KwinOnly, KwinLoops, ExtGetsSession, ExtAsks, ExtAnswers,
     ExtResized, ExtStops, ExtHandles, ExtWaits, ExtLosesDisplay, ExtCopies, ExtGoesOn, KwinCalls, KwinWrites,
     KwinCloses, KwinAnswers, KwinTime, KwinTimesOut, KwinLosesBus, KwinTakesAnswer, KwinReads, KwinTooMuch,
     KwinSeesEnd, KwinConverts, KwinEndsShort
<1> QED
  BY <1>1, <1>3, <1>4, <1>5, <1>6, <1>7, <1>8, <1>9, <1>10

LEMMA KwinNext ==
  ASSUME KwinInv, [GrabNext]_grabVars
  PROVE  KwinInv'
<1> USE DEF KwinInv, KwinTypes, AnswerTellsSize, KwinLoops, KwinOnly, KwinGives, Image0
<1>1. CASE KwinCalls \/ KwinWrites \/ KwinCloses \/ KwinTime \/ KwinSeesEnd
  BY <1>1 DEF KwinCalls, KwinWrites, KwinCloses, KwinTime, KwinSeesEnd
<1>2. ASSUME NEW answer, KwinAnswers(answer) PROVE KwinInv'
  BY <1>2 DEF KwinAnswers
<1>3. CASE KwinTimesOut \/ KwinLosesBus \/ KwinTooMuch \/ KwinEndsShort
  BY <1>3 DEF KwinTimesOut, KwinLosesBus, KwinTooMuch, KwinEndsShort
<1>4. CASE KwinTakesAnswer
  BY <1>4 DEF KwinTakesAnswer
<1>5. CASE KwinReads
  BY <1>5 DEF KwinReads
<1>6. CASE KwinConverts
  BY <1>6 DEF KwinConverts, KwinHasAll
<1>7. CASE UNCHANGED kwin
  BY <1>7
<1>8. UNCHANGED kwin \/ KwinCalls \/ KwinWrites \/ KwinCloses
      \/ (\E answer \in {"image", "error"} : KwinAnswers(answer))
      \/ KwinTime \/ KwinTimesOut \/ KwinLosesBus \/ KwinTakesAnswer \/ KwinReads \/ KwinTooMuch
      \/ KwinSeesEnd \/ KwinConverts \/ KwinEndsShort
  BY DEF GrabNext, grabVars, GrabBegins, ExtOnly, ExtAt, WlrOnly, ExtGetsSession, ExtAsks, ExtAnswers,
     ExtResized, ExtStops, ExtHandles, ExtWaits, ExtLosesDisplay, ExtCopies, ExtGoesOn, WlrAsks, SentBuffer,
     SentBufferDone, SentReady, SentFailed, WlrLosesDisplay, WlrCollects
<1> QED
  BY <1>1, <1>2, <1>3, <1>4, <1>5, <1>6, <1>7, <1>8

ExtActs ==
  \/ ExtGetsSession \/ ExtAsks \/ ExtAnswers \/ (\E w \in Sizes : ExtResized(w)) \/ ExtStops
  \/ ExtHandles \/ ExtWaits \/ ExtLosesDisplay \/ ExtCopies \/ ExtGoesOn

LEMMA ExtOrNot == [GrabNext]_grabVars => UNCHANGED ext \/ ExtActs
BY DEF GrabNext, grabVars, GrabBegins, WlrOnly, KwinOnly, KwinLoops, KwinCalls, KwinWrites,
   KwinCloses, KwinAnswers, KwinTime, KwinTimesOut, KwinLosesBus, KwinTakesAnswer, KwinReads, KwinTooMuch,
   KwinSeesEnd, KwinConverts, KwinEndsShort, WlrAsks, SentBuffer,
   SentBufferDone, SentReady, SentFailed, WlrLosesDisplay, WlrCollects, ExtActs

LEMMA EventsMade ==
  /\ \A w \in Nat : [is |-> "size", of |-> w] \in Events
  /\ [is |-> "ready", of |-> 0] \in Events /\ [is |-> "constraints", of |-> 0] \in Events
  /\ [is |-> "stopped", of |-> 0] \in Events
BY DEF Events

LEMMA EventFields == \A e \in Events : e.of \in Nat /\ e.is \in {"size", "ready", "stopped", "constraints"}
BY DEF Events

LEMMA ExtTypesNext ==
  ASSUME ExtTypes, ExtActs
  PROVE  ExtTypes'
<1>1. Sizes \subseteq Nat /\ 0 \in Nat
  BY GrabAssumption
<1> USE <1>1, EventFacts, EventsMade DEF ExtTypes, ExtOnly, ExtAt
<1>2. CASE ExtGetsSession
  <2>1. ext.output \in Nat /\ ext.n + 1 \in Nat
    BY DEF ExtSet
  <2>2. \A e \in Events : <<e>> = Append(<<>>, e)
    OBVIOUS
  <2>3. <<[is |-> "size", of |-> ext.output]>> \in EventQueues
    BY <2>1, <2>2
  <2> QED
    BY <1>2, <2>1, <2>3 DEF ExtGetsSession, ExtSet
<1>3. CASE ExtAsks
  <2>1. PoolAcquire \in ExtSet
    BY DEF PoolAcquire, ExtSet
  <2> QED
    BY <1>3, <2>1 DEF ExtAsks, ExtSet
<1>4. CASE ExtAnswers
  <2>1. \A r \in {"ready", "constraints"} : Append(ext.events, [is |-> r, of |-> 0]) \in EventQueues
    BY DEF ExtSet
  <2> QED
    BY <1>4, <2>1 DEF ExtAnswers, ExtSet
<1>5. ASSUME NEW w \in Sizes, ExtResized(w) PROVE ExtTypes'
  <2>1. w \in Nat /\ Append(ext.events, [is |-> "size", of |-> w]) \in EventQueues
    BY DEF ExtSet
  <2> QED
    BY <1>5, <2>1 DEF ExtResized, ExtSet
<1>6. CASE ExtStops
  <2>1. Append(ext.events, [is |-> "stopped", of |-> 0]) \in EventQueues
    BY DEF ExtSet
  <2> QED
    BY <1>6, <2>1 DEF ExtStops, ExtSet
<1>7. CASE ExtHandles
  <2>1. Head(ext.events) \in Events /\ Tail(ext.events) \in EventQueues
    BY <1>7 DEF ExtHandles, ExtSet
  <2>2. \A e \in Events : Handled(e) \in ExtSet
    <3> TAKE e \in Events
    <3>1. e.of \in Nat
      BY EventFields
    <3> QED
      BY <3>1 DEF Handled, ExtSet
  <2>3. Handled(Head(ext.events)) \in ExtSet
    BY <2>1, <2>2
  <2>4. \A x \in ExtSet, q \in EventQueues : [x EXCEPT !.events = q] \in ExtSet
    BY DEF ExtSet
  <2> QED
    BY <1>7, <2>1, <2>3, <2>4 DEF ExtHandles
<1>8. CASE ExtWaits
  BY <1>8 DEF ExtWaits, ExtSet
<1>10. CASE ExtLosesDisplay
  <2>1. Frames \in Nat
    BY GrabAssumption
  <2> QED
    BY <1>10, <2>1 DEF ExtLosesDisplay, ExtSet
<1>11. CASE ExtCopies
  BY <1>11 DEF ExtCopies, ExtSet
<1>9. CASE ExtGoesOn
  BY <1>9 DEF ExtGoesOn, ExtSet
<1> QED
  BY <1>2, <1>3, <1>4, <1>5, <1>6, <1>7, <1>8, <1>9, <1>10, <1>11 DEF ExtActs

LEMMA NoReadyFacts ==
  /\ NoReady(<<>>)
  /\ \A q \in EventQueues : \A e \in Events : e.is # "ready" /\ NoReady(q) => NoReady(Append(q, e))
  /\ \A q \in EventQueues : q # <<>> /\ NoReady(q) => NoReady(Tail(q)) /\ Head(q).is # "ready"
BY DEF NoReady, EventQueues

LEMMA SessionNext ==
  ASSUME ExtInv, ExtActs
  PROVE  SessionFollows'
<1> USE DEF ExtInv, ExtTypes, SessionFollows, ExtOnly, ExtAt, ExtSet
<1>1. CASE ExtGetsSession
  BY <1>1 DEF ExtGetsSession
<1>2. CASE ExtAsks
  BY <1>2 DEF ExtAsks, PoolAcquire
<1>3. CASE ExtAnswers \/ (\E w \in Sizes : ExtResized(w)) \/ ExtStops
  BY <1>3 DEF ExtAnswers, ExtResized, ExtStops
<1>4. CASE ExtHandles
  BY <1>4 DEF ExtHandles, Handled
<1>5. CASE ExtWaits \/ ExtLosesDisplay \/ ExtCopies
  BY <1>5 DEF ExtWaits, ExtLosesDisplay, ExtCopies
<1>6. CASE ExtGoesOn
  BY <1>6 DEF ExtGoesOn
<1> QED
  BY <1>1, <1>2, <1>3, <1>4, <1>5, <1>6 DEF ExtActs

LEMMA OneReadyFacts ==
  /\ \A q \in EventQueues : NoReady(q) => OneReady(q)
  /\ \A q \in EventQueues : \A e \in Events : NoReady(q) \/ (OneReady(q) /\ e.is # "ready") => OneReady(Append(q, e))
  /\ \A q \in EventQueues : q # <<>> /\ OneReady(q) =>
       OneReady(Tail(q)) /\ (Head(q).is = "ready" => NoReady(Tail(q)))
<1>1. ASSUME NEW q \in EventQueues, NEW e \in Events, NoReady(q) \/ (OneReady(q) /\ e.is # "ready")
      PROVE  OneReady(Append(q, e))
  BY <1>1 DEF OneReady, NoReady, EventQueues
<1>2. ASSUME NEW q \in EventQueues, q # <<>>, OneReady(q)
      PROVE  OneReady(Tail(q)) /\ (Head(q).is = "ready" => NoReady(Tail(q)))
  <2>1. /\ Len(q) \in Nat \ {0} /\ Len(Tail(q)) = Len(q) - 1 /\ Head(q) = q[1]
        /\ \A i \in 1 .. Len(Tail(q)) : Tail(q)[i] = q[i + 1]
    BY <1>2 DEF EventQueues
  <2> QED
    BY <1>2, <2>1 DEF OneReady, NoReady
<1> QED
  BY <1>1, <1>2 DEF OneReady, NoReady

LEMMA AnswersNext ==
  ASSUME ExtInv, ExtActs
  PROVE  AnswersAreOfThisFrame'
<1> USE NoReadyFacts, OneReadyFacts, EventsMade
        DEF ExtInv, ExtTypes, ExtOnly, ExtAt, ExtSet, SessionFollows, NothingDue, AnswersAreOfThisFrame
<1>2. CASE ExtGetsSession
  <2>1. NoReady(<<[is |-> "size", of |-> ext.output]>>)
    BY DEF NoReady
  <2> QED
    BY <1>2, <2>1 DEF ExtGetsSession
<1>3. CASE ExtAsks
  BY <1>3 DEF ExtAsks, PoolAcquire
<1>4. CASE ExtAnswers
  BY <1>4 DEF ExtAnswers
<1>5. ASSUME NEW w \in Sizes, ExtResized(w) PROVE AnswersAreOfThisFrame'
  <2> DEFINE e == [is |-> "size", of |-> w]
  <2>1. e \in Events /\ e.is # "ready"
    BY GrabAssumption
  <2>2. ext' = [ext EXCEPT !.output = w, !.events = Append(@, e)]
    BY <1>5 DEF ExtResized
  <2> HIDE DEF e
  <2> QED
    BY <2>1, <2>2
<1>6. CASE ExtStops
  BY <1>6 DEF ExtStops
<1>7. CASE ExtHandles
  BY <1>7 DEF ExtHandles, Handled
<1>8. CASE ExtWaits
  BY <1>8 DEF ExtWaits
<1>9. CASE ExtLosesDisplay
  <2>1. Frames \in Nat
    BY GrabAssumption
  <2> QED
    BY <1>9, <2>1 DEF ExtLosesDisplay
<1>10. CASE ExtCopies
  BY <1>10 DEF ExtCopies
<1>11. CASE ExtGoesOn
  BY <1>11 DEF ExtGoesOn
<1> QED
  BY <1>2, <1>3, <1>4, <1>5, <1>6, <1>7, <1>8, <1>9, <1>10, <1>11 DEF ExtActs

\* One more event behind the others.
LEMMA SizesAppend ==
  ASSUME ExtInv, NEW e \in Events, ext'.events = Append(ext.events, e),
         ext'.pc = ext.pc, ext'.session = ext.session, ext'.session # "none", ext'.width = ext.width,
         ext'.frame = ext.frame, ext'.status = ext.status, ext'.late = ext.late,
         IF e.is = "size" THEN ext'.output = e.of ELSE ext'.output = ext.output,
         ext.pc = "wait" /\ e.is = "ready" => ext.frame = ext.output
  PROVE  SizesFollow'
<1> DEFINE q == ext.events
<1>1. q \in EventQueues /\ Len(q) \in Nat /\ Len(Append(q, e)) = Len(q) + 1
      /\ Append(q, e)[Len(q) + 1] = e /\ \A i \in 1 .. Len(q) : Append(q, e)[i] = q[i]
  BY DEF ExtInv, ExtTypes, ExtSet, EventQueues
<1>2. WidthAfter(q, Len(q), ext.width, ext.output)
  BY DEF ExtInv, SizesFollow
<1>3. WidthAfter(Append(q, e), Len(q) + 1, ext.width, ext'.output)
  BY <1>1, <1>2, WidthAppend
<1>4. ASSUME ext.pc = "wait", NEW i \in 1 .. Len(q) + 1, Append(q, e)[i].is = "ready"
      PROVE  WidthAfter(Append(q, e), i - 1, ext.width, ext.frame)
  <2>1. WidthAfter(q, i - 1, ext.width, ext.frame)
    <3>1. CASE i = Len(q) + 1
      BY <1>1, <1>2, <1>4, <3>1
    <3>2. CASE i \in 1 .. Len(q)
      BY <1>1, <1>4, <3>2 DEF ExtInv, SizesFollow
    <3> QED
      BY <1>1, <3>1, <3>2
  <2>2. i - 1 \in 0 .. Len(q)
    BY <1>1
  <2> QED
    BY <1>1, <2>1, <2>2, WidthAppend
<1> QED
  BY <1>1, <1>3, <1>4 DEF ExtInv, SizesFollow

LEMMA SizesNext ==
  ASSUME ExtInv, ExtActs
  PROVE  SizesFollow'
<1> USE DEF ExtInv, ExtOnly, ExtAt
<1>1. CASE ExtGetsSession
  <2>1. CASE ext.session = "live"
    BY <1>1, <2>1 DEF ExtGetsSession, SizesFollow, ExtTypes, ExtSet
  <2>2. CASE ext.session # "live"
    <3> DEFINE q == <<[is |-> "size", of |-> ext.output]>>
    <3>1. ext'.pc = "session" /\ ext'.events = q /\ ext'.output = ext.output
      BY <1>1, <2>2 DEF ExtGetsSession, ExtTypes, ExtSet
    <3>2. WidthAfter(q, Len(q), ext'.width, ext.output)
      BY DEF WidthAfter, NoSizes
    <3> QED
      BY <3>1, <3>2 DEF SizesFollow
  <2> QED
    BY <2>1, <2>2
<1>2. CASE ExtAsks
  <2>1. /\ ext'.pc = "wait" /\ ext'.status = 0 /\ ext'.events = ext.events /\ ext'.width = ext.width
        /\ ext'.output = ext.output /\ ext'.session = ext.session
    BY <1>2 DEF ExtAsks, PoolAcquire, ExtTypes, ExtSet
  <2>2. NoReady(ext.events)
    BY <1>2 DEF ExtAsks, AnswersAreOfThisFrame, NothingDue
  <2> QED
    BY <2>1, <2>2 DEF SizesFollow, NoReady
<1>3. CASE ExtAnswers
  <2> DEFINE e == [is |-> IF ext.frame = ext.output THEN "ready" ELSE "constraints", of |-> 0]
  <2>1. e \in Events /\ e.is # "size" /\ (e.is = "ready" => ext.frame = ext.output)
    BY EventsMade
  <2>2. ext' = [ext EXCEPT !.asked = FALSE, !.events = Append(@, e)]
    BY <1>3 DEF ExtAnswers
  <2> HIDE DEF e
  <2>3. CASE ext.session # "none"
    BY <2>1, <2>2, <2>3, SizesAppend DEF ExtTypes, ExtSet
  <2>4. CASE ext.session = "none"
    <3>1. ext.pc \notin {"wait", "copy", "copied"}
      BY <2>4 DEF SessionFollows
    <3> QED
      BY <2>2, <2>4, <3>1 DEF ExtTypes, ExtSet, SizesFollow
  <2> QED
    BY <2>3, <2>4
<1>4. ASSUME NEW w \in Sizes, ExtResized(w) PROVE SizesFollow'
  <2> DEFINE e == [is |-> "size", of |-> w]
  <2>1. e \in Events /\ e.is = "size" /\ e.of = w
    BY EventsMade, GrabAssumption
  <2>2. ext' = [ext EXCEPT !.output = w, !.events = Append(@, e)] /\ ext.session # "none"
    BY <1>4 DEF ExtResized
  <2> HIDE DEF e
  <2> QED
    BY <2>1, <2>2, SizesAppend DEF ExtTypes, ExtSet
<1>5. CASE ExtStops
  <2> DEFINE e == [is |-> "stopped", of |-> 0]
  <2>1. e \in Events /\ e.is = "stopped"
    BY EventsMade
  <2>2. ext' = [ext EXCEPT !.ends = TRUE, !.asked = FALSE, !.events = Append(@, e)] /\ ext.session # "none"
    BY <1>5 DEF ExtStops
  <2> HIDE DEF e
  <2> QED
    BY <2>1, <2>2, SizesAppend DEF ExtTypes, ExtSet
<1>6. CASE ExtHandles
  <2> DEFINE q == ext.events
             e == Head(q)
             w == IF e.is = "size" THEN e.of ELSE ext.width
  <2>1. q \in EventQueues /\ q # <<>> /\ ext.pc \in {"session", "wait"} /\ ext.session # "none"
    BY <1>6 DEF ExtHandles, ExtTypes, ExtSet, SessionFollows
  <2>2. /\ Len(q) \in Nat \ {0} /\ Len(Tail(q)) = Len(q) - 1 /\ e = q[1]
        /\ \A i \in 1 .. Len(q) - 1 : Tail(q)[i] = q[i + 1]
    BY <2>1 DEF EventQueues
  <2>3. e.is \in {"size", "ready", "stopped", "constraints"}
    BY <2>1, EventFacts, EventFields
  <2>4. /\ ext'.pc = ext.pc /\ ext'.events = Tail(q) /\ ext'.output = ext.output /\ ext'.frame = ext.frame
        /\ ext'.width = w
        /\ ext'.pc = "wait" /\ ext'.status = 1 /\ ~ext'.late => e.is = "ready"
    <3>1. ext' = [Handled(e) EXCEPT !.events = Tail(q)]
      BY <1>6 DEF ExtHandles
    <3> HIDE DEF q, e
    <3>2. CASE e.is = "size"
      BY <3>1, <3>2 DEF Handled, ExtTypes, ExtSet
    <3>3. CASE e.is = "ready"
      BY <3>1, <3>3 DEF Handled, ExtTypes, ExtSet
    <3>4. CASE e.is = "stopped"
      <4>1. Handled(e) = [ext EXCEPT !.session = "over", !.status = IF ext.pc = "wait" THEN 2 ELSE @]
        BY <3>4 DEF Handled
      <4>2. ext'.pc = "wait" => ext'.status = 2
        BY <3>1, <4>1 DEF ExtTypes, ExtSet
      <4>3. /\ ext'.pc = ext.pc /\ ext'.events = Tail(q) /\ ext'.output = ext.output /\ ext'.frame = ext.frame
            /\ ext'.width = ext.width
        BY <3>1, <4>1 DEF ExtTypes, ExtSet
      <4> QED
        BY <3>4, <4>2, <4>3
    <3>5. CASE e.is = "constraints"
      <4>1. Handled(e) = [ext EXCEPT !.session = "over", !.status = 2]
        BY <3>5 DEF Handled
      <4>2. ext'.pc = "wait" => ext'.status = 2
        BY <3>1, <4>1 DEF ExtTypes, ExtSet
      <4>3. /\ ext'.pc = ext.pc /\ ext'.events = Tail(q) /\ ext'.output = ext.output /\ ext'.frame = ext.frame
            /\ ext'.width = ext.width
        BY <3>1, <4>1 DEF ExtTypes, ExtSet
      <4> QED
        BY <3>5, <4>2, <4>3
    <3> QED
      BY <2>3, <3>2, <3>3, <3>4, <3>5
  <2>5. WidthAfter(q, Len(q), ext.width, ext.output)
    BY <2>1 DEF SizesFollow
  <2>6. WidthAfter(Tail(q), Len(Tail(q)), w, ext.output)
    <3>1. Len(q) - 1 \in 0 .. Len(q) - 1 /\ (Len(q) - 1) + 1 = Len(q)
      BY <2>2
    <3> QED
      BY <2>1, <2>2, <2>5, <3>1, WidthTail
  <2>7. ASSUME ext.pc = "wait", NEW i \in 1 .. Len(q) - 1, Tail(q)[i].is = "ready"
        PROVE  WidthAfter(Tail(q), i - 1, w, ext.frame)
    <3>1. WidthAfter(q, i, ext.width, ext.frame)
      <4>1. i + 1 \in 1 .. Len(q) /\ q[i + 1].is = "ready" /\ (i + 1) - 1 = i
        BY <2>2, <2>7
      <4> QED
        BY <2>7, <4>1 DEF SizesFollow
    <3>2. i - 1 \in 0 .. Len(q) - 1 /\ (i - 1) + 1 = i
      BY <2>2
    <3> QED
      BY <2>1, <3>1, <3>2, WidthTail
  <2>8. ASSUME ext.pc = "wait", e.is = "ready" PROVE w = ext.frame
    <3>1. WidthAfter(q, 0, ext.width, ext.frame)
      <4>1. 1 \in 1 .. Len(q) /\ q[1].is = "ready" /\ 1 - 1 = 0
        BY <2>2, <2>8
      <4> QED
        BY <2>8, <4>1 DEF SizesFollow
    <3> QED
      BY <2>8, <3>1, WidthAfterNothing
  <2> HIDE DEF q, e, w
  <2> QED
    BY <2>1, <2>2, <2>4, <2>6, <2>7, <2>8 DEF SizesFollow
<1>7. CASE ExtWaits
  BY <1>7 DEF ExtWaits, SizesFollow, ExtTypes, ExtSet
<1>8. CASE ExtLosesDisplay
  BY <1>8 DEF ExtLosesDisplay, SizesFollow, ExtTypes, ExtSet
<1>9. CASE ExtCopies
  BY <1>9 DEF ExtCopies, InFrame, SizesFollow, ExtTypes, ExtSet
<1>10. CASE ExtGoesOn
  BY <1>10 DEF ExtGoesOn, SizesFollow, ExtTypes, ExtSet
<1> QED
  BY <1>1, <1>2, <1>3, <1>4, <1>5, <1>6, <1>7, <1>8, <1>9, <1>10 DEF ExtActs

LEMMA ExtNext ==
  ASSUME ExtInv, [GrabNext]_grabVars
  PROVE  ExtInv'
<1>1. CASE ExtActs
  BY <1>1, ExtTypesNext, SessionNext, AnswersNext, SizesNext DEF ExtInv
<1>2. CASE UNCHANGED ext
  BY <1>2 DEF ExtInv, ExtTypes, SessionFollows, AnswersAreOfThisFrame, SizesFollow, NothingDue
<1> QED
  BY <1>1, <1>2, ExtOrNot

\* A picture that is handed on is whole, for any number of outputs and frames and
\* any sizes the outputs take on meanwhile (grabit_wlr_capture_many,
\* grabit_ext_capture_region, kwin_exchange).
THEOREM GrabsAreWhole == DesktopSpec => []GrabbedIsWhole
<1> DEFINE GrabInv == WlrInv /\ ExtInv /\ KwinInv
<1>1. DesktopInit => GrabInv
  BY GrabInitInv DEF DesktopInit
<1>2. GrabInv /\ [DesktopNext]_desktopVars => GrabInv'
  BY DesktopSteps, WlrNext, ExtNext, KwinNext
<1>3. GrabInv => GrabbedIsWhole
  BY DEF GrabbedIsWhole, WlrInv, CopiedOnce, ExtInv, SizesFollow, KwinInv, AnswerTellsSize
<1> QED
  BY <1>1, <1>2, <1>3, PTL DEF DesktopSpec

-----------------------------------------------------------------------------
(* Screen: the selector's surface, its cache and the menu bar.             *)

\* The shapes of what is on the screen.
CacheShape(c) == c = [is |-> c.is, bumped |-> c.bumped, skip |-> c.skip, size |-> c.size, others |-> c.others,
                      at |-> c.at, region |-> c.region]
SurfaceShape(s) ==
  /\ s = [awake |-> s.awake, configured |-> s.configured, dirty |-> s.dirty, frame |-> s.frame,
          starved |-> s.starved, size |-> s.size, cache |-> s.cache, shown |-> s.shown]
  /\ CacheShape(s.cache) /\ s.frame \in {"none", "asked", "sent"}
IsEdit(e) == e = [others |-> e.others, at |-> e.at, from |-> e.from, dragging |-> e.dragging,
                  region |-> e.region, blurs |-> e.blurs]
IsAnim(x) == x = [v |-> x.v, from |-> x.from, age |-> x.age] /\ x.age \in Nat
IsBar(b)  == /\ b = [placed |-> b.placed, same |-> b.same, open |-> b.open, k |-> b.k, rise |-> b.rise,
                     started |-> b.started, act |-> b.act, annotate |-> b.annotate]
             /\ IsAnim(b.k) /\ IsAnim(b.rise)

ScreenShapes == SurfaceShape(screen) /\ IsEdit(edit) /\ IsBar(bar)

\* Before the loop of region_select nothing is on the screen or in the cache.
NothingBefore ==
  menu.pc \in {"start", "act", "done"} => ~screen.configured /\ ~screen.cache.is

\* A cache that counts as current is the picture of the list there is, but for the
\* annotation that is being dragged.
CacheHolds(c, e) ==
  c.is /\ ~c.bumped => c.others = e.others /\ (c.skip = e.dragging /\ ~e.dragging => c.at = e.at)
CacheIsOfTheList == CacheHolds(screen.cache, edit)

\* What stands still stands where it started from.
StillIsStill == /\ bar.k.age = 0 => bar.k.from = bar.k.v
                /\ bar.rise.age = 0 => bar.rise.from = bar.rise.v

BarAtRest(b) == b.k = Still(Target(b)) /\ b.rise = Still(RiseTarget(b))

\* While the bar moves a frame was asked for in this round, or one is on its way
\* that will be drawn, or the loop will wake and ask for one.
MovesGoOn ==
  screen.configured /\ menu.pc = "bar" /\ bar.started /\ ~BarAtRest(bar) =>
    \/ screen.starved \/ screen.frame = "asked"
    \/ screen.frame = "sent" /\ (screen.dirty \/ ~screen.awake)

ScreenInv == ScreenShapes /\ NothingBefore /\ CacheIsOfTheList /\ StillIsStill /\ MovesGoOn /\ ShownIsCurrent

\* A surface has what it ought to show, or will be drawn.
DrawnOrDue(s, e, b) ==
  \/ s.shown = SceneLook(e, b) /\ s.frame = "asked"
  \/ s.dirty /\ s.starved

LEMMA EnsuredPaints ==
  ASSUME NEW c, NEW e, NEW b, NEW size, CacheShape(c), CacheHolds(c, e)
  PROVE  /\ CacheShape(Ensured(c, e, size)) /\ CacheHolds(Ensured(c, e, size), e)
         /\ Painted(Ensured(c, e, size), e, b) = SceneLook(e, b)
<1> DEFINE new == [is |-> TRUE, bumped |-> FALSE, skip |-> e.dragging, size |-> size,
                   others |-> e.others, at |-> e.at, region |-> Backdrop(e)]
<1>1. CASE Ensured(c, e, size) = new
  <2>1. CacheShape(new) /\ CacheHolds(new, e)
    BY DEF CacheShape, CacheHolds
  <2>2. Painted(new, e, b) = SceneLook(e, b)
    BY DEF Painted, SceneLook
  <2> QED
    BY <1>1, <2>1, <2>2
<1>2. CASE Ensured(c, e, size) = c /\ c.is /\ ~c.bumped /\ c.skip = e.dragging /\ c.region = Backdrop(e)
  <2>1. c.others = e.others /\ (~e.dragging => c.at = e.at)
    BY <1>2 DEF CacheHolds
  <2>2. Painted(c, e, b) = SceneLook(e, b)
    BY <1>2, <2>1 DEF Painted, SceneLook
  <2> QED
    BY <1>2, <2>2
<1> QED
  BY <1>1, <1>2 DEF Ensured

LEMMA RedrawDraws ==
  ASSUME NEW s, NEW e, NEW b, NEW free, SurfaceShape(s), CacheHolds(s.cache, e)
  PROVE  LET r == Redraw(s, e, b, free) IN
         /\ SurfaceShape(r) /\ CacheHolds(r.cache, e)
         /\ r.awake = s.awake /\ r.configured = s.configured
         /\ s.configured => DrawnOrDue(r, e, b)
         /\ ~s.configured => r = s
<1>1. CASE ~s.configured
  BY <1>1 DEF Redraw
<1>2. CASE s.configured /\ ~free
  <2>1. Redraw(s, e, b, free) = [s EXCEPT !.dirty = TRUE, !.starved = TRUE]
    BY <1>2 DEF Redraw
  <2> QED
    BY <1>2, <2>1 DEF SurfaceShape, DrawnOrDue
<1>3. CASE s.configured /\ free
  <2> DEFINE c == Ensured(s.cache, e, s.size)
  <2>1. Redraw(s, e, b, free) = [s EXCEPT !.dirty = FALSE, !.starved = FALSE, !.frame = "asked", !.cache = c,
                                          !.shown = Painted(c, e, b)]
    BY <1>3 DEF Redraw
  <2>2. CacheShape(c) /\ CacheHolds(c, e) /\ Painted(c, e, b) = SceneLook(e, b)
    BY EnsuredPaints DEF SurfaceShape
  <2> HIDE DEF c
  <2> QED
    BY <1>3, <2>1, <2>2 DEF SurfaceShape, DrawnOrDue
<1> QED
  BY <1>1, <1>2, <1>3

LEMMA MarkedDirty ==
  ASSUME NEW s, NEW d, SurfaceShape(s), d = [s EXCEPT !.dirty = TRUE]
  PROVE  /\ SurfaceShape(d) /\ d.cache = s.cache /\ d.awake = s.awake /\ d.configured = s.configured
         /\ d.frame = s.frame /\ d.dirty
BY DEF SurfaceShape

LEMMA RequestDraws ==
  ASSUME NEW s, NEW e, NEW b, NEW free, SurfaceShape(s), CacheHolds(s.cache, e)
  PROVE  LET r == SceneRequested(s, e, b, free) IN
         /\ SurfaceShape(r) /\ CacheHolds(r.cache, e)
         /\ r.awake = s.awake /\ r.configured = s.configured
         /\ s.configured => DrawnOrDue(r, e, b) \/ (r.dirty /\ r.frame = s.frame /\ s.frame # "none")
         /\ ~s.configured => r.cache = s.cache
<1> DEFINE d == [s EXCEPT !.dirty = TRUE]
<1>1. /\ SurfaceShape(d) /\ d.cache = s.cache /\ d.awake = s.awake /\ d.configured = s.configured
      /\ d.frame = s.frame /\ d.dirty
  BY MarkedDirty
<1>2. CASE s.frame # "none"
  BY <1>1, <1>2 DEF SceneRequested
<1>3. CASE s.frame = "none"
  <2>1. SceneRequested(s, e, b, free) = Redraw(d, e, b, free)
    BY <1>3 DEF SceneRequested
  <2> HIDE DEF d
  <2> QED
    BY <1>1, <2>1, RedrawDraws
<1> QED
  BY <1>2, <1>3

LEMMA ScreenInitInv == ScreenInit => ScreenInv
<1> SUFFICES ASSUME ScreenInit PROVE ScreenInv
  OBVIOUS
<1> USE DEF ScreenInit, NoCache, Still
<1>1. ScreenShapes
  BY DEF ScreenShapes, SurfaceShape, CacheShape, IsEdit, IsBar, IsAnim
<1>2. NothingBefore /\ CacheIsOfTheList /\ StillIsStill /\ MovesGoOn /\ ShownIsCurrent
  BY DEF NothingBefore, CacheIsOfTheList, CacheHolds, StillIsStill, MovesGoOn, ShownIsCurrent
<1> QED
  BY <1>1, <1>2 DEF ScreenInv

\* What ScreenInv says of the surface, after a step that ends in a redraw or in
\* a request for one.
LEMMA DrawnIsEnough ==
  ASSUME NEW s, NEW e, NEW b, SurfaceShape(s), IsEdit(e), IsBar(b), CacheHolds(s.cache, e),
         (b.k.age = 0 => b.k.from = b.k.v) /\ (b.rise.age = 0 => b.rise.from = b.rise.v),
         s.configured => DrawnOrDue(s, e, b) \/ (s.dirty /\ s.frame # "none"),
         screen' = s, edit' = e, bar' = b, menu' = menu, menu.pc \in {"bar", "editor"}
  PROVE  ScreenInv'
<1>1. ScreenShapes' /\ NothingBefore' /\ CacheIsOfTheList' /\ StillIsStill'
  BY DEF ScreenShapes, NothingBefore, CacheIsOfTheList, StillIsStill
<1>2. MovesGoOn' /\ ShownIsCurrent'
  BY DEF MovesGoOn, ShownIsCurrent, DrawnOrDue, SurfaceShape
<1> QED
  BY <1>1, <1>2 DEF ScreenInv

\* The editor's changes.
LEMMA EditsKeep ==
  ASSUME ScreenInv, NEW e, NEW s, NEW free, Edits(e, s, free), IsEdit(e),
         (s = screen /\ CacheHolds(screen.cache, e)) \/ s = Bumped(screen)
  PROVE  ScreenInv'
<1>1. SurfaceShape(s) /\ CacheHolds(s.cache, e) /\ s.configured = screen.configured
  <2>1. CASE s = screen
    BY <2>1 DEF ScreenInv, ScreenShapes, Bumped, CacheHolds, SurfaceShape, CacheShape
  <2>2. CASE s = Bumped(screen)
    BY <2>2 DEF ScreenInv, ScreenShapes, Bumped, CacheHolds, SurfaceShape, CacheShape
  <2> QED
    BY <2>1, <2>2
<1> DEFINE r == SceneRequested(s, e, bar, free)
<1>2. /\ SurfaceShape(r) /\ CacheHolds(r.cache, e) /\ r.configured = s.configured
      /\ s.configured => DrawnOrDue(r, e, bar) \/ (r.dirty /\ r.frame # "none")
  BY <1>1, RequestDraws
<1>3. screen' = r /\ edit' = e /\ bar' = bar /\ menu' = menu /\ menu.pc \in {"bar", "editor"}
  BY DEF Edits, Awake
<1> HIDE DEF r
<1>4. IsBar(bar) /\ StillIsStill
  BY DEF ScreenInv, ScreenShapes
<1> QED
  BY <1>2, <1>3, <1>4, DrawnIsEnough DEF StillIsStill

\* The bar's changes that are followed by a request.
LEMMA BarKeeps ==
  ASSUME ScreenInv, NEW b, NEW free, BarMoves(b, TRUE, free), IsBar(b),
         (b.k.age = 0 => b.k.from = b.k.v) /\ (b.rise.age = 0 => b.rise.from = b.rise.v)
  PROVE  ScreenInv'
<1> DEFINE r == SceneRequested(screen, edit, b, free)
<1>1. SurfaceShape(screen) /\ CacheHolds(screen.cache, edit) /\ IsEdit(edit)
  BY DEF ScreenInv, ScreenShapes, CacheIsOfTheList
<1>2. /\ SurfaceShape(r) /\ CacheHolds(r.cache, edit) /\ r.configured = screen.configured
      /\ screen.configured => DrawnOrDue(r, edit, b) \/ (r.dirty /\ r.frame # "none")
  BY <1>1, RequestDraws
<1>3. screen' = r /\ edit' = edit /\ bar' = b /\ menu' = menu /\ menu.pc \in {"bar", "editor"}
  BY DEF BarMoves, Awake
<1> HIDE DEF r
<1> QED
  BY <1>1, <1>2, <1>3, DrawnIsEnough

LEMMA EditorKeeps ==
  ASSUME ScreenInv, NEW free,
         \/ AnnoDrawn(free) \/ AnnoPressed(free) \/ (\E p \in Places : AnnoDragged(p, free))
         \/ AnnoReleased(free) \/ AnnoAborted(free) \/ RegionMoved(free)
  PROVE  ScreenInv'
<1>1. IsEdit(edit) /\ CacheHolds(screen.cache, edit)
  BY DEF ScreenInv, ScreenShapes, CacheIsOfTheList
<1>2. CASE AnnoDrawn(free)
  <2>1. IsEdit([edit EXCEPT !.others = @ + 1])
    BY <1>1 DEF IsEdit
  <2> QED
    BY <1>2, <2>1, EditsKeep DEF AnnoDrawn
<1>3. CASE AnnoPressed(free)
  <2>1. PICK e : e = [edit EXCEPT !.dragging = TRUE, !.from = edit.at]
    OBVIOUS
  <2>2. IsEdit(e)
    BY <1>1, <2>1 DEF IsEdit
  <2>3. Edits(e, Bumped(screen), free)
    BY <1>3, <2>1, Zenon DEF AnnoPressed
  <2> QED
    BY <2>2, <2>3, EditsKeep
<1>4. ASSUME NEW p \in Places, AnnoDragged(p, free) PROVE ScreenInv'
  <2> DEFINE e == [edit EXCEPT !.at = p]
  <2>1. IsEdit(e) /\ e.others = edit.others /\ e.dragging = edit.dragging
    BY <1>1 DEF IsEdit
  <2>2. edit.dragging /\ Edits(e, screen, free)
    BY <1>4 DEF AnnoDragged
  <2> HIDE DEF e
  <2>3. CacheHolds(screen.cache, e)
    BY <1>1, <2>1, <2>2 DEF CacheHolds
  <2> QED
    BY <2>1, <2>2, <2>3, EditsKeep
<1>5. CASE AnnoReleased(free)
  <2>1. PICK e : e = [edit EXCEPT !.dragging = FALSE, !.from = edit.at]
    OBVIOUS
  <2>2. IsEdit(e)
    BY <1>1, <2>1 DEF IsEdit
  <2>3. Edits(e, Bumped(screen), free)
    BY <1>5, <2>1, Zenon DEF AnnoReleased
  <2> QED
    BY <2>2, <2>3, EditsKeep
<1>6. CASE AnnoAborted(free)
  <2>1. PICK e : e = [edit EXCEPT !.dragging = FALSE, !.at = edit.from]
    OBVIOUS
  <2>2. IsEdit(e)
    BY <1>1, <2>1 DEF IsEdit
  <2>3. Edits(e, Bumped(screen), free)
    BY <1>6, <2>1, Zenon DEF AnnoAborted
  <2> QED
    BY <2>2, <2>3, EditsKeep
<1>7. CASE RegionMoved(free)
  <2> DEFINE e == [edit EXCEPT !.region = 3 - @]
  <2>1. IsEdit(e) /\ e.others = edit.others /\ e.dragging = edit.dragging /\ e.at = edit.at
    BY <1>1 DEF IsEdit
  <2>2. Edits(e, screen, free)
    BY <1>7 DEF RegionMoved
  <2> HIDE DEF e
  <2>3. CacheHolds(screen.cache, e)
    BY <1>1, <2>1 DEF CacheHolds
  <2> QED
    BY <2>1, <2>2, <2>3, EditsKeep
<1> QED
  BY <1>2, <1>3, <1>4, <1>5, <1>6, <1>7

LEMMA ChosenShape ==
  ASSUME NEW b, NEW c, NEW what, IsBar(b), c = Chosen(b, what)
  PROVE  IsBar(c) /\ c.k = b.k /\ c.rise = b.rise
<1>1. CASE c = [b EXCEPT !.open = TRUE]
  BY <1>1 DEF IsBar
<1>2. CASE c = [b EXCEPT !.annotate = ~@]
  BY <1>2 DEF IsBar
<1>3. CASE c = [b EXCEPT !.act = what, !.annotate = @ /\ UsesEdit(what)]
  BY <1>3 DEF IsBar
<1> QED
  BY <1>1, <1>2, <1>3 DEF Chosen

LEMMA HoveredShape ==
  ASSUME NEW b, NEW c, NEW where, IsBar(b), c = Hovered(b, where)
  PROVE  IsBar(c) /\ c.k = b.k /\ c.rise = b.rise
<1>1. CASE c = [b EXCEPT !.open = TRUE]
  BY <1>1 DEF IsBar
<1>2. CASE c = [b EXCEPT !.open = FALSE]
  BY <1>2 DEF IsBar
<1> QED
  BY <1>1, <1>2 DEF Hovered

LEMMA PointerKeeps ==
  ASSUME ScreenInv, NEW free, NEW where,
         PointerAt(where, free) \/ \E what : PressedAt(where, what, free)
  PROVE  ScreenInv'
<1>1. IsBar(bar) /\ StillIsStill
  BY DEF ScreenInv, ScreenShapes
<1>2. CASE PointerAt(where, free)
  <2>1. PICK b : b = Hovered(bar, where)
    OBVIOUS
  <2>2. IsBar(b) /\ b.k = bar.k /\ b.rise = bar.rise
    BY <1>1, <2>1, HoveredShape
  <2>3. BarMoves(b, TRUE, free)
    BY <1>2, <2>1, Zenon DEF PointerAt
  <2> QED
    BY <1>1, <2>2, <2>3, BarKeeps DEF StillIsStill
<1>3. ASSUME NEW what, PressedAt(where, what, free) PROVE ScreenInv'
  <2>1. PICK b : b = IF bar.open /\ where = "tab" THEN bar ELSE Chosen(bar, what)
    OBVIOUS
  <2>2. IsBar(b) /\ b.k = bar.k /\ b.rise = bar.rise
    BY <1>1, <2>1, ChosenShape
  <2>3. BarMoves(b, TRUE, free)
    BY <1>3, <2>1 DEF PressedAt
  <2> QED
    BY <1>1, <2>2, <2>3, BarKeeps DEF StillIsStill
<1> QED
  BY <1>2, <1>3

LEMMA StartedAnim ==
  ASSUME NEW x, NEW z, IsAnim(x), z = [x EXCEPT !.from = x.v, !.age = 1]
  PROVE  IsAnim(z) /\ z.age # 0
<1>1. z = [v |-> x.v, from |-> x.v, age |-> 1]
  BY DEF IsAnim
<1>2. z.v = x.v /\ z.from = x.v /\ z.age = 1
  BY <1>1
<1>3. z.age \in Nat /\ z.age # 0
  BY <1>2
<1>4. z = [v |-> z.v, from |-> z.from, age |-> z.age]
  BY <1>1, <1>2
<1> QED
  BY <1>3, <1>4, Zenon DEF IsAnim

LEMMA AgedShape ==
  ASSUME NEW x, NEW y, IsAnim(x), y = Aged(x), x.age = 0 => x.from = x.v
  PROVE  IsAnim(y) /\ y.v = x.v /\ (y.age = 0 => y.from = y.v) /\ (x.age = 0 => y = x)
<1>1. CASE y = x
  BY <1>1
<1>2. CASE x.age # 0 /\ y = [x EXCEPT !.age = @ + 1]
  <2>1. PICK n : n = x.age + 1
    OBVIOUS
  <2>2. n \in Nat /\ n # 0
    BY <2>1 DEF IsAnim
  <2>3. y = [v |-> x.v, from |-> x.from, age |-> n]
    BY <1>2, <2>1 DEF IsAnim
  <2> QED
    BY <1>2, <2>2, <2>3 DEF IsAnim
<1> QED
  BY <1>1, <1>2 DEF Aged

LEMMA StepShape ==
  ASSUME NEW x, NEW target, NEW y, IsAnim(x), x.age = 0 => x.from = x.v, y = Step(x, target)
  PROVE  IsAnim(y) /\ (y.age = 0 => y.from = y.v)
<1>1. PICK z : z = IF x.age = 0 THEN [x EXCEPT !.from = x.v, !.age = 1] ELSE x
  OBVIOUS
<1>2. IsAnim(z) /\ z.age # 0
  <2>1. CASE z = [x EXCEPT !.from = x.v, !.age = 1]
    BY <2>1, StartedAnim, Zenon
  <2>2. CASE z = x /\ x.age # 0
    BY <2>2
  <2> QED
    BY <1>1, <2>1, <2>2
<1>3. CASE y = x
  BY <1>3
<1>4. CASE y = Still(target)
  BY <1>4 DEF Still, IsAnim
<1>5. CASE \E v : y = [z EXCEPT !.v = v]
  BY <1>2, <1>5 DEF IsAnim
<1> QED
  BY <1>1, <1>3, <1>4, <1>5 DEF Step

\* menu_step leaves alone what is where it should be.
LEMMA StepAtRest ==
  ASSUME NEW x, NEW target, ~Busy(x, target)
  PROVE  Step(x, target) = x
BY DEF Busy, Step

LEMMA TickShape ==
  ASSUME NEW b, NEW c, IsBar(b), c = Ticked(b),
         (b.k.age = 0 => b.k.from = b.k.v) /\ (b.rise.age = 0 => b.rise.from = b.rise.v)
  PROVE  IsBar(c) /\ (c.k.age = 0 => c.k.from = c.k.v) /\ (c.rise.age = 0 => c.rise.from = c.rise.v)
<1>1. PICK s : s = Started(b)
  OBVIOUS
<1>2. IsBar(s) /\ (s.k.age = 0 => s.k.from = s.k.v) /\ (s.rise.age = 0 => s.rise.from = s.rise.v)
  <2>1. CASE s = b
    BY <2>1
  <2>2. CASE s = [b EXCEPT !.started = TRUE, !.rise.from = b.rise.v, !.rise.age = 1]
    BY <2>2 DEF IsBar, IsAnim
  <2> QED
    BY <1>1, <2>1, <2>2 DEF Started
<1>3. PICK k : k = Step(s.k, Target(s))
  OBVIOUS
<1>4. IsAnim(k) /\ (k.age = 0 => k.from = k.v)
  BY <1>2, <1>3, StepShape DEF IsBar
<1>5. PICK w : w = WithBar(s)
  OBVIOUS
<1>6. IsBar(w) /\ w.k = k /\ w.rise = s.rise
  BY <1>2, <1>3, <1>4, <1>5 DEF WithBar, IsBar
<1>7. PICK r : r = Step(w.rise, RiseTarget(w))
  OBVIOUS
<1>8. IsAnim(r) /\ (r.age = 0 => r.from = r.v)
  BY <1>2, <1>6, <1>7, StepShape DEF IsBar
<1>9. c = [w EXCEPT !.rise = r]
  BY <1>1, <1>5, <1>7 DEF Ticked, WithTab
<1> QED
  BY <1>4, <1>6, <1>8, <1>9 DEF IsBar

\* What does not move is at rest, and a tick leaves it there.
LEMMA StillMovesOrRests ==
  ASSUME NEW b, IsBar(b), ~StillMoves(b),
         (b.k.age = 0 => b.k.from = b.k.v) /\ (b.rise.age = 0 => b.rise.from = b.rise.v)
  PROVE  Ticked(b) = b /\ BarAtRest(b)
<1>1. PICK s : s = Started(b)
  OBVIOUS
<1>2. ~Busy(b.k, Target(b)) /\ ~Busy(WithBar(s).rise, RiseTarget(WithBar(s)))
  BY <1>1 DEF StillMoves
<1>3. WithBar(s).rise = s.rise
  <2>1. IsBar(s)
    <3>1. CASE s = b
      BY <3>1
    <3>2. CASE s = [b EXCEPT !.started = TRUE, !.rise.from = b.rise.v, !.rise.age = 1]
      BY <3>2 DEF IsBar, IsAnim
    <3> QED
      BY <1>1, <3>1, <3>2 DEF Started
  <2> QED
    BY <2>1 DEF WithBar, IsBar
<1>4. s = b
  <2>1. CASE ~b.started
    <3>1. s.rise.age = 1
      BY <1>1, <2>1 DEF Started, IsBar, IsAnim
    <3> QED
      BY <1>2, <1>3, <3>1 DEF Busy
  <2> QED
    BY <1>1, <2>1 DEF Started
<1>5. WithBar(b) = b
  <2>1. WithBar(b) = [b EXCEPT !.k = b.k]
    BY <1>2, StepAtRest DEF WithBar
  <2> QED
    BY <2>1 DEF IsBar
<1>6. ~Busy(b.rise, RiseTarget(b))
  BY <1>2, <1>4, <1>5
<1>7. WithTab(b) = b
  <2>1. WithTab(b) = [b EXCEPT !.rise = b.rise]
    BY <1>6, StepAtRest DEF WithTab
  <2> QED
    BY <2>1 DEF IsBar
<1>8. Ticked(b) = b
  BY <1>1, <1>4, <1>5, <1>7 DEF Ticked
<1>9. b.k = Still(Target(b)) /\ b.rise = Still(RiseTarget(b))
  BY <1>2, <1>6 DEF Busy, Still, IsBar, IsAnim
<1> QED
  BY <1>8, <1>9 DEF BarAtRest

LEMMA WakesKeeps ==
  ASSUME ScreenInv, NEW free, Wakes(free)
  PROVE  ScreenInv'
<1>1. /\ SurfaceShape(screen) /\ CacheHolds(screen.cache, edit) /\ IsEdit(edit) /\ IsBar(bar) /\ StillIsStill
      /\ menu' = menu /\ edit' = edit /\ menu.pc \in {"bar", "editor"}
  BY DEF ScreenInv, ScreenShapes, CacheIsOfTheList, Wakes
<1>2. CASE menu.pc = "bar" /\ StillMoves(bar)
  <2>1. PICK b : b = Ticked(bar)
    OBVIOUS
  <2>2. PICK r : r = SceneRequested(screen, edit, b, free)
    OBVIOUS
  <2>3. /\ SurfaceShape(r) /\ CacheHolds(r.cache, edit) /\ r.configured = screen.configured
        /\ screen.configured => DrawnOrDue(r, edit, b) \/ (r.dirty /\ r.frame # "none")
    BY <1>1, <2>2, RequestDraws
  <2>4. bar' = b /\ screen' = [r EXCEPT !.awake = TRUE]
    BY <1>2, <2>1, <2>2 DEF Wakes
  <2>5. /\ SurfaceShape(screen') /\ CacheHolds(screen'.cache, edit) /\ screen'.configured = r.configured
        /\ screen'.configured => DrawnOrDue(screen', edit, b) \/ (screen'.dirty /\ screen'.frame # "none")
    BY <2>3, <2>4 DEF SurfaceShape, DrawnOrDue
  <2>6. IsBar(b) /\ (b.k.age = 0 => b.k.from = b.k.v) /\ (b.rise.age = 0 => b.rise.from = b.rise.v)
    BY <1>1, <2>1, TickShape DEF StillIsStill
  <2> QED
    BY <1>1, <2>4, <2>5, <2>6, DrawnIsEnough
<1>3. CASE ~(menu.pc = "bar" /\ StillMoves(bar))
  <2>1. screen' = [screen EXCEPT !.awake = TRUE]
    BY <1>3 DEF Wakes
  <2>2. bar' = bar /\ (menu.pc = "bar" => BarAtRest(bar))
    BY <1>1, <1>3, StillMovesOrRests DEF Wakes, StillIsStill
  <2>3. SurfaceShape(screen')
    BY <1>1, <2>1 DEF SurfaceShape
  <2>4. /\ screen'.cache = screen.cache /\ screen'.configured = screen.configured /\ screen'.dirty = screen.dirty
        /\ screen'.frame = screen.frame /\ screen'.starved = screen.starved /\ screen'.shown = screen.shown
    BY <1>1, <2>1 DEF SurfaceShape
  <2>5. ScreenShapes' /\ NothingBefore' /\ CacheIsOfTheList' /\ StillIsStill'
    BY <1>1, <2>2, <2>3, <2>4 DEF ScreenShapes, NothingBefore, CacheIsOfTheList, StillIsStill
  <2>6. MovesGoOn' /\ ShownIsCurrent'
    BY <1>1, <2>2, <2>4 DEF ScreenInv, MovesGoOn, ShownIsCurrent
  <2> QED
    BY <2>5, <2>6 DEF ScreenInv
<1> QED
  BY <1>2, <1>3

LEMMA DrawsKeep ==
  ASSUME ScreenInv, NEW free, SceneFrameDone(free) \/ \E size : Configured(size, free)
  PROVE  ScreenInv'
<1>1. /\ SurfaceShape(screen) /\ CacheHolds(screen.cache, edit) /\ IsEdit(edit) /\ IsBar(bar) /\ StillIsStill
      /\ menu' = menu /\ edit' = edit /\ bar' = bar /\ Awake /\ menu.pc \in {"bar", "editor"}
  <2>1. SurfaceShape(screen) /\ CacheHolds(screen.cache, edit) /\ IsEdit(edit) /\ IsBar(bar) /\ StillIsStill
    BY DEF ScreenInv, ScreenShapes, CacheIsOfTheList
  <2>2. menu' = menu /\ edit' = edit /\ bar' = bar /\ Awake
    BY Zenon DEF SceneFrameDone, Configured
  <2> QED
    BY <2>1, <2>2 DEF Awake
<1>2. ASSUME NEW s, SurfaceShape(s), CacheHolds(s.cache, edit), screen' = Redraw(s, edit, bar, free)
      PROVE  ScreenInv'
  <2>1. PICK r : r = Redraw(s, edit, bar, free)
    OBVIOUS
  <2>2. /\ SurfaceShape(r) /\ CacheHolds(r.cache, edit)
        /\ r.configured => DrawnOrDue(r, edit, bar)
    BY <1>2, <2>1, RedrawDraws
  <2> QED
    BY <1>1, <1>2, <2>1, <2>2, DrawnIsEnough DEF StillIsStill
<1>3. ASSUME NEW size, Configured(size, free) PROVE ScreenInv'
  <2>1. PICK c : c = IF screen.cache.size = size THEN screen.cache ELSE NoCache
    OBVIOUS
  <2>2. CacheShape(c) /\ CacheHolds(c, edit)
    BY <1>1, <2>1 DEF NoCache, CacheShape, CacheHolds, SurfaceShape
  <2>3. PICK s : s = [screen EXCEPT !.configured = TRUE, !.size = size, !.cache = c]
    OBVIOUS
  <2>4. SurfaceShape(s) /\ s.cache = c
    BY <1>1, <2>2, <2>3 DEF SurfaceShape
  <2>5. screen' = Redraw(s, edit, bar, free)
    <3>1. screen' = Redraw([screen EXCEPT !.configured = TRUE, !.size = size,
                              !.cache = IF @.size = size THEN @ ELSE NoCache], edit, bar, free)
      BY <1>3, Zenon DEF Configured
    <3>2. [screen EXCEPT !.configured = TRUE, !.size = size, !.cache = IF @.size = size THEN @ ELSE NoCache] = s
      BY <1>1, <2>1, <2>3 DEF SurfaceShape
    <3> QED
      BY <3>1, <3>2, Zenon
  <2> QED
    BY <1>2, <2>2, <2>4, <2>5
<1>4. CASE SceneFrameDone(free)
  <2>1. PICK s : s = [screen EXCEPT !.frame = "none"]
    OBVIOUS
  <2>2. /\ SurfaceShape(s) /\ s.cache = screen.cache /\ s.configured = screen.configured /\ s.dirty = screen.dirty
        /\ s.starved = screen.starved /\ s.shown = screen.shown
    BY <1>1, <2>1 DEF SurfaceShape
  <2>3. CASE screen.dirty
    <3>1. screen' = Redraw(s, edit, bar, free)
      BY <1>4, <2>1, <2>2, <2>3 DEF SceneFrameDone
    <3> QED
      BY <1>1, <1>2, <2>2, <3>1
  <2>4. CASE ~screen.dirty
    <3>1. screen' = s /\ screen.awake /\ screen.frame = "sent"
      BY <1>1, <1>4, <2>1, <2>2, <2>4 DEF SceneFrameDone, Awake
    <3>2. ScreenShapes' /\ NothingBefore' /\ CacheIsOfTheList' /\ StillIsStill'
      BY <1>1, <2>2, <3>1 DEF ScreenShapes, NothingBefore, CacheIsOfTheList, StillIsStill
    <3>3. MovesGoOn' /\ ShownIsCurrent'
      BY <1>1, <2>2, <2>4, <3>1 DEF ScreenInv, MovesGoOn, ShownIsCurrent
    <3> QED
      BY <3>2, <3>3 DEF ScreenInv
  <2> QED
    BY <2>3, <2>4
<1> QED
  BY <1>3, <1>4

LEMMA LoopKeeps ==
  ASSUME ScreenInv, Sleeps \/ TimePasses
  PROVE  ScreenInv'
<1>1. /\ SurfaceShape(screen) /\ IsEdit(edit) /\ IsBar(bar) /\ StillIsStill
      /\ menu' = menu /\ edit' = edit
  BY DEF ScreenInv, ScreenShapes, Sleeps, TimePasses
<1>2. CASE Sleeps
  <2>1. PICK f : f = IF screen.frame = "asked" THEN "sent" ELSE screen.frame
    OBVIOUS
  <2>2. screen' = [screen EXCEPT !.awake = FALSE, !.frame = f] /\ bar' = bar
    BY <1>2, <2>1 DEF Sleeps
  <2>3. SurfaceShape(screen')
    BY <1>1, <2>1, <2>2 DEF SurfaceShape
  <2>4. /\ screen'.cache = screen.cache /\ screen'.configured = screen.configured /\ screen'.dirty = screen.dirty
        /\ screen'.frame = f /\ screen'.starved = screen.starved /\ screen'.shown = screen.shown /\ ~screen'.awake
    BY <1>1, <2>2 DEF SurfaceShape
  <2>5. ScreenShapes' /\ NothingBefore' /\ CacheIsOfTheList' /\ StillIsStill'
    BY <1>1, <2>2, <2>3, <2>4 DEF ScreenInv, ScreenShapes, NothingBefore, CacheIsOfTheList, StillIsStill
  <2>6. MovesGoOn' /\ ShownIsCurrent'
    BY <1>1, <2>1, <2>2, <2>4 DEF ScreenInv, MovesGoOn, ShownIsCurrent
  <2> QED
    BY <2>5, <2>6 DEF ScreenInv
<1>3. CASE TimePasses
  <2>1. PICK k : k = Aged(bar.k)
    OBVIOUS
  <2>2. PICK r : r = Aged(bar.rise)
    OBVIOUS
  <2>3. bar' = [bar EXCEPT !.k = k, !.rise = r] /\ screen' = screen
    BY <1>3, <2>1, <2>2 DEF TimePasses
  <2>4. IsAnim(k) /\ k.v = bar.k.v /\ (k.age = 0 => k.from = k.v) /\ (bar.k.age = 0 => k = bar.k)
    BY <1>1, <2>1, AgedShape DEF IsBar, StillIsStill
  <2>5. IsAnim(r) /\ r.v = bar.rise.v /\ (r.age = 0 => r.from = r.v) /\ (bar.rise.age = 0 => r = bar.rise)
    BY <1>1, <2>2, AgedShape DEF IsBar, StillIsStill
  <2>6. /\ IsBar(bar') /\ bar'.k = k /\ bar'.rise = r /\ bar'.open = bar.open /\ bar'.started = bar.started
        /\ bar'.placed = bar.placed /\ bar'.same = bar.same /\ bar'.act = bar.act
    BY <1>1, <2>3, <2>4, <2>5 DEF IsBar
  <2>7. BarAtRest(bar) => BarAtRest(bar')
    <3>1. ASSUME BarAtRest(bar) PROVE k = bar.k /\ r = bar.rise
      BY <2>4, <2>5, <3>1 DEF BarAtRest, Still
    <3> QED
      BY <2>6, <3>1 DEF BarAtRest, Target, RiseTarget
  <2>8. SceneLook(edit, bar') = SceneLook(edit, bar)
    BY <2>4, <2>5, <2>6 DEF SceneLook, BarLook
  <2>9. ScreenShapes' /\ NothingBefore' /\ CacheIsOfTheList' /\ StillIsStill'
    BY <1>1, <2>3, <2>4, <2>5, <2>6
    DEF ScreenInv, ScreenShapes, NothingBefore, CacheIsOfTheList, StillIsStill
  <2>10. MovesGoOn' /\ ShownIsCurrent'
    BY <1>1, <2>3, <2>6, <2>7, <2>8 DEF ScreenInv, MovesGoOn, ShownIsCurrent
  <2> QED
    BY <2>9, <2>10 DEF ScreenInv
<1> QED
  BY <1>2, <1>3

\* The screen is there between the loop's begin and its end only.
LEMMA BeginsKeep ==
  ASSUME ScreenInv, (\E same \in BOOLEAN : MenuBegins(same)) \/ EditorBegins
  PROVE  ScreenInv'
<1>1. /\ SurfaceShape(screen) /\ IsEdit(edit) /\ IsBar(bar) /\ StillIsStill
      /\ screen' = screen /\ ~screen.configured /\ ~screen.cache.is
  <2>1. SurfaceShape(screen) /\ IsEdit(edit) /\ IsBar(bar) /\ StillIsStill /\ NothingBefore
    BY DEF ScreenInv, ScreenShapes
  <2>2. screen' = screen /\ menu.pc = "start"
    BY Zenon DEF MenuBegins, EditorBegins
  <2> QED
    BY <2>1, <2>2 DEF NothingBefore
<1>2. NothingBefore' /\ CacheIsOfTheList' /\ MovesGoOn' /\ ShownIsCurrent'
  BY <1>1 DEF NothingBefore, CacheIsOfTheList, CacheHolds, MovesGoOn, ShownIsCurrent
<1>3. ASSUME NEW same, MenuBegins(same) PROVE ScreenInv'
  <2>1. bar' = [bar EXCEPT !.placed = TRUE, !.same = same] /\ edit' = edit
    BY <1>3, Zenon DEF MenuBegins
  <2>2. IsBar(bar') /\ bar'.k = bar.k /\ bar'.rise = bar.rise
    BY <1>1, <2>1 DEF IsBar
  <2> QED
    BY <1>1, <1>2, <2>1, <2>2 DEF ScreenInv, ScreenShapes, StillIsStill
<1>4. CASE EditorBegins
  <2>1. PICK blurs \in BOOLEAN : edit' = [edit EXCEPT !.blurs = blurs]
    BY <1>4 DEF EditorBegins
  <2>2. bar' = bar /\ IsEdit(edit')
    BY <1>1, <1>4, <2>1 DEF EditorBegins, IsEdit
  <2> QED
    BY <1>1, <1>2, <2>2 DEF ScreenInv, ScreenShapes, StillIsStill
<1> QED
  BY <1>3, <1>4

LEMMA EndsKeep ==
  ASSUME ScreenInv, (\E confirmed \in BOOLEAN : Selected(confirmed)) \/ MenuActs
  PROVE  ScreenInv'
<1>1. /\ SurfaceShape(screen) /\ IsEdit(edit) /\ IsBar(bar) /\ StillIsStill
      /\ bar' = bar /\ edit' = edit
  BY DEF ScreenInv, ScreenShapes, Selected, MenuActs
<1>2. SurfaceShape(screen') /\ ~screen'.configured /\ ~screen'.cache.is
  <2>1. CASE screen' = Closed
    <3>1. CacheShape(NoCache) /\ ~NoCache.is
      BY DEF NoCache, CacheShape
    <3>2. screen' = [screen EXCEPT !.configured = FALSE, !.dirty = FALSE, !.starved = FALSE, !.frame = "none",
                                   !.size = 0, !.shown = SceneLook(edit, bar), !.cache = NoCache]
      BY <2>1 DEF Closed
    <3> QED
      BY <1>1, <3>1, <3>2 DEF SurfaceShape
  <2>2. CASE MenuActs
    BY <1>1, <2>2 DEF ScreenInv, NothingBefore, MenuActs
  <2> QED
    BY <2>1, <2>2 DEF Selected
<1>3. NothingBefore' /\ CacheIsOfTheList' /\ MovesGoOn' /\ ShownIsCurrent'
  BY <1>2 DEF NothingBefore, CacheIsOfTheList, CacheHolds, MovesGoOn, ShownIsCurrent
<1> QED
  BY <1>1, <1>2, <1>3 DEF ScreenInv, ScreenShapes, StillIsStill

LEMMA ScreenStays == ScreenInv /\ [ScreenNext]_screenVars => ScreenInv'
<1> SUFFICES ASSUME ScreenInv, [ScreenNext]_screenVars PROVE ScreenInv'
  OBVIOUS
<1>1. CASE UNCHANGED screenVars
  BY <1>1 DEF screenVars, ScreenInv, ScreenShapes, NothingBefore, CacheIsOfTheList, StillIsStill, MovesGoOn,
               ShownIsCurrent
<1>2. ASSUME NEW free \in BOOLEAN,
             \/ \E size \in {1, 2} : Configured(size, free)
             \/ SceneFrameDone(free) \/ Wakes(free) \/ AnnoDrawn(free) \/ AnnoPressed(free)
             \/ (\E p \in Places : AnnoDragged(p, free)) \/ AnnoReleased(free) \/ AnnoAborted(free)
             \/ RegionMoved(free)
             \/ \E where \in {"tab", "bar", "off"} :
                  \/ PointerAt(where, free)
                  \/ \E what \in MenuActions \cup {"annotate", "gap"} : PressedAt(where, what, free)
      PROVE  ScreenInv'
  <2>1. CASE SceneFrameDone(free) \/ \E size : Configured(size, free)
    BY <2>1, DrawsKeep
  <2>2. CASE Wakes(free)
    BY <2>2, WakesKeeps
  <2>3. CASE \/ AnnoDrawn(free) \/ AnnoPressed(free) \/ (\E p \in Places : AnnoDragged(p, free))
             \/ AnnoReleased(free) \/ AnnoAborted(free) \/ RegionMoved(free)
    BY <2>3, EditorKeeps
  <2>4. ASSUME NEW where, PointerAt(where, free) \/ \E what : PressedAt(where, what, free)
        PROVE  ScreenInv'
    BY <2>4, PointerKeeps
  <2> QED
    BY <1>2, <2>1, <2>2, <2>3, <2>4
<1>3. CASE Sleeps \/ TimePasses
  BY <1>3, LoopKeeps
<1>4. CASE (\E same \in BOOLEAN : MenuBegins(same)) \/ EditorBegins
  BY <1>4, BeginsKeep
<1>5. CASE (\E confirmed \in BOOLEAN : Selected(confirmed)) \/ MenuActs
  BY <1>5, EndsKeep
<1> QED
  BY <1>1, <1>2, <1>3, <1>4, <1>5 DEF ScreenNext

\* What the selector shows is what it is in: at every moment of it, for any
\* number of places, any speed of the animations and any interleaving of edits,
\* frame callbacks, busy buffers and rounds of the loop of region_select, the
\* surface is the scene or a redraw of it is due, and the bar of the menu that
\* nothing moves any more is where it belongs.
THEOREM ScreenStaysCurrent == DesktopSpec => []ScreenIsCurrent
<1>1. DesktopInit => ScreenInv
  BY ScreenInitInv DEF DesktopInit
<1>2. ScreenInv /\ [DesktopNext]_desktopVars => ScreenInv'
  BY DesktopSteps, ScreenStays
<1>3. ScreenInv => ScreenIsCurrent
  BY DEF ScreenInv, ScreenIsCurrent, BarSettles, MovesGoOn, BarAtRest
<1> QED
  BY <1>1, <1>2, <1>3, PTL DEF DesktopSpec

-----------------------------------------------------------------------------
(* PinWindow: the surfaces of a pin, its redraws and its drag.             *)

\* A finite set has an element where a number is least: the least, by inclusion,
\* of the sets of those that are below one.
LEMMA LeastExists ==
  ASSUME NEW S, IsFiniteSet(S), S # {}, NEW g, \A y \in S : g[y] \in Int
  PROVE  \E x \in S : \A y \in S : g[x] <= g[y]
<1> DEFINE Under(x) == {y \in S : g[y] < g[x]}
           T == {Under(x) : x \in S}
           R == StrictSubsetOrdering(S)
<1>1. T \subseteq SUBSET S /\ T # {}
  OBVIOUS
<1>2. IsWellFoundedOn(R, SUBSET S)
  BY FS_StrictSubsetOrderingWellFounded, FS_FiniteSubsetsOfFinite
<1>3. PICK A \in T : \A B \in T : ~(<<B, A>> \in R)
  <2> HIDE DEF T, R
  <2> QED
    BY <1>1, <1>2, WFMin
<1>4. PICK x \in S : A = Under(x)
  BY <1>3
<1>5. ASSUME NEW y \in S, ~(g[x] <= g[y]) PROVE FALSE
  <2>1. g[y] < g[x]
    BY <1>5
  <2>2. Under(y) \subseteq Under(x) /\ y \in Under(x) /\ y \notin Under(y)
    BY <2>1
  <2>3. <<Under(y), A>> \in R
    BY <1>4, <2>2 DEF StrictSubsetOrdering
  <2> QED
    BY <1>3, <2>3
<1> QED
  BY <1>5

\* Min and Max of what is in the code an int, over a finite set of outputs.
LEMMA MinOfInts ==
  ASSUME NEW S, IsFiniteSet(S), S # {}, NEW g, \A y \in S : g[y] \in Int
  PROVE  Min({g[y] : y \in S}) \in Int
<1>1. PICK x \in S : \A y \in S : g[x] <= g[y]
  BY LeastExists
<1>2. \E m \in {g[y] : y \in S} : \A n \in {g[y] : y \in S} : m =< n
  BY <1>1
<1>3. Min({g[y] : y \in S}) \in {g[y] : y \in S}
  BY <1>2 DEF Min
<1> QED
  BY <1>3

LEMMA MaxOfInts ==
  ASSUME NEW S, IsFiniteSet(S), S # {}, NEW g, \A y \in S : g[y] \in Int
  PROVE  Max({g[y] : y \in S}) \in Int
<1> DEFINE h == [y \in S |-> -g[y]]
<1>1. \A y \in S : h[y] \in Int /\ g[y] = -h[y]
  OBVIOUS
<1>2. PICK x \in S : \A y \in S : h[x] <= h[y]
  <2> HIDE DEF h
  <2> QED
    BY <1>1, LeastExists
<1>3. \A y \in S : g[x] >= g[y]
  BY <1>1, <1>2
<1>4. \E m \in {g[y] : y \in S} : \A n \in {g[y] : y \in S} : m >= n
  BY <1>3
<1>5. Max({g[y] : y \in S}) \in {g[y] : y \in S}
  BY <1>4 DEF Max
<1> QED
  BY <1>5

\* rect_clamp_into, where it leaves its argument alone and where it does not.
LEMMA WithinIsInt ==
  ASSUME NEW lo \in Int, NEW hi \in Int, NEW x \in Int
  PROVE  Within(lo, hi, x) \in Int
<1>1. hi - PinW \in Int
  BY PinWindowAssumption
<1>2. Min({x, hi - PinW}) \in {x, hi - PinW}
  BY <1>1 DEF Min
<1>3. PICK m \in Int : m = Min({x, hi - PinW})
  BY <1>1, <1>2
<1>4. Max({lo, m}) \in {lo, m}
  BY DEF Max
<1> QED
  BY <1>3, <1>4 DEF Within

\* The shapes of a window and of its surfaces.
IsSurface(s) ==
  /\ s = [up |-> s.up, configured |-> s.configured, dirty |-> s.dirty, frame |-> s.frame,
          starved |-> s.starved, shown |-> s.shown]
  /\ s.up \in BOOLEAN
HasSurfaces(w) ==
  w.surf = [o \in Outputs |-> w.surf[o]] /\ \A o \in Outputs : IsSurface(w.surf[o])
WindowShape(w) ==
  w = [opened |-> w.opened, finished |-> w.finished, transient |-> w.transient, clickable |-> w.clickable,
       target |-> w.target, px |-> w.px, lo |-> w.lo, hi |-> w.hi, acc |-> w.acc, dragging |-> w.dragging,
       hovering |-> w.hovering, grabbed |-> w.grabbed, ptrOn |-> w.ptrOn, alive |-> w.alive, gone |-> w.gone,
       stale |-> w.stale, surf |-> w.surf]
Placed(w) == {w.px, w.lo, w.hi, w.acc} \subseteq Int /\ w.alive \subseteq Outputs

\* What a redraw of the surfaces does not touch, and what a resync does not.
SameDrag(w, r) == r.acc = w.acc /\ r.dragging = w.dragging /\ r.opened = w.opened /\ r.finished = w.finished
SameView(w, r) ==
  /\ r.px = w.px /\ r.lo = w.lo /\ r.hi = w.hi /\ r.grabbed = w.grabbed /\ r.hovering = w.hovering
SameOutputs(w, r) ==
  r.alive = w.alive /\ r.transient = w.transient /\ r.target = w.target /\ r.stale = w.stale
SameElse(w, r) == SameDrag(w, r) /\ SameView(w, r) /\ SameOutputs(w, r) /\ r.ptrOn = w.ptrOn

\* A surface that is configured is there and shows the pin, or it will.
Due(look, s) == s.configured => s.up /\ (s.shown = look \/ (s.dirty /\ (s.frame \/ s.starved)))
OnlyUp(w)    == \A o \in Outputs : w.surf[o].configured => w.surf[o].up
AllDue(w)    == \A o \in Outputs : Due(Look(w), w.surf[o])
PointerOn(w) == w.ptrOn # NoOut => w.ptrOn \in Outputs /\ w.surf[w.ptrOn].up
Matched(w)   == ~w.stale => \A o \in Outputs : w.surf[o].up <=> o \in Wanted(w)

WindowOk(w) ==
  /\ WindowShape(w) /\ HasSurfaces(w) /\ Placed(w)
  /\ AllDue(w) /\ PointerOn(w) /\ Matched(w)

\* A drag has lost nothing, unless it ran into the bounds.
NothingLost == win.dragging => winGhost.off = 0 \/ winGhost.hit

WinInv ==
  /\ ~win.opened => win = NoWindow
  /\ Running => WindowOk(win) /\ NothingLost
  /\ winGhost = [off |-> winGhost.off, hit |-> winGhost.hit]

LEMMA SurfacesReplaced ==
  ASSUME NEW w, NEW g, NEW r, WindowShape(w), r = [w EXCEPT !.surf = g]
  PROVE  WindowShape(r) /\ SameElse(w, r) /\ r.surf = g
<1>1. WindowShape(r)
  BY DEF WindowShape
<1> QED
  BY <1>1 DEF WindowShape, SameElse, SameDrag, SameView, SameOutputs

LEMMA RedrawnDue ==
  ASSUME NEW w, NEW s, NEW free, IsSurface(s), s.configured => s.up
  PROVE  LET r == Redrawn(w, s, free) IN IsSurface(r) /\ r.up = s.up /\ Due(Look(w), r)
<1>1. CASE ~s.configured
  BY <1>1 DEF Redrawn, Due
<1>2. CASE s.configured /\ free
  BY <1>2 DEF Redrawn, Drawn, IsSurface, Due
<1>3. CASE s.configured /\ ~free
  BY <1>3 DEF Redrawn, IsSurface, Due
<1> QED
  BY <1>1, <1>2, <1>3

LEMMA RequestedDue ==
  ASSUME NEW w, NEW s, NEW free, IsSurface(s), s.configured => s.up
  PROVE  LET r == Requested(w, s, free) IN IsSurface(r) /\ r.up = s.up /\ Due(Look(w), r)
<1>1. PICK d : d = [s EXCEPT !.dirty = TRUE]
  OBVIOUS
<1>2. IsSurface(d) /\ d.up = s.up /\ d.dirty /\ d.frame = s.frame /\ d.configured = s.configured
  BY <1>1 DEF IsSurface
<1>3. CASE s.frame
  BY <1>1, <1>2, <1>3 DEF Requested, Due
<1>4. CASE ~s.frame
  <2>1. Requested(w, s, free) = Redrawn(w, d, free)
    BY <1>1, <1>4 DEF Requested
  <2> QED
    BY <1>2, <2>1, RedrawnDue
<1> QED
  BY <1>3, <1>4

\* pin_render_all: each surface shows the pin, or will.
LEMMA AllRedrawn ==
  ASSUME NEW w, NEW free, NEW r, r = RedrawAll(w, free), WindowShape(w), HasSurfaces(w), OnlyUp(w)
  PROVE  /\ WindowShape(r) /\ HasSurfaces(r) /\ SameElse(w, r)
         /\ AllDue(r) /\ \A o \in Outputs : r.surf[o].up = w.surf[o].up
<1> DEFINE g == [o \in Outputs |-> IF w.surf[o].up THEN Requested(w, w.surf[o], free) ELSE w.surf[o]]
<1>1. r = [w EXCEPT !.surf = g]
  BY DEF RedrawAll
<1>2. \A o \in Outputs : IsSurface(g[o]) /\ g[o].up = w.surf[o].up /\ Due(Look(w), g[o])
  <2> TAKE o \in Outputs
  <2>1. IsSurface(w.surf[o])
    BY DEF HasSurfaces
  <2>2. CASE w.surf[o].up
    BY <2>1, <2>2, RequestedDue
  <2>3. CASE ~w.surf[o].up
    BY <2>1, <2>3 DEF OnlyUp, Due
  <2> QED
    BY <2>2, <2>3
<1>3. g = [o \in Outputs |-> g[o]]
  OBVIOUS
<1> HIDE DEF g
<1>4. WindowShape(r) /\ SameElse(w, r) /\ r.surf = g
  BY <1>1, SurfacesReplaced
<1>5. Look(r) = Look(w)
  BY <1>4 DEF Look, SameElse, SameView
<1> QED
  BY <1>2, <1>3, <1>4, <1>5 DEF HasSurfaces, AllDue

LEMMA BoundedShape ==
  ASSUME NEW w, NEW b, b = Bounded(w), WindowShape(w), Placed(w)
  PROVE  /\ WindowShape(b) /\ Placed(b) /\ SameDrag(w, b) /\ SameOutputs(w, b)
         /\ b.surf = w.surf /\ b.ptrOn = w.ptrOn
<1> DEFINE g == [o \in w.alive |-> OutX[o] + OutW]
<1>1. PICK lo : lo = Min({OutX[o] : o \in w.alive})
  OBVIOUS
<1>2. PICK hi : hi = Max({OutX[o] + OutW : o \in w.alive})
  OBVIOUS
<1>3. PICK x : x = Within(lo, hi, w.px)
  OBVIOUS
<1>4. IsFiniteSet(w.alive) /\ \A o \in w.alive : OutX[o] \in Int /\ g[o] \in Int
  <2>1. w.alive \in SUBSET Outputs
    BY DEF Placed
  <2> QED
    BY <2>1, PinWindowAssumption, FS_Subset
<1>5. w.alive # {} => lo \in Int /\ hi \in Int /\ x \in Int
  <2> SUFFICES ASSUME w.alive # {} PROVE lo \in Int /\ hi \in Int /\ x \in Int
    OBVIOUS
  <2>1. lo \in Int
    BY <1>1, <1>4, MinOfInts
  <2>2. {OutX[o] + OutW : o \in w.alive} = {g[o] : o \in w.alive}
    OBVIOUS
  <2>3. hi \in Int
    <3> HIDE DEF g
    <3> QED
      BY <1>2, <1>4, <2>2, MaxOfInts
  <2> QED
    BY <1>3, <2>1, <2>3, WithinIsInt DEF Placed
<1>6. CASE w.alive = {}
  <2>1. b = [w EXCEPT !.lo = 0, !.hi = 0]
    BY <1>6 DEF Bounded
  <2>2. WindowShape(b) /\ b.lo = 0 /\ b.hi = 0 /\ b.px = w.px /\ b.acc = w.acc /\ b.alive = w.alive
    BY <2>1 DEF WindowShape
  <2> QED
    BY <2>1, <2>2 DEF WindowShape, Placed, SameDrag, SameOutputs
<1>7. CASE w.alive # {}
  <2>1. b = [w EXCEPT !.lo = lo, !.hi = hi, !.px = x]
    BY <1>1, <1>2, <1>3, <1>7 DEF Bounded
  <2>2. WindowShape(b) /\ b.lo = lo /\ b.hi = hi /\ b.px = x /\ b.acc = w.acc /\ b.alive = w.alive
    BY <2>1 DEF WindowShape
  <2> QED
    BY <1>5, <1>7, <2>1, <2>2 DEF WindowShape, Placed, SameDrag, SameOutputs
<1> QED
  BY <1>6, <1>7

LEMMA SurfacesFollow ==
  ASSUME NEW w, NEW g, g = Surfaces(w), HasSurfaces(w)
  PROVE  /\ g = [o \in Outputs |-> g[o]]
         /\ \A o \in Outputs : IsSurface(g[o]) /\ (g[o].up <=> o \in Wanted(w)) /\ (g[o].configured => g[o].up)
<1>1. ASSUME NEW o \in Outputs
      PROVE  IsSurface(g[o]) /\ (g[o].up <=> o \in Wanted(w)) /\ (g[o].configured => g[o].up)
  <2>1. CASE o \notin Wanted(w)
    <3>1. g[o] = NoSurface
      BY <2>1 DEF Surfaces
    <3> QED
      BY <2>1, <3>1 DEF NoSurface, IsSurface
  <2>2. CASE o \in Wanted(w)
    <3>1. g[o] = [w.surf[o] EXCEPT !.up = TRUE]
      BY <2>2 DEF Surfaces
    <3> QED
      BY <2>2, <3>1 DEF HasSurfaces, IsSurface
  <2> QED
    BY <2>1, <2>2
<1>2. g = [o \in Outputs |-> g[o]]
  BY DEF Surfaces
<1> QED
  BY <1>1, <1>2

\* pin_sync_outputs: a window as it should be, or the end of it.
LEMMA SyncedOk ==
  ASSUME NEW w, NEW free, NEW r, r = SyncOutputs(w, free),
         WindowShape(w), HasSurfaces(w), Placed(w)
  PROVE  r = Finished \/ (WindowOk(r) /\ SameDrag(w, r) /\ r.px = Bounded(w).px)
<1>1. PICK b : b = Bounded(w)
  OBVIOUS
<1>2. /\ WindowShape(b) /\ Placed(b) /\ SameDrag(w, b) /\ SameOutputs(w, b)
      /\ b.surf = w.surf /\ b.ptrOn = w.ptrOn
  BY <1>1, BoundedShape
<1>3. PICK g : g = Surfaces(w)
  OBVIOUS
<1>4. PICK p : p = IF w.ptrOn \in Wanted(w) THEN w.ptrOn ELSE NoOut
  OBVIOUS
<1>5. PICK m : m = [b EXCEPT !.surf = g, !.ptrOn = p]
  OBVIOUS
<1>6. /\ WindowShape(m) /\ SameDrag(b, m) /\ SameOutputs(b, m) /\ SameView(b, m)
      /\ m.surf = g /\ m.ptrOn = p
  <2>1. WindowShape(m)
    BY <1>2, <1>5 DEF WindowShape
  <2> QED
    BY <1>2, <1>5, <2>1 DEF WindowShape, SameDrag, SameView, SameOutputs
<1>7. /\ g = [o \in Outputs |-> g[o]]
      /\ \A o \in Outputs : IsSurface(g[o]) /\ (g[o].up <=> o \in Wanted(w)) /\ (g[o].configured => g[o].up)
  BY <1>3, SurfacesFollow
<1>8. CASE Wanted(w) = {}
  BY <1>8, Zenon DEF SyncOutputs
<1>9. CASE Wanted(w) # {}
  <2>1. r = RedrawAll([Bounded(w) EXCEPT !.surf = Surfaces(w),
                          !.ptrOn = IF @ \in Wanted(w) THEN @ ELSE NoOut], free)
    BY <1>9, Zenon DEF SyncOutputs
  <2>2. [Bounded(w) EXCEPT !.surf = Surfaces(w), !.ptrOn = IF @ \in Wanted(w) THEN @ ELSE NoOut] = m
    BY <1>1, <1>2, <1>3, <1>4, <1>5 DEF WindowShape
  <2>3. r = RedrawAll(m, free)
    BY <2>1, <2>2, Zenon
  <2>4. HasSurfaces(m) /\ OnlyUp(m)
    BY <1>6, <1>7 DEF HasSurfaces, OnlyUp
  <2>5. /\ WindowShape(r) /\ HasSurfaces(r) /\ SameElse(m, r)
        /\ AllDue(r) /\ \A o \in Outputs : r.surf[o].up = m.surf[o].up
    BY <1>6, <2>3, <2>4, AllRedrawn
  <2>6. SameDrag(w, r) /\ SameOutputs(w, r) /\ SameView(b, r) /\ r.ptrOn = p
    BY <1>2, <1>6, <2>5 DEF SameElse, SameDrag, SameView, SameOutputs
  <2>7. Placed(r)
    BY <1>2, <2>6 DEF Placed, SameDrag, SameView, SameOutputs
  <2>8. Wanted(r) = Wanted(w) /\ Wanted(w) \subseteq Outputs
    BY <1>2, <2>6 DEF Wanted, SameOutputs, Placed
  <2>9. \A o \in Outputs : r.surf[o].up <=> o \in Wanted(r)
    BY <1>6, <1>7, <2>5, <2>8
  <2>10. PointerOn(r) /\ Matched(r)
    BY <1>4, <2>6, <2>8, <2>9 DEF PointerOn, Matched
  <2> QED
    BY <1>1, <2>5, <2>6, <2>7, <2>10 DEF WindowOk, SameView
<1> QED
  BY <1>8, <1>9

\* What a change of other fields leaves.
LEMMA OkKept ==
  ASSUME NEW w, NEW r, WindowOk(w), WindowShape(r), r.surf = w.surf, Look(r) = Look(w),
         Placed(r), PointerOn(r), Matched(r)
  PROVE  WindowOk(r)
BY DEF WindowOk, HasSurfaces, AllDue

LEMMA AllDueAreUp == ASSUME NEW w, AllDue(w) PROVE OnlyUp(w)
BY DEF AllDue, OnlyUp, Due

LEMMA RedrawnOk ==
  ASSUME NEW w, NEW free, NEW r, r = RedrawAll(w, free),
         WindowShape(w), HasSurfaces(w), OnlyUp(w), Placed(w), PointerOn(w), Matched(w)
  PROVE  WindowOk(r) /\ SameElse(w, r)
<1>1. /\ WindowShape(r) /\ HasSurfaces(r) /\ SameElse(w, r)
      /\ AllDue(r) /\ \A o \in Outputs : r.surf[o].up = w.surf[o].up
  BY AllRedrawn
<1>2. Placed(r) /\ Wanted(r) = Wanted(w)
  BY <1>1 DEF Placed, Wanted, SameElse, SameDrag, SameView, SameOutputs
<1>3. PointerOn(r) /\ Matched(r)
  BY <1>1, <1>2 DEF PointerOn, Matched, SameElse, SameOutputs
<1> QED
  BY <1>1, <1>2, <1>3 DEF WindowOk

LEMMA OneSurfaceOk ==
  ASSUME NEW w, NEW o \in Outputs, NEW s, NEW r, r = [w EXCEPT !.surf[o] = s],
         WindowOk(w), IsSurface(s), s.up = w.surf[o].up, Due(Look(w), s)
  PROVE  WindowOk(r) /\ SameElse(w, r)
<1>1. PICK g : g = [w.surf EXCEPT ![o] = s]
  OBVIOUS
<1>2. r = [w EXCEPT !.surf = g]
  BY <1>1 DEF WindowOk, WindowShape
<1>3. WindowShape(r) /\ SameElse(w, r) /\ r.surf = g
  BY <1>2, SurfacesReplaced DEF WindowOk
<1>4. g = [q \in Outputs |-> IF q = o THEN s ELSE w.surf[q]]
  BY <1>1 DEF WindowOk, HasSurfaces
<1>5. HasSurfaces(r) /\ \A q \in Outputs : r.surf[q].up = w.surf[q].up
  BY <1>3, <1>4 DEF WindowOk, HasSurfaces
<1>6. Look(r) = Look(w) /\ Placed(r) /\ Wanted(r) = Wanted(w)
  BY <1>3 DEF WindowOk, Look, Placed, Wanted, SameElse, SameDrag, SameView, SameOutputs
<1>7. AllDue(r)
  BY <1>3, <1>4, <1>6 DEF WindowOk, AllDue
<1>8. PointerOn(r) /\ Matched(r)
  BY <1>3, <1>5, <1>6 DEF WindowOk, PointerOn, Matched, SameElse, SameOutputs
<1> QED
  BY <1>3, <1>5, <1>6, <1>7, <1>8 DEF WindowOk

\* The compositor's events of one surface.
LEMMA SurfaceEventsOk ==
  ASSUME WindowOk(win), NEW o \in Outputs, NEW free,
         LayerConfigured(o, free) \/ LayerClosed(o) \/ FrameDone(o, free)
  PROVE  win' = Finished \/ (WindowOk(win') /\ SameElse(win, win'))
<1>1. IsSurface(win.surf[o]) /\ Due(Look(win), win.surf[o])
  BY DEF WindowOk, HasSurfaces, AllDue
<1>2. CASE LayerConfigured(o, free)
  <2>1. PICK d : d = [win.surf[o] EXCEPT !.configured = TRUE]
    OBVIOUS
  <2>2. IsSurface(d) /\ d.up = win.surf[o].up /\ d.up
    BY <1>1, <1>2, <2>1 DEF IsSurface, LayerConfigured
  <2>3. PICK s : s = Redrawn(win, d, free)
    OBVIOUS
  <2>4. IsSurface(s) /\ s.up = win.surf[o].up /\ Due(Look(win), s)
    BY <2>2, <2>3, RedrawnDue
  <2>5. win' = [win EXCEPT !.surf[o] = s]
    BY <1>2, <2>1, <2>3 DEF LayerConfigured
  <2> QED
    BY <2>4, <2>5, OneSurfaceOk
<1>3. CASE LayerClosed(o)
  <2>1. PICK s : s = [win.surf[o] EXCEPT !.configured = FALSE, !.frame = FALSE]
    OBVIOUS
  <2>2. IsSurface(s) /\ s.up = win.surf[o].up /\ Due(Look(win), s)
    BY <1>1, <2>1 DEF IsSurface, Due
  <2>3. win' = Finished \/ win' = [win EXCEPT !.surf[o] = s]
    BY <1>3, <2>1 DEF LayerClosed, WindowOk, WindowShape, HasSurfaces
  <2> QED
    BY <2>2, <2>3, OneSurfaceOk
<1>4. CASE FrameDone(o, free)
  <2>1. PICK d : d = [win.surf[o] EXCEPT !.frame = FALSE]
    OBVIOUS
  <2>2. /\ IsSurface(d) /\ d.up = win.surf[o].up /\ d.dirty = win.surf[o].dirty /\ d.shown = win.surf[o].shown
        /\ d.configured = win.surf[o].configured
    BY <1>1, <2>1 DEF IsSurface
  <2>3. PICK s : s = IF d.dirty THEN Redrawn(win, d, free) ELSE d
    OBVIOUS
  <2>4. IsSurface(s) /\ s.up = win.surf[o].up /\ Due(Look(win), s)
    <3>1. CASE d.dirty
      BY <1>1, <2>2, <2>3, <3>1, RedrawnDue DEF Due
    <3>2. CASE ~d.dirty
      BY <1>1, <2>2, <2>3, <3>2 DEF Due
    <3> QED
      BY <3>1, <3>2
  <2>5. win' = [win EXCEPT !.surf[o] = s]
    BY <1>4, <2>1, <2>3 DEF FrameDone
  <2> QED
    BY <2>4, <2>5, OneSurfaceOk
<1> QED
  BY <1>2, <1>3, <1>4

\* The pointer comes and goes, and the pin is redrawn with or without its button.
LEMMA PointerChanges ==
  ASSUME NEW w, NEW p, NEW r, r = [w EXCEPT !.ptrOn = p], WindowOk(w),
         p # NoOut => p \in Outputs /\ w.surf[p].up
  PROVE  WindowOk(r) /\ SameDrag(w, r) /\ r.surf = w.surf
<1>1. /\ WindowShape(r) /\ r.surf = w.surf /\ r.ptrOn = p
      /\ SameDrag(w, r) /\ SameView(w, r) /\ SameOutputs(w, r)
  <2>1. WindowShape(r)
    BY DEF WindowOk, WindowShape
  <2> QED
    BY <2>1 DEF WindowOk, WindowShape, SameDrag, SameView, SameOutputs
<1>2. Look(r) = Look(w) /\ Placed(r) /\ PointerOn(r) /\ Matched(r)
  BY <1>1 DEF WindowOk, Look, Placed, PointerOn, Matched, Wanted, SameDrag, SameView, SameOutputs
<1> QED
  BY <1>1, <1>2, OkKept

LEMMA HoverOk ==
  ASSUME NEW w, NEW h, NEW free, NEW r, r = Hover(w, h, free), WindowOk(w)
  PROVE  WindowOk(r) /\ SameDrag(w, r)
<1>1. PICK v : v = [w EXCEPT !.hovering = h]
  OBVIOUS
<1>2. CASE w.hovering = h
  BY <1>2 DEF Hover, SameDrag
<1>3. CASE w.hovering # h
  <2>1. r = RedrawAll(v, free)
    BY <1>1, <1>3 DEF Hover
  <2>2. WindowShape(v) /\ v.surf = w.surf /\ v.ptrOn = w.ptrOn /\ SameDrag(w, v) /\ SameOutputs(w, v) /\ Placed(v)
    <3>1. WindowShape(v)
      BY <1>1 DEF WindowOk, WindowShape
    <3> QED
      BY <1>1, <3>1 DEF WindowOk, WindowShape, SameDrag, SameOutputs, Placed
  <2>3. HasSurfaces(v) /\ OnlyUp(v) /\ PointerOn(v) /\ Matched(v)
    BY <2>2, AllDueAreUp DEF WindowOk, HasSurfaces, OnlyUp, PointerOn, Matched, Wanted, SameOutputs
  <2>4. WindowOk(r) /\ SameElse(v, r)
    BY <2>1, <2>2, <2>3, RedrawnOk
  <2> QED
    BY <2>2, <2>4 DEF SameElse, SameDrag
<1> QED
  BY <1>2, <1>3

LEMMA PointerEventsOk ==
  ASSUME WindowOk(win), NEW free, PointerLeaves(free) \/ \E o \in Outputs : PointerEnters(o, free)
  PROVE  WindowOk(win') /\ SameDrag(win, win')
<1>1. PICK p, h : /\ win' = Hover([win EXCEPT !.ptrOn = p], h, free)
                  /\ p # NoOut => p \in Outputs /\ win.surf[p].up
  <2>1. CASE PointerLeaves(free)
    <3>1. win' = Hover([win EXCEPT !.ptrOn = NoOut], FALSE, free)
      BY <2>1, Zenon DEF PointerLeaves
    <3> QED
      BY <3>1, Zenon
  <2>2. ASSUME NEW o \in Outputs, PointerEnters(o, free)
        PROVE  win' = Hover([win EXCEPT !.ptrOn = o], TRUE, free) /\ win.surf[o].up
    BY <2>2, Zenon DEF PointerEnters
  <2> QED
    BY <2>1, <2>2, Zenon
<1>2. PICK v : v = [win EXCEPT !.ptrOn = p]
  OBVIOUS
<1>3. WindowOk(v) /\ SameDrag(win, v)
  BY <1>1, <1>2, PointerChanges
<1>4. win' = Hover(v, h, free)
  BY <1>1, <1>2, Zenon
<1> QED
  BY <1>3, <1>4, HoverOk DEF SameDrag

\* A button or a finger goes down.
LEMMA DragFieldsOk ==
  ASSUME NEW w, NEW r, WindowOk(w), WindowShape(r), r.acc \in Int,
         r.surf = w.surf, SameView(w, r), SameOutputs(w, r), r.ptrOn = w.ptrOn
  PROVE  WindowOk(r)
<1>1. Look(r) = Look(w) /\ PointerOn(r) /\ Matched(r)
  BY DEF WindowOk, Look, PointerOn, Matched, Wanted, SameView, SameOutputs
<1>2. Placed(r)
  BY DEF WindowOk, Placed, SameView, SameOutputs
<1> QED
  BY <1>1, <1>2, OkKept

LEMMA PressedOk ==
  ASSUME NEW w, NEW onClose, NEW r, r = Pressed(w, onClose), WindowOk(w)
  PROVE  r = Finished \/ (WindowOk(r) /\ r.opened = w.opened)
<1>1. CASE r = Finished
  BY <1>1
<1>2. CASE r = w
  BY <1>2
<1>3. CASE r = [w EXCEPT !.dragging = TRUE, !.acc = 0]
  <2>1. WindowShape(r)
    BY <1>3 DEF WindowOk, WindowShape
  <2>2. /\ r.acc \in Int /\ r.surf = w.surf /\ SameView(w, r) /\ SameOutputs(w, r)
        /\ r.ptrOn = w.ptrOn /\ r.opened = w.opened
    BY <1>3, <2>1 DEF WindowOk, WindowShape, SameView, SameOutputs
  <2> QED
    BY <2>1, <2>2, DragFieldsOk
<1> QED
  BY <1>1, <1>2, <1>3 DEF Pressed

LEMMA PressesOk ==
  ASSUME WindowOk(win), NEW onClose, ButtonPressed(onClose) \/ \E o \in Outputs : TouchDown(o, onClose)
  PROVE  (win' = Finished \/ (WindowOk(win') /\ win'.opened = win.opened)) /\ DragStarts(win')
<1>1. CASE ButtonPressed(onClose)
  BY <1>1, PressedOk DEF ButtonPressed
<1>2. ASSUME NEW o \in Outputs, TouchDown(o, onClose)
      PROVE  (win' = Finished \/ (WindowOk(win') /\ win'.opened = win.opened)) /\ DragStarts(win')
  <2>1. PICK v : v = [win EXCEPT !.ptrOn = o]
    OBVIOUS
  <2>2. win' = Pressed(v, onClose) /\ DragStarts(win') /\ win.surf[o].up
    BY <1>2, <2>1, Zenon DEF TouchDown
  <2>3. WindowOk(v) /\ SameDrag(win, v)
    BY <2>1, <2>2, PointerChanges
  <2> QED
    BY <2>2, <2>3, PressedOk DEF SameDrag
<1> QED
  BY <1>1, <1>2

\* Outputs come and go, and the next round of the loop sees it.
LEMMA OutputsChange ==
  ASSUME WindowOk(win), NEW o \in Outputs, OutputGoes(o) \/ OutputComes(o)
  PROVE  WindowOk(win') /\ SameDrag(win, win')
<1>1. PICK alive, gone : /\ win' = [win EXCEPT !.alive = alive, !.stale = TRUE, !.gone = gone]
                         /\ alive \subseteq Outputs
  <2>1. CASE OutputGoes(o)
    <3>1. win' = [win EXCEPT !.alive = win.alive \ {o}, !.stale = TRUE, !.gone = win.gone \cup {o}]
      BY <2>1 DEF OutputGoes, WindowOk, WindowShape
    <3>2. win.alive \ {o} \subseteq Outputs
      BY DEF WindowOk, Placed
    <3> QED
      BY <3>1, <3>2, Zenon
  <2>2. CASE OutputComes(o)
    <3>1. win' = [win EXCEPT !.alive = win.alive \cup {o}, !.stale = TRUE, !.gone = win.gone]
      BY <2>2 DEF OutputComes, WindowOk, WindowShape
    <3>2. win.alive \cup {o} \subseteq Outputs
      BY DEF WindowOk, Placed
    <3> QED
      BY <3>1, <3>2, Zenon
  <2> QED
    BY <2>1, <2>2, Zenon
<1>2. WindowShape(win')
  BY <1>1 DEF WindowOk, WindowShape
<1>3. /\ win'.surf = win.surf /\ SameView(win, win') /\ SameDrag(win, win') /\ win'.ptrOn = win.ptrOn
      /\ win'.alive = alive /\ win'.stale
  BY <1>1, <1>2 DEF WindowOk, WindowShape, SameView, SameDrag
<1>4. Look(win') = Look(win) /\ PointerOn(win') /\ Matched(win') /\ Placed(win')
  BY <1>1, <1>3 DEF WindowOk, Look, PointerOn, Matched, Placed, SameView, SameDrag
<1> QED
  BY <1>2, <1>3, <1>4, OkKept

\* The pin opens, and pin_sync_outputs follows the outputs.
LEMMA OpensOk ==
  ASSUME win = NoWindow, NEW t \in BOOLEAN, NEW c \in BOOLEAN, NEW o \in FirstOutputs, NEW free,
         WinOpens(t, c, o, free)
  PROVE  win' = Finished \/ (WindowOk(win') /\ win'.opened /\ ~win'.dragging)
<1>1. PICK w : w = [win EXCEPT !.opened = TRUE, !.transient = t, !.clickable = c, !.target = o, !.px = OutX[o]]
  OBVIOUS
<1>2. win' = SyncOutputs(w, free)
  BY <1>1, Zenon DEF WinOpens
<1>3. WindowShape(win) /\ WindowShape(w)
  <2>1. WindowShape(win)
    BY DEF NoWindow, WindowShape
  <2> QED
    BY <1>1, <2>1 DEF WindowShape
<1>4. /\ w.surf = [q \in Outputs |-> NoSurface] /\ w.opened /\ ~w.dragging /\ w.px = OutX[o]
      /\ w.lo = 0 /\ w.hi = 0 /\ w.acc = 0 /\ w.alive = FirstOutputs
  <2>1. /\ win.surf = [q \in Outputs |-> NoSurface] /\ ~win.dragging
        /\ win.lo = 0 /\ win.hi = 0 /\ win.acc = 0 /\ win.alive = FirstOutputs
    BY DEF NoWindow
  <2> QED
    BY <1>1, <1>3, <2>1 DEF WindowShape
<1>5. IsSurface(NoSurface)
  BY DEF IsSurface, NoSurface
<1>6. HasSurfaces(w)
  BY <1>4, <1>5 DEF HasSurfaces
<1>7. Placed(w)
  <2>1. OutX[o] \in Int
    BY PinWindowAssumption
  <2> QED
    BY <1>4, <2>1, PinWindowAssumption DEF Placed
<1> QED
  BY <1>2, <1>3, <1>4, <1>6, <1>7, SyncedOk DEF SameDrag

LEMMA ResyncOk ==
  ASSUME WindowOk(win), NEW free, Resync(free)
  PROVE  win' = Finished \/ (WindowOk(win') /\ SameDrag(win, win'))
<1>1. PICK w : w = [win EXCEPT !.stale = FALSE]
  OBVIOUS
<1>2. win' = SyncOutputs(w, free)
  BY <1>1, Zenon DEF Resync
<1>3. WindowShape(w)
  BY <1>1 DEF WindowOk, WindowShape
<1>4. SameDrag(win, w) /\ SameView(win, w) /\ w.alive = win.alive /\ w.surf = win.surf
  BY <1>1, <1>3 DEF WindowOk, WindowShape, SameDrag, SameView
<1>5. HasSurfaces(w) /\ Placed(w)
  BY <1>4 DEF WindowOk, HasSurfaces, Placed, SameDrag, SameView
<1> QED
  BY <1>2, <1>3, <1>4, <1>5, SyncedOk DEF SameDrag

\* The grab of pin_ipc.c, which ends a drag when it is let go.
LEMMA GrabbedOk ==
  ASSUME WindowOk(win), NEW g \in BOOLEAN, NEW free, Grabbed(g, free)
  PROVE  WindowOk(win') /\ win'.opened = win.opened /\ (win'.dragging => g /\ win.dragging)
<1>1. PICK a : a = IF g THEN win.acc ELSE 0
  OBVIOUS
<1>2. PICK d : d = (win.dragging /\ g)
  OBVIOUS
<1>3. PICK w : w = [win EXCEPT !.grabbed = g, !.dragging = d, !.acc = a]
  OBVIOUS
<1>4. win' = RedrawAll(w, free)
  <2>1. win' = RedrawAll([win EXCEPT !.grabbed = g, !.dragging = @ /\ g, !.acc = IF g THEN @ ELSE 0], free)
    BY Zenon DEF Grabbed
  <2>2. [win EXCEPT !.grabbed = g, !.dragging = @ /\ g, !.acc = IF g THEN @ ELSE 0] = w
    BY <1>1, <1>2, <1>3 DEF WindowOk, WindowShape
  <2> QED
    BY <2>1, <2>2, Zenon
<1>5. WindowShape(w)
  BY <1>3 DEF WindowOk, WindowShape
<1>6. /\ w.surf = win.surf /\ w.ptrOn = win.ptrOn /\ SameOutputs(win, w) /\ w.opened = win.opened
      /\ w.acc = a /\ (w.dragging => d) /\ w.px = win.px /\ w.lo = win.lo /\ w.hi = win.hi
  BY <1>3, <1>5 DEF WindowOk, WindowShape, SameOutputs
<1>7. Placed(w)
  <2>1. a \in Int
    BY <1>1 DEF WindowOk, Placed
  <2> QED
    BY <1>6, <2>1 DEF WindowOk, Placed, SameOutputs
<1>8. HasSurfaces(w) /\ OnlyUp(w) /\ PointerOn(w) /\ Matched(w)
  BY <1>6, AllDueAreUp DEF WindowOk, HasSurfaces, OnlyUp, PointerOn, Matched, Wanted, SameOutputs
<1>9. WindowOk(win') /\ SameElse(w, win')
  BY <1>4, <1>5, <1>7, <1>8, RedrawnOk
<1> QED
  BY <1>2, <1>6, <1>9 DEF SameElse, SameDrag

LEMMA WholePixelsIsInt == ASSUME NEW a \in Int PROVE WholePixels(a) \in Int
BY DEF WholePixels

\* grabit_wl_outputs_bbox looks at the outputs only.
LEMMA BoundedPlace ==
  ASSUME NEW w, NEW v, WindowShape(w), WindowShape(v), v.alive = w.alive
  PROVE  Bounded(v).px = v.px \/ Bounded(v).px = Clamped(Bounded(w), v.px)
<1>1. PICK lo : lo = Min({OutX[o] : o \in w.alive})
  OBVIOUS
<1>2. PICK hi : hi = Max({OutX[o] + OutW : o \in w.alive})
  OBVIOUS
<1>3. PICK x : x = Within(lo, hi, w.px)
  OBVIOUS
<1>4. PICK y : y = Within(lo, hi, v.px)
  OBVIOUS
<1>5. CASE w.alive = {}
  <2>1. Bounded(v) = [v EXCEPT !.lo = 0, !.hi = 0]
    BY <1>5 DEF Bounded
  <2> QED
    BY <2>1 DEF WindowShape
<1>6. CASE w.alive # {}
  <2>1. Bounded(w) = [w EXCEPT !.lo = lo, !.hi = hi, !.px = x]
    BY <1>1, <1>2, <1>3, <1>6 DEF Bounded
  <2>2. Bounded(v) = [v EXCEPT !.lo = lo, !.hi = hi, !.px = y]
    BY <1>1, <1>2, <1>4, <1>6 DEF Bounded
  <2>3. Bounded(w).lo = lo /\ Bounded(w).hi = hi
    BY <2>1 DEF WindowShape
  <2>4. Bounded(v).px = y
    BY <2>2 DEF WindowShape
  <2> QED
    BY <1>4, <2>3, <2>4 DEF Clamped
<1> QED
  BY <1>5, <1>6

\* pin_drag_apply: what it moves the pin by it takes from what is kept back.
LEMMA DragApplyOk ==
  ASSUME NEW w, NEW tooSoon, NEW free, NEW r, r = DragApply(w, tooSoon, free), WindowOk(w)
  PROVE  \/ r = Finished
         \/ /\ WindowOk(r) /\ r.dragging = w.dragging /\ r.opened = w.opened
            /\ Hits(w) \/ 2 * (r.px - w.px) + (r.acc - w.acc) = 0
<1>1. PICK m : m = WholePixels(w.acc)
  OBVIOUS
<1>2. w.px \in Int /\ w.acc \in Int /\ m \in Int /\ w.lo \in Int /\ w.hi \in Int
  BY <1>1, WholePixelsIsInt DEF WindowOk, Placed
<1>3. CASE r = w
  BY <1>2, <1>3
<1>4. CASE m # 0 /\ r = MoveTo([w EXCEPT !.acc = @ - 2 * m], w.px + m, free)
  <2>1. PICK x \in Int : x = w.px + m
    BY <1>2
  <2>2. PICK a \in Int : a = w.acc - 2 * m
    BY <1>2
  <2>3. PICK v : v = [w EXCEPT !.acc = a]
    OBVIOUS
  <2>4. WindowShape(v)
    BY <2>3 DEF WindowOk, WindowShape
  <2>5. /\ v.acc = a /\ v.surf = w.surf /\ SameView(w, v) /\ SameOutputs(w, v) /\ v.ptrOn = w.ptrOn
        /\ v.dragging = w.dragging /\ v.opened = w.opened
    BY <2>3, <2>4 DEF WindowOk, WindowShape, SameView, SameOutputs
  <2>6. WindowOk(v)
    BY <2>2, <2>4, <2>5, DragFieldsOk
  <2>7. r = MoveTo(v, x, free)
    <3>1. [w EXCEPT !.acc = @ - 2 * m] = v
      BY <2>2, <2>3 DEF WindowOk, WindowShape
    <3> QED
      BY <1>4, <2>1, <3>1, Zenon
  <2>8. PICK c \in Int : c = Clamped(v, x)
    <3>1. v.lo \in Int /\ v.hi \in Int
      BY <1>2, <2>5 DEF SameView
    <3> QED
      BY <3>1, WithinIsInt DEF Clamped
  <2>9. ~Hits(w) => c = x /\ Clamped(Bounded(w), x) = x
    BY <1>1, <2>1, <2>5, <2>8 DEF Hits, Clamped, SameView
  <2>10. CASE c = v.px
    <3>1. r = v
      BY <2>7, <2>8, <2>10, Zenon DEF MoveTo
    <3>2. Hits(w)
      BY <1>2, <1>4, <2>1, <2>5, <2>9, <2>10 DEF SameView
    <3> QED
      BY <2>5, <2>6, <3>1, <3>2
  <2>11. CASE c # v.px
    <3>1. PICK u : u = [v EXCEPT !.px = c]
      OBVIOUS
    <3>2. r = SyncOutputs(u, free)
      BY <2>7, <2>8, <2>11, <3>1, Zenon DEF MoveTo
    <3>3. WindowShape(u)
      BY <2>4, <3>1 DEF WindowShape
    <3>4. u.px = c /\ u.lo = v.lo /\ u.hi = v.hi /\ u.acc = a /\ u.surf = v.surf /\ u.alive = v.alive /\ SameDrag(v, u)
      BY <2>4, <2>5, <3>1, <3>3 DEF WindowShape, SameDrag
    <3>5. HasSurfaces(u) /\ Placed(u)
      BY <2>6, <3>4 DEF WindowOk, HasSurfaces, Placed
    <3>6. r = Finished \/ (WindowOk(r) /\ SameDrag(u, r) /\ r.px = Bounded(u).px)
      BY <3>2, <3>3, <3>5, SyncedOk
    <3>7. WindowShape(w) /\ u.alive = w.alive
      BY <2>5, <3>4 DEF WindowOk, SameOutputs
    <3>8. ~Hits(w) => Bounded(u).px = x
      BY <2>9, <3>3, <3>4, <3>7, BoundedPlace
    <3>9. r = Finished \/ r.acc = a
      BY <3>4, <3>6 DEF SameDrag
    <3> QED
      BY <1>2, <2>1, <2>2, <2>5, <3>4, <3>6, <3>8, <3>9 DEF SameDrag
  <2> QED
    BY <2>10, <2>11
<1> QED
  BY <1>1, <1>3, <1>4, Zenon DEF DragApply

LEMMA FinishedIsOver == Finished.opened /\ Finished.finished
BY DEF Finished, NoWindow

\* relative_motion: short of the bounds the drag lags by nothing.
LEMMA MotionOk ==
  ASSUME WindowOk(win), NothingLost, NEW d \in {-1, 1}, NEW tooSoon, NEW free, Motion(d, tooSoon, free),
         winGhost = [off |-> winGhost.off, hit |-> winGhost.hit]
  PROVE  /\ win' = Finished \/ (WindowOk(win') /\ win'.opened = win.opened /\ NothingLost')
         /\ winGhost' = [off |-> winGhost'.off, hit |-> winGhost'.hit]
<1>1. PICK a \in Int : a = win.acc + d
  BY DEF WindowOk, Placed
<1>2. PICK m : m = [win EXCEPT !.acc = a]
  OBVIOUS
<1>3. WindowShape(m)
  BY <1>2 DEF WindowOk, WindowShape
<1>4. /\ m.acc = a /\ m.surf = win.surf /\ SameView(win, m) /\ SameOutputs(win, m) /\ m.ptrOn = win.ptrOn
      /\ m.dragging = win.dragging /\ m.opened = win.opened
  BY <1>2, <1>3 DEF WindowOk, WindowShape, SameView, SameOutputs
<1>5. WindowOk(m)
  BY <1>1, <1>3, <1>4, DragFieldsOk
<1>6. [win EXCEPT !.acc = @ + d] = m
  BY <1>1, <1>2 DEF WindowOk, WindowShape
<1>7. /\ win.dragging /\ win' = DragApply(m, tooSoon, free)
      /\ winGhost' = IF winGhost.hit \/ Hits(m) THEN [off |-> 0, hit |-> TRUE]
                     ELSE [winGhost EXCEPT !.off = @ + d - 2 * (win'.px - win.px) - (win'.acc - win.acc)]
  BY <1>6, Zenon DEF Motion
<1>8. \/ win' = Finished
      \/ /\ WindowOk(win') /\ win'.dragging = m.dragging /\ win'.opened = m.opened
         /\ Hits(m) \/ 2 * (win'.px - m.px) + (win'.acc - m.acc) = 0
  BY <1>5, <1>7, DragApplyOk
<1>9. CASE winGhost.hit \/ Hits(m)
  BY <1>4, <1>7, <1>8, <1>9 DEF NothingLost
<1>10. CASE ~winGhost.hit /\ ~Hits(m)
  <2>1. PICK n : n = winGhost.off + d - 2 * (win'.px - win.px) - (win'.acc - win.acc)
    OBVIOUS
  <2>2. winGhost' = [winGhost EXCEPT !.off = n]
    BY <1>7, <1>10, <2>1
  <2>3. winGhost' = [off |-> n, hit |-> winGhost.hit]
    BY <2>2
  <2>4. winGhost.off = 0
    BY <1>7, <1>10 DEF NothingLost
  <2>5. win' = Finished \/ n = 0
    <3>1. CASE WindowOk(win') /\ 2 * (win'.px - m.px) + (win'.acc - m.acc) = 0
      <4>1. /\ win'.px \in Int /\ win'.acc \in Int /\ win.px \in Int /\ win.acc \in Int
            /\ m.px = win.px /\ m.acc = win.acc + d
        BY <1>1, <1>4, <3>1 DEF WindowOk, Placed, SameView
      <4> QED
        BY <2>1, <2>4, <3>1, <4>1
    <3> QED
      BY <1>8, <1>10, <3>1
  <2> QED
    BY <1>4, <1>8, <2>3, <2>5 DEF NothingLost
<1> QED
  BY <1>9, <1>10

\* The button is let go.
LEMMA DragEndsOk ==
  ASSUME WindowOk(win), NEW free, DragEnds(free)
  PROVE  /\ (win'.opened /\ win'.finished)
           \/ (WindowOk(win') /\ win'.opened = win.opened /\ ~win'.dragging)
         /\ winGhost' = [off |-> 0, hit |-> FALSE]
<1>1. PICK m : m = DragApply(win, FALSE, free)
  BY Zenon
<1>2. win' = [m EXCEPT !.dragging = FALSE, !.acc = 0] /\ winGhost' = [off |-> 0, hit |-> FALSE]
  BY <1>1, Zenon DEF DragEnds, Released
<1>3. m = Finished \/ (WindowOk(m) /\ m.opened = win.opened)
  BY <1>1, DragApplyOk
<1>4. CASE m = Finished
  <2>1. WindowShape(m)
    BY <1>4 DEF Finished, NoWindow, WindowShape
  <2>2. win'.opened = m.opened /\ win'.finished = m.finished
    BY <1>2, <2>1 DEF WindowShape
  <2> QED
    BY <1>2, <1>4, <2>2, FinishedIsOver
<1>5. CASE WindowOk(m) /\ m.opened = win.opened
  <2>1. WindowShape(win')
    BY <1>2, <1>5 DEF WindowOk, WindowShape
  <2>2. /\ win'.acc \in Int /\ win'.surf = m.surf /\ SameView(m, win') /\ SameOutputs(m, win')
        /\ win'.ptrOn = m.ptrOn /\ win'.opened = m.opened /\ ~win'.dragging
    BY <1>2, <1>5, <2>1 DEF WindowOk, WindowShape, SameView, SameOutputs
  <2> QED
    BY <1>2, <1>5, <2>1, <2>2, DragFieldsOk
<1> QED
  BY <1>3, <1>4, <1>5

LEMMA WinInitInv == PinWindowInit => WinInv
<1> SUFFICES ASSUME PinWindowInit PROVE WinInv
  OBVIOUS
<1>1. win = NoWindow /\ ~NoWindow.opened
  BY DEF PinWindowInit, NoWindow
<1> QED
  BY <1>1 DEF PinWindowInit, WinInv, Running

LEMMA WinStays == WinInv /\ [PinWindowNext]_winVars => WinInv'
<1> SUFFICES ASSUME WinInv, [PinWindowNext]_winVars PROVE WinInv'
  OBVIOUS
<1>1. winGhost = [off |-> winGhost.off, hit |-> winGhost.hit]
  BY DEF WinInv
<1>2. Running => WindowOk(win) /\ NothingLost
  BY DEF WinInv
<1>3. ASSUME win'.opened, win'.finished \/ (WindowOk(win') /\ NothingLost'),
             winGhost' = [off |-> winGhost'.off, hit |-> winGhost'.hit]
      PROVE  WinInv'
  BY <1>3 DEF WinInv, Running
<1>4. CASE UNCHANGED winVars
  BY <1>4 DEF WinInv, Running, WindowOk, HasSurfaces, Placed, AllDue, PointerOn, Matched, NothingLost, winVars
<1>5. ASSUME NEW o \in Outputs, NEW f, LayerConfigured(o, f) \/ LayerClosed(o) \/ FrameDone(o, f)
      PROVE  WinInv'
  <2>1. Running /\ winGhost' = winGhost
    BY <1>5, Zenon DEF LayerConfigured, LayerClosed, FrameDone, Quiet
  <2>2. win' = Finished \/ (WindowOk(win') /\ SameElse(win, win'))
    BY <1>2, <1>5, <2>1, SurfaceEventsOk
  <2> QED
    BY <1>1, <1>2, <1>3, <2>1, <2>2, FinishedIsOver DEF Running, SameElse, SameDrag, NothingLost
<1>6. ASSUME NEW f, PointerLeaves(f) \/ \E o \in Outputs : PointerEnters(o, f)
      PROVE  WinInv'
  <2>1. Running /\ winGhost' = winGhost
    BY <1>6, Zenon DEF PointerLeaves, PointerEnters, Quiet
  <2>2. WindowOk(win') /\ SameDrag(win, win')
    BY <1>2, <1>6, <2>1, PointerEventsOk
  <2> QED
    BY <1>1, <1>2, <1>3, <2>1, <2>2 DEF Running, SameDrag, NothingLost
<1>7. ASSUME NEW c, ButtonPressed(c) \/ \E o \in Outputs : TouchDown(o, c)
      PROVE  WinInv'
  <2>1. Running
    BY <1>7, Zenon DEF ButtonPressed, TouchDown
  <2>2. (win' = Finished \/ (WindowOk(win') /\ win'.opened = win.opened)) /\ DragStarts(win')
    BY <1>2, <1>7, <2>1, PressesOk
  <2> QED
    BY <1>1, <1>3, <2>1, <2>2, FinishedIsOver DEF Running, DragStarts, NothingLost
<1>8. ASSUME NEW o \in Outputs, OutputGoes(o) \/ OutputComes(o)
      PROVE  WinInv'
  <2>1. Running /\ winGhost' = winGhost
    BY <1>8, Zenon DEF OutputGoes, OutputComes, Quiet
  <2>2. WindowOk(win') /\ SameDrag(win, win')
    BY <1>2, <1>8, <2>1, OutputsChange
  <2> QED
    BY <1>1, <1>2, <1>3, <2>1, <2>2 DEF Running, SameDrag, NothingLost
<1>9. ASSUME NEW t \in BOOLEAN, NEW c \in BOOLEAN, NEW o \in FirstOutputs, NEW f, WinOpens(t, c, o, f)
      PROVE  WinInv'
  <2>1. win = NoWindow /\ winGhost' = winGhost
    BY <1>9, Zenon DEF WinInv, WinOpens, Quiet
  <2>2. win' = Finished \/ (WindowOk(win') /\ win'.opened /\ ~win'.dragging)
    BY <1>9, <2>1, OpensOk
  <2> QED
    BY <1>1, <1>3, <2>1, <2>2, FinishedIsOver DEF NothingLost
<1>10. ASSUME NEW d \in {-1, 1}, NEW soon, NEW f, Motion(d, soon, f)
       PROVE  WinInv'
  <2>1. Running
    BY <1>10, Zenon DEF Motion
  <2>2. /\ win' = Finished \/ (WindowOk(win') /\ win'.opened = win.opened /\ NothingLost')
        /\ winGhost' = [off |-> winGhost'.off, hit |-> winGhost'.hit]
    BY <1>1, <1>2, <1>10, <2>1, MotionOk
  <2> QED
    BY <1>3, <2>1, <2>2, FinishedIsOver DEF Running
<1>11. ASSUME NEW f, DragEnds(f) PROVE WinInv'
  <2>1. Running
    BY <1>11, Zenon DEF DragEnds
  <2>2. /\ (win'.opened /\ win'.finished)
           \/ (WindowOk(win') /\ win'.opened = win.opened /\ ~win'.dragging)
        /\ winGhost' = [off |-> 0, hit |-> FALSE]
    BY <1>2, <1>11, <2>1, DragEndsOk
  <2> QED
    BY <1>3, <2>1, <2>2 DEF Running, NothingLost
<1>12. ASSUME NEW g \in BOOLEAN, NEW f, Grabbed(g, f) PROVE WinInv'
  <2>1. Running /\ winGhost' = IF g THEN winGhost ELSE [off |-> 0, hit |-> FALSE]
    BY <1>12, Zenon DEF Grabbed
  <2>2. WindowOk(win') /\ win'.opened = win.opened /\ (win'.dragging => g /\ win.dragging)
    BY <1>2, <1>12, <2>1, GrabbedOk
  <2> QED
    BY <1>1, <1>2, <1>3, <2>1, <2>2 DEF Running, NothingLost
<1>13. ASSUME NEW f, Resync(f) PROVE WinInv'
  <2>1. /\ Running
        /\ winGhost' = IF win.dragging /\ Bounded(win).px # win.px THEN [off |-> 0, hit |-> TRUE] ELSE winGhost
    BY <1>13, Zenon DEF Resync
  <2>2. win' = Finished \/ (WindowOk(win') /\ SameDrag(win, win'))
    BY <1>2, <1>13, <2>1, ResyncOk
  <2> QED
    BY <1>1, <1>2, <1>3, <2>1, <2>2, FinishedIsOver DEF Running, SameDrag, NothingLost
<1>14. CASE WinFinishes
  BY <1>1, <1>3, <1>14, FinishedIsOver DEF WinFinishes, Quiet
<1> QED
  BY <1>4, <1>5, <1>6, <1>7, <1>8, <1>9, <1>10, <1>11, <1>12, <1>13, <1>14 DEF PinWindowNext

\* In every state of a pin's window the pointer is on no surface that was
\* destroyed, each surface shows the pin or will, an output has a surface when
\* it wants one, and the drag has kept what it was given: the invariant of all
\* three promises below.
THEOREM WindowStaysOk == DesktopSpec => []WinInv
<1>1. DesktopInit => WinInv
  BY WinInitInv DEF DesktopInit
<1>2. WinInv /\ [DesktopNext]_desktopVars => WinInv'
  BY DesktopSteps, WinStays
<1> QED
  BY <1>1, <1>2, PTL DEF DesktopSpec

\* The surfaces of a pin are those of the outputs that want one, and ptr_on
\* (pin_outputs.c:108) is one of them, for any set of outputs that come and go in
\* the middle of a drag.
THEOREM SurfacesFollowOutputs == DesktopSpec => []SurfacesMatchOutputs
<1>1. WinInv => SurfacesMatchOutputs
  <2> SUFFICES ASSUME WinInv, Running PROVE SurfacesMatchOutputs
    BY DEF SurfacesMatchOutputs
  <2>1. PointerOn(win) /\ Matched(win)
    BY DEF WinInv, WindowOk
  <2> QED
    BY <2>1 DEF SurfacesMatchOutputs, PointerOn, Matched
<1> QED
  BY <1>1, WindowStaysOk, PTL

\* Every change of a pin is drawn, or a frame callback or a buffer that is
\* waited for will do it, and the throttle of pin_drag_apply loses no motion, for
\* any pins, outputs and interleaving of their events.
THEOREM ChangesAreDrawn == DesktopSpec => []EveryChangeIsDrawn
<1>1. WinInv => ChangeIsDrawn
  BY DEF WinInv, WindowOk, AllDue, Due, ChangeIsDrawn
<1>2. WinInv => DragLosesNothing
  BY DEF WinInv, NothingLost, DragLosesNothing
<1>3. WinInv => EveryChangeIsDrawn
  BY <1>1, <1>2 DEF EveryChangeIsDrawn
<1> QED
  BY <1>3, WindowStaysOk, PTL
=============================================================================
