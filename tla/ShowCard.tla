------------------------------ MODULE ShowCard ------------------------------
(***************************************************************************)
(* The card of --show: each new card ends the one before, which it finds   *)
(* through a locked pid file (pin/spawn.c, the loop of pin/pin.c,          *)
(* util/proc.c).                                                           *)
(*                                                                         *)
(* A show is one invocation: a parent that kills, forks and waits, then    *)
(* the child that locks the file, tells the parent, and is the card.  The  *)
(* two never run at once, so one program counter stands for both.  A show  *)
(* creates at most one file, so an inode has the number of its creator.    *)
(***************************************************************************)
EXTENDS Naturals, FiniteSets

CONSTANT Shows
ASSUME ShowsAssumption == Shows \subseteq Nat \ {0} /\ IsFiniteSet(Shows)

VARIABLES
  showPc,     \* per show: where it is
  showDir,    \* the inode grabit-show.pid names, or 0
  showFd,     \* per show: g_show_lock_fd's inode, or 0
  showPeek,   \* per show: the inode grabit_lock_owner has open, or 0
  showText,   \* per inode: it holds its creator's or locker's pid, 0 if empty
  showPrev,   \* per show: the pid it read
  showTerm,   \* per show: g_term
  showTold,   \* history, per show: SIGTERM was sent to it
  showDeaf,   \* history: shows that could not lock the file
  showMissed, \* history: cards that got SIGTERM between the test of g_term and poll
  showOverlap \* history: two commands ran at the same time, or one removed the file
              \* of a card that was about to remove it

showVars == <<showPc, showDir, showFd, showPeek, showText, showPrev, showTerm, showTold,
              showDeaf, showMissed, showOverlap>>

Commanding == {"peek", "peekShare", "peekUnshare", "peekRead", "kill", "unlink",
               "create", "lock", "truncate", "write"}
Handling   == {"test", "armed", "poll"}          \* the handlers are installed
CardUp     == {"synced"} \cup Handling
Clearing   == {"clear", "clearShare", "clearUnshare", "clearRead", "clearUnlink", "close"}
Locking    == {"truncate", "write", "synced"} \cup Handling \cup Clearing

HasLock(s, i)   == showFd[s] = i /\ showPc[s] \in Locking
Shares(s, i)    == showPeek[s] = i /\ showPc[s] \in {"peekUnshare", "clearUnshare"}
ShowGoes(s, from, to) == showPc[s] = from /\ showPc' = [showPc EXCEPT ![s] = to]
ShowPeeks(s, i) == showPeek' = [showPeek EXCEPT ![s] = i]

-----------------------------------------------------------------------------
(* grabit_lock_owner, called by kill_previous_show and clear_show_pid_self.*)

OwnerOpens(s, from, shares, absent) ==
  /\ ShowGoes(s, from, IF showDir = 0 THEN absent ELSE shares)
  /\ ShowPeeks(s, showDir)

\* LOCK_SH fails against any LOCK_EX, the process's own included.
OwnerShares(s, from, unshares, reads) ==
  /\ ShowGoes(s, from, IF \E t \in Shows : HasLock(t, showPeek[s]) THEN reads ELSE unshares)
  /\ UNCHANGED showPeek

-----------------------------------------------------------------------------
(* kill_previous_show.                                                     *)

ShowBegins(s) ==
  /\ ShowGoes(s, "idle", "peek")
  /\ showOverlap' = (showOverlap \/ \E t \in Shows : showPc[t] \in Commanding)
  /\ UNCHANGED <<showDir, showFd, showPeek, showText, showPrev, showTerm, showTold,
                 showDeaf, showMissed>>

ShowPeekOpens(s) ==
  /\ OwnerOpens(s, "peek", "peekShare", "unlink")
  /\ UNCHANGED <<showDir, showFd, showText, showPrev, showTerm, showTold, showDeaf,
                 showMissed, showOverlap>>

ShowPeekShares(s) ==
  /\ OwnerShares(s, "peekShare", "peekUnshare", "peekRead")
  /\ UNCHANGED <<showDir, showFd, showText, showPrev, showTerm, showTold, showDeaf,
                 showMissed, showOverlap>>

ShowPeekUnshares(s) ==
  /\ ShowGoes(s, "peekUnshare", "unlink") /\ ShowPeeks(s, 0)
  /\ UNCHANGED <<showDir, showFd, showText, showPrev, showTerm, showTold, showDeaf,
                 showMissed, showOverlap>>

ShowPeekReads(s) ==
  /\ ShowGoes(s, "peekRead", IF showText[showPeek[s]] = 0 THEN "unlink" ELSE "kill")
  /\ showPrev' = [showPrev EXCEPT ![s] = showText[showPeek[s]]]
  /\ ShowPeeks(s, 0)
  /\ UNCHANGED <<showDir, showFd, showText, showTerm, showTold, showDeaf, showMissed, showOverlap>>

\* kill(pid, SIGTERM): a card with handlers sets g_term, and wakes if it sleeps
\* in poll; one without is gone; a pid that is gone gets nothing.
ShowKills(s) ==
  LET t == showPrev[s] IN
  /\ showPc[s] = "kill"
  /\ showTold' = [showTold EXCEPT ![t] = TRUE]
  /\ showTerm' = IF showPc[t] \in Handling \cup Clearing
                 THEN [showTerm EXCEPT ![t] = TRUE] ELSE showTerm
  /\ showMissed' = IF showPc[t] = "armed" THEN showMissed \cup {t} ELSE showMissed
  /\ showPc' = [showPc EXCEPT
                  ![s] = "unlink",
                  ![t] = CASE @ = "poll" -> "test"
                           [] @ \in {"create", "lock", "truncate", "write", "synced"} -> "gone"
                           [] OTHER -> @]
  /\ showFd' = IF showPc'[t] = "gone" THEN [showFd EXCEPT ![t] = 0] ELSE showFd
  /\ UNCHANGED <<showDir, showPeek, showText, showPrev, showDeaf, showOverlap>>

\* unlink(path), whoever's it is by now.
ShowUnlinks(s) ==
  /\ ShowGoes(s, "unlink", "create")
  /\ showDir' = 0
  /\ showOverlap' = (showOverlap \/ \E t \in Shows : showPc[t] \in {"clearShare", "clearRead", "clearUnlink"})
  /\ UNCHANGED <<showFd, showPeek, showText, showPrev, showTerm, showTold, showDeaf, showMissed>>

-----------------------------------------------------------------------------
(* pin_spawn_common.                                                       *)

\* No layer shell, no image, no fork: the previous card is gone all the same.
ShowFails(s) == /\ ShowGoes(s, "create", "gone")
                /\ UNCHANGED <<showDir, showFd, showPeek, showText, showPrev, showTerm, showTold,
                               showDeaf, showMissed, showOverlap>>

\* write_show_pid_self: grabit_lock_acquire.
ShowCreates(s) ==
  /\ ShowGoes(s, "create", "lock")
  /\ showDir' = IF showDir = 0 THEN s ELSE showDir
  /\ showFd' = [showFd EXCEPT ![s] = showDir']
  /\ UNCHANGED <<showPeek, showText, showPrev, showTerm, showTold, showDeaf, showMissed, showOverlap>>

ShowLockFree(s) == \A t \in Shows \ {s} : ~HasLock(t, showFd[s]) /\ ~Shares(t, showFd[s])

ShowLocks(s) ==
  /\ ShowGoes(s, "lock", "truncate") /\ ShowLockFree(s)
  /\ UNCHANGED <<showDir, showFd, showPeek, showText, showPrev, showTerm, showTold, showDeaf,
                 showMissed, showOverlap>>

\* The card comes up all the same; the next show cannot find it.
ShowLockRefused(s) ==
  /\ ShowGoes(s, "lock", "synced") /\ ~ShowLockFree(s)
  /\ showFd' = [showFd EXCEPT ![s] = 0]
  /\ showDeaf' = showDeaf \cup {s}
  /\ UNCHANGED <<showDir, showPeek, showText, showPrev, showTerm, showTold, showMissed, showOverlap>>

ShowTruncates(s) ==
  /\ ShowGoes(s, "truncate", "write")
  /\ showText' = [showText EXCEPT ![showFd[s]] = 0]
  /\ UNCHANGED <<showDir, showFd, showPeek, showPrev, showTerm, showTold, showDeaf,
                 showMissed, showOverlap>>

\* The byte that lets the parent end follows at once.
ShowWrites(s) ==
  /\ ShowGoes(s, "write", "synced")
  /\ showText' = [showText EXCEPT ![showFd[s]] = s]
  /\ UNCHANGED <<showDir, showFd, showPeek, showPrev, showTerm, showTold, showDeaf,
                 showMissed, showOverlap>>

-----------------------------------------------------------------------------
(* gpin_main of a card.                                                    *)

ShowInstalls(s) == /\ ShowGoes(s, "synced", "test")
                   /\ UNCHANGED <<showDir, showFd, showPeek, showText, showPrev, showTerm,
                                  showTold, showDeaf, showMissed, showOverlap>>

\* while (!st.finished && !g_term)
CardTests(s) ==
  /\ ShowGoes(s, "test", IF showTerm[s] THEN "clear" ELSE "armed")
  /\ UNCHANGED <<showDir, showFd, showPeek, showText, showPrev, showTerm, showTold, showDeaf,
                 showMissed, showOverlap>>

CardPolls(s) == /\ ShowGoes(s, "armed", "poll")
                /\ UNCHANGED <<showDir, showFd, showPeek, showText, showPrev, showTerm, showTold,
                               showDeaf, showMissed, showOverlap>>

\* A Wayland event wakes it.
CardWakes(s) == /\ ShowGoes(s, "poll", "test")
                /\ UNCHANGED <<showDir, showFd, showPeek, showText, showPrev, showTerm, showTold,
                               showDeaf, showMissed, showOverlap>>

\* The dismiss timer, a click, a lost connection.
CardFinishes(s) == /\ ShowGoes(s, "poll", "clear")
                   /\ UNCHANGED <<showDir, showFd, showPeek, showText, showPrev, showTerm,
                                  showTold, showDeaf, showMissed, showOverlap>>

\* Killed outright: the lock goes, the file stays.
CardDies(s) ==
  /\ showPc[s] \in CardUp
  /\ showPc' = [showPc EXCEPT ![s] = "gone"]
  /\ showFd' = [showFd EXCEPT ![s] = 0]
  /\ UNCHANGED <<showDir, showPeek, showText, showPrev, showTerm, showTold, showDeaf,
                 showMissed, showOverlap>>

-----------------------------------------------------------------------------
(* clear_show_pid_self.                                                    *)

ClearOpens(s) ==
  /\ IF showFd[s] = 0 THEN ShowGoes(s, "clear", "gone") /\ UNCHANGED showPeek
                      ELSE OwnerOpens(s, "clear", "clearShare", "close")
  /\ UNCHANGED <<showDir, showFd, showText, showPrev, showTerm, showTold, showDeaf,
                 showMissed, showOverlap>>

ClearShares(s) ==
  /\ OwnerShares(s, "clearShare", "clearUnshare", "clearRead")
  /\ UNCHANGED <<showDir, showFd, showText, showPrev, showTerm, showTold, showDeaf,
                 showMissed, showOverlap>>

ClearUnshares(s) ==
  /\ ShowGoes(s, "clearUnshare", "close") /\ ShowPeeks(s, 0)
  /\ UNCHANGED <<showDir, showFd, showText, showPrev, showTerm, showTold, showDeaf,
                 showMissed, showOverlap>>

\* Slip: the name is removed whoever the file belongs to.
ClearReadsAnyone(s) ==
  /\ ShowGoes(s, "clearRead", "clearUnlink")
  /\ ShowPeeks(s, 0)
  /\ UNCHANGED <<showDir, showFd, showText, showPrev, showTerm, showTold, showDeaf,
                 showMissed, showOverlap>>

ClearReads(s) ==
  /\ ShowGoes(s, "clearRead", IF showText[showPeek[s]] = s THEN "clearUnlink" ELSE "close")
  /\ ShowPeeks(s, 0)
  /\ UNCHANGED <<showDir, showFd, showText, showPrev, showTerm, showTold, showDeaf,
                 showMissed, showOverlap>>

ClearUnlinks(s) ==
  /\ ShowGoes(s, "clearUnlink", "close")
  /\ showDir' = 0
  /\ UNCHANGED <<showFd, showPeek, showText, showPrev, showTerm, showTold, showDeaf,
                 showMissed, showOverlap>>

ClearCloses(s) ==
  /\ ShowGoes(s, "close", "gone")
  /\ showFd' = [showFd EXCEPT ![s] = 0]
  /\ UNCHANGED <<showDir, showPeek, showText, showPrev, showTerm, showTold, showDeaf,
                 showMissed, showOverlap>>

-----------------------------------------------------------------------------
ShowCardInit ==
  /\ showPc = [s \in Shows |-> "idle"] /\ showDir = 0
  /\ showFd = [s \in Shows |-> 0] /\ showPeek = [s \in Shows |-> 0]
  /\ showText = [s \in Shows |-> 0] /\ showPrev = [s \in Shows |-> 0]
  /\ showTerm = [s \in Shows |-> FALSE] /\ showTold = [s \in Shows |-> FALSE]
  /\ showDeaf = {} /\ showMissed = {} /\ showOverlap = FALSE

ShowCommand(s) == \/ ShowPeekOpens(s) \/ ShowPeekShares(s) \/ ShowPeekUnshares(s)
                  \/ ShowPeekReads(s) \/ ShowKills(s) \/ ShowUnlinks(s)
                  \/ ShowFails(s) \/ ShowCreates(s) \/ ShowLocks(s) \/ ShowLockRefused(s)
                  \/ ShowTruncates(s) \/ ShowWrites(s)
CardRuns(s)    == ShowInstalls(s) \/ CardTests(s) \/ CardPolls(s)
CardClears(s)  == \/ ClearOpens(s) \/ ClearShares(s) \/ ClearUnshares(s)
                  \/ ClearReads(s) \/ ClearUnlinks(s) \/ ClearCloses(s)

ShowCardNext == \E s \in Shows : \/ ShowBegins(s) \/ ShowCommand(s) \/ CardRuns(s)
                                 \/ CardWakes(s) \/ CardFinishes(s) \/ CardDies(s)
                                 \/ CardClears(s)

-----------------------------------------------------------------------------
(* Properties.                                                             *)

\* Types; a lock has one holder, who has the file open.
ShowCardTypeOK ==
  /\ showPc \in [Shows -> {"idle", "gone"} \cup Commanding \cup CardUp \cup Clearing]
  /\ showDir \in Shows \cup {0}
  /\ {showFd, showPeek, showText, showPrev} \subseteq [Shows -> Shows \cup {0}]
  /\ {showTerm, showTold} \subseteq [Shows -> BOOLEAN]
  /\ {showDeaf, showMissed} \subseteq SUBSET Shows /\ showOverlap \in BOOLEAN
  /\ \A s, t \in Shows : showFd[s] # 0 /\ HasLock(s, showFd[s]) /\ HasLock(t, showFd[s]) => s = t

\* A new card replaces the one before (kill_previous_show): as long as the
\* commands come one after the other, at most one card is up that was not told
\* to end, whenever the cards before it end by themselves.  Two cases of
\* clear_show_pid_self are left out: it reads the new file while the new card
\* tries to lock it, and it finds its own file just before it is replaced.
OneCard ==
  showOverlap \/ Cardinality({s \in Shows \ showDeaf : showPc[s] \in CardUp /\ ~showTold[s]}) <= 1

\* A card that is told to end does not go to sleep again: unless the signal fell
\* between the test of g_term and poll (there it sleeps until a Wayland event or
\* its timer), it is never in poll afterwards.
ToldCardEnds ==
  \A s \in Shows : showTold[s] /\ showPc[s] = "poll" => s \in showMissed

\* Both: a card gives way, to the one that replaces it and to a signal.
CardsGiveWay == OneCard /\ ToldCardEnds

=============================================================================
