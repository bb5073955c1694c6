---------------------------- MODULE CommandProofs ----------------------------
(***************************************************************************)
(* What the single commands promise, for any number of invocations and     *)
(* every bound: each family of Commands has its inductive invariant.       *)
(***************************************************************************)
EXTENDS Commands, FiniteSetTheorems, WellFoundedInduction, TLAPS

-----------------------------------------------------------------------------
(* Clipboard: the command, its child and the pipe between them.            *)

ClipTypes ==
  /\ clipCmd \in [Copies -> {"idle", "wait", "close", "copied", "failed"}]
  /\ clipChild \in [Copies -> {"none", "connect", "roundtrip", "serve", "write", "ended", "gone"}]
  /\ clipPipe \in [Copies -> {"empty", "ready", "failed", "eof"}]
  /\ clipOwner \in Copies \cup {"nobody"}

\* A child that has selected is the owner or about to be told that it is not.
SelectingIsOwned ==
  \A c \in Copies : clipChild[c] \in {"roundtrip", "serve", "write"} => clipOwner = c \/ c \in clipGone

\* "ready" is in the pipe only once the child serves, and a child that serves
\* has put it there, or the command had stopped waiting.
PipeFollowsChild ==
  \A c \in Copies :
    /\ clipPipe[c] = "ready" => clipChild[c] \in {"serve", "write", "ended"}
    /\ clipChild[c] \in {"serve", "write"} => clipPipe[c] = "ready"
    /\ clipChild[c] \in {"serve", "write"} /\ clipCmd[c] \in {"idle", "close", "failed"} => c \in clipLate
    /\ clipCmd[c] = "copied" => clipPipe[c] = "ready"
    /\ clipCmd[c] = "idle" => clipChild[c] = "none" /\ clipPipe[c] = "empty"

ClipInv == ClipTypes /\ SelectingIsOwned /\ PipeFollowsChild

LEMMA ClipInitInv == ClipboardInit => ClipInv
BY DEF ClipboardInit, ClipInv, ClipTypes, SelectingIsOwned, PipeFollowsChild

LEMMA ClipNextInv == ClipInv /\ [ClipboardNext]_clipVars => ClipInv'
<1> SUFFICES ASSUME ClipInv, [ClipboardNext]_clipVars PROVE ClipInv'
  OBVIOUS
<1> USE CopiesAssumption DEF ClipInv, ClipTypes, SelectingIsOwned, PipeFollowsChild, CmdGoes, ChildGoes,
        PipeHolds, Dropped
<1>1. ASSUME NEW c \in Copies,
             CopyRefused(c) \/ CopyForks(c) \/ CopyHears(c) \/ CopyTimesOut(c) \/ CopyCloses(c)
      PROVE  ClipInv'
  BY <1>1 DEF CopyRefused, CopyForks, CopyHears, CopyTimesOut, CopyCloses
<1>2. ASSUME NEW c \in Copies, ChildFails(c) \/ ChildIsReady(c)
      PROVE  ClipInv'
  BY <1>2 DEF ChildFails, ChildIsReady, ChildSignals
<1>3. ASSUME NEW c \in Copies,
             ChildSelects(c) \/ ChildWrites(c) \/ ReaderTakes(c) \/ ChildEnds(c) \/ ChildLosesWayland(c)
             \/ ChildDies(c)
      PROVE  ClipInv'
  BY <1>3 DEF ChildSelects, ChildWrites, ReaderTakes, ChildEnds, ChildLosesWayland, ChildDies
<1>4. CASE UNCHANGED clipVars
  BY <1>4 DEF clipVars
<1> QED
  BY <1>1, <1>2, <1>3, <1>4 DEF ClipboardNext

\* What the command says about the clipboard is what became of the selection
\* (send.c:161-220), for any number of copies that take it from each other.
THEOREM CopiedMeansOwned == CommandsSpec => []ReportMatchesSelection
<1>1. CommandsInit => ClipInv
  BY ClipInitInv DEF CommandsInit
<1>2. [CommandsNext]_commandsVars => [ClipboardNext]_clipVars
  BY DEF CommandsNext, Only, commandsVars
<1>3. ClipInv => ReportMatchesSelection
  BY DEF ClipInv, SelectingIsOwned, PipeFollowsChild, ReportMatchesSelection, ClipTypes
<1> QED
  BY <1>1, <1>2, <1>3, ClipNextInv, PTL DEF CommandsSpec

-----------------------------------------------------------------------------
(* Plugins: the lock, the directory, its command and the checksum.         *)

PlugLocked == {"install", "clone", "binary", "verify", "link", "source", "remove", "rm",
               "update", "fetch", "pull", "rebuild", "touch"}
PlugSources == {"none", "git", "prebuilt"}
Stored0 == Versions \cup {0}

OpRecords == [pc : PlugLocked \cup {"rest", "spawned"}, tree : Stored0, source : PlugSources, sha : Stored0]
DirRecords == [tree : Stored0, bin : Stored0, source : PlugSources, sha : Stored0, fresh : BOOLEAN]

WorldType == plugKind \in {"build", "prebuilt"} /\ plugHead \in Versions /\ plugAsset \in Versions
DirType   == plugDir \in DirRecords
OpType    == plugOp \in [PluginOps -> OpRecords]
PlugTypes == WorldType /\ DirType /\ OpType

\* Who changes anything holds the lock.
PlugMutex == \A o \in PluginOps : plugOp[o].pc \in PlugLocked => plugHolder = o

\* An unfinished install has no command yet, and from the verification on it has
\* the binary whose checksum the manifest it read names.
InstallUnderWay ==
  \A o \in PluginOps :
    /\ plugOp[o].pc \in {"clone", "binary", "verify", "link", "source"} => plugOp[o].tree # 0
    /\ plugOp[o].pc \in {"binary", "verify", "link"} => Installed /\ ~plugLink
    /\ plugOp[o].pc \in {"binary", "verify", "link", "source"} => plugDir.sha = 0
    /\ plugOp[o].pc = "rm" => ~plugLink
    /\ plugOp[o].pc = "source" => plugLink
    /\ plugOp[o].pc \in {"link", "source"} /\ plugKind = "prebuilt" =>
         plugDir.bin = plugOp[o].tree /\ plugDir.bin \in plugChecked

\* An update of a prebuilt plugin holds the checksum on record; only plugins that
\* are built are rebuilt.
UpdateUnderWay ==
  \A o \in PluginOps :
    /\ plugOp[o].pc = "rebuild" => plugKind = "build"
    /\ plugOp[o].pc = "fetch" /\ plugDir.sha # 0 => plugOp[o].sha = plugDir.sha
    /\ plugOp[o].pc \in {"pull", "rebuild", "touch", "fetch"} => Installed

\* What CommandIsVerified promises, and where its last part holds in between.
PlugKept ==
  /\ plugLink => Installed
  /\ plugLink /\ plugKind = "prebuilt" => plugDir.bin \in plugChecked
  /\ plugDir.sha # 0 => plugDir.sha = plugDir.bin /\ plugKind = "prebuilt"
  /\ ~plugBroken /\ (\A o \in PluginOps : plugOp[o].pc \notin {"binary", "verify", "link", "rm"}) =>
       (Installed => plugLink)

PlugInv == PlugTypes /\ PlugMutex /\ InstallUnderWay /\ UpdateUnderWay /\ PlugKept

LEMMA WorldTypeNext == WorldType /\ [PluginsNext]_plugVars => WorldType'
<1> SUFFICES ASSUME WorldType, [PluginsNext]_plugVars PROVE WorldType'
  OBVIOUS
<1> USE DEF WorldType, plugWorld
<1>1. ASSUME NEW o \in PluginOps, NEW command \in {"install", "remove", "update"}, PluginBegins(o, command)
      PROVE  WorldType'
  BY <1>1 DEF PluginBegins
<1>2. ASSUME NEW o \in PluginOps, NEW from \in {"clone", "binary", "verify", "link"}, InstallFails(o, from)
      PROVE  WorldType'
  BY <1>2 DEF InstallFails
<1>3. ASSUME NEW o \in PluginOps, InstallClones(o) \/ InstallRenames(o)
      PROVE  WorldType'
  BY <1>3 DEF InstallClones, InstallRenames
<1>4. ASSUME NEW o \in PluginOps, InstallGetsBinary(o)
      PROVE  WorldType'
  BY <1>4 DEF InstallGetsBinary
<1>5. ASSUME NEW o \in PluginOps, InstallVerifies(o) \/ InstallLinks(o)
      PROVE  WorldType'
  BY <1>5 DEF InstallVerifies, InstallLinks
<1>6. ASSUME NEW o \in PluginOps, NEW ok \in BOOLEAN, InstallRecords(o, ok)
      PROVE  WorldType'
  BY <1>6 DEF InstallRecords
<1>7. ASSUME NEW o \in PluginOps, RemoveUnlinks(o) \/ RemoveDeletes(o)
      PROVE  WorldType'
  BY <1>7 DEF RemoveUnlinks, RemoveDeletes
<1>8. ASSUME NEW o \in PluginOps, UpdateReads(o)
      PROVE  WorldType'
  BY <1>8 DEF UpdateReads
<1>9. ASSUME NEW o \in PluginOps, UpdatePulls(o)
      PROVE  WorldType'
  BY <1>9 DEF UpdatePulls
<1>10. ASSUME NEW o \in PluginOps, UpdateBuilds(o)
       PROVE  WorldType'
  BY <1>10 DEF UpdateBuilds
<1>11. ASSUME NEW o \in PluginOps, UpdateFails(o)
       PROVE  WorldType'
  BY <1>11 DEF UpdateFails
<1>12. ASSUME NEW o \in PluginOps, UpdateFetches(o)
       PROVE  WorldType'
  BY <1>12 DEF UpdateFetches
<1>13. ASSUME NEW o \in PluginOps, UpdateTouches(o)
       PROVE  WorldType'
  BY <1>13 DEF UpdateTouches
<1>14. ASSUME NEW o \in PluginOps, RunChecks(o)
       PROVE  WorldType'
  BY <1>14 DEF RunChecks
<1>15. ASSUME NEW o \in PluginOps, SpawnedUpdates(o)
       PROVE  WorldType'
  BY <1>15 DEF SpawnedUpdates
<1>16. ASSUME NEW o \in PluginOps, PluginKilled(o)
       PROVE  WorldType'
  BY <1>16 DEF PluginKilled
<1>17. CASE CheckAges \/ PublishManifest \/ PublishAsset
  BY <1>17, PluginAssumption DEF CheckAges, PublishManifest, PublishAsset, Versions
<1>18. CASE UNCHANGED plugVars
  BY <1>18 DEF plugVars
<1> QED
  BY <1>1, <1>2, <1>3, <1>4, <1>5, <1>6, <1>7, <1>8, <1>9, <1>10, <1>11, <1>12, <1>13, <1>14, <1>15, <1>16, <1>17, <1>18 DEF PluginsNext, PluginStep

LEMMA DirTypeNext == WorldType /\ OpType /\ DirType /\ [PluginsNext]_plugVars => DirType'
<1> SUFFICES ASSUME WorldType, OpType, DirType, [PluginsNext]_plugVars PROVE DirType'
  OBVIOUS
<1>a. ASSUME NEW o \in PluginOps PROVE plugOp[o].tree \in Stored0
  BY <1>a DEF OpType, OpRecords
<1>b. 0 \in Stored0 /\ NoPlugin \in DirRecords
  BY DEF Stored0, DirRecords, NoPlugin, PlugSources
<1> USE DEF WorldType, DirType, DirRecords, NoPlugin, Stored0, PlugSources, plugWorld
<1>1. ASSUME NEW o \in PluginOps, NEW command \in {"install", "remove", "update"}, PluginBegins(o, command)
      PROVE  DirType'
  BY <1>1 DEF PluginBegins
<1>2. ASSUME NEW o \in PluginOps, NEW from \in {"clone", "binary", "verify", "link"}, InstallFails(o, from)
      PROVE  DirType'
  BY <1>2 DEF InstallFails
<1>3. ASSUME NEW o \in PluginOps, InstallClones(o) \/ InstallRenames(o)
      PROVE  DirType'
  <2>1. CASE InstallClones(o)
    BY <2>1 DEF InstallClones
  <2>2. CASE InstallRenames(o)
    BY <2>2, <1>a DEF InstallRenames
  <2> QED
    BY <1>3, <2>1, <2>2
<1>4. ASSUME NEW o \in PluginOps, InstallGetsBinary(o)
      PROVE  DirType'
  BY <1>4 DEF InstallGetsBinary
<1>5. ASSUME NEW o \in PluginOps, InstallVerifies(o) \/ InstallLinks(o)
      PROVE  DirType'
  BY <1>5 DEF InstallVerifies, InstallLinks
<1>6. ASSUME NEW o \in PluginOps, NEW ok \in BOOLEAN, InstallRecords(o, ok)
      PROVE  DirType'
  <2> DEFINE source == IF ~ok THEN "none" ELSE IF plugKind = "build" THEN "git" ELSE "prebuilt"
             sha == IF ok /\ plugKind = "prebuilt" THEN plugOp[o].tree ELSE 0
  <2>1. plugDir' = [plugDir EXCEPT !.source = source, !.sha = sha, !.fresh = TRUE]
    BY <1>6 DEF InstallRecords
  <2>2. source \in PlugSources /\ sha \in Stored0
    BY <1>a, <1>b
  <2> HIDE DEF source, sha
  <2> QED
    BY <2>1, <2>2
<1>7. ASSUME NEW o \in PluginOps, RemoveUnlinks(o) \/ RemoveDeletes(o)
      PROVE  DirType'
  <2>1. CASE RemoveUnlinks(o)
    BY <2>1 DEF RemoveUnlinks
  <2>2. CASE RemoveDeletes(o)
    BY <2>2, <1>b DEF RemoveDeletes
  <2> QED
    BY <1>7, <2>1, <2>2
<1>8. ASSUME NEW o \in PluginOps, UpdateReads(o)
      PROVE  DirType'
  BY <1>8 DEF UpdateReads
<1>9. ASSUME NEW o \in PluginOps, UpdatePulls(o)
      PROVE  DirType'
  BY <1>9 DEF UpdatePulls
<1>10. ASSUME NEW o \in PluginOps, UpdateBuilds(o)
       PROVE  DirType'
  BY <1>10 DEF UpdateBuilds
<1>11. ASSUME NEW o \in PluginOps, UpdateFails(o)
       PROVE  DirType'
  BY <1>11 DEF UpdateFails
<1>12. ASSUME NEW o \in PluginOps, UpdateFetches(o)
       PROVE  DirType'
  BY <1>12 DEF UpdateFetches
<1>13. ASSUME NEW o \in PluginOps, UpdateTouches(o)
       PROVE  DirType'
  BY <1>13 DEF UpdateTouches
<1>14. ASSUME NEW o \in PluginOps, RunChecks(o)
       PROVE  DirType'
  BY <1>14 DEF RunChecks
<1>15. ASSUME NEW o \in PluginOps, SpawnedUpdates(o)
       PROVE  DirType'
  BY <1>15 DEF SpawnedUpdates
<1>16. ASSUME NEW o \in PluginOps, PluginKilled(o)
       PROVE  DirType'
  BY <1>16 DEF PluginKilled
<1>17. CASE CheckAges \/ PublishManifest \/ PublishAsset
  BY <1>17, PluginAssumption DEF CheckAges, PublishManifest, PublishAsset, Versions
<1>18. CASE UNCHANGED plugVars
  BY <1>18 DEF plugVars
<1> QED
  BY <1>1, <1>2, <1>3, <1>4, <1>5, <1>6, <1>7, <1>8, <1>9, <1>10, <1>11, <1>12, <1>13, <1>14, <1>15, <1>16, <1>17, <1>18 DEF PluginsNext, PluginStep

LEMMA OpTypeNext == WorldType /\ DirType /\ OpType /\ [PluginsNext]_plugVars => OpType'
<1> SUFFICES ASSUME WorldType, DirType, OpType, [PluginsNext]_plugVars PROVE OpType'
  OBVIOUS
<1>a. plugDir.tree \in Stored0 /\ plugDir.sha \in Stored0 /\ plugDir.source \in PlugSources
  BY DEF DirType, DirRecords
<1> USE DEF WorldType, OpType, OpRecords, Resting, OpGoes, OpEnds, Stored0, PlugSources, PlugLocked, plugWorld
<1>1. ASSUME NEW o \in PluginOps, NEW command \in {"install", "remove", "update"}, PluginBegins(o, command)
      PROVE  OpType'
  BY <1>1 DEF PluginBegins
<1>2. ASSUME NEW o \in PluginOps, NEW from \in {"clone", "binary", "verify", "link"}, InstallFails(o, from)
      PROVE  OpType'
  BY <1>2 DEF InstallFails
<1>3. ASSUME NEW o \in PluginOps, InstallClones(o) \/ InstallRenames(o)
      PROVE  OpType'
  BY <1>3 DEF InstallClones, InstallRenames
<1>4. ASSUME NEW o \in PluginOps, InstallGetsBinary(o)
      PROVE  OpType'
  BY <1>4 DEF InstallGetsBinary
<1>5. ASSUME NEW o \in PluginOps, InstallVerifies(o) \/ InstallLinks(o)
      PROVE  OpType'
  BY <1>5 DEF InstallVerifies, InstallLinks
<1>6. ASSUME NEW o \in PluginOps, NEW ok \in BOOLEAN, InstallRecords(o, ok)
      PROVE  OpType'
  BY <1>6 DEF InstallRecords
<1>7. ASSUME NEW o \in PluginOps, RemoveUnlinks(o) \/ RemoveDeletes(o)
      PROVE  OpType'
  BY <1>7 DEF RemoveUnlinks, RemoveDeletes
<1>8. ASSUME NEW o \in PluginOps, UpdateReads(o)
      PROVE  OpType'
  <2>1. CASE Installed
    <3>1. plugOp'[o] \in OpRecords /\ plugOp' = [plugOp EXCEPT ![o] = plugOp'[o]]
      BY <1>8, <2>1, <1>a DEF UpdateReads
    <3> QED
      BY <3>1
  <2>2. CASE ~Installed
    BY <1>8, <2>2 DEF UpdateReads
  <2> QED
    BY <2>1, <2>2
<1>9. ASSUME NEW o \in PluginOps, UpdatePulls(o)
      PROVE  OpType'
  BY <1>9 DEF UpdatePulls
<1>10. ASSUME NEW o \in PluginOps, UpdateBuilds(o)
       PROVE  OpType'
  BY <1>10 DEF UpdateBuilds
<1>11. ASSUME NEW o \in PluginOps, UpdateFails(o)
       PROVE  OpType'
  BY <1>11 DEF UpdateFails
<1>12. ASSUME NEW o \in PluginOps, UpdateFetches(o)
       PROVE  OpType'
  BY <1>12 DEF UpdateFetches
<1>13. ASSUME NEW o \in PluginOps, UpdateTouches(o)
       PROVE  OpType'
  BY <1>13 DEF UpdateTouches
<1>14. ASSUME NEW o \in PluginOps, RunChecks(o)
       PROVE  OpType'
  BY <1>14 DEF RunChecks
<1>15. ASSUME NEW o \in PluginOps, SpawnedUpdates(o)
       PROVE  OpType'
  BY <1>15 DEF SpawnedUpdates
<1>16. ASSUME NEW o \in PluginOps, PluginKilled(o)
       PROVE  OpType'
  BY <1>16 DEF PluginKilled
<1>17. CASE CheckAges \/ PublishManifest \/ PublishAsset
  BY <1>17, PluginAssumption DEF CheckAges, PublishManifest, PublishAsset, Versions
<1>18. CASE UNCHANGED plugVars
  BY <1>18 DEF plugVars
<1> QED
  BY <1>1, <1>2, <1>3, <1>4, <1>5, <1>6, <1>7, <1>8, <1>9, <1>10, <1>11, <1>12, <1>13, <1>14, <1>15, <1>16, <1>17, <1>18 DEF PluginsNext, PluginStep

LEMMA PlugInitInv == PluginsInit => PlugInv
BY PluginAssumption, 1 \in Versions
DEF PluginsInit, PlugInv, PlugTypes, WorldType, DirType, OpType, OpRecords, DirRecords, PlugMutex, InstallUnderWay, UpdateUnderWay, PlugKept, Installed,
    NoPlugin, Resting, Stored0, PlugSources, PlugLocked, Versions

LEMMA PlugNextInv == PlugInv /\ [PluginsNext]_plugVars => PlugInv'
<1> SUFFICES ASSUME PlugInv, [PluginsNext]_plugVars PROVE PlugInv'
  OBVIOUS
<1>a. 0 \notin Versions
  BY DEF Versions
<1>t. PlugTypes'
  BY WorldTypeNext, DirTypeNext, OpTypeNext DEF PlugInv, PlugTypes
<1> USE <1>a, PluginAssumption
    DEF PlugInv, PlugTypes, WorldType, DirType, OpType, OpRecords, DirRecords,
        PlugMutex, InstallUnderWay, UpdateUnderWay, PlugKept, Installed, OpGoes, OpEnds,
        NoPlugin, Resting, Stored0, PlugSources, PlugLocked, plugWorld
<1>1. ASSUME NEW o \in PluginOps, NEW command \in {"install", "remove", "update"}, PluginBegins(o, command)
      PROVE  PlugInv'
  BY <1>1, <1>t DEF PluginBegins
<1>2. ASSUME NEW o \in PluginOps, NEW from \in {"clone", "binary", "verify", "link"}, InstallFails(o, from)
      PROVE  PlugInv'
  BY <1>2, <1>t DEF InstallFails
<1>3. ASSUME NEW o \in PluginOps, InstallClones(o)
      PROVE  PlugInv'
  <2>2. PlugMutex'
    BY <1>3 DEF InstallClones
  <2>3. InstallUnderWay'
    BY <1>3 DEF InstallClones
  <2>4. UpdateUnderWay'
    BY <1>3 DEF InstallClones
  <2>5. PlugKept'
    BY <1>3 DEF InstallClones
  <2> QED
    BY <1>t, <2>2, <2>3, <2>4, <2>5
<1>4. ASSUME NEW o \in PluginOps, InstallRenames(o)
      PROVE  PlugInv'
  <2>2. PlugMutex'
    BY <1>4 DEF InstallRenames
  <2>3. InstallUnderWay'
    BY <1>4 DEF InstallRenames
  <2>4. UpdateUnderWay'
    BY <1>4 DEF InstallRenames
  <2>5. PlugKept'
    BY <1>4 DEF InstallRenames
  <2> QED
    BY <1>t, <2>2, <2>3, <2>4, <2>5
<1>5. ASSUME NEW o \in PluginOps, InstallGetsBinary(o)
      PROVE  PlugInv'
  BY <1>5, <1>t DEF InstallGetsBinary
<1>6. ASSUME NEW o \in PluginOps, InstallVerifies(o)
      PROVE  PlugInv'
  BY <1>6, <1>t DEF InstallVerifies
<1>7. ASSUME NEW o \in PluginOps, InstallLinks(o)
      PROVE  PlugInv'
  BY <1>7, <1>t DEF InstallLinks
<1>8. ASSUME NEW o \in PluginOps, NEW ok \in BOOLEAN, InstallRecords(o, ok)
      PROVE  PlugInv'
  BY <1>8, <1>t DEF InstallRecords
<1>9. ASSUME NEW o \in PluginOps, RemoveUnlinks(o) \/ RemoveDeletes(o)
      PROVE  PlugInv'
  <2>2. PlugMutex'
    BY <1>9 DEF RemoveUnlinks, RemoveDeletes
  <2>3. InstallUnderWay'
    BY <1>9 DEF RemoveUnlinks, RemoveDeletes
  <2>4. UpdateUnderWay'
    BY <1>9 DEF RemoveUnlinks, RemoveDeletes
  <2>5. PlugKept'
    BY <1>9 DEF RemoveUnlinks, RemoveDeletes
  <2> QED
    BY <1>t, <2>2, <2>3, <2>4, <2>5
<1>10. ASSUME NEW o \in PluginOps, UpdateReads(o)
       PROVE  PlugInv'
  BY <1>10, <1>t DEF UpdateReads
<1>11. ASSUME NEW o \in PluginOps, UpdatePulls(o) \/ UpdateBuilds(o)
       PROVE  PlugInv'
  BY <1>11, <1>t DEF UpdatePulls, UpdateBuilds
<1>12. ASSUME NEW o \in PluginOps, UpdateFails(o)
       PROVE  PlugInv'
  BY <1>12, <1>t DEF UpdateFails
<1>13. ASSUME NEW o \in PluginOps, UpdateFetches(o) \/ UpdateTouches(o)
       PROVE  PlugInv'
  <2>2. PlugMutex'
    BY <1>13 DEF UpdateFetches, UpdateTouches
  <2>3. InstallUnderWay'
    BY <1>13 DEF UpdateFetches, UpdateTouches
  <2>4. UpdateUnderWay'
    BY <1>13 DEF UpdateFetches, UpdateTouches
  <2>5. PlugKept'
    BY <1>13 DEF UpdateFetches, UpdateTouches
  <2> QED
    BY <1>t, <2>2, <2>3, <2>4, <2>5
<1>14. ASSUME NEW o \in PluginOps, RunChecks(o) \/ SpawnedUpdates(o)
       PROVE  PlugInv'
  <2>2. PlugMutex'
    BY <1>14 DEF RunChecks, SpawnedUpdates
  <2>3. InstallUnderWay'
    BY <1>14 DEF RunChecks, SpawnedUpdates
  <2>4. UpdateUnderWay'
    BY <1>14 DEF RunChecks, SpawnedUpdates
  <2>5. PlugKept'
    BY <1>14 DEF RunChecks, SpawnedUpdates
  <2> QED
    BY <1>t, <2>2, <2>3, <2>4, <2>5
<1>15. ASSUME NEW o \in PluginOps, PluginKilled(o)
       PROVE  PlugInv'
  BY <1>15, <1>t DEF PluginKilled
<1>16. CASE CheckAges \/ PublishManifest \/ PublishAsset
  <2>2. PlugMutex'
    BY <1>16 DEF CheckAges, PublishManifest, PublishAsset, Versions
  <2>3. InstallUnderWay'
    BY <1>16 DEF CheckAges, PublishManifest, PublishAsset, Versions
  <2>4. UpdateUnderWay'
    BY <1>16 DEF CheckAges, PublishManifest, PublishAsset, Versions
  <2>5. PlugKept'
    BY <1>16 DEF CheckAges, PublishManifest, PublishAsset, Versions
  <2> QED
    BY <1>t, <2>2, <2>3, <2>4, <2>5
<1>17. CASE UNCHANGED plugVars
  BY <1>17, <1>t DEF plugVars
<1> HIDE DEF PlugInv
<1> QED
  BY <1>1, <1>2, <1>3, <1>4, <1>5, <1>6, <1>7, <1>8, <1>9, <1>10, <1>11, <1>12, <1>13, <1>14, <1>15,
     <1>16, <1>17 DEF PluginsNext, PluginStep

\* No install, update, removal, kill or new version of any number of invocations
\* makes a prebuilt plugin's command run a binary that was not verified
\* (plugin_verify_sha256).
THEOREM OnlyVerifiedRuns == CommandsSpec => []CommandIsVerified
<1>1. CommandsInit => PlugInv
  BY PlugInitInv DEF CommandsInit
<1>2. [CommandsNext]_commandsVars => [PluginsNext]_plugVars
  BY DEF CommandsNext, Only, commandsVars
<1>3. PlugInv => CommandIsVerified
  BY PluginAssumption
  DEF PlugInv, PlugTypes, PlugMutex, PlugKept, CommandIsVerified, PlugLocked, Installed
<1> QED
  BY <1>1, <1>2, <1>3, PlugNextInv, PTL DEF CommandsSpec

-----------------------------------------------------------------------------
(* Upload: the pieces the server took, and what the chunk loop remembers.  *)

\* The smaller of two numbers, which is how the loop sizes a chunk.
LEMMA MinOfTwo ==
  ASSUME NEW a \in Int, NEW b \in Int
  PROVE  Min({a, b}) = IF a <= b THEN a ELSE b
BY DEF Min

\* A sequence with one more element.
LEMMA AppendedSeq ==
  ASSUME NEW S, NEW s \in Seq(S), NEW e \in S
  PROVE  /\ Append(s, e) \in Seq(S) /\ Len(Append(s, e)) = Len(s) + 1 /\ Len(s) \in Nat
         /\ Append(s, e)[Len(s) + 1] = e
         /\ \A i \in 1 .. Len(s) : Append(s, e)[i] = s[i]
OBVIOUS

Pieces == [start : Nat, size : Nat, last : BOOLEAN]

UpPcs == {"idle", "preflight", "perform", "single", "sxcu", "open", "read", "send", "uploaded", "end"}

UpRecords == [pc : UpPcs, service : Services, auth : BOOLEAN, domain : BOOLEAN, chunked : BOOLEAN,
              body : BOOLEAN, size : Nat, chunk : Nat, alloc : Nat, start : Nat, block : Nat,
              id : BOOLEAN, result : {"none", "url", "failed"},
              told : {"none", "preflight", "http", "transport"}]

UpTypes == up \in UpRecords /\ upTaken \in Seq(Pieces)

\* Where the next piece starts.
TakenUpTo == IF upTaken = <<>> THEN 0 ELSE upTaken[Len(upTaken)].start + upTaken[Len(upTaken)].size

\* The pieces follow each other and mark the end of the file.
PiecesFollow ==
  \A i \in 1 .. Len(upTaken) :
    /\ upTaken[i].start = (IF i = 1 THEN 0 ELSE upTaken[i - 1].start + upTaken[i - 1].size)
    /\ upTaken[i].last <=> upTaken[i].start + upTaken[i].size = up.size

\* Nothing is sent before the loop or the single request; in the loop the server
\* has exactly what comes before start, within the buffer that was read.
LoopFollows ==
  /\ up.pc \in {"idle", "preflight", "perform", "single", "sxcu", "open"} => upTaken = <<>>
  /\ up.pc = "idle" => up = Idle
  /\ up.pc \in {"preflight", "perform", "single", "sxcu", "open", "read", "send"} => up.alloc >= 1
  /\ up.pc \in {"read", "send"} =>
       /\ up.size > 0 /\ up.chunk >= 1 /\ up.start <= up.block /\ up.block <= up.size
       /\ TakenUpTo = up.start
  /\ up.pc = "send" => up.start < up.block

\* What an upload reports.
ReportFollows ==
  /\ up.pc # "end" => up.result = "none" /\ up.told = "none"
  /\ up.pc = "uploaded" \/ up.result = "url" => upTaken # <<>> /\ upTaken[Len(upTaken)].last
  /\ up.told = "preflight" => upTaken = <<>>

UpInv == UpTypes /\ PiecesFollow /\ LoopFollows /\ ReportFollows

\* One more piece where the last one ended keeps the pieces in line.
LEMMA TakesPiece ==
  ASSUME UpTypes, PiecesFollow, NEW size \in Nat, NEW last \in BOOLEAN, up'.size = up.size,
         upTaken' = Took(TakenUpTo, size, last), last <=> TakenUpTo + size = up.size
  PROVE  /\ upTaken' \in Seq(Pieces) /\ PiecesFollow' /\ TakenUpTo \in Nat
         /\ TakenUpTo' = TakenUpTo + size /\ upTaken' # <<>> /\ upTaken'[Len(upTaken')].last = last
<1> DEFINE piece == [start |-> TakenUpTo, size |-> size, last |-> last]
<1>1. TakenUpTo \in Nat
  <2>1. CASE upTaken = <<>>
    BY <2>1 DEF TakenUpTo
  <2>2. CASE upTaken # <<>>
    <3>1. Len(upTaken) \in 1 .. Len(upTaken)
      BY <2>2 DEF UpTypes
    <3>2. upTaken[Len(upTaken)] \in Pieces
      BY <3>1 DEF UpTypes
    <3> QED
      BY <2>2, <3>2 DEF TakenUpTo, Pieces
  <2> QED
    BY <2>1, <2>2
<1>2. piece \in Pieces
  BY <1>1 DEF Pieces
<1>3. upTaken' = Append(upTaken, piece)
  BY DEF Took
<1> HIDE DEF piece
<1>4. /\ upTaken' \in Seq(Pieces) /\ Len(upTaken') = Len(upTaken) + 1 /\ Len(upTaken) \in Nat
      /\ upTaken'[Len(upTaken) + 1] = piece
      /\ \A i \in 1 .. Len(upTaken) : upTaken'[i] = upTaken[i]
  BY <1>2, <1>3, AppendedSeq DEF UpTypes
<1>5. TakenUpTo' = TakenUpTo + size /\ upTaken' # <<>> /\ upTaken'[Len(upTaken')].last = last
  BY <1>4 DEF TakenUpTo, piece
<1>6. PiecesFollow'
  <2> SUFFICES ASSUME NEW i \in 1 .. Len(upTaken')
               PROVE  /\ upTaken'[i].start = (IF i = 1 THEN 0 ELSE upTaken'[i - 1].start + upTaken'[i - 1].size)
                      /\ upTaken'[i].last <=> upTaken'[i].start + upTaken'[i].size = up'.size
    BY DEF PiecesFollow
  <2>1. CASE i = Len(upTaken) + 1
    BY <2>1, <1>4 DEF piece, TakenUpTo
  <2>2. CASE i \in 1 .. Len(upTaken)
    <3>1. upTaken'[i] = upTaken[i] /\ (i # 1 => upTaken'[i - 1] = upTaken[i - 1])
      BY <2>2, <1>4
    <3> QED
      BY <2>2, <3>1 DEF PiecesFollow
  <2> QED
    BY <2>1, <2>2, <1>4
<1> QED
  BY <1>1, <1>4, <1>5, <1>6

LEMMA IdleIsTyped ==
  /\ Idle \in UpRecords /\ Idle.pc = "idle" /\ Idle.result = "none" /\ Idle.told = "none"
  /\ Idle.chunk = 0 /\ Idle.start = 0 /\ Idle.block = 0
BY DEF Idle, UpRecords, UpPcs, Services

LEMMA UpInitInv == UploadInit => UpInv
BY IdleIsTyped DEF UploadInit, UpInv, UpTypes, PiecesFollow, LoopFollows, ReportFollows

\* What stays in line when nothing is taken.
LEMMA TakesNothing ==
  ASSUME UpTypes, PiecesFollow, UNCHANGED upTaken, up'.size = up.size
  PROVE  upTaken' \in Seq(Pieces) /\ PiecesFollow' /\ TakenUpTo' = TakenUpTo
BY DEF UpTypes, PiecesFollow, TakenUpTo

\* A failed upload is at its end.
LEMMA FailsAtEnd ==
  ASSUME NEW from, NEW why \in {"preflight", "http", "transport"}, up \in UpRecords, UpFails(from, why)
  PROVE  /\ up.pc = from /\ up' \in UpRecords /\ up'.size = up.size
         /\ up'.pc = "end" /\ up'.result = "failed" /\ up'.told = why
BY IdleIsTyped DEF UpFails, UpRecords, UpPcs

LEMMA GoesOn ==
  ASSUME NEW from, NEW to \in {"perform", "uploaded", "open"}, up \in UpRecords, UpGoes(from, to)
  PROVE  /\ up.pc = from /\ up' \in UpRecords /\ up'.pc = to
         /\ up'.size = up.size /\ up'.start = up.start /\ up'.block = up.block /\ up'.alloc = up.alloc
         /\ up'.chunk = up.chunk /\ up'.result = up.result /\ up'.told = up.told
BY DEF UpGoes, UpRecords, UpPcs

LEMMA UpNextInv == UpInv /\ [UploadNext]_upVars => UpInv'
<1> SUFFICES ASSUME UpInv, [UploadNext]_upVars PROVE UpInv'
  OBVIOUS
<1> USE DEF UpInv, UpTypes
<1>1. ASSUME NEW service \in Services, NEW auth \in BOOLEAN, NEW domain \in BOOLEAN, NEW chunked \in BOOLEAN,
             NEW body \in BOOLEAN, NEW size \in 0 .. MaxSize, NEW alloc \in ChunkSizes,
             UploadBegins(service, auth, domain, chunked, body, size, alloc)
      PROVE  UpInv'
  <2>1. alloc \in Nat /\ alloc >= 1 /\ size \in Nat
    BY UploadAssumption
  <2>2. /\ up' \in UpRecords /\ up'.pc = "preflight" /\ up'.alloc = alloc
        /\ up'.result = "none" /\ up'.told = "none"
    <3> DEFINE fresh == [Idle EXCEPT !.pc = "preflight", !.service = service, !.auth = auth, !.domain = domain]
    <3>1. /\ fresh \in UpRecords /\ fresh.pc = "preflight" /\ fresh.alloc = Idle.alloc
          /\ fresh.result = "none" /\ fresh.told = "none"
      BY IdleIsTyped DEF UpRecords, UpPcs
    <3>2. up' = [fresh EXCEPT !.chunked = chunked, !.body = body, !.size = size, !.alloc = alloc]
      BY <1>1 DEF UploadBegins
    <3> HIDE DEF fresh
    <3> QED
      BY <2>1, <3>1, <3>2 DEF UpRecords
  <2>3. upTaken = <<>> /\ upTaken' = <<>>
    BY <1>1 DEF UploadBegins, LoopFollows
  <2> QED
    BY <2>1, <2>2, <2>3 DEF PiecesFollow, LoopFollows, ReportFollows
<1>2. CASE Preflight
  <2>1. upTaken = <<>> /\ upTaken' = <<>> /\ up.pc = "preflight" /\ up.alloc >= 1
    BY <1>2, GoesOn, FailsAtEnd DEF Preflight, LoopFollows, UpGoes, UpFails
  <2>2. CASE UpGoes("preflight", "perform")
    BY <2>1, <2>2, GoesOn DEF PiecesFollow, LoopFollows, ReportFollows
  <2>3. CASE UpFails("preflight", "preflight")
    BY <2>1, <2>3, FailsAtEnd DEF PiecesFollow, LoopFollows, ReportFollows
  <2> QED
    BY <1>2, <2>2, <2>3 DEF Preflight
<1>3. CASE Dispatch
  <2>1. /\ up' \in UpRecords /\ up'.pc \in {"sxcu", "open", "single"} /\ up.pc = "perform" /\ up'.alloc = up.alloc
        /\ up'.result = up.result /\ up'.told = up.told
    BY <1>3 DEF Dispatch, UpRecords, UpPcs
  <2>2. upTaken = <<>> /\ upTaken' = <<>>
    BY <1>3 DEF Dispatch, LoopFollows
  <2> QED
    BY <2>1, <2>2 DEF PiecesFollow, LoopFollows, ReportFollows
<1>4. ASSUME NEW answer \in Answers, SingleRequest(answer)
      PROVE  UpInv'
  <2>1. up.pc = "single" /\ upTaken = <<>> /\ TakenUpTo = 0 /\ up.size \in Nat /\ up.alloc >= 1
    BY <1>4 DEF SingleRequest, UpGoes, UpFails, LoopFollows, TakenUpTo, UpRecords
  <2>2. \/ UpGoes("single", "uploaded") /\ answer = "url"
        \/ UpGoes("single", "open") /\ answer = "tooLarge"
        \/ UpFails("single", "http") \/ UpFails("single", "transport")
    BY <1>4 DEF SingleRequest
  <2>3. up' \in UpRecords /\ up'.size = up.size
    BY <2>2, GoesOn, FailsAtEnd
  <2>4. CASE upTaken' = Took(0, up.size, TRUE)
    <3>1. upTaken' \in Seq(Pieces) /\ PiecesFollow' /\ upTaken' # <<>> /\ upTaken'[Len(upTaken')].last
      <4>1. upTaken' = Took(TakenUpTo, up.size, TRUE) /\ TakenUpTo + up.size = up.size
        BY <2>1, <2>4
      <4> QED
        BY <2>1, <2>3, <4>1, TakesPiece
    <3>2. ~(UpGoes("single", "open") /\ answer = "tooLarge")
      BY <1>4, <2>1, <3>1 DEF SingleRequest
    <3>3. CASE UpGoes("single", "uploaded")
      BY <2>3, <3>1, <3>3, GoesOn DEF LoopFollows, ReportFollows
    <3>4. ASSUME NEW why \in {"http", "transport"}, UpFails("single", why) PROVE UpInv'
      BY <2>3, <3>1, <3>4, FailsAtEnd DEF LoopFollows, ReportFollows
    <3> QED
      BY <2>2, <3>2, <3>3, <3>4
  <2>5. CASE UNCHANGED upTaken
    <3>1. upTaken' \in Seq(Pieces) /\ PiecesFollow' /\ upTaken' = <<>>
      BY <2>1, <2>3, <2>5, TakesNothing
    <3>2. ~(UpGoes("single", "uploaded") /\ answer = "url")
      <4>1. answer = "url" => upTaken' = Took(0, up.size, TRUE)
        BY <1>4 DEF SingleRequest
      <4>2. Took(0, up.size, TRUE) # <<>>
        BY <2>1 DEF Took
      <4> QED
        BY <3>1, <4>1, <4>2
    <3>3. CASE UpGoes("single", "open")
      BY <2>1, <2>3, <3>1, <3>3, GoesOn DEF LoopFollows, ReportFollows
    <3>4. ASSUME NEW why \in {"http", "transport"}, UpFails("single", why) PROVE UpInv'
      BY <2>3, <3>1, <3>4, FailsAtEnd DEF LoopFollows, ReportFollows
    <3> QED
      BY <2>2, <3>2, <3>3, <3>4
  <2> QED
    BY <1>4, <2>4, <2>5 DEF SingleRequest
<1>5. ASSUME NEW answer \in Answers, SxcuRequest(answer)
      PROVE  UpInv'
  <2>1. up.pc = "sxcu" /\ upTaken = <<>> /\ TakenUpTo = 0 /\ up.size \in Nat /\ up.alloc >= 1
    BY <1>5 DEF SxcuRequest, UpGoes, UpFails, LoopFollows, TakenUpTo, UpRecords
  <2>2. \/ UpGoes("sxcu", "uploaded") /\ upTaken' = Took(0, up.size, TRUE)
        \/ (UpFails("sxcu", "http") \/ UpFails("sxcu", "transport")) /\ upTaken' = Took(0, up.size, TRUE)
        \/ (UpFails("sxcu", "http") \/ UpFails("sxcu", "transport")) /\ UNCHANGED upTaken
    BY <1>5 DEF SxcuRequest
  <2>3. up' \in UpRecords /\ up'.size = up.size
    BY <2>2, GoesOn, FailsAtEnd
  <2>a. ASSUME upTaken' = Took(0, up.size, TRUE)
        PROVE  upTaken' \in Seq(Pieces) /\ PiecesFollow' /\ upTaken' # <<>> /\ upTaken'[Len(upTaken')].last
    <3>1. upTaken' = Took(TakenUpTo, up.size, TRUE) /\ TakenUpTo + up.size = up.size
      BY <2>1, <2>a
    <3> QED
      BY <2>1, <2>3, <3>1, TakesPiece
  <2>4. upTaken' \in Seq(Pieces) /\ PiecesFollow'
    BY <2>2, <2>3, <2>a, TakesNothing
  <2>5. CASE UpGoes("sxcu", "uploaded") /\ upTaken' = Took(0, up.size, TRUE)
    <3>1. up'.pc = "uploaded" /\ up'.told = "none" /\ up'.result = "none"
      BY <2>1, <2>5, GoesOn DEF ReportFollows
    <3> QED
      BY <2>3, <2>4, <2>5, <2>a, <3>1 DEF LoopFollows, ReportFollows
  <2>6. ASSUME NEW why \in {"http", "transport"}, UpFails("sxcu", why) PROVE UpInv'
    BY <2>3, <2>4, <2>6, FailsAtEnd DEF LoopFollows, ReportFollows
  <2> QED
    BY <2>2, <2>5, <2>6
<1>6. CASE PartialOpens
  <2>1. upTaken = <<>> /\ upTaken' = <<>> /\ up.pc = "open" /\ up.alloc >= 1 /\ TakenUpTo = 0 /\ up.size \in Nat
    BY <1>6 DEF PartialOpens, UpFails, LoopFollows, TakenUpTo, UpRecords
  <2>2. CASE up.size > 0 /\ up' = [up EXCEPT !.pc = "read", !.chunk = up.alloc, !.start = 0, !.block = 0, !.id = FALSE]
    <3>1. /\ up' \in UpRecords /\ up'.pc = "read" /\ up'.chunk = up.alloc /\ up'.start = 0 /\ up'.block = 0
          /\ up'.alloc = up.alloc /\ up'.size = up.size /\ up'.result = up.result /\ up'.told = up.told
      BY <2>2 DEF UpRecords, UpPcs
    <3> QED
      BY <2>1, <2>2, <3>1, TakesNothing DEF LoopFollows, ReportFollows
  <2>3. CASE UpFails("open", "http")
    BY <2>1, <2>3, FailsAtEnd DEF PiecesFollow, LoopFollows, ReportFollows
  <2> QED
    BY <1>6, <2>2, <2>3 DEF PartialOpens
<1>7. CASE PartialReads
  <2>1. /\ up.pc = "read" /\ up.start = up.block /\ UNCHANGED upTaken /\ TakenUpTo = up.start
        /\ up.size \in Nat /\ up.size > 0 /\ up.start \in Nat /\ up.alloc \in Nat /\ up.alloc >= 1
        /\ up.chunk >= 1 /\ up.block <= up.size
    BY <1>7 DEF PartialReads, LoopFollows, UpRecords
  <2>2. CASE up.start < up.size
    <3> DEFINE block == Min({up.start + up.alloc, up.size})
    <3>1. block \in Nat /\ up.start < block /\ block <= up.size
      BY <2>1, <2>2, MinOfTwo
    <3>2. up' = [up EXCEPT !.pc = "send", !.block = block]
      BY <1>7, <2>2 DEF PartialReads
    <3> HIDE DEF block
    <3>3. /\ up' \in UpRecords /\ up'.pc = "send" /\ up'.block = block /\ up'.start = up.start
          /\ up'.chunk = up.chunk /\ up'.alloc = up.alloc /\ up'.size = up.size
          /\ up'.result = up.result /\ up'.told = up.told
      BY <3>1, <3>2 DEF UpRecords, UpPcs
    <3> QED
      BY <2>1, <3>1, <3>3, TakesNothing DEF LoopFollows, ReportFollows
  <2>3. CASE ~(up.start < up.size)
    <3>1. UpGoes("read", "uploaded")
      BY <1>7, <2>1, <2>3 DEF PartialReads, UpGoes
    <3>2. up' \in UpRecords /\ up'.pc = "uploaded" /\ up'.size = up.size /\ up'.told = up.told /\ up'.result = up.result
      BY <3>1, GoesOn
    <3>3. TakenUpTo = up.size /\ upTaken # <<>>
      BY <2>1, <2>3 DEF TakenUpTo
    <3>4. Len(upTaken) \in 1 .. Len(upTaken)
      BY <3>3
    <3>5. upTaken[Len(upTaken)].last
      BY <3>3, <3>4 DEF TakenUpTo, PiecesFollow
    <3> QED
      BY <2>1, <3>2, <3>3, <3>5, TakesNothing DEF LoopFollows, ReportFollows
  <2> QED
    BY <2>2, <2>3
<1>8. CASE PartialRetries
  <2>1. up.pc = "send" /\ up.chunk \in Nat /\ up.chunk > 1 /\ UNCHANGED upTaken
    BY <1>8 DEF PartialRetries, UpRecords
  <2>2. up.chunk \div 2 \in Nat /\ up.chunk \div 2 >= 1
    BY <2>1
  <2>3. /\ up' \in UpRecords /\ up'.pc = "send" /\ up'.chunk = up.chunk \div 2 /\ up'.alloc = up.alloc
        /\ up'.start = up.start /\ up'.block = up.block /\ up'.size = up.size
        /\ up'.result = up.result /\ up'.told = up.told
    BY <1>8, <2>1, <2>2 DEF PartialRetries, UpRecords
  <2> QED
    BY <2>1, <2>2, <2>3, TakesNothing DEF LoopFollows, ReportFollows
<1>9. ASSUME NEW answer \in Answers, PartialTaken(answer)
      PROVE  UpInv'
  <2>1. /\ up.pc = "send" /\ TakenUpTo = up.start /\ up.start < up.block /\ up.block <= up.size /\ up.chunk >= 1
        /\ up.start \in Nat /\ up.block \in Nat /\ up.size \in Nat /\ up.chunk \in Nat /\ up.alloc >= 1
    BY <1>9 DEF PartialTaken, LoopFollows, UpRecords
  <2>2. SendSize \in Nat /\ SendSize >= 1 /\ SentUpTo = up.start + SendSize /\ SentUpTo <= up.block
    BY <2>1, MinOfTwo DEF SendSize, SentUpTo
  <2>3. upTaken' = Took(TakenUpTo, SendSize, IsLast) /\ IsLast \in BOOLEAN
        /\ (IsLast <=> TakenUpTo + SendSize = up.size)
    BY <1>9, <2>1, <2>2 DEF PartialTaken, IsLast, SentUpTo
  <2>4. CASE answer = "url"
    <3> DEFINE pc == IF SentUpTo = up.block THEN "read" ELSE "send"
    <3>1. up' = [up EXCEPT !.start = SentUpTo, !.id = TRUE, !.pc = pc]
      BY <1>9, <2>4 DEF PartialTaken, UpFails
    <3>2. pc \in UpPcs /\ (pc = "read" \/ (pc = "send" /\ SentUpTo # up.block)) /\ SentUpTo \in Nat
      BY <2>1, <2>2 DEF UpPcs
    <3> HIDE DEF pc
    <3>3. /\ up' \in UpRecords /\ up'.pc = pc /\ up'.start = SentUpTo /\ up'.block = up.block
          /\ up'.chunk = up.chunk /\ up'.alloc = up.alloc /\ up'.size = up.size
          /\ up'.result = up.result /\ up'.told = up.told
      BY <3>1, <3>2 DEF UpRecords, UpPcs
    <3>4. upTaken' \in Seq(Pieces) /\ PiecesFollow' /\ TakenUpTo' = SentUpTo
      BY <2>1, <2>2, <2>3, <3>3, TakesPiece
    <3>5. LoopFollows'
      <4>1. up'.pc \in {"read", "send"} /\ (up'.pc = "send" => up'.start < up'.block)
        BY <2>1, <2>2, <3>2, <3>3
      <4>2. up'.size > 0 /\ up'.start <= up'.block /\ up'.block <= up'.size
        BY <2>1, <2>2, <3>3
      <4>3. TakenUpTo' = up'.start
        BY <3>3, <3>4
      <4>4. up'.chunk >= 1 /\ up'.alloc >= 1
        BY <2>1, <3>3
      <4> QED
        BY <4>1, <4>2, <4>3, <4>4 DEF LoopFollows
    <3>6. ReportFollows'
      BY <2>1, <3>2, <3>3 DEF ReportFollows
    <3> QED
      BY <3>3, <3>4, <3>5, <3>6
  <2>5. ASSUME NEW why \in {"http", "transport"}, UpFails("send", why) PROVE UpInv'
    <3>1. up' \in UpRecords /\ up'.size = up.size /\ up'.pc = "end" /\ up'.result = "failed" /\ up'.told = why
      BY <2>5, FailsAtEnd
    <3>2. upTaken' \in Seq(Pieces) /\ PiecesFollow'
      BY <2>1, <2>2, <2>3, <3>1, TakesPiece
    <3> QED
      BY <3>1, <3>2 DEF LoopFollows, ReportFollows
  <2> QED
    BY <1>9, <2>4, <2>5 DEF PartialTaken
<1>10. ASSUME NEW answer \in Answers, PartialRefused(answer)
       PROVE  UpInv'
  <2>1. PICK why \in {"http", "transport"} : UpFails("send", why)
    BY <1>10 DEF PartialRefused
  <2>2. up' \in UpRecords /\ up'.size = up.size /\ up'.pc = "end" /\ up'.result = "failed" /\ up'.told = why
    BY <2>1, FailsAtEnd
  <2> QED
    BY <1>10, <2>2, TakesNothing DEF PartialRefused, LoopFollows, ReportFollows
<1>11. CASE UploadReports
  <2>1. /\ up' \in UpRecords /\ up'.size = up.size /\ up'.pc = "end" /\ up'.result = "url" /\ up'.told = "none"
        /\ up.pc = "uploaded" /\ UNCHANGED upTaken
    BY <1>11, IdleIsTyped DEF UploadReports, UpRecords, UpPcs
  <2> QED
    BY <2>1, TakesNothing DEF LoopFollows, ReportFollows
<1>12. CASE UNCHANGED upVars
  BY <1>12 DEF upVars, PiecesFollow, LoopFollows, ReportFollows, TakenUpTo
<1> HIDE DEF UpInv
<1> QED
  BY <1>1, <1>2, <1>3, <1>4, <1>5, <1>6, <1>7, <1>8, <1>9, <1>10, <1>11, <1>12 DEF UploadNext

\* A url is reported only for a file the server has whole, each byte once and in
\* order (zipline.c:117-204), for every size, every chunk size and every order
\* of answers.
THEOREM ReportedIsWhole == CommandsSpec => []UploadedIsWhole
<1>1. CommandsInit => UpInv
  BY UpInitInv DEF CommandsInit
<1>2. [CommandsNext]_commandsVars => [UploadNext]_upVars
  BY DEF CommandsNext, Only, commandsVars
<1>3. UpInv => UploadedIsWhole
  BY DEF UpInv, PiecesFollow, LoopFollows, ReportFollows, UploadedIsWhole, Last
<1> QED
  BY <1>1, <1>2, <1>3, UpNextInv, PTL DEF CommandsSpec

-----------------------------------------------------------------------------
(* Keybinds: what fires in a keymap, for any tables of defaults that fire   *)
(* their own actions, and any values.                                      *)

LEMMA MinIs ==
  ASSUME NEW S \in SUBSET Nat, S # {}
  PROVE  Min(S) \in S /\ \A y \in S : Min(S) <= y
<1> DEFINE R == OpToRel(<, Nat)
<1>1. IsWellFoundedOn(R, Nat)
  BY NatLessThanWellFounded
<1>2. PICK x \in S : \A y \in S : ~(<<y, x>> \in R)
  <2> HIDE DEF R
  <2> QED
    BY <1>1, WFMin
<1>3. \A y \in S : x <= y
  <2> SUFFICES ASSUME NEW y \in S, ~(x <= y) PROVE FALSE
    OBVIOUS
  <2>1. y < x
    OBVIOUS
  <2>2. <<y, x>> \in R
    BY <2>1 DEF OpToRel
  <2> QED
    BY <1>2, <2>2
<1> QED
  BY <1>2, <1>3 DEF Min

\* No more than MaxBinds bindings of a value are read, and no other ones.
LEMMA ParsedIsThere ==
  ASSUME NEW a \in KeyActs
  PROVE  ToSet(ParseList(Default[a])) \subseteq ToSet(Default[a])
<1>1. Default[a] \in Seq([button : BOOLEAN, sym : STRING, mods : SUBSET {"Ctrl", "Shift"}])
  BY KeysAssumption DEF KeyActs
<1>2. PICK n : n = Min({MaxBinds, Len(Default[a])})
  OBVIOUS
<1>3. n \in Nat /\ n <= Len(Default[a])
  <2>1. {MaxBinds, Len(Default[a])} \in SUBSET Nat
    BY <1>1, KeysAssumption
  <2> QED
    BY <1>2, <2>1, MinIs
<1>4. DOMAIN SubSeq(Default[a], 1, n) = 1 .. n /\ \A i \in 1 .. n : SubSeq(Default[a], 1, n)[i] = Default[a][i]
  BY <1>1, <1>3
<1> QED
  BY <1>1, <1>2, <1>3, <1>4 DEF ParseList, ToSet

\* An action that is bound to a press, or one before it, fires.
LEMMA FirstIs ==
  ASSUME NEW km, NEW press, NEW a \in KeyActs, a # Loupe, HasKey(km[a], press),
         ~HasSym(km[Loupe], press), NEW w, w = FiresKey(km, press)
  PROVE  LET hits == {i \in DOMAIN KeyActions : KeyActions[i] # Loupe /\ HasKey(km[KeyActions[i]], press)} IN
         /\ hits \in SUBSET Nat /\ Min(hits) \in hits /\ \A y \in hits : Min(hits) <= y
         /\ w = KeyActions[Min(hits)]
         /\ w \in KeyActs /\ w # Loupe /\ HasKey(km[w], press)
<1> DEFINE hits == {i \in DOMAIN KeyActions : KeyActions[i] # Loupe /\ HasKey(km[KeyActions[i]], press)}
<1>1. hits \in SUBSET Nat
  BY KeysAssumption
<1>2. w = IF hits = {} THEN NoAction ELSE KeyActions[Min(hits)]
  BY DEF FiresKey, FirstOf
<1>3. hits # {}
  BY DEF KeyActs, ToSet
<1>4. Min(hits) \in hits /\ \A y \in hits : Min(hits) <= y
  <2> HIDE DEF hits
  <2> QED
    BY <1>1, <1>3, MinIs
<1>5. w \in KeyActs /\ w # Loupe /\ HasKey(km[w], press)
  BY <1>2, <1>3, <1>4 DEF KeyActs, ToSet
<1> QED
  BY <1>1, <1>2, <1>3, <1>4, <1>5

\* What fires in a keymap dm fires in another one, if its own binding is still
\* there and the action that fires instead has none in dm.
LEMMA FirstOfFewer ==
  ASSUME NEW km, NEW dm, NEW press, NEW a \in KeyActs, a # Loupe,
         ~HasSym(dm[Loupe], press), FiresKey(dm, press) = a,
         ~HasSym(km[Loupe], press), HasKey(km[a], press), HasKey(dm[a], press),
         NEW w, w = FiresKey(km, press)
  PROVE  HasKey(km[w], press) /\ (HasKey(dm[w], press) => w = a)
<1> DEFINE hits  == {i \in DOMAIN KeyActions : KeyActions[i] # Loupe /\ HasKey(km[KeyActions[i]], press)}
           dhits == {i \in DOMAIN KeyActions : KeyActions[i] # Loupe /\ HasKey(dm[KeyActions[i]], press)}
<1>1. /\ hits \in SUBSET Nat /\ Min(hits) \in hits /\ \A y \in hits : Min(hits) <= y
      /\ w = KeyActions[Min(hits)]
      /\ w # Loupe /\ HasKey(km[w], press)
  BY FirstIs
<1>2. /\ dhits \in SUBSET Nat /\ Min(dhits) \in dhits /\ \A y \in dhits : Min(dhits) <= y
      /\ a = KeyActions[Min(dhits)]
  BY FirstIs
<1>3. ASSUME HasKey(dm[w], press) PROVE w = a
  <2>1. Min(hits) \in dhits
    BY <1>1, <1>3
  <2>2. Min(dhits) \in hits
    BY <1>2
  <2>3. Min(hits) = Min(dhits)
    <3> HIDE DEF dhits, hits
    <3> QED
      BY <1>1, <1>2, <2>1, <2>2
  <2> QED
    BY <1>1, <1>2, <2>3
<1> QED
  BY <1>1, <1>3

LEMMA KeymapIs ==
  ASSUME NEW vals, NEW a \in KeyActs
  PROVE  /\ ~Explicit(vals, a) => Keymap(vals)[a] \subseteq ToSet(Default[a])
         /\ a \in Pushing(vals) =>
              \A w \in KeyActs : ~Explicit(vals, w) => Keymap(vals)[w] \cap Keymap(vals)[a] = {}
<1> DEFINE taken == UNION {ToSet(LoadedKeys(vals, o)) : o \in Pushing(vals)}
<1>1. \A o \in KeyActs : Keymap(vals)[o] =
        ToSet(LoadedKeys(vals, o)) \ IF Explicit(vals, o) THEN {} ELSE taken
  BY DEF Keymap
<1>2. ~Explicit(vals, a) => Keymap(vals)[a] \subseteq ToSet(Default[a])
  BY <1>1, ParsedIsThere DEF LoadedKeys
<1>3. a \in Pushing(vals) => Keymap(vals)[a] \subseteq taken
  BY <1>1
<1>4. \A w \in KeyActs : ~Explicit(vals, w) => Keymap(vals)[w] \cap taken = {}
  BY <1>1
<1> HIDE DEF taken
<1> QED
  BY <1>2, <1>3, <1>4

LEMMA KeysFire == BindingsAreHonoured
<1> DEFINE km == Keymap(values)
           dm == [x \in KeyActs |-> ToSet(Default[x])]
<1> SUFFICES ASSUME NEW a \in KeyActs, NEW b \in km[a], ~b.button,
                    NEW w, w = FiresKey(km, b), w # a, ~Explicit(values, w)
             PROVE  Explicit(values, a) /\ (a \in KeyTools \/ b \notin km[w])
  BY DEF BindingsAreHonoured, Fires
<1>1. \A x : ModsMatch(x, x)
  BY DEF ModsMatch
<1>2. HasKey(km[a], b) /\ HasSym(km[a], b)
  BY <1>1 DEF HasKey, HasSym
<1>3. w = IF HasSym(km[Loupe], b) THEN Loupe
          ELSE FirstOf(KeyActions, LAMBDA x : x # Loupe /\ HasKey(km[x], b))
  BY DEF FiresKey
<1>4. Loupe \in KeyActs
  BY KeysAssumption DEF KeyActs
<1>5. w \in KeyActs
  <2>1. CASE HasSym(km[Loupe], b)
    BY <1>3, <1>4, <2>1
  <2>2. CASE ~HasSym(km[Loupe], b)
    <3>1. a # Loupe
      BY <1>2, <2>2
    <3> HIDE DEF km
    <3> QED
      BY <1>2, <2>2, <3>1, FirstIs
  <2> QED
    BY <2>1, <2>2
<1>6. CASE Explicit(values, a)
  BY <1>5, <1>6, KeymapIs DEF Pushing
<1>7. CASE ~Explicit(values, a)
  <2>1. km[a] \subseteq dm[a] /\ km[w] \subseteq dm[w]
    BY <1>5, <1>7, KeymapIs
  <2>2. FiresKey(dm, b) = a
    BY <2>1, DefaultsAssumption DEF Fires
  <2> HIDE DEF km, dm
  <2>3. a # Loupe /\ ~HasSym(dm[Loupe], b)
    BY <1>2, <1>3, <2>2 DEF FiresKey
  <2>4. CASE HasSym(km[Loupe], b)
    BY <1>3, <2>1, <2>3, <2>4 DEF HasSym
  <2>5. CASE ~HasSym(km[Loupe], b)
    <3>1. HasKey(dm[a], b)
      BY <1>2, <2>1 DEF HasKey
    <3>2. HasKey(km[w], b) /\ (HasKey(dm[w], b) => w = a)
      BY <1>2, <2>2, <2>3, <2>5, <3>1, FirstOfFewer
    <3> QED
      BY <2>1, <3>2 DEF HasKey
  <2> QED
    BY <2>4, <2>5
<1> QED
  BY <1>6, <1>7

\* Whatever was captured, stored and reset, a binding of the keymap fires its
\* own action, unless another action was bound to that press explicitly, or the
\* binding is explicit and the other one a default that is not equal to it: for
\* all tables of actions and defaults in which each default fires its action.
THEOREM BindingsFire == CommandsSpec => []BindingsAreHonoured
BY KeysFire, PTL

-----------------------------------------------------------------------------
(* Shot: the file an invocation writes, by its path, until somebody meets  *)
(* it there.                                                               *)

\* Where a capture is written: a number that was free, or the temporary file.
Written == (1 .. Pictures - 1) \cup {Temp}
ShotPcs == {"idle", "name", "select", "write", "act", "release", "text", "card", "gone"}
ShotResults == {"none", "ok", "failed", "kept", "signalled", "killed"}
ShotRecs ==
  [pc : ShotPcs, action : {"upload", "copy", "save", "pin", "ocr"}, from : {NoPath, Temp}, save : BOOLEAN,
   path : Places \cup {NoPath}, temp : BOOLEAN, reg : {NoPath, Temp}, result : ShotResults]
Files == {Absent} \cup [by : Shooters \cup {"user"}, whole : BOOLEAN]

\* What is to be removed is the temporary file the command uses.
RegFollows(c) ==
  c.pc # "gone" => c.reg = (IF c.temp THEN Temp ELSE NoPath) /\ (c.temp => c.path = Temp)
\* Where the command is, and on which path.
PathFollows(c) ==
  /\ c.pc \in {"idle", "name"} => c.path = NoPath /\ ~c.temp /\ c.result = "none"
  /\ c.pc \in {"select", "write"} => c.path \in Written /\ (c.path = Temp => c.temp)
  /\ c.pc \in {"act", "release"} => c.path \in Written \cup {Mine}
  /\ c.pc \in {"act", "release"} /\ c.path = Temp /\ ~c.temp => c.from = Temp \/ c.result = "kept"
  /\ c.pc \in {"text", "card"} => c.action = "ocr" /\ ~c.temp
  /\ c.pc = "text" => c.path \in {Temp, Mine}
  /\ c.pc = "card" => c.path = Temp
  /\ c.action = "ocr" => c.path \notin Numbers
  /\ c.temp => c.action # "save"
ResultFollows(c) ==
  /\ c.result = "kept" => c.pc \in {"release", "gone"} /\ c.path = Temp /\ ~c.temp
  /\ c.pc = "release" => c.result \in {"ok", "failed", "kept"}
ShotRules(c) == c \in ShotRecs /\ RegFollows(c) /\ PathFollows(c) /\ ResultFollows(c)
PreviewOk(c, s) ==
  c.pc \in {"release", "gone"} /\ c.result = "ok" /\ s \in previews => c.action \in {"pin", "ocr"}

\* The file of an invocation that met nobody.
FileKept(c, s) ==
  /\ c.from # Temp
  /\ c.pc = "write" => disk[c.path].by = s
  /\ c.pc \in {"act", "release"} /\ c.path # Mine => disk[c.path] = Whole(s)
  /\ c.pc = "text" => disk[Temp].by # s
  /\ c.pc = "card" => disk[Temp] = Whole(s)
  /\ c.pc = "gone" =>
       /\ c.result = "ok" /\ c.path \in Numbers => disk[c.path] = Whole(s)
       /\ c.result = "kept" => disk[c.path] = Whole(s)
       /\ c.result \in {"ok", "failed", "signalled"} /\ c.path = Temp =>
            disk[Temp].by # s \/ (c.result = "signalled" /\ c.action = "ocr")

\* A file is at the path of who wrote it; the user wrote two.
WriterHasPath(s) ==
  \A p \in Places : disk[p].by = s => shot[s].path = p /\ shot[s].pc \notin {"idle", "name", "select"}
UserHasTwo == \A p \in Places : disk[p].by = "user" => p \in {0, Mine}
UserKeeps  == disk[Mine] = Whole("user") /\ disk[0] = Whole("user")

\* Nobody else uses the path or the file of an invocation that met nobody.
Apart(s, t) ==
  s \notin clash /\ Active(t) /\ shot[t].path \in Written =>
    /\ Active(s) => shot[s].path # shot[t].path
    /\ disk[shot[t].path].by # s

ShotInv ==
  /\ shot \in [Shooters -> ShotRecs] /\ disk \in [Places -> Files] /\ clash \subseteq Shooters
  /\ UserHasTwo /\ UserKeeps
  /\ \A s \in Shooters : /\ ShotRules(shot[s]) /\ PreviewOk(shot[s], s) /\ WriterHasPath(s)
                         /\ s \notin clash => FileKept(shot[s], s)
  /\ \A s, t \in Shooters : s # t => Apart(s, t)

Live(c) == c.pc \notin {"idle", "gone"}

LEMMA PlacesAre ==
  /\ Pictures \in Nat /\ Pictures > 0
  /\ Written \subseteq Places /\ Temp \in Written /\ Mine \notin Written /\ 0 \notin Written /\ Mine \in Places
  /\ 0 \in Numbers /\ Numbers \subseteq Places /\ Temp \notin Numbers /\ Mine \notin Numbers
  /\ NoPath \notin Places /\ Mine # Temp /\ Numbers \subseteq Written \cup {0} /\ Written \subseteq Numbers \cup {Temp}
<1>1. Pictures \in Nat /\ Pictures > 0
  <2>1. Cardinality(Shooters) \in Nat
    BY ShotAssumption, FS_CardinalityType
  <2> QED
    BY <2>1, ShotAssumption
<1> QED
  BY <1>1 DEF Written, Places, Temp, Mine, Numbers, NoPath

LEMMA WritersAre ==
  /\ "user" \notin Shooters /\ "nobody" \notin Shooters /\ Absent.by = "nobody" /\ Absent \in Files
  /\ \A s : Whole(s).by = s
BY ShotAssumption DEF Absent, Whole, Files

\* One invocation goes on with record r, and only the file at q changes.
ShotGoes(s, r, q) ==
  /\ shot' = [shot EXCEPT ![s] = r] /\ ShotRules(r)
  /\ \/ disk' = disk
     \/ /\ q \in Written /\ \E x \in Files : /\ disk' = [disk EXCEPT ![q] = x]
                                             /\ x = Absent \/ (x.by = s /\ q = r.path)
        /\ \A t \in Shooters \ {s} : t \notin clash' => disk[q].by # t
  /\ clash \subseteq clash' /\ clash' \subseteq Shooters
  /\ \A t \in Shooters \ {s} : t \in previews' <=> t \in previews
  /\ \A p \in Places : disk'[p].by = s => r.path = p /\ r.pc \notin {"idle", "name", "select"}

LEMMA DiskGoes ==
  ASSUME ShotInv, NEW s \in Shooters, NEW r, NEW q, ShotGoes(s, r, q)
  PROVE  /\ disk' \in [Places -> Files]
         /\ \A p \in Places : disk'[p] = disk[p] \/ disk'[p].by \in {s, "nobody"}
         /\ \A t \in Shooters \ {s} : t \notin clash' => \A p \in Places :
              /\ disk[p].by = t => disk'[p] = disk[p]
              /\ disk'[p].by = t => disk[p].by = t
         /\ UserHasTwo' /\ UserKeeps'
<1>1. disk \in [Places -> Files] /\ UserHasTwo /\ UserKeeps
  BY DEF ShotInv
<1>2. CASE disk' = disk
  BY <1>1, <1>2 DEF UserHasTwo, UserKeeps
<1>3. ASSUME q \in Written, NEW x \in Files, disk' = [disk EXCEPT ![q] = x], x = Absent \/ x.by = s,
             \A t \in Shooters \ {s} : t \notin clash' => disk[q].by # t
      PROVE  /\ disk' \in [Places -> Files]
             /\ \A p \in Places : disk'[p] = disk[p] \/ disk'[p].by \in {s, "nobody"}
             /\ \A t \in Shooters \ {s} : t \notin clash' => \A p \in Places :
                  /\ disk[p].by = t => disk'[p] = disk[p]
                  /\ disk'[p].by = t => disk[p].by = t
             /\ UserHasTwo' /\ UserKeeps'
  <2>1. q \in Places /\ q # Mine /\ q # 0 /\ Mine \in Places /\ 0 \in Places
    BY <1>3, PlacesAre
  <2>2. x.by \in {s, "nobody"} /\ x.by # "user"
    BY <1>3, WritersAre
  <2>3. disk' \in [Places -> Files] /\ disk'[q] = x /\ \A p \in Places \ {q} : disk'[p] = disk[p]
    BY <1>1, <1>3, <2>1
  <2>4. UserHasTwo' /\ UserKeeps'
    BY <1>1, <2>1, <2>2, <2>3 DEF UserHasTwo, UserKeeps
  <2>5. \A p \in Places : disk'[p] = disk[p] \/ disk'[p].by \in {s, "nobody"}
    BY <2>2, <2>3
  <2>6. ASSUME NEW t \in Shooters \ {s}, t \notin clash', NEW p \in Places
        PROVE  /\ disk[p].by = t => disk'[p] = disk[p]
               /\ disk'[p].by = t => disk[p].by = t
    BY <1>3, <2>2, <2>3, <2>6, WritersAre
  <2> QED
    BY <2>3, <2>4, <2>5, <2>6
<1> QED
  BY <1>2, <1>3 DEF ShotGoes

\* The files of the others are kept.
LEMMA OthersKept ==
  ASSUME ShotInv, NEW s \in Shooters, NEW r, NEW q, ShotGoes(s, r, q),
         NEW t \in Shooters \ {s}
  PROVE  /\ PreviewOk(shot[t], t)' /\ WriterHasPath(t)'
         /\ t \notin clash' => FileKept(shot[t], t)'
<1>1. shot'[t] = shot[t] /\ ShotRules(shot[t]) /\ shot[t] \in ShotRecs /\ t # s
  BY DEF ShotInv, ShotGoes, ShotRules
<1>2. PreviewOk(shot[t], t)'
  BY <1>1 DEF ShotInv, ShotGoes, PreviewOk
<1>3. WriterHasPath(t)'
  <2>1. \A p \in Places : disk'[p].by = t => disk[p].by = t
    BY <1>1, DiskGoes, WritersAre
  <2> QED
    BY <1>1, <2>1 DEF ShotInv, WriterHasPath
<1>4. ASSUME t \notin clash' PROVE FileKept(shot[t], t)'
  <2>1. FileKept(shot[t], t)
    BY <1>4 DEF ShotInv, ShotGoes
  <2>2. \A p \in Places : /\ disk[p].by = t => disk'[p] = disk[p]
                          /\ disk'[p].by = t => disk[p].by = t
    BY <1>4, DiskGoes
  <2>3. PICK c \in ShotRecs : c = shot[t]
    BY <1>1
  <2>4. ShotRules(c) /\ FileKept(c, t)
    BY <1>1, <2>1, <2>3
  <2>5. \A p \in Places : disk[p] = Whole(t) => disk'[p] = Whole(t)
    BY <2>2, WritersAre
  <2>6. c.pc \in {"write", "act", "release"} => c.path \in Places
    BY <2>4, PlacesAre DEF ShotRules, PathFollows
  <2>7. Temp \in Places
    BY PlacesAre
  <2>8. c.from # Temp /\ (c.pc = "write" => disk'[c.path].by = t)
    BY <2>2, <2>4, <2>6 DEF FileKept
  <2>9. /\ c.pc \in {"act", "release"} /\ c.path # Mine => disk'[c.path] = Whole(t)
        /\ c.pc = "text" => disk'[Temp].by # t
        /\ c.pc = "card" => disk'[Temp] = Whole(t)
    BY <2>2, <2>4, <2>5, <2>6, <2>7 DEF FileKept
  <2>10. c.pc = "gone" /\ c.result = "ok" /\ c.path \in Numbers => disk'[c.path] = Whole(t)
    BY <2>4, <2>5, PlacesAre DEF FileKept
  <2>11. c.pc = "gone" /\ c.result = "kept" => disk'[c.path] = Whole(t)
    BY <2>4, <2>5, <2>7 DEF FileKept, ShotRules, ResultFollows
  <2>12. c.pc = "gone" /\ c.result \in {"ok", "failed", "signalled"} /\ c.path = Temp =>
           disk'[Temp].by # t \/ (c.result = "signalled" /\ c.action = "ocr")
    BY <2>2, <2>4, <2>7 DEF FileKept
  <2> QED
    BY <1>1, <2>3, <2>8, <2>9, <2>10, <2>11, <2>12 DEF FileKept
<1> QED
  BY <1>2, <1>3, <1>4

\* Nobody meets because of the step, but in clash'.
Avoids(s, r) ==
  /\ \A t \in Shooters \ {s} : t \notin clash' /\ Live(r) /\ r.path \in Written =>
       (Active(t) => shot[t].path # r.path) /\ disk'[r.path].by # t
  /\ s \notin clash' => \A u \in Shooters \ {s} : Active(u) /\ shot[u].path \in Written =>
       (Live(r) => shot[u].path # r.path) /\ disk'[shot[u].path].by # s

LEMMA ApartKept ==
  ASSUME ShotInv, NEW s \in Shooters, NEW r, NEW q, ShotGoes(s, r, q), Avoids(s, r),
         NEW t \in Shooters, NEW u \in Shooters, t # u
  PROVE  Apart(t, u)'
<1>1. shot'[s] = r /\ \A v \in Shooters \ {s} : shot'[v] = shot[v]
  BY DEF ShotInv, ShotGoes
<1>2. clash \subseteq clash' /\ Apart(t, u)
  BY DEF ShotInv, ShotGoes
<1>3. \A v : (Active(v)' <=> Live(shot'[v])) /\ (Active(v) <=> Live(shot[v]))
  BY DEF Active, Live
<1>4. CASE t # s /\ u # s
  <2>1. shot'[t] = shot[t] /\ shot'[u] = shot[u] /\ (Active(t)' <=> Active(t)) /\ (Active(u)' <=> Active(u))
    BY <1>1, <1>3, <1>4
  <2>2. t \notin clash' => \A p \in Places : disk'[p].by = t => disk[p].by = t
    BY <1>4, DiskGoes
  <2> QED
    BY <1>2, <2>1, <2>2, PlacesAre DEF Apart
<1>5. CASE t = s
  BY <1>1, <1>3, <1>5 DEF Apart, Avoids
<1>6. CASE u = s
  BY <1>1, <1>3, <1>6 DEF Apart, Avoids
<1> QED
  BY <1>4, <1>5, <1>6

LEMMA ShotGoesOn ==
  ASSUME ShotInv, NEW s \in Shooters, NEW r, NEW q, ShotGoes(s, r, q), Avoids(s, r),
         PreviewOk(r, s)', s \notin clash' => FileKept(r, s)'
  PROVE  ShotInv'
<1>1. shot'[s] = r /\ shot' \in [Shooters -> ShotRecs] /\ \A v \in Shooters \ {s} : shot'[v] = shot[v]
  BY DEF ShotInv, ShotGoes, ShotRules
<1>2. disk' \in [Places -> Files] /\ clash' \subseteq Shooters /\ UserHasTwo' /\ UserKeeps'
  BY DiskGoes DEF ShotGoes
<1>3. \A t \in Shooters : ShotRules(shot[t])'
  <2>1. \A t \in Shooters : ShotRules(shot'[t])
    BY <1>1 DEF ShotInv, ShotGoes
  <2> QED
    BY <2>1 DEF ShotRules, RegFollows, PathFollows, ResultFollows
<1>4. PreviewOk(shot[s], s)' /\ WriterHasPath(s)' /\ (s \notin clash' => FileKept(shot[s], s)')
  <2>1. PreviewOk(shot[s], s)'
    BY <1>1 DEF PreviewOk
  <2>2. WriterHasPath(s)'
    BY <1>1 DEF WriterHasPath, ShotGoes
  <2>3. s \notin clash' => FileKept(shot[s], s)'
    BY <1>1 DEF FileKept
  <2> QED
    BY <2>1, <2>2, <2>3
<1>5. \A t \in Shooters : PreviewOk(shot[t], t)' /\ WriterHasPath(t)' /\ (t \notin clash' => FileKept(shot[t], t)')
  BY <1>4, OthersKept
<1>6. \A t, u \in Shooters : t # u => Apart(t, u)'
  BY ApartKept
<1> QED
  BY <1>1, <1>2, <1>3, <1>5, <1>6 DEF ShotInv

\* A step of an invocation on its own path.
LEMMA QuietStep ==
  ASSUME ShotInv, NEW s \in Shooters, Active(s), NEW r, ShotRules(r), r.path = shot[s].path,
         r.pc \notin {"idle", "name", "select"}, shot' = [shot EXCEPT ![s] = r], clash' = clash,
         disk' = disk \/ (r.path \in Written /\ \E x \in Files :
                            /\ disk' = [disk EXCEPT ![r.path] = x]
                            /\ x = Absent \/ x.by = s),
         \A t \in Shooters \ {s} : t \in previews' <=> t \in previews,
         PreviewOk(r, s)', s \notin clash => FileKept(r, s)'
  PROVE  ShotInv'
<1>1. /\ disk \in [Places -> Files] /\ clash \subseteq Shooters /\ WriterHasPath(s)
      /\ \A t \in Shooters \ {s} : Apart(s, t) /\ Apart(t, s)
  BY DEF ShotInv
<1>2. ASSUME r.path \in Written, NEW t \in Shooters \ {s}, t \notin clash
      PROVE  disk[r.path].by # t /\ (Active(t) => shot[t].path # r.path)
  BY <1>1, <1>2 DEF Apart
<1>3. \A p \in Places : disk'[p].by = s => r.path = p
  BY <1>1, PlacesAre DEF WriterHasPath
<1>4. ShotGoes(s, r, r.path)
  BY <1>1, <1>2, <1>3 DEF ShotGoes
<1>5. Avoids(s, r)
  <2>1. ASSUME NEW t \in Shooters \ {s}, t \notin clash, r.path \in Written
        PROVE  (Active(t) => shot[t].path # r.path) /\ disk'[r.path].by # t
    BY <1>2, <1>4, <2>1, DiskGoes, PlacesAre
  <2>2. ASSUME s \notin clash, NEW u \in Shooters \ {s}, Active(u), shot[u].path \in Written
        PROVE  shot[u].path # r.path /\ disk'[shot[u].path].by # s
    <3>1. shot[u].path # r.path
      BY <1>1, <2>2 DEF Apart
    <3> QED
      BY <1>3, <2>2, <3>1, PlacesAre
  <2> QED
    BY <2>1, <2>2 DEF Avoids
<1> QED
  BY <1>4, <1>5, ShotGoesOn

\* How an invocation ends.
Ended(c, result) ==
  [pc |-> "gone", action |-> IF c.action \in {"pin", "ocr"} THEN c.action ELSE "copy", from |-> c.from,
   save |-> FALSE, path |-> c.path, temp |-> FALSE, reg |-> NoPath, result |-> result]

LEMMA EndStep ==
  ASSUME ShotInv, NEW s \in Shooters, Active(s), NEW result \in ShotResults \ {"none"}, Ends(s, result),
         NEW r, r = Ended(shot[s], result), result = "kept" => shot[s].path = Temp, clash' = clash,
         disk' = disk \/ (shot[s].path \in Written /\ disk' = Removed(shot[s].path)),
         previews' = previews \/ previews' = previews \ {s},
         PreviewOk(r, s)', s \notin clash => FileKept(r, s)'
  PROVE  ShotInv'
<1>1. PICK c \in ShotRecs : c = shot[s]
  BY DEF ShotInv, ShotRules
<1>2. ShotRules(c)
  BY <1>1 DEF ShotInv
<1>3. shot' = [shot EXCEPT ![s] = r]
  <2>1. PICK e1 : e1 = [NewShot EXCEPT !.pc = "gone"]
    OBVIOUS
  <2>2. PICK e2 : e2 = [e1 EXCEPT !.result = result]
    OBVIOUS
  <2>3. PICK e3 : e3 = [e2 EXCEPT !.path = c.path]
    OBVIOUS
  <2>4. PICK e4 : e4 = [e3 EXCEPT !.from = c.from]
    OBVIOUS
  <2>0. PICK a : a = IF c.action \in {"pin", "ocr"} THEN c.action ELSE "copy"
    OBVIOUS
  <2>5. PICK e5 : e5 = [e4 EXCEPT !.action = a]
    OBVIOUS
  <2>6. shot' = [shot EXCEPT ![s] = e5]
    BY <1>1, <2>0, <2>1, <2>2, <2>3, <2>4, <2>5 DEF Ends
  <2>7. e1 = [pc |-> "gone", action |-> "copy", from |-> NoPath, save |-> FALSE,
              path |-> NoPath, temp |-> FALSE, reg |-> NoPath, result |-> "none"]
    BY <2>1 DEF NewShot
  <2>8. e2 = [pc |-> "gone", action |-> "copy", from |-> NoPath, save |-> FALSE,
              path |-> NoPath, temp |-> FALSE, reg |-> NoPath, result |-> result]
    BY <2>2, <2>7
  <2>9. e3 = [pc |-> "gone", action |-> "copy", from |-> NoPath, save |-> FALSE,
              path |-> c.path, temp |-> FALSE, reg |-> NoPath, result |-> result]
    BY <2>3, <2>8
  <2>10. e4 = [pc |-> "gone", action |-> "copy", from |-> c.from, save |-> FALSE,
               path |-> c.path, temp |-> FALSE, reg |-> NoPath, result |-> result]
    BY <2>4, <2>9
  <2>11. e5 = r
    <3>1. e5 = [pc |-> "gone", action |-> a, from |-> c.from, save |-> FALSE,
                path |-> c.path, temp |-> FALSE, reg |-> NoPath, result |-> result]
      BY <2>5, <2>10
    <3>2. r = [pc |-> "gone", action |-> a, from |-> c.from, save |-> FALSE,
               path |-> c.path, temp |-> FALSE, reg |-> NoPath, result |-> result]
      BY <1>1, <2>0 DEF Ended
    <3> QED
      BY <3>1, <3>2
  <2> QED
    BY <2>6, <2>11
<1>4. r \in ShotRecs /\ r.path = c.path /\ r.pc = "gone"
  BY <1>1, PlacesAre DEF Ended, ShotRecs, ShotPcs
<1>5. ShotRules(r)
  BY <1>1, <1>2, <1>4 DEF Ended, ShotRules, RegFollows, PathFollows, ResultFollows
<1>6. disk' = disk \/ (r.path \in Written /\ \E x \in Files :
                          /\ disk' = [disk EXCEPT ![r.path] = x]
                          /\ x = Absent \/ x.by = s)
  BY <1>1, <1>4, WritersAre DEF Removed
<1>7. \A t \in Shooters \ {s} : t \in previews' <=> t \in previews
  OBVIOUS
<1> QED
  BY <1>1, <1>3, <1>4, <1>5, <1>6, <1>7, QuietStep

\* What is known of invocation s, whose record is c.
Known(c, s) ==
  /\ c \in ShotRecs /\ c = shot[s] /\ RegFollows(c) /\ PathFollows(c) /\ ResultFollows(c) /\ PreviewOk(c, s)
  /\ s \notin clash => FileKept(c, s)

LEMMA KnownIs ==
  ASSUME ShotInv, NEW s \in Shooters
  PROVE  \E c \in ShotRecs : Known(c, s)
BY DEF ShotInv, ShotRules, Known

\* What an invocation that ends leaves behind.
LEMMA EndsWell ==
  ASSUME ShotInv, NEW s \in Shooters, Active(s), NEW c, Known(c, s),
         NEW result \in ShotResults \ {"none"}, Ends(s, result), clash' = clash,
         disk' = disk \/ (c.path \in Written /\ disk' = Removed(c.path)),
         previews' = previews \/ previews' = previews \ {s},
         result = "kept" => c.path = Temp,
         result = "ok" /\ s \in previews' => c.action \in {"pin", "ocr"},
         s \notin clash =>
           /\ result = "ok" /\ c.path \in Numbers => disk'[c.path] = Whole(s)
           /\ result = "kept" => disk'[c.path] = Whole(s)
           /\ result \in {"ok", "failed", "signalled"} /\ c.path = Temp =>
                disk'[Temp].by # s \/ (result = "signalled" /\ c.action = "ocr")
  PROVE  ShotInv'
<1>1. PICK r : r = Ended(c, result)
  OBVIOUS
<1>2. /\ r.pc = "gone" /\ r.path = c.path /\ r.from = c.from /\ r.result = result
      /\ c.action \in {"pin", "ocr"} => r.action = c.action
  BY <1>1 DEF Ended
<1>3. PreviewOk(r, s)'
  BY <1>2 DEF PreviewOk
<1>4. s \notin clash => FileKept(r, s)'
  BY <1>2 DEF Known, FileKept
<1> QED
  BY <1>1, <1>3, <1>4, EndStep DEF Known

LEMMA RemovedIs ==
  ASSUME ShotInv, NEW p \in Written, disk' = Removed(p)
  PROVE  disk'[p].by = "nobody"
BY PlacesAre, WritersAre DEF ShotInv, Removed

LEMMA RefusedKeeps ==
  ASSUME ShotInv, NEW s \in Shooters, ShotRefused(s) PROVE ShotInv'
<1>1. PICK c \in ShotRecs : Known(c, s)
  BY KnownIs
<1>2. Active(s) /\ c.path = NoPath /\ NoPath # Temp /\ NoPath \notin Numbers
  BY <1>1, PlacesAre DEF ShotRefused, Active, At, Known, PathFollows
<1> QED
  BY <1>1, <1>2, EndsWell DEF ShotRefused, ShotResults

LEMMA DiscardsKeeps ==
  ASSUME ShotInv, NEW s \in Shooters, ShotDiscards(s) PROVE ShotInv'
<1>1. PICK c \in ShotRecs : Known(c, s)
  BY KnownIs
<1>2. Active(s) /\ c.path \in Written
  BY <1>1 DEF ShotDiscards, Active, Known, PathFollows
<1>3. disk' = IF c.path = c.from THEN disk ELSE Removed(c.path)
  BY <1>1 DEF ShotDiscards, Known
<1>4. s \notin clash /\ c.path = Temp => disk'[Temp].by # s
  BY <1>1, <1>2, <1>3, RemovedIs, WritersAre DEF Known, FileKept
<1> QED
  BY <1>1, <1>2, <1>3, <1>4, EndsWell DEF ShotDiscards, ShotResults

LEMMA OutputsKeeps ==
  ASSUME ShotInv, NEW s \in Shooters, ShotOutputs(s) PROVE ShotInv'
<1>1. PICK c \in ShotRecs : Known(c, s)
  BY KnownIs
<1>2. Active(s) /\ c.pc = "act" /\ c.action = "save"
  BY <1>1 DEF ShotOutputs, Acts, At, Active, Known
<1>3. s \notin clash => c.path # Temp /\ (c.path \in Numbers => disk[c.path] = Whole(s))
  BY <1>1, <1>2, PlacesAre DEF Known, FileKept, PathFollows, ResultFollows
<1> QED
  BY <1>1, <1>2, <1>3, EndsWell DEF ShotOutputs, ShotResults, Previewed

LEMMA ShownKeeps ==
  ASSUME ShotInv, NEW s \in Shooters, OcrShown(s) PROVE ShotInv'
<1>1. PICK c \in ShotRecs : Known(c, s)
  BY KnownIs
<1>2. Active(s) /\ c.path = Temp /\ c.action = "ocr" /\ Temp \in Written /\ Temp \notin Numbers
  BY <1>1, PlacesAre DEF OcrShown, At, Active, Known, PathFollows
<1>3. disk'[Temp].by # s
  BY <1>2, RemovedIs, WritersAre DEF OcrShown
<1> QED
  BY <1>1, <1>2, <1>3, EndsWell DEF OcrShown, ShotResults

LEMMA OcrEndsKeeps ==
  ASSUME ShotInv, NEW s \in Shooters, OcrEnds(s) PROVE ShotInv'
<1>1. PICK c \in ShotRecs : Known(c, s)
  BY KnownIs
<1>2. Active(s) /\ c.path \notin Numbers /\ c.action = "ocr" /\ (s \notin clash => disk[Temp].by # s)
  BY <1>1, PlacesAre DEF OcrEnds, At, Active, Known, PathFollows, FileKept
<1> QED
  BY <1>1, <1>2, EndsWell DEF OcrEnds, ShotResults

LEMMA ReleasesKeeps ==
  ASSUME ShotInv, NEW s \in Shooters, ShotReleases(s) PROVE ShotInv'
<1>1. PICK c \in ShotRecs : Known(c, s)
  BY KnownIs
<1>2. Active(s) /\ c.pc = "release" /\ c.result \in {"ok", "failed", "kept"} /\ Temp \in Written
  BY <1>1, PlacesAre DEF ShotReleases, At, Active, Known, ResultFollows
<1>3. /\ disk' = IF c.temp THEN Removed(c.path) ELSE disk
      /\ c.temp => c.path = Temp
      /\ c.result = "kept" => c.path = Temp /\ ~c.temp
  BY <1>1, <1>2 DEF ShotReleases, Known, RegFollows, ResultFollows
<1>4. /\ c.result = "ok" /\ s \in previews => c.action \in {"pin", "ocr"}
      /\ s \notin clash /\ c.path \in Written => disk[c.path] = Whole(s)
      /\ s \notin clash /\ c.path = Temp /\ ~c.temp => c.result = "kept"
  BY <1>1, <1>2, PlacesAre DEF Known, PreviewOk, PathFollows, FileKept
<1>5. c.path \in Numbers /\ s \notin clash => disk'[c.path] = Whole(s)
  BY <1>1, <1>2, <1>3, PlacesAre DEF Known, FileKept
<1>6. s \notin clash /\ c.path = Temp /\ c.result # "kept" => disk'[Temp].by # s
  BY <1>2, <1>3, <1>4, RemovedIs, WritersAre
<1> QED
  BY <1>1, <1>2, <1>3, <1>4, <1>5, <1>6, EndsWell DEF ShotReleases, ShotResults, Known

LEMMA SignalledKeeps ==
  ASSUME ShotInv, NEW s \in Shooters, ShotSignalled(s) PROVE ShotInv'
<1>1. PICK c \in ShotRecs : Known(c, s)
  BY KnownIs
<1>2. /\ Active(s) /\ c.pc \in {"name", "select", "write", "act", "release", "text", "card"}
      /\ Temp \in Written /\ Temp # NoPath
  BY <1>1, PlacesAre DEF ShotSignalled, Active, Known, ShotRecs, ShotPcs
<1>3. /\ disk' = IF c.reg = NoPath THEN disk ELSE Removed(c.reg)
      /\ c.reg = (IF c.temp THEN Temp ELSE NoPath) /\ (c.temp => c.path = Temp)
      /\ c.result = "kept" => c.pc = "release" /\ c.path = Temp /\ ~c.temp
  BY <1>1, <1>2 DEF ShotSignalled, Known, RegFollows, ResultFollows
<1>4. s \notin clash /\ c.result = "kept" => disk'[c.path] = Whole(s)
  BY <1>1, <1>2, <1>3, PlacesAre DEF Known, FileKept
<1>5. s \notin clash /\ c.path = Temp /\ c.result # "kept" => disk'[Temp].by # s \/ c.action = "ocr"
  <2>1. CASE c.temp
    BY <1>2, <1>3, <2>1, RemovedIs, WritersAre
  <2>2. CASE ~c.temp
    BY <1>1, <1>2, <2>2 DEF Known, PathFollows, FileKept
  <2> QED
    BY <2>1, <2>2
<1>6. PICK result : result = IF c.result = "kept" THEN "kept" ELSE "signalled"
  OBVIOUS
<1>7. Ends(s, result) /\ result \in ShotResults \ {"none"}
  BY <1>1, <1>6 DEF ShotSignalled, Known, ShotResults
<1> QED
  BY <1>1, <1>2, <1>3, <1>4, <1>5, <1>6, <1>7, EndsWell DEF ShotSignalled

LEMMA KilledKeeps ==
  ASSUME ShotInv, NEW s \in Shooters, ShotKilled(s) PROVE ShotInv'
<1>1. PICK c \in ShotRecs : Known(c, s)
  BY KnownIs
<1> QED
  BY <1>1, EndsWell DEF ShotKilled, ShotResults


\* What an invocation that goes on keeps.
LEMMA GoesOnWell ==
  ASSUME ShotInv, NEW s \in Shooters, Active(s), NEW c, Known(c, s), NEW r, ShotRules(r), r.path = c.path,
         r.pc \notin {"idle", "name", "select"}, shot' = [shot EXCEPT ![s] = r], clash' = clash,
         disk' = disk \/ (r.path \in Written /\ \E x \in Files :
                            /\ disk' = [disk EXCEPT ![r.path] = x]
                            /\ x = Absent \/ x.by = s),
         \A t \in Shooters \ {s} : t \in previews' <=> t \in previews,
         PreviewOk(r, s)', s \notin clash => FileKept(r, s)'
  PROVE  ShotInv'
BY QuietStep DEF Known

LEMMA OpensKeeps ==
  ASSUME ShotInv, NEW s \in Shooters, ShotOpens(s) PROVE ShotInv'
<1>1. PICK c \in ShotRecs : Known(c, s)
  BY KnownIs
<1>2. Active(s) /\ c.pc = "select" /\ c.path \in Written /\ c.path \in Places
  BY <1>1, PlacesAre DEF ShotOpens, At, Active, Known, PathFollows
<1>3. PICK r : r = [c EXCEPT !.pc = "write"]
  OBVIOUS
<1>4. /\ r \in ShotRecs /\ r.pc = "write" /\ r.path = c.path /\ r.temp = c.temp /\ r.reg = c.reg
      /\ r.from = c.from /\ r.action = c.action /\ r.result = c.result
  BY <1>3 DEF ShotRecs, ShotPcs
<1>5. ShotRules(r)
  BY <1>1, <1>2, <1>4 DEF Known, ShotRules, RegFollows, PathFollows, ResultFollows
<1>6. shot' = [shot EXCEPT ![s] = r]
  BY <1>1, <1>3 DEF ShotOpens, Known
<1>7. PICK x : x = [by |-> s, whole |-> FALSE]
  OBVIOUS
<1>8. x \in Files /\ x.by = s /\ disk' = [disk EXCEPT ![r.path] = x]
  BY <1>1, <1>4, <1>7 DEF ShotOpens, Files, Known
<1>9. PreviewOk(r, s)'
  BY <1>4 DEF PreviewOk
<1>10. disk'[r.path].by = s
  BY <1>2, <1>4, <1>8 DEF ShotInv
<1>11. s \notin clash => FileKept(r, s)'
  BY <1>1, <1>4, <1>10 DEF Known, FileKept
<1> QED
  BY <1>1, <1>2, <1>4, <1>5, <1>6, <1>8, <1>9, <1>11, GoesOnWell DEF ShotOpens

LEMMA WrittenKeeps ==
  ASSUME ShotInv, NEW s \in Shooters, NEW preview, ShotWritten(s, preview) PROVE ShotInv'
<1>1. PICK c \in ShotRecs : Known(c, s)
  BY KnownIs
<1>2. Active(s) /\ c.pc = "write" /\ c.path \in Written /\ c.path \in Places
  BY <1>1, PlacesAre DEF ShotWritten, At, Active, Known, PathFollows
<1>3. PICK r : r = [c EXCEPT !.pc = "act"]
  OBVIOUS
<1>4. /\ r \in ShotRecs /\ r.pc = "act" /\ r.path = c.path /\ r.temp = c.temp /\ r.reg = c.reg
      /\ r.from = c.from /\ r.action = c.action /\ r.result = c.result
  BY <1>3 DEF ShotRecs, ShotPcs
<1>5. ShotRules(r)
  BY <1>1, <1>2, <1>4 DEF Known, ShotRules, RegFollows, PathFollows, ResultFollows
<1>6. shot' = [shot EXCEPT ![s] = r]
  BY <1>1, <1>3 DEF ShotWritten, Known
<1>7. PICK x : x = Whole(s)
  OBVIOUS
<1>8. x \in Files /\ x.by = s
  BY <1>7 DEF Files, Whole
<1>9. disk[c.path] \in Files /\ disk \in [Places -> Files]
  BY <1>2 DEF ShotInv
<1>10. disk[c.path].by = s => disk' = [disk EXCEPT ![r.path] = x]
  <2>1. PICK f : f = disk[c.path]
    OBVIOUS
  <2>2. ASSUME f.by = s PROVE [f EXCEPT !.whole = TRUE] = x
    <3>1. f = [by |-> s, whole |-> f.whole]
      BY <1>9, <2>1, <2>2, WritersAre DEF Files
    <3>2. PICK g : g = [f EXCEPT !.whole = TRUE]
      OBVIOUS
    <3>4. PICK w : f = [by |-> s, whole |-> w]
      BY <3>1
    <3>3. g = [by |-> s, whole |-> TRUE]
      BY <3>2, <3>4
    <3> QED
      BY <1>7, <3>2, <3>3 DEF Whole
  <2>3. disk[c.path].by = s => disk' = [disk EXCEPT ![c.path] = [f EXCEPT !.whole = TRUE]]
    BY <1>1, <2>1 DEF ShotWritten, Known
  <2> QED
    BY <1>4, <2>1, <2>2, <2>3
<1>11. disk' = disk \/ disk' = [disk EXCEPT ![r.path] = x]
  BY <1>1, <1>10 DEF ShotWritten, Known
<1>12. PreviewOk(r, s)'
  BY <1>4 DEF PreviewOk
<1>13. s \notin clash => disk'[r.path] = Whole(s)
  BY <1>1, <1>2, <1>4, <1>7, <1>9, <1>10 DEF Known, FileKept
<1>14. s \notin clash => FileKept(r, s)'
  BY <1>1, <1>4, <1>13 DEF Known, FileKept
<1>15. \A t \in Shooters \ {s} : t \in previews' <=> t \in previews
  BY DEF ShotWritten
<1> QED
  BY <1>1, <1>2, <1>4, <1>5, <1>6, <1>8, <1>11, <1>12, <1>14, <1>15, GoesOnWell DEF ShotWritten

\* The action of an invocation has been taken, and r says how it went.
LEMMA ReportKeeps ==
  ASSUME ShotInv, NEW s \in Shooters, Active(s), NEW c \in ShotRecs, Known(c, s), c.pc = "act", NEW r \in ShotRecs,
         shot' = [shot EXCEPT ![s] = r], UNCHANGED <<disk, clash>>,
         r.pc = "release", r.path = c.path, r.from = c.from, c.action # "ocr", r.action \in {"copy", "pin"},
         r.action = "pin" <=> c.action = "pin", r.result \in {"ok", "failed", "kept"},
         /\ r.reg = (IF r.temp THEN Temp ELSE NoPath) /\ (r.temp => c.temp)
         /\ (c.temp /\ ~r.temp) => r.result = "kept"
         /\ r.result = "kept" => c.temp /\ ~r.temp,
         \A t \in Shooters \ {s} : t \in previews' <=> t \in previews,
         r.result = "ok" /\ s \in previews' => r.action = "pin"
  PROVE  ShotInv'
<1>1. c.path \in Written \cup {Mine} /\ c.result # "kept" /\ (c.temp => c.path = Temp)
  BY DEF Known, RegFollows, PathFollows, ResultFollows
<1>2. ShotRules(r)
  BY <1>1 DEF Known, ShotRules, RegFollows, PathFollows, ResultFollows
<1>3. PreviewOk(r, s)'
  BY DEF PreviewOk
<1>4. s \notin clash => FileKept(r, s)'
  BY DEF Known, FileKept
<1> QED
  BY <1>2, <1>3, <1>4, GoesOnWell

LEMMA ReportIs ==
  ASSUME NEW c \in ShotRecs, NEW ok,
         NEW r, r = [c EXCEPT !.pc = "release", !.result = IF ok THEN "ok" ELSE "failed",
                              !.action = IF @ = "pin" THEN @ ELSE "copy"]
  PROVE  r = [pc |-> "release", action |-> IF c.action = "pin" THEN c.action ELSE "copy", from |-> c.from,
              save |-> c.save, path |-> c.path, temp |-> c.temp, reg |-> c.reg,
              result |-> IF ok THEN "ok" ELSE "failed"]
<1> DEFINE o == IF ok THEN "ok" ELSE "failed"
<1> DEFINE a == IF c.action = "pin" THEN c.action ELSE "copy"
<1>1. c = [pc |-> c.pc, action |-> c.action, from |-> c.from, save |-> c.save,
           path |-> c.path, temp |-> c.temp, reg |-> c.reg, result |-> c.result]
  BY DEF ShotRecs
<1>2. PICK e1 : e1 = [c EXCEPT !.pc = "release"]
  OBVIOUS
<1>3. PICK e2 : e2 = [e1 EXCEPT !.result = o]
  OBVIOUS
<1>4. e1 = [pc |-> "release", action |-> c.action, from |-> c.from, save |-> c.save,
            path |-> c.path, temp |-> c.temp, reg |-> c.reg, result |-> c.result]
  BY <1>1, <1>2
<1>5. e2 = [pc |-> "release", action |-> c.action, from |-> c.from, save |-> c.save,
            path |-> c.path, temp |-> c.temp, reg |-> c.reg, result |-> o]
  BY <1>3, <1>4
<1>6. r = [e2 EXCEPT !.action = a]
  BY <1>2, <1>3, <1>5
<1> HIDE DEF o, a
<1>7. r = [pc |-> "release", action |-> a, from |-> c.from, save |-> c.save,
           path |-> c.path, temp |-> c.temp, reg |-> c.reg, result |-> o]
  BY <1>5, <1>6
<1> QED
  BY <1>7 DEF o, a

LEMMA ReportsAre ==
  ASSUME ShotInv, NEW s \in Shooters, NEW c, Known(c, s), NEW ok
  PROVE  \E r \in ShotRecs :
           /\ ShotReports(s, ok) = [shot EXCEPT ![s] = r]
           /\ r.pc = "release" /\ r.path = c.path /\ r.from = c.from /\ r.temp = c.temp /\ r.reg = c.reg
           /\ r.action = (IF c.action = "pin" THEN "pin" ELSE "copy")
           /\ r.result = IF ok THEN "ok" ELSE "failed"
<1>1. PICK r : r = [c EXCEPT !.pc = "release", !.result = IF ok THEN "ok" ELSE "failed",
                             !.action = IF @ = "pin" THEN @ ELSE "copy"]
  OBVIOUS
<1>2. c \in ShotRecs /\ c = shot[s] /\ shot \in [Shooters -> ShotRecs]
  BY DEF Known, ShotInv
<1>3. r = [pc |-> "release", action |-> IF c.action = "pin" THEN c.action ELSE "copy", from |-> c.from,
           save |-> c.save, path |-> c.path, temp |-> c.temp, reg |-> c.reg,
           result |-> IF ok THEN "ok" ELSE "failed"]
  BY <1>1, <1>2, ReportIs
<1>4. ShotReports(s, ok) = [shot EXCEPT ![s] = r]
  BY <1>1, <1>2 DEF ShotReports
<1>5. /\ r.pc = "release" /\ r.path = c.path /\ r.from = c.from /\ r.temp = c.temp /\ r.reg = c.reg
      /\ r.action = (IF c.action = "pin" THEN "pin" ELSE "copy")
      /\ r.result = IF ok THEN "ok" ELSE "failed"
  BY <1>3
<1>6. r \in ShotRecs
  BY <1>2, <1>3 DEF ShotRecs, ShotPcs, ShotResults
<1> QED
  BY <1>4, <1>5, <1>6

LEMMA ActsIs ==
  ASSUME NEW s, NEW actions, Acts(s, actions), NEW c, Known(c, s)
  PROVE  /\ Active(s) /\ c.pc = "act" /\ c.action \in actions
         /\ c.reg = (IF c.temp THEN Temp ELSE NoPath) /\ c.temp \in BOOLEAN
BY DEF Acts, At, Active, Known, RegFollows, ShotRecs

LEMMA ReportsKeep ==
  ASSUME ShotInv, NEW s \in Shooters, NEW ok \in BOOLEAN, Acts(s, {"upload", "copy", "pin"}),
         shot' = ShotReports(s, ok), UNCHANGED <<disk, clash>>,
         previews' = previews \/ previews' = previews \ {s},
         ok /\ s \in previews' => Acts(s, {"pin"})
  PROVE  ShotInv'
<1>1. PICK c \in ShotRecs : Known(c, s)
  BY KnownIs
<1>2. /\ Active(s) /\ c.pc = "act" /\ c.action \in {"upload", "copy", "pin"}
      /\ c.reg = (IF c.temp THEN Temp ELSE NoPath) /\ c.temp \in BOOLEAN
      /\ ok /\ s \in previews' => c.action = "pin"
  BY <1>1, ActsIs
<1>3. PICK r \in ShotRecs :
        /\ ShotReports(s, ok) = [shot EXCEPT ![s] = r]
        /\ r.pc = "release" /\ r.path = c.path /\ r.from = c.from /\ r.temp = c.temp /\ r.reg = c.reg
        /\ r.action = (IF c.action = "pin" THEN "pin" ELSE "copy")
        /\ r.result = IF ok THEN "ok" ELSE "failed"
  BY <1>1, ReportsAre
<1> QED
  BY <1>1, <1>2, <1>3, ReportKeeps

LEMMA UploadFailsKeeps ==
  ASSUME ShotInv, NEW s \in Shooters, UploadFails(s) PROVE ShotInv'
<1>1. PICK c \in ShotRecs : Known(c, s)
  BY KnownIs
<1>2. /\ Active(s) /\ c.pc = "act" /\ c.action = "upload"
      /\ c.reg = (IF c.temp THEN Temp ELSE NoPath) /\ c.temp \in BOOLEAN
  BY <1>1, ActsIs DEF UploadFails
<1>3. PICK f \in ShotRecs :
        /\ ShotReports(s, FALSE) = [shot EXCEPT ![s] = f]
        /\ f.pc = "release" /\ f.path = c.path /\ f.from = c.from /\ f.temp = c.temp /\ f.reg = c.reg
        /\ f.action = (IF c.action = "pin" THEN "pin" ELSE "copy")
        /\ f.result = "failed"
  <2>1. PICK ok : ok = FALSE
    OBVIOUS
  <2>2. PICK f \in ShotRecs :
          /\ ShotReports(s, ok) = [shot EXCEPT ![s] = f]
          /\ f.pc = "release" /\ f.path = c.path /\ f.from = c.from /\ f.temp = c.temp /\ f.reg = c.reg
          /\ f.action = (IF c.action = "pin" THEN "pin" ELSE "copy")
          /\ f.result = IF ok THEN "ok" ELSE "failed"
    BY <1>1, ReportsAre
  <2>3. ShotReports(s, FALSE) = ShotReports(s, ok)
    BY <2>1 DEF ShotReports
  <2> QED
    BY <2>1, <2>2, <2>3
<1>4. PICK reg : reg = IF c.temp THEN NoPath ELSE f.reg
  OBVIOUS
<1>5. PICK result : result = IF c.temp THEN "kept" ELSE "failed"
  OBVIOUS
<1>6. PICK g : g = [f EXCEPT !.reg = reg]
  OBVIOUS
<1>7. PICK h : h = [g EXCEPT !.temp = FALSE]
  OBVIOUS
<1>8. PICK r : r = [h EXCEPT !.result = result]
  OBVIOUS
<1>9. f = [pc |-> f.pc, action |-> f.action, from |-> f.from, save |-> f.save,
           path |-> f.path, temp |-> f.temp, reg |-> f.reg, result |-> f.result]
  BY DEF ShotRecs
<1>10. g = [pc |-> f.pc, action |-> f.action, from |-> f.from, save |-> f.save,
            path |-> f.path, temp |-> f.temp, reg |-> reg, result |-> f.result]
  BY <1>6, <1>9
<1>11. h = [pc |-> f.pc, action |-> f.action, from |-> f.from, save |-> f.save,
            path |-> f.path, temp |-> FALSE, reg |-> reg, result |-> f.result]
  BY <1>7, <1>10
<1>12. r = [pc |-> f.pc, action |-> f.action, from |-> f.from, save |-> f.save,
            path |-> f.path, temp |-> FALSE, reg |-> reg, result |-> result]
  BY <1>8, <1>11
<1>13. reg = NoPath
  BY <1>2, <1>3, <1>4
<1>14. r \in ShotRecs
  BY <1>5, <1>12, <1>13 DEF ShotRecs, ShotResults
<1>15. shot' = [shot EXCEPT ![s] = r]
  <2>1. shot \in [Shooters -> ShotRecs] /\ shot[s] = c
    BY <1>1 DEF ShotInv, Known
  <2>2. PICK w : w = [shot EXCEPT ![s] = f]
    OBVIOUS
  <2>3. w[s] = f
    BY <2>1, <2>2
  <2>4. shot' = [w EXCEPT ![s].reg = IF c.temp THEN NoPath ELSE @, ![s].temp = FALSE,
                          ![s].result = IF c.temp THEN "kept" ELSE "failed"]
    BY <1>3, <2>1, <2>2 DEF UploadFails
  <2>5. shot' = [w EXCEPT ![s] = r]
    BY <1>4, <1>5, <1>6, <1>7, <1>8, <2>1, <2>2, <2>3, <2>4
  <2> QED
    BY <2>1, <2>2, <2>5
<1>16. /\ r.pc = "release" /\ r.path = c.path /\ r.from = c.from /\ r.action = "copy" /\ ~r.temp
       /\ r.reg = NoPath /\ r.result = IF c.temp THEN "kept" ELSE "failed"
  BY <1>2, <1>3, <1>5, <1>12, <1>13
<1>17. /\ r.action \in {"copy", "pin"} /\ (r.action = "pin" <=> c.action = "pin") /\ c.action # "ocr"
       /\ r.result \in {"ok", "failed", "kept"}
       /\ r.reg = (IF r.temp THEN Temp ELSE NoPath) /\ (r.temp => c.temp)
       /\ (c.temp /\ ~r.temp) => r.result = "kept"
       /\ r.result = "kept" => c.temp /\ ~r.temp
       /\ r.result # "ok"
  BY <1>2, <1>16
<1>18. UNCHANGED <<disk, clash>> /\ previews' = previews
  BY DEF UploadFails
<1> QED
  BY <1>1, <1>2, <1>14, <1>15, <1>16, <1>17, <1>18, ReportKeeps

LEMMA ReportingSteps ==
  ASSUME ShotInv, NEW s \in Shooters,
         ShotSucceeds(s) \/ CopyFails(s) \/ \E ok \in BOOLEAN : ShotPins(s, ok)
  PROVE  ShotInv'
<1>1. CASE ShotSucceeds(s)
  <2>1. Acts(s, {"upload", "copy", "pin"}) /\ s \notin previews' /\ previews' = previews \ {s}
    BY <1>1 DEF ShotSucceeds, Acts, Previewed
  <2> QED
    BY <1>1, <2>1, ReportsKeep DEF ShotSucceeds
<1>2. CASE CopyFails(s)
  <2>1. Acts(s, {"upload", "copy", "pin"})
    BY <1>2 DEF CopyFails, Acts
  <2> QED
    BY <1>2, <2>1, ReportsKeep DEF CopyFails
<1>3. ASSUME NEW ok \in BOOLEAN, ShotPins(s, ok) PROVE ShotInv'
  <2>1. Acts(s, {"upload", "copy", "pin"})
    BY <1>3 DEF ShotPins, Acts
  <2> QED
    BY <1>3, <2>1, ReportsKeep DEF ShotPins
<1> QED
  BY <1>1, <1>2, <1>3

LEMMA OcrReadsKeeps ==
  ASSUME ShotInv, NEW s \in Shooters, NEW some \in BOOLEAN, OcrReads(s, some) PROVE ShotInv'
<1>1. PICK c \in ShotRecs : Known(c, s)
  BY KnownIs
<1>2. /\ Active(s) /\ c.pc = "act" /\ c.action = "ocr"
      /\ c.reg = (IF c.temp THEN Temp ELSE NoPath) /\ c.temp \in BOOLEAN
  BY <1>1, ActsIs DEF OcrReads
<1>3. c.path \in {Temp, Mine} /\ (c.temp => c.path = Temp) /\ Temp \in Written /\ Temp \in Places /\ Mine # Temp
  BY <1>1, <1>2, PlacesAre DEF Known, PathFollows, RegFollows
<1>4. PICK pc : pc = IF some THEN "text" ELSE "gone"
  OBVIOUS
<1>5. PICK result : result = IF some THEN "ok" ELSE "failed"
  OBVIOUS
<1>6. PICK r : r = [pc |-> pc, action |-> "ocr", from |-> c.from, save |-> c.save,
                    path |-> c.path, temp |-> FALSE, reg |-> NoPath, result |-> result]
  OBVIOUS
<1>7. shot' = [shot EXCEPT ![s] = r]
  <2>1. shot \in [Shooters -> ShotRecs] /\ shot[s] = c
    BY <1>1 DEF ShotInv, Known
  <2>2. PICK e1 : e1 = [c EXCEPT !.pc = pc]
    OBVIOUS
  <2>3. PICK e2 : e2 = [e1 EXCEPT !.temp = FALSE]
    OBVIOUS
  <2>4. PICK e3 : e3 = [e2 EXCEPT !.reg = NoPath]
    OBVIOUS
  <2>5. PICK e4 : e4 = [e3 EXCEPT !.result = result]
    OBVIOUS
  <2>6. shot' = [shot EXCEPT ![s] = e4]
    BY <1>1, <1>4, <1>5, <2>1, <2>2, <2>3, <2>4, <2>5 DEF OcrReads
  <2>7. c = [pc |-> c.pc, action |-> "ocr", from |-> c.from, save |-> c.save,
             path |-> c.path, temp |-> c.temp, reg |-> c.reg, result |-> c.result]
    BY <1>2 DEF ShotRecs
  <2>8. e1 = [pc |-> pc, action |-> "ocr", from |-> c.from, save |-> c.save,
              path |-> c.path, temp |-> c.temp, reg |-> c.reg, result |-> c.result]
    BY <2>2, <2>7
  <2>9. e2 = [pc |-> pc, action |-> "ocr", from |-> c.from, save |-> c.save,
              path |-> c.path, temp |-> FALSE, reg |-> c.reg, result |-> c.result]
    BY <2>3, <2>8
  <2>10. e3 = [pc |-> pc, action |-> "ocr", from |-> c.from, save |-> c.save,
               path |-> c.path, temp |-> FALSE, reg |-> NoPath, result |-> c.result]
    BY <2>4, <2>9
  <2>11. e4 = [pc |-> pc, action |-> "ocr", from |-> c.from, save |-> c.save,
               path |-> c.path, temp |-> FALSE, reg |-> NoPath, result |-> result]
    BY <2>5, <2>10
  <2>12. e4 = r
    BY <1>6, <2>11
  <2> QED
    BY <2>6, <2>12
<1>8. /\ r.pc = pc /\ r.path = c.path /\ r.from = c.from /\ r.action = "ocr" /\ ~r.temp
      /\ r.reg = NoPath /\ r.result = result
  BY <1>6
<1>9. r \in ShotRecs
  BY <1>4, <1>5, <1>6 DEF ShotRecs, ShotPcs, ShotResults
<1>10. ShotRules(r)
  <2>1. RegFollows(r)
    BY <1>8 DEF RegFollows
  <2>2. PathFollows(r)
    BY <1>3, <1>4, <1>8, PlacesAre DEF PathFollows
  <2>3. ResultFollows(r)
    BY <1>4, <1>5, <1>8 DEF ResultFollows
  <2> QED
    BY <1>9, <2>1, <2>2, <2>3 DEF ShotRules
<1>11. PreviewOk(r, s)'
  BY <1>8 DEF PreviewOk
<1>12. disk' = IF c.temp THEN Removed(c.path) ELSE disk
  BY <1>1 DEF OcrReads, Known
<1>13. s \notin clash => disk'[Temp].by # s
  <2>1. CASE c.temp
    BY <1>3, <1>12, <2>1, RemovedIs, WritersAre
  <2>2. ASSUME ~c.temp, s \notin clash PROVE disk'[Temp].by # s
    <3>1. c.path # Temp
      BY <1>1, <1>2, <2>2 DEF Known, PathFollows, ResultFollows, FileKept
    <3> QED
      BY <1>1, <1>3, <1>12, <2>2, <3>1 DEF ShotInv, WriterHasPath, Known
  <2> QED
    BY <2>1, <2>2
<1>14. s \notin clash => FileKept(r, s)'
  BY <1>1, <1>3, <1>4, <1>5, <1>8, <1>13, PlacesAre DEF Known, FileKept
<1>15. disk' = disk \/ (r.path \in Written /\ \E x \in Files :
                          /\ disk' = [disk EXCEPT ![r.path] = x]
                          /\ x = Absent \/ x.by = s)
  BY <1>3, <1>8, <1>12, WritersAre DEF Removed
<1>16. clash' = clash /\ previews' = previews /\ r.pc \notin {"idle", "name", "select"}
  BY <1>4, <1>8 DEF OcrReads
<1> QED
  BY <1>1, <1>2, <1>7, <1>8, <1>10, <1>11, <1>14, <1>15, <1>16, GoesOnWell

\* There are more numbers than invocations, and each has at most one.
LEMMA FreeNumberIs ==
  ASSUME ShotInv, NEW s \in Shooters, At(s, "name")
  PROVE  FreeNumber \in Written \ {Temp}
<1> DEFINE free == {n \in Numbers : ~There(n)}
<1> DEFINE others == (Shooters \ {s}) \cup {"user"}
<1>1. disk \in [Places -> Files] /\ UserHasTwo /\ UserKeeps /\ \A t \in Shooters : WriterHasPath(t)
  BY DEF ShotInv
<1>2. IsFiniteSet(Numbers) /\ Cardinality(Numbers) = Pictures
  <2>1. IsFiniteSet(0 .. Pictures - 1) /\ Cardinality(0 .. Pictures - 1) = (Pictures - 1) - 0 + 1
    BY PlacesAre, FS_Interval
  <2> QED
    BY <2>1, PlacesAre DEF Numbers
<1>3. IsFiniteSet(others) /\ Cardinality(others) < Pictures
  <2>1. IsFiniteSet(Shooters) /\ Cardinality(Shooters) \in Nat /\ Cardinality(Shooters) < Pictures
    BY ShotAssumption, FS_CardinalityType, PlacesAre
  <2>2. IsFiniteSet(Shooters \ {s}) /\ Cardinality(Shooters \ {s}) = Cardinality(Shooters) - 1
    BY <2>1, FS_RemoveElement
  <2>3. Cardinality(others) = Cardinality(Shooters \ {s}) + 1 /\ IsFiniteSet(others)
    BY <2>2, FS_AddElement, WritersAre
  <2> HIDE DEF others
  <2> QED
    BY <2>1, <2>2, <2>3, PlacesAre
<1>4. free # {}
  <2> SUFFICES ASSUME free = {} PROVE FALSE
    OBVIOUS
  <2>1. \A n \in Numbers : disk[n].by \in others
    <3> SUFFICES ASSUME NEW n \in Numbers PROVE disk[n].by \in others
      OBVIOUS
    <3>1. n \in Places /\ disk[n] \in Files /\ disk[n] # Absent
      BY <1>1, PlacesAre DEF There
    <3>2. disk[n].by \in Shooters \cup {"user"}
      BY <3>1 DEF Files
    <3>3. disk[n].by # s
      BY <1>1, <3>1 DEF WriterHasPath, At
    <3> QED
      BY <3>2, <3>3
  <2> DEFINE f == [n \in Numbers |-> disk[n].by]
  <2>2. f \in [Numbers -> others]
    BY <2>1
  <2> HIDE DEF others, free
  <2>3. PICK x, y \in Numbers : x # y /\ f[x] = f[y]
    <3> HIDE DEF f
    <3> QED
      BY <1>2, <1>3, <2>2, FS_PigeonHole
  <2>4. x \in Places /\ y \in Places /\ disk[x].by = disk[y].by /\ disk[x].by \in others
    BY <2>1, <2>3, PlacesAre
  <2>5. disk[x].by # "user"
    BY <1>1, <2>3, <2>4, PlacesAre DEF UserHasTwo
  <2>6. disk[x].by \in Shooters
    BY <2>4, <2>5 DEF others
  <2> QED
    BY <1>1, <2>3, <2>4, <2>6 DEF WriterHasPath
<1>5. free \in SUBSET Nat /\ free \subseteq Numbers
  BY PlacesAre DEF Numbers
<1>6. 0 \notin free
  BY <1>1, PlacesAre, WritersAre DEF There, UserKeeps
<1>7. FreeNumber \in free
  <2>1. FreeNumber = Min(free)
    BY DEF FreeNumber
  <2> HIDE DEF free
  <2> QED
    BY <1>4, <1>5, <2>1, MinIs
<1> HIDE DEF free
<1> QED
  BY <1>5, <1>6, <1>7, PlacesAre

\* Who meets at p, and who met nobody.
LEMMA MeetsIs ==
  ASSUME ShotInv, NEW s \in Shooters, NEW p \in Places, Meets(s, p)
  PROVE  /\ clash \subseteq clash' /\ clash' \subseteq Shooters
         /\ \A t \in Shooters \ {s} : t \notin clash' \/ s \notin clash' =>
              /\ disk[p].by # t
              /\ Active(t) => shot[t].path # p /\ shot[t].from # p
<1>1. clash \subseteq Shooters /\ Meeting(s, p) \subseteq Shooters
  BY DEF ShotInv, Meeting
<1>2. \A t \in Shooters \ {s} : t \in Meeting(s, p) <=> ((Active(t) /\ p \in {shot[t].path, shot[t].from}) \/ disk[p].by = t)
  BY DEF Meeting
<1>3. clash' = IF Meeting(s, p) = {} THEN clash ELSE clash \cup {s} \cup Meeting(s, p)
  BY DEF Meets
<1> HIDE DEF Meets, Meeting
<1> QED
  BY <1>1, <1>2, <1>3

LEMMA CardKeeps ==
  ASSUME ShotInv, NEW s \in Shooters, OcrCard(s) PROVE ShotInv'
<1>1. PICK c \in ShotRecs : Known(c, s)
  BY KnownIs
<1>2. /\ Active(s) /\ c.pc = "text" /\ c.action = "ocr" /\ ~c.temp /\ c.path \in {Temp, Mine} /\ c.reg = NoPath
      /\ c.result # "kept"
  BY <1>1 DEF OcrCard, At, Active, Known, PathFollows, RegFollows, ResultFollows
<1>3. /\ disk \in [Places -> Files] /\ UserHasTwo /\ UserKeeps /\ WriterHasPath(s)
      /\ Temp \in Written /\ Temp \in Places /\ Mine \notin Written /\ Mine # Temp
  BY PlacesAre DEF ShotInv
<1>4. PICK e : e = [c EXCEPT !.pc = "card"]
  OBVIOUS
<1>5. PICK r : r = [e EXCEPT !.path = Temp]
  OBVIOUS
<1>6. r = [pc |-> "card", action |-> c.action, from |-> c.from, save |-> c.save,
           path |-> Temp, temp |-> c.temp, reg |-> c.reg, result |-> c.result]
  <2>1. c = [pc |-> c.pc, action |-> c.action, from |-> c.from, save |-> c.save,
             path |-> c.path, temp |-> c.temp, reg |-> c.reg, result |-> c.result]
    BY DEF ShotRecs
  <2>2. e = [pc |-> "card", action |-> c.action, from |-> c.from, save |-> c.save,
             path |-> c.path, temp |-> c.temp, reg |-> c.reg, result |-> c.result]
    BY <1>4, <2>1
  <2> QED
    BY <1>5, <2>2
<1>7. shot' = [shot EXCEPT ![s] = r]
  <2>1. shot \in [Shooters -> ShotRecs] /\ shot[s] = c
    BY <1>1 DEF ShotInv, Known
  <2> QED
    BY <1>4, <1>5, <2>1 DEF OcrCard
<1>8. /\ r.pc = "card" /\ r.path = Temp /\ r.from = c.from /\ r.action = "ocr" /\ ~r.temp
      /\ r.reg = NoPath /\ r.result = c.result
  BY <1>2, <1>6
<1>9. ShotRules(r)
  <2>1. r \in ShotRecs
    BY <1>3, <1>6, PlacesAre DEF ShotRecs, ShotPcs
  <2>2. PathFollows(r)
    BY <1>8, PlacesAre DEF PathFollows
  <2> QED
    BY <1>2, <1>8, <2>1, <2>2 DEF ShotRules, RegFollows, ResultFollows
<1>10. Meets(s, Temp) /\ disk' = [disk EXCEPT ![Temp] = Whole(s)] /\ previews' = previews
  BY DEF OcrCard
<1>11. /\ clash \subseteq clash' /\ clash' \subseteq Shooters
       /\ \A t \in Shooters \ {s} : t \notin clash' \/ s \notin clash' =>
            disk[Temp].by # t /\ (Active(t) => shot[t].path # Temp)
  BY <1>3, <1>10, MeetsIs
<1>12. disk'[Temp] = Whole(s) /\ \A p \in Places \ {Temp} : disk'[p] = disk[p] /\ disk[p].by # s
  BY <1>1, <1>2, <1>3, <1>10, WritersAre DEF WriterHasPath, UserKeeps, Known
<1>13. ShotGoes(s, r, Temp)
  <2>1. Whole(s) \in Files /\ Whole(s).by = s
    BY WritersAre DEF Whole, Files
  <2> QED
    BY <1>3, <1>7, <1>8, <1>9, <1>10, <1>11, <1>12, <2>1 DEF ShotGoes
<1>14. Avoids(s, r)
  BY <1>3, <1>8, <1>11, <1>12, PlacesAre, WritersAre DEF Avoids
<1>15. PreviewOk(r, s)'
  BY <1>8 DEF PreviewOk
<1>16. s \notin clash' => FileKept(r, s)'
  BY <1>1, <1>8, <1>11, <1>12 DEF FileKept, Known
<1> QED
  BY <1>13, <1>14, <1>15, <1>16, ShotGoesOn

LEMMA NamesKeeps ==
  ASSUME ShotInv, NEW s \in Shooters, ShotNames(s) PROVE ShotInv'
<1>1. PICK c \in ShotRecs : Known(c, s)
  BY KnownIs
<1>2. Active(s) /\ c.pc = "name" /\ ~c.temp /\ c.reg = NoPath /\ c.result = "none" /\ At(s, "name")
  BY <1>1 DEF ShotNames, At, Active, Known, PathFollows, RegFollows
<1>3. PICK p : p = IF Saves(s) THEN FreeNumber ELSE Temp
  OBVIOUS
<1>4. /\ p \in Written /\ p \in Places /\ (p = Temp <=> ~Saves(s)) /\ (p # Temp => p \in Numbers)
      /\ c.action = "save" => p # Temp
      /\ c.action = "ocr" => p = Temp
  BY <1>1, <1>2, <1>3, FreeNumberIs, PlacesAre DEF Saves, Known
<1>5. PICK from : from = IF c.from = p THEN p ELSE NoPath
  OBVIOUS
<1>6. PICK reg : reg = IF Saves(s) THEN NoPath ELSE p
  OBVIOUS
<1>7. PICK temp \in BOOLEAN : temp <=> ~Saves(s)
  OBVIOUS
<1>8. PICK r : r = [pc |-> "select", action |-> c.action, from |-> from, save |-> FALSE,
                    path |-> p, temp |-> temp, reg |-> reg, result |-> c.result]
  OBVIOUS
<1>9. shot' = [shot EXCEPT ![s] = r]
  <2>1. shot \in [Shooters -> ShotRecs] /\ shot[s] = c
    BY <1>1 DEF ShotInv, Known
  <2>2. PICK e1 : e1 = [c EXCEPT !.pc = "select"]
    OBVIOUS
  <2>3. PICK e2 : e2 = [e1 EXCEPT !.path = p]
    OBVIOUS
  <2>4. PICK e3 : e3 = [e2 EXCEPT !.temp = ~Saves(s)]
    OBVIOUS
  <2>5. PICK e4 : e4 = [e3 EXCEPT !.save = FALSE]
    OBVIOUS
  <2>6. PICK e5 : e5 = [e4 EXCEPT !.from = from]
    OBVIOUS
  <2>7. PICK e6 : e6 = [e5 EXCEPT !.reg = reg]
    OBVIOUS
  <2>8. c = [pc |-> c.pc, action |-> c.action, from |-> c.from, save |-> c.save,
             path |-> c.path, temp |-> c.temp, reg |-> c.reg, result |-> c.result]
    BY DEF ShotRecs
  <2>9. e1 = [pc |-> "select", action |-> c.action, from |-> c.from, save |-> c.save,
              path |-> c.path, temp |-> c.temp, reg |-> c.reg, result |-> c.result]
    BY <2>2, <2>8
  <2>10. e2 = [pc |-> "select", action |-> c.action, from |-> c.from, save |-> c.save,
               path |-> p, temp |-> c.temp, reg |-> c.reg, result |-> c.result]
    BY <2>3, <2>9
  <2>11. e3 = [pc |-> "select", action |-> c.action, from |-> c.from, save |-> c.save,
               path |-> p, temp |-> ~Saves(s), reg |-> c.reg, result |-> c.result]
    BY <2>4, <2>10
  <2>12. e4 = [pc |-> "select", action |-> c.action, from |-> c.from, save |-> FALSE,
               path |-> p, temp |-> ~Saves(s), reg |-> c.reg, result |-> c.result]
    BY <2>5, <2>11
  <2>13. e5 = [pc |-> "select", action |-> c.action, from |-> from, save |-> FALSE,
               path |-> p, temp |-> ~Saves(s), reg |-> c.reg, result |-> c.result]
    BY <2>6, <2>12
  <2>14. e6 = [pc |-> "select", action |-> c.action, from |-> from, save |-> FALSE,
               path |-> p, temp |-> ~Saves(s), reg |-> reg, result |-> c.result]
    BY <2>7, <2>13
  <2>15. e6 = r
    BY <1>7, <1>8, <2>14
  <2>16. shot' = [shot EXCEPT ![s] = e6]
    <3>1. e4.from = c.from
      BY <2>12
    <3>2. shot' = [shot EXCEPT ![s].pc = "select", ![s].path = p, ![s].temp = ~Saves(s),
                               ![s].save = FALSE, ![s].from = IF @ = p THEN p ELSE NoPath,
                               ![s].reg = IF Saves(s) THEN NoPath ELSE p]
      BY <1>3 DEF ShotNames
    <3> HIDE DEF Saves
    <3> QED
      BY <1>5, <1>6, <2>1, <2>2, <2>3, <2>4, <2>5, <2>6, <2>7, <3>1, <3>2
  <2> QED
    BY <2>15, <2>16
<1>10. /\ r.pc = "select" /\ r.path = p /\ r.from = from /\ r.action = c.action /\ r.temp = temp
       /\ r.reg = reg /\ r.result = "none"
  BY <1>2, <1>8
<1>11. from \in {NoPath, Temp} /\ (c.from # Temp => from # Temp)
  BY <1>1, <1>5 DEF Known, ShotRecs
<1>12. ShotRules(r)
  <2>1. r \in ShotRecs
    BY <1>4, <1>6, <1>7, <1>8, <1>11 DEF ShotRecs, ShotPcs
  <2>2. RegFollows(r)
    BY <1>4, <1>6, <1>7, <1>10 DEF RegFollows
  <2>3. PathFollows(r)
    BY <1>4, <1>7, <1>10, PlacesAre DEF PathFollows
  <2> QED
    BY <1>10, <2>1, <2>2, <2>3 DEF ShotRules, ResultFollows
<1>13. Meets(s, p) /\ disk' = disk /\ previews' = previews
  BY <1>3 DEF ShotNames
<1>14. /\ clash \subseteq clash' /\ clash' \subseteq Shooters
       /\ \A t \in Shooters \ {s} : t \notin clash' \/ s \notin clash' =>
            disk[p].by # t /\ (Active(t) => shot[t].path # p)
  BY <1>4, <1>13, MeetsIs
<1>15. \A q \in Places : disk'[q].by # s
  BY <1>1, <1>2, <1>13 DEF ShotInv, WriterHasPath, Known
<1>16. ShotGoes(s, r, p)
  BY <1>9, <1>12, <1>13, <1>14, <1>15 DEF ShotGoes
<1>17. Avoids(s, r)
  BY <1>10, <1>13, <1>14, <1>15, PlacesAre DEF Avoids
<1>18. PreviewOk(r, s)'
  BY <1>10 DEF PreviewOk
<1>19. s \notin clash' => FileKept(r, s)'
  BY <1>1, <1>10, <1>11, <1>14 DEF FileKept, Known
<1> QED
  BY <1>16, <1>17, <1>18, <1>19, ShotGoesOn

\* A file of the user's, or the temporary file that somebody left.
LEMMA BeginsKeeps ==
  ASSUME ShotInv, NEW s \in Shooters, NEW action \in {"upload", "copy", "save", "pin", "ocr"},
         NEW from \in {NoPath, Mine, Temp}, NEW edit \in BOOLEAN, NEW save \in BOOLEAN,
         action = "save" /\ from # NoPath => edit, ShotBegins(s, action, from, edit, save)
  PROVE  ShotInv'
<1>1. PICK c \in ShotRecs : Known(c, s)
  BY KnownIs
<1>2. c.pc = "idle" /\ (from = Temp => There(Temp)) /\ disk' = disk /\ previews' = previews
  BY <1>1 DEF ShotBegins, At, Known
<1>3. /\ disk \in [Places -> Files] /\ UserHasTwo /\ clash \subseteq Shooters
      /\ \A p \in Places : disk[p].by # s
  BY <1>1, <1>2 DEF ShotInv, WriterHasPath, Known
<1>4. PICK was : was = IF from = Temp THEN Temp ELSE NoPath
  OBVIOUS
<1>5. PICK pc : pc = IF from = NoPath \/ edit THEN "name" ELSE "act"
  OBVIOUS
<1>6. PICK path : path = IF from = NoPath \/ edit THEN NoPath ELSE from
  OBVIOUS
<1>7. PICK saved : saved = IF from = NoPath \/ edit THEN save ELSE FALSE
  OBVIOUS
<1>8. PICK r : r = [pc |-> pc, action |-> action, from |-> was, save |-> saved,
                    path |-> path, temp |-> FALSE, reg |-> NoPath, result |-> "none"]
  OBVIOUS
<1>9. shot' = [shot EXCEPT ![s] = r]
  <2>1. PICK wish : wish = [NewShot EXCEPT !.action = action, !.from = IF from = Temp THEN Temp ELSE NoPath]
    OBVIOUS
  <2>2. wish = [pc |-> "idle", action |-> action, from |-> was, save |-> FALSE,
                 path |-> NoPath, temp |-> FALSE, reg |-> NoPath, result |-> "none"]
    <3>1. PICK e : e = [NewShot EXCEPT !.action = action]
      OBVIOUS
    <3>2. e = [pc |-> "idle", action |-> action, from |-> NoPath, save |-> FALSE,
               path |-> NoPath, temp |-> FALSE, reg |-> NoPath, result |-> "none"]
      BY <3>1 DEF NewShot
    <3>3. wish = [e EXCEPT !.from = was]
      BY <1>4, <2>1, <3>1
    <3> QED
      BY <3>2, <3>3
  <2>3. shot' = [shot EXCEPT ![s] = IF from = NoPath \/ edit THEN [wish EXCEPT !.pc = "name", !.save = save]
                                                             ELSE [wish EXCEPT !.pc = "act", !.path = from]]
    BY <2>1 DEF ShotBegins
  <2>4. CASE from = NoPath \/ edit
    <3>1. PICK e : e = [wish EXCEPT !.pc = "name"]
      OBVIOUS
    <3>2. e = [pc |-> "name", action |-> action, from |-> was, save |-> FALSE,
               path |-> NoPath, temp |-> FALSE, reg |-> NoPath, result |-> "none"]
      BY <2>2, <3>1
    <3>3. PICK g : g = [e EXCEPT !.save = save]
      OBVIOUS
    <3>4. g = [pc |-> "name", action |-> action, from |-> was, save |-> save,
               path |-> NoPath, temp |-> FALSE, reg |-> NoPath, result |-> "none"]
      BY <3>2, <3>3
    <3>5. g = r
      BY <1>5, <1>6, <1>7, <1>8, <2>4, <3>4
    <3>6. shot' = [shot EXCEPT ![s] = g]
      BY <2>3, <2>4, <3>1, <3>3
    <3> QED
      BY <3>5, <3>6
  <2>5. CASE ~(from = NoPath \/ edit)
    <3>1. PICK e : e = [wish EXCEPT !.pc = "act"]
      OBVIOUS
    <3>2. e = [pc |-> "act", action |-> action, from |-> was, save |-> FALSE,
               path |-> NoPath, temp |-> FALSE, reg |-> NoPath, result |-> "none"]
      BY <2>2, <3>1
    <3>3. PICK g : g = [e EXCEPT !.path = from]
      OBVIOUS
    <3>4. g = [pc |-> "act", action |-> action, from |-> was, save |-> FALSE,
               path |-> from, temp |-> FALSE, reg |-> NoPath, result |-> "none"]
      BY <3>2, <3>3
    <3>5. g = r
      BY <1>5, <1>6, <1>7, <1>8, <2>5, <3>4
    <3>6. shot' = [shot EXCEPT ![s] = g]
      BY <2>3, <2>5, <3>1, <3>3
    <3> QED
      BY <3>5, <3>6
  <2> QED
    BY <2>4, <2>5
<1>10. /\ r.pc = pc /\ r.path = path /\ r.from = was /\ r.action = action /\ ~r.temp
       /\ r.reg = NoPath /\ r.result = "none"
  BY <1>8
<1>11. /\ pc \in {"name", "act"} /\ (pc = "name" => path = NoPath) /\ was \in {NoPath, Temp}
       /\ pc = "act" => path = from /\ path \in {Mine, Temp} /\ path # NoPath
       /\ path = Temp => was = Temp
  BY <1>4, <1>5, <1>6, PlacesAre
<1>12. ShotRules(r)
  <2>1. r \in ShotRecs
    BY <1>7, <1>8, <1>11, PlacesAre DEF ShotRecs, ShotPcs, ShotResults
  <2>2. PathFollows(r)
    BY <1>10, <1>11, PlacesAre DEF PathFollows
  <2> QED
    BY <1>10, <1>11, <2>1, <2>2 DEF ShotRules, RegFollows, ResultFollows
<1>13. /\ clash \subseteq clash' /\ clash' \subseteq Shooters
       /\ from # NoPath => \A t \in Shooters \ {s} : t \notin clash' \/ s \notin clash' =>
            disk[from].by # t /\ (Active(t) => shot[t].path # from)
  <2>1. CASE from = NoPath
    BY <1>3, <2>1 DEF ShotBegins
  <2>2. CASE from # NoPath
    BY <2>2, MeetsIs, PlacesAre DEF ShotBegins
  <2> QED
    BY <2>1, <2>2
<1>14. from = Temp => s \in clash'
  <2> SUFFICES ASSUME from = Temp, s \notin clash' PROVE FALSE
    OBVIOUS
  <2>1. disk[Temp] \in Files /\ disk[Temp] # Absent
    BY <1>2, <1>3, PlacesAre DEF There
  <2>2. disk[Temp].by \in Shooters \cup {"user"}
    BY <2>1 DEF Files
  <2>3. disk[Temp].by \in Shooters \ {s}
    BY <1>3, <2>2, PlacesAre DEF UserHasTwo
  <2> QED
    BY <1>13, <2>3, PlacesAre
<1>15. ShotGoes(s, r, r.path)
  BY <1>2, <1>3, <1>9, <1>12, <1>13 DEF ShotGoes
<1>16. Avoids(s, r)
  <2>1. ASSUME NEW t \in Shooters \ {s}, t \notin clash', r.path \in Written
        PROVE  (Active(t) => shot[t].path # r.path) /\ disk'[r.path].by # t
    <3>1. r.path = Temp /\ from = Temp /\ from # NoPath
      BY <1>10, <1>11, <2>1, PlacesAre
    <3> QED
      BY <1>2, <1>13, <2>1, <3>1
  <2>2. ASSUME s \notin clash', NEW u \in Shooters \ {s}, Active(u), shot[u].path \in Written
        PROVE  shot[u].path # r.path /\ disk'[shot[u].path].by # s
    <3>1. r.path \notin Written
      BY <1>10, <1>11, <1>14, <2>2, PlacesAre
    <3> QED
      BY <1>2, <1>3, <2>2, <3>1, PlacesAre
  <2> QED
    BY <2>1, <2>2 DEF Avoids
<1>17. PreviewOk(r, s)'
  BY <1>10, <1>11 DEF PreviewOk
<1>18. s \notin clash' => FileKept(r, s)'
  BY <1>4, <1>10, <1>11, <1>14, PlacesAre DEF FileKept
<1> QED
  BY <1>15, <1>16, <1>17, <1>18, ShotGoesOn

LEMMA InitShot == ShotInit => ShotInv
<1> SUFFICES ASSUME ShotInit PROVE ShotInv
  OBVIOUS
<1>1. /\ shot = [s \in Shooters |-> NewShot] /\ previews = {} /\ clash = {}
      /\ disk = [p \in Places |-> IF p \in {Mine, 0} THEN Whole("user") ELSE Absent]
  BY DEF ShotInit
<1>2. ShotRules(NewShot)
  <2>1. NewShot \in ShotRecs
    BY DEF NewShot, ShotRecs, ShotPcs, ShotResults
  <2> QED
    BY <2>1, PlacesAre DEF NewShot, ShotRules, RegFollows, PathFollows, ResultFollows
<1>3. Whole("user") \in Files /\ disk \in [Places -> Files]
  BY <1>1, WritersAre DEF Files, Whole
<1>4. UserHasTwo /\ UserKeeps
  BY <1>1, WritersAre, PlacesAre DEF UserHasTwo, UserKeeps
<1>5. \A p \in Places : disk[p].by \in {"user", "nobody"}
  BY <1>1, WritersAre
<1>6. ASSUME NEW s \in Shooters
      PROVE  ShotRules(shot[s]) /\ PreviewOk(shot[s], s) /\ WriterHasPath(s) /\ FileKept(shot[s], s)
  <2>1. shot[s] = NewShot /\ NewShot.pc = "idle" /\ NewShot.from = NoPath /\ NoPath # Temp
    BY <1>1, PlacesAre DEF NewShot
  <2> QED
    BY <1>2, <1>5, <2>1, WritersAre DEF PreviewOk, WriterHasPath, FileKept
<1>7. \A s, t \in Shooters : Apart(s, t)
  BY <1>1 DEF Apart, Active, NewShot
<1>8. shot \in [Shooters -> ShotRecs] /\ clash \subseteq Shooters
  BY <1>1, <1>2 DEF ShotRules
<1> QED
  BY <1>3, <1>4, <1>6, <1>7, <1>8 DEF ShotInv

LEMMA NextShot == ShotInv /\ [ShotNext]_shotVars => ShotInv'
<1> SUFFICES ASSUME ShotInv, [ShotNext]_shotVars PROVE ShotInv'
  OBVIOUS
<1>1. CASE UNCHANGED shotVars
  BY <1>1 DEF ShotInv, shotVars, ShotRules, RegFollows, PathFollows, ResultFollows, PreviewOk, FileKept,
              WriterHasPath, UserHasTwo, UserKeeps, Apart, Active
<1>2. ASSUME NEW s \in Shooters,
             \E action \in {"upload", "copy", "save", "pin", "ocr"}, from \in {NoPath, Mine, Temp},
                edit, save \in BOOLEAN :
               /\ IF from = NoPath THEN ~edit ELSE (action = "save" => edit) /\ (edit => from = Temp)
               /\ save => action \in {"upload", "copy", "pin"} /\ (from = NoPath \/ edit)
               /\ ShotBegins(s, action, from, edit, save)
      PROVE  ShotInv'
  BY <1>2, BeginsKeeps
<1>3. ASSUME NEW s \in Shooters,
             \/ ShotRefused(s) \/ ShotDiscards(s) \/ ShotOutputs(s) \/ OcrShown(s)
             \/ OcrEnds(s) \/ ShotReleases(s) \/ ShotSignalled(s) \/ ShotKilled(s)
      PROVE  ShotInv'
  BY <1>3, RefusedKeeps, DiscardsKeeps, OutputsKeeps, ShownKeeps, OcrEndsKeeps, ReleasesKeeps,
     SignalledKeeps, KilledKeeps
<1>4. ASSUME NEW s \in Shooters,
             \/ ShotNames(s) \/ ShotOpens(s) \/ (\E preview \in BOOLEAN : ShotWritten(s, preview))
             \/ UploadFails(s) \/ ShotSucceeds(s) \/ CopyFails(s) \/ (\E ok \in BOOLEAN : ShotPins(s, ok))
             \/ (\E some \in BOOLEAN : OcrReads(s, some)) \/ OcrCard(s)
      PROVE  ShotInv'
  BY <1>4, NamesKeeps, OpensKeeps, WrittenKeeps, UploadFailsKeeps, ReportingSteps, OcrReadsKeeps, CardKeeps
<1> QED
  BY <1>1, <1>2, <1>3, <1>4 DEF ShotNext

LEMMA ShotInvMeans == ShotInv => CapturesAreKept
<1> SUFFICES ASSUME ShotInv PROVE CapturesAreKept
  OBVIOUS
<1>1. disk[Mine] = Whole("user") /\ disk[0] = Whole("user")
  BY DEF ShotInv, UserKeeps
<1>2. ASSUME NEW s \in Shooters \ clash, shot[s].pc = "gone"
      PROVE  LET c == shot[s] IN
             /\ c.result = "ok" /\ c.path \in Numbers => disk[c.path] = Whole(s)
             /\ c.result = "kept" => disk[c.path] = Whole(s)
             /\ c.result \in {"ok", "failed", "signalled"} /\ c.path = Temp =>
                  disk[Temp].by # s \/ c.from = Temp \/ (c.result = "signalled" /\ c.action = "ocr")
             /\ s \in previews /\ c.result = "ok" => c.action \in {"pin", "ocr"}
  <2>1. FileKept(shot[s], s) /\ PreviewOk(shot[s], s)
    BY <1>2 DEF ShotInv
  <2> QED
    BY <1>2, <2>1 DEF FileKept, PreviewOk
<1> QED
  BY <1>1, <1>2 DEF CapturesAreKept

\* No order of captures, failures, cancelled selections and signals costs a
\* picture of the user's, and a command that met nobody leaves what it says it
\* leaves: its picture, the capture of a failed upload, and no other temporary
\* file (actions.c:91, paths.c:276); for any number of invocations, as long as
\* there are more numbers than invocations.
THEOREM PicturesSurvive == CommandsSpec => []CapturesAreKept
<1>1. CommandsInit => ShotInv
  BY InitShot DEF CommandsInit
<1>2. [CommandsNext]_commandsVars => [ShotNext]_shotVars
  BY DEF CommandsNext, Only, commandsVars
<1> QED
  BY <1>1, <1>2, NextShot, ShotInvMeans, PTL DEF CommandsSpec

-----------------------------------------------------------------------------
(* The settings.  An invocation that has read a file works on what that file *)
(* still says, unless it has it stale: SetInv says of each what it would     *)
(* write, and of the files what that leaves of the changes made so far.      *)

EditorPcs == {"idle", "aside", "seed", "overlay", "migrate", "select", "watch", "unset", "read", "rename",
              "clear", "clearing", "cleared", "gone"}
Values  == [Keys -> Nat]
Confs   == [is : {"absent", "bad", "ok"}, lines : BOOLEAN, v : Values]
Editing == [pc : EditorPcs, job : {"none", "set", "unset", "watch", "capture"}, key : Keys, mem : Values,
            read : Confs, stale : SUBSET (Keys \cup {"lines"})]

\* Where a job may be, and that only a capture has seen the state keys.
JobRules(e) ==
  /\ e.pc \in {"idle", "gone"} <=> e.job = "none"
  /\ e.job = "capture" <=> e.key = "r"
  /\ e.pc \in {"overlay", "migrate", "select"} => e.job = "capture"
  /\ e.pc = "watch" => e.job = "watch"
  /\ e.pc = "unset" => e.job = "unset"
  /\ e.job = "watch" => e.key = "k"
  /\ e.pc \in {"read", "rename"} => e.job \in {"set", "unset", "watch"}
  /\ e.pc \in {"clear", "clearing", "cleared"} => e.job \in {"set", "unset"} /\ e.key = "s"
  /\ e.pc \notin {"migrate", "select"} => e.mem["r"] = 0
  /\ e.pc = "rename" => e.read.is = "ok" /\ e.read.v["r"] = 0
ConfRules ==
  /\ conf \in Confs /\ conf.v["r"] = 0
  /\ conf.is # "ok" => conf.v = Nothing
  /\ conf.is = "absent" => ~conf.lines
  /\ conf.is = "bad" => conf.lines

\* The user's own lines, and where each invocation gets them from.
LinesAre == conf.lines \/ broken \/ "lines" \in unsure
LinesOf(e) ==
  /\ e.pc = "aside"  => conf.lines \/ "lines" \in e.stale
  /\ e.pc = "seed"   => broken \/ "lines" \in unsure \cup e.stale
  /\ e.pc = "rename" => e.read.lines \/ broken \/ "lines" \in unsure

\* What e would make of the keys it does not change.
Puts(e)     == IF e.pc = "rename" THEN e.read.v ELSE Nothing
Fresh(e, key) == key \notin e.stale \cup unsure
Plain       == {"u", "k"}
PlainIs     == \A key \in Plain \ unsure : conf.v[key] = want[key]
PlainOf(e)  == e.pc \in InConf => \A key \in Plain : Fresh(e, key) => Puts(e)[key] = want[key]

RegionIs    == "r" \in unsure \/ state["r"] = want["r"]
RegionOf(e) ==
  Fresh(e, "r") => /\ e.pc \in {"migrate", "select"} => e.mem["r"] = want["r"]
                   /\ e.pc = "clearing" => e.read.v["r"] = want["r"]

\* The key in both files: a `set` that has yet to clear the state, an `unset` that
\* has cleared it, and when a value in config.toml does not show.
Clears(e) == e.job \in {"set", "watch"} /\ e.pc \in {"clear", "clearing"}
Undoes(e) == e.job = "unset" /\ e.key = "s" /\ e.pc \in {"cleared", "read", "rename"}
Undoing   == \E x \in Editors : Undoes(editor[x])
Hidden    == state["s"] # 0 \/ Undoing

ColorIs ==
  "s" \notin unsure /\ ~Undoing /\ (\A x \in Editors : ~Clears(editor[x])) => Effective("s") = want["s"]
ClearOf(x) == Clears(editor[x]) /\ Fresh(editor[x], "s") => conf.v["s"] = OwnValue[x]
UndoOf(e)  == Undoes(e) /\ "s" \notin e.stale => state["s"] = 0
PutOf(e)   == e.pc \in InConf /\ Fresh(e, "s") => Puts(e)["s"] = conf.v["s"] \/ Hidden
MemOf(e) ==
  Fresh(e, "s") => /\ e.pc = "overlay" => e.mem["s"] = conf.v["s"] \/ Hidden
                   /\ e.pc \in {"migrate", "select"} => e.mem["s"] = Effective("s") \/ Undoing
\* What one puts does not show after the other has cleared the state.
PutBeside(x, z) ==
  editor[x].pc \in InConf /\ Clears(editor[z]) /\ Fresh(editor[x], "s") /\ "s" \notin editor[z].stale =>
    Puts(editor[x])["s"] = conf.v["s"]

FilesOk ==
  /\ ConfRules /\ broken \in BOOLEAN /\ state \in Values /\ want \in Values
  /\ unsure \subseteq Keys \cup {"lines"}
  /\ LinesAre /\ PlainIs /\ RegionIs /\ ColorIs
EditorOk(x) ==
  /\ JobRules(editor[x]) /\ LinesOf(editor[x]) /\ PlainOf(editor[x]) /\ RegionOf(editor[x])
  /\ ClearOf(x) /\ UndoOf(editor[x]) /\ PutOf(editor[x]) /\ MemOf(editor[x])
SetInv ==
  /\ FilesOk /\ editor \in [Editors -> Editing] /\ \A x \in Editors : EditorOk(x)
  /\ \A x, z \in Editors : PutBeside(x, z)

LEMMA KeysAre ==
  /\ Keys = {"u", "k", "s", "r"} /\ StateKeys = {"s", "r"} /\ InConf # InState
  /\ InConf = {"aside", "seed", "rename"}
  /\ InState = {"overlay", "migrate", "select", "clear", "clearing", "cleared"}
  /\ Nothing \in Values /\ \A key \in Keys : Nothing[key] = 0
  /\ \A w \in Editors : OwnValue[w] \in Nat \ {0}
<1>1. "aside" \in InConf /\ "aside" \notin InState
  BY DEF InConf, InState
<1> QED
  BY <1>1, SettingsAssumption DEF Keys, StateKeys, InConf, InState, Nothing, Values

\* d is e but for what it has stale; whoever is about to write config.toml has
\* cs stale, whoever looks at the state ss.
Follows(d, e, cs, ss) ==
  /\ d \in Editing /\ d.pc = e.pc /\ d.job = e.job /\ d.key = e.key /\ d.mem = e.mem /\ d.read = e.read
  /\ e.stale \subseteq d.stale
  /\ e.pc \in InConf => cs \subseteq d.stale
  /\ e.pc \in {"aside", "seed"} /\ cs # {} => "lines" \in d.stale
  /\ e.pc \in InState \/ e.job = "unset" => ss \subseteq d.stale

\* What a step of w may do without harm to the others.
Spares(w, cs, ss) ==
  /\ \A x \in Editors \ {w} : Follows(editor'[x], editor[x], cs, ss)
  /\ cs # {} \/ (conf' = conf /\ broken' = broken)
  /\ "lines" \in unsure => "lines" \in unsure'
  /\ broken => broken' \/ "lines" \in unsure'
  /\ \A key \in Plain : key \in cs \/ (want'[key] = want[key] /\ (key \in unsure => key \in unsure'))
  /\ "r" \in ss \/ (want'["r"] = want["r"] /\ ("r" \in unsure => "r" \in unsure'))
  /\ "s" \in ss \/ state'["s"] = state["s"] \/ state'["s"] = 0
  /\ "s" \notin unsure' /\ "s" \notin ss =>
       /\ "s" \notin unsure /\ (Undoing => Undoing')
       /\ \A z \in Editors \ {w} : Clears(editor[z]) /\ "s" \notin editor[z].stale => conf'.v["s"] = conf.v["s"]
       /\ Hidden' \/ (conf'.v["s"] = conf.v["s"] /\ ~Hidden)
       /\ Undoing' \/ Effective("s")' = Effective("s")
  /\ "s" \notin unsure' /\ "s" \notin cs =>
       Hidden' \/ (/\ "s" \notin unsure /\ conf'.v["s"] = conf.v["s"]
                   /\ ~Hidden \/ (Clears(editor[w]) /\ "s" \notin editor[w].stale))

LEMMA OthersOk ==
  ASSUME SetInv, NEW w \in Editors, NEW cs, NEW ss, Spares(w, cs, ss)
  PROVE  /\ \A x \in Editors \ {w} : EditorOk(x)'
         /\ \A x, z \in Editors \ {w} : PutBeside(x, z)'
<1>1. ASSUME NEW x \in Editors \ {w} PROVE EditorOk(x)'
  <2>1. PICK e \in Editing : e = editor[x]
    BY DEF SetInv
  <2>2. PICK d \in Editing : d = editor'[x] /\ Follows(d, e, cs, ss)
    BY <2>1 DEF Spares, Follows
  <2>3. /\ JobRules(e) /\ LinesOf(e) /\ PlainOf(e) /\ RegionOf(e)
        /\ ClearOf(x) /\ UndoOf(e) /\ PutOf(e) /\ MemOf(e)
    BY <2>1 DEF SetInv, EditorOk
  <2>4. /\ d.pc = e.pc /\ d.job = e.job /\ d.key = e.key /\ d.mem = e.mem /\ d.read = e.read
        /\ e.stale \subseteq d.stale
    BY <2>2 DEF Follows
  <2>5. JobRules(d)
    BY <2>3, <2>4 DEF JobRules
  <2>6. LinesOf(d)'
    BY <2>2, <2>3, <2>4 DEF LinesOf, Spares, Follows
  <2>7. PlainOf(d)'
    <3>1. Puts(d) = Puts(e)
      BY <2>4 DEF Puts
    <3> QED
      BY <2>2, <2>3, <2>4, <3>1 DEF PlainOf, Spares, Follows, Fresh
  <2>8. RegionOf(d)'
    BY <2>2, <2>3, <2>4, KeysAre DEF RegionOf, Spares, Follows, Fresh
  <2>9. ClearOf(x)'
    BY <2>1, <2>2, <2>3, <2>4, KeysAre DEF ClearOf, Clears, Spares, Follows, Fresh
  <2>10. UndoOf(d)'
    BY <2>2, <2>3, <2>4 DEF UndoOf, Undoes, Spares, Follows
  <2>11. PutOf(d)'
    <3>1. Puts(d) = Puts(e)
      BY <2>4 DEF Puts
    <3>2. SUFFICES ASSUME d.pc \in InConf, Fresh(d, "s")', ~Hidden'
                   PROVE  Puts(d)["s"] = conf'.v["s"]
      BY DEF PutOf
    <3>3. "s" \notin cs /\ "s" \notin unsure' /\ "s" \notin e.stale
      BY <2>2, <2>4, <3>2 DEF Follows, Fresh
    <3>4. /\ "s" \notin unsure /\ conf'.v["s"] = conf.v["s"]
          /\ ~Hidden \/ (Clears(editor[w]) /\ "s" \notin editor[w].stale)
      BY <3>2, <3>3 DEF Spares
    <3>5. Fresh(e, "s") /\ e.pc \in InConf
      BY <2>4, <3>2, <3>3, <3>4 DEF Fresh
    <3>6. PutBeside(x, w)
      BY DEF SetInv
    <3> QED
      BY <2>1, <2>3, <3>1, <3>4, <3>5, <3>6 DEF PutOf, PutBeside
  <2>12. MemOf(d)'
    <3>1. SUFFICES ASSUME Fresh(d, "s")', d.pc \in {"overlay", "migrate", "select"}
                   PROVE  /\ d.pc = "overlay" => d.mem["s"] = conf'.v["s"] \/ Hidden'
                          /\ d.pc \in {"migrate", "select"} => d.mem["s"] = Effective("s")' \/ Undoing'
      BY DEF MemOf
    <3>2. "s" \notin ss /\ "s" \notin unsure' /\ "s" \notin e.stale
      BY <2>2, <2>4, <3>1, KeysAre DEF Follows, Fresh
    <3>3. Fresh(e, "s")
      BY <3>2 DEF Spares, Fresh
    <3> QED
      BY <2>3, <2>4, <3>2, <3>3 DEF Spares, MemOf
  <2> QED
    BY <2>2, <2>5, <2>6, <2>7, <2>8, <2>9, <2>10, <2>11, <2>12
    DEF EditorOk, JobRules, LinesOf, PlainOf, RegionOf, UndoOf, PutOf, MemOf, Puts, Fresh, Undoes
<1>2. ASSUME NEW x \in Editors \ {w}, NEW z \in Editors \ {w} PROVE PutBeside(x, z)'
  <2>1. PutBeside(x, z) /\ Follows(editor'[x], editor[x], cs, ss) /\ Follows(editor'[z], editor[z], cs, ss)
    BY DEF SetInv, Spares
  <2>2. Puts(editor'[x]) = Puts(editor[x])
    BY <2>1 DEF Puts, Follows
  <2>3. SUFFICES ASSUME editor'[x].pc \in InConf, Clears(editor'[z]), Fresh(editor[x], "s")', "s" \notin editor'[z].stale
                 PROVE  Puts(editor'[x])["s"] = conf'.v["s"]
    BY DEF PutBeside, Clears, Puts
  <2>4. /\ editor[x].pc \in InConf /\ Clears(editor[z]) /\ "s" \notin editor[x].stale /\ "s" \notin editor[z].stale
        /\ "s" \notin ss /\ "s" \notin unsure'
    BY <2>1, <2>3, KeysAre DEF Follows, Clears, Fresh
  <2>5. "s" \notin unsure /\ conf'.v["s"] = conf.v["s"]
    BY <2>4 DEF Spares
  <2> QED
    BY <2>1, <2>2, <2>4, <2>5 DEF PutBeside, Fresh
<1> QED
  BY <1>1, <1>2

LEMMA FollowsItself ==
  ASSUME SetInv, NEW x \in Editors
  PROVE  Follows(editor[x], editor[x], {}, {})
BY DEF SetInv, Follows

LEMMA StalesConf ==
  ASSUME SetInv, NEW w \in Editors, NEW e \in [Editors -> Editing], NEW cs, NEW ss, NEW keys \in SUBSET Keys,
         \A x \in Editors \ {w} : Follows(e[x], editor[x], cs, ss),
         NEW d, d = Stales(e, w, keys, InConf)
  PROVE  /\ d \in [Editors -> Editing] /\ d[w] = e[w]
         /\ \A x \in Editors \ {w} : Follows(d[x], editor[x], cs \cup keys, ss)
<1>1. ASSUME NEW x \in Editors \ {w}
      PROVE  d[x] \in Editing /\ Follows(d[x], editor[x], cs \cup keys, ss)
  <2>1. PICK f \in Editing : f = e[x] /\ Follows(f, editor[x], cs, ss)
    OBVIOUS
  <2>2. d[x] = IF editor[x].pc \in InConf
               THEN [f EXCEPT !.stale = @ \cup keys \cup IF editor[x].pc \in {"aside", "seed"} THEN {"lines"} ELSE {}]
               ELSE f
    BY <2>1, KeysAre DEF Stales
  <2>3. CASE editor[x].pc \notin InConf
    BY <2>1, <2>2, <2>3, KeysAre DEF Follows
  <2>4. CASE editor[x].pc \in InConf
    <3>1. PICK stale : stale = f.stale \cup keys \cup IF editor[x].pc \in {"aside", "seed"} THEN {"lines"} ELSE {}
      OBVIOUS
    <3>2. PICK g : g = [f EXCEPT !.stale = stale]
      OBVIOUS
    <3>3. d[x] = g
      BY <2>2, <2>4, <3>1, <3>2
    <3>4. stale \in SUBSET (Keys \cup {"lines"}) /\ f.stale \subseteq stale /\ keys \subseteq stale
      BY <3>1 DEF Editing
    <3>5. /\ g \in Editing /\ g.pc = f.pc /\ g.job = f.job /\ g.key = f.key /\ g.mem = f.mem /\ g.read = f.read
          /\ g.stale = stale
      BY <3>2, <3>4 DEF Editing
    <3> QED
      BY <2>1, <2>4, <3>1, <3>3, <3>4, <3>5 DEF Follows
  <2> QED
    BY <2>3, <2>4
<1>2. d[w] = e[w] /\ d = [x \in Editors |-> d[x]]
  BY DEF Stales
<1> QED
  BY <1>1, <1>2

LEMMA StalesState ==
  ASSUME SetInv, NEW w \in Editors, NEW e \in [Editors -> Editing], NEW cs, NEW ss, NEW keys \in SUBSET Keys,
         \A x \in Editors \ {w} : Follows(e[x], editor[x], cs, ss),
         NEW d, d = Stales(e, w, keys, InState)
  PROVE  /\ d \in [Editors -> Editing] /\ d[w] = e[w]
         /\ \A x \in Editors \ {w} : Follows(d[x], editor[x], cs, ss \cup keys)
<1>1. ASSUME NEW x \in Editors \ {w}
      PROVE  d[x] \in Editing /\ Follows(d[x], editor[x], cs, ss \cup keys)
  <2>1. PICK f \in Editing : f = e[x] /\ Follows(f, editor[x], cs, ss)
    OBVIOUS
  <2>2. d[x] = IF editor[x].pc \in InState \/ editor[x].job = "unset"
               THEN [f EXCEPT !.stale = @ \cup keys \cup IF editor[x].pc \in {"aside", "seed"} THEN {"lines"} ELSE {}]
               ELSE f
    BY <2>1, KeysAre DEF Stales
  <2>3. CASE ~(editor[x].pc \in InState \/ editor[x].job = "unset")
    BY <2>1, <2>2, <2>3 DEF Follows
  <2>4. CASE editor[x].pc \in InState \/ editor[x].job = "unset"
    <3>1. PICK stale : stale = f.stale \cup keys \cup IF editor[x].pc \in {"aside", "seed"} THEN {"lines"} ELSE {}
      OBVIOUS
    <3>2. PICK g : g = [f EXCEPT !.stale = stale]
      OBVIOUS
    <3>3. d[x] = g
      BY <2>2, <2>4, <3>1, <3>2
    <3>4. stale \in SUBSET (Keys \cup {"lines"}) /\ f.stale \subseteq stale /\ keys \subseteq stale
      BY <3>1 DEF Editing
    <3>5. /\ g \in Editing /\ g.pc = f.pc /\ g.job = f.job /\ g.key = f.key /\ g.mem = f.mem /\ g.read = f.read
          /\ g.stale = stale
      BY <3>2, <3>4 DEF Editing
    <3> QED
      BY <2>1, <3>3, <3>4, <3>5 DEF Follows
  <2> QED
    BY <2>3, <2>4
<1>2. d[w] = e[w] /\ d = [x \in Editors |-> d[x]]
  BY DEF Stales
<1> QED
  BY <1>1, <1>2

\* The files stay as they are.
LEMMA CalmStep ==
  ASSUME SetInv, NEW w \in Editors, NEW r \in Editing, editor' = [editor EXCEPT ![w] = r],
         UNCHANGED <<conf, broken, state>>, unsure \subseteq unsure', unsure' \subseteq Keys \cup {"lines"},
         want' \in Values, \A key \in Keys \ {"s"} : want'[key] = want[key],
         JobRules(r), LinesOf(r)', PlainOf(r)', RegionOf(r)', MemOf(r)', ColorIs',
         "s" \notin unsure' /\ Undoes(editor[w]) => Undoes(r),
         Clears(r) /\ "s" \notin r.stale => Clears(editor[w]) /\ "s" \notin editor[w].stale,
         Undoes(r) /\ "s" \notin r.stale => state["s"] = 0,
         r.pc \in InConf /\ Fresh(r, "s")' => Puts(r)["s"] = conf.v["s"]
  PROVE  SetInv'
<1>1. editor \in [Editors -> Editing] /\ FilesOk /\ ClearOf(w)
  BY DEF SetInv, EditorOk
<1>2. /\ editor' \in [Editors -> Editing] /\ editor'[w] = r
      /\ \A x \in Editors \ {w} : editor'[x] = editor[x]
  BY <1>1
<1>3. "s" \notin unsure' => (Undoing => Undoing') /\ (Hidden => Hidden')
  BY <1>2 DEF Undoing, Hidden
<1>4. Effective("s")' = Effective("s") /\ (Hidden' => state["s"] # 0 \/ Undoing')
  BY DEF Effective, Hidden
<1>5. Spares(w, {}, {})
  <2>1. \A x \in Editors \ {w} : Follows(editor'[x], editor[x], {}, {})
    BY <1>2, FollowsItself
  <2> QED
    BY <1>3, <1>4, <2>1 DEF Spares, Plain, Keys
<1>6. EditorOk(w)'
  <2>1. JobRules(editor[w])' /\ LinesOf(editor[w])' /\ PlainOf(editor[w])' /\ RegionOf(editor[w])' /\ MemOf(editor[w])'
    BY <1>2 DEF JobRules, LinesOf, PlainOf, RegionOf, MemOf, Puts, Fresh
  <2>2. ClearOf(w)'
    BY <1>1, <1>2 DEF ClearOf, Clears, Fresh
  <2>3. UndoOf(editor[w])'
    BY <1>2 DEF UndoOf, Undoes
  <2>4. PutOf(editor[w])'
    BY <1>2 DEF PutOf, Puts, Fresh
  <2> QED
    BY <2>1, <2>2, <2>3, <2>4 DEF EditorOk
<1>7. ASSUME NEW x \in Editors PROVE PutBeside(x, w)' /\ PutBeside(w, x)'
  <2>1. PutBeside(w, x)'
    BY <1>2 DEF PutBeside, Puts, Fresh
  <2>2. x # w => PutBeside(x, w)'
    <3>1. PutBeside(x, w)
      BY DEF SetInv
    <3> QED
      BY <1>2, <3>1 DEF PutBeside, Puts, Fresh, Clears
  <2> QED
    BY <2>1, <2>2
<1>8. FilesOk'
  <2>1. ConfRules' /\ LinesAre' /\ PlainIs' /\ RegionIs'
    BY <1>1, KeysAre DEF FilesOk, ConfRules, LinesAre, PlainIs, RegionIs, Plain
  <2> QED
    BY <1>1, <2>1 DEF FilesOk
<1> QED
  BY <1>2, <1>5, <1>6, <1>7, <1>8, OthersOk DEF SetInv

Gone == [pc |-> "gone", job |-> "none", key |-> "u", mem |-> Nothing, read |-> NoConf, stale |-> {}]

LEMMA GoneIs ==
  /\ Gone \in Editing /\ JobRules(Gone) /\ ~Clears(Gone) /\ ~Undoes(Gone) /\ Gone.pc = "gone"
  /\ Gone.stale = {} /\ \A w \in Editors : Leaves(w) = [editor EXCEPT ![w] = Gone]
<1>1. NoConf \in Confs /\ Nothing \in Values
  BY KeysAre DEF NoConf, Confs
<1>2. [NewEditor EXCEPT !.pc = "gone"] = Gone
  BY DEF NewEditor, Gone
<1>3. Gone \in Editing
  BY <1>1, KeysAre DEF Gone, Editing, EditorPcs
<1>4. JobRules(Gone)
  BY KeysAre DEF Gone, JobRules
<1> QED
  BY <1>2, <1>3, <1>4 DEF Gone, Clears, Undoes, Leaves

LEMMA LeaveStep ==
  ASSUME SetInv, NEW w \in Editors, editor' = Leaves(w), UNCHANGED <<conf, broken, state, want>>,
         unsure \subseteq unsure', unsure' \subseteq Keys \cup {"lines"},
         "s" \notin unsure' => ~Undoes(editor[w]) /\ ~Clears(editor[w])
  PROVE  SetInv'
<1>1. editor \in [Editors -> Editing] /\ FilesOk
  BY DEF SetInv
<1>2. PICK r : r = Gone
  OBVIOUS
<1>3. /\ r \in Editing /\ JobRules(r) /\ ~Clears(r) /\ ~Undoes(r) /\ r.pc = "gone"
      /\ editor' = [editor EXCEPT ![w] = r]
  BY <1>2, GoneIs
<1>4. LinesOf(r)' /\ PlainOf(r)' /\ RegionOf(r)' /\ MemOf(r)' /\ r.pc \notin InConf
  BY <1>3, KeysAre DEF LinesOf, PlainOf, RegionOf, MemOf
<1>5. ColorIs'
  <2>1. /\ "s" \notin unsure' => (Undoing => Undoing')
        /\ "s" \notin unsure' => \A x \in Editors : Clears(editor[x]) => Clears(editor'[x])
    BY <1>1, <1>3 DEF Undoing
  <2> QED
    BY <1>1, <2>1 DEF FilesOk, ColorIs, Effective, Clears
<1>6. want' \in Values
  BY <1>1 DEF FilesOk
<1> QED
  BY <1>3, <1>4, <1>5, <1>6, CalmStep

\* What is known of invocation w.
LEMMA EditorIs ==
  ASSUME SetInv, NEW w \in Editors
  PROVE  \E e \in Editing : /\ e = editor[w] /\ JobRules(e) /\ LinesOf(e) /\ PlainOf(e) /\ RegionOf(e)
                            /\ UndoOf(e) /\ PutOf(e) /\ MemOf(e)
                            /\ Clears(e) /\ Fresh(e, "s") => conf.v["s"] = OwnValue[w]
BY DEF SetInv, EditorOk, ClearOf

LEMMA ColorStays ==
  ASSUME SetInv, NEW w \in Editors, NEW r, editor' = [editor EXCEPT ![w] = r],
         UNCHANGED <<conf, state, want>>, unsure \subseteq unsure',
         "s" \notin unsure' /\ Undoes(editor[w]) => Undoes(r),
         "s" \notin unsure' /\ Clears(editor[w]) => Clears(r)
  PROVE  ColorIs'
<1>1. editor \in [Editors -> Editing] /\ ColorIs
  BY DEF SetInv, FilesOk
<1>2. /\ "s" \notin unsure' => (Undoing => Undoing')
      /\ "s" \notin unsure' => \A x \in Editors : Clears(editor[x]) => Clears(editor'[x])
  BY <1>1 DEF Undoing
<1> QED
  BY <1>1, <1>2 DEF ColorIs, Effective, Clears

LEMMA LoadReadsKeeps ==
  ASSUME SetInv, NEW w \in Editors, NEW job \in {"set", "unset", "watch", "capture"}, NEW key \in Keys,
         job = "capture" <=> key = "r", job = "watch" => key = "k", LoadReads(w, job, key)
  PROVE  SetInv'
<1>1. PICK e \in Editing : /\ e = editor[w] /\ JobRules(e) /\ LinesOf(e) /\ PlainOf(e) /\ RegionOf(e)
                           /\ UndoOf(e) /\ PutOf(e) /\ MemOf(e)
                           /\ Clears(e) /\ Fresh(e, "s") => conf.v["s"] = OwnValue[w]
  BY EditorIs
<1>2. editor \in [Editors -> Editing] /\ FilesOk /\ conf \in Confs /\ e.pc = "idle"
  BY <1>1 DEF SetInv, FilesOk, ConfRules, LoadReads, Does
<1>3. PICK pc : pc = CASE conf.is = "absent" -> "seed" [] conf.is = "bad" -> "aside" [] OTHER -> Loaded(job)
  OBVIOUS
<1>4. /\ conf.is = "absent" => pc = "seed"
      /\ conf.is = "bad" => pc = "aside"
      /\ conf.is = "ok" /\ job = "capture" => pc = "overlay"
      /\ conf.is = "ok" /\ job = "watch" => pc = "watch"
      /\ conf.is = "ok" /\ job = "unset" => pc = "unset"
      /\ conf.is = "ok" /\ job = "set" => pc = "read"
      /\ conf.is \in {"absent", "bad", "ok"}
  BY <1>2, <1>3 DEF Loaded, Confs
<1>5. PICK a : a = [e EXCEPT !.job = job]
  OBVIOUS
<1>6. PICK b : b = [a EXCEPT !.key = key]
  OBVIOUS
<1>7. PICK c : c = [b EXCEPT !.mem = conf.v]
  OBVIOUS
<1>8. PICK r : r = [c EXCEPT !.pc = pc]
  OBVIOUS
<1>9. r = [pc |-> pc, job |-> job, key |-> key, mem |-> conf.v, read |-> e.read, stale |-> e.stale]
  <2>1. e = [pc |-> e.pc, job |-> e.job, key |-> e.key, mem |-> e.mem, read |-> e.read, stale |-> e.stale]
    BY DEF Editing
  <2>2. a = [pc |-> e.pc, job |-> job, key |-> e.key, mem |-> e.mem, read |-> e.read, stale |-> e.stale]
    BY <1>5, <2>1
  <2>3. b = [pc |-> e.pc, job |-> job, key |-> key, mem |-> e.mem, read |-> e.read, stale |-> e.stale]
    BY <1>6, <2>2
  <2>4. c = [pc |-> e.pc, job |-> job, key |-> key, mem |-> conf.v, read |-> e.read, stale |-> e.stale]
    BY <1>7, <2>3
  <2> QED
    BY <1>8, <2>4
<1>10. editor' = [editor EXCEPT ![w] = r]
  BY <1>1, <1>2, <1>3, <1>5, <1>6, <1>7, <1>8 DEF LoadReads
<1>11. /\ r.pc = pc /\ r.job = job /\ r.key = key /\ r.mem = conf.v /\ r.read = e.read /\ r.stale = e.stale
       /\ r.pc \in {"seed", "aside", "overlay", "watch", "unset", "read"}
  BY <1>4, <1>9
<1>12. r \in Editing
  BY <1>2, <1>9, <1>11 DEF Editing, EditorPcs, Confs
<1>13. JobRules(r)
  BY <1>2, <1>4, <1>11 DEF JobRules, FilesOk, ConfRules
<1>14. UNCHANGED <<conf, broken, state, want, unsure>>
  BY DEF LoadReads
<1>15. r.pc \in InConf => Puts(r) = conf.v
  BY <1>2, <1>4, <1>11, KeysAre DEF Puts, FilesOk, ConfRules
<1>16. LinesOf(r)'
  BY <1>2, <1>4, <1>11, <1>14 DEF LinesOf, FilesOk, ConfRules, LinesAre
<1>17. PlainOf(r)'
  BY <1>2, <1>11, <1>14, <1>15 DEF PlainOf, FilesOk, PlainIs, Fresh, Puts
<1>18. RegionOf(r)' /\ MemOf(r)' /\ ~Clears(r) /\ ~Undoes(e) /\ ~Clears(e)
  BY <1>2, <1>11, <1>14 DEF RegionOf, MemOf, Clears, Undoes
<1>19. ~Undoes(r)
  BY <1>4, <1>11 DEF Undoes
<1>20. ColorIs'
  BY <1>1, <1>10, <1>14, <1>18, ColorStays
<1> QED
  BY <1>1, <1>2, <1>10, <1>12, <1>13, <1>14, <1>15, <1>16, <1>17, <1>18, <1>19, <1>20, CalmStep DEF FilesOk

LEMMA OverlaysKeeps ==
  ASSUME SetInv, NEW w \in Editors, CaptureOverlays(w) PROVE SetInv'
<1>1. PICK e \in Editing : /\ e = editor[w] /\ JobRules(e) /\ LinesOf(e) /\ PlainOf(e) /\ RegionOf(e)
                           /\ UndoOf(e) /\ PutOf(e) /\ MemOf(e)
                           /\ Clears(e) /\ Fresh(e, "s") => conf.v["s"] = OwnValue[w]
  BY EditorIs
<1>2. editor \in [Editors -> Editing] /\ FilesOk /\ state \in Values /\ e.pc = "overlay" /\ e.mem \in Values
  BY <1>1 DEF SetInv, FilesOk, CaptureOverlays, Does, Editing
<1>3. PICK mem : mem = [key \in Keys |-> IF key \in StateKeys /\ state[key] # 0 THEN state[key] ELSE e.mem[key]]
  OBVIOUS
<1>4. PICK pc : pc = IF state = Nothing /\ \E key \in StateKeys : mem[key] # 0 THEN "migrate" ELSE "select"
  OBVIOUS
<1>5. PICK a : a = [e EXCEPT !.mem = mem]
  OBVIOUS
<1>6. PICK r : r = [a EXCEPT !.pc = pc]
  OBVIOUS
<1>7. r = [pc |-> pc, job |-> e.job, key |-> e.key, mem |-> mem, read |-> e.read, stale |-> e.stale]
  <2>1. e = [pc |-> e.pc, job |-> e.job, key |-> e.key, mem |-> e.mem, read |-> e.read, stale |-> e.stale]
    BY DEF Editing
  <2>2. a = [pc |-> e.pc, job |-> e.job, key |-> e.key, mem |-> mem, read |-> e.read, stale |-> e.stale]
    BY <1>5, <2>1
  <2> QED
    BY <1>6, <2>2
<1>8. editor' = [editor EXCEPT ![w] = r]
  BY <1>1, <1>2, <1>3, <1>4, <1>5, <1>6 DEF CaptureOverlays
<1>9. /\ r.pc = pc /\ r.job = e.job /\ r.key = e.key /\ r.mem = mem /\ r.read = e.read /\ r.stale = e.stale
      /\ r.pc \in {"migrate", "select"} /\ r.job = "capture"
  BY <1>1, <1>2, <1>4, <1>7 DEF JobRules
<1>10. mem \in Values
  BY <1>2, <1>3 DEF Values
<1>11. r \in Editing
  BY <1>7, <1>9, <1>10 DEF Editing, EditorPcs
<1>12. JobRules(r)
  BY <1>1, <1>2, <1>9 DEF JobRules
<1>13. UNCHANGED <<conf, broken, state, want, unsure>>
  BY DEF CaptureOverlays
<1>14. LinesOf(r)' /\ PlainOf(r)' /\ ~Clears(r) /\ ~Undoes(r) /\ ~Undoes(e) /\ ~Clears(e) /\ r.pc \notin InConf
  BY <1>2, <1>9, KeysAre DEF LinesOf, PlainOf, Clears, Undoes
<1>15. mem["r"] = state["r"] /\ mem["s"] = IF state["s"] # 0 THEN state["s"] ELSE e.mem["s"]
  BY <1>1, <1>2, <1>3, KeysAre DEF JobRules, Values
<1>16. RegionOf(r)'
  BY <1>2, <1>9, <1>13, <1>15 DEF RegionOf, FilesOk, RegionIs, Fresh
<1>17. MemOf(r)'
  <2>1. SUFFICES ASSUME Fresh(r, "s"), ~Undoing PROVE mem["s"] = Effective("s")
    <3>1. (Undoing' <=> Undoing) /\ Effective("s")' = Effective("s") /\ (Fresh(r, "s")' <=> Fresh(r, "s"))
      <4>1. \A x \in Editors : Undoes(editor'[x]) <=> Undoes(editor[x])
        BY <1>1, <1>2, <1>8, <1>14
      <4> QED
        BY <1>13, <4>1 DEF Undoing, Effective, Fresh
    <3> QED
      BY <1>9, <3>1 DEF MemOf
  <2> QED
    BY <1>1, <1>2, <1>9, <1>15, <2>1, KeysAre DEF MemOf, Fresh, Effective, Hidden
<1>18. ColorIs'
  BY <1>1, <1>8, <1>13, <1>14, ColorStays
<1> QED
  BY <1>1, <1>2, <1>8, <1>11, <1>12, <1>13, <1>14, <1>16, <1>17, <1>18, CalmStep DEF FilesOk

\* A step of w between two places where it neither looks at the state nor writes.
LEMMA GoesTo ==
  ASSUME SetInv, NEW w \in Editors, NEW e, e = editor[w], NEW pc \in EditorPcs,
         editor' = [editor EXCEPT ![w].pc = pc], UNCHANGED <<conf, broken, state, want>>,
         unsure \subseteq unsure', unsure' \subseteq Keys \cup {"lines"},
         pc \in {"read", "clear"}, ~Clears(e), JobRules([e EXCEPT !.pc = pc]),
         e.pc \notin InState \/ e.pc = "cleared", e.pc \notin InConf, Undoes(e) => pc = "read",
         pc = "clear" => e.job = "unset", pc = "read" /\ e.job = "unset" => e.key # "s" \/ e.pc = "cleared"
  PROVE  SetInv'
<1>1. e \in Editing /\ UndoOf(e) /\ editor \in [Editors -> Editing] /\ FilesOk
  BY DEF SetInv, EditorOk
<1>2. PICK r : r = [e EXCEPT !.pc = pc]
  OBVIOUS
<1>3. /\ r.pc = pc /\ r.job = e.job /\ r.key = e.key /\ r.mem = e.mem /\ r.read = e.read /\ r.stale = e.stale
      /\ r \in Editing /\ editor' = [editor EXCEPT ![w] = r] /\ JobRules(r)
  BY <1>1, <1>2 DEF Editing
<1>4. /\ ~Clears(r) /\ (Undoes(e) => Undoes(r)) /\ (Undoes(r) => Undoes(e))
      /\ r.pc \notin InConf
  BY <1>3, KeysAre DEF Undoes, Clears
<1>5. LinesOf(r)' /\ PlainOf(r)' /\ RegionOf(r)' /\ MemOf(r)'
  BY <1>3, <1>4 DEF LinesOf, PlainOf, RegionOf, MemOf
<1>6. ColorIs'
  BY <1>3, <1>4, ColorStays
<1>7. Undoes(r) /\ "s" \notin r.stale => state["s"] = 0
  BY <1>1, <1>3, <1>4 DEF UndoOf
<1>8. want' \in Values
  BY <1>1 DEF FilesOk
<1> QED
  BY <1>3, <1>4, <1>5, <1>6, <1>7, <1>8, CalmStep

LEMMA EditingIs ==
  ASSUME NEW e \in Editing
  PROVE  e = [pc |-> e.pc, job |-> e.job, key |-> e.key, mem |-> e.mem, read |-> e.read, stale |-> e.stale]
BY DEF Editing

LEMMA WatchKeeps ==
  ASSUME SetInv, NEW w \in Editors, NEW captured \in BOOLEAN, WatchEnds(w, captured) PROVE SetInv'
<1>1. PICK e \in Editing : e = editor[w] /\ JobRules(e)
  BY EditorIs
<1>2. /\ e.pc = "watch" /\ e.job = "watch" /\ ~Undoes(e) /\ ~Clears(e)
      /\ UNCHANGED <<conf, broken, state, want, unsure>> /\ unsure \subseteq Keys \cup {"lines"}
  BY <1>1 DEF WatchEnds, Does, JobRules, Undoes, Clears, SetInv, FilesOk
<1>3. CASE ~captured
  BY <1>1, <1>2, <1>3, LeaveStep DEF WatchEnds
<1>4. CASE captured
  <2>1. editor' = [editor EXCEPT ![w].pc = "read"]
    BY <1>4 DEF WatchEnds
  <2>2. JobRules([e EXCEPT !.pc = "read"])
    <3>1. PICK r : r = [e EXCEPT !.pc = "read"]
      OBVIOUS
    <3>2. r.pc = "read" /\ r.job = e.job /\ r.key = e.key /\ r.mem = e.mem /\ r.read = e.read
      BY <3>1 DEF Editing
    <3> QED
      BY <1>1, <1>2, <3>1, <3>2 DEF JobRules
  <2> QED
    BY <1>1, <1>2, <2>1, <2>2, GoesTo, KeysAre DEF EditorPcs
<1> QED
  BY <1>3, <1>4

LEMMA UnsetStartsKeeps ==
  ASSUME SetInv, NEW w \in Editors, UnsetStarts(w) PROVE SetInv'
<1>1. PICK e \in Editing : e = editor[w] /\ JobRules(e)
  BY EditorIs
<1>2. /\ e.pc = "unset" /\ e.job = "unset" /\ ~Undoes(e) /\ ~Clears(e)
      /\ UNCHANGED <<conf, broken, state, want, unsure>> /\ unsure \subseteq Keys \cup {"lines"}
  BY <1>1 DEF UnsetStarts, Does, JobRules, Undoes, Clears, SetInv, FilesOk
<1>3. \/ e.key = "s" /\ editor' = [editor EXCEPT ![w].pc = "clear"]
      \/ e.key # "s" /\ editor' = Leaves(w)
      \/ e.key # "s" /\ editor' = [editor EXCEPT ![w].pc = "read"]
  BY <1>1 DEF UnsetStarts
<1>4. CASE editor' = Leaves(w)
  BY <1>1, <1>2, <1>4, LeaveStep
<1>5. ASSUME NEW pc \in {"read", "clear"}, pc = "clear" <=> e.key = "s", editor' = [editor EXCEPT ![w].pc = pc]
      PROVE  SetInv'
  <2>1. JobRules([e EXCEPT !.pc = pc])
    <3>1. PICK r : r = [e EXCEPT !.pc = pc]
      OBVIOUS
    <3>2. r.pc = pc /\ r.job = e.job /\ r.key = e.key /\ r.mem = e.mem /\ r.read = e.read
      BY <3>1 DEF Editing
    <3> QED
      BY <1>1, <1>2, <1>5, <3>1, <3>2 DEF JobRules
  <2> QED
    BY <1>1, <1>2, <1>5, <2>1, GoesTo, KeysAre DEF EditorPcs
<1> QED
  BY <1>3, <1>4, <1>5

LEMMA ClearEndsKeeps ==
  ASSUME SetInv, NEW w \in Editors, ClearEnds(w) PROVE SetInv'
<1>1. PICK e \in Editing : e = editor[w] /\ JobRules(e)
  BY EditorIs
<1>2. /\ e.pc = "cleared" /\ ~Clears(e) /\ e.key = "s" /\ e.job \in {"set", "unset"}
      /\ UNCHANGED <<conf, broken, state, want>> /\ unsure' = unsure \cup e.stale
      /\ unsure \subseteq unsure' /\ unsure' \subseteq Keys \cup {"lines"}
  BY <1>1 DEF ClearEnds, Does, JobRules, Clears, SetInv, FilesOk, Settles, Editing
<1>3. CASE e.job = "set"
  BY <1>1, <1>2, <1>3, LeaveStep DEF ClearEnds, Sets, Undoes
<1>4. CASE e.job = "unset"
  <2>1. editor' = [editor EXCEPT ![w].pc = "read"]
    BY <1>1, <1>4 DEF ClearEnds, Sets
  <2>2. JobRules([e EXCEPT !.pc = "read"])
    <3>1. PICK r : r = [e EXCEPT !.pc = "read"]
      OBVIOUS
    <3>2. r.pc = "read" /\ r.job = e.job /\ r.key = e.key /\ r.mem = e.mem /\ r.read = e.read
      BY <3>1 DEF Editing
    <3> QED
      BY <1>1, <1>2, <1>4, <3>1, <3>2 DEF JobRules
  <2> QED
    BY <1>1, <1>2, <1>4, <2>1, <2>2, GoesTo, KeysAre DEF EditorPcs
<1> QED
  BY <1>2, <1>3, <1>4

LEMMA EditReadsKeeps ==
  ASSUME SetInv, NEW w \in Editors, EditReads(w) PROVE SetInv'
<1>1. PICK e \in Editing : e = editor[w] /\ JobRules(e) /\ UndoOf(e)
  BY EditorIs
<1>2. /\ editor \in [Editors -> Editing] /\ FilesOk /\ conf \in Confs /\ e.pc = "read" /\ conf.is = "ok"
      /\ UNCHANGED <<conf, broken, state, want, unsure>>
  BY <1>1 DEF SetInv, FilesOk, ConfRules, EditReads, Does
<1>3. PICK a : a = [e EXCEPT !.pc = "rename"]
  OBVIOUS
<1>4. PICK b : b = [a EXCEPT !.read = conf]
  OBVIOUS
<1>5. PICK stale : stale = e.stale \cap StateKeys
  OBVIOUS
<1>6. PICK r : r = [b EXCEPT !.stale = stale]
  OBVIOUS
<1>7. /\ a = [pc |-> "rename", job |-> e.job, key |-> e.key, mem |-> e.mem, read |-> e.read, stale |-> e.stale]
      /\ b = [pc |-> "rename", job |-> e.job, key |-> e.key, mem |-> e.mem, read |-> conf, stale |-> e.stale]
      /\ r = [pc |-> "rename", job |-> e.job, key |-> e.key, mem |-> e.mem, read |-> conf, stale |-> stale]
  <2>1. e = [pc |-> e.pc, job |-> e.job, key |-> e.key, mem |-> e.mem, read |-> e.read, stale |-> e.stale]
    BY EditingIs
  <2>2. a = [pc |-> "rename", job |-> e.job, key |-> e.key, mem |-> e.mem, read |-> e.read, stale |-> e.stale]
    BY <1>3, <2>1
  <2>3. b = [pc |-> "rename", job |-> e.job, key |-> e.key, mem |-> e.mem, read |-> conf, stale |-> e.stale]
    BY <1>4, <2>2
  <2> QED
    BY <1>6, <2>2, <2>3
<1>8. editor' = [editor EXCEPT ![w] = r]
  <2>1. editor' = [editor EXCEPT ![w] = [[[editor[w] EXCEPT !.pc = "rename"] EXCEPT !.read = conf]
                                           EXCEPT !.stale = editor[w].stale \cap StateKeys]]
    <3>1. a.stale = e.stale /\ b.stale = e.stale
      BY <1>7
    <3> QED
      BY <1>1, <1>2, <1>3, <1>4, <3>1 DEF EditReads
  <2> QED
    BY <1>1, <1>3, <1>4, <1>5, <1>6, <2>1
<1>9. /\ r.pc = "rename" /\ r.job = e.job /\ r.key = e.key /\ r.mem = e.mem /\ r.read = conf /\ r.stale = stale
  BY <1>7
<1>10. r \in Editing
  BY <1>2, <1>5, <1>7 DEF Editing, EditorPcs
<1>11. JobRules(r)
  BY <1>1, <1>2, <1>9 DEF JobRules, FilesOk, ConfRules
<1>12. Puts(r) = conf.v
  BY <1>9 DEF Puts
<1>13. LinesOf(r)'
  BY <1>2, <1>9 DEF LinesOf, FilesOk, LinesAre
<1>14. PlainOf(r)'
  BY <1>2, <1>9, <1>12 DEF PlainOf, FilesOk, PlainIs, Fresh, Puts
<1>15. /\ RegionOf(r)' /\ MemOf(r)' /\ ~Clears(r) /\ ~Clears(e) /\ (Undoes(e) <=> Undoes(r))
       /\ "s" \in r.stale <=> "s" \in e.stale
  BY <1>2, <1>5, <1>9, KeysAre DEF RegionOf, MemOf, Clears, Undoes
<1>16. ColorIs'
  BY <1>1, <1>2, <1>8, <1>15, ColorStays
<1>17. Undoes(r) /\ "s" \notin r.stale => state["s"] = 0
  BY <1>1, <1>15 DEF UndoOf
<1> QED
  BY <1>1, <1>2, <1>8, <1>10, <1>11, <1>12, <1>13, <1>14, <1>15, <1>16, <1>17, CalmStep DEF FilesOk

LEMMA LeavingSteps ==
  ASSUME SetInv, NEW w \in Editors, EditFails(w) \/ EditorKilled(w)
  PROVE  SetInv'
<1>1. PICK e \in Editing : e = editor[w] /\ JobRules(e)
  BY EditorIs
<1>2. editor' = Leaves(w) /\ UNCHANGED <<conf, broken, state, want>> /\ unsure \subseteq Keys \cup {"lines"}
  BY DEF EditFails, EditorKilled, SetInv, FilesOk
<1>3. CASE EditFails(w)
  <2>1. e.pc \in {"read", "rename"} /\ unsure' = IF e.job = "unset" THEN unsure \cup {e.key} ELSE unsure
    BY <1>1, <1>3 DEF EditFails
  <2> QED
    BY <1>1, <1>2, <2>1, LeaveStep DEF Undoes, Clears, Editing
<1>4. CASE EditorKilled(w)
  <2>1. unsure' = IF e.key = "s" /\ e.job # "capture" THEN unsure \cup {"s"} ELSE unsure
    BY <1>1, <1>4 DEF EditorKilled
  <2>2. Undoes(e) \/ Clears(e) => e.key = "s" /\ e.job # "capture"
    BY <1>1 DEF JobRules, Undoes, Clears
  <2> QED
    BY <1>1, <1>2, <2>1, <2>2, LeaveStep, KeysAre
<1> QED
  BY <1>3, <1>4

LEMMA ClearReadsKeeps ==
  ASSUME SetInv, NEW w \in Editors, ClearReads(w) PROVE SetInv'
<1>1. PICK e \in Editing : /\ e = editor[w] /\ JobRules(e)
                           /\ Clears(e) /\ Fresh(e, "s") => conf.v["s"] = OwnValue[w]
  BY EditorIs
<1>2. /\ editor \in [Editors -> Editing] /\ FilesOk /\ conf \in Confs /\ state \in Values /\ want \in Values
      /\ e.pc = "clear" /\ e.key = "s" /\ e.job \in {"set", "unset"}
      /\ UNCHANGED <<conf, broken, state>> /\ unsure' = unsure \cup e.stale
      /\ unsure \subseteq unsure' /\ unsure' \subseteq Keys \cup {"lines"}
  BY <1>1 DEF SetInv, FilesOk, ConfRules, ClearReads, Does, JobRules, Settles, Editing
<1>3. PICK pc : pc = IF state["s"] = 0 THEN "cleared" ELSE "clearing"
  OBVIOUS
<1>4. PICK read : read = [NoConf EXCEPT !.v = state]
  OBVIOUS
<1>5. PICK stale : stale = e.stale \cap {"s"}
  OBVIOUS
<1>6. PICK a : a = [e EXCEPT !.pc = pc]
  OBVIOUS
<1>7. PICK b : b = [a EXCEPT !.read = read]
  OBVIOUS
<1>8. PICK r : r = [b EXCEPT !.stale = stale]
  OBVIOUS
<1>9. /\ a = [pc |-> pc, job |-> e.job, key |-> e.key, mem |-> e.mem, read |-> e.read, stale |-> e.stale]
      /\ b = [pc |-> pc, job |-> e.job, key |-> e.key, mem |-> e.mem, read |-> read, stale |-> e.stale]
      /\ r = [pc |-> pc, job |-> e.job, key |-> e.key, mem |-> e.mem, read |-> read, stale |-> stale]
  <2>1. e = [pc |-> e.pc, job |-> e.job, key |-> e.key, mem |-> e.mem, read |-> e.read, stale |-> e.stale]
    BY EditingIs
  <2>2. a = [pc |-> pc, job |-> e.job, key |-> e.key, mem |-> e.mem, read |-> e.read, stale |-> e.stale]
    BY <1>6, <2>1
  <2>3. b = [pc |-> pc, job |-> e.job, key |-> e.key, mem |-> e.mem, read |-> read, stale |-> e.stale]
    BY <1>7, <2>2
  <2> QED
    BY <1>8, <2>2, <2>3
<1>10. editor' = [editor EXCEPT ![w] = r]
  <2>1. editor' = [editor EXCEPT ![w] = [[[editor[w] EXCEPT !.pc = IF state["s"] = 0 THEN "cleared" ELSE "clearing"]
                                           EXCEPT !.read = [NoConf EXCEPT !.v = state]]
                                           EXCEPT !.stale = editor[w].stale \cap {"s"}]]
    <3>1. a.stale = e.stale /\ b.stale = e.stale
      BY <1>9
    <3> QED
      BY <1>1, <1>2, <1>3, <1>4, <1>6, <1>7, <3>1 DEF ClearReads
  <2> QED
    BY <1>1, <1>3, <1>4, <1>5, <1>6, <1>7, <1>8, <2>1
<1>11. /\ r.pc = pc /\ r.job = e.job /\ r.key = "s" /\ r.mem = e.mem /\ r.read = read /\ r.stale = stale
       /\ read.v = state /\ read \in Confs /\ pc \in {"cleared", "clearing"} /\ (pc = "cleared" <=> state["s"] = 0)
  BY <1>2, <1>3, <1>4, <1>9 DEF NoConf, Confs
<1>12. r \in Editing
  BY <1>5, <1>9, <1>11 DEF Editing, EditorPcs
<1>13. JobRules(r)
  BY <1>1, <1>2, <1>11 DEF JobRules
<1>14. /\ LinesOf(r)' /\ PlainOf(r)' /\ MemOf(r)' /\ r.pc \notin InConf
       /\ ~Undoes(e) /\ (Clears(r) => Clears(e)) /\ (Undoes(r) => state["s"] = 0)
       /\ "s" \in r.stale <=> "s" \in e.stale
  BY <1>2, <1>5, <1>11, KeysAre DEF LinesOf, PlainOf, MemOf, Clears, Undoes
<1>15. want' \in Values /\ \A key \in Keys \ {"s"} : want'[key] = want[key]
  <2>1. want' = want \/ want' = [want EXCEPT !["s"] = OwnValue[w]]
    BY DEF ClearReads
  <2> QED
    BY <1>2, <2>1, KeysAre DEF Values
<1>16. RegionOf(r)'
  BY <1>2, <1>11, <1>15, KeysAre DEF RegionOf, FilesOk, RegionIs, Fresh
<1>17. ColorIs'
  <2>1. SUFFICES ASSUME "s" \notin unsure', ~Undoing', \A x \in Editors : ~Clears(editor'[x])
                 PROVE  Effective("s")' = want'["s"]
    BY DEF ColorIs, Clears
  <2>2. editor'[w] = r /\ \A x \in Editors \ {w} : editor'[x] = editor[x]
    BY <1>2, <1>10
  <2>3. Effective("s")' = Effective("s") /\ "s" \notin unsure /\ "s" \notin e.stale
    BY <1>2, <2>1 DEF Effective
  <2>4. CASE e.job = "set"
    <3>1. pc = "cleared" /\ state["s"] = 0
      BY <1>11, <2>1, <2>2, <2>4 DEF Clears
    <3>2. want'["s"] = OwnValue[w]
      BY <1>1, <1>2, <2>4, <3>1, KeysAre DEF ClearReads, Sets, Values
    <3>3. conf.v["s"] = OwnValue[w]
      BY <1>1, <1>2, <2>3, <2>4 DEF Clears, Fresh
    <3> QED
      BY <2>3, <3>1, <3>2, <3>3 DEF Effective
  <2>5. CASE e.job = "unset"
    <3>1. want' = want
      BY <1>1, <2>5 DEF ClearReads, Sets
    <3>2. ~Undoing /\ \A x \in Editors : ~Clears(editor[x])
      BY <1>1, <1>14, <2>1, <2>2, <2>5 DEF Undoing, Clears
    <3> QED
      BY <1>2, <2>3, <3>1, <3>2 DEF FilesOk, ColorIs
  <2> QED
    BY <1>2, <2>4, <2>5
<1> QED
  BY <1>1, <1>2, <1>10, <1>12, <1>13, <1>14, <1>15, <1>16, <1>17, CalmStep

LEMMA OthersFollow ==
  ASSUME NEW w \in Editors, NEW cs, NEW ss, \A x \in Editors \ {w} : Follows(editor'[x], editor[x], cs, ss),
         NEW e, e = editor[w], NEW r, r = editor'[w]
  PROVE  /\ \A x \in Editors \ {w} : /\ Undoes(editor'[x]) <=> Undoes(editor[x])
                                     /\ Clears(editor'[x]) <=> Clears(editor[x])
         /\ Undoing /\ ~Undoes(e) => Undoing'
         /\ Undoing' /\ ~Undoes(r) => Undoing
         /\ ~Clears(e) /\ (\A x \in Editors : ~Clears(editor'[x])) => \A x \in Editors : ~Clears(editor[x])
<1>1. \A x \in Editors \ {w} : /\ Undoes(editor'[x]) <=> Undoes(editor[x])
                               /\ Clears(editor'[x]) <=> Clears(editor[x])
  BY DEF Follows, Undoes, Clears
<1>2. Undoing <=> \E x \in Editors : Undoes(editor[x])
  BY DEF Undoing
<1>3. Undoing' <=> \E x \in Editors : Undoes(editor'[x])
  BY DEF Undoing, Undoes
<1> QED
  BY <1>1, <1>2, <1>3

\* A step of w that writes a file.
LEMMA WriteStep ==
  ASSUME SetInv, NEW w \in Editors, NEW cs, NEW ss, NEW r \in Editing,
         editor' \in [Editors -> Editing], editor'[w] = r, Spares(w, cs, ss), FilesOk',
         JobRules(r), LinesOf(r)', PlainOf(r)', RegionOf(r)', MemOf(r)',
         Clears(r) => "s" \in cs /\ conf'.v["s"] = OwnValue[w],
         Undoes(r) /\ "s" \notin r.stale => state'["s"] = 0,
         r.pc \in InConf => Puts(r)["s"] = conf'.v["s"]
  PROVE  SetInv'
<1>1. EditorOk(w)'
  <2>1. JobRules(editor[w])' /\ LinesOf(editor[w])' /\ PlainOf(editor[w])' /\ RegionOf(editor[w])' /\ MemOf(editor[w])'
    BY DEF JobRules, LinesOf, PlainOf, RegionOf, MemOf, Puts, Fresh
  <2>2. ClearOf(w)' /\ UndoOf(editor[w])' /\ PutOf(editor[w])'
    BY DEF ClearOf, Clears, UndoOf, Undoes, PutOf, Puts
  <2> QED
    BY <2>1, <2>2 DEF EditorOk
<1>2. ASSUME NEW x \in Editors PROVE PutBeside(x, w)' /\ PutBeside(w, x)'
  <2>1. PutBeside(w, x)'
    BY DEF PutBeside, Puts
  <2>2. x # w => PutBeside(x, w)'
    BY DEF PutBeside, Puts, Fresh, Clears, Spares, Follows
  <2> QED
    BY <2>1, <2>2
<1> QED
  BY <1>1, <1>2, OthersOk DEF SetInv

\* w writes config.toml, the state, or one after the other.
LEMMA WritesAre ==
  ASSUME SetInv, NEW w \in Editors, NEW r \in Editing, NEW keys \in SUBSET Keys, NEW more \in SUBSET Keys,
         \/ editor' = Stales([editor EXCEPT ![w] = r], w, keys, InConf) /\ more = {}
         \/ editor' = Stales([editor EXCEPT ![w] = r], w, more, InState) /\ keys = {}
         \/ editor' = Stales(Stales([editor EXCEPT ![w] = r], w, keys, InConf), w, more, InState)
  PROVE  /\ editor' \in [Editors -> Editing] /\ editor'[w] = r
         /\ \A x \in Editors \ {w} : Follows(editor'[x], editor[x], keys, more)
<1>1. PICK f : f = [editor EXCEPT ![w] = r]
  OBVIOUS
<1>2. PICK none : none = {}
  OBVIOUS
<1>3. f \in [Editors -> Editing] /\ f[w] = r /\ \A x \in Editors \ {w} : Follows(f[x], editor[x], none, none)
  BY <1>1, <1>2, FollowsItself DEF SetInv
<1>4. PICK d : d = Stales(f, w, keys, InConf)
  OBVIOUS
<1>5. d \in [Editors -> Editing]
  BY <1>3, <1>4, StalesConf, ZenonT(30)
<1>6. d[w] = f[w]
  BY <1>4 DEF Stales
<1>7. \A x \in Editors \ {w} : Follows(d[x], editor[x], none \cup keys, none)
  BY <1>3, <1>4, StalesConf, ZenonT(30)
<1>8. none \cup keys = keys /\ none \cup more = more
  BY <1>2
<1>9. \A x \in Editors \ {w} : Follows(d[x], editor[x], keys, none)
  BY <1>7, <1>8
<1>10. ASSUME NEW e, e = d \/ e = f, NEW cs, \A x \in Editors \ {w} : Follows(e[x], editor[x], cs, none)
       PROVE  /\ Stales(e, w, more, InState) \in [Editors -> Editing]
              /\ Stales(e, w, more, InState)[w] = r
              /\ \A x \in Editors \ {w} : Follows(Stales(e, w, more, InState)[x], editor[x], cs, more)
  <2>1. e \in [Editors -> Editing] /\ e[w] = r
    BY <1>3, <1>5, <1>6, <1>10
  <2>2. PICK g : g = Stales(e, w, more, InState)
    OBVIOUS
  <2>3. g \in [Editors -> Editing]
    BY <1>10, <2>1, <2>2, StalesState, ZenonT(30)
  <2>4. g[w] = e[w]
    BY <2>2 DEF Stales
  <2>5. \A x \in Editors \ {w} : Follows(g[x], editor[x], cs, none \cup more)
    BY <1>10, <2>1, <2>2, StalesState, ZenonT(30)
  <2> QED
    BY <1>8, <2>1, <2>2, <2>3, <2>4, <2>5
<1>11. CASE editor' = Stales([editor EXCEPT ![w] = r], w, keys, InConf) /\ more = {}
  BY <1>1, <1>2, <1>3, <1>4, <1>5, <1>6, <1>9, <1>11
<1>12. CASE editor' = Stales([editor EXCEPT ![w] = r], w, more, InState) /\ keys = {}
  <2>1. editor' = Stales(f, w, more, InState) /\ keys = none
    BY <1>1, <1>2, <1>12
  <2> QED
    BY <1>3, <1>10, <2>1
<1>13. CASE editor' = Stales(Stales([editor EXCEPT ![w] = r], w, keys, InConf), w, more, InState)
  <2>1. editor' = Stales(d, w, more, InState)
    BY <1>1, <1>4, <1>13
  <2> QED
    BY <1>9, <1>10, <2>1
<1> QED
  BY <1>11, <1>12, <1>13

\* config.toml is set aside, or the defaults are written over it.
LEMMA Blanks ==
  ASSUME SetInv, NEW w \in Editors, NEW e, e = editor[w], e.pc \in {"aside", "seed"},
         NEW r \in Editing, editor' = Stales([editor EXCEPT ![w] = r], w, Keys, InConf),
         conf' \in {NoConf, Defaults}, broken' \in BOOLEAN, UNCHANGED <<state, want>>, unsure' = unsure \cup e.stale,
         broken' \/ "lines" \in unsure', JobRules(r), ~Undoes(r), ~Clears(r),
         r.pc \in {"seed", "overlay", "watch", "unset", "read"}, r.pc = "overlay" => r.mem["s"] = 0
  PROVE  SetInv'
<1>1. /\ editor \in [Editors -> Editing] /\ FilesOk /\ e \in Editing /\ JobRules(e) /\ PlainOf(e) /\ PutOf(e)
      /\ e.pc \in InConf /\ Puts(e) = Nothing /\ ~Undoes(e) /\ ~Clears(e)
  BY KeysAre DEF SetInv, EditorOk, Puts, Undoes, Clears
<1>2. conf'.v = Nothing /\ ~conf'.lines /\ conf'.is \in {"absent", "ok"} /\ conf' \in Confs
  <2>1. ASSUME NEW is \in {"absent", "ok"}, NEW c, c = [is |-> is, lines |-> FALSE, v |-> Nothing]
        PROVE  c.v = Nothing /\ ~c.lines /\ c.is = is /\ c \in Confs
    BY <2>1, KeysAre DEF Confs
  <2>2. PICK c : c = conf'
    OBVIOUS
  <2>3. \E is \in {"absent", "ok"} : c = [is |-> is, lines |-> FALSE, v |-> Nothing]
    BY <2>2 DEF NoConf, Defaults
  <2> QED
    BY <2>1, <2>2, <2>3
<1>3. /\ editor' \in [Editors -> Editing] /\ editor'[w] = r
      /\ \A x \in Editors \ {w} : Follows(editor'[x], editor[x], Keys, {})
  <2>1. PICK none \in SUBSET Keys : none = {}
    OBVIOUS
  <2>2. PICK keys \in SUBSET Keys : keys = Keys
    OBVIOUS
  <2>3. editor' = Stales([editor EXCEPT ![w] = r], w, keys, InConf) /\ none = {}
    BY <2>1, <2>2
  <2>4. /\ editor' \in [Editors -> Editing] /\ editor'[w] = r
        /\ \A x \in Editors \ {w} : Follows(editor'[x], editor[x], keys, none)
    BY <2>3, WritesAre
  <2> QED
    BY <2>1, <2>2, <2>4
<1>4. /\ Undoing <=> Undoing'
      /\ (\A x \in Editors : ~Clears(editor'[x])) => \A x \in Editors : ~Clears(editor[x])
  BY <1>1, <1>3, OthersFollow
<1>5. ASSUME "s" \notin unsure'
      PROVE  /\ "s" \notin unsure /\ Fresh(e, "s") /\ (conf.v["s"] = 0 \/ Hidden) /\ (Hidden <=> Hidden')
             /\ Undoing \/ Effective("s")' = Effective("s")
  <2>1. "s" \notin unsure /\ Fresh(e, "s") /\ conf'.v["s"] = 0
    BY <1>2, <1>5, KeysAre DEF Fresh
  <2>2. conf.v["s"] = 0 \/ Hidden
    BY <1>1, <2>1, KeysAre DEF PutOf
  <2> QED
    BY <1>4, <2>1, <2>2, KeysAre DEF Hidden, Effective
<1>6. Spares(w, Keys, {})
  <2>1. ASSUME "s" \notin unsure', NEW z \in Editors \ {w}, Clears(editor[z]), "s" \notin editor[z].stale
        PROVE  conf'.v["s"] = conf.v["s"]
    <3>1. PutBeside(w, z)
      BY DEF SetInv
    <3> QED
      BY <1>1, <1>2, <1>5, <2>1, <3>1, KeysAre DEF PutBeside
  <2>2. "s" \notin unsure' => Hidden' \/ (conf'.v["s"] = conf.v["s"] /\ ~Hidden)
    BY <1>2, <1>5, KeysAre
  <2> QED
    BY <1>3, <1>4, <1>5, <2>1, <2>2, KeysAre DEF Spares, Plain
<1>7. PlainIs'
  BY <1>1, <1>2, KeysAre DEF PlainIs, PlainOf, Fresh, Plain
<1>8. FilesOk'
  <2>1. ConfRules' /\ LinesAre' /\ RegionIs'
    BY <1>1, <1>2, KeysAre DEF FilesOk, ConfRules, LinesAre, RegionIs
  <2>2. ColorIs'
    <3>1. SUFFICES ASSUME "s" \notin unsure', ~Undoing', \A x \in Editors : ~Clears(editor'[x])
                   PROVE  Effective("s")' = want'["s"]
      BY DEF ColorIs, Clears
    <3> QED
      BY <1>1, <1>4, <1>5, <3>1 DEF FilesOk, ColorIs
  <2>3. state' \in Values /\ want' \in Values /\ unsure' \subseteq Keys \cup {"lines"}
    BY <1>1 DEF FilesOk, Editing
  <2> QED
    BY <1>7, <2>1, <2>2, <2>3 DEF FilesOk
<1>9. r.pc \in InConf => Puts(r) = Nothing
  BY KeysAre DEF Puts
<1>10. LinesOf(r)' /\ RegionOf(r)'
  BY DEF LinesOf, RegionOf
<1>11. PlainOf(r)'
  BY <1>2, <1>7, <1>9 DEF PlainOf, PlainIs, Fresh, Puts
<1>12. MemOf(r)'
  BY <1>2, KeysAre DEF MemOf
<1> QED
  BY <1>2, <1>3, <1>6, <1>8, <1>9, <1>10, <1>11, <1>12, WriteStep

LEMMA SetsAsideKeeps ==
  ASSUME SetInv, NEW w \in Editors, LoadSetsAside(w) PROVE SetInv'
<1>1. PICK e \in Editing : e = editor[w] /\ JobRules(e) /\ LinesOf(e)
  BY EditorIs
<1>2. e.pc = "aside" /\ UNCHANGED <<state, want>> /\ unsure \subseteq Keys \cup {"lines"} /\ ConfRules
  BY <1>1 DEF LoadSetsAside, Does, SetInv, FilesOk
<1>3. CASE conf.is # "absent"
  <2>1. PICK r : r = [e EXCEPT !.pc = "seed"]
    OBVIOUS
  <2>2. r.pc = "seed" /\ r.job = e.job /\ r.key = e.key /\ r.mem = e.mem /\ r.read = e.read /\ r \in Editing
    BY <2>1 DEF Editing, EditorPcs
  <2>3. JobRules(r) /\ ~Undoes(r) /\ ~Clears(r)
    BY <1>1, <1>2, <2>2 DEF JobRules, Undoes, Clears
  <2>4. /\ editor' = Stales([editor EXCEPT ![w] = r], w, Keys, InConf)
        /\ broken' = conf.lines /\ conf' = NoConf /\ unsure' = unsure \cup e.stale
    BY <1>1, <1>3, <2>1 DEF LoadSetsAside, Settles
  <2>5. broken' \in BOOLEAN /\ (broken' \/ "lines" \in unsure')
    BY <1>1, <1>2, <2>4 DEF LinesOf, ConfRules, Confs
  <2> QED
    BY <1>1, <1>2, <2>2, <2>3, <2>4, <2>5, Blanks
<1>4. CASE conf.is = "absent"
  <2>1. editor' = Leaves(w) /\ UNCHANGED <<conf, broken, unsure>>
    BY <1>4 DEF LoadSetsAside
  <2> QED
    BY <1>1, <1>2, <2>1, LeaveStep DEF Undoes, Clears
<1> QED
  BY <1>3, <1>4

LEMMA SeedsKeeps ==
  ASSUME SetInv, NEW w \in Editors, LoadSeeds(w) PROVE SetInv'
<1>1. PICK e \in Editing : e = editor[w] /\ JobRules(e) /\ LinesOf(e)
  BY EditorIs
<1>2. /\ e.pc = "seed" /\ UNCHANGED <<broken, state, want>> /\ conf' = Defaults /\ unsure' = unsure \cup e.stale
      /\ broken \in BOOLEAN
  BY <1>1 DEF LoadSeeds, Does, SetInv, FilesOk, Settles
<1>3. PICK pc : pc = Loaded(e.job)
  OBVIOUS
<1>4. /\ e.job = "capture" => pc = "overlay"
      /\ e.job = "watch" => pc = "watch"
      /\ e.job = "unset" => pc = "unset"
      /\ e.job = "set" => pc = "read"
      /\ e.job \in {"set", "unset", "watch", "capture"}
  BY <1>1, <1>2, <1>3 DEF Loaded, Editing, JobRules
<1>5. PICK a : a = [e EXCEPT !.pc = pc]
  OBVIOUS
<1>6. PICK r : r = [a EXCEPT !.mem = Nothing]
  OBVIOUS
<1>7. r = [pc |-> pc, job |-> e.job, key |-> e.key, mem |-> Nothing, read |-> e.read, stale |-> e.stale]
  <2>1. e = [pc |-> e.pc, job |-> e.job, key |-> e.key, mem |-> e.mem, read |-> e.read, stale |-> e.stale]
    BY EditingIs
  <2>2. a = [pc |-> pc, job |-> e.job, key |-> e.key, mem |-> e.mem, read |-> e.read, stale |-> e.stale]
    BY <1>5, <2>1
  <2> QED
    BY <1>6, <2>2
<1>8. editor' = Stales([editor EXCEPT ![w] = r], w, Keys, InConf)
  BY <1>1, <1>3, <1>5, <1>6 DEF LoadSeeds
<1>9. /\ r.pc = pc /\ r.job = e.job /\ r.key = e.key /\ r.mem = Nothing /\ r.read = e.read
      /\ pc \in {"overlay", "watch", "unset", "read"}
  BY <1>4, <1>7
<1>10. r \in Editing
  BY <1>7, <1>9, KeysAre DEF Editing, EditorPcs
<1>11. JobRules(r) /\ ~Undoes(r) /\ ~Clears(r)
  BY <1>1, <1>2, <1>4, <1>9, KeysAre DEF JobRules, Undoes, Clears
<1>12. broken \/ "lines" \in unsure'
  BY <1>1, <1>2 DEF LinesOf
<1> QED
  BY <1>1, <1>2, <1>8, <1>9, <1>10, <1>11, <1>12, Blanks, KeysAre

\* A capture writes what it has in memory, and the keys that were chosen.
LEMMA CaptureWrites ==
  ASSUME SetInv, NEW w \in Editors, NEW e, e = editor[w], e.pc \in {"migrate", "select"}, NEW keys \in SUBSET StateKeys,
         NEW r \in Editing, editor' = Stales([editor EXCEPT ![w] = r], w, StateKeys, InState),
         UNCHANGED <<conf, broken>>, state' = InMemory(w, keys),
         want' = [key \in Keys |-> IF key \in keys THEN OwnValue[w] ELSE want[key]],
         unsure' = (unsure \cup e.stale) \ keys, JobRules(r), ~Undoes(r), ~Clears(r),
         r.pc = "gone" \/ (r.pc = "select" /\ keys = {} /\ r.mem = e.mem)
  PROVE  SetInv'
<1>1. /\ editor \in [Editors -> Editing] /\ FilesOk /\ e \in Editing /\ JobRules(e) /\ RegionOf(e) /\ MemOf(e)
      /\ e.job = "capture" /\ ~Undoes(e) /\ ~Clears(e)
  BY DEF SetInv, EditorOk, JobRules, Undoes, Clears
<1>2. PICK none \in SUBSET Keys : none = {}
  OBVIOUS
<1>3. PICK ss \in SUBSET Keys : ss = {"s", "r"} /\ ss = StateKeys
  BY KeysAre
<1>4. /\ editor' \in [Editors -> Editing] /\ editor'[w] = r
      /\ \A x \in Editors \ {w} : Follows(editor'[x], editor[x], none, ss)
  <2>1. editor' = Stales([editor EXCEPT ![w] = r], w, ss, InState) /\ none = {}
    BY <1>2, <1>3
  <2> QED
    BY <2>1, WritesAre
<1>5. /\ Undoing <=> Undoing'
      /\ (\A x \in Editors : ~Clears(editor'[x])) => \A x \in Editors : ~Clears(editor[x])
  BY <1>1, <1>4, OthersFollow
<1>6. /\ state' \in Values /\ want' \in Values
      /\ "r" \in keys => state'["r"] = OwnValue[w] /\ want'["r"] = OwnValue[w]
      /\ "r" \notin keys => state'["r"] = e.mem["r"] /\ want'["r"] = want["r"]
      /\ "s" \in keys => state'["s"] = OwnValue[w] /\ want'["s"] = OwnValue[w] /\ OwnValue[w] # 0
      /\ "s" \notin keys => state'["s"] = e.mem["s"] /\ want'["s"] = want["s"]
      /\ \A key \in Plain : want'[key] = want[key]
  <2>1. \A key \in Keys : OwnValue[w] \in Nat \ {0} /\ e.mem[key] \in Nat /\ want[key] \in Nat
    BY <1>1, KeysAre DEF Editing, Values, FilesOk
  <2>2. state' = [key \in Keys |-> IF key \notin StateKeys THEN 0
                                   ELSE IF key \in keys THEN OwnValue[w] ELSE e.mem[key]]
    BY DEF InMemory
  <2>3. state' \in Values /\ want' \in Values
    BY <2>1, <2>2 DEF Values
  <2>4. /\ "r" \in Keys /\ "r" \in StateKeys /\ "s" \in Keys /\ "s" \in StateKeys
        /\ \A key \in Plain : key \in Keys /\ key \notin StateKeys
    BY KeysAre DEF Plain
  <2>5. \A key \in Plain : want'[key] = want[key]
    BY <2>4
  <2> QED
    BY <2>1, <2>2, <2>3, <2>4, <2>5
<1>7. ASSUME "s" \notin unsure'
      PROVE  Undoing \/ (/\ "s" \in keys => Effective("s")' = want'["s"]
                         /\ "s" \notin keys => e.mem["s"] = Effective("s") /\ Effective("s")' = Effective("s"))
  <2>1. "s" \in keys \/ Fresh(e, "s")
    BY <1>7 DEF Fresh
  <2>2. "s" \notin keys => e.mem["s"] = Effective("s") \/ Undoing
    BY <1>1, <2>1 DEF MemOf
  <2> QED
    BY <1>6, <2>2, KeysAre DEF Effective
<1>8. "s" \notin unsure' =>
        \/ Hidden'
        \/ "s" \notin unsure /\ conf'.v["s"] = conf.v["s"] /\ ~Hidden
  <2>1. SUFFICES ASSUME "s" \notin unsure', ~Undoing, state'["s"] = 0
                 PROVE  "s" \notin unsure /\ state["s"] = 0
    BY <1>5 DEF Hidden
  <2>2. "s" \notin keys /\ e.mem["s"] = Effective("s")
    BY <1>6, <1>7, <2>1
  <2>3. "s" \notin unsure /\ Effective("s") = 0
    BY <1>6, <2>1, <2>2
  <2> QED
    BY <2>3, KeysAre DEF Effective
<1>9. Spares(w, none, ss)
  <2>1. \A key \in Plain : key \in unsure => key \in unsure'
    BY KeysAre DEF Plain
  <2>2. "lines" \in unsure => "lines" \in unsure'
    BY KeysAre
  <2> QED
    BY <1>2, <1>3, <1>4, <1>6, <1>8, <2>1, <2>2 DEF Spares
<1>10. FilesOk'
  <2>1. ConfRules' /\ LinesAre'
    BY <1>1, KeysAre DEF FilesOk, ConfRules, LinesAre
  <2>2. PlainIs'
    BY <1>1, <1>6, KeysAre DEF FilesOk, PlainIs, Plain
  <2>3. RegionIs'
    <3>1. "r" \notin unsure' => "r" \in keys \/ Fresh(e, "r")
      BY DEF Fresh
    <3> QED
      BY <1>1, <1>6, <3>1 DEF RegionIs, RegionOf
  <2>4. ColorIs'
    <3>1. SUFFICES ASSUME "s" \notin unsure', ~Undoing', \A x \in Editors : ~Clears(editor'[x])
                   PROVE  Effective("s")' = want'["s"]
      BY DEF ColorIs, Clears
    <3>2. "s" \notin keys => "s" \notin unsure
      BY <3>1
    <3> QED
      BY <1>1, <1>5, <1>6, <1>7, <3>1, <3>2 DEF FilesOk, ColorIs
  <2>5. broken' \in BOOLEAN /\ unsure' \subseteq Keys \cup {"lines"}
    BY <1>1 DEF FilesOk, Editing
  <2> QED
    BY <1>6, <2>1, <2>2, <2>3, <2>4, <2>5 DEF FilesOk
<1>11. LinesOf(r)' /\ PlainOf(r)' /\ r.pc \notin InConf
  BY KeysAre DEF LinesOf, PlainOf
<1>12. RegionOf(r)'
  <2>1. SUFFICES ASSUME r.pc = "select", "r" \notin unsure' PROVE r.mem["r"] = want'["r"]
    BY DEF RegionOf, Fresh
  <2> QED
    BY <1>1, <1>6, <2>1 DEF RegionOf, Fresh
<1>13. MemOf(r)'
  <2>1. SUFFICES ASSUME r.pc = "select", "s" \notin unsure', ~Undoing' PROVE r.mem["s"] = Effective("s")'
    BY DEF MemOf, Fresh
  <2> QED
    BY <1>5, <1>7, <2>1
<1> QED
  BY <1>4, <1>9, <1>10, <1>11, <1>12, <1>13, WriteStep

LEMMA MigratesKeeps ==
  ASSUME SetInv, NEW w \in Editors, CaptureMigrates(w) PROVE SetInv'
<1>1. PICK e \in Editing : e = editor[w] /\ JobRules(e)
  BY EditorIs
<1>2. /\ e.pc = "migrate" /\ state' = InMemory(w, {}) /\ unsure' = unsure \cup e.stale /\ UNCHANGED <<conf, broken, want>>
      /\ editor' = Stales([editor EXCEPT ![w].pc = "select"], w, StateKeys, InState) /\ want \in Values
  BY <1>1 DEF CaptureMigrates, Does, Settles, SetInv, FilesOk
<1>3. PICK r : r = [e EXCEPT !.pc = "select"]
  OBVIOUS
<1>4. /\ r.pc = "select" /\ r.job = e.job /\ r.key = e.key /\ r.mem = e.mem /\ r.read = e.read /\ r \in Editing
      /\ editor' = Stales([editor EXCEPT ![w] = r], w, StateKeys, InState)
  BY <1>1, <1>2, <1>3 DEF Editing, EditorPcs
<1>5. JobRules(r) /\ ~Undoes(r) /\ ~Clears(r)
  BY <1>1, <1>2, <1>4 DEF JobRules, Undoes, Clears
<1>6. PICK keys \in SUBSET StateKeys : keys = {}
  OBVIOUS
<1>7. want' = [key \in Keys |-> IF key \in keys THEN OwnValue[w] ELSE want[key]]
  BY <1>2, <1>6 DEF Values
<1>8. state' = InMemory(w, keys) /\ unsure' = (unsure \cup e.stale) \ keys
  BY <1>2, <1>6
<1> QED
  BY <1>1, <1>2, <1>4, <1>5, <1>6, <1>7, <1>8, CaptureWrites

LEMMA PersistsKeeps ==
  ASSUME SetInv, NEW w \in Editors, NEW keys \in SUBSET StateKeys, CapturePersists(w, keys) PROVE SetInv'
<1>1. PICK e \in Editing : e = editor[w] /\ JobRules(e)
  BY EditorIs
<1>2. e.pc = "select" /\ UNCHANGED <<conf, broken>> /\ unsure \subseteq Keys \cup {"lines"}
  BY <1>1 DEF CapturePersists, Does, SetInv, FilesOk
<1>3. CASE \E key \in keys : e.mem[key] # OwnValue[w]
  <2>1. /\ state' = InMemory(w, keys) /\ editor' = Stales(Leaves(w), w, StateKeys, InState)
        /\ want' = [key \in Keys |-> IF key \in keys THEN OwnValue[w] ELSE want[key]]
        /\ unsure' = (unsure \cup e.stale) \ keys
    BY <1>1, <1>3 DEF CapturePersists, Settles
  <2>2. PICK r : r = Gone
    OBVIOUS
  <2>3. /\ r \in Editing /\ JobRules(r) /\ ~Clears(r) /\ ~Undoes(r) /\ r.pc = "gone"
        /\ editor' = Stales([editor EXCEPT ![w] = r], w, StateKeys, InState)
    BY <2>1, <2>2, GoneIs
  <2> QED
    BY <1>1, <1>2, <2>1, <2>3, CaptureWrites
<1>4. CASE \A key \in keys : e.mem[key] = OwnValue[w]
  <2>1. editor' = Leaves(w) /\ UNCHANGED <<state, want, unsure>>
    BY <1>1, <1>4 DEF CapturePersists
  <2> QED
    BY <1>1, <1>2, <2>1, LeaveStep DEF Undoes, Clears
<1> QED
  BY <1>3, <1>4

LEMMA ClearRenamesKeeps ==
  ASSUME SetInv, NEW w \in Editors, ClearRenames(w) PROVE SetInv'
<1>1. PICK e \in Editing : /\ e = editor[w] /\ JobRules(e) /\ RegionOf(e)
                           /\ Clears(e) /\ Fresh(e, "s") => conf.v["s"] = OwnValue[w]
  BY EditorIs
<1>2. /\ editor \in [Editors -> Editing] /\ FilesOk /\ want \in Values /\ e.read.v \in Values
      /\ e.pc = "clearing" /\ e.key = "s" /\ e.job \in {"set", "unset"} /\ ~Undoes(e)
      /\ UNCHANGED <<conf, broken>> /\ unsure' = unsure \cup e.stale
      /\ state' = [e.read.v EXCEPT !["s"] = 0]
  BY <1>1 DEF SetInv, FilesOk, ClearRenames, Does, JobRules, Settles, Editing, Confs, Undoes
<1>3. PICK r : r = [e EXCEPT !.pc = "cleared"]
  OBVIOUS
<1>4. /\ r.pc = "cleared" /\ r.job = e.job /\ r.key = e.key /\ r.mem = e.mem /\ r.read = e.read /\ r \in Editing
      /\ editor' = Stales([editor EXCEPT ![w] = r], w, {"s"}, InState)
  BY <1>1, <1>2, <1>3 DEF Editing, EditorPcs, ClearRenames
<1>5. JobRules(r) /\ ~Clears(r) /\ (Undoes(r) <=> e.job = "unset")
  BY <1>1, <1>2, <1>4 DEF JobRules, Clears, Undoes
<1>6. PICK none \in SUBSET Keys : none = {}
  OBVIOUS
<1>7. PICK ss \in SUBSET Keys : ss = {"s"}
  BY KeysAre
<1>8. /\ editor' \in [Editors -> Editing] /\ editor'[w] = r
      /\ \A x \in Editors \ {w} : Follows(editor'[x], editor[x], none, ss)
  <2>1. editor' = Stales([editor EXCEPT ![w] = r], w, ss, InState) /\ none = {}
    BY <1>4, <1>6, <1>7
  <2> QED
    BY <1>4, <2>1, WritesAre
<1>9. e.job = "unset" => Undoing'
  BY <1>5, <1>8 DEF Undoing, Undoes
<1>10. /\ state' \in Values /\ want' \in Values /\ state'["s"] = 0 /\ state'["r"] = e.read.v["r"]
       /\ \A key \in Keys \ {"s"} : want'[key] = want[key]
       /\ e.job = "set" => want'["s"] = OwnValue[w]
  <2>1. want' = IF e.job = "set" THEN [want EXCEPT !["s"] = OwnValue[w]] ELSE want
    BY <1>1, <1>2 DEF ClearRenames, Sets
  <2> QED
    BY <1>2, <2>1, KeysAre DEF Values
<1>11. e.job = "set" /\ "s" \notin unsure' => /\ Clears(e) /\ "s" \notin e.stale /\ "s" \notin unsure
                                              /\ conf.v["s"] = OwnValue[w]
  BY <1>1, <1>2 DEF Clears, Fresh
<1>12. Spares(w, none, ss)
  <2>1. "s" \notin unsure' =>
          Hidden' \/ (/\ "s" \notin unsure /\ conf'.v["s"] = conf.v["s"]
                      /\ Clears(editor[w]) /\ "s" \notin editor[w].stale)
    BY <1>1, <1>2, <1>9, <1>11 DEF Hidden
  <2>2. \A key \in Plain : want'[key] = want[key]
    BY <1>10, KeysAre DEF Plain
  <2>3. want'["r"] = want["r"]
    BY <1>10, KeysAre
  <2> QED
    BY <1>2, <1>6, <1>7, <1>8, <2>1, <2>2, <2>3 DEF Spares
<1>13. FilesOk'
  <2>1. ConfRules' /\ LinesAre'
    BY <1>2 DEF FilesOk, ConfRules, LinesAre
  <2>2. PlainIs'
    BY <1>2, <1>10, KeysAre DEF FilesOk, PlainIs, Plain
  <2>3. RegionIs'
    BY <1>1, <1>2, <1>10, KeysAre DEF RegionIs, RegionOf, Fresh
  <2>4. ColorIs'
    <3>1. SUFFICES ASSUME "s" \notin unsure', e.job = "set" PROVE Effective("s")' = want'["s"]
      BY <1>2, <1>9 DEF ColorIs, Clears
    <3> QED
      BY <1>2, <1>10, <1>11, <3>1, KeysAre DEF Effective
  <2>5. broken' \in BOOLEAN /\ unsure' \subseteq Keys \cup {"lines"}
    BY <1>2 DEF FilesOk, Editing
  <2> QED
    BY <1>10, <2>1, <2>2, <2>3, <2>4, <2>5 DEF FilesOk
<1>14. LinesOf(r)' /\ PlainOf(r)' /\ RegionOf(r)' /\ MemOf(r)' /\ r.pc \notin InConf
  BY <1>4, KeysAre DEF LinesOf, PlainOf, RegionOf, MemOf
<1> QED
  BY <1>4, <1>5, <1>8, <1>10, <1>12, <1>13, <1>14, WriteStep

\* What an edit leaves behind.
Writer(e) == IF e.key = "s" /\ e.job \in {"set", "watch"}
             THEN [pc |-> "clear", job |-> e.job, key |-> e.key, mem |-> e.mem, read |-> e.read, stale |-> {}]
             ELSE Gone

\* One key of config.toml is changed; base is what the file is written from.
LEMMA EditWrites ==
  ASSUME SetInv, NEW w \in Editors, NEW e, e = editor[w], e.pc \in {"read", "rename"}, WritesConf(w),
         NEW base \in Values, NEW c \in Confs, conf' = c, c.is = "ok", c.v = [base EXCEPT ![e.key] = AsksFor(w)],
         c.lines \/ broken \/ "lines" \in unsure', "lines" \in unsure => "lines" \in unsure', base["r"] = 0,
         unsure' \subseteq Keys \cup {"lines"}, e.stale \subseteq unsure',
         \A key \in Keys \ {e.key} : key \notin unsure' =>
           Fresh(e, key) /\ e.pc = "rename" /\ base[key] = e.read.v[key]
  PROVE  SetInv'
<1>1. /\ editor \in [Editors -> Editing] /\ FilesOk /\ e \in Editing /\ JobRules(e) /\ PlainOf(e) /\ PutOf(e) /\ UndoOf(e)
      /\ e.job \in {"set", "unset", "watch"} /\ e.key \in {"u", "k", "s"} /\ ~Clears(e) /\ want \in Values
  BY KeysAre DEF SetInv, FilesOk, EditorOk, JobRules, Clears, Editing
<1>2. PICK key \in Keys : key = e.key
  BY <1>1 DEF Editing
<1>3. PICK asks \in Nat : asks = AsksFor(w) /\ asks = IF e.job = "unset" THEN 0 ELSE OwnValue[w]
  BY <1>1, KeysAre DEF AsksFor, Sets
<1>4. c.v \in Values /\ c.v[key] = asks /\ \A k \in Keys \ {key} : c.v[k] = base[k]
  BY <1>2, <1>3 DEF Values
<1>5. PICK r : r = Writer(e)
  OBVIOUS
<1>6. /\ r \in Editing /\ JobRules(r) /\ ~Undoes(r) /\ r.pc \in {"clear", "gone"}
      /\ Clears(r) <=> key = "s" /\ e.job \in {"set", "watch"}
  <2>1. CASE key = "s" /\ e.job \in {"set", "watch"}
    <3>1. r = [pc |-> "clear", job |-> e.job, key |-> e.key, mem |-> e.mem, read |-> e.read, stale |-> {}]
      BY <1>2, <1>5, <2>1 DEF Writer
    <3> QED
      BY <1>1, <1>2, <2>1, <3>1, KeysAre DEF Editing, EditorPcs, JobRules, Undoes, Clears
  <2>2. CASE ~(key = "s" /\ e.job \in {"set", "watch"})
    <3>1. r = Gone
      BY <1>2, <1>5, <2>2 DEF Writer
    <3> QED
      BY <2>2, <3>1, GoneIs
  <2> QED
    BY <2>1, <2>2
<1>7. Stored(w) = [editor EXCEPT ![w] = r]
  <2>1. CASE key = "s" /\ e.job \in {"set", "watch"}
    <3>1. PICK a : a = [e EXCEPT !.pc = "clear"]
      OBVIOUS
    <3>2. PICK b : b = [a EXCEPT !.stale = {}]
      OBVIOUS
    <3>3. e = [pc |-> e.pc, job |-> e.job, key |-> e.key, mem |-> e.mem, read |-> e.read, stale |-> e.stale]
      BY <1>1, EditingIs
    <3>4. a = [pc |-> "clear", job |-> e.job, key |-> e.key, mem |-> e.mem, read |-> e.read, stale |-> e.stale]
      BY <3>1, <3>3
    <3>5. b = [pc |-> "clear", job |-> e.job, key |-> e.key, mem |-> e.mem, read |-> e.read, stale |-> {}]
      BY <3>2, <3>4
    <3>6. b = r
      BY <1>2, <1>5, <2>1, <3>5 DEF Writer
    <3>7. Stored(w) = [editor EXCEPT ![w] = b]
      BY <1>1, <1>2, <2>1, <3>1, <3>2 DEF Stored, Sets
    <3> QED
      BY <3>6, <3>7
  <2>2. CASE ~(key = "s" /\ e.job \in {"set", "watch"})
    <3>1. r = Gone /\ Stored(w) = Leaves(w)
      BY <1>2, <1>5, <2>2 DEF Writer, Stored, Sets
    <3> QED
      BY <3>1, GoneIs
  <2> QED
    BY <2>1, <2>2
<1>8. PICK cs \in SUBSET Keys : cs = {key}
  OBVIOUS
<1>9. PICK ss \in SUBSET Keys : ss = {key} \cap StateKeys /\ ("s" \in ss <=> key = "s")
  <2>1. "s" \in StateKeys
    BY KeysAre
  <2>2. "s" \in {key} \cap StateKeys <=> key = "s"
    BY <2>1
  <2>3. {key} \cap StateKeys \in SUBSET Keys
    OBVIOUS
  <2> QED
    BY <2>2, <2>3
<1>10. /\ editor' \in [Editors -> Editing] /\ editor'[w] = r
       /\ \A x \in Editors \ {w} : Follows(editor'[x], editor[x], cs, ss)
  <2>1. editor' = Stales(Stales(Stored(w), w, cs, InConf), w, ss, InState)
    BY <1>2, <1>8, <1>9 DEF WritesConf
  <2>2. editor' = Stales(Stales([editor EXCEPT ![w] = r], w, cs, InConf), w, ss, InState)
    BY <1>7, <2>1
  <2> QED
    BY <1>6, <2>2, WritesAre
<1>11. /\ UNCHANGED <<broken, state>> /\ want' \in Values
       /\ \A k \in Keys \ {key} : want'[k] = want[k]
       /\ ~Clears(r) => want'[key] = asks
  <2>1. want' = IF Clears(r) THEN want ELSE [want EXCEPT ![key] = asks]
    BY <1>1, <1>2, <1>3, <1>6 DEF WritesConf, WantedKeys, Sets
  <2> QED
    BY <1>1, <1>2, <1>3, <2>1 DEF Values, WritesConf
<1>12. ASSUME "s" \notin unsure', key # "s"
       PROVE  /\ "s" \notin unsure /\ (Undoing <=> Undoing') /\ (Hidden <=> Hidden')
              /\ (\A x \in Editors : ~Clears(editor'[x])) => \A x \in Editors : ~Clears(editor[x])
              /\ Fresh(e, "s") /\ e.pc \in InConf /\ Puts(e)["s"] = conf'.v["s"]
              /\ conf.v["s"] = conf'.v["s"] \/ Hidden
  <2>1. ~Undoes(e)
    BY <1>2, <1>12 DEF Undoes
  <2>2. Undoing <=> Undoing'
    BY <1>6, <1>10, <2>1, OthersFollow
  <2>3. (\A x \in Editors : ~Clears(editor'[x])) => \A x \in Editors : ~Clears(editor[x])
    BY <1>1, <1>10, OthersFollow
  <2>4. "s" \in Keys \ {e.key}
    BY <1>2, <1>12, KeysAre
  <2>5. Fresh(e, "s") /\ e.pc = "rename" /\ base["s"] = e.read.v["s"]
    BY <1>12, <2>4
  <2>6. e.pc \in InConf /\ Puts(e)["s"] = conf'.v["s"]
    BY <1>2, <1>4, <2>4, <2>5, KeysAre DEF Puts
  <2> QED
    BY <1>1, <1>11, <2>2, <2>3, <2>5, <2>6 DEF PutOf, Fresh, Hidden
<1>13. Spares(w, cs, ss)
  <2>1. ASSUME "s" \notin unsure', key # "s", NEW z \in Editors \ {w}, Clears(editor[z]), "s" \notin editor[z].stale
        PROVE  conf'.v["s"] = conf.v["s"]
    <3>1. PutBeside(w, z)
      BY DEF SetInv
    <3> QED
      BY <1>12, <2>1, <3>1 DEF PutBeside
  <2>2. ASSUME "s" \notin unsure', key # "s"
        PROVE  /\ Hidden' \/ (conf'.v["s"] = conf.v["s"] /\ ~Hidden)
               /\ Undoing' \/ Effective("s")' = Effective("s")
    BY <1>11, <1>12, <2>2, KeysAre DEF Hidden, Effective
  <2>3. \A k \in Plain : k \in cs \/ (want'[k] = want[k] /\ (k \in unsure => k \in unsure'))
    BY <1>2, <1>8, <1>11, KeysAre DEF Plain, Fresh
  <2>4. want'["r"] = want["r"] /\ ("r" \in unsure => "r" \in unsure')
    BY <1>1, <1>2, <1>11, KeysAre DEF Fresh
  <2> QED
    BY <1>8, <1>9, <1>10, <1>11, <1>12, <2>1, <2>2, <2>3, <2>4 DEF Spares
<1>14. FilesOk'
  <2>1. ConfRules' /\ LinesAre'
    <3>1. c.v["r"] = 0
      BY <1>1, <1>2, <1>4, KeysAre
    <3> QED
      BY <1>11, <3>1 DEF ConfRules, LinesAre
  <2>2. PlainIs'
    <3>1. ASSUME NEW k \in Plain, k \notin unsure', k # key PROVE conf'.v[k] = want'[k]
      <4>1. Fresh(e, k) /\ e.pc = "rename" /\ base[k] = e.read.v[k] /\ k \in Keys \ {key}
        BY <1>2, <3>1, KeysAre DEF Plain
      <4> QED
        BY <1>1, <1>4, <1>11, <4>1, KeysAre DEF PlainOf, Puts
    <3>2. key \in Plain => conf'.v[key] = want'[key]
      BY <1>4, <1>6, <1>11 DEF Plain
    <3> QED
      BY <3>1, <3>2 DEF PlainIs
  <2>3. RegionIs'
    BY <1>1, <1>2, <1>11, KeysAre DEF FilesOk, RegionIs, Fresh
  <2>4. ColorIs'
    <3>1. SUFFICES ASSUME "s" \notin unsure', ~Undoing', \A x \in Editors : ~Clears(editor'[x])
                   PROVE  Effective("s")' = want'["s"]
      BY DEF ColorIs, Clears
    <3>2. CASE key # "s"
      <4>1. /\ "s" \notin unsure /\ ~Undoing /\ \A x \in Editors : ~Clears(editor[x])
        BY <1>12, <3>1, <3>2
      <4>2. Effective("s")' = Effective("s")
        BY <1>11, <1>12, <3>1, <3>2, <4>1, KeysAre DEF Hidden, Effective
      <4>3. want'["s"] = want["s"]
        BY <1>11, <3>2, KeysAre
      <4> QED
        BY <1>1, <4>1, <4>2, <4>3 DEF FilesOk, ColorIs
    <3>3. CASE key = "s"
      <4>1. ~Clears(r) /\ e.job = "unset"
        BY <1>1, <1>6, <1>10, <3>1, <3>3
      <4>2. Undoes(e) /\ "s" \notin e.stale
        BY <1>2, <3>1, <3>3, <4>1 DEF Undoes
      <4>3. state'["s"] = 0 /\ conf'.v["s"] = 0 /\ want'["s"] = 0
        BY <1>1, <1>3, <1>4, <1>11, <3>3, <4>1, <4>2 DEF UndoOf
      <4> QED
        BY <4>3 DEF Effective
    <3> QED
      BY <3>2, <3>3
  <2>5. broken' \in BOOLEAN /\ state' \in Values
    BY <1>1, <1>11 DEF FilesOk
  <2> QED
    BY <1>11, <2>1, <2>2, <2>3, <2>4, <2>5 DEF FilesOk
<1>15. LinesOf(r)' /\ PlainOf(r)' /\ RegionOf(r)' /\ MemOf(r)' /\ r.pc \notin InConf
  BY <1>6, KeysAre DEF LinesOf, PlainOf, RegionOf, MemOf
<1>16. Clears(r) => "s" \in cs /\ conf'.v["s"] = OwnValue[w]
  BY <1>3, <1>4, <1>6, <1>8
<1> QED
  BY <1>6, <1>10, <1>13, <1>14, <1>15, <1>16, WriteStep

LEMMA EditRenamesKeeps ==
  ASSUME SetInv, NEW w \in Editors, EditRenames(w) PROVE SetInv'
<1>1. PICK e \in Editing : e = editor[w] /\ JobRules(e) /\ LinesOf(e)
  BY EditorIs
<1>2. PICK base : base = e.read.v
  OBVIOUS
<1>3. PICK c : c = [e.read EXCEPT !.v = [base EXCEPT ![e.key] = AsksFor(w)]]
  OBVIOUS
<1>4. /\ e.pc = "rename" /\ WritesConf(w) /\ conf' = c /\ unsure' = (unsure \cup e.stale) \ ({e.key} \ e.stale)
      /\ unsure \subseteq Keys \cup {"lines"} /\ e.key \in Keys /\ e.read \in Confs /\ e.stale \subseteq Keys \cup {"lines"}
      /\ base \in Values /\ base["r"] = 0 /\ e.read.is = "ok"
  BY <1>1, <1>2, <1>3 DEF EditRenames, Does, Settles, WithKey, SetInv, FilesOk, Editing, Confs, JobRules
<1>5. AsksFor(w) \in Nat
  BY KeysAre DEF AsksFor
<1>6. c \in Confs /\ c.is = "ok" /\ c.lines = e.read.lines /\ c.v = [base EXCEPT ![e.key] = AsksFor(w)]
  BY <1>3, <1>4, <1>5 DEF Confs, Values
<1>7. "lines" \in unsure => "lines" \in unsure'
  BY <1>4, KeysAre
<1>8. c.lines \/ broken \/ "lines" \in unsure'
  BY <1>1, <1>4, <1>6, <1>7 DEF LinesOf
<1>9. \A key \in Keys \ {e.key} : key \notin unsure' => Fresh(e, key) /\ e.pc = "rename" /\ base[key] = e.read.v[key]
  BY <1>2, <1>4 DEF Fresh
<1>10. e.stale \subseteq unsure' /\ unsure' \subseteq Keys \cup {"lines"}
  BY <1>4
<1> QED
  BY <1>1, <1>4, <1>6, <1>7, <1>8, <1>9, <1>10, EditWrites

LEMMA EditSavesKeeps ==
  ASSUME SetInv, NEW w \in Editors, EditSaves(w) PROVE SetInv'
<1>1. PICK e \in Editing : e = editor[w] /\ JobRules(e)
  BY EditorIs
<1>2. PICK base : base = e.mem
  OBVIOUS
<1>3. PICK c : c = [Defaults EXCEPT !.v = [base EXCEPT ![e.key] = AsksFor(w)]]
  OBVIOUS
<1>4. /\ e.pc \in {"read", "rename"} /\ WritesConf(w) /\ conf' = c /\ conf.is = "absent"
      /\ unsure' = unsure \cup (Keys \ {e.key}) \cup e.stale
      /\ unsure \subseteq Keys \cup {"lines"} /\ e.key \in Keys /\ e.stale \subseteq Keys \cup {"lines"}
      /\ base \in Values /\ base["r"] = 0
  BY <1>1, <1>2, <1>3 DEF EditSaves, WithKey, SetInv, FilesOk, Editing, JobRules
<1>5. AsksFor(w) \in Nat
  BY KeysAre DEF AsksFor
<1>6. c \in Confs /\ c.is = "ok" /\ c.v = [base EXCEPT ![e.key] = AsksFor(w)]
  <2>1. c = [is |-> "ok", lines |-> FALSE, v |-> [base EXCEPT ![e.key] = AsksFor(w)]]
    BY <1>3 DEF Defaults
  <2> QED
    BY <1>4, <1>5, <2>1 DEF Confs, Values
<1>7. broken \/ "lines" \in unsure'
  BY <1>4 DEF SetInv, FilesOk, ConfRules, LinesAre
<1> QED
  BY <1>1, <1>4, <1>6, <1>7, EditWrites

LEMMA InitSet ==
  ASSUME SettingsInit PROVE SetInv
<1>1. PICK is \in {"absent", "bad", "ok"}, s \in {0, 9} :
        conf = [is |-> is, lines |-> is # "absent",
                v |-> IF is = "ok" THEN [Nothing EXCEPT !["s"] = s, !["k"] = 9] ELSE Nothing]
  BY DEF SettingsInit
<1>2. PICK v : v = IF is = "ok" THEN [Nothing EXCEPT !["s"] = s, !["k"] = 9] ELSE Nothing
  OBVIOUS
<1>3. PICK a : a = [Nothing EXCEPT !["s"] = s]
  OBVIOUS
<1>4. a \in Values /\ a["r"] = 0
  BY <1>3, KeysAre DEF Values
<1>5. [a EXCEPT !["k"] = 9] \in Values /\ [a EXCEPT !["k"] = 9]["r"] = 0
  BY <1>4, KeysAre DEF Values
<1>6. v \in Values /\ v["r"] = 0 /\ (is # "ok" => v = Nothing)
  BY <1>2, <1>3, <1>5, KeysAre
<1>7. conf = [is |-> is, lines |-> is # "absent", v |-> v]
  BY <1>1, <1>2
<1>8. ConfRules /\ conf.lines = (is # "absent") /\ conf.v = v
  BY <1>6, <1>7 DEF ConfRules, Confs
<1>9. PICK t \in {0, 8} : state = [Nothing EXCEPT !["s"] = t]
  BY DEF SettingsInit
<1>10. state \in Values /\ state["r"] = 0
  BY <1>9, KeysAre DEF Values
<1>11. /\ broken = FALSE /\ unsure = (IF conf.lines THEN {} ELSE {"lines"})
       /\ editor = [w \in Editors |-> NewEditor] /\ want = [key \in Keys |-> Effective(key)]
  BY DEF SettingsInit
<1>12. \A key \in Keys : Effective(key) \in Nat
  BY <1>6, <1>8, <1>10 DEF Effective, Values
<1>13. want \in Values /\ \A key \in Keys : want[key] = Effective(key)
  BY <1>11, <1>12 DEF Values
<1>14. PICK e : e = NewEditor
  OBVIOUS
<1>15. /\ e \in Editing /\ e.pc = "idle" /\ JobRules(e) /\ ~Clears(e) /\ ~Undoes(e) /\ e.pc \notin InConf
  <2>1. NoConf \in Confs
    BY KeysAre DEF NoConf, Confs
  <2>2. e = [pc |-> "idle", job |-> "none", key |-> "u", mem |-> Nothing, read |-> NoConf, stale |-> {}]
    BY <1>14 DEF NewEditor
  <2> QED
    BY <2>1, <2>2, KeysAre DEF Editing, EditorPcs, JobRules, Clears, Undoes
<1>16. editor \in [Editors -> Editing] /\ \A x \in Editors : editor[x] = e
  BY <1>11, <1>14, <1>15
<1>17. LinesOf(e) /\ PlainOf(e) /\ RegionOf(e) /\ UndoOf(e) /\ PutOf(e) /\ MemOf(e)
  BY <1>15 DEF LinesOf, PlainOf, RegionOf, UndoOf, PutOf, MemOf
<1>18. \A x \in Editors : EditorOk(x)
  BY <1>15, <1>16, <1>17 DEF EditorOk, ClearOf
<1>19. \A x, z \in Editors : PutBeside(x, z)
  BY <1>15, <1>16 DEF PutBeside
<1>20. FilesOk
  <2>1. LinesAre
    BY <1>11 DEF LinesAre
  <2>2. PlainIs
    BY <1>13, KeysAre DEF PlainIs, Plain, Effective
  <2>3. RegionIs
    BY <1>8, <1>6, <1>10, <1>13, KeysAre DEF RegionIs, Effective
  <2>4. ColorIs
    BY <1>13, KeysAre DEF ColorIs
  <2> QED
    BY <1>8, <1>10, <1>11, <1>13, <2>1, <2>2, <2>3, <2>4 DEF FilesOk
<1> QED
  BY <1>16, <1>18, <1>19, <1>20 DEF SetInv

LEMMA NextSet ==
  ASSUME SetInv, [SettingsNext]_settingsVars PROVE SetInv'
<1>1. CASE UNCHANGED settingsVars
  <2>1. FilesOk' <=> FilesOk
    BY <1>1 DEF settingsVars, FilesOk, ConfRules, LinesAre, PlainIs, RegionIs, ColorIs, Undoing, Undoes, Clears, Effective
  <2>2. ASSUME NEW x \in Editors PROVE EditorOk(x)' <=> EditorOk(x)
    BY <1>1 DEF settingsVars, EditorOk, JobRules, LinesOf, PlainOf, RegionOf, ClearOf, UndoOf, PutOf, MemOf, Puts,
                Fresh, Hidden, Undoing, Undoes, Clears, Effective
  <2>3. ASSUME NEW x \in Editors, NEW z \in Editors PROVE PutBeside(x, z)' <=> PutBeside(x, z)
    BY <1>1 DEF settingsVars, PutBeside, Puts, Fresh, Clears
  <2> QED
    BY <1>1, <2>1, <2>2, <2>3 DEF SetInv, settingsVars
<1>2. CASE SettingsNext
  <2>1. PICK w \in Editors :
          \/ \E key \in {"u", "k", "s"} : LoadReads(w, "set", key)
          \/ \E key \in {"u", "s"} : LoadReads(w, "unset", key)
          \/ LoadReads(w, "watch", "k") \/ LoadReads(w, "unset", "k") \/ LoadReads(w, "capture", "r")
          \/ LoadSetsAside(w) \/ LoadSeeds(w) \/ CaptureOverlays(w) \/ CaptureMigrates(w)
          \/ \E keys \in {{}, {"s"}, {"r"}, {"s", "r"}} : CapturePersists(w, keys)
          \/ \E captured \in BOOLEAN : WatchEnds(w, captured)
          \/ UnsetStarts(w) \/ EditReads(w) \/ EditRenames(w) \/ EditFails(w) \/ EditSaves(w)
          \/ ClearReads(w) \/ ClearRenames(w) \/ ClearEnds(w) \/ EditorKilled(w)
    BY <1>2 DEF SettingsNext
  <2>2. ASSUME NEW job \in {"set", "unset", "watch"}, NEW key \in {"u", "k", "s"}, job = "watch" => key = "k",
               LoadReads(w, job, key)
        PROVE  SetInv'
    BY <2>2, LoadReadsKeeps, KeysAre
  <2>3. LoadReads(w, "capture", "r") => SetInv'
    <3>1. PICK job \in {"set", "unset", "watch", "capture"}, key \in Keys : job = "capture" /\ key = "r"
      BY KeysAre
    <3> QED
      BY <3>1, LoadReadsKeeps
  <2>4. ASSUME NEW keys \in {{}, {"s"}, {"r"}, {"s", "r"}}, CapturePersists(w, keys) PROVE SetInv'
    <3>1. keys \in SUBSET StateKeys
      BY KeysAre
    <3> QED
      BY <2>4, <3>1, PersistsKeeps
  <2>5. (\E captured \in BOOLEAN : WatchEnds(w, captured)) => SetInv'
    BY WatchKeeps
  <2>6. LoadSetsAside(w) \/ LoadSeeds(w) \/ CaptureOverlays(w) \/ CaptureMigrates(w) => SetInv'
    BY SetsAsideKeeps, SeedsKeeps, OverlaysKeeps, MigratesKeeps
  <2>7. UnsetStarts(w) \/ EditReads(w) \/ EditRenames(w) \/ EditFails(w) \/ EditSaves(w) => SetInv'
    BY UnsetStartsKeeps, EditReadsKeeps, EditRenamesKeeps, EditSavesKeeps, LeavingSteps
  <2>8. ClearReads(w) \/ ClearRenames(w) \/ ClearEnds(w) \/ EditorKilled(w) => SetInv'
    BY ClearReadsKeeps, ClearRenamesKeeps, ClearEndsKeeps, LeavingSteps
  <2> QED
    BY <2>1, <2>2, <2>3, <2>4, <2>5, <2>6, <2>7, <2>8
<1> QED
  BY <1>1, <1>2

LEMMA SetInvMeans ==
  ASSUME SetInv PROVE SettingsSurvive
<1>1. /\ conf.v["r"] = 0 /\ (conf.lines \/ broken \/ "lines" \in unsure)
      /\ PlainIs /\ RegionIs /\ ColorIs /\ \A x \in Editors : JobRules(editor[x])
  BY DEF SetInv, FilesOk, ConfRules, LinesAre, EditorOk
<1>2. ASSUME NEW key \in Keys \ unsure, key \in Plain PROVE Effective(key) = want[key]
  BY <1>1, <1>2, KeysAre DEF PlainIs, Plain, Effective
<1>3. "r" \notin unsure => Effective("r") = want["r"]
  BY <1>1, KeysAre DEF RegionIs, Effective
<1>4. ASSUME "s" \notin unsure,
             \A x \in Editors : /\ editor[x].pc \notin {"clear", "clearing", "cleared"}
                                /\ ~(editor[x].key = "s" /\ editor[x].job = "unset")
      PROVE  Effective("s") = want["s"]
  <2>1. ~Undoing /\ \A x \in Editors : ~Clears(editor[x])
    BY <1>4 DEF Undoing, Undoes, Clears
  <2> QED
    BY <1>1, <1>4, <2>1 DEF ColorIs
<1>5. ASSUME NEW key \in Keys \ unsure,
             \A x \in Editors : key = "s" => /\ editor[x].pc \notin {"clear", "clearing", "cleared"}
                                             /\ ~(editor[x].key = "s" /\ editor[x].job = "unset")
      PROVE  Effective(key) = want[key]
  <2>1. CASE key \in Plain
    BY <1>2, <2>1
  <2>2. CASE key = "r"
    BY <1>3, <2>2
  <2>3. CASE key = "s"
    BY <1>4, <1>5, <2>3
  <2> QED
    BY <2>1, <2>2, <2>3, KeysAre DEF Plain
<1> QED
  BY <1>1, <1>5 DEF SettingsSurvive

\* Whatever `set`, `unset`, the key watch and captures run at the same time, and
\* wherever they fail or are killed, each setting is what the last change asked
\* for, the user's own lines are in config.toml or set aside, and what captures
\* remember never reaches config.toml; but for what a write is known to have put
\* back (config.c, save.c, patch.c, edit_persist.c).
THEOREM SettingsOutlive == CommandsSpec => []SettingsSurvive
<1>1. CommandsInit => SetInv
  BY InitSet DEF CommandsInit
<1>2. SetInv /\ [CommandsNext]_commandsVars => SetInv'
  <2>1. [CommandsNext]_commandsVars => [SettingsNext]_settingsVars
    BY DEF CommandsNext, Only, commandsVars
  <2> QED
    BY <2>1, NextSet
<1>3. SetInv => SettingsSurvive
  BY SetInvMeans
<1> QED
  BY <1>1, <1>2, <1>3, PTL DEF CommandsSpec
=============================================================================
