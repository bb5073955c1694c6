------------------------------ MODULE Plugins ------------------------------
(***************************************************************************)
(* Installing, updating, removing and running a plugin (src/plugin).  A    *)
(* plugin is a git work tree with a binary in it and a link in .bin that   *)
(* makes it a command; every operation but running it holds the lock of    *)
(* the plugin directory, and any of them may be killed at any step (with   *)
(* its git, sh or rm: they share the terminal's process group).            *)
(*                                                                         *)
(* One plugin, one url.  Its author publishes versions of the manifest     *)
(* (with the checksum of that version's binary) and of the binary behind   *)
(* the prebuilt url, in either order.                                      *)
(***************************************************************************)
EXTENDS Naturals

CONSTANTS PluginOps, MaxVersion       \* concurrent invocations; a bound
ASSUME PluginAssumption == MaxVersion \in Nat \ {0} /\ "nobody" \notin PluginOps

Versions == 1 .. MaxVersion

VARIABLES
  plugKind,    \* "build" or "prebuilt": what the manifest says
  plugHead,    \* the manifest version at the git url
  plugAsset,   \* the version of the binary at the prebuilt url
  plugDir,     \* the installed directory: work tree, binary, .source, .last_check
  plugLink,    \* .bin/grabit-<name> is there
  plugTmps,    \* invocations with a .tmp clone on disk
  plugHolder,  \* who has the lock, or "nobody"
  plugOp,      \* per invocation: pc, and what it read
  plugChecked, \* history: the versions whose checksum was verified
  plugBroken   \* history: an invocation was killed since the last removal

plugVars == <<plugKind, plugHead, plugAsset, plugDir, plugLink, plugTmps, plugHolder, plugOp,
              plugChecked, plugBroken>>
plugWorld == <<plugKind, plugHead, plugAsset>>

NoPlugin == [tree |-> 0, bin |-> 0, source |-> "none", sha |-> 0, fresh |-> FALSE]
Resting  == [pc |-> "rest", tree |-> 0, source |-> "none", sha |-> 0]
Installed == plugDir.tree # 0

OpGoes(o, from, to) == plugOp[o].pc = from /\ plugOp' = [plugOp EXCEPT ![o].pc = to]
OpEnds(o, from)     == /\ plugOp[o].pc = from
                       /\ plugOp' = [plugOp EXCEPT ![o] = Resting]
                       /\ plugHolder' = "nobody"

-----------------------------------------------------------------------------
(* plugin_lock_acquire: without it the command fails at once.              *)

PluginBegins(o, command) ==
  /\ OpGoes(o, "rest", command) /\ plugHolder = "nobody"
  /\ plugHolder' = o
  /\ UNCHANGED <<plugWorld, plugDir, plugLink, plugTmps, plugChecked, plugBroken>>

\* A failed step of an install: fail_manifest and fail_clone remove the directory
\* that plugin_dir names by then, the clone or the installed one.
InstallFails(o, from) ==
  /\ OpEnds(o, from)
  /\ plugTmps' = plugTmps \ {o}
  /\ plugDir' = IF from = "clone" THEN plugDir ELSE NoPlugin
  /\ UNCHANGED <<plugWorld, plugLink, plugChecked, plugBroken>>

-----------------------------------------------------------------------------
(* plugin_install_git.                                                     *)

\* gc_stale_tmp removes the clones of processes that are gone: every other one,
\* since a living one would hold the lock.  Then git clone.
InstallClones(o) ==
  /\ plugOp[o].pc = "install"
  /\ plugOp' = [plugOp EXCEPT ![o].pc = "clone", ![o].tree = plugHead]
  /\ plugTmps' = {o}
  /\ UNCHANGED <<plugWorld, plugDir, plugLink, plugHolder, plugChecked, plugBroken>>

\* The manifest is read, and the clone becomes the plugin unless there is one.
InstallRenames(o) ==
  /\ plugOp[o].pc = "clone"
  /\ IF Installed
     THEN OpEnds(o, "clone") /\ UNCHANGED plugDir
     ELSE /\ OpGoes(o, "clone", "binary")
          /\ plugDir' = [NoPlugin EXCEPT !.tree = plugOp[o].tree]
          /\ UNCHANGED plugHolder
  /\ plugTmps' = plugTmps \ {o}
  /\ UNCHANGED <<plugWorld, plugLink, plugChecked, plugBroken>>

\* sh -c build.cmd, or the download to the binary's own name.
InstallGetsBinary(o) ==
  /\ OpGoes(o, "binary", IF plugKind = "build" THEN "link" ELSE "verify")
  /\ plugDir' = [plugDir EXCEPT !.bin = IF plugKind = "build" THEN plugDir.tree ELSE plugAsset]
  /\ UNCHANGED <<plugWorld, plugLink, plugTmps, plugHolder, plugChecked, plugBroken>>

\* plugin_verify_sha256; a mismatch is InstallFails.
InstallVerifies(o) ==
  /\ OpGoes(o, "verify", "link") /\ plugDir.bin = plugOp[o].tree
  /\ plugChecked' = plugChecked \cup {plugDir.bin}
  /\ UNCHANGED <<plugWorld, plugDir, plugLink, plugTmps, plugHolder, plugBroken>>

InstallLinks(o) ==
  /\ OpGoes(o, "link", "source")
  /\ plugLink' = TRUE
  /\ UNCHANGED <<plugWorld, plugDir, plugTmps, plugHolder, plugChecked, plugBroken>>

\* plugin_state_write, through a temporary file and rename: all or nothing, and
\* its failure is ignored; then plugin_touch_check.
InstallRecords(o, ok) ==
  /\ OpEnds(o, "source")
  /\ plugDir' = [plugDir EXCEPT
       !.source = IF ~ok THEN "none" ELSE IF plugKind = "build" THEN "git" ELSE "prebuilt",
       !.sha = IF ok /\ plugKind = "prebuilt" THEN plugOp[o].tree ELSE 0,
       !.fresh = TRUE]
  /\ UNCHANGED <<plugWorld, plugLink, plugTmps, plugChecked, plugBroken>>

-----------------------------------------------------------------------------
(* plugin_remove: the command first, then the directory.                   *)

RemoveUnlinks(o) ==
  /\ plugOp[o].pc = "remove"
  /\ IF Installed THEN OpGoes(o, "remove", "rm") /\ plugLink' = FALSE /\ UNCHANGED plugHolder
                  ELSE OpEnds(o, "remove") /\ UNCHANGED plugLink
  /\ UNCHANGED <<plugWorld, plugDir, plugTmps, plugChecked, plugBroken>>

RemoveDeletes(o) ==
  /\ OpEnds(o, "rm")
  /\ plugDir' = NoPlugin /\ plugBroken' = FALSE
  /\ UNCHANGED <<plugWorld, plugLink, plugTmps, plugChecked>>

-----------------------------------------------------------------------------
(* plugin_update.                                                          *)

\* The manifest and .source are read once, before anything is fetched; without
\* a .source the plugin counts as a git one.
UpdateReads(o) ==
  /\ plugOp[o].pc = "update"
  /\ IF Installed
     THEN /\ plugOp' = [plugOp EXCEPT ![o] =
               [pc |-> IF plugDir.source = "prebuilt" THEN "fetch" ELSE "pull",
                tree |-> plugDir.tree, source |-> plugDir.source,
                sha |-> IF plugDir.sha # 0 THEN plugDir.sha ELSE plugDir.tree]]
          /\ UNCHANGED plugHolder
     ELSE OpEnds(o, "update")
  /\ UNCHANGED <<plugWorld, plugDir, plugLink, plugTmps, plugChecked, plugBroken>>

\* git fetch and git reset --hard.  Either may fail: UpdateFails.
UpdatePulls(o) ==
  /\ OpGoes(o, "pull", IF plugKind = "build" THEN "rebuild" ELSE "touch")
  /\ plugDir' = [plugDir EXCEPT !.tree = plugHead]
  /\ UNCHANGED <<plugWorld, plugLink, plugTmps, plugHolder, plugChecked, plugBroken>>

\* With the command of the manifest that was read before the reset: the binary
\* is the new one, or, if that command no longer makes it, what it was.
UpdateBuilds(o) ==
  /\ OpGoes(o, "rebuild", "touch")
  /\ \E bin \in {plugDir.tree, plugDir.bin} : plugDir' = [plugDir EXCEPT !.bin = bin]
  /\ UNCHANGED <<plugWorld, plugLink, plugTmps, plugHolder, plugChecked, plugBroken>>

\* A failing build may have removed the binary; the check is not recorded.
UpdateFails(o) ==
  /\ plugOp[o].pc \in {"pull", "rebuild"}
  /\ OpEnds(o, plugOp[o].pc)
  /\ \E bin \in {plugDir.bin} \cup (IF plugOp[o].pc = "rebuild" THEN {0} ELSE {}) :
       plugDir' = [plugDir EXCEPT !.bin = bin]
  /\ UNCHANGED <<plugWorld, plugLink, plugTmps, plugChecked, plugBroken>>

\* Slip: the download replaces the binary before it is verified.
UpdateFetchesInPlace(o) ==
  /\ OpGoes(o, "fetch", "touch")
  /\ plugDir' = [plugDir EXCEPT !.bin = plugAsset]
  /\ UNCHANGED <<plugWorld, plugLink, plugTmps, plugHolder, plugChecked, plugBroken>>

\* update_prebuilt: download to <binary>.new, verify against the recorded
\* checksum, rename.  A failed, unneeded or mismatched download leaves the old
\* binary; the check is recorded in every case.
UpdateFetches(o) ==
  /\ OpGoes(o, "fetch", "touch")
  /\ \/ UNCHANGED <<plugDir, plugChecked>>
     \/ /\ plugAsset = plugOp[o].sha
        /\ plugDir' = [plugDir EXCEPT !.bin = plugAsset]
        /\ plugChecked' = plugChecked \cup {plugAsset}
  /\ UNCHANGED <<plugWorld, plugLink, plugTmps, plugHolder, plugBroken>>

UpdateTouches(o) ==
  /\ OpEnds(o, "touch")
  /\ plugDir' = [plugDir EXCEPT !.fresh = TRUE]
  /\ UNCHANGED <<plugWorld, plugLink, plugTmps, plugChecked, plugBroken>>

-----------------------------------------------------------------------------
(* plugin_maybe_auto_update, when the plugin is run: under the lock, if it  *)
(* is free, the check is recorded; a prebuilt plugin then gets an update    *)
(* process of its own, which takes the lock anew.                          *)

RunChecks(o) ==
  /\ plugOp[o].pc = "rest" /\ plugHolder = "nobody" /\ plugLink /\ Installed /\ ~plugDir.fresh
  /\ plugDir' = [plugDir EXCEPT !.fresh = TRUE]
  /\ plugOp' = [plugOp EXCEPT ![o].pc = IF plugDir.source = "prebuilt" THEN "spawned" ELSE "rest"]
  /\ UNCHANGED <<plugWorld, plugLink, plugTmps, plugHolder, plugChecked, plugBroken>>

SpawnedUpdates(o) ==
  /\ IF plugHolder = "nobody" THEN OpGoes(o, "spawned", "update") /\ plugHolder' = o
                              ELSE OpGoes(o, "spawned", "rest") /\ UNCHANGED plugHolder
  /\ UNCHANGED <<plugWorld, plugDir, plugLink, plugTmps, plugChecked, plugBroken>>

\* check_every_hours goes by.
CheckAges == /\ plugDir.fresh /\ plugDir' = [plugDir EXCEPT !.fresh = FALSE]
             /\ UNCHANGED <<plugWorld, plugLink, plugTmps, plugHolder, plugOp, plugChecked, plugBroken>>

\* The kernel releases the lock.
PluginKilled(o) ==
  /\ plugOp[o].pc # "rest"
  /\ plugOp' = [plugOp EXCEPT ![o] = Resting]
  /\ plugHolder' = IF plugHolder = o THEN "nobody" ELSE plugHolder
  /\ plugBroken' = TRUE
  /\ UNCHANGED <<plugWorld, plugDir, plugLink, plugTmps, plugChecked>>

PublishManifest == /\ plugHead < MaxVersion /\ plugHead' = plugHead + 1
                   /\ UNCHANGED <<plugKind, plugAsset, plugDir, plugLink, plugTmps, plugHolder, plugOp,
                                  plugChecked, plugBroken>>
PublishAsset == /\ plugAsset < MaxVersion /\ plugAsset' = plugAsset + 1
                /\ UNCHANGED <<plugKind, plugHead, plugDir, plugLink, plugTmps, plugHolder, plugOp,
                               plugChecked, plugBroken>>

-----------------------------------------------------------------------------
PluginsInit ==
  /\ plugKind \in {"build", "prebuilt"} /\ plugHead = 1 /\ plugAsset = 1
  /\ plugDir = NoPlugin /\ plugLink = FALSE /\ plugTmps = {} /\ plugHolder = "nobody"
  /\ plugOp = [o \in PluginOps |-> Resting] /\ plugChecked = {} /\ plugBroken = FALSE

PluginStep(o) ==
  \/ \E command \in {"install", "remove", "update"} : PluginBegins(o, command)
  \/ \E from \in {"clone", "binary", "verify", "link"} : InstallFails(o, from)
  \/ InstallClones(o) \/ InstallRenames(o) \/ InstallGetsBinary(o) \/ InstallVerifies(o)
  \/ InstallLinks(o) \/ \E ok \in BOOLEAN : InstallRecords(o, ok)
  \/ RemoveUnlinks(o) \/ RemoveDeletes(o)
  \/ UpdateReads(o) \/ UpdatePulls(o) \/ UpdateBuilds(o) \/ UpdateFails(o)
  \/ UpdateFetches(o) \/ UpdateTouches(o)
  \/ RunChecks(o) \/ SpawnedUpdates(o) \/ PluginKilled(o)

PluginsNext == (\E o \in PluginOps : PluginStep(o)) \/ CheckAges \/ PublishManifest \/ PublishAsset

-----------------------------------------------------------------------------
PluginsTypeOK ==
  /\ {plugHead, plugAsset} \subseteq Versions /\ plugTmps \subseteq PluginOps
  /\ {plugDir.tree, plugDir.bin, plugDir.sha} \subseteq Versions \cup {0}
  /\ plugHolder \in PluginOps \cup {"nobody"}
  /\ \A o \in PluginOps : plugOp[o].pc \notin {"rest", "spawned"} => plugHolder = o

\* The command of a prebuilt plugin never runs a binary that was not verified
\* (plugin_verify_sha256), and the checksum on record is that binary's, however
\* installs, updates and removals are interleaved, killed and overtaken by new
\* versions; and a command that is there has a plugin behind it.  Unless one of
\* them was killed, a plugin that is there has its command: a failed install
\* leaves nothing behind.
CommandIsVerified ==
  /\ plugLink => Installed
  /\ plugLink /\ plugKind = "prebuilt" => plugDir.bin \in plugChecked
  /\ plugDir.sha # 0 => plugDir.sha = plugDir.bin
  /\ plugHolder = "nobody" /\ ~plugBroken => (Installed => plugLink)

=============================================================================
