------------------------------ MODULE Settings ------------------------------
(***************************************************************************)
(* config.toml and state.toml (config/config.c, cli.c, save.c, patch.c,    *)
(* region/edit_persist.c).  `set`, `unset`, the key watch and the reset    *)
(* edit one key of config.toml in place; a capture reads both files when   *)
(* it starts and writes state.toml when the selection ends.  No lock: only *)
(* the rename at the end of a write is atomic (paths_atomic_write).        *)
(*                                                                         *)
(* "u" is an ordinary key, "k" a keybind, "s" a state key that is also set *)
(* by hand (edit.color), "r" one that is not (region.last).  save_state is *)
(* on.  Everybody writes one value of his own; 0 is a key that is not set. *)
(***************************************************************************)
EXTENDS Naturals, FiniteSets

CONSTANTS Editors, OwnValue      \* invocations; the value each one writes
ASSUME SettingsAssumption == OwnValue \in [Editors -> Nat \ {0}]

VARIABLES
  conf,      \* config.toml: whether it can be parsed, the user's own lines, its keys
  broken,    \* config.toml.broken holds the user's own lines
  state,     \* state.toml
  editor,    \* per invocation: pc, job, key, what it has in memory and what it read
  want,      \* history: what the changes made so far ask of each key
  unsure     \* history: keys (and the user's "lines") a write may have put back

settingsVars == <<conf, broken, state, editor, want, unsure>>

Keys      == {"u", "k", "s", "r"}
StateKeys == {"s", "r"}
Nothing   == [key \in Keys |-> 0]
NoConf    == [is |-> "absent", lines |-> FALSE, v |-> Nothing]
Defaults  == [is |-> "ok", lines |-> FALSE, v |-> Nothing]
NewEditor == [pc |-> "idle", job |-> "none", key |-> "u", mem |-> Nothing, read |-> NoConf, stale |-> {}]

Does(w, pc) == editor[w].pc = pc
Sets(w)     == editor[w].job \in {"set", "watch"}
AsksFor(w)  == IF Sets(w) THEN OwnValue[w] ELSE 0
Effective(key) == IF key \in StateKeys /\ state[key] # 0 THEN state[key] ELSE conf.v[key]
\* Terminal states look alike.
Leaves(w)   == [editor EXCEPT ![w] = [NewEditor EXCEPT !.pc = "gone"]]

\* e, and everybody who wrote after reading what w changes now has it stale.
InConf  == {"aside", "seed", "rename"}
InState == {"overlay", "migrate", "select", "clear", "clearing", "cleared"}
Stales(e, w, keys, pcs) ==
  [x \in Editors |-> IF x # w /\ (editor[x].pc \in pcs \/ (pcs = InState /\ editor[x].job = "unset"))
                     THEN [e[x] EXCEPT !.stale = @ \cup keys \cup
                             IF editor[x].pc \in {"aside", "seed"} THEN {"lines"} ELSE {}]
                     ELSE e[x]]
\* w writes: what it has stale is no longer sure, what it asks for is.
Settles(w, changed) == unsure' = (unsure \cup editor[w].stale) \ changed

-----------------------------------------------------------------------------
(* config_load.                                                            *)

Loaded(job) == CASE job = "capture" -> "overlay" [] job = "watch" -> "watch"
                 [] job = "unset" -> "unset"     [] OTHER -> "read"

LoadReads(w, job, key) ==
  /\ Does(w, "idle")
  /\ editor' = [editor EXCEPT ![w].job = job, ![w].key = key, ![w].mem = conf.v,
       ![w].pc = CASE conf.is = "absent" -> "seed" [] conf.is = "bad" -> "aside" [] OTHER -> Loaded(job)]
  /\ UNCHANGED <<conf, broken, state, want, unsure>>

\* Unparsable: whatever is there by now becomes config.toml.broken ...
LoadSetsAside(w) ==
  /\ Does(w, "aside")
  /\ \/ /\ conf.is # "absent"
        /\ broken' = conf.lines /\ conf' = NoConf
        /\ editor' = Stales([editor EXCEPT ![w].pc = "seed"], w, Keys, InConf)
        /\ Settles(w, {})
     \/ conf.is = "absent" /\ editor' = Leaves(w) /\ UNCHANGED <<conf, broken, unsure>>
  /\ UNCHANGED <<state, want>>

\* ... and the defaults are written, over whatever is there by now.
LoadSeeds(w) ==
  /\ Does(w, "seed")
  /\ conf' = Defaults
  /\ editor' = Stales([editor EXCEPT ![w].pc = Loaded(editor[w].job), ![w].mem = Nothing], w, Keys, InConf)
  /\ Settles(w, {})
  /\ UNCHANGED <<broken, state, want>>

-----------------------------------------------------------------------------
(* A capture: config_load_full, config_state_migrate, persist_state_keys.  *)

\* config_state_overlay; an absent state.toml is written from the config if
\* that has state keys.
CaptureOverlays(w) ==
  /\ Does(w, "overlay")
  /\ LET mem == [key \in Keys |-> IF key \in StateKeys /\ state[key] # 0 THEN state[key]
                                  ELSE editor[w].mem[key]]
         migrates == state = Nothing /\ \E key \in StateKeys : mem[key] # 0
     IN editor' = [editor EXCEPT ![w].mem = mem, ![w].pc = IF migrates THEN "migrate" ELSE "select"]
  /\ UNCHANGED <<conf, broken, state, want, unsure>>

\* state_write_from: the state keys of the memory, all of them.
InMemory(w, keys) == [key \in Keys |-> IF key \notin StateKeys THEN 0
                                       ELSE IF key \in keys THEN OwnValue[w] ELSE editor[w].mem[key]]

CaptureMigrates(w) ==
  /\ Does(w, "migrate")
  /\ state' = InMemory(w, {})
  /\ editor' = Stales([editor EXCEPT ![w].pc = "select"], w, StateKeys, InState)
  /\ Settles(w, {})
  /\ UNCHANGED <<conf, broken, want>>

\* The selection ends, after any time: the keys that were chosen are put if one
\* of them differs from the memory.
CapturePersists(w, keys) ==
  /\ Does(w, "select")
  /\ \/ /\ \E key \in keys : editor[w].mem[key] # OwnValue[w]
        /\ state' = InMemory(w, keys)
        /\ editor' = Stales(Leaves(w), w, StateKeys, InState)
        /\ want' = [key \in Keys |-> IF key \in keys THEN OwnValue[w] ELSE want[key]]
        /\ Settles(w, keys)
     \/ /\ \A key \in keys : editor[w].mem[key] = OwnValue[w]
        /\ editor' = Leaves(w) /\ UNCHANGED <<state, want, unsure>>
  /\ UNCHANGED <<conf, broken>>

-----------------------------------------------------------------------------
(* cmd_set_watch, cmd_unset and cmd_set_reset, cfg_persist.                *)

\* The keys are captured, after any time; or that is cancelled.
WatchEnds(w, captured) ==
  /\ Does(w, "watch")
  /\ editor' = IF captured THEN [editor EXCEPT ![w].pc = "read"] ELSE Leaves(w)
  /\ UNCHANGED <<conf, broken, state, want, unsure>>

\* Nothing to remove: nothing is written.  A state key is always tried.
UnsetStarts(w) ==
  /\ Does(w, "unset")
  /\ LET key == editor[w].key IN
     editor' = IF key = "s" THEN [editor EXCEPT ![w].pc = "clear"]
               ELSE IF editor[w].mem[key] = 0 THEN Leaves(w) ELSE [editor EXCEPT ![w].pc = "read"]
  /\ UNCHANGED <<conf, broken, state, want, unsure>>

\* Slip: the file is written from what was loaded.
EditReadsMemory(w) ==
  /\ Does(w, "read") /\ conf.is = "ok"
  /\ editor' = [editor EXCEPT ![w].pc = "rename", ![w].read = [conf EXCEPT !.v = editor[w].mem],
                              ![w].stale = @ \cap StateKeys]
  /\ UNCHANGED <<conf, broken, state, want, unsure>>

\* cfg_file_edit reads the file anew; the memory is minutes old after a watch.
EditReads(w) ==
  /\ Does(w, "read") /\ conf.is = "ok"
  /\ editor' = [editor EXCEPT ![w].pc = "rename", ![w].read = conf, ![w].stale = @ \cap StateKeys]
  /\ UNCHANGED <<conf, broken, state, want, unsure>>

\* What follows a change of config.toml: config_state_clear after cfg_store.
Stored(w) == IF editor[w].key = "s" /\ Sets(w) THEN [editor EXCEPT ![w].pc = "clear", ![w].stale = {}]
                                              ELSE Leaves(w)
WantedKeys(w) == IF editor[w].key = "s" /\ Sets(w) THEN want ELSE [want EXCEPT ![editor[w].key] = AsksFor(w)]
WithKey(v, w) == [v EXCEPT ![editor[w].key] = AsksFor(w)]
WritesConf(w) ==
  /\ editor' = Stales(Stales(Stored(w), w, {editor[w].key}, InConf), w, {editor[w].key} \cap StateKeys, InState)
  /\ want' = WantedKeys(w)
  /\ UNCHANGED <<broken, state>>

\* Every other line stays as it was read.
EditRenames(w) ==
  /\ Does(w, "rename")
  /\ conf' = [editor[w].read EXCEPT !.v = WithKey(@, w)]
  /\ WritesConf(w)
  /\ Settles(w, {editor[w].key} \ editor[w].stale)

\* The file is there but cannot be read or replaced: it is left alone.  An
\* `unset` has cleared the state by then.
EditFails(w) ==
  /\ editor[w].pc \in {"read", "rename"} /\ conf.is # "absent"
  /\ editor' = Leaves(w)
  /\ unsure' = IF editor[w].job = "unset" THEN unsure \cup {editor[w].key} ELSE unsure
  /\ UNCHANGED <<conf, broken, state, want>>

\* It is gone: the loaded config is saved (config_save).
EditSaves(w) ==
  /\ editor[w].pc \in {"read", "rename"} /\ conf.is = "absent"
  /\ conf' = [Defaults EXCEPT !.v = WithKey(editor[w].mem, w)]
  /\ WritesConf(w)
  /\ unsure' = unsure \cup (Keys \ {editor[w].key}) \cup editor[w].stale

\* config_state_clear
ClearReads(w) ==
  /\ Does(w, "clear")
  /\ editor' = [editor EXCEPT ![w].pc = IF state["s"] = 0 THEN "cleared" ELSE "clearing",
                              ![w].read = [NoConf EXCEPT !.v = state], ![w].stale = @ \cap {"s"}]
  /\ want' = IF Sets(w) /\ state["s"] = 0 THEN [want EXCEPT !["s"] = OwnValue[w]] ELSE want
  /\ Settles(w, {})
  /\ UNCHANGED <<conf, broken, state>>

ClearRenames(w) ==
  /\ Does(w, "clearing")
  /\ state' = [editor[w].read.v EXCEPT !["s"] = 0]
  /\ editor' = Stales([editor EXCEPT ![w].pc = "cleared"], w, {"s"}, InState)
  /\ want' = IF Sets(w) THEN [want EXCEPT !["s"] = OwnValue[w]] ELSE want
  /\ Settles(w, {})
  /\ UNCHANGED <<conf, broken>>

\* A `set` is done now, an `unset` goes on with config.toml.
ClearEnds(w) ==
  /\ Does(w, "cleared")
  /\ editor' = IF Sets(w) THEN Leaves(w) ELSE [editor EXCEPT ![w].pc = "read"]
  /\ Settles(w, {})
  /\ UNCHANGED <<conf, broken, state, want>>

\* At any time; a write that was under way leaves a .grabit.XXXXXX.
EditorKilled(w) ==
  /\ editor[w].pc \notin {"idle", "gone"}
  /\ editor' = Leaves(w)
  /\ unsure' = IF editor[w].key = "s" /\ editor[w].job # "capture" THEN unsure \cup {"s"} ELSE unsure
  /\ UNCHANGED <<conf, broken, state, want>>

-----------------------------------------------------------------------------
SettingsInit ==
  /\ \E is \in {"absent", "bad", "ok"}, s \in {0, 9} :
       conf = [is |-> is, lines |-> is # "absent",
               v |-> IF is = "ok" THEN [Nothing EXCEPT !["s"] = s, !["k"] = 9] ELSE Nothing]
  /\ broken = FALSE /\ unsure = IF conf.lines THEN {} ELSE {"lines"}
  /\ \E s \in {0, 8} : state = [Nothing EXCEPT !["s"] = s]
  /\ editor = [w \in Editors |-> NewEditor]
  /\ want = [key \in Keys |-> Effective(key)]

SettingsNext == \E w \in Editors :
  \/ (\E key \in {"u", "k", "s"} : LoadReads(w, "set", key)) \/ (\E key \in {"u", "s"} : LoadReads(w, "unset", key))
  \/ LoadReads(w, "watch", "k") \/ LoadReads(w, "unset", "k") \/ LoadReads(w, "capture", "r")
  \/ LoadSetsAside(w) \/ LoadSeeds(w)
  \/ CaptureOverlays(w) \/ CaptureMigrates(w)
  \/ (\E keys \in {{}, {"s"}, {"r"}, {"s", "r"}} : CapturePersists(w, keys))
  \/ (\E captured \in BOOLEAN : WatchEnds(w, captured)) \/ UnsetStarts(w)
  \/ EditReads(w) \/ EditRenames(w) \/ EditFails(w) \/ EditSaves(w)
  \/ ClearReads(w) \/ ClearRenames(w) \/ ClearEnds(w) \/ EditorKilled(w)

-----------------------------------------------------------------------------
SettingsTypeOK ==
  /\ conf.is \in {"absent", "bad", "ok"} /\ unsure \subseteq Keys \cup {"lines"}
  /\ \A w \in Editors : editor[w].stale \subseteq Keys \cup {"lines"}

\* Whatever `set`, `unset`, the key watch and captures run at the same time, each
\* setting is what the last change asked for, read the way grabit reads it
\* (state.toml over config.toml), and the user's own lines are in config.toml or
\* set aside; what captures remember never reaches config.toml.  Left out: a key
\* another command changed between a command's read and its rename (patch.c:223,
\* config.c:217), and a state key whose two files a kill or a failure parted.
SettingsSurvive ==
  /\ \A key \in Keys \ unsure :
       (\A w \in Editors : key = "s" => editor[w].pc \notin {"clear", "clearing", "cleared"}
                                         /\ ~(editor[w].key = "s" /\ editor[w].job = "unset"))
         => Effective(key) = want[key]
  /\ conf.lines \/ broken \/ "lines" \in unsure
  /\ conf.v["r"] = 0
=============================================================================
