------------------------------- MODULE Keybinds -------------------------------
(* The key bindings of the selector, from the moment they are captured to the *)
(* moment they fire: `grabit set keys.X --watch` (keycapture.c) collects       *)
(* presses, joins them into one value and stores it; the selector parses every *)
(* value into a keymap (keybinds.c), lets an explicit binding push an equal    *)
(* default out of the other actions, and dispatches each press to the first    *)
(* action that matches (input_keyboard.c, input_press.c).                      *)
(*                                                                             *)
(* A binding is a record [button, sym, mods]; one of a mouse button has no     *)
(* modifiers, and of a letter the case is left out (gkb_norm_sym takes it away *)
(* wherever bindings are compared). The selector is taken with a locked        *)
(* region, in its editing mode, with no drag and no text entry: what those     *)
(* change is RegionEdit's. What a press does is a function of the stored       *)
(* values alone, so the selector itself needs no state here.                   *)
EXTENDS Naturals, Sequences, FiniteSets, SequencesExt, FiniteSetsExt

CONSTANTS
  KeyActions,   \* the actions, in the order keyboard_key tries them
  ByButton,     \* those ginp_button_event tries for a mouse button, in its order
  KeyTools,     \* those among them that pick a tool
  Loupe,        \* the action matched by its key alone (KA_MAGNIFIER)
  Default,      \* ACTION_DEFAULTS, TOOL_DEFAULTS: per action, a sequence of bindings
  Syms,         \* keys that are no modifiers
  MouseButtons, \* mouse buttons, "left" among them
  MaxCaps,      \* KC_MAX_CAPS
  MaxBinds,     \* KB_MAX_BINDS
  MaxWatches    \* bound: captures that end

ASSUME KeysAssumption ==
  /\ {MaxCaps, MaxBinds} \subseteq Nat \ {0} /\ MaxWatches \in Nat
  /\ KeyActions \in Seq(STRING)
  /\ ToSet(ByButton) \cup KeyTools \cup {Loupe} \subseteq ToSet(KeyActions)
  /\ Default \in [ToSet(KeyActions) -> Seq([button : BOOLEAN, sym : STRING, mods : SUBSET {"Ctrl", "Shift"}])]

VARIABLES
  watching,     \* the action a capture is on for, or Nothing
  caps,         \* kc_state.caps
  values,       \* the config: per action the stored bindings, <<>> when unset
  watches       \* captures ended so far

keyVars == <<watching, caps, values, watches>>

KeyActs    == ToSet(KeyActions)
Mods    == {"Ctrl", "Shift"}
NoAction == "nothing"

Key(sym, mods) == [button |-> FALSE, sym |-> sym, mods |-> mods]
Button(b)      == [button |-> TRUE,  sym |-> b,   mods |-> {}]

-----------------------------------------------------------------------------
(* keybinds_parse.c, keybinds.c                                              *)

\* gkc_join, gkb_parse_list: a binding that was written out is read back as it
\* was, but no more than KB_MAX_BINDS of them, the rest is dropped
ParseList(v) == SubSeq(v, 1, Min({MaxBinds, Len(v)}))

Explicit(vals, a) == vals[a] # <<>>

\* load
LoadedKeys(vals, a) == ParseList(IF Explicit(vals, a) THEN vals[a] ELSE Default[a])

\* Slip: no binding gives way
PushingNobody(vals) == {}

\* region_keymap_init: a default gives way to an equal explicit binding
\* (list_drop, bind_eq), of an action, though not to one of a tool. The order of
\* the bindings of one action does not matter any more: any of them fires it
Pushing(vals) == {a \in KeyActs \ KeyTools : Explicit(vals, a)}

Keymap(vals) ==
  LET taken == UNION {ToSet(LoadedKeys(vals, a)) : a \in Pushing(vals)}
  IN [a \in KeyActs |-> ToSet(LoadedKeys(vals, a)) \ IF Explicit(vals, a) THEN {} ELSE taken]

\* gkb_mods_match: Shift may be held beyond what the binding wants
ModsMatch(want, have) ==
  /\ want \ {"Shift"} = have \ {"Shift"}
  /\ "Shift" \in want => "Shift" \in have

\* list_has_key, region_action_matches_sym
HasKey(binds, press) ==
  \E b \in binds : ~b.button /\ b.sym = press.sym /\ ModsMatch(b.mods, press.mods)
HasSym(binds, press) == \E b \in binds : ~b.button /\ b.sym = press.sym

\* region_button_action
HasButton(binds, press) == \E b \in binds : b.button /\ b.sym = press.sym

FirstOf(order, Matches(_)) ==
  LET hits == {i \in DOMAIN order : Matches(order[i])}
  IN IF hits = {} THEN NoAction ELSE order[Min(hits)]

\* keyboard_key: the loupe by its key alone, then each action in turn
FiresKey(km, press) ==
  IF HasSym(km[Loupe], press) THEN Loupe
  ELSE FirstOf(KeyActions, LAMBDA a : a # Loupe /\ HasKey(km[a], press))

\* ginp_button_event: the left button draws; of the rest only two actions ask
FiresButton(km, press) == FirstOf(ByButton, LAMBDA a : HasButton(km[a], press))

Fires(km, press) == IF press.button THEN FiresButton(km, press) ELSE FiresKey(km, press)

\* ACTION_DEFAULTS and TOOL_DEFAULTS as they are: each default fires its action
ASSUME DefaultsAssumption ==
  LET km == [a \in KeyActs |-> ToSet(Default[a])] IN
    \A a \in KeyActs : \A b \in km[a] : ~b.button => Fires(km, b) = a

-----------------------------------------------------------------------------
(* keycapture.c, cli.c                                                       *)

\* cmd_set_watch, region_keybind_watch
StartWatch(a) ==
  /\ watching = NoAction /\ watches < MaxWatches
  /\ watching' = a
  /\ UNCHANGED <<caps, values, watches>>

\* gkc_add: not twice, and no more than KC_MAX_CAPS
Captured(b) ==
  IF b \in ToSet(caps) \/ Len(caps) >= MaxCaps THEN caps ELSE Append(caps, b)

Captures(b) ==
  /\ watching # NoAction
  /\ caps' = Captured(b)
  /\ UNCHANGED <<watching, values, watches>>

\* kb_modifiers and kb_key: any key that is no modifier, with those held
CaptureKey(sym, mods) == Captures(Key(sym, mods))

\* ptr_button: the left one is reserved
CaptureButton(b) == b # "left" /\ Captures(Button(b))

WatchOver ==
  /\ watching # NoAction
  /\ watching' = NoAction
  /\ watches' = watches + 1
  /\ caps' = <<>>

\* Enter: gkc_join, then cmd_set_watch stores the value, unless there is none
Enter ==
  /\ values' = IF caps = <<>> THEN values ELSE [values EXCEPT ![watching] = caps]
  /\ WatchOver

\* Escape, or the layer surface closed by the compositor
Escape == WatchOver /\ UNCHANGED values

\* cmd_set_reset
Reset(a) ==
  /\ watching = NoAction
  /\ Explicit(values, a)
  /\ values' = [values EXCEPT ![a] = <<>>]
  /\ UNCHANGED <<watching, caps, watches>>

ResetAll ==
  /\ watching = NoAction
  /\ \E a \in KeyActs : Explicit(values, a)
  /\ values' = [a \in KeyActs |-> <<>>]
  /\ UNCHANGED <<watching, caps, watches>>

-----------------------------------------------------------------------------
KeysInit ==
  /\ watching = NoAction
  /\ caps = <<>>
  /\ values = [a \in KeyActs |-> <<>>]
  /\ watches = 0

KeysNext ==
  \/ \E a \in KeyActs : StartWatch(a) \/ Reset(a)
  \/ \E k \in Syms, m \in SUBSET Mods : CaptureKey(k, m)
  \/ \E b \in MouseButtons : CaptureButton(b)
  \/ Enter \/ Escape \/ ResetAll

KeysSpec == KeysInit /\ [][KeysNext]_keyVars

-----------------------------------------------------------------------------
KeysTypeOK ==
  /\ watching \in KeyActs \cup {NoAction}
  /\ Len(caps) <= MaxCaps
  /\ DOMAIN values = KeyActs
  /\ watches \in 0 .. MaxWatches

\* region_keymap_init and the order of keyboard_key together: a binding that is
\* in the keymap fires its own action when pressed exactly, unless another was
\* bound to that press explicitly. What an explicit binding of an action does
\* not push out is a default that is not equal to it and matches all the same.
BindingsAreHonoured ==
  LET km == Keymap(values) IN
    \A a \in KeyActs : \A b \in km[a] : ~b.button =>
      LET w == Fires(km, b) IN
        \/ w = a
        \/ Explicit(values, w)
        \/ Explicit(values, a) /\ (a \in KeyTools \/ b \notin km[w])

\* "an action fires when any of its bindings match" (OPTIONS.md): whatever
\* was captured for one action, and for no other, fires it when pressed.
CapturedFires ==
  LET km == Keymap(values) IN
    \A a \in KeyActs : Explicit(values, a) /\ (\A o \in KeyActs \ {a} : ~Explicit(values, o)) =>
      \A i \in DOMAIN values[a] : Fires(km, values[a][i]) = a
=============================================================================
