------------------------------ MODULE MCKeybinds ------------------------------
(***************************************************************************)
(* A keymap small enough for TLC: the actions whose defaults differ in a   *)
(* modifier only, one tool, one action that asks for mouse buttons.        *)
(***************************************************************************)
EXTENDS Keybinds

\* In the order keyboard_key asks, the loupe taken out of it and asked first.
AskedInTurn == <<"confirm", "redo", "undo", "tool", "loupe">>
ButtonOrder == <<"confirm">>

\* ACTION_DEFAULTS and TOOL_DEFAULTS, as far as they use the keys below.
DefaultBinds ==
  [confirm |-> <<Key("c", {"Ctrl"})>>,
   redo    |-> <<Key("z", {"Ctrl", "Shift"})>>,
   undo    |-> <<Key("u", {}), Key("z", {"Ctrl"})>>,
   tool    |-> <<Key("p", {})>>,
   loupe   |-> <<>>]
=============================================================================
