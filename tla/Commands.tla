------------------------------ MODULE Commands ------------------------------
(***************************************************************************)
(* Every invocation of grabit does one thing: it installs a plugin, sends  *)
(* a file, copies a text, takes a picture, changes a setting (Settings: in  *)
(* which order, ConfigText: in which lines) or captures the keys of one.   *)
(* Each has files and processes of its own, so the families are checked    *)
(* side by side, one per behaviour.                                        *)
(***************************************************************************)
EXTENDS Plugins, Upload, Clipboard, Shot, Settings, ConfigText, MCKeybinds

VARIABLE running     \* the family of this behaviour

commandsVars == <<running, plugVars, upVars, clipVars, shotVars, settingsVars, textVars, keyVars>>

\* The value invocation w writes: each one its own.
OwnValues == [w \in Editors |-> IF w = "e1" THEN 1 ELSE 2]

Only(family) ==
  /\ running = family
  /\ UNCHANGED running
  /\ family = "plugins"   \/ UNCHANGED plugVars
  /\ family = "upload"    \/ UNCHANGED upVars
  /\ family = "clipboard" \/ UNCHANGED clipVars
  /\ family = "shot"      \/ UNCHANGED shotVars
  /\ family = "settings"  \/ UNCHANGED settingsVars
  /\ family = "text"      \/ UNCHANGED textVars
  /\ family = "keys"      \/ UNCHANGED keyVars

CommandsInit ==
  /\ running \in {"plugins", "upload", "clipboard", "shot", "settings", "text", "keys"}
  \* what is not looked at starts in one way
  /\ PluginsInit /\ (running = "plugins" \/ plugKind = "build")
  /\ SettingsInit /\ (running = "settings" \/ (conf.is = "absent" /\ state = Nothing))
  /\ (running = "text" \/ text = <<>>) /\ ConfigTextInit
  /\ UploadInit /\ ClipboardInit /\ ShotInit /\ KeysInit

CommandsNext ==
  \/ Only("plugins") /\ PluginsNext
  \/ Only("upload") /\ UploadNext
  \/ Only("clipboard") /\ ClipboardNext
  \/ Only("shot") /\ ShotNext
  \/ Only("settings") /\ SettingsNext
  \/ Only("text") /\ ConfigTextNext
  \/ Only("keys") /\ KeysNext

CommandsSpec == CommandsInit /\ [][CommandsNext]_commandsVars
=============================================================================
