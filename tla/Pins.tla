-------------------------------- MODULE Pins --------------------------------
(***************************************************************************)
(* Pins and cards live in processes of their own, reached through files in *)
(* the runtime directory: either the pins with the commands that broadcast *)
(* to them, or the cards that replace each other.  They share no file.     *)
(***************************************************************************)
EXTENDS PinIpc, ShowCard

VARIABLE family      \* "pins" or "cards"

pinsVars == <<family, pinIpcVars, showVars>>

PinsInit == family \in {"pins", "cards"} /\ PinIpcInit /\ ShowCardInit

PinsNext ==
  \/ family = "pins"  /\ PinIpcNext   /\ UNCHANGED <<family, showVars>>
  \/ family = "cards" /\ ShowCardNext /\ UNCHANGED <<family, pinIpcVars>>

PinsSpec == PinsInit /\ [][PinsNext]_pinsVars /\ PinIpcFair

=============================================================================
