------------------------------ MODULE RegionEdit ------------------------------
(***************************************************************************)
(* The region selector as an annotation editor (region/input_*.c, with     *)
(* annotate_mode and without edit.instant): one thread that handles        *)
(* pointer, touch, keyboard and timer events.                              *)
(*                                                                         *)
(* doc is what the user edits: the annotations in paint order, the         *)
(* captured region, the undo and redo stacks and the armed snapshot of the *)
(* region.  ui is the rest of struct ro_state that decides what an event   *)
(* does.  A position, a size or colour and a rectangle are one small       *)
(* number each; an annotation is drawn at position 0 with attribute 0.     *)
(* What lies under the pointer is a choice of the event.  Dragging the     *)
(* toolbar, the hex field and the editing of a swatch are left out.        *)
(*                                                                         *)
(* undo_item.group is modelled by nesting: a stack is a sequence of        *)
(* groups, since undo_group_seq only grows and a group is recorded within  *)
(* one handler.                                                            *)
(***************************************************************************)
EXTENDS Integers, SequencesExt

CONSTANTS
  Preset,      (* the selector opens with a region (region.repeat_last)        *)
  MaxAnnos,    (* bound: annotations alive at once, undone ones included       *)
  MaxUndo,     (* bound: no edit starts with this many groups to undo, nor     *)
               (* once one was lost to the history (lapse)                     *)
  MaxRegion,   (* bound: nor a change of the region, with this many recorded   *)
  MaxAttr,     (* bound: nor a change of size or colour                        *)
  MaxAtOnce,   (* bound: gestures, panels, texts and held keys at once         *)
  Coords,      (* bound: the positions an annotation is dragged to             *)
  Attrs,       (* the sizes and colours                                        *)
  Rects        (* the rectangles a region may have                             *)

ASSUME BoundsAssumption ==
  /\ Preset \in BOOLEAN
  /\ {MaxAnnos, MaxUndo, MaxRegion, MaxAttr, MaxAtOnce} \subseteq Nat
  /\ 0 \in Coords /\ Coords \subseteq Int
  /\ 0 \in Attrs /\ Attrs \subseteq Nat
  /\ 0 \in Rects /\ Rects \subseteq Nat

VARIABLES
  doc,     \* annos (items of annotation_list), region (has_selection, sel_x..sel_h),
           \* sel (sel_anno, 0 for none), undo, redo, snap (undo_snap when armed)
  ui,      \* the flags dragging, locked (region_locked), editMode (anno_edit_mode),
           \* resizing (resizing_anno), text (text_input_active), undoHeld, nudge
           \* (nudge_held # 0), panel (the colour or the tool picker is open);
           \* drag: which other gesture goes on; grab: anno_last - anno_press, or
           \* anno_geom_snap; finished
  lapse    \* history: an edit was lost to the undo history in one of the ways
           \* Lapse, Busy and SeveralMoved name

vars == <<doc, ui, lapse>>

StartRegion == [has |-> Preset, r |-> 0]
Regions == [has : BOOLEAN, r : Rects]
StartUi(locked) ==
  [dragging |-> FALSE, drag |-> "none", grab |-> 0, locked |-> locked, editMode |-> FALSE,
   panel |-> FALSE, text |-> FALSE, nudge |-> FALSE, undoHeld |-> FALSE,
   resizing |-> FALSE, finished |-> "no"]

-----------------------------------------------------------------------------
(* The undo history.                                                       *)

\* undo_push between region_undo_group_begin and region_undo_group_end
Push(d, items) ==
  IF items = <<>> THEN d ELSE [d EXCEPT !.undo = Append(@, items), !.redo = <<>>]

\* region_undo_begin, region_undo_commit
Begin(d) == IF d.snap = {} THEN [d EXCEPT !.snap = {d.region}] ELSE d
Commit(d) ==
  Push([d EXCEPT !.snap = {}],
       IF d.snap \in {{}, {d.region}} THEN <<>>
       ELSE <<[k |-> "region", old |-> CHOOSE r \in d.snap : TRUE]>>)

Fits(d, it) == it.i \in DOMAIN d.annos
Blank == [id |-> 0, at |-> 0, attr |-> 0, sel |-> FALSE]

\* Slip: the item itself is pushed on the other stack.
NotInverted(d, it) == it

\* gist_undo_apply: the item that takes the step back
Inverted(d, it) ==
  CASE it.k = "region"   -> [it EXCEPT !.old = d.region]
    [] it.k = "add"      -> IF d.annos = <<>> THEN it ELSE [k |-> "readd", a |-> Last(d.annos)]
    [] it.k = "readd"    -> [k |-> "add"]
    [] it.k = "delete"   -> [k |-> "redelete", i |-> it.i]
    [] it.k = "redelete" -> [k |-> "delete", i |-> it.i,
                             a |-> IF Fits(d, it) THEN d.annos[it.i] ELSE Blank]
    [] it.k = "move"     -> [it EXCEPT !.d = -it.d]
    [] it.k = "geom"     -> [it EXCEPT !.at = IF Fits(d, it) THEN d.annos[it.i].at ELSE 0]
    [] it.k = "attr"     -> [it EXCEPT !.v = IF Fits(d, it) THEN d.annos[it.i].attr ELSE it.v]

\* annotation_list_insert, and what gist_undo_apply does to the list
InsertAnno(s, i, a) == InsertAt(s, IF i > Len(s) THEN Len(s) + 1 ELSE i, a)
ItemAnnos(d, it) ==
  LET s == d.annos IN
  CASE it.k = "add" /\ s # <<>>             -> Front(s)
    [] it.k = "readd"                       -> Append(s, it.a)
    [] it.k = "delete"                      -> InsertAnno(s, it.i, it.a)
    [] it.k = "redelete" /\ Fits(d, it)     -> RemoveAt(s, it.i)
    [] it.k = "move" /\ Fits(d, it)         -> [s EXCEPT ![it.i].at = @ - it.d]
    [] it.k = "geom" /\ Fits(d, it)         -> [s EXCEPT ![it.i].at = it.at]
    [] it.k = "attr" /\ Fits(d, it)         -> [s EXCEPT ![it.i].attr = it.v]
    [] OTHER                                -> s

Applied(d, it) ==
  LET s == ItemAnnos(d, it) IN
  [d EXCEPT !.annos = s,
            !.region = IF it.k = "region" THEN it.old ELSE @,
            !.sel = IF @ > Len(s) THEN 0 ELSE @]

\* apply_group: the group's items from the last to the first
ApplyGroup(d, group) ==
  LET step[n \in 0 .. Len(group)] ==
        IF n = 0 THEN [doc |-> d, inv |-> <<>>]
        ELSE LET it == group[Len(group) + 1 - n]
             IN [doc |-> Applied(step[n - 1].doc, it),
                 inv |-> Append(step[n - 1].inv, Inverted(step[n - 1].doc, it))]
  IN step[Len(group)]

\* region_undo_pop, region_redo_pop
UndoPop(d) ==
  IF d.undo = <<>> THEN d
  ELSE LET a == ApplyGroup(d, Last(d.undo)) IN
       [a.doc EXCEPT !.undo = Front(@), !.redo = Append(@, a.inv)]

RedoPop(d) ==
  IF d.redo = <<>> THEN d
  ELSE LET a == ApplyGroup(d, Last(d.redo)) IN
       [a.doc EXCEPT !.redo = Front(@), !.undo = Append(@, a.inv)]

-----------------------------------------------------------------------------
(* Annotations and their selection.                                        *)

\* the members of S in ascending order, as a loop over the list comes to them
InOrder(S) == [n \in 1 .. Cardinality(S) |-> CHOOSE i \in S : Cardinality({j \in S : j <= i}) = n]

Selected(d) == {i \in DOMAIN d.annos : d.annos[i].sel}
\* one undo item for each selected annotation
ForSelected(d, Item(_)) ==
  LET is == InOrder(Selected(d)) IN [n \in DOMAIN is |-> Item(is[n])]
\* annotation_list_remove_at for each of them, and what is recorded of it
Gone(d) == ForSelected(d, LAMBDA i : [k |-> "delete", i |-> i, a |-> d.annos[i]])
Kept(d) == LET is == InOrder(DOMAIN d.annos \ Selected(d)) IN [n \in DOMAIN is |-> d.annos[is[n]]]

Update(d, is, Change(_)) ==
  [d EXCEPT !.annos = [i \in DOMAIN @ |-> IF i \in is THEN Change(@[i]) ELSE @[i]]]
Deselected(d) ==
  [Update(d, DOMAIN d.annos, LAMBDA a : [a EXCEPT !.sel = FALSE]) EXCEPT !.sel = 0]
SelectOne(d, i) ==
  [Update(Deselected(d), {i}, LAMBDA a : [a EXCEPT !.sel = TRUE]) EXCEPT !.sel = i]
SelectToggle(d, i) ==
  [Update(d, {i}, LAMBDA a : [a EXCEPT !.sel = ~@])
     EXCEPT !.sel = IF d.annos[i].sel THEN 0 ELSE i]

\* annotations outside the list are owned by the undo items that hold them
Owning(stack) ==
  {p \in UNION {{g} \X DOMAIN stack[g] : g \in DOMAIN stack} :
     stack[p[1]][p[2]].k \in {"readd", "delete"}}
OwnedIds(stack) == {stack[p[1]][p[2]].a.id : p \in Owning(stack)}
Ids(d) == {d.annos[i].id : i \in DOMAIN d.annos} \cup OwnedIds(d.undo) \cup OwnedIds(d.redo)
NewId(d) == 1 + Max({0} \cup Ids(d))

\* region_annotation_commit
AddAnno(d) ==
  Push([d EXCEPT !.annos = Append(@, [Blank EXCEPT !.id = NewId(d)])], <<[k |-> "add"]>>)

\* region_apply_color, region_apply_slider: first_selected asks for the edit mode
SetAttr(d, v) ==
  IF ui.editMode THEN Update(d, Selected(d), LAMBDA a : [a EXCEPT !.attr = v]) ELSE d
RecordAttr(d) ==
  IF ui.editMode
  THEN Push(d, ForSelected(d, LAMBDA i : [k |-> "attr", i |-> i, v |-> d.annos[i].attr]))
  ELSE d

\* region_commit_text: nothing is added when nothing was typed
TextDone(d) == IF ui.text THEN {d, AddAnno(d)} ELSE {d}

-----------------------------------------------------------------------------
(* What every handler tests or does first.                                 *)

Running == ui.finished = "no"
Room == ~lapse /\ Len(doc.undo) < MaxUndo
RoomForAnno == NewId(doc) <= MaxAnnos
RoomFor(k, max) ==
  max > Cardinality({g \in DOMAIN doc.undo : doc.undo[g][1].k = k})
          + Cardinality({g \in DOMAIN doc.redo : doc.redo[g][1].k = k})
RoomForRegion == RoomFor("region", MaxRegion)
RoomForAttr == RoomFor("attr", MaxAttr)
\* region_drag_active leaves dragging out
DragActive == ui.drag # "none" \/ ui.panel
Abortable == DragActive \/ ui.text
Woken == [ui EXCEPT !.resizing = FALSE]
\* gregion_select_teardown, region_undo_free: only the picture and the region stay
Finish(how) == ui' = [StartUi(TRUE) EXCEPT !.finished = how]
Final(d) == [d EXCEPT !.sel = 0, !.undo = <<>>, !.redo = <<>>, !.snap = {}]

\* presses and releases need not alternate: the toolbar, a panel or another device
\* may have taken the other half
Press == Running /\ Room /\ ui.drag = "none"
Key == Running /\ Room /\ ~ui.text

\* ginp_mode_enter_region, ginp_mode_enter_anno_edit, ginp_mode_select_tool
Modes == {"region", "edit", "draw"}
SetMode(u, m) ==
  [u EXCEPT !.locked = (m # "region"), !.editMode = (m = "edit"),
            !.panel = @ /\ m = "draw"]

\* region_drag_abort; gist_undo_apply's inverse is dropped
Reverted ==
  LET i == doc.sel IN
  CASE ui.drag = "anno" /\ i # 0   -> Applied(doc, [k |-> "move", i |-> i, d |-> ui.grab])
    [] ui.drag = "corner" /\ i # 0 -> Applied(doc, [k |-> "geom", i |-> i, at |-> ui.grab])
    [] OTHER                       -> doc
Abort(u) ==
  /\ doc' = Commit(Reverted)
  /\ ui' = [u EXCEPT !.drag = "none", !.grab = 0, !.panel = FALSE, !.text = FALSE,
                     !.undoHeld = FALSE]

-----------------------------------------------------------------------------
(* Pressing the left button, or touching.                                  *)

\* the colour picker's grid records once and then follows the pointer
PressColor ==
  /\ Press /\ ui.panel /\ RoomForAttr
  /\ \E v \in Attrs : doc' = SetAttr(RecordAttr(doc), v)
  /\ ui' = [Woken EXCEPT !.drag = "attr"]
PressToolPicker ==
  /\ Press /\ ui.panel
  /\ doc' = Deselected(doc) /\ ui' = [SetMode(Woken, "draw") EXCEPT !.panel = FALSE]
\* elsewhere in the panel, or outside it
PressOffPanel ==
  /\ Press /\ ui.panel
  /\ \E open \in BOOLEAN : ui' = [Woken EXCEPT !.panel = open]
  /\ UNCHANGED doc

\* ginp_toolbar_button_event; a press on any button first commits the text
ToolbarPress == Press /\ ~ui.dragging
Panels(u) == {[u EXCEPT !.panel = open] : open \in BOOLEAN}
ToolbarUi == [Woken EXCEPT !.text = FALSE]
ToolbarMode ==
  \E m \in Modes, d \in TextDone(doc) :
    /\ ToolbarPress
    /\ doc' = Deselected(d)
    /\ ui' \in IF m = "draw" THEN Panels(SetMode(ToolbarUi, m)) ELSE {SetMode(ToolbarUi, m)}
ToolbarColor == ToolbarPress /\ doc' \in TextDone(doc) /\ ui' \in Panels(ToolbarUi)
\* a swatch sets the colour; the width slider then follows the pointer
ToolbarAttr ==
  \E v \in Attrs, d \in TextDone(doc) :
    /\ ToolbarPress /\ RoomForAttr
    /\ doc' = SetAttr(RecordAttr(d), v)
    /\ \/ ui' = [ToolbarUi EXCEPT !.panel = FALSE]
       \/ ui' \in Panels([ToolbarUi EXCEPT !.drag = "attr"])
ToolbarUndo ==
  /\ Running /\ ui.drag = "none" /\ ~ui.dragging
  /\ \E d \in TextDone(doc) : doc' = UndoPop(d)
  /\ ui' = [ToolbarUi EXCEPT !.undoHeld = TRUE]
ToolbarRedo ==
  ToolbarPress /\ (\E d \in TextDone(doc) : doc' = RedoPop(d)) /\ ui' = ToolbarUi
ToolbarEnd ==
  /\ ToolbarPress
  /\ \E how \in {"done", "cancelled"} : (how = "done" => doc.region.has) /\ Finish(how)
  /\ \E d \in TextDone(doc) : doc' = Final(d)

\* ginp_button_event past the toolbar
OnScreen == Press /\ ~ui.panel
PressUnlocked ==
  /\ OnScreen /\ ~ui.locked /\ RoomForRegion
  /\ \E r \in Rects : doc' = [Begin(doc) EXCEPT !.region = [has |-> FALSE, r |-> r]]
  /\ ui' = [Woken EXCEPT !.dragging = TRUE]
PressEndsText ==
  /\ OnScreen /\ ui.locked /\ ui.text
  /\ doc' \in TextDone(doc) /\ ui' = [Woken EXCEPT !.text = FALSE]
PressLocked == OnScreen /\ ui.locked /\ ~ui.text
PressRegion ==      \* a handle, or inside the region with Ctrl: moving_region
  /\ PressLocked /\ doc.region.has /\ RoomForRegion
  /\ doc' = Begin(doc) /\ ui' = [Woken EXCEPT !.drag = "region"]
PressCorner ==
  /\ PressLocked /\ ui.editMode
  /\ doc.sel # 0 /\ Cardinality(Selected(doc)) = 1
  /\ ui' = [Woken EXCEPT !.drag = "corner", !.grab = doc.annos[doc.sel].at]
  /\ UNCHANGED doc
PressAnno ==
  /\ PressLocked /\ ui.editMode
  /\ \E i \in DOMAIN doc.annos :
       doc' = IF doc.annos[i].sel THEN [doc EXCEPT !.sel = i] ELSE SelectOne(doc, i)
  /\ ui' = [Woken EXCEPT !.drag = "anno", !.grab = 0]
PressToggle ==
  /\ PressLocked /\ ui.editMode
  /\ \E i \in DOMAIN doc.annos : doc' = SelectToggle(doc, i)
  /\ ui' = Woken
PressNothing == PressLocked /\ ui.editMode /\ doc' = Deselected(doc) /\ ui' = Woken
PressTool == PressLocked /\ ~ui.editMode /\ RoomForAnno
PressDraw == PressTool /\ ui' = [Woken EXCEPT !.drag = "draw"] /\ UNCHANGED doc
PressText == PressTool /\ ui' = [Woken EXCEPT !.text = TRUE] /\ UNCHANGED doc
PressCounter == PressTool /\ doc' = AddAnno(doc) /\ ui' = Woken

-----------------------------------------------------------------------------
(* Moving and releasing.                                                   *)

DragNewRegion ==
  /\ Running /\ ~ui.locked /\ ui.dragging /\ ui.drag = "none"
  /\ \E reg \in Regions : doc' = [doc EXCEPT !.region = reg]
  /\ UNCHANGED ui
DragRegion ==
  /\ Running /\ ui.locked /\ ui.drag = "region"
  /\ \E r \in Rects : doc' = [doc EXCEPT !.region.r = r]
  /\ UNCHANGED ui
Moved(d, step) == Update(d, Selected(d), LAMBDA a : [a EXCEPT !.at = @ + step])
DragAnnos ==
  /\ Running /\ ui.locked /\ ui.drag = "anno"
  /\ \E step \in {-1, 1} :
       /\ \A i \in Selected(doc) : doc.annos[i].at + step \in Coords
       /\ ui.grab + step \in {c - d : c, d \in Coords}
       /\ doc' = Moved(doc, step)
       /\ ui' = [ui EXCEPT !.grab = @ + step]
DragCorner ==
  /\ Running /\ ui.locked /\ ui.drag = "corner" /\ doc.sel # 0
  /\ \E c \in Coords : doc' = [doc EXCEPT !.annos[doc.sel].at = c]
  /\ UNCHANGED ui
DragAttr ==
  /\ Running /\ ui.drag = "attr"
  /\ \E v \in Attrs : doc' = SetAttr(doc, v)
  /\ UNCHANGED ui

Dropped == [Woken EXCEPT !.drag = "none", !.grab = 0]
ReleaseAttr == Running /\ ui.drag = "attr" /\ ui' = Dropped /\ UNCHANGED doc
ReleaseRegion == Running /\ ui.drag = "region" /\ doc' = Commit(doc) /\ ui' = Dropped
\* Slip: one annotation of those moved together is recorded.
ReleaseAnnosOne ==
  /\ Running /\ ui.drag = "anno"
  /\ doc' = IF ui.grab = 0 \/ doc.sel = 0 THEN doc
            ELSE Push(doc, <<[k |-> "move", i |-> doc.sel, d |-> ui.grab]>>)
  /\ ui' = Dropped

ReleaseAnnos ==
  /\ Running /\ ui.drag = "anno"
  /\ doc' = IF ui.grab = 0 THEN doc
            ELSE Push(doc, ForSelected(doc, LAMBDA i : [k |-> "move", i |-> i, d |-> ui.grab]))
  /\ ui' = Dropped
ReleaseCorner ==
  /\ Running /\ ui.drag = "corner"
  /\ doc' = IF doc.sel = 0 \/ doc.annos[doc.sel].at = ui.grab THEN doc
            ELSE Push(doc, <<[k |-> "geom", i |-> doc.sel, at |-> ui.grab]>>)
  /\ ui' = Dropped
ReleaseDraw == Running /\ ui.drag = "draw" /\ doc' = AddAnno(doc) /\ ui' = Dropped
\* only a release over the undo button ends its repeat
ReleaseOnToolbar ==
  /\ Running /\ ui.drag = "none" /\ ~ui.dragging
  /\ \E over \in BOOLEAN : ui' = [Woken EXCEPT !.undoHeld = @ /\ ~over]
  /\ UNCHANGED doc
\* a drag too small gives up the region; without one the window under the pointer is taken
ReleaseUnlocked ==
  /\ Running /\ ui.drag = "none" /\ ~ui.locked
  /\ \E reg \in {doc.region, [doc.region EXCEPT !.has = FALSE]} \cup [has : {TRUE}, r : Rects] :
       /\ doc' = Commit([doc EXCEPT !.region = reg])
       /\ ui' = [Woken EXCEPT !.dragging = FALSE, !.locked = reg.has]
ReleaseElsewhere ==
  Running /\ ui.drag = "none" /\ ui.locked /\ ui' = Woken /\ UNCHANGED doc
TouchCancel == Running /\ Abortable /\ Abort(ui)

\* pointer_axis: one undo group for a run of wheel events
Scroll ==
  /\ Running /\ Room /\ RoomForAttr /\ ui.editMode /\ Selected(doc) # {}
  /\ \E v \in Attrs : doc' = SetAttr(IF ui.resizing THEN doc ELSE RecordAttr(doc), v)
  /\ ui' = [ui EXCEPT !.resizing = TRUE]

-----------------------------------------------------------------------------
(* Keys, other buttons and timers.                                         *)

\* Escape or Return; the other keys edit the text
TextKey ==
  /\ Running /\ ui.text
  /\ doc' \in TextDone(doc)
  /\ \E open \in BOOLEAN : (open => doc' = doc) /\ ui' = [Woken EXCEPT !.text = open]
\* KA_CANCEL; ginp_region_abort_active
Cancel ==
  /\ Running
  /\ IF Abortable THEN Abort(Woken) ELSE Finish("cancelled") /\ doc' = Final(doc)
\* KA_CONFIRM: editing without a region captures everything
Confirm ==
  /\ Key
  /\ \E reg \in IF doc.region.has THEN {doc.region} ELSE [has : {TRUE}, r : Rects] :
       doc' = Final([doc EXCEPT !.region = reg])
  /\ Finish("done")
SelectAll ==
  /\ Key /\ ~DragActive /\ RoomForRegion
  /\ \E r \in Rects : doc' = Commit([Begin(doc) EXCEPT !.region = [has |-> TRUE, r |-> r]])
  /\ ui' = [Woken EXCEPT !.dragging = FALSE, !.locked = TRUE]
Nudged(d) == {[d EXCEPT !.region.r = r] : r \in Rects}
NudgeKey ==
  /\ Key /\ ui.locked /\ doc.region.has /\ ~DragActive /\ RoomForRegion
  /\ doc' \in Nudged(IF ui.nudge THEN doc ELSE Begin(doc))
  /\ ui' = [Woken EXCEPT !.nudge = TRUE]
Delete ==
  /\ Key /\ ~DragActive /\ Selected(doc) # {}
  /\ doc' = Push([doc EXCEPT !.annos = Kept(doc), !.sel = 0], Reverse(Gone(doc)))
  /\ ui' = Woken
KeyRedo == Key /\ ~DragActive /\ doc' = RedoPop(doc) /\ ui' = Woken
KeyUndo ==
  /\ Running /\ ~ui.text /\ ~DragActive
  /\ doc' = UndoPop(doc) /\ ui' = [Woken EXCEPT !.undoHeld = TRUE]
KeyMode ==
  \E m \in Modes :
    Key /\ ~DragActive /\ doc' = Deselected(doc) /\ ui' = SetMode(Woken, m)

\* keyboard_key matches a release against the modifiers of that moment: it may not
\* know the key it acted on.  A key that did nothing when pressed is released too.
ReleaseUndoKey ==
  /\ Running /\ UNCHANGED doc
  /\ \E known \in BOOLEAN : ui' = [ui EXCEPT !.undoHeld = @ /\ ~known]
ReleaseNudgeKey ==
  /\ Running
  /\ \/ doc' = Commit(doc) /\ ui' = [ui EXCEPT !.nudge = FALSE]
     \/ UNCHANGED <<doc, ui>>
KeyboardLeave ==
  Running /\ doc' = Commit(doc) /\ ui' = [ui EXCEPT !.nudge = FALSE, !.undoHeld = FALSE]

UndoTick == Running /\ ui.undoHeld /\ doc' = UndoPop(doc) /\ UNCHANGED ui
NudgeTick ==      \* region_nudge_tick
  /\ Running /\ ui.nudge
  /\ IF ui.locked /\ ~Abortable
     THEN doc' \in Nudged(doc) /\ UNCHANGED ui
     ELSE doc' = Commit(doc) /\ ui' = [ui EXCEPT !.nudge = FALSE]

-----------------------------------------------------------------------------
Init ==
  /\ doc = [annos |-> <<>>, region |-> StartRegion, sel |-> 0,
            undo |-> <<>>, redo |-> <<>>, snap |-> {}]
  /\ \E locked \in {Preset, TRUE} : ui = StartUi(locked)      \* edit.start_with_tool
  /\ lapse = FALSE

Edits ==
  \/ PressColor \/ PressToolPicker \/ PressOffPanel
  \/ ToolbarMode \/ ToolbarColor \/ ToolbarAttr \/ ToolbarEnd
  \/ PressUnlocked \/ PressEndsText \/ PressRegion \/ PressCorner \/ PressAnno \/ PressToggle
  \/ PressNothing \/ PressDraw \/ PressText \/ PressCounter
  \/ DragNewRegion \/ DragRegion \/ DragAnnos \/ DragCorner \/ DragAttr
  \/ ReleaseAttr \/ ReleaseRegion \/ ReleaseAnnos \/ ReleaseCorner \/ ReleaseDraw
  \/ ReleaseOnToolbar \/ ReleaseUnlocked \/ ReleaseElsewhere
  \/ Scroll \/ TextKey \/ Confirm \/ SelectAll \/ NudgeKey \/ Delete \/ KeyMode
  \/ ReleaseUndoKey \/ ReleaseNudgeKey \/ KeyboardLeave \/ NudgeTick
Aborts  == Cancel \/ TouchCancel
History == ToolbarUndo \/ ToolbarRedo \/ KeyRedo \/ KeyUndo \/ UndoTick

\* The region changes with no snapshot armed and nothing recorded.
Lapse ==
  /\ doc'.region # doc.region
  /\ doc.snap = {} /\ doc'.snap = {} /\ doc'.undo = doc.undo
\* The history is walked in the middle of a gesture.
Busy == doc.snap # {} \/ ui.drag # "none" \/ ui'.resizing
\* An abort moves back one annotation of several.
SeveralMoved == ui.drag = "anno" /\ ui.grab # 0 /\ Selected(doc) # {doc.sel}

\* what goes on at the same time, for the bound MaxAtOnce
AtOnce(u) ==
  {f \in {"dragging", "panel", "text", "nudge", "undoHeld", "resizing"} : u[f]}
    \cup ({u.drag} \ {"none"})
Next ==
  /\ \/ Edits /\ lapse' = (lapse \/ Lapse)
     \/ Aborts /\ lapse' = (lapse \/ SeveralMoved)
     \/ History /\ lapse' = (lapse \/ Busy)
  /\ Cardinality(AtOnce(ui')) <= MaxAtOnce

Spec == Init /\ [][Next]_vars

-----------------------------------------------------------------------------
Annos == [id : 1..(MaxAnnos + 1), at : Int, attr : Attrs, sel : BOOLEAN]

\* Types: the selection is an annotation of the list, a position stays an integer.
TypeOK ==
  /\ doc.annos \in Seq(Annos) /\ doc.region \in Regions /\ doc.snap \subseteq Regions
  /\ doc.sel \in {0} \cup DOMAIN doc.annos /\ Cardinality(doc.snap) <= 1
  /\ ui.drag \in {"none", "region", "anno", "corner", "draw", "attr"}
  /\ {ui.dragging, ui.locked, ui.editMode, ui.resizing, ui.text, ui.panel, ui.undoHeld,
      ui.nudge, lapse} \subseteq BOOLEAN

\* The pixels of an annotation (its points and text) have one owner, the list or
\* one undo item: region_undo_free and redo_clear free each of them once.
OneOwner ==
  LET InList == {doc.annos[i].id : i \in DOMAIN doc.annos} IN
  Cardinality(InList \cup OwnedIds(doc.undo) \cup OwnedIds(doc.redo))
    = Len(doc.annos) + Cardinality(Owning(doc.undo)) + Cardinality(Owning(doc.redo))

\* However often annotations are deleted, undone and redone, they are painted in
\* the order they were drawn in: an eraser stroke or a blur never changes what
\* it covers.
PaintOrder == \A i, j \in DOMAIN doc.annos : i < j => doc.annos[i].id < doc.annos[j].id

Undos(d, n) == LET walk[i \in 0 .. n] == IF i = 0 THEN d ELSE UndoPop(walk[i - 1]) IN walk[n]
Redos(d, n) == LET walk[i \in 0 .. n] == IF i = 0 THEN d ELSE RedoPop(walk[i - 1]) IN walk[n]
SameDoc(d, e) == [d EXCEPT !.sel = 0] = [e EXCEPT !.sel = 0]

\* From any state, in the middle of a gesture too, redo takes back any number of
\* undos exactly, and undo any number of redos: picture, region and both stacks.
HistoryIsReversible ==
  /\ \A n \in 1..Len(doc.undo) : SameDoc(Redos(Undos(doc, n), n), doc)
  /\ \A n \in 1..Len(doc.redo) : SameDoc(Undos(Redos(doc, n), n), doc)

\* The list and the two stacks can be walked without loss and freed once.
HistoryIsSound == OneOwner /\ PaintOrder /\ HistoryIsReversible

\* Undoing everything passes through each annotation as it was when it was drawn
\* and ends with no annotation and the region the selector opened with, unless
\* the history missed a change in one of the ways lapse records.
EverythingUndoable ==
  LET start == Undos(doc, Len(doc.undo))
      Drawn(g) == \A n \in DOMAIN g :
                    g[n].k = "readd" => g[n].a.at = 0 /\ g[n].a.attr = 0
  IN Running /\ ~lapse /\ doc.snap = {} /\ ui.drag = "none" =>
       /\ start.annos = <<>> /\ start.region = StartRegion
       /\ \A n \in DOMAIN start.redo : Drawn(start.redo[n])

\* OPTIONS.md, keys.cancel: "while dragging/typing it aborts that instead".  The
\* selector is never cancelled in the middle of a drag.
CancelAbortsDrag ==
  [][ui'.finished = "cancelled" /\ Running => ui.drag = "none" /\ ~ui.dragging]_vars
=============================================================================
