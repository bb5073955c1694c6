------------------------------- MODULE Screen -------------------------------
(***************************************************************************)
(* What the region selector puts on the screen, and when: one of its       *)
(* surfaces, redrawn at the pace of frame callbacks (region/wlr_render.c,  *)
(* render_frame.c, render_buffer.c), the cached picture of the             *)
(* annotations, and the action bar of `grabit --menu` that unfolds from a  *)
(* tab (menu/menu_bar.c, menu.c).  One round of the loop of region_select  *)
(* reads what has come, moves the bar, then handles the events.            *)
(***************************************************************************)
EXTENDS Integers, FiniteSets

CONSTANTS
  Places,        \* where an annotation can be
  FullSize,      \* k and rise of an unfolded bar, of a risen tab
  AnimTicks,     \* MENU_ANIM_MS and MENU_RISE_MS
  MaxDrawn       \* annotations drawn (a bound)
ASSUME ScreenAssumption == {FullSize, AnimTicks, MaxDrawn} \subseteq Nat \ {0}

VARIABLES
  screen,   \* struct ro_output, its buffers and whether the loop is awake
  edit,     \* struct ro_state: the annotations and the region
  bar,      \* struct menu_bar
  menu      \* gapp_run_menu: where it is, and the file of the capture

screenVars == <<screen, edit, bar, menu>>

MenuActions == {"copy", "record"}    \* one that goes through the editor, one that does not
UsesEdit(action) == action = "copy"

\* Both the bar and its tab: {value, where it started from, for how long}; 0 is
\* not moving, n + 1 is n ticks.
Still(v) == [v |-> v, from |-> v, age |-> 0]
NoCache  == [is |-> FALSE, bumped |-> FALSE, skip |-> FALSE, size |-> 0, others |-> 0, at |-> 0, region |-> 0]

-----------------------------------------------------------------------------
(* wlr_render.c, render_frame.c.                                           *)

\* What depends on the region: annotations that blur or pixelate what is behind.
Backdrop(e) == IF e.blurs THEN e.region ELSE 0

\* Slip: the generation of the list is not looked at.
EnsuredOfAnyList(c, e, size) ==
  IF c.is /\ c.size = size /\ c.skip = e.dragging /\ c.region = Backdrop(e) THEN c
  ELSE [is |-> TRUE, bumped |-> FALSE, skip |-> e.dragging, size |-> size,
        others |-> e.others, at |-> e.at, region |-> Backdrop(e)]

\* gren_anno_cache_ensure; `bumped`: gen is not the one it was made at.
Ensured(c, e, size) ==
  IF c.is /\ ~c.bumped /\ c.size = size /\ c.skip = e.dragging /\ c.region = Backdrop(e) THEN c
  ELSE [is |-> TRUE, bumped |-> FALSE, skip |-> e.dragging, size |-> size,
        others |-> e.others, at |-> e.at, region |-> Backdrop(e)]

\* menu_bar_render: nothing on an output that is not the bar's.
BarLook(b) == IF b.placed /\ b.same THEN <<b.k.v, b.rise.v, b.act>> ELSE <<0, 0>>

\* gren_output_redraw: the cache, and over it what is being dragged.
Painted(c, e, b) == [others |-> c.others, at |-> IF e.dragging THEN e.at ELSE c.at,
                     behind |-> c.region, region |-> e.region, bar |-> BarLook(b)]
\* What it ought to show.
SceneLook(e, b) == [others |-> e.others, at |-> e.at, behind |-> Backdrop(e), region |-> e.region, bar |-> BarLook(b)]

Redraw(s, e, b, free) ==
  IF ~s.configured THEN s
  ELSE IF ~free THEN [s EXCEPT !.dirty = TRUE, !.starved = TRUE]
  ELSE LET c == Ensured(s.cache, e, s.size)
       IN [s EXCEPT !.dirty = FALSE, !.starved = FALSE, !.frame = "asked", !.cache = c, !.shown = Painted(c, e, b)]

\* output_request_redraw, with the new state of everything.
SceneRequested(s, e, b, free) ==
  IF s.frame # "none" THEN [s EXCEPT !.dirty = TRUE] ELSE Redraw([s EXCEPT !.dirty = TRUE], e, b, free)

\* annos->gen++
Bumped(s) == [s EXCEPT !.cache.bumped = TRUE]

Awake == screen.awake /\ menu.pc \in {"bar", "editor"}

Configured(size, free) ==
  /\ Awake /\ (menu.pc = "bar" => size = 1)
  /\ screen' = Redraw([screen EXCEPT !.configured = TRUE, !.size = size,
                         !.cache = IF @.size = size THEN @ ELSE NoCache], edit, bar, free)
  /\ UNCHANGED <<edit, bar, menu>>

\* Only of a frame that an earlier round has asked for.
SceneFrameDone(free) ==
  /\ Awake /\ screen.frame = "sent"
  /\ screen' = LET s == [screen EXCEPT !.frame = "none"] IN IF s.dirty THEN Redraw(s, edit, bar, free) ELSE s
  /\ UNCHANGED <<edit, bar, menu>>

-----------------------------------------------------------------------------
(* The editor's changes; each ends in region_render_request_redraw_all.    *)

Edits(e, s, free) ==
  /\ Awake /\ menu.pc = "editor" /\ edit' = e
  /\ screen' = SceneRequested(s, e, bar, free) /\ UNCHANGED <<bar, menu>>

\* annotation_list_push and what else changes the list.
AnnoDrawn(free) == /\ ~edit.dragging /\ edit.others < MaxDrawn
                   /\ Edits([edit EXCEPT !.others = @ + 1], Bumped(screen), free)

\* input_press.c: a drag of the annotation, or of a corner, begins ...
AnnoPressed(free) == /\ ~edit.dragging
                     /\ Edits([edit EXCEPT !.dragging = TRUE, !.from = edit.at], Bumped(screen), free)

\* ... goes on ...
AnnoDragged(p, free) == edit.dragging /\ Edits([edit EXCEPT !.at = p], screen, free)

\* ... and ends.
AnnoReleased(free) == /\ edit.dragging
                      /\ Edits([edit EXCEPT !.dragging = FALSE, !.from = edit.at], Bumped(screen), free)

\* region_drag_abort puts it back.
AnnoAborted(free) == /\ edit.dragging
                     /\ Edits([edit EXCEPT !.dragging = FALSE, !.at = edit.from], Bumped(screen), free)

\* The region is moved or resized under the annotations.
RegionMoved(free) == ~edit.dragging /\ Edits([edit EXCEPT !.region = 3 - @], screen, free)

-----------------------------------------------------------------------------
(* menu_bar.c.                                                             *)

\* menu_step; (the ease is a straight line)
Step(x, target) ==
  IF x.v = target /\ x.age = 0 THEN x
  ELSE LET y == IF x.age = 0 THEN [x EXCEPT !.from = x.v, !.age = 1] ELSE x
       IN IF y.age > AnimTicks THEN Still(target)
          ELSE [y EXCEPT !.v = y.from + ((target - y.from) * (y.age - 1)) \div AnimTicks]
Busy(x, target) == x.v # target \/ x.age # 0

Target(b)     == IF b.open THEN FullSize ELSE 0
RiseTarget(b) == IF b.k.v <= 0 /\ ~b.open THEN FullSize ELSE 0
Started(b)    == IF b.started THEN b ELSE [b EXCEPT !.started = TRUE, !.rise.from = b.rise.v, !.rise.age = 1]
WithBar(b)    == [b EXCEPT !.k = Step(b.k, Target(b))]
WithTab(b)    == [b EXCEPT !.rise = Step(b.rise, RiseTarget(b))]

\* menu_bar_tick: the bar, then the tab that waits for it.
StillMoves(b) == LET s == WithBar(Started(b)) IN Busy(b.k, Target(b)) \/ Busy(s.rise, RiseTarget(s))
Ticked(b) == WithTab(WithBar(Started(b)))

\* menu_bar_hover: on the tab, on the bar, or off both.
Hovered(b, where) ==
  IF ~b.placed THEN b
  ELSE IF ~b.open THEN IF where = "tab" THEN [b EXCEPT !.open = TRUE] ELSE b
  ELSE IF where = "off" THEN [b EXCEPT !.open = FALSE] ELSE b

\* menu_bar_press: a tap on the tab, a chip; FALSE is none of its business.
Mine(b, where) == b.placed /\ (where = "tab" \/ (b.open /\ where # "off"))
Chosen(b, what) ==
  IF ~b.open THEN [b EXCEPT !.open = TRUE]
  ELSE IF what = "annotate" THEN [b EXCEPT !.annotate = ~@]
  ELSE IF what \in MenuActions THEN [b EXCEPT !.act = what, !.annotate = @ /\ UsesEdit(what)]
  ELSE b

BarMoves(b, request, free) ==
  /\ Awake /\ menu.pc = "bar" /\ bar' = b
  /\ screen' = IF request THEN SceneRequested(screen, edit, b, free) ELSE screen
  /\ UNCHANGED <<edit, menu>>

PointerAt(where, free) == BarMoves(Hovered(bar, where), TRUE, free)
PressedAt(where, what, free) ==
  /\ Mine(bar, where) /\ (where = "tab" => what = "gap")
  /\ BarMoves(IF bar.open /\ where = "tab" THEN bar ELSE Chosen(bar, what), TRUE, free)

-----------------------------------------------------------------------------
(* The loop of region_select.                                              *)

Wakes(free) ==
  /\ ~screen.awake /\ menu.pc \in {"bar", "editor"}
  /\ IF menu.pc = "bar"
     THEN /\ bar' = Ticked(bar)
          /\ screen' = [IF StillMoves(bar) THEN SceneRequested(screen, edit, bar', free) ELSE screen EXCEPT !.awake = TRUE]
     ELSE screen' = [screen EXCEPT !.awake = TRUE] /\ UNCHANGED bar
  /\ UNCHANGED <<edit, menu>>
Sleeps ==
  /\ Awake /\ UNCHANGED <<edit, bar, menu>>
  /\ screen' = [screen EXCEPT !.awake = FALSE, !.frame = IF @ = "asked" THEN "sent" ELSE @]

Aged(x) == IF x.age = 0 \/ x.age > AnimTicks THEN x ELSE [x EXCEPT !.age = @ + 1]
TimePasses == /\ menu.pc = "bar" /\ bar' = [bar EXCEPT !.k = Aged(@), !.rise = Aged(@)]
              /\ UNCHANGED <<screen, edit, menu>>

\* gapp_run_menu: the bar is placed on an output of a connection that is closed
\* before the selector opens its own, so whether the address it keeps is the one
\* of that output again is up to the allocator.
MenuBegins(same) ==
  /\ menu.pc = "start"
  /\ menu' = [menu EXCEPT !.pc = "bar"]
  /\ bar' = [bar EXCEPT !.placed = TRUE, !.same = same]
  /\ UNCHANGED <<screen, edit>>
EditorBegins == /\ menu.pc = "start" /\ menu' = [menu EXCEPT !.pc = "editor"]
                /\ \E blurs \in BOOLEAN : edit' = [edit EXCEPT !.blurs = blurs]
                /\ UNCHANGED <<screen, bar>>

Closed   == [screen EXCEPT !.configured = FALSE, !.dirty = FALSE, !.starved = FALSE, !.frame = "none", !.size = 0, !.shown = SceneLook(edit, bar), !.cache = NoCache]
Selected(confirmed) ==
  /\ Awake
  /\ menu' = [pc |-> IF menu.pc = "bar" /\ confirmed THEN "act" ELSE "done",
              file |-> IF menu.pc = "bar" /\ confirmed THEN "temp" ELSE "none"]
  /\ screen' = Closed /\ UNCHANGED <<edit, bar>>

\* The action of the bar on the file of the capture, which is released after it.
MenuActs ==
  /\ menu.pc = "act" /\ menu' = [pc |-> "done", file |-> "none"]
  /\ UNCHANGED <<screen, edit, bar>>

-----------------------------------------------------------------------------
ScreenInit ==
  /\ edit = [others |-> 0, at |-> 0, from |-> 0, dragging |-> FALSE, region |-> 1, blurs |-> FALSE]
  /\ bar = [placed |-> FALSE, same |-> FALSE, open |-> FALSE, k |-> Still(0), rise |-> Still(0),
            started |-> FALSE, act |-> "copy", annotate |-> FALSE]
  /\ screen = [awake |-> FALSE, configured |-> FALSE, dirty |-> FALSE, frame |-> "none", starved |-> FALSE,
               size |-> 0, cache |-> NoCache, shown |-> SceneLook(edit, bar)]
  /\ menu = [pc |-> "start", file |-> "none"]

ScreenNext ==
  \/ (\E same \in BOOLEAN : MenuBegins(same)) \/ EditorBegins
  \/ \E free \in BOOLEAN :
       \/ \E size \in {1, 2} : Configured(size, free)
       \/ SceneFrameDone(free) \/ Wakes(free) \/ AnnoDrawn(free) \/ AnnoPressed(free)
       \/ (\E p \in Places : AnnoDragged(p, free)) \/ AnnoReleased(free) \/ AnnoAborted(free) \/ RegionMoved(free)
       \/ \E where \in {"tab", "bar", "off"} :
            \/ PointerAt(where, free)
            \/ \E what \in MenuActions \cup {"annotate", "gap"} : PressedAt(where, what, free)
  \/ Sleeps \/ TimePasses \/ (\E confirmed \in BOOLEAN : Selected(confirmed)) \/ MenuActs

-----------------------------------------------------------------------------
ScreenTypeOK == /\ edit.at \in Places /\ {bar.k.v, bar.rise.v} \subseteq 0 .. FullSize
                /\ {bar.k.age, bar.rise.age} \subseteq 0 .. AnimTicks + 1

\* What is on the screen is the selection, the annotations and the bar as they
\* are: the cache of the annotations (wlr_render.c:74) is never the picture of a
\* list that has changed since, through drags that begin and end between two
\* frames.  Or the code knows it is not and a frame callback is coming, or both
\* buffers were in use, and then it waits for whatever asks next
\* (render_frame.c:46).
ShownIsCurrent ==
  screen.configured => screen.shown = SceneLook(edit, bar) \/ (screen.dirty /\ (screen.frame # "none" \/ screen.starved))

\* When the loop sleeps and no frame is on its way nothing will move the bar any
\* more: by then it is fully open with the tab gone, or fully folded with the tab
\* risen, however often the pointer came and went in the middle.
BarSettles ==
  screen.configured /\ menu.pc = "bar" /\ bar.started /\ ~screen.awake /\ screen.frame = "none" /\ ~screen.starved
    => bar.k = Still(Target(bar)) /\ bar.rise = Still(RiseTarget(bar))

\* What is on the screen of the selector is what it is in, and what moves by
\* itself comes to rest where it should: the caches, frame callbacks and timed
\* animations of the two lose nothing.
ScreenIsCurrent == ShownIsCurrent /\ BarSettles
=============================================================================
