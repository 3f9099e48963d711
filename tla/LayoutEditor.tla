----------------------------- MODULE LayoutEditor -----------------------------
(***************************************************************************)
(* The layout editor of the panel: its tools under mouse and keyboard, the *)
(* undo and redo stacks, the debounced save, Save and Reset                *)
(* (hooks/useEditorActions.ts, office/editor/editorState.ts, the mouse     *)
(* handlers of OfficeCanvas.tsx, useEditorKeyboard.ts).                    *)
(*                                                                         *)
(* Left out: which wall set and which category is shown, zoom and pan, the *)
(* cursor.  The flag isDirty of editorState follows the one of React.      *)
(* One mouse button is used at a time, and the toolbar is out of reach     *)
(* while one is down: leaving the canvas ends a stroke.                    *)
(***************************************************************************)
EXTENDS OfficeLayouts, TLC

CONSTANTS
  Loaded,               \* the layouts of which one is loaded first
  Others,               \* layouts that other windows save
  TurnedBefore,         \* the items of these that were turned or switched before
  Tiles, Colors, Types, \* the floors, colours and furniture types on offer
  Tools,                \* the tools in use
  UNDO_STACK_MAX_SIZE,
  MaxChanges            \* bound of the model: how many new layouts there are

\* The rule that items may overlap by, when those of "free" were turned.
Apart(l, free) ==
  \A i, j \in Items(l.furniture) :
    (i # j /\ SolidTiles(i) \cap SolidTiles(j) # {}) =>
      \/ {i.uid, j.uid} \cap free # {}
      \/ Catalog[i.type].surfaces \/ Catalog[j.type].surfaces
      \/ Catalog[i.type].walls /\ Catalog[j.type].walls

\* A sound layout obeys that rule, no two of its items have one uid, none has
\* a uid of those still to come, and only items of walls are above the map.
Sound(l, free, given) ==
  /\ IsLayout(l) /\ Apart(l, free)
  /\ \A m, n \in DOMAIN l.furniture : l.furniture[m].uid = l.furniture[n].uid => m = n
  /\ \A i \in Range(l.furniture) : i.uid # None /\ (i.uid \in Nat => i.uid <= given)
  /\ \A i \in Items(l.furniture) : Catalog[i.type].walls \/ i.at[2] >= 0 \/ i.uid \in free

ASSUME LayoutsAssumption == \A l \in Others \cup Loaded : Sound(l, TurnedBefore, 0)
ASSUME CatalogAssumption ==
  \A t \in DOMAIN Catalog :
    Catalog[t].w \in Nat \ {0} /\ Catalog[t].h \in Nat \ {0} /\ Catalog[t].bg \in Nat
ASSUME NoneAssumption == None \notin Nat

ASSUME StackHoldsOne == UNDO_STACK_MAX_SIZE \in Nat \ {0}

PaintTools == {"TILE_PAINT", "WALL_PAINT", "ERASE"}
AllTools == PaintTools \cup {"SELECT", "FURNITURE_PLACE", "FURNITURE_PICK", "EYEDROPPER"}
ASSUME ToolsExist == "SELECT" \in Tools /\ Tools \subseteq AllTools

VARIABLES
  layout,                \* the layout of officeState
  undoStack, redoStack,
  isEditMode, isDirty,
  lastSaved,             \* lastSavedLayoutRef
  saveTimer,             \* the layout of the pending debounced save, or None
  tool,                  \* activeTool
  pick,                  \* what is chosen: [tile, floor, wall, type, color]
  sel,                   \* selectedFurnitureUid
  mouse,                 \* [paint, adding, erase, drag]; paint, which is
                         \* isDragging, is left out for tools that do not paint
  session,               \* [uid, wall]: colorEditUidRef and wallColorEditActiveRef
  posted,                \* the layout last sent to, or got from, the extension
  made, changes          \* furniture placed so far; changes so far

\* History: the layout grew without being saved, or a newer layout was loaded
\* while an older one was about to be saved; the items turned or switched;
\* nothing has moved the layout since a change was last remembered.
VARIABLES loose, turned, fresh

stacks == <<undoStack, redoStack, fresh>>
saving == <<isDirty, lastSaved, saveTimer, posted>>
choice == <<tool, pick, sel>>
editorVars == <<layout, stacks, isEditMode, saving, choice, mouse, session, made, changes,
                loose, turned>>

Still == [paint |-> FALSE, adding |-> None, erase |-> FALSE, drag |-> None]

EditorInit ==
  /\ layout \in Loaded /\ lastSaved = layout /\ posted = layout
  /\ undoStack = <<>> /\ redoStack = <<>>
  /\ isEditMode = FALSE /\ isDirty = FALSE /\ saveTimer = None
  /\ tool = "SELECT" /\ sel = None /\ mouse = Still
  /\ \E k \in Tiles, f, w \in Colors :
       pick = [tile |-> k, floor |-> f, wall |-> w, type |-> None, color |-> None]
  /\ session = [uid |-> None, wall |-> FALSE]
  /\ made = 0 /\ changes = 0 /\ loose = FALSE /\ turned = TurnedBefore /\ fresh = FALSE

-------------------------------------------------------------------------------
(***************************************************************************)
(* Changes of the layout.                                                  *)
(***************************************************************************)
\* Slip: a full stack drops the new layout instead of the oldest.
PushKeepingOldest(stack, l) == IF Len(stack) < UNDO_STACK_MAX_SIZE THEN Append(stack, l) ELSE stack

Push(stack, l) ==
  LET all == Append(stack, l) IN IF Len(all) > UNDO_STACK_MAX_SIZE THEN Tail(all) ELSE all

\* Slip: a pending save is left as it is.
ShowKeepingTimer(new) ==
  /\ layout' = new
  /\ isDirty' = TRUE
  /\ saveTimer' = (IF saveTimer = None THEN new ELSE saveTimer) /\ loose' = FALSE
  /\ UNCHANGED <<lastSaved, posted>>

\* rebuildFromLayout, the dirty flags and the debounced save of a change.
Show(new) ==
  /\ layout' = new
  /\ isDirty' = TRUE
  /\ saveTimer' = new /\ loose' = FALSE
  /\ UNCHANGED <<lastSaved, posted>>

\* Slip: what was undone can still be done again after a change.
RememberKeepingFuture(base) ==
  undoStack' = Push(undoStack, base) /\ fresh' = TRUE /\ UNCHANGED redoStack

Count == changes < MaxChanges /\ changes' = changes + 1
Remember(base) == undoStack' = Push(undoStack, base) /\ redoStack' = <<>> /\ fresh' = TRUE

\* applyEdit, when there is something to apply; the base is the layout that is
\* shown by then.
applyEdit(base, news) ==
  \/ \E new \in news : Remember(base) /\ Show(new) /\ Count
  \/ /\ news = {}
     /\ layout' = base
     /\ loose' = (loose \/ base # layout)
     /\ UNCHANGED <<stacks, saving, changes>>

\* Slip: what is remembered first has the new colour already.
RecolorThenRemember(new, first) ==
  /\ IF first THEN Remember(new) ELSE UNCHANGED stacks
  /\ Show(new) /\ Count

\* A colour is changed in many small steps of which the first is remembered.
Recolor(new, first) ==
  /\ IF first THEN Remember(layout) ELSE UNCHANGED stacks
  /\ Show(new) /\ Count

FirstFor(uid) == session.uid # uid

Recolored(uid, c) == Change(layout, uid, "color", c)

SelectedColorChange(c) ==
  /\ isEditMode /\ mouse = Still /\ sel # None
  /\ Recolor(Recolored(sel, c), FirstFor(sel))
  /\ session' = [session EXCEPT !.uid = sel]
  /\ UNCHANGED <<isEditMode, choice, mouse, made, turned>>

Walls == {t \in Grid(layout) : layout.tile[t] = Wall}

WallColorChange(c) ==
  /\ isEditMode /\ mouse = Still /\ tool = "WALL_PAINT"
  /\ pick' = [pick EXCEPT !.wall = c]
  /\ IF Walls = {} THEN UNCHANGED <<layout, stacks, saving, session, changes, loose>>
     ELSE /\ Recolor([layout EXCEPT !.color = [t \in DOMAIN @ |-> IF t \in Walls THEN c ELSE @[t]]],
                     ~session.wall)
          /\ session' = [session EXCEPT !.wall = TRUE]
  /\ UNCHANGED <<isEditMode, tool, sel, mouse, made, turned>>

DeleteSelected ==
  /\ isEditMode /\ sel # None
  /\ LET news == removeFurniture(layout, sel) IN
       /\ applyEdit(layout, news)
       /\ IF news = {} THEN UNCHANGED <<sel, session>>
          ELSE sel' = None /\ session' = [session EXCEPT !.uid = None]
  /\ UNCHANGED <<isEditMode, tool, pick, mouse, made, turned>>

\* The keys R and T: with the furniture tool they change what will be placed.
Turn(to, reshaped) ==
  /\ isEditMode
  /\ IF tool = "FURNITURE_PLACE"
     THEN /\ pick.type # None /\ to[pick.type] # None
          /\ pick' = [pick EXCEPT !.type = to[@]]
          /\ UNCHANGED <<layout, stacks, saving, changes, loose, turned>>
     ELSE /\ sel # None
          /\ applyEdit(layout, reshaped)
          /\ turned' = turned \cup {i.uid : i \in ItemsWith(layout, sel)}
          /\ UNCHANGED pick
  /\ UNCHANGED <<isEditMode, tool, sel, mouse, session, made>>

RotateSelected == Turn(getRotatedType, rotateFurniture(layout, sel))
ToggleState == Turn(getToggledType, toggleFurnitureState(layout, sel))

-------------------------------------------------------------------------------
(***************************************************************************)
(* Undo, redo, save, reset.  The bar shows Save and Reset while there are  *)
(* unsaved changes.                                                        *)
(***************************************************************************)
Undo ==
  /\ isEditMode /\ undoStack # <<>>
  /\ undoStack' = SubSeq(undoStack, 1, Len(undoStack) - 1)
  /\ redoStack' = Push(redoStack, layout) /\ fresh' = FALSE
  /\ Show(undoStack[Len(undoStack)])
  /\ UNCHANGED <<changes, isEditMode, choice, mouse, session, made, turned>>

Redo ==
  /\ isEditMode /\ redoStack # <<>>
  /\ redoStack' = SubSeq(redoStack, 1, Len(redoStack) - 1)
  /\ undoStack' = Push(undoStack, layout) /\ fresh' = FALSE
  /\ Show(redoStack[Len(redoStack)])
  /\ UNCHANGED <<changes, isEditMode, choice, mouse, session, made, turned>>

SaveNow ==
  /\ isEditMode /\ mouse = Still /\ isDirty
  /\ posted' = layout /\ lastSaved' = layout
  /\ saveTimer' = None /\ isDirty' = FALSE /\ loose' = FALSE
  /\ UNCHANGED <<layout, stacks, isEditMode, choice, mouse, session, made, changes, turned>>

\* The checkpoint is saved once more by the timer; the stacks are forgotten.
Reset ==
  /\ isEditMode /\ mouse = Still /\ isDirty
  /\ layout' = lastSaved /\ saveTimer' = lastSaved /\ loose' = FALSE
  /\ undoStack' = <<>> /\ redoStack' = <<>> /\ fresh' = FALSE
  /\ isDirty' = FALSE
  /\ tool' = "SELECT" /\ sel' = None
  /\ UNCHANGED <<isEditMode, mouse, pick, lastSaved, posted, session, made, changes, turned>>

TimerFires ==
  /\ saveTimer # None
  /\ posted' = saveTimer /\ saveTimer' = None
  /\ UNCHANGED <<layout, stacks, isEditMode, isDirty, lastSaved, choice, mouse, session, made,
                 changes, loose, turned>>

\* After another window saved.  The message handler keeps the
\* isEditDirty of the first render (useExtensionMessages.ts:408), which is
\* always false: the layout is replaced whatever the user is doing.
layoutLoaded(l) ==
  /\ Count
  /\ layout' = l /\ lastSaved' = l /\ posted' = l
  /\ loose' = (saveTimer # None) /\ fresh' = FALSE
  /\ UNCHANGED <<undoStack, redoStack, isEditMode, isDirty, saveTimer, choice, mouse, session, made, turned>>

-------------------------------------------------------------------------------
(***************************************************************************)
(* The toolbar and the keyboard.                                           *)
(***************************************************************************)
\* The colour of the first wall that has one, by rows.
FirstWallColor ==
  LET painted == {t \in Walls : layout.color[t] # None}
      first == {t \in painted : \A u \in painted : IndexOf(layout, t) <= IndexOf(layout, u)}
  IN  {layout.color[t] : t \in first}

NoDrag(m) == [m EXCEPT !.drag = None]

ToggleEditMode ==
  /\ isEditMode' = ~isEditMode
  /\ IF ~isEditMode
     THEN /\ pick' \in {[pick EXCEPT !.wall = c] : c \in
                          IF FirstWallColor = {} THEN {pick.wall} ELSE FirstWallColor}
          /\ UNCHANGED <<sel, mouse, session>>
     ELSE /\ sel' = None /\ mouse' = NoDrag(mouse)
          /\ session' = [session EXCEPT !.wall = FALSE]
          /\ UNCHANGED pick
  /\ UNCHANGED <<layout, stacks, saving, tool, made, changes, loose, turned>>

EditorOnly == UNCHANGED <<layout, stacks, isEditMode, saving, made, changes, loose, turned>>

ToolChange(t) ==
  /\ isEditMode /\ mouse = Still
  /\ tool' = IF tool = t THEN "SELECT" ELSE t
  /\ sel' = None
  /\ session' = [uid |-> None, wall |-> FALSE]
  /\ UNCHANGED <<pick, mouse>> /\ EditorOnly

Choose(chosen) == isEditMode /\ mouse = Still /\ pick' = chosen /\ UNCHANGED <<tool, sel, mouse, session>> /\ EditorOnly

TileTypeChange(k) == tool \in {"TILE_PAINT", "EYEDROPPER"} /\ Choose([pick EXCEPT !.tile = k])
FloorColorChange(c) == tool \in {"TILE_PAINT", "EYEDROPPER"} /\ Choose([pick EXCEPT !.floor = c])
FurnitureTypeChange(type) ==
  /\ tool \in {"FURNITURE_PLACE", "FURNITURE_PICK"}
  /\ Choose([pick EXCEPT !.type = IF @ = type THEN None ELSE type])

\* Escape leaves one thing after the other; the edit mode at last.
Escape ==
  /\ isEditMode
  /\ tool # "SELECT" \/ sel # None
  /\ tool' = CASE tool = "FURNITURE_PICK" -> "FURNITURE_PLACE"
               [] tool = "FURNITURE_PLACE" /\ pick.type # None -> tool
               [] OTHER -> "SELECT"
  /\ pick' = IF tool = "FURNITURE_PLACE" THEN [pick EXCEPT !.type = None] ELSE pick
  /\ sel' = IF tool = "SELECT" THEN None ELSE sel
  /\ mouse' = NoDrag(mouse)
  /\ UNCHANGED session /\ EditorOnly

-------------------------------------------------------------------------------
(***************************************************************************)
(* The mouse.                                                              *)
(***************************************************************************)
Selecting == tool = "SELECT" \/ (tool = "FURNITURE_PLACE" /\ pick.type = None)

\* screenToTile: the tools that paint reach one tile beyond the grid.
Reach == IF tool \in PaintTools THEN (-1 .. layout.cols) \X (-1 .. layout.rows) ELSE Grid(layout)

\* handleEditorEraseAction: what is void stays so.
Erased(l, t) ==
  IF t \in Grid(l) /\ l.tile[t] # Void THEN paintTile(l, t, Void, None) ELSE {}

\* handleEditorTileAction with the tool that paints floors or walls.  A click
\* on the border grows the layout first.
PaintAt(t, m) ==
  LET grown == maybeExpand(layout, t)
      base == IF grown = {} THEN layout ELSE (CHOOSE g \in grown : TRUE).layout
      at == IF grown = {} THEN t ELSE (CHOOSE g \in grown : TRUE).at
      isWall == \E s \in TileAt(base, at) : base.tile[s] = Wall
      adding == IF m.adding = None THEN ~isWall ELSE m.adding
  IN  IF tool = "TILE_PAINT"
      THEN applyEdit(base, paintTile(base, at, pick.tile, pick.floor)) /\ mouse' = m
      ELSE /\ mouse' = [m EXCEPT !.adding = adding]
           /\ applyEdit(base, IF adding THEN paintTile(base, at, Wall, pick.wall)
                              ELSE IF isWall THEN paintTile(base, at, pick.tile, pick.floor) ELSE {})

\* The tools that only look: pick and eyedropper.
LookAt(t) ==
  LET hit == HitAt(layout, t) IN
  IF tool = "FURNITURE_PICK"
  THEN IF hit = {} THEN UNCHANGED choice
       ELSE \E i \in hit : /\ pick' = [pick EXCEPT !.type = i.type, !.color = i.color]
                           /\ tool' = "FURNITURE_PLACE" /\ UNCHANGED sel
  ELSE LET kind == layout.tile[t]
           color == layout.color[t] IN
       /\ tool' = CASE kind = Wall -> "WALL_PAINT" [] kind = Void -> tool [] OTHER -> "TILE_PAINT"
       /\ pick' = CASE kind = Wall -> [pick EXCEPT !.wall = IF color = None THEN @ ELSE color]
                    [] kind = Void -> pick
                    [] OTHER -> [pick EXCEPT !.tile = kind, !.floor = IF color = None THEN @ ELSE color]
       /\ UNCHANGED sel

\* Furniture of walls is held by its lowest row.
PlaceAt(t) ==
  LET at == <<t[1], getWallPlacementRow(pick.type, t[2])>>
      item == [uid |-> made + 1, type |-> pick.type, at |-> at, color |-> pick.color]
      news == placeFurniture(layout, item)
  IN  applyEdit(layout, news) /\ made' = IF news = {} THEN made ELSE made + 1

TileAction(t, m) ==
  \/ tool \in {"TILE_PAINT", "WALL_PAINT"} /\ PaintAt(t, m) /\ UNCHANGED <<choice, made>>
  \/ /\ tool = "ERASE"
     /\ applyEdit(layout, Erased(layout, t)) /\ mouse' = m /\ UNCHANGED <<choice, made>>
  \/ /\ tool = "FURNITURE_PLACE" /\ pick.type # None
     /\ PlaceAt(t) /\ mouse' = m /\ UNCHANGED choice
  \/ /\ tool \in {"FURNITURE_PICK", "EYEDROPPER"}
     /\ LookAt(t) /\ applyEdit(layout, {}) /\ mouse' = m /\ UNCHANGED made
  \/ /\ Selecting /\ applyEdit(layout, {})      \* no item is there
     /\ sel' = None /\ mouse' = m /\ UNCHANGED <<tool, pick, made>>

\* Of several items that are hit, the last for surfaces is taken, or the first.
Grabbed(t) ==
  LET hits == Among(layout.furniture, {i \in Items(layout.furniture) : t \in Footprint(i)})
      onTop == Among(hits, {i \in Items(layout.furniture) : Catalog[i.type].surfaces})
  IN  IF onTop # <<>> THEN onTop[Len(onTop)] ELSE hits[1]

MouseDown(t) ==
  /\ isEditMode /\ ~mouse.paint /\ ~mouse.erase /\ mouse.drag = None
  /\ IF Selecting /\ HitAt(layout, t) # {}
     THEN LET i == Grabbed(t) IN
          /\ mouse' = [mouse EXCEPT !.drag = [uid |-> i.uid, start |-> t, at |-> t, moving |-> FALSE,
                                     offset |-> <<t[1] - i.at[1], t[2] - i.at[2]>>]]
          /\ UNCHANGED <<choice, session, made>> /\ applyEdit(layout, {})
     ELSE /\ TileAction(t, [mouse EXCEPT !.paint = tool \in PaintTools])
          /\ session' = IF Selecting THEN [session EXCEPT !.uid = None] ELSE session
  /\ UNCHANGED <<isEditMode, turned>>

\* Dragging an item, or painting on the way.
DragOver(t) ==
  /\ isEditMode /\ mouse.drag # None /\ t # mouse.drag.at
  /\ mouse' = [mouse EXCEPT !.drag.at = t, !.drag.moving = @ \/ t # mouse.drag.start]
  /\ UNCHANGED <<choice, session>> /\ EditorOnly

\* Beyond the tiles there is nothing to hit, and nowhere to drop an item.
DragBeyond ==
  /\ isEditMode /\ mouse.drag # None /\ tool \notin PaintTools /\ mouse.drag.at # <<-1, -1>>
  /\ mouse' = [mouse EXCEPT !.drag.at = <<-1, -1>>]
  /\ UNCHANGED <<choice, session>> /\ EditorOnly

DownBeyond ==
  /\ isEditMode /\ mouse = Still /\ tool \in PaintTools
  /\ mouse' = [mouse EXCEPT !.paint = TRUE]
  /\ UNCHANGED <<choice, session>> /\ EditorOnly

PaintOver(t) ==
  /\ isEditMode /\ mouse.drag = None /\ tool \in PaintTools
  /\ \/ mouse.paint /\ TileAction(t, mouse)
     \/ /\ mouse.erase
        /\ applyEdit(layout, Erased(layout, t))
        /\ UNCHANGED <<mouse, choice, made>>
  /\ UNCHANGED <<isEditMode, session, turned>>

\* An item that was dragged goes where it fits; one that was only clicked is
\* selected, or no longer.
Drop ==
  LET d == mouse.drag
      to == <<d.at[1] - d.offset[1], d.at[2] - d.offset[2]>>
  IN  /\ d # None
      /\ applyEdit(layout, IF d.moving THEN moveFurniture(layout, d.uid, to) ELSE {})
      /\ sel' = IF d.moving \/ sel = d.uid THEN None ELSE d.uid
      /\ mouse' = NoDrag(mouse)
      /\ session' = [session EXCEPT !.uid = None]
      /\ UNCHANGED <<isEditMode, tool, pick, made, turned>>

MouseUp ==
  /\ mouse.drag = None /\ (mouse.paint \/ mouse.adding # None)
  /\ mouse' = [mouse EXCEPT !.paint = FALSE, !.adding = None]
  /\ UNCHANGED <<choice, session>> /\ EditorOnly

RightDown(t) ==
  /\ isEditMode /\ tool \in PaintTools /\ t \in Grid(layout)
  /\ ~mouse.paint /\ ~mouse.erase /\ mouse.drag = None
  /\ mouse' = [mouse EXCEPT !.erase = TRUE]
  /\ applyEdit(layout, Erased(layout, t))
  /\ UNCHANGED <<isEditMode, choice, session, made, turned>>

RightUp == /\ mouse.erase /\ mouse' = [mouse EXCEPT !.erase = FALSE]
           /\ UNCHANGED <<choice, session>> /\ EditorOnly

MouseLeave == /\ mouse # Still /\ mouse' = Still
              /\ UNCHANGED <<choice, session>> /\ EditorOnly

-------------------------------------------------------------------------------
Click(t) == MouseDown(t) \/ DragOver(t) \/ PaintOver(t) \/ RightDown(t)

Toolbar ==
  \/ ToggleEditMode \/ Undo \/ Redo \/ SaveNow \/ Reset
  \/ DeleteSelected \/ RotateSelected \/ ToggleState \/ Escape
  \/ \E t \in Tools \ {"SELECT"} : ToolChange(t)
  \/ \E k \in Tiles : TileTypeChange(k)
  \/ \E c \in Colors : FloorColorChange(c) \/ WallColorChange(c)
  \/ \E c \in Colors \cup {None} : SelectedColorChange(c)
  \/ \E type \in Types : FurnitureTypeChange(type)

EditorNext ==
  \/ Toolbar
  \/ \E t \in Reach : Click(t)
  \/ DragBeyond \/ DownBeyond \/ Drop \/ MouseUp \/ RightUp \/ MouseLeave
  \/ TimerFires
  \/ \E l \in Others : layoutLoaded(l)

EditorSpec == EditorInit /\ [][EditorNext]_editorVars

-------------------------------------------------------------------------------
(***************************************************************************)
(* Properties.                                                             *)
(***************************************************************************)
\* The same layout but for blank margins, which undo does not take away again.
Trim(l) ==
  LET shown == {t \in Grid(l) : l.tile[t] # Void}
      spots == shown \cup {i.at : i \in Range(l.furniture)}
      col == CHOOSE c \in {t[1] : t \in spots} : \A t \in spots : c <= t[1]
      row == CHOOSE r \in {t[2] : t \in spots} : \A t \in spots : r <= t[2]
  IN  IF spots = {} THEN <<>>
      ELSE <<{<<t[1] - col, t[2] - row, l.tile[t], l.color[t]>> : t \in shown},
             [n \in DOMAIN l.furniture |->
                [l.furniture[n] EXCEPT !.at = <<@[1] - col, @[2] - row>>]]>>
SameButMargins(l, new) ==
  /\ new.cols > l.cols \/ new.rows > l.rows
  /\ Trim(l) = Trim(new)

\* The same layout but for colours.
SameButColors(l, new) ==
  LET Plain(m) == [n \in DOMAIN m.furniture |-> [m.furniture[n] EXCEPT !.color = None]]
  IN  /\ <<l.cols, l.rows, l.tile>> = <<new.cols, new.rows, new.tile>>
      /\ Plain(l) = Plain(new)

\* A colour is being chosen, or so the code believes: neither undo, redo and
\* reset nor the layout of another window end it (useEditorActions.ts:173-246,
\* 314-346).  It has been overtaken when one of these came after its first step.
ColorOpen == session.uid # None \/ session.wall
CanAdjust == ColorOpen /\ fresh
OvertakenStep == ColorOpen /\ ~fresh /\ SameButColors(layout, layout') /\ UNCHANGED stacks

Line == INSTANCE Timeline WITH
  Limit <- UNDO_STACK_MAX_SIZE, Widened <- SameButMargins, Adjusted <- SameButColors,
  past <- undoStack, present <- layout, future <- redoStack,
  open <- CanAdjust, arrived <- posted, checkpoint <- lastSaved

\* The stacks are a line of past, present and future: every change of the
\* layout is on it, except that a colour which was overtaken goes on changing
\* the layout without a step to undo, under a future that no longer follows
\* from it (useEditorActions.ts:92-104, 173-338, editorState.ts:52-69).
ImplementsTimeline ==
  Line!TimelineInit
    /\ [][Line!TimelineNext \/ OvertakenStep]_<<undoStack, layout, redoStack, CanAdjust>>

\* Never checked as kept: that there is no exception.
LineIsWhole == Line!TimelineSpec

\* What is shown has been sent or is about to be, and without unsaved changes
\* it is the checkpoint.  The exceptions: a margin grown by a stroke that paints
\* nothing, and a layout that arrives while an older one waits for the timer
\* (useEditorActions.ts:84-89, 429-452).
NothingUnsaved ==
  ~loose => /\ layout # posted => saveTimer = layout
            /\ ~isDirty => layout = lastSaved

\* Items overlap only where one of them goes on surfaces, or was turned or
\* switched where it stands, which nothing checks (editorActions.ts:85-110);
\* items of walls may also do above the map, which may grow that way.
OnlySurfacesOverlap == Apart(layout, turned)
===============================================================================
