---------------------------- MODULE OfficeLayouts ----------------------------
(***************************************************************************)
(* The operations on layouts that the editor is made of                    *)
(* (webview-ui/src/office/editor/editorActions.ts), and the migration of   *)
(* layouts of earlier versions (layoutSerializer.ts).                      *)
(*                                                                         *)
(* Layouts as in OfficeGrid, with the colour of each tile and item.  The   *)
(* code returns the very layout it was given to say that nothing is to be  *)
(* done; here the result is a set: empty, or the new layout.               *)
(***************************************************************************)
EXTENDS OfficeGrid, Lists

CONSTANTS
  MAX_COLS, MAX_ROWS,
  DEFAULT_NEUTRAL_COLOR,
  None

\* Items and layouts, whatever their uids, types, tiles and colours are.
IsItem(i) == i \in [uid : {i.uid}, type : {i.type}, at : Int \X Int, color : {i.color}]
IsLayout(l) ==
  /\ l \in [cols : Nat, rows : Nat, tile : {l.tile}, color : {l.color}, furniture : {l.furniture}]
  /\ l.tile \in [Grid(l) -> Range(l.tile)] /\ l.color \in [Grid(l) -> Range(l.color)]
  /\ l.furniture \in Seq({i \in Range(l.furniture) : IsItem(i)})

\* The tile that the code's row-major index denotes; the index of a tile left
\* or right of the grid denotes one of a neighbouring row.
IndexOf(layout, t) == t[2] * layout.cols + t[1]
TileAt(layout, t) ==
  LET idx == IndexOf(layout, t) IN
  IF idx \in 0 .. layout.cols * layout.rows - 1
  THEN {<<idx % layout.cols, idx \div layout.cols>>} ELSE {}

\* paintTile: color is None when the caller gives none.
Painted(kind, color) ==
  IF color = None /\ kind \notin {Wall, Void} THEN DEFAULT_NEUTRAL_COLOR ELSE color

paintTile(layout, t, kind, color) ==
  {[layout EXCEPT !.tile[s] = kind, !.color[s] = Painted(kind, color)] :
     s \in {u \in TileAt(layout, t) :
              <<layout.tile[u], layout.color[u]>> # <<kind, Painted(kind, color)>>}}

-------------------------------------------------------------------------------
\* The item that is hit at a tile: the first whose footprint holds it.
HitAt(layout, t) ==
  LET hits == {n \in DOMAIN layout.furniture :
                 layout.furniture[n] \in Items(layout.furniture) /\ t \in Footprint(layout.furniture[n])}
  IN  {layout.furniture[n] : n \in {h \in hits : \A k \in hits : h <= k}}

ItemsWith(layout, uid) == {i \in Range(layout.furniture) : i.uid = uid}
OtherItems(layout, uid) == Among(layout.furniture, {i \in Range(layout.furniture) : i.uid # uid})

getWallPlacementRow(type, row) ==
  IF type \in DOMAIN Catalog /\ Catalog[type].walls THEN row - (Catalog[type].h - 1) ELSE row

\* Items of walls may extend above the map and stand on the wall with their
\* bottom row only; the others stand on floor.  Solid tiles do not overlap,
\* except those of items for surfaces, which go on desks.
canPlaceFurniture(layout, type, at, uid) ==
  LET e == Catalog[type]
      bottom == at[2] + e.h - 1
      solid == {t \in SolidTiles([uid |-> uid, type |-> type, at |-> at]) : t[2] >= 0}
      desks == IF e.surfaces THEN DeskTiles(OtherItems(layout, uid)) ELSE {}
  IN  /\ type \in DOMAIN Catalog
      /\ at[1] >= 0 /\ at[1] + e.w <= layout.cols
      /\ bottom \in 0 .. layout.rows - 1
      /\ e.walls \/ at[2] >= 0
      /\ \A t \in solid : IF e.walls THEN t[2] = bottom => layout.tile[t] = Wall
                          ELSE layout.tile[t] \notin {Wall, Void}
      /\ solid \cap getPlacementBlockedTiles(layout.furniture, uid) \subseteq desks

\* Slip: without asking whether it fits.
placeAnywhere(layout, item) == {[layout EXCEPT !.furniture = Append(@, item)]}

placeFurniture(layout, item) ==
  IF canPlaceFurniture(layout, item.type, item.at, None)
  THEN {[layout EXCEPT !.furniture = Append(@, item)]} ELSE {}

removeFurniture(layout, uid) ==
  {[layout EXCEPT !.furniture = OtherItems(layout, uid)] : x \in ItemsWith(layout, uid)}

\* One field of an item.
Change(layout, uid, field, new) ==
  [layout EXCEPT !.furniture =
     [n \in DOMAIN @ |-> IF @[n].uid = uid THEN [@[n] EXCEPT ![field] = new] ELSE @[n]]]

\* Slip: an item goes wherever it is dropped.
moveAnywhere(layout, uid, at) ==
  {Change(layout, uid, "at", at) : x \in ItemsWith(layout, uid)}

moveFurniture(layout, uid, at) ==
  {Change(layout, uid, "at", at) : x \in {i \in ItemsWith(layout, uid) : canPlaceFurniture(layout, i.type, at, uid)}}

\* Neither asks whether the item fits in its new shape.
Reshape(layout, uid, to) ==
  {Change(layout, uid, "type", to[x.type]) :
     x \in {i \in ItemsWith(layout, uid) : i.type \in DOMAIN Catalog /\ to[i.type] # None}}

getRotatedType == [type \in DOMAIN Catalog |-> Catalog[type].rotated]
getToggledType == [type \in DOMAIN Catalog |-> Catalog[type].toggled]
rotateFurniture(layout, uid) == Reshape(layout, uid, getRotatedType)
toggleFurnitureState(layout, uid) == Reshape(layout, uid, getToggledType)

\* What fits, stated tile by tile: it is on the map but for what hangs above it,
\* on its ground, and meets solid tiles only on desks it may stand on.
FitsThere(layout, item) ==
  LET e == Catalog[item.type]
      rest == OtherItems(layout, item.uid)
  IN  \A t \in Footprint(item) :
        /\ t \in Grid(layout) \/ (e.walls /\ t[2] < 0 /\ t[1] \in 0 .. layout.cols - 1)
        /\ (t \in SolidTiles(item) /\ t \in Grid(layout)) =>
             /\ ~e.walls => layout.tile[t] \notin {Wall, Void}
             /\ \A i \in Range(rest) : t \in SolidTiles(i) =>
                  e.surfaces /\ \E j \in Range(rest) : Catalog[j.type].desk /\ t \in Footprint(j)
PlacesSoundly(layout, item) ==
  canPlaceFurniture(layout, item.type, item.at, item.uid) => FitsThere(layout, item)

-------------------------------------------------------------------------------
\* The layout with one more column or row of void, as a set; empty at the
\* maximal size.  Growing to the left or upwards shifts everything.
Shift(dir) == CASE dir = "left" -> <<1, 0>> [] dir = "up" -> <<0, 1>> [] OTHER -> <<0, 0>>

expandLayout(layout, dir) ==
  LET cols == layout.cols + (IF dir \in {"left", "right"} THEN 1 ELSE 0)
      rows == layout.rows + (IF dir \in {"up", "down"} THEN 1 ELSE 0)
      Old(t) == <<t[1] - Shift(dir)[1], t[2] - Shift(dir)[2]>>
      Copy(f, new) == [t \in (0 .. cols - 1) \X (0 .. rows - 1) |->
                         IF Old(t) \in Grid(layout) THEN f[Old(t)] ELSE new]
  IN  IF cols > MAX_COLS \/ rows > MAX_ROWS THEN {}
      ELSE {[cols |-> cols, rows |-> rows,
             tile |-> Copy(layout.tile, Void), color |-> Copy(layout.color, None),
             furniture |-> [n \in DOMAIN layout.furniture |->
               [layout.furniture[n] EXCEPT !.at = <<@[1] + Shift(dir)[1], @[2] + Shift(dir)[2]>>]]]}

\* maybeExpand: in every direction in which the tile is outside, or not at all.
Outside(layout, t) ==
  (IF t[1] < 0 THEN <<"left">> ELSE <<>>) \o (IF t[1] >= layout.cols THEN <<"right">> ELSE <<>>)
  \o (IF t[2] < 0 THEN <<"up">> ELSE <<>>) \o (IF t[2] >= layout.rows THEN <<"down">> ELSE <<>>)

maybeExpand(layout, t) ==
  LET dirs == Outside(layout, t)
      Upto[n \in 0 .. Len(dirs)] ==
        IF n = 0 THEN {[layout |-> layout, at |-> t]}
        ELSE UNION {{[layout |-> l, at |-> <<s.at[1] + Shift(dirs[n])[1], s.at[2] + Shift(dirs[n])[2]>>] :
                       l \in expandLayout(s.layout, dirs[n])} : s \in Upto[n - 1]}
  IN  IF dirs = <<>> THEN {} ELSE Upto[Len(dirs)]

(***************************************************************************)
(* What growing promises: the clicked tile is now inside and blank, and    *)
(* everything else has moved by the same shift.                            *)
(***************************************************************************)
GrowsWhereClicked(layout, t) ==
  \A g \in maybeExpand(layout, t) :
    LET by == <<g.at[1] - t[1], g.at[2] - t[2]>>
        Moved(s) == <<s[1] + by[1], s[2] + by[2]>>
    IN  /\ g.at \in Grid(g.layout) /\ g.layout.tile[g.at] = Void
        /\ \A s \in Grid(layout) : /\ g.layout.tile[Moved(s)] = layout.tile[s]
                                   /\ g.layout.color[Moved(s)] = layout.color[s]
        /\ \A n \in DOMAIN layout.furniture :
             g.layout.furniture[n] = [layout.furniture[n] EXCEPT !.at = Moved(@)]

-------------------------------------------------------------------------------
(***************************************************************************)
(* Migration.  A stored layout has tile codes, perhaps colours, perhaps a  *)
(* revision, and furniture types of any age:                               *)
(*   [revision, tiles, colors (a sequence or None), types].                *)
(***************************************************************************)
OLD_VOID == 8
VoidCode == 255

LegacyTypes == {"desk", "chair", "bookshelf", "plant", "cooler", "whiteboard", "pc", "lamp"}
LEGACY_TYPE_MAP(type) ==
  CASE type = "desk" -> "DESK_FRONT" [] type = "chair" -> "WOODEN_CHAIR_FRONT"
    [] type = "pc" -> "PC_FRONT_OFF" [] type \in {"cooler", "lamp"} -> None
    [] type = "bookshelf" -> "BOOKSHELF" [] type = "plant" -> "PLANT" [] type = "whiteboard" -> "WHITEBOARD"

migrateFurnitureTypes(types) ==
  SelectSeq([n \in DOMAIN types |->
               IF types[n] \in LegacyTypes THEN LEGACY_TYPE_MAP(types[n]) ELSE types[n]],
            LAMBDA type : type # None)

ColorFor(code) ==
  CASE code \in 1 .. 4 -> <<"legacy", code>>
    [] code \in {0, VoidCode} -> None
    [] OTHER -> DEFAULT_NEUTRAL_COLOR

migrateLayout(stored) ==
  LET tiles == IF stored.revision # 0 THEN stored.tiles
               ELSE [n \in DOMAIN stored.tiles |->
                       IF stored.tiles[n] = OLD_VOID THEN VoidCode ELSE stored.tiles[n]]
      kept == stored.colors # None /\ Len(stored.colors) = Len(stored.tiles)
  IN  [stored EXCEPT !.tiles = tiles, !.types = migrateFurnitureTypes(@),
                     !.colors = IF kept THEN @ ELSE [n \in DOMAIN tiles |-> ColorFor(tiles[n])]]

(***************************************************************************)
(* What the migration promises: a layout of the present, which migrating   *)
(* again (every load does) leaves alone, and whose tiles are those stored  *)
(* except the void of the old code.                                        *)
(***************************************************************************)
MigratesOnce(stored) ==
  LET new == migrateLayout(stored) IN
  /\ migrateLayout(new) = new
  /\ Len(new.colors) = Len(new.tiles)
  /\ Range(new.types) \cap LegacyTypes = {}
  /\ \A n \in DOMAIN new.tiles :
       new.tiles[n] # stored.tiles[n] => stored.revision = 0 /\ stored.tiles[n] = OLD_VOID
===============================================================================
