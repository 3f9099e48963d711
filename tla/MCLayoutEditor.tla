---------------------------- MODULE MCLayoutEditor ----------------------------
(* A room of one tile which can grow by a column; a desk that turns and can be *)
(* switched to a wide one, and a thing to put on it.                           *)
EXTENDS LayoutEditor

Furniture == INSTANCE FurnitureCatalog

Asset(id, orientation, state, w) ==
  [type |-> "asset", id |-> id, orientation |-> orientation, state |-> state, frame |-> 0,
   mirrorSide |-> FALSE, w |-> w, h |-> 1, png |-> TRUE]
Group(kind, orientation, state, members) ==
  [type |-> "group", groupType |-> kind, scheme |-> "", orientation |-> orientation,
   state |-> state, members |-> members]
Manifest(id, category, node) ==
  [id |-> id, category |-> category, walls |-> category = "wall", surfaces |-> category = "electronics",
   bg |-> 0, readable |-> TRUE, node |-> node]

MCManifests ==
  <<Manifest("DESK", "desks", Group("rotation", "", "",
      <<Group("state", "front", "", <<Asset("desk", "", "off", 1), Asset("wide", "", "on", 2)>>),
        Asset("back", "back", "", 1)>>)),
    Manifest("PC", "electronics", Asset("pc", "", "", 1)),
    Manifest("POSTER", "wall", [Asset("poster", "", "", 1) EXCEPT !.h = 2])>>
desk == <<"desk", "own">>
pc == <<"pc", "own">>
MCCatalog ==
  LET back == <<"back", "own">>
      wide == <<"wide", "own">>
      Desk(w, faces, rotated, toggled) ==
        [w |-> w, h |-> 1, bg |-> 0, walls |-> FALSE, surfaces |-> FALSE, desk |-> TRUE,
         chair |-> FALSE, faces |-> faces, rotated |-> rotated, toggled |-> toggled]
      other == [Desk(1, "", None, None) EXCEPT !.desk = FALSE]
  IN  desk :> Desk(1, "front", back, wide) @@ wide :> Desk(2, "front", back, desk)
      @@ back :> Desk(1, "back", desk, None) @@ pc :> [other EXCEPT !.surfaces = TRUE]
      @@ <<"poster", "own">> :> [other EXCEPT !.h = 2, !.walls = TRUE]

(* This is the catalog that the manifests make.                                *)
ASSUME Builds == MCCatalog = Furniture!CatalogOf(Furniture!loadFurnitureAssets(MCManifests), None)

MCTypes == {pc}

(* Every manifest of at most three members: sides with and without their       *)
(* mirror image, states, animations.                                           *)
Member(kind, n) ==
  LET A(k, o, s) == Asset(10 * n + k, o, s, 1) IN
  CASE kind \in {"front", "back", "side"} -> A(1, kind, "")
    [] kind = "mirrored" -> [A(1, "side", "") EXCEPT !.mirrorSide = TRUE]
    [] kind = "switch" -> Group("state", "front", "", <<A(1, "", "on"), A(2, "", "off")>>)
    [] kind = "back switch" -> Group("state", "back", "", <<A(1, "", "off"), A(2, "", "on")>>)
    [] kind = "animated" ->
         Group("state", "front", "",
           <<Group("animation", "", "on", <<[A(1, "", "") EXCEPT !.frame = 1], A(2, "", "")>>), A(3, "", "off")>>)
Kinds == {"front", "back", "side", "mirrored", "switch", "back switch", "animated"}
ASSUME Reachable ==
  \A kinds \in UNION {[1 .. n -> Kinds] : n \in 1 .. 3}, scheme \in {"2-way", "3-way-mirror"} :
    LET members == [n \in DOMAIN kinds |-> Member(kinds[n], n)]
        node == [Group("rotation", "", "", members) EXCEPT !.scheme = scheme]
        assets == Furniture!loadFurnitureAssets(<<Manifest("M", "misc", node)>>)
    IN  Furniture!PaletteReachesAll(assets) /\ Furniture!TurnsBack(assets)

(* The operations on layouts, on larger rooms: growing, placing, migrating.    *)
Sample(kinds) ==
  [cols |-> 2, rows |-> 2, tile |-> kinds, color |-> [t \in DOMAIN kinds |-> None],
   furniture |-> <<[uid |-> 0, type |-> desk, at |-> <<1, 1>>, color |-> None],
                   [uid |-> 1, type |-> pc, at |-> <<1, 1>>, color |-> None]>>]
Samples == {Sample(kinds) : kinds \in [(0 .. 1) \X (0 .. 1) -> {Wall, Void, "floor1"}]}

ASSUME Grows == \A l \in Samples, t \in (-1 .. 2) \X (-1 .. 2) : GrowsWhereClicked(l, t)
ASSUME Places == \A l \in Samples, t \in (-1 .. 2) \X (-2 .. 2), type \in DOMAIN MCCatalog :
  PlacesSoundly(l, [uid |-> 2, type |-> type, at |-> t, color |-> None])
ASSUME Migrates ==
  \A rev \in {0, 2}, tiles \in [1 .. 2 -> {0, 1, 8, 9, 255}], types \in [1 .. 2 -> {"desk", "lamp", "DESK_FRONT"}],
     colors \in {None, <<None>>, <<None, "grey">>} :
    MigratesOnce([revision |-> rev, tiles |-> tiles, types |-> types, colors |-> colors])

Room(furniture) ==
  [cols |-> 1, rows |-> 1, furniture |-> furniture,
   tile |-> <<0, 0>> :> "floor1", color |-> <<0, 0>> :> "grey"]
MCLoaded == Room(<<[uid |-> 0, type |-> desk, at |-> <<0, 0>>, color |-> None]>>)
MCOthers == {Room(<<>>)}

(* One tile of wall with a poster on it.                                       *)
MCWall ==
  [Room(<<[uid |-> 0, type |-> <<"poster", "own">>, at |-> <<0, -1>>, color |-> None]>>)
     EXCEPT !.tile[<<0, 0>>] = Wall]

(* A room of two tiles with a desk on each, and a thing on the first.          *)
MCPair ==
  LET On(n, uid, type) == [uid |-> uid, type |-> type, at |-> <<n, 0>>, color |-> None] IN
  [cols |-> 2, rows |-> 1, furniture |-> <<On(0, 0, desk), On(1, -1, desk), On(0, -2, pc)>>,
   tile |-> [t \in {<<0, 0>>, <<1, 0>>} |-> "floor1"], color |-> [t \in {<<0, 0>>, <<1, 0>>} |-> "grey"]]
MCFirst == {MCLoaded, MCWall, MCPair}

(* What a behaviour is about: the layout it starts with, the tools it uses,    *)
(* and bounds of its changes and of the room.  All tools for one change; those *)
(* that paint, or those that furnish, for two; colours, with deleting and      *)
(* painting walls, for three on stacks of two, so that a stack overflows and   *)
(* two steps can be undone; and items that are moved in a room of two tiles.   *)
VARIABLE scope

Scope(first, tools, most, cols) ==
  [first |-> first, tools |-> tools \cup {"SELECT"}, most |-> most, cols |-> cols]
Furnishing == {"FURNITURE_PICK", "FURNITURE_PLACE"}
Scopes ==
  {Scope(MCLoaded, Tools, 1, 2),
   Scope(MCLoaded, {"TILE_PAINT", "WALL_PAINT"}, 2, 2),
   Scope(MCLoaded, Furnishing, 2, 1),
   Scope(MCPair, Furnishing, 1, 2),
   Scope(MCWall, {"WALL_PAINT"}, 3, 1)}

MCInit == EditorInit /\ scope \in {s \in Scopes : s.first = layout}
MCNext == /\ EditorNext /\ UNCHANGED scope
          /\ tool' \in scope.tools /\ changes' <= scope.most /\ layout'.cols <= scope.cols
MCSpec == MCInit /\ [][MCNext]_<<editorVars, scope>>
===============================================================================
