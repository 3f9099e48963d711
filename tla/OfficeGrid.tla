------------------------------ MODULE OfficeGrid ------------------------------
(***************************************************************************)
(* The geometry of the office: what a layout's furniture blocks, where its *)
(* seats are and which way they face, which tiles can be walked on, and    *)
(* the breadth-first search for a path                                     *)
(* (webview-ui/src/office/layout/layoutSerializer.ts and tileMap.ts).      *)
(*                                                                         *)
(* A tile is a pair <<column, row>>.  A layout is a record                 *)
(*   [cols, rows, tile : function from its tiles to a kind of tile,        *)
(*    furniture : sequence of [uid, type, at]].                            *)
(***************************************************************************)
EXTENDS Integers, Sequences, FiniteSets, SequencesExt, Lists

CONSTANTS
  Catalog    \* the loaded furniture catalog: type -> [w, h, bg, desk, chair, faces]

Floor == "floor"
Wall  == "wall"
Void  == "void"

Grid(layout) == (0 .. layout.cols - 1) \X (0 .. layout.rows - 1)

\* The tiles from row offset "from" of an item's footprint, in row-major order.
FootprintSeq(item, from) ==
  LET e == Catalog[item.type] IN
  [k \in 1 .. e.w * (IF e.h > from THEN e.h - from ELSE 0) |->
     <<item.at[1] + ((k - 1) % e.w), item.at[2] + from + (k - 1) \div e.w>>]

Footprint(item) == Range(FootprintSeq(item, 0))

\* The background rows of an item do not block.
SolidTiles(item) == Range(FootprintSeq(item, Catalog[item.type].bg))

Items(furniture) == {i \in Range(furniture) : i.type \in DOMAIN Catalog}

getBlockedTiles(furniture) == UNION {SolidTiles(i) : i \in Items(furniture)}

getPlacementBlockedTiles(furniture, uid) ==
  UNION {SolidTiles(i) : i \in {j \in Items(furniture) : j.uid # uid}}

-------------------------------------------------------------------------------
(***************************************************************************)
(* Seats: every tile of a chair is one.  It faces as its chair does, or    *)
(* the desk next to it, or down.                                           *)
(***************************************************************************)
Up(t)    == <<t[1], t[2] - 1>>
Down(t)  == <<t[1], t[2] + 1>>
Left(t)  == <<t[1] - 1, t[2]>>
Right(t) == <<t[1] + 1, t[2]>>

Facings == {"up", "down", "left", "right"}

orientationToFacing(o) ==
  CASE o = "back" -> "up"
    [] o = "left" -> "left"
    [] o \in {"right", "side"} -> "right"
    [] OTHER -> "down"

DeskTiles(furniture) ==
  UNION {Footprint(i) : i \in {j \in Items(furniture) : Catalog[j.type].desk}}

SeatFacing(chair, t, desks) ==
  CASE Catalog[chair.type].faces # "none" -> orientationToFacing(Catalog[chair.type].faces)
    [] Catalog[chair.type].faces = "none" /\ Up(t) \in desks -> "up"
    [] Catalog[chair.type].faces = "none" /\ Up(t) \notin desks /\ Down(t) \in desks -> "down"
    [] Catalog[chair.type].faces = "none" /\ {Up(t), Down(t)} \cap desks = {} ->
         IF Left(t) \in desks THEN "left" ELSE IF Right(t) \in desks THEN "right" ELSE "down"

\* The seats of a layout in the order of its furniture; the first seat of a
\* chair has the chair's uid, the others a number after it.
layoutToSeats(furniture) ==
  LET desks == DeskTiles(furniture)
      SeatsOf(i) == LET ts == FootprintSeq(i, 0) IN
        [k \in 1 .. Len(ts) |-> [uid |-> <<i.uid, k - 1>>, at |-> ts[k],
                                 faces |-> SeatFacing(i, ts[k], desks)]]
      IsChair(i) == i.type \in DOMAIN Catalog /\ Catalog[i.type].chair
  IN  FlattenSeq([n \in DOMAIN SelectSeq(furniture, IsChair) |->
                    SeatsOf(SelectSeq(furniture, IsChair)[n])])

-------------------------------------------------------------------------------
(***************************************************************************)
(* Walking.                                                                *)
(***************************************************************************)
isWalkable(t, layout, blocked) ==
  t \in Grid(layout) /\ layout.tile[t] \notin {Wall, Void} /\ t \notin blocked

\* In the order of the code's two loops: by rows.
getWalkableTiles(layout, blocked) ==
  LET RowMajor == [k \in 1 .. layout.cols * layout.rows |->
                     <<(k - 1) % layout.cols, (k - 1) \div layout.cols>>]
  IN  Among(RowMajor, {t \in Grid(layout) : isWalkable(t, layout, blocked)})

Abs(n) == IF n < 0 THEN -n ELSE n
Distance(s, t) == Abs(s[1] - t[1]) + Abs(s[2] - t[2])

\* The breadth-first search, level by level: each element of a level is the
\* path that discovered its tile, in the order the code's queue holds them.
NextLevel(level, visited, layout, blocked) ==
  LET Around(t) == <<Up(t), Down(t), Left(t), Right(t)>>
      tried == [k \in 1 .. 4 * Len(level) |-> Around(Last(level[(k + 3) \div 4]))[((k - 1) % 4) + 1]]
      discovers == {k \in DOMAIN tried : /\ isWalkable(tried[k], layout, blocked)
                                         /\ tried[k] \notin visited
                                         /\ \A j \in 1 .. k - 1 : tried[j] # tried[k]}
      news == Among([k \in DOMAIN tried |-> k], discovers)
  IN  [n \in DOMAIN news |-> Append(level[(news[n] + 3) \div 4], tried[news[n]])]

\* The path from start to end without its start; empty when there is none,
\* when the end cannot be walked on, and when start and end are the same.  A
\* level that discovers anything discovers a new tile of the grid, so there are
\* no more levels than tiles.
findPath(start, end, layout, blocked) ==
  LET Ends(s) == {k \in DOMAIN s.paths : Last(s.paths[k]) = end}
      Searched[n \in 0 .. layout.cols * layout.rows] ==
        IF n = 0 THEN [paths |-> <<<<start>>>>, visited |-> {start}]
        ELSE LET s == Searched[n - 1]
                 next == NextLevel(s.paths, s.visited, layout, blocked)
             IN  IF Ends(s) # {} THEN s
                 ELSE [paths |-> next, visited |-> s.visited \cup {Last(p) : p \in Range(next)}]
      found == Searched[layout.cols * layout.rows]
  IN  IF start = end \/ ~isWalkable(end, layout, blocked) \/ Ends(found) = {} THEN <<>>
      ELSE Tail(found.paths[CHOOSE k \in Ends(found) : TRUE])

-------------------------------------------------------------------------------
(***************************************************************************)
(* What findPath promises, stated independently of the search: the set of  *)
(* tiles within n steps.  A path is adjacent steps over walkable tiles to  *)
(* the end, as short as the walls allow; it is empty only when the end     *)
(* cannot be reached (or is the start).                                    *)
(***************************************************************************)
Within(start, n, layout, blocked) ==
  LET Steps(s) == {t \in {Up(s), Down(s), Left(s), Right(s)} : isWalkable(t, layout, blocked)}
      Ball[k \in 0 .. n] ==
        IF k = 0 THEN {start} ELSE UNION {{s} \cup Steps(s) : s \in Ball[k - 1]}
  IN  Ball[n]

IsPath(path, start, layout, blocked) ==
  /\ \A k \in DOMAIN path : isWalkable(path[k], layout, blocked)
  /\ \A k \in DOMAIN path : Distance(path[k], IF k = 1 THEN start ELSE path[k - 1]) = 1

FindsShortest(start, end, layout, blocked) ==
  LET path == findPath(start, end, layout, blocked)
      far  == layout.cols * layout.rows
  IN  IF path = <<>>
      THEN start = end \/ end \notin Within(start, far, layout, blocked) \/ end \in blocked
      ELSE /\ IsPath(path, start, layout, blocked)
           /\ path[Len(path)] = end
           /\ end \notin Within(start, Len(path) - 1, layout, blocked)
===============================================================================
