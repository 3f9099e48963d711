--------------------------- MODULE FurnitureCatalog ---------------------------
(***************************************************************************)
(* The furniture catalog: how manifests become assets                      *)
(* (vscode-extension/src/assetLoader.ts), and how assets become what the   *)
(* palette offers and what an item turns and switches into                 *)
(* (webview-ui/src/office/layout/furnitureCatalog.ts).                     *)
(*                                                                         *)
(* A manifest is [id, category, walls, surfaces, bg, readable, node]; its  *)
(* node an asset [type, id, orientation, state, frame, mirrorSide, w, h,   *)
(* png] or a group [type, groupType, scheme, orientation, state, members]; *)
(* "" where the file gives nothing, 0 for no frame.                        *)
(***************************************************************************)
EXTENDS Integers, Sequences, FiniteSets, SequencesExt, TLC

Or(own, inherited) == IF own # "" THEN own ELSE inherited

\* What the members of a group inherit.
ChildOf(group, inherited) ==
  LET kind == group.groupType IN
  [inherited EXCEPT
     !.scheme = IF kind = "rotation" THEN Or(group.scheme, @) ELSE @,
     !.orientation = IF kind = "state" THEN Or(group.orientation, @) ELSE Or(@, group.orientation),
     !.state = IF kind \in {"state", "animation"} THEN Or(group.state, @) ELSE @,
     !.animation = IF kind # "animation" THEN @
                   ELSE <<inherited.group, Or(group.orientation, inherited.orientation),
                          Or(group.state, inherited.state)>>]

RECURSIVE flattenManifest(_, _)
flattenManifest(node, inherited) ==
  IF node.type = "asset"
  THEN <<[inherited EXCEPT !.orientation = Or(node.orientation, @), !.state = Or(node.state, @)]
         @@ [n \in {"id", "mirrorSide", "frame", "w", "h", "png"} |-> node[n]]>>
  ELSE FlattenSeq([n \in DOMAIN node.members |->
                     flattenManifest(node.members[n], ChildOf(node, inherited))])

\* loadFurnitureAssets: folders whose manifest cannot be read are skipped; an
\* asset stays in the catalog when its picture cannot be read.
loadFurnitureAssets(manifests) ==
  LET Assets(m) ==
        IF ~m.readable THEN <<>>
        ELSE flattenManifest(m.node,
               [group |-> m.id, category |-> m.category, walls |-> m.walls, surfaces |-> m.surfaces,
                bg |-> m.bg, orientation |-> "", state |-> "", animation |-> <<>>,
                scheme |-> IF m.node.type = "asset" THEN "" ELSE m.node.scheme])
  IN  FlattenSeq([n \in DOMAIN manifests |-> Assets(manifests[n])])

-------------------------------------------------------------------------------
(***************************************************************************)
(* buildDynamicCatalog.  A type is <<id, "own">>, or <<id, "left">> for    *)
(* the mirror image of an asset that shows its side.                       *)
(***************************************************************************)
Own(a) == <<a.id, "own">>
LeftOf(a) == <<a.id, "left">>
Mirrored(a) == a.mirrorSide /\ a.orientation = "side"

\* Of several assets for one purpose, the last one counts.
LastOne(those) == IF those = <<>> THEN {} ELSE {Last(those)}

\* The type which shows an orientation of a group that turns.
Shows(a, o) == \/ a.orientation = "side" /\ (o = "right" \/ (o = "left" /\ a.mirrorSide))
               \/ a.orientation # "side" /\ a.orientation = o
TypeShowing(assets, group, o) ==
  {IF Mirrored(a) /\ o = "left" THEN LeftOf(a) ELSE Own(a) :
     a \in LastOne(SelectSeq(assets,
            LAMBDA b : b.group = group /\ b.state \in {"", "off"} /\ Shows(b, o)))}

Scheme(assets, group) ==
  {a.scheme : a \in LastOne(SelectSeq(assets, LAMBDA b : b.group = group /\ b.scheme # ""))}

\* The rotation group, as a sequence of [orientation, type]; it has two at
\* least, or there is none.
Ring(assets, group) ==
  LET allowed == IF "2-way" \in Scheme(assets, group) THEN <<"front", "right">>
                 ELSE <<"front", "right", "back", "left">>
      shown == SelectSeq(allowed, LAMBDA o : TypeShowing(assets, group, o) # {})
  IN  IF Len(shown) < 2 THEN <<>>
      ELSE [n \in DOMAIN shown |->
              [orientation |-> shown[n],
               type |-> CHOOSE t \in TypeShowing(assets, group, shown[n]) : TRUE]]

Groups(assets) == {a.group : a \in Range(assets)}
Rings(assets) == {Ring(assets, g) : g \in Groups(assets)} \ {<<>>}
TypesOf(ring) == {ring[n].type : n \in DOMAIN ring}

\* The pairs <<on, off>>; an animation counts with its first frame.
StatePairs(assets) ==
  LET With(g, o, s) == {Own(a) : a \in LastOne(SelectSeq(assets, LAMBDA b :
                          /\ <<b.group, b.orientation, b.state>> = <<g, o, s>>
                          /\ ~(b.animation # <<>> /\ b.frame > 0)))}
  IN  UNION {With(a.group, a.orientation, "on") \X With(a.group, a.orientation, "off") :
               a \in Range(assets)}

getToggledType(assets, t) ==
  {p[2] : p \in {q \in StatePairs(assets) : q[1] = t}} \cup {p[1] : p \in {q \in StatePairs(assets) : q[2] = t}}
getOnStateType(assets, t) ==
  LET on == {p[1] : p \in {q \in StatePairs(assets) : q[2] = t}} IN IF on = {} THEN {t} ELSE on

\* The ring of an item that is on: its other sides are on as well, where there
\* is such an asset.
OnRing(assets, ring) ==
  [n \in DOMAIN ring |-> [ring[n] EXCEPT !.type = CHOOSE u \in getOnStateType(assets, @) : TRUE]]
RingsOf(assets, t) ==
  LET off == {r \in Rings(assets) : t \in TypesOf(r)} IN
  IF off # {} THEN off
  ELSE {OnRing(assets, r) : r \in {s \in Rings(assets) : t \in TypesOf(OnRing(assets, s))}}

getRotatedType(assets, t, step) ==
  UNION {{r[((n - 1 + step) % Len(r)) + 1].type : n \in {k \in DOMAIN r : r[k].type = t}} :
           r \in RingsOf(assets, t)}
getOrientationInGroup(assets, t) ==
  UNION {{r[n].orientation : n \in {k \in DOMAIN r : r[k].type = t}} : r \in RingsOf(assets, t)}

Frames(assets, animation) ==
  LET its == SelectSeq(assets, LAMBDA a : a.animation = animation)
      InOrder(a, b) == a.frame < b.frame
      sorted == SortSeq(its, InOrder)
  IN  [n \in DOMAIN sorted |-> Own(sorted[n])]
getAnimationFrames(assets, t) ==
  {Frames(assets, a.animation) : a \in {b \in Range(assets) : b.animation # <<>> /\ Own(b) = t}}

\* Every type of the internal catalog, and the ones in the palette: neither on
\* nor another side of a ring.
Known(assets) ==
  UNION {{Own(a)} \cup (IF Mirrored(a) THEN {LeftOf(a)} ELSE {}) : a \in {b \in Range(assets) : b.png}}
OtherSides(ring) == {ring[n].type : n \in {k \in DOMAIN ring : ring[k].orientation # "front"}}
Palette(assets) ==
  Known(assets) \ (UNION {OtherSides(r) : r \in Rings(assets)}
                   \cup {Own(a) : a \in {b \in Range(assets) : b.state = "on"}})

\* What the office and the editor read of an entry (see OfficeGrid); what an
\* item cannot turn or switch into is "none".
CatalogOf(assets, none) ==
  LET AssetOf(t) == CHOOSE a \in Range(assets) : a.id = t[1]
      OneOf(S) == IF S = {} THEN none ELSE CHOOSE u \in S : TRUE
      Entry(t, a) ==
        [w |-> a.w, h |-> a.h, bg |-> a.bg, walls |-> a.walls, surfaces |-> a.surfaces,
         desk |-> a.category = "desks", chair |-> a.category = "chairs",
         faces |-> IF t = LeftOf(a) THEN "left" ELSE a.orientation,
         rotated |-> OneOf(getRotatedType(assets, t, 1)), toggled |-> OneOf(getToggledType(assets, t))]
  IN  [t \in Known(assets) |-> Entry(t, AssetOf(t))]

-------------------------------------------------------------------------------
(***************************************************************************)
(* What the catalog promises.                                              *)
(***************************************************************************)
\* The groups as the manifests describe them: one that turns has a front, and
\* what can be on can be off, in one way each.
Sound(assets) ==
  /\ \A r \in Rings(assets) : r[1].orientation = "front"
  /\ \A a, b \in Range(assets) :
       (a.state = "on" /\ a.group = b.group /\ a.orientation = b.orientation /\ b.state = "on"
          /\ a.frame = b.frame) => a = b
  /\ \A a \in Range(assets) : a.state = "on" =>
       \E b \in Range(assets) : b.group = a.group /\ b.orientation = a.orientation /\ b.state = "off"

Reaches(assets, t) ==
  {t} \cup getRotatedType(assets, t, 1) \cup getToggledType(assets, t)
  \cup UNION {Range(f) : f \in getAnimationFrames(assets, t)}
Closure(assets, S) ==
  LET Upto[n \in Nat] == IF n = 0 THEN S ELSE UNION {Reaches(assets, t) : t \in Upto[n - 1]}
  IN  Upto[2 * Len(assets)]

\* Nothing is lost: whatever the catalog knows can be had by turning and
\* switching what the palette offers, and a ring is offered once.
PaletteReachesAll(assets) ==
  Sound(assets) =>
    /\ Known(assets) \subseteq Closure(assets, Palette(assets))
    /\ \A r \in Rings(assets) : Cardinality(Palette(assets) \cap TypesOf(r)) <= 1

\* Switching twice, and turning there and back, change nothing; but what is on
\* and turns to a side that has no such state is off from then on.
TurnsBack(assets) ==
  \A t \in Known(assets) :
    /\ \A u \in getToggledType(assets, t) : getToggledType(assets, u) = {t}
    /\ \A u \in getRotatedType(assets, t, 1) :
         getRotatedType(assets, u, -1) = {t} \/ t \in {p[1] : p \in StatePairs(assets)}
===============================================================================
