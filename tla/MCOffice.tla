------------------------------- MODULE MCOffice -------------------------------
(* Small offices.  The first instance has more characters than seats; in the   *)
(* second two agents walk around a desk, with a chair whose back can be walked *)
(* on, and a layout that puts furniture in their way.                          *)
EXTENDS Office, TLC

CONSTANT t1

Item(uid, type, at) == [uid |-> uid, type |-> type, at |-> at]
MCCatalog ==
  LET Piece(w, h, bg, chair) ==
        [w |-> w, h |-> h, bg |-> bg, desk |-> ~chair, chair |-> chair, faces |-> "none"]
  IN  "chair" :> Piece(1, 1, 0, TRUE) @@ "desk" :> Piece(1, 1, 0, FALSE)
      @@ "tall" :> Piece(1, 2, 1, TRUE)

Room(cols, rows, furniture) ==
  [cols |-> cols, rows |-> rows, furniture |-> furniture,
   tile |-> [t \in (0 .. cols - 1) \X (0 .. rows - 1) |-> Floor]]

\* Two chairs side by side; one of them is replaced, the room grows to the left.
MCSeatLayouts ==
  LET Chair(uid, col) == Item(uid, "chair", <<col, 0>>) IN
  "a" :> Room(2, 1, <<Chair("c1", 0), Chair("c2", 1)>>)
  @@ "b" :> Room(3, 1, <<Chair("c2", 1), Chair("c3", 2)>>)
MCSeatEdits == {[from |-> "a", to |-> "b", shift |-> <<1, 0>>],
                [from |-> "b", to |-> "a", shift |-> <<0, 0>>]}
MCSavedSeat == 1 :> <<"c2", 0>> @@ 2 :> <<"c3", 0>>

MCWalkLayouts ==
  LET tall == Item("c1", "tall", <<0, 0>>)
      chair == Item("c2", "chair", <<2, 1>>)
  IN  "a" :> Room(3, 2, <<tall, chair>>)
      @@ "b" :> Room(3, 2, <<tall, Item("d", "desk", <<1, 1>>), chair>>)
MCWalkEdits == {[from |-> "a", to |-> "b", shift |-> <<0, 0>>]}

MCPhases == "walk" :> 2 @@ "countdown" :> 1 @@ "reveal" :> 1 @@ "result" :> 1

(* findPath against its definition, on every office of three by three tiles    *)
(* with at most five of them blocked.                                          *)
ASSUME PathsAreShortest ==
  LET room == Room(3, 3, <<>>) IN
  \A blk \in {b \in SUBSET (Grid(room) \ {<<0, 0>>}) : Cardinality(b) <= 5} :
    \A start \in {<<0, 0>>, <<1, 0>>} : \A end \in Grid(room) :
      FindsShortest(start, end, room, blk)
===============================================================================
