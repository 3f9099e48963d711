----------------------------- MODULE MCLayoutSync -----------------------------
(* Two windows of which one edits, or both; the file holds a layout of the     *)
(* present or of an earlier revision, or there is none.                        *)
EXTENDS LayoutSync

CONSTANTS w1, w2

MCRevision == [l \in {"old"} |-> 0] @@ [l \in Layouts |-> 1]
===============================================================================
