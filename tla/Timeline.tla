------------------------------- MODULE Timeline -------------------------------
(***************************************************************************)
(* What undo and redo promise, for any kind of document: a line of past,   *)
(* present and future.  A change ends the future and makes the present the *)
(* last of the past, of which Limit documents are kept; undo and redo move *)
(* along the line.  The last change may be left open: until anything else  *)
(* moves the present it can be adjusted, and undo takes all of it away.  A *)
(* document that arrives replaces the present; giving up returns to the    *)
(* checkpoint and forgets the rest.  A document may get a margin at any    *)
(* time, which nobody takes away.                                          *)
(***************************************************************************)
EXTENDS Integers, Sequences

CONSTANTS Limit,
          Widened(_, _),       \* is the second the first with a margin?
          Adjusted(_, _)       \* is it one the first can be adjusted to?
VARIABLES past, present, future, open,
          arrived, checkpoint  \* set by the surroundings

Recorded(line, doc) ==
  LET all == Append(line, doc) IN IF Len(all) > Limit THEN Tail(all) ELSE all

Front(line) == SubSeq(line, 1, Len(line) - 1)

Change ==
  /\ past' # <<>> /\ future' = <<>>
  /\ LET base == past'[Len(past')] IN
       /\ past' = Recorded(past, base)
       /\ base = present \/ Widened(present, base)

Widen == Widened(present, present') /\ (open' => open) /\ UNCHANGED <<past, future>>

Adjust == open /\ Adjusted(present, present') /\ UNCHANGED <<past, future>>

Close == open /\ ~open' /\ UNCHANGED <<past, present, future>>

Undo == /\ past # <<>> /\ ~open'
        /\ present' = past[Len(past)] /\ past' = Front(past)
        /\ future' = Recorded(future, present)

Redo == /\ future # <<>> /\ ~open'
        /\ present' = future[Len(future)] /\ future' = Front(future)
        /\ past' = Recorded(past, present)

Replace == present' = arrived' /\ ~open' /\ UNCHANGED <<past, future>>

GiveUp == present' = checkpoint /\ ~open' /\ past' = <<>> /\ future' = <<>>

TimelineInit == past = <<>> /\ future = <<>> /\ open = FALSE
TimelineNext == \/ Undo \/ Redo \/ Change \/ Adjust \/ Close
                \/ Replace \/ GiveUp \/ Widen

TimelineSpec == TimelineInit /\ [][TimelineNext]_<<past, present, future, open>>
===============================================================================
