-------------------------------- MODULE Lists --------------------------------
(***************************************************************************)
(* The filter of a list, for the modules that are proved about.            *)
(***************************************************************************)
EXTENDS Integers, Sequences

\* The elements of q that are in S, in their order (SelectSeq, in a form that
\* proofs can expand).
Among(q, S) ==
  LET Upto[n \in 0 .. Len(q)] ==
        IF n = 0 THEN <<>>
        ELSE IF q[n] \in S THEN Append(Upto[n - 1], q[n]) ELSE Upto[n - 1]
  IN  Upto[Len(q)]
===============================================================================
