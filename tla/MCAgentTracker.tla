---------------------------- MODULE MCAgentTracker ----------------------------
(* Two terminals, of one name when the user opens them, three files. *)
EXTENDS AgentTracker

CONSTANTS t1, t2, zsh, log1, log2, log3

Symmetry == Permutations({t1, t2}) \cup Permutations({log1, log2, log3})

MCShellName == t1 :> zsh @@ t2 :> zsh
===============================================================================
