--------------------------- MODULE MCLegacyShop ---------------------------
(* Two buyers' windows and an administrator.  CoinMax bounds what a user   *)
(* may earn, and so the purchases and the length of the ledgers.           *)
EXTENDS LegacyShop, TLC

CONSTANTS u1, i1, s1, s2

MCMaxOne == i1 :> 1
Symmetry == Permutations(Sessions)
===========================================================================
