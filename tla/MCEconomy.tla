---------------------------- MODULE MCEconomy ----------------------------
(* Small instances of Economy.  Two sessions are enough for every pairwise *)
(* race; CoinMax bounds the ledger, as the INTEGER columns do.             *)
EXTENDS Economy, TLC

CONSTANTS u1, u2, r1, p1, s1, s2, admin

MCOneCoin == r1 :> 1
MCPrice   == p1 :> 1
MCStock   == p1 :> 3
MCMaxTwo  == p1 :> 2
===========================================================================
