------------------------------ MODULE MCShopPanel ------------------------------
(* A product that costs a coin, in two windows.                                  *)
EXTENDS ShopPanel, TLC

CONSTANTS w1, w2, desk

MCPrice == [p \in Products |-> 1]
===============================================================================
