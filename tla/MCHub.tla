------------------------------- MODULE MCHub -------------------------------
(* Two windows of one user: c1 and c2 share a room, which is where every   *)
(* race of the hub is.                                                     *)
EXTENDS Hub, TLC

CONSTANTS c1, c2, u1

MCUserOf == (c1 :> u1) @@ (c2 :> u1)
(* One window publishes, the other follows it.                             *)
MCFollow == (c1 :> 2) @@ (c2 :> 0)
===========================================================================
