---------------------------- MODULE MCWsClient ----------------------------
(* Two sockets: one more than the client may ever have open.               *)
EXTENDS WsClient, TLC

CONSTANTS a, b

===========================================================================
