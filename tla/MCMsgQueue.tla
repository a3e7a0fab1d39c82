----------------------------- MODULE MCMsgQueue -----------------------------
(* Two threads of the client and two of the server. *)
EXTENDS MsgQueue
CONSTANTS s1, s2, r1, r2
============================================================================
