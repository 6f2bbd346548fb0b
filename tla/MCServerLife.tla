---------------------------- MODULE MCServerLife ----------------------------
(* ServerLife for TLC: a call of several passes and one of one pass, on a  *)
(* server that may go once.                                                *)
EXTENDS ServerLife, TLC

CONSTANTS c1, c2

MCFileLen == (c1 :> 2) @@ (c2 :> 1)

MCCompressedLen(n) == 1
=============================================================================
