----------------------------- MODULE MCQueueIds -----------------------------
(* QueueIds for TLC: three calls on a clock of six seconds, so that        *)
(* seeds five seconds apart meet, and a generator without collisions.      *)
EXTENDS QueueIds, TLC

CONSTANTS c1, c2, c3

MCRandomId(s) == 1000000 + s

Symmetric == Permutations(Calls)
=============================================================================
