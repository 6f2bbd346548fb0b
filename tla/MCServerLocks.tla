--------------------------- MODULE MCServerLocks ---------------------------
(* ServerLocks for TLC.  With a single segment, grab_segments is called on *)
(* an empty pool, and spins.                                               *)
EXTENDS ServerLocks
=============================================================================
