--------------------------- MODULE MCSegmentPool ---------------------------
(* Instances of SegmentPool for TLC: the threads are model values.         *)
EXTENDS SegmentPool
=============================================================================
