----------------------------- MODULE MCTaskQueue -----------------------------
(* Instances of TaskQueue for TLC: addresses and payloads are model values. *)
EXTENDS TaskQueue
=============================================================================
