------------------------------ MODULE FifoQueue ------------------------------
(***************************************************************************)
(* What the client queue and the task queue promise: tasks leave in the    *)
(* order in which they arrived, none is lost and none is served twice.     *)
(***************************************************************************)
EXTENDS Sequences

CONSTANT Tasks

VARIABLE queue

Init == queue = <<>>

Put(x) == queue' = Append(queue, x)

Take == queue # <<>> /\ queue' = Tail(queue)

Next == Take \/ \E x \in Tasks : Put(x)

Spec == Init /\ [][Next]_queue
=============================================================================
