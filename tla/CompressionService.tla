------------------------- MODULE CompressionService -------------------------
(***************************************************************************)
(* What the service promises its callers.  A call of sync_compress asks    *)
(* for its file to be compressed; the server comes to have the whole file; *)
(* the call returns with exactly what the codec makes of that file.  No    *)
(* queue, no segment, no pass.                                             *)
(***************************************************************************)
CONSTANTS Clients, File(_), Codec(_), Nothing

VARIABLES
  stage,   \* how far each call is
  result   \* what each call has returned

vars == <<stage, result>>

Init ==
  /\ stage = [c \in Clients |-> "idle"]
  /\ result = [c \in Clients |-> Nothing]

Advance(c, from, to) == stage[c] = from /\ stage' = [stage EXCEPT ![c] = to]

Call(c) == Advance(c, "idle", "called") /\ UNCHANGED result

Accept(c) == Advance(c, "called", "accepted") /\ UNCHANGED result

Return(c) ==
  /\ Advance(c, "accepted", "returned")
  /\ result' = [result EXCEPT ![c] = Codec(File(c))]

(* The caller dies at any moment of its call.                              *)
Abandon(c) ==
  /\ stage[c] \in {"idle", "called", "accepted"}
  /\ stage' = [stage EXCEPT ![c] = "abandoned"]
  /\ UNCHANGED result

Next == \E c \in Clients : Call(c) \/ Accept(c) \/ Return(c) \/ Abandon(c)

Spec == Init /\ [][Next]_vars
=============================================================================
