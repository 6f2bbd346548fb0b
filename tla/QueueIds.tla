------------------------------ MODULE QueueIds ------------------------------
(***************************************************************************)
(* The names of the private queues.  establish_communicator_channel takes  *)
(* two identifiers from a generator that it seeds with the second of the   *)
(* clock, and creates the queues with O_CREAT alone: a name that exists is *)
(* opened, not refused.  sync_compress unlinks both when it is done.       *)
(* What rand() makes of a seed is any number of seven digits; it may make  *)
(* the same of two.  Service assumes that the queues of two calls differ;  *)
(* this module says what of that the code provides.                        *)
(***************************************************************************)
EXTENDS Integers, FiniteSets

CONSTANTS
  Calls,        \* the calls of sync_compress, of any processes
  MaxClock,     \* the clock stops here: the bound of a run
  RandomId(_)   \* the identifier rand() gives after srand(a seed)

(* rand() % (upper - lower + 1) + lower.                                   *)
lower == 1000000

upper == 9999999

ASSUME RandomIdAssumption ==
  /\ MaxClock \in Nat
  /\ \A s \in 0 .. MaxClock + 5 : RandomId(s) \in lower .. upper

VARIABLES
  clock,    \* time(0)
  pc,       \* where each call is
  get_id, put_id,
  names     \* the names of the queues that exist

vars == <<clock, pc, get_id, put_id, names>>

Ids == {RandomId(s) : s \in 0 .. MaxClock + 5}

None == -1

Init ==
  /\ clock = 0
  /\ pc = [c \in Calls |-> "get_id"]
  /\ get_id = [c \in Calls |-> None]
  /\ put_id = [c \in Calls |-> None]
  /\ names = {}

Goto(c, from, to) == pc[c] = from /\ pc' = [pc EXCEPT ![c] = to]

Tick ==
  /\ clock < MaxClock
  /\ clock' = clock + 1
  /\ UNCHANGED <<pc, get_id, put_id, names>>

(* generate_random_id(0), then generate_random_id(5), a while later.       *)
GenerateGet(c) ==
  /\ Goto(c, "get_id", "put_id")
  /\ get_id' = [get_id EXCEPT ![c] = RandomId(clock)]
  /\ UNCHANGED <<clock, put_id, names>>

GeneratePutSameSeed(c) ==
  /\ Goto(c, "put_id", "create_get")
  /\ put_id' = [put_id EXCEPT ![c] = RandomId(clock)]
  /\ UNCHANGED <<clock, get_id, names>>

GeneratePut(c) ==
  /\ Goto(c, "put_id", "create_get")
  /\ put_id' = [put_id EXCEPT ![c] = RandomId(clock + 5)]
  /\ UNCHANGED <<clock, get_id, names>>

(* create_private_q: mq_open with O_CREAT.                                 *)
CreateGet(c) ==
  /\ Goto(c, "create_get", "create_put")
  /\ names' = names \cup {get_id[c]}
  /\ UNCHANGED <<clock, get_id, put_id>>

CreatePut(c) ==
  /\ Goto(c, "create_put", "transfer")
  /\ names' = names \cup {put_id[c]}
  /\ UNCHANGED <<clock, get_id, put_id>>

(* The transfer is over: mq_unlink, which may find no such name.           *)
UnlinkGet(c) ==
  /\ Goto(c, "transfer", "unlink_put")
  /\ names' = names \ {get_id[c]}
  /\ UNCHANGED <<clock, get_id, put_id>>

UnlinkPutStalePath(c) ==
  /\ Goto(c, "unlink_put", "done")
  /\ names' = names \ {get_id[c]}
  /\ UNCHANGED <<clock, get_id, put_id>>

UnlinkPut(c) ==
  /\ Goto(c, "unlink_put", "done")
  /\ names' = names \ {put_id[c]}
  /\ UNCHANGED <<clock, get_id, put_id>>

CallStep(c) ==
  \/ GenerateGet(c) \/ GeneratePut(c) \/ CreateGet(c) \/ CreatePut(c)
  \/ UnlinkGet(c) \/ UnlinkPut(c)

Next == Tick \/ \E c \in Calls : CallStep(c)

Spec == Init /\ [][Next]_vars

-----------------------------------------------------------------------------
(* The queues a call has created and not yet unlinked.                     *)
Queues(c) ==
  (IF pc[c] \in {"create_put", "transfer"} THEN {get_id[c]} ELSE {}) \cup
  (IF pc[c] \in {"transfer", "unlink_put"} THEN {put_id[c]} ELSE {})

(* The types of the variables, and which calls have which identifiers.     *)
TypeOK ==
  /\ clock \in 0 .. MaxClock
  /\ pc \in [Calls -> {"get_id", "put_id", "create_get", "create_put", "transfer",
                       "unlink_put", "done"}]
  /\ get_id \in [Calls -> Ids \cup {None}] /\ put_id \in [Calls -> Ids \cup {None}]
  /\ \A c \in Calls :
       /\ pc[c] # "get_id" => get_id[c] \in Ids
       /\ pc[c] \notin {"get_id", "put_id"} => put_id[c] \in Ids
  /\ names \subseteq Ids

(* The two identifiers of a call are drawn with different seeds, at least  *)
(* five apart however long it takes between its two looks at the clock     *)
(* (client_library.c:77, instead of "code that ensures they are            *)
(* different").  Whether they differ as well is up to rand().              *)
SeedsApart ==
  \A c \in Calls : pc[c] \notin {"get_id", "put_id"} =>
    \E s \in 0 .. MaxClock : \E r \in s + 5 .. MaxClock + 5 :
      get_id[c] = RandomId(s) /\ put_id[c] = RandomId(r)

(* No name outlives the calls that made it, whoever shared it and in       *)
(* whatever order they unlinked it, and should the two of a call be one:   *)
(* when all calls have come to their end, a later one finds no old         *)
(* messages.  (A call that is killed leaves its names behind.)             *)
NoneLeft == names \subseteq UNION {Queues(c) : c \in Calls}

(* The queues of a call are its own (client_library.c:54, "create a new    *)
(* message queue").                                                        *)
Private ==
  \A c, d \in Calls : c # d => Queues(c) \cap Queues(d) = {}
=============================================================================
