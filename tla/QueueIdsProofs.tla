--------------------------- MODULE QueueIdsProofs ---------------------------
(***************************************************************************)
(* For every number of calls, every clock and whatever rand() makes of a   *)
(* seed: the two identifiers of a call come from seeds that differ, and no *)
(* queue name outlives the calls that made it.                             *)
(***************************************************************************)
EXTENDS QueueIds, TLAPS

(* Between its two looks at the clock, a call's first identifier comes     *)
(* from a second that has been.                                            *)
SeedInv ==
  \A c \in Calls : pc[c] = "put_id" => \E s \in 0 .. clock : get_id[c] = RandomId(s)

IInv == TypeOK /\ SeedInv /\ SeedsApart /\ NoneLeft

LEMMA InitInv == Init => IInv
  BY RandomIdAssumption DEF Init, IInv, TypeOK, SeedInv, SeedsApart, NoneLeft

LEMMA StepType == TypeOK /\ [Next]_vars => TypeOK'
<1> SUFFICES ASSUME TypeOK, [Next]_vars PROVE TypeOK'
  OBVIOUS
<1> USE RandomIdAssumption DEF TypeOK, Ids, Goto
<1>1. CASE Tick
  BY <1>1 DEF Tick
<1>2. ASSUME NEW c \in Calls, CallStep(c) PROVE TypeOK'
  <2>1. CASE GenerateGet(c)
    BY <2>1 DEF GenerateGet
  <2>2. CASE GeneratePut(c)
    BY <2>2 DEF GeneratePut
  <2>3. CASE CreateGet(c)
    BY <2>3 DEF CreateGet
  <2>4. CASE CreatePut(c)
    BY <2>4 DEF CreatePut
  <2>5. CASE UnlinkGet(c)
    BY <2>5 DEF UnlinkGet
  <2>6. CASE UnlinkPut(c)
    BY <2>6 DEF UnlinkPut
  <2> QED
    BY <1>2, <2>1, <2>2, <2>3, <2>4, <2>5, <2>6 DEF CallStep
<1>3. CASE UNCHANGED vars
  BY <1>3 DEF vars
<1> QED
  BY <1>1, <1>2, <1>3 DEF Next

(* The clock does not go back, so that the seed of the second identifier   *)
(* is later than that of the first.                                        *)
LEMMA StepSeed == TypeOK /\ SeedInv /\ [Next]_vars => SeedInv'
<1> SUFFICES ASSUME TypeOK, SeedInv, [Next]_vars, NEW d \in Calls, pc'[d] = "put_id"
             PROVE  \E s \in 0 .. clock' : get_id'[d] = RandomId(s)
  BY DEF SeedInv
<1> USE RandomIdAssumption DEF TypeOK, Goto
<1>1. ASSUME UNCHANGED get_id, pc[d] = "put_id", clock' >= clock
      PROVE  \E s \in 0 .. clock' : get_id'[d] = RandomId(s)
  <2>1. PICK s \in 0 .. clock : get_id[d] = RandomId(s)
    BY <1>1 DEF SeedInv
  <2>2. clock' \in Nat
    BY StepType
  <2>3. s \in 0 .. clock'
    BY <1>1, <2>2
  <2> QED
    BY <1>1, <2>1, <2>3
<1>2. CASE Tick
  BY <1>1, <1>2 DEF Tick
<1>3. ASSUME NEW c \in Calls, GenerateGet(c)
      PROVE  \E s \in 0 .. clock' : get_id'[d] = RandomId(s)
  <2>1. CASE c = d
    <3>1. get_id'[d] = RandomId(clock) /\ clock \in 0 .. clock'
      BY <1>3, <2>1 DEF GenerateGet
    <3> QED
      BY <3>1
  <2>2. CASE c # d
    <3>1. pc[d] = "put_id" /\ get_id'[d] = get_id[d] /\ clock' = clock
      BY <1>3, <2>2 DEF GenerateGet
    <3> QED
      BY <3>1 DEF SeedInv
  <2> QED
    BY <2>1, <2>2
<1>4. ASSUME NEW c \in Calls,
             GeneratePut(c) \/ CreateGet(c) \/ CreatePut(c) \/ UnlinkGet(c) \/ UnlinkPut(c)
      PROVE  UNCHANGED <<clock, get_id>> /\ pc[d] = "put_id"
  BY <1>4 DEF GeneratePut, CreateGet, CreatePut, UnlinkGet, UnlinkPut
<1>5. CASE UNCHANGED vars
  BY <1>1, <1>5 DEF vars
<1> QED
  BY <1>1, <1>2, <1>3, <1>4, <1>5 DEF Next, CallStep

LEMMA StepApart == TypeOK /\ SeedInv /\ SeedsApart /\ [Next]_vars => SeedsApart'
<1> DEFINE Apart(g, p) ==
             \E s \in 0 .. MaxClock : \E r \in s + 5 .. MaxClock + 5 :
               g = RandomId(s) /\ p = RandomId(r)
<1> SUFFICES ASSUME TypeOK, SeedInv, SeedsApart, [Next]_vars,
                    NEW d \in Calls, pc'[d] \notin {"get_id", "put_id"}
             PROVE  Apart(get_id'[d], put_id'[d])
  BY DEF SeedsApart
<1> USE RandomIdAssumption DEF TypeOK, Goto
<1>1. ASSUME NEW c \in Calls, GeneratePut(c)
      PROVE  Apart(get_id'[d], put_id'[d])
  <2>1. CASE c = d
    <3>1. PICK s \in 0 .. clock : get_id[d] = RandomId(s)
      BY <1>1, <2>1 DEF SeedInv, GeneratePut
    <3>2. s \in 0 .. MaxClock /\ clock + 5 \in s + 5 .. MaxClock + 5
      OBVIOUS
    <3>3. get_id'[d] = RandomId(s) /\ put_id'[d] = RandomId(clock + 5)
      BY <1>1, <2>1, <3>1 DEF GeneratePut
    <3> QED
      BY <3>2, <3>3
  <2>2. CASE c # d
    BY <1>1, <2>2 DEF GeneratePut, SeedsApart
  <2> QED
    BY <2>1, <2>2
<1>2. ASSUME NEW c \in Calls, GenerateGet(c)
      PROVE  Apart(get_id'[d], put_id'[d])
  BY <1>2 DEF GenerateGet, SeedsApart
<1>3. ASSUME NEW c \in Calls, CreateGet(c) \/ CreatePut(c) \/ UnlinkGet(c) \/ UnlinkPut(c)
      PROVE  Apart(get_id'[d], put_id'[d])
  BY <1>3 DEF CreateGet, CreatePut, UnlinkGet, UnlinkPut, SeedsApart
<1>4. CASE Tick \/ UNCHANGED vars
  BY <1>4 DEF Tick, vars, SeedsApart
<1> QED
  BY <1>1, <1>2, <1>3, <1>4 DEF Next, CallStep

(* A name that goes was unlinked by a call that has it no longer; a name   *)
(* that stays keeps a call that has it.                                    *)
LEMMA StepNames == TypeOK /\ NoneLeft /\ [Next]_vars => NoneLeft'
<1> SUFFICES ASSUME TypeOK, NoneLeft, [Next]_vars, NEW n \in names'
             PROVE  \E d \in Calls : n \in Queues(d)'
  BY DEF NoneLeft
<1> USE DEF TypeOK, Goto
<1>1. ASSUME n \in names, \A d \in Calls : n \in Queues(d) => n \in Queues(d)'
      PROVE  \E d \in Calls : n \in Queues(d)'
  BY <1>1 DEF NoneLeft
<1>2. ASSUME NEW c \in Calls, CallStep(c)
      PROVE  \E d \in Calls : n \in Queues(d)'
  <2> USE DEF Queues
  <2>1. CASE GenerateGet(c) \/ GeneratePut(c)
    BY <1>1, <2>1 DEF GenerateGet, GeneratePut
  <2>2. CASE CreateGet(c)
    <3>1. CASE n = get_id[c]
      BY <2>2, <3>1 DEF CreateGet
    <3>2. CASE n # get_id[c]
      BY <1>1, <2>2, <3>2 DEF CreateGet
    <3> QED
      BY <3>1, <3>2
  <2>3. CASE CreatePut(c)
    <3>1. CASE n = put_id[c]
      BY <2>3, <3>1 DEF CreatePut
    <3>2. CASE n # put_id[c]
      BY <1>1, <2>3, <3>2 DEF CreatePut
    <3> QED
      BY <3>1, <3>2
  <2>4. CASE UnlinkGet(c)
    BY <1>1, <2>4 DEF UnlinkGet
  <2>5. CASE UnlinkPut(c)
    BY <1>1, <2>5 DEF UnlinkPut
  <2> QED
    BY <1>2, <2>1, <2>2, <2>3, <2>4, <2>5 DEF CallStep
<1>3. CASE Tick \/ UNCHANGED vars
  BY <1>1, <1>3 DEF Tick, vars, Queues
<1> QED
  BY <1>2, <1>3 DEF Next

LEMMA Invariance == Spec => []IInv
<1>1. IInv /\ [Next]_vars => IInv'
  BY StepType, StepSeed, StepApart, StepNames DEF IInv
<1> QED
  BY InitInv, <1>1, PTL DEF Spec

(* Every variable keeps its type, and a call that creates a queue has got  *)
(* its identifier (establish_communicator_channel).                        *)
THEOREM TypesKept == Spec => []TypeOK
<1>1. IInv => TypeOK
  BY DEF IInv
<1> QED
  BY Invariance, <1>1, PTL

(* generate_random_id never seeds the generator alike for the two queues   *)
(* of a call.                                                              *)
THEOREM SeedsOfACallDiffer == Spec => []SeedsApart
<1>1. IInv => SeedsApart
  BY DEF IInv
<1> QED
  BY Invariance, <1>1, PTL

(* Every name that exists belongs to a call in progress.                   *)
THEOREM NamesBelongToCalls == Spec => []NoneLeft
<1>1. IInv => NoneLeft
  BY DEF IInv
<1> QED
  BY Invariance, <1>1, PTL
=============================================================================
