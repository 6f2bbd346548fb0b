------------------------- MODULE ServerLocksProofs -------------------------
(***************************************************************************)
(* Theorems about ServerLocks, for every number of segments, requests and  *)
(* passes.                                                                 *)
(*                                                                         *)
(* The argument: every step of the server is a step of SegmentPool or      *)
(* leaves it alone, so that the theorems of SegmentPoolProofs hold here;   *)
(* and a thread is at one place: the places where it owns the lock of a    *)
(* list are none of those where it is in grab_segments or release_segments.*)
(***************************************************************************)
EXTENDS ServerLocks, SegmentPoolProofs

Places ==
  {client_q, task_q, "receive", "start", "sized", "start_task_q", "sized_task_q",
   "poll", "look", "task", "add", "return"}

(* Where t may own the lock of q.                                          *)
Inside(t, q) ==
  /\ t \in Lockers
  /\ \/ at[t] = "add"
     \/ at[t] = "look" /\ q = Own(t)
     \/ at[t] = "sized" /\ q = client_q
     \/ at[t] = "sized_task_q" /\ q = task_q

ListLockInv ==
  /\ \A q \in Lists : list_lock[q] # NoOwner => Inside(list_lock[q], q)
  /\ \A p, q \in Lists : list_lock[p] # NoOwner /\ list_lock[p] = list_lock[q] => p = q

(* What the place of a thread in the pool says of its place in its loop.   *)
PlaceInv ==
  \A t \in Threads :
    /\ pc[t] = "run" => at[t] \notin {client_q, task_q, "add", "return"}
    /\ pc[t] \in {"lock_grab", "test", "yield", "scan", "unlock_grab"} => at[t] = "task"
    /\ pc[t] = "transfer" => at[t] \in {"task", client_q, task_q, "add", "return"}
    /\ pc[t] \in {"lock_release", "clear", "unlock_release"} => at[t] = "return"

LocksInv ==
  /\ at \in [Lockers -> Places]
  /\ list_lock \in [Lists -> Lockers \cup {NoOwner}]
  /\ ListLockInv
  /\ PlaceInv

-----------------------------------------------------------------------------
(* A step of the server is a step of the pool, or none.                    *)
LEMMA StepOfPool == [LocksNext]_allVars => [Next]_vars
<1> SUFFICES ASSUME [LocksNext]_allVars PROVE [Next]_vars
  OBVIOUS
<1>1. CASE \E t \in Lockers : ListStep(t) /\ UNCHANGED vars
  BY <1>1
<1>2. CASE \E t \in Threads : PoolStep(t)
  BY <1>2 DEF PoolStep, Next
<1>3. CASE Psegs /\ UNCHANGED lockVars
  BY <1>3 DEF Next
<1>4. CASE UNCHANGED allVars
  BY <1>4 DEF allVars
<1> QED
  BY <1>1, <1>2, <1>3, <1>4 DEF LocksNext

(* The server, with the lists and their locks, implements the pool: what   *)
(* SegmentPoolProofs shows of grab_segments and release_segments holds     *)
(* between the polling and the queueing of the threads (main.c:195-723).   *)
THEOREM LocksImplementPool == LocksSpec => Spec
<1>1. LocksInit => Init
  BY DEF LocksInit
<1> QED
  BY <1>1, StepOfPool, PTL DEF LocksSpec, Spec

-----------------------------------------------------------------------------
LEMMA InitLocksInv == LocksInit => LocksInv
<1> SUFFICES ASSUME LocksInit PROVE LocksInv
  OBVIOUS
<1> USE DistinctThreads, ServerLocksAssumption
<1>1. at \in [Lockers -> Places] /\ list_lock \in [Lists -> Lockers \cup {NoOwner}]
  BY DEF LocksInit, Lockers, Threads, Agents, Places
<1>2. ListLockInv
  BY DEF LocksInit, ListLockInv
<1>3. PlaceInv
  BY DEF LocksInit, Init, PlaceInv, Lockers, Threads, Agents, client_q, task_q
<1> QED
  BY <1>1, <1>2, <1>3 DEF LocksInv

(* A step at the lists.                                                    *)
LEMMA ListStepInv ==
  ASSUME LocksInv, NEW t \in Lockers, ListStep(t), UNCHANGED vars
  PROVE  LocksInv'
<1> USE DistinctThreads, ServerLocksAssumption DEF LocksInv
<1>a. pc' = pc
  BY DEF vars
<1>b. NoOwner \notin Lockers
  BY DEF Lockers, Agents
<1>1. CASE \E q \in Lists : LockToAdd(t, q)
  <2>1. PICK q \in Lists : LockToAdd(t, q)
    BY <1>1
  <2>2. /\ at[t] = q /\ at' = [at EXCEPT ![t] = "add"]
        /\ list_lock[q] = NoOwner /\ list_lock' = [list_lock EXCEPT ![q] = t]
    BY <2>1 DEF LockToAdd, Move, LockList
  <2>3. \A p \in Lists : list_lock[p] # t
    BY <2>2, <1>b DEF ListLockInv, Inside, Lists, client_q, task_q
  <2>4. ListLockInv'
    BY <2>2, <2>3, <1>b DEF ListLockInv, Inside
  <2>5. PlaceInv'
    BY <2>2, <1>a DEF PlaceInv, Lists, client_q, task_q
  <2> QED
    BY <2>2, <2>4, <2>5 DEF Places
<1>2. CASE \E q \in Lists : AddAndUnlock(t, q)
  <2>1. PICK q \in Lists : AddAndUnlock(t, q)
    BY <1>2
  <2>2. /\ at[t] = "add"
        /\ at' = [at EXCEPT ![t] = IF t = ListenThread THEN "receive" ELSE "return"]
        /\ list_lock[q] = t /\ list_lock' = [list_lock EXCEPT ![q] = NoOwner]
    BY <2>1 DEF AddAndUnlock, Move, UnlockList
  <2>3. ListLockInv'
    BY <2>2, <1>b DEF ListLockInv, Inside
  <2>4. PlaceInv'
    BY <2>2, <1>a DEF PlaceInv, Threads, Agents, client_q, task_q
  <2> QED
    BY <2>2, <2>3, <2>4 DEF Places
<1>3. CASE t = ListenThread /\ Receive
  <2>1. /\ at[t] = "receive" /\ at' = [at EXCEPT ![t] = client_q]
        /\ list_lock' = list_lock
    BY <1>3 DEF Receive, Move
  <2>2. ListLockInv'
    BY <2>1, <1>b DEF ListLockInv, Inside, client_q
  <2>3. PlaceInv'
    BY <2>1, <1>3, <1>a DEF PlaceInv, Threads, Agents
  <2> QED
    BY <2>1, <2>2, <2>3, <1>3 DEF Places
<1>4. CASE t = WorkThread /\ StartWork
  <2> DEFINE Free == Places \ {client_q, task_q, "task", "return", "add", "look", "receive"}
  <2>1. ASSUME NEW q \in Lists, NEW from \in {"start", "start_task_q"}, NEW to \in Free,
               Move(t, from, to), LockList(t, q),
               <<to, q>> \in {<<"sized", client_q>>, <<"sized_task_q", task_q>>}
        PROVE  LocksInv'
    <3>1. /\ at[t] = from /\ at' = [at EXCEPT ![t] = to]
          /\ list_lock[q] = NoOwner /\ list_lock' = [list_lock EXCEPT ![q] = t]
      BY <2>1 DEF Move, LockList
    <3>2. ListLockInv'
      BY <2>1, <3>1, <1>b DEF ListLockInv, Inside
    <3>3. PlaceInv'
      BY <2>1, <3>1, <1>a DEF PlaceInv, Places, client_q, task_q
    <3> QED
      BY <3>1, <3>2, <3>3
  <2>2. ASSUME NEW q \in Lists, NEW from \in {"sized", "sized_task_q"}, NEW to \in Free,
               Move(t, from, to), UnlockList(q),
               <<from, q>> \in {<<"sized", client_q>>, <<"sized_task_q", task_q>>}
        PROVE  LocksInv'
    <3>1. /\ at[t] = from /\ at' = [at EXCEPT ![t] = to]
          /\ list_lock' = [list_lock EXCEPT ![q] = NoOwner]
      BY <2>2 DEF Move, UnlockList
    <3>2. ListLockInv'
      BY <2>2, <3>1, <1>b DEF ListLockInv, Inside
    <3>3. PlaceInv'
      BY <2>2, <3>1, <1>a DEF PlaceInv, Places, client_q, task_q
    <3> QED
      BY <3>1, <3>2, <3>3
  <2>3. {"start", "sized", "start_task_q", "sized_task_q", "poll"} \subseteq Free
    BY DEF Places, client_q, task_q
  <2>4. client_q \in Lists /\ task_q \in Lists
    BY DEF Lists
  <2> HIDE DEF Free
  <2>5. CASE Move(t, "start", "sized") /\ LockList(t, client_q)
    BY <2>5, <2>1, <2>3, <2>4
  <2>6. CASE Move(t, "sized", "start_task_q") /\ UnlockList(client_q)
    BY <2>6, <2>2, <2>3, <2>4
  <2>7. CASE Move(t, "start_task_q", "sized_task_q") /\ LockList(t, task_q)
    BY <2>7, <2>1, <2>3, <2>4
  <2>8. CASE Move(t, "sized_task_q", "poll") /\ UnlockList(task_q)
    BY <2>8, <2>2, <2>3, <2>4
  <2> QED
    BY <1>4, <2>5, <2>6, <2>7, <2>8 DEF StartWork
<1>5. CASE t \in Threads /\ PollList(t)
  <2>1. /\ at[t] = "poll" /\ at' = [at EXCEPT ![t] = "look"]
        /\ list_lock[Own(t)] = NoOwner /\ list_lock' = [list_lock EXCEPT ![Own(t)] = t]
        /\ Own(t) \in Lists
    BY <1>5 DEF PollList, Move, LockList, Own, Lists
  <2>2. ListLockInv'
    BY <2>1, <1>b DEF ListLockInv, Inside
  <2>3. PlaceInv'
    BY <2>1, <1>a DEF PlaceInv, client_q, task_q
  <2> QED
    BY <2>1, <2>2, <2>3 DEF Places
<1>6. CASE t \in Threads /\ (FoundEmpty(t) \/ RemoveHead(t))
  <2>1. /\ at[t] = "look" /\ \E to \in {"poll", "task"} : at' = [at EXCEPT ![t] = to]
        /\ list_lock' = [list_lock EXCEPT ![Own(t)] = NoOwner]
        /\ Own(t) \in Lists
    BY <1>6 DEF FoundEmpty, RemoveHead, Move, UnlockList, Own, Lists
  <2>2. ListLockInv'
    BY <2>1, <1>b DEF ListLockInv, Inside
  <2>3. PlaceInv'
    BY <2>1, <1>a DEF PlaceInv, client_q, task_q
  <2> QED
    BY <2>1, <2>2, <2>3 DEF Places
<1>7. CASE t \in Threads /\ EndPass(t)
  <2>1. /\ pc[t] = "transfer" /\ at[t] = "task" /\ list_lock' = list_lock
        /\ \E to \in {client_q, task_q, "return"} : at' = [at EXCEPT ![t] = to]
    BY <1>7 DEF EndPass, Move, Own
  <2>2. ListLockInv'
    BY <2>1, <1>b DEF ListLockInv, Inside, client_q, task_q
  <2>3. PlaceInv'
    BY <2>1, <1>a DEF PlaceInv, client_q, task_q
  <2> QED
    BY <2>1, <2>2, <2>3 DEF Places
<1> QED
  BY <1>1, <1>2, <1>3, <1>4, <1>5, <1>6, <1>7 DEF ListStep

(* A step in the pool.                                                     *)
LEMMA PoolStepInv ==
  ASSUME LocksInv, TypeOK, NEW t \in Threads, PoolStep(t)
  PROVE  LocksInv'
<1> USE DistinctThreads, ServerLocksAssumption DEF LocksInv, Goto
<1>a. t \in Agents /\ t \in Lockers /\ pc = [a \in Agents |-> pc[a]]
  BY DEF Agents, Lockers, TypeOK
<1>1. CASE at[t] = "task" /\ Grab(t) /\ UNCHANGED lockVars
  <2>1. at' = at /\ list_lock' = list_lock
    BY <1>1 DEF lockVars
  <2>2. \E to \in {"lock_grab", "test", "yield", "scan", "unlock_grab", "transfer"} :
          pc' = [pc EXCEPT ![t] = to]
    BY <1>1, <1>a
    DEF Grab, NeedSegments, LockGrab, AwaitFree, Yield, Relock, StartScan, Snatch, Skip, EndScan, UnlockGrab
  <2>3. PlaceInv'
    BY <1>1, <1>a, <2>1, <2>2 DEF PlaceInv, Agents
  <2> QED
    BY <2>1, <2>3 DEF ListLockInv, Inside
<1>2. CASE at[t] = "return" /\ Release(t) /\ pc[t] # "unlock_release" /\ UNCHANGED <<at, list_lock>>
  <2>1. \E to \in {"lock_release", "clear", "unlock_release"} : pc' = [pc EXCEPT ![t] = to]
    BY <1>2, <1>a
    DEF Release, EndTransfer, LockRelease, Clear, EndClear, UnlockRelease
  <2>2. PlaceInv'
    BY <1>2, <1>a, <2>1 DEF PlaceInv, Agents
  <2> QED
    BY <1>2, <2>2 DEF ListLockInv, Inside
<1>3. CASE /\ at[t] = "return" /\ Release(t) /\ pc[t] = "unlock_release"
           /\ at' = [at EXCEPT ![t] = "poll"] /\ list_lock' = list_lock
  <2>1. pc' = [pc EXCEPT ![t] = "run"]
    BY <1>3, <1>a
    DEF Release, EndTransfer, LockRelease, Clear, EndClear, UnlockRelease
  <2>2. PlaceInv'
    BY <1>3, <1>a, <2>1 DEF PlaceInv, Agents, client_q, task_q
  <2>3. ListLockInv'
    BY <1>3, <1>a DEF ListLockInv, Inside
  <2> QED
    BY <1>3, <1>a, <2>2, <2>3 DEF Places
<1> QED
  BY <1>1, <1>2, <1>3 DEF PoolStep, Move

LEMMA NextLocksInv == LocksInv /\ TypeOK /\ [LocksNext]_allVars => LocksInv'
<1> SUFFICES ASSUME LocksInv, TypeOK, [LocksNext]_allVars PROVE LocksInv'
  OBVIOUS
<1>1. CASE \E t \in Lockers : ListStep(t) /\ UNCHANGED vars
  BY <1>1, ListStepInv
<1>2. CASE \E t \in Threads : PoolStep(t)
  BY <1>2, PoolStepInv
<1>3. CASE Psegs /\ UNCHANGED lockVars
  <2>1. at' = at /\ list_lock' = list_lock
    BY <1>3 DEF lockVars
  <2>2. \A t \in Threads : pc'[t] = pc[t]
    BY <1>3, DistinctThreads
    DEF Psegs, LockPsegs, PrintSegment, UnlockPsegs, Goto, TypeOK, Agents
  <2> QED
    BY <2>1, <2>2 DEF LocksInv, ListLockInv, Inside, PlaceInv
<1>4. CASE UNCHANGED allVars
  BY <1>4 DEF allVars, vars, lockVars, LocksInv, ListLockInv, Inside, PlaceInv
<1> QED
  BY <1>1, <1>2, <1>3, <1>4 DEF LocksNext

THEOREM LocksInvariance == LocksSpec => []LocksInv
<1>1. LocksSpec => []TypeOK
  BY LocksImplementPool, TypeCorrect, PTL
<1> QED
  BY <1>1, InitLocksInv, NextLocksInv, PTL DEF LocksSpec

(* No thread ever owns two of the three mutexes (notes.txt:3): the server  *)
(* cannot deadlock on them, whatever the number of segments and however    *)
(* many requests arrive.                                                   *)
THEOREM NoThreadOwnsTwoLocks == LocksSpec => []OneLock
<1>1. LocksInv /\ TypeOK /\ LockInv => OneLock
  <2> SUFFICES ASSUME LocksInv, TypeOK, LockInv, NEW t \in Agents \cup {ListenThread}
               PROVE  Cardinality(Owned(t)) <= 1
    BY DEF OneLock
  <2> USE DistinctThreads, ServerLocksAssumption
  <2>1. \A p, q \in Lists : list_lock[p] = t /\ list_lock[q] = t => p = q
    BY DEF LocksInv, ListLockInv, Agents
  <2>2. \A q \in Lists : list_lock[q] = t => mem_lock # t
    <3> SUFFICES ASSUME NEW q \in Lists, list_lock[q] = t, mem_lock = t PROVE FALSE
      OBVIOUS
    <3>1. Inside(t, q) /\ t \in Agents
      BY DEF LocksInv, ListLockInv, Agents, TypeOK
    <3>2. t \in Threads /\ pc[t] \in Crit
      BY <3>1 DEF Inside, Lockers, Agents, LockInv
    <3>3. at[t] \in {"task", "return"}
      BY <3>2 DEF LockInv, LocksInv, PlaceInv, Crit, GrabCritical, ReleaseCritical
    <3> QED
      BY <3>1, <3>3 DEF Inside
  <2>3. Owned(t) = {} \/ \E x : Owned(t) = {x}
    BY <2>1, <2>2 DEF Owned
  <2>4. CASE Owned(t) = {}
    BY <2>4, FS_EmptySet
  <2>5. CASE \E x : Owned(t) = {x}
    <3>1. PICK x : Owned(t) = {x}
      BY <2>5
    <3>2. Cardinality(Owned(t)) = 1
      BY <3>1, FS_Singleton
    <3> QED
      BY <3>2
  <2> QED
    BY <2>3, <2>4, <2>5
<1>2. IInv => TypeOK /\ LockInv
  BY DEF IInv
<1> QED
  BY <1>1, <1>2, LocksInvariance, LocksImplementPool, Invariance, PTL

(* The grants of the server are filled and never empty.                    *)
THEOREM LocksGrantsFilled == LocksSpec => []GrantFilled
  BY LocksImplementPool, GrantsFilled, PTL
=============================================================================
