----------------------------- MODULE ServerLocks -----------------------------
(***************************************************************************)
(* The three mutexes of the server together: mem_info.lock with the pool   *)
(* of SegmentPool, and the locks of the two task lists, taken by the       *)
(* listen thread, by both threads that serve clients, which poll their     *)
(* list with a lock and an unlock each time round, and (mem_info only) by  *)
(* psegs.  A list is the number of tasks in it; TaskQueue has the calls    *)
(* that are made inside the locks in detail.                               *)
(***************************************************************************)
EXTENDS SegmentPool

CONSTANTS
  ListenThread,
  MaxRequests,   \* bound: the requests that arrive
  MaxRequeues    \* bound: the passes after which a task is not complete

ASSUME ServerLocksAssumption ==
  /\ ListenThread \notin Agents \cup {NoOwner}
  /\ MaxRequests \in Nat /\ MaxRequeues \in Nat

VARIABLES
  size,      \* size[q] = queue_size of client_q or task_q
  list_lock, \* list_lock[q] = the owner of its lock
  at,        \* where each thread is outside of the pool
  arrived,   \* the requests received by listen_thread
  requeued,  \* the passes that were not the last of their task
  served     \* the tasks whose result has been sent

lockVars == <<size, list_lock, at, arrived, requeued, served>>

allVars == <<vars, lockVars>>

client_q == "client_q"
task_q   == "task_q"
Lists    == {client_q, task_q}
Lockers  == Threads \cup {ListenThread}

(* The list a thread takes its tasks from.                                 *)
Own(t) == IF t = CheckClientQ THEN client_q ELSE task_q

Move(t, from, to) == at[t] = from /\ at' = [at EXCEPT ![t] = to]

LockList(t, q) == list_lock[q] = NoOwner /\ list_lock' = [list_lock EXCEPT ![q] = t]

UnlockList(q) == list_lock' = [list_lock EXCEPT ![q] = NoOwner]

-----------------------------------------------------------------------------
(* The work thread looks at the sizes of both lists before its loop, one   *)
(* lock after the other.                                                   *)
LocksInit ==
  /\ Init
  /\ size = [q \in Lists |-> 0]
  /\ list_lock = [q \in Lists |-> NoOwner]
  /\ at = [t \in Lockers |-> IF t = ListenThread THEN "receive"
                             ELSE IF t = CheckClientQ THEN "poll" ELSE "start"]
  /\ arrived = 0 /\ requeued = 0 /\ served = 0

StartWork ==
  /\ \/ Move(WorkThread, "start", "sized") /\ LockList(WorkThread, client_q)
     \/ Move(WorkThread, "sized", "start_task_q") /\ UnlockList(client_q)
     \/ Move(WorkThread, "start_task_q", "sized_task_q") /\ LockList(WorkThread, task_q)
     \/ Move(WorkThread, "sized_task_q", "poll") /\ UnlockList(task_q)
  /\ UNCHANGED <<size, arrived, requeued, served>>

-----------------------------------------------------------------------------
(* listen_thread receives a request, and makes a task to add to client_q.  *)
Receive ==
  /\ arrived < MaxRequests
  /\ Move(ListenThread, "receive", client_q)
  /\ arrived' = arrived + 1
  /\ UNCHANGED <<size, list_lock, requeued, served>>

LockToAdd(t, q) ==
  /\ Move(t, q, "add")
  /\ LockList(t, q)
  /\ UNCHANGED <<size, arrived, requeued, served>>

(* add_to_list, and the unlock.                                            *)
AddAndUnlock(t, q) ==
  /\ list_lock[q] = t
  /\ Move(t, "add", IF t = ListenThread THEN "receive" ELSE "return")
  /\ size' = [size EXCEPT ![q] = @ + 1]
  /\ UnlockList(q)
  /\ UNCHANGED <<arrived, requeued, served>>

(* Either loop: lock, look at the size, and unlock at once if it is zero,  *)
(* else after remove_head.                                                 *)
PollList(t) ==
  /\ Move(t, "poll", "look")
  /\ LockList(t, Own(t))
  /\ UNCHANGED <<size, arrived, requeued, served>>

(* A variant of the next definition: `continue' without the unlock.        *)
FoundEmptyKeepsLock(t) ==
  /\ size[Own(t)] <= 0
  /\ Move(t, "look", "poll")
  /\ UNCHANGED <<size, list_lock, arrived, requeued, served>>

FoundEmpty(t) ==
  /\ size[Own(t)] <= 0
  /\ Move(t, "look", "poll")
  /\ UnlockList(Own(t))
  /\ UNCHANGED <<size, arrived, requeued, served>>

(* A variant of the next definition: the list stays locked for the task.   *)
RemoveHeadKeepsLock(t) ==
  /\ size[Own(t)] > 0
  /\ Move(t, "look", "task")
  /\ size' = [size EXCEPT ![Own(t)] = @ - 1]
  /\ UNCHANGED <<list_lock, arrived, requeued, served>>

RemoveHead(t) ==
  /\ size[Own(t)] > 0
  /\ Move(t, "look", "task")
  /\ size' = [size EXCEPT ![Own(t)] = @ - 1]
  /\ UnlockList(Own(t))
  /\ UNCHANGED <<arrived, requeued, served>>

(* After the exchange with the client: a task that is not complete goes    *)
(* back to its list, a complete file to task_q, a complete result nowhere. *)
EndPass(t) ==
  /\ pc[t] = "transfer"
  /\ \/ /\ requeued < MaxRequeues
        /\ requeued' = requeued + 1
        /\ Move(t, "task", Own(t))
        /\ UNCHANGED served
     \/ /\ t = CheckClientQ
        /\ Move(t, "task", task_q)
        /\ UNCHANGED <<requeued, served>>
     \/ /\ t = WorkThread
        /\ Move(t, "task", "return")
        /\ served' = served + 1
        /\ UNCHANGED requeued
  /\ UNCHANGED <<size, list_lock, arrived>>

(* What a thread does to the lists, and when it uses the pool: between its *)
(* remove_head and its next poll, and for the release not before its       *)
(* add_to_list.                                                            *)
ListStep(t) ==
  \/ \E q \in Lists : LockToAdd(t, q) \/ AddAndUnlock(t, q)
  \/ t = ListenThread /\ Receive
  \/ t = WorkThread /\ StartWork
  \/ t \in Threads /\ (PollList(t) \/ FoundEmpty(t) \/ RemoveHead(t) \/ EndPass(t))

PoolStep(t) ==
  \/ at[t] = "task" /\ Grab(t) /\ UNCHANGED lockVars
  \/ /\ at[t] = "return"
     /\ Release(t)
     /\ IF pc[t] = "unlock_release" THEN Move(t, "return", "poll") ELSE UNCHANGED at
     /\ UNCHANGED <<size, list_lock, arrived, requeued, served>>

LocksNext ==
  \/ \E t \in Lockers : ListStep(t) /\ UNCHANGED vars
  \/ \E t \in Threads : PoolStep(t)
  \/ Psegs /\ UNCHANGED lockVars

(* Each thread runs, every client answers (EndPass), and a thread that     *)
(* waits for a mutex which is released again and again gets it in the end. *)
(* Nobody has to type psegs.                                               *)
Acquires(t) ==
  \/ PoolStep(t) /\ mem_lock' = t /\ mem_lock # t
  \/ \E q \in Lists : ListStep(t) /\ UNCHANGED vars /\ list_lock'[q] = t /\ list_lock[q] # t

LocksSpec ==
  /\ LocksInit
  /\ [][LocksNext]_allVars
  /\ \A t \in Lockers : WF_allVars(ListStep(t) /\ UNCHANGED vars)
  /\ \A t \in Threads : WF_allVars(PoolStep(t)) /\ SF_allVars(Acquires(t))
  /\ SF_allVars(\E q \in Lists : LockToAdd(ListenThread, q) /\ UNCHANGED vars)
  /\ WF_allVars((PrintSegment \/ UnlockPsegs) /\ UNCHANGED lockVars)

-----------------------------------------------------------------------------
(* notes.txt:3: "to avoid deadlocks be sure to only hold 1 lock at a time; *)
(* dont lock multiple lists or objects; dont hold mem_info while locking a *)
(* list".  No thread ever has two of the three mutexes, through the        *)
(* unlocking and relocking inside of grab_segments and every continue.     *)
Owned(t) ==
  {q \in Lists : list_lock[q] = t} \cup {m \in {"mem_info"} : mem_lock = t}

OneLock == \A t \in Agents \cup {ListenThread} : Cardinality(Owned(t)) <= 1

(* Every request is served in the end: polling threads do not keep the     *)
(* listen thread from its list for ever, a thread that waits for segments  *)
(* gets them though the other passes its task on before it returns its     *)
(* own, and no path of the loops leaves a mutex locked.                    *)
AllServed == <>(served = MaxRequests)
=============================================================================
