---------------------------- MODULE SegmentPool ----------------------------
(***************************************************************************)
(* mem_info: the pool of shared-memory segments of the server, the mutex   *)
(* that protects it, and the code that takes segments from it and gives    *)
(* them back (grab_segments, release_segments), run by the thread that     *)
(* receives files (improved_check_clientq) and the one that compresses and *)
(* returns them (improved_work_thread); the command loop of main prints it *)
(* (psegs).  One action is one step of a thread: a lock, an unlock, an     *)
(* iteration of a loop.                                                    *)
(*                                                                         *)
(* available_segments is filled in increasing segment order, so the set of *)
(* its entries stands for the array; the shmget identifiers are the        *)
(* indices of data_array.                                                  *)
(***************************************************************************)
EXTENDS Integers, FiniteSets

CONSTANTS CheckClientQ,  \* the thread that runs improved_check_clientq
          WorkThread,    \* the thread that runs improved_work_thread
          MainThread,    \* the thread that runs main
          NoOwner,       \* the value of an unlocked mutex
          SegCount       \* mem_info.seg_count, the argument of --n_sms

Threads == {CheckClientQ, WorkThread}
Agents  == Threads \cup {MainThread}
Segs    == 0 .. SegCount - 1

ASSUME DistinctThreads ==
  /\ CheckClientQ # WorkThread
  /\ MainThread \notin Threads
  /\ NoOwner \notin Agents
ASSUME SegCountAssumption == SegCount \in Nat

VARIABLES
  in_use,          \* in_use[s] = mem_info.data_array[s].in_use
  used_seg_count,  \* mem_info.used_seg_count
  mem_lock,        \* the owner of mem_info.lock
  pc,              \* where each thread is
  i,               \* the loop index of each thread
  amount,          \* amount_to_grab, then available_segment_count
  avail            \* the entries of available_segments

vars == <<in_use, used_seg_count, mem_lock, pc, i, amount, avail>>

-----------------------------------------------------------------------------
FreeCount == SegCount - used_seg_count

(* Variants of the next definition: no minimum; everything that is free.   *)
GrantSizeNoMinimum(free) == free \div 2
GrantSizeAll(free) == free

(* amount_to_grab: half the free segments, at least one.                   *)
GrantSize(free) == IF free \div 2 = 0 THEN 1 ELSE free \div 2

(* amount_left_to_grab, which the scan compares with zero.                 *)
LeftToGrab(t) == amount[t] - Cardinality(avail[t])

Goto(t, from, to) == pc[t] = from /\ pc' = [pc EXCEPT ![t] = to]

Lock(t)   == mem_lock = NoOwner /\ mem_lock' = t
Unlock(t) == mem_lock' = NoOwner

-----------------------------------------------------------------------------
Init ==
  /\ in_use = [s \in Segs |-> 0]
  /\ used_seg_count = 0
  /\ mem_lock = NoOwner
  /\ pc = [t \in Agents |-> "run"]
  /\ i = [t \in Agents |-> 0]
  /\ amount = [t \in Threads |-> 0]
  /\ avail = [t \in Threads |-> {}]

(* A task has been popped and the thread calls pthread_mutex_lock.         *)
NeedSegments(t) ==
  /\ Goto(t, "run", "lock_grab")
  /\ UNCHANGED <<in_use, used_seg_count, mem_lock, i, amount, avail>>

(* A variant of the next definition: grab_segments without the lock.       *)
LockGrabUnlocked(t) ==
  /\ Goto(t, "lock_grab", "test")
  /\ UNCHANGED <<in_use, used_seg_count, mem_lock, i, amount, avail>>

LockGrab(t) ==
  /\ Goto(t, "lock_grab", "test")
  /\ Lock(t)
  /\ UNCHANGED <<in_use, used_seg_count, i, amount, avail>>

(* The body of the while loop: unlock, sched_yield, and lock again.        *)
Yield(t) ==
  /\ FreeCount = 0
  /\ Goto(t, "test", "yield")
  /\ Unlock(t)
  /\ UNCHANGED <<in_use, used_seg_count, i, amount, avail>>

Relock(t) ==
  /\ Goto(t, "yield", "test")
  /\ Lock(t)
  /\ UNCHANGED <<in_use, used_seg_count, i, amount, avail>>

StartScan(t) ==
  /\ FreeCount # 0
  /\ Goto(t, "test", "scan")
  /\ amount' = [amount EXCEPT ![t] = GrantSize(FreeCount)]
  /\ i' = [i EXCEPT ![t] = 0]
  /\ UNCHANGED <<in_use, used_seg_count, mem_lock, avail>>

(* A variant of the next definition: the flag is not looked at.            *)
SnatchAny(t) ==
  /\ pc[t] = "scan" /\ i[t] < SegCount /\ LeftToGrab(t) > 0
  /\ in_use' = [in_use EXCEPT ![i[t]] = 1]
  /\ avail' = [avail EXCEPT ![t] = @ \cup {i[t]}]
  /\ i' = [i EXCEPT ![t] = @ + 1]
  /\ UNCHANGED <<used_seg_count, mem_lock, pc, amount>>

(* One iteration of the scan: a free segment is snatched, one in use is    *)
(* skipped.                                                                *)
Snatch(t) ==
  /\ pc[t] = "scan" /\ i[t] < SegCount /\ LeftToGrab(t) > 0
  /\ in_use[i[t]] = 0
  /\ in_use' = [in_use EXCEPT ![i[t]] = 1]
  /\ avail' = [avail EXCEPT ![t] = @ \cup {i[t]}]
  /\ i' = [i EXCEPT ![t] = @ + 1]
  /\ UNCHANGED <<used_seg_count, mem_lock, pc, amount>>

(* A variant of the next definition: a segment in use is tried again.      *)
SkipNowhere(t) ==
  /\ pc[t] = "scan" /\ i[t] < SegCount /\ LeftToGrab(t) > 0
  /\ in_use[i[t]] # 0
  /\ UNCHANGED vars

Skip(t) ==
  /\ pc[t] = "scan" /\ i[t] < SegCount /\ LeftToGrab(t) > 0
  /\ in_use[i[t]] # 0
  /\ i' = [i EXCEPT ![t] = @ + 1]
  /\ UNCHANGED <<in_use, used_seg_count, mem_lock, pc, amount, avail>>

(* A variant of the next definition: the grant is not counted.             *)
EndScanUncounted(t) ==
  /\ i[t] >= SegCount \/ LeftToGrab(t) <= 0
  /\ Goto(t, "scan", "unlock_grab")
  /\ UNCHANGED <<in_use, used_seg_count, mem_lock, i, amount, avail>>

(* The scan ends, by its break or at the last segment.                     *)
EndScan(t) ==
  /\ i[t] >= SegCount \/ LeftToGrab(t) <= 0
  /\ Goto(t, "scan", "unlock_grab")
  /\ used_seg_count' = used_seg_count + amount[t]
  /\ UNCHANGED <<in_use, mem_lock, i, amount, avail>>

UnlockGrab(t) ==
  /\ Goto(t, "unlock_grab", "transfer")
  /\ Unlock(t)
  /\ UNCHANGED <<in_use, used_seg_count, i, amount, avail>>

(* The exchange with the client is over.                                   *)
EndTransfer(t) ==
  /\ Goto(t, "transfer", "lock_release")
  /\ UNCHANGED <<in_use, used_seg_count, mem_lock, i, amount, avail>>

LockRelease(t) ==
  /\ Goto(t, "lock_release", "clear")
  /\ Lock(t)
  /\ i' = [i EXCEPT ![t] = 0]
  /\ UNCHANGED <<in_use, used_seg_count, amount, avail>>

(* A variant of the next definition: clears the i-th segment of the pool   *)
(* instead of the i-th of the array.                                       *)
ClearByIndex(t) ==
  /\ pc[t] = "clear" /\ i[t] < amount[t]
  /\ in_use' = [in_use EXCEPT ![i[t]] = 0]
  /\ i' = [i EXCEPT ![t] = @ + 1]
  /\ UNCHANGED <<used_seg_count, mem_lock, pc, amount, avail>>

(* One iteration of the release loop: the i-th entry of the array, in      *)
(* increasing segment order, is the one with i entries below it.           *)
Clear(t) ==
  /\ pc[t] = "clear" /\ i[t] < amount[t]
  /\ \E s \in avail[t] :
       /\ Cardinality({r \in avail[t] : r < s}) = i[t]
       /\ in_use' = [in_use EXCEPT ![s] = 0]
  /\ i' = [i EXCEPT ![t] = @ + 1]
  /\ UNCHANGED <<used_seg_count, mem_lock, pc, amount, avail>>

(* A variant of the next definition: the count is not taken back.          *)
EndClearKeepsCount(t) ==
  /\ i[t] >= amount[t]
  /\ Goto(t, "clear", "unlock_release")
  /\ UNCHANGED <<in_use, used_seg_count, mem_lock, i, amount, avail>>

EndClear(t) ==
  /\ i[t] >= amount[t]
  /\ Goto(t, "clear", "unlock_release")
  /\ used_seg_count' = used_seg_count - amount[t]
  /\ UNCHANGED <<in_use, mem_lock, i, amount, avail>>

(* The unlock, and free(available_segments).                               *)
UnlockRelease(t) ==
  /\ Goto(t, "unlock_release", "run")
  /\ Unlock(t)
  /\ avail' = [avail EXCEPT ![t] = {}]
  /\ UNCHANGED <<in_use, used_seg_count, i, amount>>

(* A variant of the next definition: psegs without the lock.               *)
LockPsegsUnlocked ==
  /\ Goto(MainThread, "run", "psegs")
  /\ i' = [i EXCEPT ![MainThread] = 0]
  /\ UNCHANGED <<in_use, used_seg_count, mem_lock, amount, avail>>

(* The psegs command prints every segment under the lock.                  *)
LockPsegs ==
  /\ Goto(MainThread, "run", "psegs")
  /\ Lock(MainThread)
  /\ i' = [i EXCEPT ![MainThread] = 0]
  /\ UNCHANGED <<in_use, used_seg_count, amount, avail>>

PrintSegment ==
  /\ pc[MainThread] = "psegs" /\ i[MainThread] < SegCount
  /\ i' = [i EXCEPT ![MainThread] = @ + 1]
  /\ UNCHANGED <<in_use, used_seg_count, mem_lock, pc, amount, avail>>

UnlockPsegs ==
  /\ i[MainThread] >= SegCount
  /\ Goto(MainThread, "psegs", "run")
  /\ Unlock(MainThread)
  /\ UNCHANGED <<in_use, used_seg_count, i, amount, avail>>

(* The while loop of grab_segments, and the way out of it.  With one       *)
(* segment it goes round, with more never (NeverExhausted).                *)
AwaitFree(t) ==
  /\ pc[t] \in {"test", "yield"}
  /\ Yield(t) \/ Relock(t) \/ StartScan(t)

Grab(t) ==
  \/ NeedSegments(t) \/ LockGrab(t) \/ AwaitFree(t)
  \/ Snatch(t) \/ Skip(t) \/ EndScan(t) \/ UnlockGrab(t)

Release(t) ==
  EndTransfer(t) \/ LockRelease(t) \/ Clear(t) \/ EndClear(t) \/ UnlockRelease(t)

Psegs == LockPsegs \/ PrintSegment \/ UnlockPsegs

Next == Psegs \/ \E t \in Threads : Grab(t) \/ Release(t)

Spec == Init /\ [][Next]_vars

-----------------------------------------------------------------------------
(* Fairness: a thread that can run runs, and a thread that waits for the   *)
(* mutex gets it if the mutex is released again and again.  A client may   *)
(* never answer (EndTransfer), a command may never be typed (LockPsegs), a *)
(* task may never come (NeedSegments): no fairness there.                  *)
Fairness ==
  /\ \A t \in Threads :
       /\ WF_vars(Yield(t) \/ StartScan(t) \/ Snatch(t) \/ Skip(t)
                    \/ EndScan(t) \/ UnlockGrab(t)
                    \/ Clear(t) \/ EndClear(t) \/ UnlockRelease(t))
       /\ SF_vars(LockGrab(t) \/ Relock(t) \/ LockRelease(t))
  /\ WF_vars(PrintSegment \/ UnlockPsegs)

FairSpec == Spec /\ Fairness

-----------------------------------------------------------------------------
InUse == {s \in Segs : in_use[s] = 1}

(* Where a thread is inside a critical section of mem_info.lock.           *)
GrabCritical    == {"test", "scan", "unlock_grab"}
ReleaseCritical == {"clear", "unlock_release"}

(* Where a thread has been granted its segments and has not returned them. *)
Granted == {"unlock_grab", "transfer", "lock_release", "clear"}

TypeOK ==
  /\ in_use \in [Segs -> {0, 1}]
  /\ used_seg_count \in 0 .. SegCount
  /\ mem_lock \in Agents \cup {NoOwner}
  /\ pc \in [Agents -> {"run", "lock_grab", "test", "yield", "scan",
                        "unlock_grab", "transfer", "lock_release", "clear",
                        "unlock_release", "psegs"}]
  /\ i \in [Agents -> 0 .. SegCount]
  /\ amount \in [Threads -> 0 .. SegCount]
  /\ avail \in [Threads -> SUBSET Segs]

(* The counter the grant is computed from agrees with the flags the scan   *)
(* reads whenever the mutex is free (mem_info.used_seg_count is never      *)
(* recomputed, it is only added to and subtracted from).                   *)
CountAccurate ==
  mem_lock = NoOwner => used_seg_count = Cardinality(InUse)

(* No segment is ever in the arrays of two threads: a file of one client   *)
(* and a compressed file of another never share memory.                    *)
ExclusiveOwnership ==
  \A t, u \in Threads : t # u => avail[t] \cap avail[u] = {}

(* A granted segment is marked in use until the thread that has it clears  *)
(* it, so that no scan can snatch it.                                      *)
GrantedInUse ==
  \A t \in Threads :
    pc[t] \in {"unlock_grab", "transfer", "lock_release"} => avail[t] \subseteq InUse

(* grab_segments returns amount_to_grab, not the number of entries it      *)
(* filled: they are the same, and never zero, so prep_segment_avail_       *)
(* metadata_msg and release_segments never read an entry that is unset.    *)
GrantFilled ==
  \A t \in Threads :
    pc[t] \in Granted => Cardinality(avail[t]) = amount[t] /\ amount[t] > 0

(* With two segments or more, a thread never finds the pool empty: the     *)
(* other one holds at most half of it, so the sched_yield loop is only     *)
(* reached with --n_sms 1.                                                 *)
NeverExhausted ==
  SegCount > 1 => \A t \in Threads : pc[t] # "yield"

(* psegs prints a snapshot: no flag changes while it prints.               *)
PsegsSnapshot == [][pc[MainThread] = "psegs" => UNCHANGED in_use]_vars

(* A thread that asks for segments gets them, even when the client of the  *)
(* other thread never answers.                                             *)
GrabReturns ==
  \A t \in Threads : pc[t] = "lock_grab" ~> pc[t] = "transfer"

(* The pool implements the abstract allocator: a grant takes effect at the *)
(* end of the scan, a release when the count is taken back.                *)
heldBar == [t \in Threads |-> IF pc[t] \in Granted THEN avail[t] ELSE {}]

Allocator == INSTANCE SegmentAllocator WITH held <- heldBar

AllocatorSpec == Allocator!Spec
=============================================================================
