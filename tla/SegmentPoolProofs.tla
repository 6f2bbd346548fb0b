------------------------- MODULE SegmentPoolProofs -------------------------
(***************************************************************************)
(* Theorems about SegmentPool, for every number of segments.               *)
(*                                                                         *)
(* The argument: the mutex makes its critical sections exclusive; inside   *)
(* them, the flags are always exactly the entries of the arrays that have  *)
(* not been cleared yet, and the counter is the sum of the grants that     *)
(* have been counted and not yet taken back.  From there a scan that was   *)
(* promised `amount' segments finds that many to the right of its index.   *)
(***************************************************************************)
EXTENDS SegmentPool, OrderLemmas, FiniteSetTheorems, TLAPS

Crit == GrabCritical \cup ReleaseCritical \cup {"psegs"}

(* The number of entries of avail[t] below s: the index of s in the array. *)
Rank(t, s) == Cardinality({r \in avail[t] : r < s})

(* The entries of available_segments whose in_use flag t has set and not   *)
(* cleared.                                                                *)
Remaining(t) ==
  IF pc[t] = "clear" THEN {s \in avail[t] : Rank(t, s) >= i[t]}
  ELSE IF pc[t] = "unlock_release" THEN {} ELSE avail[t]

(* What t has added to used_seg_count and not subtracted.                  *)
Counted(t) == IF pc[t] \in Granted THEN amount[t] ELSE 0

(* The free segments a scan has not looked at.                             *)
FreeFrom(k) == {s \in Segs : s >= k /\ in_use[s] = 0}

LockInv ==
  /\ \A t \in Agents : mem_lock = t <=> pc[t] \in Crit
  /\ pc[MainThread] \in {"run", "psegs"}
  /\ \A t \in Threads : pc[t] # "psegs"

FlagsInv ==
  \A s \in Segs : in_use[s] = 1 <=> \E t \in Threads : s \in Remaining(t)

EmptyInv ==
  \A t \in Threads :
    pc[t] \in {"run", "lock_grab", "test", "yield"} => avail[t] = {}

CountInv == used_seg_count = Counted(CheckClientQ) + Counted(WorkThread)

BoundInv == \A t \in Threads : amount[t] <= GrantSize(SegCount)

ScanInv ==
  \A t \in Threads :
    pc[t] = "scan" =>
      /\ FreeCount > 0
      /\ amount[t] = GrantSize(FreeCount)
      /\ Cardinality(avail[t]) <= amount[t]
      /\ LeftToGrab(t) <= Cardinality(FreeFrom(i[t]))

(* What a scan has left behind it: its own segments and no free one.       *)
PrefixInv ==
  \A t \in Threads :
    pc[t] = "scan" =>
      /\ \A s \in avail[t] : s < i[t]
      /\ \A s \in Segs : s < i[t] => in_use[s] = 1

IInv ==
  /\ TypeOK
  /\ LockInv
  /\ FlagsInv
  /\ ExclusiveOwnership
  /\ EmptyInv
  /\ CountInv
  /\ GrantFilled
  /\ BoundInv
  /\ ScanInv
  /\ PrefixInv

-----------------------------------------------------------------------------
(* A grant is at least one segment and at most what is free; it grows with *)
(* what is free; of two segments or more it never takes all.               *)
LEMMA GrantSizeBounds ==
  ASSUME NEW n \in Nat, n > 0
  PROVE  /\ GrantSize(n) \in 1 .. n
         /\ n > 1 => GrantSize(n) < n
  BY DEF GrantSize

LEMMA GrantSizeMonotone ==
  ASSUME NEW m \in Nat, NEW n \in Nat, m <= n
  PROVE  GrantSize(m) <= GrantSize(n)
  BY DEF GrantSize

(* The sets the counts are taken of are finite.                            *)
LEMMA Finiteness ==
  ASSUME TypeOK
  PROVE  /\ IsFiniteSet(Segs) /\ Cardinality(Segs) = SegCount
         /\ \A t \in Threads : IsFiniteSet(avail[t]) /\ Cardinality(avail[t]) \in Nat
         /\ IsFiniteSet(InUse) /\ Cardinality(InUse) \in Nat
         /\ \A k \in Int : IsFiniteSet(FreeFrom(k)) /\ Cardinality(FreeFrom(k)) \in Nat
<1>1. IsFiniteSet(Segs) /\ Cardinality(Segs) = SegCount
  BY FS_Interval, SegCountAssumption DEF Segs
<1>2. ASSUME NEW S, S \subseteq Segs
      PROVE  IsFiniteSet(S) /\ Cardinality(S) \in Nat
  BY <1>1, <1>2, FS_Subset, FS_CardinalityType
<1>3. \A t \in Threads : avail[t] \subseteq Segs
  BY DEF TypeOK
<1>4. InUse \subseteq Segs /\ \A k \in Int : FreeFrom(k) \subseteq Segs
  BY DEF InUse, FreeFrom
<1> QED
  BY <1>1, <1>2, <1>3, <1>4

-----------------------------------------------------------------------------
(* The pool starts in the invariant.                                       *)
LEMMA InitIInv == Init => IInv
<1> SUFFICES ASSUME Init PROVE IInv
  OBVIOUS
<1> USE DistinctThreads, SegCountAssumption DEF Init
<1>1. TypeOK
  BY DEF TypeOK, Agents, Threads, Segs
<1>2. LockInv
  BY DEF LockInv, Agents, Threads, Crit, GrabCritical, ReleaseCritical
<1>3. FlagsInv /\ ExclusiveOwnership /\ EmptyInv
  BY DEF FlagsInv, ExclusiveOwnership, EmptyInv, Remaining, Agents, Threads
<1>4. CountInv /\ GrantFilled /\ ScanInv
  BY DEF CountInv, GrantFilled, ScanInv, Counted, Granted, Agents, Threads
<1>5. BoundInv /\ PrefixInv
  BY DEF BoundInv, PrefixInv, GrantSize, Agents, Threads
<1> QED
  BY <1>1, <1>2, <1>3, <1>4, <1>5 DEF IInv

(* No step breaks mutual exclusion.                                        *)
LEMMA NextLockInv == TypeOK /\ LockInv /\ [Next]_vars => LockInv'
<1> SUFFICES ASSUME TypeOK, LockInv, [Next]_vars PROVE LockInv'
  OBVIOUS
<1> USE DistinctThreads
  DEF TypeOK, LockInv, Crit, GrabCritical, ReleaseCritical,
          Agents, Threads, Goto, Lock, Unlock
<1>1. ASSUME NEW t \in Threads, Grab(t) PROVE LockInv'
  <2>1. CASE NeedSegments(t) BY <2>1 DEF NeedSegments
  <2>2. CASE LockGrab(t) BY <2>2 DEF LockGrab
  <2>3. CASE Yield(t) BY <2>3 DEF Yield
  <2>4. CASE Relock(t) BY <2>4 DEF Relock
  <2>5. CASE StartScan(t) BY <2>5 DEF StartScan
  <2>6. CASE Snatch(t) BY <2>6 DEF Snatch
  <2>7. CASE Skip(t) BY <2>7 DEF Skip
  <2>8. CASE EndScan(t) BY <2>8 DEF EndScan
  <2>9. CASE UnlockGrab(t) BY <2>9 DEF UnlockGrab
  <2> QED
    BY <1>1, <2>1, <2>2, <2>3, <2>4, <2>5, <2>6, <2>7, <2>8, <2>9 DEF Grab, AwaitFree
<1>2. ASSUME NEW t \in Threads, Release(t) PROVE LockInv'
  <2>1. CASE EndTransfer(t) BY <2>1 DEF EndTransfer
  <2>2. CASE LockRelease(t) BY <2>2 DEF LockRelease
  <2>3. CASE Clear(t) BY <2>3 DEF Clear
  <2>4. CASE EndClear(t) BY <2>4 DEF EndClear
  <2>5. CASE UnlockRelease(t) BY <2>5 DEF UnlockRelease
  <2> QED
    BY <1>2, <2>1, <2>2, <2>3, <2>4, <2>5 DEF Release
<1>3. ASSUME Psegs PROVE LockInv'
  <2>1. CASE LockPsegs BY <2>1 DEF LockPsegs
  <2>2. CASE PrintSegment BY <2>2 DEF PrintSegment
  <2>3. CASE UnlockPsegs BY <2>3 DEF UnlockPsegs
  <2> QED
    BY <1>3, <2>1, <2>2, <2>3 DEF Psegs
<1>4. CASE UNCHANGED vars
  BY <1>4 DEF vars
<1> QED
  BY <1>1, <1>2, <1>3, <1>4 DEF Next

(* No step breaks what a scan relies on behind its index: the flags change *)
(* only under the lock, which the scan holds.                              *)
LEMMA NextPrefixInv ==
  TypeOK /\ LockInv /\ EmptyInv /\ PrefixInv /\ [Next]_vars => PrefixInv'
<1> SUFFICES ASSUME TypeOK, LockInv, EmptyInv, PrefixInv, [Next]_vars,
                    NEW u \in Threads, pc'[u] = "scan"
             PROVE  /\ \A s \in avail'[u] : s < i'[u]
                    /\ \A s \in Segs : s < i'[u] => in_use'[s] = 1
  BY DEF PrefixInv
<1> USE DistinctThreads, SegCountAssumption DEF Goto, Agents
<1>1. CASE StartScan(u)
  <2>1. avail'[u] = {} /\ i'[u] = 0
    BY <1>1 DEF StartScan, EmptyInv, TypeOK
  <2> QED
    BY <2>1 DEF Segs
<1>2. CASE Snatch(u)
  BY <1>2 DEF Snatch, PrefixInv, TypeOK, Segs
<1>3. CASE Skip(u)
  BY <1>3 DEF Skip, PrefixInv, TypeOK, Segs
<1>4. CASE ~ (StartScan(u) \/ Snatch(u) \/ Skip(u))
  <2>1. pc[u] = "scan"
    BY <1>4 DEF Next, vars, Psegs, Grab, Release, NeedSegments, LockGrab, AwaitFree, Yield, Relock,
         StartScan, Snatch, Skip, EndScan, UnlockGrab, EndTransfer, LockRelease, Clear,
         EndClear, UnlockRelease, LockPsegs, PrintSegment, UnlockPsegs, TypeOK
  <2>2. \A t \in Threads : t # u => pc[t] \notin {"scan", "clear", "test", "unlock_release"}
    BY <2>1 DEF LockInv, Crit, GrabCritical, ReleaseCritical
  <2>3. UNCHANGED <<in_use, avail>> /\ i'[u] = i[u]
    BY <1>4, <2>1, <2>2
    DEF Next, vars, Psegs, Grab, Release, NeedSegments, LockGrab, AwaitFree, Yield, Relock,
        StartScan, Snatch, Skip, EndScan, UnlockGrab, EndTransfer, LockRelease, Clear,
        EndClear, UnlockRelease, LockPsegs, PrintSegment, UnlockPsegs, TypeOK
  <2> QED
    BY <2>1, <2>3 DEF PrefixInv
<1> QED
  BY <1>1, <1>2, <1>3, <1>4

(* Outside the two loops, the counter is the number of flags that are set. *)
LEMMA CountExact ==
  ASSUME IInv, \A t \in Threads : pc[t] \notin {"scan", "clear"}
  PROVE  used_seg_count = Cardinality(InUse)
<1> DEFINE C == Remaining(CheckClientQ)
           W == Remaining(WorkThread)
<1>1. InUse = C \cup W
  <2>1. \A t \in Threads : Remaining(t) \subseteq Segs
    BY DEF IInv, TypeOK, Remaining
  <2> QED
    BY <2>1 DEF IInv, FlagsInv, InUse, Threads
<1>2. \A t \in Threads :
        /\ IsFiniteSet(Remaining(t)) /\ Cardinality(Remaining(t)) \in Nat
        /\ Cardinality(Remaining(t)) = Counted(t)
  <2> SUFFICES ASSUME NEW t \in Threads
               PROVE  /\ IsFiniteSet(Remaining(t)) /\ Cardinality(Remaining(t)) \in Nat
                      /\ Cardinality(Remaining(t)) = Counted(t)
    OBVIOUS
  <2>1. CASE pc[t] \in Granted
    <3>1. Remaining(t) = avail[t] /\ Counted(t) = amount[t]
      BY <2>1 DEF Remaining, Counted, Granted
    <3>2. Cardinality(avail[t]) = amount[t]
      BY <2>1 DEF IInv, GrantFilled
    <3> QED
      BY <3>1, <3>2, Finiteness DEF IInv
  <2>2. CASE pc[t] \notin Granted
    <3>1. pc[t] \in {"run", "lock_grab", "test", "yield", "unlock_release"}
      BY <2>2, DistinctThreads
        DEF IInv, TypeOK, LockInv, Granted, Agents, Threads
    <3>2. Remaining(t) = {} /\ Counted(t) = 0
      BY <3>1, <2>2 DEF IInv, EmptyInv, Remaining, Counted
    <3> QED
      BY <3>2, FS_EmptySet
  <2> QED
    BY <2>1, <2>2
<1>3. C \cap W = {}
  BY DistinctThreads DEF IInv, ExclusiveOwnership, Remaining, Threads
<1>4. Cardinality(C \cup W) = Cardinality(C) + Cardinality(W) - Cardinality(C \cap W)
  BY <1>2, FS_Union DEF Threads
<1>5. Cardinality(C \cup W) = Cardinality(C) + Cardinality(W)
  <2>1. Cardinality(C) \in Nat /\ Cardinality(W) \in Nat
    BY <1>2 DEF Threads
  <2> QED
    BY <1>3, <1>4, <2>1, FS_EmptySet
<1> QED
  BY <1>1, <1>2, <1>5 DEF IInv, CountInv, Threads

(* The free segments a scan will look at are all that are not in use.      *)
LEMMA FreeAtStart ==
  ASSUME IInv, used_seg_count = Cardinality(InUse)
  PROVE  Cardinality(FreeFrom(0)) = FreeCount
<1>1. FreeFrom(0) = Segs \ InUse /\ InUse \subseteq Segs
  BY SegCountAssumption DEF IInv, TypeOK, FreeFrom, InUse, Segs
<1>2. Cardinality(Segs \ InUse) = Cardinality(Segs) - Cardinality(Segs \cap InUse)
  BY Finiteness, FS_Difference DEF IInv
<1>3. Segs \cap InUse = InUse
  BY <1>1
<1> QED
  BY <1>1, <1>2, <1>3, Finiteness DEF IInv, FreeCount

(* The step of every action: the conjuncts an action can disturb have a    *)
(* step of their own.                                                      *)
LEMMA NextIInv == IInv /\ [Next]_vars => IInv'
<1> SUFFICES ASSUME IInv, [Next]_vars PROVE IInv'
  OBVIOUS
<1> USE DistinctThreads, SegCountAssumption
<1>0. LockInv' /\ PrefixInv'
  BY NextLockInv, NextPrefixInv DEF IInv
<1> USE DEF IInv, Goto, Lock, Unlock
<1>1. ASSUME NEW t \in Threads, NeedSegments(t) PROVE IInv'
  <2>1. (TypeOK /\ ExclusiveOwnership /\ EmptyInv /\ CountInv /\ GrantFilled /\ BoundInv)'
    BY <1>1 DEF NeedSegments, TypeOK, LockInv, Agents, Threads, ExclusiveOwnership, EmptyInv,
         CountInv, Counted, Granted, GrantFilled, BoundInv
  <2>2. (FlagsInv /\ ScanInv)'
    BY <1>1 DEF NeedSegments, TypeOK, LockInv, Agents, Threads, FlagsInv, Remaining, Rank,
         ScanInv, LeftToGrab, FreeCount, FreeFrom
  <2> QED BY <1>0, <2>1, <2>2
<1>2. ASSUME NEW t \in Threads, LockGrab(t) PROVE IInv'
  <2>1. (TypeOK /\ ExclusiveOwnership /\ EmptyInv /\ CountInv /\ GrantFilled /\ BoundInv)'
    BY <1>2 DEF LockGrab, TypeOK, LockInv, Agents, Threads, ExclusiveOwnership, EmptyInv,
         CountInv, Counted, Granted, GrantFilled, BoundInv
  <2>2. (FlagsInv /\ ScanInv)'
    BY <1>2 DEF LockGrab, TypeOK, LockInv, Agents, Threads, FlagsInv, Remaining, Rank,
         ScanInv, LeftToGrab, FreeCount, FreeFrom
  <2> QED BY <1>0, <2>1, <2>2
<1>3. ASSUME NEW t \in Threads, Yield(t) PROVE IInv'
  <2>1. (TypeOK /\ ExclusiveOwnership /\ EmptyInv /\ CountInv /\ GrantFilled /\ BoundInv)'
    BY <1>3 DEF Yield, TypeOK, LockInv, Agents, Threads, ExclusiveOwnership, EmptyInv,
         CountInv, Counted, Granted, GrantFilled, BoundInv
  <2>2. (FlagsInv /\ ScanInv)'
    BY <1>3 DEF Yield, TypeOK, LockInv, Agents, Threads, FlagsInv, Remaining, Rank,
         ScanInv, LeftToGrab, FreeCount, FreeFrom
  <2> QED BY <1>0, <2>1, <2>2
<1>4. ASSUME NEW t \in Threads, Relock(t) PROVE IInv'
  <2>1. (TypeOK /\ ExclusiveOwnership /\ EmptyInv /\ CountInv /\ GrantFilled /\ BoundInv)'
    BY <1>4 DEF Relock, TypeOK, LockInv, Agents, Threads, ExclusiveOwnership, EmptyInv,
         CountInv, Counted, Granted, GrantFilled, BoundInv
  <2>2. (FlagsInv /\ ScanInv)'
    BY <1>4 DEF Relock, TypeOK, LockInv, Agents, Threads, FlagsInv, Remaining, Rank,
         ScanInv, LeftToGrab, FreeCount, FreeFrom
  <2> QED BY <1>0, <2>1, <2>2
<1>5. ASSUME NEW t \in Threads, StartScan(t) PROVE IInv'
  <2>1. (ExclusiveOwnership /\ EmptyInv /\ CountInv)'
    BY <1>5, <1>0 DEF StartScan, TypeOK, LockInv, Agents, Threads, ExclusiveOwnership, EmptyInv,
         CountInv, Counted, Granted, GrantFilled, BoundInv, Segs, FreeCount
  <2>2. FlagsInv'
    BY <1>5, <1>0 DEF StartScan, TypeOK, LockInv, Agents, Threads, FlagsInv, Remaining, Rank,
         ScanInv, LeftToGrab, FreeCount, FreeFrom, Crit, GrabCritical, ReleaseCritical
  <2>3. TypeOK'
    <3>1. GrantSize(FreeCount) \in 1 .. SegCount
      BY <1>5, GrantSizeBounds DEF StartScan, TypeOK, FreeCount
    <3> QED BY <3>1, <1>5
      DEF StartScan, TypeOK, Segs, Goto, Lock, Unlock, Agents, Threads
  <2>4. (GrantFilled /\ BoundInv)'
    <3>1. GrantSize(FreeCount) <= GrantSize(SegCount)
      BY <1>5, GrantSizeMonotone DEF StartScan, TypeOK, FreeCount
    <3> QED BY <3>1, <1>5
      DEF StartScan, GrantFilled, BoundInv, Granted, TypeOK, LockInv, Goto,
          Lock, Unlock, Agents, Threads
  <2>5. ScanInv'
    <3>1. /\ GrantSize(FreeCount) \in 1 .. FreeCount
          /\ FreeCount \in Nat
      BY <1>5, GrantSizeBounds DEF StartScan, TypeOK, FreeCount
    <3>2. Cardinality(avail[t]) = 0
      BY <1>5, FS_EmptySet DEF StartScan, Goto, EmptyInv
    <3>3. \A u \in Threads : pc[u] \notin {"scan", "clear"}
      BY <1>5
        DEF StartScan, LockInv, Crit, GrabCritical, ReleaseCritical, Goto,
            Lock, Unlock, Agents, Threads
    <3>4. Cardinality(FreeFrom(0)) = FreeCount
      BY <3>3, CountExact, FreeAtStart
    <3>5. FreeFrom(0)' = FreeFrom(0)
      BY <1>5 DEF StartScan, FreeFrom
    <3>6. pc'[t] = "scan" /\ amount'[t] = GrantSize(FreeCount) /\ i'[t] = 0
      BY <1>5 DEF StartScan, TypeOK, Goto, Lock, Unlock, Agents, Threads
    <3>7. \A u \in Threads : u # t => pc'[u] # "scan"
      BY <1>5, <3>3 DEF StartScan, TypeOK, Goto, Lock, Unlock, Agents, Threads
    <3>8. UNCHANGED <<avail, FreeCount>>
      BY <1>5 DEF StartScan, FreeCount
    <3> QED
      BY <3>1, <3>2, <3>4, <3>5, <3>6, <3>7, <3>8 DEF ScanInv, LeftToGrab
  <2> QED BY <1>0, <2>1, <2>2, <2>3, <2>4, <2>5
<1>6. ASSUME NEW t \in Threads, Snatch(t) PROVE IInv'
  <2>1. (TypeOK /\ EmptyInv /\ CountInv /\ GrantFilled /\ BoundInv)'
    <3>1. TypeOK'
      BY <1>6, <1>0 DEF Snatch, TypeOK, Agents, Threads, Segs
    <3>2. (EmptyInv /\ GrantFilled)'
      BY <1>6, <1>0 DEF Snatch, TypeOK, Agents, Threads, EmptyInv, Granted, GrantFilled
    <3>3. (CountInv /\ BoundInv)'
      BY <1>6, <1>0 DEF Snatch, CountInv, Counted, BoundInv
    <3> QED
      BY <3>1, <3>2, <3>3
  <2>2. FlagsInv'
    <3>1. \A u \in Threads : pc[u] \notin {"clear", "unlock_release"} /\ pc'[u] = pc[u]
      BY <1>6, <1>0 DEF Snatch, LockInv, Crit, GrabCritical, ReleaseCritical, Agents, Threads
    <3>2. \A u \in Threads : Remaining(u) = avail[u] /\ Remaining(u)' = avail'[u]
      BY <3>1 DEF Remaining
    <3> QED
      BY <1>6, <1>0, <3>2 DEF Snatch, TypeOK, Threads, FlagsInv
  <2>3. ExclusiveOwnership'
    <3>1. \A u \in Threads : u # t => Remaining(u) = avail[u]
      BY <1>6
        DEF Snatch, Remaining, LockInv, Crit, GrabCritical, ReleaseCritical,
            Goto, Lock, Unlock, Agents, Threads
    <3>2. \A u \in Threads : u # t => i[t] \notin avail[u]
      BY <1>6, <3>1 DEF Snatch, FlagsInv, TypeOK, Segs
    <3> QED
      BY <1>6, <3>2 DEF Snatch, ExclusiveOwnership, TypeOK
  <2>4. ScanInv'
    <3>1. i[t] \in Segs /\ in_use[i[t]] = 0 /\ i[t] \in FreeFrom(i[t]) /\ i[t] \in Int
      BY <1>6 DEF Snatch, TypeOK, Segs, FreeFrom, Agents
    <3>2. i[t] \notin avail[t]
      BY <1>6, <3>1 DEF Snatch, FlagsInv, Remaining
    <3>3. Cardinality(avail'[t]) = Cardinality(avail[t]) + 1
      <4>1. avail'[t] = avail[t] \cup {i[t]}
        BY <1>6 DEF Snatch, TypeOK
      <4> QED
        BY <3>2, <4>1, FS_AddElement, Finiteness
    <3>4. FreeFrom(i[t])' = FreeFrom(i[t]) \ {i[t]}
      BY <1>6, <3>1 DEF Snatch, FreeFrom, TypeOK, Segs
    <3>5. Cardinality(FreeFrom(i[t]) \ {i[t]}) = Cardinality(FreeFrom(i[t])) - 1
      BY <3>1, FS_RemoveElement, Finiteness
    <3>6. Cardinality(FreeFrom(i[t])) \in Nat /\ Cardinality(avail[t]) \in Nat
      BY <3>1, Finiteness
    <3>7. i'[t] = i[t] + 1 /\ UNCHANGED <<amount, pc, FreeCount>>
      BY <1>6 DEF Snatch, FreeCount, TypeOK, Agents
    <3>8. \A u \in Threads : u # t => pc[u] # "scan"
      BY <1>6
        DEF Snatch, LockInv, Crit, GrabCritical, ReleaseCritical, Agents,
            Threads
    <3>9. FreeCount > 0 /\ amount[t] = GrantSize(FreeCount) /\ LeftToGrab(t) > 0
          /\ LeftToGrab(t) <= Cardinality(FreeFrom(i[t]))
      BY <1>6 DEF Snatch, ScanInv
    <3>10. Cardinality(FreeFrom(i[t])') = Cardinality(FreeFrom(i[t])) - 1
      BY <3>4, <3>5, <3>7
    <3>11. amount[t] \in Nat
      BY DEF TypeOK
    <3> QED
      BY <3>3, <3>6, <3>7, <3>8, <3>9, <3>10, <3>11 DEF ScanInv, LeftToGrab
  <2> QED BY <1>0, <2>1, <2>2, <2>3, <2>4
<1>7. ASSUME NEW t \in Threads, Skip(t) PROVE IInv'
  <2>1. (TypeOK /\ ExclusiveOwnership /\ EmptyInv /\ CountInv /\ GrantFilled /\ BoundInv)'
    BY <1>7, <1>0 DEF Skip, TypeOK, LockInv, Agents, Threads, ExclusiveOwnership, EmptyInv,
         CountInv, Counted, Granted, GrantFilled, BoundInv, Segs, FreeCount
  <2>2. FlagsInv'
    BY <1>7, <1>0 DEF Skip, TypeOK, LockInv, Agents, Threads, FlagsInv, Remaining, Rank,
         ScanInv, LeftToGrab, FreeCount, FreeFrom, Crit, GrabCritical, ReleaseCritical
  <2>3. ScanInv'
    <3>1. FreeFrom(i[t] + 1) = FreeFrom(i[t])
      BY <1>7 DEF Skip, FreeFrom, TypeOK, Segs, Agents
    <3>2. i'[t] = i[t] + 1 /\ UNCHANGED <<amount, avail, pc, in_use, FreeCount>>
      BY <1>7 DEF Skip, FreeCount, TypeOK, Agents
    <3>3. FreeFrom(i[t])' = FreeFrom(i[t])
      BY <3>1, <3>2 DEF FreeFrom
    <3>4. \A u \in Threads : u # t => pc[u] # "scan"
      BY <1>7
        DEF Skip, LockInv, Crit, GrabCritical, ReleaseCritical, Agents,
            Threads
    <3> QED
      BY <1>7, <3>2, <3>3, <3>4 DEF Skip, ScanInv, LeftToGrab
  <2> QED BY <1>0, <2>1, <2>2, <2>3
<1>8. ASSUME NEW t \in Threads, EndScan(t) PROVE IInv'
  <2>1. (ExclusiveOwnership /\ EmptyInv /\ CountInv)'
    BY <1>8, <1>0 DEF EndScan, TypeOK, LockInv, Agents, Threads, ExclusiveOwnership, EmptyInv,
         CountInv, Counted, Granted, GrantFilled, BoundInv, Segs, FreeCount
  <2>2. ScanInv'
    BY <1>8, <1>0 DEF EndScan, TypeOK, LockInv, Agents, Threads,
         ScanInv, LeftToGrab, FreeCount, FreeFrom, Crit, GrabCritical, ReleaseCritical
  <2>5. FlagsInv'
    <3>1. \A u \in Threads : Remaining(u)' = Remaining(u)
      BY <1>8 DEF EndScan, Remaining, Rank, TypeOK, Agents
    <3> QED BY <1>8, <3>1 DEF EndScan, FlagsInv
  <2>3. TypeOK'
    <3>1. amount[t] \in 1 .. FreeCount
      BY <1>8, GrantSizeBounds DEF EndScan, Goto, ScanInv, TypeOK, FreeCount
    <3>2. used_seg_count + amount[t] \in 0 .. SegCount
      BY <3>1 DEF TypeOK, FreeCount
    <3> QED BY <3>2, <1>8
      DEF EndScan, TypeOK, Segs, Goto, Lock, Unlock, Agents, Threads
  <2>4. (GrantFilled /\ BoundInv)'
    <3>0. amount[t] > 0
      BY <1>8, GrantSizeBounds DEF EndScan, Goto, ScanInv, TypeOK, FreeCount
    <3>1. CASE i[t] >= SegCount
      <4>1. FreeFrom(i[t]) = {}
        BY <3>1 DEF FreeFrom, Segs, TypeOK, Agents
      <4> QED
        BY <3>0, <4>1, <1>8, FS_EmptySet, Finiteness
        DEF EndScan, Goto, ScanInv, LeftToGrab, GrantFilled, BoundInv, TypeOK, Agents
    <3>2. CASE LeftToGrab(t) <= 0
      BY <3>0, <3>2, <1>8, Finiteness
      DEF EndScan, Goto, ScanInv, LeftToGrab, GrantFilled, BoundInv, TypeOK, Agents
    <3> QED BY <1>8, <3>1, <3>2 DEF EndScan
  <2> QED BY <1>0, <2>1, <2>2, <2>3, <2>4, <2>5
<1>9. ASSUME NEW t \in Threads, UnlockGrab(t) PROVE IInv'
  <2>1. (TypeOK /\ ExclusiveOwnership /\ EmptyInv /\ CountInv /\ GrantFilled /\ BoundInv)'
    BY <1>9 DEF UnlockGrab, TypeOK, LockInv, Agents, Threads, ExclusiveOwnership, EmptyInv,
         CountInv, Counted, Granted, GrantFilled, BoundInv
  <2>2. (FlagsInv /\ ScanInv)'
    BY <1>9 DEF UnlockGrab, TypeOK, LockInv, Agents, Threads, FlagsInv, Remaining, Rank,
         ScanInv, LeftToGrab, FreeCount, FreeFrom
  <2> QED BY <1>0, <2>1, <2>2
<1>10. ASSUME NEW t \in Threads, EndTransfer(t) PROVE IInv'
  <2>1. (TypeOK /\ ExclusiveOwnership /\ EmptyInv /\ CountInv /\ GrantFilled /\ BoundInv)'
    BY <1>10 DEF EndTransfer, TypeOK, LockInv, Agents, Threads, ExclusiveOwnership, EmptyInv,
         CountInv, Counted, Granted, GrantFilled, BoundInv
  <2>2. (FlagsInv /\ ScanInv)'
    BY <1>10 DEF EndTransfer, TypeOK, LockInv, Agents, Threads, FlagsInv, Remaining, Rank,
         ScanInv, LeftToGrab, FreeCount, FreeFrom
  <2> QED BY <1>0, <2>1, <2>2
<1>11. ASSUME NEW t \in Threads, LockRelease(t) PROVE IInv'
  <2>1. (TypeOK /\ ExclusiveOwnership /\ EmptyInv /\ CountInv /\ GrantFilled /\ BoundInv)'
    BY <1>11, <1>0 DEF LockRelease, TypeOK, LockInv, Agents, Threads, ExclusiveOwnership, EmptyInv,
         CountInv, Counted, Granted, GrantFilled, BoundInv, Segs, FreeCount
  <2>2. ScanInv'
    BY <1>11, <1>0 DEF LockRelease, TypeOK, LockInv, Agents, Threads, FlagsInv, Remaining, Rank,
         ScanInv, LeftToGrab, FreeCount, FreeFrom, Crit, GrabCritical, ReleaseCritical
  <2>3. FlagsInv'
    <3>1. Remaining(t)' = avail[t] /\ Remaining(t) = avail[t]
      <4>1. \A s \in avail[t] : Rank(t, s)' >= 0
        <5>1. avail[t] \subseteq Int
          BY SegCountAssumption DEF TypeOK, Segs
        <5> QED
          BY <5>1, <1>11, RankBounds, Finiteness DEF LockRelease, Rank
      <4> QED
        BY <4>1, <1>11 DEF LockRelease, Goto, Remaining, TypeOK, Agents
    <3>2. \A u \in Threads : u # t => Remaining(u)' = Remaining(u)
      BY <1>11 DEF LockRelease, Goto, Remaining, Rank, TypeOK, Agents
    <3> QED BY <1>11, <3>1, <3>2 DEF LockRelease, FlagsInv
  <2> QED BY <1>0, <2>1, <2>2, <2>3
<1>12. ASSUME NEW t \in Threads, Clear(t) PROVE IInv'
  <2>1. (TypeOK /\ ExclusiveOwnership /\ EmptyInv /\ CountInv /\ GrantFilled /\ BoundInv)'
    <3>1. TypeOK'
      BY <1>12, <1>0 DEF Clear, TypeOK, Agents, Threads, Segs
    <3>2. (ExclusiveOwnership /\ EmptyInv /\ GrantFilled)'
      BY <1>12, <1>0 DEF Clear, ExclusiveOwnership, EmptyInv, Granted, GrantFilled
    <3>3. (CountInv /\ BoundInv)'
      BY <1>12, <1>0 DEF Clear, CountInv, Counted, BoundInv
    <3> QED
      BY <3>1, <3>2, <3>3
  <2>2. ScanInv'
    BY <1>12, <1>0 DEF Clear, TypeOK, LockInv, Agents, Threads, FlagsInv, Remaining, Rank,
         ScanInv, LeftToGrab, FreeCount, FreeFrom, Crit, GrabCritical, ReleaseCritical
  <2>3. FlagsInv'
    <3>1. PICK s \in avail[t] : /\ Rank(t, s) = i[t]
                                /\ in_use' = [in_use EXCEPT ![s] = 0]
      BY <1>12 DEF Clear, Rank
    <3>2. avail[t] \subseteq Int /\ IsFiniteSet(avail[t]) /\ avail[t] \subseteq Segs
      <4>1. IsFiniteSet(avail[t])
        BY Finiteness
      <4> QED
        BY <4>1, SegCountAssumption DEF TypeOK, Segs
    <3>3. \A r \in avail[t] : /\ Rank(t, r) \in Nat
                              /\ r < s => Rank(t, r) < i[t]
                              /\ s < r => i[t] < Rank(t, r)
      BY <3>1, <3>2, RankBounds, RankIncreases DEF Rank
    <3>4. \A r \in avail[t] : Rank(t, r) >= i[t] + 1 <=> Rank(t, r) >= i[t] /\ r # s
      <4> SUFFICES ASSUME NEW r \in avail[t]
                   PROVE  Rank(t, r) >= i[t] + 1 <=> Rank(t, r) >= i[t] /\ r # s
        OBVIOUS
      <4>1. r < s \/ r = s \/ s < r
        BY <3>1, <3>2
      <4>2. i[t] \in Nat
        BY DEF TypeOK, Agents
      <4> QED
        BY <3>1, <3>3, <4>1, <4>2
    <3>5. Remaining(t)' = Remaining(t) \ {s}
      <4>1. /\ Remaining(t)' = {r \in avail[t] : Rank(t, r) >= i[t] + 1}
            /\ Remaining(t) = {r \in avail[t] : Rank(t, r) >= i[t]}
        BY <1>12 DEF Clear, Remaining, Rank, TypeOK, Agents
      <4> QED
        BY <4>1, <3>4
    <3>6. \A u \in Threads : u # t => Remaining(u)' = Remaining(u) /\ s \notin Remaining(u)
      BY <1>12, <3>1
      DEF Clear, Remaining, Rank, TypeOK, Agents, ExclusiveOwnership
    <3>7. \A r \in Segs : in_use'[r] = 1 <=> in_use[r] = 1 /\ r # s
      BY <3>1 DEF TypeOK
    <3> QED
      BY <3>1, <3>5, <3>6, <3>7 DEF FlagsInv
  <2> QED BY <1>0, <2>1, <2>2, <2>3
<1>13. ASSUME NEW t \in Threads, EndClear(t) PROVE IInv'
  <2>1. (ExclusiveOwnership /\ EmptyInv /\ GrantFilled /\ BoundInv)'
    BY <1>13, <1>0 DEF EndClear, TypeOK, LockInv, Agents, Threads, ExclusiveOwnership, EmptyInv,
         Granted, GrantFilled, BoundInv, Segs
  <2>5. CountInv'
    BY <1>13 DEF EndClear, CountInv, Counted, Granted, TypeOK, LockInv, Agents, Threads
  <2>2. ScanInv'
    BY <1>13, <1>0 DEF EndClear, TypeOK, LockInv, Agents, Threads, FlagsInv, Remaining, Rank,
         ScanInv, LeftToGrab, FreeCount, FreeFrom, Crit, GrabCritical, ReleaseCritical
  <2>3. TypeOK'
    <3>1. used_seg_count - amount[t] \in 0 .. SegCount
      BY <1>13 DEF EndClear, Goto, TypeOK, CountInv, Counted, Granted, Threads
    <3> QED BY <3>1, <1>13
      DEF EndClear, TypeOK, Segs, Goto, Lock, Unlock, Agents, Threads
  <2>4. FlagsInv'
    <3>1. Remaining(t) = {}
      <4>1. \A s \in avail[t] : Rank(t, s) < Cardinality(avail[t])
        <5>1. avail[t] \subseteq Int
          BY SegCountAssumption DEF TypeOK, Segs
        <5> QED
          BY <5>1, RankBounds, Finiteness DEF Rank
      <4>2. \A s \in avail[t] : Rank(t, s) \in Nat
        <5>1. avail[t] \subseteq Int
          BY SegCountAssumption DEF TypeOK, Segs
        <5> QED
          BY <5>1, RankBounds, Finiteness DEF Rank
      <4>3. Cardinality(avail[t]) = amount[t]
        BY <1>13 DEF EndClear, Goto, GrantFilled, Granted
      <4>4. amount[t] \in Nat /\ i[t] \in Nat
        BY DEF TypeOK, Agents
      <4> QED
        BY <4>1, <4>2, <4>3, <4>4, <1>13 DEF EndClear, Goto, Remaining
    <3>2. Remaining(t)' = {}
      BY <1>13 DEF EndClear, Goto, Remaining, TypeOK, Agents
    <3>3. \A u \in Threads : u # t => Remaining(u)' = Remaining(u)
      BY <1>13 DEF EndClear, Goto, Remaining, Rank, TypeOK, Agents
    <3> QED
      BY <1>13, <3>1, <3>2, <3>3 DEF EndClear, FlagsInv
  <2> QED BY <1>0, <2>1, <2>2, <2>3, <2>4, <2>5
<1>14. ASSUME NEW t \in Threads, UnlockRelease(t) PROVE IInv'
  <2>1. (TypeOK /\ ExclusiveOwnership /\ EmptyInv /\ CountInv /\ GrantFilled /\ BoundInv)'
    BY <1>14, <1>0 DEF UnlockRelease, TypeOK, LockInv, Agents, Threads, ExclusiveOwnership, EmptyInv,
         CountInv, Counted, Granted, GrantFilled, BoundInv, Segs, FreeCount
  <2>2. FlagsInv'
    BY <1>14, <1>0 DEF UnlockRelease, TypeOK, Agents, Threads, FlagsInv, Remaining, Rank,
         Goto, Unlock
  <2>3. ScanInv'
    <3>1. \A u \in Threads : pc'[u] # "scan"
      BY <1>14, <1>0 DEF UnlockRelease, TypeOK, LockInv, Crit, GrabCritical, ReleaseCritical,
           Agents, Threads, Goto, Unlock
    <3> QED
      BY <3>1 DEF ScanInv
  <2> QED BY <1>0, <2>1, <2>2, <2>3
<1>15. ASSUME LockPsegs PROVE IInv'
  <2>1. (TypeOK /\ ExclusiveOwnership /\ EmptyInv /\ CountInv /\ GrantFilled /\ BoundInv)'
    BY <1>15 DEF LockPsegs, TypeOK, LockInv, Agents, Threads, ExclusiveOwnership, EmptyInv,
         CountInv, Counted, Granted, GrantFilled, BoundInv
  <2>2. (FlagsInv /\ ScanInv)'
    BY <1>15 DEF LockPsegs, TypeOK, LockInv, Agents, Threads, FlagsInv, Remaining, Rank,
         ScanInv, LeftToGrab, FreeCount, FreeFrom
  <2> QED BY <1>0, <2>1, <2>2
<1>16. ASSUME PrintSegment PROVE IInv'
  <2>1. (TypeOK /\ ExclusiveOwnership /\ EmptyInv /\ CountInv /\ GrantFilled /\ BoundInv)'
    BY <1>16 DEF PrintSegment, TypeOK, LockInv, Agents, Threads, ExclusiveOwnership, EmptyInv,
         CountInv, Counted, Granted, GrantFilled, BoundInv
  <2>2. (FlagsInv /\ ScanInv)'
    BY <1>16 DEF PrintSegment, TypeOK, LockInv, Agents, Threads, FlagsInv, Remaining, Rank,
         ScanInv, LeftToGrab, FreeCount, FreeFrom
  <2> QED BY <1>0, <2>1, <2>2
<1>17. ASSUME UnlockPsegs PROVE IInv'
  <2>1. (TypeOK /\ ExclusiveOwnership /\ EmptyInv /\ CountInv /\ GrantFilled /\ BoundInv)'
    BY <1>17 DEF UnlockPsegs, TypeOK, LockInv, Agents, Threads, ExclusiveOwnership, EmptyInv,
         CountInv, Counted, Granted, GrantFilled, BoundInv
  <2>2. (FlagsInv /\ ScanInv)'
    BY <1>17 DEF UnlockPsegs, TypeOK, LockInv, Agents, Threads, FlagsInv, Remaining, Rank,
         ScanInv, LeftToGrab, FreeCount, FreeFrom
  <2> QED BY <1>0, <2>1, <2>2
<1>18. CASE UNCHANGED vars
  <2>1. (TypeOK /\ FlagsInv /\ ExclusiveOwnership /\ EmptyInv /\ BoundInv)'
    BY <1>18 DEF vars, TypeOK, FlagsInv, Remaining, Rank, ExclusiveOwnership,
         EmptyInv, BoundInv
  <2>2. (CountInv /\ GrantFilled /\ ScanInv)'
    BY <1>18 DEF vars, CountInv, Counted, GrantFilled, ScanInv, LeftToGrab,
         FreeCount, FreeFrom
  <2> QED BY <1>0, <2>1, <2>2
<1> QED
  BY <1>1, <1>2, <1>3, <1>4, <1>5, <1>6, <1>7, <1>8, <1>9, <1>10, <1>11, <1>12, <1>13, <1>14, <1>15, <1>16, <1>17, <1>18
    DEF Next, Grab, AwaitFree, Release, Psegs

(* The invariant holds in every reachable state.                           *)
THEOREM Invariance == Spec => []IInv
<1> QED
  BY InitIInv, NextIInv, PTL DEF Spec

(* Every variable keeps its type: the counter never leaves 0 .. SegCount.  *)
THEOREM TypeCorrect == Spec => []TypeOK
<1>1. IInv => TypeOK
  BY DEF IInv
<1> QED
  BY <1>1, Invariance, PTL

(* The two threads never hold mem_info.lock together, and only the thread  *)
(* that holds it is inside a critical section (LockInv, part of IInv); so  *)
(* no segment is ever in the arrays of both.                               *)
THEOREM OwnershipExclusive == Spec => []ExclusiveOwnership
<1>1. IInv => ExclusiveOwnership
  BY DEF IInv
<1> QED
  BY <1>1, Invariance, PTL

(* grab_segments fills every entry it announces.                           *)
THEOREM GrantsFilled == Spec => []GrantFilled
<1>1. IInv => GrantFilled
  BY DEF IInv
<1> QED
  BY <1>1, Invariance, PTL

(* A granted segment stays marked until the thread that has it clears it.  *)
THEOREM GrantsMarked == Spec => []GrantedInUse
<1>1. ASSUME IInv PROVE GrantedInUse
  <2>1. \A t \in Threads : avail[t] \subseteq Segs
    BY <1>1 DEF IInv, TypeOK
  <2> QED
    BY <1>1, <2>1 DEF IInv, FlagsInv, Remaining, GrantedInUse, InUse
<1> QED
  BY <1>1, Invariance, PTL

(* Whenever the mutex is free, the counter is the number of flags set.     *)
THEOREM CountIsAccurate == Spec => []CountAccurate
<1>1. ASSUME IInv PROVE CountAccurate
  <2> SUFFICES ASSUME mem_lock = NoOwner
               PROVE  used_seg_count = Cardinality(InUse)
    BY DEF CountAccurate
  <2>1. \A t \in Threads : pc[t] \notin {"scan", "clear"}
    BY <1>1, DistinctThreads
    DEF IInv, LockInv, Crit, GrabCritical, ReleaseCritical, Agents
  <2> QED
    BY <1>1, <2>1, CountExact
<1> QED
  BY <1>1, Invariance, PTL

(* With two segments or more no thread ever finds the pool empty: the      *)
(* other thread's grant is at most half of all the segments.               *)
THEOREM PoolNeverExhausted == Spec => []NeverExhausted
<1>1. Init => NeverExhausted
  BY DEF Init, NeverExhausted, Agents
<1>2. ASSUME IInv, NeverExhausted, [Next]_vars PROVE NeverExhausted'
  <2> SUFFICES ASSUME SegCount > 1, NEW u \in Threads, pc'[u] = "yield"
               PROVE  FALSE
    BY DEF NeverExhausted
  <2>1. pc[u] # "yield"
    BY <1>2 DEF NeverExhausted
  <2>2. Yield(u)
    BY <1>2, <2>1
    DEF Next, vars, Psegs, Grab, Release, Goto, NeedSegments, LockGrab, AwaitFree, Yield, Relock,
        StartScan, Snatch, Skip, EndScan, UnlockGrab, EndTransfer, LockRelease,
        Clear, EndClear, UnlockRelease, LockPsegs, PrintSegment, UnlockPsegs,
        IInv, TypeOK, Agents
  <2>3. FreeCount = 0 /\ pc[u] = "test"
    BY <2>2 DEF Yield, Goto
  <2>4. PICK w \in Threads : used_seg_count = Counted(w)
    BY <1>2, <2>3 DEF IInv, CountInv, Counted, Granted, Threads, TypeOK
  <2>5. Counted(w) <= GrantSize(SegCount) /\ Counted(w) \in Int
    <3>1. GrantSize(SegCount) \in 1 .. SegCount
      BY SegCountAssumption, GrantSizeBounds
    <3> QED
      BY <1>2, <3>1 DEF IInv, BoundInv, Counted, TypeOK
  <2>6. GrantSize(SegCount) < SegCount /\ GrantSize(SegCount) \in Int
    BY SegCountAssumption, GrantSizeBounds
  <2> QED
    BY <2>3, <2>4, <2>5, <2>6, SegCountAssumption DEF FreeCount
<1> QED
  BY <1>1, <1>2, Invariance, PTL DEF Spec

(* The psegs command prints a snapshot of the flags.                       *)
THEOREM PsegsPrintsSnapshot == Spec => PsegsSnapshot
<1>1. ASSUME IInv, [Next]_vars
      PROVE  [pc[MainThread] = "psegs" => UNCHANGED in_use]_vars
  <2> SUFFICES ASSUME pc[MainThread] = "psegs" PROVE UNCHANGED in_use
    OBVIOUS
  <2>1. \A t \in Threads : pc[t] \notin {"scan", "clear"}
    BY <1>1, DistinctThreads
    DEF IInv, LockInv, Crit, GrabCritical, ReleaseCritical, Agents, Threads
  <2> QED
    BY <1>1, <2>1
    DEF Next, vars, Psegs, Grab, Release, Goto, NeedSegments, LockGrab, AwaitFree, Yield, Relock,
        StartScan, Snatch, Skip, EndScan, UnlockGrab, EndTransfer, LockRelease,
        Clear, EndClear, UnlockRelease, LockPsegs, PrintSegment, UnlockPsegs
<1> QED
  BY <1>1, Invariance, PTL DEF Spec, PsegsSnapshot

-----------------------------------------------------------------------------
(* Abstractly, a thread that is not granted segments holds none.           *)
LEMMA HeldCount ==
  ASSUME IInv, NEW t \in Threads
  PROVE  /\ heldBar[t] \subseteq Segs /\ IsFiniteSet(heldBar[t])
         /\ Cardinality(heldBar[t]) = Counted(t)
<1>1. CASE pc[t] \in Granted
  BY <1>1, Finiteness DEF heldBar, Counted, IInv, GrantFilled, TypeOK
<1>2. CASE pc[t] \notin Granted
  BY <1>2, FS_EmptySet DEF heldBar, Counted
<1> QED
  BY <1>1, <1>2

(* The end of the scan is a grant of the abstract allocator.               *)
LEMMA EndScanGrabs ==
  ASSUME IInv, NEW t \in Threads, EndScan(t), LockInv'
  PROVE  Allocator!Grab(t)
<1> DEFINE u == IF t = CheckClientQ THEN WorkThread ELSE CheckClientQ
<1>1. u \in Threads /\ u # t /\ Threads = {t, u}
  BY DistinctThreads DEF Threads
<1>2. pc[t] = "scan" /\ pc'[t] = "unlock_grab" /\ UNCHANGED avail /\ pc'[u] = pc[u]
  BY <1>1 DEF EndScan, Goto, IInv, TypeOK, Agents
<1>3. heldBar[t] = {} /\ heldBar'[t] = avail[t] /\ heldBar'[u] = heldBar[u]
  BY <1>1, <1>2 DEF heldBar, Granted
<1>4. Allocator!Free = Segs \ heldBar[u]
  BY <1>1, <1>3 DEF Allocator!Free
<1>5. Cardinality(Allocator!Free) = FreeCount
  <2>1. Counted(t) = 0 /\ Counted(u) \in Int
    BY <1>1, <1>2 DEF Counted, Granted, IInv, TypeOK
  <2>2. used_seg_count = Counted(u)
    BY <1>1, <2>1 DEF IInv, CountInv, Threads
  <2>3. Cardinality(Segs \ heldBar[u]) = Cardinality(Segs) - Cardinality(Segs \cap heldBar[u])
    BY Finiteness, FS_Difference DEF IInv
  <2>4. Segs \cap heldBar[u] = heldBar[u]
    BY <1>1, HeldCount
  <2> QED
    BY <1>1, <1>4, <2>2, <2>3, <2>4, HeldCount, Finiteness DEF FreeCount, IInv
<1>6. avail[t] \subseteq Allocator!Free
  BY <1>1, <1>4 DEF heldBar, IInv, ExclusiveOwnership, TypeOK
<1>7. Cardinality(avail[t]) = Allocator!GrantSize(Cardinality(Allocator!Free))
  <2>1. Cardinality(avail[t]) = amount[t]
    <3>1. IInv'
      BY NextIInv DEF Next, Grab
    <3> QED
      BY <1>2, <3>1 DEF IInv, GrantFilled, Granted, EndScan
  <2>2. amount[t] = GrantSize(FreeCount)
    BY <1>2 DEF IInv, ScanInv
  <2> QED
    BY <1>5, <2>1, <2>2 DEF GrantSize, Allocator!GrantSize
<1>8. Allocator!Free # {}
  <2>1. FreeCount > 0
    BY <1>2 DEF IInv, ScanInv
  <2> QED
    BY <1>5, <2>1, FS_EmptySet DEF FreeCount
<1>9. heldBar' = [heldBar EXCEPT ![t] = avail[t]]
  BY <1>1, <1>3 DEF heldBar
<1>11. \A s \in avail[t], r \in Allocator!Free \ avail[t] : s < r
  <2> SUFFICES ASSUME NEW s \in avail[t], NEW r \in Allocator!Free \ avail[t]
               PROVE  s < r
    OBVIOUS
  <2>1. r \in Segs /\ r \notin avail[t] /\ r \notin heldBar[u]
    BY <1>4
  <2>2. Remaining(t) = avail[t] /\ Remaining(u) = heldBar[u]
    BY <1>1, <1>2, DistinctThreads
    DEF Remaining, heldBar, Granted, IInv, TypeOK, LockInv, EmptyInv, Crit, GrabCritical,
        ReleaseCritical, Agents
  <2>3. in_use[r] # 1
    BY <1>1, <2>1, <2>2 DEF IInv, FlagsInv
  <2>4. s < i[t] /\ ~ (r < i[t])
    BY <1>2, <2>1, <2>3 DEF IInv, PrefixInv
  <2>5. s \in Int /\ r \in Int /\ i[t] \in Int
    BY <2>1, SegCountAssumption DEF IInv, TypeOK, Segs, Agents
  <2> QED
    BY <2>4, <2>5
<1>10. \E S \in SUBSET Allocator!Free :
         /\ Cardinality(S) = Allocator!GrantSize(Cardinality(Allocator!Free))
         /\ \A s \in S, r \in Allocator!Free \ S : s < r
         /\ heldBar' = [heldBar EXCEPT ![t] = S]
  BY <1>6, <1>7, <1>9, <1>11
<1> QED
  BY <1>3, <1>8, <1>10 DEF Allocator!Grab, Allocator!Cardinality, Cardinality

(* Taking the count back is a release of the abstract allocator.           *)
LEMMA EndClearReleases ==
  ASSUME IInv, NEW t \in Threads, EndClear(t)
  PROVE  Allocator!Release(t)
<1>1. pc[t] = "clear" /\ pc'[t] = "unlock_release" /\ UNCHANGED avail
      /\ \A u \in Threads : u # t => pc'[u] = pc[u]
  BY DEF EndClear, Goto, IInv, TypeOK, Agents
<1>2. avail[t] # {}
  BY <1>1, FS_EmptySet DEF IInv, GrantFilled, Granted
<1>3. heldBar' = [heldBar EXCEPT ![t] = {}]
  BY <1>1 DEF heldBar, Granted
<1> QED
  BY <1>1, <1>2, <1>3 DEF Allocator!Release, heldBar, Granted

(* The pool implements the abstract allocator.                             *)
THEOREM PoolImplementsAllocator == Spec => AllocatorSpec
<1>1. Init => Allocator!Init
  BY DEF Init, Allocator!Init, heldBar, Granted, Agents
<1>2. ASSUME IInv, [Next]_vars PROVE [Allocator!Next]_heldBar
  <2> USE DEF IInv, TypeOK, Goto, Agents
  <2>0. LockInv'
    BY <1>2, NextLockInv
  <2>1. ASSUME NEW t \in Threads, Grab(t) PROVE [Allocator!Next]_heldBar
    <3>1. CASE EndScan(t)
      BY <1>2, <2>0, <3>1, EndScanGrabs DEF Allocator!Next
    <3>2. CASE Snatch(t)
      BY <3>2 DEF Snatch, heldBar, Granted
    <3>3. CASE NeedSegments(t) \/ LockGrab(t) \/ Yield(t) \/ Relock(t)
               \/ StartScan(t) \/ Skip(t) \/ UnlockGrab(t)
      <4>1. UNCHANGED avail /\ \A u \in Threads : pc'[u] \in Granted <=> pc[u] \in Granted
        BY <1>2, <3>3 DEF NeedSegments, LockGrab, AwaitFree, Yield, Relock, StartScan, Skip, UnlockGrab,
             Granted
      <4> QED
        BY <4>1 DEF heldBar
    <3> QED
      BY <2>1, <3>1, <3>2, <3>3 DEF Grab, AwaitFree
  <2>2. ASSUME NEW t \in Threads, Release(t) PROVE [Allocator!Next]_heldBar
    <3>1. CASE EndClear(t)
      BY <1>2, <3>1, EndClearReleases DEF Allocator!Next
    <3>2. CASE UnlockRelease(t)
      BY <3>2 DEF UnlockRelease, heldBar, Granted
    <3>3. CASE EndTransfer(t) \/ LockRelease(t) \/ Clear(t)
      <4>1. UNCHANGED avail /\ \A u \in Threads : pc'[u] \in Granted <=> pc[u] \in Granted
        BY <1>2, <3>3 DEF EndTransfer, LockRelease, Clear, Granted
      <4> QED
        BY <4>1 DEF heldBar
    <3> QED
      BY <2>2, <3>1, <3>2, <3>3 DEF Release
  <2>3. CASE Psegs \/ UNCHANGED vars
    <3>1. UNCHANGED avail /\ \A u \in Threads : pc'[u] = pc[u]
      BY <1>2, <2>3, DistinctThreads DEF Psegs, LockPsegs, PrintSegment, UnlockPsegs, vars
    <3> QED
      BY <3>1 DEF heldBar
  <2> QED
    BY <1>2, <2>1, <2>2, <2>3 DEF Next
<1> QED
  BY <1>1, <1>2, Invariance, PTL DEF Spec, AllocatorSpec, Allocator!Spec
=============================================================================
