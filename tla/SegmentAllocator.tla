------------------------- MODULE SegmentAllocator -------------------------
(***************************************************************************)
(* What the pool of shared-memory segments promises the two threads that   *)
(* move files through it: a grant is the lowest of the free segments, half *)
(* of them and at least one, and belongs to one thread until that thread   *)
(* gives all of it back.  No lock, no counter, no loop.                    *)
(***************************************************************************)
EXTENDS Integers, FiniteSets

CONSTANTS Threads,   \* the threads that use the pool
          Segs       \* the shared-memory segments, a set of numbers

VARIABLE held        \* held[t] = the segments granted to thread t

Free == Segs \ UNION {held[t] : t \in Threads}

GrantSizeWhole(free) == free

(* Half of the free segments, and one when that would be none.             *)
GrantSize(free) == IF free \div 2 = 0 THEN 1 ELSE free \div 2

Init == held = [t \in Threads |-> {}]

Grab(t) ==
  /\ held[t] = {}
  /\ Free # {}
  /\ \E S \in SUBSET Free :
        /\ Cardinality(S) = GrantSize(Cardinality(Free))
        /\ \A s \in S, r \in Free \ S : s < r
        /\ held' = [held EXCEPT ![t] = S]

Release(t) ==
  /\ held[t] # {}
  /\ held' = [held EXCEPT ![t] = {}]

Next == \E t \in Threads : Grab(t) \/ Release(t)

Spec == Init /\ [][Next]_held
=============================================================================
