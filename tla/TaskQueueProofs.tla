--------------------------- MODULE TaskQueueProofs ---------------------------
(***************************************************************************)
(* Theorems about TaskQueue, for every number of nodes and every payload:  *)
(* the list is a ring of live nodes that no thread holds, and a FIFO queue *)
(* of their payloads, and what its operations lose of the heap.            *)
(*                                                                         *)
(* Walk is what following next from the head comes by.  Each of the five   *)
(* cases of the two operations makes of one ring another; that it is what  *)
(* Walk comes by afterwards is WalkOf, for a ring leaves no choice.        *)
(***************************************************************************)
EXTENDS TaskQueue, OrderLemmas, FiniteSetTheorems, TLAPS

(* s is what n steps along the pointers f from h come by.                  *)
Follows(s, n, h, f) == \A k \in 1 .. n : s[k] = IF k = 1 THEN h ELSE f[s[k - 1]]

LEMMA OneWay ==
  ASSUME NEW n \in Nat, NEW h, NEW f, NEW s, NEW w, Follows(s, n, h, f), Follows(w, n, h, f)
  PROVE  \A k \in 1 .. n : w[k] = s[k]
<1> DEFINE T == {k \in 1 .. n : w[k] # s[k]}
<1>1. ASSUME T # {}
      PROVE  FALSE
  <2>1. PICK m \in T : \A k \in T : ~ (k < m)
    <3> T \subseteq Nat
      OBVIOUS
    <3> HIDE DEF T
    <3> QED
      BY <1>1, Least
  <2>2. m \in 1 .. n /\ w[m] # s[m]
    BY <2>1
  <2>3. w[m] = (IF m = 1 THEN h ELSE f[w[m - 1]]) /\ s[m] = (IF m = 1 THEN h ELSE f[s[m - 1]])
    BY <2>2 DEF Follows
  <2>4. m # 1 /\ m - 1 \in 1 .. n /\ m - 1 < m
    BY <2>2, <2>3
  <2>5. m - 1 \notin T
    BY <2>1, <2>4
  <2> QED
    BY <2>2, <2>3, <2>4, <2>5
<1> QED
  BY <1>1

-----------------------------------------------------------------------------
(* The nodes of s are the list, in order: they are different, allocated,   *)
(* in no thread's hands, and each leads to the next, the last to the head. *)
Ring(s) ==
  /\ s \in [1 .. size -> allocated]
  /\ \A j, k \in 1 .. size : s[j] = s[k] => j = k
  /\ \A k \in 1 .. size : s[k] \notin held /\ data[s[k]] \in Tasks
  /\ \A k \in 1 .. size - 1 : next[s[k]] = s[k + 1]
  /\ size > 0 => list_head = s[1] /\ next[s[size]] = s[1]

Types ==
  /\ size \in Nat
  /\ list_head \in Nodes \cup {NULL}
  /\ data \in [Nodes -> Tasks \cup {NULL}]
  /\ next \in [Nodes -> Nodes \cup {NULL}]
  /\ allocated \subseteq Nodes
  /\ held \subseteq allocated
  /\ taken \subseteq held
  /\ \A n \in held : data[n] \in Tasks
  /\ list_head = NULL <=> size = 0

IInv == Types /\ Ring(Walk)

LEMMA WalkOf == Types => \A s : Ring(s) => Walk = s
<1> SUFFICES ASSUME Types, NEW s, Ring(s)
             PROVE  Walk = s
  OBVIOUS
<1>1. s = [k \in 1 .. size |-> IF k = 1 THEN list_head ELSE next[s[k - 1]]]
  BY DEF Ring, Types
<1>2. Walk = [k \in 1 .. size |-> IF k = 1 THEN list_head ELSE next[Walk[k - 1]]]
  BY <1>1 DEF Walk
<1>3. size \in Nat
  BY DEF Types
<1>4. Follows(s, size, list_head, next)
  BY <1>1 DEF Follows
<1>5. Follows(Walk, size, list_head, next)
  BY <1>2 DEF Follows
<1>6. \A k \in 1 .. size : Walk[k] = s[k]
  BY <1>3, <1>4, <1>5, OneWay
<1>7. Walk = [k \in 1 .. size |-> Walk[k]] /\ s = [k \in 1 .. size |-> s[k]]
  BY <1>1, <1>2
<1> QED
  BY <1>6, <1>7

LEMMA WalkOfNext == Types' => \A s : Ring(s)' => Walk' = s
<1>1. (Types => \A s : Ring(s) => Walk = s)'
  BY WalkOf, PTL
<1> QED
  BY <1>1

LEMMA RingNext ==
  ASSUME Types', NEW s, Ring(s)'
  PROVE  IInv' /\ Walk' = s
<1>1. Walk' = s
  BY WalkOfNext
<1>2. Ring(Walk)'
  BY <1>1 DEF Ring
<1> QED
  BY <1>1, <1>2 DEF IInv

-----------------------------------------------------------------------------
LEMMA InitInv == Init => IInv /\ Walk = <<>>
<1> SUFFICES ASSUME Init
             PROVE  IInv /\ Walk = <<>>
  OBVIOUS
<1>1. Types
  BY DEF Init, Types
<1>2. Ring(<<>>)
  BY DEF Init, Ring
<1>3. Walk = <<>>
  BY <1>1, <1>2, WalkOf
<1> QED
  BY <1>1, <1>2, <1>3 DEF IInv

LEMMA NewTaskInv ==
  ASSUME IInv, NEW x \in Tasks, NewTask(x)
  PROVE  IInv' /\ Walk' = Walk
<1>1. Types'
  BY DEF IInv, Types, NewTask, Unallocated
<1>2. PICK s : s = Walk
  OBVIOUS
<1>3. Ring(s)'
  BY <1>2 DEF IInv, Types, Ring, NewTask, Unallocated
<1> QED
  BY <1>1, <1>2, <1>3, RingNext

LEMMA ForgetInv ==
  ASSUME IInv, NEW t \in taken, Forget(t)
  PROVE  IInv' /\ Walk' = Walk
<1>1. Types'
  BY DEF IInv, Types, Forget
<1>2. PICK s : s = Walk
  OBVIOUS
<1>3. Ring(s)'
  BY <1>2 DEF IInv, Types, Ring, Forget
<1> QED
  BY <1>1, <1>2, <1>3, RingNext

LEMMA AddToEmptyInv ==
  ASSUME IInv, NEW t \in held, AddToEmpty(t), size' = size + 1, held' = held \ {t}, taken' = taken \ {t}
  PROVE  /\ IInv'
         /\ Walk' = [k \in 1 .. 1 |-> t] /\ size = 0
<1>1. Types' /\ size = 0
  BY NullAssumption DEF IInv, Types, AddToEmpty
<1>2. PICK r : r = [k \in 1 .. 1 |-> t]
  OBVIOUS
<1>3. Ring(r)'
  BY <1>1, <1>2 DEF IInv, Types, Ring, AddToEmpty
<1> QED
  BY <1>1, <1>2, <1>3, RingNext

LEMMA AddToOneInv ==
  ASSUME IInv, NEW t \in held, AddToOne(t), size' = size + 1, held' = held \ {t}, taken' = taken \ {t}
  PROVE  /\ IInv'
         /\ Walk' = [k \in 1 .. 2 |-> IF k = 1 THEN Walk[1] ELSE t]
<1> DEFINE w == Walk
<1>1. Types'
  BY NullAssumption DEF IInv, Types, AddToOne
<1>2. PICK r : r = [k \in 1 .. 2 |-> IF k = 1 THEN w[1] ELSE t]
  OBVIOUS
<1>3. w[1] \in allocated \ held /\ w[1] = list_head /\ size = 1 /\ data[w[1]] \in Tasks
  BY DEF IInv, Types, Ring, AddToOne
<1> HIDE DEF w
<1>4. Ring(r)'
  BY <1>1, <1>2, <1>3 DEF IInv, Types, Ring, AddToOne
<1> QED
  BY <1>1, <1>2, <1>4, RingNext DEF w

(* The new node is first, the second is where it was, and the old head,    *)
(* with the payload of t, is last.                                         *)
LEMMA AddToManyInv ==
  ASSUME IInv, NEW t \in held, AddToMany(t), size' = size + 1, held' = held \ {t}, taken' = taken \ {t}
  PROVE  /\ IInv'
         /\ Walk' = [k \in 1 .. size + 1 |->
                       IF k = 1 THEN list_head' ELSE IF k = size + 1 THEN Walk[1] ELSE Walk[k]]
         /\ size > 1
<1> DEFINE w == Walk
<1>1. Types' /\ size > 1
  BY NullAssumption DEF IInv, Types, AddToMany, Unallocated
<1>2. PICK new \in Unallocated :
        /\ data' = [data EXCEPT ![new] = data[list_head], ![list_head] = data[t]]
        /\ next' = [next EXCEPT ![new] = next[list_head], ![list_head] = new]
        /\ list_head' = new
        /\ allocated' = (allocated \cup {new}) \ {t}
  BY DEF AddToMany
<1>3. PICK r : r = [k \in 1 .. size + 1 |->
                      IF k = 1 THEN new ELSE IF k = size + 1 THEN w[1] ELSE w[k]]
  OBVIOUS
<1>4. Ring(w)
  BY DEF IInv
<1> HIDE DEF w
<1>5. Ring(r)'
  <2>1. r \in [1 .. size' -> allocated']
    BY <1>1, <1>2, <1>3, <1>4 DEF IInv, Types, Ring, Unallocated
  <2>2. \A j, k \in 1 .. size' : r[j] = r[k] => j = k
    BY <1>1, <1>2, <1>3, <1>4 DEF IInv, Types, Ring, Unallocated
  <2>3. \A k \in 1 .. size' : r[k] \notin held' /\ data'[r[k]] \in Tasks
    BY <1>1, <1>2, <1>3, <1>4 DEF IInv, Types, Ring, Unallocated
  <2>4. \A k \in 1 .. size' - 1 : next'[r[k]] = r[k + 1]
    BY <1>1, <1>2, <1>3, <1>4 DEF IInv, Types, Ring, Unallocated
  <2>5. list_head' = r[1] /\ next'[r[size']] = r[1]
    BY <1>1, <1>2, <1>3, <1>4 DEF IInv, Types, Ring, Unallocated
  <2> QED
    BY <2>1, <2>2, <2>3, <2>4, <2>5 DEF Ring
<1> QED
  BY <1>1, <1>2, <1>3, <1>5, RingNext DEF w

LEMMA RemoveOnlyInv ==
  ASSUME IInv, RemoveOnly, list_head # NULL
  PROVE  IInv' /\ Walk' = <<>>
<1> DEFINE w == Walk
<1>1. list_head = w[1] /\ w[1] \in allocated /\ data[w[1]] \in Tasks
  BY DEF IInv, Types, Ring, RemoveOnly
<1> HIDE DEF w
<1>2. Types'
  BY <1>1 DEF IInv, Types, RemoveOnly
<1>3. Ring(<<>>)'
  BY <1>2 DEF Ring, RemoveOnly
<1> QED
  BY <1>2, <1>3, RingNext

(* The second node drops out, its payload is in the head.                  *)
LEMMA RemoveFromManyInv ==
  ASSUME IInv, RemoveFromMany, list_head # NULL, size > 0
  PROVE  /\ IInv'
         /\ Walk' = [k \in 1 .. size - 1 |-> IF k = 1 THEN Walk[1] ELSE Walk[k + 1]]
<1> DEFINE w == Walk
<1>1. Ring(w) /\ size > 1
  BY DEF IInv, Types, RemoveFromMany
<1>2. w[1] = list_head /\ w[2] = next[list_head] /\ w[1] # w[2] /\ {w[1], w[2]} \subseteq allocated
      /\ data[w[1]] \in Tasks /\ data[w[2]] \in Tasks
  BY <1>1 DEF Ring, IInv, Types
<1>3. PICK ret \in Unallocated :
        /\ data' = [data EXCEPT ![ret] = data[w[1]], ![w[1]] = data[w[2]]]
        /\ next' = [next EXCEPT ![ret] = NULL, ![w[1]] = next[w[2]]]
        /\ allocated' = allocated \cup {ret}
        /\ held' = held \cup {ret}
        /\ taken' = taken \cup {ret}
  BY <1>2 DEF RemoveFromMany
<1> HIDE DEF w
<1>4. Types'
  BY <1>1, <1>2, <1>3 DEF IInv, Types, RemoveFromMany, Unallocated
<1>5. PICK r : r = [k \in 1 .. size - 1 |-> IF k = 1 THEN w[1] ELSE w[k + 1]]
  OBVIOUS
<1>6. Ring(r)'
  <2>1. r \in [1 .. size' -> allocated']
    BY <1>1, <1>2, <1>3, <1>5 DEF IInv, Types, Ring, Unallocated, RemoveFromMany
  <2>2. \A j, k \in 1 .. size' : r[j] = r[k] => j = k
    BY <1>1, <1>2, <1>3, <1>5 DEF IInv, Types, Ring, Unallocated, RemoveFromMany
  <2>3. \A k \in 1 .. size' : r[k] \notin held' /\ data'[r[k]] \in Tasks
    BY <1>1, <1>2, <1>3, <1>5 DEF IInv, Types, Ring, Unallocated, RemoveFromMany
  <2>4. \A k \in 1 .. size' - 1 : next'[r[k]] = r[k + 1]
    BY <1>1, <1>2, <1>3, <1>5 DEF IInv, Types, Ring, Unallocated, RemoveFromMany
  <2>5. list_head' = r[1] /\ next'[r[size']] = r[1]
    BY <1>1, <1>2, <1>3, <1>5 DEF IInv, Types, Ring, Unallocated, RemoveFromMany
  <2> QED
    BY <2>1, <2>2, <2>3, <2>4, <2>5 DEF Ring
<1> QED
  BY <1>1, <1>4, <1>5, <1>6, RingNext DEF w

LEMMA NextInv == IInv /\ [Next]_vars => IInv'
<1> SUFFICES ASSUME IInv, [Next]_vars
             PROVE  IInv'
  OBVIOUS
<1>1. ASSUME NEW x \in Tasks, NewTask(x)
      PROVE  IInv'
  BY <1>1, NewTaskInv
<1>2. ASSUME NEW t \in held, AddToList(t)
      PROVE  IInv'
  BY <1>2, AddToEmptyInv, AddToOneInv, AddToManyInv DEF AddToList
<1>3. ASSUME NEW t \in taken, Forget(t)
      PROVE  IInv'
  BY <1>3, ForgetInv
<1>4. ASSUME RemoveHead
      PROVE  IInv'
  BY <1>4, RemoveOnlyInv, RemoveFromManyInv DEF RemoveHead
<1>5. ASSUME UNCHANGED vars
      PROVE  IInv'
  <2>1. Types'
    BY <1>5 DEF IInv, Types, vars
  <2>2. PICK s : s = Walk
    OBVIOUS
  <2>3. Ring(s)'
    BY <1>5, <2>2 DEF IInv, Ring, vars
  <2> QED
    BY <2>1, <2>3, RingNext
<1> QED
  BY <1>1, <1>2, <1>3, <1>4, <1>5 DEF Next

(* The listed nodes are a ring, in which no thread holds a node: the       *)
(* inductive invariant of the list.                                        *)
THEOREM ListInvariant == Spec => []IInv
<1>1. Init => IInv
  BY InitInv
<1> QED
  BY <1>1, NextInv, PTL DEF Spec

-----------------------------------------------------------------------------
LEMMA ListedCount ==
  ASSUME IInv
  PROVE  IsFiniteSet(Listed) /\ Cardinality(Listed) = size /\ Listed \subseteq allocated
<1>1. Walk \in [1 .. size -> allocated] /\ size \in Nat
      /\ \A j, k \in 1 .. size : Walk[j] = Walk[k] => j = k
  BY DEF IInv, Ring, Types
<1>2. Walk \in [1 .. size -> Listed] /\ \A n \in Listed : \E k \in 1 .. size : Walk[k] = n
  BY <1>1 DEF Listed
<1>3. Walk \in Bijection(1 .. size, Listed)
  BY <1>1, <1>2 DEF Bijection, Injection, Surjection, IsInjective
<1>4. ExistsBijection(1 .. size, Listed)
  BY <1>3 DEF ExistsBijection
<1>5. IsFiniteSet(1 .. size) /\ Cardinality(1 .. size) = size
  BY <1>1, FS_Interval
<1>6. IsFiniteSet(Listed) /\ Cardinality(Listed) = size
  BY <1>4, <1>5, FS_Bijection
<1>7. Listed \subseteq allocated
  BY <1>1 DEF Listed
<1> QED
  BY <1>6, <1>7

LEMMA TypeOKOfInv == IInv => TypeOK
<1> SUFFICES ASSUME IInv
             PROVE  TypeOK
  OBVIOUS
<1>1. Listed \in SUBSET Nodes /\ Cardinality(Listed) = size
  BY ListedCount DEF IInv, Types
<1>2. size <= Cardinality(Nodes)
  BY <1>1, FS_Subset, NodesAssumption
<1>3. size \in 0 .. Cardinality(Nodes)
  BY <1>2, FS_CardinalityType, NodesAssumption DEF IInv, Types
<1> QED
  BY <1>3 DEF TypeOK, IInv, Types

LEMMA WellFormedOfInv == IInv => WellFormed
<1> SUFFICES ASSUME IInv
             PROVE  WellFormed
  OBVIOUS
<1>1. list_head = NULL <=> size = 0
  BY DEF IInv, Types
<1>2. size > 0 => next[Walk[size]] = list_head
  BY DEF IInv, Ring
<1>3. held \cap Listed = {}
  BY DEF IInv, Ring, Listed
<1> QED
  BY <1>1, <1>2, <1>3, ListedCount DEF WellFormed

(* Every variable keeps its type; the size never exceeds the heap.         *)
THEOREM ListTypeOK == Spec => []TypeOK
  BY ListInvariant, TypeOKOfInv, PTL

(* Following next from the head comes by size different live nodes and     *)
(* back, and by none that a thread holds.                                  *)
THEOREM ListWellFormed == Spec => []WellFormed
  BY ListInvariant, WellFormedOfInv, PTL

-----------------------------------------------------------------------------
(* The payloads of the list, in order.                                     *)
Queue == [k \in 1 .. size |-> data[Walk[k]]]

LEMMA QueueStays ==
  ASSUME IInv, Walk' = Walk, size' = size, \A k \in 1 .. size : data'[Walk[k]] = data[Walk[k]]
  PROVE  Queue' = Queue
<1> DEFINE w == Walk
<1> HIDE DEF w
<1>1. w' = w /\ \A k \in 1 .. size : data'[w[k]] = data[w[k]]
  BY DEF w
<1>2. [k \in 1 .. size' |-> data'[w'[k]]] = [k \in 1 .. size |-> data[w[k]]]
  BY <1>1
<1> QED
  BY <1>2 DEF Queue, w

LEMMA AddAppends ==
  ASSUME IInv, NEW t \in held, AddToList(t)
  PROVE  Queue' = Append(Queue, data[t]) /\ data[t] \in Tasks
<1> USE DEF AddToList
<1> DEFINE w == Walk
           wn == Walk'
<1>0. Ring(w) /\ Types
  BY DEF IInv
<1>1. CASE AddToEmpty(t)
  <2>1. wn = [k \in 1 .. 1 |-> t] /\ size = 0 /\ data' = data
    BY <1>1, AddToEmptyInv DEF AddToEmpty
  <2> HIDE DEF w, wn
  <2>2. [k \in 1 .. size' |-> data'[wn[k]]] = Append([k \in 1 .. size |-> data[w[k]]], data[t])
    BY <2>1
  <2> QED
    BY <2>2, <1>0 DEF Queue, Types, w, wn
<1>2. CASE AddToOne(t)
  <2>1. wn = [k \in 1 .. 2 |-> IF k = 1 THEN w[1] ELSE t] /\ size = 1 /\ data' = data
    BY <1>2, AddToOneInv DEF AddToOne
  <2> HIDE DEF w, wn
  <2>2. [k \in 1 .. size' |-> data'[wn[k]]] = Append([k \in 1 .. size |-> data[w[k]]], data[t])
    BY <2>1
  <2> QED
    BY <2>2, <1>0 DEF Queue, Types, w, wn
<1>3. CASE AddToMany(t)
  <2>1. wn = [k \in 1 .. size + 1 |->
                IF k = 1 THEN list_head' ELSE IF k = size + 1 THEN w[1] ELSE w[k]] /\ size > 1
    BY <1>3, AddToManyInv
  <2>2. list_head = w[1]
    BY <1>0, <2>1 DEF Ring, Types
  <2>3. /\ list_head' \in Unallocated
        /\ data' = [data EXCEPT ![list_head'] = data[w[1]], ![w[1]] = data[t]]
    BY <1>3, <2>2 DEF AddToMany
  <2> HIDE DEF w, wn
  <2>4. \A k \in 2 .. size : w[k] # w[1] /\ w[k] \in allocated
    BY <1>0, <2>1 DEF Ring, Types
  <2>5. w[1] \in allocated /\ allocated \subseteq Nodes /\ DOMAIN data = Nodes /\ size \in Nat
    BY <1>0, <2>1 DEF Ring, Types
  <2>6. \A k \in 1 .. size : data'[wn[k]] = data[w[k]]
    BY <2>1, <2>3, <2>4, <2>5 DEF Unallocated
  <2>7. data'[wn[size + 1]] = data[t]
    BY <2>1, <2>3, <2>4, <2>5 DEF Unallocated
  <2>8. [k \in 1 .. size' |-> data'[wn[k]]] = Append([k \in 1 .. size |-> data[w[k]]], data[t])
    BY <2>5, <2>6, <2>7
  <2> QED
    BY <2>8, <1>0 DEF Queue, Types, w, wn
<1> QED
  BY <1>0, <1>1, <1>2, <1>3 DEF Types

LEMMA RemoveTakes ==
  ASSUME IInv, RemoveHead
  PROVE  Queue # <<>> /\ Queue' = Tail(Queue)
<1> USE DEF RemoveHead
<1> DEFINE w == Walk
           wn == Walk'
<1>0. Ring(w) /\ Types
  BY DEF IInv
<1>1. CASE RemoveOnly
  <2>1. wn = <<>> /\ size = 1 /\ size' = 0
    BY <1>1, RemoveOnlyInv DEF RemoveOnly
  <2> HIDE DEF w, wn
  <2>2. [k \in 1 .. size' |-> data'[wn[k]]] = Tail([k \in 1 .. size |-> data[w[k]]])
        /\ [k \in 1 .. size |-> data[w[k]]] # <<>>
    BY <2>1
  <2> QED
    BY <2>2 DEF Queue, w, wn
<1>2. CASE RemoveFromMany
  <2>1. wn = [k \in 1 .. size - 1 |-> IF k = 1 THEN w[1] ELSE w[k + 1]]
    BY <1>2, RemoveFromManyInv
  <2> HIDE DEF w, wn
  <2>2. size \in Nat /\ size > 1 /\ size' = size - 1
    BY <1>2, <1>0 DEF Types, RemoveFromMany
  <2>3. list_head = w[1] /\ next[list_head] = w[2]
    BY <1>0, <2>2 DEF Ring
  <2>4. PICK ret \in Unallocated : data' = [data EXCEPT ![ret] = data[w[1]], ![w[1]] = data[w[2]]]
    BY <1>2, <2>3 DEF RemoveFromMany
  <2>5. \A k \in 2 .. size : w[k] # w[1] /\ w[k] \in allocated
    BY <1>0, <2>2 DEF Ring, Types
  <2>6. w[1] \in allocated /\ allocated \subseteq Nodes /\ DOMAIN data = Nodes
    BY <1>0, <2>2 DEF Ring, Types
  <2>7. \A k \in 1 .. size - 1 : data'[wn[k]] = data[w[k + 1]]
    BY <2>1, <2>2, <2>4, <2>5, <2>6 DEF Unallocated
  <2>8. [k \in 1 .. size' |-> data'[wn[k]]] = Tail([k \in 1 .. size |-> data[w[k]]])
        /\ [k \in 1 .. size |-> data[w[k]]] # <<>>
    BY <2>2, <2>7
  <2> QED
    BY <2>8 DEF Queue, w, wn
<1> QED
  BY <1>1, <1>2

LEMMA NextRefines == IInv /\ [Next]_vars => [Fifo!Next]_Queue
<1> SUFFICES ASSUME IInv, [Next]_vars
             PROVE  Fifo!Next \/ Queue' = Queue
  OBVIOUS
<1>1. ASSUME NEW x \in Tasks, NewTask(x)
      PROVE  Queue' = Queue
  <2>1. Walk' = Walk /\ size' = size
    BY <1>1, NewTaskInv DEF NewTask
  <2>2. \A k \in 1 .. size : Walk[k] \in allocated
    BY DEF IInv, Ring
  <2>3. \A k \in 1 .. size : data'[Walk[k]] = data[Walk[k]]
    BY <1>1, <2>2 DEF NewTask, IInv, Types, Unallocated
  <2> QED
    BY <2>1, <2>3, QueueStays
<1>2. ASSUME NEW t \in held, AddToList(t)
      PROVE  \E x \in Tasks : Fifo!Put(x)
  BY <1>2, AddAppends DEF Fifo!Put, Queue
<1>3. ASSUME NEW t \in taken, Forget(t)
      PROVE  Queue' = Queue
  BY <1>3, ForgetInv, QueueStays DEF Forget
<1>4. ASSUME RemoveHead
      PROVE  Fifo!Take
  BY <1>4, RemoveTakes DEF Fifo!Take, Queue
<1>5. ASSUME UNCHANGED vars
      PROVE  Queue' = Queue
  BY <1>5 DEF Queue, Walk, vars
<1> QED
  BY <1>1, <1>2, <1>3, <1>4, <1>5 DEF Next, Fifo!Next

(* add_to_list and remove_head, by whatever moves of payloads, are the Put *)
(* and the Take of a FIFO queue; malloc and forgotten nodes do not show.   *)
THEOREM ListIsFifo == Spec => FifoSpec
<1>1. Init => Fifo!Init
  BY InitInv DEF Init, Fifo!Init
<1>2. IInv /\ [Next]_vars => [Fifo!Next]_Queue
  BY NextRefines
<1> QED
  BY <1>1, <1>2, ListInvariant, PTL DEF Spec, FifoSpec, Fifo!Spec, Queue

-----------------------------------------------------------------------------
LEMMA AddLosesNone ==
  ASSUME IInv, NEW t \in held, AddToList(t)
  PROVE  Lost' \subseteq Lost
<1> USE DEF AddToList
<1> DEFINE w == Walk
           wn == Walk'
<1>0. Ring(w) /\ Types
  BY DEF IInv
<1>1. Lost = allocated \ ({w[k] : k \in 1 .. size} \cup held)
      /\ Lost' = allocated' \ ({wn[k] : k \in 1 .. size'} \cup held')
  BY DEF Lost, Listed
<1>2. CASE AddToEmpty(t)
  <2>1. wn = [k \in 1 .. 1 |-> t] /\ size = 0 /\ allocated' = allocated
    BY <1>2, AddToEmptyInv DEF AddToEmpty
  <2> HIDE DEF w, wn
  <2> QED
    BY <1>1, <2>1
<1>3. CASE AddToOne(t)
  <2>1. wn = [k \in 1 .. 2 |-> IF k = 1 THEN w[1] ELSE t] /\ size = 1 /\ allocated' = allocated
    BY <1>3, AddToOneInv DEF AddToOne
  <2> HIDE DEF w, wn
  <2>2. wn[1] = w[1] /\ wn[2] = t /\ size' = 2
    BY <2>1
  <2> QED
    BY <1>1, <2>1, <2>2
<1>4. CASE AddToMany(t)
  <2>1. wn = [k \in 1 .. size + 1 |->
                IF k = 1 THEN list_head' ELSE IF k = size + 1 THEN w[1] ELSE w[k]] /\ size > 1
    BY <1>4, AddToManyInv
  <2>2. allocated' = (allocated \cup {list_head'}) \ {t}
    BY <1>4 DEF AddToMany
  <2>3. size \in Nat
    BY <1>0 DEF Types
  <2> HIDE DEF w, wn
  <2>4. wn[1] = list_head' /\ wn[size + 1] = w[1] /\ \A k \in 2 .. size : wn[k] = w[k]
    BY <2>1, <2>3
  <2>5. \A k \in 1 .. size : \E j \in 1 .. size + 1 : wn[j] = w[k]
    BY <2>1, <2>3, <2>4
  <2>6. 1 \in 1 .. size + 1
    BY <2>1, <2>3
  <2> QED
    BY <1>1, <2>2, <2>4, <2>5, <2>6
<1> QED
  BY <1>2, <1>3, <1>4

LEMMA RemoveLosesSecond ==
  ASSUME IInv, RemoveHead
  PROVE  Lost' \subseteq Lost \cup (IF size > 1 THEN {next[list_head]} ELSE {})
<1> USE DEF RemoveHead
<1> DEFINE w == Walk
           wn == Walk'
<1>0. Ring(w) /\ Types
  BY DEF IInv
<1>1. Lost = allocated \ ({w[k] : k \in 1 .. size} \cup held)
      /\ Lost' = allocated' \ ({wn[k] : k \in 1 .. size'} \cup held')
  BY DEF Lost, Listed
<1>2. CASE RemoveOnly
  <2>1. w[1] = list_head /\ size = 1
    BY <1>0, <1>2 DEF Ring, RemoveOnly
  <2> HIDE DEF w, wn
  <2> QED
    BY <1>1, <1>2, <2>1 DEF RemoveOnly
<1>3. CASE RemoveFromMany
  <2>1. wn = [k \in 1 .. size - 1 |-> IF k = 1 THEN w[1] ELSE w[k + 1]]
    BY <1>3, RemoveFromManyInv
  <2>2. size \in Nat /\ size > 1 /\ size' = size - 1
    BY <1>3, <1>0 DEF Types, RemoveFromMany
  <2>3. next[list_head] = w[2]
    BY <1>0, <2>2 DEF Ring
  <2>4. PICK ret \in Unallocated : allocated' = allocated \cup {ret} /\ held' = held \cup {ret}
    BY <1>3 DEF RemoveFromMany
  <2> HIDE DEF w, wn
  <2>5. wn[1] = w[1] /\ \A k \in 3 .. size : wn[k - 1] = w[k]
    BY <2>1, <2>2
  <2>6. \A k \in 1 .. size : k # 2 => \E j \in 1 .. size - 1 : wn[j] = w[k]
    <3> SUFFICES ASSUME NEW k \in 1 .. size, k # 2
                 PROVE  \E j \in 1 .. size - 1 : wn[j] = w[k]
      OBVIOUS
    <3>1. CASE k = 1
      BY <2>2, <2>5, <3>1
    <3>2. CASE k \in 3 .. size
      BY <2>2, <2>5, <3>2
    <3> QED
      BY <2>2, <3>1, <3>2
  <2> QED
    BY <1>1, <2>2, <2>3, <2>4, <2>6
<1> QED
  BY <1>2, <1>3

(* A node is lost only by a thread that drops it and by a removal that     *)
(* skips over it: add_to_list frees or lists what it is given.             *)
THEOREM ListLosesOnly == Spec => LosesOnly
<1> DEFINE LosesOnlyStep ==
             \A n \in Lost' \ Lost :
               \/ n \in taken /\ size' = size
               \/ size > 1 /\ size' = size - 1 /\ n = next[list_head]
<1>1. IInv /\ [Next]_vars => [LosesOnlyStep]_vars
  <2> SUFFICES ASSUME IInv, Next
               PROVE  LosesOnlyStep
    OBVIOUS
  <2>1. ASSUME NEW x \in Tasks, NewTask(x)
        PROVE  LosesOnlyStep
    <3>1. Walk' = Walk /\ size' = size
      BY <2>1, NewTaskInv DEF NewTask
    <3>2. Listed' = Listed
      BY <3>1 DEF Listed
    <3> QED
      BY <2>1, <3>2 DEF Lost, NewTask
  <2>2. ASSUME NEW t \in held, AddToList(t)
        PROVE  LosesOnlyStep
    BY <2>2, AddLosesNone
  <2>3. ASSUME NEW t \in taken, Forget(t)
        PROVE  LosesOnlyStep
    <3>1. Walk' = Walk /\ size' = size
      BY <2>3, ForgetInv DEF Forget
    <3>2. Listed' = Listed
      BY <3>1 DEF Listed
    <3> QED
      BY <2>3, <3>1, <3>2 DEF Lost, Forget
  <2>4. ASSUME RemoveHead
        PROVE  LosesOnlyStep
    <3>1. size > 1 => size' = size - 1
      BY <2>4 DEF RemoveHead, RemoveOnly, RemoveFromMany
    <3> QED
      BY <2>4, <3>1, RemoveLosesSecond
  <2> QED
    BY <2>1, <2>2, <2>3, <2>4 DEF Next
<1> QED
  BY <1>1, ListInvariant, PTL DEF Spec, LosesOnly
=============================================================================
