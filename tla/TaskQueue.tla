------------------------------ MODULE TaskQueue ------------------------------
(***************************************************************************)
(* The circular list of task_queue.c (add_to_list, remove_head), as the    *)
(* heap sees it: nodes with a payload (their client or task pointer) and a *)
(* next pointer, malloc and free, and the nodes the threads of main.c have *)
(* in their hands: a new node is added to the list, a node of remove_head  *)
(* is given back to add_to_list or dropped.  A list longer than one node   *)
(* is changed by moving payloads between nodes, not by finding the last    *)
(* node: adding copies the head's payload to a new second node, removing   *)
(* copies the second's payload to the head.  Both operations run under the *)
(* list's lock, so one action is one call.                                 *)
(***************************************************************************)
EXTENDS Integers, FiniteSets, Sequences

CONSTANTS Nodes,   \* the addresses malloc can return for a task_node
          Tasks,   \* the payloads
          NULL

ASSUME NullAssumption == NULL \notin Nodes /\ NULL \notin Tasks

(* An address space is finite.                                             *)
ASSUME NodesAssumption == IsFiniteSet(Nodes)

VARIABLES
  list_head,  \* object_q.list_head
  size,       \* object_q.size
  data,       \* data[n] = n->client (client_q) or n->task (task_q)
  next,       \* next[n] = n->next
  allocated,  \* the nodes that malloc has returned and free has not taken
  held,       \* the nodes a thread holds a pointer to
  taken       \* those of them that came from remove_head

vars == <<list_head, size, data, next, allocated, held, taken>>

Unallocated == Nodes \ allocated

Init ==
  /\ list_head = NULL
  /\ size = 0
  /\ data = [n \in Nodes |-> NULL]
  /\ next = [n \in Nodes |-> NULL]
  /\ allocated = {}
  /\ held = {}
  /\ taken = {}

(* A thread makes a node for a new task (the listen thread for a request,  *)
(* the client-queue thread for a file it has received).                    *)
NewTask(x) ==
  /\ \E n \in Unallocated :
       /\ allocated' = allocated \cup {n}
       /\ held' = held \cup {n}
       /\ data' = [data EXCEPT ![n] = x]
       /\ next' = [next EXCEPT ![n] = NULL]
  /\ UNCHANGED <<list_head, size, taken>>

-----------------------------------------------------------------------------
(* add_to_list(q, t): its three cases.                                     *)
AddToEmpty(t) ==
  /\ list_head = NULL
  /\ list_head' = t
  /\ next' = [next EXCEPT ![t] = t]
  /\ UNCHANGED <<data, allocated>>

(* A variant of the next definition: the ring is not closed again.         *)
AddToOneOpen(t) ==
  /\ list_head # NULL /\ size = 1
  /\ next' = [next EXCEPT ![list_head] = t]
  /\ UNCHANGED <<list_head, data, allocated>>

AddToOne(t) ==
  /\ list_head # NULL /\ size = 1
  /\ next' = [next EXCEPT ![t] = list_head, ![list_head] = t]
  /\ UNCHANGED <<list_head, data, allocated>>

(* A variant of the next definition: the new second node takes t's payload *)
(* and the head stays.                                                     *)
AddToManyInFront(t) ==
  /\ list_head # NULL /\ size # 1
  /\ \E new \in Unallocated :
       /\ data' = [data EXCEPT ![new] = data[t]]
       /\ next' = [next EXCEPT ![new] = next[list_head], ![list_head] = new]
       /\ allocated' = (allocated \cup {new}) \ {t}
  /\ UNCHANGED list_head

(* A variant of the next definition: t is not freed.                       *)
AddToManyUnfreed(t) ==
  /\ list_head # NULL /\ size # 1
  /\ \E new \in Unallocated :
       /\ data' = [data EXCEPT ![new] = data[list_head], ![list_head] = data[t]]
       /\ next' = [next EXCEPT ![new] = next[list_head], ![list_head] = new]
       /\ list_head' = new
       /\ allocated' = allocated \cup {new}

(* The new second node takes the head's payload, the head takes t's, the   *)
(* head pointer moves on and t is freed.                                   *)
AddToMany(t) ==
  /\ list_head # NULL /\ size # 1
  /\ \E new \in Unallocated :
       /\ data' = [data EXCEPT ![new] = data[list_head], ![list_head] = data[t]]
       /\ next' = [next EXCEPT ![new] = next[list_head], ![list_head] = new]
       /\ list_head' = new
       /\ allocated' = (allocated \cup {new}) \ {t}

(* A variant of the next definition: the caller goes on using its node.    *)
AddToListKept(t) ==
  /\ t \in held
  /\ AddToEmpty(t) \/ AddToOne(t) \/ AddToMany(t)
  /\ size' = size + 1
  /\ UNCHANGED <<held, taken>>

AddToList(t) ==
  /\ t \in held
  /\ AddToEmpty(t) \/ AddToOne(t) \/ AddToMany(t)
  /\ size' = size + 1
  /\ held' = held \ {t}
  /\ taken' = taken \ {t}

-----------------------------------------------------------------------------
(* remove_head(q), called when queue_size(q) > 0: its two cases.           *)
RemoveOnly ==
  /\ size = 1
  /\ list_head' = NULL
  /\ size' = 0
  /\ held' = held \cup {list_head}
  /\ taken' = taken \cup {list_head}
  /\ UNCHANGED <<data, next, allocated>>

(* The head's payload leaves in a new node, the head takes the second      *)
(* node's payload and skips over it; the second node is not freed.         *)
RemoveFromMany ==
  /\ size # 1
  /\ LET second == next[list_head]
     IN \E ret \in Unallocated :
          /\ data' = [data EXCEPT ![ret] = data[list_head], ![list_head] = data[second]]
          /\ next' = [next EXCEPT ![ret] = NULL, ![list_head] = next[second]]
          /\ allocated' = allocated \cup {ret}
          /\ held' = held \cup {ret}
          /\ taken' = taken \cup {ret}
  /\ size' = size - 1
  /\ UNCHANGED list_head

RemoveHead ==
  /\ size > 0 /\ list_head # NULL
  /\ RemoveOnly \/ RemoveFromMany

(* A thread is done with the task that remove_head has given it and drops  *)
(* the node: neither thread frees it.                                      *)
Forget(t) ==
  /\ t \in taken
  /\ held' = held \ {t}
  /\ taken' = taken \ {t}
  /\ UNCHANGED <<list_head, size, data, next, allocated>>

Next ==
  \/ \E x \in Tasks : NewTask(x)
  \/ \E t \in held : AddToList(t)
  \/ \E t \in taken : Forget(t)
  \/ RemoveHead

Spec == Init /\ [][Next]_vars

-----------------------------------------------------------------------------
(* The nodes of the list, in the order of the next pointers.               *)
Walk[k \in 1 .. size] == IF k = 1 THEN list_head ELSE next[Walk[k - 1]]

Listed == {Walk[k] : k \in 1 .. size}

TypeOK ==
  /\ list_head \in Nodes \cup {NULL}
  /\ size \in 0 .. Cardinality(Nodes)
  /\ data \in [Nodes -> Tasks \cup {NULL}]
  /\ next \in [Nodes -> Nodes \cup {NULL}]
  /\ allocated \subseteq Nodes
  /\ held \subseteq allocated
  /\ taken \subseteq held

(* The list is a ring of exactly `size' different nodes (or none, with a   *)
(* NULL head), all of them allocated and none in a thread's hands:         *)
(* following next from the head never reaches freed memory, the last node  *)
(* leads back to the head, and what a thread does to the node it holds, or *)
(* to the node that add_to_list has freed, never shows in the list.        *)
WellFormed ==
  /\ list_head = NULL <=> size = 0
  /\ size > 0 => /\ Cardinality(Listed) = size
                 /\ Listed \subseteq allocated
                 /\ next[Walk[size]] = list_head
  /\ held \cap Listed = {}

(* The list implements a FIFO queue of the payloads.                       *)
Fifo == INSTANCE FifoQueue WITH queue <- [k \in 1 .. size |-> data[Walk[k]]]

FifoSpec == Fifo!Spec

(* The nodes that are neither free nor in anyone's reach.                  *)
Lost == allocated \ (Listed \cup held)

(* What the heap can lose.  notes.txt:1 asks for task nodes to be freed    *)
(* after they are used, and main.c frees none: a thread loses the node it  *)
(* was given when it drops it, and a removal from several the one that it  *)
(* skips over (task_queue.c:130).  Nothing else is lost: add_to_list,      *)
(* which gives its caller's node back in one of its cases and lists it in  *)
(* the others, loses none, and a removal no node but the second.           *)
LosesOnly ==
  [][\A n \in Lost' \ Lost :
       \/ n \in taken /\ size' = size
       \/ size > 1 /\ size' = size - 1 /\ n = next[list_head]]_vars
=============================================================================
