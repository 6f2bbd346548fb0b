---------------------------- MODULE ServiceProofs ----------------------------
(***************************************************************************)
(* Theorems about Service, for every set of clients, every file but the    *)
(* empty one, every number and size of segments, with clients that are     *)
(* killed and with or without the stale path.                              *)
(*                                                                         *)
(* The argument: a call is in one place of the server at a time, and what  *)
(* its client may be doing, with how many announcements and ACKs in its    *)
(* queues, is a function of that place.  The tables below say which; every *)
(* step of a client and of a thread goes from one line of them to another. *)
(*                                                                         *)
(* What is in the buffers and the segments follows from the places: up to  *)
(* where its owner is, a buffer has the bytes of the caller's file, or of  *)
(* what the codec makes of it, and a grant has what it was filled with     *)
(* (DInv).  The data arrive, no copy leaves its buffer, and what callers   *)
(* see is CompressionService, when no file is longer compressed.           *)
(***************************************************************************)
EXTENDS Service, Functions, OrderLemmas, SequenceTheorems, FiniteSetTheorems, TLAPS

(* A call with an empty file is not served (EveryoneServed, MCService).    *)
FilesNotEmpty == \A c \in Clients : FileLen[c] > 0

-----------------------------------------------------------------------------
(* What the server and its queues have to do with one client.              *)
View(c) ==
  [pc |-> cpc[c], ii |-> ii[c], needed |-> needed[c], to_recv |-> to_recv[c],
   msg |-> msg[c], get |-> get_q[c], put |-> put_q[c]]

Quiet(v) == v.get = <<>> /\ v.put = 0

(* The task x has been moved up to x.index, and is about to move a pass.   *)
Underway(x) == x.total = SegmentsNeeded(x.len) /\ x.index < x.total

Rest(x, n) == IF x.index + n < x.total THEN x.total - (x.index + n) ELSE 0

Before(x) == Underway(x) /\ x.remaining = x.total - x.index

After(x, n) == Underway(x) /\ x.remaining = Rest(x, n)

(* The client is where its task is, or a pass of n segments further.       *)
InStep(v, x) == v.ii = x.index /\ v.needed = x.total /\ v.to_recv = x.total - x.index

PassCopied(v, x, n) == v.ii = x.index /\ v.needed = x.total /\ v.to_recv = Rest(x, n)

PassDone(v, x, n) == v.ii = x.index + n /\ v.needed = x.total /\ v.to_recv = Rest(x, n)

LoopOver(v) == v.ii >= v.needed

(* The client has sent its file and waits for the compressed one.          *)
Between(v) == v.pc \in {"send_loop", "recv_prelim"} /\ LoopOver(v)

Sent(v, x, n) ==
  PassDone(v, x, n) /\ (v.pc = "send_loop" \/ (v.pc = "recv_prelim" /\ LoopOver(v)))

Received(v, x, n) ==
  PassDone(v, x, n) /\ (v.pc = "recv_loop" \/ (v.pc = "done" /\ LoopOver(v)))

Dead(v) == v.pc = "crashed"

(* The client of a call that is in no place of the server.                 *)
Nowhere(v) ==
  /\ Quiet(v)
  /\ \/ v.pc \in {"create", "request", "crashed"}
     \/ v.pc \in {"recv_loop", "done"} /\ LoopOver(v)

(* The client of a call whose request has not become a task yet.           *)
Requested(v) == Quiet(v) /\ v.pc \in {"send_prelim", "crashed"}

(* The client of the client task x, in client_q ("queued") or at p in the  *)
(* thread, which holds n segments and announces a.                         *)
UploadAt(v, x, p, n, a) ==
  /\ p \in {"queued", "grab", "open"} =>
       /\ Quiet(v)
       /\ x.fresh => v.pc \in {"send_prelim", "crashed"}
       /\ ~ x.fresh => Before(x) /\ (Dead(v) \/ (v.pc = "send_loop" /\ InStep(v, x)))
  /\ p = "prelim" => x.fresh /\ Quiet(v) /\ v.pc \in {"send_prelim", "crashed"}
  /\ p = "announce" =>
       /\ Before(x) /\ v.put = 0
       /\ \/ v.get = <<a>> /\ x.index = 0 /\ v.pc \in {"send_prelim", "crashed"}
          \/ v.get = <<>> /\ (Dead(v) \/ (v.pc = "send_loop" /\ InStep(v, x)))
  /\ p = "ack" =>
       /\ Before(x)
       /\ \/ v.put = 0 /\ v.get = <<a, a>> /\ x.index = 0 /\ v.pc \in {"send_prelim", "crashed"}
          \/ v.put = 0 /\ v.get = <<a>> /\ (Dead(v) \/ (v.pc = "send_loop" /\ InStep(v, x)))
          \/ /\ v.put = 0 /\ v.get = <<>>
             /\ \/ Dead(v)
                \/ v.pc = "send_copy" /\ v.msg = a /\ InStep(v, x)
                \/ v.pc = "send_ack" /\ v.msg = a /\ PassCopied(v, x, n)
          \/ v.put = 1 /\ v.get = <<>> /\ (Dead(v) \/ Sent(v, x, n))
  /\ p = "copy" => Before(x) /\ Quiet(v) /\ (Dead(v) \/ Sent(v, x, n))
  /\ p = "finish" => After(x, n) /\ Quiet(v) /\ (Dead(v) \/ Sent(v, x, n))

(* The same for the compression task x.                                    *)
DownloadAt(v, x, p, n, a) ==
  /\ p \in {"queued", "compress"} /\ x.fresh => Quiet(v) /\ (Dead(v) \/ Between(v))
  /\ p = "compress" => x.fresh
  /\ p \in {"grab", "open", "prelim"} /\ x.fresh =>
       Before(x) /\ x.index = 0 /\ Quiet(v) /\ (Dead(v) \/ Between(v))
  /\ p \in {"queued", "grab", "open"} /\ ~ x.fresh =>
       Before(x) /\ Quiet(v) /\ (Dead(v) \/ (v.pc = "recv_loop" /\ InStep(v, x)))
  /\ p = "prelim" => x.fresh
  /\ p \in {"copy", "announce"} =>
       /\ v.put = 0
       /\ IF p = "copy" THEN Before(x) ELSE After(x, n)
       /\ \/ v.get = <<a>> /\ x.index = 0 /\ (Dead(v) \/ Between(v))
          \/ v.get = <<>> /\ (Dead(v) \/ (v.pc = "recv_loop" /\ InStep(v, x)))
  /\ p = "ack" =>
       /\ After(x, n)
       /\ \/ v.put = 0 /\ v.get = <<a, a>> /\ x.index = 0 /\ (Dead(v) \/ Between(v))
          \/ v.put = 0 /\ v.get = <<a>> /\ (Dead(v) \/ (v.pc = "recv_loop" /\ InStep(v, x)))
          \/ /\ v.put = 0 /\ v.get = <<>>
             /\ \/ Dead(v)
                \/ v.pc = "recv_copy" /\ v.msg = a /\ InStep(v, x)
                \/ v.pc = "recv_ack" /\ v.msg = a /\ PassCopied(v, x, n)
          \/ v.put \in {0, 1} /\ v.get = <<>> /\ (Dead(v) \/ Received(v, x, n))
  /\ p = "finish" => After(x, n) /\ Quiet(v) /\ (Dead(v) \/ Received(v, x, n))

-----------------------------------------------------------------------------
(* The six places a call can be in, and that it is in one of them at most. *)
ClientsIn(q) == {x.client : x \in Range(q)}

InHand(t) == IF tpc[t] \in {"pop", "release"} THEN {} ELSE {cur[t].client}

Distinct(q) == \A i, j \in DOMAIN q : q[i].client = q[j].client => i = j

Separate(A, B, C, D, E, F) ==
  /\ A \cap B = {} /\ (A \cup B) \cap C = {} /\ (A \cup B \cup C) \cap D = {}
  /\ (A \cup B \cup C \cup D) \cap E = {} /\ (A \cup B \cup C \cup D \cup E) \cap F = {}

Homes ==
  /\ Distinct(main_q) /\ Distinct(listened) /\ Distinct(client_q) /\ Distinct(task_q)
  /\ Separate(ClientsIn(main_q), ClientsIn(listened), ClientsIn(client_q), InHand(ClientQ),
              ClientsIn(task_q), InHand(Work))

Present ==
  ClientsIn(main_q) \cup ClientsIn(listened) \cup ClientsIn(client_q) \cup InHand(ClientQ) \cup
  ClientsIn(task_q) \cup InHand(Work)

NoGrant(x) == Announcement(x.len, <<>>)

Announced(t) == Announcement(cur[t].len, Ids(t))

Grant(t) == Cardinality(held[t])

(* The client of every call is where its call's place allows it to be.     *)
Consistent(c) ==
  /\ c \in ClientsIn(main_q) \cup ClientsIn(listened) => Requested(View(c))
  /\ \A x \in Range(client_q) : x.client = c => UploadAt(View(c), x, "queued", 0, NoGrant(x))
  /\ c \in InHand(ClientQ) =>
       UploadAt(View(c), cur[ClientQ], tpc[ClientQ], Grant(ClientQ), Announced(ClientQ))
  /\ \A x \in Range(task_q) : x.client = c => DownloadAt(View(c), x, "queued", 0, NoGrant(x))
  /\ c \in InHand(Work) =>
       DownloadAt(View(c), cur[Work], tpc[Work], Grant(Work), Announced(Work))
  /\ c \notin Present => Nowhere(View(c))
  /\ cpc[c] \notin {"create", "done"} => c \in linked

-----------------------------------------------------------------------------
TaskFields == {"client", "file_len", "len", "fresh", "total", "remaining", "index",
               "file_buffer", "compressed_buffer"}

IsTask(x) ==
  /\ x = [f \in TaskFields |-> x[f]]
  /\ x.client \in Clients /\ x.file_len = FileLen[x.client] /\ x.fresh \in BOOLEAN
  /\ x.total \in Nat /\ x.remaining \in Nat /\ x.index \in Nat

ClientTask(x) == IsTask(x) /\ x.len = x.file_len

CompressionTask(x, p) ==
  /\ IsTask(x)
  /\ (p = "compress" \/ (p = "queued" /\ x.fresh)) => x.len = 0
  /\ ~ (p = "compress" \/ (p = "queued" /\ x.fresh)) => x.len = CompressedLen(x.file_len)

Tasks ==
  /\ \A x \in Range(client_q) : ClientTask(x)
  /\ \A x \in Range(task_q) : CompressionTask(x, "queued")
  /\ tpc[ClientQ] \notin {"pop", "release"} => ClientTask(cur[ClientQ])
  /\ tpc[Work] \notin {"pop", "release"} => CompressionTask(cur[Work], tpc[Work])

Announcements == [len : Nat, ids : Seq(SegIds)]

AllRequests == {[client |-> c, len |-> FileLen[c]] : c \in Clients}

Types ==
  /\ main_q \in Seq(AllRequests) /\ listened \in Seq(AllRequests) /\ Len(listened) <= 1
  /\ client_q \in Seq(Range(client_q)) /\ task_q \in Seq(Range(task_q))
  /\ get_q \in [Clients -> Seq(Announcements)] /\ put_q \in [Clients -> Nat]
  /\ linked \subseteq Clients
  /\ shm = [s \in SegIds |-> shm[s]]
  /\ \A s \in SegIds : DOMAIN shm[s] = 0 .. SegSize - 1
  /\ cpc \in [Clients -> {"create", "request", "send_prelim", "send_loop", "send_copy",
                          "send_ack", "recv_prelim", "recv_loop", "recv_copy", "recv_ack",
                          "done", "crashed"}]
  /\ ii \in [Clients -> Nat] /\ needed \in [Clients -> Nat] /\ to_recv \in [Clients -> Nat]
  /\ msg \in [Clients -> Announcements]
  /\ put_open \in [Clients -> BOOLEAN]
  /\ segment_id \in [Segs -> SegIds]
  /\ held \in [Threads -> SUBSET Segs]
  /\ cur = [t \in Threads |-> cur[t]]
  /\ opened \in [Threads -> BOOLEAN]
  /\ tpc \in [Threads -> {"pop", "compress", "grab", "open", "prelim", "copy", "announce",
                          "ack", "finish", "release"}]

Threading ==
  \A t \in Threads :
    /\ tpc[t] \in {"pop", "release"} <=> cur[t] = NoTask
    /\ tpc[t] \in {"pop", "compress", "grab"} <=> held[t] = {}
    /\ tpc[t] \in {"prelim", "copy", "announce", "ack"} => opened[t]
    /\ t = ClientQ => tpc[t] # "compress"

IInv == Types /\ Tasks /\ Threading /\ Homes /\ \A c \in Clients : Consistent(c)

-----------------------------------------------------------------------------
(* Queues: what Append and Tail do to the elements of a sequence and to    *)
(* the clients they are of.                                                *)
LEMMA RangeType ==
  ASSUME NEW S, NEW q \in Seq(S)
  PROVE  /\ q \in Seq(Range(q))
         /\ Range(q) \subseteq S
<1>1. Len(q) \in Nat /\ DOMAIN q = 1 .. Len(q) /\ q \in [1 .. Len(q) -> S]
  BY LenProperties
<1>2. Range(q) \subseteq S
  BY <1>1 DEF Range
<1>3. \A i \in 1 .. Len(q) : q[i] \in Range(q)
  BY <1>1 DEF Range
<1>4. q \in [1 .. Len(q) -> Range(q)]
  BY <1>1, <1>3
<1>5. q \in Seq(Range(q))
  BY <1>1, <1>4, SeqDef
<1> QED
  BY <1>2, <1>5

LEMMA AppendRange ==
  ASSUME NEW q, q \in Seq(Range(q)), NEW x
  PROVE  /\ Append(q, x) \in Seq(Range(Append(q, x)))
         /\ Range(Append(q, x)) = Range(q) \cup {x}
         /\ ClientsIn(Append(q, x)) = ClientsIn(q) \cup {x.client}
         /\ Append(q, x) # <<>>
<1> DEFINE n == Len(q)
           r == Append(q, x)
<1>a. n \in Nat /\ DOMAIN q = 1 .. n
  BY LenProperties
<1>b. DOMAIN r = 1 .. n + 1 /\ r[n + 1] = x /\ \A i \in 1 .. n : r[i] = q[i]
  OBVIOUS
<1> HIDE DEF n, r
<1>c. Range(r) \subseteq Range(q) \cup {x}
  <2>1. ASSUME NEW i \in 1 .. n + 1
        PROVE  r[i] \in Range(q) \cup {x}
    <3>1. CASE i = n + 1
      BY <1>b, <3>1
    <3>2. CASE i # n + 1
      BY <1>a, <1>b, <3>2 DEF Range
    <3> QED
      BY <3>1, <3>2
  <2> QED
    BY <1>b, <2>1 DEF Range
<1>d. Range(q) \cup {x} \subseteq Range(r)
  BY <1>a, <1>b DEF Range
<1>1. Range(Append(q, x)) = Range(q) \cup {x}
  BY <1>c, <1>d DEF r
<1>2. ClientsIn(Append(q, x)) = ClientsIn(q) \cup {x.client}
  BY <1>1 DEF ClientsIn
<1>3. Append(q, x) \in Seq(Range(q) \cup {x})
  OBVIOUS
<1> QED
  BY <1>1, <1>2, <1>3

LEMMA AppendDistinct ==
  ASSUME NEW q, q \in Seq(Range(q)), NEW x, Distinct(q), x.client \notin ClientsIn(q)
  PROVE  Distinct(Append(q, x))
  BY DEF Distinct, ClientsIn, Range

LEMMA TailRange ==
  ASSUME NEW q, q \in Seq(Range(q)), q # <<>>, Distinct(q)
  PROVE  /\ Tail(q) \in Seq(Range(Tail(q)))
         /\ Head(q) \in Range(q)
         /\ Range(Tail(q)) \subseteq Range(q)
         /\ \A x \in Range(Tail(q)) : x.client # Head(q).client
         /\ ClientsIn(Tail(q)) = ClientsIn(q) \ {Head(q).client}
         /\ Distinct(Tail(q))
<1>1. /\ Len(q) \in Nat /\ Len(q) > 0 /\ DOMAIN q = 1 .. Len(q)
      /\ Head(q) = q[1]
      /\ DOMAIN Tail(q) = 1 .. Len(q) - 1
      /\ \A i \in 1 .. Len(q) - 1 : Tail(q)[i] = q[i + 1]
  OBVIOUS
<1>2. Head(q) \in Range(q)
  BY <1>1 DEF Range
<1>3. Range(Tail(q)) \subseteq Range(q)
  BY <1>1 DEF Range
<1>4. \A x \in Range(Tail(q)) : x.client # Head(q).client
  BY <1>1 DEF Range, Distinct
<1>5. \A x \in Range(q) : x = Head(q) \/ x \in Range(Tail(q))
  <2> SUFFICES ASSUME NEW i \in 1 .. Len(q), i # 1
               PROVE  q[i] \in Range(Tail(q))
    BY <1>1 DEF Range
  <2>1. i - 1 \in 1 .. Len(q) - 1 /\ (i - 1) + 1 = i
    BY <1>1
  <2>2. Tail(q)[i - 1] = q[i]
    BY <1>1, <2>1
  <2> QED
    BY <1>1, <2>1, <2>2 DEF Range
<1>6. ClientsIn(Tail(q)) = ClientsIn(q) \ {Head(q).client}
  BY <1>2, <1>3, <1>4, <1>5 DEF ClientsIn
<1>7. Distinct(Tail(q))
  BY <1>1 DEF Distinct
<1>8. Tail(q) \in Seq(Range(Tail(q)))
  BY HeadTailProperties, RangeType
<1> QED
  BY <1>2, <1>3, <1>4, <1>6, <1>7, <1>8

(* A queue that is not empty and of one entry at most.                     *)
LEMMA OneEntry ==
  ASSUME NEW S, NEW q \in Seq(S), Len(q) <= 1, q # <<>>
  PROVE  Len(q) = 1 /\ q[1] \in S /\ q = <<q[1]>>
<1>1. Len(q) = 1
  <2>1. Len(q) \in Nat
    BY LenProperties
  <2>2. Len(q) # 0
    BY EmptySeq
  <2> QED
    BY <2>1, <2>2
<1>2. q[1] \in S
  BY <1>1, LenProperties
<1>3. <<q[1]>> \in Seq(S) /\ Len(<<q[1]>>) = 1 /\ <<q[1]>>[1] = q[1]
  BY <1>2
<1>4. q = <<q[1]>>
  BY <1>1, <1>3, SeqEqual
<1> QED
  BY <1>1, <1>2, <1>4

LEMMA EmptyRange ==
  /\ Range(<<>>) = {} /\ ClientsIn(<<>>) = {} /\ Distinct(<<>>) /\ <<>> \in Seq(Range(<<>>))
<1>1. Range(<<>>) = {}
  BY DEF Range
<1> QED
  BY <1>1 DEF ClientsIn, Distinct

-----------------------------------------------------------------------------
(* Segments and grants.                                                    *)
LEMMA SegmentsNeededType ==
  ASSUME NEW len \in Nat
  PROVE  /\ SegmentsNeeded(len) \in Nat
         /\ len > 0 => SegmentsNeeded(len) > 0
<1>1. SegSize \in Nat \ {0}
  BY ChannelsAssumption
<1>2. len \div SegSize \in Nat /\ len % SegSize \in 0 .. SegSize - 1
  BY <1>1
<1>3. len > 0 => len \div SegSize > 0 \/ len % SegSize # 0
  BY <1>1
<1> QED
  BY <1>2, <1>3 DEF SegmentsNeeded

LEMMA SegsFinite == IsFiniteSet(Segs) /\ Segs \subseteq Int
  BY FS_Interval, ChannelsAssumption DEF Segs

(* A set of segments is listed in order: its number of entries, each once. *)
LEMMA InOrderType ==
  ASSUME NEW S, S \subseteq Int, IsFiniteSet(S)
  PROVE  /\ Cardinality(S) \in Nat
         /\ InOrder(S) \in [1 .. Cardinality(S) -> S]
         /\ \A j, k \in 1 .. Cardinality(S) : j < k => InOrder(S)[j] < InOrder(S)[k]
<1>1. Cardinality(S) \in Nat
  BY FS_CardinalityType
<1>2. \E seq \in [1 .. Cardinality(S) -> S] :
        \A j, k \in 1 .. Cardinality(S) : j < k => seq[j] < seq[k]
  BY OrderedListing
<1> QED
  BY <1>1, <1>2 DEF InOrder

LEMMA GrantType ==
  ASSUME Types, NEW t \in Threads
  PROVE  /\ Grant(t) \in Nat
         /\ held[t] # {} <=> Grant(t) > 0
         /\ Ids(t) \in Seq(SegIds) /\ Len(Ids(t)) = Grant(t)
<1>1. held[t] \subseteq Segs
  BY DEF Types
<1>2. held[t] \subseteq Int /\ IsFiniteSet(held[t])
  BY <1>1, SegsFinite, FS_Subset
<1>3. Grant(t) \in Nat /\ InOrder(held[t]) \in [1 .. Grant(t) -> held[t]]
  BY <1>2, InOrderType DEF Grant
<1>4. held[t] # {} <=> Grant(t) > 0
  BY <1>2, <1>3, FS_EmptySet DEF Grant
<1>5. \A j \in 1 .. Grant(t) : segment_id[InOrder(held[t])[j]] \in SegIds
  BY <1>1, <1>3 DEF Types
<1>6. Ids(t) \in [1 .. Grant(t) -> SegIds]
  BY <1>5 DEF Ids, Grant
<1>7. Ids(t) \in Seq(SegIds)
  BY <1>3, <1>6, SeqDef
<1> QED
  BY <1>3, <1>4, <1>6, <1>7, LenProperties

(* The segments of a server that starts.                                   *)
LEMMA FreshSegmentsType == FreshSegments({}) \in [Segs -> SegIds]
<1>1. SegIds \subseteq Int /\ IsFiniteSet(SegIds) /\ SegIds \ {} = SegIds
  BY ChannelsAssumption
<1>2. InOrder(SegIds) \in [1 .. Cardinality(SegIds) -> SegIds] /\ Cardinality(SegIds) \in Nat
  BY <1>1, InOrderType
<1>3. \A s \in Segs : s + 1 \in 1 .. Cardinality(SegIds)
  BY <1>2, ChannelsAssumption DEF Segs
<1>4. \A s \in Segs : InOrder(SegIds)[s + 1] \in SegIds
  BY <1>2, <1>3
<1> QED
  BY <1>1, <1>4 DEF FreshSegments

-----------------------------------------------------------------------------
(* Tasks.                                                                  *)
LEMMA NewTask ==
  ASSUME NEW c \in Clients
  PROVE  /\ ClientTask(Task(c, FileLen[c]))
         /\ Task(c, FileLen[c]).client = c
         /\ Task(c, FileLen[c]).fresh
  BY ChannelsAssumption DEF ClientTask, IsTask, Task, TaskFields

LEMMA StartedTask ==
  ASSUME NEW x, IsTask(x), x.len \in Nat \ {0}
  PROVE  /\ IsTask(Started(x))
         /\ Started(x).client = x.client /\ Started(x).len = x.len /\ Started(x).fresh = x.fresh
         /\ Started(x).index = 0 /\ Before(Started(x))
<1>1. SegmentsNeeded(x.len) \in Nat /\ SegmentsNeeded(x.len) > 0
  BY SegmentsNeededType
<1> DEFINE y == Started(x)
<1>2. /\ y = [f \in TaskFields |-> y[f]]
      /\ y.client = x.client /\ y.file_len = x.file_len /\ y.len = x.len /\ y.fresh = x.fresh
      /\ y.total = SegmentsNeeded(x.len) /\ y.remaining = SegmentsNeeded(x.len) /\ y.index = 0
  BY DEF IsTask, Started, TaskFields
<1> HIDE DEF y
<1>3. IsTask(y) /\ Before(y)
  BY <1>1, <1>2 DEF IsTask, Before, Underway
<1> QED
  BY <1>2, <1>3 DEF y

(* The lengths of the tasks, and what a thread announces.                  *)
LEMMA TaskLen ==
  /\ \A x : ClientTask(x) => x.len \in Nat
  /\ \A x, p : CompressionTask(x, p) => x.len \in Nat
  BY ChannelsAssumption DEF ClientTask, CompressionTask, IsTask

LEMMA InHandTask ==
  ASSUME Types, Tasks, NEW t \in Threads, tpc[t] \notin {"pop", "release"}
  PROVE  /\ IsTask(cur[t]) /\ cur[t].len \in Nat
         /\ InHand(t) = {cur[t].client} /\ cur[t].client \in Clients
         /\ Announced(t) \in Announcements /\ Len(Announced(t).ids) = Grant(t)
         /\ Announced(t).len = cur[t].len /\ Announced(t).ids = Ids(t)
<1>1. IsTask(cur[t]) /\ cur[t].len \in Nat
  BY TaskLen DEF Tasks, Threads, ClientTask, CompressionTask
<1>2. Ids(t) \in Seq(SegIds) /\ Len(Ids(t)) = Grant(t)
  BY GrantType
<1> QED
  BY <1>1, <1>2 DEF Announced, Announcement, Announcements, InHand, IsTask

LEMMA NoGrantType ==
  ASSUME NEW x, x.len \in Nat
  PROVE  NoGrant(x) \in Announcements /\ NoGrant(x).len = x.len /\ Len(NoGrant(x).ids) = 0
  BY DEF NoGrant, Announcement, Announcements

-----------------------------------------------------------------------------
(* The service starts in the invariant.                                    *)
LEMMA InitInv ==
  ASSUME Init
  PROVE  IInv
<1>1. /\ main_q = <<>> /\ listened = <<>> /\ client_q = <<>> /\ task_q = <<>>
      /\ \A t \in Threads : tpc[t] = "pop" /\ cur[t] = NoTask /\ held[t] = {} /\ ~ opened[t]
      /\ \A c \in Clients : cpc[c] = "create" /\ get_q[c] = <<>> /\ put_q[c] = 0
  BY DEF Init, ChannelsInit, ClientInit, ServerInit, Pool!Init
<1>2. InHand(ClientQ) = {} /\ InHand(Work) = {}
  BY <1>1 DEF InHand, Threads
<1>3. Types
  <2>1. Announcement(0, <<>>) \in Announcements
    BY DEF Announcement, Announcements
  <2>2. shm = [s \in SegIds |-> shm[s]] /\ \A s \in SegIds : DOMAIN shm[s] = 0 .. SegSize - 1
    BY DEF Init, ChannelsInit, Malloc
  <2>3. segment_id \in [Segs -> SegIds]
    BY FreshSegmentsType DEF Init, ServerInit
  <2> QED
    BY <1>1, <2>1, <2>2, <2>3, EmptyRange
    DEF Types, Init, ChannelsInit, ClientInit, ServerInit, Pool!Init, AllRequests
<1>4. Tasks
  BY <1>1, EmptyRange DEF Tasks, Threads
<1>5. Threading
  BY <1>1 DEF Threading
<1>6. Homes
  BY <1>1, <1>2, EmptyRange DEF Homes, Separate
<1>7. \A c \in Clients : Consistent(c)
  <2> SUFFICES ASSUME NEW c \in Clients
               PROVE  Consistent(c)
    OBVIOUS
  <2>1. Nowhere(View(c))
    BY <1>1 DEF Nowhere, View, Quiet
  <2> QED
    BY <1>1, <1>2, <2>1, EmptyRange DEF Consistent
<1> QED
  BY <1>3, <1>4, <1>5, <1>6, <1>7 DEF IInv

-----------------------------------------------------------------------------
(* A step of the client c that leaves the server and the main queue alone: *)
(* every other client is as it was, and c goes from a line of the tables   *)
(* to another of the same place.                                           *)
LEMMA ClientMove ==
  ASSUME IInv, NEW c \in Clients, Types',
         UNCHANGED serverVars, main_q' = main_q,
         \A d \in Clients \ {c} : View(d)' = View(d) /\ (d \in linked => d \in linked'),
         cpc'[c] \notin {"create", "done"} => c \in linked',
         \A d \in Clients \ {c} : cpc'[d] = cpc[d],
         Requested(View(c)) => Requested(View(c)'),
         Nowhere(View(c)) => Nowhere(View(c)'),
         \A x, p : \A n \in Nat : \A a \in Announcements :
           IsTask(x) /\ x.client = c /\ a.len = x.len /\ Len(a.ids) = n =>
             /\ x.len = FileLen[c] /\ UploadAt(View(c), x, p, n, a) => UploadAt(View(c)', x, p, n, a)
             /\ DownloadAt(View(c), x, p, n, a) => DownloadAt(View(c)', x, p, n, a)
  PROVE  IInv'
<1> USE DEF serverVars
<1>1. Tasks' /\ Threading' /\ Homes'
  BY DEF IInv, Tasks, Threading, Homes, InHand
<1>2. InHand(ClientQ)' = InHand(ClientQ) /\ InHand(Work)' = InHand(Work) /\ Present' = Present
  BY DEF InHand, Present
<1>3. /\ Grant(ClientQ)' = Grant(ClientQ) /\ Announced(ClientQ)' = Announced(ClientQ)
      /\ Grant(Work)' = Grant(Work) /\ Announced(Work)' = Announced(Work)
  BY DEF Grant, Announced, Ids
<1>4. ASSUME NEW d \in Clients \ {c}
      PROVE  Consistent(d)'
  <2>1. Consistent(d) /\ View(d)' = View(d) /\ cpc'[d] = cpc[d]
    BY DEF IInv
  <2> QED
    BY <1>2, <1>3, <2>1 DEF Consistent
<1>5. Consistent(c)'
  <2>1. Consistent(c)
    BY DEF IInv
  <2>2. ASSUME NEW x \in Range(client_q), x.client = c
        PROVE  UploadAt(View(c)', x, "queued", 0, NoGrant(x))
    <3>1. UploadAt(View(c), x, "queued", 0, NoGrant(x)) /\ IsTask(x) /\ ClientTask(x)
      BY <2>1, <2>2 DEF Consistent, IInv, Tasks, ClientTask
    <3>2. x.len \in Nat /\ x.len = FileLen[c]
      BY <2>2, <3>1, TaskLen DEF ClientTask, IsTask
    <3> QED
      BY <2>2, <3>1, <3>2, NoGrantType
  <2>3. ASSUME NEW x \in Range(task_q), x.client = c
        PROVE  DownloadAt(View(c)', x, "queued", 0, NoGrant(x))
    <3>1. /\ DownloadAt(View(c), x, "queued", 0, NoGrant(x))
          /\ IsTask(x) /\ CompressionTask(x, "queued")
      BY <2>1, <2>3 DEF Consistent, IInv, Tasks, CompressionTask
    <3>2. x.len \in Nat
      BY <3>1, TaskLen
    <3> QED
      BY <2>3, <3>1, <3>2, NoGrantType
  <2>4. ASSUME c \in InHand(ClientQ)
        PROVE  UploadAt(View(c)', cur[ClientQ], tpc[ClientQ], Grant(ClientQ), Announced(ClientQ))
    <3>1. UploadAt(View(c), cur[ClientQ], tpc[ClientQ], Grant(ClientQ), Announced(ClientQ))
      BY <2>1, <2>4 DEF Consistent
    <3>2. /\ ClientQ \in Threads /\ tpc[ClientQ] \notin {"pop", "release"}
          /\ cur[ClientQ].client = c
      BY <2>4 DEF InHand, Threads
    <3>3. cur[ClientQ].len = FileLen[c]
      BY <3>2 DEF IInv, Tasks, ClientTask, IsTask
    <3> QED
      BY <3>1, <3>2, <3>3, InHandTask, GrantType DEF IInv
  <2>5. ASSUME c \in InHand(Work)
        PROVE  DownloadAt(View(c)', cur[Work], tpc[Work], Grant(Work), Announced(Work))
    <3>1. DownloadAt(View(c), cur[Work], tpc[Work], Grant(Work), Announced(Work))
      BY <2>1, <2>5 DEF Consistent
    <3>2. /\ Work \in Threads /\ tpc[Work] \notin {"pop", "release"}
          /\ cur[Work].client = c
      BY <2>5 DEF InHand, Threads
    <3> QED
      BY <3>1, <3>2, InHandTask, GrantType DEF IInv
  <2>6. c \in ClientsIn(main_q) \cup ClientsIn(listened) => Requested(View(c)')
    BY <2>1 DEF Consistent
  <2>7. c \notin Present => Nowhere(View(c)')
    BY <2>1 DEF Consistent
  <2> QED
    BY <1>2, <1>3, <2>2, <2>3, <2>4, <2>5, <2>6, <2>7 DEF Consistent
<1> QED
  BY <1>1, <1>4, <1>5 DEF IInv

(* The queues of announcements are of two at most.                         *)
LEMMA ShortQueues ==
  ASSUME NEW a
  PROVE  /\ <<a>> # <<>> /\ Head(<<a>>) = a /\ Tail(<<a>>) = <<>>
         /\ <<a, a>> # <<>> /\ Head(<<a, a>>) = a /\ Tail(<<a, a>>) = <<a>>
         /\ Append(<<>>, a) = <<a>> /\ Append(<<a>>, a) = <<a, a>>
<1>1. <<a>> # <<>> /\ Head(<<a>>) = a /\ Tail(<<a>>) = <<>>
  OBVIOUS
<1>2. <<a, a>> # <<>> /\ Head(<<a, a>>) = a /\ Tail(<<a, a>>) = <<a>>
  OBVIOUS
<1>3. Append(<<>>, a) = <<a>>
  OBVIOUS
<1>4. Append(<<a>>, a) = <<a, a>>
  <2>1. <<a>> \in Seq({a}) /\ <<a, a>> \in Seq({a})
    OBVIOUS
  <2>2. Append(<<a>>, a) \in Seq({a}) /\ Len(Append(<<a>>, a)) = 2 /\ Len(<<a, a>>) = 2
    BY <2>1
  <2>3. \A i \in 1 .. 2 : Append(<<a>>, a)[i] = <<a, a>>[i]
    OBVIOUS
  <2> QED
    BY <2>1, <2>2, <2>3, SeqEqual
<1> QED
  BY <1>1, <1>2, <1>3, <1>4

-----------------------------------------------------------------------------
(* The steps of a client.                                                  *)
LEMMA CreateQueuesInv ==
  ASSUME IInv, NEW c \in Clients, CreateQueues(c), UNCHANGED serverVars
  PROVE  IInv'
<1> USE DEF CreateQueues, ClientGoto
<1> DEFINE v == View(c)
           w == View(c)'
<1>1. Types
  BY DEF IInv
<1>2. /\ v.pc = "create" /\ w.pc = "request" /\ w.get = v.get /\ w.put = v.put
  BY <1>1 DEF View, Types
<1>3. \A d \in Clients \ {c} : View(d)' = View(d) /\ cpc'[d] = cpc[d]
  BY <1>1 DEF View, Types
<1>4. Types'
  BY <1>1 DEF Types, serverVars
<1>5. linked' = linked \cup {c} /\ main_q' = main_q
  BY <1>1 DEF Types
<1> HIDE DEF v, w, CreateQueues, ClientGoto
<1>6. ASSUME NEW x, NEW p, NEW n \in Nat, NEW a \in Announcements,
             IsTask(x), x.client = c, a.len = x.len, Len(a.ids) = n
      PROVE  /\ x.len = FileLen[c] /\ UploadAt(v, x, p, n, a) => UploadAt(w, x, p, n, a)
             /\ DownloadAt(v, x, p, n, a) => DownloadAt(w, x, p, n, a)
  <2> USE <1>2, <1>6 DEF Quiet, Dead
  <2>1. ASSUME x.len = FileLen[c], UploadAt(v, x, p, n, a)
        PROVE  UploadAt(w, x, p, n, a)
    BY <2>1 DEF UploadAt, Sent
  <2>2. ASSUME DownloadAt(v, x, p, n, a)
        PROVE  DownloadAt(w, x, p, n, a)
    BY <2>2 DEF DownloadAt, Between, Received
  <2> QED
    BY <2>1, <2>2
<1>7. ~ Requested(v) /\ (Nowhere(v) => Nowhere(w))
  BY <1>2 DEF Requested, Nowhere, Quiet
<1>8. cpc[c] \notin {"create", "done"} => c \in linked
  BY DEF IInv, Consistent
<1> QED
  BY <1>3, <1>4, <1>5, <1>6, <1>7, <1>8, ClientMove DEF v, w

LEMMA SendPrelimInv ==
  ASSUME IInv, NEW c \in Clients, SendPrelim(c), UNCHANGED serverVars
  PROVE  IInv'
<1> USE DEF SendPrelim, ClientGoto, ReceiveGet, StartPhase
<1> DEFINE v == View(c)
           w == View(c)'
<1>1. Types
  BY DEF IInv
<1>2. /\ v.pc = "send_prelim" /\ w.pc = "send_loop" /\ w.ii = 0
      /\ w.needed = SegmentsNeeded(FileLen[c]) /\ w.to_recv = SegmentsNeeded(FileLen[c])
      /\ v.get # <<>> /\ w.msg = Head(v.get) /\ w.get = Tail(v.get) /\ w.put = v.put
  BY <1>1 DEF View, Types
<1>3. \A d \in Clients \ {c} : View(d)' = View(d) /\ cpc'[d] = cpc[d]
  BY <1>1 DEF View, Types
<1>4. Types'
  <2>1. get_q[c] \in Seq(Announcements) /\ get_q[c] # <<>>
    BY <1>1 DEF Types
  <2>2. Head(get_q[c]) \in Announcements /\ Tail(get_q[c]) \in Seq(Announcements)
    BY <2>1
  <2>3. SegmentsNeeded(FileLen[c]) \in Nat
    BY SegmentsNeededType, ChannelsAssumption
  <2> QED
    BY <1>1, <2>2, <2>3 DEF Types, serverVars
<1>5. linked' = linked /\ main_q' = main_q /\ cpc[c] \notin {"create", "done"}
  BY <1>1 DEF Types
<1> HIDE DEF v, w, SendPrelim, ClientGoto, ReceiveGet, StartPhase
<1>6. ASSUME NEW x, NEW p, NEW n \in Nat, NEW a \in Announcements,
             IsTask(x), x.client = c, a.len = x.len, Len(a.ids) = n
      PROVE  /\ x.len = FileLen[c] /\ UploadAt(v, x, p, n, a) => UploadAt(w, x, p, n, a)
             /\ DownloadAt(v, x, p, n, a) => DownloadAt(w, x, p, n, a)
  <2> USE <1>2, <1>6 DEF Quiet, Dead
  <2>1. ASSUME x.len = FileLen[c], UploadAt(v, x, p, n, a)
        PROVE  UploadAt(w, x, p, n, a)
    <3>1. CASE p \notin {"announce", "ack"}
      BY <2>1, <3>1 DEF UploadAt, Sent
    <3>2. CASE p \in {"announce", "ack"}
      <4>1. /\ v.put = 0 /\ x.index = 0 /\ Before(x)
            /\ v.get = (IF p = "announce" THEN <<a>> ELSE <<a, a>>)
        BY <2>1, <3>2, ShortQueues DEF UploadAt, Sent
      <4>2. InStep(w, x)
        BY <2>1, <4>1 DEF InStep, Before, Underway, IsTask
      <4>3. w.get = (IF p = "announce" THEN <<>> ELSE <<a>>)
        BY <3>2, <4>1, ShortQueues
      <4> QED
        BY <3>2, <4>1, <4>2, <4>3 DEF UploadAt
    <3> QED
      BY <3>1, <3>2
  <2>2. ASSUME DownloadAt(v, x, p, n, a)
        PROVE  DownloadAt(w, x, p, n, a)
    BY <2>2 DEF DownloadAt, Between, Received
  <2> QED
    BY <2>1, <2>2
<1>7. ~ Requested(v) /\ ~ Nowhere(v)
  BY <1>2 DEF Requested, Nowhere, Quiet
<1>8. cpc[c] \notin {"create", "done"} => c \in linked
  BY DEF IInv, Consistent
<1> QED
  BY <1>3, <1>4, <1>5, <1>6, <1>7, <1>8, ClientMove DEF v, w

LEMMA SendReceiveInv ==
  ASSUME IInv, NEW c \in Clients, SendReceive(c), UNCHANGED serverVars
  PROVE  IInv'
<1> USE DEF SendReceive, ClientGoto, ReceiveGet
<1> DEFINE v == View(c)
           w == View(c)'
<1>1. Types
  BY DEF IInv
<1>2. /\ v.pc = "send_loop" /\ w.pc = "send_copy"
      /\ w.ii = v.ii /\ w.needed = v.needed /\ w.to_recv = v.to_recv
      /\ v.get # <<>> /\ w.msg = Head(v.get) /\ w.get = Tail(v.get) /\ w.put = v.put
      /\ v.ii < v.needed /\ v.ii \in Nat /\ v.needed \in Nat
  BY <1>1 DEF View, Types
<1>3. \A d \in Clients \ {c} : View(d)' = View(d) /\ cpc'[d] = cpc[d]
  BY <1>1 DEF View, Types
<1>4. Types'
  <2>1. get_q[c] \in Seq(Announcements) /\ get_q[c] # <<>>
    BY <1>1 DEF Types
  <2>2. Head(get_q[c]) \in Announcements /\ Tail(get_q[c]) \in Seq(Announcements)
    BY <2>1
  <2> QED
    BY <1>1, <2>2 DEF Types, serverVars
<1>5. linked' = linked /\ main_q' = main_q /\ cpc[c] \notin {"create", "done"}
  BY <1>1 DEF Types
<1> HIDE DEF v, w, SendReceive, ClientGoto, ReceiveGet
<1>6. ASSUME NEW x, NEW p, NEW n \in Nat, NEW a \in Announcements,
             IsTask(x), x.client = c, a.len = x.len, Len(a.ids) = n
      PROVE  /\ x.len = FileLen[c] /\ UploadAt(v, x, p, n, a) => UploadAt(w, x, p, n, a)
             /\ DownloadAt(v, x, p, n, a) => DownloadAt(w, x, p, n, a)
  <2> USE <1>2, <1>6 DEF Quiet, Dead
  <2>1. ASSUME x.len = FileLen[c], UploadAt(v, x, p, n, a)
        PROVE  UploadAt(w, x, p, n, a)
    BY <2>1, ShortQueues DEF UploadAt, Sent, InStep
  <2>2. ASSUME DownloadAt(v, x, p, n, a)
        PROVE  DownloadAt(w, x, p, n, a)
    BY <2>2 DEF DownloadAt, Between, Received, LoopOver
  <2> QED
    BY <2>1, <2>2
<1>7. ~ Requested(v) /\ ~ Nowhere(v)
  BY <1>2 DEF Requested, Nowhere
<1>8. cpc[c] \notin {"create", "done"} => c \in linked
  BY DEF IInv, Consistent
<1> QED
  BY <1>3, <1>4, <1>5, <1>6, <1>7, <1>8, ClientMove DEF v, w

LEMMA SendCopyInv ==
  ASSUME IInv, NEW c \in Clients, SendCopy(c), UNCHANGED serverVars
  PROVE  IInv'
<1> USE DEF SendCopy, ClientGoto, CountDown
<1> DEFINE v == View(c)
           w == View(c)'
<1>1. Types
  BY DEF IInv
<1>2. /\ v.pc = "send_copy" /\ w.pc = "send_ack"
      /\ w.to_recv = v.to_recv - ChunksInPass(v.msg.ids, v.to_recv)
      /\ w.ii = v.ii /\ w.needed = v.needed /\ w.msg = v.msg /\ w.get = v.get /\ w.put = v.put
  BY <1>1 DEF View, Types
<1>3. \A d \in Clients \ {c} : View(d)' = View(d) /\ cpc'[d] = cpc[d]
  BY <1>1 DEF View, Types
<1>4. Types'
  <2>1. \A s \in SegIds : DOMAIN shm'[s] = 0 .. SegSize - 1
    BY DEF ToSegments
  <2>2. shm' = [s \in SegIds |-> shm'[s]]
    BY DEF ToSegments
  <2>3. to_recv' \in [Clients -> Nat]
    <3>1. msg[c] \in Announcements /\ to_recv[c] \in Nat /\ to_recv \in [Clients -> Nat]
      BY <1>1 DEF Types
    <3>2. Len(msg[c].ids) \in Nat
      BY <3>1 DEF Announcements
    <3> QED
      BY <3>1, <3>2 DEF ChunksInPass
  <2> QED
    BY <1>1, <2>1, <2>2, <2>3 DEF Types, serverVars
<1>5. linked' = linked /\ main_q' = main_q /\ cpc[c] \notin {"create", "done"}
  BY <1>1 DEF Types
<1> HIDE DEF v, w, SendCopy, ClientGoto, CountDown
<1>6. ASSUME NEW x, NEW p, NEW n \in Nat, NEW a \in Announcements,
             IsTask(x), x.client = c, a.len = x.len, Len(a.ids) = n
      PROVE  /\ x.len = FileLen[c] /\ UploadAt(v, x, p, n, a) => UploadAt(w, x, p, n, a)
             /\ DownloadAt(v, x, p, n, a) => DownloadAt(w, x, p, n, a)
  <2> USE <1>2, <1>6 DEF Quiet, Dead
  <2>1. ASSUME x.len = FileLen[c], UploadAt(v, x, p, n, a)
        PROVE  UploadAt(w, x, p, n, a)
    BY <2>1 DEF UploadAt, Sent, InStep, PassCopied, Before, Underway, Rest, ChunksInPass, IsTask
  <2>2. ASSUME DownloadAt(v, x, p, n, a)
        PROVE  DownloadAt(w, x, p, n, a)
    BY <2>2 DEF DownloadAt, Between, Received
  <2> QED
    BY <2>1, <2>2
<1>7. ~ Requested(v) /\ ~ Nowhere(v)
  BY <1>2 DEF Requested, Nowhere
<1>8. cpc[c] \notin {"create", "done"} => c \in linked
  BY DEF IInv, Consistent
<1> QED
  BY <1>3, <1>4, <1>5, <1>6, <1>7, <1>8, ClientMove DEF v, w

LEMMA SendAckOKInv ==
  ASSUME IInv, NEW c \in Clients, SendAckOK(c), UNCHANGED serverVars
  PROVE  IInv'
<1> USE DEF SendAckOK, ClientGoto, SendAck, CountUp
<1> DEFINE v == View(c)
           w == View(c)'
<1>1. Types
  BY DEF IInv
<1>2. /\ v.pc = "send_ack" /\ w.pc = "send_loop"
      /\ w.ii = v.ii + Len(v.msg.ids) /\ w.needed = v.needed /\ w.to_recv = v.to_recv
      /\ w.get = v.get /\ w.put = v.put + 1
  BY <1>1 DEF View, Types
<1>3. \A d \in Clients \ {c} : View(d)' = View(d) /\ cpc'[d] = cpc[d]
  BY <1>1 DEF View, Types
<1>4. Types'
  <2>1. ii' \in [Clients -> Nat]
    <3>1. msg[c] \in Announcements /\ ii[c] \in Nat /\ ii \in [Clients -> Nat]
      BY <1>1 DEF Types
    <3>2. Len(msg[c].ids) \in Nat
      BY <3>1 DEF Announcements
    <3> QED
      BY <3>1, <3>2
  <2>2. put_q' \in [Clients -> Nat]
    BY <1>1 DEF Types
  <2> QED
    BY <1>1, <2>1, <2>2 DEF Types, serverVars
<1>5. linked' = linked /\ main_q' = main_q /\ cpc[c] \notin {"create", "done"}
  BY <1>1 DEF Types
<1> HIDE DEF v, w, SendAckOK, ClientGoto, SendAck, CountUp
<1>6. ASSUME NEW x, NEW p, NEW n \in Nat, NEW a \in Announcements,
             IsTask(x), x.client = c, a.len = x.len, Len(a.ids) = n
      PROVE  /\ x.len = FileLen[c] /\ UploadAt(v, x, p, n, a) => UploadAt(w, x, p, n, a)
             /\ DownloadAt(v, x, p, n, a) => DownloadAt(w, x, p, n, a)
  <2> USE <1>2, <1>6 DEF Quiet, Dead
  <2>1. ASSUME x.len = FileLen[c], UploadAt(v, x, p, n, a)
        PROVE  UploadAt(w, x, p, n, a)
    BY <2>1 DEF UploadAt, Sent, PassCopied, PassDone
  <2>2. ASSUME DownloadAt(v, x, p, n, a)
        PROVE  DownloadAt(w, x, p, n, a)
    BY <2>2 DEF DownloadAt, Between, Received
  <2> QED
    BY <2>1, <2>2
<1>7. ~ Requested(v) /\ ~ Nowhere(v)
  BY <1>2 DEF Requested, Nowhere
<1>8. cpc[c] \notin {"create", "done"} => c \in linked
  BY DEF IInv, Consistent
<1> QED
  BY <1>3, <1>4, <1>5, <1>6, <1>7, <1>8, ClientMove DEF v, w

LEMMA SendDoneInv ==
  ASSUME IInv, NEW c \in Clients, SendDone(c), UNCHANGED serverVars
  PROVE  IInv'
<1> USE DEF SendDone, ClientGoto, channelVars
<1> DEFINE v == View(c)
           w == View(c)'
<1>1. Types
  BY DEF IInv
<1>2. /\ v.pc = "send_loop" /\ w.pc = "recv_prelim"
      /\ w.ii = v.ii /\ w.needed = v.needed /\ w.to_recv = v.to_recv /\ w.get = v.get /\ w.put = v.put
      /\ v.ii >= v.needed /\ v.ii \in Nat /\ v.needed \in Nat
  BY <1>1 DEF View, Types
<1>3. \A d \in Clients \ {c} : View(d)' = View(d) /\ cpc'[d] = cpc[d]
  BY <1>1 DEF View, Types
<1>4. Types'
  BY <1>1, ClientAssumption DEF Types, serverVars, channelVars
<1>5. linked' = linked /\ main_q' = main_q /\ cpc[c] \notin {"create", "done"}
  BY <1>1 DEF Types
<1> HIDE DEF v, w, SendDone, ClientGoto
<1>6. ASSUME NEW x, NEW p, NEW n \in Nat, NEW a \in Announcements,
             IsTask(x), x.client = c, a.len = x.len, Len(a.ids) = n
      PROVE  /\ x.len = FileLen[c] /\ UploadAt(v, x, p, n, a) => UploadAt(w, x, p, n, a)
             /\ DownloadAt(v, x, p, n, a) => DownloadAt(w, x, p, n, a)
  <2> USE <1>2, <1>6 DEF Quiet, Dead
  <2>1. ASSUME x.len = FileLen[c], UploadAt(v, x, p, n, a)
        PROVE  UploadAt(w, x, p, n, a)
    BY <2>1 DEF UploadAt, Sent, PassDone, LoopOver, InStep, Before, Underway, IsTask
  <2>2. ASSUME DownloadAt(v, x, p, n, a)
        PROVE  DownloadAt(w, x, p, n, a)
    BY <2>2 DEF DownloadAt, Between, Received, LoopOver
  <2> QED
    BY <2>1, <2>2
<1>7. ~ Requested(v) /\ ~ Nowhere(v)
  BY <1>2 DEF Requested, Nowhere
<1>8. cpc[c] \notin {"create", "done"} => c \in linked
  BY DEF IInv, Consistent
<1> QED
  BY <1>3, <1>4, <1>5, <1>6, <1>7, <1>8, ClientMove DEF v, w

LEMMA RecvPrelimInv ==
  ASSUME IInv, NEW c \in Clients, RecvPrelim(c), UNCHANGED serverVars
  PROVE  IInv'
<1> USE DEF RecvPrelim, ClientGoto, ReceiveGet, StartPhase
<1> DEFINE v == View(c)
           w == View(c)'
<1>1. Types
  BY DEF IInv
<1>2. /\ v.pc = "recv_prelim" /\ w.pc = "recv_loop" /\ w.ii = 0
      /\ v.get # <<>> /\ w.msg = Head(v.get) /\ w.get = Tail(v.get) /\ w.put = v.put
      /\ w.needed = SegmentsNeeded(Head(v.get).len) /\ w.to_recv = SegmentsNeeded(Head(v.get).len)
  BY <1>1 DEF View, Types
<1>3. \A d \in Clients \ {c} : View(d)' = View(d) /\ cpc'[d] = cpc[d]
  BY <1>1 DEF View, Types
<1>4. Types'
  <2>1. get_q[c] \in Seq(Announcements) /\ get_q[c] # <<>>
    BY <1>1 DEF Types
  <2>2. Head(get_q[c]) \in Announcements /\ Tail(get_q[c]) \in Seq(Announcements)
    BY <2>1
  <2>3. SegmentsNeeded(Head(get_q[c]).len) \in Nat
    BY <2>2, SegmentsNeededType DEF Announcements
  <2> QED
    BY <1>1, <2>2, <2>3 DEF Types, serverVars
<1>5. linked' = linked /\ main_q' = main_q /\ cpc[c] \notin {"create", "done"}
  BY <1>1 DEF Types
<1> HIDE DEF v, w, RecvPrelim, ClientGoto, ReceiveGet, StartPhase
<1>6. ASSUME NEW x, NEW p, NEW n \in Nat, NEW a \in Announcements,
             IsTask(x), x.client = c, a.len = x.len, Len(a.ids) = n
      PROVE  /\ x.len = FileLen[c] /\ UploadAt(v, x, p, n, a) => UploadAt(w, x, p, n, a)
             /\ DownloadAt(v, x, p, n, a) => DownloadAt(w, x, p, n, a)
  <2> USE <1>2, <1>6 DEF Quiet, Dead
  <2>1. ASSUME x.len = FileLen[c], UploadAt(v, x, p, n, a)
        PROVE  UploadAt(w, x, p, n, a)
    BY <2>1 DEF UploadAt, Sent
  <2>2. ASSUME DownloadAt(v, x, p, n, a)
        PROVE  DownloadAt(w, x, p, n, a)
    <3>1. CASE p \notin {"copy", "announce", "ack"}
      BY <2>2, <3>1 DEF DownloadAt, Received
    <3>2. CASE p \in {"copy", "announce", "ack"}
      <4>1. /\ v.put = 0 /\ x.index = 0
            /\ IF p = "copy" THEN Before(x) ELSE After(x, n)
            /\ v.get = (IF p = "ack" THEN <<a, a>> ELSE <<a>>)
        BY <2>2, <3>2, ShortQueues DEF DownloadAt, Received
      <4>2. InStep(w, x)
        BY <3>2, <4>1, ShortQueues DEF InStep, Before, After, Underway, IsTask
      <4>3. w.get = (IF p = "ack" THEN <<a>> ELSE <<>>)
        BY <3>2, <4>1, ShortQueues
      <4> QED
        BY <3>2, <4>1, <4>2, <4>3 DEF DownloadAt
    <3> QED
      BY <3>1, <3>2
  <2> QED
    BY <2>1, <2>2
<1>7. ~ Requested(v) /\ ~ Nowhere(v)
  BY <1>2 DEF Requested, Nowhere, Quiet
<1>8. cpc[c] \notin {"create", "done"} => c \in linked
  BY DEF IInv, Consistent
<1> QED
  BY <1>3, <1>4, <1>5, <1>6, <1>7, <1>8, ClientMove DEF v, w

LEMMA RecvReceiveInv ==
  ASSUME IInv, NEW c \in Clients, RecvReceive(c), UNCHANGED serverVars
  PROVE  IInv'
<1> USE DEF RecvReceive, ClientGoto, ReceiveGet
<1> DEFINE v == View(c)
           w == View(c)'
<1>1. Types
  BY DEF IInv
<1>2. /\ v.pc = "recv_loop" /\ w.pc = "recv_copy"
      /\ w.ii = v.ii /\ w.needed = v.needed /\ w.to_recv = v.to_recv
      /\ v.get # <<>> /\ w.msg = Head(v.get) /\ w.get = Tail(v.get) /\ w.put = v.put
  BY <1>1 DEF View, Types
<1>3. \A d \in Clients \ {c} : View(d)' = View(d) /\ cpc'[d] = cpc[d]
  BY <1>1 DEF View, Types
<1>4. Types'
  <2>1. get_q[c] \in Seq(Announcements) /\ get_q[c] # <<>>
    BY <1>1 DEF Types
  <2>2. Head(get_q[c]) \in Announcements /\ Tail(get_q[c]) \in Seq(Announcements)
    BY <2>1
  <2> QED
    BY <1>1, <2>2 DEF Types, serverVars
<1>5. linked' = linked /\ main_q' = main_q /\ cpc[c] \notin {"create", "done"}
  BY <1>1 DEF Types
<1> HIDE DEF v, w, RecvReceive, ClientGoto, ReceiveGet
<1>6. ASSUME NEW x, NEW p, NEW n \in Nat, NEW a \in Announcements,
             IsTask(x), x.client = c, a.len = x.len, Len(a.ids) = n
      PROVE  /\ x.len = FileLen[c] /\ UploadAt(v, x, p, n, a) => UploadAt(w, x, p, n, a)
             /\ DownloadAt(v, x, p, n, a) => DownloadAt(w, x, p, n, a)
  <2> USE <1>2, <1>6 DEF Quiet, Dead
  <2>1. ASSUME x.len = FileLen[c], UploadAt(v, x, p, n, a)
        PROVE  UploadAt(w, x, p, n, a)
    BY <2>1 DEF UploadAt, Sent
  <2>2. ASSUME DownloadAt(v, x, p, n, a)
        PROVE  DownloadAt(w, x, p, n, a)
    BY <2>2, ShortQueues DEF DownloadAt, Between, Received, InStep
  <2> QED
    BY <2>1, <2>2
<1>7. ~ Requested(v) /\ ~ Nowhere(v)
  BY <1>2 DEF Requested, Nowhere, Quiet
<1>8. cpc[c] \notin {"create", "done"} => c \in linked
  BY DEF IInv, Consistent
<1> QED
  BY <1>3, <1>4, <1>5, <1>6, <1>7, <1>8, ClientMove DEF v, w

LEMMA RecvCopyInv ==
  ASSUME IInv, NEW c \in Clients, RecvCopy(c), UNCHANGED serverVars
  PROVE  IInv'
<1> USE DEF RecvCopy, ClientGoto, CountDown, channelVars
<1> DEFINE v == View(c)
           w == View(c)'
<1>1. Types
  BY DEF IInv
<1>2. /\ v.pc = "recv_copy" /\ w.pc = "recv_ack"
      /\ w.to_recv = v.to_recv - ChunksInPass(v.msg.ids, v.to_recv)
      /\ w.ii = v.ii /\ w.needed = v.needed /\ w.msg = v.msg /\ w.get = v.get /\ w.put = v.put
  BY <1>1 DEF View, Types
<1>3. \A d \in Clients \ {c} : View(d)' = View(d) /\ cpc'[d] = cpc[d]
  BY <1>1 DEF View, Types
<1>4. Types'
  <2>3. to_recv' \in [Clients -> Nat]
    <3>1. msg[c] \in Announcements /\ to_recv[c] \in Nat /\ to_recv \in [Clients -> Nat]
      BY <1>1 DEF Types
    <3>2. Len(msg[c].ids) \in Nat
      BY <3>1 DEF Announcements
    <3> QED
      BY <3>1, <3>2 DEF ChunksInPass
  <2> QED
    BY <1>1, <2>3 DEF Types, serverVars
<1>5. linked' = linked /\ main_q' = main_q /\ cpc[c] \notin {"create", "done"}
  BY <1>1 DEF Types
<1> HIDE DEF v, w, RecvCopy, ClientGoto, CountDown, channelVars
<1>6. ASSUME NEW x, NEW p, NEW n \in Nat, NEW a \in Announcements,
             IsTask(x), x.client = c, a.len = x.len, Len(a.ids) = n
      PROVE  /\ x.len = FileLen[c] /\ UploadAt(v, x, p, n, a) => UploadAt(w, x, p, n, a)
             /\ DownloadAt(v, x, p, n, a) => DownloadAt(w, x, p, n, a)
  <2> USE <1>2, <1>6 DEF Quiet, Dead
  <2>1. ASSUME x.len = FileLen[c], UploadAt(v, x, p, n, a)
        PROVE  UploadAt(w, x, p, n, a)
    BY <2>1 DEF UploadAt, Sent
  <2>2. ASSUME DownloadAt(v, x, p, n, a)
        PROVE  DownloadAt(w, x, p, n, a)
    BY <2>2 DEF DownloadAt, Between, Received, InStep, PassCopied, After, Underway, Rest, ChunksInPass, IsTask
  <2> QED
    BY <2>1, <2>2
<1>7. ~ Requested(v) /\ ~ Nowhere(v)
  BY <1>2 DEF Requested, Nowhere
<1>8. cpc[c] \notin {"create", "done"} => c \in linked
  BY DEF IInv, Consistent
<1> QED
  BY <1>3, <1>4, <1>5, <1>6, <1>7, <1>8, ClientMove DEF v, w

LEMMA RecvAckOKInv ==
  ASSUME IInv, NEW c \in Clients, RecvAckOK(c), UNCHANGED serverVars
  PROVE  IInv'
<1> USE DEF RecvAckOK, ClientGoto, SendAck, CountUp
<1> DEFINE v == View(c)
           w == View(c)'
<1>1. Types
  BY DEF IInv
<1>2. /\ v.pc = "recv_ack" /\ w.pc = "recv_loop"
      /\ w.ii = v.ii + Len(v.msg.ids) /\ w.needed = v.needed /\ w.to_recv = v.to_recv
      /\ w.get = v.get /\ w.put \in {v.put, v.put + 1}
  BY <1>1 DEF View, Types
<1>3. \A d \in Clients \ {c} : View(d)' = View(d) /\ cpc'[d] = cpc[d]
  BY <1>1 DEF View, Types
<1>4. Types'
  <2>1. ii' \in [Clients -> Nat]
    <3>1. msg[c] \in Announcements /\ ii[c] \in Nat /\ ii \in [Clients -> Nat]
      BY <1>1 DEF Types
    <3>2. Len(msg[c].ids) \in Nat
      BY <3>1 DEF Announcements
    <3> QED
      BY <3>1, <3>2
  <2>2. put_q' \in [Clients -> Nat]
    <3>1. put_q \in [Clients -> Nat]
      BY <1>1 DEF Types
    <3>2. put_q' = put_q \/ put_q' = [put_q EXCEPT ![c] = @ + 1]
      OBVIOUS
    <3> HIDE DEF RecvAckOK
    <3> QED
      BY <3>1, <3>2
  <2> QED
    BY <1>1, <2>1, <2>2 DEF Types, serverVars
<1>5. linked' = linked /\ main_q' = main_q /\ cpc[c] \notin {"create", "done"}
  BY <1>1 DEF Types
<1> HIDE DEF v, w, RecvAckOK, ClientGoto, SendAck, CountUp
<1>6. ASSUME NEW x, NEW p, NEW n \in Nat, NEW a \in Announcements,
             IsTask(x), x.client = c, a.len = x.len, Len(a.ids) = n
      PROVE  /\ x.len = FileLen[c] /\ UploadAt(v, x, p, n, a) => UploadAt(w, x, p, n, a)
             /\ DownloadAt(v, x, p, n, a) => DownloadAt(w, x, p, n, a)
  <2> USE <1>2, <1>6 DEF Quiet, Dead
  <2>1. ASSUME x.len = FileLen[c], UploadAt(v, x, p, n, a)
        PROVE  UploadAt(w, x, p, n, a)
    BY <2>1 DEF UploadAt, Sent
  <2>2. ASSUME DownloadAt(v, x, p, n, a)
        PROVE  DownloadAt(w, x, p, n, a)
    BY <2>2 DEF DownloadAt, Between, Received, PassCopied, PassDone
  <2> QED
    BY <2>1, <2>2
<1>7. ~ Requested(v) /\ ~ Nowhere(v)
  BY <1>2 DEF Requested, Nowhere
<1>8. cpc[c] \notin {"create", "done"} => c \in linked
  BY DEF IInv, Consistent
<1> QED
  BY <1>3, <1>4, <1>5, <1>6, <1>7, <1>8, ClientMove DEF v, w

LEMMA FinishInv ==
  ASSUME IInv, NEW c \in Clients, Finish(c), UNCHANGED serverVars
  PROVE  IInv'
<1> USE DEF Finish, ClientGoto
<1> DEFINE v == View(c)
           w == View(c)'
<1>1. Types
  BY DEF IInv
<1>2. /\ v.pc = "recv_loop" /\ w.pc = "done"
      /\ w.ii = v.ii /\ w.needed = v.needed /\ w.to_recv = v.to_recv /\ w.get = v.get /\ w.put = v.put
      /\ v.ii >= v.needed /\ v.ii \in Nat /\ v.needed \in Nat
  BY <1>1 DEF View, Types
<1>3. \A d \in Clients \ {c} : View(d)' = View(d) /\ cpc'[d] = cpc[d]
  BY <1>1 DEF View, Types
<1>4. Types'
  BY <1>1 DEF Types, serverVars
<1>5. linked' = linked \ {c} /\ main_q' = main_q /\ cpc'[c] = "done"
  BY <1>1 DEF Types
<1> HIDE DEF v, w, Finish, ClientGoto
<1>6. ASSUME NEW x, NEW p, NEW n \in Nat, NEW a \in Announcements,
             IsTask(x), x.client = c, a.len = x.len, Len(a.ids) = n
      PROVE  /\ x.len = FileLen[c] /\ UploadAt(v, x, p, n, a) => UploadAt(w, x, p, n, a)
             /\ DownloadAt(v, x, p, n, a) => DownloadAt(w, x, p, n, a)
  <2> USE <1>2, <1>6 DEF Quiet, Dead
  <2>1. ASSUME x.len = FileLen[c], UploadAt(v, x, p, n, a)
        PROVE  UploadAt(w, x, p, n, a)
    BY <2>1 DEF UploadAt, Sent
  <2>2. ASSUME DownloadAt(v, x, p, n, a)
        PROVE  DownloadAt(w, x, p, n, a)
    BY <2>2 DEF DownloadAt, Between, Received, PassDone, LoopOver, InStep, Before, After, Underway, IsTask
  <2> QED
    BY <2>1, <2>2
<1>7. ~ Requested(v) /\ (Nowhere(v) => Nowhere(w))
  BY <1>2 DEF Requested, Nowhere, Quiet, LoopOver
<1>8. cpc[c] \notin {"create", "done"} => c \in linked
  BY DEF IInv, Consistent
<1> QED
  BY <1>3, <1>4, <1>5, <1>6, <1>7, <1>8, ClientMove DEF v, w

LEMMA CrashInv ==
  ASSUME IInv, NEW c \in Clients, Crash(c), UNCHANGED serverVars
  PROVE  IInv'
<1> USE DEF Crash, channelVars
<1> DEFINE v == View(c)
           w == View(c)'
<1>1. Types
  BY DEF IInv
<1>2. /\ v.pc \notin {"create", "done", "crashed"} /\ w.pc = "crashed"
      /\ w.get = v.get /\ w.put = v.put
  BY <1>1 DEF View, Types
<1>3. \A d \in Clients \ {c} : View(d)' = View(d) /\ cpc'[d] = cpc[d]
  BY <1>1 DEF View, Types
<1>4. Types'
  BY <1>1 DEF Types, serverVars
<1>5. linked' = linked /\ main_q' = main_q /\ cpc[c] \notin {"create", "done"}
  BY <1>1 DEF Types
<1> HIDE DEF v, w, Crash, channelVars
<1>6. ASSUME NEW x, NEW p, NEW n \in Nat, NEW a \in Announcements,
             IsTask(x), x.client = c, a.len = x.len, Len(a.ids) = n
      PROVE  /\ x.len = FileLen[c] /\ UploadAt(v, x, p, n, a) => UploadAt(w, x, p, n, a)
             /\ DownloadAt(v, x, p, n, a) => DownloadAt(w, x, p, n, a)
  <2> USE <1>2, <1>6 DEF Quiet, Dead
  <2>1. ASSUME x.len = FileLen[c], UploadAt(v, x, p, n, a)
        PROVE  UploadAt(w, x, p, n, a)
    BY <2>1 DEF UploadAt
  <2>2. ASSUME DownloadAt(v, x, p, n, a)
        PROVE  DownloadAt(w, x, p, n, a)
    BY <2>2 DEF DownloadAt
  <2> QED
    BY <2>1, <2>2
<1>7. (Requested(v) => Requested(w)) /\ (Nowhere(v) => Nowhere(w))
  BY <1>2 DEF Requested, Nowhere, Quiet
<1>8. cpc[c] \notin {"create", "done"} => c \in linked
  BY DEF IInv, Consistent
<1> QED
  BY <1>3, <1>4, <1>5, <1>6, <1>7, <1>8, ClientMove DEF v, w

-----------------------------------------------------------------------------
(* A call whose request has not been sent is in no place of the server.    *)
LEMMA NotYetPresent ==
  ASSUME IInv, NEW c \in Clients, cpc[c] \in {"create", "request"}
  PROVE  c \notin Present
<1> DEFINE v == View(c)
<1>1. Consistent(c) /\ Tasks /\ Threading /\ Types
  BY DEF IInv
<1>2. v.pc \in {"create", "request"}
  BY DEF View
<1> HIDE DEF v
<1>3. c \notin ClientsIn(main_q) /\ c \notin ClientsIn(listened)
  BY <1>1, <1>2 DEF Consistent, Requested, v
<1>4. c \notin ClientsIn(client_q)
  <2> SUFFICES ASSUME NEW x \in Range(client_q), x.client = c
               PROVE  FALSE
    BY DEF ClientsIn
  <2>1. UploadAt(v, x, "queued", 0, NoGrant(x)) /\ ClientTask(x)
    BY <1>1 DEF Consistent, Tasks, v
  <2> QED
    BY <1>2, <2>1 DEF UploadAt, Dead, ClientTask, IsTask
<1>5. c \notin ClientsIn(task_q)
  <2> SUFFICES ASSUME NEW x \in Range(task_q), x.client = c
               PROVE  FALSE
    BY DEF ClientsIn
  <2>1. DownloadAt(v, x, "queued", 0, NoGrant(x)) /\ CompressionTask(x, "queued")
    BY <1>1 DEF Consistent, Tasks, v
  <2> QED
    BY <1>2, <2>1 DEF DownloadAt, Dead, Between, CompressionTask, IsTask
<1>6. ASSUME c \in InHand(ClientQ)
      PROVE  FALSE
  <2>1. UploadAt(v, cur[ClientQ], tpc[ClientQ], Grant(ClientQ), Announced(ClientQ))
    BY <1>1, <1>6 DEF Consistent, v
  <2>2. /\ tpc[ClientQ] \in {"grab", "open", "prelim", "announce", "ack", "copy", "finish"}
        /\ cur[ClientQ].fresh \in BOOLEAN
    BY <1>1, <1>6 DEF InHand, Types, Threading, Threads, Tasks, ClientTask, IsTask
  <2> QED
    BY <1>2, <2>1, <2>2 DEF UploadAt, Dead, Sent
<1>7. ASSUME c \in InHand(Work)
      PROVE  FALSE
  <2>1. DownloadAt(v, cur[Work], tpc[Work], Grant(Work), Announced(Work))
    BY <1>1, <1>7 DEF Consistent, v
  <2>2. /\ tpc[Work] \in {"compress", "grab", "open", "prelim", "announce", "ack", "copy", "finish"}
        /\ cur[Work].fresh \in BOOLEAN
    BY <1>1, <1>7 DEF InHand, Types, Threads, Tasks, CompressionTask, IsTask
  <2> QED
    BY <1>2, <2>1, <2>2 DEF DownloadAt, Dead, Between, Received
<1> QED
  BY <1>3, <1>4, <1>5, <1>6, <1>7 DEF Present

LEMMA RequestInv ==
  ASSUME IInv, NEW c \in Clients, Request(c), UNCHANGED serverVars
  PROVE  IInv'
<1> USE DEF Request, ClientGoto, serverVars
<1> DEFINE r == [client |-> c, len |-> FileLen[c]]
<1>1. Types
  BY DEF IInv
<1>2. c \notin Present
  BY NotYetPresent
<1>3. main_q \in Seq(Range(main_q)) /\ main_q \in Seq(AllRequests) /\ r \in AllRequests
  BY <1>1, RangeType DEF Types, AllRequests
<1>4. /\ Types' /\ Tasks' /\ Threading'
  <2>1. main_q' \in Seq(AllRequests)
    BY <1>3
  <2>2. cpc' = [cpc EXCEPT ![c] = "send_prelim"]
    OBVIOUS
  <2>3. cpc' \in [Clients -> {"create", "request", "send_prelim", "send_loop", "send_copy",
                              "send_ack", "recv_prelim", "recv_loop", "recv_copy", "recv_ack",
                              "done", "crashed"}]
    BY <1>1, <2>2 DEF Types
  <2>4. Types'
    BY <1>1, <2>1, <2>3 DEF Types
  <2> QED
    BY <2>4 DEF IInv, Tasks, Threading
<1>5. /\ InHand(ClientQ)' = InHand(ClientQ) /\ InHand(Work)' = InHand(Work)
      /\ ClientsIn(main_q)' = ClientsIn(main_q) \cup {c}
  BY <1>3, AppendRange DEF InHand
<1>6. Homes'
  <2>1. Distinct(main_q)'
    BY <1>2, <1>3, AppendDistinct DEF IInv, Homes, Present
  <2>2. Separate(ClientsIn(main_q), ClientsIn(listened), ClientsIn(client_q), InHand(ClientQ),
                 ClientsIn(task_q), InHand(Work))'
    BY <1>2, <1>5 DEF IInv, Homes, Separate, Present
  <2> QED
    BY <2>1, <2>2 DEF IInv, Homes
<1>7. Present' = Present \cup {c}
  BY <1>5 DEF Present
<1>8. /\ Grant(ClientQ)' = Grant(ClientQ) /\ Announced(ClientQ)' = Announced(ClientQ)
      /\ Grant(Work)' = Grant(Work) /\ Announced(Work)' = Announced(Work)
  BY DEF Grant, Announced, Ids
<1>9. ASSUME NEW d \in Clients \ {c}
      PROVE  Consistent(d)'
  <2>1. View(d)' = View(d) /\ cpc'[d] = cpc[d]
    BY <1>1 DEF View, Types
  <2>2. Consistent(d)
    BY DEF IInv
  <2> QED
    BY <1>5, <1>7, <1>8, <2>1, <2>2 DEF Consistent
<1>10. Consistent(c)'
  <2>1. Nowhere(View(c)) /\ c \in linked
    BY <1>2 DEF IInv, Consistent
  <2>2. Requested(View(c)')
    BY <1>1, <2>1 DEF Requested, Nowhere, Quiet, View, Types
  <2>3. /\ c \notin InHand(ClientQ) /\ c \notin InHand(Work)
        /\ \A x \in Range(client_q) \cup Range(task_q) : x.client # c
    BY <1>2 DEF Present, ClientsIn
  <2> QED
    BY <1>5, <1>7, <2>1, <2>2, <2>3 DEF Consistent
<1> QED
  BY <1>4, <1>6, <1>9, <1>10 DEF IInv

-----------------------------------------------------------------------------
(* The steps of the listen thread.                                         *)
LEMMA ListenInv ==
  ASSUME IInv, Listen, UNCHANGED clientVars
  PROVE  IInv'
<1> USE DEF Listen, clientVars
<1> DEFINE r == Head(main_q)
<1>1. Types /\ Homes
  BY DEF IInv
<1>2. main_q \in Seq(Range(main_q)) /\ main_q \in Seq(AllRequests) /\ Distinct(main_q)
  BY <1>1, RangeType DEF Types, Homes
<1>3. /\ r \in Range(main_q) /\ r \in AllRequests /\ main_q' \in Seq(AllRequests)
      /\ ClientsIn(main_q)' = ClientsIn(main_q) \ {r.client}
      /\ Distinct(main_q)'
  BY <1>2, TailRange
<1>4. ClientsIn(listened)' = {r.client} /\ ClientsIn(listened) = {} /\ Distinct(listened)'
  <2>1. listened' = <<r>> /\ Range(<<r>>) = {r}
    BY DEF Range
  <2> QED
    BY <2>1, EmptyRange DEF ClientsIn, Distinct
<1>5. Types' /\ Tasks' /\ Threading'
  <2>1. Types'
    BY <1>1, <1>3 DEF Types
  <2> QED
    BY <2>1 DEF IInv, Tasks, Threading
<1>6. InHand(ClientQ)' = InHand(ClientQ) /\ InHand(Work)' = InHand(Work)
  BY DEF InHand
<1>7. r.client \in ClientsIn(main_q)
  BY <1>3 DEF ClientsIn
<1>8. Homes'
  BY <1>1, <1>3, <1>4, <1>6, <1>7 DEF Homes, Separate
<1>9. Present' = Present /\ (ClientsIn(main_q) \cup ClientsIn(listened))' =
                              ClientsIn(main_q) \cup ClientsIn(listened)
  BY <1>3, <1>4, <1>6, <1>7 DEF Present
<1>10. /\ Grant(ClientQ)' = Grant(ClientQ) /\ Announced(ClientQ)' = Announced(ClientQ)
       /\ Grant(Work)' = Grant(Work) /\ Announced(Work)' = Announced(Work)
  BY DEF Grant, Announced, Ids
<1>11. ASSUME NEW d \in Clients
       PROVE  Consistent(d)'
  <2>1. View(d)' = View(d)
    BY DEF View
  <2>2. Consistent(d)
    BY DEF IInv
  <2> QED
    BY <1>6, <1>9, <1>10, <2>1, <2>2 DEF Consistent
<1> QED
  BY <1>5, <1>8, <1>11 DEF IInv

LEMMA AddClientInv ==
  ASSUME IInv, AddClient, UNCHANGED clientVars
  PROVE  IInv'
<1> USE DEF AddClient, clientVars, channelVars
<1> DEFINE r == listened[1]
           x0 == Task(r.client, r.len)
<1>1. Types /\ Homes /\ Tasks
  BY DEF IInv
<1>2. /\ r \in AllRequests /\ listened = <<r>>
      /\ ClientsIn(listened) = {r.client} /\ ClientsIn(listened') = {}
  <2>1. Len(listened) = 1 /\ r \in AllRequests /\ listened = <<r>>
    BY <1>1, OneEntry DEF Types
  <2>2. Range(<<r>>) = {r}
    BY DEF Range
  <2> QED
    BY <2>1, <2>2, EmptyRange DEF ClientsIn
<1>3. r.client \in Clients /\ r.len = FileLen[r.client]
  BY <1>2 DEF AllRequests
<1>4. ClientTask(x0) /\ x0.client = r.client /\ x0.fresh
  BY <1>3, NewTask
<1> HIDE DEF x0
<1>5. /\ client_q' = Append(client_q, x0) /\ client_q \in Seq(Range(client_q))
      /\ Range(client_q') = Range(client_q) \cup {x0}
      /\ ClientsIn(client_q') = ClientsIn(client_q) \cup {r.client}
      /\ client_q' \in Seq(Range(client_q'))
  BY <1>1, <1>4, AppendRange DEF Types, x0
<1>6. r.client \notin ClientsIn(client_q)
  BY <1>1, <1>2 DEF Homes, Separate
<1>7. Distinct(client_q') /\ Distinct(listened')
  BY <1>1, <1>4, <1>5, <1>6, AppendDistinct, EmptyRange DEF Homes
<1>8. Types' /\ Tasks' /\ Threading'
  <2>1. Types'
    BY <1>1, <1>5 DEF Types
  <2>2. Tasks'
    BY <1>1, <1>4, <1>5 DEF Tasks
  <2> QED
    BY <2>1, <2>2 DEF IInv, Threading
<1>9. InHand(ClientQ)' = InHand(ClientQ) /\ InHand(Work)' = InHand(Work)
  BY DEF InHand
<1>10. Homes' /\ Present' = Present
  BY <1>1, <1>2, <1>5, <1>7, <1>9 DEF Homes, Separate, Present
<1>11. /\ Grant(ClientQ)' = Grant(ClientQ) /\ Announced(ClientQ)' = Announced(ClientQ)
       /\ Grant(Work)' = Grant(Work) /\ Announced(Work)' = Announced(Work)
  BY DEF Grant, Announced, Ids
<1>12. ASSUME NEW d \in Clients
       PROVE  Consistent(d)'
  <2>1. View(d)' = View(d)
    BY DEF View
  <2>2. Consistent(d)
    BY DEF IInv
  <2>3. \A x \in Range(client_q') : x.client = d => UploadAt(View(d), x, "queued", 0, NoGrant(x))
    <3>1. x0.client = d => UploadAt(View(d), x0, "queued", 0, NoGrant(x0))
      BY <1>2, <1>4, <2>2 DEF Consistent, Requested, UploadAt
    <3> QED
      BY <1>5, <2>2, <3>1 DEF Consistent
  <2>4. d \in (ClientsIn(main_q) \cup ClientsIn(listened))' => Requested(View(d))
    BY <1>2, <2>2 DEF Consistent
  <2> QED
    BY <1>9, <1>10, <1>11, <2>1, <2>2, <2>3, <2>4 DEF Consistent
<1> QED
  BY <1>8, <1>10, <1>12 DEF IInv

-----------------------------------------------------------------------------
(* A step of the thread t, with the task of the client c in hand before    *)
(* and after: only c and its task go from a line of the table to another.  *)
LEMMA ThreadMove ==
  ASSUME IInv, NEW t \in Threads, NEW c \in Clients, Types', Tasks', Threading',
         UNCHANGED <<clientVars, main_q, linked, segment_id, listened, client_q, task_q>>,
         tpc[t] \notin {"pop", "release"}, tpc'[t] \notin {"pop", "release"},
         cur[t].client = c, cur'[t].client = c,
         \A u \in Threads \ {t} : tpc'[u] = tpc[u] /\ cur'[u] = cur[u] /\ held'[u] = held[u],
         \A d \in Clients \ {c} : View(d)' = View(d),
         t = ClientQ => UploadAt(View(c)', cur'[t], tpc'[t], Grant(t)', Announced(t)'),
         t = Work => DownloadAt(View(c)', cur'[t], tpc'[t], Grant(t)', Announced(t)')
  PROVE  IInv'
<1> USE DEF clientVars
<1>1. /\ \A u \in Threads : InHand(u)' = InHand(u)
      /\ InHand(t) = {c}
  BY DEF InHand
<1>2. Present' = Present
  BY <1>1 DEF Present, Threads
<1>3. \A u \in Threads \ {t} : Grant(u)' = Grant(u) /\ Announced(u)' = Announced(u)
  BY DEF Grant, Announced, Ids
<1>4. Homes'
  BY <1>1 DEF IInv, Homes, Threads
<1>5. c \notin ClientsIn(main_q) /\ c \notin ClientsIn(listened)
      /\ c \notin ClientsIn(client_q) /\ c \notin ClientsIn(task_q)
      /\ c \in Present /\ \A u \in Threads \ {t} : c \notin InHand(u)
  BY <1>1 DEF IInv, Homes, Separate, Threads, Present
<1>6. ASSUME NEW d \in Clients, d # c
      PROVE  Consistent(d)'
  <2>1. Consistent(d) /\ View(d)' = View(d) /\ d \notin InHand(t)
    BY <1>1, <1>6 DEF IInv
  <2>2. d \in InHand(ClientQ)' =>
          UploadAt(View(d)', cur'[ClientQ], tpc'[ClientQ], Grant(ClientQ)', Announced(ClientQ)')
    BY <1>1, <1>3, <2>1 DEF Consistent, Threads
  <2>3. d \in InHand(Work)' =>
          DownloadAt(View(d)', cur'[Work], tpc'[Work], Grant(Work)', Announced(Work)')
    BY <1>1, <1>3, <2>1 DEF Consistent, Threads
  <2> QED
    BY <1>2, <2>1, <2>2, <2>3 DEF Consistent
<1>7. Consistent(c)'
  <2>1. \A x \in Range(client_q) \cup Range(task_q) : x.client # c
    BY <1>5 DEF ClientsIn
  <2>2. Consistent(c)
    BY DEF IInv
  <2> QED
    BY <1>1, <1>2, <1>5, <2>1, <2>2 DEF Consistent, Threads
<1> QED
  BY <1>4, <1>6, <1>7 DEF IInv

(* What is known of the thread that steps, whatever the step.              *)
LEMMA ThreadFacts ==
  ASSUME IInv, NEW t \in Threads, tpc[t] \notin {"pop", "release"}
  PROVE  LET c == cur[t].client
             v == View(c)
         IN  /\ c \in Clients /\ IsTask(cur[t]) /\ cur[t].len \in Nat
             /\ t = ClientQ => ClientTask(cur[t]) /\
                               UploadAt(v, cur[t], tpc[t], Grant(t), Announced(t))
             /\ t = Work => CompressionTask(cur[t], tpc[t]) /\
                            DownloadAt(v, cur[t], tpc[t], Grant(t), Announced(t))
             /\ Grant(t) \in Nat /\ (held[t] # {} <=> Grant(t) > 0)
             /\ Announced(t) \in Announcements
             /\ Announcement(cur[t].len, Ids(t)) = Announced(t)
             /\ Ids(t) \in Seq(SegIds) /\ Len(Ids(t)) = Grant(t)
             /\ (tpc[t] \in {"prelim", "copy", "announce", "ack"} => opened[t])
             /\ Types /\ Tasks /\ Threading
<1>1. Types /\ Tasks /\ Threading
  BY DEF IInv
<1>2. /\ IsTask(cur[t]) /\ cur[t].len \in Nat /\ cur[t].client \in Clients
      /\ InHand(t) = {cur[t].client} /\ Announced(t) \in Announcements
  BY <1>1, InHandTask
<1>3. /\ t = ClientQ => ClientTask(cur[t])
      /\ t = Work => CompressionTask(cur[t], tpc[t])
  BY <1>1 DEF Tasks
<1>4. Consistent(cur[t].client)
  BY <1>2 DEF IInv
<1>5. /\ t = ClientQ => UploadAt(View(cur[t].client), cur[t], tpc[t], Grant(t), Announced(t))
      /\ t = Work => DownloadAt(View(cur[t].client), cur[t], tpc[t], Grant(t), Announced(t))
  BY <1>2, <1>4 DEF Consistent
<1> QED
  BY <1>1, <1>2, <1>3, <1>5, GrantType DEF Announced, Threading

LEMMA TaskIsSome ==
  ASSUME NEW x, IsTask(x)
  PROVE  x # NoTask
<1>1. DOMAIN x = TaskFields
  BY DEF IsTask
<1>2. DOMAIN NoTask = {"client"} /\ "len" \in TaskFields
  BY DEF NoTask, TaskFields
<1> QED
  BY <1>1, <1>2

(* A grant is some of the segments, and never none.                        *)
LEMMA GrabType ==
  ASSUME Types, NEW t \in Threads, Pool!Grab(t)
  PROVE  /\ held' \in [Threads -> SUBSET Segs]
         /\ held'[t] # {}
         /\ \A u \in Threads \ {t} : held'[u] = held[u]
<1>1. PICK S \in SUBSET Pool!Free :
        /\ Cardinality(S) = Pool!GrantSize(Cardinality(Pool!Free))
        /\ held' = [held EXCEPT ![t] = S]
  BY DEF Pool!Grab, Pool!Cardinality, Cardinality
<1>2. Pool!Free \subseteq Segs
  BY DEF Pool!Free
<1>3. IsFiniteSet(Pool!Free) /\ Cardinality(Pool!Free) \in Nat
  BY <1>2, SegsFinite, FS_Subset, FS_CardinalityType
<1>4. Cardinality(S) # 0
  BY <1>1, <1>3 DEF Pool!GrantSize
<1>5. S # {}
  BY <1>4, FS_EmptySet
<1> QED
  BY <1>1, <1>2, <1>5 DEF Types

-----------------------------------------------------------------------------
(* The steps of the two threads with a task in hand.                       *)
LEMMA GrabSegmentsInv ==
  ASSUME IInv, NEW t \in Threads, GrabSegments(t), UNCHANGED clientVars
  PROVE  IInv'
<1> USE DEF GrabSegments, ThreadGoto, channelVars, clientVars
<1>1. tpc[t] = "grab" /\ Types /\ Tasks /\ Threading
  BY DEF IInv
<1> PICK c \in Clients : c = cur[t].client
  BY <1>1, ThreadFacts
<1>2. /\ held' \in [Threads -> SUBSET Segs] /\ held'[t] # {}
      /\ \A u \in Threads \ {t} : held'[u] = held[u]
  BY <1>1, GrabType
<1>3. tpc'[t] = "open" /\ \A u \in Threads \ {t} : tpc'[u] = tpc[u]
  BY <1>1 DEF Types
<1>4. Types'
  BY <1>1, <1>2 DEF Types
<1>5. Tasks'
  BY <1>1, <1>3 DEF Tasks, Threads, CompressionTask
<1>6. Threading'
  BY <1>1, <1>2, <1>3 DEF Threading
<1>7. /\ t = ClientQ => UploadAt(View(c), cur[t], "grab", Grant(t), Announced(t))
      /\ t = Work => DownloadAt(View(c), cur[t], "grab", Grant(t), Announced(t))
  BY <1>1, ThreadFacts
<1>8. \A d \in Clients : View(d)' = View(d)
  BY DEF View
<1>9. /\ t = ClientQ => UploadAt(View(c)', cur'[t], "open", Grant(t)', Announced(t)')
      /\ t = Work => DownloadAt(View(c)', cur'[t], "open", Grant(t)', Announced(t)')
  BY <1>7, <1>8 DEF UploadAt, DownloadAt
<1> QED
  BY <1>1, <1>2, <1>3, <1>4, <1>5, <1>6, <1>8, <1>9, ThreadMove

LEMMA OpenQueuesInv ==
  ASSUME IInv, NEW t \in Threads, OpenQueues(t), UNCHANGED clientVars
  PROVE  IInv'
<1> USE DEF OpenQueues, ThreadGoto, channelVars, clientVars
<1> DEFINE q == IF cur[t].fresh THEN "prelim" ELSE IF t = ClientQ THEN "announce" ELSE "copy"
<1>1. tpc[t] = "open" /\ Types /\ Tasks /\ Threading
  BY DEF IInv
<1> PICK c \in Clients : c = cur[t].client
  BY <1>1, ThreadFacts
<1>2. /\ IsTask(cur[t])
      /\ t = ClientQ => UploadAt(View(c), cur[t], "open", Grant(t), Announced(t))
      /\ t = Work => DownloadAt(View(c), cur[t], "open", Grant(t), Announced(t))
  BY <1>1, ThreadFacts
<1>3. View(c).pc \notin {"create", "done"}
  BY <1>2 DEF UploadAt, DownloadAt, Between, Dead, Threads, IsTask
<1>4. c \in linked
  BY <1>3 DEF IInv, Consistent, View
<1>5. tpc'[t] = q /\ \A u \in Threads \ {t} : tpc'[u] = tpc[u]
  BY <1>1 DEF Types
<1>6. opened'[t] /\ \A u \in Threads \ {t} : opened'[u] = opened[u]
  BY <1>1, <1>4 DEF Types
<1>7. Types'
  BY <1>1 DEF Types
<1>8. Tasks'
  BY <1>1, <1>5 DEF Tasks, Threads, CompressionTask
<1>9. Threading'
  BY <1>1, <1>5, <1>6 DEF Threading
<1>10. \A d \in Clients : View(d)' = View(d)
  BY DEF View
<1>11. cur' = cur /\ held' = held
  OBVIOUS
<1>12. /\ t = ClientQ => UploadAt(View(c)', cur'[t], tpc'[t], Grant(t)', Announced(t)')
       /\ t = Work => DownloadAt(View(c)', cur'[t], tpc'[t], Grant(t)', Announced(t)')
  <2>1. Grant(t)' = Grant(t) /\ Announced(t)' = Announced(t)
    BY DEF Grant, Announced, Ids
  <2>2. t = ClientQ => tpc'[t] \in {"prelim", "announce"} /\ (tpc'[t] = "prelim" <=> cur[t].fresh)
    BY <1>5
  <2>3. t = Work => tpc'[t] \in {"prelim", "copy"} /\ (tpc'[t] = "prelim" <=> cur[t].fresh)
    BY <1>5 DEF ClientQ, Work
  <2>4. View(c)' = View(c) /\ cur'[t] = cur[t]
    BY <1>10, <1>11
  <2> HIDE DEF OpenQueues, q
  <2>5. t = ClientQ => UploadAt(View(c), cur[t], tpc'[t], Grant(t), Announced(t))
    BY <1>2, <2>2 DEF UploadAt, Quiet, IsTask
  <2>6. t = Work => DownloadAt(View(c), cur[t], tpc'[t], Grant(t), Announced(t))
    BY <1>2, <2>3 DEF DownloadAt, Quiet, IsTask
  <2> QED
    BY <2>1, <2>4, <2>5, <2>6
<1>13. tpc'[t] \notin {"pop", "release"}
  BY <1>5
<1> QED
  BY <1>1, <1>5, <1>7, <1>8, <1>9, <1>10, <1>11, <1>12, <1>13, ThreadMove

(* What a thread sends is at the end of its client's queue, and no other's. *)
LEMMA SendGetType ==
  ASSUME IInv, NEW t \in Threads, tpc[t] \in {"prelim", "announce"}, SendGet(t),
         NEW c \in Clients, c = cur[t].client
  PROVE  /\ get_q' \in [Clients -> Seq(Announcements)]
         /\ get_q'[c] = Append(get_q[c], Announced(t))
         /\ \A d \in Clients \ {c} : get_q'[d] = get_q[d]
<1>1. /\ get_q \in [Clients -> Seq(Announcements)]
      /\ Announced(t) \in Announcements /\ opened[t]
      /\ Announcement(cur[t].len, Ids(t)) = Announced(t)
  BY ThreadFacts DEF Types
<1>2. get_q' = [get_q EXCEPT ![c] = Append(@, Announced(t))]
  BY <1>1 DEF SendGet
<1>3. Append(get_q[c], Announced(t)) \in Seq(Announcements)
  BY <1>1
<1> QED
  BY <1>1, <1>2, <1>3

LEMMA PrelimUploadInv ==
  ASSUME FilesNotEmpty, IInv, PrelimUpload, UNCHANGED clientVars
  PROVE  IInv'
<1> USE DEF PrelimUpload, ThreadGoto, channelVars, clientVars
<1> DEFINE x == cur[ClientQ]
           y == [x EXCEPT !.file_buffer = Malloc(x.len)]
<1>1. tpc[ClientQ] = "prelim" /\ ClientQ \in Threads /\ Types /\ Tasks /\ Threading
  BY DEF IInv, Threads
<1> PICK c \in Clients : c = x.client
  BY <1>1, ThreadFacts
<1>2. /\ ClientTask(x)
      /\ UploadAt(View(c), x, "prelim", Grant(ClientQ), Announced(ClientQ))
  BY <1>1, ThreadFacts
<1>3. x.fresh /\ Quiet(View(c)) /\ View(c).pc \in {"send_prelim", "crashed"}
  BY <1>2 DEF UploadAt
<1>4. /\ IsTask(y) /\ y.len = x.len /\ y.client = c /\ y.len \in Nat \ {0}
  <2>1. /\ y = [f \in TaskFields |-> y[f]]
        /\ y.client = x.client /\ y.file_len = x.file_len /\ y.len = x.len /\ y.fresh = x.fresh
        /\ y.total = x.total /\ y.remaining = x.remaining /\ y.index = x.index
    BY <1>2 DEF ClientTask, IsTask, TaskFields
  <2> HIDE DEF y
  <2>2. IsTask(y)
    BY <1>2, <2>1 DEF ClientTask, IsTask
  <2>3. x.len \in Nat \ {0}
    BY <1>2, TaskLen DEF ClientTask, IsTask, FilesNotEmpty
  <2> QED
    BY <2>1, <2>2, <2>3
<1>5. cur'[ClientQ] = Started(y) /\ cur'[Work] = cur[Work]
  BY <1>1 DEF Types, Threads, ClientQ, Work
<1> HIDE DEF y
<1> DEFINE z == Started(y)
<1>6. /\ IsTask(z) /\ z.client = c /\ z.len = x.len /\ z.index = 0 /\ Before(z)
  BY <1>4, StartedTask
<1>7. ClientTask(z)
  BY <1>2, <1>6 DEF ClientTask, IsTask
<1> HIDE DEF z
<1>8. tpc'[ClientQ] = "announce" /\ tpc'[Work] = tpc[Work]
  BY <1>1 DEF Types, Threads, ClientQ, Work
<1>9. /\ get_q' \in [Clients -> Seq(Announcements)]
      /\ get_q'[c] = Append(get_q[c], Announced(ClientQ))
      /\ \A d \in Clients \ {c} : get_q'[d] = get_q[d]
  BY <1>1, SendGetType
<1>10. Types'
  BY <1>1, <1>9 DEF Types
<1>11. Tasks'
  BY <1>1, <1>5, <1>7, <1>8 DEF Tasks, z
<1>12. cur'[ClientQ] # NoTask
  BY <1>5, <1>6, TaskIsSome DEF z
<1>13. Threading'
  BY <1>1, <1>5, <1>8, <1>12 DEF Threading, Threads
<1>14. Grant(ClientQ)' = Grant(ClientQ) /\ Announced(ClientQ)' = Announced(ClientQ)
  BY <1>5, <1>6 DEF Grant, Announced, Ids, z
<1>15. \A d \in Clients \ {c} : View(d)' = View(d)
  BY <1>9 DEF View
<1>16. UploadAt(View(c)', cur'[ClientQ], "announce", Grant(ClientQ)', Announced(ClientQ)')
  <2>1. /\ View(c)'.pc = View(c).pc /\ View(c)'.put = View(c).put
        /\ View(c)'.get = Append(View(c).get, Announced(ClientQ))
    BY <1>9 DEF View
  <2> QED
    BY <1>3, <1>5, <1>6, <1>14, <2>1, ShortQueues DEF UploadAt, Quiet, z
<1>17. \A u \in Threads \ {ClientQ} : tpc'[u] = tpc[u] /\ cur'[u] = cur[u] /\ held'[u] = held[u]
  BY <1>5, <1>8 DEF Threads
<1>18. cur[ClientQ].client = c /\ cur'[ClientQ].client = c /\ ClientQ # Work
  BY <1>5, <1>6 DEF z, ClientQ, Work
<1> QED
  BY <1>1, <1>8, <1>10, <1>11, <1>13, <1>15, <1>16, <1>17, <1>18, ThreadMove

LEMMA PrelimDownloadInv ==
  ASSUME IInv, PrelimDownload, UNCHANGED clientVars
  PROVE  IInv'
<1> USE DEF PrelimDownload, ThreadGoto, channelVars, clientVars
<1> DEFINE x == cur[Work]
<1>1. /\ tpc[Work] = "prelim" /\ Work \in Threads /\ ClientQ # Work
      /\ Types /\ Tasks /\ Threading
  BY DEF IInv, Threads, ClientQ, Work
<1> PICK c \in Clients : c = x.client
  BY <1>1, ThreadFacts
<1>2. DownloadAt(View(c), x, "prelim", Grant(Work), Announced(Work))
  BY <1>1, ThreadFacts
<1>3. Before(x) /\ x.index = 0 /\ Quiet(View(c)) /\ (Dead(View(c)) \/ Between(View(c)))
  BY <1>2 DEF DownloadAt
<1>4. tpc'[Work] = "copy" /\ tpc'[ClientQ] = tpc[ClientQ] /\ cur' = cur
  BY <1>1 DEF Types, Threads
<1>5. /\ get_q' \in [Clients -> Seq(Announcements)]
      /\ get_q'[c] = Append(get_q[c], Announced(Work))
      /\ \A d \in Clients \ {c} : get_q'[d] = get_q[d]
  BY <1>1, SendGetType
<1>6. Types'
  BY <1>1, <1>5 DEF Types
<1>7. Tasks'
  BY <1>1, <1>4 DEF Tasks, CompressionTask
<1>8. Threading'
  BY <1>1, <1>4 DEF Threading, Threads
<1>9. \A d \in Clients \ {c} : View(d)' = View(d)
  BY <1>5 DEF View
<1>10. DownloadAt(View(c)', cur'[Work], "copy", Grant(Work)', Announced(Work)')
  <2>2. /\ View(c)'.pc = View(c).pc /\ View(c)'.put = View(c).put
        /\ View(c)'.get = Append(View(c).get, Announced(Work))
        /\ View(c)'.ii = View(c).ii /\ View(c)'.needed = View(c).needed
    BY <1>5 DEF View
  <2>3. Announced(Work)' = Announced(Work)
    BY DEF Announced, Ids
  <2> QED
    BY <1>3, <1>4, <2>2, <2>3, ShortQueues DEF DownloadAt, Quiet, Between, Dead, LoopOver
<1>11. \A u \in Threads \ {Work} : tpc'[u] = tpc[u] /\ cur'[u] = cur[u] /\ held'[u] = held[u]
  BY <1>4 DEF Threads
<1> QED
  BY <1>1, <1>4, <1>6, <1>7, <1>8, <1>9, <1>10, <1>11, ThreadMove

LEMMA AnnounceInv ==
  ASSUME IInv, NEW t \in Threads, Announce(t), UNCHANGED clientVars
  PROVE  IInv'
<1> USE DEF Announce, ThreadGoto, channelVars, clientVars
<1>1. tpc[t] = "announce" /\ Types /\ Tasks /\ Threading
  BY DEF IInv
<1> PICK c \in Clients : c = cur[t].client
  BY <1>1, ThreadFacts
<1>2. /\ t = ClientQ => UploadAt(View(c), cur[t], "announce", Grant(t), Announced(t))
      /\ t = Work => DownloadAt(View(c), cur[t], "announce", Grant(t), Announced(t))
  BY <1>1, ThreadFacts
<1>3. tpc'[t] = "ack" /\ cur' = cur /\ \A u \in Threads \ {t} : tpc'[u] = tpc[u]
  BY <1>1 DEF Types
<1>4. /\ get_q' \in [Clients -> Seq(Announcements)]
      /\ get_q'[c] = Append(get_q[c], Announced(t))
      /\ \A d \in Clients \ {c} : get_q'[d] = get_q[d]
  BY <1>1, SendGetType
<1>5. Types'
  BY <1>1, <1>4 DEF Types
<1>6. Tasks'
  BY <1>1, <1>3 DEF Tasks, CompressionTask, Threads
<1>7. Threading'
  BY <1>1, <1>3 DEF Threading
<1>8. \A d \in Clients \ {c} : View(d)' = View(d)
  BY <1>4 DEF View
<1>9. /\ View(c)'.pc = View(c).pc /\ View(c)'.put = View(c).put
      /\ View(c)'.get = Append(View(c).get, Announced(t))
      /\ View(c)'.ii = View(c).ii /\ View(c)'.needed = View(c).needed
      /\ View(c)'.to_recv = View(c).to_recv
  BY <1>4 DEF View
<1>10. Announced(t)' = Announced(t) /\ Grant(t)' = Grant(t)
  BY DEF Announced, Ids, Grant
<1>11. ASSUME t = ClientQ
       PROVE  UploadAt(View(c)', cur'[t], "ack", Grant(t)', Announced(t)')
  <2> DEFINE v == View(c)
             w == View(c)'
             a == Announced(t)
             x == cur[t]
  <2>1. /\ Before(x) /\ v.put = 0
        /\ \/ v.get = <<a>> /\ x.index = 0 /\ v.pc \in {"send_prelim", "crashed"}
           \/ v.get = <<>> /\ (Dead(v) \/ (v.pc = "send_loop" /\ InStep(v, x)))
    BY <1>2, <1>11 DEF UploadAt
  <2>2. /\ v.get = <<a>> => w.get = <<a, a>>
        /\ v.get = <<>> => w.get = <<a>>
    BY <1>9, ShortQueues
  <2>3. (Dead(v) => Dead(w)) /\ (InStep(v, x) => InStep(w, x)) /\ w.pc = v.pc /\ w.put = v.put
    BY <1>9 DEF Dead, InStep
  <2> HIDE DEF v, w, a
  <2>4. UploadAt(w, x, "ack", Grant(t), a)
    BY <2>1, <2>2, <2>3 DEF UploadAt
  <2> QED
    BY <1>3, <1>10, <2>4 DEF w, a
<1>12. ASSUME t = Work
       PROVE  DownloadAt(View(c)', cur'[t], "ack", Grant(t)', Announced(t)')
  <2> DEFINE v == View(c)
             w == View(c)'
             a == Announced(t)
             x == cur[t]
  <2>1. /\ After(x, Grant(t)) /\ v.put = 0
        /\ \/ v.get = <<a>> /\ x.index = 0 /\ (Dead(v) \/ Between(v))
           \/ v.get = <<>> /\ (Dead(v) \/ (v.pc = "recv_loop" /\ InStep(v, x)))
    BY <1>2, <1>12 DEF DownloadAt
  <2>2. /\ v.get = <<a>> => w.get = <<a, a>>
        /\ v.get = <<>> => w.get = <<a>>
    BY <1>9, ShortQueues
  <2>3. /\ (Dead(v) => Dead(w)) /\ (InStep(v, x) => InStep(w, x)) /\ (Between(v) => Between(w))
        /\ w.pc = v.pc /\ w.put = v.put
    BY <1>9 DEF Dead, InStep, Between, LoopOver
  <2> HIDE DEF v, w, a
  <2>4. DownloadAt(w, x, "ack", Grant(t), a)
    BY <2>1, <2>2, <2>3 DEF DownloadAt
  <2> QED
    BY <1>3, <1>10, <2>4 DEF w, a
<1>13. UNCHANGED held
  OBVIOUS
<1> QED
  BY <1>1, <1>3, <1>5, <1>6, <1>7, <1>8, <1>11, <1>12, <1>13, ThreadMove

LEMMA ReceiveAckInv ==
  ASSUME IInv, NEW t \in Threads, ReceiveAck(t), UNCHANGED clientVars
  PROVE  IInv'
<1> USE DEF ReceiveAck, ThreadGoto, channelVars, clientVars
<1> DEFINE q == IF t = ClientQ THEN "copy" ELSE "finish"
<1>1. tpc[t] = "ack" /\ Types /\ Tasks /\ Threading
  BY DEF IInv
<1> PICK c \in Clients : c = cur[t].client
  BY <1>1, ThreadFacts
<1>2. /\ opened[t]
      /\ t = ClientQ => UploadAt(View(c), cur[t], "ack", Grant(t), Announced(t))
      /\ t = Work => DownloadAt(View(c), cur[t], "ack", Grant(t), Announced(t))
  BY <1>1, ThreadFacts
<1>3. tpc'[t] = q /\ cur' = cur /\ \A u \in Threads \ {t} : tpc'[u] = tpc[u]
  BY <1>1 DEF Types
<1>4. put_q[c] \in Nat /\ put_q[c] > 0 /\ put_q' = [put_q EXCEPT ![c] = put_q[c] - 1]
  BY <1>1, <1>2 DEF Types
<1>5. put_q' \in [Clients -> Nat] /\ put_q'[c] = put_q[c] - 1
  BY <1>1, <1>4 DEF Types
<1>6. Types'
  BY <1>1, <1>5 DEF Types
<1>7. Tasks'
  BY <1>1, <1>3 DEF Tasks, CompressionTask, Threads
<1>8. Threading'
  BY <1>1, <1>3 DEF Threading
<1>9. \A d \in Clients \ {c} : View(d)' = View(d)
  BY <1>1, <1>4 DEF View, Types
<1>10. /\ View(c)'.pc = View(c).pc /\ View(c).put > 0 /\ View(c).put \in Nat
       /\ View(c)'.put = View(c).put - 1 /\ View(c)'.get = View(c).get
       /\ View(c)'.ii = View(c).ii /\ View(c)'.needed = View(c).needed
       /\ View(c)'.to_recv = View(c).to_recv
  BY <1>4, <1>5 DEF View
<1>11. Announced(t)' = Announced(t) /\ Grant(t)' = Grant(t)
  BY DEF Announced, Ids, Grant
<1>12. ASSUME t = ClientQ
       PROVE  UploadAt(View(c)', cur'[t], "copy", Grant(t)', Announced(t)')
  BY <1>2, <1>3, <1>10, <1>11, <1>12 DEF UploadAt, Quiet, Dead, Sent, PassDone, LoopOver
<1>13. ASSUME t = Work
       PROVE  DownloadAt(View(c)', cur'[t], "finish", Grant(t)', Announced(t)')
  BY <1>2, <1>3, <1>10, <1>11, <1>13 DEF DownloadAt, Quiet, Dead, Received, PassDone, LoopOver
<1>14. UNCHANGED held /\ tpc'[t] \notin {"pop", "release"} /\ ClientQ # Work
  BY <1>3 DEF ClientQ, Work
<1> QED
  BY <1>1, <1>3, <1>6, <1>7, <1>8, <1>9, <1>12, <1>13, <1>14, ThreadMove

(* A pass copied: the server's count is what is left after its grant.      *)
LEMMA CopiedPass ==
  ASSUME NEW x, IsTask(x), Before(x), NEW ids \in Seq(SegIds), NEW n, n = Len(ids)
  PROVE  LET z == [x EXCEPT !.remaining = @ - ChunksInPass(ids, @)]
         IN  /\ IsTask(z) /\ z.client = x.client /\ z.len = x.len /\ z.fresh = x.fresh
             /\ z.total = x.total /\ z.index = x.index /\ After(z, n)
<1> DEFINE r == x.remaining - ChunksInPass(ids, x.remaining)
           z == [x EXCEPT !.remaining = r]
<1>1. n \in Nat /\ x.remaining \in Nat /\ x.index \in Nat /\ x.total \in Nat
  BY LenProperties DEF IsTask
<1>2. r \in Nat /\ r = Rest(x, n)
  BY <1>1 DEF ChunksInPass, Rest, Before, Underway
<1> HIDE DEF r
<1>3. /\ z = [f \in TaskFields |-> z[f]]
      /\ z.client = x.client /\ z.file_len = x.file_len /\ z.len = x.len /\ z.fresh = x.fresh
      /\ z.total = x.total /\ z.remaining = r /\ z.index = x.index
  BY DEF IsTask, TaskFields
<1> HIDE DEF z
<1>4. IsTask(z)
  BY <1>2, <1>3 DEF IsTask
<1>5. After(z, n)
  BY <1>2, <1>3 DEF After, Rest, Before, Underway
<1> QED
  BY <1>3, <1>4, <1>5 DEF z, r

LEMMA CopyInInv ==
  ASSUME IInv, CopyIn, UNCHANGED clientVars
  PROVE  IInv'
<1> USE DEF CopyIn, ThreadGoto, channelVars, clientVars
<1> DEFINE x == cur[ClientQ]
           b == FromSegments(x.file_buffer, x.len, x.index, x.remaining, Ids(ClientQ))
           x1 == [x EXCEPT !.file_buffer = b]
           y == [x1 EXCEPT !.remaining = @ - ChunksInPass(Ids(ClientQ), @)]
<1>1. /\ tpc[ClientQ] = "copy" /\ ClientQ \in Threads /\ ClientQ # Work
      /\ Types /\ Tasks /\ Threading
  BY DEF IInv, Threads, ClientQ, Work
<1> PICK c \in Clients : c = x.client
  BY <1>1, ThreadFacts
<1>2. /\ ClientTask(x) /\ IsTask(x)
      /\ UploadAt(View(c), x, "copy", Grant(ClientQ), Announced(ClientQ))
      /\ Ids(ClientQ) \in Seq(SegIds) /\ Len(Ids(ClientQ)) = Grant(ClientQ)
  BY <1>1, ThreadFacts
<1>3. /\ Before(x) /\ Quiet(View(c)) /\ (Dead(View(c)) \/ Sent(View(c), x, Grant(ClientQ)))
  BY <1>2 DEF UploadAt
<1>4. cur'[ClientQ] = y /\ cur'[Work] = cur[Work]
  BY <1>1 DEF Types, Threads
<1> HIDE DEF b
<1>5. /\ IsTask(y) /\ y.client = c /\ y.len = x.len
      /\ y.total = x.total /\ y.index = x.index /\ After(y, Grant(ClientQ))
  <2>1. /\ x1 = [f \in TaskFields |-> x1[f]]
        /\ x1.client = x.client /\ x1.file_len = x.file_len /\ x1.len = x.len
        /\ x1.fresh = x.fresh /\ x1.total = x.total /\ x1.remaining = x.remaining
        /\ x1.index = x.index
    BY <1>2 DEF IsTask, TaskFields
  <2> HIDE DEF x1
  <2>2. IsTask(x1) /\ Before(x1)
    BY <1>2, <1>3, <2>1 DEF IsTask, Before, Underway
  <2> QED
    BY <1>2, <2>1, <2>2, CopiedPass
<1> HIDE DEF y
<1>6. ClientTask(y) /\ y # NoTask
  BY <1>2, <1>5, TaskIsSome DEF ClientTask, IsTask
<1>7. tpc'[ClientQ] = "finish" /\ tpc'[Work] = tpc[Work]
  BY <1>1 DEF Types, Threads
<1>8. Types'
  BY <1>1 DEF Types
<1>9. Tasks'
  BY <1>1, <1>4, <1>6, <1>7 DEF Tasks
<1>10. Threading'
  BY <1>1, <1>4, <1>6, <1>7 DEF Threading, Threads
<1>11. \A d \in Clients : View(d)' = View(d)
  BY DEF View
<1>12. Grant(ClientQ)' = Grant(ClientQ)
  BY DEF Grant
<1>13. UploadAt(View(c)', cur'[ClientQ], "finish", Grant(ClientQ)', Announced(ClientQ)')
  BY <1>3, <1>4, <1>5, <1>11, <1>12 DEF UploadAt, Sent, PassDone, Rest
<1>14. \A u \in Threads \ {ClientQ} : tpc'[u] = tpc[u] /\ cur'[u] = cur[u] /\ held'[u] = held[u]
  BY <1>4, <1>7 DEF Threads
<1>15. cur[ClientQ].client = c /\ cur'[ClientQ].client = c
  BY <1>4, <1>5
<1> QED
  BY <1>1, <1>7, <1>8, <1>9, <1>10, <1>11, <1>13, <1>14, <1>15, ThreadMove

LEMMA CopyOutInv ==
  ASSUME IInv, CopyOut, UNCHANGED clientVars
  PROVE  IInv'
<1> USE DEF CopyOut, ThreadGoto, channelVars, clientVars
<1> DEFINE x == cur[Work]
           y == [x EXCEPT !.remaining = @ - ChunksInPass(Ids(Work), @)]
<1>1. /\ tpc[Work] = "copy" /\ Work \in Threads /\ ClientQ # Work
      /\ Types /\ Tasks /\ Threading
  BY DEF IInv, Threads, ClientQ, Work
<1> PICK c \in Clients : c = x.client
  BY <1>1, ThreadFacts
<1>2. /\ CompressionTask(x, "copy") /\ IsTask(x)
      /\ DownloadAt(View(c), x, "copy", Grant(Work), Announced(Work))
      /\ Ids(Work) \in Seq(SegIds) /\ Len(Ids(Work)) = Grant(Work)
  BY <1>1, ThreadFacts
<1>3. Before(x)
  BY <1>2 DEF DownloadAt
<1>4. cur'[Work] = y /\ cur'[ClientQ] = cur[ClientQ]
  BY <1>1 DEF Types, Threads
<1>5. /\ IsTask(y) /\ y.client = c /\ y.len = x.len
      /\ y.total = x.total /\ y.index = x.index /\ After(y, Grant(Work))
  BY <1>2, <1>3, CopiedPass
<1> HIDE DEF y
<1>6. CompressionTask(y, "announce") /\ y # NoTask
  BY <1>2, <1>5, TaskIsSome DEF CompressionTask, IsTask
<1>7. tpc'[Work] = "announce" /\ tpc'[ClientQ] = tpc[ClientQ]
  BY <1>1 DEF Types, Threads
<1>8. Types'
  <2>1. shm' = [s \in SegIds |-> shm'[s]] /\ \A s \in SegIds : DOMAIN shm'[s] = 0 .. SegSize - 1
    BY DEF ToSegments
  <2> QED
    BY <1>1, <2>1 DEF Types
<1>9. Tasks'
  BY <1>1, <1>4, <1>6, <1>7 DEF Tasks
<1>10. Threading'
  BY <1>1, <1>4, <1>6, <1>7 DEF Threading, Threads
<1>11. \A d \in Clients : View(d)' = View(d)
  BY DEF View
<1>12. Grant(Work)' = Grant(Work) /\ Announced(Work)' = Announced(Work)
  BY <1>4, <1>5 DEF Grant, Announced, Ids
<1>13. DownloadAt(View(c)', cur'[Work], "announce", Grant(Work)', Announced(Work)')
  BY <1>2, <1>4, <1>5, <1>11, <1>12 DEF DownloadAt, InStep
<1>14. \A u \in Threads \ {Work} : tpc'[u] = tpc[u] /\ cur'[u] = cur[u] /\ held'[u] = held[u]
  BY <1>4, <1>7 DEF Threads
<1>15. cur[Work].client = c /\ cur'[Work].client = c
  BY <1>4, <1>5
<1> QED
  BY <1>1, <1>7, <1>8, <1>9, <1>10, <1>11, <1>13, <1>14, <1>15, ThreadMove

LEMMA CompressFileInv ==
  ASSUME IInv, CompressFile, UNCHANGED clientVars
  PROVE  IInv'
<1> USE DEF CompressFile, ThreadGoto, channelVars, clientVars
<1> DEFINE x == cur[Work]
           k == Compress(x.file_len, x.file_buffer)
           y == [x EXCEPT !.len = CompressedLen(x.file_len), !.compressed_buffer = k]
           z == Started(y)
<1>1. /\ tpc[Work] = "compress" /\ Work \in Threads /\ ClientQ # Work
      /\ Types /\ Tasks /\ Threading
  BY DEF IInv, Threads, ClientQ, Work
<1> PICK c \in Clients : c = x.client
  BY <1>1, ThreadFacts
<1>2. /\ CompressionTask(x, "compress") /\ IsTask(x)
      /\ DownloadAt(View(c), x, "compress", Grant(Work), Announced(Work))
  BY <1>1, ThreadFacts
<1>3. x.fresh /\ Quiet(View(c)) /\ (Dead(View(c)) \/ Between(View(c)))
  BY <1>2 DEF DownloadAt
<1>4. cur'[Work] = z /\ cur'[ClientQ] = cur[ClientQ]
  BY <1>1 DEF Types, Threads
<1>5. CompressedLen(x.file_len) \in Nat \ {0}
  BY <1>2, ChannelsAssumption DEF IsTask
<1> HIDE DEF k
<1>6. /\ y = [f \in TaskFields |-> y[f]]
      /\ y.client = x.client /\ y.file_len = x.file_len /\ y.fresh = x.fresh
      /\ y.len = CompressedLen(x.file_len)
      /\ y.total = x.total /\ y.remaining = x.remaining /\ y.index = x.index
  BY <1>2 DEF IsTask, TaskFields
<1> HIDE DEF y, z
<1>7. IsTask(y)
  BY <1>2, <1>6 DEF IsTask
<1>8. /\ IsTask(z) /\ z.client = c /\ z.len = CompressedLen(x.file_len) /\ z.fresh
      /\ z.index = 0 /\ Before(z)
  BY <1>3, <1>5, <1>6, <1>7, StartedTask DEF z
<1>9. z.file_len = x.file_len
  BY <1>2, <1>8 DEF IsTask
<1>10. CompressionTask(z, "grab") /\ z # NoTask
  BY <1>8, <1>9, TaskIsSome DEF CompressionTask
<1>11. tpc'[Work] = "grab" /\ tpc'[ClientQ] = tpc[ClientQ]
  BY <1>1 DEF Types, Threads
<1>12. Types'
  BY <1>1 DEF Types
<1>13. Tasks'
  BY <1>1, <1>4, <1>10, <1>11 DEF Tasks
<1>14. Threading'
  BY <1>1, <1>4, <1>10, <1>11 DEF Threading, Threads
<1>15. \A d \in Clients : View(d)' = View(d)
  BY DEF View
<1>16. DownloadAt(View(c)', cur'[Work], "grab", Grant(Work)', Announced(Work)')
  BY <1>3, <1>4, <1>8, <1>15 DEF DownloadAt
<1>17. \A u \in Threads \ {Work} : tpc'[u] = tpc[u] /\ cur'[u] = cur[u] /\ held'[u] = held[u]
  BY <1>4, <1>11 DEF Threads
<1>18. cur[Work].client = c /\ cur'[Work].client = c
  BY <1>4, <1>8
<1> QED
  BY <1>1, <1>11, <1>12, <1>13, <1>14, <1>15, <1>16, <1>17, <1>18, ThreadMove

-----------------------------------------------------------------------------
(* A task goes from a queue to a thread, or from a thread to a queue.      *)
LEMMA PopClientInv ==
  ASSUME IInv, PopClient, UNCHANGED clientVars
  PROVE  IInv'
<1> USE DEF PopClient, ThreadGoto, channelVars, clientVars
<1> DEFINE x == Head(client_q)
<1>1. /\ tpc[ClientQ] = "pop" /\ ClientQ \in Threads /\ ClientQ # Work
      /\ Types /\ Tasks /\ Threading /\ Homes
  BY DEF IInv, Threads, ClientQ, Work
<1>2. client_q \in Seq(Range(client_q)) /\ client_q # <<>> /\ Distinct(client_q)
  BY <1>1 DEF Types, Homes
<1>3. /\ client_q' \in Seq(Range(client_q')) /\ x \in Range(client_q)
      /\ Range(client_q') \subseteq Range(client_q)
      /\ \A y \in Range(client_q') : y.client # x.client
      /\ ClientsIn(client_q') = ClientsIn(client_q) \ {x.client}
      /\ Distinct(client_q')
  BY <1>2, TailRange
<1>4. ClientTask(x)
  BY <1>1, <1>3 DEF Tasks
<1> PICK c \in Clients : c = x.client
  BY <1>4 DEF ClientTask, IsTask
<1>5. /\ cur'[ClientQ] = x /\ cur'[Work] = cur[Work]
      /\ tpc'[ClientQ] = "grab" /\ tpc'[Work] = tpc[Work]
  BY <1>1 DEF Types, Threads
<1>6. x # NoTask
  BY <1>4, TaskIsSome DEF ClientTask
<1> HIDE DEF x
<1>7. Types'
  BY <1>1, <1>3 DEF Types
<1>8. Tasks'
  BY <1>1, <1>3, <1>4, <1>5 DEF Tasks
<1>9. Threading'
  BY <1>1, <1>5, <1>6 DEF Threading, Threads
<1>10. InHand(ClientQ) = {} /\ InHand(ClientQ)' = {c} /\ InHand(Work)' = InHand(Work)
  BY <1>1, <1>5 DEF InHand
<1>11. c \in ClientsIn(client_q)
  BY <1>3 DEF ClientsIn
<1>12. Homes'
  BY <1>1, <1>3, <1>10, <1>11 DEF Homes, Separate
<1>13. Present' = Present
  BY <1>3, <1>10, <1>11 DEF Present
<1>14. Grant(Work)' = Grant(Work) /\ Announced(Work)' = Announced(Work)
  BY <1>5 DEF Grant, Announced, Ids
<1>15. ASSUME NEW d \in Clients
       PROVE  Consistent(d)'
  <2>1. View(d)' = View(d)
    BY DEF View
  <2>2. Consistent(d)
    BY DEF IInv
  <2>3. d \in InHand(ClientQ)' =>
          UploadAt(View(d), x, "grab", Grant(ClientQ)', Announced(ClientQ)')
    <3>1. d = c => UploadAt(View(d), x, "queued", 0, NoGrant(x))
      BY <1>3, <2>2 DEF Consistent
    <3> QED
      BY <1>10, <3>1 DEF UploadAt
  <2> QED
    BY <1>3, <1>5, <1>10, <1>13, <1>14, <2>1, <2>2, <2>3 DEF Consistent
<1> QED
  BY <1>7, <1>8, <1>9, <1>12, <1>15 DEF IInv

LEMMA PopTaskInv ==
  ASSUME IInv, PopTask, UNCHANGED clientVars
  PROVE  IInv'
<1> USE DEF PopTask, ThreadGoto, channelVars, clientVars
<1> DEFINE x == Head(task_q)
           q == IF x.fresh THEN "compress" ELSE "grab"
<1>1. /\ tpc[Work] = "pop" /\ Work \in Threads /\ ClientQ # Work
      /\ Types /\ Tasks /\ Threading /\ Homes
  BY DEF IInv, Threads, ClientQ, Work
<1>2. task_q \in Seq(Range(task_q)) /\ task_q # <<>> /\ Distinct(task_q)
  BY <1>1 DEF Types, Homes
<1>3. /\ task_q' \in Seq(Range(task_q')) /\ x \in Range(task_q)
      /\ Range(task_q') \subseteq Range(task_q)
      /\ \A y \in Range(task_q') : y.client # x.client
      /\ ClientsIn(task_q') = ClientsIn(task_q) \ {x.client}
      /\ Distinct(task_q')
  BY <1>2, TailRange
<1>4. CompressionTask(x, "queued") /\ IsTask(x)
  BY <1>1, <1>3 DEF Tasks, CompressionTask
<1> PICK c \in Clients : c = x.client
  BY <1>4 DEF IsTask
<1>5. /\ cur'[Work] = x /\ cur'[ClientQ] = cur[ClientQ]
      /\ tpc'[Work] = q /\ tpc'[ClientQ] = tpc[ClientQ]
  BY <1>1 DEF Types, Threads
<1>6. x # NoTask
  BY <1>4, TaskIsSome
<1> HIDE DEF x
<1>7. CompressionTask(x, q)
  BY <1>4 DEF CompressionTask, IsTask
<1>8. Types'
  BY <1>1, <1>3 DEF Types
<1>9. Tasks'
  BY <1>1, <1>3, <1>5, <1>7 DEF Tasks
<1>10. Threading'
  BY <1>1, <1>5, <1>6 DEF Threading, Threads
<1>11. InHand(Work) = {} /\ InHand(Work)' = {c} /\ InHand(ClientQ)' = InHand(ClientQ)
  BY <1>1, <1>5 DEF InHand
<1>12. c \in ClientsIn(task_q)
  BY <1>3 DEF ClientsIn
<1>13. Homes'
  BY <1>1, <1>3, <1>11, <1>12 DEF Homes, Separate
<1>14. Present' = Present
  BY <1>3, <1>11, <1>12 DEF Present
<1>15. Grant(ClientQ)' = Grant(ClientQ) /\ Announced(ClientQ)' = Announced(ClientQ)
  BY <1>5 DEF Grant, Announced, Ids
<1>16. ASSUME NEW d \in Clients
       PROVE  Consistent(d)'
  <2>1. View(d)' = View(d)
    BY DEF View
  <2>2. Consistent(d)
    BY DEF IInv
  <2>3. d \in InHand(Work)' =>
          DownloadAt(View(d), x, q, Grant(Work)', Announced(Work)')
    <3>1. d = c => DownloadAt(View(d), x, "queued", 0, NoGrant(x))
      BY <1>3, <2>2 DEF Consistent
    <3> QED
      BY <1>4, <1>11, <3>1 DEF DownloadAt, IsTask
  <2> HIDE DEF q
  <2> QED
    BY <1>3, <1>5, <1>11, <1>14, <1>15, <2>1, <2>2, <2>3 DEF Consistent
<1> QED
  BY <1>8, <1>9, <1>10, <1>13, <1>16 DEF IInv

(* A pass is over: the task has moved by its grant.                        *)
LEMMA PassOver ==
  ASSUME NEW t \in Threads, IsTask(cur[t]), After(cur[t], Grant(t)), Grant(t) \in Nat
  PROVE  LET x == cur[t]
             y == AfterPass(t)
         IN  /\ IsTask(y) /\ y.client = x.client /\ y.file_len = x.file_len /\ y.len = x.len
             /\ ~ y.fresh /\ y.total = x.total /\ y.index = x.index + Grant(t)
             /\ ~ Complete(y) => Before(y)
<1> DEFINE x == cur[t]
           y == AfterPass(t)
<1>1. /\ y = [f \in TaskFields |-> y[f]]
      /\ y.client = x.client /\ y.file_len = x.file_len /\ y.len = x.len /\ ~ y.fresh
      /\ y.total = x.total /\ y.remaining = x.remaining /\ y.index = x.index + Grant(t)
  BY DEF IsTask, TaskFields, AfterPass, Grant
<1> HIDE DEF y
<1>2. y.fresh \in BOOLEAN
  <2>1. y.fresh = FALSE
    BY DEF y, IsTask, TaskFields, AfterPass, Grant
  <2> QED
    BY <2>1
<1>3. IsTask(y)
  BY <1>1, <1>2 DEF IsTask
<1>4. ~ Complete(y) => Before(y)
  BY <1>1 DEF Complete, Before, After, Underway, Rest, IsTask
<1> QED
  BY <1>1, <1>3, <1>4 DEF y

LEMMA FinishUploadInv ==
  ASSUME IInv, FinishUpload, UNCHANGED clientVars
  PROVE  IInv'
<1> USE DEF FinishUpload, ThreadGoto, channelVars, clientVars
<1> DEFINE x == cur[ClientQ]
           y == AfterPass(ClientQ)
           z == [Task(y.client, y.file_len) EXCEPT !.len = 0, !.file_buffer = y.file_buffer]
<1>1. /\ tpc[ClientQ] = "finish" /\ ClientQ \in Threads /\ ClientQ # Work
      /\ Types /\ Tasks /\ Threading /\ Homes
  BY DEF IInv, Threads, ClientQ, Work
<1> PICK c \in Clients : c = x.client
  BY <1>1, ThreadFacts
<1>2. /\ ClientTask(x) /\ IsTask(x) /\ Grant(ClientQ) \in Nat
      /\ UploadAt(View(c), x, "finish", Grant(ClientQ), Announced(ClientQ))
  BY <1>1, ThreadFacts
<1>3. /\ After(x, Grant(ClientQ)) /\ Quiet(View(c))
      /\ Dead(View(c)) \/ Sent(View(c), x, Grant(ClientQ))
  BY <1>2 DEF UploadAt
<1>4. /\ IsTask(y) /\ y.client = c /\ y.file_len = x.file_len /\ y.len = x.len
      /\ ~ y.fresh /\ y.total = x.total /\ y.index = x.index + Grant(ClientQ)
      /\ ~ Complete(y) => Before(y)
  BY <1>1, <1>2, <1>3, PassOver
<1>5. /\ cur'[ClientQ] = NoTask /\ cur'[Work] = cur[Work]
      /\ tpc'[ClientQ] = "release" /\ tpc'[Work] = tpc[Work]
  BY <1>1 DEF Types, Threads
<1>6. /\ InHand(ClientQ) = {c} /\ InHand(ClientQ)' = {} /\ InHand(Work)' = InHand(Work)
  BY <1>1, <1>5 DEF InHand
<1>7. /\ client_q \in Seq(Range(client_q)) /\ task_q \in Seq(Range(task_q))
      /\ Distinct(client_q) /\ Distinct(task_q)
      /\ c \notin ClientsIn(client_q) /\ c \notin ClientsIn(task_q)
  BY <1>1, <1>6 DEF Types, Homes, Separate
<1>8. Threading'
  BY <1>1, <1>5 DEF Threading, Threads
<1>9. /\ Grant(Work)' = Grant(Work) /\ Announced(Work)' = Announced(Work)
      /\ \A d \in Clients : View(d)' = View(d)
  BY <1>5 DEF Grant, Announced, Ids, View
<1>10. CASE Complete(y)
  <2>1. /\ CompressionTask(z, "queued") /\ z.client = c /\ z.fresh
    <3>1. /\ z = [f \in TaskFields |-> z[f]]
          /\ z.client = c /\ z.file_len = FileLen[c] /\ z.len = 0 /\ z.fresh
          /\ z.total = 0 /\ z.remaining = 0 /\ z.index = 0
      BY <1>2, <1>4 DEF Task, TaskFields, IsTask
    <3>2. z.fresh \in BOOLEAN
      BY DEF Task
    <3> HIDE DEF z
    <3> QED
      BY <3>1, <3>2 DEF CompressionTask, IsTask
  <2>2. client_q' = client_q /\ task_q' = Append(task_q, z)
    BY <1>10
  <2> HIDE DEF y, z, FinishUpload
  <2>3. /\ Range(task_q') = Range(task_q) \cup {z} /\ task_q' \in Seq(Range(task_q'))
        /\ ClientsIn(task_q') = ClientsIn(task_q) \cup {c}
        /\ Distinct(task_q')
    BY <1>7, <2>1, <2>2, AppendRange, AppendDistinct
  <2>4. Types'
    BY <1>1, <2>2, <2>3 DEF Types, FinishUpload
  <2>5. Tasks'
    BY <1>1, <1>5, <2>1, <2>2, <2>3 DEF Tasks
  <2>6. UNCHANGED <<main_q, listened, linked, cpc>>
    BY DEF FinishUpload
  <2>7. Homes' /\ Present' = Present
    BY <1>1, <1>6, <1>7, <2>2, <2>3, <2>6 DEF Homes, Separate, Present
  <2>8. DownloadAt(View(c), z, "queued", 0, NoGrant(z))
    BY <1>3, <1>4, <1>10, <2>1
    DEF DownloadAt, Sent, Between, PassDone, LoopOver, Complete, Quiet
  <2>9. ASSUME NEW d \in Clients
        PROVE  Consistent(d)'
    <3>1. Consistent(d)
      BY DEF IInv
    <3>2. \A u \in Range(task_q') : u.client = d => DownloadAt(View(d), u, "queued", 0, NoGrant(u))
      BY <2>1, <2>3, <2>8, <3>1 DEF Consistent
    <3> QED
      BY <1>5, <1>6, <1>9, <2>2, <2>6, <2>7, <3>1, <3>2 DEF Consistent
  <2> QED
    BY <1>8, <2>4, <2>5, <2>7, <2>9 DEF IInv
<1>11. CASE ~ Complete(y)
  <2>1. task_q' = task_q /\ client_q' = Append(client_q, y)
    BY <1>11
  <2> HIDE DEF y, FinishUpload
  <2>2. ClientTask(y)
    BY <1>2, <1>4 DEF ClientTask
  <2>3. /\ Range(client_q') = Range(client_q) \cup {y} /\ client_q' \in Seq(Range(client_q'))
        /\ ClientsIn(client_q') = ClientsIn(client_q) \cup {c}
        /\ Distinct(client_q')
    BY <1>4, <1>7, <2>1, AppendRange, AppendDistinct
  <2>4. Types'
    BY <1>1, <2>1, <2>3 DEF Types, FinishUpload
  <2>5. Tasks'
    BY <1>1, <1>5, <2>1, <2>2, <2>3 DEF Tasks
  <2>6. UNCHANGED <<main_q, listened, linked, cpc>>
    BY DEF FinishUpload
  <2>7. Homes' /\ Present' = Present
    BY <1>1, <1>6, <1>7, <2>1, <2>3, <2>6 DEF Homes, Separate, Present
  <2>8. UploadAt(View(c), y, "queued", 0, NoGrant(y))
    <3>1. y.index < y.total
      BY <1>4, <1>11 DEF Before, Underway
    <3>2. Rest(x, Grant(ClientQ)) = y.total - y.index
      BY <1>4, <3>1 DEF Rest
    <3>3. Dead(View(c)) \/ (View(c).pc = "send_loop" /\ InStep(View(c), y))
      <4>1. (View(c).ii = y.index /\ View(c).needed = y.total) \/ Dead(View(c))
        BY <1>3, <1>4 DEF Sent, PassDone
      <4>2. y.index \in Nat /\ y.total \in Nat
        BY <1>4 DEF IsTask
      <4> QED
        BY <1>3, <3>1, <3>2, <4>1, <4>2 DEF Sent, PassDone, LoopOver, InStep
    <3> QED
      BY <1>3, <1>4, <1>11, <3>3 DEF UploadAt
  <2>9. ASSUME NEW d \in Clients
        PROVE  Consistent(d)'
    <3>1. Consistent(d)
      BY DEF IInv
    <3>2. \A u \in Range(client_q') : u.client = d => UploadAt(View(d), u, "queued", 0, NoGrant(u))
      BY <1>4, <2>3, <2>8, <3>1 DEF Consistent
    <3> QED
      BY <1>5, <1>6, <1>9, <2>1, <2>6, <2>7, <3>1, <3>2 DEF Consistent
  <2> QED
    BY <1>8, <2>4, <2>5, <2>7, <2>9 DEF IInv
<1> QED
  BY <1>10, <1>11

LEMMA FinishDownloadInv ==
  ASSUME IInv, FinishDownload, UNCHANGED clientVars
  PROVE  IInv'
<1> USE DEF FinishDownload, ThreadGoto, channelVars, clientVars
<1> DEFINE x == cur[Work]
           y == AfterPass(Work)
<1>1. /\ tpc[Work] = "finish" /\ Work \in Threads /\ ClientQ # Work
      /\ Types /\ Tasks /\ Threading /\ Homes
  BY DEF IInv, Threads, ClientQ, Work
<1> PICK c \in Clients : c = x.client
  BY <1>1, ThreadFacts
<1>2. /\ CompressionTask(x, "finish") /\ IsTask(x) /\ Grant(Work) \in Nat
      /\ DownloadAt(View(c), x, "finish", Grant(Work), Announced(Work))
  BY <1>1, ThreadFacts
<1>3. /\ After(x, Grant(Work)) /\ Quiet(View(c))
      /\ Dead(View(c)) \/ Received(View(c), x, Grant(Work))
  BY <1>2 DEF DownloadAt
<1>4. /\ IsTask(y) /\ y.client = c /\ y.file_len = x.file_len /\ y.len = x.len
      /\ ~ y.fresh /\ y.total = x.total /\ y.index = x.index + Grant(Work)
      /\ ~ Complete(y) => Before(y)
  BY <1>1, <1>2, <1>3, PassOver
<1>5. /\ cur'[Work] = NoTask /\ cur'[ClientQ] = cur[ClientQ]
      /\ tpc'[Work] = "release" /\ tpc'[ClientQ] = tpc[ClientQ]
  BY <1>1 DEF Types, Threads
<1>6. InHand(Work) = {c} /\ InHand(Work)' = {} /\ InHand(ClientQ)' = InHand(ClientQ)
  BY <1>1, <1>5 DEF InHand
<1>7. /\ task_q \in Seq(Range(task_q)) /\ Distinct(task_q)
      /\ c \notin ClientsIn(task_q) /\ c \notin ClientsIn(main_q) /\ c \notin ClientsIn(listened)
      /\ c \notin ClientsIn(client_q) /\ c \notin InHand(ClientQ)
  BY <1>1, <1>6 DEF Types, Homes, Separate
<1>8. Threading'
  BY <1>1, <1>5 DEF Threading, Threads
<1>9. /\ Grant(ClientQ)' = Grant(ClientQ) /\ Announced(ClientQ)' = Announced(ClientQ)
      /\ \A d \in Clients : View(d)' = View(d)
  BY <1>5 DEF Grant, Announced, Ids, View
<1>10. CASE Complete(y)
  <2>1. task_q' = task_q
    BY <1>10
  <2> HIDE DEF y, FinishDownload
  <2>2. Types'
    BY <1>1, <2>1 DEF Types, FinishDownload
  <2>3. UNCHANGED <<main_q, listened, linked, cpc, client_q>>
    BY DEF FinishDownload
  <2>4. Tasks'
    BY <1>1, <1>5, <2>1, <2>3 DEF Tasks
  <2>5. Homes' /\ Present' = Present \ {c}
    BY <1>1, <1>6, <1>7, <2>1, <2>3 DEF Homes, Separate, Present
  <2>6. Nowhere(View(c))
    BY <1>3, <1>4, <1>10
    DEF Nowhere, Received, PassDone, LoopOver, Complete, Dead
  <2>7. ASSUME NEW d \in Clients
        PROVE  Consistent(d)'
    <3>1. Consistent(d)
      BY DEF IInv
    <3>2. d \notin Present' => Nowhere(View(d))
      BY <2>5, <2>6, <3>1 DEF Consistent
    <3> QED
      BY <1>5, <1>6, <1>9, <2>1, <2>3, <3>1, <3>2 DEF Consistent
  <2> QED
    BY <1>8, <2>2, <2>4, <2>5, <2>7 DEF IInv
<1>11. CASE ~ Complete(y)
  <2>1. task_q' = Append(task_q, y)
    BY <1>11
  <2> HIDE DEF y, FinishDownload
  <2>2. CompressionTask(y, "queued")
    BY <1>2, <1>4 DEF CompressionTask
  <2>3. /\ Range(task_q') = Range(task_q) \cup {y} /\ task_q' \in Seq(Range(task_q'))
        /\ ClientsIn(task_q') = ClientsIn(task_q) \cup {c}
        /\ Distinct(task_q')
    BY <1>4, <1>7, <2>1, AppendRange, AppendDistinct
  <2>4. Types'
    BY <1>1, <2>1, <2>3 DEF Types, FinishDownload
  <2>5. UNCHANGED <<main_q, listened, linked, cpc, client_q>>
    BY DEF FinishDownload
  <2>6. Tasks'
    BY <1>1, <1>5, <2>1, <2>2, <2>3, <2>5 DEF Tasks
  <2>7. Homes' /\ Present' = Present
    BY <1>1, <1>6, <1>7, <2>1, <2>3, <2>5 DEF Homes, Separate, Present
  <2>8. DownloadAt(View(c), y, "queued", 0, NoGrant(y))
    <3>1. y.index < y.total
      BY <1>4, <1>11 DEF Before, Underway
    <3>2. Rest(x, Grant(Work)) = y.total - y.index
      BY <1>4, <3>1 DEF Rest
    <3>3. Dead(View(c)) \/ (View(c).pc = "recv_loop" /\ InStep(View(c), y))
      <4>1. (View(c).ii = y.index /\ View(c).needed = y.total) \/ Dead(View(c))
        BY <1>3, <1>4 DEF Received, PassDone
      <4>2. y.index \in Nat /\ y.total \in Nat
        BY <1>4 DEF IsTask
      <4> QED
        BY <1>3, <3>1, <3>2, <4>1, <4>2 DEF Received, PassDone, LoopOver, InStep
    <3> QED
      BY <1>3, <1>4, <1>11, <3>3 DEF DownloadAt
  <2>9. ASSUME NEW d \in Clients
        PROVE  Consistent(d)'
    <3>1. Consistent(d)
      BY DEF IInv
    <3>2. \A u \in Range(task_q') : u.client = d => DownloadAt(View(d), u, "queued", 0, NoGrant(u))
      BY <1>4, <2>3, <2>8, <3>1 DEF Consistent
    <3> QED
      BY <1>5, <1>6, <1>9, <2>1, <2>5, <2>7, <3>1, <3>2 DEF Consistent
  <2> QED
    BY <1>8, <2>4, <2>6, <2>7, <2>9 DEF IInv
<1> QED
  BY <1>10, <1>11

LEMMA ReleaseSegmentsInv ==
  ASSUME IInv, NEW t \in Threads, ReleaseSegments(t), UNCHANGED clientVars
  PROVE  IInv'
<1> USE DEF ReleaseSegments, ThreadGoto, channelVars, clientVars, Pool!Release
<1>1. tpc[t] = "release" /\ Types /\ Tasks /\ Threading /\ Homes
  BY DEF IInv
<1>2. tpc'[t] = "pop" /\ \A u \in Threads \ {t} : tpc'[u] = tpc[u]
  BY <1>1 DEF Types
<1>3. held'[t] = {} /\ \A u \in Threads \ {t} : held'[u] = held[u]
  BY <1>1 DEF Types
<1>4. \A u \in Threads : InHand(u)' = InHand(u)
  BY <1>1, <1>2 DEF InHand
<1>5. Types'
  BY <1>1 DEF Types
<1>6. Tasks' /\ Threading'
  BY <1>1, <1>2, <1>3 DEF Tasks, Threading, CompressionTask, Threads
<1>7. Homes' /\ Present' = Present
  BY <1>1, <1>4 DEF Homes, Present, Threads
<1>8. ASSUME NEW u \in Threads, InHand(u) # {}
      PROVE  Grant(u)' = Grant(u) /\ Announced(u)' = Announced(u) /\ tpc'[u] = tpc[u]
  <2>1. u # t
    BY <1>1, <1>8 DEF InHand
  <2> QED
    BY <1>2, <1>3, <2>1 DEF Grant, Announced, Ids
<1>9. ASSUME NEW d \in Clients
      PROVE  Consistent(d)'
  <2>1. View(d)' = View(d)
    BY DEF View
  <2>2. Consistent(d)
    BY DEF IInv
  <2>3. d \in InHand(ClientQ)' =>
          UploadAt(View(d), cur'[ClientQ], tpc'[ClientQ], Grant(ClientQ)', Announced(ClientQ)')
    BY <1>4, <1>8, <2>2 DEF Consistent, Threads
  <2>4. d \in InHand(Work)' =>
          DownloadAt(View(d), cur'[Work], tpc'[Work], Grant(Work)', Announced(Work)')
    BY <1>4, <1>8, <2>2 DEF Consistent, Threads
  <2> QED
    BY <1>7, <2>1, <2>2, <2>3, <2>4 DEF Consistent
<1> QED
  BY <1>5, <1>6, <1>7, <1>9 DEF IInv

-----------------------------------------------------------------------------
(* Every step keeps the invariant.                                         *)
LEMMA ClientNext ==
  ASSUME IInv, NEW c \in Clients, ClientStep(c) \/ Crash(c), UNCHANGED serverVars
  PROVE  IInv'
<1>1. CASE ClientStep(c)
  BY <1>1, CreateQueuesInv, RequestInv, SendPrelimInv, SendReceiveInv, SendCopyInv, SendAckOKInv,
     SendDoneInv, RecvPrelimInv, RecvReceiveInv, RecvCopyInv, RecvAckOKInv, FinishInv
  DEF ClientStep
<1>2. CASE Crash(c)
  BY <1>2, CrashInv
<1> QED
  BY <1>1, <1>2

LEMMA ThreadNext ==
  ASSUME FilesNotEmpty, IInv, NEW t \in Threads, ThreadStep(t), UNCHANGED clientVars
  PROVE  IInv'
  BY GrabSegmentsInv, OpenQueuesInv, AnnounceInv, ReceiveAckInv, ReleaseSegmentsInv,
     PopClientInv, PrelimUploadInv, CopyInInv, FinishUploadInv,
     PopTaskInv, CompressFileInv, PrelimDownloadInv, CopyOutInv, FinishDownloadInv
  DEF ThreadStep

LEMMA Stutter ==
  ASSUME IInv, UNCHANGED vars
  PROVE  IInv'
<1> USE DEF vars, channelVars, clientVars, serverVars
<1>1. Types' /\ Tasks' /\ Threading'
  BY DEF IInv, Types, Tasks, Threading
<1>2. \A t \in Threads : InHand(t)' = InHand(t) /\ Grant(t)' = Grant(t) /\ Announced(t)' = Announced(t)
  BY DEF InHand, Grant, Announced, Ids
<1>3. Homes' /\ Present' = Present
  BY <1>2 DEF IInv, Homes, Present, Threads
<1>4. ASSUME NEW d \in Clients
      PROVE  Consistent(d)'
  <2>1. View(d)' = View(d)
    BY DEF View
  <2>2. Consistent(d)
    BY DEF IInv
  <2> QED
    BY <1>2, <1>3, <2>1, <2>2 DEF Consistent, Threads
<1> QED
  BY <1>1, <1>3, <1>4 DEF IInv

LEMMA NextInv ==
  ASSUME FilesNotEmpty, IInv, [Next]_vars
  PROVE  IInv'
<1>1. CASE \E c \in Clients : (ClientStep(c) \/ Crash(c)) /\ UNCHANGED serverVars
  BY <1>1, ClientNext
<1>2. CASE ListenStep /\ UNCHANGED clientVars
  BY <1>2, ListenInv, AddClientInv DEF ListenStep
<1>3. CASE \E t \in Threads : ThreadStep(t) /\ UNCHANGED clientVars
  BY <1>3, ThreadNext
<1>4. CASE Poll \/ UNCHANGED vars
  BY <1>4, Stutter DEF Poll
<1> QED
  BY <1>1, <1>2, <1>3, <1>4 DEF Next

(* Where a call is in the server says where its client may be, at every    *)
(* moment: the tables hold of every reachable state.                       *)
THEOREM Invariant == FilesNotEmpty => (Spec => []IInv)
<1>1. Init => IInv
  BY InitInv
<1>2. FilesNotEmpty /\ IInv /\ [Next]_vars => IInv'
  BY NextInv
<1>3. FilesNotEmpty => FilesNotEmpty'
  BY DEF FilesNotEmpty
<1>4. FilesNotEmpty => []FilesNotEmpty
  BY <1>3, PTL
<1> QED
  BY <1>1, <1>2, <1>4, PTL DEF Spec

-----------------------------------------------------------------------------
(* What the invariant says of one client, by the place its call is in.     *)
LEMMA PlaceOf ==
  ASSUME IInv, NEW c \in Clients
  PROVE  LET v == View(c)
         IN  \/ Requested(v)
             \/ \E x : ClientTask(x) /\ UploadAt(v, x, "queued", 0, NoGrant(x))
             \/ /\ c \in InHand(ClientQ) /\ ClientTask(cur[ClientQ])
                /\ UploadAt(v, cur[ClientQ], tpc[ClientQ], Grant(ClientQ), Announced(ClientQ))
             \/ \E x : CompressionTask(x, "queued") /\ DownloadAt(v, x, "queued", 0, NoGrant(x))
             \/ /\ c \in InHand(Work) /\ CompressionTask(cur[Work], tpc[Work])
                /\ DownloadAt(v, cur[Work], tpc[Work], Grant(Work), Announced(Work))
             \/ Nowhere(v)
<1>1. Consistent(c) /\ Tasks
  BY DEF IInv
<1>2. CASE c \in ClientsIn(main_q) \cup ClientsIn(listened)
  BY <1>1, <1>2 DEF Consistent
<1>3. CASE c \in ClientsIn(client_q)
  BY <1>1, <1>3 DEF Consistent, ClientsIn, Tasks
<1>4. CASE c \in InHand(ClientQ)
  BY <1>1, <1>4 DEF Consistent, Tasks, InHand
<1>5. CASE c \in ClientsIn(task_q)
  BY <1>1, <1>5 DEF Consistent, ClientsIn, Tasks
<1>6. CASE c \in InHand(Work)
  BY <1>1, <1>6 DEF Consistent, Tasks, InHand
<1>7. CASE c \notin Present
  BY <1>1, <1>7 DEF Consistent
<1> QED
  BY <1>2, <1>3, <1>4, <1>5, <1>6, <1>7 DEF Present

(* Where the threads of a task in hand can be.                             *)
LEMMA ThreadPlaces ==
  ASSUME IInv
  PROVE  /\ InHand(ClientQ) # {} =>
              tpc[ClientQ] \in {"grab", "open", "prelim", "announce", "ack", "copy", "finish"}
         /\ InHand(Work) # {} =>
              tpc[Work] \in {"compress", "grab", "open", "prelim", "announce", "ack", "copy",
                             "finish"}
         /\ \A t \in Threads : InHand(t) # {} => InHand(t) = {cur[t].client}
         /\ \A t \in Threads : t \in Busy <=> InHand(t) # {}
  BY DEF IInv, Types, Threading, InHand, Threads, Busy

(* A client with an announcement in its hands: which thread made it, and   *)
(* how far both of them are.                                               *)
LEMMA InFlight ==
  ASSUME IInv, NEW c \in Clients
  PROVE  LET v == View(c)
         IN  /\ v.pc \in {"send_copy", "send_ack"} =>
                  /\ Awaits(ClientQ, c) /\ v.msg = Announced(ClientQ) /\ Before(cur[ClientQ])
                  /\ v.pc = "send_copy" => InStep(v, cur[ClientQ])
                  /\ v.pc = "send_ack" => PassCopied(v, cur[ClientQ], Grant(ClientQ))
             /\ v.pc \in {"recv_copy", "recv_ack"} =>
                  /\ Awaits(Work, c) /\ v.msg = Announced(Work)
                  /\ After(cur[Work], Grant(Work))
                  /\ v.pc = "recv_copy" => InStep(v, cur[Work])
                  /\ v.pc = "recv_ack" => PassCopied(v, cur[Work], Grant(Work))
<1> DEFINE v == View(c)
<1> SUFFICES ASSUME v.pc \in {"send_copy", "send_ack", "recv_copy", "recv_ack"}
             PROVE  /\ v.pc \in {"send_copy", "send_ack"} =>
                         /\ Awaits(ClientQ, c) /\ v.msg = Announced(ClientQ)
                         /\ Before(cur[ClientQ])
                         /\ v.pc = "send_copy" => InStep(v, cur[ClientQ])
                         /\ v.pc = "send_ack" => PassCopied(v, cur[ClientQ], Grant(ClientQ))
                    /\ v.pc \in {"recv_copy", "recv_ack"} =>
                         /\ Awaits(Work, c) /\ v.msg = Announced(Work)
                         /\ After(cur[Work], Grant(Work))
                         /\ v.pc = "recv_copy" => InStep(v, cur[Work])
                         /\ v.pc = "recv_ack" => PassCopied(v, cur[Work], Grant(Work))
  OBVIOUS
<1> HIDE DEF v
<1>1. ~ Requested(v) /\ ~ Nowhere(v)
  BY DEF Requested, Nowhere
<1>2. ~ \E x : ClientTask(x) /\ UploadAt(v, x, "queued", 0, NoGrant(x))
  BY DEF UploadAt, Dead, ClientTask, IsTask
<1>3. ~ \E x : CompressionTask(x, "queued") /\ DownloadAt(v, x, "queued", 0, NoGrant(x))
  BY DEF DownloadAt, Dead, Between, CompressionTask, IsTask
<1>4. CASE /\ c \in InHand(ClientQ) /\ ClientTask(cur[ClientQ])
           /\ UploadAt(v, cur[ClientQ], tpc[ClientQ], Grant(ClientQ), Announced(ClientQ))
  <2>1. /\ tpc[ClientQ] \in {"grab", "open", "prelim", "announce", "ack", "copy", "finish"}
        /\ cur[ClientQ].client = c /\ cur[ClientQ].fresh \in BOOLEAN
    BY <1>4, ThreadPlaces DEF Threads, ClientTask, IsTask
  <2>2. tpc[ClientQ] = "ack"
    BY <1>4, <2>1 DEF UploadAt, Dead, Sent
  <2> QED
    BY <1>4, <2>1, <2>2 DEF UploadAt, Dead, Sent, Awaits
<1>5. CASE /\ c \in InHand(Work) /\ CompressionTask(cur[Work], tpc[Work])
           /\ DownloadAt(v, cur[Work], tpc[Work], Grant(Work), Announced(Work))
  <2>1. /\ tpc[Work] \in {"compress", "grab", "open", "prelim", "announce", "ack", "copy",
                          "finish"}
        /\ cur[Work].client = c /\ cur[Work].fresh \in BOOLEAN
    BY <1>5, ThreadPlaces DEF Threads, CompressionTask, IsTask
  <2>2. tpc[Work] = "ack"
    BY <1>5, <2>1 DEF DownloadAt, Dead, Between, Received
  <2> QED
    BY <1>5, <2>1, <2>2 DEF DownloadAt, Dead, Between, Received, Awaits
<1> QED
  BY <1>1, <1>2, <1>3, <1>4, <1>5, PlaceOf DEF v

-----------------------------------------------------------------------------
(* The properties.                                                         *)
LEMMA SeqSubset ==
  ASSUME NEW S, NEW T, S \subseteq T, NEW q \in Seq(S)
  PROVE  q \in Seq(T)
<1>1. Len(q) \in Nat /\ q \in [1 .. Len(q) -> S]
  BY LenProperties
<1>2. q \in [1 .. Len(q) -> T]
  BY <1>1
<1> QED
  BY <1>1, <1>2, SeqDef

LEMMA TypeOKOfInv == IInv => TypeOK
<1> SUFFICES ASSUME IInv
             PROVE  TypeOK
  OBVIOUS
<1>1. Types /\ Tasks /\ Threading
  BY DEF IInv
<1>2. main_q \in Seq([client : Clients, len : Nat])
  <2>1. AllRequests \subseteq [client : Clients, len : Nat]
    BY ChannelsAssumption DEF AllRequests
  <2>2. main_q \in Seq(AllRequests)
    BY <1>1 DEF Types
  <2> QED
    BY <2>1, <2>2, SeqSubset
<1>3. \A c \in Clients : \A i \in DOMAIN get_q[c] :
        get_q[c][i].len \in Nat /\ get_q[c][i].ids \in Seq(SegIds)
  <2> SUFFICES ASSUME NEW c \in Clients, NEW i \in DOMAIN get_q[c]
               PROVE  get_q[c][i] \in Announcements
    BY DEF Announcements
  <2>1. get_q[c] \in Seq(Announcements)
    BY <1>1 DEF Types
  <2> QED
    BY <2>1, LenProperties
<1>4. \A t \in Busy : cur[t].index \in Nat /\ cur[t].remaining \in Nat
  <2> SUFFICES ASSUME NEW t \in Threads, cur[t] # NoTask
               PROVE  IsTask(cur[t])
    BY DEF Busy, IsTask
  <2> QED
    BY <1>1 DEF Threading, Tasks, Threads, ClientTask, CompressionTask
<1> QED
  BY <1>1, <1>2, <1>3, <1>4 DEF Types, TypeOK

LEMMA SegmentSafetyOfInv == IInv => SegmentSafety
<1> SUFFICES ASSUME IInv, NEW c \in Clients
             PROVE  /\ cpc[c] \in {"send_copy", "send_ack"} =>
                         Awaits(ClientQ, c) /\ msg[c].ids = Ids(ClientQ)
                    /\ cpc[c] = "recv_copy" => Awaits(Work, c) /\ msg[c].ids = Ids(Work)
  BY DEF SegmentSafety
<1>1. View(c).pc = cpc[c] /\ View(c).msg = msg[c]
  BY DEF View
<1>2. \A t \in Threads : Announced(t).ids = Ids(t)
  BY DEF Announced, Announcement
<1> QED
  BY <1>1, <1>2, InFlight DEF Threads

LEMMA AgreeOnPositionOfInv == IInv => AgreeOnPosition
<1> SUFFICES ASSUME IInv, NEW c \in Clients
             PROVE  /\ cpc[c] = "send_copy" =>
                         /\ Awaits(ClientQ, c)
                         /\ ii[c] = cur[ClientQ].index
                         /\ to_recv[c] = cur[ClientQ].remaining
                         /\ needed[c] = cur[ClientQ].total
                    /\ cpc[c] = "recv_copy" =>
                         /\ Awaits(Work, c)
                         /\ ii[c] = cur[Work].index
                         /\ to_recv[c] = cur[Work].remaining + ChunksInPass(msg[c].ids, to_recv[c])
                         /\ needed[c] = cur[Work].total
  BY DEF AgreeOnPosition
<1>1. /\ View(c).pc = cpc[c] /\ View(c).msg = msg[c] /\ View(c).ii = ii[c]
      /\ View(c).needed = needed[c] /\ View(c).to_recv = to_recv[c]
  BY DEF View
<1>2. ASSUME cpc[c] = "send_copy"
      PROVE  /\ Awaits(ClientQ, c)
             /\ ii[c] = cur[ClientQ].index
             /\ to_recv[c] = cur[ClientQ].remaining
             /\ needed[c] = cur[ClientQ].total
  BY <1>1, <1>2, InFlight DEF InStep, Before
<1>3. ASSUME cpc[c] = "recv_copy"
      PROVE  /\ Awaits(Work, c)
             /\ ii[c] = cur[Work].index
             /\ to_recv[c] = cur[Work].remaining + ChunksInPass(msg[c].ids, to_recv[c])
             /\ needed[c] = cur[Work].total
  <2>1. /\ Awaits(Work, c) /\ msg[c] = Announced(Work)
        /\ After(cur[Work], Grant(Work)) /\ InStep(View(c), cur[Work])
    BY <1>1, <1>3, InFlight
  <2>2. /\ Work \in Threads /\ tpc[Work] = "ack"
    BY <2>1 DEF Awaits, Threads
  <2>3. /\ IsTask(cur[Work]) /\ Grant(Work) \in Nat /\ Len(msg[c].ids) = Grant(Work)
    BY <2>1, <2>2, InHandTask, GrantType DEF IInv
  <2> QED
    BY <1>1, <2>1, <2>3 DEF InStep, After, Underway, Rest, ChunksInPass, IsTask
<1> QED
  BY <1>2, <1>3

LEMMA NeverBlocksOfInv == IInv => NeverBlocksOnSend
<1> SUFFICES ASSUME IInv, NEW c \in Clients
             PROVE  Len(get_q[c]) <= 2 /\ put_q[c] <= 1
  BY DEF NeverBlocksOnSend
<1> DEFINE v == View(c)
<1>1. v.get = get_q[c] /\ v.put = put_q[c]
  BY DEF View
<1>2. \A a : Len(<<>>) = 0 /\ Len(<<a>>) = 1 /\ Len(<<a, a>>) = 2
  OBVIOUS
<1> HIDE DEF v
<1> DEFINE Short(a) == v.get \in {<<>>, <<a>>, <<a, a>>} /\ v.put \in {0, 1}
<1>3. Requested(v) \/ Nowhere(v) => Short(0)
  BY DEF Requested, Nowhere, Quiet
<1>4. \A x : ClientTask(x) /\ UploadAt(v, x, "queued", 0, NoGrant(x)) => Short(0)
  BY DEF UploadAt, Quiet
<1>5. \A x : CompressionTask(x, "queued") /\ DownloadAt(v, x, "queued", 0, NoGrant(x)) => Short(0)
  BY DEF DownloadAt, Quiet, CompressionTask, IsTask
<1>6. ASSUME c \in InHand(ClientQ), ClientTask(cur[ClientQ]),
             UploadAt(v, cur[ClientQ], tpc[ClientQ], Grant(ClientQ), Announced(ClientQ))
      PROVE  Short(Announced(ClientQ))
  <2>1. tpc[ClientQ] \in {"grab", "open", "prelim", "announce", "ack", "copy", "finish"}
    BY <1>6, ThreadPlaces
  <2>2. CASE tpc[ClientQ] \notin {"announce", "ack"}
    BY <1>6, <2>1, <2>2 DEF UploadAt, Quiet
  <2>3. CASE tpc[ClientQ] \in {"announce", "ack"}
    BY <1>6, <2>3 DEF UploadAt
  <2> QED
    BY <2>2, <2>3
<1>7. ASSUME c \in InHand(Work), CompressionTask(cur[Work], tpc[Work]),
             DownloadAt(v, cur[Work], tpc[Work], Grant(Work), Announced(Work))
      PROVE  Short(Announced(Work))
  <2>1. /\ tpc[Work] \in {"compress", "grab", "open", "prelim", "announce", "ack", "copy",
                          "finish"}
        /\ cur[Work].fresh \in BOOLEAN
    BY <1>7, ThreadPlaces DEF CompressionTask, IsTask
  <2>2. CASE tpc[Work] \notin {"copy", "announce", "ack"}
    BY <1>7, <2>1, <2>2 DEF DownloadAt, Quiet
  <2>3. CASE tpc[Work] \in {"copy", "announce", "ack"}
    BY <1>7, <2>3 DEF DownloadAt
  <2> QED
    BY <2>2, <2>3
<1>8. \E a : Short(a)
  <2> HIDE DEF Short
  <2> QED
    BY <1>3, <1>4, <1>5, <1>6, <1>7, PlaceOf DEF v
<1>9. PICK a : v.get \in {<<>>, <<a>>, <<a, a>>} /\ v.put \in {0, 1}
  BY <1>8
<1>10. Len(v.get) <= 2
  <2>1. CASE v.get = <<>>
    BY <1>2, <2>1
  <2>2. CASE v.get = <<a>>
    BY <1>2, <2>2
  <2>3. CASE v.get = <<a, a>>
    BY <1>2, <2>3
  <2> QED
    BY <1>9, <2>1, <2>2, <2>3
<1>11. v.put <= 1
  BY <1>9
<1> QED
  BY <1>1, <1>10, <1>11

LEMMA OpensSucceedOfInv == IInv => OpensSucceed
  BY DEF IInv, Threading, OpensSucceed

(* The places of a call are counted: as many as there are of its client in *)
(* the queues and in hand, which is one at most.                           *)
EntriesOf(q, c, name) == {<<name, i>> : i \in {i \in DOMAIN q : q[i].client = c}}

HandOf(t, c) == {<<"cur", u>> : u \in {u \in Busy \cap {t} : cur[u].client = c}}

LEMMA OneEntryOf ==
  ASSUME NEW q, q \in Seq(Range(q)), Distinct(q), NEW c, NEW name
  PROVE  \E p : \/ c \notin ClientsIn(q) /\ EntriesOf(q, c, name) = {}
                \/ c \in ClientsIn(q) /\ EntriesOf(q, c, name) = {p}
<1> DEFINE D == {i \in DOMAIN q : q[i].client = c}
           P == {<<name, i>> : i \in D}
<1> USE DEF EntriesOf
<1>1. CASE c \notin ClientsIn(q)
  <2>1. D = {}
    BY <1>1 DEF ClientsIn, Range
  <2> QED
    BY <1>1, <2>1
<1>2. CASE c \in ClientsIn(q)
  <2>1. PICK i \in DOMAIN q : q[i].client = c
    BY <1>2 DEF ClientsIn, Range
  <2>2. D = {i}
    BY <2>1 DEF Distinct
  <2>3. P = {<<name, i>>}
    BY <2>2
  <2> QED
    BY <1>2, <2>1, <2>3
<1> QED
  BY <1>1, <1>2

LEMMA InHandOf ==
  ASSUME IInv, NEW t \in Threads, NEW c \in Clients
  PROVE  \/ c \notin InHand(t) /\ HandOf(t, c) = {}
         \/ c \in InHand(t) /\ HandOf(t, c) = {<<"cur", t>>}
<1> USE DEF HandOf
<1> DEFINE D == {u \in Busy \cap {t} : cur[u].client = c}
           P == {<<"cur", u>> : u \in D}
<1>1. (t \in Busy <=> InHand(t) # {}) /\ (InHand(t) # {} => InHand(t) = {cur[t].client})
  BY ThreadPlaces
<1>2. c \notin InHand(t) => D = {}
  BY <1>1
<1>3. c \in InHand(t) => D = {t}
  BY <1>1 DEF Busy
<1> QED
  BY <1>2, <1>3

(* The union of two sets of places that are not both inhabited.            *)
LEMMA PlacesCount ==
  ASSUME NEW A, NEW B, NEW a, NEW b, NEW p, NEW q,
         \/ a /\ A = {p}
         \/ ~ a /\ A = {},
         \/ b /\ B = {q}
         \/ ~ b /\ B = {},
         ~ (a /\ b)
  PROVE  Cardinality(A \cup B) = IF a \/ b THEN 1 ELSE 0
<1>1. A \cup B \in {{}, {p}, {q}} /\ (A \cup B = {} <=> ~ (a \/ b))
  OBVIOUS
<1> QED
  BY <1>1, FS_EmptySet, FS_Singleton

LEMMA OneHomeOfInv == IInv => OneHome
<1> SUFFICES ASSUME IInv, NEW c \in Clients
             PROVE  LET places == Cardinality(Requests(c)) + Cardinality(Uploads(c))
                                    + Cardinality(Downloads(c))
                    IN  /\ places <= 1
                        /\ cpc[c] \notin {"create", "request", "recv_loop", "recv_ack", "done",
                                          "crashed"} => places = 1
  BY DEF OneHome
<1> DEFINE r == c \in ClientsIn(main_q) \/ c \in ClientsIn(listened)
           u == c \in ClientsIn(client_q) \/ c \in InHand(ClientQ)
           d == c \in ClientsIn(task_q) \/ c \in InHand(Work)
<1>1. Types /\ Homes
  BY DEF IInv
<1>2. ~ (r /\ u) /\ ~ (r /\ d) /\ ~ (u /\ d)
  BY <1>1 DEF Homes, Separate
<1>3. Cardinality(Requests(c)) = IF r THEN 1 ELSE 0
  <2>1. main_q \in Seq(Range(main_q)) /\ listened \in Seq(Range(listened))
    BY <1>1, RangeType DEF Types
  <2>2. ~ (c \in ClientsIn(main_q) /\ c \in ClientsIn(listened))
    BY <1>1 DEF Homes, Separate
  <2>a. main_q \in Seq(Range(main_q)) /\ Distinct(main_q)
    BY <1>1, <2>1 DEF Homes
  <2>b. listened \in Seq(Range(listened)) /\ Distinct(listened)
    BY <1>1, <2>1 DEF Homes
  <2> DEFINE A == EntriesOf(main_q, c, "main_q")
             B == EntriesOf(listened, c, "listened")
             a == c \in ClientsIn(main_q)
             b == c \in ClientsIn(listened)
  <2>3. PICK p : (a /\ A = {p}) \/ (~ a /\ A = {})
    BY <2>a, OneEntryOf
  <2>4. PICK q : (b /\ B = {q}) \/ (~ b /\ B = {})
    BY <2>b, OneEntryOf
  <2>5. Requests(c) = A \cup B
    BY DEF Requests, EntriesOf
  <2> HIDE DEF A, B, a, b
  <2>6. ~ (a /\ b)
    BY <2>2 DEF a, b
  <2>7. Cardinality(A \cup B) = IF a \/ b THEN 1 ELSE 0
    BY <2>3, <2>4, <2>6, PlacesCount
  <2> QED
    BY <2>5, <2>7 DEF a, b
<1>4. Cardinality(Uploads(c)) = IF u THEN 1 ELSE 0
  <2>1. ~ (c \in ClientsIn(client_q) /\ c \in InHand(ClientQ)) /\ Distinct(client_q)
    BY <1>1 DEF Homes, Separate
  <2>2. client_q \in Seq(Range(client_q)) /\ ClientQ \in Threads
    BY <1>1 DEF Types, Threads
  <2> DEFINE A == EntriesOf(client_q, c, "client_q")
             B == HandOf(ClientQ, c)
             a == c \in ClientsIn(client_q)
             b == c \in InHand(ClientQ)
  <2>3. PICK p : (a /\ A = {p}) \/ (~ a /\ A = {})
    BY <2>1, <2>2, OneEntryOf
  <2>4. (b /\ B = {<<"cur", ClientQ>>}) \/ (~ b /\ B = {})
    BY <2>2, InHandOf
  <2>5. Uploads(c) = A \cup B
    BY DEF Uploads, EntriesOf, HandOf
  <2> HIDE DEF A, B, a, b
  <2>6. ~ (a /\ b)
    BY <2>1 DEF a, b
  <2>7. Cardinality(A \cup B) = IF a \/ b THEN 1 ELSE 0
    BY <2>3, <2>4, <2>6, PlacesCount
  <2> QED
    BY <2>5, <2>7 DEF a, b
<1>5. Cardinality(Downloads(c)) = IF d THEN 1 ELSE 0
  <2>1. ~ (c \in ClientsIn(task_q) /\ c \in InHand(Work)) /\ Distinct(task_q)
    BY <1>1 DEF Homes, Separate
  <2>2. task_q \in Seq(Range(task_q)) /\ Work \in Threads
    BY <1>1 DEF Types, Threads
  <2> DEFINE A == EntriesOf(task_q, c, "task_q")
             B == HandOf(Work, c)
             a == c \in ClientsIn(task_q)
             b == c \in InHand(Work)
  <2>3. PICK p : (a /\ A = {p}) \/ (~ a /\ A = {})
    BY <2>1, <2>2, OneEntryOf
  <2>4. (b /\ B = {<<"cur", Work>>}) \/ (~ b /\ B = {})
    BY <2>2, InHandOf
  <2>5. Downloads(c) = A \cup B
    BY DEF Downloads, EntriesOf, HandOf
  <2> HIDE DEF A, B, a, b
  <2>6. ~ (a /\ b)
    BY <2>1 DEF a, b
  <2>7. Cardinality(A \cup B) = IF a \/ b THEN 1 ELSE 0
    BY <2>3, <2>4, <2>6, PlacesCount
  <2> QED
    BY <2>5, <2>7 DEF a, b
<1>6. cpc[c] \notin {"create", "request", "recv_loop", "recv_ack", "done", "crashed"} => r \/ u \/ d
  <2>1. c \notin Present => Nowhere(View(c))
    BY DEF IInv, Consistent
  <2> QED
    BY <2>1 DEF Present, Nowhere, View
<1> HIDE DEF r, u, d
<1> QED
  BY <1>2, <1>3, <1>4, <1>5, <1>6

-----------------------------------------------------------------------------
(* The queues, counters and buffers of the protocol keep their types,      *)
(* sync_compress and the three threads (client_library.c, main.c).         *)
THEOREM ServiceTypeOK == FilesNotEmpty => (Spec => []TypeOK)
  BY Invariant, TypeOKOfInv, PTL

(* A client copies only to and from segments that are granted for its own  *)
(* pass at that moment, whoever else is served or killed (the loops of     *)
(* send_data_to_server and receive_compressed_data).                       *)
THEOREM ServiceSegmentSafety == FilesNotEmpty => (Spec => []SegmentSafety)
  BY Invariant, SegmentSafetyOfInv, PTL

(* Client and server agree on where they are in the file, with no message  *)
(* that says so (ii and segments_to_recv, segment_index and                *)
(* segments_remaining).                                                    *)
THEOREM ServiceAgreeOnPosition == FilesNotEmpty => (Spec => []AgreeOnPosition)
  BY Invariant, AgreeOnPositionOfInv, PTL

(* Two announcements and one ACK are all a private queue ever holds, so no *)
(* thread is stopped by a client that does not read (mq_send, MAX_MSG).    *)
THEOREM ServiceNeverBlocks == FilesNotEmpty => (Spec => []NeverBlocksOnSend)
  BY Invariant, NeverBlocksOfInv, PTL

(* The server's mq_opens find the client's queues, the killed client's too *)
(* (get_q_reader, put_q_writer in the two threads).                        *)
THEOREM ServiceOpensSucceed == FilesNotEmpty => (Spec => []OpensSucceed)
  BY Invariant, OpensSucceedOfInv, PTL

(* A call is never in two places of the server, nor in none of them while  *)
(* it waits (add_to_list and remove_head of both queues).                  *)
THEOREM ServiceOneHome == FilesNotEmpty => (Spec => []OneHome)
  BY Invariant, OneHomeOfInv, PTL

-----------------------------------------------------------------------------
(* The codec does not make a file longer: *compressed_len fits the buffer  *)
(* of file_len bytes that sync_compress gives receive_compressed_data.     *)
NoExpansion == \A c \in Clients : CompressedLen(FileLen[c]) <= FileLen[c]

-----------------------------------------------------------------------------
Buffer(buf, size) == buf = [b \in 0 .. size - 1 |-> buf[b]]

(* The first m segments of buf, which takes len bytes, are those of src.   *)
RightUpTo(buf, src, len, m) ==
  \A b \in DOMAIN buf : b < len /\ b < m * SegSize => buf[b] = src[b]

(* The segments of a pass hold what comes from src after index segments.   *)
Loaded(ids, src, len, index) ==
  \A j \in 1 .. Len(ids) : \A k \in 0 .. SegSize - 1 :
    Offset(j, index) + k < len => shm[ids[j]][k] = src[Offset(j, index) + k]

Result(c) == Compress(FileLen[c], File(c))

ResultLen(c) == CompressedLen(FileLen[c])

(* The client's buffer for the result.                                     *)
ClientBuffer(c) ==
  /\ cpc[c] \in {"recv_prelim", "recv_loop", "recv_copy", "recv_ack", "done"} =>
       Buffer(comp_buf[c], FileLen[c])
  /\ cpc[c] \in {"recv_loop", "recv_copy", "recv_ack", "done"} =>
       /\ comp_len[c] = ResultLen(c)
       /\ needed[c] = SegmentsNeeded(ResultLen(c))
       /\ RightUpTo(comp_buf[c], Result(c), ResultLen(c),
                    IF cpc[c] = "recv_ack" THEN ii[c] + Len(msg[c].ids) ELSE ii[c])
  /\ cpc[c] = "done" => ii[c] >= needed[c]

(* The server's buffer for the file of the client task x, at p.            *)
UploadBuffer(x, p, n) ==
  ~ x.fresh \/ p \in {"announce", "ack", "copy", "finish"} =>
    /\ Buffer(x.file_buffer, x.len)
    /\ RightUpTo(x.file_buffer, File(x.client), x.len,
                 IF p = "finish" THEN x.index + n ELSE x.index)

(* Its buffers for the compression task x.                                 *)
DownloadBuffers(x, p) ==
  /\ x.file_buffer = File(x.client)
  /\ ~ (p = "compress" \/ (p = "queued" /\ x.fresh)) =>
       x.compressed_buffer = Result(x.client)

ServerBuffers ==
  /\ \A x \in Range(client_q) : UploadBuffer(x, "queued", 0)
  /\ InHand(ClientQ) # {} => UploadBuffer(cur[ClientQ], tpc[ClientQ], Grant(ClientQ))
  /\ \A x \in Range(task_q) : DownloadBuffers(x, "queued")
  /\ InHand(Work) # {} => DownloadBuffers(cur[Work], tpc[Work])

(* The client has filled the segments of the pass ClientQ waits for or has *)
(* its ACK of.                                                             *)
FilledIn ==
  \/ tpc[ClientQ] = "copy"
  \/ /\ tpc[ClientQ] = "ack"
     /\ \/ put_q[cur[ClientQ].client] = 1
        \/ cpc[cur[ClientQ].client] = "send_ack"

LoadedIn ==
  FilledIn =>
    Loaded(Ids(ClientQ), File(cur[ClientQ].client), cur[ClientQ].len, cur[ClientQ].index)

LoadedOut ==
  tpc[Work] \in {"announce", "ack"} =>
    Loaded(Ids(Work), Result(cur[Work].client), cur[Work].len, cur[Work].index)

(* No segment is granted twice, nor has the identifier of another.         *)
Apart ==
  /\ held[ClientQ] \cap held[Work] = {}
  /\ \A r, s \in Segs : segment_id[r] = segment_id[s] => r = s

(* Every client has a length and a buffer.                                 *)
Arrays == DOMAIN comp_len = Clients /\ DOMAIN comp_buf = Clients

DInv ==
  /\ IInv /\ Arrays /\ Apart /\ LoadedIn /\ LoadedOut
  /\ ServerBuffers /\ \A c \in Clients : ClientBuffer(c)

-----------------------------------------------------------------------------
(* Positions in a buffer: the segment a byte is in, and its place there.   *)
LEMMA SegmentOfByte ==
  ASSUME NEW b \in Nat, NEW S \in Nat, S > 0
  PROVE  /\ b \div S \in Nat /\ b % S \in 0 .. S - 1
         /\ b = (b \div S) * S + (b % S)
         /\ (b \div S) * S <= b /\ b < (b \div S) * S + S
  OBVIOUS

LEMMA Times ==
  ASSUME NEW m \in Int, NEW n \in Int, NEW S \in Nat
  PROVE  /\ m * S \in Int /\ (m + 1) * S = m * S + S
         /\ m < n => m * S + S <= n * S
         /\ m <= n => m * S <= n * S
         /\ m \in Nat => m * S \in Nat
  OBVIOUS

(* The segments of a buffer: the last one is needed, and they are enough.  *)
LEMMA NeededBounds ==
  ASSUME NEW len \in Nat
  PROVE  /\ SegmentsNeeded(len) \in Nat
         /\ len <= SegmentsNeeded(len) * SegSize
         /\ \A m \in Nat : m < SegmentsNeeded(len) => m * SegSize < len
<1> DEFINE q == len \div SegSize
           r == len % SegSize
           N == SegmentsNeeded(len)
<1>1. SegSize \in Nat /\ SegSize > 0
  BY ChannelsAssumption
<1>2. q \in Nat /\ r \in 0 .. SegSize - 1 /\ len = q * SegSize + r
  BY <1>1, SegmentOfByte
<1>3. N = IF r # 0 THEN q + 1 ELSE q
  BY <1>2 DEF SegmentsNeeded
<1> HIDE DEF q, r, N
<1>4. q * SegSize \in Nat /\ (q + 1) * SegSize = q * SegSize + SegSize
  BY <1>1, <1>2, Times
<1>5. N \in Nat /\ len <= N * SegSize
  BY <1>1, <1>2, <1>3, <1>4
<1>6. ASSUME NEW m \in Nat, m < N
      PROVE  m * SegSize < len
  <2>1. CASE r # 0
    <3>1. m <= q
      BY <1>2, <1>3, <1>6, <2>1
    <3>2. m * SegSize <= q * SegSize /\ m * SegSize \in Nat
      BY <1>1, <1>2, <3>1, Times
    <3> QED
      BY <1>1, <1>2, <1>4, <2>1, <3>2
  <2>2. CASE r = 0
    <3>1. m < q
      BY <1>2, <1>3, <1>6, <2>2
    <3>2. m * SegSize + SegSize <= q * SegSize /\ m * SegSize \in Nat
      BY <1>1, <1>2, <3>1, Times
    <3> QED
      BY <1>1, <1>2, <1>4, <2>2, <3>2
  <2> QED
    BY <2>1, <2>2
<1> QED
  BY <1>5, <1>6 DEF N

-----------------------------------------------------------------------------
(* The copy of one pass, of a buffer of len bytes of which index segments  *)
(* have been moved and all the others remain.                              *)
LEMMA ChunkOf ==
  ASSUME NEW len \in Nat, NEW index \in Nat, index < SegmentsNeeded(len),
         NEW remaining, remaining = SegmentsNeeded(len) - index,
         NEW j \in Nat \ {0}
  PROVE  /\ Offset(j, index) \in Nat
         /\ j <= remaining =>
              /\ ChunkLen(j, len, index, remaining) \in 1 .. SegSize
              /\ Offset(j, index) + ChunkLen(j, len, index, remaining) <= len
              /\ \A k \in 0 .. SegSize - 1 :
                   k < ChunkLen(j, len, index, remaining) <=> Offset(j, index) + k < len
         /\ j > remaining => Offset(j, index) >= len
<1> DEFINE N == SegmentsNeeded(len)
           o == Offset(j, index)
           m == j - 1 + index
<1>1. SegSize \in Nat /\ SegSize > 0
  BY ChannelsAssumption
<1>2. N \in Nat /\ len <= N * SegSize /\ \A i \in Nat : i < N => i * SegSize < len
  BY NeededBounds
<1>3. m \in Nat /\ o = m * SegSize /\ remaining \in Nat
  BY <1>2 DEF Offset
<1> HIDE DEF N, o, m
<1>4. o \in Nat /\ N * SegSize \in Nat
  BY <1>1, <1>2, <1>3, Times
<1>5. CASE j = remaining
  <2>1. m = N - 1 /\ m < N /\ m + 1 = N
    BY <1>2, <1>3, <1>5 DEF N, m
  <2>2. o < len /\ N * SegSize = o + SegSize
    BY <1>1, <1>2, <1>3, <2>1, Times
  <2>3. ChunkLen(j, len, index, remaining) = len - o
    BY <1>5 DEF ChunkLen, o
  <2> QED
    BY <1>1, <1>2, <1>3, <1>4, <1>5, <2>2, <2>3 DEF o
<1>6. CASE j < remaining
  <2>1. m + 1 < N /\ m + 1 \in Nat
    BY <1>2, <1>3, <1>6 DEF N, m
  <2>2. (m + 1) * SegSize < len /\ (m + 1) * SegSize = o + SegSize
    BY <1>1, <1>2, <1>3, <2>1, Times
  <2>3. ChunkLen(j, len, index, remaining) = SegSize
    BY <1>3, <1>6 DEF ChunkLen
  <2> QED
    BY <1>1, <1>3, <1>4, <1>6, <2>2, <2>3 DEF o
<1>7. CASE j > remaining
  <2>1. N <= m
    BY <1>2, <1>3, <1>7 DEF N, m
  <2>2. N * SegSize <= o
    BY <1>1, <1>2, <1>3, <2>1, Times
  <2> QED
    BY <1>2, <1>3, <1>4, <1>7, <2>2 DEF o
<1> QED
  BY <1>3, <1>5, <1>6, <1>7

(* Such a pass stays inside its buffer and its segments.                   *)
LEMMA PassFits ==
  ASSUME NEW len \in Nat, NEW index \in Nat, index < SegmentsNeeded(len),
         NEW remaining, remaining = SegmentsNeeded(len) - index,
         NEW ids \in Seq(SegIds), NEW buf, 0 .. len - 1 \subseteq DOMAIN buf
  PROVE  PassInBounds(buf, len, index, remaining, ids)
<1>1. remaining \in Nat /\ Len(ids) \in Nat
  <2>1. SegmentsNeeded(len) \in Nat
    BY NeededBounds
  <2>2. Len(ids) \in Nat
    OBVIOUS
  <2> QED
    BY <2>1, <2>2
<1>2. SUFFICES ASSUME NEW j \in 1 .. ChunksInPass(ids, remaining)
               PROVE  /\ ChunkLen(j, len, index, remaining) \in 1 .. SegSize
                      /\ Offset(j, index) >= 0
                      /\ Offset(j, index) + ChunkLen(j, len, index, remaining) - 1 \in DOMAIN buf
  BY DEF PassInBounds
<1>3. j \in Nat \ {0} /\ j <= remaining
  BY <1>1, <1>2 DEF ChunksInPass
<1>4. /\ Offset(j, index) \in Nat
      /\ ChunkLen(j, len, index, remaining) \in 1 .. SegSize
      /\ Offset(j, index) + ChunkLen(j, len, index, remaining) <= len
  BY <1>3, ChunkOf
<1>5. Offset(j, index) + ChunkLen(j, len, index, remaining) - 1 \in 0 .. len - 1
  BY <1>4, ChannelsAssumption
<1> QED
  BY <1>4, <1>5

-----------------------------------------------------------------------------
(* A pass into the segments leaves them loaded, and no other touched.      *)
LEMMA CopyTo ==
  ASSUME NEW len \in Nat, NEW index \in Nat, index < SegmentsNeeded(len),
         NEW remaining, remaining = SegmentsNeeded(len) - index,
         NEW ids \in Seq(SegIds), \A i, j \in 1 .. Len(ids) : ids[i] = ids[j] => i = j,
         NEW buf, shm' = ToSegments(buf, len, index, remaining, ids)
  PROVE  /\ Loaded(ids, buf, len, index)'
         /\ \A s \in SegIds : (\A j \in 1 .. Len(ids) : ids[j] # s) =>
              \A k \in 0 .. SegSize - 1 : shm'[s][k] = shm[s][k]
<1>1. remaining \in Nat /\ Len(ids) \in Nat
  <2>1. SegmentsNeeded(len) \in Nat
    BY NeededBounds
  <2>2. Len(ids) \in Nat
    OBVIOUS
  <2> QED
    BY <2>1, <2>2
<1>2. ASSUME NEW j \in 1 .. Len(ids), NEW k \in 0 .. SegSize - 1, Offset(j, index) + k < len
      PROVE  shm'[ids[j]][k] = buf[Offset(j, index) + k]
  <2>1. j \in Nat \ {0} /\ ids[j] \in SegIds
    BY <1>1
  <2>2. j <= remaining
    <3>1. ~ (Offset(j, index) >= len)
      BY <2>1, <1>2, ChunkOf, ChannelsAssumption
    <3> QED
      BY <1>1, <2>1, <3>1, ChunkOf
  <2>3. j \in 1 .. ChunksInPass(ids, remaining) /\ k < ChunkLen(j, len, index, remaining)
    BY <1>1, <1>2, <2>1, <2>2, ChunkOf DEF ChunksInPass
  <2>4. (CHOOSE i \in 1 .. Len(ids) : ids[i] = ids[j]) = j
    OBVIOUS
  <2> QED
    BY <2>1, <2>3, <2>4 DEF ToSegments
<1>3. Loaded(ids, buf, len, index)'
  BY <1>2 DEF Loaded, Offset
<1>4. ASSUME NEW s \in SegIds, \A j \in 1 .. Len(ids) : ids[j] # s, NEW k \in 0 .. SegSize - 1
      PROVE  shm'[s][k] = shm[s][k]
  <2>1. \A j \in 1 .. ChunksInPass(ids, remaining) : j \in 1 .. Len(ids)
    BY <1>1 DEF ChunksInPass
  <2>2. ~ \E j \in 1 .. ChunksInPass(ids, remaining) :
            ids[j] = s /\ k < ChunkLen(j, len, index, remaining)
    BY <1>4, <2>1
  <2> QED
    BY <2>2 DEF ToSegments
<1> QED
  BY <1>3, <1>4

(* A pass out of loaded segments makes its buffer right a grant further.   *)
LEMMA CopyFrom ==
  ASSUME NEW len \in Nat, NEW index \in Nat, index < SegmentsNeeded(len),
         NEW remaining, remaining = SegmentsNeeded(len) - index,
         NEW ids \in Seq(SegIds), NEW src, NEW size \in Nat,
         NEW buf, Buffer(buf, size), RightUpTo(buf, src, len, index),
         Loaded(ids, src, len, index)
  PROVE  LET new == FromSegments(buf, len, index, remaining, ids)
         IN  Buffer(new, size) /\ RightUpTo(new, src, len, index + Len(ids))
<1> DEFINE new == FromSegments(buf, len, index, remaining, ids)
<1>1. /\ remaining \in Nat /\ Len(ids) \in Nat
      /\ SegmentsNeeded(len) \in Nat /\ SegSize \in Nat /\ SegSize > 0
      /\ len <= SegmentsNeeded(len) * SegSize
  <2>1. SegmentsNeeded(len) \in Nat /\ len <= SegmentsNeeded(len) * SegSize
    BY NeededBounds
  <2>2. Len(ids) \in Nat
    OBVIOUS
  <2> QED
    BY <2>1, <2>2, ChannelsAssumption
<1>2. DOMAIN buf = 0 .. size - 1 /\ DOMAIN new = 0 .. size - 1
  BY DEF Buffer, FromSegments
<1>3. Buffer(new, size)
  BY <1>2 DEF Buffer, FromSegments
<1>4. ASSUME NEW b \in 0 .. size - 1, b < len, b < (index + Len(ids)) * SegSize
      PROVE  new[b] = src[b]
  <2> DEFINE q == b \div SegSize
             k == b % SegSize
             j == q - index + 1
             here == j \in 1 .. ChunksInPass(ids, remaining)
                       /\ k < ChunkLen(j, len, index, remaining)
  <2>1. /\ q \in Nat /\ k \in 0 .. SegSize - 1 /\ b = q * SegSize + k
        /\ q * SegSize <= b /\ b < q * SegSize + SegSize
    BY <1>1, SegmentOfByte
  <2>2. new[b] = IF here THEN shm[ids[j]][k] ELSE buf[b]
    BY <1>2 DEF FromSegments
  <2> HIDE DEF new, q, k
  <2>3. CASE q < index
    <3>1. ~ here
      BY <1>1, <2>1, <2>3 DEF ChunksInPass
    <3>2. b < index * SegSize
      <4>1. q * SegSize + SegSize <= index * SegSize
        BY <1>1, <2>1, <2>3, Times
      <4> QED
        BY <1>1, <2>1, <4>1, Times
    <3> QED
      BY <1>2, <1>4, <2>2, <3>1, <3>2 DEF RightUpTo
  <2>4. CASE q >= index
    <3>1. j \in Nat \ {0} /\ Offset(j, index) = q * SegSize /\ Offset(j, index) + k = b
      BY <2>1, <2>4 DEF Offset
    <3>2. q < index + Len(ids)
      <4>1. CASE index + Len(ids) <= q
        <5>a. index + Len(ids) \in Int /\ q \in Int
          BY <1>1, <2>1
        <5>1. (index + Len(ids)) * SegSize <= q * SegSize
          BY <1>1, <4>1, <5>a, Times
        <5>2. (index + Len(ids)) * SegSize \in Int /\ q * SegSize \in Int
          BY <1>1, <2>1, Times
        <5> QED
          BY <1>4, <2>1, <5>1, <5>2
      <4> QED
        BY <1>1, <2>1, <4>1
    <3>3. j \in 1 .. Len(ids)
      BY <1>1, <2>1, <3>1, <3>2
    <3>4. j <= remaining
      <4>1. /\ Offset(j, index) \in Nat
            /\ j > remaining => Offset(j, index) >= len
        BY <3>1, ChunkOf
      <4>2. Offset(j, index) <= b /\ b \in Nat
        BY <1>1, <2>1, <3>1, <4>1
      <4>3. ~ (Offset(j, index) >= len)
        BY <1>4, <4>1, <4>2
      <4> QED
        BY <1>1, <3>1, <4>1, <4>3
    <3>5. here
      <4>1. k < ChunkLen(j, len, index, remaining) <=> Offset(j, index) + k < len
        BY <2>1, <3>1, <3>4, ChunkOf
      <4>2. Offset(j, index) + k < len
        BY <1>4, <3>1
      <4>3. j \in 1 .. ChunksInPass(ids, remaining)
        BY <1>1, <3>1, <3>3, <3>4 DEF ChunksInPass
      <4> QED
        BY <4>1, <4>2, <4>3
    <3>6. shm[ids[j]][k] = src[b]
      BY <1>4, <2>1, <3>1, <3>3 DEF Loaded
    <3> QED
      BY <2>2, <3>5, <3>6
  <2> QED
    BY <1>1, <2>1, <2>3, <2>4
<1>5. RightUpTo(new, src, len, index + Len(ids))
  BY <1>2, <1>4 DEF RightUpTo
<1> QED
  BY <1>3, <1>5

(* A buffer that is right up to its last segment is the whole of its source. *)
LEMMA RightToTheEnd ==
  ASSUME NEW len \in Nat, NEW m \in Nat, m >= SegmentsNeeded(len),
         NEW src, Buffer(src, len), NEW buf, Buffer(buf, len), RightUpTo(buf, src, len, m)
  PROVE  buf = src
<1>1. /\ SegmentsNeeded(len) \in Nat /\ len <= SegmentsNeeded(len) * SegSize
      /\ SegSize \in Nat
  BY NeededBounds, ChannelsAssumption
<1>2. SegmentsNeeded(len) * SegSize <= m * SegSize /\ m * SegSize \in Nat
      /\ SegmentsNeeded(len) * SegSize \in Nat
  BY <1>1, Times
<1>3. \A b \in 0 .. len - 1 : b < m * SegSize
  BY <1>1, <1>2
<1>4. \A b \in 0 .. len - 1 : buf[b] = src[b]
  BY <1>3 DEF RightUpTo, Buffer
<1> QED
  BY <1>4 DEF Buffer

-----------------------------------------------------------------------------
(* The identifiers of a grant are different, and different from those of   *)
(* the other thread's.                                                     *)
LEMMA IdsApart ==
  ASSUME Types, Apart, NEW t \in Threads
  PROVE  /\ Ids(t) \in Seq(SegIds)
         /\ \A i, j \in 1 .. Len(Ids(t)) : Ids(t)[i] = Ids(t)[j] => i = j
         /\ \A u \in Threads \ {t} : \A i \in 1 .. Len(Ids(t)), j \in 1 .. Len(Ids(u)) :
              Ids(t)[i] # Ids(u)[j]
<1>1. ASSUME NEW u \in Threads
      PROVE  /\ Ids(u) \in Seq(SegIds) /\ Len(Ids(u)) = Grant(u) /\ Grant(u) \in Nat
             /\ \A j \in 1 .. Grant(u) :
                  InOrder(held[u])[j] \in held[u] /\ Ids(u)[j] = segment_id[InOrder(held[u])[j]]
             /\ \A i, j \in 1 .. Grant(u) : i < j => InOrder(held[u])[i] < InOrder(held[u])[j]
             /\ held[u] \subseteq Segs /\ held[u] \subseteq Int
  <2>1. held[u] \subseteq Segs
    BY DEF Types
  <2>2. held[u] \subseteq Int /\ IsFiniteSet(held[u])
    BY <2>1, SegsFinite, FS_Subset
  <2>3. /\ InOrder(held[u]) \in [1 .. Grant(u) -> held[u]]
        /\ \A i, j \in 1 .. Grant(u) : i < j => InOrder(held[u])[i] < InOrder(held[u])[j]
    BY <2>2, InOrderType DEF Grant
  <2>4. /\ Ids(u) \in Seq(SegIds) /\ Len(Ids(u)) = Grant(u) /\ Grant(u) \in Nat
    BY GrantType
  <2>5. \A j \in 1 .. Grant(u) : Ids(u)[j] = segment_id[InOrder(held[u])[j]]
    BY DEF Ids, Grant
  <2> QED
    BY <2>1, <2>2, <2>3, <2>4, <2>5
<1>2. ASSUME NEW i \in 1 .. Grant(t), NEW j \in 1 .. Grant(t), Ids(t)[i] = Ids(t)[j]
      PROVE  i = j
  <2>1. InOrder(held[t])[i] = InOrder(held[t])[j]
    BY <1>1, <1>2 DEF Apart
  <2>2. /\ InOrder(held[t])[i] \in Int
        /\ i < j => InOrder(held[t])[i] < InOrder(held[t])[j]
        /\ j < i => InOrder(held[t])[j] < InOrder(held[t])[i]
    BY <1>1
  <2> QED
    BY <1>1, <2>1, <2>2
<1>3. ASSUME NEW u \in Threads \ {t}, NEW i \in 1 .. Grant(t), NEW j \in 1 .. Grant(u),
             Ids(t)[i] = Ids(u)[j]
      PROVE  FALSE
  <2>1. held[t] \cap held[u] = {}
    BY DEF Apart, Threads
  <2> PICK r \in held[t], s \in held[u] : r = InOrder(held[t])[i] /\ s = InOrder(held[u])[j]
    BY <1>1, <1>3
  <2>2. r \in Segs /\ s \in Segs
    BY <1>1
  <2>3. Ids(t)[i] = segment_id[r] /\ Ids(u)[j] = segment_id[s]
    BY <1>1, <1>3
  <2>4. r = s
    BY <1>3, <2>2, <2>3 DEF Apart
  <2> QED
    BY <2>1, <2>4
<1> QED
  BY <1>1, <1>2, <1>3

(* What a pass holds stays, when it goes on and nobody writes its segments. *)
LEMMA LoadedKept ==
  ASSUME NEW ids, NEW src, NEW len, NEW index, Loaded(ids, src, len, index),
         ids \in Seq(SegIds),
         \A j \in 1 .. Len(ids) : \A k \in 0 .. SegSize - 1 : shm'[ids[j]][k] = shm[ids[j]][k]
  PROVE  Loaded(ids, src, len, index)'
  BY DEF Loaded, Offset

LEMMA LoadedInKept ==
  ASSUME LoadedIn, Types, UNCHANGED segment_id,
         FilledIn' => /\ FilledIn /\ held'[ClientQ] = held[ClientQ]
                      /\ cur'[ClientQ].client = cur[ClientQ].client
                      /\ cur'[ClientQ].len = cur[ClientQ].len
                      /\ cur'[ClientQ].index = cur[ClientQ].index,
         FilledIn' => \A j \in 1 .. Len(Ids(ClientQ)) : \A k \in 0 .. SegSize - 1 :
                        shm'[Ids(ClientQ)[j]][k] = shm[Ids(ClientQ)[j]][k]
  PROVE  LoadedIn'
<1> SUFFICES ASSUME FilledIn'
             PROVE  Loaded(Ids(ClientQ), File(cur[ClientQ].client), cur[ClientQ].len,
                           cur[ClientQ].index)'
  BY DEF LoadedIn
<1>1. PICK ids, c, len, index : /\ ids = Ids(ClientQ) /\ c = cur[ClientQ].client
                                /\ len = cur[ClientQ].len /\ index = cur[ClientQ].index
  OBVIOUS
<1>2. Ids(ClientQ)' = ids
  BY <1>1 DEF Ids
<1>3. ids \in Seq(SegIds)
  BY <1>1, GrantType DEF Threads
<1>4. Loaded(ids, File(c), len, index)
  BY <1>1 DEF LoadedIn
<1>5. Loaded(ids, File(c), len, index)'
  BY <1>1, <1>3, <1>4, LoadedKept
<1> QED
  BY <1>1, <1>2, <1>5

LEMMA LoadedOutKept ==
  ASSUME LoadedOut, Types, UNCHANGED segment_id,
         tpc'[Work] \in {"announce", "ack"} =>
           /\ tpc[Work] \in {"announce", "ack"} /\ held'[Work] = held[Work]
           /\ cur'[Work] = cur[Work],
         tpc'[Work] \in {"announce", "ack"} =>
           \A j \in 1 .. Len(Ids(Work)) : \A k \in 0 .. SegSize - 1 :
             shm'[Ids(Work)[j]][k] = shm[Ids(Work)[j]][k]
  PROVE  LoadedOut'
<1> SUFFICES ASSUME tpc'[Work] \in {"announce", "ack"}
             PROVE  Loaded(Ids(Work), Result(cur[Work].client), cur[Work].len, cur[Work].index)'
  BY DEF LoadedOut
<1>1. PICK ids, c, len, index : /\ ids = Ids(Work) /\ c = cur[Work].client
                                /\ len = cur[Work].len /\ index = cur[Work].index
  OBVIOUS
<1>2. Ids(Work)' = ids
  BY <1>1 DEF Ids
<1>3. ids \in Seq(SegIds)
  BY <1>1, GrantType DEF Threads
<1>4. Loaded(ids, Result(c), len, index)
  BY <1>1 DEF LoadedOut
<1>5. Loaded(ids, Result(c), len, index)'
  BY <1>1, <1>3, <1>4, LoadedKept
<1> QED
  BY <1>1, <1>2, <1>5

-----------------------------------------------------------------------------
LEMMA InitData ==
  ASSUME Init
  PROVE  DInv
<1>1. IInv
  BY InitInv
<1>2. /\ client_q = <<>> /\ task_q = <<>>
      /\ \A t \in Threads : tpc[t] = "pop" /\ held[t] = {}
      /\ \A c \in Clients : cpc[c] = "create"
      /\ segment_id = FreshSegments({})
  BY DEF Init, ChannelsInit, ClientInit, ServerInit, Pool!Init
<1>3. Apart
  <2>1. /\ SegIds \subseteq Int /\ IsFiniteSet(SegIds) /\ SegIds \ {} = SegIds
        /\ SegCount \in Nat /\ SegCount <= Cardinality(SegIds)
    BY ChannelsAssumption, FS_CardinalityType
  <2>2. /\ Cardinality(SegIds) \in Nat /\ InOrder(SegIds) \in [1 .. Cardinality(SegIds) -> SegIds]
        /\ \A i, j \in 1 .. Cardinality(SegIds) : i < j => InOrder(SegIds)[i] < InOrder(SegIds)[j]
    BY <2>1, InOrderType
  <2>3. ASSUME NEW r \in Segs, NEW s \in Segs, segment_id[r] = segment_id[s]
        PROVE  r = s
    <3>1. r + 1 \in 1 .. Cardinality(SegIds) /\ s + 1 \in 1 .. Cardinality(SegIds)
      BY <2>1, <2>2 DEF Segs
    <3>2. InOrder(SegIds)[r + 1] = InOrder(SegIds)[s + 1]
      BY <1>2, <2>1, <2>3 DEF FreshSegments
    <3>3. /\ InOrder(SegIds)[r + 1] \in Int /\ InOrder(SegIds)[s + 1] \in Int
          /\ r + 1 < s + 1 => InOrder(SegIds)[r + 1] < InOrder(SegIds)[s + 1]
          /\ s + 1 < r + 1 => InOrder(SegIds)[s + 1] < InOrder(SegIds)[r + 1]
      BY <2>1, <2>2, <3>1
    <3>4. r \in Int /\ s \in Int
      BY DEF Segs
    <3> QED
      BY <3>2, <3>3, <3>4
  <2> QED
    BY <1>2, <2>3 DEF Apart, Threads
<1>4. LoadedIn /\ LoadedOut
  BY <1>2 DEF LoadedIn, FilledIn, LoadedOut, Threads
<1>5. ServerBuffers
  BY <1>2, EmptyRange DEF ServerBuffers, InHand, Threads
<1>6. \A c \in Clients : ClientBuffer(c)
  BY <1>2 DEF ClientBuffer
<1>7. Arrays
  BY DEF Arrays, Init, ClientInit
<1> QED
  BY <1>1, <1>3, <1>4, <1>5, <1>6, <1>7 DEF DInv

-----------------------------------------------------------------------------
(* The steps of a client: what a step of one leaves as it was.             *)
LEMMA ClientData ==
  ASSUME DInv, IInv', NEW c \in Clients, UNCHANGED serverVars,
         \A d \in Clients \ {c} :
           /\ cpc'[d] = cpc[d] /\ ii'[d] = ii[d] /\ needed'[d] = needed[d] /\ msg'[d] = msg[d]
           /\ comp_len'[d] = comp_len[d] /\ comp_buf'[d] = comp_buf[d],
         Arrays', ClientBuffer(c)', LoadedIn', LoadedOut'
  PROVE  DInv'
<1>1. Apart'
  BY DEF DInv, Apart, serverVars
<1>2. ServerBuffers'
  <2>1. /\ client_q' = client_q /\ task_q' = task_q /\ cur' = cur /\ tpc' = tpc
        /\ \A t \in Threads : InHand(t)' = InHand(t) /\ Grant(t)' = Grant(t)
    BY DEF serverVars, InHand, Grant
  <2>2. ServerBuffers
    BY DEF DInv
  <2> QED
    BY <2>1, <2>2 DEF ServerBuffers, Threads, UploadBuffer, DownloadBuffers, Buffer, RightUpTo, Result
<1>3. ASSUME NEW d \in Clients, d # c
      PROVE  ClientBuffer(d)'
  <2>1. ClientBuffer(d)
    BY DEF DInv
  <2>2. /\ cpc'[d] = cpc[d] /\ ii'[d] = ii[d] /\ needed'[d] = needed[d] /\ msg'[d] = msg[d]
        /\ comp_len'[d] = comp_len[d] /\ comp_buf'[d] = comp_buf[d]
    BY <1>3
  <2> QED
    BY ONLY <2>1, <2>2 DEF ClientBuffer, Buffer, RightUpTo, Result, ResultLen
<1> QED
  BY <1>1, <1>2, <1>3 DEF DInv

LEMMA ClientStill ==
  ASSUME DInv, IInv', NEW c \in Clients, UNCHANGED <<serverVars, shm>>,
         \A d \in Clients \ {c} :
           /\ cpc'[d] = cpc[d] /\ ii'[d] = ii[d] /\ needed'[d] = needed[d] /\ msg'[d] = msg[d]
           /\ comp_len'[d] = comp_len[d] /\ comp_buf'[d] = comp_buf[d],
         Arrays', ClientBuffer(c)', FilledIn' => FilledIn
  PROVE  DInv'
<1>1. /\ LoadedIn /\ LoadedOut /\ Types
      /\ segment_id' = segment_id /\ held' = held /\ cur' = cur /\ tpc' = tpc
  BY DEF DInv, IInv, serverVars
<1>2. LoadedIn'
  BY <1>1, LoadedInKept
<1>3. LoadedOut'
  BY <1>1, LoadedOutKept
<1> QED
  BY <1>2, <1>3, ClientData

(* Only the copy of a pass, its ACK and its reception by ClientQ have to   *)
(* do with whether the client has filled the segments.                     *)
LEMMA FillingKept ==
  ASSUME IInv, NEW c \in Clients, cur' = cur, tpc' = tpc, put_q' = put_q,
         \A d \in Clients \ {c} : cpc'[d] = cpc[d],
         cpc'[c] # "send_ack"
  PROVE  FilledIn' => FilledIn
<1>1. tpc[ClientQ] = "ack" => cur[ClientQ].client \in Clients
  BY InHandTask DEF IInv, Threads
<1> QED
  BY <1>1 DEF FilledIn

(* What a client that waits for the compressed file is announced.          *)
LEMMA HeadIsResult ==
  ASSUME IInv, NEW c \in Clients, cpc[c] \in {"recv_prelim", "recv_loop"}, get_q[c] # <<>>
  PROVE  Head(get_q[c]).len = ResultLen(c)
<1> DEFINE v == View(c)
<1>a. v.pc = cpc[c] /\ v.get = get_q[c]
  BY DEF View
<1> HIDE DEF v
<1>1. ~ Requested(v) /\ ~ Nowhere(v)
  BY <1>a DEF Requested, Nowhere, Quiet
<1>2. ~ \E x : ClientTask(x) /\ UploadAt(v, x, "queued", 0, NoGrant(x))
  BY <1>a DEF UploadAt, Quiet
<1>3. ~ \E x : CompressionTask(x, "queued") /\ DownloadAt(v, x, "queued", 0, NoGrant(x))
  BY <1>a DEF DownloadAt, Quiet, CompressionTask, IsTask
<1>4. ~ (/\ c \in InHand(ClientQ) /\ ClientTask(cur[ClientQ])
         /\ UploadAt(v, cur[ClientQ], tpc[ClientQ], Grant(ClientQ), Announced(ClientQ)))
  <2> SUFFICES ASSUME /\ c \in InHand(ClientQ) /\ ClientTask(cur[ClientQ])
                      /\ UploadAt(v, cur[ClientQ], tpc[ClientQ], Grant(ClientQ),
                                  Announced(ClientQ))
               PROVE  FALSE
    OBVIOUS
  <2>1. tpc[ClientQ] \in {"grab", "open", "prelim", "announce", "ack", "copy", "finish"}
    BY ThreadPlaces
  <2> QED
    BY <1>a, <2>1 DEF UploadAt, Quiet, Dead
<1>5. CASE /\ c \in InHand(Work) /\ CompressionTask(cur[Work], tpc[Work])
           /\ DownloadAt(v, cur[Work], tpc[Work], Grant(Work), Announced(Work))
  <2>1. /\ tpc[Work] \in {"compress", "grab", "open", "prelim", "announce", "ack", "copy",
                          "finish"}
        /\ cur[Work].client = c /\ cur[Work].fresh \in BOOLEAN
    BY <1>5, ThreadPlaces DEF Threads, CompressionTask, IsTask
  <2>2. tpc[Work] # "compress" /\ v.get \in {<<Announced(Work)>>, <<Announced(Work), Announced(Work)>>}
    BY <1>a, <1>5, <2>1 DEF DownloadAt, Quiet, Dead
  <2>3. cur[Work].len = ResultLen(c)
    BY <1>5, <2>1, <2>2 DEF CompressionTask, IsTask, ResultLen
  <2>4. Head(v.get) = Announced(Work)
    BY <2>2
  <2> QED
    BY <1>a, <2>3, <2>4 DEF Announced, Announcement
<1> QED
  BY <1>1, <1>2, <1>3, <1>4, <1>5, PlaceOf DEF v

(* The steps before the file is sent: nobody's buffer but the segments'.   *)
LEMMA SendingData ==
  ASSUME DInv, NEW c \in Clients, UNCHANGED serverVars,
         CreateQueues(c) \/ Request(c) \/ SendPrelim(c) \/ SendReceive(c)
  PROVE  DInv'
<1> USE DEF CreateQueues, Request, SendPrelim, SendReceive, ClientGoto, ReceiveGet, StartPhase
<1>1. IInv /\ IInv' /\ Types
  BY ClientNext DEF DInv, IInv, ClientStep
<1>2. /\ cpc' = [cpc EXCEPT ![c] = cpc'[c]] /\ cpc'[c] \in {"request", "send_prelim", "send_loop", "send_copy"}
      /\ comp_len' = comp_len /\ comp_buf' = comp_buf /\ shm' = shm /\ put_q' = put_q
      /\ \A d \in Clients \ {c} :
           /\ cpc'[d] = cpc[d] /\ ii'[d] = ii[d] /\ needed'[d] = needed[d] /\ msg'[d] = msg[d]
  BY <1>1 DEF Types
<1>3. ClientBuffer(c)' /\ Arrays'
  BY <1>2 DEF ClientBuffer, DInv, Arrays
<1>4. FilledIn' => FilledIn
  BY <1>1, <1>2, FillingKept DEF serverVars
<1> QED
  BY <1>1, <1>2, <1>3, <1>4, ClientStill

LEMMA SendCopyData ==
  ASSUME DInv, NEW c \in Clients, UNCHANGED serverVars, SendCopy(c)
  PROVE  DInv'
<1> USE DEF SendCopy, ClientGoto, CountDown
<1>1. IInv /\ IInv' /\ Types /\ LoadedOut /\ Apart
  BY ClientNext DEF DInv, IInv, ClientStep
<1>2. /\ cpc[c] = "send_copy" /\ cpc'[c] = "send_ack"
      /\ comp_len' = comp_len /\ comp_buf' = comp_buf
      /\ \A d \in Clients \ {c} :
           /\ cpc'[d] = cpc[d] /\ ii'[d] = ii[d] /\ needed'[d] = needed[d] /\ msg'[d] = msg[d]
  BY <1>1 DEF Types
<1>3. ClientBuffer(c)' /\ Arrays'
  BY <1>2 DEF ClientBuffer, DInv, Arrays
<1>4. /\ Awaits(ClientQ, c) /\ View(c).msg = Announced(ClientQ) /\ Before(cur[ClientQ])
      /\ InStep(View(c), cur[ClientQ])
  BY <1>1, <1>2, InFlight DEF View
<1>5. /\ cur[ClientQ].client = c /\ cur[ClientQ].len = FileLen[c] /\ tpc[ClientQ] = "ack"
      /\ cur[ClientQ].index \in Nat
  BY <1>1, <1>4 DEF Awaits, IInv, Tasks, ClientTask, IsTask
<1> PICK len, index, remaining, ids :
      len = FileLen[c] /\ index = ii[c] /\ remaining = to_recv[c] /\ ids = Ids(ClientQ)
  OBVIOUS
<1>6. /\ index = cur[ClientQ].index /\ index \in Nat /\ len \in Nat
      /\ index < SegmentsNeeded(len) /\ remaining = SegmentsNeeded(len) - index
      /\ msg[c].ids = ids
  BY <1>4, <1>5, ChannelsAssumption
  DEF InStep, Before, Underway, View, Announced, Announcement
<1>7. /\ ids \in Seq(SegIds) /\ \A i, j \in 1 .. Len(ids) : ids[i] = ids[j] => i = j
      /\ \A i \in 1 .. Len(Ids(Work)), j \in 1 .. Len(ids) : Ids(Work)[i] # ids[j]
      /\ Ids(Work) \in Seq(SegIds)
  <2>1. /\ ids \in Seq(SegIds) /\ \A i, j \in 1 .. Len(ids) : ids[i] = ids[j] => i = j
    BY <1>1, IdsApart DEF Threads
  <2>2. /\ Ids(Work) \in Seq(SegIds)
        /\ \A u \in Threads \ {Work} : \A i \in 1 .. Len(Ids(Work)), j \in 1 .. Len(Ids(u)) :
              Ids(Work)[i] # Ids(u)[j]
    BY <1>1, IdsApart DEF Threads
  <2>3. ClientQ \in Threads \ {Work}
    BY DEF Threads, ClientQ, Work
  <2> QED
    BY <2>1, <2>2, <2>3
<1>8. shm' = ToSegments(File(c), len, index, remaining, ids)
  BY <1>6
<1>9. /\ Loaded(ids, File(c), len, index)'
      /\ \A s \in SegIds : (\A j \in 1 .. Len(ids) : ids[j] # s) =>
           \A k \in 0 .. SegSize - 1 : shm'[s][k] = shm[s][k]
  <2> HIDE DEF SendCopy
  <2> QED
    BY <1>6, <1>7, <1>8, CopyTo
<1>10. segment_id' = segment_id /\ held' = held /\ cur' = cur /\ tpc' = tpc
  BY DEF serverVars
<1>11. LoadedIn'
  <2>1. Ids(ClientQ)' = ids
    BY <1>10 DEF Ids
  <2> QED
    BY <1>5, <1>6, <1>9, <1>10, <2>1 DEF LoadedIn
<1>12. LoadedOut'
  <2>1. \A j \in 1 .. Len(Ids(Work)) : \A k \in 0 .. SegSize - 1 :
          shm'[Ids(Work)[j]][k] = shm[Ids(Work)[j]][k]
    <3>1. \A j \in 1 .. Len(Ids(Work)) : Ids(Work)[j] \in SegIds
      BY <1>7
    <3> QED
      BY <1>7, <1>9, <3>1
  <2> QED
    BY <1>1, <1>10, <2>1, LoadedOutKept
<1> QED
  BY <1>1, <1>2, <1>3, <1>11, <1>12, ClientData

LEMMA SendAckOKData ==
  ASSUME DInv, NEW c \in Clients, UNCHANGED serverVars, SendAckOK(c)
  PROVE  DInv'
<1> USE DEF SendAckOK, ClientGoto, SendAck, CountUp
<1>1. IInv /\ IInv' /\ Types
  BY ClientNext DEF DInv, IInv, ClientStep
<1>2. /\ cpc[c] = "send_ack" /\ cpc'[c] = "send_loop" /\ shm' = shm
      /\ comp_len' = comp_len /\ comp_buf' = comp_buf
      /\ \A d \in Clients \ {c} :
           /\ cpc'[d] = cpc[d] /\ ii'[d] = ii[d] /\ needed'[d] = needed[d] /\ msg'[d] = msg[d]
           /\ put_q'[d] = put_q[d]
  BY <1>1 DEF Types
<1>3. ClientBuffer(c)' /\ Arrays'
  BY <1>2 DEF ClientBuffer, DInv, Arrays
<1>4. FilledIn' => FilledIn
  <2>1. tpc[ClientQ] = "ack" => cur[ClientQ].client \in Clients
    BY <1>1, InHandTask DEF IInv, Threads
  <2> QED
    BY <1>2, <2>1 DEF FilledIn, serverVars
<1> QED
  BY <1>1, <1>2, <1>3, <1>4, ClientStill

LEMMA SendDoneData ==
  ASSUME DInv, NEW c \in Clients, UNCHANGED serverVars, SendDone(c)
  PROVE  DInv'
<1> USE DEF SendDone, ClientGoto
<1>1. IInv /\ IInv' /\ Types /\ Arrays
  BY ClientNext DEF DInv, IInv, ClientStep
<1>2. /\ cpc'[c] = "recv_prelim" /\ shm' = shm /\ put_q' = put_q /\ comp_len' = comp_len
      /\ \A d \in Clients \ {c} :
           /\ cpc'[d] = cpc[d] /\ ii'[d] = ii[d] /\ needed'[d] = needed[d] /\ msg'[d] = msg[d]
           /\ comp_buf'[d] = comp_buf[d]
      /\ comp_buf'[c] = Malloc(FileLen[c]) /\ DOMAIN comp_buf' = Clients
  BY <1>1 DEF Types, channelVars, Arrays
<1>3. ClientBuffer(c)' /\ Arrays'
  BY <1>1, <1>2 DEF ClientBuffer, Arrays, Buffer, Malloc
<1>4. FilledIn' => FilledIn
  BY <1>1, <1>2, FillingKept DEF serverVars
<1> QED
  BY <1>1, <1>2, <1>3, <1>4, ClientStill

(* The preliminary message gives the length; nothing is copied yet.        *)
LEMMA RecvPrelimData ==
  ASSUME DInv, NEW c \in Clients, UNCHANGED serverVars, RecvPrelim(c)
  PROVE  DInv'
<1> USE DEF RecvPrelim, ClientGoto, ReceiveGet, StartPhase
<1>1. IInv /\ IInv' /\ Types /\ Arrays /\ ClientBuffer(c)
  BY ClientNext DEF DInv, IInv, ClientStep
<1>2. /\ cpc[c] = "recv_prelim" /\ cpc'[c] = "recv_loop"
      /\ shm' = shm /\ put_q' = put_q /\ comp_buf' = comp_buf
      /\ \A d \in Clients \ {c} :
           /\ cpc'[d] = cpc[d] /\ ii'[d] = ii[d] /\ needed'[d] = needed[d] /\ msg'[d] = msg[d]
           /\ comp_len'[d] = comp_len[d]
      /\ DOMAIN comp_len' = Clients
  BY <1>1 DEF Types, Arrays
<1>3. Head(get_q[c]).len = ResultLen(c)
  BY <1>1, <1>2, HeadIsResult
<1>4. comp_len'[c] = ResultLen(c) /\ needed'[c] = SegmentsNeeded(ResultLen(c)) /\ ii'[c] = 0
  BY <1>1, <1>3 DEF Types, Arrays
<1>5. ClientBuffer(c)' /\ Arrays'
  <2>1. \A b \in Nat : ~ (b < 0 * SegSize)
    BY ChannelsAssumption
  <2>2. Buffer(comp_buf[c], FileLen[c]) /\ FileLen[c] \in Nat
    BY <1>1, <1>2, ChannelsAssumption DEF ClientBuffer
  <2>3. RightUpTo(comp_buf[c], Result(c), ResultLen(c), 0)
    BY <2>1, <2>2 DEF RightUpTo, Buffer
  <2>4. (RightUpTo(comp_buf[c], Result(c), ResultLen(c), ii[c]))'
    BY <1>2, <1>4, <2>3 DEF RightUpTo, Result, ResultLen
  <2>5. Buffer(comp_buf[c], FileLen[c])'
    BY <1>2, <2>2 DEF Buffer
  <2> QED
    BY <1>1, <1>2, <1>4, <2>4, <2>5 DEF ClientBuffer, Arrays, ResultLen
<1>6. FilledIn' => FilledIn
  BY <1>1, <1>2, FillingKept DEF serverVars
<1> QED
  BY <1>1, <1>2, <1>5, <1>6, ClientStill

LEMMA RecvReceiveData ==
  ASSUME DInv, NEW c \in Clients, UNCHANGED serverVars, RecvReceive(c)
  PROVE  DInv'
<1> USE DEF RecvReceive, ClientGoto, ReceiveGet
<1>1. IInv /\ IInv' /\ Types /\ Arrays /\ ClientBuffer(c)
  BY ClientNext DEF DInv, IInv, ClientStep
<1>2. /\ cpc[c] = "recv_loop" /\ cpc'[c] = "recv_copy"
      /\ shm' = shm /\ put_q' = put_q /\ comp_buf' = comp_buf /\ ii' = ii /\ needed' = needed
      /\ \A d \in Clients \ {c} :
           cpc'[d] = cpc[d] /\ msg'[d] = msg[d] /\ comp_len'[d] = comp_len[d]
      /\ DOMAIN comp_len' = Clients
  BY <1>1 DEF Types, Arrays
<1>3. Head(get_q[c]).len = ResultLen(c)
  BY <1>1, <1>2, HeadIsResult
<1>4. comp_len'[c] = ResultLen(c)
  BY <1>1, <1>3 DEF Arrays
<1>5. ClientBuffer(c)' /\ Arrays'
  BY <1>1, <1>2, <1>4 DEF ClientBuffer, Arrays, Buffer, RightUpTo, Result, ResultLen
<1>6. FilledIn' => FilledIn
  BY <1>1, <1>2, FillingKept DEF serverVars
<1> QED
  BY <1>1, <1>2, <1>5, <1>6, ClientStill

(* The copy out of the segments that Work has filled.                      *)
LEMMA RecvCopyData ==
  ASSUME DInv, NEW c \in Clients, UNCHANGED serverVars, RecvCopy(c)
  PROVE  DInv'
<1> USE DEF RecvCopy, ClientGoto, CountDown
<1>1. IInv /\ IInv' /\ Types /\ Arrays /\ ClientBuffer(c) /\ LoadedOut
  BY ClientNext DEF DInv, IInv, ClientStep
<1>2. /\ cpc[c] = "recv_copy" /\ cpc'[c] = "recv_ack"
      /\ shm' = shm /\ put_q' = put_q /\ comp_len' = comp_len
      /\ ii' = ii /\ needed' = needed /\ msg' = msg
      /\ \A d \in Clients \ {c} : cpc'[d] = cpc[d] /\ comp_buf'[d] = comp_buf[d]
      /\ DOMAIN comp_buf' = Clients
      /\ comp_buf'[c] = FromSegments(comp_buf[c], comp_len[c], ii[c], to_recv[c], msg[c].ids)
  BY <1>1 DEF Types, channelVars, Arrays
<1>3. /\ Awaits(Work, c) /\ View(c).msg = Announced(Work) /\ After(cur[Work], Grant(Work))
      /\ InStep(View(c), cur[Work])
  BY <1>1, <1>2, InFlight DEF View
<1>4. /\ cur[Work].client = c /\ cur[Work].len = ResultLen(c) /\ tpc[Work] = "ack"
      /\ cur[Work].index \in Nat
  BY <1>1, <1>3 DEF Awaits, IInv, Tasks, CompressionTask, IsTask, ResultLen
<1> PICK len, index, remaining, ids :
      len = ResultLen(c) /\ index = ii[c] /\ remaining = to_recv[c] /\ ids = Ids(Work)
  OBVIOUS
<1>5. /\ index = cur[Work].index /\ index \in Nat /\ len \in Nat
      /\ index < SegmentsNeeded(len) /\ remaining = SegmentsNeeded(len) - index
      /\ msg[c].ids = ids /\ comp_len[c] = len
  BY <1>1, <1>2, <1>3, <1>4, ChannelsAssumption
  DEF InStep, After, Underway, View, Announced, Announcement, ResultLen, ClientBuffer
<1>6. ids \in Seq(SegIds)
  BY <1>1, GrantType DEF Threads
<1>7. Loaded(ids, Result(c), len, index)
  BY <1>1, <1>4, <1>5 DEF LoadedOut
<1>8. /\ Buffer(comp_buf[c], FileLen[c]) /\ FileLen[c] \in Nat
      /\ RightUpTo(comp_buf[c], Result(c), len, index)
  BY <1>1, <1>2, ChannelsAssumption DEF ClientBuffer
<1>9. /\ Buffer(comp_buf'[c], FileLen[c])
      /\ RightUpTo(comp_buf'[c], Result(c), len, index + Len(ids))
  <2> PICK src, size, buf : src = Result(c) /\ size = FileLen[c] /\ buf = comp_buf[c]
    OBVIOUS
  <2>1. comp_buf'[c] = FromSegments(buf, len, index, remaining, ids)
    BY <1>2, <1>5
  <2> HIDE DEF RecvCopy
  <2>2. LET new == FromSegments(buf, len, index, remaining, ids)
        IN  Buffer(new, size) /\ RightUpTo(new, src, len, index + Len(ids))
    BY <1>5, <1>6, <1>7, <1>8, CopyFrom
  <2> QED
    BY <2>1, <2>2
<1>10. ClientBuffer(c)' /\ Arrays'
  <2>1. (RightUpTo(comp_buf[c], Result(c), ResultLen(c), ii[c] + Len(msg[c].ids)))'
    BY <1>2, <1>5, <1>9 DEF RightUpTo, Result, ResultLen
  <2>2. Buffer(comp_buf[c], FileLen[c])'
    BY <1>9 DEF Buffer
  <2> QED
    BY <1>1, <1>2, <2>1, <2>2 DEF ClientBuffer, Arrays, ResultLen
<1>11. FilledIn' => FilledIn
  BY <1>1, <1>2, FillingKept DEF serverVars
<1> QED
  BY <1>1, <1>2, <1>10, <1>11, ClientStill

(* The ACK of a pass of Work, which ClientQ does not take for its own.     *)
LEMMA RecvAckOKData ==
  ASSUME DInv, NEW c \in Clients, UNCHANGED serverVars, RecvAckOK(c)
  PROVE  DInv'
<1> USE DEF RecvAckOK, ClientGoto, SendAck, CountUp
<1>1. IInv /\ IInv' /\ Types /\ Arrays /\ ClientBuffer(c)
  BY ClientNext DEF DInv, IInv, ClientStep
<1>2. /\ cpc[c] = "recv_ack" /\ cpc'[c] = "recv_loop" /\ shm' = shm
      /\ comp_len' = comp_len /\ comp_buf' = comp_buf /\ needed' = needed
      /\ \A d \in Clients \ {c} :
           /\ cpc'[d] = cpc[d] /\ ii'[d] = ii[d] /\ msg'[d] = msg[d] /\ put_q'[d] = put_q[d]
      /\ ii'[c] = ii[c] + Len(msg[c].ids)
  BY <1>1 DEF Types
<1>3. ClientBuffer(c)' /\ Arrays'
  <2>1. RightUpTo(comp_buf[c], Result(c), ResultLen(c), ii[c] + Len(msg[c].ids))
    BY <1>1, <1>2 DEF ClientBuffer
  <2>2. (RightUpTo(comp_buf[c], Result(c), ResultLen(c), ii[c]))'
    BY <1>2, <2>1 DEF RightUpTo, Result, ResultLen
  <2> QED
    BY <1>1, <1>2, <2>2 DEF ClientBuffer, Arrays, ResultLen, Buffer
<1>4. FilledIn' => FilledIn
  <2>1. tpc[ClientQ] = "ack" => cur[ClientQ].client \in Clients
    BY <1>1, InHandTask DEF IInv, Threads
  <2>2. tpc[ClientQ] = "ack" => cur[ClientQ].client # c
    <3>1. tpc[Work] = "ack" /\ cur[Work].client = c
      BY <1>1, <1>2, InFlight DEF View, Awaits
    <3> QED
      BY <1>1, <3>1 DEF IInv, Homes, Separate, InHand
  <2> QED
    BY <1>2, <2>1, <2>2 DEF FilledIn, serverVars
<1> QED
  BY <1>1, <1>2, <1>3, <1>4, ClientStill

LEMMA FinishData ==
  ASSUME DInv, NEW c \in Clients, UNCHANGED serverVars, Finish(c) \/ Crash(c)
  PROVE  DInv'
<1> USE DEF Finish, Crash, ClientGoto
<1>1. IInv /\ IInv' /\ Types /\ Arrays /\ ClientBuffer(c)
  BY ClientNext DEF DInv, IInv, ClientStep
<1>2. /\ shm' = shm /\ put_q' = put_q
      /\ comp_len' = comp_len /\ comp_buf' = comp_buf /\ needed' = needed
      /\ ii' = ii /\ msg' = msg
      /\ \A d \in Clients \ {c} : cpc'[d] = cpc[d]
      /\ \/ cpc[c] = "recv_loop" /\ ii[c] >= needed[c] /\ cpc'[c] = "done"
         \/ cpc'[c] = "crashed"
  BY <1>1 DEF Types, channelVars
<1>3. ClientBuffer(c)' /\ Arrays'
  BY <1>1, <1>2 DEF ClientBuffer, Arrays, Buffer, RightUpTo, Result, ResultLen
<1>4. FilledIn' => FilledIn
  BY <1>1, <1>2, FillingKept DEF serverVars
<1> QED
  BY <1>1, <1>2, <1>3, <1>4, ClientStill

LEMMA ClientNextData ==
  ASSUME DInv, NEW c \in Clients, ClientStep(c) \/ Crash(c), UNCHANGED serverVars
  PROVE  DInv'
  BY SendingData, SendCopyData, SendAckOKData, SendDoneData, RecvPrelimData, RecvReceiveData,
     RecvCopyData, RecvAckOKData, FinishData
  DEF ClientStep

-----------------------------------------------------------------------------
(* The steps of the server: what they leave of the buffers and segments.   *)
LEMMA ServerData ==
  ASSUME DInv, IInv', UNCHANGED clientVars, Apart', LoadedIn', LoadedOut', ServerBuffers'
  PROVE  DInv'
<1>1. ASSUME NEW c \in Clients
      PROVE  ClientBuffer(c)'
  <2>1. ClientBuffer(c)
    BY DEF DInv
  <2> QED
    BY <2>1 DEF clientVars, ClientBuffer, Buffer, RightUpTo, Result, ResultLen
<1>2. Arrays'
  BY DEF DInv, Arrays, clientVars
<1> QED
  BY <1>1, <1>2 DEF DInv

LEMMA Untouched ==
  ASSUME DInv, IInv', NEW t \in Threads, UNCHANGED <<clientVars, shm, put_q, segment_id>>,
         \A u \in Threads \ {t} : tpc'[u] = tpc[u] /\ cur'[u] = cur[u] /\ held'[u] = held[u],
         t = ClientQ => ~ FilledIn',
         t = Work => \/ tpc'[t] \notin {"announce", "ack"}
                     \/ /\ tpc[t] \in {"announce", "ack"}
                        /\ held'[t] = held[t] /\ cur'[t] = cur[t],
         Apart', ServerBuffers'
  PROVE  DInv'
<1>1. LoadedIn /\ LoadedOut /\ Types
  BY DEF DInv, IInv
<1>2. LoadedIn'
  <2>1. CASE t = ClientQ
    BY <2>1 DEF LoadedIn
  <2>2. CASE t = Work
    <3>1. tpc'[ClientQ] = tpc[ClientQ] /\ cur'[ClientQ] = cur[ClientQ] /\ held'[ClientQ] = held[ClientQ]
      BY <2>2 DEF Threads, ClientQ, Work
    <3>2. FilledIn' => FilledIn
      BY <3>1 DEF FilledIn, clientVars
    <3> QED
      BY <1>1, <3>1, <3>2, LoadedInKept
  <2> QED
    BY <2>1, <2>2 DEF Threads
<1>3. LoadedOut'
  <2>1. tpc'[Work] \in {"announce", "ack"} =>
          /\ tpc[Work] \in {"announce", "ack"} /\ held'[Work] = held[Work]
          /\ cur'[Work] = cur[Work]
    BY DEF Threads, ClientQ, Work
  <2> QED
    BY <1>1, <2>1, LoadedOutKept
<1> QED
  BY <1>2, <1>3, ServerData

LEMMA BuffersInHand ==
  ASSUME DInv, NEW t \in Threads, UNCHANGED <<client_q, task_q>>,
         \A u \in Threads \ {t} : tpc'[u] = tpc[u] /\ cur'[u] = cur[u] /\ held'[u] = held[u],
         InHand(t)' # {} => (t = ClientQ => UploadBuffer(cur'[t], tpc'[t], Grant(t)')),
         InHand(t)' # {} => (t = Work => DownloadBuffers(cur'[t], tpc'[t]))
  PROVE  ServerBuffers'
<1>1. ServerBuffers
  BY DEF DInv
<1>2. \A u \in Threads \ {t} : InHand(u)' = InHand(u) /\ Grant(u)' = Grant(u)
  BY DEF InHand, Grant
<1>3. /\ \A x \in Range(client_q)' : UploadBuffer(x, "queued", 0)
      /\ \A x \in Range(task_q)' : DownloadBuffers(x, "queued")
  BY <1>1 DEF ServerBuffers
<1>4. InHand(ClientQ)' # {} => UploadBuffer(cur'[ClientQ], tpc'[ClientQ], Grant(ClientQ)')
  BY <1>1, <1>2 DEF ServerBuffers, Threads
<1>5. InHand(Work)' # {} => DownloadBuffers(cur'[Work], tpc'[Work])
  BY <1>1, <1>2 DEF ServerBuffers, Threads
<1> QED
  BY <1>3, <1>4, <1>5
  DEF ServerBuffers, UploadBuffer, DownloadBuffers, Buffer, RightUpTo, Result

LEMMA ListenData ==
  ASSUME DInv, ListenStep, UNCHANGED clientVars
  PROVE  DInv'
<1>1. IInv /\ IInv' /\ Types /\ ServerBuffers
  BY ListenInv, AddClientInv DEF DInv, IInv, ListenStep
<1>2. /\ shm' = shm /\ put_q' = put_q /\ segment_id' = segment_id
      /\ tpc' = tpc /\ cur' = cur /\ held' = held /\ task_q' = task_q
  BY DEF ListenStep, Listen, AddClient, channelVars
<1>3. Apart'
  BY <1>2 DEF DInv, Apart
<1>4. \A x \in Range(client_q)' : UploadBuffer(x, "queued", 0)
  <2>1. CASE Listen
    BY <1>1, <2>1 DEF Listen, ServerBuffers
  <2>2. CASE AddClient
    <3>1. client_q \in Seq(Range(client_q))
      BY <1>1 DEF Types
    <3> PICK x : x = Task(listened[1].client, listened[1].len)
      OBVIOUS
    <3>2. Range(client_q)' = Range(client_q) \cup {x}
      BY <2>2, <3>1, AppendRange DEF AddClient
    <3>3. UploadBuffer(x, "queued", 0)
      BY DEF UploadBuffer, Task
    <3> QED
      BY <1>1, <3>2, <3>3 DEF ServerBuffers
  <2> QED
    BY <2>1, <2>2 DEF ListenStep
<1>5. ServerBuffers'
  <2>1. \A u \in Threads : InHand(u)' = InHand(u) /\ Grant(u)' = Grant(u)
    BY <1>2 DEF InHand, Grant
  <2> QED
    BY <1>1, <1>2, <1>4, <2>1
    DEF ServerBuffers, Threads, UploadBuffer, DownloadBuffers, Buffer, RightUpTo, Result
<1>6. LoadedIn' /\ LoadedOut'
  <2>1. FilledIn' => FilledIn
    BY <1>2 DEF FilledIn, clientVars
  <2>2. LoadedIn /\ LoadedOut
    BY DEF DInv
  <2> QED
    BY <1>1, <1>2, <2>1, <2>2, LoadedInKept, LoadedOutKept
<1> QED
  BY <1>1, <1>3, <1>5, <1>6, ServerData

-----------------------------------------------------------------------------
(* The steps of the threads with the pool and the queues.                  *)
LEMMA GrabData ==
  ASSUME DInv, NEW t \in Threads, GrabSegments(t), UNCHANGED clientVars
  PROVE  DInv'
<1> USE DEF GrabSegments, ThreadGoto, channelVars
<1>1. IInv /\ IInv' /\ Types /\ Apart /\ ServerBuffers
  BY GrabSegmentsInv DEF DInv, IInv
<1>2. /\ tpc[t] = "grab" /\ tpc'[t] = "open" /\ cur' = cur
      /\ \A u \in Threads \ {t} : tpc'[u] = tpc[u] /\ held'[u] = held[u]
  BY <1>1, GrabType DEF Types
<1>3. Apart'
  <2>1. PICK S \in SUBSET Pool!Free : held' = [held EXCEPT ![t] = S]
    BY DEF Pool!Grab, Pool!Cardinality, Cardinality
  <2>2. \A u \in Threads \ {t} : held'[t] \cap held'[u] = {}
    BY <1>1, <1>2, <2>1 DEF Types, Pool!Free
  <2> QED
    BY <1>1, <2>2 DEF Apart, Threads, ClientQ, Work
<1>4. ServerBuffers'
  <2>1. InHand(t) # {}
    BY <1>2 DEF InHand
  <2>2. /\ t = ClientQ => UploadBuffer(cur[t], "grab", Grant(t))
        /\ t = Work => DownloadBuffers(cur[t], "grab")
    BY <1>1, <1>2, <2>1 DEF ServerBuffers
  <2>3. /\ t = ClientQ => UploadBuffer(cur'[t], tpc'[t], Grant(t)')
        /\ t = Work => DownloadBuffers(cur'[t], tpc'[t])
    BY <1>2, <2>2 DEF UploadBuffer, DownloadBuffers
  <2> QED
    BY <1>2, <2>3, BuffersInHand
<1>5. t = ClientQ => ~ FilledIn'
  BY <1>2 DEF FilledIn
<1> QED
  BY <1>1, <1>2, <1>3, <1>4, <1>5, Untouched

LEMMA ReleaseData ==
  ASSUME DInv, NEW t \in Threads, ReleaseSegments(t), UNCHANGED clientVars
  PROVE  DInv'
<1> USE DEF ReleaseSegments, ThreadGoto, channelVars
<1>1. IInv /\ IInv' /\ Types /\ Apart
  BY ReleaseSegmentsInv DEF DInv, IInv
<1>2. /\ tpc'[t] = "pop" /\ cur' = cur /\ held'[t] = {}
      /\ \A u \in Threads \ {t} : tpc'[u] = tpc[u] /\ held'[u] = held[u]
  BY <1>1 DEF Types, Pool!Release
<1>3. Apart'
  BY <1>1, <1>2 DEF Apart, Threads, ClientQ, Work
<1>4. InHand(t)' = {}
  BY <1>2 DEF InHand
<1>5. ServerBuffers'
  BY <1>2, <1>4, BuffersInHand
<1>6. t = ClientQ => ~ FilledIn'
  BY <1>2 DEF FilledIn
<1> QED
  BY <1>1, <1>2, <1>3, <1>5, <1>6, Untouched

LEMMA OpenData ==
  ASSUME DInv, NEW t \in Threads, OpenQueues(t), UNCHANGED clientVars
  PROVE  DInv'
<1> USE DEF OpenQueues, ThreadGoto, channelVars
<1>1. IInv /\ IInv' /\ Types /\ Apart /\ ServerBuffers
  BY OpenQueuesInv DEF DInv, IInv
<1>2. /\ tpc[t] = "open" /\ cur' = cur /\ held' = held
      /\ tpc'[t] = IF cur[t].fresh THEN "prelim" ELSE IF t = ClientQ THEN "announce" ELSE "copy"
      /\ \A u \in Threads \ {t} : tpc'[u] = tpc[u]
  BY <1>1 DEF Types
<1>3. Apart'
  BY <1>1, <1>2 DEF Apart
<1>4. ServerBuffers'
  <2>1. InHand(t) # {}
    BY <1>2 DEF InHand
  <2>2. /\ t = ClientQ => UploadBuffer(cur[t], "open", Grant(t))
        /\ t = Work => DownloadBuffers(cur[t], "open")
    BY <1>1, <1>2, <2>1 DEF ServerBuffers
  <2>3. /\ t = ClientQ => UploadBuffer(cur'[t], tpc'[t], Grant(t)')
        /\ t = Work => DownloadBuffers(cur'[t], tpc'[t])
    BY <1>2, <2>2 DEF UploadBuffer, DownloadBuffers, ClientQ, Work
  <2> QED
    BY <1>2, <2>3, BuffersInHand
<1>5. t = ClientQ => ~ FilledIn'
  BY <1>2 DEF FilledIn
<1>6. t = Work => tpc'[t] \notin {"announce", "ack"}
  BY <1>2 DEF ClientQ, Work
<1> QED
  BY <1>1, <1>2, <1>3, <1>4, <1>5, <1>6, Untouched

LEMMA PrelimDownloadData ==
  ASSUME DInv, PrelimDownload, UNCHANGED clientVars
  PROVE  DInv'
<1> USE DEF PrelimDownload, ThreadGoto
<1>1. IInv /\ IInv' /\ Types /\ Apart /\ ServerBuffers /\ Work \in Threads
  BY PrelimDownloadInv DEF DInv, IInv, Threads
<1>2. /\ tpc[Work] = "prelim" /\ cur' = cur /\ held' = held /\ tpc'[Work] = "copy"
      /\ \A u \in Threads \ {Work} : tpc'[u] = tpc[u]
  BY <1>1 DEF Types
<1>3. Apart'
  BY <1>1, <1>2 DEF Apart
<1>4. ServerBuffers'
  <2>1. InHand(Work) # {}
    BY <1>2 DEF InHand
  <2>2. DownloadBuffers(cur[Work], "prelim")
    BY <1>1, <1>2, <2>1 DEF ServerBuffers
  <2>3. DownloadBuffers(cur'[Work], tpc'[Work])
    BY <1>2, <2>2 DEF DownloadBuffers
  <2> QED
    BY <1>1, <1>2, <2>3, BuffersInHand DEF ClientQ, Work
<1> QED
  BY <1>1, <1>2, <1>3, <1>4, Untouched DEF ClientQ, Work

(* A file's first pass begins with an empty buffer of its length.          *)
LEMMA PrelimUploadData ==
  ASSUME FilesNotEmpty, DInv, PrelimUpload, UNCHANGED clientVars
  PROVE  DInv'
<1> USE DEF PrelimUpload, ThreadGoto
<1>1. IInv /\ IInv' /\ Types /\ Apart /\ ServerBuffers /\ ClientQ \in Threads
  BY PrelimUploadInv DEF DInv, IInv, Threads
<1> PICK x, y : x = cur[ClientQ] /\ y = Started([x EXCEPT !.file_buffer = Malloc(x.len)])
  OBVIOUS
<1>2. /\ tpc[ClientQ] = "prelim" /\ held' = held /\ tpc'[ClientQ] = "announce"
      /\ \A u \in Threads \ {ClientQ} : tpc'[u] = tpc[u] /\ cur'[u] = cur[u]
      /\ cur'[ClientQ] = y
  BY <1>1 DEF Types
<1>3. Apart'
  BY <1>1, <1>2 DEF Apart
<1>4. ServerBuffers'
  <2>1. IsTask(x) /\ x.len \in Nat
    BY <1>1, <1>2, ThreadFacts
  <2>2. y.len = x.len /\ y.client = x.client /\ y.index = 0 /\ y.file_buffer = Malloc(x.len)
    BY <2>1 DEF IsTask, TaskFields, Started
  <2>3. Buffer(y.file_buffer, y.len)
    BY <2>1, <2>2 DEF Buffer, Malloc
  <2>4. \A b \in Nat : ~ (b < 0 * SegSize)
    BY ChannelsAssumption
  <2>5. RightUpTo(y.file_buffer, File(y.client), y.len, y.index)
    BY <2>1, <2>2, <2>4 DEF RightUpTo, Malloc
  <2>6. UploadBuffer(cur'[ClientQ], tpc'[ClientQ], Grant(ClientQ)')
    BY <1>2, <2>3, <2>5 DEF UploadBuffer
  <2> QED
    BY <1>1, <1>2, <2>6, BuffersInHand DEF ClientQ, Work
<1>5. ~ FilledIn'
  BY <1>2 DEF FilledIn
<1> QED
  BY <1>1, <1>2, <1>3, <1>4, <1>5, Untouched DEF ClientQ, Work

(* An announcement is sent before the client can have acknowledged it.     *)
LEMMA AnnounceData ==
  ASSUME DInv, NEW t \in Threads, Announce(t), UNCHANGED clientVars
  PROVE  DInv'
<1> USE DEF Announce, ThreadGoto
<1>1. IInv /\ IInv' /\ Types /\ Apart /\ ServerBuffers
  BY AnnounceInv DEF DInv, IInv
<1>2. /\ tpc[t] = "announce" /\ cur' = cur /\ held' = held /\ tpc'[t] = "ack"
      /\ \A u \in Threads \ {t} : tpc'[u] = tpc[u]
  BY <1>1 DEF Types
<1>3. Apart'
  BY <1>1, <1>2 DEF Apart
<1>4. ServerBuffers'
  <2>1. InHand(t) # {}
    BY <1>2 DEF InHand
  <2>2. /\ t = ClientQ => UploadBuffer(cur[t], "announce", Grant(t))
        /\ t = Work => DownloadBuffers(cur[t], "announce")
    BY <1>1, <1>2, <2>1 DEF ServerBuffers
  <2>3. /\ t = ClientQ => UploadBuffer(cur'[t], tpc'[t], Grant(t)')
        /\ t = Work => DownloadBuffers(cur'[t], tpc'[t])
    BY <1>2, <2>2 DEF UploadBuffer, DownloadBuffers
  <2> QED
    BY <1>2, <2>3, BuffersInHand
<1>5. t = ClientQ => ~ FilledIn'
  <2> SUFFICES ASSUME t = ClientQ
               PROVE  ~ FilledIn'
    OBVIOUS
  <2> PICK c : c = cur[t].client
    OBVIOUS
  <2>1. UploadAt(View(c), cur[t], "announce", Grant(t), Announced(t))
    BY <1>1, <1>2, ThreadFacts
  <2>2. put_q[c] = 0 /\ cpc[c] # "send_ack"
    BY <2>1 DEF UploadAt, View, Dead
  <2> QED
    BY <1>2, <2>2 DEF FilledIn, clientVars
<1> QED
  BY <1>1, <1>2, <1>3, <1>4, <1>5, Untouched DEF channelVars

(* ClientQ takes the ACK of the client that has filled its segments.       *)
LEMMA ReceiveAckData ==
  ASSUME DInv, NEW t \in Threads, ReceiveAck(t), UNCHANGED clientVars
  PROVE  DInv'
<1> USE DEF ReceiveAck, ThreadGoto
<1>1. IInv /\ IInv' /\ Types /\ Apart /\ ServerBuffers /\ LoadedIn /\ LoadedOut
  BY ReceiveAckInv DEF DInv, IInv
<1>2. /\ tpc[t] = "ack" /\ cur' = cur /\ held' = held /\ shm' = shm /\ segment_id' = segment_id
      /\ tpc'[t] = IF t = ClientQ THEN "copy" ELSE "finish"
      /\ \A u \in Threads \ {t} : tpc'[u] = tpc[u]
  BY <1>1 DEF Types
<1>3. Apart'
  BY <1>1, <1>2 DEF Apart
<1>4. ServerBuffers'
  <2>1. InHand(t) # {}
    BY <1>2 DEF InHand
  <2>2. /\ t = ClientQ => UploadBuffer(cur[t], "ack", Grant(t))
        /\ t = Work => DownloadBuffers(cur[t], "ack")
    BY <1>1, <1>2, <2>1 DEF ServerBuffers
  <2>3. /\ t = ClientQ => UploadBuffer(cur'[t], tpc'[t], Grant(t)')
        /\ t = Work => DownloadBuffers(cur'[t], tpc'[t])
    BY <1>2, <2>2 DEF UploadBuffer, DownloadBuffers, ClientQ, Work
  <2> QED
    BY <1>2, <2>3, BuffersInHand
<1> PICK c \in Clients : c = cur[t].client
  BY <1>1, <1>2, ThreadFacts
<1>5. put_q[c] > 0 /\ \A d \in Clients \ {c} : put_q'[d] = put_q[d]
  BY <1>1, <1>2, ThreadFacts DEF Types
<1>6. FilledIn' => FilledIn
  <2>1. CASE t = ClientQ
    <3>1. UploadAt(View(c), cur[t], "ack", Grant(t), Announced(t))
      BY <1>1, <1>2, <2>1, ThreadFacts
    <3>2. put_q[c] = 1
      BY <1>5, <3>1 DEF UploadAt, View
    <3> QED
      BY <1>2, <2>1, <3>2 DEF FilledIn
  <2>2. CASE t = Work
    <3>1. tpc[ClientQ] = "ack" => cur[ClientQ].client \in Clients \ {c}
      <4>1. tpc[ClientQ] = "ack" => cur[ClientQ].client \in Clients
        BY <1>1, InHandTask DEF IInv, Threads
      <4>2. tpc[ClientQ] = "ack" => cur[ClientQ].client # c
        BY <1>1, <1>2, <2>2 DEF IInv, Homes, Separate, InHand
      <4> QED
        BY <4>1, <4>2
    <3>2. tpc'[ClientQ] = tpc[ClientQ]
      BY <1>2, <2>2 DEF Threads, ClientQ, Work
    <3> QED
      BY <1>2, <1>5, <3>1, <3>2 DEF FilledIn, clientVars
  <2> QED
    BY <2>1, <2>2 DEF Threads
<1>7. LoadedIn'
  BY <1>1, <1>2, <1>6, LoadedInKept
<1>8. LoadedOut'
  <2>1. tpc'[Work] \in {"announce", "ack"} => tpc[Work] \in {"announce", "ack"}
    BY <1>2 DEF Threads, ClientQ, Work
  <2> QED
    BY <1>1, <1>2, <2>1, LoadedOutKept
<1> QED
  BY <1>1, <1>3, <1>4, <1>7, <1>8, ServerData

-----------------------------------------------------------------------------
(* The steps that move a task, or the bytes of one.                        *)
LEMMA PopClientData ==
  ASSUME DInv, PopClient, UNCHANGED clientVars
  PROVE  DInv'
<1> USE DEF PopClient, ThreadGoto, channelVars
<1>1. /\ IInv /\ IInv' /\ Types /\ Homes /\ Apart /\ ServerBuffers
      /\ ClientQ \in Threads /\ ClientQ # Work
  BY PopClientInv DEF DInv, IInv, Threads, ClientQ, Work
<1> PICK x : x = Head(client_q)
  OBVIOUS
<1>2. /\ cur'[ClientQ] = x /\ tpc'[ClientQ] = "grab" /\ held' = held
      /\ \A u \in Threads \ {ClientQ} : tpc'[u] = tpc[u] /\ cur'[u] = cur[u]
  BY <1>1 DEF Types
<1>3. x \in Range(client_q) /\ Range(client_q') \subseteq Range(client_q)
  BY <1>1, TailRange DEF Types, Homes
<1>4. UploadBuffer(x, "grab", Grant(ClientQ)')
  BY <1>1, <1>3 DEF ServerBuffers, UploadBuffer
<1>5. ServerBuffers'
  <2>1. InHand(Work)' = InHand(Work) /\ cur'[Work] = cur[Work] /\ tpc'[Work] = tpc[Work]
    BY <1>1, <1>2 DEF InHand, Threads
  <2>2. \A y \in Range(client_q') : UploadBuffer(y, "queued", 0)
    BY <1>1, <1>3 DEF ServerBuffers
  <2>3. UploadBuffer(cur'[ClientQ], tpc'[ClientQ], Grant(ClientQ)')
    BY <1>2, <1>4
  <2>4. /\ \A y \in Range(task_q') : DownloadBuffers(y, "queued")
        /\ InHand(Work)' # {} => DownloadBuffers(cur'[Work], tpc'[Work])
    BY <1>1, <2>1 DEF ServerBuffers
  <2> HIDE DEF PopClient
  <2> QED
    BY <2>2, <2>3, <2>4
    DEF ServerBuffers, UploadBuffer, DownloadBuffers, Buffer, RightUpTo, Result
<1>6. Apart'
  BY <1>1, <1>2 DEF Apart
<1>7. ~ FilledIn'
  BY <1>2 DEF FilledIn
<1> QED
  BY <1>1, <1>2, <1>5, <1>6, <1>7, Untouched

LEMMA PopTaskData ==
  ASSUME DInv, PopTask, UNCHANGED clientVars
  PROVE  DInv'
<1> USE DEF PopTask, ThreadGoto, channelVars
<1>1. /\ IInv /\ IInv' /\ Types /\ Homes /\ Apart /\ ServerBuffers
      /\ Work \in Threads /\ ClientQ # Work
  BY PopTaskInv DEF DInv, IInv, Threads, ClientQ, Work
<1> PICK x : x = Head(task_q)
  OBVIOUS
<1>2. /\ cur'[Work] = x /\ tpc'[Work] = (IF x.fresh THEN "compress" ELSE "grab") /\ held' = held
      /\ \A u \in Threads \ {Work} : tpc'[u] = tpc[u] /\ cur'[u] = cur[u]
  BY <1>1 DEF Types
<1>3. x \in Range(task_q) /\ Range(task_q') \subseteq Range(task_q)
  BY <1>1, TailRange DEF Types, Homes
<1>4. DownloadBuffers(x, tpc'[Work])
  BY <1>1, <1>2, <1>3 DEF ServerBuffers, DownloadBuffers
<1>5. ServerBuffers'
  <2>1. /\ InHand(ClientQ)' = InHand(ClientQ) /\ cur'[ClientQ] = cur[ClientQ]
        /\ tpc'[ClientQ] = tpc[ClientQ] /\ Grant(ClientQ)' = Grant(ClientQ)
    BY <1>1, <1>2 DEF InHand, Threads, Grant
  <2>2. \A y \in Range(task_q') : DownloadBuffers(y, "queued")
    BY <1>1, <1>3 DEF ServerBuffers
  <2>3. DownloadBuffers(cur'[Work], tpc'[Work])
    BY <1>2, <1>4
  <2>4. /\ \A y \in Range(client_q') : UploadBuffer(y, "queued", 0)
        /\ InHand(ClientQ)' # {} =>
             UploadBuffer(cur'[ClientQ], tpc'[ClientQ], Grant(ClientQ)')
    BY <1>1, <2>1 DEF ServerBuffers
  <2> HIDE DEF PopTask
  <2> QED
    BY <2>2, <2>3, <2>4
    DEF ServerBuffers, UploadBuffer, DownloadBuffers, Buffer, RightUpTo, Result
<1>6. Apart'
  BY <1>1, <1>2 DEF Apart
<1>7. tpc'[Work] \notin {"announce", "ack"}
  BY <1>2
<1> QED
  BY <1>1, <1>2, <1>5, <1>6, <1>7, Untouched

(* The codec is given the whole file.                                      *)
LEMMA CompressData ==
  ASSUME DInv, CompressFile, UNCHANGED clientVars
  PROVE  DInv'
<1> USE DEF CompressFile, ThreadGoto, channelVars
<1>1. /\ IInv /\ IInv' /\ Types /\ Apart /\ ServerBuffers
      /\ Work \in Threads /\ ClientQ # Work
  BY CompressFileInv DEF DInv, IInv, Threads, ClientQ, Work
<1> PICK x, y, z :
      /\ x = cur[Work]
      /\ y = [x EXCEPT !.len = CompressedLen(x.file_len),
                       !.compressed_buffer = Compress(x.file_len, x.file_buffer)]
      /\ z = Started(y)
  OBVIOUS
<1>2. /\ tpc[Work] = "compress" /\ cur'[Work] = z /\ tpc'[Work] = "grab" /\ held' = held
      /\ \A u \in Threads \ {Work} : tpc'[u] = tpc[u] /\ cur'[u] = cur[u]
  BY <1>1 DEF Types
<1>3. IsTask(x) /\ DownloadBuffers(x, "compress")
  BY <1>1, <1>2, ThreadFacts DEF ServerBuffers, InHand
<1>4. /\ z.client = x.client /\ z.file_buffer = x.file_buffer
      /\ z.compressed_buffer = Compress(x.file_len, x.file_buffer)
  BY <1>3 DEF IsTask, TaskFields, Started
<1>5. DownloadBuffers(z, "grab")
  BY <1>3, <1>4 DEF DownloadBuffers, Result, IsTask
<1>6. ServerBuffers'
  BY <1>1, <1>2, <1>5, BuffersInHand
<1>7. Apart'
  BY <1>1, <1>2 DEF Apart
<1> QED
  BY <1>1, <1>2, <1>6, <1>7, Untouched

(* The copy out of the segments that the client has filled.                *)
LEMMA CopyInData ==
  ASSUME DInv, CopyIn, UNCHANGED clientVars
  PROVE  DInv'
<1> USE DEF CopyIn, ThreadGoto, channelVars
<1>1. /\ IInv /\ IInv' /\ Types /\ Apart /\ ServerBuffers /\ LoadedIn
      /\ ClientQ \in Threads /\ ClientQ # Work
  BY CopyInInv DEF DInv, IInv, Threads, ClientQ, Work
<1> PICK x, c, ids, new, y :
      /\ x = cur[ClientQ] /\ c = x.client /\ ids = Ids(ClientQ)
      /\ new = FromSegments(x.file_buffer, x.len, x.index, x.remaining, ids)
      /\ y = [x EXCEPT !.file_buffer = new, !.remaining = @ - ChunksInPass(ids, @)]
  OBVIOUS
<1>2. /\ tpc[ClientQ] = "copy" /\ cur'[ClientQ] = y /\ tpc'[ClientQ] = "finish" /\ held' = held
      /\ \A u \in Threads \ {ClientQ} : tpc'[u] = tpc[u] /\ cur'[u] = cur[u]
  BY <1>1 DEF Types
<1>3. /\ IsTask(x) /\ x.len \in Nat /\ Before(x) /\ ids \in Seq(SegIds)
      /\ Len(ids) = Grant(ClientQ) /\ UploadBuffer(x, "copy", Grant(ClientQ))
  BY <1>1, <1>2, ThreadFacts DEF ServerBuffers, InHand, UploadAt
<1>4. Buffer(new, x.len) /\ RightUpTo(new, File(c), x.len, x.index + Len(ids))
  <2> PICK len, index, remaining, buf, src :
        /\ len = x.len /\ index = x.index /\ remaining = x.remaining
        /\ buf = x.file_buffer /\ src = File(c)
    OBVIOUS
  <2>1. /\ index \in Nat /\ index < SegmentsNeeded(len)
        /\ remaining = SegmentsNeeded(len) - index
    BY <1>3 DEF Before, Underway, IsTask
  <2>2. Buffer(buf, len) /\ RightUpTo(buf, src, len, index)
    BY <1>3 DEF UploadBuffer
  <2>3. Loaded(ids, src, len, index)
    BY <1>1, <1>2 DEF LoadedIn, FilledIn
  <2>4. new = FromSegments(buf, len, index, remaining, ids)
    OBVIOUS
  <2> HIDE DEF CopyIn
  <2>5. LET n == FromSegments(buf, len, index, remaining, ids)
        IN  Buffer(n, len) /\ RightUpTo(n, src, len, index + Len(ids))
    BY <1>3, <2>1, <2>2, <2>3, CopyFrom
  <2> QED
    BY <2>4, <2>5
<1>5. y.client = c /\ y.len = x.len /\ y.index = x.index /\ y.file_buffer = new
  BY <1>3 DEF IsTask, TaskFields
<1>6. Grant(ClientQ)' = Grant(ClientQ)
  BY <1>2 DEF Grant
<1>7. UploadBuffer(y, "finish", Grant(ClientQ)')
  BY <1>3, <1>4, <1>5, <1>6 DEF UploadBuffer
<1>8. ServerBuffers'
  BY <1>1, <1>2, <1>7, BuffersInHand
<1>9. Apart'
  BY <1>1, <1>2 DEF Apart
<1>10. ~ FilledIn'
  BY <1>2 DEF FilledIn
<1> QED
  BY <1>1, <1>2, <1>8, <1>9, <1>10, Untouched

(* The copy into the segments of Work, none of which ClientQ has.          *)
LEMMA CopyOutData ==
  ASSUME DInv, CopyOut, UNCHANGED clientVars
  PROVE  DInv'
<1> USE DEF CopyOut, ThreadGoto, channelVars
<1>1. /\ IInv /\ IInv' /\ Types /\ Apart /\ ServerBuffers /\ LoadedIn
      /\ Work \in Threads /\ ClientQ \in Threads /\ ClientQ # Work
  BY CopyOutInv DEF DInv, IInv, Threads, ClientQ, Work
<1>0. PICK x, c, ids, y :
      /\ x = cur[Work] /\ c = x.client /\ ids = Ids(Work)
      /\ y = [x EXCEPT !.remaining = @ - ChunksInPass(ids, @)]
  OBVIOUS
<1>2. /\ tpc[Work] = "copy" /\ cur'[Work] = y /\ tpc'[Work] = "announce" /\ held' = held
      /\ segment_id' = segment_id /\ put_q' = put_q
      /\ \A u \in Threads \ {Work} : tpc'[u] = tpc[u] /\ cur'[u] = cur[u]
  BY <1>0, <1>1 DEF Types
<1>3. /\ IsTask(x) /\ x.len \in Nat /\ Before(x) /\ DownloadBuffers(x, "copy")
  BY <1>0, <1>1, <1>2, ThreadFacts DEF ServerBuffers, InHand, DownloadAt
<1>4. /\ ids \in Seq(SegIds) /\ \A i, j \in 1 .. Len(ids) : ids[i] = ids[j] => i = j
      /\ \A i \in 1 .. Len(Ids(ClientQ)), j \in 1 .. Len(ids) : Ids(ClientQ)[i] # ids[j]
      /\ Ids(ClientQ) \in Seq(SegIds)
  <2>1. /\ ids \in Seq(SegIds) /\ \A i, j \in 1 .. Len(ids) : ids[i] = ids[j] => i = j
    BY <1>0, <1>1, IdsApart
  <2>2. /\ Ids(ClientQ) \in Seq(SegIds)
        /\ \A u \in Threads \ {ClientQ} : \A i \in 1 .. Len(Ids(ClientQ)), j \in 1 .. Len(Ids(u)) :
              Ids(ClientQ)[i] # Ids(u)[j]
    BY <1>0, <1>1, IdsApart
  <2>3. Work \in Threads \ {ClientQ}
    BY <1>0, <1>1
  <2> QED
    BY <1>0, <2>1, <2>2, <2>3
<1>5. x.compressed_buffer = Result(c)
  BY <1>0, <1>3 DEF DownloadBuffers
<1>6. y.client = c /\ y.len = x.len /\ y.index = x.index
      /\ y.file_buffer = x.file_buffer /\ y.compressed_buffer = x.compressed_buffer
  BY <1>0, <1>3 DEF IsTask, TaskFields
<1>7. /\ Loaded(ids, Result(c), x.len, x.index)'
      /\ \A s \in SegIds : (\A j \in 1 .. Len(ids) : ids[j] # s) =>
           \A k \in 0 .. SegSize - 1 : shm'[s][k] = shm[s][k]
  <2>1. PICK len, index, remaining, buf :
        len = x.len /\ index = x.index /\ remaining = x.remaining /\ buf = Result(c)
    OBVIOUS
  <2>2. /\ index \in Nat /\ len \in Nat /\ index < SegmentsNeeded(len)
        /\ remaining = SegmentsNeeded(len) - index
    BY <1>0, <1>3, <2>1 DEF Before, Underway, IsTask
  <2>3. shm' = ToSegments(buf, len, index, remaining, ids)
    BY <1>0, <1>5, <2>1
  <2> HIDE DEF CopyOut
  <2>4. /\ Loaded(ids, buf, len, index)'
        /\ \A s \in SegIds : (\A j \in 1 .. Len(ids) : ids[j] # s) =>
             \A k \in 0 .. SegSize - 1 : shm'[s][k] = shm[s][k]
    BY <1>4, <2>2, <2>3, CopyTo
  <2> QED
    BY <2>1, <2>4
<1>8. LoadedOut'
  <2>1. Ids(Work)' = ids
    BY <1>0, <1>2 DEF Ids
  <2> QED
    BY <1>0, <1>2, <1>6, <1>7, <2>1 DEF LoadedOut
<1>9. LoadedIn'
  <2>1. \A j \in 1 .. Len(Ids(ClientQ)) : \A k \in 0 .. SegSize - 1 :
          shm'[Ids(ClientQ)[j]][k] = shm[Ids(ClientQ)[j]][k]
    <3>1. \A j \in 1 .. Len(Ids(ClientQ)) : Ids(ClientQ)[j] \in SegIds
      BY <1>0, <1>4
    <3> QED
      BY <1>0, <1>4, <1>7, <3>1
  <2>2. tpc'[ClientQ] = tpc[ClientQ] /\ cur'[ClientQ] = cur[ClientQ] /\ held'[ClientQ] = held[ClientQ]
    BY <1>0, <1>1, <1>2
  <2>3. FilledIn' => FilledIn
    BY <1>0, <1>2, <2>2 DEF FilledIn, clientVars
  <2> QED
    BY <1>0, <1>1, <1>2, <2>1, <2>2, <2>3, LoadedInKept
<1>10. DownloadBuffers(y, "announce")
  BY <1>0, <1>3, <1>6 DEF DownloadBuffers
<1>11. ServerBuffers'
  BY <1>0, <1>1, <1>2, <1>10, BuffersInHand
<1>12. Apart'
  BY <1>0, <1>1, <1>2 DEF Apart
<1> QED
  BY <1>0, <1>1, <1>8, <1>9, <1>11, <1>12, ServerData

(* The last pass of a file has filled its buffer to the end.               *)
LEMMA FinishUploadData ==
  ASSUME DInv, FinishUpload, UNCHANGED clientVars
  PROVE  DInv'
<1> USE DEF FinishUpload, ThreadGoto, channelVars
<1>1. /\ IInv /\ IInv' /\ Types /\ Apart /\ ServerBuffers
      /\ ClientQ \in Threads /\ ClientQ # Work
  BY FinishUploadInv DEF DInv, IInv, Threads, ClientQ, Work
<1> PICK x, c, y, z :
      /\ x = cur[ClientQ] /\ c = x.client /\ y = AfterPass(ClientQ)
      /\ z = [Task(y.client, y.file_len) EXCEPT !.len = 0, !.file_buffer = y.file_buffer]
  OBVIOUS
<1>2. /\ tpc[ClientQ] = "finish" /\ tpc'[ClientQ] = "release" /\ held' = held
      /\ \A u \in Threads \ {ClientQ} : tpc'[u] = tpc[u] /\ cur'[u] = cur[u]
      /\ InHand(ClientQ)' = {}
  BY <1>1 DEF Types, InHand
<1>3. /\ ClientTask(x) /\ IsTask(x) /\ x.len \in Nat /\ Grant(ClientQ) \in Nat
      /\ After(x, Grant(ClientQ)) /\ UploadBuffer(x, "finish", Grant(ClientQ))
  BY <1>1, <1>2, ThreadFacts DEF ServerBuffers, InHand, UploadAt
<1>4. /\ y.client = c /\ y.file_len = x.file_len /\ y.len = x.len
      /\ ~ y.fresh /\ y.total = x.total /\ y.index = x.index + Grant(ClientQ)
  BY <1>1, <1>3, PassOver
<1>5. y.file_buffer = x.file_buffer
  BY <1>3 DEF AfterPass, IsTask, TaskFields
<1>6. UploadBuffer(y, "queued", 0)
  BY <1>3, <1>4, <1>5 DEF UploadBuffer
<1>7. Complete(y) => DownloadBuffers(z, "queued")
  <2> SUFFICES ASSUME Complete(y)
               PROVE  DownloadBuffers(z, "queued")
    OBVIOUS
  <2> PICK len, m, src, buf :
        len = x.len /\ m = y.index /\ src = File(c) /\ buf = x.file_buffer
    OBVIOUS
  <2>1. m \in Nat /\ m >= SegmentsNeeded(len)
    BY <1>3, <1>4 DEF Complete, After, Underway, IsTask
  <2>2. Buffer(buf, len) /\ RightUpTo(buf, src, len, m)
    BY <1>3, <1>4 DEF UploadBuffer
  <2>3. Buffer(src, len)
    BY <1>3 DEF Buffer, File, ClientTask, IsTask
  <2>4. buf = src
    BY <1>3, <2>1, <2>2, <2>3, RightToTheEnd
  <2>5. z.client = c /\ z.fresh /\ z.file_buffer = src
    BY <1>4, <1>5, <2>4 DEF Task
  <2> QED
    BY <2>5 DEF DownloadBuffers
<1>8. /\ \A w \in Range(client_q)' : UploadBuffer(w, "queued", 0)
      /\ \A w \in Range(task_q)' : DownloadBuffers(w, "queued")
  <2>1. client_q \in Seq(Range(client_q)) /\ task_q \in Seq(Range(task_q))
    BY <1>1 DEF Types
  <2>2. CASE Complete(y)
    <3>1. client_q' = client_q /\ task_q' = Append(task_q, z)
      BY <2>2
    <3>2. Range(task_q') = Range(task_q) \cup {z}
      BY <2>1, <3>1, AppendRange
    <3> QED
      BY <1>1, <1>7, <2>2, <3>1, <3>2 DEF ServerBuffers
  <2>3. CASE ~ Complete(y)
    <3>1. client_q' = Append(client_q, y) /\ task_q' = task_q
      BY <2>3
    <3>2. Range(client_q') = Range(client_q) \cup {y}
      BY <2>1, <3>1, AppendRange
    <3> QED
      BY <1>1, <1>6, <3>1, <3>2 DEF ServerBuffers
  <2> QED
    BY <2>2, <2>3
<1>9. ServerBuffers'
  <2>1. InHand(Work)' = InHand(Work) /\ cur'[Work] = cur[Work] /\ tpc'[Work] = tpc[Work]
    BY <1>1, <1>2 DEF InHand, Threads
  <2> QED
    BY <1>1, <1>2, <1>8, <2>1
    DEF ServerBuffers, UploadBuffer, DownloadBuffers, Buffer, RightUpTo, Result
<1>10. Apart'
  BY <1>1, <1>2 DEF Apart
<1>11. ~ FilledIn'
  BY <1>2 DEF FilledIn
<1> QED
  BY <1>1, <1>2, <1>9, <1>10, <1>11, Untouched

LEMMA FinishDownloadData ==
  ASSUME DInv, FinishDownload, UNCHANGED clientVars
  PROVE  DInv'
<1> USE DEF FinishDownload, ThreadGoto, channelVars
<1>1. /\ IInv /\ IInv' /\ Types /\ Apart /\ ServerBuffers
      /\ Work \in Threads /\ ClientQ # Work
  BY FinishDownloadInv DEF DInv, IInv, Threads, ClientQ, Work
<1> PICK x, y : x = cur[Work] /\ y = AfterPass(Work)
  OBVIOUS
<1>2. /\ tpc[Work] = "finish" /\ tpc'[Work] = "release" /\ held' = held
      /\ \A u \in Threads \ {Work} : tpc'[u] = tpc[u] /\ cur'[u] = cur[u]
      /\ InHand(Work)' = {}
  BY <1>1 DEF Types, InHand
<1>3. IsTask(x) /\ DownloadBuffers(x, "finish")
  BY <1>1, <1>2, ThreadFacts DEF ServerBuffers, InHand
<1>4. /\ y.client = x.client /\ y.file_buffer = x.file_buffer
      /\ y.compressed_buffer = x.compressed_buffer
  BY <1>3 DEF AfterPass, IsTask, TaskFields
<1>5. DownloadBuffers(y, "queued")
  BY <1>3, <1>4 DEF DownloadBuffers
<1>6. \A w \in Range(task_q)' : DownloadBuffers(w, "queued")
  <2>1. task_q \in Seq(Range(task_q))
    BY <1>1 DEF Types
  <2>2. task_q' = task_q \/ task_q' = Append(task_q, y)
    OBVIOUS
  <2>3. Range(task_q') \subseteq Range(task_q) \cup {y}
    BY <2>1, <2>2, AppendRange
  <2> QED
    BY <1>1, <1>5, <2>3 DEF ServerBuffers
<1>7. ServerBuffers'
  <2>1. /\ InHand(ClientQ)' = InHand(ClientQ) /\ cur'[ClientQ] = cur[ClientQ]
        /\ tpc'[ClientQ] = tpc[ClientQ] /\ Grant(ClientQ)' = Grant(ClientQ)
    BY <1>1, <1>2 DEF InHand, Threads, Grant
  <2> QED
    BY <1>1, <1>2, <1>6, <2>1
    DEF ServerBuffers, UploadBuffer, DownloadBuffers, Buffer, RightUpTo, Result
<1>8. Apart'
  BY <1>1, <1>2 DEF Apart
<1> QED
  BY <1>1, <1>2, <1>7, <1>8, Untouched

LEMMA ThreadNextData ==
  ASSUME FilesNotEmpty, DInv, NEW t \in Threads, ThreadStep(t), UNCHANGED clientVars
  PROVE  DInv'
  BY GrabData, OpenData, AnnounceData, ReceiveAckData, ReleaseData,
     PopClientData, PrelimUploadData, CopyInData, FinishUploadData,
     PopTaskData, CompressData, PrelimDownloadData, CopyOutData, FinishDownloadData
  DEF ThreadStep

LEMMA StutterData ==
  ASSUME DInv, UNCHANGED vars
  PROVE  DInv'
<1> USE DEF vars, channelVars, serverVars
<1>1. IInv' /\ Types /\ LoadedIn /\ LoadedOut /\ ServerBuffers
  BY Stutter DEF DInv, IInv
<1>2. Apart'
  BY DEF DInv, Apart
<1>3. LoadedIn' /\ LoadedOut'
  <2>1. FilledIn' => FilledIn
    BY DEF FilledIn, clientVars
  <2> QED
    BY <1>1, <2>1, LoadedInKept, LoadedOutKept
<1>4. ServerBuffers'
  <2>1. \A u \in Threads : InHand(u)' = InHand(u) /\ Grant(u)' = Grant(u)
    BY DEF InHand, Grant
  <2> QED
    BY <1>1, <2>1
    DEF ServerBuffers, Threads, UploadBuffer, DownloadBuffers, Buffer, RightUpTo, Result
<1> QED
  BY <1>1, <1>2, <1>3, <1>4, ServerData

LEMMA NextData ==
  ASSUME FilesNotEmpty, DInv, [Next]_vars
  PROVE  DInv'
<1>1. CASE \E c \in Clients : (ClientStep(c) \/ Crash(c)) /\ UNCHANGED serverVars
  BY <1>1, ClientNextData
<1>2. CASE ListenStep /\ UNCHANGED clientVars
  BY <1>2, ListenData
<1>3. CASE \E t \in Threads : ThreadStep(t) /\ UNCHANGED clientVars
  BY <1>3, ThreadNextData
<1>4. CASE Poll \/ UNCHANGED vars
  BY <1>4, StutterData DEF Poll
<1> QED
  BY <1>1, <1>2, <1>3, <1>4 DEF Next

(* Every buffer is right up to where its owner is, and every grant holds   *)
(* what it was filled with, at every moment.                               *)
THEOREM DataInvariant == FilesNotEmpty => (Spec => []DInv)
<1>1. Init => DInv
  BY InitData
<1>2. FilesNotEmpty /\ DInv /\ [Next]_vars => DInv'
  BY NextData
<1>3. FilesNotEmpty => FilesNotEmpty'
  BY DEF FilesNotEmpty
<1>4. FilesNotEmpty => []FilesNotEmpty
  BY <1>3, PTL
<1> QED
  BY <1>1, <1>2, <1>4, PTL DEF Spec

-----------------------------------------------------------------------------
(* What the invariant says of the copies and of the results.               *)
LEMMA WholeFileOfInv == DInv => WholeFileCompressed
<1> SUFFICES ASSUME DInv
             PROVE  WholeFileCompressed
  OBVIOUS
<1>1. IInv /\ Types /\ ServerBuffers
  BY DEF DInv, IInv
<1>2. \A i \in DOMAIN task_q : task_q[i] \in Range(task_q)
  BY DEF Range
<1>3. Work \in Busy => InHand(Work) # {}
  BY <1>1, ThreadPlaces DEF Threads
<1> QED
  BY <1>1, <1>2, <1>3 DEF WholeFileCompressed, ServerBuffers, DownloadBuffers

LEMMA DeliveredOfInv == NoExpansion /\ DInv => Delivered
<1> SUFFICES ASSUME NoExpansion, DInv, NEW c \in Clients, cpc[c] = "done"
             PROVE  /\ comp_len[c] = CompressedLen(FileLen[c])
                    /\ Prefix(comp_len[c], comp_buf[c]) = Compress(FileLen[c], File(c))
  BY DEF Delivered
<1> PICK len, m, src, buf, size, prefix :
      /\ len = ResultLen(c) /\ m = ii[c] /\ src = Result(c) /\ buf = comp_buf[c]
      /\ size = FileLen[c] /\ prefix = Prefix(len, buf)
  OBVIOUS
<1>1. /\ comp_len[c] = len /\ needed[c] = SegmentsNeeded(len) /\ m >= SegmentsNeeded(len)
      /\ Buffer(buf, size) /\ RightUpTo(buf, src, len, m)
  BY DEF DInv, ClientBuffer
<1>2. len \in Nat /\ size \in Nat /\ len <= size /\ m \in Nat
  BY ChannelsAssumption DEF NoExpansion, ResultLen, DInv, IInv, Types
<1>3. DOMAIN buf = 0 .. size - 1 /\ DOMAIN prefix = 0 .. len - 1
      /\ \A b \in 0 .. len - 1 : prefix[b] = buf[b]
  BY <1>1 DEF Buffer, Prefix
<1>4. Buffer(prefix, len)
  BY <1>3 DEF Buffer, Prefix
<1>5. RightUpTo(prefix, src, len, m)
  BY <1>1, <1>2, <1>3 DEF RightUpTo
<1>6. Buffer(src, len)
  BY DEF Buffer, Result, ResultLen, Compress
<1>7. prefix = src
  BY <1>1, <1>2, <1>4, <1>5, <1>6, RightToTheEnd
<1> QED
  BY <1>1, <1>7 DEF Result, ResultLen

LEMMA CopiesOfInv == NoExpansion /\ DInv => CopiesInBounds
<1> SUFFICES ASSUME NoExpansion, DInv
             PROVE  CopiesInBounds
  OBVIOUS
<1>1. IInv /\ Types /\ Tasks /\ ServerBuffers
  BY DEF DInv, IInv
<1>2. ASSUME NEW c \in Clients, cpc[c] = "send_copy"
      PROVE  PassInBounds(File(c), FileLen[c], ii[c], to_recv[c], msg[c].ids)
  <2>1. /\ Awaits(ClientQ, c) /\ View(c).msg = Announced(ClientQ) /\ Before(cur[ClientQ])
        /\ InStep(View(c), cur[ClientQ])
    BY <1>1, <1>2, InFlight DEF View
  <2>2. /\ cur[ClientQ].len = FileLen[c] /\ cur[ClientQ].index \in Nat
        /\ Ids(ClientQ) \in Seq(SegIds)
    BY <1>1, <2>1, GrantType DEF Awaits, Tasks, ClientTask, IsTask, Threads
  <2> PICK len, index, remaining, ids :
        len = FileLen[c] /\ index = ii[c] /\ remaining = to_recv[c] /\ ids = Ids(ClientQ)
    OBVIOUS
  <2>3. /\ index \in Nat /\ len \in Nat /\ msg[c].ids = ids
        /\ index < SegmentsNeeded(len) /\ remaining = SegmentsNeeded(len) - index
    BY <2>1, <2>2, ChannelsAssumption
    DEF InStep, Before, Underway, View, Announced, Announcement
  <2>4. 0 .. len - 1 \subseteq DOMAIN File(c)
    BY DEF File
  <2> QED
    BY <2>2, <2>3, <2>4, PassFits
<1>3. ASSUME NEW c \in Clients, cpc[c] = "recv_copy"
      PROVE  PassInBounds(comp_buf[c], comp_len[c], ii[c], to_recv[c], msg[c].ids)
  <2>1. /\ Awaits(Work, c) /\ View(c).msg = Announced(Work) /\ After(cur[Work], Grant(Work))
        /\ InStep(View(c), cur[Work])
    BY <1>1, <1>3, InFlight DEF View
  <2>2. /\ cur[Work].len = ResultLen(c) /\ cur[Work].index \in Nat
        /\ Ids(Work) \in Seq(SegIds)
    BY <1>1, <2>1, GrantType DEF Awaits, Tasks, CompressionTask, IsTask, ResultLen, Threads
  <2>3. comp_len[c] = ResultLen(c) /\ Buffer(comp_buf[c], FileLen[c])
    BY <1>3 DEF DInv, ClientBuffer
  <2> PICK len, index, remaining, ids, buf :
        /\ len = ResultLen(c) /\ index = ii[c] /\ remaining = to_recv[c] /\ ids = Ids(Work)
        /\ buf = comp_buf[c]
    OBVIOUS
  <2>4. /\ index \in Nat /\ len \in Nat /\ msg[c].ids = ids
        /\ index < SegmentsNeeded(len) /\ remaining = SegmentsNeeded(len) - index
    BY <2>1, <2>2, ChannelsAssumption
    DEF InStep, After, Underway, View, Announced, Announcement, ResultLen
  <2>5. 0 .. len - 1 \subseteq DOMAIN buf
    BY <2>3, ChannelsAssumption DEF Buffer, NoExpansion, ResultLen
  <2> QED
    BY <2>2, <2>3, <2>4, <2>5, PassFits
<1>4. ASSUME NEW t \in Threads, tpc[t] = "copy"
      PROVE  PassInBounds(IF t = ClientQ THEN cur[t].file_buffer ELSE cur[t].compressed_buffer,
                          cur[t].len, cur[t].index, cur[t].remaining, Ids(t))
  <2> PICK len, index, remaining, ids, buf :
        /\ len = cur[t].len /\ index = cur[t].index /\ remaining = cur[t].remaining
        /\ ids = Ids(t)
        /\ buf = IF t = ClientQ THEN cur[t].file_buffer ELSE cur[t].compressed_buffer
    OBVIOUS
  <2>1. /\ IsTask(cur[t]) /\ len \in Nat /\ ids \in Seq(SegIds) /\ Before(cur[t])
    BY <1>1, <1>4, ThreadFacts DEF UploadAt, DownloadAt, Threads
  <2>2. /\ index \in Nat /\ index < SegmentsNeeded(len)
        /\ remaining = SegmentsNeeded(len) - index
    BY <2>1 DEF Before, Underway, IsTask
  <2>3. InHand(t) # {}
    BY <1>4 DEF InHand
  <2>4. 0 .. len - 1 \subseteq DOMAIN buf
    <3>1. CASE t = ClientQ
      BY <1>1, <1>4, <2>3, <3>1 DEF ServerBuffers, UploadBuffer, Buffer
    <3>2. CASE t = Work
      <4>1. buf = Result(cur[t].client)
        BY <1>1, <1>4, <2>3, <3>2 DEF ServerBuffers, DownloadBuffers, ClientQ, Work
      <4>2. len = CompressedLen(FileLen[cur[t].client])
        BY <1>1, <1>4, <3>2 DEF Tasks, CompressionTask, IsTask
      <4> QED
        BY <4>1, <4>2 DEF Result, Compress
    <3> QED
      BY <3>1, <3>2 DEF Threads
  <2> QED
    BY <2>1, <2>2, <2>4, PassFits
<1> QED
  BY <1>2, <1>3, <1>4 DEF CopiesInBounds, ClientCopiesInBounds

-----------------------------------------------------------------------------
(* A compression task is made of the complete file.                        *)
THEOREM ServiceWholeFileCompressed == FilesNotEmpty => (Spec => []WholeFileCompressed)
  BY DataInvariant, WholeFileOfInv, PTL

(* The compressed file that a call returns is what the codec makes of the  *)
(* caller's own file, when it is not longer than that file.                *)
THEOREM ServiceDelivered == FilesNotEmpty /\ NoExpansion => (Spec => []Delivered)
<1>1. NoExpansion => NoExpansion'
  BY DEF NoExpansion
<1>2. NoExpansion => []NoExpansion
  BY <1>1, PTL
<1> QED
  BY <1>2, DataInvariant, DeliveredOfInv, PTL

(* Every memcpy of the four copy loops stays inside its buffer and its     *)
(* segments, under the same condition.                                     *)
THEOREM ServiceCopiesInBounds == FilesNotEmpty /\ NoExpansion => (Spec => []CopiesInBounds)
<1>1. NoExpansion => NoExpansion'
  BY DEF NoExpansion
<1>2. NoExpansion => []NoExpansion
  BY <1>1, PTL
<1> QED
  BY <1>2, DataInvariant, CopiesOfInv, PTL

-----------------------------------------------------------------------------
(* The service is CompressionService: how far each call is, by where its   *)
(* client is and whether the server has the whole of its file.             *)
Served(c) == c \in ClientsIn(task_q) \cup InHand(Work)

StageOf(pc, served) ==
  IF pc \in {"create", "request"} THEN "idle"
  ELSE IF pc = "done" THEN "returned"
  ELSE IF pc = "crashed" THEN "abandoned"
  ELSE IF \/ pc \in {"send_prelim", "send_loop", "send_copy", "send_ack"}
          \/ pc = "recv_prelim" /\ ~ served
       THEN "called" ELSE "accepted"

Returned(c) == IF cpc[c] = "done" THEN Prefix(comp_len[c], comp_buf[c]) ELSE Malloc(0)

LEMMA StageIs == IInv => \A c \in Clients : Stage(c) = StageOf(cpc[c], Served(c))
<1> SUFFICES ASSUME IInv, NEW c \in Clients
             PROVE  Stage(c) = StageOf(cpc[c], Served(c))
  OBVIOUS
<1>1. Downloads(c) = {} <=> ~ Served(c)
  <2>1. Work \in Busy <=> InHand(Work) # {}
    BY ThreadPlaces DEF Threads
  <2>2. InHand(Work) # {} => InHand(Work) = {cur[Work].client}
    BY ThreadPlaces DEF Threads
  <2>3. c \in ClientsIn(task_q) <=> \E i \in DOMAIN task_q : task_q[i].client = c
    BY DEF ClientsIn, Range
  <2> QED
    BY <2>1, <2>2, <2>3 DEF Downloads, Served
<1>2. Uploading(c) <=> cpc[c] \in {"send_prelim", "send_loop", "send_copy", "send_ack"}
  BY DEF Uploading
<1> QED
  BY <1>1, <1>2, Zenon DEF Stage, StageOf

LEMMA StageIsNext == IInv' => \A c \in Clients : Stage(c)' = StageOf(cpc'[c], Served(c)')
<1>1. (IInv => \A c \in Clients : Stage(c) = StageOf(cpc[c], Served(c)))'
  BY StageIs, PTL
<1> QED
  BY <1>1 DEF StageOf

LEMMA StageStays ==
  ASSUME \A c \in Clients : Stage(c)' = Stage(c) /\ Returned(c)' = Returned(c)
  PROVE  UNCHANGED Abstract!vars
  BY DEF Abstract!vars, Returned

LEMMA StageAdvances ==
  ASSUME NEW c \in Clients,
         \A d \in Clients \ {c} : Stage(d)' = Stage(d) /\ Returned(d)' = Returned(d),
         \/ Stage(c) = "idle" /\ Stage(c)' = "called" /\ Returned(c)' = Returned(c)
         \/ Stage(c) = "called" /\ Stage(c)' = "accepted" /\ Returned(c)' = Returned(c)
         \/ Stage(c) = "accepted" /\ Stage(c)' = "returned" /\ Returned(c)' = Result(c)
         \/ /\ Stage(c) \in {"idle", "called", "accepted"} /\ Stage(c)' = "abandoned"
            /\ Returned(c)' = Returned(c)
  PROVE  Abstract!Next
<1> DEFINE stages == [d \in Clients |-> Stage(d)]
           results == [d \in Clients |-> Returned(d)]
<1>1. \A s : Stage(c)' = s => stages' = [stages EXCEPT ![c] = s]
  OBVIOUS
<1>2. \A r : Returned(c)' = r => results' = [results EXCEPT ![c] = r]
  OBVIOUS
<1>3. Returned(c)' = Returned(c) => results' = results
  OBVIOUS
<1>4. Compress(Cardinality(DOMAIN File(c)), File(c)) = Result(c)
  <2>1. DOMAIN File(c) = 0 .. FileLen[c] - 1 /\ FileLen[c] \in Nat
    BY ChannelsAssumption DEF File
  <2>2. Cardinality(0 .. FileLen[c] - 1) = FileLen[c]
    BY <2>1, FS_Interval
  <2> QED
    BY <2>1, <2>2 DEF Result
<1>5. CASE Stage(c) = "idle" /\ Stage(c)' = "called" /\ Returned(c)' = Returned(c)
  <2>1. Abstract!Call(c)
    BY <1>1, <1>3, <1>5 DEF Abstract!Call, Abstract!Advance, Returned
  <2> QED
    BY <2>1 DEF Abstract!Next
<1>6. CASE Stage(c) = "called" /\ Stage(c)' = "accepted" /\ Returned(c)' = Returned(c)
  <2>1. Abstract!Accept(c)
    BY <1>1, <1>3, <1>6 DEF Abstract!Accept, Abstract!Advance, Returned
  <2> QED
    BY <2>1 DEF Abstract!Next
<1>7. CASE Stage(c) = "accepted" /\ Stage(c)' = "returned" /\ Returned(c)' = Result(c)
  <2>1. Abstract!Return(c)
    BY <1>1, <1>2, <1>4, <1>7 DEF Abstract!Return, Abstract!Advance, Returned
  <2> QED
    BY <2>1 DEF Abstract!Next
<1>8. CASE /\ Stage(c) \in {"idle", "called", "accepted"} /\ Stage(c)' = "abandoned"
           /\ Returned(c)' = Returned(c)
  <2>1. Abstract!Abandon(c)
    BY <1>1, <1>3, <1>8 DEF Abstract!Abandon, Returned
  <2> QED
    BY <2>1 DEF Abstract!Next
<1> QED
  BY <1>5, <1>6, <1>7, <1>8

LEMMA InitRefines ==
  ASSUME Init
  PROVE  Abstract!Init
<1>1. ASSUME NEW c \in Clients
      PROVE  Stage(c) = "idle" /\ cpc[c] # "done"
  <2>1. cpc[c] = "create"
    BY DEF Init, ClientInit
  <2>2. Stage(c) = StageOf(cpc[c], Served(c))
    BY InitInv, StageIs
  <2> QED
    BY <2>1, <2>2 DEF StageOf
<1> QED
  BY <1>1 DEF Abstract!Init

(* A client that has its preliminary message is one the server serves.     *)
LEMMA PrelimServed ==
  ASSUME IInv, NEW c \in Clients, cpc[c] = "recv_prelim", get_q[c] # <<>>
  PROVE  Served(c)
<1> DEFINE v == View(c)
<1>a. v.pc = cpc[c] /\ v.get = get_q[c]
  BY DEF View
<1> HIDE DEF v
<1>1. ~ Requested(v) /\ ~ Nowhere(v)
  BY <1>a DEF Requested, Nowhere, Quiet
<1>2. ~ \E x : ClientTask(x) /\ UploadAt(v, x, "queued", 0, NoGrant(x))
  BY <1>a DEF UploadAt, Quiet
<1>3. ~ \E x : CompressionTask(x, "queued") /\ DownloadAt(v, x, "queued", 0, NoGrant(x))
  BY <1>a DEF DownloadAt, Quiet, CompressionTask, IsTask
<1>4. ~ (/\ c \in InHand(ClientQ) /\ ClientTask(cur[ClientQ])
         /\ UploadAt(v, cur[ClientQ], tpc[ClientQ], Grant(ClientQ), Announced(ClientQ)))
  <2> SUFFICES ASSUME /\ c \in InHand(ClientQ) /\ ClientTask(cur[ClientQ])
                      /\ UploadAt(v, cur[ClientQ], tpc[ClientQ], Grant(ClientQ),
                                  Announced(ClientQ))
               PROVE  FALSE
    OBVIOUS
  <2>1. tpc[ClientQ] \in {"grab", "open", "prelim", "announce", "ack", "copy", "finish"}
    BY ThreadPlaces
  <2> QED
    BY <1>a, <2>1 DEF UploadAt, Quiet, Dead
<1>5. c \in InHand(Work)
  BY <1>1, <1>2, <1>3, <1>4, PlaceOf DEF v
<1> QED
  BY <1>5 DEF Served

LEMMA DeliveredNext == NoExpansion /\ DInv' => Delivered'
<1>1. (NoExpansion /\ DInv => Delivered)'
  BY DeliveredOfInv, PTL
<1> QED
  BY <1>1 DEF NoExpansion

LEMMA ClientRefines ==
  ASSUME NoExpansion, DInv, NEW c \in Clients, ClientStep(c) \/ Crash(c), UNCHANGED serverVars
  PROVE  Abstract!Next \/ UNCHANGED Abstract!vars
<1>1. DInv' /\ IInv /\ IInv' /\ Types /\ Arrays
  BY ClientNextData DEF DInv, IInv
<1>2. \A d \in Clients : /\ Stage(d) = StageOf(cpc[d], Served(d))
                         /\ Stage(d)' = StageOf(cpc'[d], Served(d)')
                         /\ Served(d)' = Served(d)
  <2>1. \A d \in Clients : Served(d)' = Served(d)
    BY DEF Served, serverVars, InHand
  <2> QED
    BY <1>1, <2>1, StageIs, StageIsNext
<1>3. ASSUME NEW d \in Clients \ {c}
      PROVE  Stage(d)' = Stage(d) /\ Returned(d)' = Returned(d)
  <2>1. cpc'[d] = cpc[d] /\ comp_len'[d] = comp_len[d] /\ comp_buf'[d] = comp_buf[d]
    BY <1>1
    DEF Types, Arrays, ClientStep, Crash, ClientGoto, CreateQueues, Request, SendPrelim,
        SendReceive, SendCopy, SendAckOK, SendDone, RecvPrelim, RecvReceive, RecvCopy, RecvAckOK,
        Finish
  <2> QED
    BY <1>2, <2>1 DEF Returned
<1>4. CASE \/ CreateQueues(c) \/ SendPrelim(c) \/ SendReceive(c) \/ SendCopy(c)
           \/ SendAckOK(c) \/ RecvPrelim(c) \/ RecvReceive(c) \/ RecvCopy(c) \/ RecvAckOK(c)
  <2>1. RecvPrelim(c) => Served(c)
    BY <1>1, PrelimServed DEF RecvPrelim, ClientGoto, ReceiveGet
  <2>2. \/ cpc[c] = "create" /\ cpc'[c] = "request"
        \/ cpc[c] = "send_prelim" /\ cpc'[c] = "send_loop"
        \/ cpc[c] = "send_loop" /\ cpc'[c] = "send_copy"
        \/ cpc[c] = "send_copy" /\ cpc'[c] = "send_ack"
        \/ cpc[c] = "send_ack" /\ cpc'[c] = "send_loop"
        \/ cpc[c] = "recv_prelim" /\ cpc'[c] = "recv_loop" /\ Served(c)
        \/ cpc[c] = "recv_loop" /\ cpc'[c] = "recv_copy"
        \/ cpc[c] = "recv_copy" /\ cpc'[c] = "recv_ack"
        \/ cpc[c] = "recv_ack" /\ cpc'[c] = "recv_loop"
    BY <1>1, <1>4, <2>1
    DEF Types, ClientGoto, CreateQueues, SendPrelim, SendReceive, SendCopy, SendAckOK,
        RecvPrelim, RecvReceive, RecvCopy, RecvAckOK
  <2>3. Stage(c)' = Stage(c)
    BY <1>2, <2>2 DEF StageOf
  <2>4. Returned(c)' = Returned(c)
    BY <2>2 DEF Returned
  <2> QED
    BY <1>3, <2>3, <2>4, StageStays
<1>5. CASE Request(c)
  <2>1. cpc[c] = "request" /\ cpc'[c] = "send_prelim"
    BY <1>1, <1>5 DEF Types, ClientGoto, Request
  <2>2. Stage(c) = "idle" /\ Stage(c)' = "called" /\ Returned(c)' = Returned(c)
    BY <1>2, <2>1 DEF StageOf, Returned
  <2> QED
    BY <1>3, <2>2, StageAdvances
<1>6. CASE SendDone(c)
  <2>1. cpc[c] = "send_loop" /\ cpc'[c] = "recv_prelim"
    BY <1>1, <1>6 DEF Types, ClientGoto, SendDone
  <2>2. Stage(c) = "called" /\ Stage(c)' \in {"called", "accepted"}
    BY <1>2, <2>1 DEF StageOf
  <2>3. Returned(c)' = Returned(c)
    BY <2>1 DEF Returned
  <2> QED
    BY <1>3, <2>2, <2>3, StageAdvances, StageStays
<1>7. CASE Finish(c)
  <2>1. cpc[c] = "recv_loop" /\ cpc'[c] = "done"
    BY <1>1, <1>7 DEF Types, ClientGoto, Finish
  <2>2. Stage(c) = "accepted" /\ Stage(c)' = "returned"
    BY <1>2, <2>1 DEF StageOf
  <2>3. Returned(c)' = Result(c)
    BY <1>1, <2>1, DeliveredNext DEF Delivered, Returned, Result
  <2> QED
    BY <1>3, <2>2, <2>3, StageAdvances
<1>8. CASE Crash(c)
  <2>1. cpc[c] \notin {"create", "done", "crashed"} /\ cpc'[c] = "crashed"
    BY <1>1, <1>8 DEF Types, Crash
  <2>2. Stage(c) \in {"idle", "called", "accepted"} /\ Stage(c)' = "abandoned"
    BY <1>2, <2>1 DEF StageOf
  <2>3. Returned(c)' = Returned(c)
    BY <2>1 DEF Returned
  <2> QED
    BY <1>3, <2>2, <2>3, StageAdvances
<1> QED
  BY <1>4, <1>5, <1>6, <1>7, <1>8 DEF ClientStep

(* A step of the server shows when it completes a file or ends a call.     *)
LEMMA ServerShows ==
  ASSUME IInv, IInv', UNCHANGED clientVars,
         \/ \A d \in Clients : Served(d)' = Served(d)
         \/ \E c \in Clients :
              /\ \A d \in Clients \ {c} : Served(d)' = Served(d)
              /\ cpc[c] # "recv_prelim" \/ Served(c)'
  PROVE  Abstract!Next \/ UNCHANGED Abstract!vars
<1>1. \A d \in Clients : /\ Stage(d) = StageOf(cpc[d], Served(d))
                         /\ Stage(d)' = StageOf(cpc[d], Served(d)')
                         /\ Returned(d)' = Returned(d)
  BY StageIs, StageIsNext DEF clientVars, Returned
<1>2. CASE \A d \in Clients : Served(d)' = Served(d)
  BY <1>1, <1>2, StageStays
<1>3. CASE \E c \in Clients :
              /\ \A d \in Clients \ {c} : Served(d)' = Served(d)
              /\ cpc[c] # "recv_prelim" \/ Served(c)'
  <2> PICK c \in Clients : /\ \A d \in Clients \ {c} : Served(d)' = Served(d)
                           /\ cpc[c] # "recv_prelim" \/ Served(c)'
    BY <1>3
  <2>1. \A d \in Clients \ {c} : Stage(d)' = Stage(d) /\ Returned(d)' = Returned(d)
    BY <1>1
  <2>2. CASE cpc[c] # "recv_prelim" \/ (Served(c)' /\ Served(c))
    <3>1. Stage(c)' = Stage(c)
      BY <1>1, <2>2 DEF StageOf
    <3> QED
      BY <1>1, <2>1, <3>1, StageStays
  <2>3. CASE cpc[c] = "recv_prelim" /\ Served(c)' /\ ~ Served(c)
    <3>1. Stage(c) = "called" /\ Stage(c)' = "accepted"
      BY <1>1, <2>3 DEF StageOf
    <3> QED
      BY <1>1, <2>1, <3>1, StageAdvances
  <2> QED
    BY <2>2, <2>3
<1> QED
  BY <1>2, <1>3

LEMMA ThreadRefines ==
  ASSUME FilesNotEmpty, DInv, NEW t \in Threads, ThreadStep(t), UNCHANGED clientVars
  PROVE  Abstract!Next \/ UNCHANGED Abstract!vars
<1>1. IInv /\ IInv' /\ Types /\ Tasks /\ Homes /\ ClientQ # Work /\ Work \in Threads
  BY ThreadNextData DEF DInv, IInv, ClientQ, Work, Threads
<1> USE DEF ThreadGoto
<1>2. CASE \/ GrabSegments(t) \/ OpenQueues(t) \/ Announce(t) \/ ReceiveAck(t)
           \/ ReleaseSegments(t) \/ (t = ClientQ /\ (PopClient \/ PrelimUpload \/ CopyIn))
           \/ (t = Work /\ (CompressFile \/ PrelimDownload \/ CopyOut))
  <2>1. task_q' = task_q
    BY <1>2 DEF GrabSegments, OpenQueues, Announce, ReceiveAck, ReleaseSegments, PopClient,
                PrelimUpload, CopyIn, CompressFile, PrelimDownload, CopyOut
  <2>2. InHand(Work)' = InHand(Work)
    <3>1. CASE t = ClientQ
      <4>1. cur'[Work] = cur[Work] /\ tpc'[Work] = tpc[Work]
        BY <1>1, <1>2, <3>1
        DEF Types, GrabSegments, OpenQueues, Announce, ReceiveAck, ReleaseSegments, PopClient,
            PrelimUpload, CopyIn
      <4> QED
        BY <4>1 DEF InHand
    <3>2. CASE t = Work /\ (CompressFile \/ CopyOut)
      <4>1. IsTask(cur[Work]) /\ tpc[Work] \in {"compress", "copy"}
        BY <1>1, <3>2, ThreadFacts DEF CompressFile, CopyOut
      <4>2. tpc'[Work] \in {"grab", "announce"}
        BY <1>1, <3>2 DEF Types, CompressFile, CopyOut
      <4>3. cur'[Work].client = cur[Work].client
        <5>1. CASE CompressFile
          BY <1>1, <4>1, <5>1 DEF Types, CompressFile, Started, IsTask, TaskFields
        <5>2. CASE CopyOut
          BY <1>1, <4>1, <5>2 DEF Types, CopyOut, IsTask, TaskFields
        <5> QED
          BY <3>2, <5>1, <5>2
      <4> QED
        BY <4>1, <4>2, <4>3 DEF InHand
    <3>3. CASE t = Work /\ ~ (CompressFile \/ CopyOut)
      <4>1. cur'[Work] = cur[Work]
        BY <1>1, <1>2, <3>3
        DEF GrabSegments, OpenQueues, Announce, ReceiveAck, ReleaseSegments, PrelimDownload
      <4>2. \/ tpc[Work] \notin {"pop", "release"} /\ tpc'[Work] \notin {"pop", "release"}
            \/ tpc[Work] \in {"pop", "release"} /\ tpc'[Work] \in {"pop", "release"}
        BY <1>1, <1>2, <3>3
        DEF Types, GrabSegments, OpenQueues, Announce, ReceiveAck, ReleaseSegments, PrelimDownload
      <4> QED
        BY <4>1, <4>2 DEF InHand
    <3> QED
      BY <3>1, <3>2, <3>3 DEF Threads
  <2>3. \A d \in Clients : Served(d)' = Served(d)
    BY <2>1, <2>2 DEF Served
  <2> QED
    BY <1>1, <2>3, ServerShows
<1>3. CASE t = ClientQ /\ FinishUpload
  <2> PICK c \in Clients : c = cur[ClientQ].client
    BY <1>1, <1>3, ThreadFacts DEF FinishUpload
  <2>0. PICK y, z :
        /\ y = AfterPass(ClientQ)
        /\ z = [Task(y.client, y.file_len) EXCEPT !.len = 0, !.file_buffer = y.file_buffer]
    OBVIOUS
  <2>1. z.client = c
    <3>1. IsTask(cur[ClientQ])
      BY <1>1, <1>3, ThreadFacts DEF FinishUpload
    <3> QED
      BY <2>0, <3>1 DEF AfterPass, Task, IsTask, TaskFields
  <2>2. task_q' = task_q \/ task_q' = Append(task_q, z)
    BY <1>3, <2>0 DEF FinishUpload
  <2>3. ClientsIn(task_q)' = ClientsIn(task_q) \/ ClientsIn(task_q)' = ClientsIn(task_q) \cup {c}
    <3>1. task_q \in Seq(Range(task_q))
      BY <1>1 DEF Types
    <3>2. ClientsIn(Append(task_q, z)) = ClientsIn(task_q) \cup {c}
      BY <2>1, <3>1, AppendRange
    <3> QED
      BY <2>2, <3>2
  <2>4. InHand(Work)' = InHand(Work)
    BY <1>1, <1>3 DEF Types, FinishUpload, InHand
  <2>5. \/ \A d \in Clients : Served(d)' = Served(d)
        \/ (\A d \in Clients \ {c} : Served(d)' = Served(d)) /\ Served(c)'
    BY <2>3, <2>4 DEF Served
  <2> QED
    BY <1>1, <2>5, ServerShows
<1>4. CASE t = Work /\ PopTask
  <2> PICK x : x = Head(task_q)
    OBVIOUS
  <2>1. x \in Range(task_q) /\ ClientsIn(task_q)' = ClientsIn(task_q) \ {x.client}
    BY <1>1, <1>4, TailRange DEF Types, Homes, PopTask
  <2>2. InHand(Work) = {} /\ InHand(Work)' = {x.client}
    BY <1>1, <1>4 DEF Types, PopTask, InHand
  <2>3. \A d \in Clients : Served(d)' = Served(d)
    BY <2>1, <2>2 DEF Served, ClientsIn
  <2> QED
    BY <1>1, <2>3, ServerShows
<1>5. CASE t = Work /\ FinishDownload
  <2> PICK c \in Clients : c = cur[Work].client
    BY <1>1, <1>5, ThreadFacts DEF FinishDownload
  <2> PICK y : y = AfterPass(Work)
    OBVIOUS
  <2>1. y.client = c /\ cpc[c] # "recv_prelim"
    <3>1. /\ IsTask(cur[Work])
          /\ DownloadAt(View(c), cur[Work], "finish", Grant(Work), Announced(Work))
      BY <1>1, <1>5, ThreadFacts DEF FinishDownload
    <3>2. y.client = c
      BY <3>1 DEF AfterPass, IsTask, TaskFields
    <3>3. cpc[c] # "recv_prelim"
      BY <3>1 DEF DownloadAt, Dead, Received, View
    <3> QED
      BY <3>2, <3>3
  <2>2. task_q' = task_q \/ task_q' = Append(task_q, y)
    BY <1>5 DEF FinishDownload
  <2>3. ClientsIn(task_q)' = ClientsIn(task_q) \/ ClientsIn(task_q)' = ClientsIn(task_q) \cup {c}
    <3>1. task_q \in Seq(Range(task_q))
      BY <1>1 DEF Types
    <3> QED
      BY <2>1, <2>2, <3>1, AppendRange
  <2>4. InHand(Work)' = {} /\ InHand(Work) = {c}
    BY <1>1, <1>5 DEF Types, FinishDownload, InHand
  <2>5. \A d \in Clients \ {c} : Served(d)' = Served(d)
    BY <2>3, <2>4 DEF Served
  <2> QED
    BY <1>1, <2>1, <2>5, ServerShows
<1> QED
  BY <1>2, <1>3, <1>4, <1>5 DEF ThreadStep

LEMMA ListenRefines ==
  ASSUME DInv, ListenStep, UNCHANGED clientVars
  PROVE  Abstract!Next \/ UNCHANGED Abstract!vars
<1>1. IInv /\ IInv'
  BY ListenInv, AddClientInv DEF DInv, ListenStep
<1>2. \A d \in Clients : Served(d)' = Served(d)
  BY DEF ListenStep, Listen, AddClient, Served, InHand
<1> QED
  BY <1>1, <1>2, ServerShows

LEMMA IdleRefines ==
  ASSUME DInv, UNCHANGED vars
  PROVE  UNCHANGED Abstract!vars
<1>1. IInv /\ IInv'
  BY Stutter DEF DInv
<1>2. \A d \in Clients : Served(d)' = Served(d) /\ Returned(d)' = Returned(d) /\ cpc'[d] = cpc[d]
  BY DEF vars, clientVars, serverVars, Served, InHand, Returned
<1> QED
  BY <1>1, <1>2, StageIs, StageIsNext, StageStays

LEMMA NextRefines ==
  ASSUME FilesNotEmpty, NoExpansion, DInv, [Next]_vars
  PROVE  [Abstract!Next]_(Abstract!vars)
<1>1. CASE \E c \in Clients : (ClientStep(c) \/ Crash(c)) /\ UNCHANGED serverVars
  BY <1>1, ClientRefines
<1>2. CASE ListenStep /\ UNCHANGED clientVars
  BY <1>2, ListenRefines
<1>3. CASE \E t \in Threads : ThreadStep(t) /\ UNCHANGED clientVars
  BY <1>3, ThreadRefines
<1>4. CASE Poll \/ UNCHANGED vars
  BY <1>4, IdleRefines DEF Poll
<1> QED
  BY <1>1, <1>2, <1>3, <1>4 DEF Next

(* What the callers see is CompressionService: a call is accepted once the *)
(* server has the whole file, and returns what the codec makes of it.      *)
THEOREM ServiceRefines == FilesNotEmpty /\ NoExpansion => (Spec => ServiceSpec)
<1>1. Init => Abstract!Init
  BY InitRefines
<1>2. FilesNotEmpty /\ NoExpansion /\ DInv /\ [Next]_vars => [Abstract!Next]_(Abstract!vars)
  BY NextRefines
<1>3. FilesNotEmpty /\ NoExpansion => (FilesNotEmpty /\ NoExpansion)'
  BY DEF FilesNotEmpty, NoExpansion
<1>4. FilesNotEmpty /\ NoExpansion => [](FilesNotEmpty /\ NoExpansion)
  BY <1>3, PTL
<1> QED
  BY <1>1, <1>2, <1>4, DataInvariant, PTL DEF Spec, ServiceSpec, Abstract!Spec
=============================================================================
