------------------------------ MODULE Service ------------------------------
(***************************************************************************)
(* The clients and the server together: the protocol by which a file goes  *)
(* to the server, is compressed, and comes back, through grants of         *)
(* segments announced on one queue and acknowledged on another.            *)
(***************************************************************************)
EXTENDS ClientLibrary, Server

vars == <<channelVars, clientVars, serverVars>>

Init == ChannelsInit /\ ClientInit /\ ServerInit

(* Every call is over and the server has nothing to do: its threads poll.  *)
Idle ==
  /\ \A c \in Clients : cpc[c] \in {"done", "crashed"}
  /\ main_q = <<>> /\ listened = <<>> /\ client_q = <<>> /\ task_q = <<>>
  /\ \A t \in Threads : tpc[t] = "pop"

Poll == Idle /\ UNCHANGED vars

Next ==
  \/ \E c \in Clients : (ClientStep(c) \/ Crash(c)) /\ UNCHANGED serverVars
  \/ ListenStep /\ UNCHANGED clientVars
  \/ \E t \in Threads : ThreadStep(t) /\ UNCHANGED clientVars
  \/ Poll

Spec == Init /\ [][Next]_vars

(* Each process and each thread is scheduled: one that can go on does.     *)
FairSpec ==
  /\ Spec
  /\ \A c \in Clients : WF_vars(ClientStep(c) /\ UNCHANGED serverVars)
  /\ WF_vars(ListenStep /\ UNCHANGED clientVars)
  /\ \A t \in Threads : WF_vars(ThreadStep(t) /\ UNCHANGED clientVars)

-----------------------------------------------------------------------------
(* The threads that have a task in hand, and what the service has of c.    *)
Busy == {t \in Threads : cur[t] # NoTask}

Uploads(c) ==
  {<<"client_q", i>> : i \in {i \in DOMAIN client_q : client_q[i].client = c}} \cup
  {<<"cur", t>> : t \in {t \in Busy \cap {ClientQ} : cur[t].client = c}}

Downloads(c) ==
  {<<"task_q", i>> : i \in {i \in DOMAIN task_q : task_q[i].client = c}} \cup
  {<<"cur", t>> : t \in {t \in Busy \cap {Work} : cur[t].client = c}}

Requests(c) ==
  {<<"main_q", i>> : i \in {i \in DOMAIN main_q : main_q[i].client = c}} \cup
  {<<"listened", i>> : i \in {i \in DOMAIN listened : listened[i].client = c}}

Uploading(c) == cpc[c] \in {"send_prelim", "send_loop", "send_copy", "send_ack"}

(* The thread that serves c waits for its ACK.                             *)
Awaits(t, c) == tpc[t] = "ack" /\ cur[t].client = c

Prefix(len, buf) == [k \in 0 .. len - 1 |-> buf[k]]

-----------------------------------------------------------------------------
(* The types of the protocol's state.                                      *)
TypeOK ==
  /\ main_q \in Seq([client : Clients, len : Nat])
  /\ put_q \in [Clients -> Nat]
  /\ linked \subseteq Clients
  /\ \A c \in Clients : \A i \in DOMAIN get_q[c] :
       get_q[c][i].len \in Nat /\ get_q[c][i].ids \in Seq(SegIds)
  /\ \A s \in SegIds : DOMAIN shm[s] = 0 .. SegSize - 1
  /\ cpc \in [Clients -> {"create", "request", "send_prelim", "send_loop", "send_copy",
                          "send_ack", "recv_prelim", "recv_loop", "recv_copy", "recv_ack",
                          "done", "crashed"}]
  /\ ii \in [Clients -> Nat] /\ needed \in [Clients -> Nat] /\ to_recv \in [Clients -> Nat]
  /\ put_open \in [Clients -> BOOLEAN]
  /\ held \in [Threads -> SUBSET Segs]
  /\ opened \in [Threads -> BOOLEAN]
  /\ tpc \in [Threads -> {"pop", "compress", "grab", "open", "prelim", "copy", "announce",
                          "ack", "finish", "release"}]
  /\ \A t \in Busy : cur[t].index \in Nat /\ cur[t].remaining \in Nat

(* The compressed file a call returns is what the codec makes of the       *)
(* caller's own file: no byte of another file, none from another pass,     *)
(* none left unwritten (sync_compress, the copy loops on both sides).      *)
Delivered ==
  \A c \in Clients : cpc[c] = "done" =>
    /\ comp_len[c] = CompressedLen(FileLen[c])
    /\ Prefix(comp_len[c], comp_buf[c]) = Compress(FileLen[c], File(c))

(* A compression task is made of the complete file: the last pass ended    *)
(* after every byte of file_buffer had come out of the segments.           *)
WholeFileCompressed ==
  /\ \A i \in DOMAIN task_q : task_q[i].file_buffer = File(task_q[i].client)
  /\ Work \in Busy => cur[Work].file_buffer = File(cur[Work].client)

(* A client reads or writes only segments that are granted for its own     *)
(* pass at that moment: between mq_receive and the ACK a server thread     *)
(* holds exactly the announced segments and waits for this client.         *)
SegmentSafety ==
  \A c \in Clients :
    /\ cpc[c] \in {"send_copy", "send_ack"} => Awaits(ClientQ, c) /\ msg[c].ids = Ids(ClientQ)
    /\ cpc[c] = "recv_copy" => Awaits(Work, c) /\ msg[c].ids = Ids(Work)

(* Neither side tells the other where it is in the file: the client's ii   *)
(* and segments_to_recv are the server's segment_index and                 *)
(* segments_remaining whenever a pass is in flight.                        *)
AgreeOnPosition ==
  \A c \in Clients :
    /\ cpc[c] = "send_copy" =>
         /\ Awaits(ClientQ, c)
         /\ ii[c] = cur[ClientQ].index
         /\ to_recv[c] = cur[ClientQ].remaining
         /\ needed[c] = cur[ClientQ].total
    /\ cpc[c] = "recv_copy" =>
         /\ Awaits(Work, c)
         /\ ii[c] = cur[Work].index
         /\ to_recv[c] = cur[Work].remaining + ChunksInPass(msg[c].ids, to_recv[c])
         /\ needed[c] = cur[Work].total

(* Every memcpy of the client's two copy loops stays inside its buffer and *)
(* its segments, the last, partial one and a grant larger than what is     *)
(* left included.                                                          *)
ClientCopiesInBounds ==
  \A c \in Clients :
    /\ cpc[c] = "send_copy" =>
         PassInBounds(File(c), FileLen[c], ii[c], to_recv[c], msg[c].ids)
    /\ cpc[c] = "recv_copy" =>
         PassInBounds(comp_buf[c], comp_len[c], ii[c], to_recv[c], msg[c].ids)

(* The same for the server's loops as well, which count for themselves.    *)
CopiesInBounds ==
  /\ ClientCopiesInBounds
  /\ \A t \in Threads : tpc[t] = "copy" =>
       PassInBounds(IF t = ClientQ THEN cur[t].file_buffer ELSE cur[t].compressed_buffer,
                    cur[t].len, cur[t].index, cur[t].remaining, Ids(t))

(* The ten places of a private queue are never the limit: a thread never   *)
(* blocks in mq_send to a client, nor a client in its ACK.                 *)
NeverBlocksOnSend ==
  \A c \in Clients : Len(get_q[c]) <= 2 /\ put_q[c] <= 1

(* mq_open without O_CREAT finds the client's queues every time: a client  *)
(* does not unlink them while the server has a pass to start for it.       *)
OpensSucceed ==
  \A t \in Threads :
    tpc[t] \in {"prelim", "copy", "announce", "ack"} => opened[t]

(* A call is in one place of the server at a time, from its request to its *)
(* last pass: never lost between two queues, never served by both threads. *)
OneHome ==
  \A c \in Clients :
    LET places == Cardinality(Requests(c)) + Cardinality(Uploads(c)) + Cardinality(Downloads(c))
    IN  /\ places <= 1
        /\ cpc[c] \notin {"create", "request", "recv_loop", "recv_ack", "done", "crashed"} => places = 1

(* Every call of sync_compress returns: no pass, ACK or re-queueing leaves *)
(* a client or a thread waiting for the other for ever.                    *)
EveryoneServed == \A c \in Clients : <>(cpc[c] = "done")

(* The server gets over every call too: both threads are polling again in  *)
(* the end, no pass of theirs waits for an ACK that will not come, and no  *)
(* announcement or ACK is left unread, no queue name, no segment granted.  *)
NothingLeft ==
  /\ \A c \in Clients : get_q[c] = <<>> /\ put_q[c] = 0
  /\ linked = {}
  /\ \A t \in Threads : held[t] = {}

ServerRests == <>[](Idle /\ NothingLeft)

(* What the caller sees is CompressionService.                             *)
Stage(c) ==
  CASE cpc[c] \in {"create", "request"} -> "idle"
    [] cpc[c] = "done" -> "returned"
    [] cpc[c] = "crashed" -> "abandoned"
    [] OTHER -> IF Uploading(c) \/ (cpc[c] = "recv_prelim" /\ Downloads(c) = {})
                THEN "called" ELSE "accepted"

Abstract == INSTANCE CompressionService WITH
  stage <- [c \in Clients |-> Stage(c)],
  result <- [c \in Clients |-> IF cpc[c] = "done" THEN Prefix(comp_len[c], comp_buf[c])
                               ELSE Malloc(0)],
  Codec <- LAMBDA buf : Compress(Cardinality(DOMAIN buf), buf),
  Nothing <- Malloc(0)

ServiceSpec == Abstract!Spec
=============================================================================
