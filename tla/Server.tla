------------------------------- MODULE Server -------------------------------
(***************************************************************************)
(* The three threads of the server.  listen_thread turns requests into     *)
(* client tasks; improved_check_clientq moves files in, one pass over the  *)
(* segments at a time, and makes a compression task of a complete one;     *)
(* improved_work_thread compresses it and moves it out the same way.       *)
(*                                                                         *)
(* client_q and task_q are sequences and a grant is one step: TaskQueue    *)
(* and SegmentPool are the lists and the pool in detail, and implement     *)
(* FifoQueue and SegmentAllocator.                                         *)
(***************************************************************************)
EXTENDS Channels

VARIABLES
  segment_id,  \* segment_id[s] = mem_info.data_array[s].segment_id
  listened,    \* the request listen_thread has received and not yet queued
  client_q,    \* the client tasks to serve
  task_q,      \* the compression tasks to serve
  held,        \* held[t] = the entries of data_array granted to thread t
  cur,         \* cur[t] = the task thread t has taken from its queue
  opened,      \* opened[t] = whether mq_open gave t the client's queues
  tpc          \* where thread t is

serverVars == <<segment_id, listened, client_q, task_q, held, cur, opened, tpc>>

ClientQ == "improved_check_clientq"
Work == "improved_work_thread"
Threads == {ClientQ, Work}

Pool == INSTANCE SegmentAllocator

(* cltask and ctask: len is what the task moves, file_len of the first and *)
(* compressed_len of the second; total, remaining and index count its      *)
(* segments; file_buffer and compressed_buffer are the buffers.            *)
Task(c, len) ==
  [client |-> c, file_len |-> len, len |-> len, fresh |-> TRUE,
   total |-> 0, remaining |-> 0, index |-> 0,
   file_buffer |-> Malloc(0), compressed_buffer |-> Malloc(0)]

NoTask == [client |-> "none"]

(* A task's first pass sets its counters.                                  *)
Started(task) ==
  [task EXCEPT !.total = SegmentsNeeded(task.len),
               !.remaining = SegmentsNeeded(task.len), !.index = 0]

(* The numbers of a finite set, the smallest first: said by what it is and *)
(* not by how to sort, for the proofs.                                     *)
InOrder(S) ==
  CHOOSE seq \in [1 .. Cardinality(S) -> S] :
    \A j, k \in 1 .. Cardinality(S) : j < k => seq[j] < seq[k]

(* The identifiers of a grant, as prep_segment_avail_metadata_msg lists them. *)
Ids(t) ==
  [j \in 1 .. Cardinality(held[t]) |-> segment_id[InOrder(held[t])[j]]]

(* The identifiers of shmget(IPC_PRIVATE), none of which has been used.    *)
FreshSegments(used) ==
  [s \in Segs |-> InOrder(SegIds \ used)[s + 1]]

ServerInit ==
  /\ segment_id = FreshSegments({})
  /\ listened = <<>> /\ client_q = <<>> /\ task_q = <<>>
  /\ Pool!Init
  /\ cur = [t \in Threads |-> NoTask]
  /\ opened = [t \in Threads |-> FALSE]
  /\ tpc = [t \in Threads |-> "pop"]

ThreadGoto(t, from, to) == tpc[t] = from /\ tpc' = [tpc EXCEPT ![t] = to]

(* mq_send on the get queue: blocks while it is full, and fails on a       *)
(* descriptor mq_open did not give; the thread goes on.                    *)
SendGet(t) ==
  LET c == cur[t].client
  IN  IF opened[t]
      THEN /\ Len(get_q[c]) < MaxMsg
           /\ get_q' = [get_q EXCEPT ![c] = Append(@, Announcement(cur[t].len, Ids(t)))]
      ELSE UNCHANGED get_q

AfterPassStillFresh(t) == [cur[t] EXCEPT !.index = @ + Cardinality(held[t])]

(* A pass is over: index has grown by the whole grant.                     *)
AfterPass(t) ==
  [cur[t] EXCEPT !.index = @ + Cardinality(held[t]), !.fresh = FALSE]

CompleteOneEarly(task) == task.index + 1 >= task.total

Complete(task) == task.index >= task.total

-----------------------------------------------------------------------------
(* listen_thread: mq_receive on the main queue, then add_to_list.          *)
Listen ==
  /\ listened = <<>>
  /\ main_q # <<>>
  /\ listened' = <<Head(main_q)>>
  /\ main_q' = Tail(main_q)
  /\ UNCHANGED <<get_q, put_q, linked, shm, segment_id, client_q, task_q, held, cur, opened, tpc>>

AddClient ==
  /\ listened # <<>>
  /\ client_q' = Append(client_q, Task(listened[1].client, listened[1].len))
  /\ listened' = <<>>
  /\ UNCHANGED <<channelVars, segment_id, task_q, held, cur, opened, tpc>>

-----------------------------------------------------------------------------
(* remove_head: both threads spin until their queue has a task.            *)
PopClient ==
  /\ ThreadGoto(ClientQ, "pop", "grab")
  /\ client_q # <<>>
  /\ cur' = [cur EXCEPT ![ClientQ] = Head(client_q)]
  /\ client_q' = Tail(client_q)
  /\ UNCHANGED <<channelVars, segment_id, listened, task_q, held, opened>>

PopTask ==
  /\ task_q # <<>>
  /\ ThreadGoto(Work, "pop", IF Head(task_q).fresh THEN "compress" ELSE "grab")
  /\ cur' = [cur EXCEPT ![Work] = Head(task_q)]
  /\ task_q' = Tail(task_q)
  /\ UNCHANGED <<channelVars, segment_id, listened, client_q, held, opened>>

(* snappy_compress of the whole file, the first time a task is taken.      *)
CompressFile ==
  /\ ThreadGoto(Work, "compress", "grab")
  /\ LET task == cur[Work]
         len == CompressedLen(task.file_len)
     IN  cur' = [cur EXCEPT ![Work] =
           Started([task EXCEPT
             !.len = len,
             !.compressed_buffer = Compress(task.file_len, task.file_buffer)])]
  /\ UNCHANGED <<channelVars, segment_id, listened, client_q, task_q, held, opened>>

(* grab_segments, and the mq_opens that follow.                            *)
GrabSegments(t) ==
  /\ ThreadGoto(t, "grab", "open")
  /\ Pool!Grab(t)
  /\ UNCHANGED <<channelVars, segment_id, listened, client_q, task_q, cur, opened>>

(* The next thing a thread does with its queues open: a preliminary        *)
(* message when the task is fresh, else the pass itself.                   *)
OpenQueues(t) ==
  /\ ThreadGoto(t, "open", IF cur[t].fresh THEN "prelim"
                           ELSE IF t = ClientQ THEN "announce" ELSE "copy")
  /\ opened' = [opened EXCEPT ![t] = cur[t].client \in linked]
  /\ UNCHANGED <<channelVars, segment_id, listened, client_q, task_q, held, cur>>

PrelimUpload ==
  /\ ThreadGoto(ClientQ, "prelim", "announce")
  /\ SendGet(ClientQ)
  /\ cur' = [cur EXCEPT ![ClientQ] =
               Started([@ EXCEPT !.file_buffer = Malloc(cur[ClientQ].len)])]
  /\ UNCHANGED <<main_q, put_q, linked, shm, segment_id, listened, client_q, task_q, held, opened>>

PrelimDownload ==
  /\ ThreadGoto(Work, "prelim", "copy")
  /\ SendGet(Work)
  /\ UNCHANGED <<main_q, put_q, linked, shm, segment_id, listened, client_q, task_q, held, cur, opened>>

Announce(t) ==
  /\ ThreadGoto(t, "announce", "ack")
  /\ SendGet(t)
  /\ UNCHANGED <<main_q, put_q, linked, shm, segment_id, listened, client_q, task_q, held, cur, opened>>

ReceiveAckNonBlocking(t) ==
  /\ ThreadGoto(t, "ack", IF t = ClientQ THEN "copy" ELSE "finish")
  /\ LET c == cur[t].client
     IN  put_q' = [put_q EXCEPT ![c] = IF @ > 0 THEN @ - 1 ELSE 0]
  /\ UNCHANGED <<main_q, get_q, linked, shm, segment_id, listened, client_q, task_q, held, cur, opened>>

(* mq_receive on the put queue: blocks until the client has acknowledged.  *)
ReceiveAck(t) ==
  /\ ThreadGoto(t, "ack", IF t = ClientQ THEN "copy" ELSE "finish")
  /\ LET c == cur[t].client
     IN  IF opened[t]
         THEN put_q[c] > 0 /\ put_q' = [put_q EXCEPT ![c] = @ - 1]
         ELSE UNCHANGED put_q
  /\ UNCHANGED <<main_q, get_q, linked, shm, segment_id, listened, client_q, task_q, held, cur, opened>>

(* The copy loops: out of the segments before the pass ends, into them     *)
(* before it is announced.                                                 *)
CopyIn ==
  /\ ThreadGoto(ClientQ, "copy", "finish")
  /\ cur' = [cur EXCEPT
       ![ClientQ].file_buffer = FromSegments(@, cur[ClientQ].len, cur[ClientQ].index,
                                             cur[ClientQ].remaining, Ids(ClientQ)),
       ![ClientQ].remaining = @ - ChunksInPass(Ids(ClientQ), @)]
  /\ UNCHANGED <<channelVars, segment_id, listened, client_q, task_q, held, opened>>

CopyOut ==
  /\ ThreadGoto(Work, "copy", "announce")
  /\ shm' = ToSegments(cur[Work].compressed_buffer, cur[Work].len, cur[Work].index,
                       cur[Work].remaining, Ids(Work))
  /\ cur' = [cur EXCEPT ![Work].remaining = @ - ChunksInPass(Ids(Work), @)]
  /\ UNCHANGED <<main_q, get_q, put_q, linked, segment_id, listened, client_q, task_q, held, opened>>

FinishUploadAlwaysRequeues ==
  /\ ThreadGoto(ClientQ, "finish", "release")
  /\ LET task == AfterPass(ClientQ)
     IN  /\ client_q' = Append(client_q, task)
         /\ IF Complete(task)
            THEN task_q' = Append(task_q,
                   [Task(task.client, task.file_len) EXCEPT
                      !.len = 0, !.file_buffer = task.file_buffer])
            ELSE UNCHANGED task_q
  /\ cur' = [cur EXCEPT ![ClientQ] = NoTask]
  /\ UNCHANGED <<channelVars, segment_id, listened, held, opened>>

(* After its last pass a file becomes a compression task; before it, the   *)
(* client task goes to the tail of client_q.  The grant is still held.     *)
FinishUpload ==
  /\ ThreadGoto(ClientQ, "finish", "release")
  /\ LET task == AfterPass(ClientQ)
     IN  \/ /\ Complete(task)
            /\ task_q' = Append(task_q,
                 [Task(task.client, task.file_len) EXCEPT
                    !.len = 0, !.file_buffer = task.file_buffer])
            /\ UNCHANGED client_q
         \/ /\ ~ Complete(task)
            /\ client_q' = Append(client_q, task)
            /\ UNCHANGED task_q
  /\ cur' = [cur EXCEPT ![ClientQ] = NoTask]
  /\ UNCHANGED <<channelVars, segment_id, listened, held, opened>>

FinishDownload ==
  /\ ThreadGoto(Work, "finish", "release")
  /\ LET task == AfterPass(Work)
     IN  \/ Complete(task) /\ UNCHANGED task_q
         \/ ~ Complete(task) /\ task_q' = Append(task_q, task)
  /\ cur' = [cur EXCEPT ![Work] = NoTask]
  /\ UNCHANGED <<channelVars, segment_id, listened, client_q, held, opened>>

ReleaseSegments(t) ==
  /\ ThreadGoto(t, "release", "pop")
  /\ Pool!Release(t)
  /\ UNCHANGED <<channelVars, segment_id, listened, client_q, task_q, cur, opened>>

-----------------------------------------------------------------------------
ListenStep == Listen \/ AddClient

ThreadStep(t) ==
  \/ GrabSegments(t) \/ OpenQueues(t) \/ Announce(t) \/ ReceiveAck(t) \/ ReleaseSegments(t)
  \/ t = ClientQ /\ (PopClient \/ PrelimUpload \/ CopyIn \/ FinishUpload)
  \/ t = Work /\ (PopTask \/ CompressFile \/ PrelimDownload \/ CopyOut \/ FinishDownload)
=============================================================================
