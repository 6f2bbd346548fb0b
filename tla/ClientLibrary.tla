---------------------------- MODULE ClientLibrary ----------------------------
(***************************************************************************)
(* sync_compress: the calls of client_library.c, one system call at a time.*)
(* send_data_to_server copies the file into the segments of each           *)
(* announcement and acknowledges it; receive_compressed_data copies the    *)
(* compressed file out of them and acknowledges it.                        *)
(*                                                                         *)
(* receive_compressed_data never writes putQPath before it opens it (its   *)
(* sprintf became a db_print): what it opens is what the stack holds, the  *)
(* path that send_data_to_server left there or something else.             *)
(***************************************************************************)
EXTENDS Channels

CONSTANTS
  StalePath,  \* what putQPath may hold: TRUE, the put queue's path; FALSE, another
  CanCrash    \* the clients that may be killed

ASSUME ClientAssumption == StalePath \subseteq BOOLEAN /\ CanCrash \subseteq Clients

VARIABLES
  cpc,       \* where each client is
  ii,        \* the loop counter: segments moved in this phase
  needed,    \* segments_needed of this phase
  to_recv,   \* segments_to_recv
  msg,       \* the last announcement, as parsed
  put_open,  \* whether put_q is a descriptor of the put queue
  comp_len,  \* *compressed_len
  comp_buf   \* compressed_data_buffer

clientVars == <<cpc, ii, needed, to_recv, msg, put_open, comp_len, comp_buf>>

ClientInit ==
  /\ cpc = [c \in Clients |-> "create"]
  /\ ii = [c \in Clients |-> 0]
  /\ needed = [c \in Clients |-> 0]
  /\ to_recv = [c \in Clients |-> 0]
  /\ msg = [c \in Clients |-> Announcement(0, <<>>)]
  /\ put_open = [c \in Clients |-> FALSE]
  /\ comp_len = [c \in Clients |-> 0]
  /\ comp_buf = [c \in Clients |-> Malloc(0)]

ClientGoto(c, from, to) == cpc[c] = from /\ cpc' = [cpc EXCEPT ![c] = to]

(* mq_receive on the get queue: blocks while it is empty.                  *)
ReceiveGet(c) ==
  /\ get_q[c] # <<>>
  /\ msg' = [msg EXCEPT ![c] = Head(get_q[c])]
  /\ get_q' = [get_q EXCEPT ![c] = Tail(@)]

(* mq_send on the put queue: blocks while it is full.                      *)
SendAck(c) == put_q[c] < MaxMsg /\ put_q' = [put_q EXCEPT ![c] = @ + 1]

(* A phase starts: the number of segments to move, and none moved yet.     *)
StartPhase(c, len) ==
  /\ needed' = [needed EXCEPT ![c] = SegmentsNeeded(len)]
  /\ to_recv' = [to_recv EXCEPT ![c] = SegmentsNeeded(len)]
  /\ ii' = [ii EXCEPT ![c] = 0]

(* Both loops take a pass off what is left, and add its whole grant to ii. *)
CountDownByGrant(c) ==
  to_recv' = [to_recv EXCEPT ![c] = @ - Len(msg[c].ids)]

CountDown(c) ==
  to_recv' = [to_recv EXCEPT ![c] = @ - ChunksInPass(msg[c].ids, @)]

CountUpOne(c) == ii' = [ii EXCEPT ![c] = @ + 1]

CountUp(c) == ii' = [ii EXCEPT ![c] = @ + Len(msg[c].ids)]

-----------------------------------------------------------------------------
(* establish_communicator_channel: create_private_q twice.                 *)
CreateQueues(c) ==
  /\ ClientGoto(c, "create", "request")
  /\ linked' = linked \cup {c}
  /\ UNCHANGED <<main_q, get_q, put_q, shm, ii, needed, to_recv, msg, put_open,
                 comp_len, comp_buf>>

(* The request; mq_send blocks while the main queue is full.               *)
Request(c) ==
  /\ ClientGoto(c, "request", "send_prelim")
  /\ Len(main_q) < MainMaxMsg
  /\ main_q' = Append(main_q, [client |-> c, len |-> FileLen[c]])
  /\ UNCHANGED <<get_q, put_q, linked, shm, ii, needed, to_recv, msg, put_open,
                 comp_len, comp_buf>>

(* send_data_to_server opens both queues, takes the preliminary message,   *)
(* then loops.                                                             *)
SendPrelim(c) ==
  /\ ClientGoto(c, "send_prelim", "send_loop")
  /\ put_open' = [put_open EXCEPT ![c] = TRUE]
  /\ ReceiveGet(c)
  /\ StartPhase(c, FileLen[c])
  /\ UNCHANGED <<main_q, put_q, linked, shm, comp_len, comp_buf>>

SendReceive(c) ==
  /\ ClientGoto(c, "send_loop", "send_copy")
  /\ ii[c] < needed[c]
  /\ ReceiveGet(c)
  /\ UNCHANGED <<main_q, put_q, linked, shm, ii, needed, to_recv, put_open, comp_len, comp_buf>>

SendCopy(c) ==
  /\ ClientGoto(c, "send_copy", "send_ack")
  /\ shm' = ToSegments(File(c), FileLen[c], ii[c], to_recv[c], msg[c].ids)
  /\ CountDown(c)
  /\ UNCHANGED <<main_q, get_q, put_q, linked, ii, needed, msg, put_open, comp_len, comp_buf>>

SendAckOK(c) ==
  /\ ClientGoto(c, "send_ack", "send_loop")
  /\ SendAck(c)
  /\ CountUp(c)
  /\ UNCHANGED <<main_q, get_q, linked, shm, needed, to_recv, msg, put_open, comp_len, comp_buf>>

SendDoneUnlinks(c) ==
  /\ ClientGoto(c, "send_loop", "recv_prelim")
  /\ ii[c] >= needed[c]
  /\ comp_buf' = [comp_buf EXCEPT ![c] = Malloc(FileLen[c])]
  /\ linked' = linked \ {c}
  /\ UNCHANGED <<main_q, get_q, put_q, shm, ii, needed, to_recv, msg, put_open, comp_len>>

(* The loop ends; malloc(file_len) for the result; receive_compressed_data *)
(* opens the get queue, and the path it finds in putQPath.                 *)
SendDone(c) ==
  /\ ClientGoto(c, "send_loop", "recv_prelim")
  /\ ii[c] >= needed[c]
  /\ comp_buf' = [comp_buf EXCEPT ![c] = Malloc(FileLen[c])]
  /\ \E stale \in StalePath : put_open' = [put_open EXCEPT ![c] = stale]
  /\ UNCHANGED <<channelVars, ii, needed, to_recv, msg, comp_len>>

(* receive_compressed_data: the preliminary message, then the loop.        *)
RecvPrelim(c) ==
  /\ ClientGoto(c, "recv_prelim", "recv_loop")
  /\ ReceiveGet(c)
  /\ comp_len' = [comp_len EXCEPT ![c] = Head(get_q[c]).len]
  /\ StartPhase(c, Head(get_q[c]).len)
  /\ UNCHANGED <<main_q, put_q, linked, shm, put_open, comp_buf>>

RecvReceive(c) ==
  /\ ClientGoto(c, "recv_loop", "recv_copy")
  /\ ii[c] < needed[c]
  /\ ReceiveGet(c)
  /\ comp_len' = [comp_len EXCEPT ![c] = Head(get_q[c]).len]
  /\ UNCHANGED <<main_q, put_q, linked, shm, ii, needed, to_recv, put_open, comp_buf>>

RecvCopy(c) ==
  /\ ClientGoto(c, "recv_copy", "recv_ack")
  /\ comp_buf' = [comp_buf EXCEPT ![c] =
                    FromSegments(@, comp_len[c], ii[c], to_recv[c], msg[c].ids)]
  /\ CountDown(c)
  /\ UNCHANGED <<channelVars, ii, needed, msg, put_open, comp_len>>

(* mq_send fails on a descriptor that mq_open did not give; the client     *)
(* does not look.                                                          *)
RecvAckOK(c) ==
  /\ ClientGoto(c, "recv_ack", "recv_loop")
  /\ \/ put_open[c] /\ SendAck(c)
     \/ ~ put_open[c] /\ UNCHANGED put_q
  /\ CountUp(c)
  /\ UNCHANGED <<main_q, get_q, linked, shm, needed, to_recv, msg, put_open, comp_len, comp_buf>>

FinishKeepsQueues(c) ==
  /\ ClientGoto(c, "recv_loop", "done")
  /\ ii[c] >= needed[c]
  /\ UNCHANGED <<channelVars, ii, needed, to_recv, msg, put_open, comp_len, comp_buf>>

(* sync_compress unlinks both queues and returns.                          *)
Finish(c) ==
  /\ ClientGoto(c, "recv_loop", "done")
  /\ ii[c] >= needed[c]
  /\ linked' = linked \ {c}
  /\ UNCHANGED <<main_q, get_q, put_q, shm, ii, needed, to_recv, msg, put_open,
                 comp_len, comp_buf>>

(* The process is killed: its queues stay.                                 *)
Crash(c) ==
  /\ c \in CanCrash
  /\ cpc[c] \notin {"create", "done", "crashed"}
  /\ cpc' = [cpc EXCEPT ![c] = "crashed"]
  /\ UNCHANGED <<channelVars, ii, needed, to_recv, msg, put_open, comp_len, comp_buf>>

ClientStep(c) ==
  \/ CreateQueues(c) \/ Request(c)
  \/ SendPrelim(c) \/ SendReceive(c) \/ SendCopy(c) \/ SendAckOK(c) \/ SendDone(c)
  \/ RecvPrelim(c) \/ RecvReceive(c) \/ RecvCopy(c) \/ RecvAckOK(c) \/ Finish(c)
=============================================================================
