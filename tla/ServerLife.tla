----------------------------- MODULE ServerLife -----------------------------
(***************************************************************************)
(* The service when its processes end: the server is killed, or stopped by *)
(* the command, and started again; a client is killed.  What the kernel    *)
(* keeps outlives them: the main queue (the server opens it with O_CREAT   *)
(* and removes it only in `stop'), the clients' queues, and the segments,  *)
(* which nobody removes and clients go on reading and writing.             *)
(*                                                                         *)
(* `stop' closes the main queue under the listen thread, unlinks it, frees *)
(* the codec's tables under the work thread, and kills the process; its    *)
(* threads run until then.                                                 *)
(***************************************************************************)
EXTENDS Service

CONSTANT MaxLives   \* bound: how often the server is started

ASSUME ServerLifeAssumption ==
  MaxLives \in Nat \ {0} /\ Cardinality(SegIds) >= MaxLives * SegCount

VARIABLES
  main_pc,      \* where main is: "commands", "stop", or "down" without a process
  main_linked,  \* whether MAIN_QUEUE_PATH exists
  life,         \* how often the server has been started
  cut,          \* the calls whose server went away, or was not there
  spoiled       \* the calls whose file was compressed with freed tables

mainVars == <<main_pc, main_linked, life>>

lifeVars == <<mainVars, cut, spoiled>>

allVars == <<vars, lifeVars>>

Running == main_pc # "down"

InProgress(c) == cpc[c] \notin {"create", "request", "done", "crashed"}

LifeInit ==
  /\ Init
  /\ main_pc = "commands" /\ main_linked = TRUE
  /\ life = 1
  /\ cut = {} /\ spoiled = {}

-----------------------------------------------------------------------------
(* A process that goes, by SIGKILL or at the end of `stop', takes its      *)
(* queues, buffers and grants with it.                                     *)
LoseServer ==
  /\ main_pc' = "down"
  /\ listened' = <<>> /\ client_q' = <<>> /\ task_q' = <<>>
  /\ held' = [t \in Threads |-> {}]
  /\ cur' = [t \in Threads |-> NoTask]
  /\ opened' = [t \in Threads |-> FALSE]
  /\ tpc' = [t \in Threads |-> "pop"]
  /\ cut' = cut \cup {c \in Clients : InProgress(c) /\ \A i \in DOMAIN main_q : main_q[i].client # c}
  /\ UNCHANGED <<channelVars, clientVars, segment_id, main_linked, life, spoiled>>

Kill == main_pc = "commands" /\ life < MaxLives /\ LoseServer

(* A variant of Start: the segments are those of the server before.        *)
StartOnOldSegments ==
  /\ ~ Running
  /\ main_pc' = "commands" /\ main_linked' = TRUE
  /\ life' = life + 1
  /\ UNCHANGED <<channelVars, clientVars, serverVars, cut, spoiled>>

(* main, from its beginning: setup_main_q opens the queue that is there,   *)
(* with the requests in it, or makes one; the segments are new.            *)
Start ==
  /\ ~ Running
  /\ main_pc' = "commands" /\ main_linked' = TRUE
  /\ life' = life + 1
  /\ segment_id' = FreshSegments(0 .. life * SegCount - 1)
  /\ UNCHANGED <<channelVars, clientVars, listened, client_q, task_q, held, cur, opened, tpc,
                 cut, spoiled>>

-----------------------------------------------------------------------------
(* stop: mq_close, mq_unlink and snappy_free_env, which do not wait for    *)
(* anything.  The requests in the queue are lost with its name.            *)
StopCommand ==
  /\ main_pc = "commands" /\ life < MaxLives
  /\ main_pc' = "stop"
  /\ main_linked' = FALSE
  /\ main_q' = <<>>
  /\ cut' = cut \cup {main_q[i].client : i \in DOMAIN main_q}
  /\ UNCHANGED <<get_q, put_q, linked, shm, clientVars, serverVars, life, spoiled>>

(* The end of main: SIGKILL for one thread is SIGKILL for the process.     *)
StopExit == main_pc = "stop" /\ LoseServer

-----------------------------------------------------------------------------
(* The threads of a server that runs.  After `stop' the listen thread      *)
(* receives nothing more; what it does when mq_receive fails is left out.  *)
Receive == main_pc = "commands" /\ Listen /\ UNCHANGED <<clientVars, lifeVars>>

QueueRequest == Running /\ AddClient /\ UNCHANGED <<clientVars, lifeVars>>

(* With the tables freed, snappy_compress may write anything.  The bytes   *)
(* are unknown here and the call is spoiled; the length, which may be      *)
(* wrong as well, is left as it should be.                                 *)
CompressFreed ==
  /\ main_pc = "stop"
  /\ ThreadGoto(Work, "compress", "grab")
  /\ LET task == cur[Work]
         len == CompressedLen(task.file_len)
     IN  /\ cur' = [cur EXCEPT ![Work] =
                      Started([task EXCEPT !.len = len, !.compressed_buffer = Malloc(len)])]
         /\ spoiled' = spoiled \cup {task.client}
  /\ UNCHANGED <<channelVars, clientVars, segment_id, listened, client_q, task_q, held, opened,
                 mainVars, cut>>

ServerStep(t) == Running /\ ThreadStep(t) /\ UNCHANGED <<clientVars, lifeVars>>

-----------------------------------------------------------------------------
(* A call without a queue to send its request to: mq_open and mq_send fail *)
(* and it waits all the same.                                              *)
RequestLost(c) ==
  /\ ~ main_linked
  /\ ClientGoto(c, "request", "send_prelim")
  /\ cut' = cut \cup {c}
  /\ UNCHANGED <<channelVars, ii, needed, to_recv, msg, put_open, comp_len, comp_buf, serverVars,
                 mainVars, spoiled>>

CallStep(c) ==
  /\ cpc[c] = "request" => main_linked
  /\ ClientStep(c)
  /\ UNCHANGED <<serverVars, lifeVars>>

LifeNext ==
  \/ Kill \/ Start \/ StopCommand \/ StopExit
  \/ Receive \/ QueueRequest
  \/ \E t \in Threads : ServerStep(t)
  \/ CompressFreed
  \/ \E c \in Clients : CallStep(c) \/ RequestLost(c)
  \/ \E c \in Clients : Crash(c) /\ UNCHANGED <<serverVars, lifeVars>>

(* Processes and threads are scheduled as in Service; a server that has    *)
(* begun to stop exits, and one that is down is started again.             *)
LifeSpec ==
  /\ LifeInit
  /\ [][LifeNext]_allVars
  /\ WF_allVars(Start) /\ WF_allVars(StopExit)
  /\ WF_allVars(Receive \/ QueueRequest)
  /\ \A t \in Threads : WF_allVars(ServerStep(t))
  /\ \A c \in Clients : WF_allVars(CallStep(c) \/ RequestLost(c))

-----------------------------------------------------------------------------
Disturbed == cut \cup spoiled

(* A call that returns has its own file compressed, whether the server     *)
(* died under it, under another call or between the two, and whoever has   *)
(* died in the middle of a pass.  Only a call whose file is compressed     *)
(* while `stop' frees the tables is not safe (main.c:966).                 *)
DeliveredAcrossLives ==
  \A c \in Clients \ spoiled : cpc[c] = "done" =>
    /\ comp_len[c] = CompressedLen(FileLen[c])
    /\ Prefix(comp_len[c], comp_buf[c]) = Compress(FileLen[c], File(c))

(* A call that the server has not left in the middle touches only what is  *)
(* granted for its own pass; one that has outlived its server touches no   *)
(* segment of the next, under whose calls it goes on with its copies.      *)
SegmentSafetyAcrossLives ==
  \A c \in Clients : cpc[c] \in {"send_copy", "send_ack", "recv_copy"} =>
    LET t == IF cpc[c] = "recv_copy" THEN Work ELSE ClientQ
    IN  /\ c \notin Disturbed => Awaits(t, c) /\ msg[c].ids = Ids(t)
        /\ c \in cut /\ Running =>
             \A j \in DOMAIN msg[c].ids, s \in Segs : msg[c].ids[j] # segment_id[s]

(* A call that has been made gets its whole file to a server, the request  *)
(* it left in the main queue while none was running included, and whatever *)
(* the work thread waits for; unless its server goes away with it.  Exempt *)
(* is what the code has no answer to: the thread that receives files waits *)
(* without a timeout for a client that has died (main.c:341).              *)
UploadsGoOn ==
  \A c \in Clients :
    cpc[c] = "send_prelim" ~>
      \/ cpc[c] \in {"recv_prelim", "crashed"}
      \/ c \in Disturbed
      \/ \E d \in Clients : cpc[d] = "crashed" /\ Awaits(ClientQ, d)
=============================================================================
