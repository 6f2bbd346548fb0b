------------------------------ MODULE Channels ------------------------------
(***************************************************************************)
(* What the server and the clients share: the main message queue, the two  *)
(* private queues of every call of sync_compress, and the bytes of the     *)
(* shared-memory segments; and the arithmetic by which both sides cut a    *)
(* file into segments and copy it, pass by pass.                           *)
(*                                                                         *)
(* A client of the model is one call of sync_compress.  The identifiers of *)
(* its private queues are taken to be different from those of every other  *)
(* call (generate_random_id does not ensure it), so that the queues are    *)
(* named by the client.  An ACK carries nothing the server looks at: a put *)
(* queue is the number of ACKs in it.                                      *)
(***************************************************************************)
EXTENDS Integers, Sequences, FiniteSets

CONSTANTS
  Clients,           \* the calls of sync_compress
  FileLen,           \* the length of each client's file, in bytes
  CompressedLen(_),  \* the compressed length of a file of a length (the codec's)
  SegSize,           \* mem_info.seg_size, --sms_size
  SegCount,          \* mem_info.seg_count, --n_sms
  SegIds,            \* the identifiers shmget may return
  MainMaxMsg,        \* mq_maxmsg of the main queue
  MaxMsg,            \* mq_maxmsg of the private queues
  Junk               \* a byte nobody has written

ASSUME ChannelsAssumption ==
  /\ FileLen \in [Clients -> Nat]
  /\ \A c \in Clients : CompressedLen(FileLen[c]) \in Nat \ {0}
  /\ SegIds \subseteq Nat /\ IsFiniteSet(SegIds) /\ Cardinality(SegIds) >= SegCount
  /\ SegSize \in Nat \ {0} /\ SegCount \in Nat \ {0} /\ MainMaxMsg \in Nat \ {0} /\ MaxMsg \in Nat \ {0}

VARIABLES
  main_q,   \* the requests in MAIN_QUEUE_PATH
  get_q,    \* get_q[c] = the announcements in the get queue of c
  put_q,    \* put_q[c] = the number of ACKs in the put queue of c
  linked,   \* the clients whose queue names exist
  shm       \* shm[id] = the bytes of the segment with that identifier

channelVars == <<main_q, get_q, put_q, linked, shm>>

(* The indices of mem_info.data_array.                                     *)
Segs == 0 .. SegCount - 1

(* The bytes of a client's file, each different from every other, and of   *)
(* what the codec makes of a buffer.                                       *)
File(c) == [k \in 0 .. FileLen[c] - 1 |-> <<c, k>>]

Compress(len, buf) == [k \in 0 .. CompressedLen(len) - 1 |-> <<buf, k>>]

Malloc(len) == [k \in 0 .. len - 1 |-> Junk]

-----------------------------------------------------------------------------
(* How many segments a buffer of `len' bytes takes.                        *)
SegmentsNeeded(len) ==
  len \div SegSize + IF len % SegSize # 0 THEN 1 ELSE 0

(* One pass of a copy loop: index segments have been moved before, at most *)
(* remaining are left, and those of the pass are the entries of ids.  The  *)
(* last segment of the buffer is copied to the end of the buffer only.     *)
ChunksInPassUnlimited(ids, remaining) == Len(ids)

ChunksInPass(ids, remaining) == IF Len(ids) < remaining THEN Len(ids) ELSE remaining

OffsetInPass(j, index) == (j - 1) * SegSize

Offset(j, index) == (j - 1 + index) * SegSize

ChunkLenModulo(j, len, index, remaining) ==
  IF j = remaining THEN len % SegSize ELSE SegSize

ChunkLen(j, len, index, remaining) ==
  IF j = remaining THEN len - Offset(j, index) ELSE SegSize

(* The segments after a pass that copies from buf to them.                 *)
ToSegments(buf, len, index, remaining, ids) ==
  [s \in SegIds |->
     [k \in 0 .. SegSize - 1 |->
        IF \E j \in 1 .. ChunksInPass(ids, remaining) :
             ids[j] = s /\ k < ChunkLen(j, len, index, remaining)
        THEN LET j == CHOOSE j \in 1 .. Len(ids) : ids[j] = s
             IN  buf[Offset(j, index) + k]
        ELSE shm[s][k]]]

(* buf after a pass that copies from the segments to it.                   *)
FromSegments(buf, len, index, remaining, ids) ==
  [b \in DOMAIN buf |->
     LET j == b \div SegSize - index + 1
         k == b % SegSize
     IN  IF j \in 1 .. ChunksInPass(ids, remaining)
            /\ k < ChunkLen(j, len, index, remaining)
         THEN shm[ids[j]][k] ELSE buf[b]]

(* A pass writes and reads only inside the buffer and its segments.        *)
PassInBounds(buf, len, index, remaining, ids) ==
  \A j \in 1 .. ChunksInPass(ids, remaining) :
    /\ ChunkLen(j, len, index, remaining) \in 1 .. SegSize
    /\ Offset(j, index) >= 0
    /\ Offset(j, index) + ChunkLen(j, len, index, remaining) - 1 \in DOMAIN buf

(* The announcement of prep_segment_avail_metadata_msg: a length and the   *)
(* identifiers of the segments granted.                                    *)
Announcement(len, ids) == [len |-> len, ids |-> ids]

ChannelsInit ==
  /\ main_q = <<>>
  /\ get_q = [c \in Clients |-> <<>>]
  /\ put_q = [c \in Clients |-> 0]
  /\ linked = {}
  /\ shm = [s \in SegIds |-> Malloc(SegSize)]
=============================================================================
