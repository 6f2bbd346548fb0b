# TinyFile: a verified model of the compression service

TinyFile is a compression service for the processes of one machine. A server
(`main.c`) owns a fixed number of System V shared-memory segments; client
processes call a library (`client_library.c`) that passes a file to the server
through those segments, piece by piece, and gets the compressed file back the
same way. POSIX message queues carry the control messages. This directory
models the service in TLA+, checks it with TLC on small instances, and proves
with TLAPS what holds for every number of segments, clients, files and hash
functions.

## 1. Inventory

### Components, their state and their operations

| component | source | state | operations |
|---|---|---|---|
| segment pool | `main.c` 98-176, `include.h` | `mem_info`: an `in_use` flag per segment, the counter `used_seg_count`, a mutex | `grab_segments`, `release_segments`, `psegs` |
| task queues | `task_queue.c/.h` | `client_q` (files being received) and `task_q` (files being compressed and returned): circular lists, a size, a mutex each | `add_to_list`, `remove_head`, `queue_size` |
| listen thread | `main.c` 740-821 | the request being parsed | receives a request from the main queue, appends a client task to `client_q` |
| client-queue thread | `main.c` 195-460 | the task being served, its segments | one pass of a file transfer: pop, grab, announce, wait for the ACK, copy in, re-queue or make a compression task, release |
| work thread | `main.c` 463-736 | the task being served, its segments | pop, compress (first pass), grab, copy out, announce, wait for the ACK, re-queue or finish, release |
| command loop | `main.c` 824-969 | - | start-up, `psegs`, `stop` |
| client library | `client_library.c` | two private queues per call, loop counters, the result buffer | `sync_compress`: make the queues, send the request, `send_data_to_server`, `receive_compressed_data`, unlink the queues |
| message formats | `main.c` 178-193, 765-784, `client_library.c` 88, 105-174 | - | printing and parsing requests and announcements |
| queue identifiers | `client_library.c` 44-80 | - | `generate_random_id` from the clock |
| sample client | `client.c` | - | calls the library, directly or in a thread it joins at once |
| codec | `snappy.c` | hash table of the environment | compress, decompress |
| codec tools | `bench.c`, `scmd.c`, `verify.c`, `sgverify.c`, `fuzzer.c`, `map.c`, `util.c`, `glue.c` | - | command-line tools around the codec |
| prototypes | `qclient.c`, `recieve.c`, `my_process.c` | - | early experiments, not part of the service |

### How they interact

    client --request--> main queue --> listen thread --> client_q
      ^  |                                                 |  ^ (more passes)
      |  +-- put queue: ACKs --------+                     v  |
      |                              +-------> client-queue thread --> task_q
      +----- get queue: announcements -------- work thread <---------------+
    client <==== shared-memory segments ====> client-queue thread, work thread

Everything the server's threads share is one of three objects with a mutex of
its own: `client_q`, `task_q` and `mem_info`. Clients share the main queue with
each other and have two private queues each. Segments are accessed by a client
and one server thread in turn; only the messages order the accesses.

### Hard behaviours

* A segment belongs, between two lock regions, to a thread that has no lock:
  the flag, the counter, the array of pointers and the announcement must agree.
* A file larger than a grant is moved in several passes; client and server each
  count segments on their own (`ii`, `segment_index`) and never compare notes.
* The server waits for an ACK that carries no information and may come from
  nobody: the client may be dead, or may not know a message was meant for it.
* The lists are changed by moving payloads between nodes.
* Every loop that waits (for tasks, for segments) is a busy wait on a mutex.
* Main queue, private queues and segments are objects of the kernel: they
  outlive the processes, and a new server meets what an old one left.
* The names of the private queues come from the second of the clock, and a
  queue that exists already is opened, not refused.
* The codec looks only at a hash table of positions that is never cleaned, and
  both directions write and read ahead of what they need, by fixed amounts.

### What makes each component correct

| component | properties |
|---|---|
| segment pool | no segment belongs to two transfers; the counter is the number of flags set; a grant fills what it announces; a request for segments returns |
| task queues | a FIFO queue; the list is a ring of live nodes; no thread holds a listed node; no node is lost but those the code never frees |
| transfer protocol (listen, client-queue and work threads, client library) | each call returns what the codec makes of its own file; segments are touched under a grant only; both sides agree on the position in the file; a call is in one place of the server; queues exist when they are opened; every call returns and the server rests; (not the case) for every file and every codec |
| queue identifiers | a call's identifiers come from different seeds; no name is left behind; (not the case) calls share no queue |
| codec | compressing and decompressing gives back the file, in one piece or many; items fit their encoding, results the promised bound; no copy writes outside its buffer; a damaged result is refused |
| locks of the server | no thread has two of the three mutexes; every request is served though threads poll and spin |
| start, `stop`, death | what a call returns is its own file's, whatever dies; a call orphaned by its server leaves the next one's segments alone; requests left in the main queue are served |
| message formats | parsing gives back what was printed; (not the case) with any number of segments a message fits its limit, and a grant the client's array |
| command loop | `psegs` prints a snapshot |

## 2. Plan

The protocol by which a file crosses the segments is the heart of the system.
It rests on the pool and the lists, so these come first, as details of the
abstract specifications that the protocol uses.

| | modules | abstract specification | state |
|---|---|---|---|
| 1 | `SegmentPool`, `SegmentPoolProofs` | `SegmentAllocator` | checked and proved |
| 2 | `TaskQueue`, `TaskQueueProofs` | `FifoQueue` | checked and proved |
| 3 | `Channels`, `ClientLibrary`, `Server`, composed by `Service`; `ServiceProofs` | `CompressionService` | checked and proved |
| 4 | `QueueIds`, `QueueIdsProofs` | - | checked and proved |
| 5 | `ServerLocks`, `ServerLocksProofs`: the three mutexes and the loops that poll them | `SegmentPool` | checked and proved |
| 6 | `Messages`: the texts of requests and announcements | - | checked |
| 7 | `ServerLife`: `Service` with kills, `stop` and restarts | - | checked |
| 8 | `SnappyFragment`, `SnappyProofs`: the compressor | the file is what the items stand for | checked and proved |
| 9 | `SnappyCodec`, `SnappyProofs`, `RoundTripProofs`: blocks, bytes and the decoder | the file comes back | checked and proved |

`OrderLemmas` has facts about sets of numbers, and induction, for all of the
proofs but that of `QueueIds`.
What is left are the two invariants of `ServerLife`, from that of `Service` with
a part for the calls of earlier servers, and `Understood` of `Messages`.

## 3. The modules

    SegmentPool  --implements-->  SegmentAllocator  <--INSTANCE--  Server
    ServerLocks = SegmentPool + the locks of the lists  --implements-->  SegmentPool
    TaskQueue    --implements-->  FifoQueue          (Server's queues: sequences)
    Service = ClientLibrary + Server over Channels  --implements-->  CompressionService
    ServerLife = Service + kill, stop, start
    Messages = QueueIds + texts: what of Channels' assumptions on queue names
               and on messages the code provides
    SnappyCodec = blocks + SnappyFragment + decoder: the codec that Channels
               takes as a function

Several modules hold definitions introduced as "a variant of the next
definition", or with a name that tells what is wrong with them. They are
plausible mistakes, used by no specification; `PROJECT.json` pairs each with the
property that it breaks.

### SegmentAllocator, SegmentPool

`SegmentAllocator` is what the two threads of the server rely on: a grant takes
half of the free segments, at least one, all free; a release gives back all of
the holder's. `SegmentPool` is the code: `in_use`, `used_seg_count` and
`mem_lock` are `mem_info`; `pc`, `i`, `amount` and `avail` are a thread's
position, loop index, `amount_to_grab` (returned as `available_segment_count`)
and `available_segments`.

| action | code (`main.c`) |
|---|---|
| `NeedSegments`, `LockGrab` | a task was popped; lock, 223-227, 576 |
| `AwaitFree`: `Yield`, `Relock`, and `StartScan` out of it | the `while` of `grab_segments` |
| `Snatch`, `Skip`, `EndScan` | the scan of the flags, an iteration an action; the count |
| `UnlockGrab`, `EndTransfer` | unlock; the exchange with the client ends |
| `LockRelease`, `Clear`, `EndClear`, `UnlockRelease` | `release_segments` under the lock |
| `LockPsegs`, `PrintSegment`, `UnlockPsegs` | the command `psegs` |

The array `available_segments` is filled in increasing segment order, so a set
stands for it; its i-th entry is the element with i smaller ones.

### ServerLocks

The loops of the server's threads around the pool. A list is its number of
tasks, `list_lock` and `mem_lock` are the three mutexes, `at` says where a
thread is in its loop while `pc` says where it is in the pool.

| action | code (`main.c`) |
|---|---|
| `StartWork` | the two looks at the sizes before the work thread's loop, 463-476 |
| `Receive`, `LockToAdd`, `AddAndUnlock` | `listen_thread`, and both loops where they put a task on a list |
| `PollList`, `FoundEmpty`, `RemoveHead` | lock, look, and `continue` or take the head |
| `EndPass` | after the exchange: back to the list, on to `task_q`, or finished |
| `PoolStep` | a step of `SegmentPool`, between `remove_head` and the next poll |

`notes.txt` asks that no thread hold two locks. `OneLock` says so, with the
unlock and relock inside of `grab_segments`; `AllServed` says that the polling
starves nobody, under mutexes that are not unfair for ever.

### FifoQueue, TaskQueue

`TaskQueue` is the list of `task_queue.c` on a heap: `data` and `next` of every
node, the allocated nodes, and the nodes a thread of `main.c` holds between
`malloc` or `remove_head` and `add_to_list`. One action is one call, since both
run under the list's lock; each of the five cases is a definition. `NewTask`
and `Forget` are what the threads do: make a node for a new task, and forget
the node of a finished one. The client's task and the compression task have
lists of their own with the same code; `Tasks` is either. A node comes into a
thread's hands from `malloc`, and is then added, or from `remove_head`
(`taken`), and is then added again or forgotten. `Walk`, what
following `next` from the head comes by, is what the abstract queue is.

### Channels, ClientLibrary, Server, Service

A client of the model is one call of `sync_compress`. `Channels` holds what the
two sides share, the queues and the segments, and the arithmetic of the four
copy loops. A segment has an identifier of `SegIds` that `shmget` gave and
that messages carry, so that those of two servers can be told apart; the main
queue and the private queues have their own `mq_maxmsg`. A grant's identifiers
are announced in the order of its segments (`InOrder`, said by what it is: a
sequence of that length, increasing in the segment). `Channels!ToSegments` and
`FromSegments` are whole passes of the loops over bytes. A file's bytes are pairs of a client and a position, all
different, so that any mix-up of bytes, passes, segments or clients shows. The
codec is an injective function of the buffer with a length of its own
(`CompressedLen`); `SnappyCodec` looks inside it.

| client (`cpc`) | code (`client_library.c`) |
|---|---|
| `create`, `request` | the queues (53-82), the request on the main queue |
| `send_prelim`, `send_loop`, `send_copy`, `send_ack` | `send_data_to_server`: the preliminary message, the announcement of a pass, `memcpy`, the ACK |
| `recv_prelim`, `recv_loop`, `recv_copy`, `recv_ack` | `receive_compressed_data`: the same, with the descriptor opened from `putQPath` |
| `done`, `crashed` | the queues are unlinked; the process was killed |

| server (`tpc`, `listened`) | code (`main.c`) |
|---|---|
| `ListenStep` | `listen_thread`: receive; append to `client_q` |
| `pop` | take a task from the queue under its lock |
| `compress` | the first pass of a compression task calls snappy |
| `grab`, `open` | a grant (`SegmentAllocator`), `mq_open` of the client's two queues |
| `prelim`, `announce`, `copy`, `ack` | the messages of a pass, the copy loop, `mq_receive` of the ACK |
| `finish` | back to the queue if segments remain; otherwise make a compression task, or free the task |
| `release` | the segments are given back, only now |

A step is one system call, lock region or copy loop, so every order of those of
different processes and threads is explored. `mq_send` and `mq_receive` block
on a full or empty queue; `mq_open` fails when the name is unlinked, the code
does not look, and the next call on the descriptor fails. `CompressionService`
is what a caller of the library sees: a call is made, its file is taken in
whole (`accepted`: the compression task is queued), and it returns the codec's
output of that file; calls do not affect each other; a caller may be killed.

`putQPath` in `receive_compressed_data` is never written: the call of `sprintf`
in its twin function is a `db_print` here, compiled to nothing. What `mq_open`
gets is undefined, so `StalePath` says what it may be. In builds where the two
functions' frames agree, the path that `send_data_to_server` left on the stack
is still there and the ACK arrives: `{TRUE}`. `{TRUE, FALSE}` is the choice between that and a failed
`mq_open`. In the second case the client of a result of one pass returns and the
work thread waits for its ACK for ever: `service_life` shows that uploads go
on and that what this thread holds stays untouched.

### ServerLife

`Service`, in a world where processes end. What the kernel keeps (the main
queue, the calls' queues, the bytes of segments) stays, what a process has
(lists, tasks, grants, descriptors) goes.

| action | code |
|---|---|
| `Kill` | the server dies at any step |
| `Start` | `main` 843-927: `mq_open` of the main queue, which finds it with its requests or makes it; new segments, as nothing removes the old |
| `StopCommand`, `StopExit` | `stop`, 941-969: `mq_close`, `mq_unlink` and `snappy_free_env`, then the end of the process; the threads run in between |
| `Receive`, `QueueRequest`, `ServerStep` | the steps of `Service` while there is a process |
| `CompressFreed` | `snappy_compress` after `snappy_free_env`: its output may be anything (`spoiled`) |
| `RequestLost` | a call that finds no main queue, and does not look: it waits for ever |
| `CallStep`, `Crash` | the steps of a call, and its death |

`cut` and `spoiled` are history variables: the calls whose server went away
under them, and those compressed with freed tables. `MaxLives` bounds the
number of starts.

### QueueIds

The identifiers of a call's queues are the first number of a generator seeded
with `time(0)`, and with `time(0) + 5` a while later. Of the generator
(`RandomId`) only its range is assumed, seven digits; it may make one number of
two seeds, and then a call's announcements and ACKs share a queue. The model has a clock,
the two looks at it as separate steps (any time may pass between), creation,
the transfer, and the two `mq_unlink`. `Channels` assumes what this module
shows the code not to provide: that queues differ. No call is killed here; one
that is leaves its names behind, as `ServerLife` has it.

### Messages

`QueueIds` with the texts. A text is a sequence of digits, separators and the
final zero; `Decimal` and `Value` stand for `sprintf` and `atoi`. A request is
two identifiers without a separator, the length and a colon: `ParseRequest`
takes seven digits, seven digits, and the rest. An announcement is a row of
numbers: `ParseAnnouncement` counts commas. `SendRequest` and `Announce` refuse
a text that is longer than its queue's messages, as `mq_send` does, which
nothing in the code notices; an announcement is read when it is sent, since its
order among others is `Service`'s subject. `Grants` is what the server may
grant, which depends on the number of segments it was started with and on
nothing else. The text of an ACK is left out, as nobody looks at it.

### SnappyFragment, SnappyCodec

`SnappyFragment` is `compress_fragment`, an action per iteration of its two
loops: the scan with growing steps, and the copying of matches with the two
table entries behind each. The output is the sequence of literals and copies;
`DecodeItem` says what an item stands for, and `Decoded` what all of them do. The hash function, the rate at which the scan
speeds up and the margin (at least the code's 15) are parameters.
`FragmentSpec` is one call after another, each of any bytes: what `SnappyCodec`
does with the blocks of a file.

`SnappyCodec` puts it between the file and the result. A `Source` is an iovec
with a place in it, read by `Peek` and `Skip` as in the code.

| action | code (`snappy.c`) |
|---|---|
| `NextBlock` | a block of the file, in place or stitched together in scratch, 1314-1353; the table is zeroed |
| `CompressFragment`, `AppendBlock`, `Stored` | the block's items as bytes, appended to the sink |
| `Uncompress` | the result given to the decoder, in one piece or many, with bytes missing or too many; the length is read, 1087-1112 |
| `LiteralTag`, `LiteralPiece`, `LiteralEnd` | a literal: sixteen bytes at once, or as many pieces as it lies in |
| `CopyTag` | a copy: two words of eight, the loop of overlapping words (`CopyOverlapping`), or byte by byte |
| `EndOfInput` | no tag follows, or not all of one |

Each tag is preceded by `Refilled`, the code's `refill_tag`: the window `buf` is
a piece of the source, or the few bytes of a tag that straddles pieces. The
memory `mem` grows with what is written, ahead of `op` too, and a byte nobody
wrote is `Unwritten`, so that a copy which reads one shows in the file. What
bytes an item is, and a length, is what `EncodeItem` and `Varint` say;
`VarintValue`, `TagLength`, `TagOffset` and `LittleEndianValue` read them.

## 4. The runs

| run | instance | shows | why the bounds are enough |
|---|---|---|---|
| `pool` | 5 segments | `CountAccurate`, `ExclusiveOwnership`, `GrantedInUse`, `NeverExhausted`, `PsegsSnapshot`, `GrabReturns`, refinement of the allocator | grants of 2 and 1 next to each other, odd halves; the safety part is proved for every number |
| `locks` | 1 segment, 3 requests, 2 passes that are not the last | `OneLock`, `GrantFilled`, `AllServed` | one segment is the only number for which a thread goes round the `while` of `grab_segments` (`NeverExhausted`, proved); three requests put one task in each place of the server; the safety part is proved for every number |
| `task_queue` | 5 nodes, 2 payloads | a ring of live nodes, none of them held; a FIFO queue; which nodes are lost (`LosesOnly`) | lists of up to 4 nodes: every case of both operations, in every order, with freed and reused nodes; proved for every heap |
| `service` | 2 calls, files of 5 and 3 bytes, segments of 2, 4 segments, a main queue of 1 message | all properties of the protocol | see below |
| `service_life` | 2 calls, files of 2 and 1 bytes, segments of 1, 2 per server, 2 lives | `DeliveredAcrossLives`, `SegmentSafetyAcrossLives`, `UploadsGoOn` | see below |
| `service_empty_file`, `service_expands` | as `service`, with an empty file; a codec that expands | two disagreements, below | - |
| `messages` | 2 calls, 6 seconds, the shortest and longest numbers, grants of 2, 91 and 100 segments | `SeedsApart`, `NoneLeft`, `Understood`: what is sent is read as it was meant | seeds that are equal and seeds 5 apart, and a generator that makes one number of two seeds; 91 identifiers of ten digits are the most that fit in a message, 100 are what the client has room for, and are refused |
| `messages_many_segments` | a server with 300 segments, a file of 100 bytes | `MessagesFit` is violated | - |
| `queue_ids_shared` | 3 calls | `Private` is violated | - |
| `snappy` | a thousand files of one to three blocks of up to 144 bytes, pieces of 1 to 1000 bytes, a hash of 2 bits | the file comes back; sizes, margins and writes ahead | see below |
| `snappy_sink` | as `snappy`, the sink in pieces of 16 bytes | `RoundTrip` is violated | - |

`service`. A file of 5 bytes in segments of 2 has a last, partial segment and,
with grants of 2 and 1, two or three passes, the last of which may be granted
more than it needs; the file of 3 bytes takes one pass or two. The compressed
files of 4 and 3 bytes end on a full and on a partial segment. The main queue
holds one message, so that a call blocks on it; ten per private queue is the
code's number, of which `NeverBlocksOnSend` shows that two are used. Two calls
and two threads are what it takes for passes of the two directions to
interleave. All but `EveryoneServed` and `ServerRests` is proved for every
instance.

`service_life`. A kill or a `stop` comes at every step of either call, and may
meet both, one or none of them with the server; each grant is one segment, so
one call takes two passes to send its file and the other one, and a call may
itself be killed at every step; the ACK of a result may go astray. Two lives
suffice for an orphan of one server to be at work beside the next.

`snappy`. The hash function makes everything collide with everything, so that
the comparison of four bytes is what decides. The files of one block hold
fragments below the margin; words that come back, followed by tails of the
margin's length; random-looking ones; repetitions whose matches need one, two
and three copies, with remainders of one to five bytes; bytes that are all
different, scanned to the limit; repetitions at every distance up to nine, with
tails around the limits of the decoder's three ways to copy. Files of two and
three blocks lie in pieces that end inside of blocks, with empty pieces among
them. The decoder gets each result in pieces of 2, 3, 7 and 1000 bytes, with
its end missing or with bytes behind it. The scan's steps grow after 2 bytes
instead of 32, so that they grow at all, and a block has 144 bytes instead of
64 KB: offsets of more than 2048 and literals with lengths of two bytes stay
out of its reach. All six properties are proved, without these bounds, under the
assumptions named in section 5; `CallersCare` in `MCSnappyCodec` has TLC confirm
that the hand-overs of this run meet the one on hand-overs.

TLC looks for deadlocks in `pool`, `locks` and `service`: there a state without
a step would be a system that hangs. `Poll` in `Service` is the busy wait of
threads that have nothing to do once all calls are over, and is possible only
then. The other runs stop where their system may: the heap of `task_queue` runs
out by the nodes the code never frees; calls and threads of `service_life`,
`service_empty_file` and `service_expands` wait for ever for messages that do not come; `Messages`,
`QueueIds` and `SnappyCodec` come to an end.

### Fairness

* Pool. A thread inside its lock region goes on (weak fairness); a thread that
  waits for the mutex gets it if it is free again and again (strong fairness:
  a Linux mutex is not a queue, but its waiters are woken at every release).
  No fairness for a new request, for the client's answer, or for `psegs`.
* Locks. Each thread runs (weak fairness), and one that waits for a mutex which
  is released again and again gets it (strong fairness, as for the pool). That
  a client answers (`EndPass`) is part of its thread's fairness. None for `psegs`.
* Service. Weak fairness for each client process and each server thread: the
  scheduler runs every one that can go on. None for being killed. Here a grant
  is one step, which `pool` shows to be reached for two or more segments.
* Life. As in `Service`; a server that has begun to stop exits, and one that is
  down is started again. None for `Kill`, `StopCommand` and `Crash`, and none
  for a server thread that has no process.
* The other modules have safety properties only.

### What the runs found

1. `MessagesFit`. `grab_segments` grants half of the free segments, however
   short the file is ("but only enough for the file", `main.c:216`) and whatever
   `MAX_SEGMENTS_IN_PASS` says, which the server never looks at. A server started
   with `--n_sms 300` announces 150 segments to a file of a hundred bytes; the
   text is longer than 1024 characters, `mq_send` refuses it, nobody looks, and
   client and client-queue thread wait for each other for ever. The run `messages`
   has the limit: 91 identifiers of ten digits fit, beside lengths of four and
   seven; the one to five segments of the documentation are far from it.
2. `EveryoneServed` with an empty file ("ok to send zero as file len?",
   `main.c:247`). The server announces a pass, the client needs none and takes
   the announcement for the preliminary message of the result; it returns, and
   the client-queue thread waits for an ACK for ever.
3. `ClientCopiesInBounds` with a codec that expands. The result's buffer is
   `malloc(file_len)`. snappy makes 1 byte of none, 3 of one, and n + 2 of n
   bytes, up to 60, that hold nothing to copy.
4. `Private`: two calls in one second have the same two queues, and calls five
   seconds apart have one in common, the announcements of one being the ACKs
   of the other.
5. `RoundTrip` for a scattered sink. `snappy_compress_iov` sets how many pieces
   it filled but not the length of the last, and the decoder's source never
   looks at the length it is given: it reads on behind the result and reports an
   error. `sgverify.c:174` calls it so. The service gives the codec one piece.

## 5. Proofs

`SegmentPoolProofs`, for every number of segments. The properties are not
inductive: that the scan fills its grant depends on how many free segments lie
ahead of the index, which depends on the counter agreeing with the flags, which
it does not in the middle of a scan or of a release. The inductive invariant
`IInv` says what holds there:

* `LockInv`: a thread in a lock region owns the mutex, so one thread at a time
  is inside; everything below has to hold only between its steps.
* `FlagsInv`: the flags set are those of the two arrays, less what a release
  has already cleared; with `ExclusiveOwnership` their number is a sum.
* `CountInv`: the counter is the sum of the grants counted so far; with
  `FlagsInv`, `CountAccurate` follows (lemma `CountExact`).
* `ScanInv`, `PrefixInv`: the free segments from the index on suffice for what
  is left to grab, and those grabbed are below the index; hence `GrantFilled`
  when the scan ends, by its break or at the last segment.
* `BoundInv`: no thread asks for more than a grant of the empty pool gives: `NeverExhausted`, and the counter stays in its range.
* `EmptyInv`: an array is empty outside of a grant.

Lemma `NextIInv` has a step for each action. `PoolImplementsAllocator` maps a
grant to the end of the scan and a release to the end of the clearing: those two
actions are steps of the allocator (`EndScanGrabs`, `EndClearReleases`), all
others leave what is held alone. The assumptions are `DistinctThreads` and
`SegCountAssumption`.

`ServerLocksProofs`, for every number of segments, requests and passes.
`LocksImplementPool` shows that every step of the server is a step of the pool
or leaves it alone, so that all of `SegmentPoolProofs` holds in it;
`LocksGrantsFilled` is an instance. `OneLock` is not inductive, as it says
nothing of where threads are. The invariant `LocksInv` adds `ListLockInv` (the
owner of a list's lock is at one of the places inside of it, and owns no other
list's) and `PlaceInv` (a thread inside `grab_segments` or `release_segments`
is at neither). With the pool's `LockInv` no thread has `mem_info` and a list.
The assumptions are those of the pool and `ServerLocksAssumption`, that the
listen thread is neither of the others.

`QueueIdsProofs`, for any number of calls and any length of the clock.
`IInv` is `TypeOK`, `SeedInv` (between the two looks the first identifier is
that of a second not later than now), `SeedsApart` (the second look's seed is
at least five greater) and `NoneLeft`, which holds also where two calls, or the
two queues of one, have the same name. That the identifiers of a call differ is
not claimed: `RandomIdAssumption` says of the generator only that its numbers
have seven digits. A clock that is set back is outside of the model.

`TaskQueueProofs`, for every finite heap and all payloads. `WellFormed` says
that `Walk` has no node twice, that its nodes are live and in no thread's hands,
and that the last leads back to the head. A step's effect on what `Walk` comes
by cannot be read off its definition, which is recursive; `Ring(s)` says instead
of any sequence `s` of nodes that the pointers make a ring of it, and `WalkOf`
that `Walk` is then `s`: in the first place where the two differed, the places
before would agree, and so would the pointers. Each of the five cases of
`add_to_list` and `remove_head` has a lemma that shows which ring it makes of a
ring; the inductive invariant is `Types` and `Ring(Walk)`. `ListIsFifo` follows,
as the payloads along the new ring are those that `FifoQueue` asks for. So does
`ListLosesOnly`: the ring before and after a step is known node by node, and
with it what is in nobody's reach (`AddLosesNone`, `RemoveLosesSecond`). The
assumption is `NodesAssumption`, that memory is finite.

`ServiceProofs`, for every set of clients, number and size of segments, and
every non-empty file, with clients killed at any step and with or without the
stale path. No property of `Service` is inductive alone: that a client
copies under a grant only depends on what was announced to it; that it is the
announcement of the grant in force depends on where the thread is that made it,
and on there being no other message in the queue. `IInv` has

* `Homes`: a call is in at most one of six places, the main queue, the listen
  thread, the two lists and the hands of the two threads. Tasks move, clients
  do not know where theirs is, so everything else is said per place.
* `Consistent(c)`: the client of a call in that place is at one of the steps
  that the tables `UploadAt` and `DownloadAt` list, with so many announcements
  and ACKs in its queues, and a count of segments that is the task's or a pass
  further. A client in no place of the server has empty queues and is before
  its request or at its end. Every step of a client or thread goes from one line
  of a table to another.
* `Tasks`, `Threading`, `Types`: what the fields of a task are at each place,
  and that a thread holds a grant exactly between `grab` and the release.

`ServiceSegmentSafety`, `ServiceAgreeOnPosition`, `ServiceNeverBlocks`,
`ServiceOpensSucceed`, `ServiceOneHome` and `ServiceTypeOK` follow from it. The
lines with two announcements are why `NeverBlocksOnSend` holds with room to
spare: only the first pass of a direction can find the message before it unread.

The second half of `ServiceProofs`, under the same conditions. `DInv` adds the bytes to `IInv`:
the buffers of clients and tasks hold the right bytes up to where the tables say
their owner is (`ClientBuffer`, `UploadBuffer`, `DownloadBuffers`), and the
segments of a pass, from the copy into them to the copy out of them, hold what
the position in the file asks for (`LoadedIn`, `LoadedOut`): nobody else writes
there, since grants are disjoint and identifiers differ (`Apart`). The
arithmetic of the copy loops, which of them writes which byte, is in lemmas
about `ToSegments` and `FromSegments`. From `DInv` follow
`ServiceWholeFileCompressed`, `ServiceDelivered` and `ServiceCopiesInBounds`,
and, step by step, `ServiceRefines`: the request is `Call` of
`CompressionService`, the step of the client-queue thread that makes a
compression task of a complete file is `Accept`, the client's step out of its
receiving loop is `Return`, a kill is `Abandon`, and no other step shows.

All of it assumes `FilesNotEmpty`, and the last three theorems `NoExpansion`,
that the codec does not make a file longer. Neither is a convenience: the runs
`service_empty_file` and `service_expands` show what the code does without
them. The other assumptions are those of `Channels` and `Server`; `SegIds` is
finite, as the kernel's identifiers are.

`SnappyProofs`, for every fragment of every set of bytes, every table
size and every hash function into the table (`HashInRange`; `hash_bytes` shifts
its product down to the table's bits). `DecodesToInput` is not inductive: the
next copy decodes to what follows only if its candidate is behind `ip` and the
bytes there are the same, and the candidate comes from the table. `IInv` says so
of the pointers and the table at each of the loops (`Scanning`, `Copying`).
What the items stand for is `StandsFor`, that there are decoder's steps which
end with those bytes; `OneMoreItem` and `MoreCopies` extend them, and
`DecodedIs` shows that they are what the recursive `Decoded` has. `Pattern` is
the heart of it: where a match overlaps its source, repeating the bytes before
it over and over gives the bytes that follow. `EmitCopyCuts` shows that
`emit_copy` cuts every match of four bytes or more into copies of 4 to 64 bytes
that add up to it, which is the first part of `WithinLimits`. The invariant is
that of `FragmentSpec`; `CodecRunsFragments` shows that `SnappyCodec` implements
it, since all that `compress` hands on is bytes, in one piece or stitched
together (`GatherType`).

The rest of `SnappyProofs` is about `SnappyCodec`. `CompressorInv` and
`DecoderInv` say what its variables are on the two sides; the latter's
`Written`, that memory has been written as far as `op` and within the file's
length, is `WritesInBounds`: before each of the fast copies the code asks for
the space that it may write ahead (`CopyOverlappingIs`,
`LiteralTagDecoder`). `StreamInv` says where `compress` is in the source: at a
piece and an offset in it that the number of bytes left determines, so that a
block is the next part of the file however the source is cut. `SizeInv` is the
estimate behind `snappy_max_compressed_length`: six times the bytes of a copy,
and ten more, are at most seven times what it stands for, and the ten pay for
the literal before it; a block of five bytes or less is a literal, and only the
last one of a file is that short. `CompressedSizeBounded` adds the bytes that a
short literal writes ahead.

`RoundTripProofs`, for every file in any pieces, every hash function into the
table and every way the result is cut into pieces for the decoder. The
invariant of `RoundTrips` is all of the above with

* `CodedInv`: what is in the sink is the length, and the code of items that make
  the file so far;
* `DecodesRight`: the memory has the file up to `op` (`Right`), and the decoder
  is at the place where the code of some item begins (`BetweenItems`), or in a
  literal, as many bytes before its end as it owes (`WithinItem`), or in
  something that looks like a literal behind the last item (`Beyond`), which
  there is no space for.

`WindowOf` ties that place to `reader`, `peeked` and `buf`: the window is a part
of what was handed over, which the source is at the beginning of, or past by
`peeked`. `RefilledWindow` shows that `refill_tag` keeps the place and leaves a
whole tag in the window, or the bytes end in it. Then the tag is that of the
item (`LiteralRead`, `CopyRead`), and what either kind of copy puts in the memory
is the next part of the file: a pattern which repeats itself, also when rounds
of eight bytes write over what the last wrote ahead (`RepeatRight`,
`TwiceEight`). That the length comes back, from one to five bytes which may lie
in five pieces, is `LengthIsRead`.

`RoundTrips` assumes `SinkPiece = 1`, that what the decoder is given is the
result and not the pieces `snappy_compress_iov` filled, where the code is wrong
(finding `snappy_sink`); and `HandedOver`: no bytes are missing inside a result
that has others behind it, and those behind do not begin with a literal of 2^32
bytes. The decoder takes the length of such a literal for zero, and so takes a
file for whole which it is not the end of; `verify.c` and the fuzzer hand over
neither. The assumptions are `HashInRange` and those of the two modules, of
which `INT_MAX` is the type of a file's length in the code.

Induction over numbers is done through the least number for which a claim fails
(`Least`, from the well-foundedness of `<`): `StepsStay` is induction along a
function, `IterationExists` the existence of a function that is defined by
recursion, as `Walk`, `Decoded` and `Gather` are.

Checked by TLC only:

* Liveness (`EveryoneServed`, `ServerRests`, `GrabReturns`, `AllServed`,
  `UploadsGoOn`): fairness is defined by `ENABLED`, which is beyond the prover.
* `Understood` of `Messages`, which rests on what numbers look like in base 10.
* `DeliveredAcrossLives` and `SegmentSafetyAcrossLives`, whose invariant would
  have to say of an orphaned call what `IInv` says of one with a task, for the
  messages and segments of a server that is gone.

## 6. What is not modelled

* The listen thread after `stop` has closed the main queue. It does not return
  when `mq_receive` fails (`main.c:755`): it makes a task of what its buffer
  holds, the last request, again and again, in the few instructions until the
  process is gone. A call with two tasks in the server acknowledges one for the
  other; then segments are granted to another call while it still writes them,
  which reads its bytes for its own. The states of such servers are too many
  to be checked beside restarts, so `Receive` stops with the queue.
* A step of the model stands for two system calls in a row where no property can
  tell: the two `mq_open` of `OpenQueues` and of `CreateQueues`, the two
  `mq_unlink` of `Finish` (`QueueIds` has creation and unlinking one by one).
* What `snappy_compress` makes with the tables that `stop` has freed
  (`CompressFreed`) is unknown, but has the length it should have; the call is
  `spoiled`, so nothing is claimed of its result.
* `UploadsGoOn` exempts the uploads behind a client that died between an
  announcement and its ACK: the thread that receives files waits for it without
  a timeout (`main.c:341`), and no property says otherwise.
* The codec's sink is a sequence of bytes that is cut into pieces at the end:
  `append` walking over pieces (`snappy.c:275-293`) and compressing into scratch
  where a piece has too little room (1357-1365) are left out.
* A failing `shmat`, after which the thread loops on purpose, is a thread whose
  client never answers: `GrabReturns` covers the other one. A failing `malloc`
  or `mq_open` with `O_CREAT`, which the code does not handle.
* Widths of 2^31 and more: `offset` (`main.c:366`) and the length of a file in
  the codec are `int`; no instance that TLC checks has such files.
* `strtoul` storing through a pointer that was never set (`main.c:784`,
  `client_library.c:145`): what it writes over is no state of the program's.
* A server killed while it holds a mutex: the mutexes are the process's own and
  go with it.
* The sample client (`client.c`). Each process reads a file and makes one call,
  in a thread it joins at once; its hazards are undefined behaviour before the
  call (a file's name is copied without its terminator).
* `send_original_file` (no caller), `async_compress` (declared only),
  `print_list` (no caller), `get_object_q` (does nothing), `DO_COMPRESSION 0`,
  the command `work` (does nothing with `DEBUG_WORK_MODE 0`).
* The big-endian and the linear builds of the codec, its allocation functions,
  the tools around it, and the prototypes: sequential programs of file and
  terminal I/O with no state of their own.
