------------------------------ MODULE Messages ------------------------------
(***************************************************************************)
(* The texts of the service's messages: the request a call puts in the     *)
(* main queue, and the announcements of granted segments.  Each is written *)
(* by sprintf on one side and taken apart by hand on the other, a request  *)
(* by the width of its identifiers, an announcement by its commas.         *)
(* Service passes records; this module says that the texts carry them.     *)
(*                                                                         *)
(* A text is a sequence of digits and separators.  Who waits for what is   *)
(* Service's: here an announcement is read when it is sent, by a call      *)
(* whose get queue it was sent to.  What an ACK says is never looked at    *)
(* where it is expected; that calls who share a queue may take one for an  *)
(* announcement is a matter of sharing (Private), not of the texts.        *)
(***************************************************************************)
EXTENDS QueueIds, Sequences

CONSTANTS
  FileLens,        \* lengths of files, before and after compression
  SegSize,
  Grants           \* what grab_segments grants: the ids of up to half of the segments
                   \* the server was started with, however small the file

QUEUE_ID_LEN == 7

MAX_SEGMENTS_IN_PASS == 100

MainMsgSize == 50

MAX_MESSAGE_LEN_ATTR == 1024

ASSUME MessagesAssumption ==
  /\ FileLens \subseteq Nat /\ SegSize \in Nat \ {0} /\ Grants # {}

VARIABLES
  asked,    \* the requests sent: what each call means
  main_q,   \* their texts, not yet received
  client_q, \* what the listen thread has made of them
  got,      \* the announcements each call has read, beside what the server meant
  refused   \* how many messages mq_send has refused

messageVars == <<asked, main_q, client_q, got, refused>>

allVars == <<vars, messageVars>>

Comma == 10

Colon == 11

Nul == 12

(* %d and %lu, and atoi and strtoul.                                       *)
Decimal(n) ==
  LET width == CHOOSE k \in 1 .. 10 : n \div 10 ^ (k - 1) \in IF k = 1 THEN 0 .. 9 ELSE 1 .. 9
  IN  [i \in 1 .. width |-> (n \div 10 ^ (width - i)) % 10]

Value(text) ==
  LET upTo[i \in 0 .. Len(text)] == IF i = 0 THEN 0 ELSE 10 * upTo[i - 1] + text[i]
  IN  upTo[Len(text)]

RequestText(get, put, len) ==
  Decimal(get) \o Decimal(put) \o Decimal(len) \o <<Colon, Nul>>

(* listen_thread: two identifiers by their width, then up to the colon.    *)
ParseRequest(text) ==
  LET end == CHOOSE i \in 2 * QUEUE_ID_LEN + 1 .. Len(text) :
               text[i] = Colon /\ \A j \in 2 * QUEUE_ID_LEN + 1 .. i - 1 : text[j] # Colon
  IN  [get |-> Value(SubSeq(text, 1, QUEUE_ID_LEN)),
       put |-> Value(SubSeq(text, QUEUE_ID_LEN + 1, 2 * QUEUE_ID_LEN)),
       len |-> Value(SubSeq(text, 2 * QUEUE_ID_LEN + 1, end - 1))]

Field(n) == Decimal(n) \o <<Comma>>

Segments(segments) ==
  LET upTo[i \in 0 .. Len(segments)] ==
        IF i = 0 THEN <<>> ELSE upTo[i - 1] \o Field(segments[i])
  IN  upTo[Len(segments)]

(* prep_segment_avail_metadata_msg.                                        *)
AnnouncementText(size, len, segments) ==
  Field(size) \o Field(Len(segments)) \o Field(len) \o Segments(segments) \o <<Nul>>

ParseAnnouncementShifted(text) ==
  LET commas == SelectSeq([i \in DOMAIN text |-> i], LAMBDA i : text[i] = Comma)
      Read(n) == Value(SubSeq(text, IF n = 1 THEN 1 ELSE commas[n - 1] + 1, commas[n] - 1))
  IN  [size |-> Read(1), len |-> Read(3), segments |-> [k \in 1 .. Read(2) |-> Read(2 + k)]]

(* parse_server_message: as many identifiers as the text says it has.      *)
ParseAnnouncement(text) ==
  LET commas == SelectSeq([i \in DOMAIN text |-> i], LAMBDA i : text[i] = Comma)
      Read(n) == Value(SubSeq(text, IF n = 1 THEN 1 ELSE commas[n - 1] + 1, commas[n] - 1))
  IN  [size |-> Read(1), len |-> Read(3), segments |-> [k \in 1 .. Read(2) |-> Read(3 + k)]]

-----------------------------------------------------------------------------
MessagesInit ==
  /\ Init
  /\ asked = [c \in Calls |-> <<>>]
  /\ main_q = <<>>
  /\ client_q = <<>>
  /\ got = [c \in Calls |-> <<>>]
  /\ refused = 0

(* establish_communicator_channel, after its queues.                       *)
SendRequest(c, len) ==
  LET text == RequestText(get_id[c], put_id[c], len)
      fits == Len(text) <= MainMsgSize
  IN
  /\ pc[c] = "transfer" /\ asked[c] = <<>>
  /\ asked' = [asked EXCEPT ![c] = <<[get |-> get_id[c], put |-> put_id[c], len |-> len]>>]
  /\ main_q' = IF fits THEN Append(main_q, text) ELSE main_q
  /\ refused' = IF fits THEN refused ELSE refused + 1
  /\ UNCHANGED <<vars, client_q, got>>

(* listen_thread.                                                          *)
Listen ==
  /\ main_q # <<>>
  /\ main_q' = Tail(main_q)
  /\ client_q' = Append(client_q, ParseRequest(Head(main_q)))
  /\ UNCHANGED <<vars, asked, got, refused>>

(* A pass for the client at the front.  That of a result has another       *)
(* length, which is one of FileLens as well.  A text that is too long is   *)
(* refused, also where sprintf has written past its buffer before.         *)
Announce(c, segments) ==
  LET request == Head(client_q)
      text == AnnouncementText(SegSize, request.len, segments)
      fits == Len(text) <= MAX_MESSAGE_LEN_ATTR
      meant == [size |-> SegSize, len |-> request.len, segments |-> segments]
  IN
  /\ client_q # <<>>
  /\ pc[c] = "transfer" /\ get_id[c] = request.get
  /\ client_q' = Tail(client_q)
  /\ got' = IF fits THEN [got EXCEPT ![c] = Append(@, [meant |-> meant, read |-> ParseAnnouncement(text)])]
            ELSE got
  /\ refused' = IF fits THEN refused ELSE refused + 1
  /\ UNCHANGED <<vars, asked, main_q>>

(* A call leaves its queues only when it has been served, and the clock    *)
(* goes on while there is a call that has yet to look at it.               *)
Queueing ==
  /\ \/ Tick /\ \E c \in Calls : pc[c] \in {"get_id", "put_id"}
     \/ \E c \in Calls : CallStep(c) /\ (pc[c] = "transfer" => got[c] # <<>>)
  /\ UNCHANGED messageVars

MessagesNext ==
  \/ Queueing
  \/ Listen
  \/ \E c \in Calls, len \in FileLens : SendRequest(c, len)
  \/ \E c \in Calls, segments \in Grants : Announce(c, segments)

MessagesSpec == MessagesInit /\ [][MessagesNext]_allVars

-----------------------------------------------------------------------------
(* What one side writes, the other reads, though identifiers are printed   *)
(* without a width (client_library.c:88) and cut off by it (main.c:766):   *)
(* the server knows the queues and the length each call meant, and a call  *)
(* the segments and the length the server meant.                           *)
Understood ==
  /\ \A i \in DOMAIN client_q : \E c \in Calls : asked[c] = <<client_q[i]>>
  /\ \A c \in Calls : \A i \in DOMAIN got[c] : got[c][i].read = got[c][i].meant

(* The number of segments is a parameter of the server                     *)
(* (original-readme.md:126): with any, no send is refused for its length,  *)
(* and a grant fits the array a call reads it into (client_library.c:222). *)
(* Nothing in the code would notice: both sides would wait for ever.       *)
MessagesFit ==
  /\ refused = 0
  /\ \A c \in Calls : \A i \in DOMAIN got[c] : Len(got[c][i].read.segments) <= MAX_SEGMENTS_IN_PASS
=============================================================================
