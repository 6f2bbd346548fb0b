----------------------------- MODULE SnappyCodec -----------------------------
(***************************************************************************)
(* The codec around compress_fragment: compress cuts a file into blocks    *)
(* and appends what each becomes to the sink; the decoder reads the result *)
(* item by item and rebuilds the file with copies that may write ahead.    *)
(*                                                                         *)
(* Both read from a source, an iovec of pieces of memory, and must not be  *)
(* misled by where it is cut.  The sink is the sequence of its bytes.      *)
(***************************************************************************)
EXTENDS SnappyFragment, SequencesExt

CONSTANTS
  Calls,      \* what snappy_compress_iov is called with: a file, as its pieces
  BlockSize,  \* kblock_size (65536)
  Handovers,  \* how the result reaches the decoder: in pieces of a size, not more
              \* than some bytes of it, and others behind it: [pieces, keep, behind]
  SinkPiece   \* the size of the pieces of the sink

INT_MAX == 2147483647

(* A file's length is an int. What is handed over may be any bytes.        *)
ASSUME CodecAssumption ==
  /\ Bytes = 0 .. 255
  /\ \A iov \in Calls :
       iov \in Seq(Seq(Bytes)) /\ iov # <<>> /\ Len(FlattenSeq(iov)) <= INT_MAX
  /\ BlockSize \in Nat /\ 6 <= BlockSize /\ BlockSize <= 65536
  /\ \A h \in Handovers :
       /\ h.pieces \in Nat \ {0} /\ h.keep \in Nat /\ h.behind \in Seq(Bytes)
       /\ h.keep > 0 \/ h.behind # <<>>
  /\ SinkPiece \in Nat \ {0}

VARIABLES
  file,      \* the bytes to compress
  phase,     \* "next", "block", "stored", "refused", then "tags", "literal", "ok", "eio"
  reader,    \* the source in use: [iov, vec, off]
  left,      \* N of compress: the bytes to go
  sink,      \* what compress has written
  whole,     \* whether the decoder was given exactly what compress has written
  buf,       \* the decoder's bytes from ip to ip_limit
  peeked,    \* how many bytes of the source they, and those before them, are
  owed,      \* what is left of a literal
  expected,  \* op_limit - base
  op,        \* op - base
  mem        \* the memory at base, as far as it was written

codecVars == <<file, phase, reader, left, sink, whole, buf, peeked, owed, expected, op, mem>>

vars == <<fragmentVars, codecVars>>

Source(iov) == [iov |-> iov, vec |-> 1, off |-> 0]

Peek(s) ==
  IF s.off < Len(s.iov[s.vec]) THEN SubSeq(s.iov[s.vec], s.off + 1, Len(s.iov[s.vec])) ELSE <<>>

Skip(s, n) ==
  IF s.off + n >= Len(s.iov[s.vec]) /\ s.vec < Len(s.iov)
  THEN [s EXCEPT !.vec = @ + 1, !.off = 0]
  ELSE [s EXCEPT !.off = @ + n]

Smaller(a, b) == IF a < b THEN a ELSE b

(* The loops that stitch pieces together until they hold n bytes.          *)
WithNextPiece(g, n) ==
  LET bytes == SubSeq(Peek(g.source), 1, Smaller(n - Len(g.bytes), Len(Peek(g.source))))
  IN  IF Len(g.bytes) >= n THEN g
      ELSE [bytes |-> g.bytes \o bytes, source |-> Skip(g.source, Len(bytes))]

Gather(s, have, n) ==
  LET after[i \in 0 .. Len(s.iov)] ==
        IF i = 0 THEN [bytes |-> have, source |-> s] ELSE WithNextPiece(after[i - 1], n)
  IN  after[Len(s.iov) + 1 - s.vec]

-----------------------------------------------------------------------------
(* varint_encode32: seven bits at a time, the lowest first.                *)
Sevens == <<1, 128, 16384, 2097152, 268435456>>

VarintLength(n) ==
  IF n < 128 THEN 1 ELSE IF n < 16384 THEN 2 ELSE IF n < 2097152 THEN 3
  ELSE IF n < 268435456 THEN 4 ELSE 5

Varint(n) ==
  [i \in 1 .. VarintLength(n) |->
     ((n \div Sevens[i]) % 128) + IF i < VarintLength(n) THEN 128 ELSE 0]

ByteAt(bytes, i) == IF i <= Len(bytes) THEN bytes[i] ELSE 0

(* A u32: of a fifth byte four bits are left.                              *)
VarintValue(bytes) ==
  (ByteAt(bytes, 1) % 128) + Sevens[2] * (ByteAt(bytes, 2) % 128)
  + Sevens[3] * (ByteAt(bytes, 3) % 128) + Sevens[4] * (ByteAt(bytes, 4) % 128)
  + Sevens[5] * (ByteAt(bytes, 5) % 16)

(* The bytes of a literal's length: a literal is at most a block.          *)
LengthBytes(n) == IF n < 256 THEN 1 ELSE 2

LittleEndian(n, count) ==
  IF count = 1 THEN <<n % 256>> ELSE <<n % 256, (n \div 256) % 256>>

LittleEndianValue(bytes) ==
  ByteAt(bytes, 1) + 256 * ByteAt(bytes, 2) + 65536 * ByteAt(bytes, 3) + 16777216 * ByteAt(bytes, 4)

EncodeLiteral(bytes) ==
  LET n == Len(bytes) - 1
  IN  IF n < 60 THEN <<4 * n>> \o bytes
      ELSE <<4 * (59 + LengthBytes(n))>> \o LittleEndian(n, LengthBytes(n)) \o bytes

EncodeCopy(offset, len) ==
  IF len < 12 /\ offset < 2048
  THEN <<1 + 4 * (len - 4) + 32 * (offset \div 256), offset % 256>>
  ELSE <<2 + 4 * (len - 1)>> \o LittleEndian(offset, 2)

EncodeItem(item) ==
  IF item.kind = "literal" THEN EncodeLiteral(item.bytes) ELSE EncodeCopy(item.offset, item.len)

Encode(items) ==
  LET upTo[k \in 0 .. Len(items)] ==
        IF k = 0 THEN <<>> ELSE upTo[k - 1] \o EncodeItem(items[k])
  IN  upTo[Len(items)]

-----------------------------------------------------------------------------
CodecInit ==
  /\ Init
  /\ \E iov \in Calls : reader = Source(iov) /\ file = FlattenSeq(iov)
  /\ phase = "next"
  /\ left = Len(file)
  /\ sink = Varint(Len(file))
  /\ whole = TRUE
  /\ buf = <<>> /\ peeked = 0 /\ owed = 0
  /\ expected = 0 /\ op = 0 /\ mem = <<>>

decoderVars == <<whole, buf, peeked, owed, expected, op, mem>>

(* The next block lies in one piece or is stitched together in scratch.    *)
NextBlock ==
  LET fragment == Peek(reader)
      num_to_read == Smaller(left, BlockSize)
      gathered == Gather(reader, <<>>, num_to_read)
  IN
  /\ phase = "next" /\ left > 0
  /\ \/ /\ fragment = <<>>
        /\ phase' = "refused"
        /\ UNCHANGED <<reader, fragmentVars>>
     \/ /\ Len(fragment) >= num_to_read
        /\ Begin(SubSeq(fragment, 1, num_to_read))
        /\ reader' = Skip(reader, num_to_read)
        /\ phase' = "block"
     \/ /\ fragment # <<>> /\ Len(fragment) < num_to_read
        /\ Begin(gathered.bytes)
        /\ reader' = gathered.source
        /\ phase' = "block"
  /\ UNCHANGED <<file, left, sink, decoderVars>>

CompressFragment ==
  /\ phase = "block"
  /\ Step
  /\ UNCHANGED codecVars

AppendBlock ==
  /\ phase = "block" /\ pc = "done"
  /\ sink' = sink \o Encode(out)
  /\ left' = left - N
  /\ phase' = "next"
  /\ UNCHANGED <<fragmentVars, file, reader, decoderVars>>

Stored ==
  /\ phase = "next" /\ left = 0
  /\ phase' = "stored"
  /\ UNCHANGED <<fragmentVars, file, reader, left, sink, decoderVars>>

-----------------------------------------------------------------------------
(* Bytes in pieces of a size.                                              *)
Cut(bytes, size) ==
  [i \in 1 .. (Len(bytes) + size - 1) \div size |->
     SubSeq(bytes, size * (i - 1) + 1, Smaller(size * i, Len(bytes)))]

(* The sink's own pieces: snappy_compress_iov sets their number, and       *)
(* leaves the last as long as it was, whatever lies behind the result.     *)
SinkPieces(bytes) ==
  Cut(bytes \o [k \in 1 .. (SinkPiece - (Len(bytes) % SinkPiece)) % SinkPiece |-> 0], SinkPiece)

(* What the decoder may be given: the result, in pieces that hold nothing  *)
(* else; one whose length was taken wrong; the sink as it is.              *)
Linear(h) ==
  [iov |-> Cut(SubSeq(sink, 1, Smaller(h.keep, Len(sink))) \o h.behind, h.pieces),
   whole |-> h.keep >= Len(sink) /\ h.behind = <<>>]

Given == {Linear(h) : h \in Handovers} \cup {[iov |-> SinkPieces(sink), whole |-> TRUE]}

(* The call, and the length of the file, read from the front.              *)
Uncompress ==
  \E given \in Given :
    LET s == Source(given.iov)
        front == Gather(s, <<>>, 5).bytes
        ends == {k \in DOMAIN front : front[k] < 128}
        length == CHOOSE k \in ends : \A j \in ends : k <= j
    IN
    /\ phase = "stored"
    /\ whole' = given.whole
    /\ \/ /\ ends = {}
          /\ phase' = "eio"
          /\ UNCHANGED <<reader, expected>>
       \/ /\ ends # {}
          /\ reader' = Gather(s, <<>>, length).source
          /\ expected' = VarintValue(SubSeq(front, 1, length))
          /\ phase' = "tags"
    /\ UNCHANGED <<fragmentVars, file, left, sink, buf, peeked, owed, op, mem>>

(* char_table: what a tag says of its item.                                *)
IsLiteral(c) == c % 4 = 0

TagLength(c) == IF c % 4 = 1 THEN 4 + ((c \div 4) % 8) ELSE 1 + c \div 4

TagOffset(c) == IF c % 4 = 1 THEN 256 * (c \div 32) ELSE 0

Trailers(c) ==
  CASE IsLiteral(c) -> IF TagLength(c) > 60 THEN TagLength(c) - 60 ELSE 0
    [] c % 4 = 1 -> 1
    [] c % 4 = 2 -> 2
    [] c % 4 = 3 -> 4

(* A new piece without leaving behind what was read of the last.           *)
FetchedNoSkip ==
  IF buf = <<>>
  THEN [buf |-> Peek(reader), peeked |-> Len(Peek(reader)), reader |-> reader]
  ELSE [buf |-> buf, peeked |-> peeked, reader |-> reader]

(* refill_tag: the window begins with a tag and all of its trailers.  It   *)
(* is the source's piece while that has five bytes, or a copy of what is   *)
(* needed of it and of the next pieces in scratch.                         *)
Fetched ==
  IF buf = <<>>
  THEN LET next == Skip(reader, peeked)
       IN  [buf |-> Peek(next), peeked |-> Len(Peek(next)), reader |-> next]
  ELSE [buf |-> buf, peeked |-> peeked, reader |-> reader]

Refilled ==
  LET w == Fetched
      used == Skip(w.reader, w.peeked)
      needed == Trailers(w.buf[1]) + 1
      gathered == Gather(used, w.buf, needed)
  IN  IF w.buf = <<>> \/ Len(w.buf) >= 5 THEN w
      ELSE IF Len(w.buf) >= needed THEN [w EXCEPT !.peeked = 0, !.reader = used]
      ELSE [buf |-> gathered.bytes, peeked |-> 0, reader |-> gathered.source]

(* The bytes at a place of the memory, which grows when they reach past    *)
(* what was written so far.                                                *)
Put(m, at, bytes) ==
  SubSeq(m, 1, at) \o bytes \o SubSeq(m, at + Len(bytes) + 1, Len(m))

SpaceLeft == expected - op

Fail ==
  /\ phase' = "eio"
  /\ UNCHANGED <<buf, peeked, reader, owed, op, mem>>

(* writer_append of n bytes of the window.                                 *)
TakeLiteral(n) ==
  /\ mem' = Put(mem, op, SubSeq(buf, 1, n))
  /\ op' = op + n
  /\ owed' = owed - n

(* The end of the input, which is an error in the middle of an item or     *)
(* before the file has its length.                                         *)
EndOfInput ==
  /\ phase = "tags"
  /\ \/ /\ Refilled.buf = <<>>
        /\ phase' = IF op = expected THEN "ok" ELSE "eio"
     \/ /\ Refilled.buf # <<>> /\ Len(Refilled.buf) <= Trailers(Refilled.buf[1])
        /\ phase' = "eio"
  /\ UNCHANGED <<fragmentVars, file, left, sink, decoderVars, reader>>

(* The window begins with a whole tag.                                     *)
TagIn(w) ==
  /\ phase = "tags"
  /\ w.buf # <<>>
  /\ Len(w.buf) > Trailers(w.buf[1])

TrailerValue(w) == LittleEndianValue(SubSeq(w.buf, 2, 1 + Trailers(w.buf[1])))

AfterTag(w) == SubSeq(w.buf, 2 + Trailers(w.buf[1]), Len(w.buf))

(* literal_length, a u32 that one more than 2^32 - 1 makes zero.           *)
LiteralLength(w) ==
  IF TagLength(w.buf[1]) <= 60 THEN TagLength(w.buf[1])
  ELSE IF Trailers(w.buf[1]) = 4 /\ \A k \in 2 .. 5 : w.buf[k] = 255 THEN 0
  ELSE TrailerValue(w) + 1

(* A literal: sixteen bytes at once where both sides have them, or as many *)
(* pieces as it lies in.                                                   *)
LiteralTag ==
  LET w == Refilled
      c == w.buf[1]
      rest == AfterTag(w)
      len == LiteralLength(w)
      fast == TagLength(c) <= 16 /\ Len(rest) >= 16 /\ SpaceLeft >= 16 /\ SpaceLeft <= INT_MAX
  IN
  /\ TagIn(w) /\ IsLiteral(c)
  /\ reader' = w.reader /\ peeked' = w.peeked
  /\ \/ /\ fast
        /\ mem' = Put(mem, op, SubSeq(rest, 1, 16))
        /\ op' = op + len
        /\ buf' = SubSeq(rest, len + 1, Len(rest))
        /\ UNCHANGED <<phase, owed>>
     \/ /\ ~ fast
        /\ owed' = len
        /\ buf' = rest
        /\ phase' = "literal"
        /\ UNCHANGED <<op, mem>>
  /\ UNCHANGED <<fragmentVars, file, left, sink, whole, expected>>

LiteralPiece ==
  LET next == Skip(reader, peeked)
  IN
  /\ phase = "literal" /\ Len(buf) < owed
  /\ \/ SpaceLeft < Len(buf) /\ Fail
     \/ /\ SpaceLeft >= Len(buf)
        /\ TakeLiteral(Len(buf))
        /\ reader' = next
        /\ buf' = Peek(next) /\ peeked' = Len(Peek(next))
        /\ phase' = IF Peek(next) = <<>> THEN "eio" ELSE phase
  /\ UNCHANGED <<fragmentVars, file, left, sink, whole, expected>>

LiteralEnd ==
  /\ phase = "literal" /\ Len(buf) >= owed
  /\ \/ SpaceLeft < owed /\ Fail
     \/ /\ SpaceLeft >= owed
        /\ TakeLiteral(owed)
        /\ buf' = SubSeq(buf, owed + 1, Len(buf))
        /\ phase' = "tags"
        /\ UNCHANGED <<reader, peeked>>
  /\ UNCHANGED <<fragmentVars, file, left, sink, whole, expected>>

-----------------------------------------------------------------------------
Unwritten == 256

Copy64(m, from, to) ==
  Put(m, to, [k \in 1 .. 8 |-> IF from + k <= Len(m) THEN m[from + k] ELSE Unwritten])

(* incremental_copy_fast_path: eight bytes at a time.  Where source and    *)
(* target are closer, what a copy makes of the bytes behind its distance   *)
(* is overwritten by the next, at twice the distance.                      *)
CopyOverlapping(m, offset, len) ==
  LET Eight(s) ==
        LET gap == s.to - s.from
            copied == [s EXCEPT !.mem = Copy64(s.mem, s.from, s.to)]
        IN  IF gap < 8 THEN [copied EXCEPT !.len = @ - gap, !.to = @ + gap]
            ELSE IF s.len > 0 THEN [copied EXCEPT !.len = @ - 8, !.from = @ + 8, !.to = @ + 8]
            ELSE s
      after[i \in 0 .. 4 + len \div 8] ==
        IF i = 0 THEN [mem |-> m, from |-> op - offset, to |-> op, len |-> len]
        ELSE Eight(after[i - 1])
  IN  after[4 + len \div 8].mem

IncrementCopyOverflowNone == 0

IncrementCopyOverflow == 10

(* A copy whose source lies in the file, by one of three ways to copy.     *)
CopyTag ==
  LET w == Refilled
      c == w.buf[1]
      len == TagLength(c)
      offset == TagOffset(c) + TrailerValue(w)
      fast == len <= 16 /\ offset >= 8 /\ SpaceLeft >= 16
      pattern == [k \in 1 .. len |-> mem[op - offset + 1 + ((k - 1) % offset)]]
  IN
  /\ TagIn(w) /\ ~ IsLiteral(c)
  /\ \/ (offset = 0 \/ op < offset \/ SpaceLeft < len) /\ Fail
     \/ /\ offset \in 1 .. op /\ SpaceLeft >= len
        /\ \/ /\ fast
              /\ mem' = Copy64(Copy64(mem, op - offset, op), op - offset + 8, op + 8)
           \/ /\ ~ fast /\ SpaceLeft >= len + IncrementCopyOverflow
              /\ mem' = CopyOverlapping(mem, offset, len)
           \/ /\ ~ fast /\ SpaceLeft < len + IncrementCopyOverflow
              /\ mem' = Put(mem, op, pattern)
        /\ op' = op + len
        /\ reader' = w.reader /\ peeked' = w.peeked
        /\ buf' = AfterTag(w)
        /\ UNCHANGED <<phase, owed>>
  /\ UNCHANGED <<fragmentVars, file, left, sink, whole, expected>>

-----------------------------------------------------------------------------
Next ==
  \/ NextBlock \/ CompressFragment \/ AppendBlock \/ Stored
  \/ Uncompress
  \/ EndOfInput \/ LiteralTag \/ LiteralPiece \/ LiteralEnd \/ CopyTag

Spec == CodecInit /\ [][Next]_vars

(* The caller gives compress the codec's bound for the file (main.c:505),  *)
(* and compress gives compress_fragment the bound for the block: both hold *)
(* what is written, with the sixteen bytes at once of a short literal in   *)
(* the main loop (snappy.c:554), which may be more than its own.           *)
SizeBounded ==
  LET ahead == IF pc = "copy" /\ out # <<>> /\ Last(out).kind = "literal" /\ Len(Last(out).bytes) <= 16
               THEN 16 - Len(Last(out).bytes) ELSE 0
      written == Len(Encode(out)) + ahead
  IN  /\ written <= MaxCompressedLength(N)
      /\ phase = "block" => Len(sink) + written <= MaxCompressedLength(Len(file))
      /\ phase # "block" => Len(sink) <= MaxCompressedLength(Len(file))

(* What RoundTrip asks of those who hand a result over: what has other     *)
(* bytes behind it misses none of its own, and those behind are not a      *)
(* literal of 2^32 bytes, whose length the decoder takes for zero.         *)
EmptyLiteral(bytes, p) ==
  p + 5 <= Len(bytes) /\ bytes[p + 1] = 252 /\ \A k \in 2 .. 5 : bytes[p + k] = 255

HandedOver ==
  \A h \in Handovers :
    h.behind = <<>> \/
    /\ \A iov \in Calls : MaxCompressedLength(Len(FlattenSeq(iov))) <= h.keep
    /\ ~ EmptyLiteral(h.behind, 0)

(* verify.c and sgverify.c: what compress has stored, the decoder takes    *)
(* and makes the file of it, however the memory is cut into pieces.  It is *)
(* right all along the way, and does not take a result that misses bytes   *)
(* or has others behind it.                                                *)
RoundTrip ==
  /\ op <= Len(file) /\ SubSeq(mem, 1, op) = SubSeq(file, 1, op)
  /\ phase = "ok" => whole /\ op = Len(file)
  /\ phase = "eio" => ~ whole

(* The memory the decoder writes is what the length at the front of its    *)
(* input says, whatever that input is, though its copies write up to ten   *)
(* bytes, or sixteen at once, ahead of what they are for.                  *)
WritesInBounds == Len(mem) <= expected
=============================================================================
