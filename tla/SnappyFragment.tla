--------------------------- MODULE SnappyFragment ---------------------------
(***************************************************************************)
(* compress_fragment of the codec: a greedy search for earlier occurrences *)
(* of the next four bytes, through a hash table of positions.  One action  *)
(* per iteration of its two loops.  The output is the sequence of items    *)
(* (literals and copies), not their bytes; what it stands for is Decoded.  *)
(*                                                                         *)
(* Positions count from 0 as in the code, elements of a sequence from 1.   *)
(***************************************************************************)
EXTENDS Integers, Sequences

CONSTANTS
  Bytes,      \* the bytes of a fragment
  Hash(_),    \* hash_bytes of four bytes
  Hashes,     \* its range, 0 .. table_size - 1
  SkipBytes,  \* the bytes scanned before the steps grow (32)
  Margin      \* kinput_margin_bytes (15)

ASSUME FragmentAssumption ==
  SkipBytes \in Nat \ {0} /\ Margin \in Nat /\ Margin >= 15

VARIABLES
  input,       \* the fragment
  pc,          \* "idle", "start", "scan", "copy", "remainder", "done"
  ip,          \* the input pointer
  next_ip, next_hash, skip_bytes,
  next_emit,   \* input before it has been emitted
  candidate,   \* where the four bytes at ip may have occurred
  table,       \* the last position seen for each hash
  out          \* the items emitted

fragmentVars ==
  <<input, pc, ip, next_ip, next_hash, skip_bytes, next_emit, candidate, table, out>>

N == Len(input)

Limit == N - Margin

FourThree(p) == SubSeq(input, p + 1, p + 3)

Four(p) == SubSeq(input, p + 1, p + 4)

HashAt(p) == Hash(Four(p))

(* find_match_length: how far two positions agree, to the end of the input.*)
MatchLength(s1, s2) ==
  CHOOSE n \in 0 .. N - s2 :
    /\ \A k \in 1 .. n : input[s1 + k] = input[s2 + k]
    /\ s2 + n < N => input[s1 + n + 1] # input[s2 + n + 1]

Literal(from, to) == [kind |-> "literal", bytes |-> SubSeq(input, from + 1, to)]

Copy(offset, len) == [kind |-> "copy", offset |-> offset, len |-> len]

MaxCompressedLengthOfFile(len) == len

MaxCompressedLength(len) == 32 + len + len \div 6

EmitCopySixtyFours(offset, len) ==
  [k \in 1 .. (len - 1) \div 64 + 1 |->
     Copy(offset, IF k <= (len - 1) \div 64 THEN 64 ELSE len - ((len - 1) \div 64) * 64)]

(* emit_copy: copies of 64 bytes while 68 or more are left, then one of 60 *)
(* if more than 64 are left, then the rest.                                *)
EmitCopy(offset, len) ==
  LET full == IF len >= 68 THEN (len - 4) \div 64 ELSE 0
      rest == len - 64 * full
  IN  [k \in 1 .. full |-> Copy(offset, 64)] \o
      (IF rest > 64 THEN <<Copy(offset, 60), Copy(offset, rest - 60)>>
       ELSE <<Copy(offset, rest)>>)

-----------------------------------------------------------------------------
(* Before the first call.                                                  *)
Init ==
  /\ input = <<>>
  /\ pc = "idle"
  /\ ip = 0 /\ next_ip = 0 /\ next_hash = 0 /\ skip_bytes = 0
  /\ next_emit = 0 /\ candidate = 0
  /\ table = [h \in Hashes |-> 0]
  /\ out = <<>>

(* The call for one block, with a table that get_hash_table has cleared.   *)
Begin(block) ==
  /\ input' = block
  /\ pc' = "start"
  /\ ip' = 0 /\ next_ip' = 0 /\ next_hash' = 0 /\ skip_bytes' = 0
  /\ next_emit' = 0 /\ candidate' = 0
  /\ table' = [h \in Hashes |-> 0]
  /\ out' = <<>>

(* The scan begins anew at p.                                              *)
ScanFrom(p) ==
  /\ pc' = "scan"
  /\ ip' = p /\ next_ip' = p
  /\ next_hash' = HashAt(p)
  /\ skip_bytes' = SkipBytes

StartAtZero ==
  /\ pc = "start"
  /\ \/ /\ N < Margin
        /\ pc' = "remainder"
        /\ UNCHANGED <<ip, next_ip, next_hash, skip_bytes>>
     \/ N >= Margin /\ ScanFrom(0)
  /\ UNCHANGED <<input, next_emit, candidate, table, out>>

(* Short fragments are one literal; the others are scanned from byte 1.    *)
Start ==
  /\ pc = "start"
  /\ \/ /\ N < Margin
        /\ pc' = "remainder"
        /\ UNCHANGED <<ip, next_ip, next_hash, skip_bytes>>
     \/ N >= Margin /\ ScanFrom(1)
  /\ UNCHANGED <<input, next_emit, candidate, table, out>>

PastLimitNever(p) == p >= N

PastLimit(p) == p > Limit

(* One iteration of step 1: the table's position for the four bytes at ip, *)
(* and if they are the same there, the bytes before ip as a literal.       *)
Scan ==
  LET ahead == next_ip + skip_bytes \div SkipBytes
      found == table[next_hash]
  IN
  /\ pc = "scan"
  /\ ip' = next_ip
  /\ next_ip' = ahead
  /\ skip_bytes' = skip_bytes + 1
  /\ \/ /\ PastLimit(ahead)
        /\ pc' = "remainder"
        /\ UNCHANGED <<next_hash, candidate, table, out>>
     \/ /\ ~ PastLimit(ahead)
        /\ next_hash' = HashAt(ahead)
        /\ candidate' = found
        /\ table' = [table EXCEPT ![next_hash] = next_ip]
        /\ \/ /\ Four(found) # Four(next_ip)
              /\ UNCHANGED <<pc, out>>
           \/ /\ Four(found) = Four(next_ip)
              /\ pc' = "copy"
              /\ out' = Append(out, Literal(next_emit, next_ip))
  /\ UNCHANGED <<input, next_emit>>

(* One iteration of steps 2 and 3: the match at ip as copies, two entries  *)
(* of the table, and either another match right behind it or a new scan.   *)
CopyMatch ==
  LET matched == 4 + MatchLength(candidate + 4, ip + 4)
      end == ip + matched
      tail == [table EXCEPT ![HashAt(end - 1)] = end - 1]
      found == tail[HashAt(end)]
  IN
  /\ pc = "copy"
  /\ out' = out \o EmitCopy(ip - candidate, matched)
  /\ next_emit' = end
  /\ \/ /\ end >= Limit
        /\ pc' = "remainder"
        /\ ip' = end
        /\ UNCHANGED <<next_ip, next_hash, skip_bytes, candidate, table>>
     \/ /\ end < Limit
        /\ candidate' = found
        /\ table' = [tail EXCEPT ![HashAt(end)] = end]
        /\ \/ /\ Four(found) = Four(end)
              /\ ip' = end
              /\ UNCHANGED <<pc, next_ip, next_hash, skip_bytes>>
           \/ /\ Four(found) # Four(end)
              /\ ScanFrom(end + 1)
  /\ UNCHANGED input

Remainder ==
  /\ pc = "remainder"
  /\ pc' = "done"
  /\ out' = IF next_emit < N THEN Append(out, Literal(next_emit, N)) ELSE out
  /\ next_emit' = N
  /\ UNCHANGED <<input, ip, next_ip, next_hash, skip_bytes, candidate, table>>

Step == Start \/ Scan \/ CopyMatch \/ Remainder

(* compress_fragment, called for one block after another.                  *)
FragmentNext == Step \/ \E block \in Seq(Bytes) : Begin(block)

FragmentSpec == Init /\ [][FragmentNext]_fragmentVars

-----------------------------------------------------------------------------
(* What items stand for: a literal its bytes, a copy the bytes that far    *)
(* back, which may be bytes of the copy itself.                            *)
DecodeItem(bytes, item) ==
  bytes \o
  (IF item.kind = "literal" THEN item.bytes
   ELSE [k \in 1 .. item.len |->
           bytes[Len(bytes) - item.offset + 1 + ((k - 1) % item.offset)]])

(* What the decoder has after k items.                                     *)
Decoded[k \in 0 .. Len(out)] ==
  IF k = 0 THEN <<>> ELSE DecodeItem(Decoded[k - 1], out[k])

(* How much of the input the items stand for.                              *)
Emitted == IF pc = "copy" THEN ip ELSE next_emit

(* Whatever the hash function collides on (snappy.c:494, "any hash         *)
(* function will produce a valid compressed bitstream"), the output stands *)
(* for exactly the bytes consumed, at every step and so at the end.        *)
DecodesToInput == Decoded[Len(out)] = SubSeq(input, 1, Emitted)

(* A candidate is behind ip: no table entry, however stale, makes a copy   *)
(* of offset zero or of bytes not yet written.                             *)
CandidateBehind ==
  /\ pc = "copy" => candidate < ip
  /\ pc = "scan" => \A h \in Hashes : table[h] < next_ip

(* What the encoders and the loops take for granted: copies of 4 to 64     *)
(* bytes (the assertions of emit_copy_less_than64), and a margin that      *)
(* suffices for what is read past the pointers without a check: four bytes *)
(* for a hash, eight behind a copy, sixteen for a short literal (the       *)
(* assertion on next_emit at snappy.c:932).                                *)
WithinLimits ==
  /\ \A i \in DOMAIN out : out[i].kind = "copy" => out[i].len \in 4 .. 64
  /\ pc = "scan" => next_ip + 6 <= N
  /\ pc = "copy" => ip + 4 <= N /\ next_emit + 16 <= N
=============================================================================
