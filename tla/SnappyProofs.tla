----------------------------- MODULE SnappyProofs -----------------------------
(***************************************************************************)
(* For every fragment, every set of bytes and every hash function into the *)
(* table: the items that compress_fragment has emitted stand for the bytes *)
(* it has consumed.  For every file in any pieces: the codec calls it for  *)
(* blocks of bytes, so that this holds in SnappyCodec as well.             *)
(*                                                                         *)
(* The properties are not inductive alone.  What makes the next items      *)
(* stand for the bytes that follow is where the pointers are: a candidate  *)
(* behind ip, with the same four bytes, every entry of the table behind    *)
(* what is scanned, and all of them far enough from the end (IInv).        *)
(*                                                                         *)
(* The items of a fragment are any number, and what they stand for is      *)
(* defined by recursion.  The invariant has the decoder's steps as a       *)
(* witness, which an item more extends; that they are what the recursion   *)
(* defines follows from the least step in which the two would differ.      *)
(*                                                                         *)
(* Then the codec around compress_fragment: what its variables are on both *)
(* sides (CompressorInv, DecoderInv), from which no write of the decoder   *)
(* leaves its buffer; that each block is the next part of the file, in any *)
(* pieces (StreamInv); and that six bytes of the file are never more than  *)
(* seven of the result and the overhead of a literal (SizeInv), from which *)
(* the callers' buffer suffices.                                           *)
(***************************************************************************)
EXTENDS SnappyCodec, OrderLemmas, TLAPS

(* Division with remainder.                                                *)
LEMMA OneRemainder ==
  ASSUME NEW o \in Nat, o > 0, NEW q1 \in Int, NEW r1 \in 0 .. o - 1,
         NEW q2 \in Int, NEW r2 \in 0 .. o - 1, q1 * o + r1 = q2 * o + r2
  PROVE  r1 = r2
<1>1. (q1 - q2) * o = r2 - r1
  OBVIOUS
<1>2. CASE q1 > q2
  <2>1. (q1 - q2) * o >= o
    BY <1>2
  <2> QED
    BY <1>1, <2>1
<1>3. CASE q1 < q2
  <2>1. (q2 - q1) * o >= o /\ (q2 - q1) * o = r1 - r2
    BY <1>3
  <2> QED
    BY <2>1
<1> QED
  BY <1>1, <1>2, <1>3

(* A period less leaves the same remainder.                                *)
LEMMA ModShift ==
  ASSUME NEW a \in Nat, NEW o \in Nat, o > 0, a >= o
  PROVE  (a - o) % o = a % o
<1>1. \A b \in Nat : b \div o \in Nat /\ b % o \in 0 .. o - 1 /\ b = (b \div o) * o + (b % o)
  OBVIOUS
<1>2. a - o \in Nat
  OBVIOUS
<1>3. a = (a \div o) * o + (a % o) /\ a - o = ((a - o) \div o) * o + ((a - o) % o)
  BY <1>1, <1>2
<1>4. PICK q1 \in Nat, q2 \in Nat, r1 \in 0 .. o - 1, r2 \in 0 .. o - 1 :
        q1 = a \div o /\ r1 = a % o /\ q2 = (a - o) \div o /\ r2 = (a - o) % o
  BY <1>1, <1>2
<1>5. a = q1 * o + r1 /\ a - o = q2 * o + r2
  BY <1>3, <1>4
<1>6. q1 * o + r1 = (q2 + 1) * o + r2
  BY <1>5
<1>7. q2 + 1 \in Int /\ q1 \in Int
  OBVIOUS
<1>8. r1 = r2
  BY <1>6, <1>7, OneRemainder
<1> QED
  BY <1>4, <1>8

(* Within the first period there is nothing to reduce.                     *)
LEMMA ModSmall ==
  ASSUME NEW a \in Nat, NEW o \in Nat, a < o
  PROVE  a % o = a
  OBVIOUS

(* A remainder is less than the divisor.                                   *)
LEMMA ModRange ==
  ASSUME NEW a \in Nat, NEW o \in Nat, o > 0
  PROVE  a % o \in 0 .. o - 1
  OBVIOUS

-----------------------------------------------------------------------------
(* Sequences of bytes.                                                     *)
LEMMA Part ==
  ASSUME NEW s \in Seq(Bytes), NEW a \in Nat, NEW b \in Nat, a <= b, b <= Len(s)
  PROVE  /\ SubSeq(s, a + 1, b) = [k \in 1 .. b - a |-> s[a + k]]
         /\ SubSeq(s, a + 1, b) \in Seq(Bytes) /\ Len(SubSeq(s, a + 1, b)) = b - a
  OBVIOUS

(* What a sequence of bytes is extended to.                                *)
LEMMA Extended ==
  ASSUME NEW s \in Seq(Bytes), NEW p \in Nat, NEW n \in Nat, p + n <= Len(s),
         NEW e, e = [k \in 1 .. n |-> s[p + k]]
  PROVE  SubSeq(s, 1, p) \o e = SubSeq(s, 1, p + n)
<1>1. SubSeq(s, 1, p) = [k \in 1 .. p |-> s[k]]
  OBVIOUS
<1>2. SubSeq(s, 1, p + n) = [k \in 1 .. p + n |-> s[k]]
  OBVIOUS
<1>3. [k \in 1 .. p |-> s[k]] \in Seq(Bytes) /\ e \in Seq(Bytes) /\ Len(e) = n
  OBVIOUS
<1> QED
  BY <1>1, <1>2, <1>3

-----------------------------------------------------------------------------
(* From p on, s repeats what is offset before, for n bytes.                *)
Repeats(s, p, offset, n) == \A k \in 1 .. n : s[p + k] = s[p - offset + k]

(* The pattern before p, over and over, is what comes.                     *)
LEMMA Pattern ==
  ASSUME NEW s, NEW p \in Nat, NEW offset \in Nat, offset > 0, offset <= p, NEW n \in Nat,
         Repeats(s, p, offset, n)
  PROVE  \A k \in 1 .. n : s[p - offset + 1 + ((k - 1) % offset)] = s[p + k]
<1> DEFINE T == {k \in 1 .. n : s[p - offset + 1 + ((k - 1) % offset)] # s[p + k]}
<1>1. ASSUME T # {}
      PROVE  FALSE
  <2>1. PICK m \in T : \A k \in T : ~ (k < m)
    <3> T \subseteq Nat
      OBVIOUS
    <3> HIDE DEF T
    <3> QED
      BY <1>1, Least
  <2>2. m \in 1 .. n /\ s[p - offset + 1 + ((m - 1) % offset)] # s[p + m]
    BY <2>1
  <2>3. s[p + m] = s[p - offset + m]
    BY <2>2 DEF Repeats
  <2>4. CASE m <= offset
    <3>1. (m - 1) % offset = m - 1
      BY <2>2, <2>4, ModSmall
    <3>2. p - offset + 1 + (m - 1) = p - offset + m
      BY <2>2
    <3> QED
      BY <2>2, <2>3, <3>1, <3>2
  <2>5. CASE m > offset
    <3>1. m - offset \in 1 .. n /\ m - offset < m
      BY <2>2, <2>5
    <3>2. m - offset \notin T
      BY <2>1, <3>1
    <3>3. s[p - offset + 1 + ((m - offset - 1) % offset)] = s[p + (m - offset)]
      BY <3>1, <3>2
    <3>4. (m - 1 - offset) % offset = (m - 1) % offset
      <4>1. m - 1 \in Nat /\ m - 1 >= offset
        BY <2>2, <2>5
      <4> QED
        BY <4>1, ModShift
    <3>5. m - 1 - offset = m - offset - 1 /\ p + (m - offset) = p - offset + m
      BY <2>2
    <3> QED
      BY <2>2, <2>3, <3>3, <3>4, <3>5
  <2> QED
    BY <2>2, <2>4, <2>5
<1> QED
  BY <1>1

(* A literal stands for the bytes between its two positions.               *)
LEMMA LiteralDecodes ==
  ASSUME NEW s \in Seq(Bytes), NEW p \in Nat, NEW q \in Nat, p <= q, q <= Len(s),
         NEW item, item = [kind |-> "literal", bytes |-> SubSeq(s, p + 1, q)]
  PROVE  DecodeItem(SubSeq(s, 1, p), item) = SubSeq(s, 1, q)
<1>1. item.kind = "literal" /\ item.bytes = SubSeq(s, p + 1, q)
  OBVIOUS
<1>2. SubSeq(s, p + 1, q) = [k \in 1 .. q - p |-> s[p + k]]
  BY Part
<1>3. q - p \in Nat /\ p + (q - p) = q
  OBVIOUS
<1>4. SubSeq(s, 1, p) \o SubSeq(s, p + 1, q) = SubSeq(s, 1, p + (q - p))
  BY <1>2, <1>3, Extended
<1> QED
  BY <1>1, <1>3, <1>4 DEF DecodeItem

(* A copy stands for bytes that repeat what is offset before.              *)
LEMMA CopyDecodes ==
  ASSUME NEW s \in Seq(Bytes), NEW p \in Nat, NEW n \in Nat, p + n <= Len(s),
         NEW offset \in Nat, offset > 0, offset <= p, Repeats(s, p, offset, n)
  PROVE  DecodeItem(SubSeq(s, 1, p), Copy(offset, n)) = SubSeq(s, 1, p + n)
<1> DEFINE bytes == SubSeq(s, 1, p)
           e == [k \in 1 .. n |-> bytes[Len(bytes) - offset + 1 + ((k - 1) % offset)]]
<1>1. DecodeItem(bytes, Copy(offset, n)) = bytes \o e
  BY DEF DecodeItem, Copy
<1>2. Len(bytes) = p /\ \A k \in 1 .. p : bytes[k] = s[k]
  OBVIOUS
<1>3. ASSUME NEW k \in 1 .. n
      PROVE  bytes[p - offset + 1 + ((k - 1) % offset)] = s[p + k]
  <2>1. (k - 1) % offset \in 0 .. offset - 1
    BY ModRange
  <2>2. p - offset + 1 + ((k - 1) % offset) \in 1 .. p
    BY <2>1
  <2> HIDE DEF bytes
  <2> QED
    BY <1>2, <2>2, Pattern
<1>4. e = [k \in 1 .. n |-> s[p + k]]
  BY <1>2, <1>3
<1> HIDE DEF bytes, e
<1>5. SubSeq(s, 1, p) \o e = SubSeq(s, 1, p + n)
  BY <1>4, Extended
<1> QED
  BY <1>1, <1>5 DEF bytes

-----------------------------------------------------------------------------
(* The steps of the decoder: d[k] is what it has after k items.            *)
Chain(d, items) ==
  /\ d = [k \in 0 .. Len(items) |-> d[k]]
  /\ d[0] = <<>>
  /\ \A k \in 1 .. Len(items) : d[k] = DecodeItem(d[k - 1], items[k])

(* A copy's bytes are there when it is decoded.                            *)
Reaches(bytes, item) == item.kind = "copy" => item.offset <= Len(bytes)

AllReach(d, items) == \A k \in 1 .. Len(items) : Reaches(d[k - 1], items[k])

(* The items stand for the bytes.                                          *)
StandsFor(items, bytes) ==
  \E d : Chain(d, items) /\ AllReach(d, items) /\ d[Len(items)] = bytes

(* The decoder's steps are determined by the items.                        *)
LEMMA OneChain ==
  ASSUME NEW items, Len(items) \in Nat, NEW c, NEW d, Chain(c, items), Chain(d, items)
  PROVE  c = d
<1> DEFINE T == {k \in 0 .. Len(items) : c[k] # d[k]}
<1>1. ASSUME T # {}
      PROVE  FALSE
  <2>1. PICK m \in T : \A k \in T : ~ (k < m)
    <3> T \subseteq Nat
      OBVIOUS
    <3> HIDE DEF T
    <3> QED
      BY <1>1, Least
  <2>2. m # 0 /\ m \in 1 .. Len(items) /\ c[m] # d[m]
    BY <2>1 DEF Chain
  <2>3. m - 1 \in 0 .. Len(items) /\ m - 1 < m
    BY <2>2
  <2>4. c[m - 1] = d[m - 1]
    BY <2>1, <2>3
  <2>5. c[m] = DecodeItem(c[m - 1], items[m]) /\ d[m] = DecodeItem(d[m - 1], items[m])
    BY <2>2 DEF Chain
  <2> QED
    BY <2>2, <2>4, <2>5
<1>2. \A k \in 0 .. Len(items) : c[k] = d[k]
  BY <1>1
<1> QED
  BY <1>2 DEF Chain

(* Decoded is the decoder's steps.                                         *)
LEMMA DecodedIsChain ==
  ASSUME NEW d, Chain(d, out), Len(out) \in Nat
  PROVE  Decoded = d
<1> DEFINE F(f) == [k \in 0 .. Len(out) |->
                      IF k = 0 THEN <<>> ELSE DecodeItem(f[k - 1], out[k])]
<1>1. d = F(d)
  <2>1. \A k \in 0 .. Len(out) : d[k] = IF k = 0 THEN <<>> ELSE DecodeItem(d[k - 1], out[k])
    BY DEF Chain
  <2> QED
    BY <2>1 DEF Chain
<1>2. Decoded = CHOOSE f : f = F(f)
  BY DEF Decoded
<1> HIDE DEF F
<1>3. Decoded = F(Decoded)
  BY <1>1, <1>2
<1>4. Chain(Decoded, out)
  <2>1. Decoded = [k \in 0 .. Len(out) |->
                     IF k = 0 THEN <<>> ELSE DecodeItem(Decoded[k - 1], out[k])]
    BY <1>3 DEF F
  <2> HIDE DEF Decoded
  <2> QED
    BY <2>1 DEF Chain
<1> QED
  BY <1>4, OneChain

(* What the items stand for is what Decoded ends with.                     *)
LEMMA DecodedIs ==
  ASSUME NEW bytes, StandsFor(out, bytes), Len(out) \in Nat
  PROVE  Decoded[Len(out)] = bytes
<1>1. PICK d : Chain(d, out) /\ d[Len(out)] = bytes
  BY DEF StandsFor
<1> QED
  BY <1>1, DecodedIsChain

(* No items stand for no bytes.                                            *)
LEMMA NothingStandsForNothing == StandsFor(<<>>, <<>>)
<1>1. Chain([k \in 0 .. 0 |-> <<>>], <<>>) /\ AllReach([k \in 0 .. 0 |-> <<>>], <<>>)
  BY DEF Chain, AllReach
<1> QED
  BY <1>1 DEF StandsFor

(* One more item.                                                          *)
LEMMA OneMoreItem ==
  ASSUME NEW S, NEW items \in Seq(S), NEW item \in S, NEW b, NEW c,
         StandsFor(items, b), DecodeItem(b, item) = c, Reaches(b, item)
  PROVE  StandsFor(Append(items, item), c)
<1>1. PICK d : Chain(d, items) /\ AllReach(d, items) /\ d[Len(items)] = b
  BY DEF StandsFor
<1> DEFINE n == Len(items)
           all == Append(items, item)
           e == [k \in 0 .. n + 1 |-> IF k = n + 1 THEN c ELSE d[k]]
<1>2. n \in Nat /\ Len(all) = n + 1 /\ all[n + 1] = item /\ \A k \in 1 .. n : all[k] = items[k]
  OBVIOUS
<1>3. e[0] = <<>> /\ e[n + 1] = c /\ \A k \in 0 .. n : e[k] = d[k]
  BY <1>1, <1>2 DEF Chain
<1>4. ASSUME NEW k \in 1 .. n + 1
      PROVE  e[k] = DecodeItem(e[k - 1], all[k])
  <2> HIDE DEF e, all, n
  <2>1. CASE k = n + 1
    BY <1>1, <1>2, <1>3, <2>1 DEF n
  <2>2. CASE k \in 1 .. n
    <3>1. d[k] = DecodeItem(d[k - 1], items[k])
      BY <1>1, <2>2 DEF Chain, n
    <3>2. k - 1 \in 0 .. n /\ k \in 0 .. n
      BY <1>2, <2>2
    <3> QED
      BY <1>2, <1>3, <2>2, <3>1, <3>2
  <2> QED
    BY <1>2, <2>1, <2>2
<1>5. e = [k \in 0 .. n + 1 |-> e[k]]
  OBVIOUS
<1> HIDE DEF e, all, n
<1>6. Chain(e, all) /\ e[Len(all)] = c
  BY <1>2, <1>3, <1>4, <1>5 DEF Chain
<1>7. AllReach(e, all)
  <2>1. ASSUME NEW k \in 1 .. n + 1
        PROVE  Reaches(e[k - 1], all[k])
    <3>1. k - 1 \in 0 .. n /\ (k = n + 1 => k - 1 = n) /\ (k # n + 1 => k \in 1 .. n)
      BY <1>2
    <3>2. e[k - 1] = d[k - 1] /\ d[n] = b
      BY <1>1, <1>3, <3>1 DEF n
    <3>3. k # n + 1 => Reaches(d[k - 1], items[k])
      BY <1>1, <3>1 DEF AllReach, n
    <3> QED
      BY <1>2, <3>1, <3>2, <3>3
  <2> QED
    BY <1>2, <2>1 DEF AllReach
<1> QED
  BY <1>6, <1>7 DEF StandsFor, all

-----------------------------------------------------------------------------
(* A match of n bytes as copies: cut[k] bytes are in the first k.          *)
Cuts(cut, more, offset, n) ==
  /\ cut \in [0 .. Len(more) -> 0 .. n]
  /\ cut[0] = 0 /\ cut[Len(more)] = n
  /\ \A k \in 1 .. Len(more) :
       cut[k - 1] <= cut[k] /\ more[k] = Copy(offset, cut[k] - cut[k - 1])

(* A part of a repetition is one.                                          *)
LEMMA RepeatsWithin ==
  ASSUME NEW s, NEW p \in Nat, NEW offset \in Nat, NEW n \in Nat, Repeats(s, p, offset, n),
         NEW a \in Nat, NEW b \in Nat, a + b <= n
  PROVE  Repeats(s, p + a, offset, b)
<1> SUFFICES ASSUME NEW k \in 1 .. b
             PROVE  s[p + a + k] = s[p + a - offset + k]
  BY DEF Repeats
<1>1. a + k \in 1 .. n
  OBVIOUS
<1>2. s[p + (a + k)] = s[p - offset + (a + k)]
  BY <1>1 DEF Repeats
<1>3. p + (a + k) = p + a + k /\ p - offset + (a + k) = p + a - offset + k
  OBVIOUS
<1> QED
  BY <1>2, <1>3

(* The copies of a match, appended.                                        *)
LEMMA MoreCopies ==
  ASSUME NEW S, NEW items \in Seq(S), NEW more \in Seq(S), NEW cut,
         NEW s \in Seq(Bytes), NEW p \in Nat, NEW offset \in Nat, offset > 0, offset <= p,
         NEW n \in Nat, p + n <= Len(s), Repeats(s, p, offset, n),
         Cuts(cut, more, offset, n), StandsFor(items, SubSeq(s, 1, p))
  PROVE  StandsFor(items \o more, SubSeq(s, 1, p + n))
<1>1. PICK d : Chain(d, items) /\ AllReach(d, items) /\ d[Len(items)] = SubSeq(s, 1, p)
  BY DEF StandsFor
<1> DEFINE l == Len(items)
           m == Len(more)
           all == items \o more
           e == [k \in 0 .. l + m |-> IF k <= l THEN d[k] ELSE SubSeq(s, 1, p + cut[k - l])]
<1>2. /\ l \in Nat /\ m \in Nat /\ Len(all) = l + m
      /\ \A k \in 1 .. l : all[k] = items[k]
      /\ \A k \in 1 .. m : all[l + k] = more[k]
  OBVIOUS
<1>3. /\ cut[0] = 0 /\ cut[m] = n
      /\ \A k \in 0 .. m : cut[k] \in 0 .. n
      /\ \A k \in 1 .. m : cut[k - 1] <= cut[k] /\ more[k] = Copy(offset, cut[k] - cut[k - 1])
  BY DEF Cuts
<1>4. \A k \in 0 .. l : e[k] = d[k]
  BY <1>2
<1>5. \A k \in 0 .. m : e[l + k] = SubSeq(s, 1, p + cut[k])
  <2> SUFFICES ASSUME NEW k \in 0 .. m
               PROVE  e[l + k] = SubSeq(s, 1, p + cut[k])
    OBVIOUS
  <2>1. CASE k = 0
    BY <1>1, <1>2, <1>3, <2>1
  <2>2. CASE k > 0
    <3>1. ~ (l + k <= l) /\ l + k \in 0 .. l + m /\ (l + k) - l = k
      BY <1>2, <2>2
    <3> QED
      BY <3>1
  <2>3. k = 0 \/ k > 0
    OBVIOUS
  <2> QED
    BY <2>1, <2>2, <2>3
<1>6. e = [k \in 0 .. l + m |-> e[k]]
  OBVIOUS
<1> HIDE DEF l, m, all, e
<1>7. \A k \in 1 .. l : e[k] = DecodeItem(e[k - 1], all[k])
  <2> SUFFICES ASSUME NEW k \in 1 .. l
               PROVE  e[k] = DecodeItem(e[k - 1], all[k])
    OBVIOUS
  <2>1. d[k] = DecodeItem(d[k - 1], items[k])
    BY <1>1 DEF Chain, l
  <2>2. k - 1 \in 0 .. l /\ k \in 0 .. l
    BY <1>2
  <2> QED
    BY <1>2, <1>4, <2>1, <2>2
<1>8. \A k \in 1 .. m : e[l + k] = DecodeItem(e[l + k - 1], all[l + k])
  <2> SUFFICES ASSUME NEW k \in 1 .. m
               PROVE  e[l + k] = DecodeItem(e[l + k - 1], all[l + k])
    OBVIOUS
  <2> DEFINE a == cut[k - 1]
             b == cut[k] - cut[k - 1]
  <2>1. k - 1 \in 0 .. m /\ l + k - 1 = l + (k - 1)
    BY <1>2
  <2>2. /\ a \in Nat /\ b \in Nat /\ a + b = cut[k] /\ a + b <= n /\ more[k] = Copy(offset, b)
    <3>1. k \in 0 .. m /\ cut[k - 1] <= cut[k] /\ more[k] = Copy(offset, cut[k] - cut[k - 1])
      BY <1>2, <1>3
    <3>2. cut[k - 1] \in 0 .. n /\ cut[k] \in 0 .. n
      BY <1>3, <2>1, <3>1
    <3>3. \A u, v \in 0 .. n :
            u <= v => u \in Nat /\ v - u \in Nat /\ u + (v - u) = v /\ u + (v - u) <= n
      OBVIOUS
    <3>4. a = cut[k - 1] /\ b = cut[k] - a
      OBVIOUS
    <3> HIDE DEF a, b
    <3> QED
      BY <3>1, <3>2, <3>3, <3>4
  <2> HIDE DEF a, b
  <2>3. Repeats(s, p + a, offset, b)
    BY <2>2, RepeatsWithin
  <2>4. p + a \in Nat /\ p + a + b <= Len(s) /\ offset <= p + a
    BY <2>2
  <2>5. DecodeItem(SubSeq(s, 1, p + a), Copy(offset, b)) = SubSeq(s, 1, p + a + b)
    BY <2>2, <2>3, <2>4, CopyDecodes
  <2>6. p + a + b = p + cut[k]
    BY <2>2
  <2>7. e[l + k - 1] = SubSeq(s, 1, p + a) /\ e[l + k] = SubSeq(s, 1, p + cut[k])
    BY <1>5, <2>1 DEF a
  <2> QED
    BY <1>2, <2>2, <2>5, <2>6, <2>7
<1>9. Chain(e, all)
  <2>1. e[0] = <<>>
    <3>1. d[0] = <<>>
      BY <1>1 DEF Chain
    <3>2. 0 \in 0 .. l
      BY <1>2
    <3> QED
      BY <1>4, <3>1, <3>2
  <2>2. ASSUME NEW k \in 1 .. l + m
        PROVE  e[k] = DecodeItem(e[k - 1], all[k])
    <3>1. CASE k \in 1 .. l
      BY <1>7, <3>1
    <3>2. CASE k \notin 1 .. l
      <4>1. k - l \in 1 .. m /\ l + (k - l) = k /\ l + (k - l) - 1 = k - 1
        <5>1. l \in Nat /\ m \in Nat
          BY <1>2
        <5> QED
          BY <3>2, <5>1
      <4>2. e[l + (k - l)] = DecodeItem(e[l + (k - l) - 1], all[l + (k - l)])
        BY <1>8, <4>1
      <4> QED
        BY <4>1, <4>2
    <3> QED
      BY <3>1, <3>2
  <2> QED
    BY <1>2, <1>6, <2>1, <2>2 DEF Chain
<1>10. e[Len(all)] = SubSeq(s, 1, p + n)
  <2>1. m \in 0 .. m /\ cut[m] = n /\ Len(all) = l + m
    BY <1>2, <1>3
  <2> QED
    BY <1>5, <2>1
<1>11. AllReach(e, all)
  <2>1. ASSUME NEW k \in 1 .. l
        PROVE  Reaches(e[k - 1], all[k])
    <3>1. k - 1 \in 0 .. l
      BY <1>2
    <3> QED
      BY <1>1, <1>2, <1>4, <3>1 DEF AllReach, l
  <2>2. ASSUME NEW k \in 1 .. m
        PROVE  Reaches(e[l + k - 1], all[l + k])
    <3>1. k - 1 \in 0 .. m /\ l + k - 1 = l + (k - 1)
      BY <1>2
    <3>2. cut[k - 1] \in 0 .. n /\ all[l + k] = Copy(offset, cut[k] - cut[k - 1])
      BY <1>2, <1>3, <3>1
    <3>3. e[l + k - 1] = SubSeq(s, 1, p + cut[k - 1])
      BY <1>5, <3>1
    <3>4. p + cut[k - 1] \in Nat /\ p + cut[k - 1] <= Len(s) /\ offset <= p + cut[k - 1]
      BY <3>2
    <3>5. Len(SubSeq(s, 1, p + cut[k - 1])) = p + cut[k - 1]
      BY <3>4
    <3> QED
      BY <3>2, <3>3, <3>4, <3>5 DEF Reaches, Copy
  <2>3. ASSUME NEW k \in 1 .. l + m
        PROVE  Reaches(e[k - 1], all[k])
    <3>1. CASE k \in 1 .. l
      BY <2>1, <3>1
    <3>2. CASE k \notin 1 .. l
      <4>1. k - l \in 1 .. m /\ l + (k - l) = k /\ l + (k - l) - 1 = k - 1
        <5>1. l \in Nat /\ m \in Nat
          BY <1>2
        <5> QED
          BY <3>2, <5>1
      <4>2. Reaches(e[l + (k - l) - 1], all[l + (k - l)])
        BY <2>2, <4>1
      <4> QED
        BY <4>1, <4>2
    <3> QED
      BY <3>1, <3>2
  <2> QED
    BY <1>2, <2>3 DEF AllReach
<1> QED
  BY <1>9, <1>10, <1>11 DEF StandsFor, all

-----------------------------------------------------------------------------
(* What is emitted: the copies are those that emit_copy_less_than64 takes. *)
Items ==
  [kind : {"literal"}, bytes : Seq(Bytes) \ {<<>>}]
    \cup [kind : {"copy"}, offset : Nat \ {0}, len : 4 .. 64]

(* emit_copy cuts a match of at least four bytes into such copies: what    *)
(* is left after those of 64 bytes is 4 to 67 bytes, and after one of 60   *)
(* still more than four.                                                   *)
LEMMA EmitCopyCuts ==
  ASSUME NEW offset \in Nat \ {0}, NEW len \in Nat, len >= 4
  PROVE  /\ EmitCopy(offset, len) \in Seq(Items)
         /\ \E cut : Cuts(cut, EmitCopy(offset, len), offset, len)
<1> DEFINE full == IF len >= 68 THEN (len - 4) \div 64 ELSE 0
           rest == len - 64 * full
           sixtyFours == [k \in 1 .. full |-> Copy(offset, 64)]
           tail == IF rest > 64 THEN <<Copy(offset, 60), Copy(offset, rest - 60)>>
                   ELSE <<Copy(offset, rest)>>
           more == sixtyFours \o tail
           cut == [k \in 0 .. Len(more) |->
                     IF k <= full THEN 64 * k
                     ELSE IF k = Len(more) THEN len ELSE 64 * full + 60]
<1>1. full \in Nat /\ rest \in 4 .. 67
  <2>1. CASE len >= 68
    <3>1. len - 4 \in Nat
      BY <2>1
    <3>2. \A b \in Nat : b \div 64 \in Nat /\ b % 64 \in 0 .. 63 /\ b = (b \div 64) * 64 + (b % 64)
      OBVIOUS
    <3> QED
      BY <2>1, <3>1, <3>2
  <2>2. CASE len < 68
    BY <2>2
  <2> QED
    BY <2>1, <2>2
<1>2. len = 64 * full + rest
  BY <1>1
<1>3. EmitCopy(offset, len) = more
  BY DEF EmitCopy
<1> HIDE DEF full
<1>4. \A n \in 4 .. 64 : Copy(offset, n) \in Items
  BY DEF Copy, Items
<1>5. sixtyFours \in Seq(Items) /\ Len(sixtyFours) = full /\ \A k \in 1 .. full : sixtyFours[k] = Copy(offset, 64)
  BY <1>1, <1>4
<1> HIDE DEF sixtyFours, rest
<1>6. CASE rest > 64
  <2>1. tail = <<Copy(offset, 60), Copy(offset, rest - 60)>>
    BY <1>6
  <2>2. rest - 60 \in 4 .. 64 /\ 60 \in 4 .. 64
    BY <1>1, <1>6
  <2>3. tail \in Seq(Items) /\ Len(tail) = 2
    BY <1>4, <2>1, <2>2
  <2> HIDE DEF tail
  <2>4. /\ more \in Seq(Items) /\ Len(more) = full + 2
        /\ \A k \in 1 .. full : more[k] = Copy(offset, 64)
        /\ more[full + 1] = Copy(offset, 60) /\ more[full + 2] = Copy(offset, rest - 60)
    BY <1>1, <1>5, <2>1, <2>3
  <2> HIDE DEF more
  <2>5. /\ cut = [k \in 0 .. full + 2 |->
                    IF k <= full THEN 64 * k ELSE IF k = full + 2 THEN len ELSE 64 * full + 60]
    BY <2>4
  <2>6. /\ cut \in [0 .. full + 2 -> 0 .. len]
        /\ cut[0] = 0 /\ cut[full + 2] = len /\ cut[full + 1] = 64 * full + 60
        /\ \A k \in 0 .. full : cut[k] = 64 * k
    BY <1>1, <1>2, <2>2, <2>5
  <2> HIDE DEF cut
  <2>7. ASSUME NEW k \in 1 .. full + 2
        PROVE  cut[k - 1] <= cut[k] /\ more[k] = Copy(offset, cut[k] - cut[k - 1])
    <3>1. CASE k \in 1 .. full
      <4>1. k - 1 \in 0 .. full /\ k \in 0 .. full
        BY <1>1, <3>1
      <4>2. cut[k - 1] = 64 * (k - 1) /\ cut[k] = 64 * k
        BY <2>6, <4>1
      <4>3. 64 * (k - 1) <= 64 * k /\ 64 * k - 64 * (k - 1) = 64
        OBVIOUS
      <4> QED
        BY <2>4, <3>1, <4>2, <4>3
    <3>2. CASE k = full + 1
      <4>1. k - 1 = full /\ full \in 0 .. full
        BY <1>1, <3>2
      <4>2. cut[k - 1] = 64 * full /\ cut[k] = 64 * full + 60
        BY <2>6, <3>2, <4>1
      <4>3. cut[k - 1] <= cut[k] /\ cut[k] - cut[k - 1] = 60
        BY <1>1, <4>2
      <4>4. more[k] = Copy(offset, 60)
        BY <2>4, <3>2
      <4> QED
        BY <4>3, <4>4
    <3>3. CASE k = full + 2
      <4>1. k - 1 = full + 1
        BY <1>1, <3>3
      <4>2. cut[k - 1] = 64 * full + 60 /\ cut[k] = len
        BY <2>6, <3>3, <4>1
      <4>3. 64 * full + 60 <= len /\ len - (64 * full + 60) = rest - 60
        BY <1>1, <1>2, <2>2
      <4> QED
        BY <2>4, <3>3, <4>2, <4>3
    <3> QED
      BY <1>1, <3>1, <3>2, <3>3
  <2>8. Cuts(cut, more, offset, len)
    BY <2>4, <2>6, <2>7 DEF Cuts
  <2> QED
    BY <1>3, <2>4, <2>8
<1>7. CASE rest <= 64
  <2>1. tail = <<Copy(offset, rest)>>
    BY <1>1, <1>7
  <2>2. rest \in 4 .. 64
    BY <1>1, <1>7
  <2>3. tail \in Seq(Items) /\ Len(tail) = 1
    BY <1>4, <2>1, <2>2
  <2> HIDE DEF tail
  <2>4. /\ more \in Seq(Items) /\ Len(more) = full + 1
        /\ \A k \in 1 .. full : more[k] = Copy(offset, 64)
        /\ more[full + 1] = Copy(offset, rest)
    BY <1>1, <1>5, <2>1, <2>3
  <2> HIDE DEF more
  <2>5. /\ cut = [k \in 0 .. full + 1 |->
                    IF k <= full THEN 64 * k ELSE IF k = full + 1 THEN len ELSE 64 * full + 60]
    BY <2>4
  <2>6. /\ cut \in [0 .. full + 1 -> 0 .. len]
        /\ cut[0] = 0 /\ cut[full + 1] = len
        /\ \A k \in 0 .. full : cut[k] = 64 * k
    BY <1>1, <1>2, <2>2, <2>5
  <2> HIDE DEF cut
  <2>7. ASSUME NEW k \in 1 .. full + 1
        PROVE  cut[k - 1] <= cut[k] /\ more[k] = Copy(offset, cut[k] - cut[k - 1])
    <3>1. CASE k \in 1 .. full
      <4>1. k - 1 \in 0 .. full /\ k \in 0 .. full
        BY <1>1, <3>1
      <4>2. cut[k - 1] = 64 * (k - 1) /\ cut[k] = 64 * k
        BY <2>6, <4>1
      <4>3. 64 * (k - 1) <= 64 * k /\ 64 * k - 64 * (k - 1) = 64
        OBVIOUS
      <4> QED
        BY <2>4, <3>1, <4>2, <4>3
    <3>2. CASE k = full + 1
      <4>1. k - 1 = full /\ full \in 0 .. full
        BY <1>1, <3>2
      <4>2. cut[k - 1] = 64 * full /\ cut[k] = len
        BY <2>6, <3>2, <4>1
      <4>3. 64 * full <= len /\ len - 64 * full = rest
        BY <1>1, <1>2, <2>2
      <4> QED
        BY <2>4, <3>2, <4>2, <4>3
    <3> QED
      BY <1>1, <3>1, <3>2
  <2>8. Cuts(cut, more, offset, len)
    BY <2>4, <2>6, <2>7 DEF Cuts
  <2> QED
    BY <1>3, <2>4, <2>8
<1> QED
  BY <1>1, <1>6, <1>7

-----------------------------------------------------------------------------
(* The match found from two positions on, the second one behind the first. *)
LEMMA MatchFound ==
  ASSUME NEW s1 \in Nat, NEW s2 \in Nat, s1 < s2, s2 <= N, input \in Seq(Bytes)
  PROVE  /\ MatchLength(s1, s2) \in 0 .. N - s2
         /\ Repeats(input, s2, s2 - s1, MatchLength(s1, s2))
<1> DEFINE Agree(n) == \A k \in 1 .. n : input[s1 + k] = input[s2 + k]
           Ends(n) == s2 + n < N => input[s1 + n + 1] # input[s2 + n + 1]
           T == {n \in 0 .. N - s2 : Ends(n)}
<1>1. N \in Nat /\ N - s2 \in Nat
  BY DEF N
<1>2. PICK m \in T : \A k \in T : ~ (k < m)
  <2>1. N - s2 \in T /\ T \subseteq Nat
    BY <1>1
  <2> HIDE DEF T
  <2> QED
    BY <2>1, Least
<1>3. ASSUME NEW k \in 1 .. m
      PROVE  input[s1 + k] = input[s2 + k]
  <2>1. k - 1 \in 0 .. N - s2 /\ k - 1 < m
    BY <1>1, <1>2
  <2>2. ~ Ends(k - 1)
    BY <1>2, <2>1
  <2>3. s1 + (k - 1) + 1 = s1 + k /\ s2 + (k - 1) + 1 = s2 + k
    OBVIOUS
  <2> QED
    BY <2>2, <2>3
<1>4. m \in 0 .. N - s2 /\ Agree(m) /\ Ends(m)
  BY <1>2, <1>3
<1>5. MatchLength(s1, s2) = CHOOSE n \in 0 .. N - s2 : Agree(n) /\ Ends(n)
  BY DEF MatchLength
<1> HIDE DEF Agree, Ends
<1>6. MatchLength(s1, s2) \in 0 .. N - s2 /\ Agree(MatchLength(s1, s2))
  BY <1>4, <1>5
<1>7. ASSUME NEW n \in 0 .. N - s2, Agree(n)
      PROVE  Repeats(input, s2, s2 - s1, n)
  <2> SUFFICES ASSUME NEW k \in 1 .. n
               PROVE  input[s2 + k] = input[s2 - (s2 - s1) + k]
    BY DEF Repeats
  <2>1. s2 - (s2 - s1) + k = s1 + k
    OBVIOUS
  <2> QED
    BY <1>7, <2>1 DEF Agree
<1> QED
  BY <1>6, <1>7

(* Four equal bytes.                                                       *)
LEMMA FourEqual ==
  ASSUME NEW p \in Nat, NEW q \in Nat, p < q, q + 4 <= N, input \in Seq(Bytes),
         Four(p) = Four(q)
  PROVE  Repeats(input, q, q - p, 4)
<1>1. N \in Nat
  BY DEF N
<1>2. ASSUME NEW r \in Nat, r + 4 <= N
      PROVE  Four(r) = [k \in 1 .. 4 |-> input[r + k]]
  BY <1>1, <1>2 DEF Four, N
<1>3. [k \in 1 .. 4 |-> input[p + k]] = [k \in 1 .. 4 |-> input[q + k]]
  <2>1. p + 4 <= N
    BY <1>1
  <2>2. Four(p) = [k \in 1 .. 4 |-> input[p + k]] /\ Four(q) = [k \in 1 .. 4 |-> input[q + k]]
    BY <1>2, <2>1
  <2> QED
    BY <2>2
<1>4. \A k \in 1 .. 4 : input[p + k] = input[q + k]
  BY <1>3
<1>5. \A k \in 1 .. 4 : q - (q - p) + k = p + k
  OBVIOUS
<1> QED
  BY <1>4, <1>5 DEF Repeats

(* The match of CopyMatch, longer than the four bytes it began with.       *)
LEMMA WholeMatch ==
  ASSUME NEW p \in Nat, NEW q \in Nat, p < q, q + 4 <= N, input \in Seq(Bytes),
         Four(p) = Four(q)
  PROVE  /\ MatchLength(p + 4, q + 4) \in 0 .. N - (q + 4)
         /\ Repeats(input, q, q - p, 4 + MatchLength(p + 4, q + 4))
<1>1. p + 4 \in Nat /\ q + 4 \in Nat /\ p + 4 < q + 4 /\ (q + 4) - (p + 4) = q - p
  OBVIOUS
<1>2. PICK n \in 0 .. N - (q + 4) : n = MatchLength(p + 4, q + 4) /\ Repeats(input, q + 4, q - p, n)
  BY <1>1, MatchFound
<1>3. Repeats(input, q, q - p, 4)
  BY FourEqual
<1>4. Repeats(input, q, q - p, 4 + n)
  <2> SUFFICES ASSUME NEW k \in 1 .. 4 + n
               PROVE  input[q + k] = input[q - (q - p) + k]
    BY DEF Repeats
  <2>0. N \in Nat
    BY DEF N
  <2>1. CASE k <= 4
    <3>1. k \in 1 .. 4
      BY <2>0, <2>1
    <3> QED
      BY <1>3, <3>1 DEF Repeats
  <2>2. CASE k > 4
    <3>1. k - 4 \in 1 .. n
      BY <2>0, <2>2
    <3>2. input[q + 4 + (k - 4)] = input[q + 4 - (q - p) + (k - 4)]
      BY <1>2, <3>1 DEF Repeats
    <3>3. q + 4 + (k - 4) = q + k /\ q + 4 - (q - p) + (k - 4) = q - (q - p) + k
      BY <2>0
    <3> QED
      BY <3>2, <3>3
  <2> QED
    BY <2>0, <2>1, <2>2
<1> QED
  BY <1>2, <1>4

-----------------------------------------------------------------------------
(* The hash function's range: hash_bytes shifts its product so that what   *)
(* is left indexes the table.                                              *)
HashInRange == \A four \in [1 .. 4 -> Bytes] : Hash(four) \in Hashes

(* The scan, the search for a match right behind the last one, and the     *)
(* rest: where the pointers are, and what the table holds.                 *)
Scanning ==
  /\ next_ip \in Nat /\ 0 < next_ip /\ next_ip <= Limit + 1
  /\ next_emit < next_ip
  /\ next_hash \in Hashes
  /\ skip_bytes \in Nat /\ SkipBytes <= skip_bytes
  /\ table \in [Hashes -> Nat]
  /\ \A h \in Hashes : table[h] < next_ip

Copying ==
  /\ ip \in Nat /\ ip < Limit /\ next_emit <= ip
  /\ candidate \in Nat /\ candidate < ip
  /\ Four(candidate) = Four(ip)
  /\ table \in [Hashes -> Nat]
  /\ \A h \in Hashes : table[h] <= ip

Starting ==
  /\ next_emit = 0
  /\ table = [h \in Hashes |-> 0]

(* What is emitted is a sequence of items that stands for the input before *)
(* Emitted; the rest is what makes the next items stand for what follows.  *)
IInv ==
  /\ input \in Seq(Bytes)
  /\ out \in Seq(Items)
  /\ pc \in {"idle", "start", "scan", "copy", "remainder", "done"}
  /\ next_emit \in 0 .. N
  /\ StandsFor(out, SubSeq(input, 1, Emitted))
  /\ pc = "start" => Starting
  /\ pc = "scan" => Scanning
  /\ pc = "copy" => Copying

(* The margin, and what the constants are.                                 *)
LEMMA Sizes ==
  ASSUME input \in Seq(Bytes)
  PROVE  /\ N \in Nat /\ Limit \in Int /\ Limit + 15 <= N
         /\ SkipBytes \in Nat /\ SkipBytes > 0 /\ Margin \in Nat
BY FragmentAssumption DEF N, Limit

(* A hash taken within the input is one of the table's.                    *)
LEMMA HashAtInRange ==
  ASSUME HashInRange, input \in Seq(Bytes), NEW p \in Nat, p + 4 <= N
  PROVE  HashAt(p) \in Hashes
<1>1. Four(p) = [k \in 1 .. 4 |-> input[p + k]]
  BY DEF Four, N
<1>2. \A k \in 1 .. 4 : input[p + k] \in Bytes
  BY DEF N
<1>3. Four(p) \in [1 .. 4 -> Bytes]
  BY <1>1, <1>2
<1> QED
  BY <1>3 DEF HashAt, HashInRange

(* No bytes.                                                               *)
LEMMA Nothing ==
  ASSUME NEW s \in Seq(Bytes)
  PROVE  SubSeq(s, 1, 0) = <<>>
OBVIOUS

(* A literal is one more item.                                             *)
LEMMA OneMoreLiteral ==
  ASSUME IInv, NEW p \in Nat, NEW q \in Nat, p < q, q <= N, StandsFor(out, SubSeq(input, 1, p))
  PROVE  /\ Append(out, Literal(p, q)) \in Seq(Items)
         /\ StandsFor(Append(out, Literal(p, q)), SubSeq(input, 1, q))
<1>1. input \in Seq(Bytes) /\ out \in Seq(Items)
  BY DEF IInv
<1>2. SubSeq(input, p + 1, q) \in Seq(Bytes) \ {<<>>}
  <2>1. p <= q /\ q <= Len(input)
    BY DEF N
  <2>2. SubSeq(input, p + 1, q) \in Seq(Bytes) /\ Len(SubSeq(input, p + 1, q)) = q - p
    BY <1>1, <2>1, Part
  <2>3. q - p # 0
    OBVIOUS
  <2> QED
    BY <2>2, <2>3
<1>3. Literal(p, q) \in Items
  BY <1>2 DEF Literal, Items
<1>4. DecodeItem(SubSeq(input, 1, p), Literal(p, q)) = SubSeq(input, 1, q)
  <2>1. p <= q /\ q <= Len(input)
    BY DEF N
  <2>2. \A item : item = [kind |-> "literal", bytes |-> SubSeq(input, p + 1, q)] =>
                    DecodeItem(SubSeq(input, 1, p), item) = SubSeq(input, 1, q)
    BY <1>1, <2>1, LiteralDecodes
  <2> QED
    BY <2>2 DEF Literal
<1>5. StandsFor(Append(out, Literal(p, q)), SubSeq(input, 1, q))
  <2>1. Reaches(SubSeq(input, 1, p), Literal(p, q))
    BY DEF Reaches, Literal
  <2> QED
    BY <1>1, <1>3, <1>4, <2>1, OneMoreItem
<1> QED
  BY <1>1, <1>3, <1>5

-----------------------------------------------------------------------------
(* Before the first call.                                                  *)
LEMMA InitHolds == Init => IInv
<1> SUFFICES ASSUME Init
             PROVE  IInv
  OBVIOUS
<1>1. input = <<>> /\ pc = "idle" /\ next_emit = 0 /\ out = <<>>
  BY DEF Init
<1>2. N = 0 /\ Emitted = 0 /\ SubSeq(input, 1, 0) = <<>>
  BY <1>1 DEF N, Emitted
<1>3. StandsFor(out, SubSeq(input, 1, Emitted))
  BY <1>1, <1>2, NothingStandsForNothing
<1>4. input \in Seq(Bytes) /\ out \in Seq(Items) /\ next_emit \in 0 .. N
  BY <1>1, <1>2
<1> QED
  BY <1>1, <1>3, <1>4 DEF IInv

(* A call starts with nothing emitted and a clear table.                   *)
LEMMA BeginKeeps ==
  ASSUME NEW block \in Seq(Bytes), Begin(block)
  PROVE  IInv'
<1>1. input' = block /\ pc' = "start" /\ next_emit' = 0 /\ out' = <<>>
      /\ table' = [h \in Hashes |-> 0]
  BY DEF Begin
<1>2. N' \in Nat /\ Emitted' = 0 /\ SubSeq(input', 1, 0) = <<>>
  BY <1>1 DEF N, Emitted
<1>3. StandsFor(out', SubSeq(input', 1, Emitted'))
  BY <1>1, <1>2, NothingStandsForNothing
<1>4. out' \in Seq(Items) /\ next_emit' \in 0 .. N'
  BY <1>1, <1>2
<1>5. Starting'
  BY <1>1 DEF Starting
<1> QED
  BY <1>1, <1>3, <1>4, <1>5 DEF IInv

(* A fragment that is scanned has at least the margin.                     *)
LEMMA StartKeeps ==
  ASSUME HashInRange, IInv, Start
  PROVE  IInv'
<1>1. /\ pc = "start" /\ input' = input /\ next_emit' = next_emit /\ table' = table
      /\ out' = out /\ N' = N /\ Limit' = Limit
  BY DEF Start, N, Limit
<1>2. next_emit = 0 /\ table = [h \in Hashes |-> 0] /\ Emitted = next_emit
  BY <1>1 DEF IInv, Starting, Emitted
<1>3. N \in Nat /\ Limit \in Int /\ Limit + 15 <= N /\ SkipBytes \in Nat /\ Margin \in Nat
  BY Sizes DEF IInv
<1>4. CASE pc' = "remainder"
  <2>1. Emitted' = Emitted
    BY <1>1, <1>2, <1>4 DEF Emitted
  <2> QED
    BY <1>1, <1>4, <2>1 DEF IInv
<1>5. CASE pc' = "scan"
  <2>1. N >= Margin /\ ScanFrom(1)
    BY <1>5 DEF Start
  <2>2. Margin >= 15
    BY FragmentAssumption
  <2>3. Limit >= 0 /\ 1 + 4 <= N
    BY <1>3, <2>1, <2>2 DEF Limit
  <2>4. HashAt(1) \in Hashes
    BY <1>3, <2>3, HashAtInRange DEF IInv
  <2>5. next_ip' = 1 /\ next_hash' = HashAt(1) /\ skip_bytes' = SkipBytes
    BY <2>1 DEF ScanFrom
  <2>6. Scanning'
    BY <1>1, <1>2, <1>3, <2>3, <2>4, <2>5 DEF Scanning
  <2>7. Emitted' = Emitted
    BY <1>1, <1>2, <1>5 DEF Emitted
  <2> QED
    BY <1>1, <1>5, <2>6, <2>7 DEF IInv
<1> QED
  BY <1>4, <1>5 DEF Start, ScanFrom

(* A scan moves on, and past the limit it ends; a match has a literal      *)
(* before it.                                                              *)
LEMMA ScanKeeps ==
  ASSUME HashInRange, IInv, Scan
  PROVE  IInv'
<1> DEFINE ahead == next_ip + skip_bytes \div SkipBytes
           found == table[next_hash]
<1>1. /\ pc = "scan" /\ input' = input /\ next_emit' = next_emit /\ ip' = next_ip
      /\ next_ip' = ahead /\ skip_bytes' = skip_bytes + 1
      /\ N' = N /\ Limit' = Limit
  BY DEF Scan, N, Limit
<1>2. \/ /\ ahead > Limit /\ pc' = "remainder" /\ out' = out
      \/ /\ ~ (ahead > Limit) /\ next_hash' = HashAt(ahead) /\ candidate' = found
         /\ table' = [table EXCEPT ![next_hash] = next_ip]
         /\ \/ pc' = pc /\ out' = out
            \/ /\ Four(found) = Four(next_ip) /\ pc' = "copy"
               /\ out' = Append(out, Literal(next_emit, next_ip))
  BY DEF Scan, PastLimit
<1>3. N \in Nat /\ Limit \in Int /\ Limit + 15 <= N /\ SkipBytes \in Nat /\ SkipBytes > 0
  BY Sizes DEF IInv
<1>4. /\ next_ip \in Nat /\ 0 < next_ip /\ next_ip <= Limit + 1 /\ next_emit < next_ip
      /\ next_hash \in Hashes /\ skip_bytes \in Nat /\ SkipBytes <= skip_bytes
      /\ table \in [Hashes -> Nat] /\ \A h \in Hashes : table[h] < next_ip
  BY <1>1 DEF IInv, Scanning
<1>5. input \in Seq(Bytes) /\ out \in Seq(Items) /\ next_emit \in 0 .. N
      /\ StandsFor(out, SubSeq(input, 1, next_emit))
  BY <1>1 DEF IInv, Emitted
<1>6. ahead \in Nat /\ next_ip < ahead
  <2>1. skip_bytes \div SkipBytes \in Nat /\ skip_bytes \div SkipBytes > 0
    BY <1>3, <1>4
  <2> QED
    BY <1>4, <2>1
<1>7. found \in Nat /\ found < next_ip
  BY <1>4
<1> HIDE DEF ahead, found
<1>8. CASE ahead > Limit /\ pc' = "remainder" /\ out' = out
  <2>1. Emitted' = next_emit
    BY <1>1, <1>8 DEF Emitted
  <2> QED
    BY <1>1, <1>5, <1>8, <2>1 DEF IInv
<1>9. ASSUME ~ (ahead > Limit), next_hash' = HashAt(ahead), candidate' = found,
             table' = [table EXCEPT ![next_hash] = next_ip]
      PROVE  /\ next_hash' \in Hashes /\ next_ip' <= Limit + 1 /\ next_ip < Limit
             /\ table' \in [Hashes -> Nat] /\ \A h \in Hashes : table'[h] <= next_ip
  <2>1. ahead + 4 <= N /\ next_ip < Limit /\ ahead <= Limit + 1
    BY <1>3, <1>4, <1>6, <1>9
  <2>2. HashAt(ahead) \in Hashes
    BY <1>5, <1>6, <2>1, HashAtInRange
  <2>3. table' \in [Hashes -> Nat] /\ \A h \in Hashes : table'[h] <= next_ip
    BY <1>4, <1>9
  <2> QED
    BY <1>1, <1>9, <2>1, <2>2, <2>3
<1>10. CASE /\ ~ (ahead > Limit) /\ next_hash' = HashAt(ahead) /\ candidate' = found
            /\ table' = [table EXCEPT ![next_hash] = next_ip]
            /\ pc' = pc /\ out' = out
  <2>1. /\ next_hash' \in Hashes /\ next_ip' <= Limit + 1 /\ table' \in [Hashes -> Nat]
        /\ \A h \in Hashes : table'[h] <= next_ip
    BY <1>9, <1>10
  <2>2. \A h \in Hashes : table'[h] < next_ip'
    BY <1>1, <1>4, <1>6, <2>1
  <2>3. Scanning'
    BY <1>1, <1>3, <1>4, <1>5, <1>6, <2>1, <2>2 DEF Scanning
  <2>4. Emitted' = next_emit
    BY <1>1, <1>10 DEF Emitted
  <2> QED
    BY <1>1, <1>5, <1>10, <2>3, <2>4 DEF IInv
<1>11. CASE /\ ~ (ahead > Limit) /\ next_hash' = HashAt(ahead) /\ candidate' = found
            /\ table' = [table EXCEPT ![next_hash] = next_ip]
            /\ Four(found) = Four(next_ip) /\ pc' = "copy"
            /\ out' = Append(out, Literal(next_emit, next_ip))
  <2>1. /\ next_ip < Limit /\ table' \in [Hashes -> Nat] /\ \A h \in Hashes : table'[h] <= next_ip
    BY <1>9, <1>11
  <2>2. Four(candidate)' = Four(ip)'
    BY <1>1, <1>11 DEF Four
  <2>3. Copying'
    BY <1>1, <1>3, <1>4, <1>5, <1>7, <1>11, <2>1, <2>2 DEF Copying
  <2>4. next_ip <= N
    BY <1>3, <1>4
  <2>5. out' \in Seq(Items) /\ StandsFor(out', SubSeq(input, 1, next_ip))
    BY <1>4, <1>5, <1>11, <2>4, OneMoreLiteral
  <2>6. Emitted' = next_ip
    BY <1>1, <1>11 DEF Emitted
  <2> QED
    BY <1>1, <1>5, <1>11, <2>3, <2>5, <2>6 DEF IInv
<1> QED
  BY <1>2, <1>8, <1>10, <1>11

(* A match as copies, and the entries made behind it.                      *)
LEMMA CopyMatchKeeps ==
  ASSUME HashInRange, IInv, CopyMatch
  PROVE  IInv'
<1> DEFINE matched == 4 + MatchLength(candidate + 4, ip + 4)
           end == ip + matched
           tail == [table EXCEPT ![HashAt(end - 1)] = end - 1]
           found == tail[HashAt(end)]
           copies == EmitCopy(ip - candidate, matched)
<1>1. /\ pc = "copy" /\ input' = input /\ next_emit' = end /\ out' = out \o copies
      /\ N' = N /\ Limit' = Limit
  BY DEF CopyMatch, N, Limit
<1>2. \/ end >= Limit /\ pc' = "remainder"
      \/ /\ end < Limit /\ candidate' = found
         /\ table' = [tail EXCEPT ![HashAt(end)] = end]
         /\ \/ Four(found) = Four(end) /\ ip' = end /\ pc' = pc
            \/ ScanFrom(end + 1)
  BY DEF CopyMatch
<1>3. N \in Nat /\ Limit \in Int /\ Limit + 15 <= N /\ SkipBytes \in Nat /\ SkipBytes > 0
  BY Sizes DEF IInv
<1>4. /\ ip \in Nat /\ ip < Limit /\ candidate \in Nat /\ candidate < ip
      /\ Four(candidate) = Four(ip)
      /\ table \in [Hashes -> Nat] /\ \A h \in Hashes : table[h] <= ip
  BY <1>1 DEF IInv, Copying
<1>5. input \in Seq(Bytes) /\ out \in Seq(Items) /\ StandsFor(out, SubSeq(input, 1, ip))
  BY <1>1 DEF IInv, Emitted
<1>6. /\ matched \in Nat /\ matched >= 4 /\ ip + matched <= N
      /\ Repeats(input, ip, ip - candidate, matched)
  <2>1. ip + 4 <= N
    BY <1>3, <1>4
  <2>2. /\ MatchLength(candidate + 4, ip + 4) \in 0 .. N - (ip + 4)
        /\ Repeats(input, ip, ip - candidate, matched)
    BY <1>4, <1>5, <2>1, WholeMatch
  <2> QED
    BY <1>3, <1>4, <2>2
<1> HIDE DEF matched
<1>7. end \in Nat /\ ip + 4 <= end /\ end <= N /\ end - 1 \in Nat
  BY <1>4, <1>6
<1>8. out' \in Seq(Items) /\ StandsFor(out', SubSeq(input, 1, end))
  <2>1. ip - candidate \in Nat \ {0} /\ ip - candidate \in Nat /\ ip - candidate > 0 /\ ip - candidate <= ip
    BY <1>4
  <2>2. copies \in Seq(Items) /\ \E cut : Cuts(cut, copies, ip - candidate, matched)
    BY <1>6, <2>1, EmitCopyCuts
  <2>3. PICK cut : Cuts(cut, copies, ip - candidate, matched)
    BY <2>2
  <2>4. ip + matched <= Len(input)
    BY <1>6 DEF N
  <2> HIDE DEF copies
  <2>5. StandsFor(out \o copies, SubSeq(input, 1, ip + matched))
    BY <1>4, <1>5, <1>6, <2>1, <2>2, <2>3, <2>4, MoreCopies
  <2> QED
    BY <1>1, <1>5, <2>2, <2>5
<1> HIDE DEF end
<1>9. ASSUME end < Limit
      PROVE  /\ end + 1 + 4 <= N /\ HashAt(end) \in Hashes /\ HashAt(end + 1) \in Hashes
             /\ tail \in [Hashes -> Nat] /\ \A h \in Hashes : tail[h] < end
             /\ found \in Nat /\ found < end
  <2>1. /\ end - 1 \in Nat /\ end \in Nat /\ end + 1 \in Nat
        /\ end - 1 + 4 <= N /\ end + 4 <= N /\ end + 1 + 4 <= N
    BY <1>3, <1>7, <1>9
  <2>2. HashAt(end - 1) \in Hashes /\ HashAt(end) \in Hashes /\ HashAt(end + 1) \in Hashes
    BY <1>5, <2>1, HashAtInRange
  <2>3. tail \in [Hashes -> Nat]
    BY <1>4, <2>1
  <2>4. \A h \in Hashes : tail[h] = table[h] \/ tail[h] = end - 1
    BY <1>4, <2>2
  <2>5. \A h \in Hashes : table[h] \in Nat /\ table[h] < end
    BY <1>4, <1>7
  <2>6. \A h \in Hashes : tail[h] < end
    BY <1>7, <2>4, <2>5
  <2> HIDE DEF tail
  <2>7. found \in Nat /\ found < end
    BY <2>2, <2>3, <2>6
  <2> QED
    BY <2>1, <2>2, <2>3, <2>6, <2>7
<1> HIDE DEF tail, found, copies
<1>10. ASSUME end < Limit, table' = [tail EXCEPT ![HashAt(end)] = end]
       PROVE  table' \in [Hashes -> Nat] /\ \A h \in Hashes : table'[h] <= end
  <2>1. /\ HashAt(end) \in Hashes /\ tail \in [Hashes -> Nat] /\ \A h \in Hashes : tail[h] < end
    BY <1>9, <1>10
  <2>2. table' \in [Hashes -> Nat] /\ \A h \in Hashes : table'[h] = tail[h] \/ table'[h] = end
    BY <1>7, <1>10, <2>1
  <2> QED
    BY <1>7, <2>1, <2>2
<1>11. CASE end >= Limit /\ pc' = "remainder"
  <2>1. Emitted' = end
    BY <1>1, <1>11 DEF Emitted
  <2> QED
    BY <1>1, <1>5, <1>7, <1>8, <1>11, <2>1 DEF IInv
<1>12. CASE /\ end < Limit /\ candidate' = found
            /\ table' = [tail EXCEPT ![HashAt(end)] = end]
            /\ Four(found) = Four(end) /\ ip' = end /\ pc' = pc
  <2>1. table' \in [Hashes -> Nat] /\ \A h \in Hashes : table'[h] <= end
    BY <1>10, <1>12
  <2>2. found \in Nat /\ found < end
    BY <1>9, <1>12
  <2>3. Four(candidate)' = Four(ip)'
    BY <1>1, <1>12 DEF Four
  <2>4. Copying'
    BY <1>1, <1>7, <1>12, <2>1, <2>2, <2>3 DEF Copying
  <2>5. Emitted' = end
    BY <1>1, <1>12 DEF Emitted
  <2> QED
    BY <1>1, <1>5, <1>7, <1>8, <1>12, <2>4, <2>5 DEF IInv
<1>13. CASE /\ end < Limit /\ candidate' = found
            /\ table' = [tail EXCEPT ![HashAt(end)] = end]
            /\ ScanFrom(end + 1)
  <2>1. table' \in [Hashes -> Nat] /\ \A h \in Hashes : table'[h] <= end
    BY <1>10, <1>13
  <2>2. /\ pc' = "scan" /\ next_ip' = end + 1 /\ next_hash' = HashAt(end + 1)
        /\ skip_bytes' = SkipBytes
    BY <1>13 DEF ScanFrom
  <2>3. HashAt(end + 1) \in Hashes
    BY <1>9, <1>13
  <2>4. \A h \in Hashes : table'[h] < next_ip'
    BY <1>7, <2>1, <2>2
  <2>5. Scanning'
    BY <1>1, <1>3, <1>7, <1>13, <2>1, <2>2, <2>3, <2>4 DEF Scanning
  <2>6. Emitted' = end
    BY <1>1, <2>2 DEF Emitted
  <2> QED
    BY <1>1, <1>5, <1>7, <1>8, <2>2, <2>5, <2>6 DEF IInv
<1> QED
  BY <1>2, <1>11, <1>12, <1>13

(* The rest as a literal.                                                  *)
LEMMA RemainderKeeps ==
  ASSUME IInv, Remainder
  PROVE  IInv'
<1>1. /\ pc = "remainder" /\ pc' = "done" /\ input' = input /\ next_emit' = N /\ N' = N
      /\ out' = IF next_emit < N THEN Append(out, Literal(next_emit, N)) ELSE out
  BY DEF Remainder, N
<1>2. /\ input \in Seq(Bytes) /\ out \in Seq(Items) /\ next_emit \in 0 .. N /\ N \in Nat
      /\ StandsFor(out, SubSeq(input, 1, next_emit))
  BY <1>1, Sizes DEF IInv, Emitted
<1>3. out' \in Seq(Items) /\ StandsFor(out', SubSeq(input, 1, N))
  <2>1. CASE next_emit < N
    BY <1>1, <1>2, <2>1, OneMoreLiteral
  <2>2. CASE ~ (next_emit < N)
    <3>1. next_emit = N
      BY <1>2, <2>2
    <3> QED
      BY <1>1, <1>2, <2>2, <3>1
  <2> QED
    BY <2>1, <2>2
<1>4. Emitted' = N
  BY <1>1 DEF Emitted
<1> QED
  BY <1>1, <1>2, <1>3, <1>4 DEF IInv

(* Nothing changes.                                                        *)
LEMMA UnchangedKeeps ==
  ASSUME IInv, UNCHANGED fragmentVars
  PROVE  IInv'
BY DEF fragmentVars, IInv, N, Emitted, Starting, Scanning, Copying, Limit, Four

-----------------------------------------------------------------------------
(* The invariant says what the properties say.                             *)
LEMMA InvariantImplies ==
  ASSUME IInv
  PROVE  DecodesToInput /\ CandidateBehind /\ WithinLimits
<1>1. DecodesToInput
  <2>1. StandsFor(out, SubSeq(input, 1, Emitted)) /\ Len(out) \in Nat
    BY DEF IInv
  <2>2. Decoded[Len(out)] = SubSeq(input, 1, Emitted)
    BY <2>1, DecodedIs
  <2> QED
    BY <2>2 DEF DecodesToInput
<1>2. CandidateBehind
  BY DEF IInv, CandidateBehind, Scanning, Copying
<1>3. WithinLimits
  <2>1. N \in Nat /\ Limit \in Int /\ Limit + 15 <= N
    BY Sizes DEF IInv
  <2>2. ASSUME NEW i \in DOMAIN out, out[i].kind = "copy"
        PROVE  out[i].len \in 4 .. 64
    <3>1. out[i] \in Items
      BY DEF IInv
    <3> QED
      BY <2>2, <3>1 DEF Items
  <2>3. pc = "scan" => next_ip + 6 <= N
    BY <2>1 DEF IInv, Scanning
  <2>4. pc = "copy" => ip + 4 <= N /\ next_emit + 16 <= N
    BY <2>1 DEF IInv, Copying
  <2> QED
    BY <2>2, <2>3, <2>4 DEF WithinLimits
<1> QED
  BY <1>1, <1>2, <1>3

(* The invariant holds at every step of every call.                        *)
THEOREM FragmentInvariant ==
  ASSUME HashInRange
  PROVE  FragmentSpec => []IInv
<1>1. Init => IInv
  BY InitHolds
<1>2. IInv /\ [FragmentNext]_fragmentVars => IInv'
  BY HashInRange, BeginKeeps, StartKeeps, ScanKeeps, CopyMatchKeeps, RemainderKeeps, UnchangedKeeps
     DEF FragmentNext, Step
<1> QED
  BY <1>1, <1>2, PTL DEF FragmentSpec

-----------------------------------------------------------------------------
(* The codec's blocks: sources of bytes, and what is read of them.         *)
Sources ==
  {s \in [iov : Seq(Seq(Bytes)), vec : Nat \ {0}, off : Nat] : s.vec <= Len(s.iov)}

(* peek gives bytes.                                                       *)
LEMMA PeekType ==
  ASSUME NEW s \in Sources
  PROVE  Peek(s) \in Seq(Bytes)
<1>1. s.iov[s.vec] \in Seq(Bytes) /\ s.off \in Nat
  BY DEF Sources
<1>2. CASE s.off < Len(s.iov[s.vec])
  BY <1>1, <1>2, Part DEF Peek
<1>3. CASE ~ (s.off < Len(s.iov[s.vec]))
  BY <1>3 DEF Peek
<1> QED
  BY <1>2, <1>3

(* skip stays within the source's pieces.                                  *)
LEMMA SkipType ==
  ASSUME NEW s \in Sources, NEW n \in Nat
  PROVE  Skip(s, n) \in Sources
<1>1. s.iov[s.vec] \in Seq(Bytes) /\ s.off + n \in Nat /\ Len(s.iov) \in Nat
  BY DEF Sources
<1>2. CASE s.off + n >= Len(s.iov[s.vec]) /\ s.vec < Len(s.iov)
  <2>1. Skip(s, n) = [iov |-> s.iov, vec |-> s.vec + 1, off |-> 0]
    BY <1>2 DEF Sources, Skip
  <2>2. s.iov \in Seq(Seq(Bytes)) /\ s.vec + 1 \in Nat \ {0} /\ s.vec + 1 <= Len(s.iov)
    <3>1. s.iov \in Seq(Seq(Bytes)) /\ s.vec \in Nat \ {0}
      BY DEF Sources
    <3> QED
      BY <1>1, <1>2, <3>1
  <2> QED
    BY <2>1, <2>2 DEF Sources
<1>3. CASE ~ (s.off + n >= Len(s.iov[s.vec]) /\ s.vec < Len(s.iov))
  BY <1>1, <1>3 DEF Sources, Skip
<1> QED
  BY <1>2, <1>3

(* Bytes that were stitched together, and the source behind them.          *)
Stitched == [bytes : Seq(Bytes), source : Sources]

(* One more piece.                                                         *)
LEMMA WithNextPieceType ==
  ASSUME NEW g \in Stitched, NEW n \in Nat
  PROVE  WithNextPiece(g, n) \in Stitched
<1> DEFINE m == Smaller(n - Len(g.bytes), Len(Peek(g.source)))
           bytes == SubSeq(Peek(g.source), 1, m)
<1>1. g.bytes \in Seq(Bytes) /\ g.source \in Sources
  BY DEF Stitched
<1>2. CASE Len(g.bytes) >= n
  BY <1>2 DEF WithNextPiece
<1>3. CASE ~ (Len(g.bytes) >= n)
  <2>1. Peek(g.source) \in Seq(Bytes)
    BY <1>1, PeekType
  <2>2. m \in Nat /\ m <= Len(Peek(g.source))
    BY <1>1, <1>3, <2>1 DEF Smaller
  <2> HIDE DEF m
  <2>3. bytes \in Seq(Bytes) /\ Len(bytes) \in Nat
    BY <2>1, <2>2
  <2> HIDE DEF bytes
  <2>4. Skip(g.source, Len(bytes)) \in Sources
    BY <1>1, <2>3, SkipType
  <2>5. g.bytes \o bytes \in Seq(Bytes)
    BY <1>1, <2>3
  <2>6. WithNextPiece(g, n) = [bytes |-> g.bytes \o bytes, source |-> Skip(g.source, Len(bytes))]
    BY <1>3 DEF WithNextPiece, bytes, m
  <2> QED
    BY <2>4, <2>5, <2>6 DEF Stitched, Sources
<1> QED
  BY <1>2, <1>3

(* Stitching takes one piece after another.                                *)
StitchSteps(after, s, have, n) ==
  /\ after \in [0 .. Len(s.iov) -> Stitched]
  /\ after[0] = [bytes |-> have, source |-> s]
  /\ \A i \in 1 .. Len(s.iov) : after[i] = WithNextPiece(after[i - 1], n)

(* Gathering, a step at a time.                                            *)
LEMMA GatherSteps ==
  ASSUME NEW s \in Sources, NEW have \in Seq(Bytes), NEW n \in Nat
  PROVE  \E after : /\ StitchSteps(after, s, have, n)
                    /\ Gather(s, have, n) = after[Len(s.iov) + 1 - s.vec]
<1> DEFINE m == Len(s.iov)
           k == m + 1 - s.vec
           b == [bytes |-> have, source |-> s]
           F(f) == [i \in 0 .. m |-> IF i = 0 THEN b ELSE WithNextPiece(f[i - 1], n)]
           after == CHOOSE f : f = F(f)
           w == [p \in Nat \X Stitched |-> WithNextPiece(p[2], n)]
<1>1. Gather(s, have, n) = after[k]
  BY DEF Gather
<1>2. m \in Nat /\ k \in 0 .. m
  BY DEF Sources
<1>3. b \in Stitched
  BY DEF Stitched, Sources
<1>4. w \in [Nat \X Stitched -> Stitched]
  BY WithNextPieceType
<1> HIDE DEF m, k, b
<1>5. \E f : f = F(f)
  <2> HIDE DEF w
  <2>1. PICK f \in [0 .. m -> Stitched] : Iterates(f, m, b, w)
    BY <1>2, <1>3, <1>4, IterationExists
  <2>2. \A i \in 1 .. m : f[i] = WithNextPiece(f[i - 1], n)
    <3> SUFFICES ASSUME NEW i \in 1 .. m
                 PROVE  f[i] = WithNextPiece(f[i - 1], n)
      OBVIOUS
    <3>1. f[i - 1] \in Stitched /\ i \in Nat
      BY <1>2
    <3>2. f[i] = w[<<i, f[i - 1]>>]
      BY <2>1 DEF Iterates
    <3> QED
      BY <3>1, <3>2 DEF w
  <2>3. f[0] = b /\ DOMAIN f = 0 .. m
    BY <2>1 DEF Iterates
  <2>4. \A i \in 0 .. m : f[i] = IF i = 0 THEN b ELSE WithNextPiece(f[i - 1], n)
    BY <1>2, <2>2, <2>3
  <2>5. f = [i \in 0 .. m |-> f[i]]
    OBVIOUS
  <2> QED
    BY <2>4, <2>5
<1>6. after = F(after)
  <2> HIDE DEF F
  <2> QED
    BY <1>5
<1>7. \A i \in 0 .. m : after[i] = IF i = 0 THEN b ELSE WithNextPiece(after[i - 1], n)
  <2> HIDE DEF after
  <2> QED
    BY <1>6
<1>8. after = [i \in 0 .. m |-> after[i]] /\ DOMAIN after = 0 .. m
  <2> HIDE DEF after
  <2> QED
    BY <1>6
<1> HIDE DEF after
<1>9. \A i \in 0 .. m : after[i] \in Stitched
  <2>1. after[0] \in Stitched
    BY <1>2, <1>3, <1>7
  <2>2. \A i \in 1 .. m : after[i - 1] \in Stitched => after[i] \in Stitched
    BY <1>2, <1>7, WithNextPieceType
  <2> QED
    BY <1>2, <2>1, <2>2, StepsStay
<1>10. after \in [0 .. m -> Stitched]
  <2>1. DOMAIN after = 0 .. m
    BY <1>8
  <2>2. after = [i \in 0 .. m |-> after[i]]
    BY <1>8
  <2> QED
    BY <1>9, <2>2
<1>11. after[0] = b /\ \A i \in 1 .. m : after[i] = WithNextPiece(after[i - 1], n)
  BY <1>2, <1>7
<1>12. StitchSteps(after, s, have, n)
  BY <1>10, <1>11 DEF StitchSteps, m, b
<1> QED
  BY <1>1, <1>12 DEF m, k

(* Stitching pieces together gives bytes, and leaves a source.             *)
LEMMA GatherType ==
  ASSUME NEW s \in Sources, NEW have \in Seq(Bytes), NEW n \in Nat
  PROVE  /\ Gather(s, have, n).bytes \in Seq(Bytes)
         /\ Gather(s, have, n).source \in Sources
<1>1. PICK after : /\ StitchSteps(after, s, have, n)
                   /\ Gather(s, have, n) = after[Len(s.iov) + 1 - s.vec]
  BY GatherSteps
<1>2. Len(s.iov) + 1 - s.vec \in 0 .. Len(s.iov)
  BY DEF Sources
<1>3. after[Len(s.iov) + 1 - s.vec] \in Stitched
  BY <1>1, <1>2 DEF StitchSteps
<1> QED
  BY <1>1, <1>3 DEF Stitched

(* A file, from its pieces: the first, and one after the other behind it.  *)
Joins(f, iov) ==
  /\ f \in [1 .. Len(iov) -> Seq(Bytes)]
  /\ f[1] = iov[1]
  /\ \A i \in 2 .. Len(iov) : f[i] = f[i - 1] \o iov[i]

(* The pieces of a source, one behind the other, a step at a time.         *)
LEMMA FlattenSteps ==
  ASSUME NEW iov \in Seq(Seq(Bytes)), iov # <<>>
  PROVE  \E f : Joins(f, iov) /\ FlattenSeq(iov) = f[Len(iov)]
<1> DEFINE n == Len(iov)
           F(f) == [i \in 1 .. n |-> IF i = 1 THEN iov[i] ELSE f[i - 1] \o iov[i]]
           flatten == CHOOSE f : f = F(f)
           w == [p \in Nat \X Seq(Bytes) |->
                   IF p[1] + 1 \in 1 .. n THEN p[2] \o iov[p[1] + 1] ELSE p[2]]
<1>1. n \in Nat /\ n > 0 /\ \A i \in 1 .. n : iov[i] \in Seq(Bytes)
  OBVIOUS
<1>2. FlattenSeq(iov) = flatten[n]
  BY <1>1 DEF FlattenSeq
<1>3. w \in [Nat \X Seq(Bytes) -> Seq(Bytes)]
  BY <1>1
<1> HIDE DEF n
<1>4. \E f : f = F(f)
  <2> HIDE DEF w
  <2>1. PICK h \in [0 .. n - 1 -> Seq(Bytes)] : Iterates(h, n - 1, iov[1], w)
    <3>1. n - 1 \in Nat /\ iov[1] \in Seq(Bytes)
      BY <1>1
    <3> QED
      BY <1>3, <3>1, IterationExists
  <2> DEFINE f == [i \in 1 .. n |-> h[i - 1]]
  <2>2. ASSUME NEW i \in 1 .. n
        PROVE  f[i] = IF i = 1 THEN iov[i] ELSE f[i - 1] \o iov[i]
    <3>1. CASE i = 1
      <4>1. h[0] = iov[1]
        BY <2>1 DEF Iterates
      <4> QED
        BY <1>1, <3>1, <4>1
    <3>2. CASE i # 1
      <4>1. i - 1 \in 1 .. n - 1 /\ i - 1 \in 1 .. n /\ i - 1 - 1 \in 0 .. n - 1
            /\ i - 1 \in Nat /\ (i - 1) + 1 = i
        BY <1>1, <3>2
      <4>2. h[i - 1] = w[<<i - 1, h[i - 1 - 1]>>] /\ h[i - 1 - 1] \in Seq(Bytes)
        BY <2>1, <4>1 DEF Iterates
      <4>3. w[<<i - 1, h[i - 1 - 1]>>] = h[i - 1 - 1] \o iov[i]
        BY <4>1, <4>2 DEF w
      <4>4. f[i] = h[i - 1] /\ f[i - 1] = h[i - 1 - 1]
        BY <4>1
      <4> QED
        BY <3>2, <4>2, <4>3, <4>4
    <3> QED
      BY <3>1, <3>2
  <2>3. f = [i \in 1 .. n |-> f[i]]
    OBVIOUS
  <2> HIDE DEF f
  <2>4. f = F(f)
    BY <2>2, <2>3
  <2> QED
    BY <2>4
<1>5. flatten = F(flatten)
  <2> HIDE DEF F
  <2> QED
    BY <1>4
<1>6. \A i \in 1 .. n : flatten[i] = IF i = 1 THEN iov[i] ELSE flatten[i - 1] \o iov[i]
  <2> HIDE DEF flatten
  <2> QED
    BY <1>5
<1> HIDE DEF flatten
<1> DEFINE g == [i \in 0 .. n - 1 |-> flatten[i + 1]]
<1>7. \A i \in 0 .. n - 1 : g[i] \in Seq(Bytes)
  <2>1. g[0] \in Seq(Bytes)
    BY <1>1, <1>6
  <2>2. ASSUME NEW i \in 1 .. n - 1, g[i - 1] \in Seq(Bytes)
        PROVE  g[i] \in Seq(Bytes)
    <3>1. i + 1 \in 1 .. n /\ i + 1 # 1 /\ (i + 1) - 1 = i /\ i - 1 \in 0 .. n - 1 /\ (i - 1) + 1 = i
          /\ i \in 0 .. n - 1
      BY <1>1
    <3>2. g[i - 1] = flatten[i] /\ g[i] = flatten[i + 1]
      BY <3>1
    <3>3. flatten[i + 1] = flatten[i] \o iov[i + 1]
      BY <1>6, <3>1
    <3>4. flatten[i] \in Seq(Bytes) /\ iov[i + 1] \in Seq(Bytes)
      BY <1>1, <2>2, <3>1, <3>2
    <3>5. flatten[i + 1] \in Seq(Bytes)
      BY <3>3, <3>4
    <3> QED
      BY <3>2, <3>5
  <2>3. n - 1 \in Nat
    BY <1>1
  <2> HIDE DEF g
  <2> QED
    BY <2>1, <2>2, <2>3, StepsStay
<1>8. flatten \in [1 .. n -> Seq(Bytes)]
  <2>1. ASSUME NEW i \in 1 .. n
        PROVE  flatten[i] \in Seq(Bytes)
    <3>1. i - 1 \in 0 .. n - 1 /\ (i - 1) + 1 = i
      BY <1>1
    <3>2. g[i - 1] = flatten[i]
      BY <3>1
    <3> QED
      BY <1>7, <3>1, <3>2
  <2>2. flatten = [i \in 1 .. n |-> flatten[i]]
    BY <1>5
  <2> QED
    BY <2>1, <2>2
<1>9. flatten[1] = iov[1] /\ \A i \in 2 .. n : flatten[i] = flatten[i - 1] \o iov[i]
  <2>1. 1 \in 1 .. n /\ \A i \in 2 .. n : i \in 1 .. n /\ i # 1
    BY <1>1
  <2> QED
    BY <1>6, <2>1
<1> QED
  BY <1>2, <1>8, <1>9 DEF Joins, n

(* They are bytes.                                                         *)
LEMMA FlattenType ==
  ASSUME NEW iov \in Seq(Seq(Bytes)), iov # <<>>
  PROVE  FlattenSeq(iov) \in Seq(Bytes)
<1>1. PICK f : Joins(f, iov) /\ FlattenSeq(iov) = f[Len(iov)]
  BY FlattenSteps
<1>2. Len(iov) \in 1 .. Len(iov)
  OBVIOUS
<1> QED
  BY <1>1, <1>2 DEF Joins

(* The codec begins a fragment with bytes only.                            *)
BlockInv ==
  /\ left \in Int
  /\ input \in Seq(Bytes)
  /\ phase \in {"next", "block"} => reader \in Sources

(* The call of compress: all of a source is before it.                     *)
LEMMA InitBlock == CodecInit => BlockInv
<1> SUFFICES ASSUME CodecInit
             PROVE  BlockInv
  OBVIOUS
<1>1. input = <<>>
  BY DEF CodecInit, Init
<1>2. PICK iov \in Calls : reader = Source(iov) /\ file = FlattenSeq(iov)
  BY DEF CodecInit
<1>3. iov \in Seq(Seq(Bytes)) /\ iov # <<>>
  BY CodecAssumption
<1>4. reader \in Sources
  BY <1>2, <1>3 DEF Source, Sources
<1>5. left = Len(file) /\ file \in Seq(Bytes)
  BY <1>2, <1>3, FlattenType DEF CodecInit
<1> QED
  BY <1>1, <1>4, <1>5 DEF BlockInv

(* The block is in one piece or stitched together.                         *)
LEMMA NextBlockBegins ==
  ASSUME BlockInv, NextBlock
  PROVE  BlockInv' /\ (UNCHANGED fragmentVars \/ \E block \in Seq(Bytes) : Begin(block))
<1> DEFINE fragment == Peek(reader)
           num_to_read == Smaller(left, BlockSize)
           gathered == Gather(reader, <<>>, num_to_read)
<1>1. phase = "next" /\ left > 0 /\ left' = left
  BY DEF NextBlock
<1>2. \/ phase' = "refused" /\ UNCHANGED fragmentVars
      \/ /\ Len(fragment) >= num_to_read /\ Begin(SubSeq(fragment, 1, num_to_read))
         /\ reader' = Skip(reader, num_to_read)
      \/ Begin(gathered.bytes) /\ reader' = gathered.source
  BY DEF NextBlock
<1>3. left \in Int /\ input \in Seq(Bytes) /\ reader \in Sources
  BY <1>1 DEF BlockInv
<1>4. num_to_read \in Nat
  BY <1>1, <1>3, CodecAssumption DEF Smaller
<1>5. fragment \in Seq(Bytes)
  BY <1>3, PeekType
<1>6. gathered.bytes \in Seq(Bytes) /\ gathered.source \in Sources
  <2>1. <<>> \in Seq(Bytes)
    OBVIOUS
  <2> HIDE DEF num_to_read
  <2> QED
    BY <1>3, <1>4, <2>1, GatherType
<1>7. Skip(reader, num_to_read) \in Sources
  BY <1>3, <1>4, SkipType
<1> HIDE DEF fragment, num_to_read, gathered
<1>8. ASSUME NEW block \in Seq(Bytes), Begin(block), reader' \in Sources
      PROVE  BlockInv'
  BY <1>1, <1>3, <1>8 DEF BlockInv, Begin
<1>9. CASE phase' = "refused" /\ UNCHANGED fragmentVars
  BY <1>1, <1>3, <1>9 DEF BlockInv, fragmentVars
<1>10. CASE /\ Len(fragment) >= num_to_read /\ Begin(SubSeq(fragment, 1, num_to_read))
            /\ reader' = Skip(reader, num_to_read)
  <2>1. SubSeq(fragment, 1, num_to_read) \in Seq(Bytes)
    BY <1>4, <1>5, <1>10
  <2> QED
    BY <1>7, <1>8, <1>10, <2>1
<1>11. CASE Begin(gathered.bytes) /\ reader' = gathered.source
  BY <1>6, <1>8, <1>11
<1> QED
  BY <1>2, <1>9, <1>10, <1>11

(* Nothing but a new block and compress_fragment itself changes a fragment.*)
LEMMA NextBlockInv ==
  ASSUME BlockInv, [Next]_vars
  PROVE  BlockInv' /\ [FragmentNext]_fragmentVars
<1>1. CASE NextBlock
  BY <1>1, NextBlockBegins DEF FragmentNext
<1>2. CASE CompressFragment
  <2>1. Step /\ phase' = phase /\ left' = left /\ reader' = reader
    BY <1>2 DEF CompressFragment, codecVars
  <2>2. input' = input
    BY <2>1 DEF Step, Start, Scan, CopyMatch, Remainder
  <2> QED
    BY <2>1, <2>2 DEF BlockInv, FragmentNext
<1>3. CASE AppendBlock
  <2>1. /\ UNCHANGED fragmentVars /\ input' = input /\ left' = left - N /\ phase = "block"
        /\ reader' = reader
    BY <1>3 DEF AppendBlock, fragmentVars
  <2>2. N \in Int
    BY DEF BlockInv, N
  <2> QED
    BY <2>1, <2>2 DEF BlockInv
<1>4. ASSUME \/ Stored \/ Uncompress \/ EndOfInput \/ LiteralTag \/ LiteralPiece
             \/ LiteralEnd \/ CopyTag
      PROVE  UNCHANGED fragmentVars /\ input' = input /\ left' = left /\ phase' \notin {"next", "block"}
  BY <1>4 DEF Stored, Uncompress, EndOfInput, LiteralTag, LiteralPiece, LiteralEnd, CopyTag,
              TagIn, Fail, fragmentVars
<1>5. CASE \/ Stored \/ Uncompress \/ EndOfInput \/ LiteralTag \/ LiteralPiece
           \/ LiteralEnd \/ CopyTag
  BY <1>4, <1>5 DEF BlockInv
<1>6. CASE UNCHANGED vars
  BY <1>6 DEF vars, codecVars, fragmentVars, BlockInv
<1> QED
  BY <1>1, <1>2, <1>3, <1>5, <1>6 DEF Next

(* Whatever the codec does, its steps in compress_fragment are those of    *)
(* FragmentSpec, called for blocks of the file.                            *)
THEOREM CodecRunsFragments == Spec => FragmentSpec
<1>1. CodecInit => BlockInv /\ Init
  BY InitBlock DEF CodecInit
<1>2. BlockInv /\ [Next]_vars => BlockInv' /\ [FragmentNext]_fragmentVars
  BY NextBlockInv
<1> QED
  BY <1>1, <1>2, PTL DEF Spec, FragmentSpec

(* Whatever the hash function collides on, what has been emitted stands    *)
(* for the bytes consumed, after every iteration of both loops.            *)
THEOREM FragmentDecodes ==
  ASSUME HashInRange
  PROVE  Spec => []DecodesToInput
<1>1. IInv => DecodesToInput
  BY InvariantImplies
<1> QED
  BY <1>1, FragmentInvariant, CodecRunsFragments, HashInRange, PTL

(* No entry of the table, however stale, is at or ahead of the position    *)
(* that is looked up: no copy has offset zero or reads what is not there.  *)
THEOREM FragmentCandidateBehind ==
  ASSUME HashInRange
  PROVE  Spec => []CandidateBehind
<1>1. IInv => CandidateBehind
  BY InvariantImplies
<1> QED
  BY <1>1, FragmentInvariant, CodecRunsFragments, HashInRange, PTL

(* The assertions of emit_copy_less_than64 and the one on next_emit hold,  *)
(* and the margin covers what is read past the pointers without a check.   *)
THEOREM FragmentWithinLimits ==
  ASSUME HashInRange
  PROVE  Spec => []WithinLimits
<1>1. IInv => WithinLimits
  BY InvariantImplies
<1> QED
  BY <1>1, FragmentInvariant, CodecRunsFragments, HashInRange, PTL

-----------------------------------------------------------------------------
(* The bytes of an item, and what the decoder reads from them.  The items  *)
(* of a block that is not longer than the code's.                          *)
SmallItems ==
  [kind : {"literal"}, bytes : {b \in Seq(Bytes) : 1 <= Len(b) /\ Len(b) <= BlockSize}]
    \cup [kind : {"copy"}, offset : {o \in Nat : 0 < o /\ o < BlockSize}, len : 4 .. 64]

(* How many bytes behind a literal's tag hold its length.                  *)
LengthTrailers(len) == IF len <= 60 THEN 0 ELSE LengthBytes(len - 1)

(* Two sequences of bytes, one behind the other.                           *)
LEMMA Join ==
  ASSUME NEW x \in Seq(Bytes), NEW y \in Seq(Bytes)
  PROVE  /\ x \o y \in Seq(Bytes) /\ Len(x \o y) = Len(x) + Len(y)
         /\ \A k \in 1 .. Len(x) : (x \o y)[k] = x[k]
         /\ \A k \in 1 .. Len(y) : (x \o y)[Len(x) + k] = y[k]
OBVIOUS

(* The two are the parts of what they are joined to.                       *)
LEMMA JoinParts ==
  ASSUME NEW x \in Seq(Bytes), NEW y \in Seq(Bytes), NEW a \in Nat, a = Len(x)
  PROVE  /\ SubSeq(x \o y, 1, a) = x
         /\ SubSeq(x \o y, a + 1, a + Len(y)) = y
         /\ SubSeq(x \o y, a + 1, Len(x \o y)) = y
<1>1. x = [k \in 1 .. a |-> x[k]] /\ y = [k \in 1 .. Len(y) |-> y[k]] /\ Len(y) \in Nat
  OBVIOUS
<1>2. /\ x \o y \in Seq(Bytes) /\ Len(x \o y) = a + Len(y)
      /\ \A k \in 1 .. a : (x \o y)[k] = x[k]
      /\ \A k \in 1 .. Len(y) : (x \o y)[a + k] = y[k]
  BY Join
<1>3. SubSeq(x \o y, 0 + 1, a) = [k \in 1 .. a - 0 |-> (x \o y)[0 + k]]
  BY <1>1, <1>2, Part
<1>4. SubSeq(x \o y, a + 1, a + Len(y)) = [k \in 1 .. (a + Len(y)) - a |-> (x \o y)[a + k]]
  BY <1>1, <1>2, Part
<1>5. a - 0 = a /\ (a + Len(y)) - a = Len(y) /\ \A k \in 1 .. a : 0 + k = k
  BY <1>1
<1>6. SubSeq(x \o y, 1, a) = x
  BY <1>1, <1>2, <1>3, <1>5
<1>7. SubSeq(x \o y, a + 1, a + Len(y)) = y
  BY <1>1, <1>2, <1>4, <1>5
<1> QED
  BY <1>2, <1>6, <1>7

(* Three sequences, one behind the other.                                  *)
LEMMA JoinAssociates ==
  ASSUME NEW x \in Seq(Bytes), NEW y \in Seq(Bytes), NEW z \in Seq(Bytes)
  PROVE  x \o (y \o z) = (x \o y) \o z
BY SMTT(60)

(* The first bytes of a sequence.                                          *)
LEMMA FirstOf ==
  ASSUME NEW r \in Seq(Bytes), NEW n \in Nat, n <= Len(r)
  PROVE  /\ SubSeq(r, 1, n) \in Seq(Bytes) /\ Len(SubSeq(r, 1, n)) = n
         /\ \A i \in 1 .. n : SubSeq(r, 1, n)[i] = r[i]
  OBVIOUS

(* A byte alone.                                                           *)
LEMMA OneByte ==
  ASSUME NEW b \in Bytes
  PROVE  <<b>> \in Seq(Bytes) /\ Len(<<b>>) = 1 /\ <<b>>[1] = b
OBVIOUS

(* What a byte is.                                                         *)
LEMMA ByteIs ==
  /\ \A n \in Nat : n < 256 => n \in Bytes
  /\ \A n \in Bytes : n \in Nat /\ n < 256
<1>1. Bytes = 0 .. 255
  BY CodecAssumption
<1>2. /\ \A n \in Nat : n < 256 => n \in 0 .. 255
      /\ \A n \in 0 .. 255 : n \in Nat /\ n < 256
  OBVIOUS
<1> QED
  BY <1>1, <1>2, Zenon

(* A multiple of four in a byte.                                           *)
LEMMA FourTimes ==
  ASSUME NEW n \in Nat, n < 64
  PROVE  4 * n \in Nat /\ 4 * n < 256 /\ (4 * n) % 4 = 0 /\ (4 * n) \div 4 = n
OBVIOUS

(* The size of a block, from the assumption on it.                         *)
LEMMA BlockIs == BlockSize \in Nat /\ 6 <= BlockSize
BY CodecAssumption

(* A number below 2^16 and its two bytes.                                  *)
LEMMA TwoBytes ==
  ASSUME NEW n \in Nat, n < BlockSize
  PROVE  /\ n \div 256 \in Bytes /\ n % 256 \in Bytes
         /\ n \div 256 \in Nat /\ n % 256 \in Nat
         /\ (n \div 256) % 256 = n \div 256
         /\ (n % 256) + 256 * (n \div 256) = n
<1> DEFINE limit == 65536
<1>4. BlockSize \in Nat /\ BlockSize <= limit
  BY CodecAssumption
<1>5. n < limit
  BY <1>4
<1>1. n = 256 * (n \div 256) + (n % 256) /\ n % 256 \in Nat /\ n % 256 < 256 /\ n \div 256 \in Int
  OBVIOUS
<1>2. n \div 256 \in Nat /\ n \div 256 < 256
  BY <1>1, <1>5
<1> HIDE DEF limit
<1>3. (n \div 256) % 256 = n \div 256
  BY <1>2, ModSmall
<1> QED
  BY <1>1, <1>2, <1>3, ByteIs

(* One and two bytes of a number.                                          *)
LEMMA LittleEndianIs ==
  ASSUME NEW n \in Nat, n < BlockSize
  PROVE  /\ LittleEndian(n, 2) = <<n % 256, n \div 256>>
         /\ n < 256 => LittleEndian(n, 1) = <<n>>
BY TwoBytes DEF LittleEndian

(* What a tag can be.                                                      *)
LEMMA TagTypes ==
  ASSUME NEW c \in Bytes
  PROVE  /\ TagLength(c) \in Nat /\ 1 <= TagLength(c) /\ TagLength(c) <= 64
         /\ TagOffset(c) \in Nat /\ Trailers(c) \in Nat /\ Trailers(c) <= 4
         /\ IsLiteral(c) => Trailers(c) = IF TagLength(c) > 60 THEN TagLength(c) - 60 ELSE 0
         /\ ~ IsLiteral(c) => Trailers(c) > 0
<1> DEFINE q == c \div 4
<1>1. c % 4 \in 0 .. 3 /\ q \in Nat /\ q < 64 /\ c \div 32 \in Nat
  <2>1. c \in Nat /\ c < 256
    BY ByteIs
  <2> QED
    BY <2>1
<1> HIDE DEF q
<1>2. q % 8 \in Nat /\ q % 8 < 8
  BY <1>1
<1>3. /\ TagLength(c) \in Nat /\ 1 <= TagLength(c) /\ TagLength(c) <= 64
      /\ TagOffset(c) \in Nat
  BY <1>1, <1>2 DEF q, TagLength, TagOffset
<1>4. CASE IsLiteral(c)
  <2>1. c % 4 = 0
    BY <1>4 DEF IsLiteral
  <2>2. Trailers(c) = IF TagLength(c) > 60 THEN TagLength(c) - 60 ELSE 0
    BY <2>1 DEF Trailers, IsLiteral
  <2> QED
    BY <1>3, <1>4, <2>2
<1>5. CASE ~ IsLiteral(c)
  <2>1. c % 4 = 1 \/ c % 4 = 2 \/ c % 4 = 3
    BY <1>1, <1>5 DEF IsLiteral
  <2>2. Trailers(c) = 1 \/ Trailers(c) = 2 \/ Trailers(c) = 4
    BY <2>1 DEF Trailers, IsLiteral
  <2> QED
    BY <1>3, <1>5, <2>2
<1> QED
  BY <1>4, <1>5

(* What an item's code says: a literal of bytes b, its length in t bytes.  *)
CodeOfLiteral(c, b, t) ==
  /\ c \in Seq(Bytes) /\ Len(c) = 1 + t + Len(b) /\ t \in 0 .. 2
  /\ IsLiteral(c[1]) /\ Trailers(c[1]) = t
  /\ t = 0 => TagLength(c[1]) = Len(b)
  /\ t > 0 => TagLength(c[1]) > 60 /\ LittleEndianValue(SubSeq(c, 2, 1 + t)) + 1 = Len(b)
  /\ \A k \in 1 .. Len(b) : c[1 + t + k] = b[k]

(* A literal whose length is behind the tag.                               *)
LEMMA LongLiteralCode ==
  ASSUME NEW b \in Seq(Bytes), NEW t \in 1 .. 2, NEW e \in Seq(Bytes), Len(e) = t,
         LittleEndianValue(e) + 1 = Len(b)
  PROVE  CodeOfLiteral(<<4 * (59 + t)>> \o e \o b, b, t)
<1> DEFINE c == <<4 * (59 + t)>> \o e \o b
<1> DEFINE tag == 4 * (59 + t)
<1>1. tag \in Bytes /\ tag % 4 = 0 /\ tag \div 4 = 59 + t
  <2>1. 59 + t \in Nat /\ 59 + t < 64
    OBVIOUS
  <2> QED
    BY <2>1, FourTimes, ByteIs
<1>2. IsLiteral(tag) /\ TagLength(tag) = 60 + t
  BY <1>1 DEF IsLiteral, TagLength
<1>3. Trailers(tag) = t
  BY <1>1, <1>2, TagTypes
<1> HIDE DEF tag
<1> DEFINE u == <<tag>> \o e
<1>4. /\ u \in Seq(Bytes) /\ Len(u) = 1 + t /\ u[1] = tag
      /\ SubSeq(u, 1 + 1, Len(u)) = e
  <2>1. <<tag>> \in Seq(Bytes) /\ Len(<<tag>>) = 1 /\ <<tag>>[1] = tag
    BY <1>1, OneByte
  <2> HIDE DEF tag
  <2> QED
    BY <2>1, Join, JoinParts
<1>5. c = u \o b
  BY DEF tag
<1> HIDE DEF u, c
<1>6. c \in Seq(Bytes) /\ Len(c) = 1 + t + Len(b)
      /\ c[1] = tag
      /\ \A k \in 1 .. Len(b) : c[1 + t + k] = b[k]
  <2>1. t \in Nat /\ 1 + t \in Nat /\ 1 \in 1 .. 1 + t
    OBVIOUS
  <2>2. /\ c \in Seq(Bytes) /\ Len(c) = Len(u) + Len(b)
        /\ \A k \in 1 .. Len(u) : c[k] = u[k]
        /\ \A k \in 1 .. Len(b) : c[Len(u) + k] = b[k]
    BY <1>4, <1>5, Join, Zenon
  <2> QED
    BY <1>4, <2>1, <2>2
<1>7. SubSeq(c, 2, 1 + t) = e
  <2>1. t \in Nat /\ 1 + t \in Nat /\ 1 <= 1 + t /\ 1 + t <= Len(c) /\ 1 + t <= Len(u)
    BY <1>4, <1>6
  <2>2. \A k \in 1 .. 1 + t : c[k] = u[k]
    BY <1>4, <1>5, Join
  <2>3. SubSeq(c, 1 + 1, 1 + t) = [k \in 1 .. (1 + t) - 1 |-> c[1 + k]]
    BY <1>6, <2>1, Part
  <2>4. SubSeq(u, 1 + 1, 1 + t) = [k \in 1 .. (1 + t) - 1 |-> u[1 + k]]
    BY <1>4, <2>1, Part
  <2>5. \A k \in 1 .. (1 + t) - 1 : 1 + k \in 1 .. 1 + t
    BY <2>1
  <2>6. SubSeq(c, 1 + 1, 1 + t) = e
    BY <1>4, <2>2, <2>3, <2>4, <2>5
  <2> QED
    BY <2>6
<1>8. LittleEndianValue(e) + 1 = Len(b) /\ 60 + t > 60 /\ t \in 0 .. 2 /\ t # 0
  OBVIOUS
<1>9. CodeOfLiteral(c, b, t)
  BY <1>2, <1>3, <1>6, <1>7, <1>8 DEF CodeOfLiteral
<1> QED
  BY <1>9 DEF c

(* A literal: the tag holds a length up to 60, or says how many bytes do.  *)
LEMMA LiteralCode ==
  ASSUME NEW b \in Seq(Bytes), 1 <= Len(b), Len(b) <= BlockSize
  PROVE  CodeOfLiteral(EncodeLiteral(b), b, LengthTrailers(Len(b)))
<1> DEFINE n == Len(b) - 1
<1>1. n \in Nat /\ n < BlockSize /\ Len(b) = n + 1
  BY BlockIs
<1>2. CASE n < 60
  <2> DEFINE tag == 4 * n
             c == <<tag>> \o b
  <2>1. LengthTrailers(Len(b)) = 0 /\ EncodeLiteral(b) = c
    BY <1>1, <1>2 DEF EncodeLiteral, LengthTrailers
  <2> HIDE DEF n
  <2>2. tag \in Bytes /\ tag % 4 = 0 /\ tag \div 4 = n
    BY <1>1, <1>2, FourTimes, ByteIs
  <2> HIDE DEF tag
  <2>3. c \in Seq(Bytes) /\ Len(c) = 1 + Len(b) /\ c[1] = tag
        /\ \A k \in 1 .. Len(b) : c[1 + k] = b[k]
    <3>1. <<tag>> \in Seq(Bytes) /\ Len(<<tag>>) = 1 /\ <<tag>>[1] = tag
      BY <2>2, OneByte
    <3> QED
      BY <3>1, Join
  <2>4. IsLiteral(tag) /\ TagLength(tag) = 1 + n
    BY <2>2 DEF IsLiteral, TagLength
  <2>5. Trailers(tag) = 0
    <3>1. Trailers(tag) = IF TagLength(tag) > 60 THEN TagLength(tag) - 60 ELSE 0
      BY <2>2, <2>4, TagTypes, Zenon
    <3>2. ~ (TagLength(tag) > 60)
      BY <1>1, <1>2, <2>4
    <3> QED
      BY <3>1, <3>2
  <2> HIDE DEF c
  <2>6. CodeOfLiteral(c, b, 0)
    <3>1. Len(c) = 1 + 0 + Len(b) /\ 0 \in 0 .. 2 /\ ~ (0 > 0) /\ \A k \in 1 .. Len(b) : c[1 + 0 + k] = b[k]
      BY <2>3
    <3>2. TagLength(c[1]) = Len(b)
      BY <1>1, <2>3, <2>4
    <3>3. c \in Seq(Bytes) /\ IsLiteral(c[1]) /\ Trailers(c[1]) = 0
      BY <2>3, <2>4, <2>5
    <3> QED
      BY <3>1, <3>2, <3>3, Zenon DEF CodeOfLiteral
  <2> QED
    BY <2>1, <2>6
<1>3. ASSUME NEW t \in 1 .. 2, NEW e \in Seq(Bytes), Len(e) = t, LittleEndianValue(e) = n,
             LengthTrailers(Len(b)) = t, EncodeLiteral(b) = <<4 * (59 + t)>> \o e \o b
      PROVE  CodeOfLiteral(EncodeLiteral(b), b, LengthTrailers(Len(b)))
  <2> HIDE DEF n
  <2>1. LittleEndianValue(e) + 1 = Len(b)
    BY <1>1, <1>3
  <2>2. CodeOfLiteral(<<4 * (59 + t)>> \o e \o b, b, t)
    BY <1>3, <2>1, LongLiteralCode
  <2> QED
    BY <1>3, <2>2, Zenon
<1>4. CASE ~ (n < 60) /\ n < 256
  <2> DEFINE e == <<n>>
  <2>1. LengthTrailers(Len(b)) = 1 /\ LengthBytes(n) = 1
    BY <1>1, <1>4 DEF LengthBytes, LengthTrailers
  <2>2. EncodeLiteral(b) = <<4 * (59 + 1)>> \o LittleEndian(n, 1) \o b
    <3>1. EncodeLiteral(b) = <<4 * (59 + LengthBytes(n))>> \o LittleEndian(n, LengthBytes(n)) \o b
      BY <1>4 DEF EncodeLiteral
    <3> HIDE DEF n
    <3> QED
      BY <2>1, <3>1
  <2> HIDE DEF n
  <2>3. LittleEndian(n, 1) = e /\ e \in Seq(Bytes) /\ Len(e) = 1
    BY <1>1, <1>4, LittleEndianIs, ByteIs, OneByte
  <2>4. LittleEndianValue(e) = n
    BY <1>1 DEF LittleEndianValue, ByteAt
  <2> HIDE DEF e
  <2>5. 1 \in 1 .. 2
    OBVIOUS
  <2>6. EncodeLiteral(b) = <<4 * (59 + 1)>> \o e \o b
    BY <2>2, <2>3
  <2> QED
    BY <1>3, <2>1, <2>3, <2>4, <2>5, <2>6
<1>5. CASE ~ (n < 256)
  <2> DEFINE e == <<n % 256, n \div 256>>
  <2>1. LengthTrailers(Len(b)) = 2 /\ LengthBytes(n) = 2
    BY <1>1, <1>5 DEF LengthBytes, LengthTrailers
  <2>2. EncodeLiteral(b) = <<4 * (59 + 2)>> \o LittleEndian(n, 2) \o b
    <3>1. ~ (n < 60)
      BY <1>1, <1>5
    <3>2. EncodeLiteral(b) = <<4 * (59 + LengthBytes(n))>> \o LittleEndian(n, LengthBytes(n)) \o b
      BY <3>1 DEF EncodeLiteral
    <3> HIDE DEF n
    <3> QED
      BY <2>1, <3>2
  <2> HIDE DEF n
  <2>3. LittleEndian(n, 2) = e /\ e \in Seq(Bytes) /\ Len(e) = 2
    BY <1>1, LittleEndianIs, TwoBytes
  <2>4. LittleEndianValue(e) = n
    <3>1. LittleEndianValue(e) = (n % 256) + 256 * (n \div 256)
      BY <1>1, TwoBytes DEF LittleEndianValue, ByteAt
    <3> QED
      BY <1>1, <3>1, TwoBytes
  <2> HIDE DEF e
  <2>5. 2 \in 1 .. 2
    OBVIOUS
  <2>6. EncodeLiteral(b) = <<4 * (59 + 2)>> \o e \o b
    BY <2>2, <2>3
  <2> QED
    BY <1>3, <2>1, <2>3, <2>4, <2>5, <2>6
<1> QED
  BY <1>1, <1>2, <1>4, <1>5

(* A copy: three bits of a short length and three of a near offset in the  *)
(* tag, or the length in the tag and the offset behind it.                 *)
CodeOfCopy(c, offset, len) ==
  /\ c \in Seq(Bytes) /\ Len(c) = 1 + Trailers(c[1]) /\ Trailers(c[1]) \in 1 .. 2
  /\ ~ IsLiteral(c[1]) /\ TagLength(c[1]) = len
  /\ TagOffset(c[1]) + LittleEndianValue(SubSeq(c, 2, 1 + Trailers(c[1]))) = offset

(* The decoder reads from the bytes of a copy its length and its offset.   *)
LEMMA CopyCode ==
  ASSUME NEW offset \in Nat, 0 < offset, offset < BlockSize, NEW len \in 4 .. 64
  PROVE  CodeOfCopy(EncodeCopy(offset, len), offset, len)
<1> DEFINE c == EncodeCopy(offset, len)
<1>2. CASE len < 12 /\ offset < 2048
  <2> DEFINE high == offset \div 256
             low == offset % 256
             tag == 1 + 4 * (len - 4) + 32 * high
  <2>1. /\ high \in Nat /\ high < 8 /\ low \in Nat /\ low < 256 /\ 256 * high + low = offset
        /\ low \in Bytes
    <3>1. /\ high \in Nat /\ high < 8 /\ low \in Nat /\ low < 256 /\ 256 * high + low = offset
      BY <1>2
    <3> HIDE DEF low
    <3> QED
      BY <3>1, ByteIs
  <2>2. c = <<tag>> \o <<low>>
    <3>1. c = <<tag, low>>
      BY <1>2 DEF EncodeCopy
    <3> HIDE DEF tag, low
    <3> QED
      BY <3>1
  <2> HIDE DEF high, low, c
  <2>3. tag \in Bytes /\ tag % 4 = 1 /\ tag \div 4 = (len - 4) + 8 * high /\ tag \div 32 = high
    <3>1. /\ tag \in Nat /\ tag < 256 /\ tag % 4 = 1 /\ tag \div 4 = (len - 4) + 8 * high
          /\ tag \div 32 = high
      BY <1>2, <2>1
    <3> HIDE DEF tag
    <3> QED
      BY <3>1, ByteIs
  <2>4. (tag \div 4) % 8 = len - 4
    BY <1>2, <2>1, <2>3
  <2>5. ~ IsLiteral(tag) /\ TagLength(tag) = len /\ TagOffset(tag) = 256 * high
    BY <2>3, <2>4 DEF IsLiteral, TagLength, TagOffset
  <2>6. Trailers(tag) = 1
    BY <2>3, <2>5 DEF Trailers
  <2> HIDE DEF tag
  <2>7. SubSeq(c, 2, 2) = <<low>> /\ c[1] = tag /\ Len(c) = 2 /\ c \in Seq(Bytes)
    <3> DEFINE x == <<tag>>
               y == <<low>>
    <3>1. x \in Seq(Bytes) /\ Len(x) = 1 /\ x[1] = tag
      BY <2>3, OneByte
    <3>2. y \in Seq(Bytes) /\ Len(y) = 1
      BY <2>1, OneByte
    <3>3. c = x \o y
      BY <2>2
    <3> HIDE DEF x, y
    <3>4. SubSeq(c, 1 + 1, 1 + 1) = y /\ c[1] = tag /\ Len(c) = 1 + 1 /\ c \in Seq(Bytes)
      <4>1. x \o y \in Seq(Bytes) /\ Len(x \o y) = 1 + 1 /\ (x \o y)[1] = x[1]
        BY <3>1, <3>2, Join
      <4>2. SubSeq(x \o y, 1 + 1, 1 + Len(y)) = y
        BY <3>1, <3>2, JoinParts
      <4> QED
        BY <3>1, <3>2, <3>3, <4>1, <4>2
    <3> QED
      BY <3>4 DEF y
  <2>8. LittleEndianValue(<<low>>) = low
    BY <2>1 DEF LittleEndianValue, ByteAt
  <2>9. CodeOfCopy(c, offset, len)
    <3>1. 1 + 1 = 2 /\ 1 \in 1 .. 2 /\ 256 * high + low = offset
      BY <2>1
    <3>2. Trailers(c[1]) = 1 /\ ~ IsLiteral(c[1]) /\ TagLength(c[1]) = len
      BY <2>5, <2>6, <2>7
    <3>3. LittleEndianValue(SubSeq(c, 2, 1 + 1)) = low
      BY <2>7, <2>8, <3>1
    <3>4. TagOffset(c[1]) + LittleEndianValue(SubSeq(c, 2, 1 + 1)) = offset
      BY <2>5, <2>7, <3>1, <3>3
    <3>5. c \in Seq(Bytes) /\ Len(c) = 1 + 1
      BY <2>7, <3>1
    <3> QED
      BY ONLY <3>1, <3>2, <3>4, <3>5 DEF CodeOfCopy
  <2> QED
    BY <2>9 DEF c
<1>3. CASE ~ (len < 12 /\ offset < 2048)
  <2> DEFINE e == <<offset % 256, offset \div 256>>
             tag == 2 + 4 * (len - 1)
  <2>1. c = <<tag>> \o e /\ e \in Seq(Bytes) /\ Len(e) = 2
    <3>1. c = <<tag>> \o LittleEndian(offset, 2)
      BY <1>3 DEF EncodeCopy
    <3>2. LittleEndian(offset, 2) = e
      BY LittleEndianIs
    <3>3. e \in Seq(Bytes) /\ Len(e) = 2
      BY TwoBytes
    <3> QED
      BY <3>1, <3>2, <3>3
  <2>2. LittleEndianValue(e) = offset
    <3>1. LittleEndianValue(e) = (offset % 256) + 256 * (offset \div 256)
      BY TwoBytes DEF LittleEndianValue, ByteAt
    <3> QED
      BY <3>1, TwoBytes
  <2> HIDE DEF e, c
  <2>3. tag \in Bytes /\ tag % 4 = 2 /\ tag \div 4 = len - 1
    <3>1. tag \in Nat /\ tag < 256 /\ tag % 4 = 2 /\ tag \div 4 = len - 1
      OBVIOUS
    <3> HIDE DEF tag
    <3> QED
      BY <3>1, ByteIs
  <2>4. ~ IsLiteral(tag) /\ TagLength(tag) = len /\ TagOffset(tag) = 0
    BY <2>3 DEF IsLiteral, TagLength, TagOffset
  <2>5. Trailers(tag) = 2
    BY <2>3, <2>4 DEF Trailers
  <2> HIDE DEF tag
  <2>6. c \in Seq(Bytes) /\ Len(c) = 3 /\ c[1] = tag /\ SubSeq(c, 2, 3) = e
    <3>1. <<tag>> \in Seq(Bytes) /\ Len(<<tag>>) = 1 /\ <<tag>>[1] = tag
      BY <2>3, OneByte
    <3> DEFINE u == <<tag>>
    <3>2. u \in Seq(Bytes) /\ Len(u) = 1 /\ u[1] = tag /\ c = u \o e
      BY <2>1, <3>1
    <3> HIDE DEF u
    <3>3. /\ u \o e \in Seq(Bytes) /\ Len(u \o e) = Len(u) + Len(e)
          /\ \A k \in 1 .. Len(u) : (u \o e)[k] = u[k]
      BY <2>1, <3>2, Join
    <3>4. SubSeq(u \o e, 1 + 1, Len(u \o e)) = e
      <4>1. u \in Seq(Bytes) /\ e \in Seq(Bytes) /\ 1 \in Nat /\ 1 = Len(u)
        BY <2>1, <3>2
      <4> QED
        BY ONLY <4>1, JoinParts
    <3>5. Len(c) = 3 /\ 1 \in 1 .. Len(u)
      BY <2>1, <3>2, <3>3
    <3> QED
      BY <3>2, <3>3, <3>4, <3>5
  <2>7. CodeOfCopy(c, offset, len)
    <3>1. 1 + 2 = 3 /\ 2 \in 1 .. 2 /\ 0 + offset = offset
      OBVIOUS
    <3> QED
      BY <2>2, <2>4, <2>5, <2>6, <3>1 DEF CodeOfCopy
  <2> QED
    BY <2>7 DEF c
<1> QED
  BY <1>2, <1>3

-----------------------------------------------------------------------------
(* Two recursions over numbers that take the same steps.                   *)
LEMMA SameSteps ==
  ASSUME NEW m \in Nat, NEW f, NEW g, f[0] = g[0],
         \A i \in 1 .. m : f[i - 1] = g[i - 1] => f[i] = g[i]
  PROVE  \A i \in 0 .. m : f[i] = g[i]
<1> DEFINE h == [i \in 0 .. m |-> IF f[i] = g[i] THEN 1 ELSE 0]
<1>1. h[0] \in {1}
  BY 0 \in 0 .. m
<1>2. ASSUME NEW i \in 1 .. m, h[i - 1] \in {1}
      PROVE  h[i] \in {1}
  <2>1. i - 1 \in 0 .. m /\ i \in 0 .. m
    OBVIOUS
  <2>2. f[i - 1] = g[i - 1]
    BY <1>2, <2>1
  <2>3. f[i] = g[i]
    BY <2>2
  <2> QED
    BY <2>1, <2>3
<1>3. \A i \in 0 .. m : (h[i] = 1) => f[i] = g[i]
  OBVIOUS
<1> HIDE DEF h
<1> DEFINE D == {1}
<1>4. h[0] \in D /\ \A i \in 1 .. m : h[i - 1] \in D => h[i] \in D
  BY <1>1, <1>2
<1>5. \A x \in D : x = 1
  OBVIOUS
<1> HIDE DEF D
<1>6. \A i \in 0 .. m : h[i] \in D
  BY <1>4, StepsStay
<1> QED
  BY <1>3, <1>5, <1>6

(* The steps of the encoder: e[k] is what k items become.                  *)
Codes(e, items) ==
  /\ e \in [0 .. Len(items) -> Seq(Bytes)]
  /\ e[0] = <<>>
  /\ \A k \in 1 .. Len(items) : e[k] = e[k - 1] \o EncodeItem(items[k])

(* The two kinds of items.                                                 *)
LEMMA SmallItem ==
  ASSUME NEW item \in SmallItems
  PROVE  \/ /\ item.kind = "literal" /\ item.bytes \in Seq(Bytes)
            /\ 1 <= Len(item.bytes) /\ Len(item.bytes) <= BlockSize
         \/ /\ item.kind # "literal" /\ item.kind = "copy" /\ item.len \in 4 .. 64
            /\ item.offset \in Nat /\ 0 < item.offset /\ item.offset < BlockSize
BY DEF SmallItems

(* An item has at least one byte.                                          *)
LEMMA ItemCode ==
  ASSUME NEW item \in SmallItems
  PROVE  EncodeItem(item) \in Seq(Bytes) /\ Len(EncodeItem(item)) > 0
<1>1. CASE item.kind = "literal"
  <2> DEFINE b == item.bytes
             t == LengthTrailers(Len(b))
             c == EncodeLiteral(b)
  <2>1. EncodeItem(item) = c
    BY <1>1 DEF EncodeItem
  <2>2. b \in Seq(Bytes) /\ 1 <= Len(b) /\ Len(b) <= BlockSize
    BY <1>1, SmallItem
  <2> HIDE DEF b
  <2>3. CodeOfLiteral(c, b, t)
    BY <2>2, LiteralCode
  <2> HIDE DEF c, t
  <2>4. c \in Seq(Bytes) /\ Len(c) = 1 + t + Len(b) /\ t \in 0 .. 2
    BY <2>3 DEF CodeOfLiteral
  <2> QED
    BY <2>1, <2>2, <2>4
<1>2. CASE item.kind # "literal"
  <2> DEFINE c == EncodeCopy(item.offset, item.len)
  <2>1. item.len \in 4 .. 64 /\ item.offset \in Nat /\ 0 < item.offset /\ item.offset < BlockSize
    BY <1>2, SmallItem
  <2>2. CodeOfCopy(c, item.offset, item.len)
    BY <2>1, CopyCode
  <2>3. EncodeItem(item) = c
    BY <1>2 DEF EncodeItem
  <2> HIDE DEF c
  <2>4. c \in Seq(Bytes) /\ Len(c) = 1 + Trailers(c[1]) /\ Trailers(c[1]) \in 1 .. 2
    BY <2>2 DEF CodeOfCopy
  <2> QED
    BY <2>3, <2>4
<1> QED
  BY <1>1, <1>2

(* There are such steps, and Encode takes them.                            *)
LEMMA EncodeSteps ==
  ASSUME NEW items \in Seq(SmallItems)
  PROVE  \E e : Codes(e, items) /\ Encode(items) = e[Len(items)]
<1> DEFINE n == Len(items)
           F(f) == [k \in 0 .. n |-> IF k = 0 THEN <<>> ELSE f[k - 1] \o EncodeItem(items[k])]
           upTo == CHOOSE f : f = F(f)
           w == [p \in Nat \X Seq(Bytes) |->
                   IF p[1] \in 1 .. n THEN p[2] \o EncodeItem(items[p[1]]) ELSE p[2]]
<1>1. n \in Nat /\ \A k \in 1 .. n : items[k] \in SmallItems
  OBVIOUS
<1>2. \A k \in 1 .. n : EncodeItem(items[k]) \in Seq(Bytes)
  BY <1>1, ItemCode
<1>3. Encode(items) = upTo[n]
  BY DEF Encode
<1> HIDE DEF n
<1>4. w \in [Nat \X Seq(Bytes) -> Seq(Bytes)]
  BY <1>2
<1>5. \E f : f = F(f)
  <2> HIDE DEF w
  <2>1. <<>> \in Seq(Bytes)
    OBVIOUS
  <2>2. PICK f \in [0 .. n -> Seq(Bytes)] : Iterates(f, n, <<>>, w)
    BY <1>1, <1>4, <2>1, IterationExists
  <2>3. ASSUME NEW k \in 0 .. n
        PROVE  f[k] = IF k = 0 THEN <<>> ELSE f[k - 1] \o EncodeItem(items[k])
    <3>1. CASE k = 0
      BY <2>2, <3>1 DEF Iterates
    <3>2. CASE k # 0
      <4>1. k \in 1 .. n /\ k - 1 \in 0 .. n /\ k \in Nat
        BY <1>1, <3>2
      <4>2. f[k] = w[<<k, f[k - 1]>>] /\ f[k - 1] \in Seq(Bytes)
        BY <2>2, <4>1 DEF Iterates
      <4> QED
        BY <3>2, <4>1, <4>2 DEF w
    <3> QED
      BY <3>1, <3>2
  <2>4. f = [k \in 0 .. n |-> f[k]]
    BY <2>2
  <2> QED
    BY <2>3, <2>4
<1>6. upTo = F(upTo)
  <2> HIDE DEF F
  <2> QED
    BY <1>5
<1>7. /\ DOMAIN upTo = 0 .. n /\ upTo = [k \in 0 .. n |-> upTo[k]]
      /\ \A k \in 0 .. n : upTo[k] = IF k = 0 THEN <<>> ELSE upTo[k - 1] \o EncodeItem(items[k])
  <2> HIDE DEF upTo
  <2> QED
    BY <1>6
<1> HIDE DEF upTo
<1>8. \A k \in 0 .. n : upTo[k] \in Seq(Bytes)
  <2>1. upTo[0] \in Seq(Bytes)
    BY <1>1, <1>7
  <2>2. ASSUME NEW k \in 1 .. n, upTo[k - 1] \in Seq(Bytes)
        PROVE  upTo[k] \in Seq(Bytes)
    <3>1. k \in 0 .. n /\ k # 0
      BY <1>1
    <3>2. upTo[k] = upTo[k - 1] \o EncodeItem(items[k])
      BY <1>7, <3>1
    <3> QED
      BY <1>2, <2>2, <3>2
  <2> QED
    BY <1>1, <2>1, <2>2, StepsStay
<1>9. upTo \in [0 .. n -> Seq(Bytes)]
  BY <1>7, <1>8
<1>10. upTo[0] = <<>> /\ \A k \in 1 .. n : upTo[k] = upTo[k - 1] \o EncodeItem(items[k])
  BY <1>1, <1>7
<1>11. Codes(upTo, items)
  BY <1>9, <1>10 DEF Codes, n
<1> QED
  BY <1>3, <1>11 DEF n

(* They are determined by the items.                                       *)
LEMMA CodesEnd ==
  ASSUME NEW items \in Seq(SmallItems), NEW e, Codes(e, items)
  PROVE  Encode(items) = e[Len(items)]
<1>1. PICK c : Codes(c, items) /\ Encode(items) = c[Len(items)]
  BY EncodeSteps
<1> DEFINE n == Len(items)
<1>2. n \in Nat
  OBVIOUS
<1>3. c[0] = e[0] /\ \A i \in 1 .. n : c[i - 1] = e[i - 1] => c[i] = e[i]
  BY <1>1 DEF Codes
<1> HIDE DEF n
<1>4. \A i \in 0 .. n : c[i] = e[i]
  BY <1>2, <1>3, SameSteps, ZenonT(60)
<1>5. c[n] = e[n]
  BY <1>2, <1>4
<1> QED
  BY <1>1, <1>5 DEF n

(* The code of items is bytes.                                             *)
LEMMA EncodeType ==
  ASSUME NEW items \in Seq(SmallItems)
  PROVE  Encode(items) \in Seq(Bytes)
<1>1. PICK e : Codes(e, items) /\ Encode(items) = e[Len(items)]
  BY EncodeSteps
<1>2. Len(items) \in 0 .. Len(items)
  OBVIOUS
<1> QED
  BY <1>1, <1>2 DEF Codes

(* No items have no code.                                                  *)
LEMMA EncodeNothing == Encode(<<>>) = <<>>
<1>1. <<>> \in Seq(SmallItems)
  OBVIOUS
<1>2. PICK e : Codes(e, <<>>) /\ Encode(<<>>) = e[Len(<<>>)]
  BY <1>1, EncodeSteps
<1> QED
  BY <1>2 DEF Codes

(* What more items become comes behind.                                    *)
LEMMA EncodeConcat ==
  ASSUME NEW items \in Seq(SmallItems), NEW more \in Seq(SmallItems)
  PROVE  Encode(items \o more) = Encode(items) \o Encode(more)
<1>1. PICK e : Codes(e, items) /\ Encode(items) = e[Len(items)]
  BY EncodeSteps
<1>2. PICK c : Codes(c, more) /\ Encode(more) = c[Len(more)]
  BY EncodeSteps
<1> DEFINE l == Len(items)
           m == Len(more)
           all == items \o more
           g == [k \in 0 .. l + m |-> IF k <= l THEN e[k] ELSE e[l] \o c[k - l]]
<1>3. /\ l \in Nat /\ m \in Nat /\ Len(all) = l + m /\ all \in Seq(SmallItems)
      /\ \A k \in 1 .. l : all[k] = items[k]
      /\ \A k \in 1 .. m : all[l + k] = more[k]
      /\ \A k \in 1 .. m : more[k] \in SmallItems
  OBVIOUS
<1>4. e \in [0 .. l -> Seq(Bytes)] /\ e[0] = <<>>
      /\ \A k \in 1 .. l : e[k] = e[k - 1] \o EncodeItem(items[k])
  BY <1>1 DEF Codes
<1>5. c \in [0 .. m -> Seq(Bytes)] /\ c[0] = <<>>
      /\ \A k \in 1 .. m : c[k] = c[k - 1] \o EncodeItem(more[k])
  BY <1>2 DEF Codes
<1> HIDE DEF l, m, all
<1>6. l \in 0 .. l /\ e[l] \in Seq(Bytes) /\ \A k \in 0 .. m : c[k] \in Seq(Bytes)
  BY <1>3, <1>4, <1>5
<1>7. \A k \in 0 .. l : g[k] = e[k]
  BY <1>3
<1>8. ASSUME NEW k \in 0 .. m
      PROVE  g[l + k] = e[l] \o c[k]
  <2>1. CASE k = 0
    <3>1. l + k = l /\ c[k] = <<>> /\ g[l] = e[l]
      BY <1>3, <1>5, <1>6, <1>7, <2>1
    <3>2. e[l] \o <<>> = e[l]
      BY <1>6
    <3> QED
      BY <3>1, <3>2
  <2>2. CASE k # 0
    <3>1. ~ (l + k <= l) /\ l + k \in 0 .. l + m /\ (l + k) - l = k
      BY <1>3, <2>2
    <3> QED
      BY <3>1
  <2> QED
    BY <2>1, <2>2
<1>9. g \in [0 .. l + m -> Seq(Bytes)]
  <2>1. ASSUME NEW k \in 0 .. l + m
        PROVE  g[k] \in Seq(Bytes)
    <3>1. CASE k <= l
      BY <1>3, <1>4, <1>7, <3>1
    <3>2. CASE ~ (k <= l)
      <4>1. k - l \in 0 .. m /\ l + (k - l) = k
        BY <1>3, <3>2
      <4>2. g[k] = e[l] \o c[k - l]
        BY <1>8, <4>1
      <4> QED
        BY <1>6, <4>1, <4>2
    <3> QED
      BY <3>1, <3>2
  <2> QED
    BY <2>1
<1> HIDE DEF g
<1>10. ASSUME NEW k \in 1 .. l + m
       PROVE  g[k] = g[k - 1] \o EncodeItem(all[k])
  <2>1. CASE k <= l
    <3>1. k \in 1 .. l /\ k - 1 \in 0 .. l /\ k \in 0 .. l
      BY <1>3, <2>1
    <3> QED
      BY <1>3, <1>4, <1>7, <3>1
  <2>2. CASE ~ (k <= l)
    <3>1. PICK j \in 1 .. m : k = l + j
      <4>1. k - l \in 1 .. m /\ l + (k - l) = k
        BY <1>3, <2>2
      <4> QED
        BY <4>1
    <3>2. j - 1 \in 0 .. m /\ j \in 0 .. m /\ k - 1 = l + (j - 1)
      BY <1>3, <3>1
    <3>3. g[k] = e[l] \o c[j] /\ g[k - 1] = e[l] \o c[j - 1]
      BY <1>8, <3>1, <3>2
    <3>4. c[j] = c[j - 1] \o EncodeItem(more[j]) /\ all[k] = more[j]
      BY <1>3, <1>5, <3>1
    <3>5. EncodeItem(more[j]) \in Seq(Bytes)
      BY <1>3, ItemCode
    <3>6. e[l] \o (c[j - 1] \o EncodeItem(more[j])) = (e[l] \o c[j - 1]) \o EncodeItem(more[j])
      <4>1. c[j - 1] \in Seq(Bytes)
        BY <1>6, <3>2
      <4> QED
        BY <1>6, <3>5, <4>1, JoinAssociates
    <3> QED
      BY <3>3, <3>4, <3>6
  <2> QED
    BY <2>1, <2>2
<1>11. Codes(g, all)
  <2>1. g[0] = <<>> /\ 0 \in 0 .. l
    BY <1>3, <1>4, <1>7
  <2> QED
    BY <1>3, <1>9, <1>10, <2>1 DEF Codes
<1>12. Encode(all) = g[l + m]
  BY <1>3, <1>11, CodesEnd
<1>13. g[l + m] = e[l] \o c[m]
  <2>1. m \in 0 .. m
    BY <1>3
  <2> QED
    BY <1>8, <2>1
<1> QED
  BY <1>1, <1>2, <1>12, <1>13 DEF l, m, all

(* One item.                                                               *)
LEMMA EncodeOne ==
  ASSUME NEW item \in SmallItems
  PROVE  Encode(<<item>>) = EncodeItem(item)
<1>1. <<item>> \in Seq(SmallItems) /\ Len(<<item>>) = 1 /\ <<item>>[1] = item
  OBVIOUS
<1>2. PICK e : Codes(e, <<item>>) /\ Encode(<<item>>) = e[Len(<<item>>)]
  BY <1>1, EncodeSteps
<1>3. e[0] = <<>> /\ e[1] = e[1 - 1] \o EncodeItem(item)
  BY <1>1, <1>2 DEF Codes
<1>4. EncodeItem(item) \in Seq(Bytes)
  BY ItemCode
<1>5. <<>> \o EncodeItem(item) = EncodeItem(item)
  BY <1>4
<1>6. 1 - 1 = 0
  OBVIOUS
<1> QED
  BY <1>1, <1>2, <1>3, <1>5, <1>6, Zenon

(* An item more.                                                           *)
LEMMA EncodeAppend ==
  ASSUME NEW items \in Seq(SmallItems), NEW item \in SmallItems
  PROVE  Encode(Append(items, item)) = Encode(items) \o EncodeItem(item)
<1>1. Append(items, item) = items \o <<item>> /\ <<item>> \in Seq(SmallItems)
  OBVIOUS
<1> QED
  BY <1>1, EncodeConcat, EncodeOne

-----------------------------------------------------------------------------
(* A block is at most BlockSize long, and so are its items.                *)
SmallBlock ==
  /\ N <= BlockSize
  /\ out \in Seq(SmallItems)

(* A literal that is emitted is small.                                     *)
LEMMA LiteralSmall ==
  ASSUME IInv, N <= BlockSize, NEW p \in Nat, NEW q \in Nat, p < q, q <= N
  PROVE  /\ Literal(p, q) \in SmallItems
         /\ Literal(p, q).kind = "literal" /\ Len(Literal(p, q).bytes) = q - p
<1>1. SubSeq(input, p + 1, q) \in Seq(Bytes) /\ Len(SubSeq(input, p + 1, q)) = q - p
  <2>1. p <= q /\ q <= Len(input) /\ input \in Seq(Bytes)
    BY DEF N, IInv
  <2> QED
    BY <2>1, Part
<1>2. 1 <= q - p /\ q - p <= BlockSize
  <2>1. N \in Nat /\ BlockSize \in Nat
    BY Sizes, BlockIs DEF IInv
  <2> QED
    BY <2>1
<1> DEFINE b == SubSeq(input, p + 1, q)
<1>3. Literal(p, q) = [kind |-> "literal", bytes |-> b]
  BY DEF Literal
<1> HIDE DEF b
<1>4. b \in {x \in Seq(Bytes) : 1 <= Len(x) /\ Len(x) <= BlockSize}
  BY <1>1, <1>2 DEF b
<1>5. Literal(p, q) \in SmallItems
  BY <1>3, <1>4 DEF SmallItems
<1>6. Literal(p, q).kind = "literal" /\ Literal(p, q).bytes = b
  BY <1>3
<1> QED
  BY <1>1, <1>5, <1>6 DEF b

(* The copies of a match have its offset.                                  *)
LEMMA CopiesSmall ==
  ASSUME NEW offset \in Nat \ {0}, offset < BlockSize, NEW len \in Nat, len >= 4
  PROVE  EmitCopy(offset, len) \in Seq(SmallItems)
<1> DEFINE more == EmitCopy(offset, len)
<1>1. more \in Seq(Items)
  BY EmitCopyCuts
<1>2. PICK cut : Cuts(cut, more, offset, len)
  BY EmitCopyCuts
<1> HIDE DEF more
<1>3. ASSUME NEW k \in 1 .. Len(more)
      PROVE  more[k] \in SmallItems
  <2> DEFINE n == cut[k] - cut[k - 1]
  <2>1. more[k] \in Items /\ more[k] = Copy(offset, n)
    BY <1>1, <1>2 DEF Cuts
  <2> HIDE DEF n
  <2>2. more[k].kind = "copy" /\ more[k].len = n /\ more[k] = [kind |-> "copy", offset |-> offset, len |-> n]
    BY <2>1 DEF Copy
  <2>3. n \in 4 .. 64
    BY <2>1, <2>2 DEF Items
  <2>4. offset \in {o \in Nat : 0 < o /\ o < BlockSize}
    OBVIOUS
  <2> QED
    BY <2>2, <2>3, <2>4 DEF SmallItems
<1>4. more \in Seq(SmallItems)
  BY <1>1, <1>3
<1> QED
  BY <1>4 DEF more

(* A call emits nothing yet.                                               *)
LEMMA BeginSmall ==
  ASSUME NEW block \in Seq(Bytes), Len(block) <= BlockSize, Begin(block)
  PROVE  SmallBlock'
BY DEF Begin, SmallBlock, N

(* Every step of compress_fragment emits small items only.                 *)
LEMMA StepSmall ==
  ASSUME IInv, SmallBlock, Step
  PROVE  SmallBlock'
<1>1. N' = N /\ N \in Nat /\ N <= BlockSize /\ out \in Seq(SmallItems)
      /\ next_emit \in Nat /\ next_emit <= N
  <2>1. input' = input
    BY DEF Step, Start, Scan, CopyMatch, Remainder
  <2>2. N \in Nat
    BY Sizes DEF IInv
  <2> QED
    BY <2>1, <2>2 DEF N, SmallBlock, IInv
<1>2. CASE Start
  BY <1>1, <1>2 DEF Start, SmallBlock
<1>3. CASE Scan
  <2>1. out' = out \/ out' = Append(out, Literal(next_emit, next_ip))
    BY <1>3 DEF Scan
  <2>2. next_ip \in Nat /\ next_emit < next_ip /\ next_ip <= Limit + 1 /\ Limit \in Int /\ Limit + 15 <= N
    BY <1>3, Sizes DEF Scan, IInv, Scanning
  <2>3. Literal(next_emit, next_ip) \in SmallItems
    BY <1>1, <2>2, LiteralSmall
  <2>4. out' \in Seq(SmallItems)
    BY <1>1, <2>1, <2>3
  <2> QED
    BY <1>1, <2>4 DEF SmallBlock
<1>4. CASE CopyMatch
  <2> DEFINE matched == 4 + MatchLength(candidate + 4, ip + 4)
             copies == EmitCopy(ip - candidate, matched)
  <2>1. out' = out \o copies /\ pc = "copy"
    BY <1>4 DEF CopyMatch
  <2>2. /\ ip \in Nat /\ ip < Limit /\ candidate \in Nat /\ candidate < ip
        /\ Four(candidate) = Four(ip) /\ input \in Seq(Bytes)
        /\ Limit \in Int /\ Limit + 15 <= N
    BY <2>1, Sizes DEF IInv, Copying
  <2>3. ip + 4 <= N
    BY <1>1, <2>2
  <2>4. matched \in Nat /\ matched >= 4
    <3>1. MatchLength(candidate + 4, ip + 4) \in 0 .. N - (ip + 4)
      BY <2>2, <2>3, WholeMatch
    <3> QED
      BY <1>1, <2>2, <2>3, <3>1
  <2> HIDE DEF matched
  <2>5. ip - candidate \in Nat \ {0} /\ ip - candidate < BlockSize
    BY <1>1, <2>2, <2>3, BlockIs
  <2>6. copies \in Seq(SmallItems)
    BY <2>4, <2>5, CopiesSmall
  <2> HIDE DEF copies
  <2>7. out' \in Seq(SmallItems)
    BY <1>1, <2>1, <2>6
  <2> QED
    BY <1>1, <2>7 DEF SmallBlock
<1>5. CASE Remainder
  <2>1. out' = IF next_emit < N THEN Append(out, Literal(next_emit, N)) ELSE out
    BY <1>5 DEF Remainder
  <2>2. CASE next_emit < N
    <3>1. Literal(next_emit, N) \in SmallItems
      BY <1>1, <2>2, LiteralSmall
    <3> QED
      BY <1>1, <2>1, <2>2, <3>1 DEF SmallBlock
  <2>3. CASE ~ (next_emit < N)
    BY <1>1, <2>1, <2>3 DEF SmallBlock
  <2> QED
    BY <2>2, <2>3
<1> QED
  BY <1>2, <1>3, <1>4, <1>5 DEF Step

-----------------------------------------------------------------------------
(* What a place of the memory holds, from the codec's point of view.       *)
Cells == Nat

(* Two sequences of any elements, one behind the other.                    *)
LEMMA Joined ==
  ASSUME NEW D, NEW x \in Seq(D), NEW y \in Seq(D)
  PROVE  /\ x \o y \in Seq(D) /\ Len(x \o y) = Len(x) + Len(y)
         /\ \A k \in 1 .. Len(x) : (x \o y)[k] = x[k]
         /\ \A k \in 1 .. Len(y) : (x \o y)[Len(x) + k] = y[k]
OBVIOUS

(* The same of memory.                                                     *)
LEMMA CellsJoined ==
  ASSUME NEW x \in Seq(Cells), NEW y \in Seq(Cells)
  PROVE  /\ x \o y \in Seq(Cells) /\ Len(x \o y) = Len(x) + Len(y)
         /\ \A k \in 1 .. Len(x) : (x \o y)[k] = x[k]
         /\ \A k \in 1 .. Len(y) : (x \o y)[Len(x) + k] = y[k]
OBVIOUS

(* What is put into the memory, at a place that it reaches.                *)
LEMMA PutIs ==
  ASSUME NEW m \in Seq(Cells), NEW at \in Nat, at <= Len(m), NEW b \in Seq(Cells)
  PROVE  /\ Put(m, at, b) \in Seq(Cells)
         /\ Len(Put(m, at, b)) = IF at + Len(b) >= Len(m) THEN at + Len(b) ELSE Len(m)
         /\ \A k \in 1 .. at : Put(m, at, b)[k] = m[k]
         /\ \A k \in 1 .. Len(b) : Put(m, at, b)[at + k] = b[k]
<1> DEFINE x == SubSeq(m, 1, at)
           z == SubSeq(m, at + Len(b) + 1, Len(m))
           u == x \o b
<1>1. x \in Seq(Cells) /\ Len(x) = at /\ \A k \in 1 .. at : x[k] = m[k]
  OBVIOUS
<1>2. z \in Seq(Cells) /\ Len(z) = IF at + Len(b) >= Len(m) THEN 0 ELSE Len(m) - (at + Len(b))
  OBVIOUS
<1>3. Put(m, at, b) = u \o z
  BY DEF Put
<1> HIDE DEF x, z
<1>n. Len(m) \in Nat /\ Len(b) \in Nat /\ Len(z) \in Nat
  BY <1>2
<1>4. /\ u \in Seq(Cells) /\ Len(u) = at + Len(b)
      /\ \A k \in 1 .. at : u[k] = m[k]
      /\ \A k \in 1 .. Len(b) : u[at + k] = b[k]
  <2>1. /\ x \o b \in Seq(Cells) /\ Len(x \o b) = Len(x) + Len(b)
        /\ \A k \in 1 .. Len(x) : (x \o b)[k] = x[k]
        /\ \A k \in 1 .. Len(b) : (x \o b)[Len(x) + k] = b[k]
    <3>1. x \in Seq(Cells) /\ b \in Seq(Cells)
      BY <1>1
    <3> QED
      BY ONLY <3>1, CellsJoined
  <2>2. Len(x) = at /\ u = x \o b
    BY <1>1
  <2> HIDE DEF u
  <2> QED
    BY <1>1, <2>1, <2>2
<1> HIDE DEF u
<1>5. /\ u \o z \in Seq(Cells) /\ Len(u \o z) = Len(u) + Len(z)
      /\ \A k \in 1 .. Len(u) : (u \o z)[k] = u[k]
  BY <1>2, <1>4, CellsJoined
<1>6. Len(u \o z) = IF at + Len(b) >= Len(m) THEN at + Len(b) ELSE Len(m)
  <2> DEFINE l == Len(u \o z)
             lz == Len(z)
             lu == Len(u)
             lb == Len(b)
             lm == Len(m)
  <2>1. /\ l = lu + lz /\ lu = at + lb /\ lm \in Nat /\ lb \in Nat
        /\ lz = IF at + lb >= lm THEN 0 ELSE lm - (at + lb)
    BY <1>2, <1>4, <1>5, <1>n
  <2> HIDE DEF l, lz, lu, lb, lm
  <2>2. l = IF at + lb >= lm THEN at + lb ELSE lm
    BY <2>1
  <2> QED
    BY <2>2 DEF l, lb, lm
<1>7. \A k \in 1 .. at : (u \o z)[k] = m[k]
  BY <1>4, <1>5, <1>n
<1>8. \A k \in 1 .. Len(b) : (u \o z)[at + k] = b[k]
  BY <1>4, <1>5, <1>n
<1> QED
  BY <1>3, <1>5, <1>6, <1>7, <1>8

(* Eight bytes from one place of the memory to another behind it.          *)
LEMMA Copy64Is ==
  ASSUME NEW m \in Seq(Cells), NEW from \in Nat, NEW to \in Nat, from < to, to <= Len(m)
  PROVE  /\ Copy64(m, from, to) \in Seq(Cells)
         /\ Len(Copy64(m, from, to)) = IF to + 8 >= Len(m) THEN to + 8 ELSE Len(m)
         /\ \A k \in 1 .. to : Copy64(m, from, to)[k] = m[k]
         /\ \A k \in 1 .. 8 : from + k <= to => Copy64(m, from, to)[to + k] = m[from + k]
<1> DEFINE b == [k \in 1 .. 8 |-> IF from + k <= Len(m) THEN m[from + k] ELSE Unwritten]
<1>1. b \in Seq(Cells) /\ Len(b) = 8
  <2>1. Unwritten \in Cells
    BY DEF Unwritten, Cells
  <2>2. \A k \in 1 .. 8 : b[k] \in Cells
    BY <2>1
  <2> QED
    BY <2>2
<1>2. \A k \in 1 .. 8 : from + k <= to => b[k] = m[from + k]
  OBVIOUS
<1>3. Copy64(m, from, to) = Put(m, to, b)
  BY DEF Copy64
<1> HIDE DEF b
<1>4. /\ Put(m, to, b) \in Seq(Cells)
      /\ Len(Put(m, to, b)) = IF to + Len(b) >= Len(m) THEN to + Len(b) ELSE Len(m)
      /\ \A k \in 1 .. to : Put(m, to, b)[k] = m[k]
      /\ \A k \in 1 .. Len(b) : Put(m, to, b)[to + k] = b[k]
  BY <1>1, PutIs
<1> QED
  BY <1>1, <1>2, <1>3, <1>4

-----------------------------------------------------------------------------
(* The loops of incremental_copy_fast_path.                                *)
CopyStates ==
  {s \in [mem : Seq(Cells), from : Nat, to : Nat, len : Int] :
     s.from < s.to /\ s.to <= Len(s.mem)}

EightBytes(s) ==
  LET gap == s.to - s.from
      copied == [s EXCEPT !.mem = Copy64(s.mem, s.from, s.to)]
  IN  IF gap < 8 THEN [copied EXCEPT !.len = @ - gap, !.to = @ + gap]
      ELSE IF s.len > 0 THEN [copied EXCEPT !.len = @ - 8, !.from = @ + 8, !.to = @ + 8]
      ELSE s

(* Eight bytes that are copied at once.                                    *)
LEMMA EightBytesIs ==
  ASSUME NEW s \in CopyStates, NEW t, t = EightBytes(s)
  PROVE  /\ t \in CopyStates
         /\ \/ /\ s.to - s.from < 8 /\ t.mem = Copy64(s.mem, s.from, s.to)
               /\ t.from = s.from /\ t.to = s.to + (s.to - s.from) /\ t.len = s.len - (s.to - s.from)
            \/ /\ s.to - s.from >= 8 /\ s.len > 0 /\ t.mem = Copy64(s.mem, s.from, s.to)
               /\ t.from = s.from + 8 /\ t.to = s.to + 8 /\ t.len = s.len - 8
            \/ s.to - s.from >= 8 /\ s.len <= 0 /\ t = s
<1> DEFINE c == Copy64(s.mem, s.from, s.to)
           gap == s.to - s.from
<1>s. s = [mem |-> s.mem, from |-> s.from, to |-> s.to, len |-> s.len]
  BY DEF CopyStates
<1>1. /\ s.mem \in Seq(Cells) /\ s.from \in Nat /\ s.to \in Nat /\ s.len \in Int
      /\ s.from < s.to /\ s.to <= Len(s.mem)
  BY DEF CopyStates
<1>2. c \in Seq(Cells) /\ Len(c) \in Nat /\ Len(c) >= s.to + 8
  <2>1. c \in Seq(Cells) /\ Len(c) = IF s.to + 8 >= Len(s.mem) THEN s.to + 8 ELSE Len(s.mem)
    BY <1>1, Copy64Is
  <2>2. Len(s.mem) \in Nat
    BY <1>1
  <2> HIDE DEF c
  <2> QED
    BY <1>1, <2>1, <2>2
<1> HIDE DEF c
<1>3. CASE gap < 8
  <2>1. t = [mem |-> c, from |-> s.from, to |-> s.to + gap, len |-> s.len - gap]
    BY <1>s, <1>3 DEF EightBytes, c
  <2>2. /\ s.to + gap \in Nat /\ s.len - gap \in Int /\ s.from < s.to + gap /\ s.to + gap <= Len(c)
    BY <1>1, <1>2, <1>3
  <2>3. t \in CopyStates
    BY <1>1, <1>2, <2>1, <2>2 DEF CopyStates
  <2> QED
    BY <1>3, <2>1, <2>3 DEF c
<1>4. CASE ~ (gap < 8) /\ s.len > 0
  <2>1. t = [mem |-> c, from |-> s.from + 8, to |-> s.to + 8, len |-> s.len - 8]
    BY <1>s, <1>4 DEF EightBytes, c
  <2>2. /\ s.to + 8 \in Nat /\ s.from + 8 \in Nat /\ s.len - 8 \in Int /\ s.from + 8 < s.to + 8
        /\ s.to + 8 <= Len(c) /\ gap >= 8
    <3> DEFINE lc == Len(c)
               from == s.from
               to == s.to
               left0 == s.len
    <3>1. from \in Nat /\ to \in Nat /\ left0 \in Int /\ from < to /\ lc \in Nat /\ lc >= to + 8
      BY <1>1, <1>2
    <3>2. ~ (to - from < 8)
      BY <1>4
    <3> HIDE DEF from, to, left0, lc
    <3>3. /\ to + 8 \in Nat /\ from + 8 \in Nat /\ left0 - 8 \in Int /\ from + 8 < to + 8
          /\ to + 8 <= lc /\ to - from >= 8
      BY <3>1, <3>2
    <3> QED
      BY <3>3 DEF from, to, left0, lc
  <2>3. t \in CopyStates
    BY <1>1, <1>2, <2>1, <2>2 DEF CopyStates
  <2> QED
    BY <1>4, <2>1, <2>2, <2>3 DEF c
<1>5. CASE ~ (gap < 8) /\ ~ (s.len > 0)
  <2>1. t = s
    BY <1>5 DEF EightBytes
  <2>2. gap >= 8 /\ s.len <= 0
    BY <1>1, <1>5
  <2> QED
    BY <2>1, <2>2
<1> QED
  BY <1>3, <1>4, <1>5

CopySteps(after, m, offset, len) ==
  /\ after \in [0 .. 4 + len \div 8 -> CopyStates]
  /\ after[0] = [mem |-> m, from |-> op - offset, to |-> op, len |-> len]
  /\ \A i \in 1 .. 4 + len \div 8 : after[i] = EightBytes(after[i - 1])

(* The fast copy of a short offset, a step at a time.                      *)
LEMMA CopyOverlappingSteps ==
  ASSUME NEW m \in Seq(Cells), op \in Nat, op <= Len(m), NEW offset \in Nat, 0 < offset, offset <= op,
         NEW len \in Nat
  PROVE  \E after : CopySteps(after, m, offset, len)
                    /\ CopyOverlapping(m, offset, len) = after[4 + len \div 8].mem
<1> DEFINE n == 4 + len \div 8
           b == [mem |-> m, from |-> op - offset, to |-> op, len |-> len]
           F(f) == [i \in 0 .. n |-> IF i = 0 THEN b ELSE EightBytes(f[i - 1])]
           after == CHOOSE f : f = F(f)
           w == [p \in Nat \X CopyStates |-> EightBytes(p[2])]
<1>1. CopyOverlapping(m, offset, len) = after[n].mem
  BY DEF CopyOverlapping, EightBytes
<1>2. n \in Nat
  OBVIOUS
<1>3. b \in CopyStates
  BY DEF CopyStates
<1>4. w \in [Nat \X CopyStates -> CopyStates]
  BY EightBytesIs
<1> HIDE DEF n, b
<1>5. \E f : f = F(f)
  <2> HIDE DEF w
  <2>1. PICK f \in [0 .. n -> CopyStates] : Iterates(f, n, b, w)
    BY <1>2, <1>3, <1>4, IterationExists
  <2>2. \A i \in 1 .. n : f[i] = EightBytes(f[i - 1])
    <3> SUFFICES ASSUME NEW i \in 1 .. n
                 PROVE  f[i] = EightBytes(f[i - 1])
      OBVIOUS
    <3>1. f[i - 1] \in CopyStates /\ i \in Nat
      BY <1>2
    <3>2. f[i] = w[<<i, f[i - 1]>>]
      BY <2>1 DEF Iterates
    <3> QED
      BY <3>1, <3>2 DEF w
  <2>3. f[0] = b /\ DOMAIN f = 0 .. n
    BY <2>1 DEF Iterates
  <2>4. \A i \in 0 .. n : f[i] = IF i = 0 THEN b ELSE EightBytes(f[i - 1])
    BY <1>2, <2>2, <2>3
  <2>5. f = [i \in 0 .. n |-> f[i]]
    OBVIOUS
  <2> QED
    BY <2>4, <2>5
<1>6. after = F(after)
  <2> HIDE DEF F
  <2> QED
    BY <1>5
<1>7. /\ \A i \in 0 .. n : after[i] = IF i = 0 THEN b ELSE EightBytes(after[i - 1])
      /\ after = [i \in 0 .. n |-> after[i]]
  <2> HIDE DEF after
  <2> QED
    BY <1>6
<1> HIDE DEF after
<1>8. \A i \in 0 .. n : after[i] \in CopyStates
  <2>1. after[0] \in CopyStates
    BY <1>2, <1>3, <1>7
  <2>2. ASSUME NEW i \in 1 .. n, after[i - 1] \in CopyStates
        PROVE  after[i] \in CopyStates
    <3>1. after[i] = EightBytes(after[i - 1])
      BY <1>2, <1>7
    <3> QED
      BY <2>2, <3>1, EightBytesIs
  <2> QED
    BY <1>2, <2>1, <2>2, StepsStay
<1>9. after \in [0 .. n -> CopyStates]
  BY <1>7, <1>8
<1>10. after[0] = b /\ \A i \in 1 .. n : after[i] = EightBytes(after[i - 1])
  BY <1>2, <1>7
<1>11. CopySteps(after, m, offset, len)
  BY <1>9, <1>10 DEF CopySteps, n, b
<1> QED
  BY <1>1, <1>11 DEF n

-----------------------------------------------------------------------------
(* After i copies of eight bytes: how far they have come, and what of the  *)
(* memory they have written.                                               *)
CopyCounts(s, offset, len, i, top) ==
  /\ s.to + s.len = op + len /\ op <= s.to /\ Len(s.mem) <= top
  /\ s.from >= op - offset /\ s.to - s.from >= offset
  /\ s.len <= 0 \/ s.len <= len - 8 * (i - 3)
  /\ s.to - s.from < 8 =>
       /\ s.from = op - offset
       /\ \/ i = 0 /\ s.to - s.from = offset
          \/ i = 1 /\ s.to - s.from = 2 * offset
          \/ i = 2 /\ s.to - s.from = 4 * offset

(* The bytes repeat, and those at the source are those a period before.    *)
CopyRepeats(s, m, offset) ==
  /\ \A k \in 1 .. op : s.mem[k] = m[k]
  /\ \A k \in op + 1 .. s.to : s.mem[k] = s.mem[k - offset]
  /\ \A k \in 1 .. offset : s.mem[s.from + k] = s.mem[s.to - offset + k]

(* A round of eight bytes stays within the space that the fast copy asks   *)
(* for.                                                                    *)
LEMMA EightCounts ==
  ASSUME NEW s \in CopyStates, op \in Nat, NEW offset \in Nat, 0 < offset, offset <= op,
         NEW len \in Nat, 0 < len, NEW i \in Nat, NEW top \in Nat, op + len + 10 <= top,
         CopyCounts(s, offset, len, i, top)
  PROVE  CopyCounts(EightBytes(s), offset, len, i + 1, top)
<1> DEFINE t == EightBytes(s)
           ls == Len(s.mem)
           lt == Len(t.mem)
           from == s.from
           to == s.to
           left0 == s.len
           tfrom == t.from
           tto == t.to
           tleft == t.len
           gap == to - from
<1>1. /\ s.mem \in Seq(Cells) /\ from \in Nat /\ to \in Nat /\ left0 \in Int
      /\ from < to /\ to <= ls /\ ls \in Nat
  BY DEF CopyStates
<1>2. /\ t \in CopyStates
      /\ \/ /\ to - from < 8 /\ t.mem = Copy64(s.mem, from, to)
            /\ tfrom = from /\ tto = to + (to - from) /\ tleft = left0 - (to - from)
         \/ /\ to - from >= 8 /\ left0 > 0 /\ t.mem = Copy64(s.mem, from, to)
            /\ tfrom = from + 8 /\ tto = to + 8 /\ tleft = left0 - 8
         \/ to - from >= 8 /\ left0 <= 0 /\ t = s
  BY EightBytesIs
<1>3. /\ to + left0 = op + len /\ op <= to /\ ls <= top
      /\ from >= op - offset /\ gap >= offset
      /\ left0 <= 0 \/ left0 <= len - 8 * (i - 3)
      /\ gap < 8 =>
           /\ from = op - offset
           /\ \/ i = 0 /\ gap = offset
              \/ i = 1 /\ gap = 2 * offset
              \/ i = 2 /\ gap = 4 * offset
  BY DEF CopyCounts
<1>4. t.mem = Copy64(s.mem, from, to) => lt = IF to + 8 >= ls THEN to + 8 ELSE ls
  <2> DEFINE m == s.mem
             c == Copy64(m, from, to)
  <2>1. m \in Seq(Cells) /\ from \in Nat /\ to \in Nat /\ from < to /\ to <= Len(m)
    BY <1>1
  <2> HIDE DEF m, from, to
  <2>2. Len(Copy64(m, from, to)) = IF to + 8 >= Len(m) THEN to + 8 ELSE Len(m)
    BY ONLY <2>1, Copy64Is
  <2> QED
    BY <2>2 DEF m
<1>n. from \in Nat /\ to \in Nat /\ left0 \in Int /\ from < to /\ to <= ls /\ ls \in Nat
  BY <1>1
<1>5. CASE t # s
  <2>1. \/ gap < 8 /\ tfrom = from /\ tto = to + gap /\ tleft = left0 - gap
        \/ gap >= 8 /\ left0 > 0 /\ tfrom = from + 8 /\ tto = to + 8 /\ tleft = left0 - 8
    BY <1>2, <1>5
  <2>2. lt = IF to + 8 >= ls THEN to + 8 ELSE ls
    BY <1>2, <1>4, <1>5
  <2> HIDE DEF t, ls, lt, from, to, left0, tfrom, tto, tleft
  <2>3. /\ tto + tleft = op + len /\ op <= tto /\ lt <= top
        /\ tfrom >= op - offset /\ tto - tfrom >= offset
        /\ tleft <= 0 \/ tleft <= len - 8 * (i + 1 - 3)
        /\ tto - tfrom < 8 =>
             /\ tfrom = op - offset
             /\ \/ i + 1 = 0 /\ tto - tfrom = offset
                \/ i + 1 = 1 /\ tto - tfrom = 2 * offset
                \/ i + 1 = 2 /\ tto - tfrom = 4 * offset
    <3>1. CASE gap < 8 /\ tfrom = from /\ tto = to + gap /\ tleft = left0 - gap
      BY <1>n, <1>3, <2>2, <3>1
    <3>2. CASE gap >= 8 /\ left0 > 0 /\ tfrom = from + 8 /\ tto = to + 8 /\ tleft = left0 - 8
      BY <1>n, <1>3, <2>2, <3>2
    <3> QED
      BY <2>1, <3>1, <3>2
  <2> QED
    BY <2>3 DEF CopyCounts, t, lt, tfrom, tto, tleft
<1>6. CASE t = s
  <2>1. gap >= 8 /\ left0 <= 0
    <3>1. gap # 0 /\ from # from + 8
      BY <1>n
    <3>2. t = s => tfrom = from /\ tto = to
      OBVIOUS
    <3> HIDE DEF t, from, to, tfrom, tto, left0
    <3> QED
      BY <1>2, <1>6, <1>n, <3>1, <3>2
  <2>2. ~ (gap < 8)
    BY <1>n, <2>1
  <2> QED
    BY <1>3, <1>6, <2>1, <2>2 DEF CopyCounts
<1> QED
  BY <1>5, <1>6

(* A round of eight bytes keeps what has been written a repetition of the  *)
(* pattern.                                                                *)
LEMMA EightRepeats ==
  ASSUME NEW s \in CopyStates, op \in Nat, NEW m, NEW offset \in Nat, 0 < offset, offset <= op,
         op <= s.to, s.from >= op - offset, s.to - s.from >= offset,
         CopyRepeats(s, m, offset)
  PROVE  CopyRepeats(EightBytes(s), m, offset)
<1> DEFINE t == EightBytes(s)
           a == s.mem
           c == t.mem
           from == s.from
           to == s.to
           tfrom == t.from
           tto == t.to
           gap == to - from
           w == tto - to
<1>1. a \in Seq(Cells) /\ to <= Len(a)
  BY DEF CopyStates
<1>n. from \in Nat /\ to \in Nat /\ from < to
  BY DEF CopyStates
<1>o. op <= to /\ from >= op - offset /\ gap >= offset
  OBVIOUS
<1>2. \/ /\ gap < 8 /\ c = Copy64(a, from, to)
         /\ tfrom = from /\ tto = to + gap
      \/ /\ gap >= 8 /\ c = Copy64(a, from, to)
         /\ tfrom = from + 8 /\ tto = to + 8
      \/ t = s
  BY EightBytesIs
<1>3. /\ \A k \in 1 .. op : a[k] = m[k]
      /\ \A k \in op + 1 .. to : a[k] = a[k - offset]
      /\ \A k \in 1 .. offset : a[from + k] = a[to - offset + k]
  BY DEF CopyRepeats
<1>c. c = Copy64(a, from, to) =>
        /\ \A k \in 1 .. to : c[k] = a[k]
        /\ \A k \in 1 .. 8 : from + k <= to => c[to + k] = a[from + k]
  <2> HIDE DEF a, c, from, to
  <2>1. /\ \A k \in 1 .. to : Copy64(a, from, to)[k] = a[k]
        /\ \A k \in 1 .. 8 : from + k <= to => Copy64(a, from, to)[to + k] = a[from + k]
    BY <1>1, <1>n, Copy64Is
  <2> QED
    BY <2>1
<1>4. CASE t = s
  BY <1>4
<1>5. CASE t # s
  <2> HIDE DEF t, a, c, from, to, tfrom, tto
  <2>1. /\ w \in Nat /\ 1 <= w /\ w <= 8 /\ w <= gap /\ tto = to + w
        /\ \/ tfrom = from /\ w = gap
           \/ tfrom = from + 8 /\ w = 8
    BY <1>n, <1>2, <1>5
  <2>2. /\ \A k \in 1 .. to : c[k] = a[k]
        /\ \A k \in 1 .. 8 : from + k <= to => c[to + k] = a[from + k]
    BY <1>2, <1>5, <1>c
  <2> HIDE DEF w
  <2>3. \A k \in 1 .. w : c[to + k] = a[from + k]
    <3> SUFFICES ASSUME NEW k \in 1 .. w
                 PROVE  c[to + k] = a[from + k]
      OBVIOUS
    <3>1. k \in 1 .. 8 /\ from + k <= to
      BY <1>n, <2>1
    <3> QED
      BY <2>2, <3>1
  <2>4. ASSUME NEW k \in op + 1 .. tto
        PROVE  c[k] = c[k - offset]
    <3>1. CASE k <= to
      <4>1. k \in op + 1 .. to /\ k \in 1 .. to /\ k - offset \in 1 .. to
        BY <1>n, <2>1, <3>1
      <4>2. a[k] = a[k - offset]
        BY <1>3, <4>1
      <4> QED
        BY <2>2, <4>1, <4>2
    <3>2. CASE k > to
      <4> DEFINE j == k - to
      <4>1. j \in 1 .. w /\ to + j = k /\ j \in Nat
        BY <1>n, <2>1, <3>2
      <4> HIDE DEF j
      <4>2. c[k] = a[from + j]
        BY <2>3, <4>1
      <4>3. CASE j <= offset
        <5>1. j \in 1 .. offset /\ to - offset + j = k - offset /\ k - offset \in 1 .. to
          BY <1>n, <1>o, <4>1, <4>3
        <5>2. a[from + j] = a[k - offset]
          BY <1>3, <5>1
        <5> QED
          BY <2>2, <4>2, <5>1, <5>2
      <4>4. CASE j > offset
        <5>1. /\ j - offset \in 1 .. w /\ to + (j - offset) = k - offset
              /\ from + j \in op + 1 .. to /\ (from + j) - offset = from + (j - offset)
          BY <1>n, <1>o, <2>1, <4>1, <4>4
        <5>2. c[k - offset] = a[from + (j - offset)]
          BY <2>3, <5>1
        <5>3. a[from + j] = a[from + (j - offset)]
          BY <1>3, <5>1
        <5> QED
          BY <4>2, <5>2, <5>3
      <4> QED
        BY <4>1, <4>3, <4>4
    <3> QED
      BY <1>n, <2>1, <3>1, <3>2
  <2>5. ASSUME NEW k \in 1 .. offset
        PROVE  c[tfrom + k] = c[tto - offset + k]
    <3>1. CASE tfrom = from /\ w = gap
      <4> DEFINE j == gap - offset + k
      <4>1. /\ j \in 1 .. w /\ to + j = tto - offset + k
            /\ from + j = to - offset + k /\ from + k \in 1 .. to
        BY <1>n, <1>o, <2>1, <3>1
      <4> HIDE DEF j
      <4>2. c[to + j] = a[from + j]
        BY <2>3, <4>1
      <4>3. a[from + k] = a[to - offset + k]
        BY <1>3
      <4>4. c[from + k] = a[from + k]
        BY <2>2, <4>1
      <4> QED
        BY <3>1, <4>1, <4>2, <4>3, <4>4
    <3>2. CASE tfrom = from + 8 /\ w = 8
      <4> DEFINE j == 8 + k - offset
      <4>1. CASE j >= 1
        <5>1. /\ j \in 1 .. w /\ to + j = tto - offset + k
              /\ tfrom + k \in op + 1 .. tto /\ (tfrom + k) - offset = from + j
              /\ from + j \in 1 .. to
          BY <1>n, <1>o, <2>1, <3>2, <4>1
        <5> HIDE DEF j
        <5>2. c[to + j] = a[from + j]
          BY <2>3, <5>1
        <5>3. c[tfrom + k] = c[(tfrom + k) - offset]
          BY <2>4, <5>1
        <5>4. c[from + j] = a[from + j]
          BY <2>2, <5>1
        <5> QED
          BY <5>1, <5>2, <5>3, <5>4
      <4>2. CASE ~ (j >= 1)
        <5>1. /\ 8 + k \in 1 .. offset /\ tfrom + k = from + (8 + k)
              /\ tto - offset + k = to - offset + (8 + k)
              /\ tfrom + k \in 1 .. to /\ tto - offset + k \in 1 .. to
          BY <1>n, <1>o, <2>1, <3>2, <4>2
        <5>2. a[from + (8 + k)] = a[to - offset + (8 + k)]
          BY <1>3, <5>1
        <5> QED
          BY <2>2, <5>1, <5>2
      <4> QED
        BY <4>1, <4>2
    <3> QED
      BY <2>1, <3>1, <3>2
  <2>6. \A k \in 1 .. op : c[k] = m[k]
    <3>1. \A k \in 1 .. op : k \in 1 .. to
      BY <1>n, <1>o
    <3> QED
      BY <1>3, <2>2, <3>1
  <2>7. CopyRepeats(t, m, offset)
    BY <2>4, <2>5, <2>6 DEF CopyRepeats, c, tfrom, tto
  <2> QED
    BY <2>7 DEF t
<1> QED
  BY <1>4, <1>5

(* What the copy leaves: as much as it is for, and not much more.          *)
LEMMA CopyOverlappingIs ==
  ASSUME NEW m \in Seq(Cells), op \in Nat, op <= Len(m), NEW offset \in Nat, 0 < offset, offset <= op,
         NEW len \in Nat, 0 < len, NEW top \in Nat, op + len + 10 <= top, Len(m) <= top
  PROVE  /\ CopyOverlapping(m, offset, len) \in Seq(Cells)
         /\ op + len <= Len(CopyOverlapping(m, offset, len))
         /\ Len(CopyOverlapping(m, offset, len)) <= top
         /\ \A k \in 1 .. op : CopyOverlapping(m, offset, len)[k] = m[k]
         /\ Repeats(CopyOverlapping(m, offset, len), op, offset, len)
<1> DEFINE n == 4 + len \div 8
<1>1. PICK after : CopySteps(after, m, offset, len) /\ CopyOverlapping(m, offset, len) = after[n].mem
  BY CopyOverlappingSteps
<1>2. n \in Nat /\ 8 * (n - 3) > len
  OBVIOUS
<1> DEFINE T == {i \in 0 .. n : CopyCounts(after[i], offset, len, i, top) /\ CopyRepeats(after[i], m, offset)}
<1>3. /\ after \in [0 .. n -> CopyStates]
      /\ after[0] = [mem |-> m, from |-> op - offset, to |-> op, len |-> len]
      /\ \A i \in 1 .. n : after[i] = EightBytes(after[i - 1])
  BY <1>1 DEF CopySteps
<1> HIDE DEF n
<1>4. 0 \in T
  <2> DEFINE s == [mem |-> m, from |-> op - offset, to |-> op, len |-> len]
  <2>1. CopyCounts(s, offset, len, 0, top)
    BY DEF CopyCounts
  <2>2. CopyRepeats(s, m, offset)
    <3>1. s.mem = m /\ s.from = op - offset /\ s.to = op
      OBVIOUS
    <3> HIDE DEF s
    <3> QED
      BY <3>1 DEF CopyRepeats
  <2> QED
    BY <1>2, <1>3, <2>1, <2>2
<1>5. ASSUME NEW i \in 1 .. n, i - 1 \in T
      PROVE  i \in T
  <2> DEFINE s == after[i - 1]
  <2>1. i - 1 \in Nat /\ i - 1 \in 0 .. n /\ i - 1 + 1 = i /\ i \in 0 .. n
    BY <1>2
  <2>2. s \in CopyStates /\ after[i] = EightBytes(s)
    BY <1>3, <2>1
  <2>3. CopyCounts(s, offset, len, i - 1, top) /\ CopyRepeats(s, m, offset)
    BY <1>5
  <2> HIDE DEF s
  <2>4. CopyCounts(EightBytes(s), offset, len, i - 1 + 1, top)
    BY <2>1, <2>2, <2>3, EightCounts
  <2>5. CopyRepeats(EightBytes(s), m, offset)
    <3>1. op <= s.to /\ s.from >= op - offset /\ s.to - s.from >= offset
      BY <2>3 DEF CopyCounts
    <3> QED
      BY <2>2, <2>3, <3>1, EightRepeats
  <2> QED
    BY <2>1, <2>2, <2>4, <2>5
<1> DEFINE s == after[n]
<1>6. s \in CopyStates /\ CopyCounts(s, offset, len, n, top) /\ CopyRepeats(s, m, offset)
  <2>1. n \in T
    <3>1. \A i \in 1 .. n : i - 1 \in T => i \in T
      BY <1>5
    <3>2. n \in 0 .. n
      BY <1>2
    <3> HIDE DEF T
    <3>3. \A i \in 0 .. n : i \in T
      BY <1>2, <1>4, <3>1, UpTo
    <3> QED
      BY <3>2, <3>3
  <2>2. n \in 0 .. n
    BY <1>2
  <2> QED
    BY <1>3, <2>1, <2>2
<1>7. CopyOverlapping(m, offset, len) = s.mem
  BY <1>1
<1> HIDE DEF s
<1>8. s.mem \in Seq(Cells) /\ s.to \in Nat /\ s.len \in Int /\ s.to <= Len(s.mem) /\ Len(s.mem) \in Nat
  BY <1>6 DEF CopyStates
<1>9. s.to + s.len = op + len /\ Len(s.mem) <= top /\ s.len <= 0
  BY <1>2, <1>6, <1>8 DEF CopyCounts
<1>10. op + len <= s.to
  BY <1>8, <1>9
<1>11. \A k \in 1 .. op : s.mem[k] = m[k]
  BY <1>6 DEF CopyRepeats
<1>12. Repeats(s.mem, op, offset, len)
  <2> SUFFICES ASSUME NEW k \in 1 .. len
               PROVE  s.mem[op + k] = s.mem[op - offset + k]
    BY DEF Repeats
  <2>1. op + k \in op + 1 .. s.to /\ (op + k) - offset = op - offset + k
    BY <1>8, <1>10
  <2>2. s.mem[op + k] = s.mem[(op + k) - offset]
    BY <1>6, <2>1 DEF CopyRepeats
  <2> QED
    BY <2>1, <2>2
<1> QED
  BY <1>7, <1>8, <1>9, <1>10, <1>11, <1>12

-----------------------------------------------------------------------------
(* The smaller of two numbers.                                             *)
LEMMA SmallerIs ==
  ASSUME NEW a \in Int, NEW b \in Int
  PROVE  /\ Smaller(a, b) \in {a, b} /\ Smaller(a, b) \in Int
         /\ Smaller(a, b) <= a /\ Smaller(a, b) <= b
BY DEF Smaller

(* Stitching does not take more than is asked for.                         *)
LEMMA WithNextPieceWithin ==
  ASSUME NEW g \in Stitched, NEW n \in Nat, Len(g.bytes) <= n
  PROVE  Len(WithNextPiece(g, n).bytes) <= n
<1> DEFINE p == Peek(g.source)
           m == Smaller(n - Len(g.bytes), Len(p))
           more == SubSeq(p, 1, m)
           b == g.bytes
<1>1. b \in Seq(Bytes) /\ g.source \in Sources /\ Len(b) \in Nat
  BY DEF Stitched
<1>2. CASE Len(b) >= n
  BY <1>2 DEF WithNextPiece
<1>3. CASE ~ (Len(b) >= n)
  <2>1. p \in Seq(Bytes) /\ Len(p) \in Nat
    BY <1>1, PeekType
  <2>2. WithNextPiece(g, n) = [bytes |-> b \o more, source |-> Skip(g.source, Len(more))]
    BY <1>3 DEF WithNextPiece
  <2> HIDE DEF b, p
  <2>3. m \in Nat /\ m <= Len(p) /\ m <= n - Len(b)
    <3> DEFINE lb == Len(b)
               lp == Len(p)
    <3>1. lb \in Nat /\ lp \in Nat /\ ~ (lb >= n)
      BY <1>1, <1>3, <2>1
    <3> HIDE DEF lb, lp
    <3>2. Smaller(n - lb, lp) \in Nat /\ Smaller(n - lb, lp) <= lp /\ Smaller(n - lb, lp) <= n - lb
      BY <3>1 DEF Smaller
    <3> QED
      BY <3>2 DEF lb, lp, b
  <2> HIDE DEF m
  <2>4. more \in Seq(Bytes) /\ Len(more) = m
    BY <2>1, <2>3
  <2> HIDE DEF more
  <2>5. Len(b \o more) = Len(b) + m
    BY <1>1, <2>4, Join
  <2>6. Len(b \o more) <= n
    BY <1>1, <2>3, <2>5
  <2> QED
    BY <2>2, <2>6
<1> QED
  BY <1>2, <1>3

(* Gathering takes no more than is asked for.                              *)
LEMMA GatherWithin ==
  ASSUME NEW s \in Sources, NEW have \in Seq(Bytes), NEW n \in Nat, Len(have) <= n
  PROVE  Len(Gather(s, have, n).bytes) <= n
<1> DEFINE m == Len(s.iov)
           at == m + 1 - s.vec
<1>1. PICK after : StitchSteps(after, s, have, n) /\ Gather(s, have, n) = after[at]
  BY GatherSteps
<1>2. m \in Nat /\ at \in 0 .. m
  BY DEF Sources
<1>3. /\ after \in [0 .. m -> Stitched]
      /\ after[0] = [bytes |-> have, source |-> s]
      /\ \A i \in 1 .. m : after[i] = WithNextPiece(after[i - 1], n)
  BY <1>1 DEF StitchSteps
<1> HIDE DEF m, at
<1> DEFINE T == {i \in 0 .. m : Len(after[i].bytes) <= n}
<1>4. 0 \in T
  BY <1>2, <1>3
<1>5. ASSUME NEW i \in 1 .. m, i - 1 \in T
      PROVE  i \in T
  <2>1. i - 1 \in 0 .. m /\ i \in 0 .. m
    BY <1>2
  <2>2. after[i - 1] \in Stitched /\ Len(after[i - 1].bytes) <= n
    BY <1>3, <1>5, <2>1
  <2>3. Len(WithNextPiece(after[i - 1], n).bytes) <= n
    BY <2>2, WithNextPieceWithin
  <2> QED
    BY <1>3, <2>1, <2>3
<1>6. \A i \in 1 .. m : i - 1 \in T => i \in T
  BY <1>5
<1>7. at \in T
  <2> HIDE DEF T
  <2>1. \A i \in 0 .. m : i \in T
    BY <1>2, <1>4, <1>6, UpTo
  <2> QED
    BY <1>2, <2>1
<1> QED
  BY <1>1, <1>7

-----------------------------------------------------------------------------
(* The length at the front.                                                *)
LEMMA SevensIs ==
  ASSUME NEW i \in 1 .. 5
  PROVE  Sevens[i] \in Nat /\ Sevens[i] > 0
BY DEF Sevens

(* A length has one to five bytes.                                         *)
LEMMA VarintLengthIs ==
  ASSUME NEW n \in Nat
  PROVE  VarintLength(n) \in 1 .. 5
BY SMT DEF VarintLength

(* A function on 1 .. n is a sequence.                                     *)
LEMMA MakeSeq ==
  ASSUME NEW D, NEW n \in Nat, NEW f, f = [i \in 1 .. n |-> f[i]], \A i \in 1 .. n : f[i] \in D
  PROVE  f \in Seq(D) /\ Len(f) = n
<1>1. f \in [1 .. n -> D]
  OBVIOUS
<1> QED
  BY <1>1

(* They are bytes.                                                         *)
LEMMA VarintType ==
  ASSUME NEW n \in Nat
  PROVE  Varint(n) \in Seq(Bytes) /\ Len(Varint(n)) = VarintLength(n)
<1> DEFINE l == VarintLength(n)
           b(i) == ((n \div Sevens[i]) % 128) + IF i < l THEN 128 ELSE 0
<1>1. l \in 1 .. 5
  BY VarintLengthIs
<1>2. Varint(n) = [i \in 1 .. l |-> b(i)]
  BY DEF Varint
<1> HIDE DEF l
<1>3. ASSUME NEW i \in 1 .. l
      PROVE  b(i) \in Bytes
  <2> DEFINE s == Sevens[i]
             q == n \div s
  <2>1. s \in Nat /\ s > 0
    BY <1>1, SevensIs
  <2> HIDE DEF s
  <2>2. q \in Nat
    BY <2>1
  <2> HIDE DEF q
  <2>3. q % 128 \in Nat /\ q % 128 < 128
    BY <2>2
  <2> DEFINE r == q % 128
  <2>4. b(i) = r + IF i < l THEN 128 ELSE 0
    BY DEF q, s
  <2> HIDE DEF r, b
  <2>5. b(i) \in Nat /\ b(i) < 256
    BY <2>3, <2>4 DEF r
  <2> QED
    BY <2>5, ByteIs
<1> DEFINE f == [i \in 1 .. l |-> b(i)]
<1>4. l \in Nat /\ f = [i \in 1 .. l |-> f[i]] /\ \A i \in 1 .. l : f[i] = b(i)
  BY <1>1
<1>5. f \in Seq(Bytes) /\ Len(f) = l
  <2>1. \A i \in 1 .. l : f[i] \in Bytes
    BY <1>3, <1>4
  <2> HIDE DEF f
  <2> QED
    BY <1>4, <2>1, MakeSeq
<1> QED
  BY <1>2, <1>5 DEF l

(* A byte, or zero behind the end.                                         *)
LEMMA ByteAtType ==
  ASSUME NEW bytes \in Seq(Bytes), NEW i \in Nat, i > 0
  PROVE  ByteAt(bytes, i) \in Nat /\ ByteAt(bytes, i) < 256
<1>1. CASE i <= Len(bytes)
  <2>1. bytes[i] \in Bytes
    BY <1>1
  <2> QED
    BY <1>1, <2>1, ByteIs DEF ByteAt
<1>2. CASE ~ (i <= Len(bytes))
  BY <1>2 DEF ByteAt
<1> QED
  BY <1>1, <1>2

(* Products of numbers that are not negative.                              *)
LEMMA Product ==
  ASSUME NEW a \in Nat, NEW b \in Nat
  PROVE  a * b \in Nat
OBVIOUS

(* The length that is read is a number.                                    *)
LEMMA VarintValueType ==
  ASSUME NEW bytes \in Seq(Bytes)
  PROVE  VarintValue(bytes) \in Nat
<1>1. \A i \in 1 .. 5 : ByteAt(bytes, i) \in Nat
  BY ByteAtType
<1>2. \A i \in 1 .. 5 : ByteAt(bytes, i) % 128 \in Nat /\ ByteAt(bytes, i) % 16 \in Nat
  <2>1. \A x \in Nat : x % 128 \in Nat /\ x % 16 \in Nat
    OBVIOUS
  <2> QED
    BY <1>1, <2>1
<1>3. 1 \in 1 .. 5 /\ 2 \in 1 .. 5 /\ 3 \in 1 .. 5 /\ 4 \in 1 .. 5 /\ 5 \in 1 .. 5
  OBVIOUS
<1>4. /\ Sevens[2] \in Nat /\ Sevens[3] \in Nat /\ Sevens[4] \in Nat /\ Sevens[5] \in Nat
  BY <1>3, SevensIs
<1> DEFINE a1 == ByteAt(bytes, 1) % 128
           a2 == Sevens[2] * (ByteAt(bytes, 2) % 128)
           a3 == Sevens[3] * (ByteAt(bytes, 3) % 128)
           a4 == Sevens[4] * (ByteAt(bytes, 4) % 128)
           a5 == Sevens[5] * (ByteAt(bytes, 5) % 16)
<1>5. a1 \in Nat
  BY <1>2, <1>3
<1>6. a2 \in Nat
  BY <1>2, <1>3, <1>4, Product
<1>7. a3 \in Nat
  BY <1>2, <1>3, <1>4, Product
<1>8. a4 \in Nat
  BY <1>2, <1>3, <1>4, Product
<1>9. a5 \in Nat
  BY <1>2, <1>3, <1>4, Product
<1>10. VarintValue(bytes) = a1 + a2 + a3 + a4 + a5
  BY DEF VarintValue
<1> HIDE DEF a1, a2, a3, a4, a5
<1> QED
  BY <1>5, <1>6, <1>7, <1>8, <1>9, <1>10

(* So is the number of bytes in reversed order.                            *)
LEMMA LittleEndianValueType ==
  ASSUME NEW bytes \in Seq(Bytes)
  PROVE  LittleEndianValue(bytes) \in Nat
<1>1. \A i \in 1 .. 4 : ByteAt(bytes, i) \in Nat
  BY ByteAtType
<1> DEFINE b1 == ByteAt(bytes, 1)
           b2 == ByteAt(bytes, 2)
           b3 == ByteAt(bytes, 3)
           b4 == ByteAt(bytes, 4)
           k3 == 65536
           k4 == 16777216
<1>2. b1 \in Nat /\ b2 \in Nat /\ b3 \in Nat /\ b4 \in Nat
  BY <1>1
<1>3. LittleEndianValue(bytes) = b1 + 256 * b2 + k3 * b3 + k4 * b4
  BY DEF LittleEndianValue
<1>4. k3 \in Nat /\ k4 \in Nat
  OBVIOUS
<1> HIDE DEF b1, b2, b3, b4, k3, k4
<1>5. k3 * b3 \in Nat /\ k4 * b4 \in Nat
  BY <1>2, <1>4, Product
<1> DEFINE p3 == k3 * b3
           p4 == k4 * b4
<1> HIDE DEF p3, p4
<1>6. b1 + 256 * b2 + p3 + p4 \in Nat
  BY <1>2, <1>5 DEF p3, p4
<1> QED
  BY <1>3, <1>6 DEF p3, p4

-----------------------------------------------------------------------------
(* Bytes in pieces.                                                        *)
LEMMA CutType ==
  ASSUME NEW bytes \in Seq(Bytes), bytes # <<>>, NEW size \in Nat, size > 0
  PROVE  Cut(bytes, size) \in Seq(Seq(Bytes)) /\ Cut(bytes, size) # <<>>
<1> DEFINE l == Len(bytes)
           n == (l + size - 1) \div size
           c(i) == SubSeq(bytes, size * (i - 1) + 1, Smaller(size * i, l))
<1>1. l \in Nat /\ l > 0
  OBVIOUS
<1>2. Cut(bytes, size) = [i \in 1 .. n |-> c(i)]
  BY DEF Cut
<1> HIDE DEF l
<1>3. n \in Nat /\ n > 0
  <2> DEFINE a == l + size - 1
             q == a \div size
             r == a % size
  <2>1. a \in Nat /\ a >= size
    BY <1>1
  <2> HIDE DEF a
  <2>2. q \in Int /\ r \in 0 .. size - 1 /\ a = size * q + r
    BY <2>1
  <2> HIDE DEF q, r
  <2>3. q > 0
    <3>1. CASE q <= 0
      <4>1. size * q <= 0
        BY <2>2, <3>1
      <4> QED
        BY <2>1, <2>2, <4>1
    <3> QED
      BY <2>2, <3>1
  <2> QED
    BY <2>2, <2>3 DEF q, a
<1> HIDE DEF n
<1>4. ASSUME NEW i \in 1 .. n
      PROVE  c(i) \in Seq(Bytes)
  <2> DEFINE a == size * (i - 1)
             b == Smaller(size * i, l)
  <2>1. i - 1 \in Nat /\ i \in Nat
    OBVIOUS
  <2>2. a \in Nat /\ size * i \in Nat
    BY <2>1, Product
  <2> HIDE DEF a
  <2>3. b \in Nat /\ b <= l
    BY <1>1, <2>2 DEF Smaller
  <2> HIDE DEF b
  <2>4. SubSeq(bytes, a + 1, b) \in Seq(Bytes)
    <3>1. CASE a <= b
      BY <2>2, <2>3, <3>1, Part DEF l
    <3>2. CASE ~ (a <= b)
      BY <2>2, <2>3, <3>2
    <3> QED
      BY <3>1, <3>2
  <2> QED
    BY <2>4 DEF a, b
<1> DEFINE f == [i \in 1 .. n |-> c(i)]
<1>5. f = [i \in 1 .. n |-> f[i]] /\ \A i \in 1 .. n : f[i] = c(i)
  OBVIOUS
<1>6. f \in Seq(Seq(Bytes)) /\ Len(f) = n
  <2>1. \A i \in 1 .. n : f[i] \in Seq(Bytes)
    BY <1>4, <1>5
  <2> HIDE DEF f
  <2> QED
    BY <1>3, <1>5, <2>1, MakeSeq
<1> HIDE DEF f
<1>7. f # <<>>
  BY <1>3, <1>6
<1> QED
  BY <1>2, <1>6, <1>7 DEF f

(* Whatever the decoder is given is a source.                              *)
LEMMA GivenType ==
  ASSUME sink \in Seq(Bytes), sink # <<>>, NEW given \in Given
  PROVE  Source(given.iov) \in Sources
<1>1. given.iov \in Seq(Seq(Bytes)) /\ given.iov # <<>>
  <2>1. CASE given = [iov |-> SinkPieces(sink), whole |-> TRUE]
    <3> DEFINE n == (SinkPiece - (Len(sink) % SinkPiece)) % SinkPiece
               z == [k \in 1 .. n |-> 0]
    <3>1. SinkPiece \in Nat /\ SinkPiece > 0
      BY CodecAssumption
    <3>2. n \in Nat
      BY <3>1
    <3>3. z \in Seq(Bytes)
      <4> HIDE DEF n
      <4>1. 0 \in Bytes
        BY ByteIs
      <4> QED
        BY <3>2, <4>1
    <3>4. given.iov = Cut(sink \o z, SinkPiece)
      BY <2>1 DEF SinkPieces
    <3> HIDE DEF z
    <3>5. sink \o z \in Seq(Bytes) /\ sink \o z # <<>>
      <4>1. sink \o z \in Seq(Bytes) /\ Len(sink \o z) = Len(sink) + Len(z)
        BY <3>3, Join
      <4>2. Len(sink) \in Nat /\ Len(sink) > 0 /\ Len(z) \in Nat
        BY <3>3
      <4>3. Len(sink \o z) # 0
        BY <4>1, <4>2
      <4> QED
        BY <4>1, <4>3
    <3> QED
      BY <3>1, <3>4, <3>5, CutType
  <2>2. CASE \E h \in Handovers : given = Linear(h)
    <3>1. PICK h \in Handovers : given = Linear(h)
      BY <2>2
    <3> DEFINE m == Smaller(h.keep, Len(sink))
               x == SubSeq(sink, 1, m)
               y == h.behind
    <3>2. /\ h.pieces \in Nat /\ h.pieces > 0 /\ h.keep \in Nat /\ y \in Seq(Bytes)
          /\ h.keep > 0 \/ y # <<>>
      BY CodecAssumption
    <3>3. given.iov = Cut(x \o y, h.pieces)
      BY <3>1 DEF Linear
    <3>4. Len(sink) \in Nat /\ Len(sink) > 0
      OBVIOUS
    <3>5. m \in Nat /\ m <= Len(sink) /\ (h.keep > 0 => m > 0)
      BY <3>2, <3>4 DEF Smaller
    <3> HIDE DEF m, y
    <3>6. x \in Seq(Bytes) /\ Len(x) = m
      BY <3>5
    <3> HIDE DEF x
    <3>7. x \o y \in Seq(Bytes) /\ x \o y # <<>>
      <4>1. x \o y \in Seq(Bytes) /\ Len(x \o y) = m + Len(y)
        BY <3>2, <3>6, Join
      <4>2. Len(y) \in Nat /\ (y # <<>> => Len(y) > 0)
        BY <3>2
      <4>3. Len(x \o y) # 0
        BY <3>2, <3>5, <4>1, <4>2
      <4> QED
        BY <4>1, <4>3
    <3> QED
      BY <3>2, <3>3, <3>7, CutType
  <2> QED
    BY <2>1, <2>2 DEF Given
<1> DEFINE iov == given.iov
<1> HIDE DEF iov
<1>2. iov \in Seq(Seq(Bytes)) /\ iov # <<>> => Source(iov) \in Sources
  BY DEF Source, Sources
<1> QED
  BY <1>1, <1>2 DEF iov

-----------------------------------------------------------------------------
(* What the codec's variables are, on both sides: bytes, sources of them,  *)
(* and a memory that has been written as far as op, and within the length  *)
(* the input began with.                                                   *)
CompressorInv ==
  /\ IInv /\ SmallBlock /\ BlockInv
  /\ file \in Seq(Bytes)
  /\ sink \in Seq(Bytes) /\ sink # <<>>

DecoderIdle ==
  buf = <<>> /\ peeked = 0 /\ owed = 0 /\ expected = 0 /\ op = 0 /\ mem = <<>>

Reading == reader \in Sources /\ buf \in Seq(Bytes) /\ peeked \in Nat /\ owed \in Nat

Written ==
  /\ op \in Nat /\ expected \in Nat /\ mem \in Seq(Cells)
  /\ op <= Len(mem) /\ Len(mem) <= expected

DecoderInv ==
  /\ phase \in {"next", "block", "stored", "refused", "tags", "literal", "ok", "eio"}
  /\ phase \in {"next", "block", "stored", "refused"} => DecoderIdle
  /\ phase \in {"tags", "literal"} => Reading
  /\ Written

(* A decoder that has not begun has written nothing.                       *)
LEMMA IdleWritten ==
  ASSUME op = 0, expected = 0, mem = <<>>
  PROVE  Written
BY DEF Written

(* At the start, the variables are what they should be.                    *)
LEMMA CodecInitHolds == CodecInit => CompressorInv /\ DecoderInv
<1> SUFFICES ASSUME CodecInit
             PROVE  CompressorInv /\ DecoderInv
  OBVIOUS
<1>1. IInv /\ BlockInv
  BY InitHolds, InitBlock DEF CodecInit
<1>2. SmallBlock
  <2>1. input = <<>> /\ out = <<>>
    BY DEF CodecInit, Init
  <2>2. N = 0 /\ out \in Seq(SmallItems)
    BY <2>1 DEF N
  <2> QED
    BY <2>2, BlockIs DEF SmallBlock
<1>3. file \in Seq(Bytes)
  <2>1. PICK iov \in Calls : file = FlattenSeq(iov)
    BY DEF CodecInit
  <2>2. iov \in Seq(Seq(Bytes)) /\ iov # <<>>
    BY CodecAssumption
  <2> QED
    BY <2>1, <2>2, FlattenType
<1>4. sink \in Seq(Bytes) /\ sink # <<>>
  <2>1. sink = Varint(Len(file)) /\ Len(file) \in Nat
    BY <1>3 DEF CodecInit
  <2>2. sink \in Seq(Bytes) /\ Len(sink) = VarintLength(Len(file)) /\ VarintLength(Len(file)) \in 1 .. 5
    BY <2>1, VarintType, VarintLengthIs
  <2> QED
    BY <2>2
<1>5. DecoderInv
  <2>1. phase = "next" /\ DecoderIdle
    BY DEF CodecInit, DecoderIdle
  <2>2. Written
    BY <2>1, IdleWritten DEF DecoderIdle
  <2> QED
    BY <2>1, <2>2 DEF DecoderInv
<1> QED
  BY <1>1, <1>2, <1>3, <1>4, <1>5 DEF CompressorInv

-----------------------------------------------------------------------------
(* What the steps of compress keep.                                        *)
LEMMA NextBlockCodec ==
  ASSUME CompressorInv, NextBlock
  PROVE  CompressorInv'
<1> DEFINE fragment == Peek(reader)
           num_to_read == Smaller(left, BlockSize)
           gathered == Gather(reader, <<>>, num_to_read)
<1>1. BlockInv /\ IInv /\ SmallBlock /\ file \in Seq(Bytes) /\ sink \in Seq(Bytes) /\ sink # <<>>
  BY DEF CompressorInv
<1>2. BlockInv' /\ (UNCHANGED fragmentVars \/ \E block \in Seq(Bytes) : Begin(block))
  BY <1>1, NextBlockBegins
<1>3. IInv'
  BY <1>1, <1>2, BeginKeeps, UnchangedKeeps
<1>4. file' = file /\ sink' = sink
  BY DEF NextBlock
<1>5. SmallBlock'
  <2>1. \/ UNCHANGED fragmentVars
        \/ Len(fragment) >= num_to_read /\ Begin(SubSeq(fragment, 1, num_to_read))
        \/ Begin(gathered.bytes)
    BY DEF NextBlock
  <2>2. phase = "next" /\ left > 0 /\ left \in Int /\ reader \in Sources
    BY <1>1 DEF NextBlock, BlockInv
  <2>3. num_to_read \in Nat /\ num_to_read <= BlockSize
    BY <2>2, BlockIs DEF Smaller
  <2>4. fragment \in Seq(Bytes) /\ <<>> \in Seq(Bytes) /\ Len(<<>>) = 0
    BY <2>2, PeekType
  <2> HIDE DEF fragment, num_to_read
  <2>5. CASE UNCHANGED fragmentVars
    BY <1>1, <2>5 DEF SmallBlock, fragmentVars, N
  <2>6. CASE Len(fragment) >= num_to_read /\ Begin(SubSeq(fragment, 1, num_to_read))
    <3>1. SubSeq(fragment, 1, num_to_read) \in Seq(Bytes) /\ Len(SubSeq(fragment, 1, num_to_read)) = num_to_read
      BY <2>3, <2>4, <2>6
    <3> QED
      BY <2>3, <2>6, <3>1, BeginSmall
  <2>7. CASE Begin(gathered.bytes)
    <3>1. gathered.bytes \in Seq(Bytes)
      BY <2>2, <2>3, <2>4, GatherType
    <3>2. Len(gathered.bytes) <= num_to_read
      <4>1. Len(<<>>) <= num_to_read
        BY <2>3, <2>4
      <4> QED
        BY <2>2, <2>3, <2>4, <4>1, GatherWithin
    <3> DEFINE b == gathered.bytes
    <3>3. b \in Seq(Bytes) /\ Len(b) <= num_to_read /\ Begin(b)
      BY <2>7, <3>1, <3>2
    <3> HIDE DEF b
    <3>4. Len(b) <= BlockSize
      <4>1. Len(b) \in Nat
        BY <3>3
      <4> QED
        BY <2>3, <3>3, <4>1, BlockIs
    <3> QED
      BY <3>3, <3>4, BeginSmall
  <2> QED
    BY <2>1, <2>5, <2>6, <2>7
<1> QED
  BY <1>1, <1>2, <1>3, <1>4, <1>5 DEF CompressorInv

(* compress_fragment leaves the rest of the codec alone.                   *)
LEMMA CompressFragmentCodec ==
  ASSUME HashInRange, CompressorInv, CompressFragment
  PROVE  CompressorInv'
<1>1. BlockInv /\ IInv /\ SmallBlock /\ file \in Seq(Bytes) /\ sink \in Seq(Bytes) /\ sink # <<>>
  BY DEF CompressorInv
<1>2. Step /\ UNCHANGED codecVars
  BY DEF CompressFragment
<1>3. BlockInv'
  <2>1. [Next]_vars
    BY DEF Next
  <2> QED
    BY <1>1, <2>1, NextBlockInv
<1>4. IInv'
  BY <1>1, <1>2, StartKeeps, ScanKeeps, CopyMatchKeeps, RemainderKeeps DEF Step
<1>5. SmallBlock'
  BY <1>1, <1>2, StepSmall
<1> QED
  BY <1>1, <1>2, <1>3, <1>4, <1>5 DEF CompressorInv, codecVars

(* A block is appended to the sink.                                        *)
LEMMA AppendBlockCodec ==
  ASSUME CompressorInv, AppendBlock
  PROVE  CompressorInv'
<1>1. BlockInv /\ IInv /\ SmallBlock /\ file \in Seq(Bytes) /\ sink \in Seq(Bytes) /\ sink # <<>>
  BY DEF CompressorInv
<1>2. UNCHANGED fragmentVars /\ file' = file /\ sink' = sink \o Encode(out)
  BY DEF AppendBlock
<1>3. BlockInv'
  <2>1. [Next]_vars
    BY DEF Next
  <2> QED
    BY <1>1, <2>1, NextBlockInv
<1>4. IInv'
  BY <1>1, <1>2, UnchangedKeeps
<1>5. SmallBlock'
  BY <1>1, <1>2 DEF SmallBlock, N, fragmentVars
<1>6. sink' \in Seq(Bytes) /\ sink' # <<>>
  <2> DEFINE e == Encode(out)
  <2>1. e \in Seq(Bytes)
    BY <1>1, EncodeType DEF SmallBlock
  <2>2. sink' = sink \o e
    BY <1>2
  <2> HIDE DEF e
  <2>3. sink \o e \in Seq(Bytes) /\ Len(sink \o e) = Len(sink) + Len(e)
    BY <1>1, <2>1, Join
  <2>4. Len(sink) \in Nat /\ Len(sink) > 0 /\ Len(e) \in Nat
    BY <1>1, <2>1
  <2>5. Len(sink \o e) # 0
    BY <2>3, <2>4
  <2> QED
    BY <2>2, <2>3, <2>5
<1> QED
  BY <1>1, <1>2, <1>3, <1>4, <1>5, <1>6 DEF CompressorInv

(* The other steps leave the compressor as it is.                          *)
LEMMA OthersCodec ==
  ASSUME CompressorInv,
         \/ Stored \/ Uncompress \/ EndOfInput \/ LiteralTag \/ LiteralPiece \/ LiteralEnd \/ CopyTag
         \/ UNCHANGED vars
  PROVE  CompressorInv'
<1>1. BlockInv /\ IInv /\ SmallBlock /\ file \in Seq(Bytes) /\ sink \in Seq(Bytes) /\ sink # <<>>
  BY DEF CompressorInv
<1>2. UNCHANGED fragmentVars /\ file' = file /\ sink' = sink
  BY DEF Stored, Uncompress, EndOfInput, LiteralTag, LiteralPiece, LiteralEnd, CopyTag, vars, codecVars
<1>3. BlockInv'
  <2>1. [Next]_vars
    BY DEF Next
  <2> QED
    BY <1>1, <2>1, NextBlockInv
<1>4. IInv'
  BY <1>1, <1>2, UnchangedKeeps
<1>5. SmallBlock'
  BY <1>1, <1>2 DEF SmallBlock, N, fragmentVars
<1> QED
  BY <1>1, <1>2, <1>3, <1>4, <1>5 DEF CompressorInv

(* Every step keeps the variables of the compressor what they are.         *)
LEMMA CompressorStep ==
  ASSUME HashInRange, CompressorInv, [Next]_vars
  PROVE  CompressorInv'
BY NextBlockCodec, CompressFragmentCodec, AppendBlockCodec, OthersCodec DEF Next

-----------------------------------------------------------------------------
(* What the decoder's steps keep.                                          *)
LEMMA FetchedType ==
  ASSUME Reading
  PROVE  /\ Fetched.buf \in Seq(Bytes) /\ Fetched.peeked \in Nat /\ Fetched.reader \in Sources
         /\ Fetched = [buf |-> Fetched.buf, peeked |-> Fetched.peeked, reader |-> Fetched.reader]
<1>1. reader \in Sources /\ buf \in Seq(Bytes) /\ peeked \in Nat
  BY DEF Reading
<1>2. CASE buf = <<>>
  <2> DEFINE next == Skip(reader, peeked)
             p == Peek(next)
  <2>1. next \in Sources
    BY <1>1, SkipType
  <2>2. Fetched = [buf |-> p, peeked |-> Len(p), reader |-> next]
    BY <1>2 DEF Fetched
  <2> HIDE DEF next
  <2>3. p \in Seq(Bytes)
    BY <2>1, PeekType
  <2> HIDE DEF p
  <2>4. Len(p) \in Nat
    BY <2>3
  <2> QED
    BY <2>1, <2>2, <2>3, <2>4
<1>3. CASE buf # <<>>
  BY <1>1, <1>3 DEF Fetched
<1> QED
  BY <1>2, <1>3

(* Bytes that are there begin with a byte.                                 *)
LEMMA FirstByte ==
  ASSUME NEW b \in Seq(Bytes), b # <<>>
  PROVE  /\ b[1] \in Bytes /\ Len(b) \in Nat /\ Len(b) > 0
         /\ Trailers(b[1]) \in Nat /\ Trailers(b[1]) <= 4
<1>1. b[1] \in Bytes /\ Len(b) \in Nat /\ Len(b) > 0
  OBVIOUS
<1> QED
  BY <1>1, TagTypes

(* What refill_tag leaves is bytes and a source.                           *)
LEMMA RefilledType ==
  ASSUME Reading
  PROVE  /\ Refilled.buf \in Seq(Bytes) /\ Refilled.peeked \in Nat /\ Refilled.reader \in Sources
         /\ Refilled = [buf |-> Refilled.buf, peeked |-> Refilled.peeked, reader |-> Refilled.reader]
<1> DEFINE w == Fetched
           used == Skip(w.reader, w.peeked)
           needed == Trailers(w.buf[1]) + 1
           gathered == Gather(used, w.buf, needed)
<1>1. /\ w.buf \in Seq(Bytes) /\ w.peeked \in Nat /\ w.reader \in Sources
      /\ w = [buf |-> w.buf, peeked |-> w.peeked, reader |-> w.reader]
  BY FetchedType
<1>2. Refilled = IF w.buf = <<>> \/ Len(w.buf) >= 5 THEN w
                 ELSE IF Len(w.buf) >= needed THEN [w EXCEPT !.peeked = 0, !.reader = used]
                 ELSE [buf |-> gathered.bytes, peeked |-> 0, reader |-> gathered.source]
  BY DEF Refilled
<1> HIDE DEF w
<1>3. used \in Sources
  BY <1>1, SkipType
<1> HIDE DEF used
<1>4. CASE w.buf = <<>> \/ Len(w.buf) >= 5
  BY <1>1, <1>2, <1>4
<1>5. CASE ~ (w.buf = <<>> \/ Len(w.buf) >= 5) /\ Len(w.buf) >= needed
  <2>1. Refilled = [buf |-> w.buf, peeked |-> 0, reader |-> used]
    BY <1>1, <1>2, <1>5
  <2> QED
    BY <1>1, <1>3, <2>1
<1>6. CASE ~ (w.buf = <<>> \/ Len(w.buf) >= 5) /\ ~ (Len(w.buf) >= needed)
  <2>1. Refilled = [buf |-> gathered.bytes, peeked |-> 0, reader |-> gathered.source]
    BY <1>2, <1>6
  <2>2. needed \in Nat
    BY <1>1, <1>6, FirstByte
  <2> HIDE DEF needed
  <2>3. gathered.bytes \in Seq(Bytes) /\ gathered.source \in Sources
    BY <1>1, <1>3, <2>2, GatherType
  <2> HIDE DEF gathered
  <2> QED
    BY <2>1, <2>3
<1> QED
  BY <1>4, <1>5, <1>6

(* A whole tag, and what is behind it.                                     *)
LEMMA TagInType ==
  ASSUME NEW w, w.buf \in Seq(Bytes), TagIn(w)
  PROVE  /\ w.buf[1] \in Bytes
         /\ AfterTag(w) \in Seq(Bytes) /\ TrailerValue(w) \in Nat /\ LiteralLength(w) \in Nat
         /\ Len(AfterTag(w)) = Len(w.buf) - (1 + Trailers(w.buf[1]))
<1> DEFINE b == w.buf
           t == Trailers(b[1])
<1>1. b \in Seq(Bytes) /\ b # <<>> /\ Len(b) > t
  BY DEF TagIn
<1> HIDE DEF b
<1>2. b[1] \in Bytes /\ Len(b) \in Nat /\ t \in Nat
  BY <1>1, FirstByte
<1> HIDE DEF t
<1>3. SubSeq(b, (1 + t) + 1, Len(b)) \in Seq(Bytes) /\ Len(SubSeq(b, (1 + t) + 1, Len(b))) = Len(b) - (1 + t)
  <2>1. 1 + t \in Nat /\ 1 + t <= Len(b) /\ Len(b) <= Len(b)
    BY <1>1, <1>2
  <2> QED
    BY <1>1, <1>2, <2>1, Part
<1>4. SubSeq(b, 1 + 1, 1 + t) \in Seq(Bytes)
  <2>1. 1 \in Nat /\ 1 + t \in Nat /\ 1 <= 1 + t /\ 1 + t <= Len(b)
    BY <1>1, <1>2
  <2> QED
    BY <1>1, <2>1, Part
<1>5. LittleEndianValue(SubSeq(b, 1 + 1, 1 + t)) \in Nat
  BY <1>4, LittleEndianValueType
<1>6. 1 + 1 = 2 /\ (1 + t) + 1 = 2 + t
  BY <1>2
<1>7. TrailerValue(w) \in Nat
  BY <1>5, <1>6 DEF TrailerValue, b, t
<1>8. AfterTag(w) = SubSeq(b, (1 + t) + 1, Len(b))
  BY <1>6 DEF AfterTag, b, t
<1>9. LiteralLength(w) \in Nat
  <2>1. TagLength(b[1]) \in Nat
    BY <1>2, TagTypes
  <2> QED
    BY <1>7, <2>1 DEF LiteralLength, b
<1> QED
  BY <1>2, <1>3, <1>7, <1>8, <1>9 DEF b, t

(* What a step writes.                                                     *)
LEMMA PutWritten ==
  ASSUME Written, NEW b \in Seq(Bytes), op + Len(b) <= expected
  PROVE  /\ Put(mem, op, b) \in Seq(Cells) /\ op + Len(b) <= Len(Put(mem, op, b))
         /\ Len(Put(mem, op, b)) <= expected
<1>1. op \in Nat /\ expected \in Nat /\ mem \in Seq(Cells) /\ op <= Len(mem) /\ Len(mem) <= expected
  BY DEF Written
<1>2. b \in Seq(Cells)
  <2>1. \A n \in Bytes : n \in Cells
    BY ByteIs DEF Cells
  <2>2. Len(b) \in Nat /\ b = [k \in 1 .. Len(b) |-> b[k]] /\ \A k \in 1 .. Len(b) : b[k] \in Bytes
    OBVIOUS
  <2>3. \A k \in 1 .. Len(b) : b[k] \in Cells
    BY <2>1, <2>2
  <2> QED
    BY <2>2, <2>3, MakeSeq
<1> DEFINE p == Put(mem, op, b)
<1>3. p \in Seq(Cells) /\ Len(p) = IF op + Len(b) >= Len(mem) THEN op + Len(b) ELSE Len(mem)
  BY <1>1, <1>2, PutIs
<1> HIDE DEF p
<1>4. Len(b) \in Nat /\ Len(mem) \in Nat /\ Len(p) \in Nat
  BY <1>1, <1>3
<1>5. op + Len(b) <= Len(p) /\ Len(p) <= expected
  <2> DEFINE lb == Len(b)
             lm == Len(mem)
             lp == Len(p)
  <2>1. /\ lb \in Nat /\ lm \in Nat /\ lp = (IF op + lb >= lm THEN op + lb ELSE lm)
        /\ op + lb <= expected /\ lm <= expected
    BY <1>1, <1>3, <1>4
  <2> HIDE DEF lb, lm, lp
  <2>2. op + lb <= lp /\ lp <= expected
    BY <1>1, <2>1
  <2> QED
    BY <2>2 DEF lb, lp
<1> QED
  BY <1>3, <1>5 DEF p

(* The front of what it is given.                                          *)
LEMMA UncompressDecoder ==
  ASSUME CompressorInv, DecoderInv, Uncompress
  PROVE  DecoderInv'
<1>1. phase = "stored" /\ DecoderIdle /\ sink \in Seq(Bytes) /\ sink # <<>>
  BY DEF Uncompress, DecoderInv, CompressorInv
<1>2. buf' = <<>> /\ peeked' = 0 /\ owed' = 0 /\ op' = 0 /\ mem' = <<>>
  BY <1>1 DEF Uncompress, DecoderIdle
<1>3. \/ phase' = "eio" /\ expected' = 0
      \/ phase' = "tags" /\ expected' \in Nat /\ reader' \in Sources
  <2> DEFINE Ends(front) == {k \in DOMAIN front : front[k] < 128}
             Length(front) == CHOOSE k \in Ends(front) : \A j \in Ends(front) : k <= j
             FirstFive(s) == Gather(s, <<>>, 5).bytes
  <2>1. PICK given \in Given :
          LET s == Source(given.iov)
          IN  \/ phase' = "eio" /\ expected' = expected
              \/ /\ Ends(FirstFive(s)) # {}
                 /\ reader' = Gather(s, <<>>, Length(FirstFive(s))).source
                 /\ expected' = VarintValue(SubSeq(FirstFive(s), 1, Length(FirstFive(s))))
                 /\ phase' = "tags"
    BY DEF Uncompress
  <2> DEFINE s == Source(given.iov)
             front == FirstFive(s)
             ends == Ends(front)
             length == Length(front)
  <2>2. s \in Sources
    BY <1>1, GivenType
  <2> HIDE DEF s
  <2>3. <<>> \in Seq(Bytes) /\ 5 \in Nat
    OBVIOUS
  <2>4. front \in Seq(Bytes)
    BY <2>2, <2>3, GatherType
  <2>5. \/ phase' = "eio" /\ expected' = expected
        \/ /\ ends # {} /\ phase' = "tags"
           /\ reader' = Gather(s, <<>>, length).source
           /\ expected' = VarintValue(SubSeq(front, 1, length))
    BY <2>1 DEF s
  <2> HIDE DEF FirstFive
  <2>6. CASE ends # {}
    <3>1. length \in ends
      <4>1. ends \subseteq Nat
        BY <2>4
      <4> HIDE DEF Ends
      <4>2. PICK k \in ends : \A j \in ends : ~ (j < k)
        BY <2>6, <4>1, Least
      <4>3. \A j \in ends : k <= j
        BY <4>1, <4>2
      <4> QED
        BY <4>2, <4>3
    <3>2. length \in Nat /\ length <= Len(front)
      BY <2>4, <3>1
    <3> HIDE DEF Length
    <3>3. SubSeq(front, 1, length) \in Seq(Bytes)
      BY <2>4, <3>2
    <3>4. VarintValue(SubSeq(front, 1, length)) \in Nat
      BY <3>3, VarintValueType
    <3>5. Gather(s, <<>>, length).source \in Sources
      BY <2>2, <2>3, <3>2, GatherType
    <3> QED
      BY <1>1, <2>5, <3>4, <3>5 DEF DecoderIdle
  <2> QED
    BY <1>1, <2>5, <2>6 DEF DecoderIdle
<1>4. expected' \in Nat
  BY <1>3
<1>5. Written'
  BY <1>2, <1>4 DEF Written
<1> QED
  BY <1>2, <1>3, <1>5 DEF DecoderInv, Reading

(* The tag of a literal: sixteen bytes are written at once only where      *)
(* there is space for them.                                                *)
LEMMA LiteralTagDecoder ==
  ASSUME DecoderInv, LiteralTag
  PROVE  DecoderInv'
<1> DEFINE w == Refilled
           c == w.buf[1]
           rest == AfterTag(w)
           len == LiteralLength(w)
<1>1. /\ phase = "tags" /\ Reading /\ Written /\ TagIn(w) /\ expected' = expected
      /\ reader' = w.reader /\ peeked' = w.peeked
  BY DEF LiteralTag, TagIn, DecoderInv
<1>2. \/ /\ TagLength(c) <= 16 /\ Len(rest) >= 16 /\ SpaceLeft >= 16
         /\ mem' = Put(mem, op, SubSeq(rest, 1, 16))
         /\ op' = op + len
         /\ buf' = SubSeq(rest, len + 1, Len(rest))
         /\ phase' = phase /\ owed' = owed
      \/ owed' = len /\ buf' = rest /\ phase' = "literal" /\ op' = op /\ mem' = mem
  BY DEF LiteralTag
<1>3. w.buf \in Seq(Bytes) /\ w.peeked \in Nat /\ w.reader \in Sources
  BY <1>1, RefilledType
<1> HIDE DEF w
<1>4. c \in Bytes /\ rest \in Seq(Bytes) /\ len \in Nat
  BY <1>1, <1>3, TagInType
<1>5. op \in Nat /\ expected \in Nat
  BY <1>1 DEF Written
<1>6. CASE owed' = len /\ buf' = rest /\ phase' = "literal" /\ op' = op /\ mem' = mem
  <2>1. Written'
    BY <1>1, <1>6 DEF Written
  <2>2. Reading'
    BY <1>1, <1>3, <1>4, <1>6 DEF Reading
  <2> QED
    BY <1>6, <2>1, <2>2 DEF DecoderInv
<1>7. CASE /\ TagLength(c) <= 16 /\ Len(rest) >= 16 /\ SpaceLeft >= 16
           /\ mem' = Put(mem, op, SubSeq(rest, 1, 16))
           /\ op' = op + len
           /\ buf' = SubSeq(rest, len + 1, Len(rest))
           /\ phase' = phase /\ owed' = owed
  <2> DEFINE b == SubSeq(rest, 1, 16)
  <2>1. len = TagLength(c) /\ len <= 16
    <3>1. TagLength(c) \in Nat
      BY <1>4, TagTypes
    <3>2. TagLength(c) <= 60
      BY <1>7, <3>1
    <3>3. len = TagLength(c)
      BY <3>2 DEF LiteralLength
    <3> QED
      BY <1>7, <3>3
  <2> HIDE DEF c, rest, len
  <2>2. b \in Seq(Bytes) /\ Len(b) = 16
    <3>1. 16 \in Nat /\ 16 <= Len(rest) /\ rest \in Seq(Bytes)
      BY <1>4, <1>7
    <3> QED
      BY <3>1, FirstOf
  <2>3. op + 16 <= expected
    BY <1>5, <1>7 DEF SpaceLeft
  <2>4. SubSeq(rest, len + 1, Len(rest)) \in Seq(Bytes)
    <3>1. len <= Len(rest) /\ Len(rest) \in Nat /\ Len(rest) <= Len(rest)
      BY <1>4, <1>7, <2>1
    <3> QED
      BY <1>4, <3>1, Part
  <2> HIDE DEF b
  <2>5. Put(mem, op, b) \in Seq(Cells) /\ op + 16 <= Len(Put(mem, op, b)) /\ Len(Put(mem, op, b)) <= expected
    BY <1>1, <2>2, <2>3, PutWritten
  <2> DEFINE m == Put(mem, op, b)
  <2>6. mem' = m /\ m \in Seq(Cells) /\ op + 16 <= Len(m) /\ Len(m) <= expected
    BY <1>7, <2>5 DEF b
  <2> HIDE DEF m
  <2>7. op' \in Nat /\ op' <= Len(m)
    <3> DEFINE lm == Len(m)
    <3>1. lm \in Nat /\ op + 16 <= lm
      BY <2>6
    <3>2. op' = op + len /\ len \in Nat /\ len <= 16
      BY <1>4, <1>7, <2>1
    <3> HIDE DEF lm
    <3>3. op' \in Nat /\ op' <= lm
      BY <1>5, <3>1, <3>2
    <3> QED
      BY <3>3 DEF lm
  <2>8. Written'
    BY <1>1, <1>5, <2>6, <2>7 DEF Written
  <2>9. Reading'
    BY <1>1, <1>3, <1>7, <2>4 DEF Reading
  <2> QED
    BY <1>1, <1>7, <2>8, <2>9 DEF DecoderInv
<1> QED
  BY <1>2, <1>6, <1>7

(* A part of a literal is written where there is space for it.             *)
LEMMA TakeLiteralWrites ==
  ASSUME Reading, Written, NEW n \in Nat, n <= Len(buf), n <= owed, n <= SpaceLeft, TakeLiteral(n),
         expected' = expected
  PROVE  Written' /\ owed' \in Nat
<1>1. op \in Nat /\ expected \in Nat /\ buf \in Seq(Bytes) /\ owed \in Nat
  BY DEF Written, Reading
<1> DEFINE b == SubSeq(buf, 1, n)
           m == Put(mem, op, b)
<1>2. b \in Seq(Bytes) /\ Len(b) = n
  BY <1>1
<1>3. mem' = m /\ op' = op + n /\ owed' = owed - n
  BY DEF TakeLiteral
<1> HIDE DEF b
<1>4. op + n <= expected
  BY <1>1 DEF SpaceLeft
<1>5. m \in Seq(Cells) /\ op + Len(b) <= Len(m) /\ Len(m) <= expected
  BY <1>2, <1>4, PutWritten
<1> HIDE DEF m
<1>6. op' \in Nat /\ owed' \in Nat /\ op' <= Len(m)
  BY <1>1, <1>2, <1>3, <1>5
<1> QED
  BY <1>1, <1>3, <1>5, <1>6 DEF Written

(* The whole window belongs to the literal.                                *)
LEMMA LiteralPieceDecoder ==
  ASSUME DecoderInv, LiteralPiece
  PROVE  DecoderInv'
<1> DEFINE next == Skip(reader, peeked)
           p == Peek(next)
<1>1. phase = "literal" /\ Reading /\ Written /\ Len(buf) < owed /\ expected' = expected
  BY DEF LiteralPiece, DecoderInv
<1>2. \/ Fail
      \/ /\ SpaceLeft >= Len(buf) /\ TakeLiteral(Len(buf))
         /\ reader' = next /\ buf' = p /\ peeked' = Len(p)
         /\ phase' = "eio" \/ phase' = phase
  BY DEF LiteralPiece
<1>3. reader \in Sources /\ buf \in Seq(Bytes) /\ peeked \in Nat /\ owed \in Nat /\ Len(buf) \in Nat
  BY <1>1 DEF Reading
<1>4. next \in Sources
  BY <1>3, SkipType
<1> HIDE DEF next
<1>5. p \in Seq(Bytes)
  BY <1>4, PeekType
<1> HIDE DEF p
<1>6. CASE Fail
  BY <1>1, <1>6 DEF Fail, DecoderInv, Written
<1>7. CASE /\ SpaceLeft >= Len(buf) /\ TakeLiteral(Len(buf))
           /\ reader' = next /\ buf' = p /\ peeked' = Len(p)
           /\ phase' = "eio" \/ phase' = phase
  <2>1. SpaceLeft \in Int
    BY <1>1 DEF SpaceLeft, Written
  <2>2. Written' /\ owed' \in Nat
    <3>1. Len(buf) <= Len(buf) /\ Len(buf) <= owed /\ Len(buf) <= SpaceLeft
      BY <1>1, <1>3, <1>7, <2>1
    <3> QED
      BY <1>1, <1>3, <1>7, <3>1, TakeLiteralWrites
  <2>3. Reading'
    BY <1>4, <1>5, <1>7, <2>2 DEF Reading
  <2> QED
    BY <1>1, <1>7, <2>2, <2>3 DEF DecoderInv
<1> QED
  BY <1>2, <1>6, <1>7

(* The literal ends in the window.                                         *)
LEMMA LiteralEndDecoder ==
  ASSUME DecoderInv, LiteralEnd
  PROVE  DecoderInv'
<1>1. phase = "literal" /\ Reading /\ Written /\ Len(buf) >= owed /\ expected' = expected
  BY DEF LiteralEnd, DecoderInv
<1>2. \/ Fail
      \/ /\ SpaceLeft >= owed /\ TakeLiteral(owed)
         /\ buf' = SubSeq(buf, owed + 1, Len(buf))
         /\ reader' = reader /\ peeked' = peeked
         /\ phase' = "tags"
  BY DEF LiteralEnd
<1>3. reader \in Sources /\ buf \in Seq(Bytes) /\ peeked \in Nat /\ owed \in Nat /\ Len(buf) \in Nat
  BY <1>1 DEF Reading
<1>6. CASE Fail
  BY <1>1, <1>6 DEF Fail, DecoderInv, Written
<1>7. CASE /\ SpaceLeft >= owed /\ TakeLiteral(owed)
           /\ buf' = SubSeq(buf, owed + 1, Len(buf))
           /\ reader' = reader /\ peeked' = peeked
           /\ phase' = "tags"
  <2>1. SpaceLeft \in Int
    BY <1>1 DEF SpaceLeft, Written
  <2>2. Written' /\ owed' \in Nat
    <3>1. owed <= Len(buf) /\ owed <= owed /\ owed <= SpaceLeft
      BY <1>1, <1>3, <1>7, <2>1
    <3> QED
      BY <1>1, <1>3, <1>7, <3>1, TakeLiteralWrites
  <2>3. SubSeq(buf, owed + 1, Len(buf)) \in Seq(Bytes)
    <3>1. owed <= Len(buf) /\ Len(buf) <= Len(buf)
      BY <1>1, <1>3
    <3> QED
      BY <1>3, <3>1, Part
  <2>4. Reading'
    BY <1>3, <1>7, <2>2, <2>3 DEF Reading
  <2> QED
    BY <1>1, <1>7, <2>2, <2>4 DEF DecoderInv
<1> QED
  BY <1>2, <1>6, <1>7

(* A copy's three ways stay within what there is.                          *)
LEMMA FastCopyWrites ==
  ASSUME Written, NEW offset \in Nat, 8 <= offset, offset <= op, op + 16 <= expected
  PROVE  /\ Copy64(Copy64(mem, op - offset, op), op - offset + 8, op + 8) \in Seq(Cells)
         /\ op + 16 <= Len(Copy64(Copy64(mem, op - offset, op), op - offset + 8, op + 8))
         /\ Len(Copy64(Copy64(mem, op - offset, op), op - offset + 8, op + 8)) <= expected
<1>1. op \in Nat /\ expected \in Nat /\ mem \in Seq(Cells) /\ op <= Len(mem) /\ Len(mem) <= expected
  BY DEF Written
<1>2. op - offset \in Nat /\ op - offset < op /\ op - offset + 8 \in Nat /\ op + 8 \in Nat
      /\ op - offset + 8 < op + 8 /\ Len(mem) \in Nat
  BY <1>1
<1> DEFINE m == Copy64(mem, op - offset, op)
           m2 == Copy64(m, op - offset + 8, op + 8)
<1>3. m \in Seq(Cells) /\ Len(m) = IF op + 8 >= Len(mem) THEN op + 8 ELSE Len(mem)
  BY <1>1, <1>2, Copy64Is
<1> HIDE DEF m
<1>4. op + 8 <= Len(m) /\ Len(m) <= expected /\ Len(m) \in Nat
  BY <1>1, <1>2, <1>3
<1>5. m2 \in Seq(Cells) /\ Len(m2) = IF op + 8 + 8 >= Len(m) THEN op + 8 + 8 ELSE Len(m)
  BY <1>2, <1>3, <1>4, Copy64Is
<1> HIDE DEF m2
<1>6. op + 16 <= Len(m2) /\ Len(m2) <= expected
  BY <1>1, <1>4, <1>5
<1> QED
  BY <1>5, <1>6 DEF m, m2

(* The slow copy writes the bytes of its length.                           *)
LEMMA PatternWrites ==
  ASSUME Written, NEW offset \in Nat, 0 < offset, offset <= op, NEW len \in Nat, op + len <= expected,
         NEW e, e = [k \in 1 .. len |-> mem[op - offset + 1 + ((k - 1) % offset)]]
  PROVE  /\ e \in Seq(Cells) /\ Len(e) = len
         /\ Put(mem, op, e) \in Seq(Cells) /\ op + len <= Len(Put(mem, op, e))
         /\ Len(Put(mem, op, e)) <= expected
<1>1. op \in Nat /\ expected \in Nat /\ mem \in Seq(Cells) /\ op <= Len(mem) /\ Len(mem) <= expected
      /\ Len(mem) \in Nat
  BY DEF Written
<1>2. e \in Seq(Cells) /\ Len(e) = len
  <2>1. ASSUME NEW k \in 1 .. len
        PROVE  e[k] \in Cells
    <3>1. k - 1 \in Nat
      OBVIOUS
    <3>2. (k - 1) % offset \in 0 .. offset - 1
      BY <3>1, ModRange
    <3>3. op - offset + 1 + ((k - 1) % offset) \in 1 .. Len(mem)
      BY <1>1, <3>2
    <3> QED
      BY <1>1, <3>3
  <2>2. e = [k \in 1 .. len |-> e[k]]
    OBVIOUS
  <2>3. \A k \in 1 .. len : e[k] \in Cells
    BY <2>1
  <2> QED
    BY ONLY <2>2, <2>3, len \in Nat, MakeSeq
<1> DEFINE m == Put(mem, op, e)
<1>3. m \in Seq(Cells) /\ Len(m) = IF op + Len(e) >= Len(mem) THEN op + Len(e) ELSE Len(mem)
  BY <1>1, <1>2, PutIs
<1> HIDE DEF m
<1>4. op + len <= Len(m) /\ Len(m) <= expected
  BY <1>1, <1>2, <1>3
<1> QED
  BY <1>2, <1>3, <1>4 DEF m

(* A copy is written where there is space for it, the fast ones past its   *)
(* end too.                                                                *)
LEMMA CopyTagDecoder ==
  ASSUME DecoderInv, CopyTag
  PROVE  DecoderInv'
<1> DEFINE w == Refilled
           c == w.buf[1]
           len == TagLength(c)
           offset == TagOffset(c) + TrailerValue(w)
           pattern == [k \in 1 .. len |-> mem[op - offset + 1 + ((k - 1) % offset)]]
<1>1. /\ phase = "tags" /\ Reading /\ Written /\ TagIn(w) /\ expected' = expected
  BY DEF CopyTag, TagIn, DecoderInv
<1>2. \/ Fail
      \/ /\ offset \in 1 .. op /\ SpaceLeft >= len
         /\ \/ /\ len <= 16 /\ offset >= 8 /\ SpaceLeft >= 16
               /\ mem' = Copy64(Copy64(mem, op - offset, op), op - offset + 8, op + 8)
            \/ /\ SpaceLeft >= len + IncrementCopyOverflow
               /\ mem' = CopyOverlapping(mem, offset, len)
            \/ mem' = Put(mem, op, pattern)
         /\ op' = op + len
         /\ reader' = w.reader /\ peeked' = w.peeked
         /\ buf' = AfterTag(w)
         /\ phase' = phase /\ owed' = owed
  BY DEF CopyTag
<1>3. w.buf \in Seq(Bytes) /\ w.peeked \in Nat /\ w.reader \in Sources
  BY <1>1, RefilledType
<1> HIDE DEF w
<1>4. c \in Bytes /\ AfterTag(w) \in Seq(Bytes)
  BY <1>1, <1>3, TagInType
<1>5. /\ op \in Nat /\ expected \in Nat /\ mem \in Seq(Cells) /\ op <= Len(mem) /\ Len(mem) <= expected
  BY <1>1 DEF Written
<1>6. len \in Nat /\ 0 < len
  BY <1>4, TagTypes
<1> HIDE DEF c, len, offset
<1>7. CASE Fail
  BY <1>1, <1>7 DEF Fail, DecoderInv, Written
<1>8. CASE ~ Fail
  <2>1. /\ offset \in Nat /\ 0 < offset /\ offset <= op /\ op + len <= expected /\ op' = op + len
        /\ phase' = phase /\ Reading'
    <3>1. Reading'
      BY <1>1, <1>2, <1>3, <1>4, <1>8 DEF Reading
    <3> QED
      BY <1>2, <1>5, <1>6, <1>8, <3>1 DEF SpaceLeft
  <2>2. mem' \in Seq(Cells) /\ op + len <= Len(mem') /\ Len(mem') <= expected
    <3>1. CASE /\ len <= 16 /\ offset >= 8 /\ SpaceLeft >= 16
               /\ mem' = Copy64(Copy64(mem, op - offset, op), op - offset + 8, op + 8)
      <4> DEFINE m == Copy64(Copy64(mem, op - offset, op), op - offset + 8, op + 8)
      <4>1. op + 16 <= expected /\ 8 <= offset
        BY <1>5, <2>1, <3>1 DEF SpaceLeft
      <4>2. m \in Seq(Cells) /\ op + 16 <= Len(m) /\ Len(m) <= expected
        BY <1>1, <2>1, <4>1, FastCopyWrites
      <4>3. mem' = m
        BY <3>1
      <4> HIDE DEF m
      <4>4. Len(m) \in Nat
        BY <4>2
      <4>5. op + len <= Len(m)
        BY <1>5, <1>6, <3>1, <4>2, <4>4
      <4> QED
        BY <4>2, <4>3, <4>5
    <3>2. CASE SpaceLeft >= len + IncrementCopyOverflow /\ mem' = CopyOverlapping(mem, offset, len)
      <4>1. op + len + 10 <= expected
        BY <1>5, <1>6, <3>2 DEF SpaceLeft, IncrementCopyOverflow
      <4> DEFINE m == CopyOverlapping(mem, offset, len)
      <4>2. m \in Seq(Cells) /\ op + len <= Len(m) /\ Len(m) <= expected
        BY <1>5, <1>6, <2>1, <4>1, CopyOverlappingIs
      <4>3. mem' = m
        BY <3>2
      <4> HIDE DEF m
      <4> QED
        BY <4>2, <4>3
    <3>3. CASE mem' = Put(mem, op, pattern)
      <4>1. pattern = [k \in 1 .. len |-> mem[op - offset + 1 + ((k - 1) % offset)]]
        OBVIOUS
      <4> HIDE DEF pattern
      <4> DEFINE m == Put(mem, op, pattern)
      <4>2. m \in Seq(Cells) /\ op + len <= Len(m) /\ Len(m) <= expected
        BY <1>1, <1>6, <2>1, <4>1, PatternWrites
      <4>3. mem' = m
        BY <3>3
      <4> HIDE DEF m
      <4> QED
        BY <4>2, <4>3
    <3> QED
      BY <1>2, <1>8, <3>1, <3>2, <3>3
  <2>3. Written'
    <3> DEFINE m == mem'
    <3>1. m \in Seq(Cells) /\ op + len <= Len(m) /\ Len(m) <= expected /\ op' = op + len /\ expected' = expected
          /\ op' \in Nat
      BY <1>1, <1>5, <1>6, <2>1, <2>2
    <3> QED
      BY <1>5, <3>1 DEF Written
  <2> QED
    BY <1>1, <2>1, <2>3 DEF DecoderInv
<1> QED
  BY <1>7, <1>8

(* Every step keeps the variables of the decoder what they are.            *)
LEMMA DecoderStep ==
  ASSUME CompressorInv, DecoderInv, [Next]_vars
  PROVE  DecoderInv'
<1>1. CASE NextBlock \/ CompressFragment \/ AppendBlock \/ Stored
  <2>1. /\ phase \in {"next", "block"} /\ phase' \in {"next", "block", "stored", "refused"}
        /\ UNCHANGED decoderVars
    BY <1>1 DEF NextBlock, CompressFragment, AppendBlock, Stored, codecVars, decoderVars
  <2> QED
    BY <2>1 DEF DecoderInv, DecoderIdle, Written, decoderVars
<1>2. CASE EndOfInput
  <2>1. phase' \in {"ok", "eio"} /\ UNCHANGED decoderVars
    BY <1>2 DEF EndOfInput
  <2> QED
    BY <2>1 DEF DecoderInv, Written, decoderVars
<1>3. CASE UNCHANGED vars
  BY <1>3 DEF vars, codecVars, DecoderInv, DecoderIdle, Reading, Written
<1> QED
  BY <1>1, <1>2, <1>3, UncompressDecoder, LiteralTagDecoder, LiteralPieceDecoder, LiteralEndDecoder,
     CopyTagDecoder DEF Next

(* What the codec's variables are, at every step.                          *)
THEOREM CodecInvariant ==
  ASSUME HashInRange
  PROVE  Spec => [](CompressorInv /\ DecoderInv)
<1>1. CodecInit => CompressorInv /\ DecoderInv
  BY CodecInitHolds
<1>2. CompressorInv /\ DecoderInv /\ [Next]_vars => CompressorInv' /\ DecoderInv'
  BY HashInRange, CompressorStep, DecoderStep
<1> QED
  BY <1>1, <1>2, PTL DEF Spec

(* No literal and no copy writes behind the buffer, the fast ones that     *)
(* write more than their length included (writer_append,                   *)
(* writer_append_from_self, writer_try_fast_append).                       *)
THEOREM DecoderWritesInBounds ==
  ASSUME HashInRange
  PROVE  Spec => []WritesInBounds
<1>1. DecoderInv => WritesInBounds
  BY DEF DecoderInv, Written, WritesInBounds
<1> QED
  BY <1>1, CodecInvariant, HashInRange, PTL

-----------------------------------------------------------------------------
(* Bytes lie in pieces: the first n of them begin at start[1], ...         *)
LaidFirst(iov, start, bytes, n) ==
  /\ \A i \in 1 .. n + 1 : start[i] \in Nat /\ start[i] <= Len(bytes)
  /\ start[1] = 0 /\ start[n + 1] = Len(bytes)
  /\ \A i \in 1 .. n :
       /\ start[i + 1] = start[i] + Len(iov[i])
       /\ \A k \in 1 .. Len(iov[i]) : bytes[start[i] + k] = iov[i][k]

Laid(iov, start, bytes) == LaidFirst(iov, start, bytes, Len(iov))

AllFull(iov) == \A i \in 1 .. Len(iov) : iov[i] # <<>>

(* A source is at a place of the bytes, and if no piece is empty, not at   *)
(* the end of one that another follows.                                    *)
At(s, start, p) ==
  /\ p = start[s.vec] + s.off
  /\ s.off <= Len(s.iov[s.vec])
  /\ AllFull(s.iov) => s.off < Len(s.iov[s.vec]) \/ s.vec = Len(s.iov)

(* What a place in a source is.                                            *)
LEMMA AtIs ==
  ASSUME NEW s \in Sources, NEW bytes \in Seq(Bytes), NEW start, Laid(s.iov, start, bytes), NEW p,
         At(s, start, p)
  PROVE  /\ s.vec \in 1 .. Len(s.iov) /\ Len(s.iov) \in Nat /\ s.off \in Nat
         /\ s.iov[s.vec] \in Seq(Bytes) /\ Len(s.iov[s.vec]) \in Nat
         /\ p \in Nat /\ p = start[s.vec] + s.off /\ s.off <= Len(s.iov[s.vec])
         /\ start[s.vec] \in Nat /\ start[s.vec] + Len(s.iov[s.vec]) = start[s.vec + 1]
         /\ start[s.vec + 1] <= Len(bytes) /\ Len(bytes) \in Nat
         /\ s.vec = Len(s.iov) => start[s.vec + 1] = Len(bytes)
         /\ \A k \in 1 .. Len(s.iov[s.vec]) : bytes[start[s.vec] + k] = s.iov[s.vec][k]
<1>1. s.vec \in 1 .. Len(s.iov) /\ Len(s.iov) \in Nat /\ s.off \in Nat /\ s.iov[s.vec] \in Seq(Bytes)
  BY DEF Sources
<1> DEFINE v == s.vec
           l == Len(s.iov)
           piece == s.iov[s.vec]
<1>2. p = start[v] + s.off /\ s.off <= Len(piece)
  BY DEF At
<1>3. /\ \A i \in 1 .. l + 1 : start[i] \in Nat /\ start[i] <= Len(bytes)
      /\ start[l + 1] = Len(bytes)
      /\ \A i \in 1 .. l :
           /\ start[i + 1] = start[i] + Len(s.iov[i])
           /\ \A k \in 1 .. Len(s.iov[i]) : bytes[start[i] + k] = s.iov[i][k]
  BY DEF Laid, LaidFirst
<1>4. v \in 1 .. l /\ l \in Nat
  BY <1>1
<1>5. /\ start[v + 1] = start[v] + Len(piece)
      /\ \A k \in 1 .. Len(piece) : bytes[start[v] + k] = piece[k]
  BY <1>3, <1>4
<1> HIDE DEF v, l, piece
<1>6. start[v] \in Nat /\ start[v + 1] <= Len(bytes) /\ (v = l => start[v + 1] = Len(bytes))
  <2>1. v \in 1 .. l + 1 /\ v + 1 \in 1 .. l + 1
    BY <1>4
  <2> QED
    BY <1>3, <2>1
<1>7. p \in Nat /\ Len(bytes) \in Nat /\ Len(piece) \in Nat
  <2>1. Len(bytes) \in Nat /\ Len(piece) \in Nat
    BY <1>1 DEF piece
  <2>2. s.off \in Nat
    BY <1>1
  <2> QED
    BY <1>2, <1>6, <2>1, <2>2
<1> QED
  BY <1>1, <1>2, <1>5, <1>6, <1>7 DEF v, l, piece

(* What peek gives.                                                        *)
LEMMA PeekIs ==
  ASSUME NEW s \in Sources, NEW bytes \in Seq(Bytes), NEW start, Laid(s.iov, start, bytes), NEW p,
         At(s, start, p)
  PROVE  /\ p \in Nat /\ Len(Peek(s)) \in Nat /\ p + Len(Peek(s)) <= Len(bytes)
         /\ Peek(s) = SubSeq(bytes, p + 1, p + Len(Peek(s)))
         /\ p + Len(Peek(s)) = start[s.vec + 1]
<1> DEFINE piece == s.iov[s.vec]
           l == Len(piece)
           off == s.off
           a == start[s.vec]
           x == Peek(s)
<1>1. /\ piece \in Seq(Bytes) /\ l \in Nat /\ off \in Nat /\ off <= l
      /\ a \in Nat /\ p = a + off /\ p \in Nat /\ a + l <= Len(bytes) /\ Len(bytes) \in Nat
      /\ a + l = start[s.vec + 1]
      /\ \A k \in 1 .. l : bytes[a + k] = piece[k]
  BY AtIs
<1>2. x = IF off < l THEN SubSeq(piece, off + 1, l) ELSE <<>>
  BY DEF Peek
<1>3. l = Len(piece)
  OBVIOUS
<1> HIDE DEF piece, l, off, a, x
<1>4. x = [k \in 1 .. l - off |-> piece[off + k]] /\ Len(x) = l - off
  <2>1. CASE off < l
    <3>1. SubSeq(piece, off + 1, l) = [k \in 1 .. l - off |-> piece[off + k]]
          /\ Len(SubSeq(piece, off + 1, l)) = l - off
      BY <1>1, <1>3, <2>1, Part
    <3> QED
      BY <1>2, <2>1, <3>1
  <2>2. CASE ~ (off < l)
    <3>1. l - off = 0 /\ x = <<>>
      BY <1>1, <1>2, <2>2
    <3> QED
      BY <3>1
  <2> QED
    BY <2>1, <2>2
<1>5. p + (l - off) = a + l /\ l - off \in Nat
  BY <1>1
<1>6. SubSeq(bytes, p + 1, p + (l - off)) = [k \in 1 .. (p + (l - off)) - p |-> bytes[p + k]]
  BY <1>1, <1>5, Part
<1>7. (p + (l - off)) - p = l - off /\ \A k \in 1 .. l - off : bytes[p + k] = piece[off + k]
  <2>1. ASSUME NEW k \in 1 .. l - off
        PROVE  bytes[p + k] = piece[off + k]
    <3>1. off + k \in 1 .. l /\ a + (off + k) = p + k
      BY <1>1
    <3>2. bytes[a + (off + k)] = piece[off + k]
      BY <1>1, <3>1
    <3> QED
      BY <3>1, <3>2
  <2> QED
    BY <1>1, <2>1
<1>8. SubSeq(bytes, p + 1, p + (l - off)) = x
  BY <1>4, <1>6, <1>7
<1> QED
  BY <1>1, <1>4, <1>5, <1>8 DEF x

(* What skip does within what peek has given.                              *)
Moved(s, t, start, bytes, p, n) ==
  /\ t \in Sources /\ t.iov = s.iov /\ At(t, start, p + n)
  /\ n = Len(Peek(s)) => t.vec = s.vec + 1 \/ p + n = Len(bytes)
  /\ t.vec = s.vec \/ t.vec = s.vec + 1

(* Skipping moves the place, within the piece or to the next.              *)
LEMMA SkipMoves ==
  ASSUME NEW s \in Sources, NEW bytes \in Seq(Bytes), NEW start, Laid(s.iov, start, bytes), NEW p,
         At(s, start, p), NEW n \in Nat, n <= Len(Peek(s))
  PROVE  Moved(s, Skip(s, n), start, bytes, p, n)
<1> DEFINE piece == s.iov[s.vec]
           l == Len(piece)
           off == s.off
           a == start[s.vec]
           v == s.vec
           m == Len(s.iov)
           t == Skip(s, n)
<1>1. /\ piece \in Seq(Bytes) /\ l \in Nat /\ off \in Nat /\ off <= l
      /\ a \in Nat /\ p = a + off /\ p \in Nat
      /\ a + l = start[v + 1] /\ v \in 1 .. m /\ m \in Nat /\ (v = m => start[v + 1] = Len(bytes))
  <2>1. /\ s.vec \in 1 .. Len(s.iov) /\ Len(s.iov) \in Nat /\ s.off \in Nat
        /\ s.iov[s.vec] \in Seq(Bytes) /\ Len(s.iov[s.vec]) \in Nat
        /\ p \in Nat /\ p = start[s.vec] + s.off /\ s.off <= Len(s.iov[s.vec])
        /\ start[s.vec] \in Nat /\ start[s.vec] + Len(s.iov[s.vec]) = start[s.vec + 1]
        /\ start[s.vec + 1] <= Len(bytes) /\ Len(bytes) \in Nat
        /\ s.vec = Len(s.iov) => start[s.vec + 1] = Len(bytes)
        /\ \A k \in 1 .. Len(s.iov[s.vec]) : bytes[start[s.vec] + k] = s.iov[s.vec][k]
    <3> HIDE DEF piece, l, off, a, v, m, t
    <3> QED
      BY ONLY AtIs, Laid(s.iov, start, bytes), At(s, start, p), s \in Sources, bytes \in Seq(Bytes), SMTT(30)
  <2> QED
    BY <2>1
<1>2. p + Len(Peek(s)) = start[v + 1] /\ Len(Peek(s)) \in Nat
  BY PeekIs
<1>3. s = [iov |-> s.iov, vec |-> v, off |-> off]
  BY DEF Sources
<1>4. t \in Sources
  BY SkipType
<1>5. AllFull(s.iov) => off < l \/ v = m
  BY DEF At
<1>6. off + n <= l
  <2> DEFINE lp == Len(Peek(s))
             b == start[v + 1]
  <2>1. p + lp = b /\ lp \in Nat /\ a + l = b /\ n <= lp /\ p = a + off
    BY <1>1, <1>2
  <2>2. l \in Nat /\ off \in Nat /\ a \in Nat
    BY <1>1
  <2> HIDE DEF a, off, l, lp, b
  <2> QED
    BY <2>1, <2>2
<1>7. CASE off + n >= l /\ v < m
  <2>1. t = [iov |-> s.iov, vec |-> v + 1, off |-> 0]
    BY <1>3, <1>7 DEF Skip
  <2>2. t.iov = s.iov /\ t.vec = v + 1 /\ t.off = 0
    BY <2>1
  <2>3. start[v + 1] + 0 = p + n
    <3> DEFINE b == start[v + 1]
    <3>1. a + l = b /\ p = a + off /\ l \in Nat /\ off \in Nat /\ a \in Nat /\ off + n <= l /\ off + n >= l
      BY <1>1, <1>6, <1>7
    <3> HIDE DEF a, off, l, v, b
    <3>2. b + 0 = p + n
      BY <3>1
    <3> QED
      BY <3>2 DEF b
  <2>4. v + 1 \in 1 .. m
    <3> HIDE DEF v, m
    <3> QED
      BY <1>1, <1>7
  <2>5. s.iov[v + 1] \in Seq(Bytes)
    BY <2>4 DEF Sources
  <2>6. 0 <= Len(s.iov[v + 1]) /\ (AllFull(s.iov) => 0 < Len(s.iov[v + 1]))
    <3>1. AllFull(s.iov) => s.iov[v + 1] # <<>>
      BY <2>4 DEF AllFull
    <3> DEFINE y == s.iov[v + 1]
    <3> HIDE DEF y
    <3>2. y \in Seq(Bytes) => Len(y) \in Nat /\ (y # <<>> => Len(y) # 0)
      OBVIOUS
    <3> QED
      BY <2>5, <3>1, <3>2 DEF y
  <2> HIDE DEF t
  <2>7. At(t, start, p + n)
    BY <2>2, <2>3, <2>6 DEF At
  <2> QED
    BY <1>4, <2>2, <2>7 DEF t, Moved
<1>8. CASE ~ (off + n >= l /\ v < m)
  <2>1. t = [iov |-> s.iov, vec |-> v, off |-> off + n]
    BY <1>3, <1>8 DEF Skip
  <2>2. t.iov = s.iov /\ t.vec = v /\ t.off = off + n
    BY <2>1
  <2>3. a + (off + n) = p + n /\ (off + n < l \/ v = m)
    <3>1. /\ a \in Nat /\ off \in Nat /\ l \in Nat /\ v \in Nat /\ m \in Nat /\ v <= m
          /\ p = a + off /\ ~ (off + n >= l /\ v < m)
      <4> HIDE DEF a, off, l, v, m
      <4> QED
        BY <1>1, <1>8
    <3> HIDE DEF a, off, l, v, m
    <3> QED
      BY ONLY <3>1, n \in Nat
  <2>4. n = Len(Peek(s)) => p + n = Len(bytes)
    <3> DEFINE lp == Len(Peek(s))
    <3>1. p + lp = start[v + 1] /\ lp \in Nat
      BY <1>2
    <3> HIDE DEF a, off, l, v, m, lp
    <3>2. n = lp => p + n = Len(bytes)
      BY <1>1, <2>3, <3>1
    <3> QED
      BY <3>2 DEF lp
  <2> HIDE DEF t
  <2>5. At(t, start, p + n)
    BY <1>6, <2>2, <2>3 DEF At
  <2> QED
    BY <1>4, <2>2, <2>4, <2>5 DEF t, Moved
<1> QED
  BY <1>7, <1>8

(* At the end of what peek gives, there are no more bytes.                 *)
LEMMA PeekEnds ==
  ASSUME NEW s \in Sources, NEW bytes \in Seq(Bytes), NEW start, Laid(s.iov, start, bytes), NEW p,
         At(s, start, p), AllFull(s.iov), Peek(s) = <<>>
  PROVE  p = Len(bytes)
<1> DEFINE l == Len(s.iov[s.vec])
           off == s.off
<1>1. /\ l \in Nat /\ off \in Nat /\ off <= l /\ (s.vec = Len(s.iov) => start[s.vec + 1] = Len(bytes))
  BY AtIs
<1>2. p + Len(Peek(s)) = start[s.vec + 1] /\ p \in Nat
  BY PeekIs
<1>3. off < l \/ s.vec = Len(s.iov)
  BY DEF At
<1>4. ~ (off < l)
  <2>1. SUFFICES ASSUME off < l
                 PROVE  FALSE
    OBVIOUS
  <2>2. s.iov[s.vec] \in Seq(Bytes)
    BY AtIs
  <2> DEFINE piece == s.iov[s.vec]
  <2>3. SubSeq(piece, off + 1, l) = <<>>
    BY <2>1 DEF Peek
  <2>4. piece \in Seq(Bytes) /\ l = Len(piece)
    BY <2>2
  <2> HIDE DEF piece, l, off
  <2>5. Len(SubSeq(piece, off + 1, l)) = l - off
    BY <1>1, <2>1, <2>4, Part
  <2>6. Len(<<>>) = 0
    OBVIOUS
  <2>7. l - off = 0
    BY <2>3, <2>5, <2>6
  <2> QED
    BY <1>1, <2>1, <2>7
<1>5. Len(Peek(s)) = 0
  OBVIOUS
<1> QED
  BY <1>1, <1>2, <1>3, <1>4, <1>5

(* Two parts of bytes, one behind the other, are one.                      *)
LEMMA Parts ==
  ASSUME NEW s \in Seq(Bytes), NEW a \in Nat, NEW b \in Nat, NEW c \in Nat, a <= b, b <= c, c <= Len(s)
  PROVE  SubSeq(s, a + 1, b) \o SubSeq(s, b + 1, c) = SubSeq(s, a + 1, c)
<1> DEFINE x == SubSeq(s, a + 1, b)
           y == SubSeq(s, b + 1, c)
           z == SubSeq(s, a + 1, c)
<1>1. x = [k \in 1 .. b - a |-> s[a + k]] /\ x \in Seq(Bytes) /\ Len(x) = b - a
  <2>1. b <= Len(s)
    OBVIOUS
  <2> QED
    BY <2>1, Part
<1>2. y = [k \in 1 .. c - b |-> s[b + k]] /\ y \in Seq(Bytes) /\ Len(y) = c - b
  BY Part
<1>3. z = [k \in 1 .. c - a |-> s[a + k]] /\ z \in Seq(Bytes) /\ Len(z) = c - a
  <2>1. a <= c
    OBVIOUS
  <2> QED
    BY <2>1, Part
<1> HIDE DEF x, y, z
<1>4. /\ x \o y \in Seq(Bytes) /\ Len(x \o y) = Len(x) + Len(y)
      /\ \A k \in 1 .. Len(x) : (x \o y)[k] = x[k]
      /\ \A k \in 1 .. Len(y) : (x \o y)[Len(x) + k] = y[k]
  BY <1>1, <1>2, Join
<1> DEFINE u == x \o y
<1> HIDE DEF u
<1>5. u \in Seq(Bytes) /\ Len(u) = c - a
  BY <1>1, <1>2, <1>4 DEF u
<1>6. ASSUME NEW k \in 1 .. c - a
      PROVE  u[k] = z[k]
  <2>1. CASE k <= b - a
    <3>1. k \in 1 .. b - a
      BY <2>1
    <3>2. u[k] = x[k]
      BY <1>1, <1>4, <3>1 DEF u
    <3> QED
      BY <1>1, <1>3, <3>1, <3>2
  <2>2. CASE ~ (k <= b - a)
    <3> DEFINE j == k - (b - a)
    <3>1. j \in 1 .. c - b /\ (b - a) + j = k /\ b + j = a + k
      BY <2>2
    <3> HIDE DEF j
    <3>2. u[(b - a) + j] = y[j]
      BY <1>1, <1>2, <1>4, <3>1 DEF u
    <3>3. y[j] = s[b + j] /\ z[k] = s[a + k]
      BY <1>2, <1>3, <3>1
    <3> QED
      BY <3>1, <3>2, <3>3
  <2> QED
    BY <2>1, <2>2
<1>7. u = [k \in 1 .. c - a |-> u[k]] /\ z = [k \in 1 .. c - a |-> z[k]]
  <2>1. u = [k \in 1 .. Len(u) |-> u[k]] /\ z = [k \in 1 .. Len(z) |-> z[k]]
    BY <1>3, <1>5
  <2> QED
    BY <1>3, <1>5, <2>1
<1>8. u = z
  BY <1>6, <1>7
<1> QED
  BY <1>8 DEF u, x, y, z

-----------------------------------------------------------------------------
(* What has been stitched together: the bytes from b on up to some q, and  *)
(* the source is there. Either that is all, or i pieces are behind it.     *)
StitchedTo(g, iov, start, bytes, b, n, v) ==
  /\ g.source.iov = iov
  /\ \E q \in Nat :
       /\ b <= q /\ q <= b + n /\ q <= Len(bytes)
       /\ g.bytes = SubSeq(bytes, b + 1, q) /\ At(g.source, start, q)
       /\ q = b + n \/ q = Len(bytes) \/ g.source.vec >= v

(* A piece more in what is gathered.                                       *)
LEMMA OnePieceMore ==
  ASSUME NEW g \in Stitched, NEW bytes \in Seq(Bytes), NEW iov, NEW start, Laid(iov, start, bytes),
         NEW b \in Nat, NEW n \in Nat, NEW v \in Nat,
         StitchedTo(g, iov, start, bytes, b, n, v)
  PROVE  StitchedTo(WithNextPiece(g, n), iov, start, bytes, b, n, v + 1)
<1> DEFINE s == g.source
           p == Peek(s)
           l == Len(bytes)
           lp == Len(p)
<1>1. s \in Sources /\ s.iov = iov
  BY DEF Stitched, StitchedTo
<1>2. PICK q \in Nat :
        /\ b <= q /\ q <= b + n /\ q <= l
        /\ g.bytes = SubSeq(bytes, b + 1, q) /\ At(s, start, q)
        /\ q = b + n \/ q = l \/ s.vec >= v
  BY DEF StitchedTo
<1>3. Len(g.bytes) = q - b /\ l \in Nat
  BY <1>2, Part
<1> HIDE DEF s, l
<1>l. l = Len(bytes) /\ s = g.source
  BY DEF l, s
<1>4. CASE Len(g.bytes) >= n
  <2>1. WithNextPiece(g, n) = g
    BY <1>4 DEF WithNextPiece
  <2>2. q = b + n
    BY <1>2, <1>3, <1>4
  <2> QED
    BY <1>1, <1>2, <2>1, <2>2, <1>l DEF StitchedTo
<1>5. CASE ~ (Len(g.bytes) >= n)
  <2> DEFINE m == Smaller(n - (q - b), lp)
             more == SubSeq(p, 1, m)
             t == Skip(s, m)
             h == WithNextPiece(g, n)
  <2>1. /\ q \in Nat /\ lp \in Nat /\ q + lp <= l /\ p = SubSeq(bytes, q + 1, q + lp)
    <3>1. Laid(s.iov, start, bytes)
      BY <1>1
    <3>2. /\ q \in Nat /\ Len(Peek(s)) \in Nat /\ q + Len(Peek(s)) <= Len(bytes)
          /\ Peek(s) = SubSeq(bytes, q + 1, q + Len(Peek(s)))
      <4> HIDE DEF p, lp
      <4> QED
        BY <1>1, <1>2, <3>1, PeekIs
    <3> QED
      BY <3>2, <1>l
  <2>2. q - b < n /\ n - (q - b) \in Nat
    BY <1>2, <1>3, <1>5
  <2>3. m \in Nat /\ m <= lp /\ m <= n - (q - b) /\ (m = n - (q - b) \/ m = lp)
    <3> HIDE DEF lp
    <3> QED
      BY <2>1, <2>2 DEF Smaller
  <2>4. h = [bytes |-> g.bytes \o SubSeq(p, 1, Smaller(n - (q - b), lp)),
             source |-> Skip(s, Len(SubSeq(p, 1, Smaller(n - (q - b), lp))))]
    BY <1>3, <1>5, <1>l DEF WithNextPiece
  <2>5. p \in Seq(Bytes) /\ lp = Len(p)
    BY <1>1, PeekType
  <2> HIDE DEF m, p, lp
  <2>6. more = SubSeq(bytes, q + 1, q + m) /\ Len(more) = m
    <3>1. more = [k \in 1 .. m - 0 |-> p[0 + k]] /\ Len(more) = m - 0
      <4>1. SubSeq(p, 0 + 1, m) = [k \in 1 .. m - 0 |-> p[0 + k]] /\ Len(SubSeq(p, 0 + 1, m)) = m - 0
        <5> HIDE DEF more
        <5>1. lp \in Nat /\ 0 <= m /\ m <= Len(p)
          BY <2>1, <2>3, <2>5
        <5> QED
          BY <2>3, <2>5, <5>1, Part
      <4>2. 0 + 1 = 1
        OBVIOUS
      <4> QED
        BY <4>1, <4>2
    <3>2. SubSeq(bytes, q + 1, q + m) = [k \in 1 .. (q + m) - q |-> bytes[q + k]]
      BY <1>2, <1>3, <1>l, <2>1, <2>3, Part
    <3>3. SubSeq(bytes, q + 1, q + lp) = [k \in 1 .. (q + lp) - q |-> bytes[q + k]]
      BY <1>2, <1>3, <1>l, <2>1, <2>3, Part
    <3>4. \A k \in 1 .. m : k \in 1 .. (q + lp) - q /\ 0 + k = k
      BY <2>1, <2>3
    <3>5. \A k \in 1 .. m : p[0 + k] = bytes[q + k]
      BY <2>1, <3>3, <3>4
    <3>6. m - 0 = m /\ (q + m) - q = m
      BY <2>3
    <3> HIDE DEF more
    <3> QED
      BY <3>1, <3>2, <3>5, <3>6
  <2>7. h = [bytes |-> g.bytes \o more, source |-> t]
    BY <2>4, <2>6 DEF m
  <2> HIDE DEF h
  <2>8. g.bytes \o more = SubSeq(bytes, b + 1, q + m)
    <3>1. q <= q + m /\ q + m <= l /\ q + m \in Nat
      BY <1>2, <1>3, <2>1, <2>3
    <3> QED
      <4> DEFINE r == q + m
      <4>1. r \in Nat /\ q <= r /\ r <= Len(bytes) /\ more = SubSeq(bytes, q + 1, r)
        BY <1>l, <2>6, <3>1
      <4> HIDE DEF r, more
      <4>2. b \in Nat /\ q \in Nat /\ b <= q
        BY <1>2
      <4>3. SubSeq(bytes, b + 1, q) \o SubSeq(bytes, q + 1, r) = SubSeq(bytes, b + 1, r)
        BY ONLY <4>1, <4>2, bytes \in Seq(Bytes), Parts
      <4> QED
        BY <1>2, <4>1, <4>3 DEF r
  <2>9. /\ t.iov = iov /\ At(t, start, q + m)
        /\ m = lp => t.vec = s.vec + 1 \/ q + m = l
        /\ t.vec = s.vec \/ t.vec = s.vec + 1
    <3>1. Laid(s.iov, start, bytes) /\ m <= Len(Peek(s))
      BY <1>1, <2>3, <2>5 DEF p
    <3>2. Moved(s, Skip(s, m), start, bytes, q, m)
      BY <1>1, <1>2, <2>3, <3>1, SkipMoves
    <3> HIDE DEF t
    <3>3. t = Skip(s, m)
      BY DEF t
    <3> QED
      BY <1>1, <1>l, <2>5, <3>2, <3>3 DEF p, Moved
  <2>10. q + m = b + n \/ q + m = l \/ t.vec >= v + 1
    <3>1. s.vec \in Nat
      BY <1>1 DEF Sources
    <3> HIDE DEF t
    <3>2. q # b + n
      BY <2>2
    <3>3. CASE m = n - (q - b)
      BY <2>2, <3>3
    <3>4. CASE m = lp
      <4>1. CASE q + m = l
        BY <4>1
      <4>2. CASE q + m # l
        <5>1. t.vec = s.vec + 1
          BY <2>9, <3>4, <4>2
        <5>2. q # l
          BY <1>2, <1>3, <2>1, <2>3, <4>2
        <5> QED
          BY <1>2, <3>1, <3>2, <5>1, <5>2
      <4> QED
        BY <4>1, <4>2
    <3> QED
      BY <2>3, <3>3, <3>4
  <2>11. q + m \in Nat /\ b <= q + m /\ q + m <= b + n /\ q + m <= l
    BY <1>2, <1>3, <2>1, <2>2, <2>3
  <2>12. h.bytes = SubSeq(bytes, b + 1, q + m) /\ h.source = t
    BY <2>7, <2>8
  <2> HIDE DEF t
  <2>13. StitchedTo(h, iov, start, bytes, b, n, v + 1)
    BY <2>9, <2>10, <2>11, <2>12, <1>l DEF StitchedTo
  <2> QED
    BY <2>13 DEF h
<1> QED
  BY <1>4, <1>5

(* Stitching reads as many bytes as are asked for, or all that there are.  *)
ReadFrom(g, s, bytes, start, b, p, q) ==
  /\ q \in Nat /\ p <= q /\ q <= Len(bytes)
  /\ g.bytes = SubSeq(bytes, b + 1, q)
  /\ g.source \in Sources /\ g.source.iov = s.iov /\ At(g.source, start, q)

(* What compress gathers of a block is the next part of the file.          *)
LEMMA GatherReads ==
  ASSUME NEW s \in Sources, NEW bytes \in Seq(Bytes), NEW start, Laid(s.iov, start, bytes),
         NEW b \in Nat, NEW p \in Nat, At(s, start, p), b <= p, NEW n \in Nat, p <= b + n
  PROVE  ReadFrom(Gather(s, SubSeq(bytes, b + 1, p), n), s, bytes, start, b, p,
                  Smaller(b + n, Len(bytes)))
<1> DEFINE have == SubSeq(bytes, b + 1, p)
           q == Smaller(b + n, Len(bytes))
           g == Gather(s, have, n)
           m == Len(s.iov)
           v == s.vec
           at == m + 1 - v
           l == Len(bytes)
<1>1. p <= l /\ l \in Nat
  <2>1. p + Len(Peek(s)) <= Len(bytes) /\ Len(Peek(s)) \in Nat
    BY PeekIs
  <2> QED
    BY <2>1
<1>2. have \in Seq(Bytes) /\ Len(have) = p - b
  BY <1>1, Part
<1> HIDE DEF l
<1>l. l = Len(bytes)
  BY DEF l
<1>h. have = SubSeq(bytes, b + 1, p)
  OBVIOUS
<1> HIDE DEF have
<1>3. PICK after : StitchSteps(after, s, have, n) /\ g = after[at]
  BY <1>2, GatherSteps
<1>4. m \in Nat /\ v \in Nat /\ v >= 1 /\ v <= m /\ at \in 0 .. m /\ at + v = m + 1
  BY DEF Sources
<1>5. /\ after \in [0 .. m -> Stitched]
      /\ after[0] = [bytes |-> have, source |-> s]
      /\ \A i \in 1 .. m : after[i] = WithNextPiece(after[i - 1], n)
  BY <1>3 DEF StitchSteps
<1> DEFINE iov == s.iov
<1>6. Laid(iov, start, bytes)
  OBVIOUS
<1>7. StitchedTo(after[0], iov, start, bytes, b, n, v + 0)
  <2>1. after[0] = [bytes |-> have, source |-> s]
    BY <1>5
  <2>3. after[0].bytes = have /\ after[0].source = s
    BY <2>1
  <2>2. s.vec >= v + 0 /\ p \in Nat
    BY <1>4
  <2> QED
    BY <1>1, <1>l, <1>h, <2>3, <2>2 DEF StitchedTo
<1> HIDE DEF iov, m, v, at, g
<1> DEFINE T == {i \in 0 .. m : StitchedTo(after[i], iov, start, bytes, b, n, v + i)}
<1>8. 0 \in T
  BY <1>4, <1>7
<1>9. ASSUME NEW i \in 1 .. m, i - 1 \in T
      PROVE  i \in T
  <2>1. i - 1 \in 0 .. m /\ i \in 0 .. m /\ v + (i - 1) \in Nat /\ (v + (i - 1)) + 1 = v + i
    BY <1>4
  <2>2. after[i - 1] \in Stitched /\ StitchedTo(after[i - 1], iov, start, bytes, b, n, v + (i - 1))
    BY <1>5, <1>9, <2>1
  <2> DEFINE w == v + (i - 1)
             x == after[i - 1]
  <2>3. w \in Nat /\ x \in Stitched /\ StitchedTo(x, iov, start, bytes, b, n, w)
    BY <2>1, <2>2
  <2>4. after[i] = WithNextPiece(x, n) /\ w + 1 = v + i
    BY <1>5, <2>1
  <2> HIDE DEF w, x
  <2>5. StitchedTo(WithNextPiece(x, n), iov, start, bytes, b, n, w + 1)
    BY <1>6, <2>3, OnePieceMore
  <2> QED
    BY <2>1, <2>4, <2>5
<1>10. \A i \in 1 .. m : i - 1 \in T => i \in T
  BY <1>9
<1>11. at \in T
  <2> HIDE DEF T
  <2>1. \A i \in 0 .. m : i \in T
    BY <1>4, <1>8, <1>10, UpTo
  <2> QED
    BY <1>4, <2>1
<1>12. StitchedTo(g, iov, start, bytes, b, n, m + 1)
  <2>1. v + at = m + 1
    BY <1>4
  <2> QED
    BY <1>3, <1>11, <2>1
<1>13. g \in Stitched
  BY <1>3, <1>4, <1>5
<1>14. g.source \in Sources /\ g.source.iov = iov
  BY <1>12, <1>13 DEF StitchedTo, Stitched
<1>15. PICK r \in Nat :
         /\ b <= r /\ r <= b + n /\ r <= l
         /\ g.bytes = SubSeq(bytes, b + 1, r) /\ At(g.source, start, r)
         /\ r = b + n \/ r = l \/ g.source.vec >= m + 1
  BY <1>12, <1>l DEF StitchedTo
<1>16. ~ (g.source.vec >= m + 1)
  <2>1. g.source.vec \in Nat /\ g.source.vec <= m
    BY <1>14 DEF Sources, m, iov
  <2> QED
    BY <1>4, <2>1
<1>17. r = q
  <2>1. q = Smaller(b + n, l)
    BY <1>l
  <2> HIDE DEF q
  <2>2. q = IF b + n < l THEN b + n ELSE l
    BY <2>1 DEF Smaller
  <2> QED
    BY <1>1, <1>15, <1>16, <2>2
<1>18. p <= q
  <2> HIDE DEF q
  <2>1. r = b + n \/ r = l
    BY <1>15, <1>16
  <2> QED
    BY <1>1, <1>17, <2>1
<1> HIDE DEF q
<1>19. ReadFrom(g, s, bytes, start, b, p, q)
  BY <1>14, <1>15, <1>17, <1>18, <1>l DEF iov, ReadFrom
<1> QED
  BY <1>19 DEF g, q, have

(* One piece more.                                                         *)
LEMMA LaidMore ==
  ASSUME NEW iov, NEW start, NEW b \in Seq(Bytes), NEW n \in Nat, LaidFirst(iov, start, b, n),
         \A i \in 1 .. n + 1 : iov[i] \in Seq(Bytes), start[n + 2] = Len(b) + Len(iov[n + 1])
  PROVE  LaidFirst(iov, start, b \o iov[n + 1], n + 1)
<1> DEFINE x == iov[n + 1]
           c == b \o x
           lb == Len(b)
           lx == Len(x)
           e == start[n + 2]
<1>1. /\ \A i \in 1 .. n + 1 : start[i] \in Nat /\ start[i] <= lb
      /\ start[1] = 0 /\ start[n + 1] = lb
      /\ \A i \in 1 .. n :
           /\ start[i + 1] = start[i] + Len(iov[i])
           /\ \A k \in 1 .. Len(iov[i]) : b[start[i] + k] = iov[i][k]
  BY DEF LaidFirst
<1>2. /\ c \in Seq(Bytes) /\ Len(c) = lb + lx
      /\ \A k \in 1 .. lb : c[k] = b[k]
      /\ \A k \in 1 .. lx : c[lb + k] = x[k]
  <2>1. x \in Seq(Bytes)
    OBVIOUS
  <2> QED
    BY <2>1, Join
<1>3. lb \in Nat /\ lx \in Nat /\ e = lb + lx /\ (n + 1) + 1 = n + 2
  <2>1. x \in Seq(Bytes)
    OBVIOUS
  <2> QED
    BY <2>1
<1>4. ASSUME NEW i \in 1 .. (n + 1) + 1
      PROVE  start[i] \in Nat /\ start[i] <= Len(c)
  <2>1. CASE i = n + 2
    BY <1>2, <1>3, <2>1
  <2>2. CASE i # n + 2
    <3>1. i \in 1 .. n + 1
      BY <2>2
    <3> DEFINE a == start[i]
    <3>2. a \in Nat /\ a <= lb
      BY <1>1, <3>1
    <3> HIDE DEF a, lb, lx, c
    <3>3. a \in Nat /\ a <= Len(c)
      BY <1>2, <1>3, <3>2
    <3> QED
      BY <3>3 DEF a
  <2> QED
    BY <2>1, <2>2
<1>5. ASSUME NEW i \in 1 .. n + 1
      PROVE  /\ start[i + 1] = start[i] + Len(iov[i])
             /\ \A k \in 1 .. Len(iov[i]) : c[start[i] + k] = iov[i][k]
  <2>1. CASE i = n + 1
    BY <1>1, <1>2, <1>3, <2>1
  <2>2. CASE i # n + 1
    <3>1. i \in 1 .. n /\ i + 1 \in 1 .. n + 1
      BY <2>2
    <3> DEFINE a == start[i]
               d == start[i + 1]
               y == iov[i]
               ly == Len(y)
    <3>2. d = a + ly /\ a \in Nat /\ d \in Nat /\ d <= lb /\ ly \in Nat
      <4>1. y \in Seq(Bytes)
        BY <3>1
      <4> QED
        BY <1>1, <3>1, <4>1
    <3>3. \A k \in 1 .. ly : b[a + k] = y[k]
      BY <1>1, <3>1
    <3>4. ASSUME NEW k \in 1 .. ly
          PROVE  c[a + k] = y[k]
      <4> HIDE DEF a, d, y, ly, lb, c, lx
      <4>1. a + k \in 1 .. lb
        BY <1>3, <3>2
      <4> QED
        BY <1>2, <3>3, <4>1
    <3> QED
      BY <3>2, <3>4
  <2> QED
    BY <2>1, <2>2
<1>6. start[1] = 0 /\ start[(n + 1) + 1] = Len(c)
  BY <1>1, <1>2, <1>3
<1> HIDE DEF c
<1>7. LaidFirst(iov, start, c, n + 1)
  BY <1>4, <1>5, <1>6 DEF LaidFirst
<1> QED
  BY <1>7 DEF c

(* Where the pieces of a file begin in it.                                 *)
LEMMA FlattenLaid ==
  ASSUME NEW iov \in Seq(Seq(Bytes)), iov # <<>>
  PROVE  \E start : Laid(iov, start, FlattenSeq(iov))
<1>1. PICK f : Joins(f, iov) /\ FlattenSeq(iov) = f[Len(iov)]
  BY FlattenSteps
<1> DEFINE n == Len(iov)
           start == [i \in 1 .. n + 1 |-> IF i = 1 THEN 0 ELSE Len(f[i - 1])]
<1>2. n \in Nat /\ n > 0 /\ \A i \in 1 .. n : iov[i] \in Seq(Bytes)
  OBVIOUS
<1>3. /\ \A i \in 1 .. n : f[i] \in Seq(Bytes)
      /\ f[1] = iov[1]
      /\ \A i \in 2 .. n : f[i] = f[i - 1] \o iov[i]
  BY <1>1 DEF Joins
<1>4. start[1] = 0 /\ \A i \in 1 .. n : start[i + 1] = Len(f[i])
  <2>1. 1 \in 1 .. n + 1 /\ \A i \in 1 .. n : i + 1 \in 1 .. n + 1 /\ i + 1 # 1 /\ (i + 1) - 1 = i
    BY <1>2
  <2> HIDE DEF n
  <2> QED
    BY <2>1
<1>n. n = Len(iov)
  OBVIOUS
<1> HIDE DEF n, start
<1> DEFINE T == {i \in 0 .. n - 1 : LaidFirst(iov, start, f[i + 1], i + 1)}
<1>5. 0 \in T
  <2>1. LaidFirst(iov, start, f[1], 1)
    <3>1. start[1] = 0 /\ start[2] = Len(f[1]) /\ f[1] = iov[1] /\ f[1] \in Seq(Bytes)
      <4>1. start[1 + 1] = Len(f[1])
        BY <1>2, <1>4
      <4> QED
        BY <1>2, <1>3, <1>4, <4>1
    <3> DEFINE b == f[1]
               l == Len(b)
    <3>2. l \in Nat /\ start[1] = 0 /\ start[2] = l /\ iov[1] = b
      BY <3>1
    <3> HIDE DEF b
    <3>3. \A k \in 1 .. l : 0 + k = k
      BY <3>2
    <3>4. LaidFirst(iov, start, b, 1)
      <4> HIDE DEF l
      <4>1. \A i \in 1 .. 1 + 1 : start[i] \in Nat /\ start[i] <= l
        BY <3>2
      <4>2. ASSUME NEW i \in 1 .. 1
            PROVE  /\ start[i + 1] = start[i] + l /\ \A k \in 1 .. l : b[start[i] + k] = b[k]
        <5>1. i = 1 /\ 1 + 1 = 2 /\ 0 + l = l
          BY <3>2
        <5> QED
          BY <3>2, <3>3, <5>1
      <4>3. \A i \in 1 .. 1 : iov[i] = b
        BY <3>2
      <4> QED
        BY <3>2, <4>1, <4>2, <4>3 DEF LaidFirst, l
    <3> QED
      BY <3>4 DEF b
  <2> QED
    BY <1>2, <2>1
<1>6. ASSUME NEW i \in 1 .. n - 1, i - 1 \in T
      PROVE  i \in T
  <2>1. /\ i - 1 \in 0 .. n - 1 /\ i \in 0 .. n - 1 /\ (i - 1) + 1 = i /\ i \in 1 .. n /\ i + 1 \in 2 .. n
        /\ i + 1 \in 1 .. n /\ (i + 1) - 1 = i /\ i \in Nat /\ (i + 1) + 1 = i + 2
    BY <1>2
  <2>2. LaidFirst(iov, start, f[i], i)
    BY <1>6, <2>1
  <2>3. f[i + 1] = f[i] \o iov[i + 1] /\ f[i] \in Seq(Bytes) /\ iov[i + 1] \in Seq(Bytes)
    BY <1>2, <1>3, <2>1
  <2>4. start[i + 2] = Len(f[i + 1])
    BY <1>4, <2>1
  <2>5. start[i + 2] = Len(f[i]) + Len(iov[i + 1])
    BY <2>3, <2>4, Join
  <2>6. LaidFirst(iov, start, f[i] \o iov[i + 1], i + 1)
    <3>1. \A j \in 1 .. i + 1 : iov[j] \in Seq(Bytes)
      BY <1>2, <2>1
    <3> QED
      BY <2>1, <2>2, <2>3, <2>5, <3>1, LaidMore
  <2> QED
    BY <2>1, <2>3, <2>6
<1>7. n - 1 \in T
  <2>1. \A i \in 1 .. n - 1 : i - 1 \in T => i \in T
    BY <1>6
  <2>2. n - 1 \in Nat
    BY <1>2
  <2> HIDE DEF T
  <2>3. \A i \in 0 .. n - 1 : i \in T
    BY <1>5, <2>1, <2>2, UpTo
  <2> QED
    BY <2>2, <2>3
<1>8. (n - 1) + 1 = n
  BY <1>2
<1> QED
  BY <1>1, <1>7, <1>8, <1>n DEF Laid

(* Multiples of a size.                                                    *)
LEMMA Multiples ==
  ASSUME NEW size \in Nat, NEW n \in Nat
  PROVE  \A i \in 0 .. n : size * i \in Nat /\ size * i <= size * n
<1> SUFFICES ASSUME NEW i \in 0 .. n
             PROVE  size * i \in Nat /\ size * i <= size * n
  OBVIOUS
<1>1. i \in Nat /\ n - i \in Nat /\ n = i + (n - i)
  OBVIOUS
<1> DEFINE j == n - i
<1>2. j \in Nat /\ n = i + j
  BY <1>1
<1> HIDE DEF j
<1>3. size * i \in Nat /\ size * j \in Nat
  BY <1>1, <1>2, Product
<1>4. size * n = size * i + size * j
  BY <1>1, <1>2
<1> QED
  BY <1>3, <1>4

(* A number of bytes in pieces of a size: all but the last are full.       *)
LEMMA CutCounts ==
  ASSUME NEW l \in Nat, l > 0, NEW size \in Nat, size > 0, NEW n, n = (l + size - 1) \div size
  PROVE  /\ n \in Nat /\ n > 0
         /\ size * (n - 1) < l /\ l <= size * n
<1> DEFINE a == l + size - 1
           q == a \div size
           r == a % size
<1>1. a \in Nat /\ a >= size
  OBVIOUS
<1>a. a = l + size - 1
  OBVIOUS
<1> HIDE DEF a
<1>2. q \in Int /\ r \in 0 .. size - 1 /\ a = size * q + r
  BY <1>1
<1>3. n = q
  BY DEF a
<1> HIDE DEF q, r
<1>4. q > 0
  <2>1. CASE q <= 0
    <3>1. size * q <= 0
      BY <1>2, <2>1
    <3> QED
      BY <1>1, <1>2, <3>1
  <2> QED
    BY <1>2, <2>1
<1>5. size * (q - 1) = size * q - size
  BY <1>2
<1>6. size * (q - 1) < l /\ l <= size * q
  <2> DEFINE x == size * q
             y == size * (q - 1)
  <2>1. x \in Int /\ y = x - size
    BY <1>2, <1>5
  <2>2. a = x + r
    BY <1>2
  <2> HIDE DEF x, y
  <2>3. y < l /\ l <= x
    BY <1>2, <1>a, <2>1, <2>2
  <2> QED
    BY <2>3 DEF x, y
<1> QED
  BY <1>2, <1>3, <1>4, <1>6

(* Where the pieces of what has been cut begin, and none of them is empty. *)
LEMMA CutLaid ==
  ASSUME NEW bytes \in Seq(Bytes), bytes # <<>>, NEW size \in Nat, size > 0
  PROVE  AllFull(Cut(bytes, size)) /\ \E start : Laid(Cut(bytes, size), start, bytes)
<1> DEFINE l == Len(bytes)
           n == (l + size - 1) \div size
           c(i) == SubSeq(bytes, size * (i - 1) + 1, Smaller(size * i, l))
           start == [i \in 1 .. n + 1 |-> IF i = n + 1 THEN l ELSE size * (i - 1)]
           iov == Cut(bytes, size)
<1>1. l \in Nat /\ l > 0
  OBVIOUS
<1>2. iov = [i \in 1 .. n |-> c(i)]
  BY DEF Cut
<1>l. l = Len(bytes)
  OBVIOUS
<1> HIDE DEF l
<1>3. n \in Nat /\ n > 0 /\ size * (n - 1) < l /\ l <= size * n
  BY <1>1, CutCounts
<1> HIDE DEF n, iov
<1>4. Len(iov) = n
  BY <1>2, <1>3
<1>5. ASSUME NEW i \in 1 .. n
      PROVE  /\ start[i] \in Nat /\ start[i + 1] \in Nat
             /\ start[i] = size * (i - 1) /\ start[i + 1] = Smaller(size * i, l)
             /\ start[i] < start[i + 1] /\ start[i + 1] <= l
  <2> DEFINE a == size * (i - 1)
             b == size * i
  <2>1. i - 1 \in 0 .. n - 1 /\ n - 1 \in Nat /\ i \in 0 .. n
    BY <1>3
  <2>2. a \in Nat /\ a <= size * (n - 1)
    BY <2>1, Multiples
  <2>3. b \in Nat
    BY <1>3, <2>1, Multiples
  <2>4. b = a + size
    <3>1. i \in Nat
      OBVIOUS
    <3> QED
      BY <3>1
  <2>5. a < l
    <3> DEFINE d == size * (n - 1)
    <3>1. d \in Int
      <4>1. n - 1 \in Nat
        BY <2>1
      <4> QED
        BY <4>1, Product
    <3>2. a <= d /\ d < l
      BY <1>3, <2>2
    <3> HIDE DEF a, d
    <3> QED
      BY <1>1, <2>2, <3>1, <3>2
  <2>6. i < n => b < l
    <3>1. CASE i < n
      <4>1. i \in 0 .. n - 1
        BY <1>3, <2>1, <3>1
      <4> DEFINE d == size * (n - 1)
      <4>2. b <= d /\ d < l /\ d \in Nat
        BY <1>3, <2>1, <4>1, Multiples
      <4> HIDE DEF b, d
      <4>3. b < l
        BY <1>1, <2>3, <4>2
      <4> QED
        BY <4>3
    <3> QED
      BY <3>1
  <2>7. i = n => b >= l
    <3>1. CASE i = n
      <4>1. l <= b
        BY <1>3, <3>1
      <4> HIDE DEF b
      <4> QED
        BY <1>1, <2>3, <4>1
    <3> QED
      BY <3>1
  <2>8. start[i] = a
    <3>1. i \in 1 .. n + 1 /\ i # n + 1
      BY <1>3
    <3> QED
      BY <3>1
  <2>9. start[i + 1] = IF i = n THEN l ELSE b
    <3>1. i + 1 \in 1 .. n + 1 /\ (i + 1 = n + 1 <=> i = n) /\ (i + 1) - 1 = i
      BY <1>3
    <3> QED
      BY <3>1
  <2> HIDE DEF a, b, start
  <2>10. /\ Smaller(b, l) = IF b < l THEN b ELSE l
    BY DEF Smaller
  <2>11. start[i + 1] = Smaller(b, l) /\ a < Smaller(b, l) /\ Smaller(b, l) <= l /\ Smaller(b, l) \in Nat
    <3>1. i \in Nat /\ i <= n
      BY <1>3
    <3>2. CASE i = n
      BY <1>1, <2>2, <2>3, <2>5, <2>7, <2>9, <2>10, <3>2
    <3>3. CASE i # n
      <4>1. b < l
        BY <1>3, <2>6, <3>1, <3>3
      <4> QED
        BY <1>1, <2>2, <2>3, <2>4, <2>9, <2>10, <3>3, <4>1
    <3> QED
      BY <3>2, <3>3
  <2> DEFINE s == Smaller(b, l)
  <2>12. start[i] \in Nat /\ start[i + 1] \in Nat /\ start[i] < start[i + 1] /\ start[i + 1] <= l
    <3>1. start[i + 1] = s /\ a < s /\ s <= l /\ s \in Nat
      BY <2>11
    <3> HIDE DEF s
    <3> QED
      BY <2>2, <2>8, <3>1
  <2> QED
    BY <2>8, <2>11, <2>12 DEF a, b
<1>6. start[1] = 0 /\ start[n + 1] = l
  <2>1. start[n + 1] = l
    BY <1>3
  <2>2. 1 \in 1 .. n /\ size * (1 - 1) = 0
    BY <1>3
  <2>3. start[1] = size * (1 - 1)
    BY <1>5, <2>2
  <2> QED
    BY <2>1, <2>2, <2>3
<1> HIDE DEF start
<1>7. ASSUME NEW i \in 1 .. n
      PROVE  /\ iov[i] # <<>> /\ start[i + 1] = start[i] + Len(iov[i])
             /\ \A k \in 1 .. Len(iov[i]) : bytes[start[i] + k] = iov[i][k]
  <2> DEFINE a == start[i]
             b == start[i + 1]
             x == iov[i]
  <2>1. x = SubSeq(bytes, a + 1, b)
    BY <1>2, <1>5
  <2>2. a \in Nat /\ b \in Nat /\ a < b /\ b <= l
    BY <1>5
  <2> HIDE DEF a, b, x
  <2>3. SubSeq(bytes, a + 1, b) = [k \in 1 .. b - a |-> bytes[a + k]] /\ Len(SubSeq(bytes, a + 1, b)) = b - a
        /\ SubSeq(bytes, a + 1, b) \in Seq(Bytes)
    BY <1>1, <1>l, <2>2, Part
  <2>4. x \in Seq(Bytes) /\ Len(x) = b - a /\ \A k \in 1 .. b - a : x[k] = bytes[a + k]
    BY <2>1, <2>3
  <2>5. x # <<>> /\ b = a + Len(x)
    BY <2>2, <2>4
  <2>6. \A k \in 1 .. Len(x) : bytes[a + k] = x[k]
    BY <2>4
  <2> QED
    BY <2>5, <2>6 DEF a, b, x
<1>8. ASSUME NEW i \in 1 .. n + 1
      PROVE  start[i] \in Nat /\ start[i] <= l
  <2>1. CASE i = n + 1
    BY <1>1, <1>6, <2>1
  <2>2. CASE i # n + 1
    <3>1. i \in 1 .. n
      BY <1>3, <2>2
    <3> DEFINE a == start[i]
               b == start[i + 1]
    <3>2. a \in Nat /\ b \in Nat /\ a < b /\ b <= l
      BY <1>5, <3>1
    <3> HIDE DEF a, b
    <3>3. a \in Nat /\ a <= l
      BY <1>1, <3>2
    <3> QED
      BY <3>3 DEF a
  <2> QED
    BY <2>1, <2>2
<1>9. Laid(iov, start, bytes)
  BY <1>4, <1>6, <1>7, <1>8, <1>l DEF Laid, LaidFirst
<1>10. AllFull(iov)
  BY <1>4, <1>7 DEF AllFull
<1> QED
  BY <1>9, <1>10 DEF iov

(* A part of a part of a sequence.                                         *)
LEMMA PartOfPart ==
  ASSUME NEW s \in Seq(Bytes), NEW a \in Nat, NEW n \in Nat, a + n <= Len(s), NEW m \in Nat, m <= n,
         NEW x, x = SubSeq(s, a + 1, a + n)
  PROVE  SubSeq(x, 1, m) = SubSeq(s, a + 1, a + m) /\ Len(SubSeq(x, 1, m)) = m
<1> DEFINE y == SubSeq(x, 1, m)
           z == SubSeq(s, a + 1, a + m)
<1>1. SubSeq(s, a + 1, a + n) = [k \in 1 .. (a + n) - a |-> s[a + k]]
      /\ Len(SubSeq(s, a + 1, a + n)) = (a + n) - a /\ SubSeq(s, a + 1, a + n) \in Seq(Bytes)
  <2>1. a <= a + n /\ a + n \in Nat
    OBVIOUS
  <2> QED
    BY <2>1, Part
<1>2. z = [k \in 1 .. (a + m) - a |-> s[a + k]]
  <2>1. a <= a + m /\ a + m \in Nat /\ a + m <= Len(s)
    OBVIOUS
  <2> QED
    BY <2>1, Part
<1>3. (a + n) - a = n /\ (a + m) - a = m
  OBVIOUS
<1>4. x \in Seq(Bytes) /\ Len(x) = n /\ \A k \in 1 .. n : x[k] = s[a + k]
  BY <1>1, <1>3
<1>5. SubSeq(x, 0 + 1, m) = [k \in 1 .. m - 0 |-> x[0 + k]] /\ Len(SubSeq(x, 0 + 1, m)) = m - 0
  <2>1. 0 <= m /\ m <= Len(x)
    BY <1>4
  <2> QED
    BY <1>4, <2>1, Part
<1>6. 0 + 1 = 1 /\ m - 0 = m /\ \A k \in 1 .. m : 0 + k = k /\ k \in 1 .. n
  OBVIOUS
<1>7. y = [k \in 1 .. m |-> x[k]] /\ Len(y) = m
  BY <1>5, <1>6
<1>8. y = z
  BY <1>2, <1>3, <1>4, <1>6, <1>7
<1> QED
  BY <1>7, <1>8

(* The compressor is where it has read to, and a block is the next part of *)
(* the file, however the source is cut into pieces.                        *)
ReadTo(p) == \E start : Laid(reader.iov, start, file) /\ At(reader, start, p)

StreamInv ==
  /\ left \in Nat /\ left <= Len(file)
  /\ phase = "next" => ReadTo(Len(file) - left)
  /\ phase = "block" =>
       /\ left > 0 /\ N = Smaller(left, BlockSize)
       /\ input = SubSeq(file, Len(file) - left + 1, Len(file) - left + N)
       /\ ReadTo(Len(file) - left + N)
  /\ phase \notin {"next", "block", "refused"} => left = 0

(* At the start, all of the file is left.                                  *)
LEMMA InitStream == CodecInit => StreamInv
<1> SUFFICES ASSUME CodecInit
             PROVE  StreamInv
  OBVIOUS
<1>1. PICK iov \in Calls : reader = Source(iov) /\ file = FlattenSeq(iov)
  BY DEF CodecInit
<1>2. iov \in Seq(Seq(Bytes)) /\ iov # <<>>
  BY CodecAssumption
<1>3. file \in Seq(Bytes)
  BY <1>1, <1>2, FlattenType
<1>4. phase = "next" /\ left = Len(file)
  BY DEF CodecInit
<1>5. Len(file) \in Nat /\ Len(file) - left = 0
  BY <1>3, <1>4
<1>6. PICK start : Laid(iov, start, file)
  BY <1>1, <1>2, FlattenLaid
<1>7. reader.iov = iov /\ reader.vec = 1 /\ reader.off = 0
  BY <1>1 DEF Source
<1>8. At(reader, start, 0)
  <2>1. start[1] = 0
    BY <1>6 DEF Laid, LaidFirst
  <2>2. iov[1] \in Seq(Bytes) /\ 1 \in 1 .. Len(iov)
    BY <1>2
  <2>3. 0 <= Len(iov[1]) /\ (iov[1] # <<>> => 0 < Len(iov[1]))
    <3> DEFINE x == iov[1]
    <3>1. x \in Seq(Bytes)
      BY <2>2
    <3> HIDE DEF x
    <3>2. 0 <= Len(x) /\ (x # <<>> => 0 < Len(x))
      BY <3>1
    <3> QED
      BY <3>2 DEF x
  <2>4. start[1] + 0 = 0
    BY <2>1
  <2> QED
    BY <1>7, <2>2, <2>3, <2>4 DEF At, AllFull
<1>9. ReadTo(0)
  BY <1>6, <1>7, <1>8 DEF ReadTo
<1> QED
  BY <1>4, <1>5, <1>9 DEF StreamInv

(* The next block is the next part of the file.                            *)
LEMMA NextBlockStream ==
  ASSUME CompressorInv, StreamInv, NextBlock
  PROVE  StreamInv'
<1> DEFINE fragment == Peek(reader)
           num_to_read == Smaller(left, BlockSize)
           gathered == Gather(reader, <<>>, num_to_read)
           l == Len(file)
           p == l - left
           n == num_to_read
<1>1. file \in Seq(Bytes) /\ l \in Nat
  BY DEF CompressorInv
<1>2. phase = "next" /\ left > 0 /\ left' = left /\ file' = file /\ l' = l
  BY DEF NextBlock
<1>3. reader \in Sources
  BY <1>2 DEF CompressorInv, BlockInv
<1>4. left \in Nat /\ left <= l /\ ReadTo(p)
  BY <1>2 DEF StreamInv
<1>5. n \in Nat /\ n > 0 /\ n <= left
  BY <1>2, <1>4, BlockIs DEF Smaller
<1>6. PICK start : Laid(reader.iov, start, file) /\ At(reader, start, p)
  BY <1>4 DEF ReadTo
<1>7. p \in Nat /\ p + n <= l
  <2> HIDE DEF l, n
  <2> QED
    BY <1>1, <1>4, <1>5
<1>8. CASE phase' = "refused"
  BY <1>2, <1>4, <1>8 DEF StreamInv
<1>9. CASE /\ Len(fragment) >= num_to_read /\ Begin(SubSeq(fragment, 1, num_to_read))
           /\ reader' = Skip(reader, num_to_read) /\ phase' = "block"
  <2>1. /\ Len(fragment) \in Nat /\ p + Len(fragment) <= l
        /\ fragment = SubSeq(file, p + 1, p + Len(fragment))
    <3> HIDE DEF p, l
    <3>1. /\ Len(Peek(reader)) \in Nat /\ p + Len(Peek(reader)) <= Len(file)
          /\ Peek(reader) = SubSeq(file, p + 1, p + Len(Peek(reader)))
      BY <1>1, <1>3, <1>6, PeekIs
    <3> QED
      BY <3>1 DEF l
  <2> DEFINE f == Len(fragment)
             block == SubSeq(fragment, 1, n)
  <2>2. block = SubSeq(file, p + 1, p + n) /\ Len(block) = n
    <3>1. f \in Nat /\ p + f <= Len(file) /\ fragment = SubSeq(file, p + 1, p + f) /\ n <= f
      BY <1>9, <2>1
    <3> HIDE DEF p, fragment, n, f
    <3> QED
      BY <1>1, <1>5, <1>7, <3>1, PartOfPart
  <2>3. Moved(reader, Skip(reader, n), start, file, p, n)
    <3>1. n <= Len(Peek(reader))
      BY <1>9
    <3> HIDE DEF n, p
    <3> QED
      BY <1>1, <1>3, <1>5, <1>6, <3>1, SkipMoves
  <2>4. reader'.iov = reader.iov /\ At(reader', start, p + n)
    BY <1>9, <2>3 DEF Moved
  <2>5. input' = SubSeq(file, p + 1, p + n) /\ N' = n
    BY <1>9, <2>2 DEF Begin, N
  <2>6. ReadTo(p + n)'
    <3> HIDE DEF p, n
    <3>1. Laid(reader'.iov, start, file') /\ At(reader', start, p + n)
      BY <1>2, <1>6, <2>4
    <3>2. \E st : Laid(reader'.iov, st, file') /\ At(reader', st, p + n)
      BY <3>1
    <3>3. p' = p /\ n' = n
      BY <1>2 DEF p, n, l
    <3> QED
      BY <3>2, <3>3 DEF ReadTo
  <2> HIDE DEF n
  <2>7. n' = n /\ n = Smaller(left, BlockSize)
    BY <1>2 DEF n
  <2> QED
    BY <1>2, <1>4, <1>9, <2>5, <2>6, <2>7 DEF StreamInv
<1>10. CASE Begin(gathered.bytes) /\ reader' = gathered.source /\ phase' = "block"
  <2>1. SubSeq(file, p + 1, p) = <<>>
    <3> HIDE DEF p
    <3> QED
      BY <1>1, <1>7
  <2> DEFINE q == Smaller(p + n, l)
             g == Gather(reader, SubSeq(file, p + 1, p), n)
  <2>2. g = gathered
    BY <2>1
  <2>3. q = p + n
    <3> HIDE DEF p, n, l
    <3> QED
      BY <1>1, <1>5, <1>7 DEF Smaller
  <2>4. ReadFrom(g, reader, file, start, p, p, q)
    <3> HIDE DEF p, n
    <3>1. p <= p /\ p <= p + n
      BY <1>5, <1>7
    <3> QED
      BY <1>1, <1>3, <1>5, <1>6, <1>7, <3>1, GatherReads
  <2>5. gathered.bytes = SubSeq(file, p + 1, p + n) /\ Len(SubSeq(file, p + 1, p + n)) = n
    <3>1. gathered.bytes = SubSeq(file, p + 1, p + n)
      BY <2>2, <2>3, <2>4 DEF ReadFrom
    <3>2. Len(SubSeq(file, p + 1, p + n)) = (p + n) - p
      <4> HIDE DEF p, n
      <4>1. p + n \in Nat /\ p <= p + n /\ p + n <= Len(file)
        BY <1>5, <1>7
      <4> QED
        BY <1>1, <1>7, <4>1, Part
    <3>3. (p + n) - p = n
      <4> HIDE DEF p, n
      <4> QED
        BY <1>5, <1>7
    <3> QED
      BY <3>1, <3>2, <3>3
  <2>6. reader'.iov = reader.iov /\ At(reader', start, p + n)
    BY <1>10, <2>2, <2>3, <2>4 DEF ReadFrom
  <2>7. input' = SubSeq(file, p + 1, p + n) /\ N' = n
    <3> HIDE DEF p, n, gathered
    <3> QED
      BY <1>10, <2>5 DEF Begin, N
  <2>8. ReadTo(p + n)'
    <3> HIDE DEF p, n
    <3>1. Laid(reader'.iov, start, file') /\ At(reader', start, p + n)
      BY <1>2, <1>6, <2>6
    <3>2. \E st : Laid(reader'.iov, st, file') /\ At(reader', st, p + n)
      BY <3>1
    <3>3. p' = p /\ n' = n
      BY <1>2 DEF p, n, l
    <3> QED
      BY <3>2, <3>3 DEF ReadTo
  <2> HIDE DEF n
  <2>9. n' = n /\ n = Smaller(left, BlockSize)
    BY <1>2 DEF n
  <2> QED
    BY <1>2, <1>4, <1>10, <2>7, <2>8, <2>9 DEF StreamInv
<1> QED
  BY <1>8, <1>9, <1>10 DEF NextBlock

(* Every step keeps the compressor where it is in the file.                *)
LEMMA StreamStep ==
  ASSUME CompressorInv, DecoderInv, StreamInv, [Next]_vars
  PROVE  StreamInv'
<1>1. CASE NextBlock
  BY <1>1, NextBlockStream
<1>2. CASE CompressFragment
  <2>1. Step /\ UNCHANGED codecVars
    BY <1>2 DEF CompressFragment
  <2>2. input' = input
    BY <2>1 DEF Step, Start, Scan, CopyMatch, Remainder
  <2> QED
    BY <2>1, <2>2 DEF StreamInv, ReadTo, codecVars, N
<1>3. CASE AppendBlock
  <2>1. /\ phase = "block" /\ phase' = "next" /\ left' = left - N /\ file' = file /\ reader' = reader
    BY <1>3 DEF AppendBlock
  <2>2. left \in Nat /\ left <= Len(file) /\ N = Smaller(left, BlockSize) /\ ReadTo(Len(file) - left + N)
    BY <2>1 DEF StreamInv
  <2>3. N \in Nat /\ N <= left
    BY <2>2, BlockIs DEF Smaller
  <2>4. Len(file) \in Nat
    BY DEF CompressorInv
  <2>5. left' \in Nat /\ left' <= Len(file) /\ Len(file) - left + N = Len(file) - left'
    <3> HIDE DEF N
    <3> QED
      BY <2>1, <2>2, <2>3, <2>4
  <2>6. ReadTo(Len(file) - left)'
    <3> HIDE DEF N
    <3>1. ReadTo(Len(file) - left')
      BY <2>2, <2>5
    <3> QED
      BY <2>1, <3>1 DEF ReadTo
  <2> QED
    BY <2>1, <2>5, <2>6 DEF StreamInv
<1>4. CASE \/ Stored \/ Uncompress \/ EndOfInput \/ LiteralTag \/ LiteralPiece \/ LiteralEnd \/ CopyTag
  <2>1. /\ left' = left /\ file' = file /\ phase' \notin {"next", "block", "refused"}
        /\ left = 0 \/ phase \notin {"next", "block", "refused"}
    BY <1>4 DEF Stored, Uncompress, EndOfInput, LiteralTag, LiteralPiece, LiteralEnd, CopyTag, TagIn, Fail
  <2> QED
    BY <2>1 DEF StreamInv
<1>5. CASE UNCHANGED vars
  BY <1>5 DEF vars, codecVars, fragmentVars, StreamInv, ReadTo, N
<1> QED
  BY <1>1, <1>2, <1>3, <1>4, <1>5 DEF Next

-----------------------------------------------------------------------------
(* How long the codes are. A copy's three bytes stand for four at least;   *)
(* a literal has up to three more than its own.                            *)
LEMMA LiteralSize ==
  ASSUME NEW item \in SmallItems, item.kind = "literal"
  PROVE  /\ Len(EncodeItem(item)) \in Nat /\ Len(item.bytes) \in Nat /\ Len(item.bytes) >= 1
         /\ 6 * Len(EncodeItem(item)) <= 7 * Len(item.bytes) + 5
         /\ Len(item.bytes) >= 6 => 6 * Len(EncodeItem(item)) <= 7 * Len(item.bytes)
<1> DEFINE b == item.bytes
           n == Len(b)
           t == LengthTrailers(n)
           c == EncodeLiteral(b)
           lc == Len(c)
<1>1. EncodeItem(item) = c
  BY DEF EncodeItem
<1>2. b \in Seq(Bytes) /\ 1 <= n /\ n <= BlockSize
  BY SmallItem
<1>3. CodeOfLiteral(c, b, t)
  BY <1>2, LiteralCode
<1>4. lc = 1 + t + n /\ t \in 0 .. 2 /\ n \in Nat
  BY <1>2, <1>3 DEF CodeOfLiteral
<1>5. t = IF n <= 60 THEN 0 ELSE LengthBytes(n - 1)
  BY DEF LengthTrailers
<1>6. n <= 60 => t = 0
  BY <1>5
<1>7. n <= 256 => t <= 1
  <2> HIDE DEF n, t
  <2>1. n <= 256 => n - 1 < 256
    BY <1>4
  <2> QED
    BY <1>4, <1>5, <2>1 DEF LengthBytes
<1> HIDE DEF b, n, t, c, lc
<1>8. 6 * lc <= 7 * n + 5 /\ (n >= 6 => 6 * lc <= 7 * n) /\ lc \in Nat
  BY <1>2, <1>4, <1>6, <1>7
<1> QED
  BY <1>1, <1>2, <1>4, <1>8 DEF b, n, lc

(* A copy takes two bytes, or three, and stands for enough to make up for  *)
(* them.                                                                   *)
LEMMA CopySize ==
  ASSUME NEW item \in SmallItems, item.kind = "copy"
  PROVE  /\ Len(EncodeItem(item)) \in Nat
         /\ 6 * Len(EncodeItem(item)) + 10 <= 7 * item.len
<1> DEFINE c == EncodeCopy(item.offset, item.len)
           lc == Len(c)
           n == item.len
<1>1. EncodeItem(item) = c
  BY DEF EncodeItem
<1>2. n \in 4 .. 64 /\ item.offset \in Nat /\ 0 < item.offset /\ item.offset < BlockSize
  BY SmallItem
<1>3. CodeOfCopy(c, item.offset, n)
  <2> HIDE DEF c
  <2>1. CodeOfCopy(EncodeCopy(item.offset, n), item.offset, n)
    <3> DEFINE o == item.offset
    <3>1. o \in Nat /\ 0 < o /\ o < BlockSize
      BY <1>2
    <3> HIDE DEF o, n
    <3>2. CodeOfCopy(EncodeCopy(o, n), o, n)
      BY <1>2, <3>1, CopyCode
    <3> QED
      BY <3>2 DEF o
  <2> QED
    BY <2>1 DEF c
<1>4. lc = 1 + Trailers(c[1]) /\ Trailers(c[1]) \in 1 .. 2
  BY <1>3 DEF CodeOfCopy
<1>5. lc \in Nat /\ lc <= 3
  <2> HIDE DEF c, lc
  <2> QED
    BY <1>4
<1> HIDE DEF c, lc, n
<1>6. 6 * lc + 10 <= 7 * n
  BY <1>2, <1>5
<1> QED
  BY <1>1, <1>5, <1>6 DEF lc, n

(* The size of a code.                                                     *)
LEMMA EncodeSizeType ==
  ASSUME NEW items \in Seq(SmallItems)
  PROVE  Len(Encode(items)) \in Nat
<1>1. Encode(items) \in Seq(Bytes)
  BY EncodeType
<1> QED
  BY <1>1

(* Sizes add up.                                                           *)
LEMMA EncodeConcatSize ==
  ASSUME NEW items \in Seq(SmallItems), NEW more \in Seq(SmallItems)
  PROVE  Len(Encode(items \o more)) = Len(Encode(items)) + Len(Encode(more))
<1>1. Encode(items) \in Seq(Bytes) /\ Encode(more) \in Seq(Bytes)
  BY EncodeType
<1>2. Encode(items \o more) = Encode(items) \o Encode(more)
  BY EncodeConcat
<1> QED
  BY <1>1, <1>2, Join

(* An item more.                                                           *)
LEMMA EncodeAppendSize ==
  ASSUME NEW items \in Seq(SmallItems), NEW item \in SmallItems
  PROVE  Len(Encode(Append(items, item))) = Len(Encode(items)) + Len(EncodeItem(item))
<1>1. Encode(items) \in Seq(Bytes) /\ EncodeItem(item) \in Seq(Bytes)
  BY EncodeType, ItemCode
<1>2. Encode(Append(items, item)) = Encode(items) \o EncodeItem(item)
  BY EncodeAppend
<1> QED
  BY <1>1, <1>2, Join

(* The copies of a match.                                                  *)
LEMMA CopiesSize ==
  ASSUME NEW offset \in Nat \ {0}, offset < BlockSize, NEW len \in Nat, len >= 4
  PROVE  6 * Len(Encode(EmitCopy(offset, len))) + 10 <= 7 * len
<1> DEFINE more == EmitCopy(offset, len)
           m == Len(more)
<1>1. more \in Seq(SmallItems)
  BY CopiesSmall
<1>2. PICK cut : Cuts(cut, more, offset, len)
  BY EmitCopyCuts
<1>m. more = EmitCopy(offset, len)
  OBVIOUS
<1> HIDE DEF more
<1>3. PICK e : Codes(e, more) /\ Encode(more) = e[m]
  BY <1>1, EncodeSteps
<1>4. m \in Nat
  BY <1>1
<1>5. /\ \A i \in 0 .. m : cut[i] \in Nat
      /\ cut[0] = 0 /\ cut[m] = len
      /\ \A i \in 1 .. m : more[i] = Copy(offset, cut[i] - cut[i - 1])
  <2>1. cut \in [0 .. m -> 0 .. len] /\ cut[0] = 0 /\ cut[m] = len
    BY <1>2 DEF Cuts
  <2>2. \A i \in 1 .. m : more[i] = Copy(offset, cut[i] - cut[i - 1])
    BY <1>2 DEF Cuts
  <2>3. \A i \in 0 .. m : cut[i] \in Nat
    <3>1. \A x \in 0 .. len : x \in Nat
      OBVIOUS
    <3> HIDE DEF m
    <3> QED
      BY <2>1, <3>1
  <2> QED
    BY <2>1, <2>2, <2>3
<1>6. /\ \A i \in 0 .. m : e[i] \in Seq(Bytes)
      /\ e[0] = <<>>
      /\ \A i \in 1 .. m : e[i] = e[i - 1] \o EncodeItem(more[i])
  BY <1>3 DEF Codes
<1> DEFINE T == {i \in 0 .. m : 6 * Len(e[i]) + 10 * i <= 7 * cut[i]}
<1>7. 0 \in T
  <2>1. Len(e[0]) = 0
    BY <1>6
  <2> QED
    BY <1>4, <1>5, <2>1
<1>8. ASSUME NEW i \in 1 .. m, i - 1 \in T
      PROVE  i \in T
  <2> DEFINE x == e[i - 1]
             y == EncodeItem(more[i])
             lx == Len(x)
             ly == Len(y)
             le == Len(e[i])
             a == cut[i - 1]
             b == cut[i]
  <2>1. i \in 0 .. m /\ i - 1 \in 0 .. m /\ i \in Nat
    BY <1>4
  <2>2. x \in Seq(Bytes) /\ e[i] = x \o y /\ a \in Nat /\ b \in Nat /\ more[i] = Copy(offset, b - a)
    BY <1>5, <1>6, <2>1
  <2>3. more[i] \in SmallItems
    BY <1>1, <1>4
  <2>4. more[i].kind = "copy" /\ more[i].len = b - a
    BY <2>2 DEF Copy
  <2>5. ly \in Nat /\ 6 * ly + 10 <= 7 * (b - a)
    <3>1. Len(EncodeItem(more[i])) \in Nat /\ 6 * Len(EncodeItem(more[i])) + 10 <= 7 * more[i].len
      BY <2>3, <2>4, CopySize
    <3> QED
      BY <2>4, <3>1
  <2>6. le = lx + ly /\ lx \in Nat
    <3>1. y \in Seq(Bytes)
      BY <2>3, ItemCode
    <3> QED
      BY <2>2, <3>1, Join
  <2>7. 6 * lx + 10 * (i - 1) <= 7 * a
    BY <1>8
  <2> HIDE DEF x, y, lx, ly, le, a, b
  <2>8. 6 * le + 10 * i <= 7 * b
    BY <2>1, <2>2, <2>5, <2>6, <2>7
  <2> QED
    BY <2>1, <2>8 DEF le, b
<1>9. m \in T
  <2>1. \A i \in 1 .. m : i - 1 \in T => i \in T
    BY <1>8
  <2> HIDE DEF T
  <2>2. \A i \in 0 .. m : i \in T
    BY <1>4, <1>7, <2>1, UpTo
  <2> QED
    BY <1>4, <2>2
<1>10. m > 0
  <2>1. m # 0
    BY <1>5
  <2> HIDE DEF m
  <2> QED
    BY <1>4, <2>1
<1> DEFINE s == Len(Encode(more))
<1>11. 6 * s + 10 * m <= 7 * len
  BY <1>3, <1>5, <1>9
<1>12. s \in Nat
  BY <1>1, EncodeSizeType
<1> HIDE DEF s, m
<1>13. 6 * s + 10 <= 7 * len
  BY <1>4, <1>10, <1>11, <1>12
<1> QED
  BY <1>13, <1>m DEF s

-----------------------------------------------------------------------------
(* What compress_fragment has emitted, against what it stands for. A copy  *)
(* is at least ten sixths shorter than seven sixths of what it stands for, *)
(* which pays for the literal before it.                                   *)
EmittedSize == Len(Encode(out))

FragmentSize ==
  /\ pc \in {"idle", "start"} => out = <<>> /\ next_emit = 0
  /\ pc \in {"scan", "remainder"} =>
       (next_emit = 0 /\ EmittedSize = 0) \/ 6 * EmittedSize + 5 <= 7 * next_emit
  /\ pc = "copy" => 6 * EmittedSize <= 7 * ip + 5
  /\ pc = "done" =>
       6 * EmittedSize <= 7 * N + 5 /\ (N >= 6 => 6 * EmittedSize <= 7 * N)

(* One literal more, of the bytes from p to q.                             *)
LEMMA LiteralMoreSize ==
  ASSUME IInv, SmallBlock, NEW p \in Nat, NEW q \in Nat, p < q, q <= N,
         NEW e, e = Len(Encode(Append(out, Literal(p, q))))
  PROVE  /\ e \in Nat /\ EmittedSize \in Nat
         /\ 6 * e <= 6 * EmittedSize + 7 * (q - p) + 5
         /\ q - p >= 6 => 6 * e <= 6 * EmittedSize + 7 * (q - p)
<1> DEFINE item == Literal(p, q)
           ly == Len(EncodeItem(item))
           n == Len(item.bytes)
<1>1. N <= BlockSize /\ out \in Seq(SmallItems)
  BY DEF SmallBlock
<1>2. item \in SmallItems /\ item.kind = "literal" /\ n = q - p
  BY <1>1, LiteralSmall
<1>3. ly \in Nat /\ n \in Nat /\ 6 * ly <= 7 * n + 5 /\ (n >= 6 => 6 * ly <= 7 * n)
  BY <1>2, LiteralSize
<1>4. e = EmittedSize + ly
  BY <1>1, <1>2, EncodeAppendSize DEF EmittedSize
<1>5. EmittedSize \in Nat
  BY <1>1, EncodeSizeType DEF EmittedSize
<1> HIDE DEF item, ly, n
<1> QED
  BY <1>2, <1>3, <1>4, <1>5

(* A call has emitted nothing yet.                                         *)
LEMMA BeginSize ==
  ASSUME NEW block, Begin(block)
  PROVE  FragmentSize'
BY DEF Begin, FragmentSize

(* Every step of compress_fragment keeps what it has emitted small.        *)
LEMMA StepSize ==
  ASSUME HashInRange, IInv, SmallBlock, FragmentSize, Step
  PROVE  FragmentSize'
<1>1. /\ N' = N /\ N \in Nat /\ N <= BlockSize /\ out \in Seq(SmallItems)
      /\ next_emit \in Nat /\ next_emit <= N /\ EmittedSize \in Nat
  <2>1. input' = input
    BY DEF Step, Start, Scan, CopyMatch, Remainder
  <2>2. N \in Nat
    BY Sizes DEF IInv
  <2> QED
    BY <2>1, <2>2, EncodeSizeType DEF N, SmallBlock, IInv, EmittedSize
<1> HIDE DEF N
<1>2. CASE Start
  <2>1. /\ pc = "start" /\ out' = out /\ next_emit' = next_emit /\ pc' \in {"scan", "remainder"}
    BY <1>2 DEF Start, ScanFrom
  <2>2. out = <<>> /\ next_emit = 0
    BY <2>1 DEF FragmentSize
  <2>3. EmittedSize' = 0 /\ next_emit' = 0
    BY <2>1, <2>2, EncodeNothing DEF EmittedSize
  <2> QED
    BY <2>1, <2>3 DEF FragmentSize
<1>3. CASE Scan
  <2>1. /\ pc = "scan" /\ next_emit' = next_emit /\ ip' = next_ip
        /\ \/ pc' \in {"scan", "remainder"} /\ out' = out
           \/ pc' = "copy" /\ out' = Append(out, Literal(next_emit, next_ip))
    BY <1>3 DEF Scan
  <2>2. next_ip \in Nat /\ next_emit < next_ip /\ next_ip <= N
    <3>1. next_ip \in Nat /\ next_emit < next_ip /\ next_ip <= Limit + 1 /\ Limit \in Int /\ Limit + 15 <= N
      BY <2>1, Sizes DEF IInv, Scanning
    <3> QED
      BY <1>1, <3>1
  <2>3. (next_emit = 0 /\ EmittedSize = 0) \/ 6 * EmittedSize + 5 <= 7 * next_emit
    BY <2>1 DEF FragmentSize
  <2>4. CASE pc' \in {"scan", "remainder"} /\ out' = out
    <3>1. EmittedSize' = EmittedSize
      BY <2>4 DEF EmittedSize
    <3> QED
      BY <2>1, <2>3, <2>4, <3>1 DEF FragmentSize
  <2>5. CASE pc' = "copy" /\ out' = Append(out, Literal(next_emit, next_ip))
    <3>1. EmittedSize' = Len(Encode(Append(out, Literal(next_emit, next_ip))))
      BY <2>5 DEF EmittedSize
    <3> DEFINE e == EmittedSize
               f == EmittedSize'
    <3>2. f \in Nat /\ 6 * f <= 6 * e + 7 * (next_ip - next_emit) + 5
      <4> HIDE DEF f
      <4> QED
        BY <1>1, <2>2, <3>1, LiteralMoreSize DEF f
    <3>3. e \in Nat /\ ((next_emit = 0 /\ e = 0) \/ 6 * e + 5 <= 7 * next_emit)
      BY <1>1, <2>3
    <3> HIDE DEF e, f
    <3>4. 6 * f <= 7 * next_ip + 5
      BY <1>1, <2>2, <3>2, <3>3
    <3> QED
      BY <2>1, <2>5, <3>4 DEF FragmentSize, f
  <2> QED
    BY <2>1, <2>4, <2>5
<1>4. CASE CopyMatch
  <2> DEFINE matched == 4 + MatchLength(candidate + 4, ip + 4)
             copies == EmitCopy(ip - candidate, matched)
             end == ip + matched
  <2>1. /\ out' = out \o copies /\ pc = "copy" /\ next_emit' = end
        /\ pc' \in {"copy", "scan", "remainder"} /\ (pc' = "copy" => ip' = end)
    BY <1>4 DEF CopyMatch, ScanFrom
  <2>2. /\ ip \in Nat /\ ip < Limit /\ candidate \in Nat /\ candidate < ip
        /\ Four(candidate) = Four(ip) /\ input \in Seq(Bytes)
        /\ Limit \in Int /\ Limit + 15 <= N
    BY <2>1, Sizes DEF IInv, Copying
  <2>3. ip + 4 <= N
    BY <1>1, <2>2
  <2>4. matched \in Nat /\ matched >= 4
    <3>1. MatchLength(candidate + 4, ip + 4) \in 0 .. N - (ip + 4)
      BY <2>2, <2>3, WholeMatch
    <3> QED
      BY <1>1, <2>2, <2>3, <3>1
  <2> HIDE DEF matched
  <2>5. ip - candidate \in Nat \ {0} /\ ip - candidate < BlockSize
    BY <1>1, <2>2, <2>3, BlockIs
  <2> DEFINE e == EmittedSize
             f == EmittedSize'
             c == Len(Encode(copies))
  <2>6. f = e + c /\ c \in Nat
    <3>1. copies \in Seq(SmallItems)
      BY <2>4, <2>5, CopiesSmall
    <3> HIDE DEF copies
    <3> QED
      BY <1>1, <2>1, <3>1, EncodeConcatSize, EncodeSizeType DEF EmittedSize
  <2>7. 6 * c + 10 <= 7 * matched
    BY <2>4, <2>5, CopiesSize
  <2>8. e \in Nat /\ 6 * e <= 7 * ip + 5
    BY <1>1, <2>1 DEF FragmentSize
  <2> HIDE DEF e, f, c
  <2>9. 6 * f + 5 <= 7 * end /\ 6 * f <= 7 * end + 5
    BY <2>2, <2>4, <2>6, <2>7, <2>8
  <2> HIDE DEF end
  <2> QED
    BY <2>1, <2>9 DEF FragmentSize, f
<1>5. CASE Remainder
  <2>1. /\ pc = "remainder" /\ pc' = "done"
        /\ out' = IF next_emit < N THEN Append(out, Literal(next_emit, N)) ELSE out
    BY <1>5 DEF Remainder
  <2> DEFINE e == EmittedSize
             f == EmittedSize'
  <2>2. e \in Nat /\ ((next_emit = 0 /\ e = 0) \/ 6 * e + 5 <= 7 * next_emit)
    BY <1>1, <2>1 DEF FragmentSize
  <2>3. CASE next_emit < N
    <3>1. f = Len(Encode(Append(out, Literal(next_emit, N))))
      BY <2>1, <2>3 DEF EmittedSize
    <3>2. f \in Nat /\ 6 * f <= 6 * e + 7 * (N - next_emit) + 5
          /\ (N - next_emit >= 6 => 6 * f <= 6 * e + 7 * (N - next_emit))
      <4> HIDE DEF f
      <4>1. N <= N
        BY <1>1
      <4> QED
        BY <1>1, <2>3, <3>1, <4>1, LiteralMoreSize
    <3> HIDE DEF e, f
    <3>3. 6 * f <= 7 * N + 5 /\ (N >= 6 => 6 * f <= 7 * N)
      BY <1>1, <2>2, <2>3, <3>2
    <3> QED
      BY <1>1, <2>1, <3>3 DEF FragmentSize, f
  <2>4. CASE ~ (next_emit < N)
    <3>1. f = e
      BY <2>1, <2>4 DEF EmittedSize
    <3>2. next_emit = N
      BY <1>1, <2>4
    <3> HIDE DEF e, f
    <3>3. 6 * f <= 7 * N + 5 /\ (N >= 6 => 6 * f <= 7 * N)
      BY <1>1, <2>2, <3>1, <3>2
    <3> QED
      BY <1>1, <2>1, <3>3 DEF FragmentSize, f
  <2> QED
    BY <2>3, <2>4
<1> QED
  BY <1>2, <1>3, <1>4, <1>5 DEF Step

(* What has been appended to the sink: the length of the file, in up to    *)
(* five bytes, and whole blocks, of which only the last may be shorter.    *)
SinkSize ==
  /\ left > 0 => 6 * Len(sink) <= 30 + 7 * (Len(file) - left)
  /\ left = 0 => 6 * Len(sink) <= 35 + 7 * Len(file)

SizeInv == FragmentSize /\ SinkSize

(* At the start the length is all there is.                                *)
LEMMA InitSize == CodecInit => SizeInv
<1> SUFFICES ASSUME CodecInit
             PROVE  SizeInv
  OBVIOUS
<1>1. pc = "idle" /\ out = <<>> /\ next_emit = 0
  BY DEF CodecInit, Init
<1>2. file \in Seq(Bytes)
  BY CodecInitHolds DEF CompressorInv
<1> DEFINE l == Len(file)
           s == Len(sink)
<1>3. left = l /\ l \in Nat
  BY <1>2 DEF CodecInit
<1>4. s = VarintLength(l) /\ VarintLength(l) \in 1 .. 5
  <2>1. sink = Varint(l)
    BY DEF CodecInit
  <2> HIDE DEF l
  <2> QED
    BY <1>3, <2>1, VarintType, VarintLengthIs
<1> HIDE DEF l, s
<1>5. 6 * s <= 30 + 7 * (l - left) /\ 6 * s <= 35 + 7 * l
  BY <1>3, <1>4
<1>6. SinkSize
  BY <1>5 DEF SinkSize, l, s
<1>7. FragmentSize
  BY <1>1 DEF FragmentSize
<1> QED
  BY <1>6, <1>7 DEF SizeInv

(* Every step keeps the sink small.                                        *)
LEMMA SizeStep ==
  ASSUME HashInRange, CompressorInv, StreamInv, SizeInv, [Next]_vars
  PROVE  SizeInv'
<1>1. IInv /\ SmallBlock /\ FragmentSize /\ SinkSize
  BY DEF CompressorInv, SizeInv
<1>2. CASE NextBlock
  <2>1. left' = left /\ sink' = sink /\ file' = file
        /\ (UNCHANGED fragmentVars \/ \E block \in Seq(Bytes) : Begin(block))
    BY <1>2, NextBlockBegins DEF NextBlock, CompressorInv
  <2>2. SinkSize'
    BY <1>1, <2>1 DEF SinkSize
  <2>3. FragmentSize'
    <3>1. CASE UNCHANGED fragmentVars
      BY <1>1, <3>1 DEF FragmentSize, fragmentVars, EmittedSize, N
    <3>2. CASE \E block \in Seq(Bytes) : Begin(block)
      BY <3>2, BeginSize
    <3> QED
      BY <2>1, <3>1, <3>2
  <2> QED
    BY <2>2, <2>3 DEF SizeInv
<1>3. CASE CompressFragment
  <2>1. Step /\ UNCHANGED codecVars
    BY <1>3 DEF CompressFragment
  <2>2. FragmentSize'
    BY <1>1, <2>1, StepSize
  <2>3. SinkSize'
    BY <1>1, <2>1 DEF SinkSize, codecVars
  <2> QED
    BY <2>2, <2>3 DEF SizeInv
<1>4. CASE AppendBlock
  <2>1. /\ phase = "block" /\ pc = "done" /\ UNCHANGED fragmentVars /\ file' = file
        /\ sink' = sink \o Encode(out) /\ left' = left - N
    BY <1>4 DEF AppendBlock
  <2>2. FragmentSize'
    BY <1>1, <2>1 DEF FragmentSize, fragmentVars, EmittedSize, N
  <2> DEFINE s == Len(sink)
             t == Len(sink')
             e == EmittedSize
             l == Len(file)
  <2>3. t = s + e /\ s \in Nat /\ e \in Nat
    <3>1. sink \in Seq(Bytes) /\ Encode(out) \in Seq(Bytes)
      BY <1>1, EncodeType DEF CompressorInv, SmallBlock
    <3> QED
      BY <2>1, <3>1, Join DEF EmittedSize
  <2>4. /\ left \in Nat /\ left > 0 /\ left <= l /\ N = Smaller(left, BlockSize) /\ l \in Nat
    BY <2>1 DEF StreamInv, CompressorInv
  <2>5. N \in Nat /\ N <= left /\ (N < left => N >= 6)
    BY <2>4, BlockIs DEF Smaller
  <2>6. 6 * e <= 7 * N + 5 /\ (N >= 6 => 6 * e <= 7 * N)
    BY <1>1, <2>1 DEF FragmentSize
  <2>7. 6 * s <= 30 + 7 * (l - left)
    BY <1>1, <2>4 DEF SinkSize
  <2> DEFINE r == left'
  <2>8. r = left - N
    BY <2>1
  <2> HIDE DEF s, t, e, l, N, r
  <2>9. /\ r > 0 => 6 * t <= 30 + 7 * (l - r)
        /\ r = 0 => 6 * t <= 35 + 7 * l
    BY <2>3, <2>4, <2>5, <2>6, <2>7, <2>8
  <2>10. SinkSize'
    BY <2>1, <2>9 DEF SinkSize, t, l, r
  <2> QED
    BY <2>2, <2>10 DEF SizeInv
<1>5. CASE \/ Stored \/ Uncompress \/ EndOfInput \/ LiteralTag \/ LiteralPiece \/ LiteralEnd \/ CopyTag
  <2>1. left' = left /\ file' = file /\ sink' = sink /\ UNCHANGED fragmentVars
    BY <1>5 DEF Stored, Uncompress, EndOfInput, LiteralTag, LiteralPiece, LiteralEnd, CopyTag
  <2> QED
    BY <1>1, <2>1 DEF SizeInv, SinkSize, FragmentSize, fragmentVars, EmittedSize, N
<1>6. CASE UNCHANGED vars
  BY <1>1, <1>6 DEF vars, codecVars, SizeInv, SinkSize, FragmentSize, fragmentVars, EmittedSize, N
<1> QED
  BY <1>2, <1>3, <1>4, <1>5, <1>6 DEF Next

(* Seven sixths and a few bytes more are within what                       *)
(* snappy_max_compressed_length gives.                                     *)
LEMMA WithinCompressedLength ==
  ASSUME NEW n \in Nat, NEW x \in Nat, 6 * x <= 7 * n + 130
  PROVE  x <= MaxCompressedLength(n)
<1> DEFINE q == n \div 6
           r == n % 6
<1>1. q \in Nat /\ r \in 0 .. 5 /\ n = 6 * q + r
  OBVIOUS
<1>2. MaxCompressedLength(n) = 32 + n + q
  BY DEF MaxCompressedLength
<1> HIDE DEF q, r
<1>3. x <= 32 + n + q
  BY <1>1
<1> QED
  BY <1>2, <1>3

(* The sizes are within the bound.                                         *)
LEMMA InvSizeBounded ==
  ASSUME CompressorInv, StreamInv, SizeInv
  PROVE  SizeBounded
<1> DEFINE ahead == IF pc = "copy" /\ out # <<>> /\ Last(out).kind = "literal" /\ Len(Last(out).bytes) <= 16
                    THEN 16 - Len(Last(out).bytes) ELSE 0
           e == EmittedSize
           written == e + ahead
           s == Len(sink)
           l == Len(file)
<1>1. /\ IInv /\ out \in Seq(SmallItems) /\ sink \in Seq(Bytes) /\ file \in Seq(Bytes)
      /\ FragmentSize /\ SinkSize
  BY DEF CompressorInv, SmallBlock, SizeInv
<1>2. N \in Nat /\ next_emit \in 0 .. N /\ e \in Nat /\ s \in Nat /\ l \in Nat
  BY <1>1, Sizes, EncodeSizeType DEF IInv, EmittedSize
<1>3. ahead \in Nat /\ ahead <= 15 /\ (pc # "copy" => ahead = 0)
  <2>1. CASE pc = "copy" /\ out # <<>> /\ Last(out).kind = "literal" /\ Len(Last(out).bytes) <= 16
    <3>1. Last(out) \in SmallItems
      <4>1. Len(out) \in 1 .. Len(out)
        <5>1. Len(out) \in Nat /\ Len(out) # 0
          BY <1>1, <2>1
        <5> QED
          BY <5>1
      <4> QED
        BY <1>1, <4>1 DEF Last
    <3> DEFINE n == Len(Last(out).bytes)
    <3>2. n \in Nat /\ n >= 1
      BY <2>1, <3>1, SmallItem
    <3>3. n <= 16 /\ ahead = 16 - n
      BY <2>1
    <3> HIDE DEF n, ahead
    <3> QED
      BY <2>1, <3>2, <3>3
  <2>2. CASE ~ (pc = "copy" /\ out # <<>> /\ Last(out).kind = "literal" /\ Len(Last(out).bytes) <= 16)
    <3>1. ahead = 0
      BY <2>2
    <3> HIDE DEF ahead
    <3> QED
      BY <3>1
  <2> QED
    BY <2>1, <2>2
<1>4. pc = "copy" => ip \in Nat /\ ip <= N
  <2>1. pc = "copy" => ip \in Nat /\ ip < Limit /\ Limit \in Int /\ Limit + 15 <= N
    BY <1>1, Sizes DEF IInv, Copying
  <2> HIDE DEF N, Limit
  <2> QED
    BY <1>2, <2>1
<1>5. /\ pc \in {"idle", "start"} => e = 0
      /\ pc \in {"scan", "remainder"} => e = 0 \/ 6 * e + 5 <= 7 * next_emit
      /\ pc = "copy" => 6 * e <= 7 * ip + 5
      /\ pc = "done" => 6 * e <= 7 * N + 5
  <2>1. out = <<>> => e = 0
    BY EncodeNothing DEF EmittedSize
  <2> QED
    BY <1>1, <2>1 DEF FragmentSize
<1>6. pc \in {"idle", "start", "scan", "copy", "remainder", "done"}
  BY <1>1 DEF IInv
<1> HIDE DEF ahead, e, s, l, N
<1>7. 6 * written <= 7 * N + 95 /\ written \in Nat
  BY <1>2, <1>3, <1>4, <1>5, <1>6
<1> HIDE DEF written
<1>8. written <= MaxCompressedLength(N)
  <2>1. 6 * written <= 7 * N + 130
    BY <1>2, <1>7
  <2> QED
    BY <1>2, <1>7, <2>1, WithinCompressedLength
<1>9. left \in Nat /\ left <= l /\ (left > 0 => 6 * s <= 30 + 7 * (l - left)) /\ (left = 0 => 6 * s <= 35 + 7 * l)
  BY <1>1 DEF StreamInv, SinkSize, s, l
<1>10. CASE phase = "block"
  <2>1. left > 0 /\ N = Smaller(left, BlockSize)
    BY <1>10 DEF StreamInv
  <2>2. N <= left
    BY <1>9, <2>1, BlockIs DEF Smaller
  <2>3. 6 * (s + written) <= 7 * l + 130 /\ s + written \in Nat
    BY <1>2, <1>7, <1>9, <2>1, <2>2
  <2>4. s + written <= MaxCompressedLength(l)
    BY <1>2, <2>3, WithinCompressedLength
  <2> QED
    BY <1>8, <1>10, <2>4 DEF SizeBounded, written, ahead, e, s, l, EmittedSize
<1>11. CASE phase # "block"
  <2>1. 6 * s <= 7 * l + 130
    BY <1>2, <1>9
  <2>2. s <= MaxCompressedLength(l)
    BY <1>2, <2>1, WithinCompressedLength
  <2> QED
    BY <1>8, <1>11, <2>2 DEF SizeBounded, written, ahead, e, s, l, EmittedSize
<1> QED
  BY <1>10, <1>11

(* Where the compressor is in the file, however it is cut into pieces, and *)
(* how much it has written of it, at every step of both sides.             *)
THEOREM StreamAndSize ==
  ASSUME HashInRange
  PROVE  Spec => [](CompressorInv /\ DecoderInv /\ StreamInv /\ SizeInv)
<1>1. CodecInit => CompressorInv /\ DecoderInv /\ StreamInv /\ SizeInv
  BY CodecInitHolds, InitStream, InitSize
<1>2. CompressorInv /\ DecoderInv /\ StreamInv /\ SizeInv /\ [Next]_vars
      => CompressorInv' /\ DecoderInv' /\ StreamInv' /\ SizeInv'
  BY HashInRange, CompressorStep, DecoderStep, StreamStep, SizeStep
<1> QED
  BY <1>1, <1>2, PTL DEF Spec

(* The result never is longer than the buffer that                         *)
(* snappy_max_compressed_length has its callers allocate, at no moment of  *)
(* the compression and with what a literal of up to sixteen bytes writes   *)
(* ahead (compress, emit_literal).                                         *)
THEOREM CompressedSizeBounded ==
  ASSUME HashInRange
  PROVE  Spec => []SizeBounded
<1>1. CompressorInv /\ StreamInv /\ SizeInv => SizeBounded
  BY InvSizeBounded
<1> QED
  BY <1>1, StreamAndSize, HashInRange, PTL
=============================================================================
