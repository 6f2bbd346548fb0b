--------------------------- MODULE RoundTripProofs ---------------------------
(***************************************************************************)
(* For every file, cut into any pieces, and every hash function into the   *)
(* table: what compress makes of the file, the decoder makes the file of,  *)
(* a result that misses bytes, or has others behind it, included.          *)
(*                                                                         *)
(* The argument: what is in the sink is the length and the code of items   *)
(* that make the file (CodedInv).  The code of the k-th item has a place,  *)
(* and the decoder is at one of these places, or inside a literal as many  *)
(* bytes before the next one as it still owes (AtTag, InLiteral).  Where   *)
(* it is in what it was given follows from the piece it reads, what it has *)
(* skipped and the bytes in its window (WindowOf); refill_tag, which moves *)
(* all three, leaves the place alone.  So the window shows the code of the *)
(* item, its tag is read as that item, and what is written is the next     *)
(* part of the file (Right).  The items, their places and the pieces stay  *)
(* the same while the decoder runs, and are the witness of the invariant   *)
(* (Telling).                                                              *)
(***************************************************************************)
EXTENDS SnappyProofs

-----------------------------------------------------------------------------
(* What an item adds to the bytes that are there.                          *)
Added(bytes, item) ==
  IF item.kind = "literal" THEN item.bytes
  ELSE [k \in 1 .. item.len |-> bytes[Len(bytes) - item.offset + 1 + ((k - 1) % item.offset)]]

ItemLength(item) == IF item.kind = "literal" THEN Len(item.bytes) ELSE item.len

(* What an item adds is bytes, at least one, behind those that are there.  *)
LEMMA AddedType ==
  ASSUME NEW bytes \in Seq(Bytes), NEW item \in SmallItems, Reaches(bytes, item)
  PROVE  /\ Added(bytes, item) \in Seq(Bytes) /\ Len(Added(bytes, item)) = ItemLength(item)
         /\ ItemLength(item) \in Nat /\ ItemLength(item) >= 1
         /\ DecodeItem(bytes, item) = bytes \o Added(bytes, item)
<1>1. CASE item.kind = "literal"
  <2>1. Added(bytes, item) = item.bytes /\ ItemLength(item) = Len(item.bytes)
    BY <1>1 DEF Added, ItemLength
  <2>2. item.bytes \in Seq(Bytes) /\ 1 <= Len(item.bytes)
    BY <1>1, SmallItem
  <2>3. DecodeItem(bytes, item) = bytes \o item.bytes
    BY <1>1 DEF DecodeItem
  <2> QED
    BY <2>1, <2>2, <2>3
<1>2. CASE item.kind # "literal"
  <2> DEFINE o == item.offset
             n == item.len
             l == Len(bytes)
             x == [k \in 1 .. n |-> bytes[l - o + 1 + ((k - 1) % o)]]
  <2>1. Added(bytes, item) = x /\ ItemLength(item) = n /\ DecodeItem(bytes, item) = bytes \o x
    BY <1>2 DEF Added, ItemLength, DecodeItem
  <2>2. item.kind = "copy" /\ n \in 4 .. 64 /\ o \in Nat /\ 0 < o
    BY <1>2, SmallItem
  <2>3. o <= l /\ l \in Nat
    BY <2>2 DEF Reaches
  <2>l. l = Len(bytes)
    OBVIOUS
  <2> HIDE DEF o, n, l
  <2>4. ASSUME NEW k \in 1 .. n
        PROVE  bytes[l - o + 1 + ((k - 1) % o)] \in Bytes
    <3>1. k - 1 \in Nat
      BY <2>2
    <3>2. (k - 1) % o \in 0 .. o - 1
      BY <2>2, <3>1, ModRange
    <3> DEFINE r == (k - 1) % o
    <3> HIDE DEF r
    <3>3. l - o + 1 + r \in 1 .. l
      BY <2>2, <2>3, <3>2 DEF r
    <3>4. bytes[l - o + 1 + r] \in Bytes
      BY <2>l, <3>3
    <3> QED
      BY <3>4 DEF r
  <2>5. x = [k \in 1 .. n |-> x[k]] /\ \A k \in 1 .. n : x[k] \in Bytes
    BY <2>4
  <2> HIDE DEF x
  <2>6. x \in Seq(Bytes) /\ Len(x) = n
    <3>1. n \in Nat
      BY <2>2
    <3> QED
      BY <2>5, <3>1, MakeSeq
  <2>7. n \in Nat /\ n >= 1
    BY <2>2
  <2> QED
    BY <2>1, <2>6, <2>7
<1> QED
  BY <1>1, <1>2

(* Bytes before it do not matter to an item that does not reach them.      *)
LEMMA AddedBehind ==
  ASSUME NEW a \in Seq(Bytes), NEW x \in Seq(Bytes), NEW item \in SmallItems, Reaches(x, item)
  PROVE  Reaches(a \o x, item) /\ Added(a \o x, item) = Added(x, item)
<1> DEFINE y == a \o x
<1>1. /\ y \in Seq(Bytes) /\ Len(y) = Len(a) + Len(x)
      /\ \A k \in 1 .. Len(x) : y[Len(a) + k] = x[k]
  BY Join
<1>2. CASE item.kind = "literal"
  <2>1. item.kind # "copy"
    BY <1>2
  <2> QED
    BY <1>2, <2>1 DEF Added, Reaches
<1>3. CASE item.kind # "literal"
  <2> DEFINE o == item.offset
             n == item.len
             la == Len(a)
             lx == Len(x)
             ly == Len(y)
  <2>1. item.kind = "copy" /\ n \in 4 .. 64 /\ o \in Nat /\ 0 < o
    BY <1>3, SmallItem
  <2>2. o <= lx /\ lx \in Nat /\ la \in Nat /\ ly = la + lx
    BY <1>1, <2>1 DEF Reaches
  <2>3. \A k \in 1 .. lx : y[la + k] = x[k]
    BY <1>1
  <2>4. Added(y, item) = [k \in 1 .. n |-> y[ly - o + 1 + ((k - 1) % o)]]
        /\ Added(x, item) = [k \in 1 .. n |-> x[lx - o + 1 + ((k - 1) % o)]]
    BY <1>3 DEF Added
  <2> HIDE DEF y, o, n, la, lx, ly
  <2>5. ASSUME NEW k \in 1 .. n
        PROVE  y[ly - o + 1 + ((k - 1) % o)] = x[lx - o + 1 + ((k - 1) % o)]
    <3>1. k - 1 \in Nat
      BY <2>1
    <3> DEFINE r == (k - 1) % o
    <3>2. r \in 0 .. o - 1
      BY <2>1, <3>1, ModRange
    <3> HIDE DEF r
    <3>3. lx - o + 1 + r \in 1 .. lx /\ ly - o + 1 + r = la + (lx - o + 1 + r)
      BY <2>1, <2>2, <3>2
    <3>4. y[ly - o + 1 + r] = x[lx - o + 1 + r]
      BY <2>3, <3>3
    <3> QED
      BY <3>4 DEF r
  <2>6. Added(y, item) = Added(x, item)
    BY <2>4, <2>5
  <2>7. o <= ly
    BY <2>1, <2>2
  <2>8. Reaches(y, item)
    BY <2>7 DEF Reaches, o, ly
  <2> QED
    BY <2>6, <2>8 DEF y
<1> QED
  BY <1>2, <1>3

(* What the items make, one after the other.                               *)
Decodes(d, items) ==
  /\ d \in [0 .. Len(items) -> Seq(Bytes)]
  /\ d[0] = <<>>
  /\ \A k \in 1 .. Len(items) :
       Reaches(d[k - 1], items[k]) /\ d[k] = d[k - 1] \o Added(d[k - 1], items[k])

Make(items, bytes) == \E d : Decodes(d, items) /\ d[Len(items)] = bytes

(* What the compressor has shown of a block: the items make its bytes.     *)
LEMMA StandsForMake ==
  ASSUME NEW items \in Seq(SmallItems), NEW b, StandsFor(items, b)
  PROVE  Make(items, b)
<1> DEFINE n == Len(items)
<1>1. PICK d : Chain(d, items) /\ AllReach(d, items) /\ d[n] = b
  BY DEF StandsFor
<1>2. /\ d = [k \in 0 .. n |-> d[k]] /\ d[0] = <<>> /\ n \in Nat
      /\ \A k \in 1 .. n : d[k] = DecodeItem(d[k - 1], items[k])
      /\ \A k \in 1 .. n : Reaches(d[k - 1], items[k])
      /\ \A k \in 1 .. n : items[k] \in SmallItems
  BY <1>1 DEF Chain, AllReach
<1>n. n = Len(items)
  OBVIOUS
<1> HIDE DEF n
<1> DEFINE D == Seq(Bytes)
<1>3. d[0] \in D
  <2>1. <<>> \in Seq(Bytes)
    OBVIOUS
  <2> QED
    BY <1>2, <2>1
<1>4. \A i \in 1 .. n : d[i - 1] \in D => d[i] \in D
  <2>1. ASSUME NEW i \in 1 .. n, d[i - 1] \in D
        PROVE  d[i] \in D
    <3>1. /\ Added(d[i - 1], items[i]) \in Seq(Bytes)
          /\ DecodeItem(d[i - 1], items[i]) = d[i - 1] \o Added(d[i - 1], items[i])
      BY <1>2, <2>1, AddedType
    <3>2. d[i] = d[i - 1] \o Added(d[i - 1], items[i])
      <4>1. d[i] = DecodeItem(d[i - 1], items[i])
        BY <1>2
      <4> QED
        BY <3>1, <4>1
    <3>3. \A x, y \in Seq(Bytes) : x \o y \in Seq(Bytes)
      OBVIOUS
    <3>4. d[i - 1] \in Seq(Bytes)
      BY <2>1
    <3>5. d[i] \in Seq(Bytes)
      BY <3>1, <3>2, <3>3, <3>4
    <3> QED
      BY <3>5
  <2> QED
    BY <2>1
<1>5. \A i \in 0 .. n : d[i] \in D
  <2> HIDE DEF D
  <2> QED
    BY <1>2, <1>3, <1>4, StepsStay
<1>6. \A k \in 1 .. n : d[k] = d[k - 1] \o Added(d[k - 1], items[k])
  <2> SUFFICES ASSUME NEW k \in 1 .. n
               PROVE  d[k] = d[k - 1] \o Added(d[k - 1], items[k])
    OBVIOUS
  <2>1. k - 1 \in 0 .. n
    BY <1>2
  <2> QED
    BY <1>2, <1>5, <2>1, AddedType
<1>7. Decodes(d, items)
  BY <1>2, <1>5, <1>6, <1>n DEF Decodes
<1> QED
  BY <1>1, <1>7, <1>n DEF Make

(* No items make nothing.                                                  *)
LEMMA MakeNothing == Make(<<>>, <<>>)
<1> DEFINE d == [k \in 0 .. 0 |-> <<>>]
<1>1. Decodes(d, <<>>) /\ d[0] = <<>>
  BY DEF Decodes
<1> QED
  BY <1>1 DEF Make

(* Blocks are independent of each other: what comes behind is put behind.  *)
LEMMA MakeConcat ==
  ASSUME NEW items \in Seq(SmallItems), NEW more \in Seq(SmallItems), NEW a, NEW b,
         Make(items, a), Make(more, b)
  PROVE  Make(items \o more, a \o b)
<1>1. PICK e : Decodes(e, items) /\ e[Len(items)] = a
  BY DEF Make
<1>2. PICK c : Decodes(c, more) /\ c[Len(more)] = b
  BY DEF Make
<1> DEFINE l == Len(items)
           m == Len(more)
           all == items \o more
           g == [k \in 0 .. l + m |-> IF k <= l THEN e[k] ELSE a \o c[k - l]]
<1>3. /\ l \in Nat /\ m \in Nat /\ Len(all) = l + m /\ all \in Seq(SmallItems)
      /\ \A k \in 1 .. l : all[k] = items[k]
      /\ \A k \in 1 .. m : all[l + k] = more[k]
      /\ \A k \in 1 .. m : more[k] \in SmallItems
  OBVIOUS
<1>4. e \in [0 .. l -> Seq(Bytes)] /\ e[0] = <<>> /\ e[l] = a
      /\ \A k \in 1 .. l : Reaches(e[k - 1], items[k]) /\ e[k] = e[k - 1] \o Added(e[k - 1], items[k])
  BY <1>1 DEF Decodes
<1>5. c \in [0 .. m -> Seq(Bytes)] /\ c[0] = <<>> /\ c[m] = b
      /\ \A k \in 1 .. m : Reaches(c[k - 1], more[k]) /\ c[k] = c[k - 1] \o Added(c[k - 1], more[k])
  BY <1>2 DEF Decodes
<1>all. all = items \o more
  OBVIOUS
<1> HIDE DEF l, m, all
<1>6. l \in 0 .. l /\ a \in Seq(Bytes) /\ \A k \in 0 .. m : c[k] \in Seq(Bytes)
  BY <1>3, <1>4, <1>5
<1>7. \A k \in 0 .. l : g[k] = e[k]
  BY <1>3
<1>8. ASSUME NEW k \in 0 .. m
      PROVE  g[l + k] = a \o c[k]
  <2>1. CASE k = 0
    <3>1. l + k = l /\ c[k] = <<>> /\ g[l] = e[l]
      BY <1>3, <1>5, <1>6, <1>7, <2>1
    <3>2. a \o <<>> = a
      BY <1>6
    <3> QED
      BY <1>4, <3>1, <3>2
  <2>2. CASE k # 0
    <3>1. ~ (l + k <= l) /\ l + k \in 0 .. l + m /\ (l + k) - l = k
      BY <1>3, <2>2
    <3> QED
      BY <3>1
  <2> QED
    BY <2>1, <2>2
<1>9. g \in [0 .. l + m -> Seq(Bytes)]
  <2>1. ASSUME NEW k \in 0 .. l + m
        PROVE  g[k] \in Seq(Bytes)
    <3>1. CASE k <= l
      BY <1>3, <1>4, <1>7, <3>1
    <3>2. CASE ~ (k <= l)
      <4>1. k - l \in 0 .. m /\ l + (k - l) = k
        BY <1>3, <3>2
      <4>2. g[k] = a \o c[k - l]
        BY <1>8, <4>1
      <4>3. c[k - l] \in Seq(Bytes)
        BY <1>6, <4>1
      <4>4. \A x, y \in Seq(Bytes) : x \o y \in Seq(Bytes)
        OBVIOUS
      <4> QED
        BY <1>6, <4>2, <4>3, <4>4
    <3> QED
      BY <3>1, <3>2
  <2> QED
    BY <2>1
<1> HIDE DEF g
<1>10. ASSUME NEW k \in 1 .. l + m
       PROVE  Reaches(g[k - 1], all[k]) /\ g[k] = g[k - 1] \o Added(g[k - 1], all[k])
  <2>1. CASE k <= l
    <3>1. k \in 1 .. l /\ k - 1 \in 0 .. l /\ k \in 0 .. l
      BY <1>3, <2>1
    <3> QED
      BY <1>3, <1>4, <1>7, <3>1
  <2>2. CASE ~ (k <= l)
    <3>1. PICK j \in 1 .. m : k = l + j
      <4>1. k - l \in 1 .. m /\ l + (k - l) = k
        BY <1>3, <2>2
      <4> QED
        BY <4>1
    <3>2. j - 1 \in 0 .. m /\ j \in 0 .. m /\ k - 1 = l + (j - 1)
      BY <1>3, <3>1
    <3> DEFINE x == c[j - 1]
               y == Added(x, more[j])
    <3>3. g[k] = a \o c[j] /\ g[k - 1] = a \o x
      BY <1>8, <3>1, <3>2
    <3>4. c[j] = x \o y /\ all[k] = more[j] /\ Reaches(x, more[j]) /\ more[j] \in SmallItems
      BY <1>3, <1>5, <3>1
    <3>5. x \in Seq(Bytes)
      BY <1>6, <3>2
    <3>6. y \in Seq(Bytes)
      <4> HIDE DEF x
      <4> QED
        BY <3>4, <3>5, AddedType
    <3>7. a \o (x \o y) = (a \o x) \o y
      <4> HIDE DEF x, y
      <4> QED
        BY <1>6, <3>5, <3>6, JoinAssociates
    <3>8. Reaches(a \o x, more[j]) /\ Added(a \o x, more[j]) = y
      <4> HIDE DEF x
      <4> QED
        BY <1>6, <3>4, <3>5, AddedBehind
    <3> HIDE DEF x, y
    <3> QED
      BY <3>3, <3>4, <3>7, <3>8
  <2> QED
    BY <2>1, <2>2
<1>11. Decodes(g, all)
  <2>1. g[0] = <<>> /\ 0 \in 0 .. l
    BY <1>3, <1>4, <1>7
  <2> QED
    BY <1>3, <1>9, <1>10, <2>1 DEF Decodes
<1>12. g[l + m] = a \o b
  <2>1. m \in 0 .. m
    BY <1>3
  <2> QED
    BY <1>5, <1>8, <2>1
<1>13. Make(all, a \o b)
  BY <1>3, <1>11, <1>12 DEF Make
<1> QED
  BY <1>13, <1>all

-----------------------------------------------------------------------------
(* The sink holds the length of the file, and behind it the code of items  *)
(* that make what has been read of the file; a fragment that is done has   *)
(* been emitted to its end.                                                *)
Stands(items, n) ==
  /\ items \in Seq(SmallItems)
  /\ sink = Varint(Len(file)) \o Encode(items)
  /\ Make(items, SubSeq(file, 1, n))

EmittedAll == pc = "done" => next_emit = N

CodedInv ==
  /\ EmittedAll
  /\ \E items : Stands(items, Len(file) - left)

(* At the start the length is all there is in the sink.                    *)
LEMMA InitCoded == CodecInit => CodedInv
<1> SUFFICES ASSUME CodecInit
             PROVE  CodedInv
  OBVIOUS
<1>1. file \in Seq(Bytes)
  BY CodecInitHolds DEF CompressorInv
<1>2. left = Len(file) /\ sink = Varint(Len(file)) /\ pc = "idle"
  BY DEF CodecInit, Init
<1>3. Len(file) \in Nat
  BY <1>1
<1> DEFINE v == Varint(Len(file))
           none == <<>>
<1>4. v \in Seq(Bytes)
  BY <1>3, VarintType
<1>5. none \in Seq(SmallItems) /\ Encode(none) = <<>> /\ Make(none, <<>>)
  BY EncodeNothing, MakeNothing
<1>6. v \o <<>> = v
  <2> HIDE DEF v
  <2> QED
    BY <1>4
<1>7. SubSeq(file, 1, Len(file) - left) = <<>>
  <2>1. Len(file) - left = 0
    BY <1>2, <1>3
  <2>2. SubSeq(file, 1, 0) = <<>>
    BY <1>1, Nothing
  <2> QED
    BY <2>1, <2>2
<1>8. Stands(none, Len(file) - left)
  <2> HIDE DEF none
  <2> QED
    BY <1>2, <1>5, <1>6, <1>7 DEF Stands
<1> QED
  BY <1>2, <1>8 DEF CodedInv, EmittedAll

(* A block is appended: more items, more code, more of the file.           *)
LEMMA AppendBlockCoded ==
  ASSUME CompressorInv, StreamInv, CodedInv, AppendBlock
  PROVE  CodedInv'
<1>1. /\ phase = "block" /\ pc = "done" /\ UNCHANGED fragmentVars /\ file' = file
      /\ sink' = sink \o Encode(out) /\ left' = left - N
  BY DEF AppendBlock
<1>2. /\ IInv /\ file \in Seq(Bytes) /\ out \in Seq(SmallItems)
  BY DEF CompressorInv, SmallBlock
<1>3. /\ left \in Nat /\ left > 0 /\ left <= Len(file) /\ N = Smaller(left, BlockSize)
      /\ input = SubSeq(file, Len(file) - left + 1, Len(file) - left + N)
  BY <1>1 DEF StreamInv
<1>4. PICK items : Stands(items, Len(file) - left)
  BY DEF CodedInv
<1>5. items \in Seq(SmallItems) /\ sink = Varint(Len(file)) \o Encode(items)
      /\ Make(items, SubSeq(file, 1, Len(file) - left))
  BY <1>4 DEF Stands
<1>6. Make(out, input)
  <2>1. next_emit = N
    BY <1>1 DEF CodedInv, EmittedAll
  <2>2. StandsFor(out, SubSeq(input, 1, N)) /\ input \in Seq(Bytes)
    BY <1>1, <1>2, <2>1 DEF IInv, Emitted
  <2>3. SubSeq(input, 1, N) = input
    BY <2>2 DEF N
  <2>4. StandsFor(out, input)
    BY <2>2, <2>3
  <2> QED
    BY <1>2, <2>4, StandsForMake
<1> DEFINE a == Len(file) - left
           b == a + N
           v == Varint(Len(file))
           l == Len(file)
           n == N
<1>7. l \in Nat /\ n \in Nat /\ n <= left /\ left <= l
  BY <1>2, <1>3, BlockIs DEF Smaller
<1>8. a \in Nat /\ b \in Nat /\ 0 <= a /\ a <= b /\ b <= l /\ l - (left - n) = b
  <2> HIDE DEF l, n
  <2>1. l - left \in Nat /\ l - left + n \in Nat /\ l - left <= l - left + n /\ l - left + n <= l
        /\ l - (left - n) = l - left + n
    BY <1>3, <1>7
  <2> QED
    BY <2>1 DEF l, n
<1>9. SubSeq(file, 1, a) \o input = SubSeq(file, 1, b)
  <2>1. input = SubSeq(file, a + 1, b)
    BY <1>3
  <2> HIDE DEF a, b
  <2>2. SubSeq(file, 0 + 1, a) \o SubSeq(file, a + 1, b) = SubSeq(file, 0 + 1, b)
    <3>1. 0 \in Nat /\ b <= Len(file)
      BY <1>8
    <3> QED
      BY <1>2, <1>8, <3>1, Parts
  <2>3. 0 + 1 = 1
    OBVIOUS
  <2> QED
    BY <2>1, <2>2, <2>3
<1> DEFINE more == items \o out
<1>10. more \in Seq(SmallItems)
  BY <1>2, <1>5
<1>11. Make(more, SubSeq(file, 1, b))
  <2> DEFINE x == SubSeq(file, 1, a)
  <2>1. Make(items, x)
    BY <1>5
  <2> HIDE DEF x
  <2>2. Make(items \o out, x \o input)
    BY <1>2, <1>5, <1>6, <2>1, MakeConcat
  <2> QED
    BY <1>9, <2>2 DEF x
<1>12. sink' = v \o Encode(more)
  <2>1. v \in Seq(Bytes)
    BY <1>7, VarintType
  <2> DEFINE p == Encode(items)
             q == Encode(out)
  <2>2. p \in Seq(Bytes) /\ q \in Seq(Bytes)
    BY <1>2, <1>5, EncodeType
  <2>3. Encode(more) = p \o q
    BY <1>2, <1>5, EncodeConcat
  <2>4. sink' = (v \o p) \o q
    BY <1>1, <1>5
  <2> HIDE DEF v, p, q
  <2>5. \A x, y, z \in Seq(Bytes) : x \o (y \o z) = (x \o y) \o z
    OBVIOUS
  <2> QED
    BY <2>1, <2>2, <2>3, <2>4, <2>5
<1>13. ASSUME NEW m, m = more
       PROVE  Stands(m, Len(file) - left)'
  <2>1. Len(file') - left' = b
    BY <1>1, <1>8
  <2>2. Make(more, SubSeq(file', 1, Len(file') - left'))
    BY <1>1, <1>11, <2>1
  <2>3. sink' = Varint(Len(file')) \o Encode(more)
    BY <1>1, <1>12
  <2> HIDE DEF more
  <2>4. m \in Seq(SmallItems) /\ sink' = Varint(Len(file')) \o Encode(m)
        /\ Make(m, SubSeq(file', 1, Len(file') - left'))
    BY <1>10, <1>13, <2>2, <2>3
  <2> QED
    BY <2>4 DEF Stands
<1>14. EmittedAll'
  BY <1>1 DEF CodedInv, EmittedAll, fragmentVars, N
<1> QED
  BY <1>13, <1>14 DEF CodedInv

(* What is in the sink stays the code of items that make the file so far.  *)
LEMMA CodedStep ==
  ASSUME CompressorInv, StreamInv, CodedInv, [Next]_vars
  PROVE  CodedInv'
<1>1. CASE AppendBlock
  BY <1>1, AppendBlockCoded
<1>2. ASSUME UNCHANGED <<file, sink, left>>
      PROVE  (\E items : Stands(items, Len(file) - left))'
  BY <1>2 DEF CodedInv, Stands
<1>3. CASE NextBlock
  <2>1. UNCHANGED <<file, sink, left>> /\ (UNCHANGED fragmentVars \/ \E block \in Seq(Bytes) : Begin(block))
    BY <1>3, NextBlockBegins DEF NextBlock, CompressorInv
  <2>2. EmittedAll'
    BY <2>1 DEF CodedInv, EmittedAll, Begin, fragmentVars, N
  <2> QED
    BY <1>2, <2>1, <2>2 DEF CodedInv
<1>4. CASE CompressFragment
  <2>1. Step /\ UNCHANGED <<file, sink, left>>
    BY <1>4 DEF CompressFragment, codecVars
  <2>2. EmittedAll'
    BY <2>1 DEF EmittedAll, Step, Start, Scan, CopyMatch, Remainder, ScanFrom, N
  <2> QED
    BY <1>2, <2>1, <2>2 DEF CodedInv
<1>5. CASE \/ Stored \/ Uncompress \/ EndOfInput \/ LiteralTag \/ LiteralPiece \/ LiteralEnd \/ CopyTag
  <2>1. UNCHANGED <<file, sink, left>> /\ UNCHANGED fragmentVars
    BY <1>5 DEF Stored, Uncompress, EndOfInput, LiteralTag, LiteralPiece, LiteralEnd, CopyTag
  <2>2. EmittedAll'
    BY <2>1 DEF CodedInv, EmittedAll, fragmentVars, N
  <2> QED
    BY <1>2, <2>1, <2>2 DEF CodedInv
<1>6. CASE UNCHANGED vars
  <2>1. UNCHANGED <<file, sink, left>> /\ UNCHANGED fragmentVars
    BY <1>6 DEF vars, codecVars
  <2>2. EmittedAll'
    BY <2>1 DEF CodedInv, EmittedAll, fragmentVars, N
  <2> QED
    BY <1>2, <2>1, <2>2 DEF CodedInv
<1> QED
  BY <1>1, <1>3, <1>4, <1>5, <1>6 DEF Next

-----------------------------------------------------------------------------
(* Seven bits of a number, and the number of them.                         *)
Seven(n, i) == (n \div Sevens[i]) % 128

(* Seven bits of a number.                                                 *)
LEMMA SevenRange ==
  ASSUME NEW n \in Nat, NEW i \in 1 .. 5
  PROVE  Seven(n, i) \in 0 .. 127
<1>1. Sevens[i] \in Nat /\ Sevens[i] > 0
  BY SevensIs
<1> DEFINE s == Sevens[i]
<1> HIDE DEF s
<1>2. n \div s \in Int
  BY <1>1 DEF s
<1> DEFINE q == n \div s
<1> HIDE DEF q
<1>3. q % 128 \in 0 .. 127
  BY <1>2 DEF q
<1> QED
  BY <1>3 DEF Seven, q, s

(* A length that an int holds is the sum of its seven-bit digits.          *)
LEMMA SevensAddUp ==
  ASSUME NEW n \in Nat, n <= INT_MAX
  PROVE  /\ n = Seven(n, 1) + Sevens[2] * Seven(n, 2) + Sevens[3] * Seven(n, 3)
                + Sevens[4] * Seven(n, 4) + Sevens[5] * (Seven(n, 5) % 16)
<1>1. /\ Seven(n, 1) = n % 128 /\ Seven(n, 2) = (n \div 128) % 128
      /\ Seven(n, 3) = (n \div 16384) % 128 /\ Seven(n, 4) = (n \div 2097152) % 128
      /\ Seven(n, 5) = (n \div 268435456) % 128
  BY SMT DEF Seven, Sevens
<1> DEFINE a == n \div 128
           b == n \div 16384
           c == n \div 2097152
           d == n \div 268435456
<1>2. a \in Nat /\ n = 128 * a + (n % 128)
  BY SMT
<1>3. b \in Nat /\ a = 128 * b + (a % 128)
  BY SMT
<1>4. c \in Nat /\ b = 128 * c + (b % 128)
  BY SMT
<1>5. d \in Nat /\ c = 128 * d + (c % 128)
  BY SMT
<1>6. d < 8
  BY SMT DEF INT_MAX
<1> HIDE DEF a, b, c, d
<1>7. (d % 128) % 16 = d
  BY <1>5, <1>6, SMT
<1>8. n = (n % 128) + 128 * (a % 128) + 16384 * (b % 128) + 2097152 * (c % 128) + 268435456 * d
  BY <1>2, <1>3, <1>4, <1>5, SMT
<1>9. /\ Seven(n, 1) = n % 128 /\ Seven(n, 2) = a % 128
      /\ Seven(n, 3) = b % 128 /\ Seven(n, 4) = c % 128
      /\ Seven(n, 5) % 16 = d
  BY <1>1, <1>7, SMT DEF a, b, c, d
<1>10. Sevens[2] = 128 /\ Sevens[3] = 16384 /\ Sevens[4] = 2097152 /\ Sevens[5] = 268435456
  BY SMT DEF Sevens
<1> QED
  BY <1>8, <1>9, <1>10, SMT

(* Behind the digits that are written, there are only zeros.               *)
LEMMA NoMoreSevens ==
  ASSUME NEW n \in Nat, n <= INT_MAX, NEW i \in 1 .. 5, i > VarintLength(n)
  PROVE  Seven(n, i) = 0
BY SMT DEF Seven, Sevens, VarintLength, INT_MAX

(* The bytes of a length, and what the decoder makes of them.              *)
LEMMA VarintBytes ==
  ASSUME NEW n \in Nat, NEW i \in 1 .. VarintLength(n)
  PROVE  /\ Varint(n)[i] \in Nat
         /\ Varint(n)[i] % 128 = Seven(n, i) /\ Varint(n)[i] % 16 = Seven(n, i) % 16
         /\ Varint(n)[i] < 128 <=> i = VarintLength(n)
<1> DEFINE l == VarintLength(n)
           r == Seven(n, i)
<1>1. l \in 1 .. 5
  BY VarintLengthIs
<1>2. Varint(n)[i] = Seven(n, i) + IF i < l THEN 128 ELSE 0
  BY DEF Varint, Seven
<1> HIDE DEF l
<1>3. i \in 1 .. l
  BY DEF l
<1>4. i \in 1 .. 5
  BY <1>1, <1>3
<1>5. r \in 0 .. 127
  BY <1>4, SevenRange
<1> HIDE DEF r
<1> DEFINE b == r + IF i < l THEN 128 ELSE 0
<1>6. b \in Nat /\ b % 128 = r /\ b % 16 = r % 16 /\ (b < 128 <=> i = l)
  BY <1>1, <1>3, <1>5, SMT
<1> QED
  BY <1>2, <1>6 DEF l, r

(* read_uncompressed_length gives what varint_encode32 was given.          *)
LEMMA VarintRead ==
  ASSUME NEW n \in Nat, n <= INT_MAX
  PROVE  VarintValue(Varint(n)) = n
<1> DEFINE v == Varint(n)
           l == VarintLength(n)
<1>1. l \in 1 .. 5 /\ v \in Seq(Bytes) /\ Len(v) = l
  BY VarintLengthIs, VarintType
<1>2. ASSUME NEW i \in 1 .. 5
      PROVE  ByteAt(v, i) % 128 = Seven(n, i) /\ ByteAt(v, i) % 16 = Seven(n, i) % 16
  <2>1. CASE i <= l
    <3>1. i \in 1 .. VarintLength(n)
      BY <2>1
    <3>2. v[i] % 128 = Seven(n, i) /\ v[i] % 16 = Seven(n, i) % 16
      BY <3>1, VarintBytes
    <3>3. ByteAt(v, i) = v[i]
      BY <1>1, <2>1 DEF ByteAt
    <3> QED
      BY <3>2, <3>3
  <2>2. CASE ~ (i <= l)
    <3>1. i > VarintLength(n)
      BY <1>1, <2>2
    <3>2. Seven(n, i) = 0
      BY <3>1, NoMoreSevens
    <3>3. ByteAt(v, i) = 0
      BY <1>1, <2>2 DEF ByteAt
    <3>4. 0 % 128 = 0 /\ 0 % 16 = 0
      OBVIOUS
    <3> QED
      BY <3>2, <3>3, <3>4
  <2> QED
    BY <2>1, <2>2
<1>3. 1 \in 1 .. 5 /\ 2 \in 1 .. 5 /\ 3 \in 1 .. 5 /\ 4 \in 1 .. 5 /\ 5 \in 1 .. 5
  OBVIOUS
<1> HIDE DEF v, l
<1>4. VarintValue(v) = Seven(n, 1) + Sevens[2] * Seven(n, 2) + Sevens[3] * Seven(n, 3)
                       + Sevens[4] * Seven(n, 4) + Sevens[5] * (Seven(n, 5) % 16)
  BY <1>2, <1>3 DEF VarintValue
<1>5. VarintValue(v) = n
  BY <1>4, SevensAddUp
<1> QED
  BY <1>5 DEF v

(* The front of what the decoder is given: it ends with the first byte     *)
(* below 128, or is not all there.                                         *)
Ends(front) == {k \in DOMAIN front : front[k] < 128}

(* Where a length begins, its end is the first byte below 128, and the     *)
(* bytes so far are those that were written.                               *)
LEMMA FrontEnds ==
  ASSUME NEW n \in Nat, NEW front \in Seq(Bytes), Len(front) <= 5,
         \A i \in 1 .. Len(front) : i <= VarintLength(n) => front[i] = Varint(n)[i]
  PROVE  /\ Len(front) < VarintLength(n) => Ends(front) = {}
         /\ Len(front) >= VarintLength(n) =>
              /\ VarintLength(n) \in Ends(front)
              /\ (CHOOSE k \in Ends(front) : \A j \in Ends(front) : k <= j) = VarintLength(n)
              /\ SubSeq(front, 1, VarintLength(n)) = Varint(n)
<1> DEFINE l == VarintLength(n)
           v == Varint(n)
           m == Len(front)
<1>1. l \in 1 .. 5 /\ v \in Seq(Bytes) /\ Len(v) = l /\ m \in Nat
  <2>1. m \in Nat
    OBVIOUS
  <2>2. v \in Seq(Bytes) /\ Len(v) = l
    BY VarintType
  <2> QED
    BY <2>1, <2>2, VarintLengthIs
<1>2. \A i \in 1 .. l : v[i] \in Nat /\ (v[i] < 128 <=> i = l)
  BY VarintBytes
<1>3. \A i \in 1 .. m : i <= l => front[i] = v[i]
  OBVIOUS
<1>4. DOMAIN front = 1 .. m
  OBVIOUS
<1>5. Ends(front) = {k \in 1 .. m : front[k] < 128}
  BY <1>4 DEF Ends
<1>m. m = Len(front)
  OBVIOUS
<1> DEFINE ends == Ends(front)
<1> HIDE DEF l, v, m
<1>6. \A k \in ends : k \in Nat /\ k <= m /\ l <= k
  BY <1>1, <1>2, <1>3, <1>5
<1>7. CASE m < l
  <2>1. ends = {}
    BY <1>1, <1>6, <1>7
  <2>2. ~ (m >= l)
    BY <1>1, <1>7
  <2> QED
    BY <2>1, <2>2 DEF l, m
<1>8. CASE ~ (m < l)
  <2>1. l \in 1 .. m /\ l \in 1 .. l /\ l <= l
    BY <1>1, <1>8
  <2>2. front[l] < 128
    BY <1>2, <1>3, <2>1
  <2>3. l \in ends
    BY <1>5, <2>1, <2>2
  <2> DEFINE c == CHOOSE k \in ends : \A j \in ends : k <= j
  <2>4. c \in ends /\ \A j \in ends : c <= j
    BY <1>6, <2>3
  <2>5. c = l
    <3> HIDE DEF c
    <3>1. l <= c /\ c <= l /\ c \in Nat
      BY <1>6, <2>3, <2>4
    <3> QED
      BY <1>1, <3>1
  <2>6. SubSeq(front, 1, l) = v
    <3>1. SubSeq(front, 1, l) = [k \in 1 .. l |-> front[k]]
      BY <1>1, <1>8, <1>m
    <3>2. v = [k \in 1 .. l |-> v[k]]
      BY <1>1
    <3>3. \A k \in 1 .. l : front[k] = v[k]
      BY <1>1, <1>3, <1>8
    <3> QED
      BY <3>1, <3>2, <3>3
  <2> QED
    BY <1>8, <2>3, <2>5, <2>6 DEF l, m, v
<1> QED
  BY <1>7, <1>8

-----------------------------------------------------------------------------
(* The decoder's window: from byte q of what it was given on.  The source  *)
(* is behind the window, or where its last piece begins.                   *)
WindowOf(w, g, start, q) ==
  /\ w.buf \in Seq(Bytes) /\ w.peeked \in Nat /\ w.reader \in Sources
  /\ q \in Nat /\ q + Len(w.buf) <= Len(g)
  /\ w.buf = SubSeq(g, q + 1, q + Len(w.buf))
  /\ w.peeked = 0 \/ w.peeked = Len(Peek(w.reader))
  /\ \E p \in Nat : At(w.reader, start, p) /\ p + w.peeked = q + Len(w.buf)

LaidFull(iov, g, start) == g \in Seq(Bytes) /\ Laid(iov, start, g) /\ AllFull(iov)

(* Behind the window.                                                      *)
LEMMA BehindWindow ==
  ASSUME NEW g, NEW start, NEW w, NEW q, LaidFull(w.reader.iov, g, start), WindowOf(w, g, start, q)
  PROVE  /\ Skip(w.reader, w.peeked) \in Sources
         /\ Skip(w.reader, w.peeked).iov = w.reader.iov
         /\ At(Skip(w.reader, w.peeked), start, q + Len(w.buf))
         /\ q \in Nat /\ Len(w.buf) \in Nat /\ Len(g) \in Nat /\ q + Len(w.buf) <= Len(g)
<1> DEFINE s == w.reader
           n == w.peeked
           l == Len(w.buf)
<1>1. /\ s \in Sources /\ n \in Nat /\ q \in Nat /\ q + l <= Len(g)
      /\ n = 0 \/ n = Len(Peek(s))
  BY DEF WindowOf, LaidFull
<1>2. g \in Seq(Bytes) /\ Laid(s.iov, start, g) /\ w.buf \in Seq(Bytes)
  BY DEF LaidFull, WindowOf
<1>3. PICK p \in Nat : At(s, start, p) /\ p + n = q + l
  BY DEF WindowOf
<1>4. l \in Nat /\ Len(g) \in Nat
  BY <1>2
<1> HIDE DEF s, n, l
<1>5. Len(Peek(s)) \in Nat
  BY <1>1, <1>2, <1>3, PeekIs
<1>6. n <= Len(Peek(s))
  BY <1>1, <1>5
<1>7. Moved(s, Skip(s, n), start, g, p, n)
  BY <1>1, <1>2, <1>3, <1>6, SkipMoves
<1>8. Skip(s, n) \in Sources /\ Skip(s, n).iov = s.iov /\ At(Skip(s, n), start, p + n)
  BY <1>7 DEF Moved
<1> QED
  BY <1>1, <1>3, <1>4, <1>8 DEF s, n, l

(* The next piece is a window, which is empty at the end only.             *)
NextPiece(w) ==
  [buf |-> Peek(Skip(w.reader, w.peeked)), peeked |-> Len(Peek(Skip(w.reader, w.peeked))),
   reader |-> Skip(w.reader, w.peeked)]

(* A window on the next piece begins where the last one ended; it is empty *)
(* only at the end of the bytes.                                           *)
LEMMA NextPieceWindow ==
  ASSUME NEW g, NEW start, NEW w, NEW q, LaidFull(w.reader.iov, g, start), WindowOf(w, g, start, q)
  PROVE  /\ WindowOf(NextPiece(w), g, start, q + Len(w.buf))
         /\ NextPiece(w).reader.iov = w.reader.iov
         /\ NextPiece(w).buf = <<>> => q + Len(w.buf) = Len(g)
<1> DEFINE s == Skip(w.reader, w.peeked)
           b == Peek(s)
           p == q + Len(w.buf)
<1>1. s \in Sources /\ s.iov = w.reader.iov /\ At(s, start, p) /\ p \in Nat
  BY BehindWindow
<1>2. g \in Seq(Bytes) /\ Laid(s.iov, start, g) /\ AllFull(s.iov)
  BY <1>1 DEF LaidFull
<1>3. NextPiece(w) = [buf |-> b, peeked |-> Len(b), reader |-> s]
  BY DEF NextPiece
<1> HIDE DEF s, p
<1>4. b \in Seq(Bytes)
  BY <1>1, PeekType
<1>5. /\ Len(b) \in Nat /\ p + Len(b) <= Len(g) /\ b = SubSeq(g, p + 1, p + Len(b))
  BY <1>1, <1>2, PeekIs
<1>6. b = <<>> => p = Len(g)
  BY <1>1, <1>2, PeekEnds
<1>7. NextPiece(w).buf = b /\ NextPiece(w).peeked = Len(b) /\ NextPiece(w).reader = s
  BY <1>3
<1>8. p + Len(b) = p + Len(b) /\ Len(b) = Len(Peek(s))
  OBVIOUS
<1>9. WindowOf(NextPiece(w), g, start, p)
  <2> DEFINE x == NextPiece(w)
             n == Len(b)
  <2>1. x.buf = b /\ x.peeked = n /\ x.reader = s /\ n = Len(x.buf)
    BY <1>7
  <2>2. n \in Nat /\ p + n <= Len(g) /\ b = SubSeq(g, p + 1, p + n) /\ n = Len(Peek(s))
    BY <1>5
  <2> HIDE DEF x, n, b
  <2>3. \E j \in Nat : At(x.reader, start, j) /\ j + x.peeked = p + Len(x.buf)
    BY <1>1, <2>1
  <2>4. x.buf \in Seq(Bytes)
    BY <1>4, <2>1
  <2> QED
    BY <1>1, <2>1, <2>2, <2>3, <2>4 DEF WindowOf, x
<1> QED
  BY <1>1, <1>6, <1>7, <1>9 DEF p

(* The window without its first n bytes.                                   *)
LEMMA WindowRest ==
  ASSUME NEW g \in Seq(Bytes), NEW start, NEW w, NEW q, WindowOf(w, g, start, q), NEW n \in Nat,
         n <= Len(w.buf), NEW x, x.peeked = w.peeked, x.reader = w.reader,
         x.buf = SubSeq(w.buf, n + 1, Len(w.buf))
  PROVE  WindowOf(x, g, start, q + n)
<1> DEFINE b == w.buf
           l == Len(b)
           y == x.buf
           m == Len(y)
<1>1. /\ b \in Seq(Bytes) /\ w.peeked \in Nat /\ w.reader \in Sources /\ q \in Nat /\ q + l <= Len(g)
      /\ b = SubSeq(g, q + 1, q + l)
      /\ w.peeked = 0 \/ w.peeked = Len(Peek(w.reader))
  BY DEF WindowOf
<1>2. PICK p \in Nat : At(w.reader, start, p) /\ p + w.peeked = q + l
  BY DEF WindowOf
<1>3. l \in Nat /\ Len(g) \in Nat
  BY <1>1
<1>b. y = SubSeq(b, n + 1, l) /\ l = Len(b) /\ m = Len(y) /\ n <= l
  OBVIOUS
<1> HIDE DEF b, l, y, m
<1>4. y \in Seq(Bytes) /\ m = l - n /\ y = [k \in 1 .. l - n |-> b[n + k]]
  BY <1>1, <1>3, <1>b, Part
<1>5. \A k \in 1 .. l : b[k] = g[q + k]
  <2>1. b = [k \in 1 .. (q + l) - q |-> g[q + k]]
    <3>1. q + l \in Nat /\ q <= q + l
      BY <1>1, <1>3
    <3> QED
      BY <1>1, <3>1, Part
  <2>2. (q + l) - q = l
    BY <1>1, <1>3
  <2> QED
    BY <2>1, <2>2
<1>6. SubSeq(g, q + n + 1, q + n + m) = [k \in 1 .. l - n |-> g[q + n + k]]
  <2>1. q + n \in Nat /\ q + n + m \in Nat /\ q + n <= q + n + m /\ q + n + m <= Len(g) /\ (q + n + m) - (q + n) = l - n
    BY <1>1, <1>3, <1>4, <1>b
  <2>2. SubSeq(g, (q + n) + 1, q + n + m) = [k \in 1 .. (q + n + m) - (q + n) |-> g[(q + n) + k]]
    BY <2>1, Part
  <2> QED
    BY <2>1, <2>2
<1>7. \A k \in 1 .. l - n : b[n + k] = g[q + n + k]
  <2>1. ASSUME NEW k \in 1 .. l - n
        PROVE  b[n + k] = g[q + n + k]
    <3>1. n + k \in 1 .. l /\ q + (n + k) = q + n + k
      BY <1>1, <1>3
    <3> QED
      BY <1>5, <3>1
  <2> QED
    BY <2>1
<1>8. y = SubSeq(g, q + n + 1, q + n + m)
  BY <1>4, <1>6, <1>7
<1>9. q + n \in Nat /\ q + n + m <= Len(g) /\ q + n + m = q + l
  BY <1>1, <1>3, <1>4, <1>b
<1>10. \E j \in Nat : At(x.reader, start, j) /\ j + x.peeked = q + n + Len(x.buf)
  BY <1>2, <1>9, <1>b DEF y
<1> QED
  BY <1>1, <1>4, <1>8, <1>9, <1>10, <1>b DEF WindowOf, y

-----------------------------------------------------------------------------
(* refill_tag: the window begins where it did, and has all of a tag, or    *)
(* there is no more.                                                       *)
Current == [buf |-> buf, peeked |-> peeked, reader |-> reader]

(* Fetching a piece leaves the decoder where it is.                        *)
LEMMA FetchedWindow ==
  ASSUME NEW g, NEW start, NEW q, LaidFull(reader.iov, g, start), WindowOf(Current, g, start, q)
  PROVE  /\ WindowOf(Fetched, g, start, q) /\ Fetched.reader.iov = reader.iov
         /\ Fetched.buf = <<>> => q = Len(g)
<1>1. Current.reader = reader /\ Current.buf = buf /\ Current.peeked = peeked
  BY DEF Current
<1>2. CASE buf = <<>>
  <2>1. Fetched = NextPiece(Current)
    BY <1>1, <1>2 DEF Fetched, NextPiece
  <2>2. LaidFull(Current.reader.iov, g, start)
    BY <1>1
  <2>3. /\ WindowOf(NextPiece(Current), g, start, q + Len(Current.buf))
        /\ NextPiece(Current).reader.iov = Current.reader.iov
        /\ NextPiece(Current).buf = <<>> => q + Len(Current.buf) = Len(g)
    <3> HIDE DEF NextPiece, Current
    <3> QED
      BY <2>2, NextPieceWindow
  <2>4. q + Len(Current.buf) = q
    <3>1. q \in Nat
      BY DEF WindowOf
    <3>2. Len(Current.buf) = 0
      BY <1>1, <1>2
    <3> QED
      BY <3>1, <3>2
  <2> QED
    BY <1>1, <2>1, <2>3, <2>4
<1>3. CASE buf # <<>>
  <2>1. Fetched = Current
    BY <1>3 DEF Fetched, Current
  <2> QED
    BY <1>1, <1>3, <2>1
<1> QED
  BY <1>2, <1>3

WholeTag(b, q, g) ==
  b # <<>> => Len(b) > Trailers(b[1]) \/ q + Len(b) = Len(g)

(* So does refill_tag, which has a whole tag in the window unless the      *)
(* bytes end in the middle of it.                                          *)
LEMMA RefilledWindow ==
  ASSUME NEW g, NEW start, NEW q, LaidFull(reader.iov, g, start), WindowOf(Current, g, start, q)
  PROVE  /\ WindowOf(Refilled, g, start, q) /\ Refilled.reader.iov = reader.iov
         /\ Refilled.buf = <<>> => q = Len(g)
         /\ WholeTag(Refilled.buf, q, g)
<1> DEFINE w == Fetched
           b == w.buf
           used == Skip(w.reader, w.peeked)
           needed == Trailers(b[1]) + 1
           gathered == Gather(used, b, needed)
<1>1. WindowOf(w, g, start, q) /\ w.reader.iov = reader.iov /\ (b = <<>> => q = Len(g))
  BY FetchedWindow
<1>2. Refilled = IF b = <<>> \/ Len(b) >= 5 THEN w
                 ELSE IF Len(b) >= needed THEN [w EXCEPT !.peeked = 0, !.reader = used]
                 ELSE [buf |-> gathered.bytes, peeked |-> 0, reader |-> gathered.source]
  BY DEF Refilled
<1>3. w = [buf |-> b, peeked |-> w.peeked, reader |-> w.reader]
  BY DEF Fetched
<1> HIDE DEF w
<1>4. LaidFull(w.reader.iov, g, start)
  BY <1>1
<1>5. /\ used \in Sources /\ used.iov = w.reader.iov /\ At(used, start, q + Len(b))
      /\ q \in Nat /\ Len(b) \in Nat /\ Len(g) \in Nat /\ q + Len(b) <= Len(g)
  BY <1>1, <1>4, BehindWindow
<1>6. b \in Seq(Bytes) /\ b = SubSeq(g, q + 1, q + Len(b))
  BY <1>1 DEF WindowOf
<1>7. g \in Seq(Bytes) /\ Laid(used.iov, start, g) /\ AllFull(used.iov)
  BY <1>4, <1>5 DEF LaidFull
<1> HIDE DEF used
<1>8. b # <<>> => Len(b) > 0 /\ Trailers(b[1]) \in Nat /\ Trailers(b[1]) <= 4 /\ needed \in Nat
  BY <1>6, FirstByte
<1>9. CASE b = <<>> \/ Len(b) >= 5
  <2>1. Refilled = w
    BY <1>2, <1>9
  <2>2. WholeTag(b, q, g)
    BY <1>5, <1>8, <1>9 DEF WholeTag
  <2> QED
    BY <1>1, <2>1, <2>2
<1>10. CASE ~ (b = <<>> \/ Len(b) >= 5) /\ Len(b) >= needed
  <2>1. Refilled = [buf |-> b, peeked |-> 0, reader |-> used]
    BY <1>2, <1>3, <1>10
  <2>2. Refilled.buf = b /\ Refilled.peeked = 0 /\ Refilled.reader = used
    BY <2>1
  <2>3. q + Len(b) \in Nat /\ (q + Len(b)) + 0 = q + Len(b)
    BY <1>5
  <2>4. \E p \in Nat : At(Refilled.reader, start, p) /\ p + Refilled.peeked = q + Len(Refilled.buf)
    BY <1>5, <2>2, <2>3
  <2>5. WindowOf(Refilled, g, start, q)
    BY <1>5, <1>6, <2>2, <2>4 DEF WindowOf
  <2>6. WholeTag(b, q, g)
    BY <1>5, <1>8, <1>10 DEF WholeTag
  <2> QED
    BY <1>1, <1>5, <1>10, <2>2, <2>5, <2>6
<1>11. CASE ~ (b = <<>> \/ Len(b) >= 5) /\ ~ (Len(b) >= needed)
  <2>1. Refilled = [buf |-> gathered.bytes, peeked |-> 0, reader |-> gathered.source]
    BY <1>2, <1>11
  <2>2. Refilled.buf = gathered.bytes /\ Refilled.peeked = 0 /\ Refilled.reader = gathered.source
    BY <2>1
  <2> DEFINE lb == Len(b)
             lg == Len(g)
             p == q + lb
             e == Smaller(q + needed, lg)
  <2>3. needed \in Nat /\ lb \in Nat /\ lg \in Nat /\ p \in Nat /\ q <= p /\ p <= q + needed /\ lb > 0
        /\ p <= lg /\ lb < needed
    <3>1. needed \in Nat /\ Len(b) > 0 /\ Len(b) < needed
      BY <1>5, <1>8, <1>11
    <3> HIDE DEF needed
    <3> QED
      BY <1>5, <3>1
  <2>4. ReadFrom(Gather(used, SubSeq(g, q + 1, p), needed), used, g, start, q, p, e)
    <3> HIDE DEF needed
    <3>1. At(used, start, p)
      BY <1>5
    <3> QED
      BY <1>5, <1>7, <2>3, <3>1, GatherReads
  <2>5. gathered = Gather(used, SubSeq(g, q + 1, p), needed)
    BY <1>6
  <2>6. ReadFrom(gathered, used, g, start, q, p, e)
    BY <2>4, <2>5
  <2> HIDE DEF gathered
  <2>7. /\ e \in Nat /\ p <= e /\ e <= lg
        /\ gathered.bytes = SubSeq(g, q + 1, e)
        /\ gathered.source \in Sources /\ gathered.source.iov = used.iov /\ At(gathered.source, start, e)
    BY <2>6 DEF ReadFrom
  <2> DEFINE x == gathered.bytes
  <2>8. x \in Seq(Bytes) /\ Len(x) = e - q
    <3> HIDE DEF e, p
    <3>1. q <= e
      BY <1>5, <2>3, <2>7
    <3> QED
      BY <1>5, <1>7, <2>7, <3>1, Part
  <2>9. e = q + needed \/ e = lg
    BY DEF Smaller
  <2>t. needed = Trailers(b[1]) + 1
    OBVIOUS
  <2> HIDE DEF e, x, needed
  <2>10. q + Len(x) = e /\ Len(x) \in Nat /\ Len(x) > 0
    BY <1>5, <2>3, <2>7, <2>8
  <2>11. x = SubSeq(g, q + 1, q + Len(x))
    BY <2>7, <2>10 DEF x
  <2>12. WindowOf(Refilled, g, start, q)
    <3>1. \E j \in Nat : At(Refilled.reader, start, j) /\ j + Refilled.peeked = q + Len(Refilled.buf)
      <4>1. Refilled.reader = gathered.source /\ Refilled.peeked = 0 /\ Refilled.buf = x
        BY <2>2 DEF x
      <4>2. e + 0 = q + Len(x) /\ e \in Nat
        BY <2>7, <2>10
      <4> QED
        BY <2>7, <4>1, <4>2
    <3>2. q + Len(x) <= Len(g)
      BY <2>7, <2>10
    <3> QED
      BY <1>5, <2>2, <2>7, <2>8, <2>11, <3>1, <3>2 DEF WindowOf, x
  <2>13. x[1] = b[1]
    <3>1. x = [k \in 1 .. e - q |-> g[q + k]]
      <4>1. q <= e
        BY <1>5, <2>3, <2>7
      <4> QED
        BY <1>5, <1>7, <2>7, <4>1, Part DEF x
    <3>2. b = [k \in 1 .. p - q |-> g[q + k]]
      <4>1. b = SubSeq(g, q + 1, p)
        BY <1>6
      <4> HIDE DEF p
      <4> QED
        BY <1>5, <1>7, <2>3, <4>1, Part
    <3>3. 1 \in 1 .. e - q /\ 1 \in 1 .. p - q
      BY <1>5, <2>3, <2>7
    <3> QED
      BY <3>1, <3>2, <3>3
  <2>14. WholeTag(x, q, g)
    <3>1. Len(x) > Trailers(b[1]) \/ q + Len(x) = Len(g)
      <4> DEFINE t == Trailers(b[1])
      <4>1. t \in Nat /\ needed = t + 1
        BY <1>8, <1>11, <2>t
      <4> HIDE DEF t
      <4>2. Len(x) > t \/ q + Len(x) = Len(g)
        BY <1>5, <2>9, <2>10, <4>1
      <4> QED
        BY <4>2 DEF t
    <3> QED
      BY <2>13, <3>1 DEF WholeTag
  <2>15. x # <<>>
    BY <2>10
  <2> QED
    BY <1>1, <1>5, <2>2, <2>7, <2>12, <2>14, <2>15 DEF x
<1> QED
  BY <1>9, <1>10, <1>11

-----------------------------------------------------------------------------
(* One sequence of bytes begins with another.                              *)
Begins(x, y) == Len(x) <= Len(y) /\ \A i \in 1 .. Len(x) : y[i] = x[i]

(* Beginnings of beginnings.                                               *)
LEMMA BeginsOn ==
  ASSUME NEW x \in Seq(Bytes), NEW y \in Seq(Bytes), NEW z \in Seq(Bytes), Begins(x, y), Begins(y, z)
  PROVE  Begins(x, z)
<1> DEFINE a == Len(x)
           b == Len(y)
           c == Len(z)
<1>1. a \in Nat /\ b \in Nat /\ c \in Nat
  OBVIOUS
<1>2. a <= b /\ b <= c /\ (\A i \in 1 .. a : y[i] = x[i]) /\ (\A i \in 1 .. b : z[i] = y[i])
  BY DEF Begins
<1> HIDE DEF a, b, c
<1>3. a <= c /\ \A i \in 1 .. a : z[i] = x[i]
  BY <1>1, <1>2
<1> QED
  BY <1>3 DEF Begins, a, c

(* What bytes begin with: themselves, and what they are appended to.       *)
LEMMA BeginsWith ==
  ASSUME NEW x \in Seq(Bytes), NEW y \in Seq(Bytes)
  PROVE  Begins(x, x) /\ Begins(x, x \o y)
<1>1. /\ Len(x \o y) = Len(x) + Len(y) /\ \A k \in 1 .. Len(x) : (x \o y)[k] = x[k]
      /\ Len(x) \in Nat /\ Len(y) \in Nat
  BY Join
<1> DEFINE z == x \o y
<1> HIDE DEF z
<1>2. Begins(x, x)
  BY <1>1 DEF Begins
<1>3. Len(x) <= Len(z)
  BY <1>1 DEF z
<1>4. Begins(x, z)
  BY <1>1, <1>3 DEF Begins, z
<1> QED
  BY <1>2, <1>4 DEF z

(* What is only ever extended begins with all that it was.                 *)
LEMMA AllBegin ==
  ASSUME NEW n \in Nat, NEW f \in [0 .. n -> Seq(Bytes)], \A k \in 1 .. n : Begins(f[k - 1], f[k])
  PROVE  \A k \in 0 .. n : Begins(f[k], f[n])
<1> DEFINE D == Seq(Bytes)
           T == {j \in 0 .. n : Begins(f[n - j], f[n])}
<1>1. \A k \in 0 .. n : f[k] \in D
  <2> HIDE DEF D
  <2>1. f \in [0 .. n -> D]
    BY DEF D
  <2> QED
    BY <2>1
<1>2. 0 \in T
  <2>1. n \in 0 .. n /\ n - 0 = n
    OBVIOUS
  <2>2. Begins(f[n], f[n])
    BY <1>1, <2>1, BeginsWith
  <2> QED
    BY <2>1, <2>2
<1>3. \A i \in 1 .. n : i - 1 \in T => i \in T
  <2>1. ASSUME NEW i \in 1 .. n, i - 1 \in T
        PROVE  i \in T
    <3>1. n - i \in 0 .. n /\ n - (i - 1) \in 1 .. n /\ (n - (i - 1)) - 1 = n - i /\ n \in 0 .. n
          /\ n - (i - 1) \in 0 .. n
      OBVIOUS
    <3>2. Begins(f[n - i], f[n - (i - 1)])
      BY <3>1
    <3>3. Begins(f[n - (i - 1)], f[n])
      BY <2>1
    <3>4. f[n - i] \in Seq(Bytes) /\ f[n - (i - 1)] \in Seq(Bytes) /\ f[n] \in Seq(Bytes)
      BY <1>1, <3>1
    <3>5. Begins(f[n - i], f[n])
      BY <3>2, <3>3, <3>4, BeginsOn
    <3> QED
      BY <3>5
  <2> QED
    BY <2>1
<1>4. \A j \in 0 .. n : j \in T
  <2> HIDE DEF T
  <2> QED
    BY <1>2, <1>3, UpTo
<1>5. ASSUME NEW k \in 0 .. n
      PROVE  Begins(f[k], f[n])
  <2>1. n - k \in 0 .. n /\ n - (n - k) = k
    OBVIOUS
  <2>2. Begins(f[n - (n - k)], f[n])
    BY <1>4, <2>1
  <2> QED
    BY <2>1, <2>2
<1> QED
  BY <1>5

-----------------------------------------------------------------------------
(* The items in the sink, and in the file: e[k] is the code of the first k *)
(* of them, d[k] what they make.                                           *)
Coded(items, e, d) ==
  /\ items \in Seq(SmallItems) /\ file \in Seq(Bytes)
  /\ Codes(e, items) /\ sink = Varint(Len(file)) \o e[Len(items)]
  /\ Decodes(d, items) /\ file = d[Len(items)]

Place(e, k) == Len(Varint(Len(file))) + Len(e[k])

CodeThere(items, e, k) ==
  /\ Place(e, k + 1) = Place(e, k) + Len(EncodeItem(items[k + 1]))
  /\ Place(e, k + 1) <= Len(sink)
  /\ \A i \in 1 .. Len(EncodeItem(items[k + 1])) :
       sink[Place(e, k) + i] = EncodeItem(items[k + 1])[i]

(* The code of an item is in the sink, at the place of the item.           *)
LEMMA ItemCoded ==
  ASSUME NEW items, NEW e, NEW d, Coded(items, e, d), NEW k \in 0 .. Len(items) - 1
  PROVE  CodeThere(items, e, k) /\ Place(e, k) \in Nat /\ items[k + 1] \in SmallItems
<1> DEFINE n == Len(items)
           v == Varint(Len(file))
           item == items[k + 1]
           c == EncodeItem(item)
<1>1. /\ n \in Nat /\ e \in [0 .. n -> Seq(Bytes)] /\ sink = v \o e[n]
      /\ \A j \in 1 .. n : items[j] \in SmallItems /\ e[j] = e[j - 1] \o EncodeItem(items[j])
  <2>1. items \in Seq(SmallItems)
    BY DEF Coded
  <2>2. n \in Nat /\ \A j \in 1 .. n : items[j] \in SmallItems
    BY <2>1
  <2> QED
    BY <2>2 DEF Coded, Codes
<1>2. v \in Seq(Bytes)
  <2>1. Len(file) \in Nat
    BY DEF Coded
  <2> QED
    BY <2>1, VarintType
<1>3. k + 1 \in 1 .. n /\ k \in 0 .. n /\ k + 1 \in 0 .. n /\ n \in 0 .. n /\ (k + 1) - 1 = k
  BY <1>1
<1>4. item \in SmallItems
  BY <1>1, <1>3
<1>5. c \in Seq(Bytes)
  BY <1>4, ItemCode
<1>6. \A j \in 0 .. n : e[j] \in Seq(Bytes)
  <2> DEFINE D == Seq(Bytes)
  <2>1. e \in [0 .. n -> D]
    BY <1>1
  <2> HIDE DEF D
  <2>2. \A j \in 0 .. n : e[j] \in D
    BY <2>1
  <2> QED
    BY <2>2 DEF D
<1>7. Begins(e[k + 1], e[n])
  <2>1. ASSUME NEW j \in 1 .. n
        PROVE  Begins(e[j - 1], e[j])
    <3>1. e[j - 1] \in Seq(Bytes) /\ EncodeItem(items[j]) \in Seq(Bytes)
      <4>1. j - 1 \in 0 .. n
        BY <1>1
      <4> QED
        BY <1>1, <1>6, <4>1, ItemCode
    <3>2. e[j] = e[j - 1] \o EncodeItem(items[j])
      BY <1>1
    <3> QED
      BY <3>1, <3>2, BeginsWith
  <2> HIDE DEF n
  <2>2. \A j \in 0 .. n : Begins(e[j], e[n])
    BY <1>1, <2>1, AllBegin
  <2> QED
    BY <1>3, <2>2
<1> DEFINE x == e[k]
           y == e[k + 1]
           z == e[n]
<1>8. y = x \o c
  <2>1. e[k + 1] = e[(k + 1) - 1] \o EncodeItem(items[k + 1])
    BY <1>1, <1>3
  <2> QED
    BY <1>3, <2>1
<1>9. x \in Seq(Bytes) /\ y \in Seq(Bytes) /\ z \in Seq(Bytes)
  BY <1>3, <1>6
<1>10. sink = v \o z /\ Begins(y, z)
  BY <1>1, <1>7
<1> HIDE DEF v, x, y, z, c, item
<1>11. Len(y) = Len(x) + Len(c) /\ \A i \in 1 .. Len(c) : y[Len(x) + i] = c[i]
  BY <1>5, <1>8, <1>9, Join
<1>12. Len(sink) = Len(v) + Len(z) /\ \A i \in 1 .. Len(z) : sink[Len(v) + i] = z[i]
  BY <1>2, <1>9, <1>10, Join
<1>13. Len(y) <= Len(z) /\ \A i \in 1 .. Len(y) : z[i] = y[i]
  BY <1>10 DEF Begins
<1> DEFINE lv == Len(v)
           lx == Len(x)
           ly == Len(y)
           lz == Len(z)
           lc == Len(c)
<1>14. lv \in Nat /\ lx \in Nat /\ ly \in Nat /\ lz \in Nat /\ lc \in Nat
  BY <1>2, <1>5, <1>9
<1>15. /\ ly = lx + lc /\ ly <= lz /\ Len(sink) = lv + lz
       /\ \A i \in 1 .. lc : y[lx + i] = c[i]
       /\ \A i \in 1 .. lz : sink[lv + i] = z[i]
       /\ \A i \in 1 .. ly : z[i] = y[i]
  BY <1>11, <1>12, <1>13
<1> HIDE DEF lv, lx, ly, lz, lc
<1>16. lv + ly = lv + lx + lc /\ lv + ly <= Len(sink) /\ lv + lx \in Nat
  BY <1>14, <1>15
<1>17. ASSUME NEW i \in 1 .. lc
       PROVE  sink[lv + lx + i] = c[i]
  <2>1. lx + i \in 1 .. ly /\ lx + i \in 1 .. lz /\ lv + (lx + i) = lv + lx + i
    BY <1>14, <1>15
  <2>2. sink[lv + (lx + i)] = z[lx + i] /\ z[lx + i] = y[lx + i] /\ y[lx + i] = c[i]
    BY <1>15, <2>1
  <2> QED
    BY <2>1, <2>2
<1>18. Place(e, k) = lv + lx /\ Place(e, k + 1) = lv + ly
  BY DEF Place, lv, lx, ly, v, x, y
<1>19. lc = Len(EncodeItem(items[k + 1])) /\ c = EncodeItem(items[k + 1])
  BY DEF lc, c, item
<1>20. CodeThere(items, e, k)
  BY <1>16, <1>17, <1>18, <1>19 DEF CodeThere
<1> QED
  BY <1>4, <1>16, <1>18, <1>20 DEF item

(* What the item adds.                                                     *)
TextThere(items, d, k) ==
  /\ d[k] \in Seq(Bytes) /\ Reaches(d[k], items[k + 1])
  /\ Added(d[k], items[k + 1]) \in Seq(Bytes)
  /\ Len(Added(d[k], items[k + 1])) = ItemLength(items[k + 1])
  /\ Len(d[k + 1]) = Len(d[k]) + ItemLength(items[k + 1])
  /\ Len(d[k + 1]) <= Len(file)
  /\ Begins(d[k], file)
  /\ \A i \in 1 .. ItemLength(items[k + 1]) :
       file[Len(d[k]) + i] = Added(d[k], items[k + 1])[i]

(* What an item adds is in the file.                                       *)
LEMMA ItemText ==
  ASSUME NEW items, NEW e, NEW d, Coded(items, e, d), NEW k \in 0 .. Len(items) - 1
  PROVE  TextThere(items, d, k)
<1> DEFINE n == Len(items)
           item == items[k + 1]
           c == Added(d[k], item)
<1>1. /\ n \in Nat /\ d \in [0 .. n -> Seq(Bytes)] /\ file = d[n] /\ \A j \in 1 .. n : items[j] \in SmallItems
      /\ \A j \in 1 .. n : Reaches(d[j - 1], items[j]) /\ d[j] = d[j - 1] \o Added(d[j - 1], items[j])
  <2>1. items \in Seq(SmallItems)
    BY DEF Coded
  <2>2. n \in Nat /\ \A j \in 1 .. n : items[j] \in SmallItems
    BY <2>1
  <2> QED
    BY <2>2 DEF Coded, Decodes
<1>3. k + 1 \in 1 .. n /\ k \in 0 .. n /\ k + 1 \in 0 .. n /\ n \in 0 .. n /\ (k + 1) - 1 = k
  BY <1>1
<1>6. \A j \in 0 .. n : d[j] \in Seq(Bytes)
  <2> DEFINE D == Seq(Bytes)
  <2>1. d \in [0 .. n -> D]
    BY <1>1
  <2> HIDE DEF D
  <2>2. \A j \in 0 .. n : d[j] \in D
    BY <2>1
  <2> QED
    BY <2>2 DEF D
<1>7. \A j \in 0 .. n : Begins(d[j], d[n])
  <2>1. ASSUME NEW j \in 1 .. n
        PROVE  Begins(d[j - 1], d[j])
    <3>1. d[j - 1] \in Seq(Bytes)
      <4>1. j - 1 \in 0 .. n
        BY <1>1
      <4> QED
        BY <1>6, <4>1
    <3>2. Added(d[j - 1], items[j]) \in Seq(Bytes)
      BY <1>1, <3>1, AddedType
    <3>3. d[j] = d[j - 1] \o Added(d[j - 1], items[j])
      BY <1>1
    <3> QED
      BY <3>1, <3>2, <3>3, BeginsWith
  <2> HIDE DEF n
  <2> QED
    BY <1>1, <2>1, AllBegin
<1> DEFINE x == d[k]
           y == d[k + 1]
<1>8. y = x \o c /\ Reaches(x, item) /\ item \in SmallItems
  <2>1. d[k + 1] = d[(k + 1) - 1] \o Added(d[(k + 1) - 1], items[k + 1])
        /\ Reaches(d[(k + 1) - 1], items[k + 1])
    BY <1>1, <1>3
  <2> QED
    BY <1>1, <1>3, <2>1
<1>9. x \in Seq(Bytes) /\ y \in Seq(Bytes) /\ file \in Seq(Bytes)
  BY <1>1, <1>3, <1>6
<1>10. Begins(y, file) /\ Begins(x, file)
  BY <1>1, <1>3, <1>7
<1>5. c \in Seq(Bytes) /\ Len(c) = ItemLength(item)
  <2> HIDE DEF x, item
  <2>1. Added(x, item) \in Seq(Bytes) /\ Len(Added(x, item)) = ItemLength(item)
    BY <1>8, <1>9, AddedType
  <2> QED
    BY <2>1 DEF x
<1> HIDE DEF x, y, c, item
<1>11. Len(y) = Len(x) + Len(c) /\ \A i \in 1 .. Len(c) : y[Len(x) + i] = c[i]
  <2>1. Len(x \o c) = Len(x) + Len(c) /\ \A i \in 1 .. Len(c) : (x \o c)[Len(x) + i] = c[i]
    BY <1>5, <1>9, Join
  <2> QED
    BY <1>8, <2>1
<1>13. Len(y) <= Len(file) /\ \A i \in 1 .. Len(y) : file[i] = y[i]
  BY <1>10 DEF Begins
<1> DEFINE lx == Len(x)
           ly == Len(y)
           lc == Len(c)
<1>14. lx \in Nat /\ ly \in Nat /\ lc \in Nat
  BY <1>5, <1>9
<1>15. /\ ly = lx + lc
       /\ \A i \in 1 .. lc : y[lx + i] = c[i]
       /\ \A i \in 1 .. ly : file[i] = y[i]
  BY <1>11, <1>13
<1> HIDE DEF lx, ly, lc
<1>17. ASSUME NEW i \in 1 .. lc
       PROVE  file[lx + i] = c[i]
  <2>1. lx + i \in 1 .. ly
    BY <1>14, <1>15
  <2> QED
    BY <1>15, <2>1
<1>18. lc = ItemLength(item) /\ ly <= Len(file)
  BY <1>5, <1>13 DEF lc, ly
<1> QED
  BY <1>5, <1>8, <1>9, <1>10, <1>15, <1>17, <1>18 DEF TextThere, lx, ly, lc, x, y, c, item

-----------------------------------------------------------------------------
(* What the decoder is given agrees with the sink as far as both reach,    *)
(* and what is behind the sink is not a literal of 2^32 bytes, whose       *)
(* length the decoder takes for zero.                                      *)
Handed(g) ==
  /\ g \in Seq(Bytes)
  /\ \A i \in 1 .. Len(g) : i <= Len(sink) => g[i] = sink[i]
  /\ whole <=> Len(g) = Len(sink)
  /\ ~ EmptyLiteral(g, Len(sink))

Telling(items, e, d, g, start) ==
  /\ Coded(items, e, d) /\ sink \in Seq(Bytes)
  /\ LaidFull(reader.iov, g, start) /\ Handed(g)
  /\ expected = Len(file)

(* What the decoder is told stays the same while it moves.                 *)
LEMMA TellingStays ==
  ASSUME NEW items, NEW e, NEW d, NEW g, NEW start, Telling(items, e, d, g, start),
         UNCHANGED <<file, sink, whole, expected>>, reader'.iov = reader.iov
  PROVE  Telling(items, e, d, g, start)'
<1>1. Coded(items, e, d) /\ LaidFull(reader.iov, g, start) /\ Handed(g) /\ sink \in Seq(Bytes)
      /\ expected = Len(file)
  BY DEF Telling
<1>2. Coded(items, e, d)'
  BY <1>1 DEF Coded
<1>3. LaidFull(reader.iov, g, start)'
  BY <1>1 DEF LaidFull, Laid, LaidFirst, AllFull
<1>4. Handed(g)'
  BY <1>1 DEF Handed
<1>5. (sink \in Seq(Bytes) /\ expected = Len(file))'
  BY <1>1
<1> QED
  BY <1>2, <1>3, <1>4, <1>5 DEF Telling

(* Where the items end.                                                    *)
LEMMA CodedEnd ==
  ASSUME NEW items, NEW e, NEW d, Coded(items, e, d), sink \in Seq(Bytes)
  PROVE  /\ Len(items) \in Nat /\ Len(file) \in Nat /\ Len(sink) \in Nat
         /\ Place(e, Len(items)) = Len(sink) /\ Len(d[Len(items)]) = Len(file)
<1> DEFINE n == Len(items)
           v == Varint(Len(file))
           z == e[n]
<1>1. n \in Nat /\ Len(file) \in Nat /\ Len(sink) \in Nat
  <2>1. items \in Seq(SmallItems) /\ file \in Seq(Bytes)
    BY DEF Coded
  <2> QED
    BY <2>1
<1>2. sink = v \o z /\ d[n] = file
  BY DEF Coded
<1>3. v \in Seq(Bytes)
  BY <1>1, VarintType
<1>4. z \in Seq(Bytes)
  <2> DEFINE D == Seq(Bytes)
  <2>1. e \in [0 .. n -> D]
    BY DEF Coded, Codes
  <2> HIDE DEF D
  <2>2. e[n] \in D
    BY <1>1, <2>1
  <2> QED
    BY <2>2 DEF D
<1> HIDE DEF v, z
<1>5. Len(sink) = Len(v) + Len(z)
  BY <1>2, <1>3, <1>4, Join
<1>6. Place(e, n) = Len(v) + Len(z)
  BY DEF Place, v, z
<1> QED
  BY <1>1, <1>2, <1>5, <1>6

(* Before the end, the file is not complete yet.                           *)
LEMMA MoreText ==
  ASSUME NEW items, NEW e, NEW d, Coded(items, e, d), NEW k \in 0 .. Len(items) - 1
  PROVE  /\ Len(d[k]) \in Nat /\ Len(d[k + 1]) \in Nat /\ Len(file) \in Nat
         /\ ItemLength(items[k + 1]) \in Nat /\ ItemLength(items[k + 1]) >= 1
         /\ Len(d[k + 1]) = Len(d[k]) + ItemLength(items[k + 1]) /\ Len(d[k + 1]) <= Len(file)
<1>1. TextThere(items, d, k)
  BY ItemText
<1>2. items[k + 1] \in SmallItems
  BY ItemCoded
<1>3. d[k] \in Seq(Bytes) /\ Reaches(d[k], items[k + 1]) /\ file \in Seq(Bytes)
      /\ Len(d[k + 1]) = Len(d[k]) + ItemLength(items[k + 1]) /\ Len(d[k + 1]) <= Len(file)
  BY <1>1 DEF TextThere, Coded
<1>4. ItemLength(items[k + 1]) \in Nat /\ ItemLength(items[k + 1]) >= 1
  BY <1>2, <1>3, AddedType
<1>5. Len(d[k]) \in Nat /\ Len(file) \in Nat
  BY <1>3
<1> DEFINE x == Len(d[k])
           y == Len(d[k + 1])
           i == ItemLength(items[k + 1])
<1>6. x \in Nat /\ i \in Nat /\ y = x + i
  BY <1>3, <1>4, <1>5
<1> HIDE DEF x, y, i
<1>7. y \in Nat
  BY <1>6
<1> QED
  BY <1>3, <1>4, <1>5, <1>7 DEF y

(* The window shows the item's code, as far as there is any.               *)
LEMMA WindowShows ==
  ASSUME NEW items, NEW e, NEW d, Coded(items, e, d), NEW k \in 0 .. Len(items) - 1,
         NEW g, Handed(g), NEW start, NEW w, WindowOf(w, g, start, Place(e, k)),
         NEW c, c = EncodeItem(items[k + 1])
  PROVE  /\ \A i \in 1 .. Len(w.buf) : i <= Len(c) => w.buf[i] = c[i]
         /\ c \in Seq(Bytes) /\ Len(c) > 0 /\ Place(e, k) \in Nat
         /\ Place(e, k + 1) = Place(e, k) + Len(c) /\ Place(e, k + 1) <= Len(sink)
<1> DEFINE q == Place(e, k)
           b == w.buf
           lb == Len(b)
           lc == Len(c)
           lg == Len(g)
           ls == Len(sink)
<1>1. /\ Place(e, k + 1) = q + lc /\ Place(e, k + 1) <= ls /\ q \in Nat
      /\ \A i \in 1 .. lc : sink[q + i] = c[i]
  BY ItemCoded DEF CodeThere
<1>2. c \in Seq(Bytes) /\ lc > 0
  BY ItemCoded, ItemCode
<1>3. b \in Seq(Bytes) /\ q + lb <= lg /\ b = SubSeq(g, q + 1, q + lb)
  BY DEF WindowOf
<1>4. g \in Seq(Bytes) /\ \A i \in 1 .. lg : i <= ls => g[i] = sink[i]
  BY DEF Handed
<1>5. lb \in Nat /\ lg \in Nat /\ lc \in Nat
  BY <1>2, <1>3, <1>4
<1> HIDE DEF q, lb, lc, lg, ls, b
<1>6. b = [i \in 1 .. lb |-> g[q + i]]
  <2>1. q + lb \in Nat /\ q <= q + lb /\ (q + lb) - q = lb
    BY <1>1, <1>5
  <2>2. b = [i \in 1 .. (q + lb) - q |-> g[q + i]]
    BY <1>1, <1>3, <1>4, <2>1, Part DEF lg
  <2> QED
    BY <2>1, <2>2
<1>7. ASSUME NEW i \in 1 .. lb, i <= lc
      PROVE  b[i] = c[i]
  <2>1. q + i \in 1 .. lg /\ i \in 1 .. lc
    <3>1. q \in Nat /\ q + lb <= lg
      BY <1>1, <1>3
    <3> QED
      BY <1>5, <1>7, <3>1
  <2>2. q + i <= q + lc
    BY <1>1, <1>5, <1>7
  <2>3. q + i <= ls
    <3>1. q + lc <= ls
      BY <1>1
    <3>2. ls \in Int
      <4>1. sink \in Seq(Bytes)
        <5>1. Len(file) \in Nat
          BY DEF Coded
        <5>2. Varint(Len(file)) \in Seq(Bytes)
          BY <5>1, VarintType
        <5>3. e[Len(items)] \in Seq(Bytes)
          <6> DEFINE D == Seq(Bytes)
          <6>1. e \in [0 .. Len(items) -> D] /\ Len(items) \in Nat
            BY DEF Coded, Codes
          <6> HIDE DEF D
          <6>2. e[Len(items)] \in D
            BY <6>1
          <6> QED
            BY <6>2 DEF D
        <5>4. sink = Varint(Len(file)) \o e[Len(items)]
          BY DEF Coded
        <5> QED
          BY <5>2, <5>3, <5>4
      <4> QED
        BY <4>1 DEF ls
    <3> QED
      BY <1>1, <1>5, <2>2, <3>1, <3>2
  <2>4. b[i] = g[q + i]
    BY <1>6
  <2> QED
    BY <1>1, <1>4, <2>1, <2>3, <2>4
<1> QED
  BY <1>1, <1>2, <1>7 DEF q, b, lb, lc, ls

-----------------------------------------------------------------------------
(* The decoder reads an item as it was written.                            *)
LiteralShows(w, item) ==
  /\ IsLiteral(w.buf[1]) /\ Trailers(w.buf[1]) \in Nat
  /\ Len(EncodeItem(item)) = 1 + Trailers(w.buf[1]) + Len(item.bytes)
  /\ LiteralLength(w) = Len(item.bytes)
  /\ \A j \in 1 .. Len(item.bytes) :
       EncodeItem(item)[1 + Trailers(w.buf[1]) + j] = item.bytes[j]

CopyShows(w, item) ==
  /\ ~ IsLiteral(w.buf[1]) /\ Trailers(w.buf[1]) \in Nat
  /\ Len(EncodeItem(item)) = 1 + Trailers(w.buf[1])
  /\ TagLength(w.buf[1]) = item.len
  /\ TagOffset(w.buf[1]) + TrailerValue(w) = item.offset

(* Bytes that agree have the same bytes behind the tag.                    *)
LEMMA SameTrailers ==
  ASSUME NEW b \in Seq(Bytes), NEW c \in Seq(Bytes), NEW t \in Nat, 1 + t <= Len(b), 1 + t <= Len(c),
         \A i \in 1 .. Len(b) : i <= Len(c) => b[i] = c[i]
  PROVE  SubSeq(b, 2, 1 + t) = SubSeq(c, 2, 1 + t)
<1>1. 1 \in Nat /\ 1 + t \in Nat /\ 1 <= 1 + t /\ (1 + t) - 1 = t /\ 1 + 1 = 2
  OBVIOUS
<1>2. SubSeq(b, 1 + 1, 1 + t) = [k \in 1 .. (1 + t) - 1 |-> b[1 + k]]
  BY <1>1, Part
<1>3. SubSeq(c, 1 + 1, 1 + t) = [k \in 1 .. (1 + t) - 1 |-> c[1 + k]]
  BY <1>1, Part
<1>4. ASSUME NEW k \in 1 .. t
      PROVE  b[1 + k] = c[1 + k]
  <2> DEFINE lb == Len(b)
             lc == Len(c)
  <2>1. lb \in Nat /\ lc \in Nat /\ 1 + t <= lb /\ 1 + t <= lc
    OBVIOUS
  <2>2. \A i \in 1 .. lb : i <= lc => b[i] = c[i]
    OBVIOUS
  <2> HIDE DEF lb, lc
  <2>3. 1 + k \in 1 .. lb /\ 1 + k <= lc
    BY <2>1
  <2> QED
    BY <2>2, <2>3
<1>5. [k \in 1 .. t |-> b[1 + k]] = [k \in 1 .. t |-> c[1 + k]]
  BY <1>4
<1> QED
  BY <1>1, <1>2, <1>3, <1>5

(* They have the same tag.                                                 *)
LEMMA FirstShows ==
  ASSUME NEW b \in Seq(Bytes), NEW c \in Seq(Bytes), b # <<>>, Len(c) > 0,
         \A i \in 1 .. Len(b) : i <= Len(c) => b[i] = c[i]
  PROVE  b[1] = c[1]
<1> DEFINE lb == Len(b)
           lc == Len(c)
<1>1. lb \in Nat /\ lc \in Nat /\ lb > 0 /\ lc > 0
  OBVIOUS
<1>2. \A i \in 1 .. lb : i <= lc => b[i] = c[i]
  OBVIOUS
<1> HIDE DEF lb, lc
<1>3. 1 \in 1 .. lb /\ 1 <= lc
  BY <1>1
<1> QED
  BY <1>2, <1>3

(* A whole tag at a literal: the decoder takes it for a literal of that    *)
(* length.                                                                 *)
LEMMA LiteralRead ==
  ASSUME NEW item \in SmallItems, item.kind = "literal", NEW w, w.buf \in Seq(Bytes), TagIn(w),
         \A i \in 1 .. Len(w.buf) : i <= Len(EncodeItem(item)) => w.buf[i] = EncodeItem(item)[i]
  PROVE  LiteralShows(w, item)
<1> DEFINE b == item.bytes
           t == LengthTrailers(Len(b))
           c == EncodeItem(item)
           x == w.buf
<1>1. b \in Seq(Bytes) /\ 1 <= Len(b) /\ Len(b) <= BlockSize
  BY SmallItem
<1>2. c = EncodeLiteral(b)
  BY DEF EncodeItem
<1>3. CodeOfLiteral(EncodeLiteral(b), b, t)
  BY <1>1, LiteralCode
<1>4. /\ x \in Seq(Bytes) /\ x # <<>> /\ Len(x) > Trailers(x[1])
      /\ \A i \in 1 .. Len(x) : i <= Len(c) => x[i] = c[i]
  BY DEF TagIn
<1> HIDE DEF b, t, c, x
<1>5. /\ c \in Seq(Bytes) /\ Len(c) = 1 + t + Len(b) /\ t \in 0 .. 2
      /\ IsLiteral(c[1]) /\ Trailers(c[1]) = t
      /\ t = 0 => TagLength(c[1]) = Len(b)
      /\ t > 0 => TagLength(c[1]) > 60 /\ LittleEndianValue(SubSeq(c, 2, 1 + t)) + 1 = Len(b)
      /\ \A k \in 1 .. Len(b) : c[1 + t + k] = b[k]
  BY <1>2, <1>3 DEF CodeOfLiteral
<1>6. Len(b) \in Nat /\ Len(c) \in Nat /\ Len(x) \in Nat
  BY <1>1, <1>4, <1>5
<1>7. Len(c) > 0 /\ 1 + t <= Len(c)
  BY <1>5, <1>6
<1>8. x[1] = c[1]
  BY <1>4, <1>5, <1>7, FirstShows
<1>9. Trailers(x[1]) = t
  BY <1>5, <1>8
<1>10. 1 + t <= Len(x)
  BY <1>4, <1>5, <1>6, <1>9
<1>11. SubSeq(x, 2, 1 + t) = SubSeq(c, 2, 1 + t)
  <2>1. t \in Nat
    BY <1>5
  <2> QED
    BY <1>4, <1>5, <1>7, <1>10, <2>1, SameTrailers
<1>12. TrailerValue(w) = LittleEndianValue(SubSeq(c, 2, 1 + t))
  BY <1>9, <1>11 DEF TrailerValue, x
<1>13. LiteralLength(w) = Len(b)
  <2> DEFINE y == x[1]
  <2>1. y \in Bytes
    BY <1>4, FirstByte
  <2>2. TagLength(y) \in Nat /\ (IsLiteral(y) => Trailers(y) = IF TagLength(y) > 60 THEN TagLength(y) - 60 ELSE 0)
    BY <2>1, TagTypes, Zenon
  <2>3. IsLiteral(y) /\ Trailers(y) = t
    BY <1>5, <1>8, <1>9
  <2> HIDE DEF y
  <2>4. CASE t = 0
    <3>1. TagLength(y) = Len(b)
      BY <1>5, <1>8, <2>4 DEF y
    <3>2. TagLength(y) <= 60
      BY <2>2, <2>3, <2>4
    <3> QED
      BY <3>1, <3>2 DEF LiteralLength, x, y
  <2>5. CASE t # 0
    <3>1. TagLength(y) > 60 /\ TrailerValue(w) + 1 = Len(b) /\ t # 4
      BY <1>5, <1>8, <1>12, <2>5 DEF y
    <3>2. ~ (TagLength(y) <= 60)
      BY <2>2, <3>1
    <3>3. Trailers(y) # 4
      BY <2>3, <3>1
    <3> QED
      BY <3>1, <3>2, <3>3, Zenon DEF LiteralLength, x, y
  <2> QED
    BY <2>4, <2>5
<1>14. t \in Nat /\ IsLiteral(x[1])
  BY <1>5, <1>8
<1> QED
  BY <1>5, <1>9, <1>13, <1>14, Zenon DEF LiteralShows, b, c, x

(* A whole tag at a copy: the decoder takes it for that copy.              *)
LEMMA CopyRead ==
  ASSUME NEW item \in SmallItems, item.kind # "literal", NEW w, w.buf \in Seq(Bytes), TagIn(w),
         \A i \in 1 .. Len(w.buf) : i <= Len(EncodeItem(item)) => w.buf[i] = EncodeItem(item)[i]
  PROVE  CopyShows(w, item)
<1> DEFINE c == EncodeItem(item)
           x == w.buf
           t == Trailers(c[1])
<1>1. item.offset \in Nat /\ 0 < item.offset /\ item.offset < BlockSize /\ item.len \in 4 .. 64
  BY SmallItem
<1>2. c = EncodeCopy(item.offset, item.len)
  BY DEF EncodeItem
<1>3. CodeOfCopy(EncodeCopy(item.offset, item.len), item.offset, item.len)
  BY <1>1, CopyCode
<1>4. /\ x \in Seq(Bytes) /\ x # <<>> /\ Len(x) > Trailers(x[1])
      /\ \A i \in 1 .. Len(x) : i <= Len(c) => x[i] = c[i]
  BY DEF TagIn
<1> HIDE DEF c, x
<1>5. /\ c \in Seq(Bytes) /\ Len(c) = 1 + t /\ t \in 1 .. 2
      /\ ~ IsLiteral(c[1]) /\ TagLength(c[1]) = item.len
      /\ TagOffset(c[1]) + LittleEndianValue(SubSeq(c, 2, 1 + t)) = item.offset
  BY <1>2, <1>3, Zenon DEF CodeOfCopy
<1>t. t = Trailers(c[1])
  OBVIOUS
<1> HIDE DEF t
<1>6. Len(c) \in Nat /\ Len(x) \in Nat
  BY <1>4, <1>5
<1>7. Len(c) > 0 /\ 1 + t <= Len(c)
  BY <1>5, <1>6
<1>8. x[1] = c[1]
  BY <1>4, <1>5, <1>7, FirstShows
<1>9. Trailers(x[1]) = t
  BY <1>8, <1>t
<1>10. 1 + t <= Len(x)
  BY <1>4, <1>5, <1>6, <1>9
<1>11. SubSeq(x, 2, 1 + t) = SubSeq(c, 2, 1 + t)
  <2>1. t \in Nat
    BY <1>5
  <2> QED
    BY <1>4, <1>5, <1>7, <1>10, <2>1, SameTrailers
<1>12. TrailerValue(w) = LittleEndianValue(SubSeq(c, 2, 1 + t))
  BY <1>9, <1>11 DEF TrailerValue, x
<1>13. t \in Nat
  BY <1>5
<1> QED
  BY <1>5, <1>8, <1>9, <1>12, <1>13, Zenon DEF CopyShows, c, x

(* A code has the trailers that its tag announces.                         *)
LEMMA CodeHasTrailers ==
  ASSUME NEW item \in SmallItems
  PROVE  Len(EncodeItem(item)) >= 1 + Trailers(EncodeItem(item)[1])
<1> DEFINE c == EncodeItem(item)
<1>1. CASE item.kind = "literal"
  <2> DEFINE b == item.bytes
             t == LengthTrailers(Len(b))
  <2>1. b \in Seq(Bytes) /\ 1 <= Len(b) /\ Len(b) <= BlockSize /\ c = EncodeLiteral(b)
    BY <1>1, SmallItem DEF EncodeItem
  <2> HIDE DEF c
  <2>2. CodeOfLiteral(c, b, t)
    BY <2>1, LiteralCode
  <2> HIDE DEF b, t
  <2>3. Len(c) = 1 + t + Len(b) /\ t \in 0 .. 2 /\ Trailers(c[1]) = t
    BY <2>2 DEF CodeOfLiteral
  <2>4. Len(b) \in Nat
    BY <2>1
  <2>5. Len(c) >= 1 + Trailers(c[1])
    BY <2>3, <2>4
  <2> QED
    BY <2>5 DEF c
<1>2. CASE item.kind # "literal"
  <2>1. item.offset \in Nat /\ 0 < item.offset /\ item.offset < BlockSize /\ item.len \in 4 .. 64
        /\ c = EncodeCopy(item.offset, item.len)
    BY <1>2, SmallItem DEF EncodeItem
  <2> HIDE DEF c
  <2>2. CodeOfCopy(c, item.offset, item.len)
    BY <2>1, CopyCode
  <2>3. Len(c) = 1 + Trailers(c[1]) /\ Trailers(c[1]) \in 1 .. 2
    BY <2>2, Zenon DEF CodeOfCopy
  <2>4. Len(c) >= 1 + Trailers(c[1])
    BY <2>3
  <2> QED
    BY <2>4 DEF c
<1> QED
  BY <1>1, <1>2

-----------------------------------------------------------------------------
(* The decoder is between two items, or has some of a literal still to     *)
(* come; or it has read a literal behind the sink, for which the file has  *)
(* no more room.                                                           *)
Right == op \in Nat /\ op <= Len(file) /\ \A i \in 1 .. op : mem[i] = file[i]

AtTag(e, d, g, start, k) ==
  WindowOf(Current, g, start, Place(e, k)) /\ op = Len(d[k])

InLiteral(items, e, d, g, start, k) ==
  /\ items[k].kind = "literal" /\ owed <= Len(items[k].bytes)
  /\ WindowOf(Current, g, start, Place(e, k) - owed) /\ op = Len(d[k]) - owed

Beyond == expected = Len(file) /\ ~ whole /\ op = Len(file) /\ owed > 0

BetweenItems ==
  \E items, e, d, g, start :
    Telling(items, e, d, g, start) /\ \E k \in 0 .. Len(items) : AtTag(e, d, g, start, k)

WithinItem ==
  \E items, e, d, g, start :
    Telling(items, e, d, g, start) /\ \E k \in 1 .. Len(items) : InLiteral(items, e, d, g, start, k)

DecodesRight ==
  /\ Right
  /\ phase = "ok" => whole /\ op = Len(file)
  /\ phase = "eio" => ~ whole
  /\ phase = "tags" => BetweenItems
  /\ phase = "literal" => Beyond \/ WithinItem

(* More of the file in the memory.                                         *)
LEMMA MoreRight ==
  ASSUME Right, NEW m, NEW n \in Nat, op + n <= Len(file), mem' = m, op' = op + n, file' = file,
         \A i \in 1 .. op : m[i] = mem[i], \A i \in 1 .. n : m[op + i] = file[op + i]
  PROVE  Right'
<1>1. op \in Nat /\ \A i \in 1 .. op : mem[i] = file[i]
  BY DEF Right
<1>2. ASSUME NEW i \in 1 .. op + n
      PROVE  m[i] = file[i]
  <2>1. CASE i <= op
    <3>1. i \in 1 .. op
      BY <1>1, <2>1
    <3> QED
      BY <1>1, <3>1
  <2>2. CASE ~ (i <= op)
    <3>1. i - op \in 1 .. n /\ op + (i - op) = i
      BY <1>1, <2>2
    <3>2. m[op + (i - op)] = file[op + (i - op)]
      BY <3>1
    <3> QED
      BY <3>1, <3>2
  <2> QED
    BY <2>1, <2>2
<1>3. op + n \in Nat
  BY <1>1
<1> QED
  BY <1>2, <1>3 DEF Right

(* The next bytes of the file are put behind those that are there.         *)
LEMMA PutRight ==
  ASSUME Right, Written, NEW b \in Seq(Bytes), NEW n \in Nat, n <= Len(b), op + n <= Len(file),
         \A i \in 1 .. n : file[op + i] = b[i],
         mem' = Put(mem, op, b), op' = op + n, file' = file
  PROVE  Right'
<1>1. op \in Nat /\ mem \in Seq(Cells) /\ op <= Len(mem)
  BY DEF Written
<1>2. b \in Seq(Cells)
  <2>1. \A x \in Bytes : x \in Cells
    BY ByteIs DEF Cells
  <2>2. Len(b) \in Nat /\ b = [k \in 1 .. Len(b) |-> b[k]] /\ \A k \in 1 .. Len(b) : b[k] \in Bytes
    OBVIOUS
  <2>3. \A k \in 1 .. Len(b) : b[k] \in Cells
    BY <2>1, <2>2
  <2> QED
    BY <2>2, <2>3, MakeSeq
<1> DEFINE m == Put(mem, op, b)
<1>3. (\A k \in 1 .. op : m[k] = mem[k]) /\ (\A k \in 1 .. Len(b) : m[op + k] = b[k])
  BY <1>1, <1>2, PutIs
<1>4. mem' = m
  OBVIOUS
<1> HIDE DEF m
<1>5. ASSUME NEW i \in 1 .. n
      PROVE  m[op + i] = file[op + i]
  <2>1. i \in 1 .. Len(b)
    <3>1. Len(b) \in Nat
      OBVIOUS
    <3> QED
      BY <3>1
  <2> QED
    BY <1>3, <2>1
<1> QED
  BY <1>3, <1>4, <1>5, MoreRight

(* Where the decoder is, the file and the sink are as far along.           *)
LEMMA TagPlace ==
  ASSUME NEW items, NEW e, NEW d, NEW g, NEW start, Telling(items, e, d, g, start),
         NEW k \in 0 .. Len(items)
  PROVE  /\ Len(g) \in Nat /\ Len(sink) \in Nat /\ Len(file) \in Nat /\ Len(items) \in Nat
         /\ Place(e, k) \in Nat /\ Len(d[k]) \in Nat
         /\ k = Len(items) => Place(e, k) = Len(sink) /\ Len(d[k]) = Len(file)
         /\ k # Len(items) => Place(e, k) < Len(sink) /\ Len(d[k]) < Len(file)
         /\ whole <=> Len(g) = Len(sink)
<1> DEFINE n == Len(items)
<1>1. Coded(items, e, d) /\ Handed(g) /\ sink \in Seq(Bytes)
  BY DEF Telling
<1>2. n \in Nat /\ Len(file) \in Nat /\ Len(sink) \in Nat /\ Place(e, n) = Len(sink) /\ Len(d[n]) = Len(file)
  BY <1>1, CodedEnd
<1>3. Len(g) \in Nat /\ (whole <=> Len(g) = Len(sink))
  <2>1. g \in Seq(Bytes) /\ (whole <=> Len(g) = Len(sink))
    BY <1>1 DEF Handed
  <2> QED
    BY <2>1
<1>n. n = Len(items)
  OBVIOUS
<1> HIDE DEF n
<1>4. CASE k = n
  BY <1>2, <1>3, <1>4, <1>n
<1>5. CASE k # n
  <2>1. k \in 0 .. Len(items) - 1
    BY <1>2, <1>5, <1>n
  <2>2. CodeThere(items, e, k) /\ Place(e, k) \in Nat /\ items[k + 1] \in SmallItems
    BY <1>1, <2>1, ItemCoded
  <2>3. Place(e, k + 1) = Place(e, k) + Len(EncodeItem(items[k + 1])) /\ Place(e, k + 1) <= Len(sink)
    BY <2>2 DEF CodeThere
  <2>4. Len(EncodeItem(items[k + 1])) \in Nat /\ Len(EncodeItem(items[k + 1])) > 0
    BY <2>2, ItemCode
  <2> DEFINE p == Place(e, k)
             l == Len(EncodeItem(items[k + 1]))
             s == Len(sink)
  <2>5. p \in Nat /\ l \in Nat /\ l > 0 /\ p + l <= s /\ s \in Nat
    BY <1>2, <2>2, <2>3, <2>4
  <2> HIDE DEF p, l, s
  <2>6. p < s
    BY <2>5
  <2>7. Len(d[k]) \in Nat /\ Len(d[k]) < Len(file)
    <3>1. /\ Len(d[k]) \in Nat /\ Len(d[k + 1]) \in Nat /\ Len(file) \in Nat
          /\ ItemLength(items[k + 1]) \in Nat /\ ItemLength(items[k + 1]) >= 1
          /\ Len(d[k + 1]) = Len(d[k]) + ItemLength(items[k + 1]) /\ Len(d[k + 1]) <= Len(file)
      BY <1>1, <2>1, MoreText
    <3> DEFINE x == Len(d[k])
               y == Len(d[k + 1])
               i == ItemLength(items[k + 1])
               f == Len(file)
    <3>2. x \in Nat /\ i \in Nat /\ i >= 1 /\ y = x + i /\ y <= f /\ f \in Nat
      BY <3>1
    <3> HIDE DEF x, y, i, f
    <3>3. x \in Nat /\ x < f
      BY <3>2
    <3> QED
      BY <3>3 DEF x, f
  <2> QED
    BY <1>2, <1>3, <1>5, <1>n, <2>2, <2>6, <2>7 DEF p, s
<1> QED
  BY <1>4, <1>5

(* The end of what it was given.                                           *)
LEMMA EndDecodes ==
  ASSUME DecodesRight, EndOfInput
  PROVE  DecodesRight'
<1>1. phase = "tags" /\ UNCHANGED <<file, op, mem, whole>>
  BY DEF EndOfInput, decoderVars
<1>2. PICK items, e, d, g, start : 
        Telling(items, e, d, g, start) /\ \E k \in 0 .. Len(items) : AtTag(e, d, g, start, k)
  BY <1>1 DEF DecodesRight, BetweenItems
<1>3. PICK k \in 0 .. Len(items) : AtTag(e, d, g, start, k)
  BY <1>2
<1> DEFINE q == Place(e, k)
           n == Len(items)
           b == Refilled.buf
<1>4. WindowOf(Refilled, g, start, q) /\ (b = <<>> => q = Len(g)) /\ WholeTag(b, q, g)
  <2>1. LaidFull(reader.iov, g, start) /\ WindowOf(Current, g, start, q)
    BY <1>2, <1>3 DEF Telling, AtTag
  <2> QED
    BY <2>1, RefilledWindow
<1>5. op = Len(d[k]) /\ expected = Len(file) /\ Coded(items, e, d) /\ Handed(g)
  BY <1>2, <1>3 DEF AtTag, Telling
<1>6. /\ Len(g) \in Nat /\ Len(sink) \in Nat /\ Len(file) \in Nat /\ n \in Nat
      /\ q \in Nat /\ Len(d[k]) \in Nat
      /\ k = n => q = Len(sink) /\ Len(d[k]) = Len(file)
      /\ k # n => q < Len(sink) /\ Len(d[k]) < Len(file)
      /\ whole <=> Len(g) = Len(sink)
  BY <1>2, TagPlace
<1>7. \/ b = <<>> /\ phase' = IF op = expected THEN "ok" ELSE "eio"
      \/ b # <<>> /\ Len(b) <= Trailers(b[1]) /\ phase' = "eio"
  BY DEF EndOfInput
<1>q. q = Place(e, k) /\ b = Refilled.buf
  OBVIOUS
<1> HIDE DEF q, n, b
<1>8. CASE b = <<>>
  <2>1. phase' = IF op = expected THEN "ok" ELSE "eio"
    BY <1>7, <1>8
  <2>2. q = Len(g)
    BY <1>4, <1>8
  <2>3. CASE k = n
    <3>1. op = expected /\ op = Len(file) /\ whole
      BY <1>5, <1>6, <2>2, <2>3
    <3>2. phase' = "ok"
      BY <2>1, <3>1
    <3> QED
      BY <1>1, <3>1, <3>2 DEF DecodesRight, Right
  <2>4. CASE k # n
    <3>1. op # expected /\ ~ whole
      BY <1>5, <1>6, <2>2, <2>4
    <3>2. phase' = "eio"
      BY <2>1, <3>1
    <3> QED
      BY <1>1, <3>1, <3>2 DEF DecodesRight, Right
  <2> QED
    BY <2>3, <2>4
<1>9. CASE b # <<>>
  <2>1. Len(b) <= Trailers(b[1]) /\ phase' = "eio"
    BY <1>7, <1>9
  <2>2. b \in Seq(Bytes)
    BY <1>4, <1>q DEF WindowOf
  <2>3. Len(b) \in Nat /\ Len(b) > 0 /\ Trailers(b[1]) \in Nat /\ b[1] \in Bytes
    BY <1>9, <2>2, FirstByte
  <2>4. q + Len(b) = Len(g)
    <3>1. ~ (Len(b) > Trailers(b[1]))
      BY <2>1, <2>3
    <3> QED
      BY <1>4, <1>9, <3>1 DEF WholeTag
  <2>5. ~ whole
    <3>1. CASE k = n
      <4> DEFINE lb == Len(b)
                 lg == Len(g)
                 ls == Len(sink)
      <4>1. lb \in Nat /\ lb > 0 /\ q \in Nat /\ q + lb = lg /\ q = ls /\ (whole <=> lg = ls)
        BY <1>6, <2>3, <2>4, <3>1
      <4> HIDE DEF lb, lg, ls
      <4>2. lg # ls
        BY <4>1
      <4> QED
        BY <4>1, <4>2
    <3>2. CASE k # n
      <4>1. k \in 0 .. Len(items) - 1
        BY <1>6, <3>2 DEF n
      <4> DEFINE c == EncodeItem(items[k + 1])
                 w == Refilled
      <4>2. /\ \A i \in 1 .. Len(w.buf) : i <= Len(c) => w.buf[i] = c[i]
            /\ c \in Seq(Bytes) /\ Len(c) > 0 /\ Place(e, k) \in Nat
            /\ Place(e, k + 1) = Place(e, k) + Len(c) /\ Place(e, k + 1) <= Len(sink)
        <5>1. WindowOf(w, g, start, Place(e, k))
          BY <1>4, <1>q
        <5> HIDE DEF w
        <5> QED
          BY <1>5, <4>1, <5>1, WindowShows
      <4>3. b[1] = c[1]
        <5>1. \A i \in 1 .. Len(b) : i <= Len(c) => b[i] = c[i]
          BY <1>q, <4>2
        <5> HIDE DEF c
        <5> QED
          BY <1>9, <2>2, <4>2, <5>1, FirstShows
      <4>4. items[k + 1] \in SmallItems
        BY <1>5, <4>1, ItemCoded
      <4>5. Len(c) >= 1 + Trailers(c[1])
        BY <4>4, CodeHasTrailers
      <4> DEFINE lb == Len(b)
                 lg == Len(g)
                 ls == Len(sink)
                 lc == Len(c)
                 t == Trailers(b[1])
      <4>6. /\ lb \in Nat /\ lg \in Nat /\ ls \in Nat /\ t \in Nat /\ q \in Nat /\ lc \in Nat
            /\ lb <= t /\ lc >= 1 + t /\ q + lc <= ls /\ q + lb = lg /\ (whole <=> lg = ls)
        <5>1. Len(c) \in Nat
          BY <4>2
        <5> HIDE DEF c
        <5> QED
          BY <1>6, <1>q, <2>1, <2>3, <2>4, <4>2, <4>3, <4>5, <5>1
      <4> HIDE DEF lb, lg, ls, lc, t
      <4>7. lg # ls
        BY <4>6
      <4> QED
        BY <4>6, <4>7
    <3> QED
      BY <3>1, <3>2
  <2> QED
    BY <1>1, <2>1, <2>5 DEF DecodesRight, Right
<1> QED
  BY <1>8, <1>9

-----------------------------------------------------------------------------
(* Sums, and the front of a sequence of bytes.                             *)
LEMMA Less ==
  ASSUME NEW a \in Nat, NEW b \in Nat, NEW c, c = a + b
  PROVE  c \in Nat /\ c - b = a /\ b <= c /\ a <= c
  OBVIOUS

(* Arithmetic of an item that is a tag, its trailers and its bytes.        *)
LEMMA SumOfThree ==
  ASSUME NEW q \in Nat, NEW t \in Nat, NEW l \in Nat, NEW c, c = 1 + t + l, NEW p, p = q + c
  PROVE  q + (1 + t) \in Nat /\ p = q + (1 + t) + l /\ p - l = q + (1 + t)
  OBVIOUS


-----------------------------------------------------------------------------
(* A window after a step.                                                  *)
LEMMA NextAtTag ==
  ASSUME NEW e, NEW d, NEW g, NEW start, NEW j, NEW x, WindowOf(x, g, start, Place(e, j)),
         x = [buf |-> buf', peeked |-> peeked', reader |-> reader'],
         file' = file, op' = Len(d[j])
  PROVE  AtTag(e, d, g, start, j)'
<1>1. Current' = x
  BY DEF Current
<1>2. Place(e, j)' = Place(e, j)
  BY DEF Place
<1>3. WindowOf(Current, g, start, Place(e, j))'
  BY <1>1, <1>2 DEF WindowOf
<1> QED
  BY <1>3 DEF AtTag

(* A step to the inside of a literal.                                      *)
LEMMA NextInLiteral ==
  ASSUME NEW items, NEW e, NEW d, NEW g, NEW start, NEW j, NEW o, o = owed', NEW x,
         WindowOf(x, g, start, Place(e, j) - o),
         x = [buf |-> buf', peeked |-> peeked', reader |-> reader'],
         file' = file, op' = Len(d[j]) - o,
         items[j].kind = "literal", o <= Len(items[j].bytes)
  PROVE  InLiteral(items, e, d, g, start, j)'
<1>1. Current' = x
  BY DEF Current
<1>2. (Place(e, j) - owed)' = Place(e, j) - o
  BY DEF Place
<1>3. WindowOf(Current, g, start, Place(e, j) - owed)'
  BY <1>1, <1>2 DEF WindowOf
<1>4. (items[j].kind = "literal" /\ owed <= Len(items[j].bytes) /\ op = Len(d[j]) - owed)'
  OBVIOUS
<1> QED
  BY <1>3, <1>4 DEF InLiteral

(* What the window shows behind the tag of a literal.                      *)
RestShows(w, item) ==
  /\ AfterTag(w) \in Seq(Bytes) /\ Len(AfterTag(w)) \in Nat
  /\ 1 + Trailers(w.buf[1]) + Len(AfterTag(w)) = Len(w.buf)
  /\ \A j \in 1 .. Len(AfterTag(w)) : j <= Len(item.bytes) => AfterTag(w)[j] = item.bytes[j]

(* What is behind a tag, in the window.                                    *)
LEMMA RestIs ==
  ASSUME NEW w, w.buf \in Seq(Bytes), TagIn(w), NEW t \in Nat, t = Trailers(w.buf[1])
  PROVE  /\ AfterTag(w) \in Seq(Bytes) /\ Len(AfterTag(w)) \in Nat
         /\ 1 + t + Len(AfterTag(w)) = Len(w.buf) /\ 1 + t <= Len(w.buf)
         /\ AfterTag(w) = SubSeq(w.buf, (1 + t) + 1, Len(w.buf))
         /\ \A j \in 1 .. Len(AfterTag(w)) : AfterTag(w)[j] = w.buf[1 + t + j]
<1> DEFINE b == w.buf
           l == Len(b)
           r == AfterTag(w)
<1>1. b \in Seq(Bytes) /\ l \in Nat /\ l > t
  BY DEF TagIn
<1>2. r = SubSeq(b, 2 + t, l) /\ 2 + t = (1 + t) + 1
  BY DEF AfterTag
<1>3. l <= Len(b)
  BY <1>1
<1> HIDE DEF b, r
<1>4. 1 + t \in Nat /\ 1 + t <= l
  <2> HIDE DEF l
  <2> QED
    BY <1>1
<1>5. r = [j \in 1 .. l - (1 + t) |-> b[(1 + t) + j]] /\ r \in Seq(Bytes) /\ Len(r) = l - (1 + t)
      /\ r = SubSeq(b, (1 + t) + 1, l)
  <2>1. SubSeq(b, (1 + t) + 1, l) = [j \in 1 .. l - (1 + t) |-> b[(1 + t) + j]]
        /\ SubSeq(b, (1 + t) + 1, l) \in Seq(Bytes) /\ Len(SubSeq(b, (1 + t) + 1, l)) = l - (1 + t)
    BY <1>1, <1>3, <1>4, Part, ZenonT(60)
  <2> QED
    BY <1>2, <2>1
<1> DEFINE lr == Len(r)
<1>6. lr = l - (1 + t)
  BY <1>5
<1>7. \A j \in 1 .. lr : r[j] = b[1 + t + j]
  BY <1>5, <1>6
<1> HIDE DEF l
<1>8. lr \in Nat /\ 1 + t + lr = l
  <2>1. lr \in Nat
    <3>1. r \in Seq(Bytes)
      BY <1>5
    <3> QED
      BY <3>1
  <2>2. t \in Nat
    BY <1>1
  <2> HIDE DEF lr
  <2> QED
    BY <1>1, <1>6, <2>1, <2>2
<1> HIDE DEF lr
<1> QED
  BY <1>4, <1>5, <1>7, <1>8 DEF lr, l, b, r

(* Behind the tag of a literal are its bytes, as far as the window shows.  *)
LEMMA LiteralRest ==
  ASSUME NEW item \in SmallItems, item.kind = "literal", NEW w, w.buf \in Seq(Bytes), TagIn(w),
         LiteralShows(w, item),
         \A i \in 1 .. Len(w.buf) : i <= Len(EncodeItem(item)) => w.buf[i] = EncodeItem(item)[i]
  PROVE  RestShows(w, item)
<1> DEFINE b == w.buf
           t == Trailers(b[1])
           c == EncodeItem(item)
           y == item.bytes
           r == AfterTag(w)
           l == Len(b)
           lr == Len(r)
           lc == Len(c)
           ly == Len(y)
<1>1. t \in Nat /\ lc = 1 + t + ly /\ \A j \in 1 .. ly : c[1 + t + j] = y[j]
  BY DEF LiteralShows
<1>2. r \in Seq(Bytes) /\ lr \in Nat /\ 1 + t + lr = l /\ \A j \in 1 .. lr : r[j] = b[1 + t + j]
  BY <1>1, RestIs
<1>3. ly \in Nat
  <2>1. y \in Seq(Bytes)
    BY SmallItem
  <2> QED
    BY <2>1
<1>4. \A i \in 1 .. l : i <= lc => b[i] = c[i]
  OBVIOUS
<1> HIDE DEF b, t, c, y, r, l, lr, lc, ly
<1>5. ASSUME NEW j \in 1 .. lr, j <= ly
      PROVE  r[j] = y[j]
  <2>1. 1 + t + j \in 1 .. l /\ 1 + t + j <= lc /\ j \in 1 .. ly
    BY <1>1, <1>2, <1>3, <1>5
  <2> QED
    BY <1>1, <1>2, <1>4, <2>1
<1> QED
  BY <1>2, <1>5 DEF RestShows, b, t, c, y, r, l, lr, ly

(* The decoder at a literal of the file: it takes all of it, or begins to. *)
LEMMA LiteralTagAtItem ==
  ASSUME Right, Written, LiteralTag,
         NEW items, NEW e, NEW d, NEW g, NEW start, Telling(items, e, d, g, start),
         NEW k \in 0 .. Len(items) - 1, AtTag(e, d, g, start, k)
  PROVE  /\ Right'
         /\ \/ phase' = "tags" /\ AtTag(e, d, g, start, k + 1)'
            \/ phase' = "literal" /\ InLiteral(items, e, d, g, start, k + 1)'
         /\ Refilled.reader.iov = reader.iov
<1> DEFINE w == Refilled
           b == w.buf
           t == Trailers(b[1])
           item == items[k + 1]
           c == EncodeItem(item)
           r == AfterTag(w)
           len == LiteralLength(w)
           q == Place(e, k)
<1>1. /\ phase = "tags" /\ TagIn(w) /\ IsLiteral(b[1]) /\ file' = file
      /\ reader' = w.reader /\ peeked' = w.peeked
  BY DEF LiteralTag, TagIn
<1>2. \/ /\ TagLength(b[1]) <= 16 /\ Len(r) >= 16 /\ SpaceLeft >= 16
         /\ mem' = Put(mem, op, SubSeq(r, 1, 16))
         /\ op' = op + len
         /\ buf' = SubSeq(r, len + 1, Len(r))
         /\ phase' = phase /\ owed' = owed
      \/ owed' = len /\ buf' = r /\ phase' = "literal" /\ op' = op /\ mem' = mem
  BY DEF LiteralTag
<1>3. /\ Coded(items, e, d) /\ Handed(g) /\ g \in Seq(Bytes) /\ LaidFull(reader.iov, g, start)
      /\ WindowOf(Current, g, start, q) /\ op = Len(d[k])
  BY DEF Telling, AtTag, Handed
<1>4. WindowOf(w, g, start, q) /\ w.reader.iov = reader.iov
  BY <1>3, RefilledWindow
<1>5. item \in SmallItems /\ TextThere(items, d, k)
  BY <1>3, ItemCoded, ItemText
<1> HIDE DEF w
<1>6. /\ \A i \in 1 .. Len(b) : i <= Len(c) => b[i] = c[i]
      /\ q \in Nat /\ Place(e, k + 1) = q + Len(c)
  BY <1>3, <1>4, WindowShows, SMTT(40)
<1>7. b \in Seq(Bytes)
  BY <1>4 DEF WindowOf
<1>8. item.kind = "literal"
  <2>1. CASE item.kind # "literal"
    <3>1. CopyShows(w, item)
      <4> HIDE DEF item, c
      <4> QED
        BY <1>1, <1>5, <1>6, <1>7, <2>1, CopyRead DEF c
    <3> QED
      BY <1>1, <3>1 DEF CopyShows
  <2> QED
    BY <2>1
<1>9. LiteralShows(w, item)
  <2> HIDE DEF item, c
  <2> QED
    BY <1>1, <1>5, <1>6, <1>7, <1>8, LiteralRead DEF c
<1>10. RestShows(w, item)
  <2> HIDE DEF item, c
  <2> QED
    BY <1>1, <1>5, <1>6, <1>7, <1>8, <1>9, LiteralRest DEF c
<1>11. t \in Nat /\ Len(c) = 1 + t + Len(item.bytes) /\ len = Len(item.bytes)
  BY <1>9 DEF LiteralShows
<1>12. /\ r \in Seq(Bytes) /\ Len(r) \in Nat /\ 1 + t + Len(r) = Len(b) /\ 1 + t <= Len(b)
       /\ r = SubSeq(b, (1 + t) + 1, Len(b))
  BY <1>1, <1>7, <1>11, RestIs
<1>13. \A j \in 1 .. Len(r) : j <= Len(item.bytes) => r[j] = item.bytes[j]
  BY <1>10 DEF RestShows
<1>14. len \in Nat
  <2>1. item.bytes \in Seq(Bytes)
    BY <1>5, <1>8, SmallItem
  <2> QED
    BY <1>11, <2>1
<1>15. /\ Len(d[k]) \in Nat /\ Len(d[k + 1]) = Len(d[k]) + len /\ Len(d[k + 1]) <= Len(file)
       /\ \A i \in 1 .. len : file[Len(d[k]) + i] = item.bytes[i]
  <2>1. ItemLength(item) = len /\ Added(d[k], item) = item.bytes
    BY <1>8, <1>11 DEF ItemLength, Added
  <2>2. d[k] \in Seq(Bytes)
    BY <1>5 DEF TextThere
  <2>3. Len(d[k]) \in Nat
    BY <2>2
  <2> QED
    BY <1>5, <2>1, <2>3 DEF TextThere
<1> DEFINE x == [buf |-> r, peeked |-> w.peeked, reader |-> w.reader]
<1>16. x.buf = r /\ x.peeked = w.peeked /\ x.reader = w.reader
  OBVIOUS
<1>17. WindowOf(x, g, start, q + (1 + t))
  <2>1. 1 + t \in Nat /\ 1 + t <= Len(w.buf) /\ x.buf = SubSeq(w.buf, (1 + t) + 1, Len(w.buf))
    <3> HIDE DEF x, r
    <3>1. 1 + t \in Nat
      BY <1>11
    <3> QED
      BY <1>12, <1>16, <3>1
  <2> HIDE DEF x, t
  <2> QED
    BY <1>3, <1>4, <1>16, <2>1, WindowRest
<1>18. /\ q + (1 + t) + len = Place(e, k + 1) /\ q + (1 + t) \in Nat
       /\ Place(e, k + 1) - len = q + (1 + t)
  <2> HIDE DEF c, item, q, t, len
  <2> DEFINE lc == Len(c)
             lp == Place(e, k + 1)
  <2>1. q \in Nat /\ t \in Nat /\ len \in Nat /\ lc = 1 + t + len /\ lp = q + lc
    BY <1>6, <1>11, <1>14
  <2> HIDE DEF lc, lp
  <2>2. q + (1 + t) \in Nat /\ lp = q + (1 + t) + len /\ lp - len = q + (1 + t)
    BY <2>1, SumOfThree
  <2> QED
    BY <2>2 DEF lp
<1>19. CASE owed' = len /\ buf' = r /\ phase' = "literal" /\ op' = op /\ mem' = mem
  <2>1. Right'
    BY <1>1, <1>19 DEF Right
  <2>2. x = [buf |-> buf', peeked |-> peeked', reader |-> reader']
    BY <1>1, <1>19
  <2> DEFINE lp == Place(e, k + 1)
             lf == Len(d[k + 1])
  <2>3. lp - len = q + (1 + t) /\ op' = lf - len
    <3>1. Len(d[k]) \in Nat /\ lf = Len(d[k]) + len /\ op' = Len(d[k])
      BY <1>3, <1>15, <1>19
    <3>2. lf - len = Len(d[k])
      <4> HIDE DEF lf, len
      <4> QED
        BY <1>14, <3>1, Less
    <3> QED
      BY <1>18, <3>1, <3>2
  <2>4. WindowOf(x, g, start, Place(e, k + 1) - len)
    BY <1>17, <2>3
  <2>5. items[k + 1].kind = "literal" /\ len <= Len(items[k + 1].bytes) /\ len = owed'
    BY <1>8, <1>11, <1>14, <1>19
  <2>6. op' = Len(d[k + 1]) - len
    BY <2>3
  <2> HIDE DEF x, len, item, q, t
  <2>7. InLiteral(items, e, d, g, start, k + 1)'
    BY <1>1, <2>2, <2>4, <2>5, <2>6, NextInLiteral
  <2> QED
    BY <1>4, <1>19, <2>1, <2>7 DEF w
<1>20. CASE /\ TagLength(b[1]) <= 16 /\ Len(r) >= 16 /\ SpaceLeft >= 16
            /\ mem' = Put(mem, op, SubSeq(r, 1, 16))
            /\ op' = op + len
            /\ buf' = SubSeq(r, len + 1, Len(r))
            /\ phase' = phase /\ owed' = owed
  <2>1. len = TagLength(b[1]) /\ len <= 16
    <3>1. TagLength(b[1]) <= 60
      <4>1. b # <<>>
        BY <1>1 DEF TagIn
      <4>2. b[1] \in Bytes
        BY <1>7, <4>1, FirstByte
      <4>3. TagLength(b[1]) \in Nat
        BY <4>2, TagTypes
      <4> QED
        BY <1>20, <4>3
    <3> QED
      BY <1>20, <3>1 DEF LiteralLength
  <2> DEFINE s == SubSeq(r, 1, 16)
  <2>2. s \in Seq(Bytes) /\ Len(s) = 16 /\ \A i \in 1 .. 16 : s[i] = r[i]
    <3>1. 16 \in Nat /\ 16 <= Len(r)
      <4> HIDE DEF r
      <4> QED
        BY <1>12, <1>20
    <3> HIDE DEF r
    <3> QED
      BY <1>12, <3>1, FirstOf
  <2>s. s = SubSeq(r, 1, 16)
    OBVIOUS
  <2> HIDE DEF s, r, t, item, c, q, len, x
  <2>3. Right'
    <3>1. len <= Len(s) /\ op + len <= Len(file) /\ mem' = Put(mem, op, s) /\ op' = op + len /\ file' = file
      BY <1>1, <1>3, <1>15, <1>20, <2>1, <2>2, <2>s
    <3>2. ASSUME NEW i \in 1 .. len
          PROVE  file[op + i] = s[i]
      <4>1. i \in 1 .. 16 /\ i \in 1 .. Len(r) /\ i <= Len(item.bytes)
        <5> DEFINE lr == Len(r)
                   ly == Len(item.bytes)
        <5>1. lr \in Nat /\ lr >= 16 /\ len <= 16 /\ ly = len /\ len \in Nat
          BY <1>11, <1>12, <1>14, <1>20, <2>1
        <5> HIDE DEF lr, ly
        <5>2. i \in 1 .. 16 /\ i \in 1 .. lr /\ i <= ly
          BY <5>1
        <5> QED
          BY <5>2 DEF lr, ly
      <4>2. s[i] = item.bytes[i]
        BY <1>13, <2>2, <4>1
      <4> QED
        BY <1>3, <1>15, <4>2
    <3> QED
      BY <1>14, <2>2, <3>1, <3>2, PutRight
  <2> DEFINE y == [buf |-> SubSeq(r, len + 1, Len(r)), peeked |-> w.peeked, reader |-> w.reader]
  <2>4. y.buf = SubSeq(x.buf, len + 1, Len(x.buf)) /\ y.peeked = x.peeked /\ y.reader = x.reader
    BY <1>16
  <2>5. y = [buf |-> buf', peeked |-> peeked', reader |-> reader']
    BY <1>1, <1>20
  <2> HIDE DEF y
  <2>6. WindowOf(y, g, start, q + (1 + t) + len)
    <3>1. len <= Len(x.buf)
      BY <1>12, <1>14, <1>16, <1>20, <2>1
    <3> QED
      BY <1>3, <1>14, <1>17, <2>4, <3>1, WindowRest
  <2>7. WindowOf(y, g, start, Place(e, k + 1))
    BY <1>18, <2>6
  <2>8. op' = Len(d[k + 1])
    BY <1>3, <1>15, <1>20
  <2>9. AtTag(e, d, g, start, k + 1)'
    BY <1>1, <2>5, <2>7, <2>8, NextAtTag
  <2> QED
    BY <1>1, <1>4, <1>20, <2>3, <2>9 DEF w
<1> QED
  BY <1>2, <1>19, <1>20

(* At the end of the file and the sink, there may be more to read.         *)
LEMMA BehindSink ==
  ASSUME NEW items, NEW e, NEW d, NEW g, NEW start, Telling(items, e, d, g, start),
         AtTag(e, d, g, start, Len(items)), TagIn(Refilled)
  PROVE  /\ ~ whole /\ op = Len(file) /\ expected = Len(file) /\ SpaceLeft = 0
         /\ WindowOf(Refilled, g, start, Len(sink)) /\ Refilled.reader.iov = reader.iov
<1> DEFINE n == Len(items)
           q == Place(e, n)
           w == Refilled
<1>1. n \in Nat
  BY DEF Telling, Coded
<1>2. n \in 0 .. n
  BY <1>1
<1>3. /\ Len(g) \in Nat /\ Len(sink) \in Nat /\ Len(file) \in Nat
      /\ Place(e, n) = Len(sink) /\ Len(d[n]) = Len(file) /\ (whole <=> Len(g) = Len(sink))
  BY <1>2, TagPlace
<1>4. /\ LaidFull(reader.iov, g, start) /\ expected = Len(file)
      /\ WindowOf(Current, g, start, q) /\ op = Len(d[n])
  BY DEF Telling, AtTag
<1>5. WindowOf(w, g, start, q) /\ w.reader.iov = reader.iov
  BY <1>4, RefilledWindow
<1>6. w.buf # <<>>
  BY DEF TagIn
<1> HIDE DEF w
<1>7. w.buf \in Seq(Bytes) /\ q + Len(w.buf) <= Len(g)
  BY <1>5 DEF WindowOf
<1>8. Len(w.buf) \in Nat /\ Len(w.buf) > 0
  BY <1>6, <1>7
<1>9. ~ whole
  <2> DEFINE lw == Len(w.buf)
             lg == Len(g)
             ls == Len(sink)
  <2>1. lw \in Nat /\ lw > 0 /\ lg \in Nat /\ ls \in Nat /\ ls + lw <= lg /\ (whole <=> lg = ls)
    BY <1>3, <1>7, <1>8
  <2> HIDE DEF lw, lg, ls
  <2> QED
    BY <2>1
<1>10. SpaceLeft = 0
  BY <1>3, <1>4 DEF SpaceLeft
<1> QED
  BY <1>3, <1>4, <1>5, <1>9, <1>10 DEF w

(* No literal behind the sink is empty.                                    *)
LEMMA LiteralBehindSink ==
  ASSUME NEW g, NEW start, NEW p, ~ EmptyLiteral(g, p), g \in Seq(Bytes),
         NEW w, WindowOf(w, g, start, p), TagIn(w), IsLiteral(w.buf[1])
  PROVE  LiteralLength(w) > 0
<1> DEFINE b == w.buf
           c == b[1]
           l == TagLength(c)
           t == Trailers(c)
<1>1. b \in Seq(Bytes) /\ p \in Nat /\ p + Len(b) <= Len(g) /\ b = SubSeq(g, p + 1, p + Len(b))
  BY DEF WindowOf
<1>2. b # <<>> /\ Len(b) > t
  BY DEF TagIn
<1>3. c \in Bytes
  BY <1>1, <1>2, FirstByte
<1>4. l \in Nat /\ 1 <= l /\ t \in Nat /\ t = IF l > 60 THEN l - 60 ELSE 0
  BY <1>3, TagTypes
<1>5. CASE l <= 60
  <2>1. LiteralLength(w) = l
    BY <1>5 DEF LiteralLength
  <2> QED
    BY <1>4, <2>1
<1>6. CASE ~ (l <= 60) /\ ~ (t = 4 /\ \A k \in 2 .. 5 : b[k] = 255)
  <2>1. LiteralLength(w) = TrailerValue(w) + 1
    BY <1>6, Zenon DEF LiteralLength
  <2>2. TrailerValue(w) \in Nat
    <3> HIDE DEF b, c, t
    <3>1. 1 + t <= Len(b) /\ 1 + t \in Nat /\ 1 \in Nat /\ 1 <= 1 + t
      <4>1. Len(b) \in Nat
        BY <1>1
      <4> QED
        BY <1>2, <1>4, <4>1
    <3>2. SubSeq(b, 1 + 1, 1 + t) \in Seq(Bytes)
      BY <1>1, <3>1, Part
    <3>3. SubSeq(b, 2, 1 + t) \in Seq(Bytes)
      BY <3>2
    <3> QED
      BY <3>3, LittleEndianValueType DEF TrailerValue, b, c, t
  <2> QED
    BY <2>1, <2>2
<1>7. CASE t = 4 /\ \A k \in 2 .. 5 : b[k] = 255
  <2>1. c = 252
    <3>1. l = 64
      BY <1>4, <1>7
    <3>2. c % 4 = 0
      BY DEF IsLiteral
    <3>3. l = 1 + c \div 4
      BY <3>2 DEF TagLength
    <3>4. c \in Nat
      BY <1>3, ByteIs
    <3> HIDE DEF c, l
    <3> QED
      BY <3>1, <3>2, <3>3, <3>4
  <2> DEFINE lb == Len(b)
             lg == Len(g)
  <2>2. lb \in Nat /\ lg \in Nat /\ p \in Nat /\ lb > 4 /\ p + lb <= lg
    BY <1>1, <1>2, <1>7
  <2> HIDE DEF b, c, t
  <2>3. \A i \in 1 .. lb : b[i] = g[p + i]
    <3>1. p <= p + lb /\ p + lb \in Nat /\ (p + lb) - p = lb /\ p + lb <= Len(g)
      <4>1. p <= p + lb /\ p + lb \in Nat /\ (p + lb) - p = lb
        <5> HIDE DEF lb
        <5> QED
          BY <2>2
      <4> QED
        BY <2>2, <4>1
    <3>2. b = SubSeq(g, p + 1, p + lb)
      BY <1>1
    <3> HIDE DEF lb
    <3>3. b = [i \in 1 .. (p + lb) - p |-> g[p + i]]
      BY <1>1, <3>1, <3>2, Part
    <3> QED
      BY <3>1, <3>3
  <2> HIDE DEF lb, lg
  <2>4. p + 5 <= lg /\ \A i \in 1 .. 5 : i \in 1 .. lb
    BY <2>2
  <2>5. g[p + 1] = 252
    BY <2>1, <2>3, <2>4 DEF c
  <2>6. \A k \in 2 .. 5 : g[p + k] = 255
    BY <1>7, <2>3, <2>4
  <2> QED
    BY <2>4, <2>5, <2>6 DEF EmptyLiteral, lg
<1> QED
  BY <1>5, <1>6, <1>7

(* Behind all items, what looks like a literal is not appended: there is   *)
(* no space.                                                               *)
LEMMA LiteralTagAtEnd ==
  ASSUME LiteralTag,
         NEW items, NEW e, NEW d, NEW g, NEW start, Telling(items, e, d, g, start),
         AtTag(e, d, g, start, Len(items)), Right
  PROVE  Right' /\ phase' = "literal" /\ Beyond'
<1> DEFINE w == Refilled
           len == LiteralLength(w)
<1>1. TagIn(w) /\ IsLiteral(w.buf[1]) /\ file' = file /\ whole' = whole /\ expected' = expected
  BY DEF LiteralTag
<1>2. /\ ~ whole /\ op = Len(file) /\ expected = Len(file) /\ SpaceLeft = 0
      /\ WindowOf(w, g, start, Len(sink))
  BY <1>1, BehindSink
<1>3. ~ (SpaceLeft >= 16)
  BY <1>2
<1>4. owed' = len /\ phase' = "literal" /\ op' = op /\ mem' = mem
  BY <1>3 DEF LiteralTag
<1>5. g \in Seq(Bytes) /\ ~ EmptyLiteral(g, Len(sink))
  BY DEF Telling, Handed
<1> HIDE DEF w
<1>6. len > 0
  BY <1>1, <1>2, <1>5, LiteralBehindSink
<1>7. Right'
  BY <1>1, <1>4 DEF Right
<1> HIDE DEF len
<1> QED
  BY <1>1, <1>2, <1>4, <1>6, <1>7 DEF Beyond

(* The tag of a literal keeps the decoder right.                           *)
LEMMA LiteralTagDecodes ==
  ASSUME DecodesRight, Written, LiteralTag
  PROVE  DecodesRight'
<1>1. phase = "tags" /\ UNCHANGED <<file, sink, whole, expected>> /\ reader' = Refilled.reader
  BY DEF LiteralTag, TagIn
<1>2. PICK items, e, d, g, start :
        Telling(items, e, d, g, start) /\ \E k \in 0 .. Len(items) : AtTag(e, d, g, start, k)
  BY <1>1 DEF DecodesRight, BetweenItems
<1>3. PICK k \in 0 .. Len(items) : AtTag(e, d, g, start, k)
  BY <1>2
<1>4. Right /\ Len(items) \in Nat
  BY <1>2 DEF DecodesRight, Telling, Coded
<1>5. CASE k = Len(items)
  <2>1. AtTag(e, d, g, start, Len(items)) /\ Telling(items, e, d, g, start)
    BY <1>2, <1>3, <1>5
  <2>2. Right' /\ phase' = "literal" /\ Beyond'
    BY <1>4, <2>1, LiteralTagAtEnd
  <2> QED
    BY <2>2 DEF DecodesRight
<1>6. CASE k # Len(items)
  <2>1. k \in 0 .. Len(items) - 1
    BY <1>4, <1>6
  <2>2. /\ Right'
        /\ \/ phase' = "tags" /\ AtTag(e, d, g, start, k + 1)'
           \/ phase' = "literal" /\ InLiteral(items, e, d, g, start, k + 1)'
        /\ Refilled.reader.iov = reader.iov
    BY <1>2, <1>3, <1>4, <2>1, LiteralTagAtItem
  <2>3. Telling(items, e, d, g, start)'
    <3>1. reader'.iov = reader.iov
      BY <1>1, <2>2
    <3> QED
      BY <1>1, <1>2, <3>1, TellingStays
  <2>4. k + 1 \in 1 .. Len(items) /\ k + 1 \in 0 .. Len(items)
    BY <1>4, <2>1
  <2>5. CASE phase' = "tags" /\ AtTag(e, d, g, start, k + 1)'
    <3>1. BetweenItems'
      BY <2>3, <2>4, <2>5 DEF BetweenItems
    <3> QED
      BY <2>2, <2>5, <3>1 DEF DecodesRight
  <2>6. CASE phase' = "literal" /\ InLiteral(items, e, d, g, start, k + 1)'
    <3>1. WithinItem'
      BY <2>3, <2>4, <2>6 DEF WithinItem
    <3> QED
      BY <2>2, <2>6, <3>1 DEF DecodesRight
  <2> QED
    BY <2>2, <2>5, <2>6
<1> QED
  BY <1>5, <1>6

-----------------------------------------------------------------------------
(* What is left of a literal, in the sink and in the file.                 *)
LEMMA OwedBytes ==
  ASSUME NEW items, NEW e, NEW d, Coded(items, e, d), NEW k \in 1 .. Len(items),
         items[k].kind = "literal", NEW o \in Nat, o <= Len(items[k].bytes)
  PROVE  /\ Place(e, k) - o \in Nat /\ Len(d[k]) - o \in Nat
         /\ Place(e, k) \in Nat /\ Len(d[k]) \in Nat
         /\ Place(e, k) <= Len(sink) /\ Len(d[k]) <= Len(file)
         /\ \A j \in 1 .. o : sink[(Place(e, k) - o) + j] = file[(Len(d[k]) - o) + j]
<1> DEFINE h == k - 1
           item == items[k]
           b == item.bytes
           t == LengthTrailers(Len(b))
           c == EncodeItem(item)
           l == Len(b)
           p0 == Place(e, h)
           p == Place(e, k)
           f0 == Len(d[h])
           f == Len(d[k])
<1>1. Len(items) \in Nat
  BY DEF Coded
<1>2. h \in 0 .. Len(items) - 1 /\ h + 1 = k
  BY <1>1
<1>3. CodeThere(items, e, h) /\ p0 \in Nat /\ item \in SmallItems
  <2>1. CodeThere(items, e, h) /\ Place(e, h) \in Nat /\ items[h + 1] \in SmallItems
    <3> HIDE DEF h
    <3> QED
      BY <1>2, ItemCoded
  <2> QED
    BY <1>2, <2>1
<1>4. TextThere(items, d, h)
  <2> HIDE DEF h
  <2> QED
    BY <1>2, ItemText
<1> HIDE DEF h
<1>5. /\ p = p0 + Len(c) /\ p <= Len(sink) /\ \A i \in 1 .. Len(c) : sink[p0 + i] = c[i]
  BY <1>2, <1>3 DEF CodeThere
<1>6. b \in Seq(Bytes) /\ 1 <= l /\ l <= BlockSize /\ c = EncodeLiteral(b)
  BY <1>3, SmallItem DEF EncodeItem
<1> HIDE DEF c
<1>7. CodeOfLiteral(c, b, t)
  BY <1>6, LiteralCode
<1>8. Len(c) = 1 + t + l /\ t \in 0 .. 2 /\ \A i \in 1 .. l : c[1 + t + i] = b[i]
  BY <1>7 DEF CodeOfLiteral
<1>9. ItemLength(item) = l /\ Added(d[h], item) = b
  BY DEF ItemLength, Added
<1>10. f = f0 + l /\ f <= Len(file) /\ \A i \in 1 .. l : file[f0 + i] = b[i]
  BY <1>2, <1>4, <1>9 DEF TextThere
<1>11. f0 \in Nat
  <2>1. d[h] \in Seq(Bytes)
    BY <1>4 DEF TextThere
  <2> QED
    BY <2>1
<1>12. l \in Nat /\ t \in Nat /\ o <= l
  BY <1>6, <1>8
<1> HIDE DEF l, t, p0, f0, p, f, b, item
<1> DEFINE lc == Len(c)
<1>13. lc = 1 + t + l /\ p = p0 + lc /\ \A i \in 1 .. lc : sink[p0 + i] = c[i]
  BY <1>5, <1>8
<1> HIDE DEF lc
<1>14. p \in Nat /\ f \in Nat /\ p - o \in Nat /\ f - o \in Nat
  BY <1>3, <1>10, <1>11, <1>12, <1>13
<1>15. ASSUME NEW j \in 1 .. o
       PROVE  sink[(p - o) + j] = file[(f - o) + j]
  <2> DEFINE i == (l - o) + j
  <2>1. i \in 1 .. l /\ (p - o) + j = p0 + (1 + t + i) /\ (f - o) + j = f0 + i /\ 1 + t + i \in 1 .. lc
    BY <1>3, <1>10, <1>11, <1>12, <1>13
  <2> HIDE DEF i
  <2>2. sink[p0 + (1 + t + i)] = c[1 + t + i]
    BY <1>13, <2>1
  <2>3. c[1 + t + i] = b[i] /\ file[f0 + i] = b[i]
    BY <1>8, <1>10, <2>1
  <2> QED
    BY <2>1, <2>2, <2>3
<1> QED
  BY <1>5, <1>10, <1>14, <1>15 DEF p, f

(* The window shows what is left of the literal, and the file has room.    *)
Shown(g, start, q) ==
  /\ q \in Nat /\ op \in Nat /\ Len(buf) \in Nat /\ buf \in Seq(Bytes)
  /\ Len(g) \in Nat /\ Len(sink) \in Nat /\ Len(file) \in Nat /\ g \in Seq(Bytes)
  /\ q + owed <= Len(sink) /\ op + owed <= Len(file) /\ SpaceLeft = Len(file) - op
  /\ whole <=> Len(g) = Len(sink)
  /\ LaidFull(reader.iov, g, start) /\ WindowOf(Current, g, start, q)
  /\ \A j \in 1 .. Len(buf) : j <= owed => buf[j] = file[op + j]

(* In a literal, the window shows bytes that are the next ones of the      *)
(* file.                                                                   *)
LEMMA OwedShown ==
  ASSUME NEW items, NEW e, NEW d, NEW g, NEW start, Telling(items, e, d, g, start),
         NEW k \in 1 .. Len(items), InLiteral(items, e, d, g, start, k), owed \in Nat
  PROVE  Shown(g, start, Place(e, k) - owed) /\ op = Len(d[k]) - owed /\ Place(e, k) \in Nat
         /\ Len(d[k]) \in Nat
<1> DEFINE q == Place(e, k) - owed
           b == buf
           p == Place(e, k)
           f == Len(d[k])
           lb == Len(b)
           lg == Len(g)
           ls == Len(sink)
           lf == Len(file)
<1>1. /\ Coded(items, e, d) /\ sink \in Seq(Bytes) /\ LaidFull(reader.iov, g, start) /\ Handed(g)
      /\ expected = Len(file)
  BY DEF Telling
<1>2. /\ items[k].kind = "literal" /\ owed <= Len(items[k].bytes)
      /\ WindowOf(Current, g, start, q) /\ op = f - owed
  BY DEF InLiteral
<1>3. /\ q \in Nat /\ f - owed \in Nat /\ p \in Nat /\ f \in Nat
      /\ p <= ls /\ f <= lf
      /\ \A j \in 1 .. owed : sink[q + j] = file[(f - owed) + j]
  BY <1>1, <1>2, OwedBytes
<1>4. /\ b \in Seq(Bytes) /\ q + lb <= lg /\ b = SubSeq(g, q + 1, q + lb)
  BY <1>2 DEF WindowOf, Current
<1>5. g \in Seq(Bytes) /\ (\A i \in 1 .. lg : i <= ls => g[i] = sink[i]) /\ (whole <=> lg = ls)
  BY <1>1 DEF Handed
<1>6. lb \in Nat /\ lg \in Nat /\ ls \in Nat /\ lf \in Nat
  <2>1. file \in Seq(Bytes)
    BY <1>1 DEF Coded
  <2> QED
    BY <1>1, <1>4, <1>5, <2>1
<1>7. q + owed = p /\ op + owed = f
  <2>1. q = p - owed
    OBVIOUS
  <2> HIDE DEF q, p, f
  <2> QED
    BY <1>2, <1>3, <2>1
<1>8. op \in Nat
  BY <1>2, <1>3
<1> HIDE DEF q, p, f, lb, lg, ls, lf, b
<1>9. q + owed <= ls /\ op + owed <= lf
  BY <1>3, <1>7
<1>10. b = [j \in 1 .. lb |-> g[q + j]]
  <2>1. q + lb \in Nat /\ q <= q + lb /\ (q + lb) - q = lb
    BY <1>3, <1>6
  <2>2. b = [j \in 1 .. (q + lb) - q |-> g[q + j]]
    BY <1>3, <1>4, <1>5, <2>1, Part, SMTT(40) DEF lg
  <2> QED
    BY <2>1, <2>2
<1>11. ASSUME NEW j \in 1 .. lb, j <= owed
       PROVE  b[j] = file[op + j]
  <2>1. j \in 1 .. owed /\ q + j \in 1 .. lg /\ q + j <= ls
    BY <1>3, <1>4, <1>6, <1>9, <1>11
  <2>2. b[j] = g[q + j] /\ g[q + j] = sink[q + j] /\ sink[q + j] = file[(f - owed) + j]
    BY <1>3, <1>5, <1>10, <2>1
  <2> QED
    BY <1>2, <2>2
<1>12. SpaceLeft = Len(file) - op
  BY <1>1 DEF SpaceLeft
<1>13. Shown(g, start, q)
  BY <1>1, <1>2, <1>3, <1>4, <1>5, <1>6, <1>8, <1>9, <1>11, <1>12 DEF Shown, lb, lg, ls, lf, b
<1> QED
  BY <1>2, <1>3, <1>13 DEF q, p, f

(* Some of a literal is written.                                           *)
LEMMA TakeRight ==
  ASSUME Right, Written, NEW g, NEW start, NEW q, Shown(g, start, q), owed \in Nat,
         NEW n \in Nat, n <= Len(buf), n <= owed, TakeLiteral(n), file' = file
  PROVE  Right' /\ op' = op + n /\ owed' = owed - n
<1> DEFINE s == SubSeq(buf, 1, n)
           lb == Len(buf)
           lf == Len(file)
<1>1. /\ op \in Nat /\ lb \in Nat /\ buf \in Seq(Bytes) /\ lf \in Nat /\ op + owed <= lf
      /\ \A j \in 1 .. lb : j <= owed => buf[j] = file[op + j]
  BY DEF Shown
<1>2. mem' = Put(mem, op, s) /\ op' = op + n /\ owed' = owed - n
  BY DEF TakeLiteral
<1>3. s \in Seq(Bytes) /\ Len(s) = n /\ \A i \in 1 .. n : s[i] = buf[i]
  BY <1>1, FirstOf
<1> HIDE DEF s
<1>4. n <= lb
  OBVIOUS
<1> HIDE DEF lb, lf
<1>5. \A i \in 1 .. n : file[op + i] = s[i]
  BY <1>1, <1>3, <1>4
<1>6. op + n <= lf
  BY <1>1
<1>7. Right'
  <2>1. n <= Len(s) /\ op + n <= Len(file)
    BY <1>3, <1>6 DEF lf
  <2> QED
    BY <1>2, <1>3, <1>5, <2>1, PutRight
<1> QED
  BY <1>2, <1>7

(* A piece of a literal.                                                   *)
LEMMA PieceWithin ==
  ASSUME Right, Written, Reading, LiteralPiece,
         NEW items, NEW e, NEW d, NEW g, NEW start, Telling(items, e, d, g, start),
         NEW k \in 1 .. Len(items), InLiteral(items, e, d, g, start, k)
  PROVE  /\ Right' /\ reader'.iov = reader.iov
         /\ \/ phase' = "eio" /\ ~ whole
            \/ phase' = "literal" /\ InLiteral(items, e, d, g, start, k)'
<1> DEFINE q == Place(e, k) - owed
           next == Skip(reader, peeked)
           lb == Len(buf)
           p == Place(e, k)
           f == Len(d[k])
           lg == Len(g)
           ls == Len(sink)
           lf == Len(file)
           x == NextPiece(Current)
<1>1. owed \in Nat
  BY DEF Reading
<1>2. Shown(g, start, q) /\ op = f - owed /\ p \in Nat /\ f \in Nat
  BY <1>1, OwedShown
<1>3. phase = "literal" /\ lb < owed /\ file' = file /\ whole' = whole
  BY DEF LiteralPiece
<1>4. /\ q \in Nat /\ op \in Nat /\ lb \in Nat /\ lg \in Nat /\ ls \in Nat /\ lf \in Nat
      /\ q + owed <= ls /\ op + owed <= lf /\ SpaceLeft = lf - op
      /\ whole <=> lg = ls
      /\ LaidFull(reader.iov, g, start) /\ WindowOf(Current, g, start, q)
  BY <1>2 DEF Shown
<1>5. ~ (SpaceLeft < lb)
  <2> HIDE DEF q, lb, lg, ls, lf
  <2> QED
    BY <1>1, <1>3, <1>4
<1>6. /\ TakeLiteral(lb) /\ reader' = next /\ buf' = Peek(next) /\ peeked' = Len(Peek(next))
      /\ phase' = IF Peek(next) = <<>> THEN "eio" ELSE phase
  BY <1>5 DEF LiteralPiece
<1>7. lb <= Len(buf) /\ lb <= owed
  <2>1. lb <= owed
    <3> HIDE DEF lb
    <3> QED
      BY <1>1, <1>3, <1>4
  <2>2. lb <= Len(buf)
    BY <1>4
  <2> QED
    BY <2>1, <2>2
<1>8. Right' /\ op' = op + lb /\ owed' = owed - lb
  <2> HIDE DEF q, lb
  <2> QED
    BY <1>1, <1>2, <1>3, <1>4, <1>6, <1>7, TakeRight
<1>9. x = [buf |-> buf', peeked |-> peeked', reader |-> reader'] /\ x.buf = Peek(next)
  BY <1>6 DEF NextPiece, Current
<1>10. Current.reader = reader /\ Len(Current.buf) = lb
  BY DEF Current
<1>11. /\ WindowOf(x, g, start, q + lb) /\ x.reader.iov = reader.iov
       /\ x.buf = <<>> => q + lb = lg
  <2>1. LaidFull(Current.reader.iov, g, start)
    BY <1>4, <1>10
  <2> DEFINE w == Current
  <2>2. WindowOf(w, g, start, q)
    BY <1>4
  <2>3. LaidFull(w.reader.iov, g, start)
    BY <2>1
  <2> HIDE DEF w, q
  <2>4. /\ WindowOf(NextPiece(w), g, start, q + Len(w.buf)) /\ NextPiece(w).reader.iov = w.reader.iov
        /\ NextPiece(w).buf = <<>> => q + Len(w.buf) = Len(g)
    BY <2>2, <2>3, NextPieceWindow
  <2>5. x = NextPiece(w) /\ w.reader = reader /\ Len(w.buf) = lb
    BY <1>10 DEF w
  <2> HIDE DEF x, lb
  <2> QED
    BY <2>4, <2>5
<1>12. reader'.iov = reader.iov
  <2>1. x.reader = reader'
    BY <1>9
  <2> QED
    BY <1>11, <2>1
<1>13. CASE Peek(next) = <<>>
  <2>1. q + lb = lg
    BY <1>9, <1>11, <1>13
  <2>2. ~ whole
    <3> HIDE DEF q, lb, lg, ls, lf
    <3> QED
      BY <1>1, <1>3, <1>4, <2>1
  <2> QED
    BY <1>6, <1>8, <1>12, <1>13, <2>2
<1>14. CASE Peek(next) # <<>>
  <2> DEFINE o == owed - lb
  <2>1. p - o = q + lb /\ f - o = op + lb /\ o <= owed
    <3>1. q = p - owed
      OBVIOUS
    <3> HIDE DEF q, p, f, lb
    <3> QED
      BY <1>1, <1>2, <1>4, <3>1
  <2>2. o = owed' /\ op' = f - o
    BY <1>8, <2>1
  <2>3. items[k].kind = "literal" /\ o <= Len(items[k].bytes)
    <3>1. items[k].kind = "literal" /\ owed <= Len(items[k].bytes)
      BY DEF InLiteral
    <3>2. o \in Int
      BY <1>1, <1>4
    <3>3. Len(items[k].bytes) \in Nat
      <4>1. items[k] \in SmallItems
        <5>1. items \in Seq(SmallItems)
          BY DEF Telling, Coded
        <5> QED
          BY <5>1
      <4>2. items[k].bytes \in Seq(Bytes)
        BY <3>1, <4>1, SmallItem
      <4> QED
        BY <4>2
    <3> DEFINE l == Len(items[k].bytes)
    <3>4. l \in Nat /\ o \in Int /\ o <= owed /\ owed <= l
      BY <2>1, <3>1, <3>2, <3>3
    <3> HIDE DEF l, o
    <3>5. o <= l
      BY <1>1, <3>4
    <3> QED
      BY <3>1, <3>5 DEF l
  <2>4. WindowOf(x, g, start, Place(e, k) - o)
    BY <1>11, <2>1
  <2>5. op' = Len(d[k]) - o
    BY <2>2
  <2> HIDE DEF x, o, q, lb
  <2>6. InLiteral(items, e, d, g, start, k)'
    BY <1>3, <1>9, <2>2, <2>3, <2>4, <2>5, NextInLiteral
  <2> QED
    BY <1>3, <1>6, <1>8, <1>12, <1>14, <2>6
<1> QED
  BY <1>13, <1>14

(* The end of a literal.                                                   *)
LEMMA EndWithin ==
  ASSUME Right, Written, Reading, LiteralEnd,
         NEW items, NEW e, NEW d, NEW g, NEW start, Telling(items, e, d, g, start),
         NEW k \in 1 .. Len(items), InLiteral(items, e, d, g, start, k)
  PROVE  Right' /\ reader' = reader /\ phase' = "tags" /\ AtTag(e, d, g, start, k)'
<1> DEFINE q == Place(e, k) - owed
           lb == Len(buf)
           p == Place(e, k)
           f == Len(d[k])
           lf == Len(file)
           w == Current
           x == [buf |-> SubSeq(buf, owed + 1, lb), peeked |-> peeked, reader |-> reader]
<1>1. owed \in Nat
  BY DEF Reading
<1>2. Shown(g, start, q) /\ op = f - owed /\ p \in Nat /\ f \in Nat
  BY <1>1, OwedShown
<1>3. phase = "literal" /\ lb >= owed /\ file' = file
  BY DEF LiteralEnd
<1>4. /\ q \in Nat /\ op \in Nat /\ lb \in Nat /\ lf \in Nat /\ g \in Seq(Bytes)
      /\ op + owed <= lf /\ SpaceLeft = lf - op
      /\ WindowOf(w, g, start, q)
  BY <1>2 DEF Shown
<1>5. ~ (SpaceLeft < owed)
  <2> HIDE DEF lb, lf
  <2> QED
    BY <1>1, <1>3, <1>4
<1>6. /\ TakeLiteral(owed) /\ buf' = SubSeq(buf, owed + 1, lb) /\ phase' = "tags"
      /\ reader' = reader /\ peeked' = peeked
  BY <1>5 DEF LiteralEnd
<1>7. owed <= lb /\ owed <= owed
  <2> HIDE DEF lb
  <2> QED
    BY <1>1, <1>3, <1>4
<1>8. Right' /\ op' = op + owed
  <2>1. owed <= Len(buf)
    BY <1>7
  <2> HIDE DEF q, lb
  <2> QED
    BY <1>1, <1>2, <1>3, <1>4, <1>6, <1>7, <2>1, TakeRight
<1>9. q + owed = p /\ op' = f
  <2>1. q = p - owed
    OBVIOUS
  <2> HIDE DEF q, p, f
  <2> QED
    BY <1>1, <1>2, <1>8, <2>1
<1>10. x = [buf |-> buf', peeked |-> peeked', reader |-> reader']
  BY <1>6
<1>11. /\ x.buf = SubSeq(w.buf, owed + 1, Len(w.buf)) /\ x.peeked = w.peeked /\ x.reader = w.reader
       /\ owed <= Len(w.buf)
  BY <1>7 DEF Current
<1>12. WindowOf(x, g, start, q + owed)
  <2> HIDE DEF x, w, q
  <2> QED
    BY <1>1, <1>4, <1>11, WindowRest
<1>13. WindowOf(x, g, start, Place(e, k)) /\ op' = Len(d[k])
  BY <1>9, <1>12
<1> HIDE DEF x, q
<1>14. AtTag(e, d, g, start, k)'
  BY <1>3, <1>10, <1>13, NextAtTag
<1> QED
  BY <1>6, <1>8, <1>14

(* Behind the sink the file has no room for a literal.                     *)
LEMMA PieceBeyond ==
  ASSUME Right, Written, Reading, LiteralPiece, Beyond
  PROVE  Right' /\ \/ phase' = "eio" /\ ~ whole'
                   \/ phase' = "literal" /\ Beyond'
<1>1. /\ phase = "literal" /\ file' = file /\ whole' = whole /\ expected' = expected
  BY DEF LiteralPiece
<1>2. ~ whole /\ op = Len(file) /\ expected = Len(file) /\ owed > 0
  BY DEF Beyond
<1>3. op \in Nat /\ buf \in Seq(Bytes) /\ owed \in Nat
  BY DEF Written, Reading
<1>4. SpaceLeft = 0 /\ Len(buf) \in Nat
  BY <1>2, <1>3 DEF SpaceLeft
<1>5. CASE Fail
  <2>1. Right'
    BY <1>1, <1>5 DEF Fail, Right
  <2>2. phase' = "eio"
    BY <1>5 DEF Fail
  <2> QED
    BY <1>1, <1>2, <2>1, <2>2
<1>6. CASE ~ Fail
  <2>1. /\ SpaceLeft >= Len(buf) /\ TakeLiteral(Len(buf))
        /\ phase' = "eio" \/ phase' = "literal"
    BY <1>1, <1>6 DEF LiteralPiece
  <2>2. Len(buf) = 0
    BY <1>4, <2>1
  <2> DEFINE s == SubSeq(buf, 1, 0)
  <2>3. mem' = Put(mem, op, s) /\ op' = op + 0 /\ owed' = owed - 0
    BY <2>1, <2>2 DEF TakeLiteral
  <2>4. s \in Seq(Bytes) /\ Len(s) = 0
    BY <1>3
  <2> HIDE DEF s
  <2>5. 0 <= Len(s) /\ op + 0 <= Len(file) /\ 0 \in Nat /\ \A i \in 1 .. 0 : file[op + i] = s[i]
    BY <1>2, <1>3, <2>4
  <2>6. Right'
    BY <1>1, <2>3, <2>4, <2>5, PutRight
  <2>7. Beyond'
    BY <1>1, <1>2, <1>3, <2>3 DEF Beyond
  <2> QED
    BY <1>1, <1>2, <2>1, <2>6, <2>7
<1> QED
  BY <1>5, <1>6

(* A literal behind all items ends in an error.                            *)
LEMMA EndBeyond ==
  ASSUME Right, Written, Reading, LiteralEnd, Beyond
  PROVE  Right' /\ phase' = "eio" /\ ~ whole'
<1>1. file' = file /\ whole' = whole
  BY DEF LiteralEnd
<1>2. ~ whole /\ op = Len(file) /\ expected = Len(file) /\ owed > 0
  BY DEF Beyond
<1>3. op \in Nat /\ owed \in Nat
  BY DEF Written, Reading
<1>4. SpaceLeft = 0
  BY <1>2, <1>3 DEF SpaceLeft
<1>5. Fail
  <2>1. ~ (SpaceLeft >= owed)
    BY <1>2, <1>3, <1>4
  <2> QED
    BY <2>1 DEF LiteralEnd
<1>6. Right' /\ phase' = "eio"
  BY <1>1, <1>5 DEF Fail, Right
<1> QED
  BY <1>1, <1>2, <1>6

(* The pieces of a literal keep the decoder right.                         *)
LEMMA LiteralOwedDecodes ==
  ASSUME DecodesRight, Written, Reading, LiteralPiece \/ LiteralEnd
  PROVE  DecodesRight'
<1>1. phase = "literal" /\ UNCHANGED <<file, sink, whole, expected>>
  BY DEF LiteralPiece, LiteralEnd
<1>2. Right /\ (Beyond \/ WithinItem)
  BY <1>1 DEF DecodesRight
<1>3. CASE Beyond
  <2>1. CASE LiteralPiece
    <3>1. Right' /\ ((phase' = "eio" /\ ~ whole') \/ (phase' = "literal" /\ Beyond'))
      BY <1>2, <1>3, <2>1, PieceBeyond
    <3> QED
      BY <3>1 DEF DecodesRight
  <2>2. CASE LiteralEnd
    <3>1. Right' /\ phase' = "eio" /\ ~ whole'
      BY <1>2, <1>3, <2>2, EndBeyond
    <3> QED
      BY <3>1 DEF DecodesRight
  <2> QED
    BY <2>1, <2>2
<1>4. CASE WithinItem
  <2>1. PICK items, e, d, g, start :
          /\ Telling(items, e, d, g, start)
          /\ \E k \in 1 .. Len(items) : InLiteral(items, e, d, g, start, k)
    BY <1>4 DEF WithinItem
  <2>2. PICK k \in 1 .. Len(items) : InLiteral(items, e, d, g, start, k)
    BY <2>1
  <2>3. k \in 0 .. Len(items)
    <3>1. Len(items) \in Nat
      BY <2>1 DEF Telling, Coded
    <3> QED
      BY <3>1
  <2>4. CASE LiteralPiece
    <3>1. /\ Right' /\ reader'.iov = reader.iov
          /\ \/ phase' = "eio" /\ ~ whole
             \/ phase' = "literal" /\ InLiteral(items, e, d, g, start, k)'
      BY <1>2, <2>1, <2>2, <2>4, PieceWithin
    <3>2. Telling(items, e, d, g, start)'
      BY <1>1, <2>1, <3>1, TellingStays
    <3>3. phase' = "literal" => WithinItem'
      BY <3>1, <3>2 DEF WithinItem
    <3> QED
      BY <1>1, <3>1, <3>3 DEF DecodesRight
  <2>5. CASE LiteralEnd
    <3>1. Right' /\ reader' = reader /\ phase' = "tags" /\ AtTag(e, d, g, start, k)'
      BY <1>2, <2>1, <2>2, <2>5, EndWithin
    <3>2. Telling(items, e, d, g, start)'
      <4>1. reader'.iov = reader.iov
        BY <3>1
      <4> QED
        BY <1>1, <2>1, <4>1, TellingStays
    <3>3. BetweenItems'
      BY <2>3, <3>1, <3>2 DEF BetweenItems
    <3> QED
      BY <3>1, <3>3 DEF DecodesRight
  <2> QED
    BY <2>4, <2>5
<1> QED
  BY <1>2, <1>3, <1>4

-----------------------------------------------------------------------------
(* What repeats the memory makes of it what comes next in the file.        *)
PatternNext(offset, len) ==
  \A i \in 1 .. len : file[op + i] = mem[op - offset + 1 + ((i - 1) % offset)]

KeepsMemory(m) == \A i \in 1 .. op : m[i] = mem[i]

HasNext(m, len) == \A i \in 1 .. len : m[op + i] = file[op + i]

(* A pattern that repeats itself is what follows in the file.              *)
LEMMA RepeatRight ==
  ASSUME op \in Nat, NEW offset \in Nat, 0 < offset, offset <= op, NEW len \in Nat,
         PatternNext(offset, len),
         NEW m, KeepsMemory(m), Repeats(m, op, offset, len)
  PROVE  HasNext(m, len)
<1>0. \A i \in 1 .. op : m[i] = mem[i]
  BY DEF KeepsMemory
<1>1. \A i \in 1 .. len : m[op - offset + 1 + ((i - 1) % offset)] = m[op + i]
  BY Pattern
<1>2. ASSUME NEW i \in 1 .. len
      PROVE  m[op + i] = file[op + i]
  <2>1. (i - 1) % offset \in 0 .. offset - 1
    <3>1. i - 1 \in Nat
      OBVIOUS
    <3> QED
      BY <3>1, ModRange
  <2> DEFINE r == (i - 1) % offset
             j == op - offset + 1 + r
  <2>2. r \in 0 .. offset - 1
    BY <2>1
  <2>3. m[j] = m[op + i] /\ file[op + i] = mem[j]
    BY <1>1 DEF PatternNext
  <2>4. j \in 1 .. op
    <3> HIDE DEF r
    <3> QED
      BY <2>2
  <2> HIDE DEF j
  <2> QED
    BY <1>0, <2>3, <2>4
<1> QED
  BY <1>2 DEF HasNext

(* Two copies of eight bytes repeat sixteen, when they do not overlap.     *)
LEMMA TwiceEight ==
  ASSUME NEW m \in Seq(Cells), op \in Nat, op <= Len(m), NEW offset \in Nat, 8 <= offset, offset <= op,
         NEW x, x = Copy64(Copy64(m, op - offset, op), op - offset + 8, op + 8)
  PROVE  (\A i \in 1 .. op : x[i] = m[i]) /\ Repeats(x, op, offset, 16)
<1> DEFINE f == op - offset
           y == Copy64(m, f, op)
<1>1. f \in Nat /\ f < op /\ f + offset = op /\ f + 8 \in Nat /\ op + 8 \in Nat /\ f + 8 < op + 8
  OBVIOUS
<1>x. x = Copy64(y, f + 8, op + 8)
  OBVIOUS
<1> HIDE DEF f
<1>y. /\ Copy64(m, f, op) \in Seq(Cells)
      /\ Len(Copy64(m, f, op)) = IF op + 8 >= Len(m) THEN op + 8 ELSE Len(m)
      /\ \A k \in 1 .. op : Copy64(m, f, op)[k] = m[k]
      /\ \A k \in 1 .. 8 : f + k <= op => Copy64(m, f, op)[op + k] = m[f + k]
  BY <1>1, Copy64Is, ZenonT(60)
<1>2. /\ y \in Seq(Cells) /\ Len(y) = IF op + 8 >= Len(m) THEN op + 8 ELSE Len(m)
      /\ \A k \in 1 .. op : y[k] = m[k]
      /\ \A k \in 1 .. 8 : f + k <= op => y[op + k] = m[f + k]
  BY <1>y
<1> HIDE DEF y
<1>3. op + 8 <= Len(y)
  <2> DEFINE lm == Len(m)
             ly == Len(y)
  <2>1. lm \in Nat /\ ly = IF op + 8 >= lm THEN op + 8 ELSE lm
    BY <1>2
  <2> HIDE DEF lm, ly
  <2>2. op + 8 <= ly
    BY <2>1
  <2> QED
    BY <2>2 DEF ly
<1>4. /\ \A k \in 1 .. op + 8 : x[k] = y[k]
      /\ \A k \in 1 .. 8 : (f + 8) + k <= op + 8 => x[(op + 8) + k] = y[(f + 8) + k]
  <2> DEFINE a == f + 8
             b == op + 8
  <2>1. a \in Nat /\ b \in Nat /\ a < b /\ b <= Len(y) /\ y \in Seq(Cells)
    BY <1>1, <1>2, <1>3
  <2> HIDE DEF a, b
  <2>2. /\ \A k \in 1 .. b : Copy64(y, a, b)[k] = y[k]
        /\ \A k \in 1 .. 8 : a + k <= b => Copy64(y, a, b)[b + k] = y[a + k]
    BY <2>1, Copy64Is, ZenonT(60)
  <2>3. x = Copy64(y, a, b)
    BY <1>x DEF a, b
  <2> QED
    BY <2>2, <2>3 DEF a, b
<1>5. ASSUME NEW i \in 1 .. op
      PROVE  x[i] = m[i]
  BY <1>2, <1>4
<1>6. ASSUME NEW k \in 1 .. 16
      PROVE  x[op + k] = x[f + k]
  <2>1. CASE k <= 8
    <3>1. k \in 1 .. 8 /\ f + k <= op /\ f + k \in 1 .. op /\ op + k \in 1 .. op + 8
      BY <1>1, <2>1
    <3> QED
      BY <1>2, <1>4, <1>5, <3>1
  <2>2. CASE ~ (k <= 8)
    <3> DEFINE j == k - 8
    <3>1. /\ j \in 1 .. 8 /\ (f + 8) + j = f + k /\ (op + 8) + j = op + k
          /\ f + k <= op + 8 /\ f + k \in 1 .. op + 8
      BY <1>1, <2>2
    <3> HIDE DEF j
    <3>2. x[(op + 8) + j] = y[(f + 8) + j]
      BY <1>4, <3>1
    <3>3. x[f + k] = y[f + k]
      BY <1>4, <3>1
    <3> QED
      BY <3>1, <3>2, <3>3
  <2> QED
    BY <2>1, <2>2
<1>7. Repeats(x, op, offset, 16)
  BY <1>6 DEF Repeats, f
<1> QED
  BY <1>5, <1>7

(* The three ways to copy.                                                 *)
CopiedBy(offset, len) ==
  \/ /\ len <= 16 /\ offset >= 8 /\ SpaceLeft >= 16
     /\ mem' = Copy64(Copy64(mem, op - offset, op), op - offset + 8, op + 8)
  \/ /\ SpaceLeft >= len + IncrementCopyOverflow
     /\ mem' = CopyOverlapping(mem, offset, len)
  \/ mem' = Put(mem, op, [k \in 1 .. len |-> mem[op - offset + 1 + ((k - 1) % offset)]])

(* However writer_append_from_self copies, the next bytes of the file are  *)
(* there.                                                                  *)
LEMMA CopiedRight ==
  ASSUME Right, Written, NEW offset \in Nat, 0 < offset, offset <= op, NEW len \in Nat, 0 < len,
         op + len <= expected, op + len <= Len(file), PatternNext(offset, len),
         CopiedBy(offset, len), op' = op + len, file' = file
  PROVE  Right'
<1>1. /\ op \in Nat /\ expected \in Nat /\ mem \in Seq(Cells) /\ op <= Len(mem) /\ Len(mem) <= expected
  BY DEF Written
<1>m. \A m : m = mem' /\ KeepsMemory(m) /\ HasNext(m, len) => Right'
  <2>1. ASSUME NEW m, m = mem', KeepsMemory(m), HasNext(m, len)
        PROVE  Right'
    <3>1. (\A i \in 1 .. op : m[i] = mem[i]) /\ (\A i \in 1 .. len : m[op + i] = file[op + i])
      BY <2>1 DEF KeepsMemory, HasNext
    <3> QED
      BY <2>1, <3>1, MoreRight
  <2> QED
    BY <2>1
<1> DEFINE m == mem'
<1>n. m = mem'
  OBVIOUS
<1>o. CopiedBy(offset, len)
  OBVIOUS
<1>p. (offset >= 8 /\ len <= 16 /\ m = Copy64(Copy64(mem, op - offset, op), op - offset + 8, op + 8))
      \/ (SpaceLeft >= len + IncrementCopyOverflow /\ m = CopyOverlapping(mem, offset, len))
      \/ m = Put(mem, op, [k \in 1 .. len |-> mem[op - offset + 1 + ((k - 1) % offset)]])
  BY <1>o DEF CopiedBy
<1> HIDE DEF m
<1>2. CASE /\ len <= 16 /\ offset >= 8
           /\ m = Copy64(Copy64(mem, op - offset, op), op - offset + 8, op + 8)
  <2>1. 8 <= offset
    BY <1>2
  <2>2. KeepsMemory(m) /\ Repeats(m, op, offset, 16)
    <3>1. (\A i \in 1 .. op : m[i] = mem[i]) /\ Repeats(m, op, offset, 16)
      BY <1>1, <1>2, <2>1, TwiceEight
    <3> QED
      BY <3>1 DEF KeepsMemory
  <2>3. Repeats(m, op, offset, len)
    <3>1. \A k \in 1 .. len : k \in 1 .. 16
      BY <1>2
    <3> QED
      BY <2>2, <3>1 DEF Repeats
  <2>4. HasNext(m, len)
    BY <1>1, <2>2, <2>3, RepeatRight
  <2> QED
    BY <1>m, <1>n, <2>2, <2>4
<1>3. CASE /\ SpaceLeft >= len + IncrementCopyOverflow
           /\ m = CopyOverlapping(mem, offset, len)
  <2>1. op + len + 10 <= expected
    BY <1>1, <1>3 DEF SpaceLeft, IncrementCopyOverflow
  <2> DEFINE x == CopyOverlapping(mem, offset, len)
  <2>2. (\A i \in 1 .. op : x[i] = mem[i]) /\ Repeats(x, op, offset, len)
    BY <1>1, <2>1, CopyOverlappingIs
  <2>3. x = m
    BY <1>3
  <2> HIDE DEF x
  <2>4. KeepsMemory(m) /\ Repeats(m, op, offset, len)
    BY <2>2, <2>3 DEF KeepsMemory
  <2>5. HasNext(m, len)
    BY <1>1, <2>4, RepeatRight
  <2> QED
    BY <1>m, <1>n, <2>4, <2>5
<1>4. CASE m = Put(mem, op, [k \in 1 .. len |-> mem[op - offset + 1 + ((k - 1) % offset)]])
  <2> DEFINE p == [k \in 1 .. len |-> mem[op - offset + 1 + ((k - 1) % offset)]]
  <2>1. p = [k \in 1 .. len |-> mem[op - offset + 1 + ((k - 1) % offset)]] /\ m = Put(mem, op, p)
    BY <1>4
  <2>2. \A k \in 1 .. len : p[k] = mem[op - offset + 1 + ((k - 1) % offset)]
    OBVIOUS
  <2> HIDE DEF p
  <2>3. p \in Seq(Cells) /\ Len(p) = len
    BY <2>1, PatternWrites
  <2> DEFINE x == Put(mem, op, p)
  <2>4. (\A k \in 1 .. op : x[k] = mem[k]) /\ (\A k \in 1 .. Len(p) : x[op + k] = p[k])
    BY <1>1, <2>3, PutIs, ZenonT(60)
  <2>5. x = m
    BY <2>1
  <2> HIDE DEF x
  <2>6. HasNext(m, len)
    BY <2>2, <2>3, <2>4, <2>5 DEF PatternNext, HasNext
  <2>7. KeepsMemory(m)
    BY <2>4, <2>5 DEF KeepsMemory
  <2> QED
    BY <1>m, <1>n, <2>6, <2>7
<1> QED
  BY <1>2, <1>3, <1>4, <1>p

(* The decoder at a copy of the file.                                      *)
LEMMA CopyTagAtItem ==
  ASSUME Right, Written, CopyTag,
         NEW items, NEW e, NEW d, NEW g, NEW start, Telling(items, e, d, g, start),
         NEW k \in 0 .. Len(items) - 1, AtTag(e, d, g, start, k)
  PROVE  Right' /\ phase' = "tags" /\ AtTag(e, d, g, start, k + 1)' /\ reader'.iov = reader.iov
<1> DEFINE w == Refilled
           b == w.buf
           t == Trailers(b[1])
           item == items[k + 1]
           c == EncodeItem(item)
           r == AfterTag(w)
           len == TagLength(b[1])
           offset == TagOffset(b[1]) + TrailerValue(w)
           q == Place(e, k)
<1>1. phase = "tags" /\ TagIn(w) /\ ~ IsLiteral(b[1]) /\ file' = file /\ expected' = expected
  BY DEF CopyTag, TagIn
<1>2. \/ offset = 0 \/ op < offset \/ SpaceLeft < len
      \/ /\ CopiedBy(offset, len) /\ op' = op + len
         /\ reader' = w.reader /\ peeked' = w.peeked /\ buf' = r /\ phase' = phase
  BY DEF CopyTag, CopiedBy
<1>3. /\ Coded(items, e, d) /\ Handed(g) /\ g \in Seq(Bytes) /\ LaidFull(reader.iov, g, start)
      /\ WindowOf(Current, g, start, q) /\ op = Len(d[k]) /\ expected = Len(file)
  BY DEF Telling, AtTag, Handed
<1>4. WindowOf(w, g, start, q) /\ w.reader.iov = reader.iov
  BY <1>3, RefilledWindow
<1>5. item \in SmallItems /\ TextThere(items, d, k)
  BY <1>3, ItemCoded, ItemText
<1> HIDE DEF w
<1>6. /\ \A i \in 1 .. Len(b) : i <= Len(c) => b[i] = c[i]
      /\ q \in Nat /\ Place(e, k + 1) = q + Len(c)
  BY <1>3, <1>4, WindowShows, SMTT(40)
<1>7. b \in Seq(Bytes)
  BY <1>4 DEF WindowOf
<1>8. item.kind # "literal"
  <2>1. CASE item.kind = "literal"
    <3>1. LiteralShows(w, item)
      <4> HIDE DEF item, c
      <4> QED
        BY <1>1, <1>5, <1>6, <1>7, <2>1, LiteralRead DEF c
    <3> QED
      BY <1>1, <3>1 DEF LiteralShows
  <2> QED
    BY <2>1
<1>9. CopyShows(w, item)
  <2> HIDE DEF item, c
  <2> QED
    BY <1>1, <1>5, <1>6, <1>7, <1>8, CopyRead DEF c
<1>10. t \in Nat /\ Len(c) = 1 + t /\ len = item.len /\ offset = item.offset
  BY <1>9 DEF CopyShows
<1>11. item.kind = "copy" /\ len \in Nat /\ 0 < len /\ offset \in Nat /\ 0 < offset
  <2>1. item.kind = "copy" /\ item.len \in 4 .. 64 /\ item.offset \in Nat /\ 0 < item.offset
    <3> HIDE DEF item
    <3> QED
      BY <1>5, <1>8, SmallItem
  <2> DEFINE l == item.len
             o == item.offset
  <2>2. l \in 4 .. 64 /\ o \in Nat /\ 0 < o /\ len = l /\ offset = o
    BY <1>10, <2>1
  <2>3. item.kind = "copy"
    BY <2>1
  <2> HIDE DEF l, o, len, offset
  <2>4. len \in Nat /\ 0 < len /\ offset \in Nat /\ 0 < offset
    BY <2>2
  <2> QED
    BY <2>3, <2>4
<1>12. /\ r \in Seq(Bytes) /\ 1 + t <= Len(b) /\ r = SubSeq(b, (1 + t) + 1, Len(b))
  BY <1>1, <1>7, <1>10, RestIs
<1>13. /\ d[k] \in Seq(Bytes) /\ Len(d[k]) \in Nat /\ offset <= op
       /\ Len(d[k + 1]) = op + len /\ Len(d[k + 1]) <= Len(file)
  <2>1. ItemLength(item) = len
    BY <1>8, <1>10 DEF ItemLength
  <2>2. d[k] \in Seq(Bytes)
    BY <1>5 DEF TextThere
  <2>3. Len(d[k]) \in Nat
    BY <2>2
  <2>4. item.offset <= Len(d[k])
    BY <1>5, <1>11 DEF TextThere, Reaches
  <2> QED
    BY <1>3, <1>5, <1>10, <2>1, <2>2, <2>3, <2>4 DEF TextThere
<1>14. PatternNext(offset, len)
  <2>1. ASSUME NEW i \in 1 .. len
        PROVE  file[op + i] = mem[op - offset + 1 + ((i - 1) % offset)]
    <3> DEFINE a == Added(d[k], item)
               j == op - offset + 1 + ((i - 1) % offset)
    <3>1. a = [n \in 1 .. len |-> d[k][op - offset + 1 + ((n - 1) % offset)]]
      BY <1>3, <1>8, <1>10 DEF Added
    <3>2. a[i] = d[k][j]
      BY <3>1
    <3>3. file[op + i] = a[i]
      <4>1. ItemLength(item) = len
        BY <1>8, <1>10 DEF ItemLength
      <4> QED
        BY <1>3, <1>5, <4>1 DEF TextThere
    <3>4. j \in 1 .. op
      <4>1. i - 1 \in Nat
        BY <1>11
      <4> HIDE DEF offset, len
      <4>2. (i - 1) % offset \in 0 .. offset - 1
        BY <1>11, <4>1, ModRange
      <4> DEFINE m == (i - 1) % offset
      <4>3. m \in 0 .. offset - 1 /\ op \in Nat /\ offset <= op /\ offset \in Nat
        BY <1>3, <1>11, <1>13, <4>2
      <4> HIDE DEF m
      <4> QED
        BY <4>3
    <3> HIDE DEF j
    <3>5. d[k][j] = file[j]
      <4>1. \A n \in 1 .. op : file[n] = d[k][n]
        BY <1>3, <1>5 DEF TextThere, Begins
      <4> QED
        BY <3>4, <4>1
    <3>6. mem[j] = file[j]
      BY <3>4 DEF Right
    <3>7. file[op + i] = mem[j]
      BY <3>2, <3>3, <3>5, <3>6
    <3> QED
      BY <3>7 DEF j
  <2> QED
    BY <2>1 DEF PatternNext
<1>15. op \in Nat /\ Len(file) \in Nat /\ op + len <= Len(file) /\ op + len <= expected /\ ~ (SpaceLeft < len)
  <2> DEFINE lf == Len(file)
  <2>1. lf \in Nat
    <3>1. file \in Seq(Bytes)
      BY <1>3 DEF Coded
    <3> QED
      BY <3>1
  <2>2. op \in Nat /\ op + len <= lf /\ expected = lf
    BY <1>3, <1>13
  <2> HIDE DEF lf, len
  <2>3. ~ (SpaceLeft < len)
    BY <1>11, <2>1, <2>2 DEF SpaceLeft
  <2> QED
    BY <2>1, <2>2, <2>3 DEF lf
<1>16. /\ CopiedBy(offset, len) /\ op' = op + len
       /\ reader' = w.reader /\ peeked' = w.peeked /\ buf' = r /\ phase' = phase
  <2>1. offset # 0 /\ ~ (op < offset)
    <3> HIDE DEF offset
    <3> QED
      BY <1>11, <1>13, <1>15
  <2> HIDE DEF offset, len, r
  <2> QED
    BY <1>2, <1>15, <2>1
<1>17. Right'
  <2> HIDE DEF offset, len
  <2> QED
    BY <1>1, <1>11, <1>13, <1>14, <1>15, <1>16, CopiedRight
<1> DEFINE x == [buf |-> r, peeked |-> w.peeked, reader |-> w.reader]
<1>18. x.buf = r /\ x.peeked = w.peeked /\ x.reader = w.reader
  OBVIOUS
<1>19. x = [buf |-> buf', peeked |-> peeked', reader |-> reader']
  BY <1>16
<1>20. WindowOf(x, g, start, q + (1 + t))
  <2>1. 1 + t \in Nat /\ 1 + t <= Len(w.buf) /\ x.buf = SubSeq(w.buf, (1 + t) + 1, Len(w.buf))
    <3> HIDE DEF x, r
    <3>1. 1 + t \in Nat
      BY <1>10
    <3> QED
      BY <1>12, <1>18, <3>1
  <2> HIDE DEF x, t
  <2> QED
    BY <1>3, <1>4, <1>18, <2>1, WindowRest
<1>21. WindowOf(x, g, start, Place(e, k + 1)) /\ op' = Len(d[k + 1])
  BY <1>6, <1>10, <1>13, <1>16, <1>20
<1> HIDE DEF x
<1>22. AtTag(e, d, g, start, k + 1)'
  BY <1>1, <1>19, <1>21, NextAtTag
<1> QED
  BY <1>1, <1>4, <1>16, <1>17, <1>22

(* Behind all items, what looks like a copy is an error.                   *)
LEMMA CopyTagAtEnd ==
  ASSUME CopyTag, NEW items, NEW e, NEW d, NEW g, NEW start, Telling(items, e, d, g, start),
         AtTag(e, d, g, start, Len(items)), Right
  PROVE  Right' /\ phase' = "eio" /\ ~ whole'
<1> DEFINE w == Refilled
           len == TagLength(w.buf[1])
<1>1. TagIn(w) /\ file' = file /\ whole' = whole
  BY DEF CopyTag
<1>2. ~ whole /\ SpaceLeft = 0 /\ WindowOf(w, g, start, Len(sink))
  BY <1>1, BehindSink
<1>3. Fail \/ SpaceLeft >= len
  BY DEF CopyTag
<1> HIDE DEF w
<1>4. len \in Nat /\ 1 <= len
  <2>1. w.buf \in Seq(Bytes) /\ w.buf # <<>>
    BY <1>1, <1>2 DEF WindowOf, TagIn
  <2>2. w.buf[1] \in Bytes
    BY <2>1, FirstByte
  <2> QED
    BY <2>2, TagTypes
<1>5. Fail
  <2> HIDE DEF len
  <2> QED
    BY <1>2, <1>3, <1>4
<1>6. Right' /\ phase' = "eio"
  BY <1>1, <1>5 DEF Fail, Right
<1> QED
  BY <1>1, <1>2, <1>6

(* A copy keeps the decoder right.                                         *)
LEMMA CopyTagDecodes ==
  ASSUME DecodesRight, Written, CopyTag
  PROVE  DecodesRight'
<1>1. phase = "tags" /\ UNCHANGED <<file, sink, whole, expected>>
  BY DEF CopyTag, TagIn
<1>2. PICK items, e, d, g, start :
        Telling(items, e, d, g, start) /\ \E k \in 0 .. Len(items) : AtTag(e, d, g, start, k)
  BY <1>1 DEF DecodesRight, BetweenItems
<1>3. PICK k \in 0 .. Len(items) : AtTag(e, d, g, start, k)
  BY <1>2
<1>4. Right /\ Len(items) \in Nat
  BY <1>2 DEF DecodesRight, Telling, Coded
<1>5. CASE k = Len(items)
  <2>1. AtTag(e, d, g, start, Len(items)) /\ Telling(items, e, d, g, start)
    BY <1>2, <1>3, <1>5
  <2>2. Right' /\ phase' = "eio" /\ ~ whole'
    BY <1>4, <2>1, CopyTagAtEnd
  <2> QED
    BY <2>2 DEF DecodesRight
<1>6. CASE k # Len(items)
  <2>1. k \in 0 .. Len(items) - 1
    BY <1>4, <1>6
  <2>2. Right' /\ phase' = "tags" /\ AtTag(e, d, g, start, k + 1)' /\ reader'.iov = reader.iov
    BY <1>2, <1>3, <1>4, <2>1, CopyTagAtItem
  <2>3. Telling(items, e, d, g, start)'
    BY <1>1, <1>2, <2>2, TellingStays
  <2>4. k + 1 \in 0 .. Len(items)
    BY <1>4, <2>1
  <2>5. BetweenItems'
    BY <2>2, <2>3, <2>4 DEF BetweenItems
  <2> QED
    BY <2>2, <2>5 DEF DecodesRight
<1> QED
  BY <1>5, <1>6

-----------------------------------------------------------------------------
(* The file is one of those that compress is called with.                  *)
FileInv == \E iov \in Calls : file = FlattenSeq(iov)

(* The file has a length that an int holds.                                *)
LEMMA FileLength ==
  ASSUME FileInv
  PROVE  file \in Seq(Bytes) /\ Len(file) \in Nat /\ Len(file) <= INT_MAX
<1>1. PICK iov \in Calls : file = FlattenSeq(iov)
  BY SMT DEF FileInv
<1>2. iov \in Seq(Seq(Bytes)) /\ Len(FlattenSeq(iov)) <= INT_MAX
  BY CodecAssumption
<1>3. file \in Seq(Bytes)
  <2>1. iov \in Seq(Seq(Bytes)) /\ iov # <<>>
    BY CodecAssumption
  <2>2. FlattenSeq(iov) \in Seq(Bytes)
    BY <2>1, FlattenType
  <2> QED
    BY <1>1, <2>2
<1>4. Len(file) \in Nat
  BY <1>3
<1> QED
  BY <1>1, <1>2, <1>3, <1>4

(* What the decoder is given: bytes that agree with the sink.              *)
HandedAs(g, w) ==
  /\ g \in Seq(Bytes) /\ g # <<>>
  /\ \A i \in 1 .. Len(g) : i <= Len(sink) => g[i] = sink[i]
  /\ w = (Len(g) = Len(sink))
  /\ ~ EmptyLiteral(g, Len(sink))

(* Where no bytes are left, no empty literal is.                           *)
LEMMA NotBehind ==
  ASSUME NEW g \in Seq(Bytes), NEW p \in Nat, Len(g) <= p
  PROVE  ~ EmptyLiteral(g, p)
BY DEF EmptyLiteral

(* Nor where the bytes that follow do not begin with one.                  *)
LEMMA EmptyBehind ==
  ASSUME NEW g \in Seq(Bytes), NEW b \in Seq(Bytes), NEW p \in Nat, Len(g) = p + Len(b),
         \A k \in 1 .. Len(b) : g[p + k] = b[k], ~ EmptyLiteral(b, 0)
  PROVE  ~ EmptyLiteral(g, p)
<1> SUFFICES ASSUME EmptyLiteral(g, p)
             PROVE  EmptyLiteral(b, 0)
  OBVIOUS
<1>1. p + 5 <= Len(g) /\ g[p + 1] = 252 /\ \A k \in 2 .. 5 : g[p + k] = 255
  BY DEF EmptyLiteral
<1> DEFINE n == Len(b)
<1>2. n \in Nat /\ 5 <= n
  BY <1>1
<1> HIDE DEF n
<1>3. \A k \in 1 .. 5 : k \in 1 .. n
  BY <1>2
<1>4. \A k \in 1 .. 5 : g[p + k] = b[k]
  BY <1>3 DEF n
<1>5. 0 + 1 = 1 /\ 1 \in 1 .. 5 /\ (\A k \in 2 .. 5 : k \in 1 .. 5 /\ 0 + k = k) /\ 0 + 5 <= n
  BY <1>2
<1>6. b[0 + 1] = 252
  <2>1. g[p + 1] = b[1]
    BY <1>4, <1>5
  <2> QED
    BY <1>1, <1>5, <2>1
<1> DEFINE X(k) == g[p + k]
<1>7. ASSUME NEW k \in 2 .. 5
      PROVE  b[0 + k] = 255
  <2>1. \A j \in 2 .. 5 : X(j) = 255
    BY <1>1
  <2>2. \A j \in 1 .. 5 : X(j) = b[j]
    BY <1>4
  <2> HIDE DEF X
  <2>3. X(k) = 255
    BY <2>1
  <2>4. X(k) = b[k]
    BY <1>5, <2>2
  <2> QED
    BY <1>5, <2>3, <2>4
<1> QED
  BY <1>5, <1>6, <1>7 DEF EmptyLiteral, n

(* A result in one piece, cut off or not.                                  *)
LEMMA LinearPart ==
  ASSUME sink \in Seq(Bytes), NEW n \in Nat, n > 0, n <= Len(sink), NEW g, g = SubSeq(sink, 1, n),
         NEW w, w = (n = Len(sink))
  PROVE  HandedAs(g, w)
<1>1. g \in Seq(Bytes) /\ Len(g) = n /\ \A i \in 1 .. n : g[i] = sink[i]
  BY FirstOf
<1>2. Len(sink) \in Nat /\ Len(g) <= Len(sink) /\ g # <<>>
  BY <1>1
<1>3. ~ EmptyLiteral(g, Len(sink))
  BY <1>1, <1>2, NotBehind
<1> QED
  BY <1>1, <1>2, <1>3 DEF HandedAs

(* A result with other bytes behind it.                                    *)
LEMMA LinearMore ==
  ASSUME sink \in Seq(Bytes), NEW b \in Seq(Bytes), b # <<>>, ~ EmptyLiteral(b, 0),
         NEW g, g = sink \o b, NEW w, w = FALSE
  PROVE  HandedAs(g, w)
<1> DEFINE ls == Len(sink)
           lb == Len(b)
           lg == Len(g)
<1>1. /\ g \in Seq(Bytes) /\ lg = ls + lb
      /\ (\A k \in 1 .. ls : g[k] = sink[k]) /\ (\A k \in 1 .. lb : g[ls + k] = b[k])
  BY Join
<1>2. ls \in Nat /\ lb \in Nat /\ lb > 0
  OBVIOUS
<1>3. lg # ls /\ lg # 0 /\ \A i \in 1 .. lg : i <= ls => i \in 1 .. ls
  <2> HIDE DEF ls, lb, lg
  <2> QED
    BY <1>1, <1>2
<1>4. g # <<>>
  BY <1>1, <1>3
<1>5. ~ EmptyLiteral(g, ls)
  <2> HIDE DEF ls
  <2>1. Len(g) = ls + Len(b) /\ \A k \in 1 .. Len(b) : g[ls + k] = b[k]
    BY <1>1
  <2> HIDE DEF lb, lg
  <2> QED
    BY <1>1, <1>2, <2>1, EmptyBehind
<1> HIDE DEF lb
<1> QED
  BY <1>1, <1>3, <1>4, <1>5 DEF HandedAs

(* What the decoder is given is a result, cut off or with bytes behind it, *)
(* in pieces of any size.                                                  *)
LEMMA GivenHanded ==
  ASSUME HandedOver, SinkPiece = 1, FileInv, sink \in Seq(Bytes), sink # <<>>,
         Len(sink) <= MaxCompressedLength(Len(file)), NEW given \in Given
  PROVE  \E g : HandedAs(g, given.whole) /\ \E n \in Nat \ {0} : given.iov = Cut(g, n)
<1>1. Len(sink) \in Nat /\ Len(sink) > 0
  OBVIOUS
<1>2. CASE given = [iov |-> SinkPieces(sink), whole |-> TRUE]
  <2> DEFINE z == [k \in 1 .. (SinkPiece - (Len(sink) % SinkPiece)) % SinkPiece |-> 0]
  <2>1. z = <<>>
    <3>1. Len(sink) % 1 = 0
      BY <1>1
    <3>2. (1 - 0) % 1 = 0
      OBVIOUS
    <3>3. z = [k \in 1 .. 0 |-> 0]
      BY <3>1, <3>2
    <3> QED
      BY <3>3
  <2>2. sink \o z = sink
    <3> HIDE DEF z
    <3> QED
      BY <2>1
  <2>3. given.iov = Cut(sink, SinkPiece) /\ given.whole = TRUE
    BY <1>2, <2>2 DEF SinkPieces
  <2>4. SubSeq(sink, 1, Len(sink)) = sink
    OBVIOUS
  <2>5. HandedAs(sink, given.whole)
    <3>1. Len(sink) <= Len(sink)
      BY <1>1
    <3>2. given.whole = (Len(sink) = Len(sink))
      BY <2>3
    <3> QED
      BY <1>1, <2>4, <3>1, <3>2, LinearPart
  <2>6. SinkPiece \in Nat \ {0}
    OBVIOUS
  <2> QED
    BY <2>3, <2>5, <2>6
<1>3. CASE \E h \in Handovers : given = Linear(h)
  <2>1. PICK h \in Handovers : given = Linear(h)
    BY <1>3
  <2> DEFINE m == Smaller(h.keep, Len(sink))
             x == SubSeq(sink, 1, m)
             y == h.behind
  <2>2. /\ h.pieces \in Nat \ {0} /\ h.keep \in Nat /\ y \in Seq(Bytes)
        /\ h.keep > 0 \/ y # <<>>
    BY CodecAssumption
  <2>3. given.iov = Cut(x \o y, h.pieces) /\ given.whole = (h.keep >= Len(sink) /\ y = <<>>)
    BY <2>1 DEF Linear
  <2>4. CASE y = <<>>
    <3>1. m \in Nat /\ m > 0 /\ m <= Len(sink) /\ (h.keep >= Len(sink) <=> m = Len(sink))
      <4> DEFINE ls == Len(sink)
                 k == h.keep
      <4>1. ls \in Nat /\ ls > 0 /\ k \in Nat /\ k > 0 /\ m = Smaller(k, ls)
        BY <1>1, <2>2, <2>4
      <4> HIDE DEF ls, k, m
      <4>2. m \in Nat /\ m > 0 /\ m <= ls /\ (k >= ls <=> m = ls)
        BY <4>1 DEF Smaller
      <4> QED
        BY <4>2 DEF ls, k
    <3> HIDE DEF m, y
    <3>2. HandedAs(x, given.whole)
      <4>1. given.whole = (m = Len(sink))
        BY <2>3, <2>4, <3>1
      <4> QED
        BY <3>1, <4>1, LinearPart
    <3>3. x \o y = x
      <4>1. x \in Seq(Bytes)
        BY <3>1, FirstOf
      <4> HIDE DEF x
      <4> QED
        BY <2>4, <4>1
    <3> HIDE DEF x
    <3> QED
      BY <2>2, <2>3, <3>2, <3>3
  <2>5. CASE y # <<>>
    <3>1. ~ EmptyLiteral(y, 0) /\ \A iov \in Calls : MaxCompressedLength(Len(FlattenSeq(iov))) <= h.keep
      BY <2>5 DEF HandedOver
    <3>2. MaxCompressedLength(Len(file)) <= h.keep
      BY <3>1 DEF FileInv
    <3>3. m = Len(sink)
      <4>1. MaxCompressedLength(Len(file)) \in Int
        <5>1. Len(file) \in Nat
          BY FileLength
        <5> QED
          BY <5>1 DEF MaxCompressedLength
      <4> DEFINE a == MaxCompressedLength(Len(file))
                 ls == Len(sink)
                 k == h.keep
      <4>2. a \in Int /\ ls \in Nat /\ k \in Nat /\ ls <= a /\ a <= k /\ m = Smaller(k, ls)
        BY <1>1, <2>2, <3>2, <4>1
      <4> HIDE DEF a, ls, k, m
      <4>3. m = ls
        BY <4>2 DEF Smaller
      <4> QED
        BY <4>3 DEF ls
    <3>4. x = sink
      BY <3>3
    <3>5. given.iov = Cut(sink \o y, h.pieces) /\ given.whole = FALSE
      BY <2>3, <2>5, <3>4
    <3> HIDE DEF m, x, y
    <3>6. HandedAs(sink \o y, given.whole)
      BY <2>2, <2>5, <3>1, <3>5, LinearMore
    <3> QED
      BY <2>2, <3>5, <3>6
  <2> QED
    BY <2>4, <2>5
<1> QED
  BY <1>2, <1>3 DEF Given

-----------------------------------------------------------------------------
(* The first n bytes of what the decoder is given, read from its pieces.   *)
FrontRead(g, s, start, n, m) ==
  /\ m \in Nat /\ m <= n /\ m <= Len(g) /\ (m < n => m = Len(g))
  /\ Gather(s, <<>>, n).bytes \in Seq(Bytes) /\ Len(Gather(s, <<>>, n).bytes) = m
  /\ \A i \in 1 .. m : Gather(s, <<>>, n).bytes[i] = g[i]
  /\ Gather(s, <<>>, n).source \in Sources /\ Gather(s, <<>>, n).source.iov = s.iov
  /\ At(Gather(s, <<>>, n).source, start, m)

(* Gathering the first bytes of the source reads the first bytes of all.   *)
LEMMA FrontIs ==
  ASSUME NEW g \in Seq(Bytes), NEW s \in Sources, NEW start, Laid(s.iov, start, g), At(s, start, 0),
         NEW n \in Nat
  PROVE  FrontRead(g, s, start, n, Smaller(n, Len(g)))
<1> DEFINE m == Smaller(n, Len(g))
           l == Len(g)
           r == Gather(s, <<>>, n)
<1>1. l \in Nat /\ m = Smaller(n, l)
  OBVIOUS
<1> HIDE DEF m, l
<1>2. m \in Nat /\ m <= n /\ m <= l /\ (m < n => m = l)
  BY <1>1 DEF Smaller
<1>3. ReadFrom(Gather(s, SubSeq(g, 0 + 1, 0), n), s, g, start, 0, 0, Smaller(0 + n, Len(g)))
  <2>1. 0 \in Nat /\ 0 <= 0 /\ 0 <= 0 + n
    OBVIOUS
  <2> QED
    BY <2>1, GatherReads
<1>4. SubSeq(g, 0 + 1, 0) = <<>>
  <2>1. 0 + 1 = 1 /\ SubSeq(g, 1, 0) = <<>>
    BY Nothing
  <2> QED
    BY <2>1
<1>5. Smaller(0 + n, Len(g)) = m
  <2>1. 0 + n = n
    OBVIOUS
  <2> QED
    BY <2>1 DEF m
<1>6. ReadFrom(r, s, g, start, 0, 0, m)
  BY <1>3, <1>4, <1>5
<1> HIDE DEF r
<1>7. r.bytes = SubSeq(g, 0 + 1, m) /\ r.source \in Sources /\ r.source.iov = s.iov /\ At(r.source, start, m)
  BY <1>6 DEF ReadFrom
<1>8. r.bytes = SubSeq(g, 1, m)
  <2>1. 0 + 1 = 1
    OBVIOUS
  <2> QED
    BY <1>7, <2>1
<1>9. m <= Len(g)
  BY <1>2 DEF l
<1>10. SubSeq(g, 1, m) \in Seq(Bytes) /\ Len(SubSeq(g, 1, m)) = m /\ \A i \in 1 .. m : SubSeq(g, 1, m)[i] = g[i]
  BY <1>2, <1>9, FirstOf
<1> QED
  BY <1>2, <1>7, <1>8, <1>10 DEF FrontRead, m, r, l

(* The file's length is read as it was written, or is not all there.       *)
LengthRead(g, s, start) ==
  LET front == Gather(s, <<>>, 5).bytes
      ends == Ends(front)
      length == CHOOSE k \in ends : \A j \in ends : k <= j
  IN  \/ ends = {} /\ Len(g) < Len(sink)
      \/ /\ ends # {}
         /\ VarintValue(SubSeq(front, 1, length)) = Len(file)
         /\ Len(Varint(Len(file))) <= Len(g)
         /\ Gather(s, <<>>, length).source \in Sources
         /\ Gather(s, <<>>, length).source.iov = s.iov
         /\ At(Gather(s, <<>>, length).source, start, Len(Varint(Len(file))))

(* The decoder reads the length of the file, or misses bytes of it.        *)
LEMMA LengthIsRead ==
  ASSUME NEW g \in Seq(Bytes), NEW s \in Sources, NEW start, Laid(s.iov, start, g), At(s, start, 0),
         \A i \in 1 .. Len(g) : i <= Len(sink) => g[i] = sink[i],
         FileInv, NEW z \in Seq(Bytes), sink = Varint(Len(file)) \o z
  PROVE  LengthRead(g, s, start)
<1> DEFINE n == Len(file)
           v == Varint(n)
           l == VarintLength(n)
           front == Gather(s, <<>>, 5).bytes
           ends == Ends(front)
           length == CHOOSE k \in ends : \A j \in ends : k <= j
           m == Smaller(5, Len(g))
           lg == Len(g)
           ls == Len(sink)
<1>1. n \in Nat /\ n <= INT_MAX
  BY FileLength
<1>2. v \in Seq(Bytes) /\ Len(v) = l /\ l \in 1 .. 5
  BY <1>1, VarintType, VarintLengthIs
<1>3. VarintValue(v) = n
  BY <1>1, VarintRead
<1>n. n \in Nat
  BY <1>1
<1> HIDE DEF n
<1>4. FrontRead(g, s, start, 5, m)
  BY FrontIs
<1>5. front \in Seq(Bytes) /\ Len(front) = m /\ (\A i \in 1 .. m : front[i] = g[i])
      /\ m \in Nat /\ m <= 5 /\ m <= lg /\ (m < 5 => m = lg)
  BY <1>4 DEF FrontRead
<1>6. sink = v \o z
  BY DEF n
<1>v. v = Varint(n)
  OBVIOUS
<1> HIDE DEF v
<1>7. ls = l + Len(z) /\ \A i \in 1 .. l : sink[i] = v[i]
  <2>1. Len(v \o z) = Len(v) + Len(z) /\ \A i \in 1 .. Len(v) : (v \o z)[i] = v[i]
    BY <1>2, Join
  <2> QED
    BY <1>2, <1>6, <2>1
<1>8. Len(z) \in Nat /\ lg \in Nat
  OBVIOUS
<1>9. \A i \in 1 .. lg : i <= ls => g[i] = sink[i]
  OBVIOUS
<1>l. l = VarintLength(n)
  OBVIOUS
<1> HIDE DEF l, lg, ls, m
<1>10. ls \in Nat /\ l <= ls
  BY <1>2, <1>7, <1>8
<1>11. \A i \in 1 .. m : i <= l => front[i] = v[i]
  <2>1. ASSUME NEW i \in 1 .. m, i <= l
        PROVE  front[i] = v[i]
    <3>1. i \in 1 .. lg /\ i \in 1 .. l /\ i <= ls
      BY <1>2, <1>5, <1>8, <1>10, <2>1
    <3> QED
      BY <1>5, <1>7, <1>9, <3>1
  <2> QED
    BY <2>1
<1> DEFINE G(k) == Gather(s, <<>>, k)
<1> HIDE DEF front
<1>12. /\ m < l => ends = {}
       /\ m >= l => l \in ends /\ length = l /\ SubSeq(front, 1, l) = v
  <2>1. Len(front) <= 5 /\ \A i \in 1 .. Len(front) : i <= VarintLength(n) => front[i] = Varint(n)[i]
    BY <1>5, <1>11, <1>l, <1>v
  <2> HIDE DEF length, ends
  <2>2. /\ Len(front) < VarintLength(n) => Ends(front) = {}
        /\ Len(front) >= VarintLength(n) =>
             /\ VarintLength(n) \in Ends(front)
             /\ (CHOOSE k \in Ends(front) : \A j \in Ends(front) : k <= j) = VarintLength(n)
             /\ SubSeq(front, 1, VarintLength(n)) = Varint(n)
    BY <1>n, <1>5, <2>1, FrontEnds
  <2> QED
    BY <1>5, <1>l, <1>v, <2>2 DEF length, ends
<1> HIDE DEF length
<1>13. CASE m < l
  <2>1. lg < ls
    BY <1>2, <1>5, <1>8, <1>10, <1>13
  <2> QED
    BY <1>12, <1>13, <2>1 DEF LengthRead, lg, ls, front
<1>14. CASE ~ (m < l)
  <2>1. m >= l /\ l <= lg /\ l \in Nat
    BY <1>2, <1>5, <1>8, <1>14
  <2>2. length = l /\ ends # {} /\ SubSeq(front, 1, length) = v
    BY <1>12, <2>1
  <2>3. Smaller(l, lg) = l
    BY <1>8, <2>1 DEF Smaller
  <2>4. FrontRead(g, s, start, l, Smaller(l, Len(g)))
    BY <2>1, FrontIs
  <2>5. G(l).source \in Sources /\ G(l).source.iov = s.iov /\ At(G(l).source, start, l)
    BY <2>3, <2>4 DEF FrontRead, lg
  <2> HIDE DEF G, ends
  <2>6. /\ ends # {} /\ VarintValue(SubSeq(front, 1, length)) = n /\ Len(v) <= lg
        /\ G(length).source \in Sources /\ G(length).source.iov = s.iov
        /\ At(G(length).source, start, Len(v))
    BY <1>2, <1>3, <2>1, <2>2, <2>5, <1>v
  <2> QED
    BY <2>6 DEF LengthRead, G, ends, length, front, n, v, lg
<1> QED
  BY <1>13, <1>14

-----------------------------------------------------------------------------
(* When all of the file has been read, the sink holds all of it.           *)
LEMMA InSink ==
  ASSUME CodedInv, left = 0, file \in Seq(Bytes)
  PROVE  \E items, e, d : Coded(items, e, d)
<1>1. PICK items : Stands(items, Len(file) - left)
  BY DEF CodedInv
<1>2. SubSeq(file, 1, Len(file) - left) = file
  <2>1. Len(file) - left = Len(file)
    OBVIOUS
  <2>2. SubSeq(file, 1, Len(file)) = file
    OBVIOUS
  <2> QED
    BY <2>1, <2>2
<1>3. items \in Seq(SmallItems) /\ sink = Varint(Len(file)) \o Encode(items) /\ Make(items, file)
  BY <1>1, <1>2 DEF Stands
<1>4. PICK e : Codes(e, items) /\ Encode(items) = e[Len(items)]
  BY <1>3, EncodeSteps
<1>5. PICK d : Decodes(d, items) /\ d[Len(items)] = file
  BY <1>3 DEF Make
<1>6. sink = Varint(Len(file)) \o e[Len(items)]
  BY <1>3, <1>4
<1>7. Coded(items, e, d)
  BY <1>3, <1>4, <1>5, <1>6 DEF Coded
<1> QED
  BY <1>7

(* Behind the length the first item begins.                                *)
LEMMA BehindLength ==
  ASSUME NEW items, NEW e, NEW d, Coded(items, e, d)
  PROVE  /\ e[Len(items)] \in Seq(Bytes) /\ sink = Varint(Len(file)) \o e[Len(items)]
         /\ e[0] = <<>> /\ d[0] = <<>> /\ 0 \in 0 .. Len(items)
         /\ Place(e, 0) = Len(Varint(Len(file))) /\ Place(e, 0) \in Nat /\ Len(d[0]) = 0
<1> DEFINE n == Len(items)
           D == Seq(Bytes)
           l == Len(Varint(Len(file)))
<1>1. items \in Seq(SmallItems) /\ Codes(e, items) /\ Decodes(d, items) /\ file \in Seq(Bytes)
  BY DEF Coded
<1>2. n \in Nat /\ Len(file) \in Nat
  BY <1>1
<1>3. e \in [0 .. n -> D] /\ e[0] = <<>> /\ d[0] = <<>>
  BY <1>1 DEF Codes, Decodes
<1> HIDE DEF D
<1>4. e[n] \in D
  BY <1>2, <1>3
<1>5. l \in Nat
  BY <1>2, VarintType, VarintLengthIs
<1>6. Len(e[0]) = 0 /\ Len(d[0]) = 0
  BY <1>3
<1>7. Place(e, 0) = l + Len(e[0])
  BY DEF Place
<1> HIDE DEF l
<1>8. Place(e, 0) = l /\ Place(e, 0) \in Nat
  BY <1>5, <1>6, <1>7
<1> QED
  BY <1>2, <1>3, <1>4, <1>6, <1>8 DEF Coded, D, l

(* A source that nothing has been read of is at its beginning.             *)
LEMMA SourceBegins ==
  ASSUME NEW iov, Source(iov) \in Sources, NEW start, NEW g, Laid(iov, start, g), AllFull(iov)
  PROVE  At(Source(iov), start, 0)
<1> DEFINE s == Source(iov)
           x == iov[1]
<1>1. s.iov = iov /\ s.vec = 1 /\ s.off = 0
  BY DEF Source
<1>2. iov \in Seq(Seq(Bytes)) /\ 1 <= Len(iov)
  BY <1>1 DEF Sources
<1>3. 1 \in 1 .. Len(iov)
  <2>1. Len(iov) \in Nat
    BY <1>2
  <2> QED
    BY <1>2, <2>1
<1>4. x \in Seq(Bytes) /\ x # <<>>
  BY <1>2, <1>3 DEF AllFull
<1>5. start[1] = 0
  BY DEF Laid, LaidFirst
<1> HIDE DEF s, x
<1>6. 0 <= Len(x) /\ 0 < Len(x)
  BY <1>4
<1>7. start[1] + 0 = 0
  BY <1>5
<1>8. At(s, start, 0)
  BY <1>1, <1>6, <1>7 DEF At, x
<1> QED
  BY <1>8 DEF s

(* Between two items, as the decoder begins.                               *)
LEMMA BeginsAtTag ==
  ASSUME NEW e, NEW d, NEW g \in Seq(Bytes), NEW start, NEW p \in Nat, p = Place(e, 0), p <= Len(g), Len(d[0]) = 0,
         buf' = <<>>, peeked' = 0, op' = 0, file' = file,
         NEW r \in Sources, At(r, start, p), reader' = r
  PROVE  AtTag(e, d, g, start, 0)'
<1> DEFINE x == [buf |-> <<>>, peeked |-> 0, reader |-> r]
<1>1. x.buf = <<>> /\ x.peeked = 0 /\ x.reader = r
  OBVIOUS
<1>2. Len(x.buf) = 0 /\ x.buf \in Seq(Bytes)
  BY <1>1
<1>3. p + Len(x.buf) = p /\ p + x.peeked = p
  BY <1>1, <1>2
<1>4. x.buf = SubSeq(g, p + 1, p)
  <2>1. SubSeq(g, p + 1, p) = <<>>
    OBVIOUS
  <2> QED
    BY <1>1, <2>1
<1>5. WindowOf(x, g, start, p)
  <2> HIDE DEF x
  <2> QED
    BY <1>1, <1>2, <1>3, <1>4 DEF WindowOf
<1>6. x = [buf |-> buf', peeked |-> peeked', reader |-> reader'] /\ op' = Len(d[0])
  OBVIOUS
<1> HIDE DEF x
<1>7. WindowOf(x, g, start, Place(e, 0))
  BY <1>5
<1> QED
  BY <1>6, <1>7, NextAtTag

(* A decoder that has read the length is at the first item; one that has   *)
(* not reports an error and was not given all.                             *)
LEMMA UncompressDecodes ==
  ASSUME CompressorInv, DecoderInv, StreamInv, CodedInv, SizeBounded, FileInv, HandedOver,
         SinkPiece = 1, Uncompress
  PROVE  DecodesRight'
<1>1. phase = "stored" /\ UNCHANGED <<file, sink, buf, peeked, owed, op, mem>>
  BY DEF Uncompress
<1>2. buf = <<>> /\ peeked = 0 /\ op = 0 /\ expected = 0 /\ sink \in Seq(Bytes) /\ sink # <<>>
      /\ file \in Seq(Bytes)
  BY <1>1 DEF DecoderInv, DecoderIdle, CompressorInv
<1>3. left = 0 /\ Len(sink) <= MaxCompressedLength(Len(file))
  BY <1>1 DEF StreamInv, SizeBounded
<1>4. PICK items, e, d : Coded(items, e, d)
  BY <1>2, <1>3, InSink
<1> DEFINE front(s) == Gather(s, <<>>, 5).bytes
           length(s) == CHOOSE k \in Ends(front(s)) : \A j \in Ends(front(s)) : k <= j
<1>5. PICK given \in Given :
        LET s == Source(given.iov)
        IN  /\ whole' = given.whole
            /\ \/ Ends(front(s)) = {} /\ phase' = "eio"
               \/ /\ Ends(front(s)) # {}
                  /\ reader' = Gather(s, <<>>, length(s)).source
                  /\ expected' = VarintValue(SubSeq(front(s), 1, length(s)))
                  /\ phase' = "tags"
  BY DEF Uncompress, Ends
<1> DEFINE s == Source(given.iov)
           iov == given.iov
           w == given.whole
<1>6. s \in Sources
  BY <1>2, GivenType
<1>7. PICK g : HandedAs(g, given.whole) /\ \E n \in Nat \ {0} : given.iov = Cut(g, n)
  BY <1>2, <1>3, GivenHanded
<1>8. /\ g \in Seq(Bytes) /\ g # <<>>
      /\ \A i \in 1 .. Len(g) : i <= Len(sink) => g[i] = sink[i]
      /\ w = (Len(g) = Len(sink))
      /\ ~ EmptyLiteral(g, Len(sink))
  BY <1>7 DEF HandedAs
<1>9. AllFull(iov) /\ \E start : Laid(iov, start, g)
  <2>1. PICK n \in Nat \ {0} : iov = Cut(g, n)
    BY <1>7
  <2>2. n \in Nat /\ n > 0
    OBVIOUS
  <2> QED
    BY <1>8, <2>1, <2>2, CutLaid
<1>10. PICK start : Laid(iov, start, g)
  BY <1>9
<1>11. s.iov = iov
  BY DEF Source
<1>12. At(s, start, 0)
  BY <1>6, <1>9, <1>10, SourceBegins
<1>13. whole' = w /\ (\/ Ends(front(s)) = {} /\ phase' = "eio"
                      \/ /\ Ends(front(s)) # {}
                         /\ reader' = Gather(s, <<>>, length(s)).source
                         /\ expected' = VarintValue(SubSeq(front(s), 1, length(s)))
                         /\ phase' = "tags")
  BY <1>5
<1> HIDE DEF s, iov, w, front, length
<1>14. LengthRead(g, s, start)
  <2>1. e[Len(items)] \in Seq(Bytes) /\ sink = Varint(Len(file)) \o e[Len(items)]
    BY <1>4, BehindLength
  <2>2. Laid(s.iov, start, g)
    BY <1>10, <1>11
  <2> DEFINE z == e[Len(items)]
  <2>3. z \in Seq(Bytes) /\ sink = Varint(Len(file)) \o z
    BY <2>1
  <2> HIDE DEF z
  <2> QED
    BY <1>6, <1>8, <1>12, <2>2, <2>3, LengthIsRead
<1>15. Right'
  BY <1>1, <1>2 DEF Right
<1>16. \/ Ends(front(s)) = {} /\ Len(g) < Len(sink)
       \/ /\ Ends(front(s)) # {}
          /\ VarintValue(SubSeq(front(s), 1, length(s))) = Len(file)
          /\ Len(Varint(Len(file))) <= Len(g)
          /\ Gather(s, <<>>, length(s)).source \in Sources
          /\ Gather(s, <<>>, length(s)).source.iov = s.iov
          /\ At(Gather(s, <<>>, length(s)).source, start, Len(Varint(Len(file))))
  BY <1>14 DEF LengthRead, front, length
<1>17. CASE Ends(front(s)) = {}
  <2>1. phase' = "eio" /\ Len(g) < Len(sink)
    BY <1>13, <1>16, <1>17
  <2>2. Len(g) # Len(sink)
    BY <1>2, <1>8, <2>1
  <2>3. ~ whole'
    BY <1>8, <1>13, <2>2
  <2> QED
    BY <1>15, <2>1, <2>3 DEF DecodesRight
<1>18. CASE Ends(front(s)) # {}
  <2> DEFINE r == Gather(s, <<>>, length(s)).source
             p == Len(Varint(Len(file)))
  <2>1. /\ phase' = "tags" /\ reader' = r /\ expected' = Len(file)
        /\ r \in Sources /\ r.iov = iov /\ At(r, start, p) /\ p <= Len(g)
    BY <1>11, <1>13, <1>16, <1>18
  <2>2. Place(e, 0) = p /\ p \in Nat /\ Len(d[0]) = 0 /\ 0 \in 0 .. Len(items)
    BY <1>4, BehindLength
  <2> HIDE DEF r, p
  <2>3. AtTag(e, d, g, start, 0)'
    BY <1>1, <1>2, <1>8, <2>1, <2>2, BeginsAtTag
  <2>4. Coded(items, e, d)'
    BY <1>1, <1>4 DEF Coded
  <2>5. LaidFull(reader.iov, g, start)'
    <3>1. reader'.iov = iov
      BY <2>1
    <3>2. LaidFull(iov, g, start)
      BY <1>8, <1>9, <1>10 DEF LaidFull
    <3> QED
      BY <3>1, <3>2 DEF LaidFull, Laid, LaidFirst, AllFull
  <2>6. Handed(g)'
    BY <1>1, <1>8, <1>13 DEF Handed
  <2>7. (sink \in Seq(Bytes) /\ expected = Len(file))'
    BY <1>1, <1>2, <2>1
  <2>8. Telling(items, e, d, g, start)'
    BY <2>4, <2>5, <2>6, <2>7 DEF Telling
  <2>9. BetweenItems'
    BY <2>2, <2>3, <2>8 DEF BetweenItems
  <2> QED
    BY <1>15, <2>1, <2>9 DEF DecodesRight
<1> QED
  BY <1>17, <1>18

-----------------------------------------------------------------------------
(* At the start nothing has been decoded.                                  *)
LEMMA InitDecodes == CodecInit => FileInv /\ DecodesRight
<1> SUFFICES ASSUME CodecInit
             PROVE  FileInv /\ DecodesRight
  OBVIOUS
<1>1. FileInv
  BY DEF CodecInit, FileInv
<1>2. phase = "next" /\ op = 0
  BY DEF CodecInit
<1>3. file \in Seq(Bytes)
  BY <1>1, FileLength
<1>4. Right
  BY <1>2, <1>3 DEF Right
<1> QED
  BY <1>1, <1>2, <1>4 DEF DecodesRight

(* The file that is compressed is the one that is compared.                *)
LEMMA FileStays == FileInv /\ [Next]_vars => FileInv'
<1> SUFFICES ASSUME FileInv, [Next]_vars
             PROVE  FileInv'
  OBVIOUS
<1>1. file' = file
  BY DEF Next, NextBlock, CompressFragment, AppendBlock, Stored, Uncompress, EndOfInput, LiteralTag, LiteralPiece,
     LiteralEnd, CopyTag, vars, codecVars
<1> QED
  BY <1>1 DEF FileInv

(* Every step of the codec keeps the decoder right.                        *)
LEMMA DecodesStep ==
  ASSUME CompressorInv, DecoderInv, StreamInv, CodedInv, SizeBounded, FileInv, DecodesRight,
         HandedOver, SinkPiece = 1, [Next]_vars
  PROVE  DecodesRight'
<1>1. Written
  BY DEF DecoderInv
<1>2. CASE NextBlock \/ CompressFragment \/ AppendBlock \/ Stored
  <2>1. UNCHANGED <<file, op, mem>> /\ phase' \notin {"tags", "literal", "ok", "eio"}
    BY <1>2 DEF NextBlock, CompressFragment, AppendBlock, Stored, codecVars, decoderVars
  <2> QED
    BY <2>1 DEF DecodesRight, Right
<1>3. CASE Uncompress
  BY <1>3, UncompressDecodes
<1>4. CASE EndOfInput
  BY <1>4, EndDecodes
<1>5. CASE LiteralTag
  BY <1>1, <1>5, LiteralTagDecodes
<1>6. CASE LiteralPiece \/ LiteralEnd
  <2>1. phase = "literal"
    BY <1>6 DEF LiteralPiece, LiteralEnd
  <2>2. Reading
    BY <2>1 DEF DecoderInv
  <2> QED
    BY <1>1, <1>6, <2>2, LiteralOwedDecodes
<1>7. CASE CopyTag
  BY <1>1, <1>7, CopyTagDecodes
<1>8. CASE UNCHANGED vars
  <2>1. UNCHANGED <<file, sink, whole, expected, phase, reader, buf, peeked, owed, op, mem>>
    BY <1>8 DEF vars, codecVars
  <2>2. Right' /\ (phase' = "ok" => whole' /\ op' = Len(file')) /\ (phase' = "eio" => ~ whole')
    BY <2>1 DEF DecodesRight, Right
  <2>3. ASSUME phase' = "tags"
        PROVE  BetweenItems'
    <3>1. PICK items, e, d, g, start :
            Telling(items, e, d, g, start) /\ \E k \in 0 .. Len(items) : AtTag(e, d, g, start, k)
      BY <2>1, <2>3 DEF DecodesRight, BetweenItems
    <3>2. PICK k \in 0 .. Len(items) : AtTag(e, d, g, start, k)
      BY <3>1
    <3>3. Telling(items, e, d, g, start)'
      BY <2>1, <3>1, TellingStays
    <3>4. AtTag(e, d, g, start, k)'
      BY <2>1, <3>2 DEF AtTag, Current, Place, WindowOf
    <3> QED
      BY <3>3, <3>4 DEF BetweenItems
  <2>4. ASSUME phase' = "literal"
        PROVE  (Beyond \/ WithinItem)'
    <3>1. Beyond \/ WithinItem
      BY <2>1, <2>4 DEF DecodesRight
    <3>2. CASE Beyond
      BY <2>1, <3>2 DEF Beyond
    <3>3. CASE WithinItem
      <4>1. PICK items, e, d, g, start :
              /\ Telling(items, e, d, g, start)
              /\ \E k \in 1 .. Len(items) : InLiteral(items, e, d, g, start, k)
        BY <3>3 DEF WithinItem
      <4>2. PICK k \in 1 .. Len(items) : InLiteral(items, e, d, g, start, k)
        BY <4>1
      <4>3. Telling(items, e, d, g, start)'
        BY <2>1, <4>1, TellingStays
      <4>4. InLiteral(items, e, d, g, start, k)'
        BY <2>1, <4>2 DEF InLiteral, Current, Place, WindowOf
      <4> QED
        BY <4>3, <4>4 DEF WithinItem
    <3> QED
      BY <3>1, <3>2, <3>3
  <2> QED
    BY <2>2, <2>3, <2>4 DEF DecodesRight
<1> QED
  BY <1>2, <1>3, <1>4, <1>5, <1>6, <1>7, <1>8 DEF Next

(* A decoder that is right has the file so far.                            *)
LEMMA DecodesRoundTrip ==
  ASSUME DecodesRight, Written, FileInv
  PROVE  RoundTrip
<1>1. op <= Len(file) /\ op \in Nat /\ \A i \in 1 .. op : mem[i] = file[i]
  BY DEF DecodesRight, Right
<1>2. file \in Seq(Bytes) /\ mem \in Seq(Cells) /\ op <= Len(mem)
  BY FileLength DEF Written
<1>3. SubSeq(mem, 1, op) = [i \in 1 .. op |-> mem[i]]
  BY <1>1, <1>2
<1>4. SubSeq(file, 1, op) = [i \in 1 .. op |-> file[i]]
  BY <1>1, <1>2
<1>5. SubSeq(mem, 1, op) = SubSeq(file, 1, op)
  BY <1>1, <1>3, <1>4
<1> QED
  BY <1>1, <1>5 DEF RoundTrip, DecodesRight

(* What compress makes of a file, in any pieces and whatever the hash      *)
(* collides on, the decoder makes the file of, in pieces of any size; it   *)
(* reports a result that misses bytes as an error (compress,               *)
(* snappy_uncompress_iov).                                                 *)
THEOREM RoundTrips ==
  ASSUME HashInRange, HandedOver, SinkPiece = 1
  PROVE  Spec => []RoundTrip
<1> DEFINE Inv == /\ CompressorInv /\ DecoderInv /\ StreamInv /\ SizeInv /\ CodedInv
                  /\ FileInv /\ DecodesRight
<1>1. CodecInit => Inv
  BY CodecInitHolds, InitStream, InitSize, InitCoded, InitDecodes
<1>2. Inv /\ [Next]_vars => Inv'
  <2> SUFFICES ASSUME Inv, [Next]_vars
               PROVE  Inv'
    OBVIOUS
  <2>1. CompressorInv' /\ DecoderInv'
    BY HashInRange, CompressorStep, DecoderStep
  <2>2. StreamInv' /\ SizeInv'
    BY HashInRange, StreamStep, SizeStep
  <2>3. CodedInv' /\ FileInv'
    BY CodedStep, FileStays
  <2>4. SizeBounded
    BY InvSizeBounded
  <2>5. DecodesRight'
    BY <2>4, HandedOver, DecodesStep
  <2> QED
    BY <2>1, <2>2, <2>3, <2>5
<1>3. Inv => RoundTrip
  BY DecodesRoundTrip DEF DecoderInv
<1> QED
  BY <1>1, <1>2, <1>3, PTL DEF Spec
=============================================================================
