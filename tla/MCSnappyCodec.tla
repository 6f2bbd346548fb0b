---------------------------- MODULE MCSnappyCodec ----------------------------
(* SnappyCodec for TLC.  The files of one block: too short to be scanned;  *)
(* a word that comes back after others, with a tail as long as the margin; *)
(* random looking ones; short words repeated, whose matches have one to    *)
(* five bytes more than one or two copies hold; bytes that are all         *)
(* different, scanned to the end; repetitions at every distance up to nine *)
(* with tails that leave the decoder just enough room to write ahead, or   *)
(* just not.  Files of two and three blocks lie in pieces, one of them     *)
(* empty.  The hash tells apart less than four bytes do.  A sink of pieces  *)
(* of one byte has no last piece longer than its contents.                 *)
EXTENDS SnappyCodec

Bits == {0, 1}

Words(n) == [1 .. n -> Bits]

Periodic(w, n) == [k \in 1 .. n |-> w[((k - 1) % Len(w)) + 1]]

Run(from, n) == [k \in 1 .. n |-> from + k]

OneBlock ==
  UNION {Words(n) : n \in 1 .. 4} \cup {Periodic(w, 14) : w \in Words(2)} \cup
  {w \o u \o w \o Periodic(t, 15) :
     w \in Words(4), u \in [1 .. 2 -> {0, 2}], t \in Words(2)} \cup
  {w \o Periodic(t, 15) : w \in Words(6), t \in Words(3)} \cup
  {<<2>> \o Periodic(w, n) : w \in Words(2), n \in 66 .. 70} \cup
  {<<2>> \o Periodic(<<1>>, n) : n \in 128 .. 136} \cup
  {Run(0, n) : n \in {15, 16, 25, 75}} \cup
  {Run(0, d) \o Periodic(Run(0, d), n) \o Run(100, t) :
     d \in 1 .. 9, n \in {16, 24}, t \in {0, 5, 9, 10, 15, 16}}

Blocks ==
  {Periodic(<<1, 1, 2>>, 200), Run(0, 150), Periodic(<<0, 1>>, 140) \o Run(1, 30),
   Periodic(Run(0, 20), 290)}

MCCalls ==
  {<<<<>>>>} \cup {<<f>> : f \in OneBlock \cup Blocks} \cup
  {Cut(f, n) : f \in Blocks, n \in {10, 50, 144}} \cup
  {Cut(f, 100) \o <<<<>>>> : f \in Blocks} \cup
  {<<<<>>>> \o Cut(f, 144) : f \in Blocks} \cup
  {<<SubSeq(f, 1, 10), <<>>, SubSeq(f, 11, Len(f))>> : f \in Blocks}

Whole(n) == [pieces |-> n, keep |-> 1000, behind |-> <<>>]

MCHandovers ==
  {Whole(n) : n \in {2, 3, 7, 1000}} \cup
  {[Whole(n) EXCEPT !.keep = k] : n \in {3, 1000}, k \in {1, 2, 9, 20}} \cup
  {[Whole(5) EXCEPT !.behind = b] : b \in {<<0, 0>>, <<1, 1>>, <<28>> \o Run(0, 8)}}

MCHash(bytes) == (bytes[1] % 2) + 2 * (bytes[3] % 2)

MCBytes == 0 .. 255

MCHashes == 0 .. 3

ASSUME CallersCare == HandedOver
=============================================================================
