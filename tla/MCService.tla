------------------------------ MODULE MCService ------------------------------
(* Service for TLC: two calls, one file of two and a half segments and one *)
(* of one and a half.  With four segments a grant is of two or of one, so  *)
(* that a file takes several passes and the last is granted more than it   *)
(* needs.                                                                  *)
EXTENDS Service, TLC

CONSTANTS c1, c2

MCFileLen == (c1 :> 5) @@ (c2 :> 3)

(* One call with an empty file, one with a file of one byte.               *)
MCFileLenEmpty == (c1 :> 0) @@ (c2 :> 1)

(* A codec that saves a byte in five, and what snappy does to a file that  *)
(* it cannot compress, up to 60 bytes: it adds two.                        *)
MCCompressedLen(n) == IF n = 0 THEN 1 ELSE n - n \div 5

MCCompressedLenExpands(n) == n + 2
=============================================================================
