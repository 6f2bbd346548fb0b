----------------------------- MODULE MCMessages -----------------------------
(* Messages for TLC: the extremes of the numbers.  Lengths of one to seven *)
(* digits, and two calls, who may have the same queues; the generator      *)
(* gives one identifier for the seeds 1 and 7.  Grants of two segments, of *)
(* 91 with identifiers of ten digits, the most that fit in a text, and of  *)
(* 100, which a call has room for but which do not fit.                    *)
EXTENDS Messages, TLC

CONSTANTS c1, c2

MCRandomId(s) == IF s = 0 THEN 1000000 ELSE IF s = 7 THEN 9999998 ELSE 9999999 - s

TenDigits(n) == [k \in 1 .. n |-> 2147483647 - k]

MCGrants == {<<32768, 0>>, TenDigits(91), TenDigits(100)}

(* The first grant of a server with 300 segments, which Linux has numbered *)
(* since it was started.                                                   *)
MCFirstOf300 == {[k \in 1 .. 150 |-> 32769 * (k - 1)]}

Symmetric == Permutations(Calls)
=============================================================================
