----------------------------- MODULE MCDoubleCRT -----------------------------
(***************************************************************************)
(* The fifth roots of unity modulo 11, 31 and the special prime 41; a      *)
(* digit for each ciphertext prime.                                        *)
(***************************************************************************)
EXTENDS DoubleCRT

CONSTANTS a, b

MCPhimX  == [h \in 0 .. 4 |-> 1]
MCPrime  == [i \in 0 .. 2 |-> <<11, 31, 41>>[i + 1]]
MCRoot   == [i \in 0 .. 2 |-> <<3, 2, 10>>[i + 1]]
MCDigits == <<{0}, {1}>>

MCPrimeSets == {{}, {0}, {1}, {0, 1}, {2}, {0, 1, 2}}
MCFirst     == [x \in {a, b} |-> [h \in 0 .. 3 |-> IF x = a THEN 60 * h - 91 ELSE 7 - 3 * h]]
MCFirstSets == {{0, 1}, {0, 1, 2}}
MCPolys == {[h \in 0 .. 3 |-> 25 - 40 * h], [h \in 0 .. 3 |-> IF h = 0 THEN 170 ELSE 0]}
MCNums  == {-7, 13981 + 2}
MCStreams == {[n \in 0 .. 4 |-> <<11 + n, 63, 5, 50, 31 + n, 26, 7 * n, 40>>]}
=============================================================================
