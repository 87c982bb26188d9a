------------------------------ MODULE MCSecKey ------------------------------
(***************************************************************************)
(* The Gaussian integers: fourth roots of unity modulo 13, 17, 29 and the  *)
(* special prime 37, with the first two primes in one digit.               *)
(***************************************************************************)
EXTENDS SecKey

CONSTANTS a, b

MCPhimX  == [h \in 0 .. 2 |-> <<1, 0, 1>>[h + 1]]
MCPrime  == [i \in 0 .. 3 |-> <<13, 17, 29, 37>>[i + 1]]
MCRoot   == [i \in 0 .. 3 |-> <<5, 4, 12, 6>>[i + 1]]
MCDigits == <<{0, 1}, {2}>>

Poly(c0, c1) == [h \in 0 .. 1 |-> IF h = 0 THEN c0 ELSE c1]
MCMessages == {Poly(1, 2)}
MCKeys     == <<{Poly(1, -1)}, {Poly(0, 1)}>>
MCSmall    == {Poly(1, -1)}
MCErrors   == {Poly(0, 1)}

\* Buffers of eight numbers below 64.
MCStream(z) == [n \in 0 .. 19 |-> [k \in 1 .. 8 |-> (37 * n * n + 11 * n * k + 5 * z * k * k + 29 * k + 7 * z) % 64]]
MCStreams   == [z \in 1 .. 8 |-> MCStream(z)]
MCSystem    == {MCStream(0)}
=============================================================================
