----------------------------- MODULE MCBGVCtxt -----------------------------
(* Two ciphertexts, of which y stays as small as a fresh one, and chains   *)
(* of two primes.                                                          *)
EXTENDS BGVCtxt, FiniteSetsExt

MCCtxts == {"x", "y"}
MCParams == {<<2, 2>>, <<5, 1>>}
MCMaxNoise == [x |-> 8, y |-> 2]
MCProduct == [s \in SUBSET Primes |-> ProductSet(s)]
MinusOne == {-1}
=============================================================================
