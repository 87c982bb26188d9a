----------------------------- MODULE KeyMatrices -----------------------------
(***************************************************************************)
(* The secret keys and key-switching matrices that keys.cpp makes, over    *)
(* the rows of DoubleCRTRows.  SecKey extends this with the public         *)
(* encryption key and with ciphertexts.                                    *)
(*                                                                         *)
(* The norm of the canonical embedding is taken to be the sum of the       *)
(* absolute values of the coefficients.                                    *)
(***************************************************************************)
EXTENDS DoubleCRTRows

CONSTANTS
  PtxtSpace,                    \* p^r
  KeySamples,                   \* what sampleSmallBounded may give for the n-th secret key
  ErrorSamples, ErrorBound,     \* what sampleGaussianBounded may give, and its bound
  Stream, Seeds,                \* the random streams of the seeds, and bound: how many those are
  MaxKeys, MaxMatrices,         \* bounds: secret keys, matrices besides those for powers of s
  MaxDegKswitch,                \* the powers of s that matrices are made for
  XPowers                       \* bound: the powers of X that others are made for

Norm(f) ==
  LET Abs(a) == IF a < 0 THEN -a ELSE a
  IN SumFunction([h \in DOMAIN f |-> Abs(f[h])])

AllPrimes == CtxtPrimes \cup SpecialPrimes

\* Samples are below their bounds, errors are small for the modulus of the matrices, and no
\* stream ends before the columns of a matrix are drawn.
ASSUME SamplesAssumption ==
  /\ PtxtSpace \in Nat /\ PtxtSpace > 1 /\ ErrorBound \in Nat
  /\ {Seeds, MaxKeys, MaxMatrices} \subseteq Nat /\ MaxDegKswitch \in Nat \ {0}
  /\ XPowers \subseteq ZMStar
  /\ \A n \in 1 .. MaxKeys : KeySamples[n] \subseteq [Cols -> Int]
  /\ \A e \in ErrorSamples : e \in [Cols -> Int] /\ Norm(e) =< ErrorBound
  /\ 2 * PtxtSpace * ErrorBound < ProductOf(AllPrimes)
  /\ DOMAIN Stream = 1 .. Seeds
  /\ \A seed \in DOMAIN Stream : Suffices(Stream[seed], Len(Digits) * Cardinality(Chain))

VARIABLES
  sKeys,         \* the secret keys, over the ctxt and special primes
  keySwitching   \* the matrices, the noise bound and the b_i of each

keyVars == <<sKeys, keySwitching>>

KeyIds == 0 .. Len(sKeys) - 1

Handle(s, x, id) == [s |-> s, x |-> x, id |-> id]

-----------------------------------------------------------------------------
(* RLWE instances and key-switching matrices.                              *)

\* RLWE1: c0 = p*e - c1*s, over the primes of c1.
RLWE1(c1, s, e) ==
  Op("sub", OpNum("mul", Converted(e, DOMAIN c1), PtxtSpace), Op("mul", c1, s))

RLWEBound == PtxtSpace * ErrorBound

\* s^r(X^t) for the handle of a secret key.
KeyOf(keys, h) ==
  LET moved == IF h.x > 1 THEN Automorph(keys[h.id + 1], h.x) ELSE keys[h.id + 1]
  IN IF h.s > 1 THEN Exp(moved, h.s) ELSE moved

\* The pseudorandom columns over the primes S, one after the other from the stream of
\* the seed.
Columns(seed, S) ==
  LET drawn[i \in 0 .. Len(Digits)] ==
        IF i = 0 THEN [rows |-> <<>>, next |-> 0]
        ELSE The({Randomized(S, Stream[seed], d.next) : d \in {drawn[i - 1]}})
  IN [i \in DOMAIN Digits |-> drawn[i].rows]

\* Those of a matrix, which has them for all the primes.
MatrixColumns == [seed \in DOMAIN Stream |-> Columns(seed, AllPrimes)]

\* The multiple of the key that a digit stands for: the product of the special primes
\* and of the digits before it.
DigitScale(i) ==
  LET scale[k \in 1 .. Len(Digits)] ==
        IF k = 1 THEN ProductOf(SpecialPrimes) ELSE scale[k - 1] * ProductOf(Digits[k - 1])
  IN scale[i]

\* Mutant: the key is not multiplied by the products of the digits.
MatrixUnscaled(keys, from, to, seed, errors) ==
  LET column == MatrixColumns[seed]
  IN [fromKey |-> from, toKeyID |-> to, prgSeed |-> seed, noiseBound |-> RLWEBound,
      b |-> [i \in DOMAIN Digits |->
              Op("add", RLWE1(column[i], keys[to + 1], errors[i]),
                 OpNum("mul", KeyOf(keys, from), DigitScale(1)))]]

\* GenKeySWmatrix: b_i = p*e_i - a_i*s + P*B_i*s^r(X^t).
Matrix(keys, from, to, seed, errors) ==
  LET column == MatrixColumns[seed]
  IN [fromKey |-> from, toKeyID |-> to, prgSeed |-> seed, noiseBound |-> RLWEBound,
      b |-> [i \in DOMAIN Digits |->
              Op("add", RLWE1(column[i], keys[to + 1], errors[i]),
                 OpNum("mul", KeyOf(keys, from), DigitScale(i)))]]

Errors == [DOMAIN Digits -> ErrorSamples]

Matrices(h, id) ==
  {i \in DOMAIN keySwitching : keySwitching[i].fromKey = h /\ keySwitching[i].toKeyID = id}

-----------------------------------------------------------------------------
(* The calls.                                                              *)

KeyInit == sKeys = <<>> /\ keySwitching = <<>>

\* GenSecKey and ImportSecKey: the matrices for the powers of s come with every key.
NewSecKey ==
  /\ Len(sKeys) < MaxKeys /\ Len(keySwitching) + MaxDegKswitch - 1 =< Seeds
  /\ \E s \in KeySamples[Len(sKeys) + 1], es \in Errors :
       LET keys == Append(sKeys, Converted(s, AllPrimes))
           id   == Len(sKeys)
       IN /\ sKeys' = keys
          /\ keySwitching' = keySwitching \o [n \in 1 .. MaxDegKswitch - 1 |->
               Matrix(keys, Handle(n + 1, 1, id), id, Len(keySwitching) + n, es)]

\* Nothing is generated that is there already.
GenKeySWmatrix(x, from, to) ==
  /\ {from, to} \subseteq KeyIds
  /\ x # 1 \/ from # to
  /\ Len(keySwitching) < Seeds
  /\ Cardinality({n \in DOMAIN keySwitching : keySwitching[n].fromKey.s = 1}) < MaxMatrices
  /\ Matrices(Handle(1, x, from), to) = {}
  /\ \E es \in Errors :
       keySwitching' = Append(keySwitching,
         Matrix(sKeys, Handle(1, x, from), to, Len(keySwitching) + 1, es))
  /\ UNCHANGED sKeys

KeyNext == NewSecKey \/ \E x \in XPowers \cup {1}, from, to \in KeyIds : GenKeySWmatrix(x, from, to)

KeySpec == KeyInit /\ [][KeyNext]_keyVars

-----------------------------------------------------------------------------
(* Properties.                                                             *)

KeysTypeOK ==
  /\ \A i \in DOMAIN sKeys : IsElement(sKeys[i]) /\ DOMAIN sKeys[i] = AllPrimes
  /\ \A n \in DOMAIN keySwitching : \A i \in DOMAIN Digits :
       IsElement(keySwitching[n].b[i]) /\ DOMAIN keySwitching[n].b[i] = AllPrimes

\* The class comment of keySwitching.h: bj = P*Bj*s' + p*ej - s*aj for a short ej
\* (here b[i] and a[i]), where the a[i] are not kept and are made again from the seed.
\* It holds modulo all the primes, of the digits before and after too.  Keys and matrices
\* have the rows and residues they are to have.
MatricesRight ==
  KeysTypeOK /\ \A n \in DOMAIN keySwitching :
    LET W == keySwitching[n]
        column == MatrixColumns[W.prgSeed]
        Difference(i) ==
          Op("sub", Op("add", W.b[i], Op("mul", column[i], sKeys[W.toKeyID + 1])),
                    OpNum("mul", KeyOf(sKeys, W.fromKey),
                          ProductOf(SpecialPrimes \cup UNION {Digits[k] : k \in 1 .. i - 1})))
    IN \A i \in DOMAIN Digits :
         LET noise == ToPoly(Difference(i), AllPrimes)
         IN /\ Mod(noise, PtxtSpace) = Zero
            /\ Norm(noise) =< W.noiseBound
=============================================================================
