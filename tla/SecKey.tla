------------------------------- MODULE SecKey -------------------------------
(***************************************************************************)
(* Why a ciphertext decrypts: the polynomials that keys.cpp samples for    *)
(* encryptions under the keys of KeyMatrices, and what Ctxt.cpp makes of   *)
(* them in products, automorphisms, modulus switching and key switching,   *)
(* over the rows of DoubleCRTRows.  Other modules take for granted what is *)
(* checked here: Ciphertext that a part under a handle is a multiple of    *)
(* that key, BGVCtxt that a ciphertext is an integer.                      *)
(*                                                                         *)
(* The public key is the list of matrices; how one is found in it is in    *)
(* KeySwitching, what happens when there is none in Ciphertext, and sums   *)
(* and plaintext spaces of several sizes are in BGVCtxt.  There are no     *)
(* small primes.  The norm of KeyMatrices bounds products in the same way  *)
(* as that of the canonical embedding.                                     *)
(***************************************************************************)
EXTENDS KeyMatrices

CONSTANTS
  Ctxts,
  Operands,                     \* bound: ciphertexts that are only encrypted and read
  Messages,                     \* the plaintexts that are encrypted
  SmallSamples, SmallBound,     \* what sampleSmallBounded may give for an encryption, and its
                                \* bound, for the keys too
  SystemStreams,                \* the random streams of the process
  MaxCalls                      \* bound: calls on a ciphertext after its encryption

\* The plaintext space is prime to the primes, what is sampled is below its bound, and the
\* streams do not end before an element is drawn.
ASSUME EncryptionsAssumption ==
  /\ CtxtPrimes # {} /\ \A i \in Chain : Coprime(PtxtSpace, Prime[i])
  /\ {MaxCalls, SmallBound} \subseteq Nat
  /\ Messages \subseteq [Cols -> 0 .. PtxtSpace - 1]
  /\ \A s \in SmallSamples \cup UNION {KeySamples[n] : n \in 1 .. MaxKeys} :
       s \in [Cols -> Int] /\ Norm(s) =< SmallBound
  /\ \A stream \in SystemStreams : Suffices(stream, Cardinality(Chain))

VARIABLES
  pubEncrKey,    \* the public encryption key: a ciphertext that encrypts 0
  ctxt           \* the ciphertexts, each with the plaintext it should decrypt to

vars == <<sKeys, keySwitching, pubEncrKey, ctxt>>

One      == Handle(0, 1, 0)
Base(id) == Handle(1, 1, id)

Part(h, poly) == [h |-> h, poly |-> poly]

\* A ciphertext without parts.
Empty == [parts |-> <<>>, primeSet |-> CtxtPrimes, intFactor |-> 1, noiseBound |-> 0,
          ptxt |-> Zero, calls |-> 0]

\* A bound that is a quotient of integers.
Ceiling(a, b) == -((-a) \div b)

-----------------------------------------------------------------------------
(* What the operations make of a ciphertext.                               *)

PartAdded(parts, p) ==
  IF \E i \in DOMAIN parts : parts[i].h = p.h
  THEN [i \in DOMAIN parts |->
          IF parts[i].h = p.h THEN [p EXCEPT !.poly = Op("add", parts[i].poly, @)]
          ELSE parts[i]]
  ELSE Append(parts, p)

AllAdded(parts, more) ==
  LET sum[n \in 0 .. Len(more)] ==
        IF n = 0 THEN parts ELSE PartAdded(sum[n - 1], more[n])
  IN sum[Len(more)]

\* The plaintext times Q, as small as it can be: for an even plaintext space the
\* residue in the middle has a random sign.
Fixed(ptxt, S) ==
  {[h \in Cols |-> IF r[h] > PtxtSpace \div 2 \/ (2 * r[h] = PtxtSpace /\ coin[h])
                   THEN r[h] - PtxtSpace ELSE r[h]] :
   r \in {Scaled(ptxt, ProductOf(S), PtxtSpace)}, coin \in [Cols -> BOOLEAN]}

\* In the worst case, where the code takes what it is with high probability.
PtxtBound == PhiM * (PtxtSpace \div 2)

ModUp(x, S) ==
  LET diff == S \ x.primeSet
  IN [x EXCEPT !.parts = [i \in DOMAIN @ |->
                            [@[i] EXCEPT !.poly = AddPrimesAndScale(@, diff)]],
               !.noiseBound = @ * ProductOf(diff), !.primeSet = @ \cup S]

SmallPower[s \in Nat] == IF s = 0 THEN 1 ELSE SmallBound * SmallPower[s - 1]

\* What a part, under a power of a key, adds to the noise times the primes it loses.
AddedNoise(part, S) == Norm(ScaleDownDelta(part.poly, S, PtxtSpace)) * SmallPower[part.h.s]

\* modDownToSet.
ModDown(x, S) ==
  IF x.primeSet \subseteq S THEN x
  ELSE [x EXCEPT !.parts = [i \in DOMAIN @ |-> [@[i] EXCEPT !.poly = ScaledDown(@, S, PtxtSpace)]],
                 !.noiseBound =
                    Ceiling(@ + SumFunction([i \in DOMAIN x.parts |-> AddedNoise(x.parts[i], S)]),
                            ProductOf(x.primeSet \ S)),
                 !.primeSet = @ \cap S]

Brought(x, S) == ModDown(ModUp(x, S), S)

\* The table of prime sets: here, the prefixes of the ctxt primes.
Prefixes == {S \in (SUBSET CtxtPrimes) \ {{}} :
               \A i \in S, k \in CtxtPrimes : k < i => k \in S}

\* SKHandle::mul.
MulFails(g, h) ==
  g.s # 0 /\ h.s # 0 /\ (g.id # h.id \/ g.x # h.x)
Mul(g, h) ==
  IF g.s = 0 THEN h ELSE IF h.s = 0 THEN g ELSE [g EXCEPT !.s = @ + h.s]

\* tensorProduct: a product of every two parts.
Tensor(x, y) ==
  LET ny == Len(y.parts)
      Pair(n) == LET f == x.parts[((n - 1) \div ny) + 1]
                     g == y.parts[((n - 1) % ny) + 1]
                 IN Part(Mul(f.h, g.h), Op("mul", g.poly, f.poly))
  IN [parts |-> AllAdded(<<>>, [n \in 1 .. Len(x.parts) * ny |-> Pair(n)]),
      primeSet |-> x.primeSet,
      intFactor |-> IF PtxtSpace > 2
                    THEN (((x.intFactor * y.intFactor) % PtxtSpace)
                            * (ProductOf(x.primeSet) % PtxtSpace)) % PtxtSpace
                    ELSE 1,
      noiseBound |-> x.noiseBound * y.noiseBound,
      ptxt |-> Times(x.ptxt, y.ptxt, PtxtSpace), calls |-> x.calls]

Product(x, y) ==
  IF \E i \in DOMAIN x.parts, k \in DOMAIN y.parts : MulFails(x.parts[i].h, y.parts[k].h)
  THEN x ELSE Tensor(x, y)

\* The digits times the columns, one part under the key and one under 1 in turn.
DigitProducts(d, column, W) ==
  [n \in 1 .. 2 * Len(d) |->
     LET i == (n + 1) \div 2
     IN IF n % 2 = 1 THEN Part(Base(W.toKeyID), Op("mul", d[i], column[i]))
        ELSE Part(One, Op("mul", d[i], W.b[i]))]

\* Mutant: the pseudorandom columns are made for the primes of the digits only, which
\* leaves the stream elsewhere than GenKeySWmatrix left it.
SwitchDigitsOutOfStep(parts, d, W) ==
  AllAdded(parts, DigitProducts(d, Columns(W.prgSeed, DOMAIN d[1]), W))

\* keySwitchDigits: the columns are made for all the primes.
SwitchDigits(parts, d, W) == AllAdded(parts, DigitProducts(d, MatrixColumns[W.prgSeed], W))

\* keySwitchPart: the noise is the norm of the digits times that of a column.
SwitchPart(y, d, W) ==
  [y EXCEPT !.parts = SwitchDigits(@, d, W),
            !.noiseBound = @ + W.noiseBound
              * SumFunction([i \in DOMAIN d |-> Norm(ToPoly(d[i], DOMAIN d[i]))])]

MatrixFor(h, id) == keySwitching[CHOOSE i \in Matrices(h, id) :
                                   \A k \in Matrices(h, id) : i =< k]

IsCanonical(x, id) == \A i \in DOMAIN x.parts : x.parts[i].h \in {One, Base(id)}

\* A part of a ciphertext without special primes, scaled by them or switched.
PartRelinearized(y, part, id) ==
  IF part.h \in {One, Base(id)}
  THEN [y EXCEPT !.parts = PartAdded(@, [part EXCEPT !.poly = AddPrimesAndScale(@, SpecialPrimes)])]
  ELSE SwitchPart(y, BreakIntoDigits(part.poly), MatrixFor(part.h, id))

\* reLinearize, after the special primes are dropped.
Relinearized(x, id) ==
  LET tmp[n \in 0 .. Len(x.parts)] ==
        IF n = 0 THEN [x EXCEPT !.parts = <<>>, !.noiseBound = @ * ProductOf(SpecialPrimes),
                                !.primeSet = @ \cup SpecialPrimes]
        ELSE PartRelinearized(tmp[n - 1], x.parts[n], id)
  IN tmp[Len(x.parts)]

Automorphed(x, k) ==
  [x EXCEPT !.parts = [i \in DOMAIN @ |->
                         [@[i] EXCEPT !.poly = Automorph(@, k),
                                      !.h.x = IF x.parts[i].h.s = 0 THEN @ ELSE (@ * k) % M]],
            !.ptxt = AtPower(@, k, PtxtSpace)]

IsCorrect(x) == x.noiseBound =< (48 * ProductOf(x.primeSet)) \div 100

\* The inner product of the parts with the keys, as the integer polynomial closest to 0.
Phase(x) ==
  LET Term(part) ==
        IF part.h.s = 0 THEN part.poly
        ELSE Op("mul", KeyOf([i \in DOMAIN sKeys |-> SetPrimes(sKeys[i], x.primeSet)], part.h),
                part.poly)
      sum[n \in 0 .. Len(x.parts)] ==
        IF n = 0 THEN Constant(0, x.primeSet) ELSE Op("add", sum[n - 1], Term(x.parts[n]))
  IN ToPoly(sum[Len(x.parts)], x.primeSet)

Decrypt(x) ==
  LET factor == (x.intFactor * (ProductOf(x.primeSet) % PtxtSpace)) % PtxtSpace
  IN IF PtxtSpace > 2 THEN Scaled(Phase(x), InvMod(factor, PtxtSpace), PtxtSpace)
     ELSE Mod(Phase(x), PtxtSpace)

-----------------------------------------------------------------------------
(* The calls.                                                              *)

Init ==
  /\ KeyInit /\ pubEncrKey = Empty
  /\ ctxt = [c \in Ctxts |-> Empty]

\* A fresh RLWE instance, as a ciphertext under key id.
Instance(key, id, stream, e) ==
  LET c1 == Randomized(CtxtPrimes, stream, 0).rows
  IN [Empty EXCEPT !.parts = <<Part(One, RLWE1(c1, key, e)), Part(Base(id), c1)>>,
                   !.noiseBound = RLWEBound]

\* The public encryption key comes with the first key.
MakeKeys ==
  /\ KeyNext
  /\ IF sKeys # <<>> THEN UNCHANGED pubEncrKey
     ELSE \E stream \in SystemStreams, e \in ErrorSamples :
            pubEncrKey' = Instance(sKeys'[1], 0, stream, e)
  /\ UNCHANGED ctxt

Becomes(c, x) == ctxt' = [ctxt EXCEPT ![c] = x] /\ UNCHANGED <<sKeys, keySwitching, pubEncrKey>>

\* With the public key: r*pk + p*(e0, e1) + (ptxt, 0).
Encrypt(c) ==
  /\ sKeys # <<>>
  /\ \E m \in Messages, r \in SmallSamples, e0, e1 \in ErrorSamples :
       \E f \in Fixed(m, CtxtPrimes) :
         LET Random(i, e) ==
               Op("add", OpPoly("mul", pubEncrKey.parts[i].poly, r),
                         OpNum("mul", Converted(e, CtxtPrimes), PtxtSpace))
         IN Becomes(c, [Empty EXCEPT
              !.parts = <<Part(One, OpPoly("add", Random(1, e0), f)), Part(Base(0), Random(2, e1))>>,
              !.noiseBound = SmallBound * pubEncrKey.noiseBound + PtxtSpace * ErrorBound
                               + PtxtSpace * ErrorBound * SmallBound + PtxtBound,
              !.ptxt = m])

\* With a secret key.
SkEncrypt(c, id) ==
  /\ id \in KeyIds
  /\ \E m \in Messages, stream \in SystemStreams, e \in ErrorSamples :
       \E f \in Fixed(m, CtxtPrimes) :
         LET x == Instance(sKeys[id + 1], id, stream, e)
         IN Becomes(c, [x EXCEPT !.parts[1].poly = OpPoly("add", @, f),
                                 !.noiseBound = @ + PtxtBound, !.ptxt = m])

\* Bound: ciphertexts that still decrypt, after a few calls.
IsUsable(x) == x.parts # <<>> /\ IsCorrect(x) /\ x.calls < MaxCalls
Called(x) == [x EXCEPT !.calls = @ + 1]

\* Bound: products of parts of degree 1.
CanMultiply(x) == IsUsable(x) /\ \A i \in DOMAIN x.parts : x.parts[i].h.s =< 1

\* multLowLvl, modulo any set of the table; it throws for parts under different keys.
MultLowLvl(c, d) ==
  /\ CanMultiply(ctxt[c]) /\ CanMultiply(ctxt[d])
  /\ \E S \in Prefixes :
       Becomes(c, Called(Product(Brought(ctxt[c], S), Brought(ctxt[d], S))))

ReLinearize(c, id) ==
  /\ IsUsable(ctxt[c]) /\ id \in KeyIds /\ ~ IsCanonical(ctxt[c], id)
  /\ \A i \in DOMAIN ctxt[c].parts :
       ctxt[c].parts[i].h \in {One, Base(id)} \/ Matrices(ctxt[c].parts[i].h, id) # {}
  /\ Becomes(c, Called(Relinearized(ModDown(ctxt[c], CtxtPrimes), id)))

BringToSet(c, S) == IsUsable(ctxt[c]) /\ Becomes(c, Called(Brought(ctxt[c], S)))

\* Bound: no automorphism of what the last one left under a moved key.
ApplyAutomorph(c, k) ==
  /\ IsUsable(ctxt[c]) /\ \A i \in DOMAIN ctxt[c].parts : ctxt[c].parts[i].h.x = 1
  /\ Becomes(c, Called(Automorphed(ctxt[c], k)))

Next ==
  \/ MakeKeys
  \/ \E c \in Ctxts : Encrypt(c) \/ \E id \in KeyIds : SkEncrypt(c, id)
  \/ \E c \in Ctxts \ Operands :
       \/ \E d \in Ctxts : MultLowLvl(c, d)
       \/ \E id \in KeyIds : ReLinearize(c, id)
       \/ \E S \in Prefixes : BringToSet(c, S)
       \/ \E k \in ZMStar \ {1} : ApplyAutomorph(c, k)

Spec == Init /\ [][Next]_vars

-----------------------------------------------------------------------------
(* Properties.                                                             *)

IsCtxt(x) ==
  /\ x.primeSet \subseteq AllPrimes /\ x.primeSet # {}
  /\ \A i \in DOMAIN x.parts : IsElement(x.parts[i].poly) /\ DOMAIN x.parts[i].poly = x.primeSet
  /\ x.intFactor \in 1 .. PtxtSpace - 1 /\ x.noiseBound \in Nat
  /\ x.ptxt \in [Cols -> 0 .. PtxtSpace - 1]

CtxtsTypeOK == IsCtxt(pubEncrKey) /\ \A c \in Ctxts : IsCtxt(ctxt[c])

\* Ctxt.h: the noise bound bounds what the ciphertext is under the keys, as long as it
\* does not exceed the modulus; the digits of key switching and the roundings of modulus
\* switching count in it.
NoiseBounded ==
  \A c \in Ctxts : ctxt[c].parts # <<>> /\ 2 * ctxt[c].noiseBound < ProductOf(ctxt[c].primeSet)
    => Norm(Phase(ctxt[c])) =< ctxt[c].noiseBound

\* The noise is bounded, and decryption gives the plaintext, after any products,
\* automorphisms, changes of the primes, and switches to a key by any of its matrices.
\* Ciphertexts have the rows and residues they are to have.
DecryptsRight ==
  CtxtsTypeOK /\ NoiseBounded /\ \A c \in Ctxts : ctxt[c].parts # <<>> /\ IsCorrect(ctxt[c]) =>
    Decrypt(ctxt[c]) = ctxt[c].ptxt
=============================================================================
