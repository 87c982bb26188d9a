------------------------------ MODULE BGVCtxt ------------------------------
(***************************************************************************)
(* The bookkeeping that makes a BGV ciphertext decrypt (Ctxt.cpp): the     *)
(* prime set, plaintext space, integer factor and noise bound that go with *)
(* the parts through sums, products, constants, changes of the modulus and *)
(* of the plaintext space.                                                 *)
(*                                                                         *)
(* The ring is the integers: every polynomial has one coefficient, and the *)
(* norm of its canonical embedding is its absolute value.  The parts of a  *)
(* ciphertext are abstracted to their inner product with the powers of the *)
(* secret key, as an integer before it is reduced modulo the product Q of  *)
(* the prime set ("phase").  The plaintext that the operations should give *)
(* is carried along ("ptxt"): nothing the code computes depends on it.     *)
(***************************************************************************)
EXTENDS Integers, FiniteSets

CONSTANTS Ctxts,       \* the ciphertexts
          Params,      \* pairs <<p, r>>: the plaintext space of a context is p^r
          CtxtPrimes,  \* the ctxt primes of the chain
          OtherPrimes, \* its small and special primes
          Product,     \* Context::productOfPrimes
          Messages,    \* the plaintexts that are encrypted
          ErrorBound,  \* the errors of an encryption are -ErrorBound .. ErrorBound
          Factors,     \* the constants to multiply by
          Summands,    \* the encoded plaintexts to add
          Scalars,     \* the integers to add
          SecondParts, \* bound: the values tried for what a ciphertext has under s
          MaxNoise     \* bound: no operation on c gives a noise bound above MaxNoise[c]

Primes == CtxtPrimes \cup OtherPrimes
PrimeSets == (SUBSET Primes) \ {{}}

ASSUME NumbersAssumption ==
  /\ Params \subseteq (Nat \ {0, 1}) \X (Nat \ {0}) /\ MaxNoise \in [Ctxts -> Nat]
  /\ Primes \subseteq Nat /\ CtxtPrimes # {} /\ CtxtPrimes \cap OtherPrimes = {}
  /\ Messages \cup Factors \cup Summands \cup Scalars \cup SecondParts \subseteq Int
  /\ ErrorBound \in Nat

ASSUME ProductAssumption ==
  /\ Product \in [SUBSET Primes -> Nat \ {0}]
  /\ Product[{}] = 1
  /\ \A q \in Primes : Product[{q}] = q
  /\ \A S, T \in SUBSET Primes :
       S \cap T = {} => Product[S \cup T] = Product[S] * Product[T]

(* PAlgebra.cpp:463: "Modulus pp is not prime".  No prime of the chain is p: a *)
(* plaintext could not be scaled modulo it.                                *)
ASSUME PrimesAssumption ==
  /\ IsFiniteSet(Primes)
  /\ \A par \in Params :
       /\ \A d \in 2 .. par[1] - 1 : par[1] % d # 0
       /\ \A q \in Primes : q % par[1] # 0

VARIABLES context, \* the parameters p and r of the context
          ct,      \* the ciphertexts
          failed   \* an assertion or a sanity check of an operation failed

vars == <<context, ct, failed>>

P == context[1]

-----------------------------------------------------------------------------
(* Numbers *)

Abs(a) == IF a < 0 THEN -a ELSE a

(* The first whole number that is not below a/b, b > 0. *)
Ceiling(a, b) == -((-a) \div b)

GCD(a, b) ==
  CHOOSE d \in 1 .. b : /\ a % d = 0 /\ b % d = 0
                        /\ \A e \in 1 .. b : a % e = 0 /\ b % e = 0 => e <= d

Coprime(a, b) == GCD(a, b) = 1

InvMod(a, n) == CHOOSE b \in 0 .. n - 1 : (a * b) % n = 1 % n

(* balRem_ZZ, for a in 0 .. n-1. *)
BalRem(a, n) == IF a > n \div 2 THEN a - n ELSE a

(* What balanced_MulMod() may make of a residue: for an even n the one in  *)
(* the middle has a random sign.                                           *)
Balanced(a, n) == {b \in {a, a - n} : 2 * Abs(b) <= n}

(* The powers of p. *)
PowersOf(p) ==
  LET pow[i \in Nat] == IF i = 0 THEN 1 ELSE pow[i - 1] * p IN pow

PtxtSpaces == {PowersOf(P)[i] : i \in 1 .. context[2]}

-----------------------------------------------------------------------------
(* Ciphertexts *)

(* A ciphertext without parts. *)
Cleared(space) ==
  [empty |-> TRUE, phase |-> 0, set |-> CtxtPrimes, space |-> space,
   factor |-> 1, noise |-> 0, ptxt |-> 0]

Q(x) == Product[x.set]

(* What a plaintext is multiplied by in a ciphertext: 1 unless ptxtSpace>2.*)
Scale(x) == IF x.space > 2 THEN (x.factor * (Q(x) % x.space)) % x.space ELSE 1

ReducePtxtSpace(x, space) ==
  LET g == GCD(x.space, space)
  IN [x EXCEPT !.space = g, !.factor = @ % g, !.ptxt = @ % g]

MulIntFactor(x, e) ==
  IF e = 1 THEN x
  ELSE LET b == BalRem(e, x.space)
       IN [x EXCEPT !.factor = (@ * e) % x.space, !.phase = @ * b,
                    !.noise = @ * Abs(b)]

ModUpToSet(x, s) ==
  [x EXCEPT !.phase = @ * Product[s \ x.set], !.noise = @ * Product[s \ x.set],
            !.set = @ \cup s]

DeltaUnbalanced(c, D, n) ==
  LET d == BalRem(c % D, D)
  IN d - D * (((d % n) * InvMod(D % n, n)) % n)

(* What scaleDownToSet() subtracts from a coefficient c before it divides  *)
(* by D: congruent to c modulo D, and divisible by the plaintext space n.  *)
Delta(c, D, n) ==
  LET d == BalRem(c % D, D)
      v == ((d % n) * InvMod(D % n, n)) % n
      low == v > n \div 2 \/ (n % 2 = 0 /\ v = n \div 2 /\ d < 0)
  IN d - D * (IF low THEN v - n ELSE v)

ModDownForgetsRounding(x, s) ==
  LET drop == x.set \ s
      D == Product[drop]
      After(d0, d1) ==
        [x EXCEPT !.phase = (@ - d0 - d1) \div D, !.set = @ \ drop,
                  !.noise = Ceiling(@, D)]
  IN IF drop = {} THEN {x}
     ELSE {After(Delta(x.phase - c1, D, x.space), Delta(c1, D, x.space)) :
           c1 \in SecondParts}

(* Modulus switching of a ciphertext with parts (c0, c1) relative to       *)
(* (1, s), where s = 1 and so phase = c0 + c1.  Each part is rounded, and  *)
(* what was added is measured.  The coefficient c1 may be anything.        *)
ModDowns(x, s) ==
  LET drop == x.set \ s
      D == Product[drop]
      After(d0, d1) ==
        [x EXCEPT !.phase = (@ - d0 - d1) \div D, !.set = @ \ drop,
                  !.noise = Ceiling(@ + Abs(d0) + Abs(d1), D)]
  IN IF drop = {} THEN {x}
     ELSE {After(Delta(x.phase - c1, D, x.space), Delta(c1, D, x.space)) :
           c1 \in SecondParts}

(* modDownToSet() throws if a rounding is not what it should be. *)
BadModSwitch(x, s) ==
  LET D == Product[x.set \ s]
  IN s \cap x.set # x.set
     /\ \E c \in 0 .. D - 1 : 2 * Abs(Delta(c, D, x.space)) > D * x.space

BroughtToSet(x, s) == ModDowns(ModUpToSet(x, s), s)

-----------------------------------------------------------------------------
(* The operations on values *)

Encryption(m, space, b, e) ==
  [Cleared(space) EXCEPT !.empty = FALSE, !.ptxt = m % space, !.phase = b + space * e,
                         !.noise = space \div 2 + space * ErrorBound]

(* Encryptions of m: the plaintext, scaled by Q, and an error times the    *)
(* plaintext space.                                                        *)
Encryptions(m, space) ==
  LET scaled == (m * (Product[CtxtPrimes] % space)) % space
  IN {Encryption(m, space, b, e) :
      b \in Balanced(scaled, space), e \in -ErrorBound .. ErrorBound}

Negated(x) == [x EXCEPT !.phase = -@, !.ptxt = (-@) % x.space]

(* The noise of e1*x + e2*y. *)
NoiseNorm(x, y, e) ==
  x.noise * Abs(BalRem(e[1], x.space)) + y.noise * Abs(BalRem(e[2], x.space))

HarmonizingByRatio(x, y) ==
  LET n == x.space IN <<(y.factor * InvMod(x.factor, n)) % n, 1>>

(* The factors that x and y are multiplied by before they are added: the   *)
(* extended Euclidean algorithm on ptxtSpace and the ratio of the integer  *)
(* factors visits the pairs (r, t) with r = t * ratio, and the pair of the *)
(* smallest noise is kept.                                                 *)
Better(x, y, e, best) == e[1] % P # 0 /\ NoiseNorm(x, y, e) < NoiseNorm(x, y, best)

EuclidStart(x, y) ==
  LET ratio == (y.factor * InvMod(x.factor, x.space)) % x.space
  IN [r0 |-> x.space, r1 |-> ratio, t0 |-> 0, t1 |-> 1, best |-> <<ratio, 1>>]

EuclidStep(x, y, s) ==
  LET r == s.r0 % s.r1
      t == s.t0 - s.t1 * (s.r0 \div s.r1)
      e == <<r % x.space, t % x.space>>
  IN IF s.r1 = 0 THEN s
     ELSE [r0 |-> s.r1, r1 |-> r, t0 |-> s.t1, t1 |-> t,
           best |-> IF Better(x, y, e, s.best) THEN e ELSE s.best]

(* r1 falls with every step, so that the loop is over after ptxtSpace steps. *)
Euclid(x, y) ==
  LET after[k \in Nat] == IF k = 0 THEN EuclidStart(x, y) ELSE EuclidStep(x, y, after[k - 1])
  IN after

HarmonizingFactors(x, y) ==
  IF x.factor = y.factor THEN <<1, 1>> ELSE Euclid(x, y)[x.space].best

(* The assertions of addCtxt(). *)
Harmonizes(x, y, e) ==
  /\ (e[1] * x.factor) % x.space = (e[2] * y.factor) % x.space
  /\ Coprime(e[1], x.space) /\ Coprime(e[2], x.space)

(* x and y over the same plaintext space and primes. *)
Matched(x, y) == ModUpToSet(ReducePtxtSpace(x, y.space), y.set)

Sum(x, y, neg) ==
  LET a == Matched(x, y)
      b == Matched(y, x)
      e == HarmonizingFactors(a, b)
      c == MulIntFactor(a, e[1])
      d == IF neg THEN Negated(MulIntFactor(b, e[2])) ELSE MulIntFactor(b, e[2])
  IN [c EXCEPT !.phase = @ + d.phase, !.noise = @ + d.noise,
               !.ptxt = (@ + d.ptxt) % c.space]

TensorWithoutQ(x, y) ==
  [x EXCEPT !.phase = @ * y.phase, !.noise = @ * y.noise,
            !.factor = (@ * y.factor) % x.space,
            !.ptxt = (@ * y.ptxt) % x.space]

TensorProduct(x, y) ==
  [x EXCEPT !.phase = @ * y.phase, !.noise = @ * y.noise,
            !.factor = IF x.space > 2
                       THEN (((@ * y.factor) % x.space) * (Q(x) % x.space)) % x.space
                       ELSE 1,
            !.ptxt = (@ * y.ptxt) % x.space]

(* multByConstant(): of the constant, the part that is prime to the        *)
(* plaintext space goes into the integer factor.                           *)
Multiplied(x, k) ==
  LET n == x.space
      c0 == k % n
      d == GCD(c0, n)
      b == BalRem(d, n)
  IN CASE c0 = 1 -> x
       [] c0 = 0 -> Cleared(n)
       [] OTHER -> [x EXCEPT !.factor = (@ * InvMod(c0 \div d, n)) % n,
                             !.phase = @ * b, !.noise = @ * Abs(b),
                             !.ptxt = (@ * k) % n]

Signed(a, neg) == IF neg THEN -a ELSE a

(* An encoded plaintext k over a plaintext space is scaled before it is    *)
(* lifted to the ciphertext, and its size is what it is after that.        *)
EncodedAdded(x, k, space, neg) ==
  LET a == ReducePtxtSpace(x, space)
      polys == IF Scale(a) # 1 \/ a.space # space
               THEN Balanced(((k % a.space) * Scale(a)) % a.space, a.space) ELSE {k}
  IN {[a EXCEPT !.empty = FALSE, !.phase = @ + Signed(b, neg), !.noise = @ + Abs(b),
                !.ptxt = (@ + Signed(k, neg)) % a.space] : b \in polys}

(* An integer is taken as an encoded plaintext of that size; the lifted    *)
(* constant is what is scaled.                                             *)
ScalarAdded(x, k, neg) ==
  LET cc == BalRem(k % x.space, x.space)
      f == BalRem(Scale(x), x.space)
  IN IF cc = 0 THEN x
     ELSE [x EXCEPT !.empty = FALSE, !.phase = @ + Signed(cc * f, neg),
                    !.noise = @ + cc * Abs(f),
                    !.ptxt = (@ + Signed(k, neg)) % x.space]

DividedByP(x) ==
  LET n == x.space \div P
  IN [x EXCEPT !.phase = @ \div P, !.noise = Ceiling(@, P), !.space = n,
               !.factor = @ % n, !.ptxt = @ \div P]

IsCorrectUpToQ(x) == 100 * x.noise <= 96 * Q(x)

IsCorrect(x) == 100 * x.noise <= 48 * Q(x)

(* The phase is known modulo Q; its balanced residue, without the scale.   *)
Decrypt(x) ==
  LET z == BalRem(x.phase % Q(x), Q(x)) % x.space
  IN IF Scale(x) = 1 THEN z ELSE (z * InvMod(Scale(x), x.space)) % x.space

-----------------------------------------------------------------------------
(* The operations on ciphertexts *)

Init == /\ context \in Params
        /\ ct = [c \in Ctxts |-> Cleared(PowersOf(context[1])[context[2]])]
        /\ failed = FALSE

Becomes(c, x) == /\ x.noise <= MaxNoise[c]
                 /\ ct' = [ct EXCEPT ![c] = x]

NoChecks == UNCHANGED <<context, failed>>

Encrypt(c) == \E m \in Messages, space \in PtxtSpaces :
  /\ \E x \in Encryptions(m, space) : Becomes(c, x)
  /\ NoChecks

Negate(c) == Becomes(c, Negated(ct[c])) /\ NoChecks

(* Nothing is done for an empty d; an empty c is replaced by d.            *)
AddCtxt(c, d, neg) ==
  LET x == ct[c]
      y == ct[d]
      a == Matched(x, y)
      b == Matched(y, x)
  IN /\ ~y.empty
     /\ IF x.empty
        THEN Becomes(c, IF neg THEN Negated(y) ELSE y) /\ NoChecks
        ELSE /\ Becomes(c, Sum(x, y, neg))
             /\ UNCHANGED context
             /\ failed' = (failed \/ ~Harmonizes(a, b, HarmonizingFactors(a, b)))

(* Products are taken modulo any common set of primes; a copy of d is what *)
(* is brought to it, unless d is c itself.                                 *)
MultLowLvl(c, d) ==
  LET x == ReducePtxtSpace(ct[c], ct[d].space)
      y == ReducePtxtSpace(ct[d], ct[c].space)
  IN /\ ~ct[c].empty
     /\ IF ct[d].empty THEN Becomes(c, ct[d]) /\ NoChecks
        ELSE \E s \in PrimeSets :
          /\ \E a \in BroughtToSet(x, s) :
               \E b \in (IF c = d THEN {a} ELSE BroughtToSet(y, s)) :
                 Becomes(c, TensorProduct(a, b))
          /\ UNCHANGED context
          /\ failed' = (failed \/ BadModSwitch(ModUpToSet(x, s), s)
                               \/ BadModSwitch(ModUpToSet(y, s), s))

MultByConstant(c) == \E k \in Factors :
  /\ ~ct[c].empty
  /\ Becomes(c, Multiplied(ct[c], k))
  /\ NoChecks

AddEncoded(c) == \E k \in Summands, space \in PtxtSpaces, neg \in BOOLEAN :
  /\ \E x \in EncodedAdded(ct[c], k, space, neg) : Becomes(c, x)
  /\ NoChecks

AddScalar(c) == \E k \in Scalars, neg \in BOOLEAN :
  Becomes(c, ScalarAdded(ct[c], k, neg)) /\ NoChecks

BringToSet(c) == \E s \in PrimeSets :
  /\ \E x \in BroughtToSet(ct[c], s) : Becomes(c, x)
  /\ UNCHANGED context
  /\ failed' = (failed \/ BadModSwitch(ModUpToSet(ct[c], s), s))

Reduce(c) == \E space \in PtxtSpaces :
  Becomes(c, ReducePtxtSpace(ct[c], space)) /\ NoChecks

(* Asserted: the plaintext space is a larger power of P.  Assumed by the   *)
(* code: the plaintext is divisible by P.                                  *)
DivideByP(c) ==
  /\ ~ct[c].empty /\ ct[c].space > P /\ ct[c].ptxt % P = 0
  /\ Becomes(c, DividedByP(ct[c]))
  /\ NoChecks

Next == \E c \in Ctxts :
  \/ Encrypt(c) \/ Negate(c) \/ MultByConstant(c) \/ AddEncoded(c) \/ AddScalar(c)
  \/ BringToSet(c) \/ Reduce(c) \/ DivideByP(c)
  \/ \E d \in Ctxts : MultLowLvl(c, d) \/ \E neg \in BOOLEAN : AddCtxt(c, d, neg)

Spec == Init /\ [][Next]_vars

-----------------------------------------------------------------------------
(* Types of the variables.  Decryption divides by the integer factor, and  *)
(* so does the addition of ciphertexts with different ones: it stays prime *)
(* to the plaintext space, through reductions and divisions of the space.  *)
TypeOK ==
  /\ context \in Params
  /\ ct \in [Ctxts -> [empty : BOOLEAN, phase : Int, set : PrimeSets,
                       space : PtxtSpaces, factor : Nat, noise : Int,
                       ptxt : Nat]]
  /\ failed \in BOOLEAN
  /\ \A c \in Ctxts : /\ Coprime(ct[c].factor, ct[c].space)
                      /\ ct[c].factor < ct[c].space /\ ct[c].ptxt < ct[c].space
                      /\ ct[c].noise <= MaxNoise[c]

(* Ctxt.cpp:460, the invariant of the scheme: a ciphertext modulo Q        *)
(* decrypts to intFactor * Q * m modulo its plaintext space, after any     *)
(* sequence of operations on ciphertexts over different primes, spaces and *)
(* factors; and the types and ranges of the state stay as they should.     *)
EncryptsPtxt == TypeOK /\ \A c \in Ctxts : LET x == ct[c] IN
  (x.phase - Scale(x) * x.ptxt) % x.space = 0

(* Ctxt.h:388: the noise bound of a ciphertext bounds the norm of what it  *)
(* decrypts to before reduction.                                           *)
NoiseBounded == \A c \in Ctxts : Abs(ct[c].phase) <= ct[c].noise

(* Ctxt.h:1379: a ciphertext that isCorrect() decrypts to the plaintext    *)
(* the operations should have given.                                       *)
DecryptsRight == \A c \in Ctxts :
  IsCorrect(ct[c]) => Decrypt(ct[c]) = ct[c].ptxt

(* The assertions of addCtxt() and the sanity check of modDownToSet() hold.*)
NothingFails == ~failed

(* Ctxt.cpp:1495: the factors that harmonize two ciphertexts for an        *)
(* addition minimize the noise of their sum, though the algorithm tries    *)
(* only the pairs of the Euclidean algorithm.                              *)
HarmonyIsBest == \A c, d \in Ctxts :
  LET a == Matched(ct[c], ct[d])
      b == Matched(ct[d], ct[c])
      n == a.space
      chosen == HarmonizingFactors(a, b)
  IN ~ct[c].empty /\ ~ct[d].empty =>
       \A e \in (0 .. n - 1) \X (0 .. n - 1) :
         Harmonizes(a, b, e) => NoiseNorm(a, b, chosen) <= NoiseNorm(a, b, e)
=============================================================================
