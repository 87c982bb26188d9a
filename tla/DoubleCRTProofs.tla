-------------------------- MODULE DoubleCRTProofs --------------------------
(***************************************************************************)
(* Proofs about DoubleCRT and KeyMatrices, for every M, every chain of     *)
(* primes, every digits and all arguments: the rows implement the ring of  *)
(* RingElements, what breakIntoDigits returns is small and adds up to the  *)
(* element, and key-switching matrices are what their digits need.         *)
(*                                                                         *)
(* A row holds the values of a polynomial at the primitive roots of a      *)
(* prime.  The sections go from sums, products and powers to values of     *)
(* polynomials, the transform and its inverse, Chinese remainders, what    *)
(* every method makes of the polynomials that its operands represent, the  *)
(* calls, and the digits; then to keys and their matrices.                 *)
(***************************************************************************)
EXTENDS DoubleCRT, KeyMatrices, ArithmeticProofs, FiniteSetTheorems, SequenceTheorems

-----------------------------------------------------------------------------
(* The primes of the chain and their products. *)

\* The primes of the chain are odd, above M and 1 modulo M.
LEMMA PrimeFacts ==
  ASSUME NEW i \in Chain
  PROVE  /\ Prime[i] \in Positive /\ Prime[i] \in Nat /\ Prime[i] \in Int /\ IsPrime(Prime[i])
         /\ Prime[i] > M /\ Prime[i] > 2 /\ Prime[i] % 2 = 1 /\ Prime[i] % M = 1
<1>1. Prime[i] \in Nat /\ Prime[i] % M = 1 /\ Prime[i] > 1 /\ \A d \in 2 .. Prime[i] - 1 : Prime[i] % d # 0
  BY ChainAssumption
<1>2. M \in Nat /\ M > 2
  BY CyclotomicAssumption
<1>3. Prime[i] > M
  <2>1. SUFFICES ASSUME Prime[i] =< M PROVE FALSE
    BY <1>1, <1>2
  <2>2. CASE Prime[i] < M
    <3>1. Prime[i] % M = Prime[i]
      BY <1>1, <1>2, <2>2
    <3> QED BY <3>1, <1>1
  <2>3. CASE Prime[i] = M
    <3>1. M % M = 0
      BY <1>2
    <3> QED BY <2>3, <3>1, <1>1
  <2> QED BY <2>1, <2>2, <2>3, <1>1, <1>2
<1>4. Prime[i] % 2 = 1
  <2>1. 2 \in 2 .. Prime[i] - 1
    BY <1>1, <1>2, <1>3
  <2>2. Prime[i] % 2 # 0
    BY <1>1, <2>1
  <2> QED BY <1>1, <2>2
<1> QED BY <1>1, <1>2, <1>3, <1>4 DEF IsPrime, Positive

\* The sets of primes of the chain are finite.
LEMMA ChainSubset ==
  ASSUME NEW S \in SUBSET Chain
  PROVE  IsFiniteSet(S) /\ \A i \in S : Prime[i] \in Int
<1>1. IsFiniteSet(Chain)
  BY ChainAssumption
<1> QED BY <1>1, FS_Subset, PrimeFacts

\* The product of no primes is 1.
LEMMA ProductOfNone == ProductOf({}) = 1
BY ProductOfEmpty, Zenon DEF ProductOf, ProductOver

\* The product with one prime more.
LEMMA ProductOfMore ==
  ASSUME NEW S \in SUBSET Chain, NEW i \in Chain, i \notin S
  PROVE  ProductOf(S \cup {i}) = Prime[i] * ProductOf(S)
<1>1. IsFiniteSet(S) /\ Prime[i] \in Int /\ \A k \in S : Prime[k] \in Int
  BY ChainSubset, PrimeFacts
<1>2. ProductOver(Prime, S \cup {i}) = Prime[i] * ProductOver(Prime, S)
  BY <1>1, ProductAdds
<1> QED BY <1>2, Zenon DEF ProductOf, ProductOver

\* A product of primes of the chain is odd and positive.
LEMMA ProductPositive ==
  ASSUME NEW S \in SUBSET Chain
  PROVE  /\ ProductOf(S) \in Positive /\ ProductOf(S) \in Nat /\ ProductOf(S) \in Int
         /\ ProductOf(S) >= 1 /\ ProductOf(S) % 2 = 1
<1> DEFINE P == {U \in SUBSET S : ProductOf(U) \in Nat /\ ProductOf(U) >= 1 /\ ProductOf(U) % 2 = 1}
<1>1. {} \in P
  BY ProductOfNone
<1>2. ASSUME NEW U \in SUBSET S, NEW x \in S, U \in P, x \notin U PROVE U \cup {x} \in P
  <2>1. ProductOf(U \cup {x}) = Prime[x] * ProductOf(U)
    BY <1>2, ProductOfMore
  <2>2. /\ Prime[x] \in Nat /\ Prime[x] > 2 /\ Prime[x] % 2 = 1
        /\ ProductOf(U) \in Nat /\ ProductOf(U) >= 1 /\ ProductOf(U) % 2 = 1
    BY <1>2, PrimeFacts
  <2>3. ASSUME NEW a \in Nat, NEW b \in Nat, a > 2, b >= 1, a % 2 = 1, b % 2 = 1
        PROVE  a * b \in Nat /\ a * b >= 1 /\ (a * b) % 2 = 1
    <3>1. a * b \in Nat /\ a * b >= b
      <4>1. a * b = b + (a - 1) * b
        BY IntRing
      <4>2. (a - 1) * b \in Nat
        BY <2>3
      <4> QED BY <4>1, <4>2
    <3>2. a * b = 2 * ((a \div 2) * b + b \div 2) + 1
      <4>1. a = 2 * (a \div 2) + 1 /\ b = 2 * (b \div 2) + 1 /\ a \div 2 \in Int /\ b \div 2 \in Int
        BY <2>3, DivMod DEF Positive
      <4>2. ASSUME NEW k \in Int, NEW l \in Int, a = 2 * k + 1, b = 2 * l + 1
            PROVE  a * b = 2 * (k * b + l) + 1
        <5>1. (2 * k + 1) * b = (2 * k) * b + 1 * b /\ (2 * k) * b = 2 * (k * b) /\ k * b \in Int
          BY IntRing
        <5> QED BY <4>2, <5>1
      <4> QED BY <4>1, <4>2
    <3>3. (a \div 2) * b + b \div 2 \in Int
      BY <2>3, IntRing
    <3>4. \A y \in Int : (2 * y + 1) % 2 = 1
      OBVIOUS
    <3> QED BY <2>3, <3>1, <3>2, <3>3, <3>4
  <2> QED BY <2>1, <2>2, <2>3
<1> HIDE DEF P
<1>3. S \in P
  BY <1>1, <1>2, ChainSubset, FiniteInduction
<1> QED BY <1>3 DEF P, Positive

\* The product of a set of primes and the product of the rest.
LEMMA ProductOfParts ==
  ASSUME NEW S \in SUBSET Chain, NEW T \in SUBSET Chain, S \cap T = {}
  PROVE  ProductOf(S \cup T) = ProductOf(S) * ProductOf(T)
<1> DEFINE P == {U \in SUBSET S : ProductOf(U \cup T) = ProductOf(U) * ProductOf(T)}
<1>0. ProductOf(T) \in Int
  BY ProductPositive
<1>1. {} \in P
  <2>1. {} \cup T = T /\ 1 * ProductOf(T) = ProductOf(T)
    BY <1>0, IntRing
  <2> QED BY <2>1, ProductOfNone
<1>2. ASSUME NEW U \in SUBSET S, NEW x \in S, U \in P, x \notin U PROVE U \cup {x} \in P
  <2>1. U \in SUBSET Chain /\ U \cup T \in SUBSET Chain /\ x \in Chain /\ x \notin U \cup T
    BY <1>2
  <2>2. ProductOf(U \cup {x}) = Prime[x] * ProductOf(U)
    BY <1>2, <2>1, ProductOfMore
  <2>3. ProductOf((U \cup T) \cup {x}) = Prime[x] * ProductOf(U \cup T)
    BY <2>1, ProductOfMore
  <2>4. (U \cup T) \cup {x} = (U \cup {x}) \cup T
    OBVIOUS
  <2>5. ProductOf(U \cup T) = ProductOf(U) * ProductOf(T)
    BY <1>2
  <2>6. Prime[x] \in Int /\ ProductOf(U) \in Int
    BY <2>1, PrimeFacts, ProductPositive
  <2>7. (Prime[x] * ProductOf(U)) * ProductOf(T) = Prime[x] * (ProductOf(U) * ProductOf(T))
    BY <1>0, <2>6, IntRing
  <2>8. ProductOf((U \cup {x}) \cup T) = ProductOf(U \cup {x}) * ProductOf(T)
    BY <2>2, <2>3, <2>4, <2>5, <2>7
  <2> QED BY <2>8
<1> HIDE DEF P
<1>3. S \in P
  BY <1>1, <1>2, ChainSubset, FiniteInduction
<1> QED BY <1>3 DEF P

\* The product of some of the primes divides the product of all.
LEMMA ProductOfSubset ==
  ASSUME NEW S \in SUBSET Chain, NEW T \in SUBSET S
  PROVE  /\ Divides(ProductOf(T), ProductOf(S)) /\ ProductOf(T) =< ProductOf(S)
         /\ ProductOf(S) = ProductOf(T) * ProductOf(S \ T)
<1>1. T \in SUBSET Chain /\ S \ T \in SUBSET Chain /\ T \cap (S \ T) = {} /\ T \cup (S \ T) = S
  OBVIOUS
<1>2. ProductOf(S) = ProductOf(T) * ProductOf(S \ T)
  BY <1>1, ProductOfParts
<1>3. ProductOf(S) \in Positive /\ ProductOf(T) \in Nat /\ ProductOf(S \ T) \in Int
  BY <1>1, ProductPositive
<1>4. Divides(ProductOf(T), ProductOf(S))
  BY <1>2, <1>3 DEF Divides
<1>5. ProductOf(T) \in 1 .. ProductOf(S)
  BY <1>3, <1>4, DivisorBound
<1> QED BY <1>2, <1>3, <1>4, <1>5 DEF Positive

\* A prime divides the product it is a factor of.
LEMMA PrimeDividesProduct ==
  ASSUME NEW S \in SUBSET Chain, NEW i \in S
  PROVE  Divides(Prime[i], ProductOf(S)) /\ ProductOf(S) % Prime[i] = 0
<1>1. i \in Chain /\ S \ {i} \in SUBSET Chain /\ i \notin S \ {i} /\ (S \ {i}) \cup {i} = S
  OBVIOUS
<1>2. ProductOf(S) = Prime[i] * ProductOf(S \ {i})
  BY <1>1, ProductOfMore
<1>3. Prime[i] \in Positive /\ Prime[i] \in Int /\ ProductOf(S \ {i}) \in Int /\ ProductOf(S) \in Int
  BY <1>1, PrimeFacts, ProductPositive
<1>4. Divides(Prime[i], ProductOf(S))
  BY <1>2, <1>3 DEF Divides
<1> QED BY <1>3, <1>4, DividesMod

\* Different primes are units modulo each other.
LEMMA PrimesCoprime ==
  ASSUME NEW i \in Chain, NEW k \in Chain, i # k
  PROVE  Unit(Prime[i], Prime[k])
<1>1. Prime[i] # Prime[k]
  BY ChainAssumption
<1>2. /\ Prime[i] \in Positive /\ Prime[i] \in Nat /\ Prime[i] \in Int /\ IsPrime(Prime[i])
      /\ Prime[k] \in Positive /\ Prime[k] \in Nat /\ Prime[k] \in Int /\ IsPrime(Prime[k])
  BY PrimeFacts
<1>3. ~ Divides(Prime[k], Prime[i])
  <2>1. SUFFICES ASSUME Divides(Prime[k], Prime[i]) PROVE FALSE
    OBVIOUS
  <2>2. Prime[k] \in 1 .. Prime[i] /\ Prime[i] % Prime[k] = 0
    BY <1>2, <2>1, DivisorBound, DividesMod
  <2> QED BY <1>1, <1>2, <2>2 DEF IsPrime
<1> QED BY <1>2, <1>3, UnitOfPrime

\* The product of some primes is a unit modulo any other.
LEMMA ProductUnit ==
  ASSUME NEW S \in SUBSET Chain, NEW k \in Chain, k \notin S
  PROVE  Unit(ProductOf(S), Prime[k])
<1> DEFINE P == {U \in SUBSET S : Unit(ProductOf(U), Prime[k])}
<1>0. Prime[k] \in Int
  BY PrimeFacts
<1>1. {} \in P
  BY <1>0, ProductOfNone, OneIsUnit
<1>2. ASSUME NEW U \in SUBSET S, NEW x \in S, U \in P, x \notin U PROVE U \cup {x} \in P
  <2>1. ProductOf(U \cup {x}) = Prime[x] * ProductOf(U)
    BY <1>2, ProductOfMore
  <2>2. Unit(Prime[x], Prime[k]) /\ Prime[x] \in Int /\ ProductOf(U) \in Int
    BY PrimesCoprime, PrimeFacts, ProductPositive
  <2>3. Unit(Prime[x] * ProductOf(U), Prime[k])
    BY <1>0, <1>2, <2>2, UnitTimes
  <2> QED BY <2>1, <2>3
<1> HIDE DEF P
<1>3. S \in P
  BY <1>1, <1>2, ChainSubset, FiniteInduction
<1> QED BY <1>3 DEF P

\* Integers that agree modulo every prime of a set agree modulo their product.
LEMMA CongProduct ==
  ASSUME NEW S \in SUBSET Chain, NEW x \in Int, NEW y \in Int,
         \A i \in S : Cong(x, y, Prime[i])
  PROVE  Cong(x, y, ProductOf(S))
<1> DEFINE P == {U \in SUBSET S : Divides(ProductOf(U), x - y)}
<1>1. {} \in P
  <2>1. Divides(1, x - y)
    BY DividesBasics
  <2> QED BY <2>1, ProductOfNone
<1>2. ASSUME NEW U \in SUBSET S, NEW i \in S, U \in P, i \notin U PROVE U \cup {i} \in P
  <2>1. ProductOf(U \cup {i}) = Prime[i] * ProductOf(U)
    BY <1>2, ProductOfMore
  <2>2. PICK k \in Int : x - y = ProductOf(U) * k
    BY <1>2 DEF Divides
  <2>3. Unit(ProductOf(U), Prime[i]) /\ ProductOf(U) \in Int /\ Prime[i] \in Int
    BY <1>2, ProductUnit, ProductPositive, PrimeFacts
  <2>4. Divides(Prime[i], ProductOf(U) * k)
    BY <2>2 DEF Cong
  <2>5. Cong(ProductOf(U) * k, ProductOf(U) * 0, Prime[i])
    <3>1. ProductOf(U) * 0 = 0 /\ ProductOf(U) * k \in Int
      BY <2>3, IntRing
    <3> QED BY <2>3, <2>4, <3>1, CongZero
  <2>6. Cong(k, 0, Prime[i])
    BY <2>3, <2>5, UnitCancel
  <2>7. PICK l \in Int : k = Prime[i] * l
    BY <2>3, <2>6, CongZero DEF Divides
  <2>8. ProductOf(U) * (Prime[i] * l) = (Prime[i] * ProductOf(U)) * l
    BY <2>3, IntRing
  <2> QED BY <2>1, <2>2, <2>7, <2>8 DEF Divides
<1> HIDE DEF P
<1>3. S \in P
  BY <1>1, <1>2, ChainSubset, FiniteInduction
<1> QED BY <1>3 DEF P, Cong

-----------------------------------------------------------------------------
(* Inverses and powers modulo a number. *)

\* InvMod is the inverse of a unit, reduced.
LEMMA InverseMod ==
  ASSUME NEW n \in Nat, n > 1, NEW x \in Int, Unit(x, n)
  PROVE  /\ InvMod(x, n) \in 0 .. n - 1 /\ InvMod(x, n) \in Int
         /\ Cong(x * InvMod(x, n), 1, n) /\ Cong(InvMod(x, n) * x, 1, n)
<1>0. n \in Positive /\ n \in Int
  BY DEF Positive
<1>1. PICK u \in Int : Cong(u * x, 1, n)
  BY DEF Unit
<1>2. u % n \in 0 .. n - 1 /\ u % n \in Int /\ Cong(u % n, u, n)
  <2>1. u % n \in 0 .. n - 1 /\ u % n \in Nat
    BY ONLY u \in Int, <1>0, DivMod
  <2>2. Cong(u % n, u, n)
    BY ONLY u \in Int, <1>0, CongMod
  <2> QED BY ONLY <2>1, <2>2
<1>3. (x * (u % n)) % n = 1
  <2>1. u * x \in Int /\ (u % n) * x \in Int /\ (u % n) * x = x * (u % n)
    BY <1>2, IntRing
  <2>2. Cong((u % n) * x, u * x, n)
    BY <1>0, <1>2, CongTimesOne
  <2>3. Cong((u % n) * x, 1, n)
    BY <1>0, <1>1, <2>1, <2>2, CongTrans
  <2>4. ((u % n) * x) % n = 1 % n
    BY <1>0, <2>1, <2>3, CongIffMod
  <2> QED BY <2>1, <2>4
<1>4. \E y \in 0 .. n - 1 : (x * y) % n = 1
  BY <1>2, <1>3
<1>5. InvMod(x, n) \in 0 .. n - 1 /\ (x * InvMod(x, n)) % n = 1
  BY <1>4 DEF InvMod
<1>6. InvMod(x, n) \in Int /\ x * InvMod(x, n) \in Int /\ x * InvMod(x, n) = InvMod(x, n) * x
  BY <1>5, IntRing
<1>7. 1 % n = 1
  OBVIOUS
<1>8. Cong(x * InvMod(x, n), 1, n)
  BY <1>0, <1>5, <1>6, <1>7, CongIffMod
<1> QED BY <1>5, <1>6, <1>8

\* The powers of a number modulo n exist.
LEMMA PowersExist ==
  ASSUME NEW x \in Int, NEW q \in Positive
  PROVE  \E F \in [Nat -> Int] : /\ F[0] = 1
                                 /\ \A n \in Nat : F[n + 1] = (F[n] * x) % q
                                 /\ \A e \in Nat : Power(x, e, q) = F[e]
<1> DEFINE step == [a \in Int |-> (a * x) % q]
<1>1. \A a \in Int : (a * x) % q \in Int
  BY IntRing, DivMod
<1>2. step \in [Int -> Int]
  BY <1>1
<1>3. PICK F : IsIteration(F, Int, 1, step)
  <2> DEFINE A == Int
  <2> HIDE DEF step
  <2>1. 1 \in A /\ step \in [A -> A]
    BY ONLY <1>2
  <2> HIDE DEF A
  <2>2. \E F : IsIteration(F, A, 1, step)
    BY ONLY <2>1, Recursion
  <2> QED BY <2>2 DEF A
<1>4. F \in [Nat -> Int] /\ F[0] = 1 /\ \A n \in Nat : F[n + 1] = (F[n] * x) % q
  BY <1>3 DEF IsIteration
<1>5. ASSUME NEW e \in Nat PROVE Power(x, e, q) = F[e]
  <2> DEFINE G(p) == [n \in 0 .. e |-> IF n = 0 THEN 1 ELSE (p[n - 1] * x) % q]
             f == [n \in 0 .. e |-> F[n]]
             c == CHOOSE p : p = G(p)
  <2>1. Power(x, e, q) = c[e]
    BY DEF Power
  <2>2. f = G(f)
    <3>1. ASSUME NEW n \in 0 .. e PROVE F[n] = IF n = 0 THEN 1 ELSE (F[n - 1] * x) % q
      <4>1. CASE n = 0
        BY <4>1, <1>4
      <4>2. CASE n # 0
        <5>1. n - 1 \in Nat /\ (n - 1) + 1 = n
          BY <4>2
        <5>2. F[(n - 1) + 1] = (F[n - 1] * x) % q
          BY <5>1, <1>4
        <5> QED BY <4>2, <5>1, <5>2
      <4> QED BY <4>1, <4>2
    <3>2. \A n \in 0 .. e : n # 0 => n - 1 \in 0 .. e
      OBVIOUS
    <3> QED BY <3>1, <3>2
  <2>3. c = G(c)
    BY <2>2, Zenon
  <2> HIDE DEF c
  <2>4. c[0] = f[0] /\ \A k \in 1 .. e : c[k - 1] = f[k - 1] => c[k] = f[k]
    <3>1. ASSUME NEW k \in 1 .. e, c[k - 1] = f[k - 1] PROVE c[k] = f[k]
      <4>1. G(c)[k] = (c[k - 1] * x) % q /\ G(f)[k] = (f[k - 1] * x) % q
        OBVIOUS
      <4> HIDE DEF G, f
      <4> QED BY <2>2, <2>3, <3>1, <4>1
    <3>2. G(c)[0] = 1 /\ G(f)[0] = 1
      OBVIOUS
    <3> HIDE DEF G, f
    <3> QED BY <2>2, <2>3, <3>1, <3>2
  <2>5. e \in 0 .. e
    OBVIOUS
  <2> HIDE DEF f
  <2>6. c[e] = f[e]
    BY <2>4, <2>5, AgreeOnSegment
  <2> QED BY <2>1, <2>6 DEF f
<1> QED BY <1>4, <1>5

\* A power is the one before it times the base.
LEMMA PowerSteps ==
  ASSUME NEW x \in Int, NEW q \in Positive
  PROVE  /\ Power(x, 0, q) = 1
         /\ \A e \in Nat : Power(x, e, q) \in Int /\ Power(x, e + 1, q) = (Power(x, e, q) * x) % q
<1>1. PICK F \in [Nat -> Int] : /\ F[0] = 1
                                /\ \A n \in Nat : F[n + 1] = (F[n] * x) % q
                                /\ \A e \in Nat : Power(x, e, q) = F[e]
  BY PowersExist
<1> QED BY <1>1

\* Powers are reduced.
LEMMA PowerType ==
  ASSUME NEW x \in Int, NEW q \in Positive, q > 1, NEW e \in Nat
  PROVE  Power(x, e, q) \in 0 .. q - 1
<1>1. CASE e = 0
  BY <1>1, PowerSteps DEF Positive
<1>2. CASE e # 0
  <2>1. e - 1 \in Nat /\ (e - 1) + 1 = e
    BY <1>2
  <2>2. Power(x, (e - 1) + 1, q) = (Power(x, e - 1, q) * x) % q /\ Power(x, e - 1, q) \in Int
    BY <2>1, PowerSteps
  <2>3. Power(x, e - 1, q) * x \in Int
    BY <2>2, IntRing
  <2>4. (Power(x, e - 1, q) * x) % q \in 0 .. q - 1
    BY <2>3, DivMod
  <2> QED BY <2>1, <2>2, <2>4
<1> QED BY <1>1, <1>2

\* Adding exponents multiplies powers.
LEMMA PowerPlus ==
  ASSUME NEW x \in Int, NEW q \in Positive, NEW a \in Nat, NEW b \in Nat
  PROVE  Cong(Power(x, a + b, q), Power(x, a, q) * Power(x, b, q), q)
<1> DEFINE w(e) == Power(x, e, q)
           N == {n \in Nat : Cong(w(a + n), w(a) * w(n), q)}
<1>0. q \in Int /\ w(0) = 1 /\ \A e \in Nat : w(e) \in Int /\ w(e + 1) = (w(e) * x) % q
  BY PowerSteps DEF Positive
<1> HIDE DEF w
<1>1. 0 \in N
  <2>1. w(a) * 1 = w(a) /\ a + 0 = a
    BY <1>0, IntRing
  <2> QED BY <1>0, <2>1, CongRefl
<1>2. ASSUME NEW n \in Nat, n \in N PROVE n + 1 \in N
  <2>1. a + n \in Nat /\ (a + n) + 1 = a + (n + 1) /\ w(a + n) \in Int /\ w(n) \in Int /\ w(a) \in Int
    BY <1>0
  <2>2. w(a + (n + 1)) = (w(a + n) * x) % q /\ w(n + 1) = (w(n) * x) % q
    BY <1>0, <2>1
  <2>3. w(a + n) * x \in Int /\ w(n) * x \in Int /\ w(a) * w(n) \in Int /\ (w(a) * w(n)) * x \in Int
        /\ (w(a) * w(n)) * x = w(a) * (w(n) * x) /\ w(n + 1) \in Int /\ w(a) * w(n + 1) \in Int
        /\ w(a + (n + 1)) \in Int
    BY <1>0, <2>1, IntRing
  <2>4. Cong(w(a + (n + 1)), w(a + n) * x, q)
    BY <2>2, <2>3, CongMod
  <2>5. Cong(w(a + n) * x, (w(a) * w(n)) * x, q)
    BY <1>0, <1>2, <2>1, <2>3, CongTimesOne
  <2>6. Cong(w(n) * x, w(n + 1), q)
    BY <2>2, <2>3, CongMod
  <2>7. Cong(w(a) * (w(n) * x), w(a) * w(n + 1), q)
    BY <1>0, <2>1, <2>3, <2>6, CongTimesOne
  <2>8. Cong(w(a + (n + 1)), (w(a) * w(n)) * x, q)
    BY <1>0, <2>3, <2>4, <2>5, CongTrans
  <2>9. Cong(w(a + (n + 1)), w(a) * w(n + 1), q)
    BY <1>0, <2>3, <2>7, <2>8, CongTrans
  <2> QED BY <2>9
<1> HIDE DEF N
<1>3. b \in N
  BY <1>1, <1>2, Induction
<1> QED BY <1>3 DEF N, w

-----------------------------------------------------------------------------
(* The roots of unity. *)

RootTo(i, e) == Power(Root[i], e, Prime[i])

\* The root of a prime is of order M.
LEMMA RootFacts ==
  ASSUME NEW i \in Chain
  PROVE  /\ Root[i] \in Int /\ RootTo(i, 0) = 1 /\ RootTo(i, M) = 1
         /\ \A k \in 1 .. M - 1 : RootTo(i, k) # 1
         /\ \A e \in Nat : RootTo(i, e) \in 0 .. Prime[i] - 1 /\ RootTo(i, e) \in Int
<1>1. Root[i] \in Int /\ \A k \in 1 .. M : (Power(Root[i], k, Prime[i]) = 1) <=> (k = M)
  BY ChainAssumption
<1>2. M \in Nat /\ M > 2 /\ Prime[i] \in Positive /\ Prime[i] > 1
  BY CyclotomicAssumption, PrimeFacts
<1>3. M \in 1 .. M
  BY <1>2
<1>4. \A e \in Nat : RootTo(i, e) \in 0 .. Prime[i] - 1
  BY <1>1, <1>2, PowerType DEF RootTo
<1>5. RootTo(i, 0) = 1
  BY <1>1, <1>2, PowerSteps DEF RootTo
<1>6. RootTo(i, M) = 1
  BY <1>1, <1>3 DEF RootTo
<1>7. ASSUME NEW k \in 1 .. M - 1 PROVE RootTo(i, k) # 1
  <2>1. k \in 1 .. M /\ k # M
    BY <1>2
  <2> QED BY <1>1, <2>1 DEF RootTo
<1> QED BY <1>1, <1>4, <1>5, <1>6, <1>7

\* Adding exponents multiplies powers of the root.
LEMMA RootPlus ==
  ASSUME NEW i \in Chain, NEW a \in Nat, NEW b \in Nat
  PROVE  Cong(RootTo(i, a + b), RootTo(i, a) * RootTo(i, b), Prime[i])
<1>1. Root[i] \in Int /\ Prime[i] \in Positive
  BY RootFacts, PrimeFacts
<1> QED BY <1>1, PowerPlus DEF RootTo

\* The powers of the root repeat after M.
LEMMA RootPeriod ==
  ASSUME NEW i \in Chain, NEW a \in Nat
  PROVE  Cong(RootTo(i, a), RootTo(i, a % M), Prime[i])
<1> DEFINE w(e) == RootTo(i, e)
           q == Prime[i]
           N == {n \in Nat : \A r \in Nat : Cong(w(r + M * n), w(r), q)}
<1>0. /\ M \in Nat /\ M > 2 /\ q \in Int /\ w(M) = 1
      /\ \A e \in Nat : w(e) \in Int
      /\ \A x, y \in Nat : Cong(w(x + y), w(x) * w(y), q)
  BY CyclotomicAssumption, PrimeFacts, RootFacts, RootPlus
<1> HIDE DEF w, q
<1>1. 0 \in N
  <2>1. ASSUME NEW r \in Nat PROVE Cong(w(r + M * 0), w(r), q)
    <3>1. r + M * 0 = r
      BY <1>0
    <3> QED BY <1>0, <3>1, CongRefl
  <2> QED BY <2>1
<1>2. ASSUME NEW n \in Nat, n \in N PROVE n + 1 \in N
  <2>1. ASSUME NEW r \in Nat PROVE Cong(w(r + M * (n + 1)), w(r), q)
    <3>1. M * n \in Nat /\ r + M * (n + 1) = (r + M * n) + M /\ r + M * n \in Nat
      <4>1. M * n \in Nat /\ M * (n + 1) = M * n + M * 1 /\ M * 1 = M /\ M \in Nat
        BY <1>0, IntRing
      <4> QED BY ONLY <4>1, r \in Nat
    <3>2. Cong(w((r + M * n) + M), w(r + M * n) * w(M), q)
      BY <1>0, <3>1
    <3>3. w(r + M * n) \in Int /\ w(r + M * n) * w(M) = w(r + M * n) /\ w((r + M * n) + M) \in Int
      <4>0. (r + M * n) + M \in Nat
        BY <3>1, <1>0
      <4>1. w(r + M * n) \in Int /\ w((r + M * n) + M) \in Int /\ w(M) = 1
        BY <1>0, <3>1, <4>0
      <4> QED BY ONLY <4>1, IntRing
    <3>4. Cong(w(r + M * n), w(r), q)
      BY <1>2
    <3>5. Cong(w((r + M * n) + M), w(r), q)
      BY <1>0, <3>2, <3>3, <3>4, CongTrans
    <3> QED BY <3>1, <3>5
  <2> QED BY <2>1
<1> HIDE DEF N
<1>3. a \div M \in Nat /\ a % M \in Nat /\ a = (a % M) + M * (a \div M)
  <2>1. M \in Positive
    BY <1>0 DEF Positive
  <2> QED BY ONLY <2>1, a \in Nat, DivNat
<1>4. a \div M \in N
  BY <1>1, <1>2, <1>3, Induction
<1>5. Cong(w((a % M) + M * (a \div M)), w(a % M), q)
  BY <1>3, <1>4 DEF N
<1>6. Cong(w(a), w(a % M), q)
  BY <1>3, <1>5
<1> QED BY <1>6 DEF w, q

\* A power of a root depends on the exponent modulo M only, and on no less.
LEMMA RootDistinct ==
  ASSUME NEW i \in Chain, NEW a \in 0 .. M - 1, NEW b \in 0 .. M - 1,
         Cong(RootTo(i, a), RootTo(i, b), Prime[i])
  PROVE  a = b
<1> DEFINE w(e) == RootTo(i, e)
           q == Prime[i]
<1>0. /\ M \in Nat /\ M > 2 /\ q \in Positive /\ q \in Int /\ w(0) = 1 /\ w(M) = 1 /\ q > 1
      /\ \A k \in 1 .. M - 1 : w(k) # 1
      /\ \A e \in Nat : w(e) \in Int /\ w(e) \in 0 .. q - 1
      /\ \A x, y \in Nat : Cong(w(x + y), w(x) * w(y), q)
  <2>1. M \in Nat /\ M > 2
    BY CyclotomicAssumption
  <2>2. q \in Positive /\ q \in Int /\ q > 1
    BY PrimeFacts
  <2>3. /\ w(0) = 1 /\ w(M) = 1 /\ \A k \in 1 .. M - 1 : w(k) # 1
        /\ \A e \in Nat : w(e) \in Int /\ w(e) \in 0 .. q - 1
    BY RootFacts
  <2>4. \A x, y \in Nat : Cong(w(x + y), w(x) * w(y), q)
    BY RootPlus
  <2> QED BY ONLY <2>1, <2>2, <2>3, <2>4
<1> HIDE DEF w, q
<1>1. ASSUME NEW x \in 0 .. M - 1, NEW y \in 0 .. M - 1, Cong(w(x), w(y), q), y < x
      PROVE  FALSE
  <2>1. x - y \in 1 .. M - 1 /\ x - y \in Nat /\ M - y \in Nat /\ y \in Nat /\ x \in Nat
        /\ y + (M - y) = M /\ x + (M - y) = M + (x - y) /\ (x - y) + M = M + (x - y)
    BY <1>0, <1>1
  <2>2. w(x) \in Int /\ w(y) \in Int /\ w(M - y) \in Int /\ w(x - y) \in Int /\ w(M + (x - y)) \in Int
        /\ w(x) * w(M - y) \in Int /\ w(y) * w(M - y) \in Int /\ w(x - y) * w(M) = w(x - y)
    <3>1. M + (x - y) \in Nat
      BY <1>0, <2>1
    <3>2. w(x) \in Int /\ w(y) \in Int /\ w(M - y) \in Int /\ w(x - y) \in Int /\ w(M + (x - y)) \in Int
          /\ w(M) = 1
      BY <1>0, <2>1, <3>1
    <3> QED BY ONLY <3>2, IntRing
  <2>3. Cong(w(x) * w(M - y), w(y) * w(M - y), q)
    BY <1>0, <1>1, <2>2, CongTimesOne
  <2>4. Cong(w(M + (x - y)), w(x) * w(M - y), q)
    BY <1>0, <2>1
  <2>5. Cong(w(M), w(y) * w(M - y), q)
    BY <1>0, <2>1
  <2>6. Cong(w(y) * w(M - y), w(M), q)
    BY <1>0, <2>2, <2>5, CongSym
  <2>7. Cong(w(M + (x - y)), w(x - y) * w(M), q)
    BY <1>0, <2>1
  <2>8. Cong(w(x - y), w(M + (x - y)), q)
    BY <1>0, <2>2, <2>7, CongSym
  <2>9. Cong(w(x - y), w(x) * w(M - y), q)
    BY <1>0, <2>2, <2>4, <2>8, CongTrans
  <2>10. Cong(w(x - y), w(y) * w(M - y), q)
    BY <1>0, <2>2, <2>3, <2>9, CongTrans
  <2>11. Cong(w(x - y), 1, q)
    BY <1>0, <2>2, <2>6, <2>10, CongTrans
  <2>12. w(x - y) \in 0 .. q - 1 /\ 1 \in 0 .. q - 1
    BY <1>0, <2>1
  <2>13. w(x - y) = 1
    BY <1>0, <2>11, <2>12, CongUnique
  <2> QED BY <1>0, <2>1, <2>13
<1>2. Cong(w(a), w(b), q)
  BY DEF w, q
<1>3. Cong(w(b), w(a), q)
  <2>1. w(a) \in Int /\ w(b) \in Int
    BY <1>0
  <2> QED BY <1>0, <1>2, <2>1, CongSym
<1>4. ~(a < b) /\ ~(b < a)
  BY <1>1, <1>2, <1>3
<1> QED BY <1>0, <1>4

-----------------------------------------------------------------------------
(* The units modulo M and their order. *)

\* The degree is the number of units modulo M.
LEMMA Degree ==
  /\ ZMStar \subseteq 1 .. M - 1 /\ IsFiniteSet(ZMStar) /\ 1 \in ZMStar
  /\ PhiM \in Nat /\ PhiM >= 1 /\ PhiM =< M - 1
  /\ M \in Positive /\ M \in Nat /\ M \in Int /\ M > 2
  /\ IsFiniteSet(Cols) /\ Cardinality(Cols) = PhiM /\ Cols \subseteq Nat /\ 0 \in Cols
  /\ Cols \subseteq 0 .. M - 1 /\ \A h \in Cols : h \in Nat /\ h % M = h
<1>1. M \in Nat /\ M > 2 /\ M \in Positive
  BY CyclotomicAssumption DEF Positive
<1>2. ZMStar \subseteq 1 .. M - 1
  BY DEF ZMStar
<1>3. IsFiniteSet(1 .. M - 1) /\ Cardinality(1 .. M - 1) = M - 1
  <2>1. M - 1 \in Int /\ 1 \in Int /\ (M - 1) - 1 + 1 = M - 1 /\ ~ (1 > M - 1)
    BY <1>1
  <2> QED BY <2>1, FS_Interval
<1>4. IsFiniteSet(ZMStar) /\ PhiM =< M - 1 /\ PhiM \in Nat
  BY <1>2, <1>3, FS_Subset, FS_CardinalityType DEF PhiM
<1>5. 1 \in ZMStar
  BY <1>1 DEF ZMStar, Coprime
<1>6. PhiM # 0
  BY <1>4, <1>5, FS_EmptySet DEF PhiM
<1>7. IsFiniteSet(Cols) /\ Cardinality(Cols) = PhiM
  <2>1. PhiM - 1 \in Int /\ 0 \in Int /\ ~ (0 > PhiM - 1) /\ (PhiM - 1) - 0 + 1 = PhiM
    BY <1>4, <1>6
  <2> QED BY <2>1, FS_Interval DEF Cols
<1>8. Cols \subseteq 0 .. M - 1 /\ Cols \subseteq Nat /\ 0 \in Cols
  BY <1>1, <1>4, <1>6 DEF Cols
<1>9. ASSUME NEW h \in Cols PROVE h \in Nat /\ h % M = h
  <2>1. h \in 0 .. M - 1
    BY <1>8
  <2> QED BY <2>1, <1>1
<1> HIDE DEF Cols
<1> QED BY <1>1, <1>2, <1>4, <1>5, <1>6, <1>7, <1>8, <1>9

Below(k) == {a \in ZMStar : a < k}

\* The column of a unit is the number of units below it.
LEMMA BelowFacts ==
  ASSUME NEW k \in ZMStar
  PROVE  /\ IsFiniteSet(Below(k)) /\ Cardinality(Below(k)) \in Cols
         /\ ZmsIdx[k] = Cardinality(Below(k))
<1>1. Below(k) \in SUBSET ZMStar /\ k \notin Below(k) /\ k \in Int
  BY Degree DEF Below
<1>2. IsFiniteSet(Below(k)) /\ Cardinality(Below(k)) =< PhiM /\ (Cardinality(Below(k)) = PhiM => Below(k) = ZMStar)
  BY <1>1, Degree, FS_Subset DEF PhiM
<1>3. Cardinality(Below(k)) \in Nat /\ Cardinality(Below(k)) # PhiM
  BY <1>1, <1>2, FS_CardinalityType
<1>4. ZmsIdx[k] = Cardinality(Below(k))
  BY DEF ZmsIdx, Below
<1> QED BY <1>2, <1>3, <1>4, Degree DEF Cols

\* The columns number the units modulo M, without repetition.
LEMMA ZmsIdxBijection == ZmsIdx \in Bijection(ZMStar, Cols)
<1>1. ZmsIdx \in [ZMStar -> Cols]
  <2>1. \A k \in ZMStar : ZmsIdx[k] \in Cols
    BY BelowFacts
  <2> QED BY <2>1 DEF ZmsIdx
<1>2. ASSUME NEW k \in ZMStar, NEW l \in ZMStar, k < l PROVE ZmsIdx[k] # ZmsIdx[l]
  <2>1. Below(k) \cup {k} \in SUBSET Below(l)
    <3>1. \A a \in ZMStar : a \in Int
      BY Degree
    <3> QED BY <1>2, <3>1 DEF Below
  <2>2. Cardinality(Below(k) \cup {k}) = Cardinality(Below(k)) + 1
    <3>1. k \notin Below(k)
      BY Degree DEF Below
    <3> QED BY <3>1, BelowFacts, FS_AddElement
  <2>3. Cardinality(Below(k) \cup {k}) =< Cardinality(Below(l))
    BY <2>1, BelowFacts, FS_Subset
  <2>4. Cardinality(Below(k)) \in Nat /\ Cardinality(Below(l)) \in Nat
    BY BelowFacts, Degree
  <2> QED BY <2>2, <2>3, <2>4, BelowFacts
<1>3. \A k, l \in ZMStar : ZmsIdx[k] = ZmsIdx[l] => k = l
  <2>1. ASSUME NEW k \in ZMStar, NEW l \in ZMStar, ZmsIdx[k] = ZmsIdx[l] PROVE k = l
    <3>1. k \in Int /\ l \in Int
      BY Degree
    <3>2. ~(k < l) /\ ~(l < k)
      BY <1>2, <2>1
    <3> QED BY <3>1, <3>2
  <2> QED BY <2>1
<1>4. ZmsIdx \in Injection(ZMStar, Cols)
  BY <1>1, <1>3 DEF Injection, IsInjective
<1>5. Cardinality(ZMStar) = Cardinality(Cols) /\ IsFiniteSet(Cols)
  BY Degree DEF PhiM
<1>6. ZmsIdx \in Surjection(ZMStar, Cols)
  BY <1>4, <1>5, FS_Injection
<1> QED BY <1>4, <1>6 DEF Bijection

\* The unit of a column.
LEMMA ZmsRepFacts ==
  /\ \A j \in Cols : ZmsRep[j] \in ZMStar /\ ZmsIdx[ZmsRep[j]] = j /\ ZmsRep[j] \in 1 .. M - 1
                     /\ ZmsRep[j] \in Nat
  /\ \A k \in ZMStar : ZmsIdx[k] \in Cols /\ ZmsRep[ZmsIdx[k]] = k
<1>1. /\ \A k \in ZMStar : ZmsIdx[k] \in Cols
      /\ \A k, l \in ZMStar : ZmsIdx[k] = ZmsIdx[l] => k = l
      /\ \A j \in Cols : \E k \in ZMStar : ZmsIdx[k] = j
  BY ZmsIdxBijection DEF Bijection, Injection, Surjection, IsInjective
<1>2. ASSUME NEW j \in Cols PROVE ZmsRep[j] \in ZMStar /\ ZmsIdx[ZmsRep[j]] = j
  <2>1. ZmsRep[j] = CHOOSE k \in ZMStar : ZmsIdx[k] = j
    BY DEF ZmsRep
  <2> QED BY <1>1, <2>1
<1>3. ASSUME NEW j \in Cols PROVE ZmsRep[j] \in 1 .. M - 1 /\ ZmsRep[j] \in Nat
  <2>1. ZmsRep[j] \in ZMStar /\ ZMStar \subseteq 1 .. M - 1
    BY <1>2, Degree
  <2>2. \A x \in 1 .. M - 1 : x \in Nat
    OBVIOUS
  <2> QED BY <2>1, <2>2
<1> QED BY <1>1, <1>2, <1>3

\* The members of ZMStar are the units modulo M.
LEMMA ZMStarUnits ==
  ASSUME NEW k \in Nat
  PROVE  k \in ZMStar <=> k \in 1 .. M - 1 /\ Unit(k, M)
<1>0. M \in Positive /\ M \in Int /\ M > 2
  BY Degree
<1>1. ASSUME k \in ZMStar PROVE Unit(k, M)
  <2>1. k \in 1 .. M - 1 /\ \A d \in 2 .. k : k % d = 0 => M % d # 0
    BY <1>1 DEF ZMStar, Coprime
  <2>2. ASSUME NEW d \in 1 .. M, Divides(d, k), Divides(d, M) PROVE d = 1
    <3>1. d \in Positive /\ d \in Nat /\ k \in Positive /\ k \in Int
      BY <1>0, <2>1 DEF Positive
    <3>2. d \in 1 .. k /\ k % d = 0 /\ M % d = 0
      BY <1>0, <2>2, <3>1, DivisorBound, DividesMod
    <3> QED BY <2>1, <3>2
  <2> QED BY <1>0, <2>1, <2>2, UnitExists
<1>2. ASSUME k \in 1 .. M - 1, Unit(k, M) PROVE k \in ZMStar
  <2>1. ASSUME NEW d \in 2 .. k, k % d = 0, M % d = 0 PROVE FALSE
    <3>1. d \in Positive /\ d \in Nat /\ k \in Int
      BY <1>2 DEF Positive
    <3>2. Divides(d, k) /\ Divides(d, M)
      BY <1>0, <2>1, <3>1, DividesMod
    <3>3. d = 1
      BY <1>0, <1>2, <3>1, <3>2, UnitHasNoDivisor
    <3> QED BY <3>3
  <2> QED BY <1>2, <2>1 DEF ZMStar, Coprime
<1>3. k \in ZMStar => k \in 1 .. M - 1
  BY Degree
<1> QED BY <1>1, <1>2, <1>3

\* A unit reduced modulo M is in ZMStar.
LEMMA UnitModM ==
  ASSUME NEW k \in Int, Unit(k, M)
  PROVE  k % M \in ZMStar
<1>0. M \in Positive /\ M \in Int /\ M > 2 /\ M \in Nat
  BY Degree
<1>1. k % M \in 0 .. M - 1 /\ k % M \in Nat /\ Cong(k, k % M, M)
  BY <1>0, DivMod, CongMod
<1>2. Unit(k % M, M)
  BY <1>0, <1>1, UnitCong
<1>3. k % M # 0
  <2>1. SUFFICES ASSUME k % M = 0 PROVE FALSE
    OBVIOUS
  <2>2. Divides(M, 0) /\ Divides(M, M) /\ Unit(0, M)
    BY <1>0, <1>2, <2>1, DividesBasics
  <2>3. M = 1
    BY <1>0, <2>2, UnitHasNoDivisor
  <2> QED BY <1>0, <2>3
<1> QED BY <1>0, <1>1, <1>2, <1>3, ZMStarUnits

\* The product of two units is a unit.
LEMMA ZMStarTimes ==
  ASSUME NEW k \in ZMStar, NEW l \in ZMStar
  PROVE  (k * l) % M \in ZMStar
<1>1. k \in Nat /\ l \in Nat /\ k \in Int /\ l \in Int /\ M \in Int
  BY Degree
<1>2. Unit(k, M) /\ Unit(l, M)
  BY <1>1, ZMStarUnits
<1>3. Unit(k * l, M) /\ k * l \in Int
  BY <1>1, <1>2, UnitTimes, IntRing
<1> QED BY <1>3, UnitModM

-----------------------------------------------------------------------------
(* The value of X^e at the root of a column. *)

V(i, j, e) == RootTo(i, (ZmsRep[j] * e) % M)

\* The power of the root that a column evaluates at.
LEMMA ValueFacts ==
  ASSUME NEW i \in Chain, NEW j \in Cols
  PROVE  /\ V(i, j, 0) = 1
         /\ \A e \in Nat : /\ V(i, j, e) \in Int /\ V(i, j, e) \in 0 .. Prime[i] - 1
                           /\ V(i, j, e % M) = V(i, j, e)
         /\ \A h \in 0 .. M - 1 : RootPower[i][j][h] = V(i, j, h)
<1>1. ZmsRep[j] \in Nat /\ ZmsRep[j] \in Int /\ M \in Positive
  BY ZmsRepFacts, Degree
<1>2. V(i, j, 0) = 1
  <2>1. ZmsRep[j] * 0 = 0 /\ 0 % M = 0
    BY <1>1, Degree, IntRing
  <2> QED BY <2>1, RootFacts DEF V
<1>3. ASSUME NEW e \in Nat
      PROVE  /\ V(i, j, e) \in Int /\ V(i, j, e) \in 0 .. Prime[i] - 1
             /\ V(i, j, e % M) = V(i, j, e)
  <2>1. ZmsRep[j] * e \in Int /\ (ZmsRep[j] * (e % M)) % M = (ZmsRep[j] * e) % M
    BY <1>1, IntRing, ModTimes
  <2>2. (ZmsRep[j] * e) % M \in Nat
    BY <1>1, <2>1, DivMod
  <2> QED BY <2>1, <2>2, RootFacts DEF V
<1>4. ASSUME NEW h \in 0 .. M - 1 PROVE RootPower[i][j][h] = V(i, j, h)
  BY DEF RootPower, V, RootTo
<1> QED BY <1>2, <1>3, <1>4

\* The value of a product of monomials.
LEMMA ValuePlus ==
  ASSUME NEW i \in Chain, NEW j \in Cols, NEW a \in Nat, NEW b \in Nat
  PROVE  Cong(V(i, j, a + b), V(i, j, a) * V(i, j, b), Prime[i])
<1> DEFINE r == ZmsRep[j]
           q == Prime[i]
           w(e) == RootTo(i, e)
<1>0. r \in Nat /\ M \in Positive /\ q \in Int /\ r * a \in Nat /\ r * b \in Nat /\ r * (a + b) \in Nat
      /\ r * (a + b) = r * a + r * b
  <2>1. r \in Nat /\ M \in Positive /\ q \in Int
    BY ZmsRepFacts, Degree, PrimeFacts
  <2> HIDE DEF r
  <2>2. r * a \in Nat /\ r * b \in Nat /\ r * (a + b) = r * a + r * b
    BY <2>1, IntRing
  <2> QED BY <2>1, <2>2
<1>1. (r * a) % M \in Nat /\ (r * b) % M \in Nat /\ (r * (a + b)) % M \in Nat
  BY <1>0, DivNat
<1>2. \A e \in Nat : w(e) \in Int
  BY RootFacts
<1>3. /\ Cong(w(r * a), w((r * a) % M), q) /\ Cong(w(r * b), w((r * b) % M), q)
      /\ Cong(w(r * (a + b)), w((r * (a + b)) % M), q)
  BY <1>0, RootPeriod
<1>4. Cong(w(r * a + r * b), w(r * a) * w(r * b), q)
  BY <1>0, RootPlus
<1>5. V(i, j, a) = w((r * a) % M) /\ V(i, j, b) = w((r * b) % M) /\ V(i, j, a + b) = w((r * (a + b)) % M)
  BY DEF V
<1> HIDE DEF w, q, r
<1>6. /\ w(r * a) \in Int /\ w(r * b) \in Int /\ w(r * (a + b)) \in Int
      /\ w((r * a) % M) \in Int /\ w((r * b) % M) \in Int /\ w((r * (a + b)) % M) \in Int
  BY <1>0, <1>1, <1>2
<1>7. Cong(w(r * a) * w(r * b), w((r * a) % M) * w((r * b) % M), q)
  BY <1>0, <1>3, <1>6, CongTimes
<1>8. w(r * a) * w(r * b) \in Int /\ w((r * a) % M) * w((r * b) % M) \in Int
  BY <1>6, IntRing
<1>9. Cong(w((r * (a + b)) % M), w(r * (a + b)), q)
  BY <1>0, <1>3, <1>6, CongSym
<1>10. Cong(w((r * (a + b)) % M), w(r * a) * w(r * b), q)
  BY <1>0, <1>4, <1>6, <1>8, <1>9, CongTrans
<1>11. Cong(w((r * (a + b)) % M), w((r * a) % M) * w((r * b) % M), q)
  BY <1>0, <1>6, <1>7, <1>8, <1>10, CongTrans
<1> QED BY <1>5, <1>11 DEF q

\* Columns differ in their roots.
LEMMA ValueDistinct ==
  ASSUME NEW i \in Chain, NEW j \in Cols, NEW k \in Cols, Cong(V(i, j, 1), V(i, k, 1), Prime[i])
  PROVE  j = k
<1>1. /\ ZmsRep[j] \in 1 .. M - 1 /\ ZmsRep[k] \in 1 .. M - 1 /\ ZmsIdx[ZmsRep[j]] = j
      /\ ZmsIdx[ZmsRep[k]] = k /\ M \in Nat /\ M > 2
  BY ZmsRepFacts, Degree
<1>2. (ZmsRep[j] * 1) % M = ZmsRep[j] /\ (ZmsRep[k] * 1) % M = ZmsRep[k]
  <2>1. \A x \in 1 .. M - 1 : (x * 1) % M = x
    BY <1>1
  <2> QED BY <1>1, <2>1
<1>3. Cong(RootTo(i, ZmsRep[j]), RootTo(i, ZmsRep[k]), Prime[i])
  BY <1>2 DEF V
<1>4. ZmsRep[j] \in 0 .. M - 1 /\ ZmsRep[k] \in 0 .. M - 1
  BY <1>1
<1>5. ZmsRep[j] = ZmsRep[k]
  BY <1>3, <1>4, RootDistinct
<1> QED BY <1>1, <1>5

\* The values of a column are units.
LEMMA ValueUnit ==
  ASSUME NEW i \in Chain, NEW j \in Cols, NEW h \in 0 .. M - 1
  PROVE  Unit(V(i, j, h), Prime[i])
<1>1. M - h \in Nat /\ (M - h) + h = M /\ h \in Nat /\ M \in Nat /\ M % M = 0
  BY Degree
<1>2. V(i, j, M) = 1
  <2>1. V(i, j, M % M) = V(i, j, M)
    BY <1>1, ValueFacts
  <2> QED BY <1>1, <2>1, ValueFacts
<1>3. V(i, j, M - h) \in Int /\ V(i, j, h) \in Int /\ Prime[i] \in Int
      /\ V(i, j, M - h) * V(i, j, h) \in Int
  <2>1. V(i, j, M - h) \in Int /\ V(i, j, h) \in Int /\ Prime[i] \in Int
    BY <1>1, ValueFacts, PrimeFacts
  <2> QED BY <2>1, IntRing
<1>4. Cong(V(i, j, (M - h) + h), V(i, j, M - h) * V(i, j, h), Prime[i])
  BY <1>1, ValuePlus
<1>5. Cong(1, V(i, j, M - h) * V(i, j, h), Prime[i])
  BY <1>1, <1>2, <1>4
<1>6. Cong(V(i, j, M - h) * V(i, j, h), 1, Prime[i])
  BY <1>3, <1>5, CongSym
<1> QED BY <1>3, <1>6 DEF Unit

\* An automorphism moves the values between the columns.
LEMMA ValueMoved ==
  ASSUME NEW i \in Chain, NEW j \in Cols, NEW l \in Cols, NEW k \in Nat,
         ZmsRep[l] = (ZmsRep[j] * k) % M, NEW e \in Nat
  PROVE  V(i, l, e) = V(i, j, e * k)
<1> DEFINE r == ZmsRep[j]
<1>1. r \in Int /\ M \in Positive
  BY ZmsRepFacts, Degree
<1> HIDE DEF r
<1>2. r * k \in Int /\ e * k \in Int /\ r * (e * k) = (r * k) * e
  <2>1. e * k = k * e /\ r * (k * e) = (r * k) * e
    BY <1>1, IntRing
  <2> QED BY <1>1, <2>1, IntRing
<1>3. (((r * k) % M) * e) % M = ((r * k) * e) % M
  BY <1>1, <1>2, ModTimes
<1> QED BY <1>2, <1>3 DEF V, r

-----------------------------------------------------------------------------
(* Polynomials and their values at the roots. *)

\* The cyclotomic polynomial has integer coefficients and is monic.
LEMMA PhimFacts ==
  /\ PhimX \in [0 .. PhiM -> Int] /\ PhimX[PhiM] = 1
  /\ \A h \in Cols : PhimX[h] \in Int
<1>1. \A h \in Cols : h \in 0 .. PhiM
  BY Degree DEF Cols
<1> QED BY <1>1, CyclotomicAssumption

\* X times the polynomial.
Shifted(x) == [h \in Cols |-> (IF h = 0 THEN 0 ELSE x[h - 1]) - x[PhiM - 1] * PhimX[h]]
Monomial(k) == [h \in Cols |-> IF h = k THEN 1 ELSE 0]

\* Multiplying by X keeps a polynomial over the columns.
LEMMA ShiftedType ==
  ASSUME NEW x \in [Cols -> Int]
  PROVE  Shifted(x) \in [Cols -> Int]
<1>1. ASSUME NEW h \in Cols PROVE (IF h = 0 THEN 0 ELSE x[h - 1]) - x[PhiM - 1] * PhimX[h] \in Int
  <2>1. PhimX[h] \in Int /\ PhiM - 1 \in Cols /\ (h # 0 => h - 1 \in Cols)
    BY PhimFacts, Degree DEF Cols
  <2>2. x[PhiM - 1] \in Int /\ (h # 0 => x[h - 1] \in Int)
    BY <2>1
  <2>3. x[PhiM - 1] * PhimX[h] \in Int
    BY <2>1, <2>2, IntRing
  <2> QED BY <2>2, <2>3
<1> QED BY <1>1 DEF Shifted

\* The remainder of a power of X, from the one before it.
LEMMA XPowerSteps ==
  \A k \in 0 .. M - 1 : /\ XPower[k] \in [Cols -> Int]
                        /\ XPower[k] = IF k < PhiM THEN Monomial(k) ELSE Shifted(XPower[k - 1])
<1> DEFINE A == [Cols -> Int]
           Next1(n, a) == IF n + 1 < PhiM THEN Monomial(n + 1) ELSE Shifted(a)
           step == [s \in Nat \X A |-> Next1(s[1], s[2])]
<1>1. \A k \in Nat : Monomial(k) \in A
  BY DEF Monomial
<1>2. \A n \in Nat, a \in A : Next1(n, a) \in A
  BY <1>1, ShiftedType
<1> HIDE DEF A, Next1
<1>3. step \in [Nat \X A -> A] /\ \A n \in Nat, a \in A : step[<<n, a>>] = Next1(n, a)
  BY <1>2
<1> HIDE DEF step
<1>4. PICK F : IsIndexed(F, A, Monomial(0), step)
  <2>1. Monomial(0) \in A
    BY <1>1
  <2> QED BY ONLY <1>3, <2>1, IndexedRecursion
<1>5. /\ F[0] = Monomial(0) /\ \A n \in Nat : F[n] \in A
      /\ \A n \in Nat : F[n + 1] = Next1(n, F[n])
  BY <1>3, <1>4 DEF IsIndexed
<1> DEFINE G(x) == [k \in 0 .. M - 1 |->
              IF k < PhiM THEN [h \in Cols |-> IF h = k THEN 1 ELSE 0]
              ELSE [h \in Cols |-> (IF h = 0 THEN 0 ELSE x[k - 1][h - 1]) - x[k - 1][PhiM - 1] * PhimX[h]]]
           H(x) == [k \in 0 .. M - 1 |-> IF k < PhiM THEN Monomial(k) ELSE Shifted(x[k - 1])]
           f == [k \in 0 .. M - 1 |-> F[k]]
           c == CHOOSE x : x = G(x)
<1>6. XPower = c
  BY Zenon DEF XPower
<1>7. \A x : G(x) = H(x)
  BY Zenon DEF Monomial, Shifted
<1> HIDE DEF G
<1>8. f = H(f)
  <2>1. ASSUME NEW k \in 0 .. M - 1
        PROVE  F[k] = IF k < PhiM THEN Monomial(k) ELSE Shifted(f[k - 1])
    <3>1. CASE k = 0
      BY <3>1, <1>5, Degree
    <3>2. CASE k # 0
      <4>1. k - 1 \in Nat /\ (k - 1) + 1 = k /\ k - 1 \in 0 .. M - 1
        BY <3>2, Degree
      <4>2. F[(k - 1) + 1] = Next1(k - 1, F[k - 1])
        BY <1>5, <4>1
      <4>3. f[k - 1] = F[k - 1]
        BY <4>1
      <4> HIDE DEF f
      <4> QED BY <4>1, <4>2, <4>3 DEF Next1
    <3> QED BY <3>1, <3>2
  <2> QED BY <2>1, Zenon
<1>9. c = H(c)
  <2>1. f = G(f)
    BY <1>7, <1>8
  <2>2. c = G(c)
    BY <2>1, Zenon
  <2> QED BY <1>7, <2>2
<1> HIDE DEF c
<1>10. \A k \in 0 .. M - 1 : c[k] = IF k < PhiM THEN Monomial(k) ELSE Shifted(c[k - 1])
  <2> HIDE DEF H
  <2>1. ASSUME NEW k \in 0 .. M - 1
        PROVE  H(c)[k] = IF k < PhiM THEN Monomial(k) ELSE Shifted(c[k - 1])
    BY Zenon DEF H
  <2> QED BY <1>9, <2>1
<1>11. \A k \in 0 .. M - 1 : f[k] = IF k < PhiM THEN Monomial(k) ELSE Shifted(f[k - 1])
  <2> HIDE DEF H
  <2>1. ASSUME NEW k \in 0 .. M - 1
        PROVE  H(f)[k] = IF k < PhiM THEN Monomial(k) ELSE Shifted(f[k - 1])
    BY Zenon DEF H
  <2> HIDE DEF f
  <2> QED BY <1>8, <2>1
<1>12. ASSUME NEW k \in 0 .. M - 1 PROVE c[k] = f[k]
  <2>1. M - 1 \in Nat /\ 0 \in 0 .. M - 1 /\ 0 < PhiM
    BY Degree
  <2>2. c[0] = f[0]
    BY <1>10, <1>11, <2>1
  <2>3. ASSUME NEW m \in 1 .. M - 1, c[m - 1] = f[m - 1] PROVE c[m] = f[m]
    <3>1. m \in 0 .. M - 1
      BY <2>1
    <3> QED BY <1>10, <1>11, <2>3, <3>1
  <2> HIDE DEF f
  <2> QED BY <2>1, <2>2, <2>3, AgreeOnSegment
<1>13. \A k \in 0 .. M - 1 : f[k] \in A
  <2>1. \A k \in 0 .. M - 1 : k \in Nat
    BY Degree
  <2> QED BY <1>5, <2>1
<1> HIDE DEF f
<1> QED BY <1>6, <1>10, <1>12, <1>13 DEF A

-----------------------------------------------------------------------------
(* The value of a polynomial at the root of a column. *)

Ev(f, i, j) == SumOver([k \in DOMAIN f |-> f[k] * V(i, j, k)], DOMAIN f)

\* A polynomial of any degree.
IsPoly(f) == IsFiniteSet(DOMAIN f) /\ \A k \in DOMAIN f : k \in Nat /\ f[k] \in Int

\* A polynomial over the columns is one to evaluate.
LEMMA SmallPoly ==
  ASSUME NEW f \in [Cols -> Int]
  PROVE  IsPoly(f) /\ DOMAIN f = Cols
BY Degree DEF IsPoly

\* The terms of a value are integers.
LEMMA EvTerms ==
  ASSUME NEW f, IsPoly(f), NEW i \in Chain, NEW j \in Cols
  PROVE  \A k \in DOMAIN f : /\ f[k] * V(i, j, k) \in Int
                             /\ [h \in DOMAIN f |-> f[h] * V(i, j, h)][k] = f[k] * V(i, j, k)
<1>1. ASSUME NEW k \in DOMAIN f PROVE f[k] * V(i, j, k) \in Int
  <2>1. f[k] \in Int /\ k \in Nat
    BY DEF IsPoly
  <2>2. V(i, j, k) \in Int
    BY <2>1, ValueFacts
  <2> QED BY <2>1, <2>2, IntRing
<1> QED BY <1>1

\* The value of a polynomial is an integer.
LEMMA EvType ==
  ASSUME NEW f, IsPoly(f), NEW i \in Chain, NEW j \in Cols
  PROVE  Ev(f, i, j) \in Int
<1> DEFINE t == [k \in DOMAIN f |-> f[k] * V(i, j, k)]
<1>1. IsFiniteSet(DOMAIN f) /\ \A k \in DOMAIN f : t[k] \in Int
  BY EvTerms DEF IsPoly
<1> HIDE DEF t
<1>2. SumOver(t, DOMAIN f) \in Int
  BY <1>1, SumType
<1> QED BY <1>2 DEF t, Ev

\* The sum, by any name for its terms.
LEMMA EvIs ==
  ASSUME NEW f, IsPoly(f), NEW i \in Chain, NEW j \in Cols,
         NEW t, \A k \in DOMAIN f : t[k] = f[k] * V(i, j, k)
  PROVE  Ev(f, i, j) = SumOver(t, DOMAIN f)
<1> DEFINE u == [k \in DOMAIN f |-> f[k] * V(i, j, k)]
<1>1. IsFiniteSet(DOMAIN f) /\ \A k \in DOMAIN f : u[k] \in Int /\ t[k] = u[k]
  BY EvTerms DEF IsPoly
<1> HIDE DEF u
<1>2. SumOver(t, DOMAIN f) = SumOver(u, DOMAIN f)
  BY <1>1, SumEqual
<1> QED BY <1>2 DEF u, Ev

\* The polynomial vanishes at the primitive roots.
LEMMA PhimVanishes ==
  ASSUME NEW i \in Chain, NEW j \in Cols,
         NEW t, \A h \in 0 .. PhiM : t[h] = PhimX[h] * V(i, j, h)
  PROVE  Cong(SumOver(t, 0 .. PhiM), 0, Prime[i])
<1> DEFINE k == ZmsRep[j]
           p == [h \in 0 .. PhiM |-> PhimX[h] * Power(Root[i], (k * h) % M, Prime[i])]
<1>1. k \in ZMStar
  BY ZmsRepFacts
<1>2. SumFunction(p) % Prime[i] = 0
  BY <1>1, ChainAssumption
<1>3. SumFunction(p) = SumOver(p, 0 .. PhiM)
  <2>1. DOMAIN p = 0 .. PhiM
    OBVIOUS
  <2> HIDE DEF p
  <2> QED BY <2>1, SumFn
<1>4. \A h \in 0 .. PhiM : p[h] = PhimX[h] * V(i, j, h)
  BY DEF V, RootTo
<1> HIDE DEF p
<1>5. IsFiniteSet(0 .. PhiM) /\ \A h \in 0 .. PhiM : h \in Nat /\ p[h] \in Int /\ t[h] = p[h]
  <2>1. IsFiniteSet(0 .. PhiM)
    BY Degree, FS_Interval
  <2>2. ASSUME NEW h \in 0 .. PhiM PROVE h \in Nat /\ p[h] \in Int /\ t[h] = p[h]
    <3>1. h \in Nat /\ PhimX[h] \in Int
      BY PhimFacts, Degree
    <3>2. V(i, j, h) \in Int
      BY <3>1, ValueFacts
    <3> QED BY <1>4, <3>1, <3>2, IntRing
  <2> QED BY <2>1, <2>2
<1>6. SumOver(t, 0 .. PhiM) = SumOver(p, 0 .. PhiM) /\ SumOver(p, 0 .. PhiM) \in Int
  BY <1>5, SumEqual, SumType
<1>7. Prime[i] \in Positive /\ Prime[i] \in Int /\ Prime[i] > 2
  BY PrimeFacts
<1>8. Cong(SumOver(p, 0 .. PhiM), 0, Prime[i])
  <2>1. 0 % Prime[i] = 0
    BY <1>7
  <2>2. SumOver(p, 0 .. PhiM) % Prime[i] = 0 % Prime[i]
    BY <1>2, <1>3, <2>1
  <2> QED BY <1>6, <1>7, <2>2, CongIffMod
<1> QED BY <1>6, <1>8

\* Multiplication by X modulo Phi_m multiplies the value by the root.
LEMMA ShiftValue ==
  ASSUME NEW i \in Chain, NEW j \in Cols, NEW x \in [Cols -> Int]
  PROVE  Cong(Ev(Shifted(x), i, j), Ev(x, i, j) * V(i, j, 1), Prime[i])
<1> DEFINE D == 0 .. PhiM
           q == Prime[i]
           last == x[PhiM - 1]
           neg == -last
           v == [h \in D |-> V(i, j, h)]
           u == [h \in D |-> IF h = 0 THEN 0 ELSE x[h - 1] * v[h]]
           t == [h \in D |-> PhimX[h] * v[h]]
           s == [h \in D |-> u[h] - last * t[h]]
           w == [h \in Cols |-> x[h] * v[h + 1]]
           e == [h \in Cols |-> V(i, j, 1) * (x[h] * v[h])]
           f == [h \in Cols |-> x[h] * v[h]]
<1>1. /\ IsFiniteSet(D) /\ Cols \in SUBSET D /\ IsFiniteSet(Cols) /\ D \ Cols = {PhiM} /\ PhiM \in D
      /\ PhiM # 0 /\ \A h \in D : h \in Nat /\ (h # 0 => h - 1 \in Cols /\ (h - 1) + 1 = h)
      /\ \A h \in Cols : h + 1 \in D /\ h + 1 # 0 /\ (h + 1) - 1 = h /\ h \in D
  <2>1. PhiM \in Nat /\ PhiM >= 1 /\ IsFiniteSet(Cols)
    BY Degree
  <2>2. IsFiniteSet(D)
    BY <2>1, FS_Interval
  <2> QED BY <2>1, <2>2 DEF Cols
<1>2. q \in Int /\ V(i, j, 1) \in Int /\ \A h \in D : v[h] \in Int /\ v[h] = V(i, j, h)
  BY <1>1, PrimeFacts, ValueFacts
<1>3. last \in Int /\ neg \in Int /\ neg = -last /\ \A h \in Cols : x[h] \in Int
  <2>1. PhiM - 1 \in Cols
    BY <1>1
  <2> QED BY <2>1
<1>4. \A h \in D : PhimX[h] \in Int
  BY PhimFacts
<1> HIDE DEF v, last, neg, D, q
<1>5. \A h \in D : u[h] \in Int /\ t[h] \in Int /\ s[h] = u[h] + neg * t[h] /\ s[h] \in Int
  <2>1. ASSUME NEW h \in D PROVE u[h] \in Int /\ t[h] \in Int
    <3>1. CASE h = 0
      BY <3>1, <1>2, <1>4, IntRing
    <3>2. CASE h # 0
      BY <3>2, <1>1, <1>2, <1>3, <1>4, IntRing
    <3> QED BY <3>1, <3>2
  <2>2. ASSUME NEW h \in D PROVE s[h] = u[h] + neg * t[h] /\ s[h] \in Int
    <3>1. s[h] = u[h] - last * t[h]
      BY Zenon
    <3> HIDE DEF s, u, t
    <3>2. last * t[h] \in Int /\ (-last) * t[h] = -(last * t[h])
      BY <1>3, <2>1, IntRing
    <3> QED BY <1>3, <2>1, <3>1, <3>2
  <2> QED BY <2>1, <2>2
<1>6. SumOver(s, D) = SumOver(u, D) + neg * SumOver(t, D)
  <2> DEFINE a == [h \in D |-> neg * t[h]]
  <2>1. \A h \in D : a[h] = neg * t[h] /\ a[h] \in Int
    BY <1>3, <1>5, IntRing
  <2>3. \A h \in D : s[h] = u[h] + a[h]
    BY <1>5, <2>1
  <2> HIDE DEF a, s, u, t
  <2>4. SumOver(a, D) = neg * SumOver(t, D)
    <3>1. /\ IsFiniteSet(D) /\ neg \in Int
          /\ \A h \in D : t[h] \in Int /\ a[h] = neg * t[h]
      BY ONLY <1>1, <1>3, <1>5, <2>1
    <3> QED BY ONLY <3>1, SumScale
  <2>5. SumOver(s, D) = SumOver(u, D) + SumOver(a, D)
    <3>1. IsFiniteSet(D)
      BY <1>1
    <3>2. \A h \in D : u[h] \in Int
      BY <1>5
    <3>3. \A h \in D : a[h] \in Int
      BY <2>1
    <3> QED BY ONLY <2>3, <3>1, <3>2, <3>3, SumPlus
  <2> QED BY <2>4, <2>5
<1>7. Cong(SumOver(t, D), 0, q)
  <2>1. \A h \in 0 .. PhiM : t[h] = PhimX[h] * V(i, j, h)
    BY <1>2 DEF D
  <2> HIDE DEF t
  <2> QED BY <2>1, PhimVanishes DEF D, q
<1>8. Ev(Shifted(x), i, j) = SumOver(s, D)
  <2>1. \A h \in Cols : s[h] = Shifted(x)[h] * V(i, j, h)
    <3>1. ASSUME NEW h \in Cols PROVE s[h] = Shifted(x)[h] * V(i, j, h)
      <4> DEFINE y == IF h = 0 THEN 0 ELSE x[h - 1]
      <4>1. h \in D /\ v[h] = V(i, j, h) /\ v[h] \in Int /\ PhimX[h] \in Int
        BY <1>1, <1>2, <1>4
      <4>2. y \in Int
        BY <1>1, <1>3, <4>1
      <4>3. u[h] = y * v[h]
        BY <4>1, IntRing
      <4>4. s[h] = y * v[h] - last * (PhimX[h] * v[h])
        BY <4>1, <4>3
      <4>5. Shifted(x)[h] = y - last * PhimX[h]
        BY DEF Shifted, last
      <4> HIDE DEF y, u, s
      <4>6. last * PhimX[h] \in Int /\ (y - last * PhimX[h]) * v[h] = y * v[h] - (last * PhimX[h]) * v[h]
            /\ (last * PhimX[h]) * v[h] = last * (PhimX[h] * v[h])
        BY <1>3, <4>1, <4>2, IntRing
      <4> QED BY <4>1, <4>4, <4>5, <4>6
    <3> QED BY <3>1
  <2>2. s[PhiM] = 0
    <3>1. u[PhiM] = last * v[PhiM] /\ t[PhiM] = 1 * v[PhiM]
      BY <1>1, PhimFacts DEF last
    <3>2. s[PhiM] = u[PhiM] - last * t[PhiM]
      BY <1>1
    <3> HIDE DEF s, u, t
    <3>3. 1 * v[PhiM] = v[PhiM] /\ last * v[PhiM] \in Int
      BY <1>1, <1>2, <1>3, IntRing
    <3> QED BY <3>1, <3>2, <3>3
  <2>3. Shifted(x) \in [Cols -> Int]
    BY ShiftedType
  <2>4. IsPoly(Shifted(x)) /\ DOMAIN Shifted(x) = Cols
    BY <2>3, SmallPoly
  <2> HIDE DEF s
  <2>5. Ev(Shifted(x), i, j) = SumOver(s, Cols)
    BY <2>1, <2>4, EvIs
  <2>6. \A h \in D \ Cols : s[h] = 0
    BY <1>1, <2>2
  <2>7. \A h \in Cols : s[h] \in Int
    BY <1>1, <1>5
  <2>8. SumOver(s, D) = SumOver(s, Cols)
    BY <1>1, <2>6, <2>7, SumOfPart
  <2> QED BY <2>5, <2>8
<1>9. SumOver(u, D) = SumOver(w, Cols)
  <2> DEFINE R == D \ {0}
             b == [h \in Cols |-> h + 1]
  <2>1. b \in Bijection(Cols, R)
    <3>1. b \in [Cols -> R]
      BY <1>1
    <3>2. \A h, k \in Cols : b[h] = b[k] => h = k
      BY <1>1
    <3>3. \A r \in R : \E h \in Cols : b[h] = r
      <4>1. ASSUME NEW r \in R PROVE \E h \in Cols : b[h] = r
        <5>1. r - 1 \in Cols /\ (r - 1) + 1 = r
          BY <1>1
        <5> QED BY <5>1
      <4> QED BY <4>1
    <3> HIDE DEF b, R
    <3> QED BY <3>1, <3>2, <3>3 DEF Bijection, Injection, Surjection, IsInjective
  <2>2. \A h \in Cols : w[h] = u[b[h]]
    BY <1>1
  <2>3. R \in SUBSET D /\ \A h \in D \ R : u[h] = 0
    OBVIOUS
  <2>4. \A h \in R : u[h] \in Int
    BY <1>5
  <2> HIDE DEF w, u, b, R
  <2>5. SumOver(w, Cols) = SumOver(u, R)
    BY <1>1, <2>1, <2>2, <2>4, SumRenamed
  <2>6. SumOver(u, D) = SumOver(u, R)
    BY <1>1, <2>3, <2>4, SumOfPart
  <2> QED BY <2>5, <2>6
<1>10. Cong(SumOver(w, Cols), SumOver(e, Cols), q)
  <2>1. ASSUME NEW h \in Cols PROVE w[h] \in Int /\ e[h] \in Int /\ Cong(w[h], e[h], q)
    <3>1. x[h] \in Int /\ v[h] \in Int /\ v[h + 1] \in Int /\ v[h] = V(i, j, h) /\ v[h + 1] = V(i, j, h + 1)
          /\ V(i, j, 1) \in Int /\ h \in Nat
      BY <1>1, <1>2, <1>3
    <3>2. Cong(V(i, j, h + 1), V(i, j, h) * V(i, j, 1), q)
      BY <3>1, ValuePlus DEF q
    <3>3. Cong(v[h + 1], v[h] * V(i, j, 1), q)
      BY <3>1, <3>2
    <3>4. v[h] * V(i, j, 1) \in Int /\ x[h] * (v[h] * V(i, j, 1)) = V(i, j, 1) * (x[h] * v[h])
          /\ x[h] * v[h + 1] \in Int /\ V(i, j, 1) * (x[h] * v[h]) \in Int
      <4>1. v[h] * V(i, j, 1) \in Int /\ x[h] * v[h + 1] \in Int /\ x[h] * v[h] \in Int
            /\ (x[h] * v[h]) * V(i, j, 1) = x[h] * (v[h] * V(i, j, 1))
        BY <3>1, IntRing
      <4>2. (x[h] * v[h]) * V(i, j, 1) = V(i, j, 1) * (x[h] * v[h]) /\ V(i, j, 1) * (x[h] * v[h]) \in Int
        BY <3>1, <4>1, IntRing
      <4> QED BY <4>1, <4>2
    <3>5. Cong(x[h] * v[h + 1], x[h] * (v[h] * V(i, j, 1)), q)
      BY <1>2, <3>1, <3>3, <3>4, CongTimesOne
    <3> QED BY <3>4, <3>5
  <2> HIDE DEF w, e
  <2> QED BY <1>1, <1>2, <2>1, SumCong
<1>11. SumOver(e, Cols) = V(i, j, 1) * SumOver(f, Cols) /\ SumOver(f, Cols) \in Int
  <2>1. \A h \in Cols : f[h] \in Int /\ e[h] = V(i, j, 1) * f[h]
    BY <1>1, <1>2, <1>3, IntRing
  <2> HIDE DEF e, f
  <2> QED BY <1>1, <1>2, <2>1, SumScale, SumType
<1>12. Ev(x, i, j) = SumOver(f, Cols)
  <2>1. \A h \in Cols : f[h] = x[h] * V(i, j, h)
    BY <1>1, <1>2
  <2> HIDE DEF f
  <2> QED BY <2>1, SmallPoly, EvIs
<1> HIDE DEF u, t, s, w, e, f
<1>13. SumOver(u, D) \in Int /\ SumOver(t, D) \in Int
  BY <1>1, <1>5, SumType
<1>14. Cong(neg * SumOver(t, D), 0, q) /\ neg * SumOver(t, D) \in Int
  <2>1. neg \in Int /\ neg * 0 = 0 /\ neg * SumOver(t, D) \in Int
    BY <1>3, <1>13, IntRing
  <2>2. Cong(neg * SumOver(t, D), neg * 0, q)
    <3> DEFINE z == 0
    <3>1. z \in Int /\ Cong(SumOver(t, D), z, q)
      BY <1>7
    <3> HIDE DEF z
    <3>2. Cong(neg * SumOver(t, D), neg * z, q)
      BY <1>2, <1>13, <2>1, <3>1, CongTimesOne
    <3> QED BY <3>2 DEF z
  <2> QED BY <2>1, <2>2
<1>15. Cong(SumOver(u, D) + neg * SumOver(t, D), SumOver(u, D) + 0, q)
  <2>1. Cong(SumOver(u, D), SumOver(u, D), q)
    BY <1>2, <1>13, CongRefl
  <2> QED BY <1>2, <1>13, <1>14, <2>1, CongPlus
<1>16. Cong(SumOver(s, D), SumOver(w, Cols), q)
  BY <1>6, <1>9, <1>13, <1>15
<1>17. V(i, j, 1) * SumOver(f, Cols) = SumOver(f, Cols) * V(i, j, 1) /\ SumOver(f, Cols) * V(i, j, 1) \in Int
  BY <1>2, <1>11, IntRing
<1>18. SumOver(s, D) \in Int /\ SumOver(w, Cols) \in Int
  BY <1>6, <1>9, <1>13, <1>14
<1>19. Cong(SumOver(s, D), SumOver(f, Cols) * V(i, j, 1), q)
  BY <1>2, <1>10, <1>11, <1>16, <1>17, <1>18, CongTrans
<1> QED BY <1>8, <1>12, <1>19 DEF q

\* The value of X^k, reduced modulo Phi_m, is that power of the root.
LEMMA XPowerValue ==
  ASSUME NEW i \in Chain, NEW j \in Cols, NEW k \in 0 .. M - 1
  PROVE  Cong(Ev(XPower[k], i, j), V(i, j, k), Prime[i])
<1> DEFINE q == Prime[i]
           N == {n \in Nat : n \in 0 .. M - 1 => Cong(Ev(XPower[n], i, j), V(i, j, n), q)}
<1>0. q \in Int /\ M \in Nat
  BY PrimeFacts, Degree
<1> HIDE DEF q
<1>1. ASSUME NEW n \in 0 .. M - 1, n < PhiM PROVE Cong(Ev(XPower[n], i, j), V(i, j, n), q)
  <2> DEFINE f == Monomial(n)
             t == [h \in Cols |-> f[h] * V(i, j, h)]
  <2>1. XPower[n] = f /\ f \in [Cols -> Int]
    BY <1>1, XPowerSteps
  <2>2. n \in Cols /\ n \in Nat
    BY <1>0, <1>1, Degree DEF Cols
  <2>3. V(i, j, n) \in Int
    BY <2>2, ValueFacts
  <2>4. t[n] = V(i, j, n)
    <3>1. f[n] = 1
      BY <2>2 DEF Monomial
    <3> HIDE DEF f
    <3>2. t[n] = 1 * V(i, j, n)
      BY <2>2, <3>1
    <3> QED BY <2>3, <3>2, IntRing
  <2>5. \A h \in Cols : h # n => t[h] = 0
    <3>1. ASSUME NEW h \in Cols, h # n PROVE t[h] = 0
      <4>1. f[h] = 0
        BY <3>1 DEF Monomial
      <4>2. V(i, j, h) \in Int
        BY ValueFacts, Degree
      <4> HIDE DEF f
      <4>3. t[h] = 0 * V(i, j, h)
        BY <4>1
      <4> QED BY <4>2, <4>3, IntRing
    <3> QED BY <3>1
  <2>6. \A h \in Cols : t[h] = f[h] * V(i, j, h)
    OBVIOUS
  <2> HIDE DEF f, t
  <2>7. Ev(f, i, j) = SumOver(t, Cols)
    BY <2>1, <2>6, SmallPoly, EvIs
  <2>8. SumOver(t, Cols) = t[n]
    BY <2>2, <2>3, <2>4, <2>5, Degree, SumOfOne
  <2> QED BY <1>0, <2>1, <2>3, <2>4, <2>7, <2>8, CongRefl
<1>2. 0 \in N
  <2>1. 0 \in 0 .. M - 1 /\ 0 < PhiM
    BY Degree
  <2> QED BY <1>1, <2>1
<1>3. ASSUME NEW n \in Nat, n \in N PROVE n + 1 \in N
  <2>1. SUFFICES ASSUME n + 1 \in 0 .. M - 1 PROVE Cong(Ev(XPower[n + 1], i, j), V(i, j, n + 1), q)
    OBVIOUS
  <2>2. CASE n + 1 < PhiM
    BY <1>1, <2>1, <2>2
  <2>3. CASE ~(n + 1 < PhiM)
    <3>1. n \in 0 .. M - 1 /\ (n + 1) - 1 = n
      BY <1>0, <2>1
    <3>2. XPower[n] \in [Cols -> Int] /\ XPower[n + 1] = Shifted(XPower[n]) /\ XPower[n + 1] \in [Cols -> Int]
      BY <2>1, <2>3, <3>1, XPowerSteps
    <3>3. Cong(Ev(XPower[n + 1], i, j), Ev(XPower[n], i, j) * V(i, j, 1), q)
      BY <3>2, ShiftValue DEF q
    <3>4. Cong(Ev(XPower[n], i, j), V(i, j, n), q)
      BY <1>3, <3>1
    <3>5. Ev(XPower[n], i, j) \in Int /\ Ev(XPower[n + 1], i, j) \in Int
      BY <3>2, SmallPoly, EvType
    <3>6. V(i, j, n) \in Int /\ V(i, j, 1) \in Int /\ V(i, j, n + 1) \in Int
      BY ValueFacts
    <3>7. Ev(XPower[n], i, j) * V(i, j, 1) \in Int /\ V(i, j, n) * V(i, j, 1) \in Int
      BY <3>5, <3>6, IntRing
    <3>8. Cong(Ev(XPower[n], i, j) * V(i, j, 1), V(i, j, n) * V(i, j, 1), q)
      BY <1>0, <3>4, <3>5, <3>6, CongTimesOne
    <3>9. Cong(V(i, j, n) * V(i, j, 1), V(i, j, n + 1), q)
      <4>1. Cong(V(i, j, n + 1), V(i, j, n) * V(i, j, 1), q)
        BY ValuePlus DEF q
      <4> QED BY <1>0, <3>6, <3>7, <4>1, CongSym
    <3>10. Cong(Ev(XPower[n + 1], i, j), V(i, j, n) * V(i, j, 1), q)
      BY <1>0, <3>3, <3>5, <3>7, <3>8, CongTrans
    <3> QED BY <1>0, <3>5, <3>6, <3>7, <3>9, <3>10, CongTrans
  <2> QED BY <2>2, <2>3
<1> HIDE DEF N
<1>4. k \in Nat /\ k \in N
  <2>1. k \in Nat
    BY <1>0
  <2> QED BY <1>2, <1>3, <2>1, Induction
<1> QED BY <1>4 DEF N, q

-----------------------------------------------------------------------------
(* Reduction and the ring operations do to the values what they should. *)

\* The remainder modulo the cyclotomic polynomial has the value of the polynomial.
LEMMA RemainderValue ==
  ASSUME NEW f, IsPoly(f), NEW n \in Positive
  PROVE  /\ Remainder(f, n) \in [Cols -> 0 .. n - 1] /\ Remainder(f, n) \in [Cols -> Int]
         /\ \A i \in Chain, j \in Cols : Divides(Prime[i], n) =>
              Cong(Ev(Remainder(f, n), i, j), Ev(f, i, j), Prime[i])
<1> DEFINE D == DOMAIN f
           x(k) == XPower[k % M]
           a(h) == [k \in D |-> f[k] * x(k)[h]]
           b(h) == [k \in D |-> (f[k] * x(k)[h]) % n]
<1>1. IsFiniteSet(D) /\ \A k \in D : k \in Nat /\ k \in Int /\ f[k] \in Int
  BY DEF IsPoly
<1>2. ASSUME NEW k \in D PROVE k % M \in 0 .. M - 1 /\ x(k) \in [Cols -> Int]
  <2>1. k % M \in 0 .. M - 1
    BY <1>1, Degree, DivMod
  <2> QED BY <2>1, XPowerSteps
<1> HIDE DEF x, D
<1>3. ASSUME NEW h \in Cols
      PROVE  /\ \A k \in D : a(h)[k] \in Int /\ b(h)[k] = a(h)[k] % n
             /\ SumOver(b(h), D) % n \in 0 .. n - 1 /\ SumOver(b(h), D) % n \in Int
             /\ SumOver(a(h), D) \in Int /\ Cong(SumOver(b(h), D) % n, SumOver(a(h), D), n)
             /\ Remainder(f, n)[h] = SumOver(b(h), D) % n
  <2>1. ASSUME NEW k \in D PROVE a(h)[k] \in Int /\ b(h)[k] = a(h)[k] % n
    <3>1. f[k] \in Int /\ x(k)[h] \in Int
      BY <1>1, <1>2
    <3> QED BY <3>1, IntRing
  <2>2. Remainder(f, n)[h] = SumFunction(b(h)) % n
    BY Zenon DEF Remainder, D, x
  <2>3. DOMAIN b(h) = D
    OBVIOUS
  <2> HIDE DEF a, b
  <2>4. SumFunction(b(h)) = SumOver(b(h), D)
    BY <2>3, SumFn
  <2>5. /\ SumOver(b(h), D) % n \in 0 .. n - 1 /\ SumOver(b(h), D) % n \in Int
        /\ SumOver(a(h), D) \in Int /\ Cong(SumOver(b(h), D) % n, SumOver(a(h), D), n)
    BY <1>1, <2>1, SumReduced
  <2> QED BY <2>1, <2>2, <2>4, <2>5
<1> DEFINE R == Remainder(f, n)
<1>4. R = [h \in Cols |-> R[h]]
  BY DEF Remainder
<1> HIDE DEF R
<1>5. R \in [Cols -> 0 .. n - 1] /\ R \in [Cols -> Int]
  <2>1. \A h \in Cols : R[h] \in 0 .. n - 1 /\ R[h] \in Int
    BY <1>3 DEF R
  <2> QED BY <1>4, <2>1
<1>6. ASSUME NEW i \in Chain, NEW j \in Cols, Divides(Prime[i], n)
      PROVE  Cong(Ev(R, i, j), Ev(f, i, j), Prime[i])
  <2> DEFINE q == Prime[i]
             v(k) == V(i, j, k)
             g == [k \in D |-> [h \in Cols |-> f[k] * (x(k)[h] * v(h))]]
             t == [h \in Cols |-> [k \in D |-> f[k] * (x(k)[h] * v(h))]]
             rows == [k \in D |-> SumOver(g[k], Cols)]
             columns == [h \in Cols |-> SumOver(t[h], D)]
             s == [h \in Cols |-> R[h] * v(h)]
             w == [k \in D |-> f[k] * v(k)]
  <2>1. q \in Int /\ n \in Int /\ \A k \in Nat : v(k) \in Int
    BY PrimeFacts, ValueFacts DEF Positive
  <2>2. IsFiniteSet(Cols) /\ \A h \in Cols : h \in Nat
    BY Degree
  <2>3. ASSUME NEW k \in D, NEW h \in Cols
        PROVE  /\ f[k] \in Int /\ x(k)[h] \in Int /\ v(h) \in Int /\ x(k)[h] * v(h) \in Int
               /\ f[k] * (x(k)[h] * v(h)) \in Int
               /\ f[k] * (x(k)[h] * v(h)) = v(h) * (f[k] * x(k)[h])
    <3>1. f[k] \in Int /\ x(k)[h] \in Int /\ v(h) \in Int
      BY <1>1, <1>2, <2>1, <2>2
    <3>2. x(k)[h] * v(h) \in Int /\ f[k] * x(k)[h] \in Int /\ (f[k] * x(k)[h]) * v(h) = f[k] * (x(k)[h] * v(h))
      BY <3>1, IntRing
    <3>3. (f[k] * x(k)[h]) * v(h) = v(h) * (f[k] * x(k)[h]) /\ f[k] * (x(k)[h] * v(h)) \in Int
      BY <3>1, <3>2, IntRing
    <3> QED BY <3>1, <3>2, <3>3
  <2> HIDE DEF q, v
  <2>4. SumOver(rows, D) = SumOver(columns, Cols)
    <3>1. \A k \in D : \A h \in Cols : g[k][h] \in Int /\ t[h][k] = g[k][h]
      BY <2>3
    <3>2. \A k \in D : rows[k] = SumOver(g[k], Cols)
      OBVIOUS
    <3>3. \A h \in Cols : columns[h] = SumOver(t[h], D)
      OBVIOUS
    <3>4. IsFiniteSet(D)
      BY <1>1
    <3>5. IsFiniteSet(Cols)
      BY <2>2
    <3> HIDE DEF g, t, rows, columns
    <3>6. IsTable(D, Cols, g, t, rows, columns)
      BY ONLY <3>1, <3>2, <3>3, <3>4, <3>5 DEF IsTable
    <3> QED BY ONLY <3>6, SumSwap
  <2>5. ASSUME NEW k \in D
        PROVE  rows[k] \in Int /\ w[k] \in Int /\ Cong(rows[k], w[k], q)
    <3> DEFINE e == [h \in Cols |-> x(k)[h] * v(h)]
    <3>1. \A h \in Cols : e[h] \in Int /\ e[h] = x(k)[h] * v(h) /\ g[k][h] = f[k] * e[h]
      BY <2>3
    <3>2. rows[k] = SumOver(g[k], Cols) /\ f[k] \in Int /\ x(k) \in [Cols -> Int] /\ k % M \in 0 .. M - 1 /\ k \in Nat
      BY <1>1, <1>2
    <3>3. w[k] = f[k] * v(k) /\ v(k) \in Int
      BY <2>1, <3>2
    <3> HIDE DEF e, g, rows, w
    <3>4. SumOver(g[k], Cols) = f[k] * SumOver(e, Cols) /\ SumOver(e, Cols) \in Int
      BY <2>2, <3>1, <3>2, SumScale, SumType
    <3>5. Ev(x(k), i, j) = SumOver(e, Cols)
      BY <3>1, <3>2, SmallPoly, EvIs DEF v
    <3>6. Cong(Ev(x(k), i, j), v(k % M), q)
      BY <3>2, XPowerValue DEF x, v, q
    <3>7. v(k % M) = v(k)
      BY <3>2, ValueFacts DEF v
    <3>8. Cong(SumOver(e, Cols), v(k), q)
      BY <3>5, <3>6, <3>7
    <3>9. Cong(f[k] * SumOver(e, Cols), f[k] * v(k), q)
      BY <2>1, <3>2, <3>3, <3>4, <3>8, CongTimesOne
    <3> QED BY <3>2, <3>3, <3>4, <3>9, IntRing
  <2>6. ASSUME NEW h \in Cols
        PROVE  columns[h] \in Int /\ s[h] \in Int /\ Cong(s[h], columns[h], q)
    <3>1. columns[h] = SumOver(t[h], D) /\ s[h] = R[h] * v(h) /\ R[h] \in Int /\ v(h) \in Int
      BY <1>5, <2>1, <2>2
    <3>2. \A k \in D : t[h][k] = v(h) * a(h)[k]
      BY <2>3
    <3>3. (\A k \in D : a(h)[k] \in Int) /\ SumOver(a(h), D) \in Int /\ Cong(R[h], SumOver(a(h), D), n)
      BY <1>3 DEF R
    <3> HIDE DEF a, t, columns, s
    <3>4. SumOver(t[h], D) = v(h) * SumOver(a(h), D)
      BY <1>1, <3>1, <3>2, <3>3, SumScale
    <3>5. Cong(R[h], SumOver(a(h), D), q)
      BY <1>6, <2>1, <3>1, <3>3, CongToDivisor DEF q
    <3>6. Cong(R[h] * v(h), SumOver(a(h), D) * v(h), q)
      BY <2>1, <3>1, <3>3, <3>5, CongTimesOne
    <3>7. SumOver(a(h), D) * v(h) = v(h) * SumOver(a(h), D) /\ v(h) * SumOver(a(h), D) \in Int /\ R[h] * v(h) \in Int
      BY <3>1, <3>3, IntRing
    <3> QED BY <3>1, <3>4, <3>6, <3>7
  <2>7. Ev(R, i, j) = SumOver(s, Cols)
    <3>1. \A h \in Cols : s[h] = R[h] * V(i, j, h)
      BY DEF v
    <3> HIDE DEF s
    <3> QED BY <1>5, <3>1, SmallPoly, EvIs
  <2>8. Ev(f, i, j) = SumOver(w, D)
    <3>1. \A k \in DOMAIN f : w[k] = f[k] * V(i, j, k)
      BY DEF v, D
    <3> HIDE DEF w
    <3> QED BY <3>1, EvIs DEF D
  <2> HIDE DEF rows, columns, s, w
  <2>9. Cong(SumOver(s, Cols), SumOver(columns, Cols), q)
    BY <2>1, <2>2, <2>6, SumCong
  <2>10. Cong(SumOver(rows, D), SumOver(w, D), q)
    BY <1>1, <2>1, <2>5, SumCong
  <2>11. SumOver(s, Cols) \in Int /\ SumOver(columns, Cols) \in Int /\ SumOver(w, D) \in Int
    BY <1>1, <2>2, <2>5, <2>6, SumType
  <2>12. Cong(SumOver(s, Cols), SumOver(w, D), q)
    BY <2>1, <2>4, <2>9, <2>10, <2>11, CongTrans
  <2> QED BY <2>7, <2>8, <2>12 DEF q
<1> QED BY <1>5, <1>6 DEF R

\* The value of a sum of polynomials.
LEMMA EvSum ==
  ASSUME NEW f \in [Cols -> Int], NEW e \in [Cols -> Int], NEW d \in [Cols -> Int],
         \A h \in Cols : d[h] = f[h] + e[h], NEW i \in Chain, NEW j \in Cols
  PROVE  Ev(d, i, j) = Ev(f, i, j) + Ev(e, i, j)
<1> DEFINE a == [h \in Cols |-> f[h] * V(i, j, h)]
           b == [h \in Cols |-> e[h] * V(i, j, h)]
           c == [h \in Cols |-> d[h] * V(i, j, h)]
<1>1. ASSUME NEW h \in Cols PROVE a[h] \in Int /\ b[h] \in Int /\ c[h] = a[h] + b[h]
  <2>1. V(i, j, h) \in Int /\ f[h] \in Int /\ e[h] \in Int
    BY Degree, ValueFacts
  <2>2. (f[h] + e[h]) * V(i, j, h) = f[h] * V(i, j, h) + e[h] * V(i, j, h)
    BY <2>1, IntRing
  <2> QED BY <2>1, <2>2, IntRing
<1>2. \A h \in Cols : a[h] = f[h] * V(i, j, h) /\ b[h] = e[h] * V(i, j, h) /\ c[h] = d[h] * V(i, j, h)
  OBVIOUS
<1> HIDE DEF a, b, c
<1>3. Ev(f, i, j) = SumOver(a, Cols) /\ Ev(e, i, j) = SumOver(b, Cols) /\ Ev(d, i, j) = SumOver(c, Cols)
  BY <1>2, SmallPoly, EvIs
<1>4. IsFiniteSet(Cols)
  BY Degree
<1>5. \A h \in Cols : a[h] \in Int
  BY <1>1
<1>6. \A h \in Cols : b[h] \in Int
  BY <1>1
<1>7. \A h \in Cols : c[h] = a[h] + b[h]
  BY <1>1
<1>8. SumOver(c, Cols) = SumOver(a, Cols) + SumOver(b, Cols)
  BY ONLY <1>4, <1>5, <1>6, <1>7, SumPlus
<1> QED BY <1>3, <1>8

\* The value of a multiple of a polynomial.
LEMMA EvScale ==
  ASSUME NEW f \in [Cols -> Int], NEW n \in Int, NEW d \in [Cols -> Int],
         \A h \in Cols : d[h] = n * f[h], NEW i \in Chain, NEW j \in Cols
  PROVE  Ev(d, i, j) = n * Ev(f, i, j)
<1> DEFINE a == [h \in Cols |-> f[h] * V(i, j, h)]
           c == [h \in Cols |-> d[h] * V(i, j, h)]
<1>1. ASSUME NEW h \in Cols PROVE a[h] \in Int /\ c[h] = n * a[h]
  <2>1. V(i, j, h) \in Int /\ f[h] \in Int
    BY Degree, ValueFacts
  <2>2. (n * f[h]) * V(i, j, h) = n * (f[h] * V(i, j, h)) /\ f[h] * V(i, j, h) \in Int
    BY <2>1, IntRing
  <2> QED BY <2>1, <2>2
<1>2. \A h \in Cols : a[h] = f[h] * V(i, j, h) /\ c[h] = d[h] * V(i, j, h)
  OBVIOUS
<1> HIDE DEF a, c
<1>3. Ev(f, i, j) = SumOver(a, Cols) /\ Ev(d, i, j) = SumOver(c, Cols)
  BY <1>2, SmallPoly, EvIs
<1>4. SumOver(c, Cols) = n * SumOver(a, Cols)
  <2>1. IsFiniteSet(Cols)
    BY Degree
  <2> QED BY ONLY <1>1, <2>1, n \in Int, SumScale
<1> QED BY <1>3, <1>4

\* Polynomials that agree modulo a multiple of the prime have the same value.
LEMMA EvCong ==
  ASSUME NEW f \in [Cols -> Int], NEW e \in [Cols -> Int], NEW n \in Int,
         \A h \in Cols : Cong(f[h], e[h], n),
         NEW i \in Chain, NEW j \in Cols, Divides(Prime[i], n)
  PROVE  Cong(Ev(f, i, j), Ev(e, i, j), Prime[i])
<1> DEFINE a == [h \in Cols |-> f[h] * V(i, j, h)]
           b == [h \in Cols |-> e[h] * V(i, j, h)]
           q == Prime[i]
<1>0. q \in Int
  BY PrimeFacts
<1>1. ASSUME NEW h \in Cols PROVE a[h] \in Int /\ b[h] \in Int /\ Cong(a[h], b[h], q)
  <2>1. V(i, j, h) \in Int /\ f[h] \in Int /\ e[h] \in Int
    BY Degree, ValueFacts
  <2>2. Cong(f[h], e[h], q)
    BY <1>0, <2>1, CongToDivisor
  <2>3. Cong(f[h] * V(i, j, h), e[h] * V(i, j, h), q)
    BY <1>0, <2>1, <2>2, CongTimesOne
  <2> QED BY <2>1, <2>3, IntRing
<1>2. \A h \in Cols : a[h] = f[h] * V(i, j, h) /\ b[h] = e[h] * V(i, j, h)
  OBVIOUS
<1> HIDE DEF a, b, q
<1>3. Ev(f, i, j) = SumOver(a, Cols) /\ Ev(e, i, j) = SumOver(b, Cols)
  BY <1>2, SmallPoly, EvIs
<1>4. Cong(SumOver(a, Cols), SumOver(b, Cols), q)
  BY <1>0, <1>1, Degree, SumCong
<1> QED BY <1>3, <1>4 DEF q

\* A constant polynomial has the constant as its value everywhere.
LEMMA EvConstant ==
  ASSUME NEW f \in [Cols -> Int], \A h \in Cols : h # 0 => f[h] = 0,
         NEW i \in Chain, NEW j \in Cols
  PROVE  Ev(f, i, j) = f[0]
<1> DEFINE a == [h \in Cols |-> f[h] * V(i, j, h)]
<1>1. 0 \in Cols /\ IsFiniteSet(Cols) /\ f[0] \in Int
  BY Degree
<1>2. a[0] = f[0]
  <2>1. V(i, j, 0) = 1
    BY ValueFacts
  <2> QED BY <1>1, <2>1, IntRing
<1>3. ASSUME NEW h \in Cols, h # 0 PROVE a[h] = 0
  <2>1. V(i, j, h) \in Int /\ f[h] = 0
    BY <1>3, Degree, ValueFacts
  <2> QED BY <2>1, IntRing
<1>4. \A h \in Cols : a[h] = f[h] * V(i, j, h)
  OBVIOUS
<1> HIDE DEF a
<1>5. Ev(f, i, j) = SumOver(a, Cols)
  BY <1>4, SmallPoly, EvIs
<1>6. SumOver(a, Cols) = a[0]
  BY <1>1, <1>2, <1>3, SumOfOne
<1> QED BY <1>2, <1>5, <1>6

-----------------------------------------------------------------------------
(* The ring operations do to the values what they should. *)

\* The value of a difference of polynomials.
LEMMA EvMinus ==
  ASSUME NEW f \in [Cols -> Int], NEW e \in [Cols -> Int], NEW d \in [Cols -> Int],
         \A h \in Cols : d[h] = f[h] - e[h], NEW i \in Chain, NEW j \in Cols
  PROVE  Ev(d, i, j) = Ev(f, i, j) - Ev(e, i, j)
<1>1. \A h \in Cols : f[h] = d[h] + e[h]
  <2>1. SUFFICES ASSUME NEW h \in Cols PROVE f[h] = d[h] + e[h]
    OBVIOUS
  <2>2. f[h] \in Int /\ e[h] \in Int /\ d[h] = f[h] - e[h]
    OBVIOUS
  <2> QED BY ONLY <2>2
<1>2. Ev(f, i, j) = Ev(d, i, j) + Ev(e, i, j)
  BY <1>1, EvSum
<1>3. Ev(f, i, j) \in Int /\ Ev(d, i, j) \in Int /\ Ev(e, i, j) \in Int
  BY SmallPoly, EvType
<1> QED BY ONLY <1>2, <1>3

\* Reduced polynomials, coefficient by coefficient.
LEMMA ReducedValue ==
  ASSUME NEW f \in [Cols -> Int], NEW n \in Positive, NEW e, e = [h \in Cols |-> f[h] % n]
  PROVE  /\ e \in [Cols -> 0 .. n - 1] /\ e \in [Cols -> Int]
         /\ \A i \in Chain, j \in Cols : Divides(Prime[i], n) =>
              Cong(Ev(e, i, j), Ev(f, i, j), Prime[i])
<1>1. \A h \in Cols : f[h] \in Int /\ e[h] = f[h] % n
  OBVIOUS
<1>2. \A h \in Cols : e[h] \in 0 .. n - 1 /\ e[h] \in Int /\ Cong(e[h], f[h], n)
  BY <1>1, ModFacts
<1>3. e \in [Cols -> 0 .. n - 1] /\ e \in [Cols -> Int]
  BY <1>2
<1>4. n \in Int
  BY DEF Positive
<1> QED BY <1>2, <1>3, <1>4, EvCong

\* The ring's sum has the sum of the values.
LEMMA PlusValue ==
  ASSUME NEW f \in [Cols -> Int], NEW g \in [Cols -> Int], NEW n \in Positive
  PROVE  /\ Plus(f, g, n) \in [Cols -> 0 .. n - 1] /\ Plus(f, g, n) \in [Cols -> Int]
         /\ \A i \in Chain, j \in Cols : Divides(Prime[i], n) =>
              Cong(Ev(Plus(f, g, n), i, j), Ev(f, i, j) + Ev(g, i, j), Prime[i])
<1> DEFINE d == [h \in Cols |-> f[h] + g[h]]
<1>1. d \in [Cols -> Int] /\ \A h \in Cols : d[h] = f[h] + g[h]
  OBVIOUS
<1>2. Plus(f, g, n) = [h \in Cols |-> d[h] % n]
  BY DEF Plus
<1> HIDE DEF d
<1>3. \A i \in Chain, j \in Cols : Ev(d, i, j) = Ev(f, i, j) + Ev(g, i, j)
  BY <1>1, EvSum
<1> QED BY <1>1, <1>2, <1>3, ReducedValue

\* The ring's difference has the difference of the values.
LEMMA MinusValue ==
  ASSUME NEW f \in [Cols -> Int], NEW g \in [Cols -> Int], NEW n \in Positive
  PROVE  /\ Minus(f, g, n) \in [Cols -> 0 .. n - 1] /\ Minus(f, g, n) \in [Cols -> Int]
         /\ \A i \in Chain, j \in Cols : Divides(Prime[i], n) =>
              Cong(Ev(Minus(f, g, n), i, j), Ev(f, i, j) - Ev(g, i, j), Prime[i])
<1> DEFINE d == [h \in Cols |-> f[h] - g[h]]
<1>1. d \in [Cols -> Int] /\ \A h \in Cols : d[h] = f[h] - g[h]
  OBVIOUS
<1>2. Minus(f, g, n) = [h \in Cols |-> d[h] % n]
  BY DEF Minus
<1> HIDE DEF d
<1>3. \A i \in Chain, j \in Cols : Ev(d, i, j) = Ev(f, i, j) - Ev(g, i, j)
  BY <1>1, EvMinus
<1> QED BY <1>1, <1>2, <1>3, ReducedValue

\* The ring's multiple has the multiple of the values.
LEMMA ScaledValue ==
  ASSUME NEW f \in [Cols -> Int], NEW s \in Int, NEW n \in Positive
  PROVE  /\ Scaled(f, s, n) \in [Cols -> 0 .. n - 1] /\ Scaled(f, s, n) \in [Cols -> Int]
         /\ \A i \in Chain, j \in Cols : Divides(Prime[i], n) =>
              Cong(Ev(Scaled(f, s, n), i, j), s * Ev(f, i, j), Prime[i])
<1> DEFINE d == [h \in Cols |-> s * f[h]]
<1>1. d \in [Cols -> Int] /\ \A h \in Cols : d[h] = s * f[h]
  <2>1. \A h \in Cols : f[h] \in Int
    OBVIOUS
  <2>2. \A h \in Cols : s * f[h] \in Int
    BY <2>1, IntRing
  <2> QED BY <2>2
<1>2. Scaled(f, s, n) = [h \in Cols |-> d[h] % n]
  <2>1. ASSUME NEW h \in Cols PROVE (f[h] * (s % n)) % n = d[h] % n
    <3>1. f[h] \in Int
      OBVIOUS
    <3>2. (f[h] * (s % n)) % n = (f[h] * s) % n
      BY <3>1, ModTimes
    <3>3. f[h] * s = s * f[h]
      BY <3>1, IntRing
    <3> QED BY <3>2, <3>3
  <2> HIDE DEF d
  <2> QED BY <2>1, Zenon DEF Scaled
<1> HIDE DEF d
<1>3. \A i \in Chain, j \in Cols : Ev(d, i, j) = s * Ev(f, i, j)
  BY <1>1, EvScale
<1> QED BY <1>1, <1>2, <1>3, ReducedValue

\* The automorphism permutes the values.
LEMMA AtPowerValue ==
  ASSUME NEW f \in [Cols -> Int], NEW k \in Nat, NEW n \in Positive
  PROVE  /\ AtPower(f, k, n) \in [Cols -> 0 .. n - 1] /\ AtPower(f, k, n) \in [Cols -> Int]
         /\ \A i \in Chain, j \in Cols, l \in Cols :
              Divides(Prime[i], n) /\ ZmsRep[l] = (ZmsRep[j] * k) % M =>
                Cong(Ev(AtPower(f, k, n), i, j), Ev(f, i, l), Prime[i])
<1> DEFINE H == 0 .. M - 1
           B(h) == {b \in Cols : (b * k) % M = h}
           P == [h \in H |-> SumFunction([a \in B(h) |-> f[a]])]
<1>1. AtPower(f, k, n) = Remainder(P, n)
  BY Zenon DEF AtPower
<1>0. IsFiniteSet(Cols) /\ IsFiniteSet(H) /\ H \subseteq Nat /\ M \in Positive /\ Cols \subseteq Nat
  BY Degree, FS_Interval
<1>2. ASSUME NEW h \in H
      PROVE  P[h] = SumOver(f, B(h)) /\ P[h] \in Int
  <2> DEFINE e == [a \in B(h) |-> f[a]]
  <2>1. P[h] = SumFunction(e)
    OBVIOUS
  <2>2. DOMAIN e = B(h) /\ \A x \in B(h) : e[x] = f[x] /\ f[x] \in Int
    OBVIOUS
  <2>3. IsFiniteSet(B(h))
    BY <1>0, FS_Subset
  <2> HIDE DEF e, P, B
  <2>4. SumFunction(e) = SumOver(e, B(h))
    BY <2>2, SumFn
  <2>5. SumOver(e, B(h)) = SumOver(f, B(h)) /\ SumOver(f, B(h)) \in Int
    BY <2>2, <2>3, SumEqual, SumType
  <2> QED BY <2>1, <2>4, <2>5
<1>3. IsPoly(P) /\ DOMAIN P = H
  <2>1. DOMAIN P = H
    OBVIOUS
  <2> HIDE DEF P, H
  <2> QED BY <1>0, <1>2, <2>1 DEF IsPoly
<1>4. ASSUME NEW i \in Chain, NEW j \in Cols, NEW l \in Cols, ZmsRep[l] = (ZmsRep[j] * k) % M
      PROVE  Ev(P, i, j) = Ev(f, i, l)
  <2> DEFINE v(h) == V(i, j, h)
             g == [a \in Cols |-> [h \in H |-> IF (a * k) % M = h THEN f[a] * v(h) ELSE 0]]
             t == [h \in H |-> [a \in Cols |-> IF (a * k) % M = h THEN f[a] * v(h) ELSE 0]]
             r == [a \in Cols |-> f[a] * V(i, l, a)]
             c == [h \in H |-> P[h] * v(h)]
  <2>1. \A h \in Nat : v(h) \in Int
    BY ValueFacts
  <2>2. \A a \in Cols : f[a] \in Int
    OBVIOUS
  <2>a. \A a \in Cols : a * k \in Nat /\ (a * k) % M \in H /\ (a * k) % M \in Nat
    BY <1>0, DivMod
  <2>3. ASSUME NEW a \in Cols, NEW h \in H PROVE f[a] * v(h) \in Int
    BY <1>0, <2>1, <2>2, IntRing
  <2>4. \A a \in Cols : \A h \in H : g[a][h] \in Int /\ t[h][a] = g[a][h]
    <3> HIDE DEF v
    <3> QED BY <2>3
  <2>5. ASSUME NEW a \in Cols PROVE r[a] = SumOver(g[a], H)
    <3> DEFINE h == (a * k) % M
    <3>1. h \in H /\ h \in Nat
      BY <2>a
    <3>2. g[a][h] = f[a] * v(h) /\ \A x \in H : x # h => g[a][x] = 0
      BY <3>1
    <3>3. v(h) = V(i, j, a * k)
      BY <2>a, ValueFacts
    <3>4. V(i, l, a) = V(i, j, a * k)
      BY <1>0, <1>4, ValueMoved
    <3>5. g[a][h] \in Int /\ r[a] = f[a] * V(i, l, a)
      BY <2>4, <3>1
    <3> HIDE DEF g, h, r
    <3>7. IsFiniteSet(H)
      BY <1>0
    <3>6. SumOver(g[a], H) = g[a][h]
      <4>1. h \in H /\ g[a][h] \in Int /\ \A x \in H : x # h => g[a][x] = 0
        BY ONLY <3>1, <3>2, <3>5
      <4> QED BY ONLY <3>7, <4>1, SumOfOne
    <3> QED BY <3>2, <3>3, <3>4, <3>5, <3>6
  <2>6. ASSUME NEW h \in H PROVE c[h] = SumOver(t[h], Cols)
    <3>1. B(h) \in SUBSET Cols /\ IsFiniteSet(B(h))
      BY <1>0, FS_Subset
    <3>2. \A x \in B(h) : t[h][x] = v(h) * f[x] /\ t[h][x] \in Int /\ f[x] \in Int
      <4>1. SUFFICES ASSUME NEW x \in Cols, (x * k) % M = h PROVE f[x] * v(h) = v(h) * f[x] /\ f[x] * v(h) \in Int
        OBVIOUS
      <4>2. f[x] \in Int /\ v(h) \in Int
        BY <1>0, <2>1
      <4> HIDE DEF v
      <4> QED BY <4>2, IntRing
    <3>3. \A x \in Cols \ B(h) : t[h][x] = 0
      OBVIOUS
    <3>4. c[h] = P[h] * v(h) /\ v(h) \in Int
      BY <1>0, <2>1
    <3> HIDE DEF t, B, c, v
    <3>5. SumOver(t[h], Cols) = SumOver(t[h], B(h))
      BY <1>0, <3>1, <3>2, <3>3, SumOfPart
    <3>6. SumOver(t[h], B(h)) = v(h) * SumOver(f, B(h))
      BY <3>1, <3>2, <3>4, SumScale
    <3>7. P[h] = SumOver(f, B(h)) /\ P[h] \in Int
      BY <1>2 DEF B
    <3>8. P[h] * v(h) = v(h) * P[h]
      BY <3>4, <3>7, IntRing
    <3> QED BY <3>4, <3>5, <3>6, <3>7, <3>8
  <2>7. Ev(f, i, l) = SumOver(r, Cols)
    <3>1. \A h \in Cols : r[h] = f[h] * V(i, l, h)
      OBVIOUS
    <3> HIDE DEF r
    <3> QED BY <3>1, SmallPoly, EvIs
  <2>8. Ev(P, i, j) = SumOver(c, H)
    <3>1. \A h \in H : c[h] = P[h] * V(i, j, h)
      OBVIOUS
    <3> HIDE DEF c, P, H
    <3> QED BY <1>3, <3>1, EvIs
  <2> HIDE DEF g, t, r, c, H
  <2>9. IsTable(Cols, H, g, t, r, c)
    BY ONLY <1>0, <2>4, <2>5, <2>6 DEF IsTable
  <2>10. SumOver(r, Cols) = SumOver(c, H)
    BY ONLY <2>9, SumSwap
  <2> QED BY ONLY <2>7, <2>8, <2>10
<1> HIDE DEF P
<1>5. /\ Remainder(P, n) \in [Cols -> 0 .. n - 1] /\ Remainder(P, n) \in [Cols -> Int]
      /\ \A i \in Chain, j \in Cols : Divides(Prime[i], n) =>
              Cong(Ev(Remainder(P, n), i, j), Ev(P, i, j), Prime[i])
  BY <1>3, RemainderValue
<1>6. ASSUME NEW i \in Chain, NEW j \in Cols, NEW l \in Cols,
             Divides(Prime[i], n), ZmsRep[l] = (ZmsRep[j] * k) % M
      PROVE  Cong(Ev(AtPower(f, k, n), i, j), Ev(f, i, l), Prime[i])
  BY <1>1, <1>4, <1>5, <1>6
<1> QED BY <1>1, <1>5, <1>6

\* The product of polynomials has the product of their values.
LEMMA TimesValue ==
  ASSUME NEW f \in [Cols -> Int], NEW g \in [Cols -> Int], NEW n \in Positive
  PROVE  /\ Times(f, g, n) \in [Cols -> 0 .. n - 1] /\ Times(f, g, n) \in [Cols -> Int]
         /\ \A i \in Chain, j \in Cols : Divides(Prime[i], n) =>
              Cong(Ev(Times(f, g, n), i, j), Ev(f, i, j) * Ev(g, i, j), Prime[i])
<1> DEFINE H == 0 .. 2 * (PhiM - 1)
           B(h) == {b \in Cols : h - b \in Cols}
           P == [h \in H |-> SumFunction([a \in B(h) |-> (f[a] * g[h - a]) % n])]
<1>1. Times(f, g, n) = Remainder(P, n)
  BY Zenon DEF Times
<1>0. /\ IsFiniteSet(Cols) /\ IsFiniteSet(H) /\ H \subseteq Nat /\ M \in Positive
      /\ Cols \subseteq Nat /\ n \in Int /\ \A a \in Cols, b \in Cols : a + b \in H
  <2>1. /\ IsFiniteSet(Cols) /\ M \in Positive /\ Cols \subseteq Nat /\ PhiM \in Nat /\ PhiM >= 1
    BY Degree
  <2>2. IsFiniteSet(H)
    BY <2>1, FS_Interval
  <2>3. H \subseteq Nat /\ \A a \in Cols, b \in Cols : a + b \in H
    BY <2>1 DEF Cols
  <2> QED BY <2>1, <2>2, <2>3 DEF Positive
<1>2. ASSUME NEW h \in H
      PROVE  /\ B(h) \in SUBSET Cols /\ IsFiniteSet(B(h)) /\ P[h] \in Int
             /\ \A a \in B(h) : /\ f[a] \in Int /\ g[h - a] \in Int /\ f[a] * g[h - a] \in Int
                                /\ [b \in B(h) |-> (f[b] * g[h - b]) % n][a] = (f[a] * g[h - a]) % n
             /\ P[h] = SumOver([a \in B(h) |-> (f[a] * g[h - a]) % n], B(h))
  <2> DEFINE e == [a \in B(h) |-> (f[a] * g[h - a]) % n]
  <2>1. P[h] = SumFunction(e)
    OBVIOUS
  <2>2. DOMAIN e = B(h) /\ \A x \in B(h) : e[x] = (f[x] * g[h - x]) % n /\ f[x] \in Int /\ g[h - x] \in Int
    OBVIOUS
  <2>3. IsFiniteSet(B(h)) /\ B(h) \in SUBSET Cols
    BY <1>0, FS_Subset
  <2> HIDE DEF e, P, B
  <2>4. \A x \in B(h) : f[x] * g[h - x] \in Int
    BY <2>2, IntRing
  <2>5. \A x \in B(h) : e[x] \in Int
    BY <2>2, <2>4, ModFacts
  <2>6. SumFunction(e) = SumOver(e, B(h))
    BY <2>2, SumFn
  <2>7. SumOver(e, B(h)) \in Int
    BY <2>3, <2>5, SumType
  <2> QED BY <2>1, <2>2, <2>3, <2>4, <2>6, <2>7 DEF e
<1>3. IsPoly(P) /\ DOMAIN P = H
  <2>1. DOMAIN P = H
    OBVIOUS
  <2> HIDE DEF P, H
  <2> QED BY <1>0, <1>2, <2>1 DEF IsPoly
<1>4. ASSUME NEW i \in Chain, NEW j \in Cols, Divides(Prime[i], n)
      PROVE  Cong(Ev(P, i, j), Ev(f, i, j) * Ev(g, i, j), Prime[i])
  <2> DEFINE q == Prime[i]
             v(h) == V(i, j, h)
             m(a, h) == (f[a] * g[h - a]) * v(h)
             t == [a \in Cols |-> [h \in H |-> IF h - a \in Cols THEN m(a, h) ELSE 0]]
             s == [h \in H |-> [a \in Cols |-> IF h - a \in Cols THEN m(a, h) ELSE 0]]
             r == [a \in Cols |-> SumOver(t[a], H)]
             c == [h \in H |-> SumOver(s[h], Cols)]
             w == [a \in Cols |-> f[a] * v(a)]
             u == [h \in H |-> P[h] * v(h)]
             G == Ev(g, i, j)
             p == [a \in Cols |-> G * w[a]]
  <2>1. (\A h \in Nat : v(h) \in Int) /\ q \in Int /\ q \in Positive /\ G \in Int
    BY ValueFacts, PrimeFacts, SmallPoly, EvType
  <2>2. \A a \in Cols : f[a] \in Int /\ g[a] \in Int
    OBVIOUS
  <2>3. ASSUME NEW a \in Cols, NEW h \in H, h - a \in Cols PROVE m(a, h) \in Int
    <3>1. f[a] \in Int /\ g[h - a] \in Int /\ v(h) \in Int
      BY <1>0, <2>1, <2>2, <2>3
    <3>2. f[a] * g[h - a] \in Int
      BY <3>1, IntRing
    <3> HIDE DEF v
    <3> QED BY <3>1, <3>2, IntRing
  <2>4. \A a \in Cols : \A h \in H : t[a][h] \in Int /\ s[h][a] = t[a][h]
    <3> HIDE DEF m
    <3> QED BY <2>3
  <2>5. ASSUME NEW a \in Cols PROVE r[a] \in Int /\ p[a] \in Int /\ Cong(r[a], p[a], q)
    <3> DEFINE A == {h \in H : h - a \in Cols}
               b == [h \in A |-> h - a]
               x == [y \in Cols |-> m(a, y + a)]
               z == [y \in Cols |-> g[y] * v(y)]
    <3>1. A \in SUBSET H /\ IsFiniteSet(A)
      BY <1>0, FS_Subset
    <3>2. b \in Bijection(A, Cols)
      <4>1. b \in [A -> Cols]
        OBVIOUS
      <4>2. ASSUME NEW h \in A, NEW k \in A, b[h] = b[k] PROVE h = k
        <5>1. h \in Int /\ k \in Int /\ a \in Int /\ b[h] = h - a /\ b[k] = k - a
          BY <1>0
        <5> QED BY ONLY <4>2, <5>1
      <4>3. ASSUME NEW y \in Cols PROVE \E h \in A : b[h] = y
        <5>1. y + a \in H /\ (y + a) - a = y
          BY <1>0
        <5>2. y + a \in A
          BY <5>1
        <5> QED BY <5>1, <5>2
      <4> HIDE DEF b, A
      <4> QED BY <4>1, <4>2, <4>3 DEF Bijection, Injection, Surjection, IsInjective
    <3>3. ASSUME NEW h \in A PROVE t[a][h] = x[b[h]]
      <4>1. h \in Int /\ a \in Int /\ h - a \in Cols /\ h \in H
        BY <1>0
      <4>2. (h - a) + a = h
        BY ONLY <4>1
      <4>3. t[a][h] = m(a, h) /\ x[b[h]] = m(a, (h - a) + a)
        BY <4>1
      <4> HIDE DEF m, t, x, b
      <4> QED BY <4>2, <4>3
    <3>4. \A h \in H \ A : t[a][h] = 0
      OBVIOUS
    <3>5. ASSUME NEW y \in Cols
          PROVE x[y] \in Int /\ z[y] \in Int /\ w[a] \in Int /\ w[a] * z[y] \in Int
                /\ Cong(x[y], w[a] * z[y], q)
      <4>1. y + a \in H /\ (y + a) - a = y /\ y \in Nat /\ a \in Nat /\ y + a \in Nat
        BY <1>0
      <4>2. v(y) \in Int /\ v(a) \in Int /\ v(y + a) \in Int /\ f[a] \in Int /\ g[y] \in Int
        BY <2>1, <2>2, <4>1
      <4>3. x[y] = (f[a] * g[y]) * v(y + a)
        BY <4>1
      <4>4. w[a] = f[a] * v(a) /\ z[y] = g[y] * v(y)
        OBVIOUS
      <4>5. Cong(v(y + a), v(y) * v(a), q)
        BY <4>1, ValuePlus
      <4> HIDE DEF x, z, w, v, q
      <4>6. f[a] * g[y] \in Int /\ v(y) * v(a) \in Int /\ w[a] \in Int /\ z[y] \in Int
        BY <4>2, <4>4, IntRing
      <4>7. Cong(x[y], (f[a] * g[y]) * (v(y) * v(a)), q) /\ x[y] \in Int
        <5>1. Cong((f[a] * g[y]) * v(y + a), (f[a] * g[y]) * (v(y) * v(a)), q)
          BY <2>1, <4>2, <4>5, <4>6, CongTimesOne
        <5>2. (f[a] * g[y]) * v(y + a) \in Int
          BY <4>2, <4>6, IntRing
        <5> QED BY ONLY <4>3, <5>1, <5>2
      <4>8. (f[a] * g[y]) * (v(y) * v(a)) = w[a] * z[y]
        <5>1. (f[a] * g[y]) * (v(y) * v(a)) = f[a] * (g[y] * (v(y) * v(a)))
          BY <4>2, <4>6, IntRing
        <5>2. g[y] * (v(y) * v(a)) = z[y] * v(a)
          BY <4>2, <4>4, IntRing
        <5>3. z[y] * v(a) = v(a) * z[y]
          BY <4>2, <4>6, IntRing
        <5>4. f[a] * (v(a) * z[y]) = (f[a] * v(a)) * z[y]
          BY <4>2, <4>6, IntRing
        <5> QED BY ONLY <4>4, <5>1, <5>2, <5>3, <5>4
      <4> QED BY <4>6, <4>7, <4>8, IntRing
    <3>6. r[a] = SumOver(t[a], H)
      OBVIOUS
    <3>7. G = SumOver(z, Cols)
      <4>1. \A h \in Cols : z[h] = g[h] * V(i, j, h)
        OBVIOUS
      <4> HIDE DEF z
      <4> QED BY <4>1, SmallPoly, EvIs
    <3>8. p[a] = G * w[a]
      OBVIOUS
    <3> DEFINE y1 == [y \in Cols |-> w[a] * z[y]]
    <3>b. \A y \in Cols : y1[y] = w[a] * z[y]
      OBVIOUS
    <3> HIDE DEF r, t, A, b, x, z, G, p, w, y1, q
    <3>9. SumOver(t[a], H) = SumOver(t[a], A)
      <4>1. \A h \in A : t[a][h] \in Int
        BY <2>4, <3>1
      <4> QED BY <1>0, <3>1, <3>4, <4>1, SumOfPart
    <3>10. SumOver(t[a], A) = SumOver(x, Cols)
      <4>1. \A y \in Cols : x[y] \in Int
        BY <3>5
      <4>2. \A h \in A : t[a][h] = x[b[h]]
        BY <3>3
      <4>3. IsFiniteSet(A)
        BY <3>1
      <4> QED BY ONLY <3>2, <4>1, <4>2, <4>3, SumRenamed
    <3>11. SumOver(y1, Cols) = w[a] * SumOver(z, Cols) /\ w[a] \in Int
      BY <1>0, <3>5, <3>b, SumScale
    <3>12. Cong(SumOver(x, Cols), SumOver(y1, Cols), q)
      BY <1>0, <2>1, <3>5, <3>b, SumCong
    <3>13. SumOver(x, Cols) \in Int
      BY <1>0, <3>5, SumType
    <3>14. w[a] * G = G * w[a] /\ G * w[a] \in Int
      BY <2>1, <3>11, IntRing
    <3> QED BY <3>6, <3>7, <3>8, <3>9, <3>10, <3>11, <3>12, <3>13, <3>14
  <2>6. ASSUME NEW h \in H PROVE c[h] \in Int /\ u[h] \in Int /\ Cong(u[h], c[h], q)
    <3> DEFINE e == [a \in B(h) |-> (f[a] * g[h - a]) % n]
               x == [a \in B(h) |-> f[a] * g[h - a]]
    <3>1. B(h) \in SUBSET Cols /\ IsFiniteSet(B(h)) /\ P[h] \in Int /\ P[h] = SumOver(e, B(h))
      BY <1>2
    <3>2. \A a \in B(h) : x[a] \in Int /\ e[a] = x[a] % n
      BY <1>2
    <3>3. \A a \in Cols \ B(h) : s[h][a] = 0
      OBVIOUS
    <3>4. \A a \in B(h) : s[h][a] = x[a] * v(h)
      OBVIOUS
    <3>5. c[h] = SumOver(s[h], Cols) /\ u[h] = P[h] * v(h) /\ v(h) \in Int
      BY <1>0, <2>1
    <3> HIDE DEF e, x, s, c, u, B, v, P, q
    <3>6. \A a \in B(h) : s[h][a] = v(h) * x[a] /\ s[h][a] \in Int
      <4>1. SUFFICES ASSUME NEW a \in B(h) PROVE s[h][a] = v(h) * x[a] /\ s[h][a] \in Int
        OBVIOUS
      <4>2. x[a] \in Int /\ s[h][a] = x[a] * v(h) /\ v(h) \in Int
        BY <3>2, <3>4, <3>5
      <4> QED BY ONLY <4>2, IntRing
    <3>7. SumOver(s[h], Cols) = SumOver(s[h], B(h))
      BY <1>0, <3>1, <3>3, <3>6, SumOfPart
    <3>8. SumOver(s[h], B(h)) = v(h) * SumOver(x, B(h)) /\ SumOver(x, B(h)) \in Int
      BY <3>1, <3>2, <3>5, <3>6, SumScale, SumType
    <3>9. Cong(SumOver(e, B(h)), SumOver(x, B(h)), n)
      <4>1. \A a \in B(h) : e[a] \in Int /\ Cong(e[a], x[a], n)
        BY <3>2, ModFacts
      <4> QED BY <1>0, <3>1, <3>2, <4>1, SumCong
    <3>10. Cong(P[h], SumOver(x, B(h)), q)
      BY <1>0, <1>4, <2>1, <3>1, <3>8, <3>9, CongToDivisor DEF q
    <3>11. Cong(P[h] * v(h), SumOver(x, B(h)) * v(h), q)
      BY <2>1, <3>1, <3>5, <3>8, <3>10, CongTimesOne
    <3>12. SumOver(x, B(h)) * v(h) = v(h) * SumOver(x, B(h)) /\ P[h] * v(h) \in Int /\ v(h) * SumOver(x, B(h)) \in Int
      BY <3>1, <3>5, <3>8, IntRing
    <3> QED BY <3>5, <3>7, <3>8, <3>11, <3>12
  <2>7. Ev(P, i, j) = SumOver(u, H)
    <3>1. \A h \in H : u[h] = P[h] * V(i, j, h)
      OBVIOUS
    <3> HIDE DEF u, P, H
    <3> QED BY <1>3, <3>1, EvIs
  <2>8. Ev(f, i, j) = SumOver(w, Cols)
    <3>1. \A h \in Cols : w[h] = f[h] * V(i, j, h)
      OBVIOUS
    <3> HIDE DEF w
    <3> QED BY <3>1, SmallPoly, EvIs
  <2>9. (\A a \in Cols : r[a] = SumOver(t[a], H)) /\ (\A h \in H : c[h] = SumOver(s[h], Cols))
        /\ \A a \in Cols : p[a] = G * w[a]
    OBVIOUS
  <2>a. \A a \in Cols : w[a] \in Int
    <3>1. SUFFICES ASSUME NEW a \in Cols PROVE f[a] * v(a) \in Int
      OBVIOUS
    <3>2. f[a] \in Int /\ v(a) \in Int
      BY <1>0, <2>1
    <3> HIDE DEF v
    <3> QED BY <3>2, IntRing
  <2> HIDE DEF t, s, r, c, H, w, u, p, q, G
  <2>10. IsTable(Cols, H, t, s, r, c)
    BY ONLY <1>0, <2>4, <2>9 DEF IsTable
  <2>11. SumOver(r, Cols) = SumOver(c, H)
    BY ONLY <2>10, SumSwap
  <2>12. Cong(SumOver(r, Cols), SumOver(p, Cols), q)
    BY <1>0, <2>1, <2>5, SumCong
  <2>13. Cong(SumOver(u, H), SumOver(c, H), q)
    BY <1>0, <2>1, <2>6, SumCong
  <2>14. SumOver(p, Cols) = G * SumOver(w, Cols)
    BY <1>0, <2>1, <2>9, <2>a, SumScale
  <2>15. SumOver(u, H) \in Int /\ SumOver(c, H) \in Int /\ SumOver(p, Cols) \in Int /\ SumOver(w, Cols) \in Int
    BY <1>0, <2>5, <2>6, <2>a, SumType
  <2>16. Cong(SumOver(u, H), SumOver(p, Cols), q)
    BY <2>1, <2>11, <2>12, <2>13, <2>15, CongTrans
  <2>17. G * SumOver(w, Cols) = SumOver(w, Cols) * G
    BY <2>1, <2>15, IntRing
  <2> QED BY <2>7, <2>8, <2>14, <2>16, <2>17 DEF G, q
<1> HIDE DEF P
<1>5. /\ Remainder(P, n) \in [Cols -> 0 .. n - 1] /\ Remainder(P, n) \in [Cols -> Int]
      /\ \A i \in Chain, j \in Cols : Divides(Prime[i], n) =>
              Cong(Ev(Remainder(P, n), i, j), Ev(P, i, j), Prime[i])
  BY <1>3, RemainderValue
<1>6. ASSUME NEW i \in Chain, NEW j \in Cols, Divides(Prime[i], n)
      PROVE  Cong(Ev(Remainder(P, n), i, j), Ev(f, i, j) * Ev(g, i, j), Prime[i])
  <2>1. Cong(Ev(P, i, j), Ev(f, i, j) * Ev(g, i, j), Prime[i])
    BY <1>4, <1>6
  <2>2. Cong(Ev(Remainder(P, n), i, j), Ev(P, i, j), Prime[i])
    BY <1>5, <1>6
  <2>3. Ev(P, i, j) \in Int /\ Ev(f, i, j) \in Int /\ Ev(g, i, j) \in Int /\ Ev(Remainder(P, n), i, j) \in Int
    BY <1>3, <1>5, SmallPoly, EvType
  <2>4. Ev(f, i, j) * Ev(g, i, j) \in Int /\ Prime[i] \in Int
    BY <2>3, IntRing, PrimeFacts
  <2> QED BY <2>1, <2>2, <2>3, <2>4, CongTrans
<1> QED BY <1>1, <1>5, <1>6

-----------------------------------------------------------------------------
(* The transform computes the values of a polynomial, and its inverse the polynomial with *)
(* given values. *)

\* The rows of d are those of the primes of S, reduced, and have the values of f.
Represents(d, S, f) ==
  /\ d = [i \in S |-> d[i]]
  /\ \A i \in S : d[i] \in Rows(i)
  /\ \A i \in S, j \in Cols : d[i][j] \in Int /\ Cong(d[i][j], Ev(f, i, j), Prime[i])

\* The transform computes the values.
LEMMA FFTValue ==
  ASSUME NEW poly \in [Cols -> Int], NEW S \in SUBSET Chain
  PROVE  Represents(FFT(poly, S), S, poly)
<1> DEFINE e(i, j) == [h \in Cols |-> ((poly[h] % Prime[i]) * RootPower[i][j][h]) % Prime[i]]
           w(i, j) == [h \in Cols |-> (poly[h] % Prime[i]) * RootPower[i][j][h]]
           p(i) == [h \in Cols |-> poly[h] % Prime[i]]
           D == FFT(poly, S)
<1>1. D = [i \in S |-> [j \in Cols |-> SumFunction(e(i, j)) % Prime[i]]]
  BY Zenon DEF FFT
<1>2. ASSUME NEW i \in S, NEW j \in Cols
      PROVE  /\ SumFunction(e(i, j)) % Prime[i] \in 0 .. Prime[i] - 1
             /\ SumFunction(e(i, j)) % Prime[i] \in Int
             /\ Cong(SumFunction(e(i, j)) % Prime[i], Ev(poly, i, j), Prime[i])
  <2> DEFINE q == Prime[i]
  <2>1. i \in Chain /\ q \in Positive /\ q \in Int
    BY PrimeFacts
  <2>2. p(i) \in [Cols -> Int] /\ Cong(Ev(p(i), i, j), Ev(poly, i, j), q)
    <3>1. p(i) = [h \in Cols |-> poly[h] % q]
      OBVIOUS
    <3>2. Divides(Prime[i], q)
      BY <2>1, DividesBasics
    <3> HIDE DEF p, q
    <3>3. Divides(Prime[i], q) /\ q = Prime[i]
      BY <3>2 DEF q
    <3> QED BY <2>1, <3>1, <3>3, ReducedValue
  <2>3. ASSUME NEW h \in Cols
        PROVE  /\ w(i, j)[h] = p(i)[h] * V(i, j, h) /\ w(i, j)[h] \in Int
               /\ e(i, j)[h] = w(i, j)[h] % q
    <3>1. RootPower[i][j][h] = V(i, j, h) /\ V(i, j, h) \in Int /\ p(i)[h] \in Int
      BY <2>1, <2>2, Degree, ValueFacts
    <3>2. w(i, j)[h] = p(i)[h] * RootPower[i][j][h] /\ e(i, j)[h] = w(i, j)[h] % q
      OBVIOUS
    <3> HIDE DEF w, p, e
    <3> QED BY <3>1, <3>2, IntRing
  <2>4. DOMAIN e(i, j) = Cols
    OBVIOUS
  <2> HIDE DEF e, w, p, q
  <2>5. SumFunction(e(i, j)) = SumOver(e(i, j), Cols)
    BY <2>4, SumFn
  <2>6. Ev(p(i), i, j) = SumOver(w(i, j), Cols)
    BY <2>1, <2>2, <2>3, SmallPoly, EvIs
  <2>7. /\ SumOver(e(i, j), Cols) % q \in 0 .. q - 1 /\ SumOver(e(i, j), Cols) % q \in Int
        /\ SumOver(w(i, j), Cols) \in Int /\ Cong(SumOver(e(i, j), Cols) % q, SumOver(w(i, j), Cols), q)
    BY <2>1, <2>3, Degree, SumReduced
  <2>8. Ev(poly, i, j) \in Int
    BY <2>1, SmallPoly, EvType
  <2>9. Cong(SumOver(e(i, j), Cols) % q, Ev(poly, i, j), q)
    BY <2>1, <2>2, <2>6, <2>7, <2>8, CongTrans
  <2> QED BY <2>5, <2>7, <2>9 DEF q
<1> HIDE DEF e, w, p
<1>3. D = [i \in S |-> D[i]] /\ \A i \in S : D[i] = [j \in Cols |-> SumFunction(e(i, j)) % Prime[i]]
  BY <1>1
<1> HIDE DEF D
<1>4. \A i \in S, j \in Cols : D[i][j] = SumFunction(e(i, j)) % Prime[i]
  BY <1>3
<1>5. \A i \in S : D[i] \in Rows(i)
  BY <1>2, <1>3 DEF Rows
<1> QED BY <1>2, <1>3, <1>4, <1>5 DEF Represents, D

\* A constant has its value everywhere.
LEMMA ConstantValue ==
  ASSUME NEW n \in Int, NEW S \in SUBSET Chain,
         NEW f \in [Cols -> Int], f[0] = n, \A h \in Cols : h # 0 => f[h] = 0
  PROVE  Represents(Constant(n, S), S, f)
<1> DEFINE D == Constant(n, S)
<1>1. D = [i \in S |-> D[i]] /\ \A i \in S : D[i] = [j \in Cols |-> n % Prime[i]]
  BY DEF Constant
<1> HIDE DEF D
<1>2. ASSUME NEW i \in S, NEW j \in Cols
      PROVE  /\ n % Prime[i] \in 0 .. Prime[i] - 1 /\ n % Prime[i] \in Int
             /\ Cong(n % Prime[i], Ev(f, i, j), Prime[i])
  <2>1. Prime[i] \in Positive
    BY PrimeFacts
  <2>2. Ev(f, i, j) = n
    BY EvConstant
  <2> QED BY <2>1, <2>2, ModFacts
<1>3. \A i \in S : D[i] \in Rows(i)
  BY <1>1, <1>2 DEF Rows
<1> QED BY <1>1, <1>2, <1>3 DEF Represents, D

\* A converted polynomial is represented by its rows.
LEMMA ConvertedValue ==
  ASSUME NEW poly \in [Cols -> Int], NEW S \in SUBSET Chain
  PROVE  Represents(Converted(poly, S), S, poly)
<1>1. CASE ~IsConstant(poly)
  BY <1>1, FFTValue DEF Converted
<1>2. CASE IsConstant(poly)
  <2>1. \A h \in Cols : h # 0 => poly[h] = 0
    BY <1>2, Degree DEF IsConstant, Zero
  <2>2. poly[0] \in Int
    BY Degree
  <2> QED BY <1>2, <2>1, <2>2, ConstantValue DEF Converted
<1> QED BY <1>1, <1>2

\* The ratio of the h'th powers of the roots of columns l and j.
Ratio(i, j, l, h) == InvMod(V(i, j, h), Prime[i]) * V(i, l, h)

\* The quotient of the values of X^h at two columns.
LEMMA RatioFacts ==
  ASSUME NEW i \in Chain, NEW j \in Cols, NEW l \in Cols, NEW h \in 0 .. M - 1
  PROVE  /\ Ratio(i, j, l, h) \in Int /\ InvMod(V(i, j, h), Prime[i]) \in Int
         /\ V(i, j, h) \in Int /\ V(i, l, h) \in Int
         /\ Cong(Ratio(i, j, l, h) * V(i, j, h), V(i, l, h), Prime[i])
<1> DEFINE q == Prime[i]
           u == V(i, j, h)
           v == V(i, l, h)
           y == InvMod(u, q)
<1>0. h \in Nat
  BY Degree
<1>1. q \in Nat /\ q > 1 /\ q \in Int /\ u \in Int /\ v \in Int
  BY <1>0, PrimeFacts, ValueFacts
<1>2. Unit(u, q)
  BY ValueUnit
<1> HIDE DEF q, u, v
<1>3. y \in Int /\ Cong(u * y, 1, q) /\ Cong(y * u, 1, q)
  BY <1>1, <1>2, InverseMod
<1> HIDE DEF y
<1>4. y * u \in Int /\ y * v \in Int /\ (y * v) * u = (y * u) * v /\ 1 * v = v
  <2>1. y * v = v * y /\ (v * y) * u = v * (y * u)
    BY <1>1, <1>3, IntRing
  <2>2. y * u \in Int
    BY <1>1, <1>3, IntRing
  <2>3. v * (y * u) = (y * u) * v /\ y * v \in Int /\ 1 * v = v
    BY <1>1, <1>3, <2>2, IntRing
  <2> QED BY ONLY <2>1, <2>2, <2>3
<1>5. Cong((y * u) * v, v, q)
  BY <1>1, <1>3, <1>4, CongOneTimes
<1>6. Cong((y * v) * u, v, q)
  BY <1>4, <1>5
<1>7. Ratio(i, j, l, h) = y * v
  BY DEF Ratio, y, u, v, q
<1> QED BY <1>1, <1>3, <1>4, <1>6, <1>7 DEF y, u, v, q

\* The quotients are the powers of the first of them.
LEMMA RatioStep ==
  ASSUME NEW i \in Chain, NEW j \in Cols, NEW l \in Cols, NEW h \in 0 .. M - 1, NEW k \in 0 .. M - 1,
         k = (h + 1) % M
  PROVE  Cong(Ratio(i, j, l, k), Ratio(i, j, l, 1) * Ratio(i, j, l, h), Prime[i])
<1> DEFINE q == Prime[i]
           u(n) == V(i, j, n)
           v(n) == V(i, l, n)
           c(n) == Ratio(i, j, l, n)
<1>1. 1 \in 0 .. M - 1 /\ h \in Nat /\ h + 1 \in Nat /\ 1 \in Nat /\ k \in Nat
  BY Degree
<1>2. /\ c(h) \in Int /\ c(k) \in Int /\ c(1) \in Int
      /\ u(h) \in Int /\ u(k) \in Int /\ u(1) \in Int
      /\ v(h) \in Int /\ v(k) \in Int /\ v(1) \in Int
      /\ Cong(c(h) * u(h), v(h), q) /\ Cong(c(k) * u(k), v(k), q) /\ Cong(c(1) * u(1), v(1), q)
  BY <1>1, RatioFacts
<1>3. u(k) = V(i, j, h + 1) /\ v(k) = V(i, l, h + 1)
  BY <1>1, ValueFacts
<1>4. Cong(u(k), u(h) * u(1), q) /\ Cong(v(k), v(h) * v(1), q)
  BY <1>1, <1>3, ValuePlus
<1>5. Unit(u(k), q) /\ q \in Int
  BY ValueUnit, PrimeFacts
<1> HIDE DEF q, u, v, c
<1>6. /\ c(1) * c(h) \in Int /\ u(h) * u(1) \in Int /\ v(h) * v(1) \in Int
      /\ c(h) * u(h) \in Int /\ c(1) * u(1) \in Int /\ c(k) * u(k) \in Int
  BY <1>2, IntRing
<1>7. Cong((c(h) * u(h)) * (c(1) * u(1)), v(h) * v(1), q)
  BY <1>2, <1>5, <1>6, CongTimes
<1>8. (c(h) * u(h)) * (c(1) * u(1)) = (c(1) * c(h)) * (u(h) * u(1))
  <2>1. (c(h) * u(h)) * (c(1) * u(1)) = c(h) * (u(h) * (c(1) * u(1)))
    BY <1>2, <1>6, IntRing
  <2>2. u(h) * (c(1) * u(1)) = (c(1) * u(1)) * u(h) /\ (c(1) * u(1)) * u(h) = c(1) * (u(1) * u(h))
        /\ u(1) * u(h) = u(h) * u(1)
    BY <1>2, <1>6, IntRing
  <2>3. c(h) * (c(1) * (u(h) * u(1))) = (c(h) * c(1)) * (u(h) * u(1)) /\ c(h) * c(1) = c(1) * c(h)
    BY <1>2, <1>6, IntRing
  <2> QED BY ONLY <2>1, <2>2, <2>3
<1>9. Cong((c(1) * c(h)) * u(k), (c(1) * c(h)) * (u(h) * u(1)), q) /\ (c(1) * c(h)) * u(k) \in Int
      /\ (c(1) * c(h)) * (u(h) * u(1)) \in Int
  BY <1>2, <1>4, <1>5, <1>6, CongTimesOne, IntRing
<1>10. Cong((c(1) * c(h)) * u(k), v(h) * v(1), q)
  BY <1>5, <1>6, <1>7, <1>8, <1>9, CongTrans
<1>11. Cong(v(h) * v(1), v(k), q)
  BY <1>2, <1>4, <1>5, <1>6, CongSym
<1>12. Cong((c(1) * c(h)) * u(k), v(k), q)
  BY <1>2, <1>5, <1>6, <1>9, <1>10, <1>11, CongTrans
<1>13. Cong(v(k), (c(1) * c(h)) * u(k), q)
  BY <1>2, <1>5, <1>9, <1>12, CongSym
<1>14. Cong(c(k) * u(k), (c(1) * c(h)) * u(k), q)
  BY <1>2, <1>5, <1>6, <1>9, <1>13, CongTrans
<1>15. c(k) * u(k) = u(k) * c(k) /\ (c(1) * c(h)) * u(k) = u(k) * (c(1) * c(h))
  BY <1>2, <1>6, IntRing
<1>16. Cong(c(k), c(1) * c(h), q)
  BY <1>2, <1>5, <1>6, <1>14, <1>15, UnitCancel
<1> QED BY <1>16 DEF c, q

\* The quotients add up to M for a column and itself, and to 0 for two columns.
LEMMA RatioSum ==
  ASSUME NEW i \in Chain, NEW j \in Cols, NEW l \in Cols,
         NEW c, \A h \in 0 .. M - 1 : c[h] = Ratio(i, j, l, h)
  PROVE  /\ SumOver(c, 0 .. M - 1) \in Int
         /\ Cong(SumOver(c, 0 .. M - 1), IF l = j THEN M ELSE 0, Prime[i])
<1> DEFINE H == 0 .. M - 1
           q == Prime[i]
           s == SumOver(c, H)
<1>1. IsFiniteSet(H) /\ Cardinality(H) = M /\ 1 \in H /\ 0 \in H /\ M \in Positive /\ M \in Int /\ M > 2
  BY Degree, FS_Interval
<1>2. \A h \in H : c[h] \in Int
  BY RatioFacts
<1>3. q \in Int /\ q \in Nat /\ q > 1 /\ IsPrime(q)
  BY PrimeFacts
<1>4. s \in Int
  BY <1>1, <1>2, SumType
<1>5. CASE l = j
  <2> DEFINE one == [h \in H |-> 1]
  <2>1. ASSUME NEW h \in H PROVE Cong(c[h], 1, q)
    <3>1. V(i, j, h) \in Int /\ Unit(V(i, j, h), q)
      BY RatioFacts, ValueUnit
    <3>2. Cong(InvMod(V(i, j, h), q) * V(i, j, h), 1, q)
      BY <1>3, <3>1, InverseMod
    <3> QED BY <1>5, <3>2 DEF Ratio
  <2>2. SumOver(one, H) = M
    <3>1. \A h \in H : one[h] = 1
      OBVIOUS
    <3> HIDE DEF one
    <3> QED BY <1>1, <3>1, SumOfOnes
  <2>3. \A h \in H : one[h] = 1
    OBVIOUS
  <2> HIDE DEF one, H
  <2>4. \A h \in H : one[h] \in Int /\ Cong(c[h], one[h], q)
    BY <2>1, <2>3
  <2>5. Cong(s, SumOver(one, H), q)
    BY <1>1, <1>2, <1>3, <2>4, SumCong
  <2> QED BY <1>4, <1>5, <2>2, <2>5 DEF H
<1>6. CASE l # j
  <2> DEFINE next == [h \in H |-> (h + 1) % M]
             d == [h \in H |-> c[next[h]]]
             e == [h \in H |-> c[1] * c[h]]
  <2>1. next \in Bijection(H, H)
    <3>1. \A h \in H : next[h] \in H /\ next[h] = IF h = M - 1 THEN 0 ELSE h + 1
      <4>1. SUFFICES ASSUME NEW h \in 0 .. M - 1
                     PROVE (h + 1) % M \in 0 .. M - 1 /\ (h + 1) % M = IF h = M - 1 THEN 0 ELSE h + 1
        OBVIOUS
      <4>2. M \in Int /\ M > 2
        BY <1>1
      <4> QED BY ONLY <4>1, <4>2
    <3> DEFINE last == M - 1
    <3>2. next \in [H -> H]
      BY <3>1
    <3>3. ASSUME NEW h \in H, NEW k \in H, next[h] = next[k] PROVE h = k
      <4>1. next[h] = (IF h = M - 1 THEN 0 ELSE h + 1) /\ next[k] = (IF k = M - 1 THEN 0 ELSE k + 1)
        BY <3>1
      <4>2. h \in 0 .. M - 1 /\ k \in 0 .. M - 1 /\ M \in Int
        BY <1>1
      <4> QED BY ONLY <3>3, <4>1, <4>2
    <3>4. ASSUME NEW k \in H PROVE \E h \in H : next[h] = k
      <4>1. CASE k = 0
        <5>1. M - 1 \in H
          BY <1>1
        <5>2. next[M - 1] = 0
          BY <3>1, <5>1
        <5> QED BY <4>1, <5>1, <5>2
      <4>2. CASE k # 0
        <5>1. k - 1 \in H /\ k - 1 # M - 1 /\ (k - 1) + 1 = k
          BY <1>1, <4>2
        <5>2. next[k - 1] = k
          BY <3>1, <5>1
        <5> QED BY <5>1, <5>2
      <4> QED BY <4>1, <4>2
    <3> HIDE DEF next, H
    <3> QED BY <3>2, <3>3, <3>4 DEF Bijection, Injection, Surjection, IsInjective
  <2>2. \A h \in H : next[h] \in H /\ next[h] = (h + 1) % M /\ d[h] = c[next[h]] /\ e[h] = c[1] * c[h]
    <3>1. \A h \in H : next[h] = (h + 1) % M /\ d[h] = c[next[h]] /\ e[h] = c[1] * c[h]
      OBVIOUS
    <3>2. \A h \in H : h \in Nat /\ h + 1 \in Int
      BY <1>1
    <3>3. \A h \in H : (h + 1) % M \in H
      BY <1>1, <3>2, DivMod
    <3> QED BY ONLY <3>1, <3>3
  <2> HIDE DEF next, d, e
  <2>3. SumOver(d, H) = s
    <3>1. \A h \in H : d[h] = c[next[h]]
      BY <2>2
    <3>2. IsFiniteSet(H)
      BY <1>1
    <3> HIDE DEF H
    <3> QED BY ONLY <1>2, <2>1, <3>1, <3>2, SumRenamed DEF s
  <2>4. c[1] \in Int
    BY <1>1, <1>2
  <2>5. ASSUME NEW h \in H PROVE d[h] \in Int /\ e[h] \in Int /\ Cong(d[h], e[h], q)
    <3>1. d[h] = c[next[h]] /\ c[next[h]] \in Int /\ e[h] = c[1] * c[h] /\ c[h] \in Int
      BY <1>2, <2>2
    <3>2. Cong(c[next[h]], c[1] * c[h], q)
      BY <1>1, <2>2, RatioStep
    <3> QED BY <2>4, <3>1, <3>2, IntRing
  <2> HIDE DEF q, s
  <2>6. SumOver(e, H) = c[1] * s
    <3>1. \A h \in H : e[h] = c[1] * c[h]
      BY <2>2
    <3> HIDE DEF H
    <3> QED BY <1>1, <1>2, <2>4, <3>1, SumScale DEF s
  <2>7. Cong(SumOver(d, H), SumOver(e, H), q)
    <3> HIDE DEF H
    <3> QED BY <1>1, <1>3, <2>5, SumCong
  <2>8. Cong(s, c[1] * s, q)
    BY <2>3, <2>6, <2>7
  <2>9. Divides(q, (1 - c[1]) * s)
    <3>1. (1 - c[1]) * s = s - c[1] * s
      <4>1. 1 - c[1] \in Int /\ 1 * s = s
        BY <1>4, <2>4
      <4>2. (1 - c[1]) * s = 1 * s - c[1] * s
        BY <1>4, <2>4, IntRing
      <4> QED BY ONLY <4>1, <4>2
    <3> QED BY <2>8, <3>1 DEF Cong
  <2>10. ~ Divides(q, 1 - c[1])
    <3>1. SUFFICES ASSUME Cong(1, c[1], q) PROVE FALSE
      BY DEF Cong
    <3> DEFINE u == V(i, j, 1)
               v == V(i, l, 1)
    <3>2. u \in Int /\ v \in Int /\ c[1] = Ratio(i, j, l, 1) /\ Cong(c[1] * u, v, q)
      BY <1>1, RatioFacts DEF q
    <3> HIDE DEF u, v
    <3>a. c[1] * u \in Int /\ Cong(c[1] * u, u, q)
      BY <1>3, <2>4, <3>1, <3>2, CongOneTimes, IntRing
    <3>3. Cong(u, c[1] * u, q)
      BY <1>3, <3>2, <3>a, CongSym
    <3>4. Cong(u, v, q)
      BY <1>3, <3>2, <3>3, <3>a, CongTrans
    <3>5. j = l
      BY <3>4, ValueDistinct DEF u, v, q
    <3> QED BY <1>6, <3>5
  <2>11. Divides(q, s)
    <3>1. 1 - c[1] \in Int
      BY <2>4
    <3> QED BY <1>3, <1>4, <2>9, <2>10, <3>1, EuclidsLemma
  <2>12. Cong(s, 0, q)
    BY <1>3, <1>4, <2>11, CongZero
  <2> QED BY <1>4, <1>6, <2>12 DEF q, s
<1> QED BY <1>5, <1>6

\* M is a unit modulo the primes of the chain.
LEMMA MIsUnit ==
  ASSUME NEW i \in Chain
  PROVE  /\ Unit(M, Prime[i])
         /\ InvMod(M, Prime[i]) \in Int /\ Cong(InvMod(M, Prime[i]) * M, 1, Prime[i])
<1> DEFINE q == Prime[i]
           k == q \div M
<1>1. q \in Nat /\ q \in Int /\ q > 1 /\ q % M = 1 /\ M \in Positive /\ M \in Int
  BY PrimeFacts, Degree
<1>2. k \in Int /\ q = M * k + 1
  BY <1>1, DivMod
<1> HIDE DEF k, q
<1>3. (-k) * M - 1 = q * (-1)
  <2>1. (-k) * M = -(k * M) /\ k * M = M * k /\ q * (-1) = -(q * 1) /\ q * 1 = q /\ M * k \in Int
    BY <1>1, <1>2, IntRing
  <2> QED BY ONLY <1>2, <2>1
<1>4. Cong((-k) * M, 1, q)
  BY <1>3 DEF Cong, Divides
<1>5. Unit(M, q)
  BY <1>2, <1>4 DEF Unit
<1> QED BY <1>1, <1>5, InverseMod DEF q

\* R is, modulo n, the combination of the polynomials x[k] with the factors f[k]; a[h] are the
\* terms of the coefficient h.
IsCombination(R, D, f, x, a, n) ==
  /\ IsFiniteSet(D) /\ n \in Int /\ R \in [Cols -> Int]
  /\ \A k \in D : f[k] \in Int /\ x[k] \in [Cols -> Int]
  /\ \A h \in Cols : \A k \in D : a[h][k] = f[k] * x[k][h]
  /\ \A h \in Cols : Cong(R[h], SumOver(a[h], D), n)

\* The value of a combination of polynomials.
LEMMA CombinationValue ==
  ASSUME NEW R, NEW D, NEW f, NEW x, NEW a, NEW n, IsCombination(R, D, f, x, a, n),
         NEW i \in Chain, NEW j \in Cols, Divides(Prime[i], n),
         NEW w, \A k \in D : w[k] = f[k] * Ev(x[k], i, j)
  PROVE  SumOver(w, D) \in Int /\ Cong(Ev(R, i, j), SumOver(w, D), Prime[i])
<1> DEFINE q == Prime[i]
           v(k) == V(i, j, k)
           g == [k \in D |-> [h \in Cols |-> f[k] * (x[k][h] * v(h))]]
           t == [h \in Cols |-> [k \in D |-> f[k] * (x[k][h] * v(h))]]
           c == [h \in Cols |-> SumOver(t[h], D)]
           s == [h \in Cols |-> R[h] * v(h)]
<1>0. /\ IsFiniteSet(D) /\ n \in Int /\ R \in [Cols -> Int]
      /\ \A k \in D : f[k] \in Int /\ x[k] \in [Cols -> Int]
      /\ \A h \in Cols : \A k \in D : a[h][k] = f[k] * x[k][h]
      /\ \A h \in Cols : Cong(R[h], SumOver(a[h], D), n)
      /\ Divides(q, n)
  BY DEF IsCombination
<1>1. q \in Int /\ IsFiniteSet(Cols) /\ \A h \in Cols : v(h) \in Int
  BY PrimeFacts, ValueFacts, Degree
<1> HIDE DEF q
<1>2. ASSUME NEW k \in D, NEW h \in Cols
      PROVE  /\ f[k] \in Int /\ x[k][h] \in Int /\ v(h) \in Int /\ x[k][h] * v(h) \in Int
             /\ f[k] * x[k][h] \in Int
             /\ f[k] * (x[k][h] * v(h)) \in Int
             /\ f[k] * (x[k][h] * v(h)) = v(h) * (f[k] * x[k][h])
  <2>1. f[k] \in Int /\ x[k][h] \in Int /\ v(h) \in Int
    BY <1>0, <1>1
  <2> HIDE DEF v
  <2>2. x[k][h] * v(h) \in Int /\ f[k] * x[k][h] \in Int /\ (f[k] * x[k][h]) * v(h) = f[k] * (x[k][h] * v(h))
    BY <2>1, IntRing
  <2>3. (f[k] * x[k][h]) * v(h) = v(h) * (f[k] * x[k][h]) /\ f[k] * (x[k][h] * v(h)) \in Int
    BY <2>1, <2>2, IntRing
  <2> QED BY <2>1, <2>2, <2>3
<1>3. ASSUME NEW k \in D PROVE w[k] = SumOver(g[k], Cols) /\ w[k] \in Int
  <2> DEFINE e == [h \in Cols |-> x[k][h] * v(h)]
  <2>1. \A h \in Cols : e[h] \in Int /\ e[h] = x[k][h] * V(i, j, h) /\ g[k][h] = f[k] * e[h]
    BY <1>2
  <2>2. f[k] \in Int /\ x[k] \in [Cols -> Int] /\ w[k] = f[k] * Ev(x[k], i, j)
    BY <1>0
  <2> HIDE DEF e, g
  <2>3. Ev(x[k], i, j) = SumOver(e, Cols) /\ SumOver(e, Cols) \in Int
    BY <1>1, <2>1, <2>2, SmallPoly, EvIs, SumType
  <2>4. SumOver(g[k], Cols) = f[k] * SumOver(e, Cols)
    BY <1>1, <2>1, <2>2, SumScale
  <2> QED BY <2>2, <2>3, <2>4, IntRing
<1>4. ASSUME NEW h \in Cols PROVE c[h] \in Int /\ s[h] \in Int /\ Cong(s[h], c[h], q)
  <2>1. c[h] = SumOver(t[h], D) /\ s[h] = R[h] * v(h) /\ R[h] \in Int /\ v(h) \in Int
    BY <1>0, <1>1
  <2>2. \A k \in D : t[h][k] = v(h) * a[h][k] /\ a[h][k] \in Int
    <3>1. \A k \in D : t[h][k] = f[k] * (x[k][h] * v(h)) /\ a[h][k] = f[k] * x[k][h]
      BY <1>0
    <3> HIDE DEF t, v
    <3> QED BY <1>2, <3>1
  <2>3. Cong(R[h], SumOver(a[h], D), n)
    BY <1>0
  <2> HIDE DEF t, c, s, v
  <2>4. SumOver(t[h], D) = v(h) * SumOver(a[h], D) /\ SumOver(a[h], D) \in Int
    BY <1>0, <2>1, <2>2, SumScale, SumType
  <2>5. Cong(R[h], SumOver(a[h], D), q)
    BY <1>0, <1>1, <2>1, <2>3, <2>4, CongToDivisor
  <2>6. Cong(R[h] * v(h), SumOver(a[h], D) * v(h), q)
    BY <1>1, <2>1, <2>4, <2>5, CongTimesOne
  <2>7. SumOver(a[h], D) * v(h) = v(h) * SumOver(a[h], D) /\ v(h) * SumOver(a[h], D) \in Int /\ R[h] * v(h) \in Int
    BY <2>1, <2>4, IntRing
  <2> QED BY <2>1, <2>4, <2>6, <2>7
<1>5. \A k \in D : \A h \in Cols : g[k][h] \in Int /\ t[h][k] = g[k][h]
  <2> HIDE DEF v
  <2> QED BY <1>2
<1>6. \A h \in Cols : c[h] = SumOver(t[h], D) /\ s[h] = R[h] * V(i, j, h)
  OBVIOUS
<1> HIDE DEF g, t, c, s
<1>7. IsTable(D, Cols, g, t, w, c)
  BY ONLY <1>0, <1>1, <1>3, <1>5, <1>6 DEF IsTable
<1>8. SumOver(w, D) = SumOver(c, Cols)
  BY ONLY <1>7, SumSwap
<1>9. Ev(R, i, j) = SumOver(s, Cols)
  BY <1>0, <1>6, SmallPoly, EvIs
<1>10. Cong(SumOver(s, Cols), SumOver(c, Cols), q)
  BY <1>1, <1>4, SumCong
<1>11. SumOver(c, Cols) \in Int
  BY <1>1, <1>4, SumType
<1> QED BY <1>8, <1>9, <1>10, <1>11 DEF q

\* The columns of the inverse transform: 1 at their own root, 0 at the others.
LEMMA IFFTColumnValue ==
  ASSUME NEW i \in Chain, NEW j \in Cols
  PROVE  /\ IFFTColumn[i][j] \in [Cols -> Int]
         /\ \A l \in Cols : Cong(Ev(IFFTColumn[i][j], i, l), IF l = j THEN 1 ELSE 0, Prime[i])
<1> DEFINE q == Prime[i]
           W == [h \in 0 .. M - 1 |-> InvMod(RootPower[i][j][h], q)]
           R == Remainder(W, q)
           u == InvMod(M, q)
<1>1. IFFTColumn[i][j] = Scaled(R, u, q)
  BY DEF IFFTColumn
<1>2. q \in Positive /\ q \in Int /\ u \in Int /\ Cong(u * M, 1, q) /\ Divides(Prime[i], q) /\ M \in Int
  BY PrimeFacts, MIsUnit, Degree, DividesBasics
<1>3. \A h \in 0 .. M - 1 : W[h] = InvMod(V(i, j, h), Prime[i])
  BY ValueFacts
<1>4. IsPoly(W) /\ DOMAIN W = 0 .. M - 1
  <2>1. DOMAIN W = 0 .. M - 1
    OBVIOUS
  <2>2. \A h \in 0 .. M - 1 : W[h] \in Int
    BY <1>3, RatioFacts
  <2>3. IsFiniteSet(0 .. M - 1)
    BY Degree, FS_Interval
  <2> HIDE DEF W
  <2> QED BY <2>1, <2>2, <2>3 DEF IsPoly
<1> HIDE DEF W, q, u
<1>5. R \in [Cols -> Int] /\ \A l \in Cols : Cong(Ev(R, i, l), Ev(W, i, l), Prime[i])
  BY <1>2, <1>4, RemainderValue
<1> HIDE DEF R
<1>6. /\ Scaled(R, u, q) \in [Cols -> Int]
      /\ \A l \in Cols : Cong(Ev(Scaled(R, u, q), i, l), u * Ev(R, i, l), Prime[i])
  BY <1>2, <1>5, ScaledValue
<1>7. ASSUME NEW l \in Cols
      PROVE  Cong(Ev(Scaled(R, u, q), i, l), IF l = j THEN 1 ELSE 0, q)
  <2> DEFINE c == [h \in 0 .. M - 1 |-> Ratio(i, j, l, h)]
             s == SumOver(c, 0 .. M - 1)
             m == IF l = j THEN M ELSE 0
             one == IF l = j THEN 1 ELSE 0
             e == Ev(Scaled(R, u, q), i, l)
  <2>1. \A h \in 0 .. M - 1 : c[h] = Ratio(i, j, l, h)
    OBVIOUS
  <2>2. m \in Int /\ one \in Int
    BY <1>2
  <2>3. Cong(u * m, one, q) /\ u * m \in Int
    <3>1. CASE l = j
      BY <1>2, <3>1, IntRing
    <3>2. CASE l # j
      <4>1. u * 0 = 0 /\ Cong(0, 0, q)
        BY <1>2, CongRefl
      <4> QED BY <3>2, <4>1
    <3> QED BY <3>1, <3>2
  <2> HIDE DEF c
  <2>4. s \in Int /\ Cong(s, m, q)
    BY <2>1, RatioSum DEF q
  <2>5. Ev(W, i, l) = s
    <3>1. \A h \in 0 .. M - 1 : c[h] = W[h] * V(i, l, h)
      BY <1>3, <2>1 DEF Ratio
    <3> QED BY <1>4, <3>1, EvIs
  <2>6. Ev(R, i, l) \in Int /\ e \in Int
    BY <1>5, <1>6, SmallPoly, EvType
  <2> HIDE DEF s, m, one, e
  <2>7. Cong(Ev(R, i, l), s, q)
    BY <1>5, <2>5 DEF q
  <2>8. Cong(Ev(R, i, l), m, q)
    BY <1>2, <2>2, <2>4, <2>6, <2>7, CongTrans
  <2>9. Cong(u * Ev(R, i, l), u * m, q) /\ u * Ev(R, i, l) \in Int
    BY <1>2, <2>2, <2>6, <2>8, CongTimesOne, IntRing
  <2>10. Cong(e, u * Ev(R, i, l), q)
    BY <1>6 DEF q, e
  <2>11. Cong(e, u * m, q)
    BY <1>2, <2>3, <2>6, <2>9, <2>10, CongTrans
  <2>12. Cong(e, one, q)
    BY <1>2, <2>2, <2>3, <2>6, <2>11, CongTrans
  <2> QED BY <2>12 DEF e, one
<1> QED BY <1>1, <1>6, <1>7 DEF q

\* The inverse transform has the values it is given.
LEMMA IFFTValue ==
  ASSUME NEW d, NEW i \in Chain, d[i] \in Rows(i)
  PROVE  /\ IFFT(d, i) \in [Cols -> 0 .. Prime[i] - 1] /\ IFFT(d, i) \in [Cols -> Int]
         /\ \A l \in Cols : d[i][l] \in Int /\ Cong(Ev(IFFT(d, i), i, l), d[i][l], Prime[i])
<1> DEFINE q == Prime[i]
           y == d[i]
           x == [j \in Cols |-> IFFTColumn[i][j]]
           e(h) == [j \in Cols |-> (d[i][j] * IFFTColumn[i][j][h]) % Prime[i]]
           a == [h \in Cols |-> [j \in Cols |-> y[j] * x[j][h]]]
           R == IFFT(d, i)
<1>1. q \in Positive /\ q \in Int /\ IsFiniteSet(Cols) /\ Divides(Prime[i], q)
  BY PrimeFacts, Degree, DividesBasics
<1>2. \A j \in Cols : y[j] \in Int /\ y[j] \in 0 .. q - 1
  <2>1. y \in [Cols -> 0 .. q - 1]
    BY DEF Rows
  <2> QED BY <1>1, <2>1
<1>3. \A j \in Cols : x[j] \in [Cols -> Int] /\ x[j] = IFFTColumn[i][j]
  BY IFFTColumnValue
<1>4. R = [h \in Cols |-> SumFunction(e(h)) % q]
  BY Zenon DEF IFFT
<1>5. ASSUME NEW h \in Cols
      PROVE  /\ SumFunction(e(h)) % q \in 0 .. q - 1 /\ SumFunction(e(h)) % q \in Int
             /\ Cong(SumFunction(e(h)) % q, SumOver(a[h], Cols), q)
             /\ \A j \in Cols : a[h][j] = y[j] * x[j][h]
  <2>1. \A j \in Cols : a[h][j] = y[j] * x[j][h] /\ e(h)[j] = a[h][j] % q
    OBVIOUS
  <2>2. DOMAIN e(h) = Cols
    OBVIOUS
  <2> HIDE DEF e, a, x, y, q
  <2>3. \A j \in Cols : a[h][j] \in Int
    BY <1>2, <1>3, <2>1, IntRing
  <2>4. SumFunction(e(h)) = SumOver(e(h), Cols)
    BY <2>2, SumFn
  <2>5. /\ SumOver(e(h), Cols) % q \in 0 .. q - 1 /\ SumOver(e(h), Cols) % q \in Int
        /\ Cong(SumOver(e(h), Cols) % q, SumOver(a[h], Cols), q)
    BY <1>1, <2>1, <2>3, SumReduced
  <2> QED BY <2>1, <2>4, <2>5
<1> HIDE DEF e, a, x, y, q, R
<1>6. R \in [Cols -> 0 .. q - 1] /\ R \in [Cols -> Int] /\ \A h \in Cols : Cong(R[h], SumOver(a[h], Cols), q)
  BY <1>4, <1>5
<1>7. IsCombination(R, Cols, y, x, a, q)
  BY <1>1, <1>2, <1>3, <1>5, <1>6 DEF IsCombination
<1>8. ASSUME NEW l \in Cols PROVE Cong(Ev(R, i, l), y[l], q)
  <2> DEFINE w == [j \in Cols |-> y[j] * Ev(x[j], i, l)]
             z == [j \in Cols |-> IF j = l THEN y[l] ELSE 0]
  <2>1. \A j \in Cols : w[j] = y[j] * Ev(x[j], i, l)
    OBVIOUS
  <2>2. \A j \in Cols : z[j] = (IF j = l THEN y[l] ELSE 0) /\ z[j] \in Int
    BY <1>2
  <2> HIDE DEF w, z
  <2>3. SumOver(w, Cols) \in Int /\ Cong(Ev(R, i, l), SumOver(w, Cols), q)
    BY <1>1, <1>7, <2>1, CombinationValue DEF q
  <2>4. ASSUME NEW j \in Cols PROVE w[j] \in Int /\ Cong(w[j], z[j], q)
    <3> DEFINE b == Ev(x[j], i, l)
               one == IF l = j THEN 1 ELSE 0
    <3>1. Cong(b, one, q)
      BY <1>3, IFFTColumnValue DEF q
    <3>2. b \in Int /\ one \in Int
      BY <1>3, SmallPoly, EvType
    <3>3. y[j] * one = z[j]
      <4>1. y[j] \in Int
        BY <1>2
      <4> QED BY <2>2, <4>1
    <3> HIDE DEF b, one
    <3>4. Cong(y[j] * b, y[j] * one, q) /\ y[j] * b \in Int
      BY <1>1, <1>2, <3>1, <3>2, CongTimesOne, IntRing
    <3> QED BY <2>1, <3>3, <3>4 DEF b
  <2>5. Cong(SumOver(w, Cols), SumOver(z, Cols), q)
    BY <1>1, <2>2, <2>4, SumCong
  <2>6. SumOver(z, Cols) = z[l]
    BY <1>1, <2>2, SumOfOne
  <2>7. z[l] = y[l] /\ y[l] \in Int
    BY <1>2, <2>2
  <2>8. Ev(R, i, l) \in Int
    BY <1>6, SmallPoly, EvType
  <2> QED BY <1>1, <2>3, <2>5, <2>6, <2>7, <2>8, CongTrans
<1> QED BY <1>2, <1>6, <1>8 DEF R, y, q

\* There are finitely many rows: a row is a set of pairs.
LEMMA RowsFinite ==
  ASSUME NEW i \in Chain
  PROVE  IsFiniteSet(Rows(i))
<1> DEFINE Q == 0 .. Prime[i] - 1
           X == [Cols -> Q]
           Y == SUBSET (Cols \X Q)
           graph == [f \in X |-> {<<h, f[h]>> : h \in Cols}]
<1>1. IsFiniteSet(Y)
  <2>1. IsFiniteSet(Q) /\ IsFiniteSet(Cols)
    <3>1. Prime[i] - 1 \in Int /\ 0 \in Int
      BY PrimeFacts
    <3> QED BY <3>1, Degree, FS_Interval
  <2> HIDE DEF Q
  <2> QED BY <2>1, FS_Product, FS_SUBSET
<1> HIDE DEF Q
<1>2. graph \in [X -> Y]
  OBVIOUS
<1>3. ASSUME NEW f \in X, NEW g \in X, graph[f] = graph[g] PROVE f = g
  <2>1. ASSUME NEW h \in Cols PROVE f[h] = g[h]
    <3>1. <<h, f[h]>> \in graph[g]
      BY <1>3
    <3>2. PICK k \in Cols : <<h, f[h]>> = <<k, g[k]>>
      BY <3>1
    <3> QED BY <3>2
  <2> QED BY <2>1
<1> HIDE DEF graph, X, Y
<1>4. graph \in Injection(X, Y)
  BY <1>2, <1>3 DEF Injection, IsInjective
<1>5. IsFiniteSet(X)
  BY <1>1, <1>4, FS_Injection
<1> QED BY <1>5 DEF X, Q, Rows

\* Entries that are congruent are equal, since the entries of a row are reduced.
LEMMA RowFacts ==
  ASSUME NEW i \in Chain, NEW r \in Rows(i), NEW s \in Rows(i),
         \A l \in Cols : Cong(r[l], s[l], Prime[i])
  PROVE  r = s
<1>1. Prime[i] \in Positive
  BY PrimeFacts
<1>2. r \in [Cols -> 0 .. Prime[i] - 1] /\ s \in [Cols -> 0 .. Prime[i] - 1]
  BY DEF Rows
<1>3. \A l \in Cols : r[l] = s[l]
  <2>1. SUFFICES ASSUME NEW l \in Cols PROVE r[l] = s[l]
    OBVIOUS
  <2>2. r[l] \in 0 .. Prime[i] - 1 /\ s[l] \in 0 .. Prime[i] - 1
    BY <1>2
  <2> QED BY <1>1, <2>2, CongUnique
<1> QED BY <1>2, <1>3

\* A polynomial modulo a prime is determined by its values.
LEMMA ValuesDetermine ==
  ASSUME NEW i \in Chain, NEW f \in [Cols -> Int], NEW g \in [Cols -> Int],
         \A j \in Cols : Cong(Ev(f, i, j), Ev(g, i, j), Prime[i])
  PROVE  \A h \in Cols : Cong(f[h], g[h], Prime[i])
<1> DEFINE q == Prime[i]
           X == Rows(i)
           one(r) == [k \in {i} |-> r]
           T == [r \in X |-> IFFT(one(r), i)]
           F == [h \in Cols |-> f[h] % q]
           G == [h \in Cols |-> g[h] % q]
<1>1. q \in Positive /\ q \in Int /\ Divides(Prime[i], q)
  BY PrimeFacts, DividesBasics
<1>2. ASSUME NEW r \in X
      PROVE  /\ T[r] \in X /\ T[r] \in [Cols -> Int]
             /\ \A l \in Cols : r[l] \in Int /\ Cong(Ev(T[r], i, l), r[l], q)
  <2>1. one(r)[i] = r
    OBVIOUS
  <2>2. T[r] = IFFT(one(r), i)
    OBVIOUS
  <2> HIDE DEF one, T
  <2> QED BY <2>1, <2>2, IFFTValue DEF Rows
<1>3. T \in Injection(X, X)
  <2>1. T \in [X -> X]
    BY <1>2
  <2>2. ASSUME NEW r \in X, NEW s \in X, T[r] = T[s] PROVE r = s
    <3>1. ASSUME NEW l \in Cols PROVE Cong(r[l], s[l], q)
      <4> DEFINE e == Ev(T[r], i, l)
      <4>1. e \in Int /\ r[l] \in Int /\ s[l] \in Int /\ Cong(e, r[l], q) /\ Cong(e, s[l], q)
        <5> HIDE DEF T
        <5> QED BY <1>2, <2>2, SmallPoly, EvType
      <4> HIDE DEF e, q
      <4> QED BY <1>1, <4>1, CongSym, CongTrans
    <3> QED BY <3>1, RowFacts
  <2> HIDE DEF T, X
  <2> QED BY <2>1, <2>2 DEF Injection, IsInjective
<1>4. T \in Surjection(X, X)
  <2> HIDE DEF T
  <2> QED BY <1>3, RowsFinite, FS_Injection
<1>5. F \in X /\ G \in X /\ F \in [Cols -> Int] /\ G \in [Cols -> Int]
      /\ \A j \in Cols : /\ Cong(Ev(F, i, j), Ev(f, i, j), q)
                         /\ Cong(Ev(G, i, j), Ev(g, i, j), q)
  <2>1. F = [h \in Cols |-> f[h] % q] /\ G = [h \in Cols |-> g[h] % q]
    OBVIOUS
  <2> HIDE DEF F, G
  <2> QED BY <1>1, <2>1, ReducedValue DEF Rows
<1>6. PICK r \in X : T[r] = F
  <2> HIDE DEF T, F, X
  <2> QED BY <1>4, <1>5 DEF Surjection
<1>7. PICK s \in X : T[s] = G
  <2> HIDE DEF T, G, X
  <2> QED BY <1>4, <1>5 DEF Surjection
<1>8. r = s
  <2>1. ASSUME NEW l \in Cols PROVE Cong(r[l], s[l], q)
    <3> DEFINE a == Ev(F, i, l)
               b == Ev(G, i, l)
               c == Ev(f, i, l)
               d == Ev(g, i, l)
    <3>1. a \in Int /\ b \in Int /\ c \in Int /\ d \in Int
      BY <1>5, SmallPoly, EvType
    <3>2. r[l] \in Int /\ s[l] \in Int /\ Cong(a, r[l], q) /\ Cong(b, s[l], q)
      <4> HIDE DEF T
      <4> QED BY <1>2, <1>6, <1>7
    <3>3. Cong(a, c, q) /\ Cong(b, d, q) /\ Cong(c, d, q)
      BY <1>5
    <3> HIDE DEF a, b, c, d, q
    <3>4. Cong(r[l], a, q) /\ Cong(a, d, q) /\ Cong(d, b, q)
      BY <1>1, <3>1, <3>2, <3>3, CongSym, CongTrans
    <3>5. Cong(r[l], d, q)
      BY <1>1, <3>1, <3>2, <3>4, CongTrans
    <3>6. Cong(r[l], b, q)
      BY <1>1, <3>1, <3>2, <3>4, <3>5, CongTrans
    <3> QED BY <1>1, <3>1, <3>2, <3>6, CongTrans
  <2> QED BY <2>1, RowFacts
<1>9. F = G
  BY <1>6, <1>7, <1>8
<1>10. ASSUME NEW h \in Cols PROVE Cong(f[h], g[h], q)
  <2>1. f[h] \in Int /\ g[h] \in Int /\ F[h] = f[h] % q /\ G[h] = g[h] % q
    OBVIOUS
  <2>2. f[h] % q = g[h] % q
    BY <1>9, <2>1
  <2> HIDE DEF q
  <2> QED BY <1>1, <2>1, <2>2, CongIffMod
<1> QED BY <1>10

-----------------------------------------------------------------------------
(* Chinese remainders. *)

\* The balanced remainder is congruent and small.
LEMMA BalancedFacts ==
  ASSUME NEW x \in Int, NEW n \in Positive, n % 2 = 1
  PROVE  Balanced(x, n) \in Int /\ Cong(Balanced(x, n), x, n) /\ Small(Balanced(x, n), n)
<1> DEFINE r == x % n
<1>1. r \in 0 .. n - 1 /\ r \in Int /\ n \in Int /\ Cong(r, x, n)
  BY ModFacts
<1>2. Balanced(x, n) = IF r >= (n + 1) \div 2 THEN r - n ELSE r
  BY DEF Balanced
<1> HIDE DEF r
<1>3. Cong(r - n, x, n)
  <2>1. Cong(n, 0, n)
    BY <1>1, DividesBasics, CongZero
  <2>2. Cong(r - n, x - 0, n)
    <3> DEFINE z == 0
    <3>1. z \in Int /\ Cong(n, z, n)
      BY <2>1
    <3> HIDE DEF z
    <3>2. Cong(r - n, x - z, n)
      BY <1>1, <3>1, CongPlus
    <3> QED BY <3>2 DEF z
  <2> QED BY <2>2
<1>4. 2 * ((n + 1) \div 2) = n + 1
  BY <1>1
<1> QED BY <1>1, <1>2, <1>3, <1>4 DEF Small

\* What a prime contributes: 0 modulo the others, c modulo the prime.
LEMMA ChineseTerm ==
  ASSUME NEW S \in SUBSET Chain, NEW i \in S, NEW c \in Int, NEW P, NEW t,
         P = ProductOf(S) \div Prime[i],
         t = P * ((c * InvMod(P % Prime[i], Prime[i])) % Prime[i])
  PROVE  /\ t \in Int /\ Cong(t, c, Prime[i])
         /\ \A k \in S : k # i => Cong(t, 0, Prime[k])
<1> DEFINE p == Prime[i]
           T == S \ {i}
           r == P % p
           u == InvMod(r, p)
           w == (c * u) % p
<1>1. p \in Positive /\ p \in Nat /\ p \in Int /\ p > 1
  BY PrimeFacts
<1>2. P = ProductOf(T) /\ P \in Int /\ P \in Nat
  <2>1. T \in SUBSET Chain /\ i \in Chain /\ i \notin T /\ S = T \cup {i}
    OBVIOUS
  <2> HIDE DEF T
  <2>2. ProductOf(S) = p * ProductOf(T) /\ ProductOf(T) \in Int /\ ProductOf(T) \in Nat
    BY <2>1, ProductOfMore, ProductPositive
  <2>3. (p * ProductOf(T)) \div p = ProductOf(T)
    <3> DEFINE x == ProductOf(T)
               y == (p * x) \div p
               z == (p * x) % p
    <3>1. p * x \in Int
      BY <1>1, <2>2, IntRing
    <3>2. y \in Int /\ z \in 0 .. p - 1 /\ p * x = p * y + z
      BY <1>1, <3>1, DivMod
    <3>3. z = 0
      BY <1>1, <2>2, <3>1, DividesBasics, DividesMod
    <3> HIDE DEF x, y, z
    <3>4. p * (x - y) = 0
      <4>1. p * (x - y) = p * x - p * y
        BY <1>1, <2>2, <3>2, IntRing DEF x
      <4>2. p * y \in Int
        BY <1>1, <3>2, IntRing
      <4> QED BY ONLY <3>1, <3>2, <3>3, <4>1, <4>2
    <3>5. x - y = 0
      <4>1. x - y \in Int
        BY <2>2, <3>2 DEF x
      <4> HIDE DEF p
      <4> QED BY ONLY <1>1, <3>4, <4>1
    <3>6. x = y
      BY <2>2, <3>2, <3>5 DEF x
    <3> QED BY <3>6 DEF x, y
  <2> QED BY <2>2, <2>3
<1>3. Unit(P, p)
  BY <1>2, ProductUnit
<1> HIDE DEF p, T
<1>4. r \in Int /\ Cong(P, r, p) /\ Cong(r, P, p)
  BY <1>1, <1>2, ModFacts
<1> HIDE DEF r
<1>5. Unit(r, p)
  BY <1>1, <1>2, <1>3, <1>4, UnitCong
<1>6. u \in Int /\ Cong(r * u, 1, p)
  BY <1>1, <1>4, <1>5, InverseMod
<1> HIDE DEF u
<1>7. c * u \in Int /\ w \in Int /\ Cong(w, c * u, p)
  BY <1>1, <1>6, IntRing, ModFacts
<1> HIDE DEF w
<1>8. t = P * w
  BY DEF p, r, u, w
<1>9. t \in Int
  BY <1>2, <1>7, <1>8, IntRing
<1>10. Cong(t, c, p)
  <2>1. Cong(P * w, P * (c * u), p) /\ P * w \in Int /\ P * (c * u) \in Int
    BY <1>1, <1>2, <1>7, CongTimesOne, IntRing
  <2>2. P * (c * u) = (P * u) * c /\ P * u \in Int /\ r * u \in Int
    <3>1. c * u = u * c /\ (P * u) * c = P * (u * c) /\ P * u \in Int /\ r * u \in Int
      BY <1>2, <1>4, <1>6, IntRing
    <3> QED BY ONLY <3>1
  <2>3. Cong(P * u, r * u, p)
    BY <1>1, <1>2, <1>4, <1>6, CongTimesOne
  <2>4. Cong(P * u, 1, p)
    <3> DEFINE one == 1
    <3>1. one \in Int /\ Cong(r * u, one, p)
      BY <1>6
    <3> HIDE DEF one
    <3>2. Cong(P * u, one, p)
      BY <1>1, <2>2, <2>3, <3>1, CongTrans
    <3> QED BY <3>2 DEF one
  <2>5. Cong((P * u) * c, c, p)
    BY <1>1, <2>2, <2>4, CongOneTimes
  <2>6. Cong(P * (c * u), c, p)
    BY <2>2, <2>5
  <2> QED BY <1>1, <1>8, <2>1, <2>6, CongTrans
<1>11. ASSUME NEW k \in S, k # i PROVE Cong(t, 0, Prime[k])
  <2>1. Divides(Prime[k], P) /\ Prime[k] \in Int
    BY <1>2, <1>11, PrimeDividesProduct, PrimeFacts DEF T
  <2>2. Divides(Prime[k], t)
    BY <1>2, <1>7, <1>8, <2>1, DividesTimes
  <2> QED BY <1>9, <2>1, <2>2, CongZero
<1> QED BY <1>9, <1>10, <1>11 DEF p

\* The combination of the rows has their values.
LEMMA ChineseRemainderValue ==
  ASSUME NEW S \in SUBSET Chain, NEW poly, \A i \in S : poly[i] \in [Cols -> Int]
  PROVE  /\ ChineseRemainder(poly, S) \in [Cols -> Int]
         /\ \A h \in Cols : Small(ChineseRemainder(poly, S)[h], ProductOf(S))
         /\ \A i \in S, h \in Cols : Cong(ChineseRemainder(poly, S)[h], poly[i][h], Prime[i])
<1> DEFINE prod == ProductOf(S)
           Term(i, c) == LET prod1 == prod \div Prime[i]
                    IN prod1 * ((c * InvMod(prod1 % Prime[i], Prime[i])) % Prime[i])
           t(h) == [i \in S |-> Term(i, poly[i][h])]
           C == ChineseRemainder(poly, S)
<1>1. C = [h \in Cols |-> Balanced(SumFunction(t(h)), prod)]
  BY Zenon DEF ChineseRemainder
<1>2. prod \in Positive /\ prod % 2 = 1 /\ prod \in Int /\ IsFiniteSet(S)
  BY ProductPositive, ChainSubset
<1>3. ASSUME NEW h \in Cols, NEW i \in S
      PROVE  /\ t(h)[i] \in Int /\ poly[i][h] \in Int /\ Cong(t(h)[i], poly[i][h], Prime[i])
             /\ \A k \in S : k # i => Cong(t(h)[i], 0, Prime[k])
  <2>1. poly[i][h] \in Int
    OBVIOUS
  <2>2. t(h)[i] = (prod \div Prime[i]) * ((poly[i][h] * InvMod((prod \div Prime[i]) % Prime[i], Prime[i])) % Prime[i])
    OBVIOUS
  <2> DEFINE P == prod \div Prime[i]
             x == t(h)[i]
  <2>3. P = ProductOf(S) \div Prime[i] /\ x = P * ((poly[i][h] * InvMod(P % Prime[i], Prime[i])) % Prime[i])
    BY <2>2
  <2> HIDE DEF P, x
  <2>4. /\ x \in Int /\ Cong(x, poly[i][h], Prime[i])
        /\ \A k \in S : k # i => Cong(x, 0, Prime[k])
    BY <2>1, <2>3, ChineseTerm
  <2> QED BY <2>1, <2>4 DEF x
<1>4. \A h \in Cols : DOMAIN t(h) = S
  OBVIOUS
<1> HIDE DEF t, prod
<1>5. ASSUME NEW h \in Cols
      PROVE  /\ SumOver(t(h), S) \in Int /\ SumFunction(t(h)) = SumOver(t(h), S)
             /\ \A i \in S : Cong(SumOver(t(h), S), poly[i][h], Prime[i])
  <2>1. SumOver(t(h), S) \in Int
    BY <1>2, <1>3, SumType
  <2>2. SumFunction(t(h)) = SumOver(t(h), S)
    BY <1>4, SumFn
  <2>3. ASSUME NEW i \in S PROVE Cong(SumOver(t(h), S), poly[i][h], Prime[i])
    <3> DEFINE z == [k \in S |-> IF k = i THEN t(h)[i] ELSE 0]
    <3>1. \A k \in S : z[k] = (IF k = i THEN t(h)[i] ELSE 0) /\ z[k] \in Int
      BY <1>3
    <3> HIDE DEF z
    <3>2. Prime[i] \in Int /\ t(h)[i] \in Int /\ poly[i][h] \in Int /\ Cong(t(h)[i], poly[i][h], Prime[i])
      BY <1>3, PrimeFacts
    <3>3. ASSUME NEW k \in S PROVE Cong(t(h)[k], z[k], Prime[i])
      <4>1. CASE k = i
        BY <3>1, <3>2, <4>1, CongRefl
      <4>2. CASE k # i
        BY <1>3, <3>1, <4>2
      <4> QED BY <4>1, <4>2
    <3>4. Cong(SumOver(t(h), S), SumOver(z, S), Prime[i])
      BY <1>2, <1>3, <3>1, <3>2, <3>3, SumCong
    <3>5. SumOver(z, S) = z[i] /\ z[i] = t(h)[i]
      BY <1>2, <3>1, SumOfOne
    <3> QED BY <2>1, <3>2, <3>4, <3>5, CongTrans
  <2> QED BY <2>1, <2>2, <2>3
<1>6. ASSUME NEW h \in Cols
      PROVE  /\ C[h] \in Int /\ Small(C[h], prod)
             /\ \A i \in S : Cong(C[h], poly[i][h], Prime[i])
  <2> DEFINE s == SumOver(t(h), S)
  <2>1. s \in Int
    BY <1>5
  <2>2. C[h] = Balanced(s, prod)
    BY <1>1, <1>5
  <2>3. C[h] \in Int /\ Small(C[h], prod) /\ Cong(C[h], s, prod)
    <3> HIDE DEF s, C
    <3> QED BY <1>2, <2>1, <2>2, BalancedFacts
  <2>4. ASSUME NEW i \in S PROVE Cong(C[h], poly[i][h], Prime[i])
    <3>1. Prime[i] \in Int /\ Divides(Prime[i], prod) /\ poly[i][h] \in Int
      BY <1>3, PrimeFacts, PrimeDividesProduct DEF prod
    <3>2. Cong(s, poly[i][h], Prime[i])
      BY <1>5
    <3> HIDE DEF s, C
    <3>3. Cong(C[h], s, Prime[i])
      BY <1>2, <2>1, <2>3, <3>1, CongToDivisor
    <3> QED BY <2>1, <2>3, <3>1, <3>2, <3>3, CongTrans
  <2> QED BY <2>3, <2>4
<1> HIDE DEF C
<1>7. C = [h \in Cols |-> C[h]]
  BY <1>1
<1>8. C \in [Cols -> Int]
  BY <1>6, <1>7
<1> QED BY <1>6, <1>8 DEF C, prod

-----------------------------------------------------------------------------
(* Elements and the polynomials they represent. *)

\* Rows of primes of the chain, and nothing else.
Element(d) == IsElement(d) /\ d = [i \in DOMAIN d |-> d[i]]

\* Polynomials with the same values are the same modulo the product of the primes.
LEMMA SameValues ==
  ASSUME NEW S \in SUBSET Chain, NEW f \in [Cols -> Int], NEW g \in [Cols -> Int],
         \A i \in S, j \in Cols : Cong(Ev(f, i, j), Ev(g, i, j), Prime[i])
  PROVE  \A h \in Cols : Cong(f[h], g[h], ProductOf(S))
<1>1. \A i \in S : \A h \in Cols : Cong(f[h], g[h], Prime[i])
  BY ValuesDetermine
<1> QED BY <1>1, CongProduct

\* The entries of an element are reduced.
LEMMA ElementRow ==
  ASSUME NEW d, IsElement(d), NEW i \in DOMAIN d
  PROVE  i \in Chain /\ d[i] \in Rows(i) /\ \A j \in Cols : d[i][j] \in Int /\ d[i][j] \in 0 .. Prime[i] - 1
<1>1. i \in Chain /\ d[i] \in [Cols -> 0 .. Prime[i] - 1]
  BY DEF IsElement, Rows
<1>2. Prime[i] \in Int
  BY <1>1, PrimeFacts
<1> QED BY <1>1, <1>2 DEF Rows

\* toPoly: the small polynomial with the values that the rows in T say.
LEMMA ToPolyValue ==
  ASSUME NEW d, IsElement(d), NEW T
  PROVE  /\ ToPoly(d, T) \in [Cols -> Int]
         /\ \A h \in Cols : Small(ToPoly(d, T)[h], ProductOf(DOMAIN d \cap T))
         /\ \A i \in DOMAIN d \cap T, j \in Cols :
              Cong(Ev(ToPoly(d, T), i, j), d[i][j], Prime[i])
<1> DEFINE S == DOMAIN d \cap T
<1>1. S \in SUBSET Chain
  BY DEF IsElement
<1>2. CASE S = {}
  <2>1. ToPoly(d, T) = Zero
    BY <1>2 DEF ToPoly
  <2>2. Zero \in [Cols -> Int] /\ \A h \in Cols : Zero[h] = 0
    BY DEF Zero
  <2>3. Small(0, 1)
    BY DEF Small
  <2> QED BY <1>2, <2>1, <2>2, <2>3, ProductOfNone
<1>3. CASE S # {}
  <2> DEFINE poly == [i \in S |-> IFFT(d, i)]
             X == ChineseRemainder(poly, S)
  <2>1. ToPoly(d, T) = X
    BY <1>3 DEF ToPoly
  <2>2. ASSUME NEW i \in S
        PROVE  /\ poly[i] \in [Cols -> Int] /\ i \in Chain
               /\ \A l \in Cols : d[i][l] \in Int /\ Cong(Ev(poly[i], i, l), d[i][l], Prime[i])
    <3>1. poly[i] = IFFT(d, i) /\ i \in Chain /\ d[i] \in Rows(i)
      BY <1>1, ElementRow
    <3> HIDE DEF poly
    <3> QED BY <3>1, IFFTValue
  <2> HIDE DEF poly, S
  <2>3. /\ X \in [Cols -> Int]
        /\ \A h \in Cols : Small(X[h], ProductOf(S))
        /\ \A i \in S, h \in Cols : Cong(X[h], poly[i][h], Prime[i])
    BY <1>1, <2>2, ChineseRemainderValue
  <2> HIDE DEF X
  <2>4. ASSUME NEW i \in S, NEW j \in Cols PROVE Cong(Ev(X, i, j), d[i][j], Prime[i])
    <3>1. i \in Chain /\ Prime[i] \in Int /\ Divides(Prime[i], Prime[i])
      BY <2>2, PrimeFacts, DividesBasics
    <3>2. Cong(Ev(X, i, j), Ev(poly[i], i, j), Prime[i])
      BY <2>2, <2>3, <3>1, EvCong
    <3>3. Ev(X, i, j) \in Int /\ Ev(poly[i], i, j) \in Int
      BY <2>2, <2>3, <3>1, SmallPoly, EvType
    <3> QED BY <2>2, <3>1, <3>2, <3>3, CongTrans
  <2> QED BY <2>1, <2>3, <2>4 DEF S
<1> QED BY <1>2, <1>3

\* It is the only one.
LEMMA ToPolyIs ==
  ASSUME NEW d, IsElement(d), NEW T, NEW f \in [Cols -> Int],
         \A h \in Cols : Small(f[h], ProductOf(DOMAIN d \cap T)),
         \A i \in DOMAIN d \cap T, j \in Cols : Cong(Ev(f, i, j), d[i][j], Prime[i])
  PROVE  ToPoly(d, T) = f
<1> DEFINE S == DOMAIN d \cap T
           X == ToPoly(d, T)
<1>1. S \in SUBSET Chain
  BY DEF IsElement
<1>2. X \in [Cols -> Int] /\ \A h \in Cols : Small(X[h], ProductOf(S))
  BY ToPolyValue
<1>3. ASSUME NEW i \in S, NEW j \in Cols PROVE Cong(Ev(X, i, j), Ev(f, i, j), Prime[i])
  <2>1. Cong(Ev(X, i, j), d[i][j], Prime[i]) /\ Cong(Ev(f, i, j), d[i][j], Prime[i])
    BY ToPolyValue
  <2>2. d[i][j] \in Int /\ Prime[i] \in Int /\ Ev(X, i, j) \in Int /\ Ev(f, i, j) \in Int
    BY <1>1, <1>2, ElementRow, PrimeFacts, SmallPoly, EvType
  <2> HIDE DEF X
  <2> QED BY <2>1, <2>2, CongSym, CongTrans
<1> HIDE DEF X, S
<1>4. \A h \in Cols : Cong(X[h], f[h], ProductOf(S))
  BY <1>1, <1>2, <1>3, SameValues
<1>5. ProductOf(S) \in Positive
  BY <1>1, ProductPositive
<1>6. \A h \in Cols : Small(f[h], ProductOf(S))
  BY DEF S
<1>7. \A h \in Cols : X[h] = f[h]
  BY <1>2, <1>4, <1>5, <1>6, SmallUnique
<1>8. X = f
  BY <1>2, <1>7
<1> QED BY <1>8 DEF X

\* What represents a polynomial over S is an element over S.
LEMMA RepresentedElement ==
  ASSUME NEW S \in SUBSET Chain, NEW d, NEW f, Represents(d, S, f)
  PROVE  DOMAIN d = S /\ Element(d)
<1>1. DOMAIN d = S
  BY DEF Represents
<1> QED BY <1>1 DEF Represents, Element, IsElement

\* Rows determine the polynomial modulo the product of their primes.
LEMMA RepresentedModulo ==
  ASSUME NEW S \in SUBSET Chain, NEW d, NEW f \in [Cols -> Int], Represents(d, S, f)
  PROVE  PolyModulo(d) = Mod(f, ProductOf(S))
<1> DEFINE X == ToPoly(d, DOMAIN d)
           n == ProductOf(S)
<1>1. DOMAIN d = S /\ IsElement(d) /\ DOMAIN d \cap DOMAIN d = S
  BY RepresentedElement DEF Element
<1>2. X \in [Cols -> Int] /\ \A i \in S, j \in Cols : Cong(Ev(X, i, j), d[i][j], Prime[i])
  BY <1>1, ToPolyValue
<1>3. ASSUME NEW i \in S, NEW j \in Cols PROVE Cong(Ev(X, i, j), Ev(f, i, j), Prime[i])
  <2>1. Cong(Ev(X, i, j), d[i][j], Prime[i]) /\ Cong(d[i][j], Ev(f, i, j), Prime[i]) /\ d[i][j] \in Int
    BY <1>2 DEF Represents
  <2>2. Prime[i] \in Int /\ Ev(X, i, j) \in Int /\ Ev(f, i, j) \in Int
    BY <1>2, PrimeFacts, SmallPoly, EvType
  <2> HIDE DEF X
  <2> QED BY <2>1, <2>2, CongTrans
<1>4. n \in Positive
  BY ProductPositive
<1>5. PolyModulo(d) = [h \in Cols |-> X[h] % n] /\ Mod(f, n) = [h \in Cols |-> f[h] % n]
  BY <1>1 DEF PolyModulo, Mod
<1> HIDE DEF X
<1>6. \A h \in Cols : Cong(X[h], f[h], n)
  BY <1>2, <1>3, SameValues
<1> HIDE DEF n
<1>7. \A h \in Cols : X[h] % n = f[h] % n
  BY <1>2, <1>4, <1>6, CongIffMod
<1> QED BY <1>5, <1>7 DEF n

\* Every element represents its lift and its polynomial.
LEMMA ElementRepresents ==
  ASSUME NEW d, Element(d)
  PROVE  /\ DOMAIN d \in SUBSET Chain
         /\ ToPoly(d, DOMAIN d) \in [Cols -> Int] /\ Represents(d, DOMAIN d, ToPoly(d, DOMAIN d))
         /\ PolyModulo(d) \in [Cols -> 0 .. ProductOf(DOMAIN d) - 1]
         /\ PolyModulo(d) \in [Cols -> Int] /\ Represents(d, DOMAIN d, PolyModulo(d))
         /\ ToPoly(d, DOMAIN d) = [h \in Cols |-> Balanced(PolyModulo(d)[h], ProductOf(DOMAIN d))]
<1> DEFINE S == DOMAIN d
           X == ToPoly(d, DOMAIN d)
           Y == PolyModulo(d)
           n == ProductOf(S)
           L == [h \in Cols |-> Balanced(Y[h], n)]
<1>1. S \in SUBSET Chain /\ IsElement(d) /\ d = [i \in S |-> d[i]] /\ S = DOMAIN d \cap DOMAIN d
  BY DEF Element, IsElement
<1>2. /\ X \in [Cols -> Int] /\ \A i \in S, j \in Cols : Cong(Ev(X, i, j), d[i][j], Prime[i])
      /\ \A h \in Cols : Small(X[h], n)
  BY <1>1, ToPolyValue
<1>3. n \in Positive /\ n % 2 = 1 /\ n \in Int
  BY <1>1, ProductPositive
<1>4. Y = [h \in Cols |-> X[h] % n]
  BY DEF PolyModulo
<1> HIDE DEF X, Y, n
<1>5. /\ Y \in [Cols -> 0 .. n - 1] /\ Y \in [Cols -> Int]
      /\ \A i \in Chain, j \in Cols : Divides(Prime[i], n) => Cong(Ev(Y, i, j), Ev(X, i, j), Prime[i])
  BY <1>2, <1>3, <1>4, ReducedValue
<1>6. ASSUME NEW i \in S, NEW j \in Cols
      PROVE  /\ d[i] \in Rows(i) /\ d[i][j] \in Int
             /\ Cong(d[i][j], Ev(X, i, j), Prime[i]) /\ Cong(d[i][j], Ev(Y, i, j), Prime[i])
  <2>1. d[i] \in Rows(i) /\ d[i][j] \in Int /\ i \in Chain
    BY <1>1, ElementRow
  <2>2. Prime[i] \in Int /\ Ev(X, i, j) \in Int /\ Ev(Y, i, j) \in Int
    BY <1>2, <1>5, <2>1, PrimeFacts, SmallPoly, EvType
  <2>3. Divides(Prime[i], n)
    BY <1>1, PrimeDividesProduct DEF n
  <2>4. Cong(Ev(X, i, j), d[i][j], Prime[i]) /\ Cong(Ev(Y, i, j), Ev(X, i, j), Prime[i])
    BY <1>2, <1>5, <2>1, <2>3
  <2>5. Cong(d[i][j], Ev(X, i, j), Prime[i]) /\ Cong(Ev(X, i, j), Ev(Y, i, j), Prime[i])
    BY <2>1, <2>2, <2>4, CongSym
  <2> QED BY <2>1, <2>2, <2>5, CongTrans
<1>7. \A i \in S : d[i] \in Rows(i)
  BY <1>1, ElementRow
<1>8. Represents(d, S, X) /\ Represents(d, S, Y)
  BY <1>1, <1>6, <1>7 DEF Represents
<1>9. X = L
  <2>1. ASSUME NEW h \in Cols PROVE X[h] = L[h]
    <3>1. X[h] \in Int /\ Small(X[h], n) /\ Y[h] = X[h] % n /\ Y[h] \in Int /\ L[h] = Balanced(Y[h], n)
      BY <1>2, <1>4, <1>5
    <3> HIDE DEF L
    <3>2. L[h] \in Int /\ Cong(L[h], Y[h], n) /\ Small(L[h], n)
      BY <1>3, <3>1, BalancedFacts
    <3>3. Cong(Y[h], X[h], n)
      BY <1>3, <3>1, ModFacts
    <3>4. Cong(L[h], X[h], n)
      BY <1>3, <3>1, <3>2, <3>3, CongTrans
    <3> QED BY <1>3, <3>1, <3>2, <3>4, SmallUnique
  <2> QED BY <1>2, <2>1
<1> QED BY <1>1, <1>2, <1>5, <1>8, <1>9 DEF X, Y, n

-----------------------------------------------------------------------------
(* What every method makes of the polynomials. *)

\* What is represented may be replaced by what has the same values.
LEMMA RepresentsSame ==
  ASSUME NEW S \in SUBSET Chain, NEW d, NEW f \in [Cols -> Int], NEW g \in [Cols -> Int],
         Represents(d, S, f),
         \A i \in S, j \in Cols : Cong(Ev(f, i, j), Ev(g, i, j), Prime[i])
  PROVE  Represents(d, S, g)
<1>1. ASSUME NEW i \in S, NEW j \in Cols PROVE Cong(d[i][j], Ev(g, i, j), Prime[i])
  <2>1. d[i][j] \in Int /\ Cong(d[i][j], Ev(f, i, j), Prime[i])
    BY DEF Represents
  <2>2. Prime[i] \in Int /\ Ev(f, i, j) \in Int /\ Ev(g, i, j) \in Int
    BY PrimeFacts, SmallPoly, EvType
  <2> QED BY <2>1, <2>2, CongTrans
<1> QED BY <1>1 DEF Represents

\* Enough to represent: the rows, and the values they stand for.
LEMMA RepresentsBy ==
  ASSUME NEW S \in SUBSET Chain, NEW d, d = [i \in S |-> d[i]], NEW f \in [Cols -> Int],
         NEW v, \A i \in S : d[i] = [j \in Cols |-> v[i][j] % Prime[i]],
         \A i \in S, j \in Cols : v[i][j] \in Int /\ Cong(v[i][j], Ev(f, i, j), Prime[i])
  PROVE  Represents(d, S, f)
<1>1. ASSUME NEW i \in S, NEW j \in Cols
      PROVE  /\ d[i][j] = v[i][j] % Prime[i] /\ d[i][j] \in Int /\ d[i][j] \in 0 .. Prime[i] - 1
             /\ Cong(d[i][j], Ev(f, i, j), Prime[i])
  <2>1. d[i][j] = v[i][j] % Prime[i]
    OBVIOUS
  <2>2. Prime[i] \in Positive /\ Prime[i] \in Int /\ Ev(f, i, j) \in Int /\ v[i][j] \in Int
        /\ Cong(v[i][j], Ev(f, i, j), Prime[i])
    BY PrimeFacts, SmallPoly, EvType
  <2>3. d[i][j] \in Int /\ d[i][j] \in 0 .. Prime[i] - 1 /\ Cong(d[i][j], v[i][j], Prime[i])
    BY <2>1, <2>2, ModFacts
  <2> QED BY <2>1, <2>2, <2>3, CongTrans
<1>2. ASSUME NEW i \in S PROVE d[i] \in Rows(i)
  <2>1. d[i] = [j \in Cols |-> d[i][j]]
    OBVIOUS
  <2> QED BY <1>1, <2>1 DEF Rows
<1> QED BY <1>1, <1>2 DEF Represents

Funs == {"add", "sub", "mul"}

RingOf(fun, f, g, q) ==
  CASE fun = "add" -> Plus(f, g, q)
    [] fun = "sub" -> Minus(f, g, q)
    [] fun = "mul" -> Times(f, g, q)

Number(fun, a, b) ==
  CASE fun = "add" -> a + b
    [] fun = "sub" -> a - b
    [] fun = "mul" -> a * b

\* Reduced arithmetic is congruent to arithmetic.
LEMMA NumberFacts ==
  ASSUME NEW fun \in Funs, NEW a \in Int, NEW b \in Int, NEW c \in Int, NEW d \in Int,
         NEW q \in Positive, Cong(a, c, q), Cong(b, d, q)
  PROVE  /\ Number(fun, a, b) \in Int /\ Number(fun, c, d) \in Int
         /\ Cong(Number(fun, a, b), Number(fun, c, d), q)
         /\ Apply(fun, a, b, q) = Number(fun, a, b) % q
<1>0. q \in Int
  BY DEF Positive
<1>1. CASE fun = "add"
  <2>1. Number(fun, a, b) = a + b /\ Number(fun, c, d) = c + d /\ Apply(fun, a, b, q) = (a + b) % q
    BY <1>1 DEF Number, Apply
  <2> QED BY <1>0, <2>1, CongPlus
<1>2. CASE fun = "sub"
  <2>1. Number(fun, a, b) = a - b /\ Number(fun, c, d) = c - d /\ Apply(fun, a, b, q) = (a - b) % q
    BY <1>2 DEF Number, Apply
  <2> QED BY <1>0, <2>1, CongPlus
<1>3. CASE fun = "mul"
  <2>1. Number(fun, a, b) = a * b /\ Number(fun, c, d) = c * d /\ Apply(fun, a, b, q) = (a * b) % q
    BY <1>3 DEF Number, Apply
  <2>2. a * b \in Int /\ c * d \in Int
    BY IntRing
  <2> QED BY <1>0, <2>1, <2>2, CongTimes
<1> QED BY <1>1, <1>2, <1>3 DEF Funs

\* The ring's operations have the values' results.
LEMMA RingOfValue ==
  ASSUME NEW fun \in Funs, NEW f \in [Cols -> Int], NEW g \in [Cols -> Int],
         NEW n \in Positive
  PROVE  /\ RingOf(fun, f, g, n) \in [Cols -> 0 .. n - 1] /\ RingOf(fun, f, g, n) \in [Cols -> Int]
         /\ \A i \in Chain, j \in Cols : Divides(Prime[i], n) =>
              Cong(Ev(RingOf(fun, f, g, n), i, j), Number(fun, Ev(f, i, j), Ev(g, i, j)), Prime[i])
<1>1. CASE fun = "add"
  <2>1. RingOf(fun, f, g, n) = Plus(f, g, n)
    BY <1>1 DEF RingOf
  <2>2. \A i \in Chain, j \in Cols : Number(fun, Ev(f, i, j), Ev(g, i, j)) = Ev(f, i, j) + Ev(g, i, j)
    BY <1>1 DEF Number
  <2> QED BY <2>1, <2>2, PlusValue
<1>2. CASE fun = "sub"
  <2>1. RingOf(fun, f, g, n) = Minus(f, g, n)
    BY <1>2 DEF RingOf
  <2>2. \A i \in Chain, j \in Cols : Number(fun, Ev(f, i, j), Ev(g, i, j)) = Ev(f, i, j) - Ev(g, i, j)
    BY <1>2 DEF Number
  <2> QED BY <2>1, <2>2, MinusValue
<1>3. CASE fun = "mul"
  <2>1. RingOf(fun, f, g, n) = Times(f, g, n)
    BY <1>3 DEF RingOf
  <2>2. \A i \in Chain, j \in Cols : Number(fun, Ev(f, i, j), Ev(g, i, j)) = Ev(f, i, j) * Ev(g, i, j)
    BY <1>3 DEF Number
  <2> QED BY <2>1, <2>2, TimesValue
<1> QED BY <1>1, <1>2, <1>3 DEF Funs

\* Op and do_mul.
LEMMA OpRepresents ==
  ASSUME NEW fun \in Funs, NEW S \in SUBSET Chain, NEW T \in SUBSET Chain, S \subseteq T,
         NEW d, NEW e, NEW f \in [Cols -> Int], NEW g \in [Cols -> Int],
         Represents(d, S, f), Represents(e, T, g)
  PROVE  /\ RingOf(fun, f, g, ProductOf(S)) \in [Cols -> 0 .. ProductOf(S) - 1]
         /\ RingOf(fun, f, g, ProductOf(S)) \in [Cols -> Int]
         /\ Represents(Op(fun, d, e), S, RingOf(fun, f, g, ProductOf(S)))
<1> DEFINE n == ProductOf(S)
           r == RingOf(fun, f, g, n)
           D == Op(fun, d, e)
           v == [i \in S |-> [j \in Cols |-> Number(fun, d[i][j], e[i][j])]]
<1>1. n \in Positive /\ \A i \in S : Divides(Prime[i], n)
  BY ProductPositive, PrimeDividesProduct
<1>2. DOMAIN d = S
  BY RepresentedElement
<1>3. D = [i \in S |-> [j \in Cols |-> Apply(fun, d[i][j], e[i][j], Prime[i])]]
  BY <1>2 DEF Op
<1> HIDE DEF n, r, D
<1>4. /\ r \in [Cols -> 0 .. n - 1] /\ r \in [Cols -> Int]
      /\ \A i \in S, j \in Cols : Cong(Ev(r, i, j), Number(fun, Ev(f, i, j), Ev(g, i, j)), Prime[i])
  BY <1>1, RingOfValue DEF r
<1>5. ASSUME NEW i \in S, NEW j \in Cols
      PROVE  /\ v[i][j] = Number(fun, d[i][j], e[i][j]) /\ v[i][j] \in Int
             /\ Apply(fun, d[i][j], e[i][j], Prime[i]) = v[i][j] % Prime[i]
             /\ Cong(v[i][j], Ev(r, i, j), Prime[i])
  <2> DEFINE a == d[i][j]
             b == e[i][j]
             x == Ev(f, i, j)
             y == Ev(g, i, j)
             q == Prime[i]
             z == Ev(r, i, j)
  <2>1. a \in Int /\ b \in Int /\ Cong(a, x, q) /\ Cong(b, y, q)
    BY DEF Represents
  <2>2. q \in Positive /\ q \in Int /\ x \in Int /\ y \in Int /\ z \in Int
    BY <1>4, PrimeFacts, SmallPoly, EvType
  <2>3. Cong(z, Number(fun, x, y), q)
    BY <1>4
  <2>4. v[i][j] = Number(fun, a, b)
    OBVIOUS
  <2> HIDE DEF a, b, x, y, q, z, v
  <2>5. /\ Number(fun, a, b) \in Int /\ Number(fun, x, y) \in Int
        /\ Cong(Number(fun, a, b), Number(fun, x, y), q)
        /\ Apply(fun, a, b, q) = Number(fun, a, b) % q
    BY <2>1, <2>2, NumberFacts
  <2>6. Cong(Number(fun, x, y), z, q)
    BY <2>2, <2>3, <2>5, CongSym
  <2>7. Cong(Number(fun, a, b), z, q)
    BY <2>2, <2>5, <2>6, CongTrans
  <2> QED BY <2>4, <2>5, <2>7 DEF a, b, q, z
<1> HIDE DEF v
<1>6. D = [i \in S |-> D[i]] /\ \A i \in S : D[i] = [j \in Cols |-> v[i][j] % Prime[i]]
  BY <1>3, <1>5
<1>7. Represents(D, S, r)
  BY <1>4, <1>5, <1>6, RepresentsBy
<1> QED BY <1>4, <1>7 DEF D, r, n

\* A number in every column, as a constant polynomial.
NumPoly(n) == [h \in Cols |-> IF h = 0 THEN n ELSE 0]

\* A constant represents the polynomial that is the constant.
LEMMA NumPolyRepresented ==
  ASSUME NEW n \in Int, NEW S \in SUBSET Chain
  PROVE  NumPoly(n) \in [Cols -> Int] /\ Represents(Constant(n, S), S, NumPoly(n))
<1>1. NumPoly(n) \in [Cols -> Int] /\ \A h \in Cols : h # 0 => NumPoly(n)[h] = 0
  BY DEF NumPoly
<1>2. NumPoly(n)[0] = n
  BY Degree DEF NumPoly
<1> QED BY <1>1, <1>2, ConstantValue

\* An operation with a number is one with its constant.
LEMMA OpNumIs ==
  ASSUME NEW fun, NEW d, NEW n
  PROVE  OpNum(fun, d, n) = Op(fun, d, Constant(n, DOMAIN d))
<1>1. \A i \in DOMAIN d : \A j \in Cols : Constant(n, DOMAIN d)[i][j] = n % Prime[i]
  BY DEF Constant
<1> QED BY <1>1 DEF OpNum, Op

\* Negation represents the negated polynomial.
LEMMA NegatedRepresents ==
  ASSUME NEW S \in SUBSET Chain, NEW d, NEW f \in [Cols -> Int], Represents(d, S, f),
         NEW g, g = [h \in Cols |-> -f[h]]
  PROVE  g \in [Cols -> Int] /\ Represents(Negated(d), S, g)
<1> DEFINE v == [i \in S |-> [j \in Cols |-> -d[i][j]]]
           D == Negated(d)
           zero == [h \in Cols |-> 0]
<1>1. DOMAIN d = S
  BY RepresentedElement
<1>2. g \in [Cols -> Int] /\ \A h \in Cols : g[h] = zero[h] - f[h]
  OBVIOUS
<1>3. zero \in [Cols -> Int] /\ zero[0] = 0 /\ \A h \in Cols : h # 0 => zero[h] = 0
  BY Degree
<1>4. D = [i \in S |-> D[i]] /\ \A i \in S : D[i] = [j \in Cols |-> v[i][j] % Prime[i]]
  BY <1>1 DEF Negated
<1>5. ASSUME NEW i \in S, NEW j \in Cols
      PROVE  v[i][j] \in Int /\ Cong(v[i][j], Ev(g, i, j), Prime[i])
  <2>1. d[i][j] \in Int /\ Cong(d[i][j], Ev(f, i, j), Prime[i]) /\ v[i][j] = -d[i][j]
    BY DEF Represents
  <2>2. Prime[i] \in Int /\ Ev(f, i, j) \in Int
    BY PrimeFacts, SmallPoly, EvType
  <2>3. Ev(g, i, j) = Ev(zero, i, j) - Ev(f, i, j) /\ Ev(zero, i, j) = zero[0]
    <3> HIDE DEF zero
    <3> QED BY <1>2, <1>3, EvMinus, EvConstant
  <2>4. Ev(g, i, j) = -Ev(f, i, j)
    BY <1>3, <2>2, <2>3
  <2>5. Cong(-d[i][j], -Ev(f, i, j), Prime[i])
    BY <2>1, <2>2, CongNeg
  <2> QED BY <2>1, <2>4, <2>5
<1> HIDE DEF v, D
<1>6. Represents(D, S, g)
  BY <1>2, <1>4, <1>5, RepresentsBy
<1> QED BY <1>2, <1>6 DEF D

\* operator/=: the quotient times the number is what was divided.
LEMMA DividedRepresents ==
  ASSUME NEW S \in SUBSET Chain, NEW d, NEW f \in [Cols -> Int], Represents(d, S, f),
         NEW n \in Int, \A i \in S : Unit(n, Prime[i])
  PROVE  /\ Element(DividedBy(d, n)) /\ DOMAIN DividedBy(d, n) = S
         /\ \A i \in S, j \in Cols :
              DividedBy(d, n)[i][j] \in Int /\ Cong(n * DividedBy(d, n)[i][j], Ev(f, i, j), Prime[i])
<1> DEFINE D == DividedBy(d, n)
<1>1. DOMAIN d = S
  BY RepresentedElement
<1>2. D = [i \in S |-> [j \in Cols |-> (d[i][j] * InvMod(n % Prime[i], Prime[i])) % Prime[i]]]
  BY <1>1 DEF DividedBy
<1> HIDE DEF D
<1>3. ASSUME NEW i \in S, NEW j \in Cols
      PROVE  D[i][j] \in Int /\ D[i][j] \in 0 .. Prime[i] - 1 /\ Cong(n * D[i][j], Ev(f, i, j), Prime[i])
  <2> DEFINE q == Prime[i]
             r == n % q
             u == InvMod(r, q)
             a == d[i][j]
             b == Ev(f, i, j)
             w == D[i][j]
  <2>1. q \in Positive /\ q \in Nat /\ q > 1 /\ q \in Int /\ b \in Int
    BY PrimeFacts, SmallPoly, EvType
  <2>2. a \in Int /\ Cong(a, b, q)
    BY DEF Represents
  <2>3. w = (a * u) % q
    BY <1>2
  <2>4. r \in Int /\ Cong(r, n, q) /\ Cong(n, r, q)
    BY <2>1, ModFacts
  <2>5. Unit(n, q)
    OBVIOUS
  <2> HIDE DEF q, r, a, b, w
  <2>6. Unit(r, q)
    BY <2>1, <2>4, <2>5, UnitCong
  <2>7. u \in Int /\ Cong(u * r, 1, q)
    BY <2>1, <2>4, <2>6, InverseMod
  <2> HIDE DEF u
  <2>8. a * u \in Int /\ w \in Int /\ w \in 0 .. q - 1 /\ Cong(w, a * u, q)
    BY <2>1, <2>2, <2>3, <2>7, IntRing, ModFacts
  <2>9. Cong(n * w, r * (a * u), q)
    BY <2>1, <2>4, <2>8, CongTimes
  <2>10. r * (a * u) = (u * r) * a /\ u * r \in Int /\ n * w \in Int /\ (u * r) * a \in Int
    <3>1. r * (a * u) = (a * u) * r /\ (a * u) * r = a * (u * r) /\ u * r \in Int /\ n * w \in Int
      BY <2>2, <2>4, <2>7, <2>8, IntRing
    <3>2. a * (u * r) = (u * r) * a /\ (u * r) * a \in Int
      BY <2>2, <3>1, IntRing
    <3> QED BY ONLY <3>1, <3>2
  <2>11. Cong((u * r) * a, a, q)
    BY <2>1, <2>2, <2>7, <2>10, CongOneTimes
  <2>12. Cong(n * w, (u * r) * a, q)
    BY <2>9, <2>10
  <2>13. Cong(n * w, a, q)
    BY <2>1, <2>2, <2>10, <2>11, <2>12, CongTrans
  <2>14. Cong(n * w, b, q)
    BY <2>1, <2>2, <2>10, <2>13, CongTrans
  <2> QED BY <2>8, <2>14 DEF w, q, b
<1>4. D = [i \in S |-> D[i]] /\ DOMAIN D = S /\ \A i \in S : D[i] = [j \in Cols |-> D[i][j]]
  BY <1>2
<1>5. \A i \in S : D[i] \in Rows(i)
  BY <1>3, <1>4 DEF Rows
<1>6. Element(D)
  BY <1>4, <1>5 DEF Element, IsElement
<1> QED BY <1>3, <1>4, <1>6 DEF D

\* A power of an element represents the power of its polynomial.
LEMMA ExpRepresents ==
  ASSUME NEW S \in SUBSET Chain, NEW d, NEW f \in [Cols -> Int], Represents(d, S, f),
         NEW F \in [Nat -> [Cols -> Int]], F[0] = NumPoly(1), F[1] = f,
         \A n \in Nat : n >= 1 => F[n + 1] = Times(F[n], f, ProductOf(S)),
         NEW e \in Nat
  PROVE  Represents(Exp(d, e), S, F[e])
<1> DEFINE D == Exp(d, e)
<1>1. DOMAIN d = S
  BY RepresentedElement
<1>2. D = [i \in S |-> [j \in Cols |-> Power(d[i][j], e, Prime[i])]]
  BY <1>1 DEF Exp
<1>3. \A n \in Nat : F[n] \in [Cols -> Int]
  OBVIOUS
<1>4. ASSUME NEW i \in S, NEW j \in Cols
      PROVE  /\ Power(d[i][j], e, Prime[i]) \in 0 .. Prime[i] - 1
             /\ Power(d[i][j], e, Prime[i]) \in Int
             /\ Cong(Power(d[i][j], e, Prime[i]), Ev(F[e], i, j), Prime[i])
  <2> DEFINE q == Prime[i]
             x == d[i][j]
             E(n) == Ev(F[n], i, j)
             p(n) == Power(x, n, q)
             P == {n \in Nat : Cong(p(n), E(n), q)}
  <2>1. q \in Positive /\ q > 1 /\ q \in Int /\ \A n \in Nat : E(n) \in Int
    BY <1>3, PrimeFacts, SmallPoly, EvType
  <2>2. x \in Int /\ Cong(x, Ev(f, i, j), q)
    BY DEF Represents
  <2>3. p(0) = 1 /\ \A n \in Nat : p(n) \in Int /\ p(n + 1) = (p(n) * x) % q
    BY <2>1, <2>2, PowerSteps
  <2>4. E(0) = 1
    <3>1. NumPoly(1) \in [Cols -> Int] /\ \A h \in Cols : h # 0 => NumPoly(1)[h] = 0
      BY DEF NumPoly
    <3>2. NumPoly(1)[0] = 1
      BY Degree DEF NumPoly
    <3>3. Ev(NumPoly(1), i, j) = NumPoly(1)[0]
      BY <3>1, EvConstant
    <3> QED BY <3>2, <3>3
  <2>5. ASSUME NEW n \in Nat PROVE Cong(E(n + 1), E(n) * E(1), q)
    <3>1. CASE n = 0
      <4>1. E(0 + 1) = E(1) /\ E(1) \in Int
        BY <2>1
      <4>2. E(0) * E(1) = E(1)
        BY <2>4, <4>1, IntRing
      <4> HIDE DEF E, q
      <4>3. E(0 + 1) = E(0) * E(1) /\ E(0 + 1) \in Int
        BY <4>1, <4>2
      <4> QED BY <2>1, <3>1, <4>3, CongRefl
    <3>2. CASE n # 0
      <4>1. F[n + 1] = Times(F[n], f, ProductOf(S)) /\ F[n] \in [Cols -> Int]
        BY <1>3, <3>2
      <4>2. Divides(Prime[i], ProductOf(S)) /\ ProductOf(S) \in Positive
        BY PrimeDividesProduct, ProductPositive
      <4> QED BY <4>1, <4>2, TimesValue
    <3> QED BY <3>1, <3>2
  <2>6. 0 \in P
    <3>1. Cong(1, 1, q)
      BY <2>1, CongRefl
    <3> QED BY <2>3, <2>4, <3>1
  <2>7. ASSUME NEW n \in Nat, n \in P PROVE n + 1 \in P
    <3>1. p(n) \in Int /\ p(n + 1) \in Int /\ p(n + 1) = (p(n) * x) % q /\ n + 1 \in Nat
      BY <2>3
    <3>2. E(n) \in Int /\ E(n + 1) \in Int /\ E(1) \in Int /\ E(1) = Ev(f, i, j)
      BY <2>1, <3>1
    <3>3. Cong(p(n), E(n), q) /\ Cong(E(n + 1), E(n) * E(1), q)
      BY <2>5, <2>7
    <3> HIDE DEF E, p, q, x
    <3>4. p(n) * x \in Int /\ E(n) * E(1) \in Int
      BY <2>2, <3>1, <3>2, IntRing
    <3>5. Cong(p(n + 1), p(n) * x, q)
      BY <2>1, <3>1, <3>4, ModFacts
    <3>6. Cong(p(n) * x, E(n) * E(1), q)
      BY <2>1, <2>2, <3>1, <3>2, <3>3, CongTimes
    <3>7. Cong(p(n + 1), E(n) * E(1), q)
      BY <2>1, <3>1, <3>4, <3>5, <3>6, CongTrans
    <3>8. Cong(E(n) * E(1), E(n + 1), q)
      BY <2>1, <3>2, <3>3, <3>4, CongSym
    <3>9. Cong(p(n + 1), E(n + 1), q)
      BY <2>1, <3>1, <3>2, <3>4, <3>7, <3>8, CongTrans
    <3> QED BY <3>1, <3>9
  <2> HIDE DEF P
  <2>8. e \in P
    BY <2>6, <2>7, Induction
  <2>9. p(e) \in 0 .. q - 1
    BY <2>1, <2>2, PowerType
  <2> QED BY <2>3, <2>8, <2>9 DEF P
<1> HIDE DEF D
<1>5. /\ D = [i \in S |-> D[i]]
      /\ \A i \in S : D[i] \in Rows(i)
      /\ \A i \in S, j \in Cols : D[i][j] = Power(d[i][j], e, Prime[i])
  BY <1>2, <1>4 DEF Rows
<1>6. Represents(D, S, F[e])
  BY <1>4, <1>5 DEF Represents
<1> QED BY <1>6 DEF D

\* The columns moved: automorph and complexConj.
IsMoved(D, d, S, col, k) ==
  /\ col \in [Cols -> Cols] /\ \A j \in Cols : ZmsRep[col[j]] = (ZmsRep[j] * k) % M
  /\ D = [i \in S |-> [j \in Cols |-> d[i][col[j]]]]

\* Rows read at the multiplied index represent the automorphism's polynomial.
LEMMA MovedRepresents ==
  ASSUME NEW S \in SUBSET Chain, NEW d, NEW f \in [Cols -> Int], Represents(d, S, f),
         NEW k \in Nat, NEW col, NEW D, IsMoved(D, d, S, col, k)
  PROVE  /\ AtPower(f, k, ProductOf(S)) \in [Cols -> Int]
         /\ Represents(D, S, AtPower(f, k, ProductOf(S)))
<1> USE DEF IsMoved
<1> DEFINE n == ProductOf(S)
           r == AtPower(f, k, n)
<1>1. n \in Positive /\ \A i \in S : Divides(Prime[i], n)
  BY ProductPositive, PrimeDividesProduct
<1>2. /\ r \in [Cols -> Int]
      /\ \A i \in S, j \in Cols : Cong(Ev(r, i, j), Ev(f, i, col[j]), Prime[i])
  <2> HIDE DEF n
  <2> QED BY <1>1, AtPowerValue
<1> HIDE DEF r, n
<1>3. D = [i \in S |-> D[i]] /\ \A i \in S, j \in Cols : D[i][j] = d[i][col[j]]
  OBVIOUS
<1>4. ASSUME NEW i \in S PROVE D[i] \in Rows(i)
  <2>1. d[i] \in [Cols -> 0 .. Prime[i] - 1]
    BY DEF Represents, Rows
  <2>2. D[i] = [j \in Cols |-> d[i][col[j]]]
    OBVIOUS
  <2> QED BY <2>1, <2>2 DEF Rows
<1>5. ASSUME NEW i \in S, NEW j \in Cols PROVE D[i][j] \in Int /\ Cong(D[i][j], Ev(r, i, j), Prime[i])
  <2> DEFINE l == col[j]
  <2>1. l \in Cols /\ D[i][j] = d[i][l] /\ Cong(Ev(r, i, j), Ev(f, i, l), Prime[i])
    BY <1>2, <1>3
  <2> HIDE DEF l
  <2>2. d[i][l] \in Int /\ Cong(d[i][l], Ev(f, i, l), Prime[i])
    BY <2>1 DEF Represents
  <2>3. Prime[i] \in Int /\ Ev(r, i, j) \in Int /\ Ev(f, i, l) \in Int
    BY <1>2, <2>1, PrimeFacts, SmallPoly, EvType
  <2> QED BY <2>1, <2>2, <2>3, CongSym, CongTrans
<1>6. Represents(D, S, r)
  BY <1>3, <1>4, <1>5 DEF Represents
<1> QED BY <1>2, <1>6 DEF r, n

\* automorph represents the automorphism's polynomial.
LEMMA AutomorphRepresents ==
  ASSUME NEW S \in SUBSET Chain, NEW d, NEW f \in [Cols -> Int], Represents(d, S, f), NEW k \in ZMStar
  PROVE  /\ AtPower(f, k, ProductOf(S)) \in [Cols -> Int]
         /\ Represents(Automorph(d, k), S, AtPower(f, k, ProductOf(S)))
<1> DEFINE col == [j \in Cols |-> ZmsIdx[(ZmsRep[j] * k) % M]]
<1>1. ASSUME NEW j \in Cols PROVE col[j] \in Cols /\ ZmsRep[col[j]] = (ZmsRep[j] * k) % M
  BY ZmsRepFacts, ZMStarTimes
<1>2. DOMAIN d = S
  BY RepresentedElement
<1>3. Automorph(d, k) = [i \in S |-> [j \in Cols |-> d[i][col[j]]]]
  BY <1>2 DEF Automorph
<1>4. col \in [Cols -> Cols]
  BY <1>1
<1>5. k \in Nat
  BY Degree
<1> HIDE DEF col
<1>6. IsMoved(Automorph(d, k), d, S, col, k)
  BY <1>1, <1>3, <1>4 DEF IsMoved
<1> QED BY <1>5, <1>6, MovedRepresents

\* The column of -k is the mirror image of that of k.
LEMMA MirrorColumn ==
  ASSUME NEW j \in Cols
  PROVE  PhiM - j - 1 \in Cols /\ ZmsRep[PhiM - j - 1] = (ZmsRep[j] * (M - 1)) % M
<1> DEFINE k == ZmsRep[j]
           l == M - k
           above == {a \in ZMStar : a > k}
           neg == [a \in Below(l) |-> M - a]
<1>1. k \in ZMStar /\ k \in 1 .. M - 1 /\ ZmsIdx[k] = j /\ k \in Int
  BY ZmsRepFacts
<1>2. M \in Positive /\ M \in Int /\ ZMStar \subseteq 1 .. M - 1 /\ IsFiniteSet(ZMStar) /\ PhiM \in Int
      /\ M - 1 \in Int
  BY Degree
<1> HIDE DEF k
<1>3. ASSUME NEW a \in ZMStar PROVE M - a \in ZMStar
  <2>1. a \in Nat /\ a \in Int /\ a \in 1 .. M - 1 /\ Unit(a, M) /\ M - a \in 1 .. M - 1
    BY <1>2, ZMStarUnits
  <2>2. PICK u \in Int : Cong(u * a, 1, M)
    BY <2>1 DEF Unit
  <2>3. -u \in Int /\ M - a \in Int /\ -a \in Int
    BY <1>2, <2>1, <2>2
  <2>4. Cong((-u) * (M - a), 1, M)
    <3>1. PICK x \in Int : u * a - 1 = M * x
      BY <2>2 DEF Cong, Divides
    <3>2. (-u) * (M - a) - 1 = M * (x - u)
      <4>1. (-u) * (M - a) = (-u) * M - (-u) * a /\ (-u) * M = -(u * M) /\ (-u) * a = -(u * a)
            /\ u * M = M * u /\ M * (x - u) = M * x - M * u
        BY <1>2, <2>1, <2>3, IntRing
      <4>2. u * M \in Int /\ u * a \in Int /\ M * x \in Int /\ M * u \in Int
        BY <1>2, <2>1, IntRing
      <4> QED BY ONLY <3>1, <4>1, <4>2
    <3>3. x - u \in Int
      OBVIOUS
    <3> QED BY <3>2, <3>3 DEF Cong, Divides
  <2>5. Unit(M - a, M)
    BY <2>3, <2>4 DEF Unit
  <2>6. M - a \in Nat
    BY <1>2, <2>1
  <2> QED BY <2>1, <2>5, <2>6, ZMStarUnits
<1>4. l \in ZMStar
  BY <1>1, <1>3
<1> HIDE DEF l
<1>5. l = M - k
  BY DEF l
<1>6. neg \in Bijection(Below(l), above)
  <2>0. \A a \in ZMStar : a \in Int
    BY <1>2
  <2>1. neg \in [Below(l) -> above]
    <3>1. ASSUME NEW a \in Below(l) PROVE M - a \in ZMStar /\ M - a > k
      <4>1. a \in ZMStar /\ a < l /\ a \in Int
        BY <2>0 DEF Below
      <4> QED BY <1>1, <1>2, <1>3, <1>5, <4>1
    <3> QED BY <3>1
  <2>2. \A a \in Below(l) : a \in Int /\ neg[a] = M - a
    BY <2>0 DEF Below
  <2>3. ASSUME NEW b \in above PROVE \E a \in Below(l) : neg[a] = b
    <3>1. b \in ZMStar /\ b > k /\ b \in Int
      BY <2>0
    <3>2. M - b \in Below(l)
      BY <1>1, <1>2, <1>3, <1>5, <3>1 DEF Below
    <3>3. neg[M - b] = M - (M - b) /\ M - (M - b) = b
      BY <1>2, <2>2, <3>1, <3>2
    <3> QED BY <3>2, <3>3
  <2>4. ASSUME NEW a \in Below(l), NEW b \in Below(l), neg[a] = neg[b] PROVE a = b
    <3>1. a \in Int /\ b \in Int /\ neg[a] = M - a /\ neg[b] = M - b
      BY <2>2
    <3> QED BY ONLY <1>2, <2>4, <3>1
  <2> HIDE DEF neg, above
  <2> QED BY <2>1, <2>3, <2>4 DEF Bijection, Injection, Surjection, IsInjective
<1> HIDE DEF neg
<1>7. Cardinality(Below(l)) = Cardinality(above) /\ IsFiniteSet(above)
  <2>1. IsFiniteSet(Below(l)) /\ IsFiniteSet(above)
    BY <1>2, <1>4, BelowFacts, FS_Subset
  <2>2. ExistsBijection(Below(l), above)
    BY <1>6 DEF ExistsBijection
  <2> HIDE DEF above
  <2> QED BY <2>1, <2>2, FS_Bijection
<1>8. Cardinality(above) = PhiM - 1 - j
  <2>1. ZMStar = (Below(k) \cup {k}) \cup above /\ (Below(k) \cup {k}) \cap above = {} /\ k \notin Below(k)
    <3>1. \A a \in ZMStar : a \in Int
      BY <1>2
    <3>2. k \in Int /\ k \in ZMStar
      BY <1>1
    <3>3. \A a \in ZMStar : a < k \/ a = k \/ a > k
      BY <3>1, <3>2
    <3>4. ~(k < k) /\ ~(k > k) /\ \A a \in ZMStar : ~(a < k /\ a > k)
      BY <3>1, <3>2
    <3>5. ZMStar \subseteq (Below(k) \cup {k}) \cup above
      BY <3>3 DEF Below
    <3>6. (Below(k) \cup {k}) \cup above \subseteq ZMStar
      BY <3>2 DEF Below
    <3>7. (Below(k) \cup {k}) \cap above = {} /\ k \notin Below(k)
      BY <3>4 DEF Below
    <3> QED BY <3>5, <3>6, <3>7
  <2>2. IsFiniteSet(Below(k)) /\ Cardinality(Below(k)) = j
    BY <1>1, BelowFacts
  <2>3. IsFiniteSet(Below(k) \cup {k}) /\ Cardinality(Below(k) \cup {k}) = j + 1
    BY <2>1, <2>2, FS_AddElement
  <2>4. Cardinality(ZMStar) = (j + 1) + Cardinality(above)
    <3> DEFINE A == Below(k) \cup {k}
    <3>1. IsFiniteSet(A) /\ Cardinality(A) = j + 1 /\ A \cap above = {} /\ ZMStar = A \cup above
      BY <2>1, <2>3
    <3> HIDE DEF A, above
    <3>2. Cardinality(A \cup above) = Cardinality(A) + Cardinality(above) - Cardinality(A \cap above)
      BY <1>7, <3>1, FS_Union
    <3>3. Cardinality(A \cap above) = 0
      BY <3>1, FS_EmptySet
    <3>4. Cardinality(above) \in Nat /\ j \in Int
      BY <1>7, FS_CardinalityType, Degree
    <3> QED BY <3>1, <3>2, <3>3, <3>4
  <2>5. Cardinality(above) \in Nat /\ j \in Int
    BY <1>7, FS_CardinalityType, Degree
  <2> QED BY <1>2, <2>4, <2>5 DEF PhiM
<1>9. ZmsIdx[l] = PhiM - j - 1
  <2>1. j \in Int
    BY Degree
  <2> QED BY <1>2, <1>4, <1>7, <1>8, <2>1, BelowFacts
<1>10. PhiM - j - 1 \in Cols /\ ZmsRep[PhiM - j - 1] = l
  BY <1>4, <1>9, ZmsRepFacts
<1>11. (k * (M - 1)) % M = l
  <2>1. Cong(k * (M - 1), l, M)
    <3>1. k * (M - 1) - l = M * (k - 1)
      <4>1. k * (M - 1) = k * M - k * 1 /\ k * M = M * k /\ M * (k - 1) = M * k - M * 1 /\ k * 1 = k /\ M * 1 = M
        BY <1>1, <1>2, IntRing
      <4>2. k * M \in Int /\ M * k \in Int
        BY <1>1, <1>2, IntRing
      <4> QED BY ONLY <1>1, <1>2, <1>5, <4>1, <4>2
    <3>2. k - 1 \in Int
      BY <1>1
    <3> QED BY <3>1, <3>2 DEF Cong, Divides
  <2>2. k * (M - 1) \in Int /\ l \in Int /\ l \in 0 .. M - 1
    BY <1>1, <1>2, <1>4, IntRing
  <2>3. (k * (M - 1)) % M \in 0 .. M - 1 /\ (k * (M - 1)) % M = l % M
    BY <1>2, <2>1, <2>2, CongIffMod, DivMod
  <2>4. l % M = l
    BY <1>2, <2>2
  <2> QED BY <2>3, <2>4
<1> QED BY <1>10, <1>11 DEF k

\* complexConj represents the polynomial at the inverse root.
LEMMA ConjRepresents ==
  ASSUME NEW S \in SUBSET Chain, NEW d, NEW f \in [Cols -> Int], Represents(d, S, f)
  PROVE  /\ AtPower(f, M - 1, ProductOf(S)) \in [Cols -> Int]
         /\ Represents(ComplexConj(d), S, AtPower(f, M - 1, ProductOf(S)))
<1> DEFINE col == [j \in Cols |-> PhiM - j - 1]
           k == M - 1
<1>1. \A j \in Cols : col[j] \in Cols /\ ZmsRep[col[j]] = (ZmsRep[j] * k) % M
  BY MirrorColumn
<1>2. DOMAIN d = S
  BY RepresentedElement
<1>3. ComplexConj(d) = [i \in S |-> [j \in Cols |-> d[i][col[j]]]]
  BY <1>2 DEF ComplexConj
<1>4. col \in [Cols -> Cols]
  BY <1>1
<1>5. k \in Nat
  BY Degree
<1> HIDE DEF col, k
<1>7. IsMoved(ComplexConj(d), d, S, col, k)
  BY <1>1, <1>3, <1>4 DEF IsMoved
<1>6. /\ AtPower(f, k, ProductOf(S)) \in [Cols -> Int]
      /\ Represents(ComplexConj(d), S, AtPower(f, k, ProductOf(S)))
  BY <1>5, <1>7, MovedRepresents
<1> QED BY <1>6 DEF k

\* Dropping primes keeps the polynomial.
LEMMA RemovedRepresents ==
  ASSUME NEW S \in SUBSET Chain, NEW d, NEW f \in [Cols -> Int], Represents(d, S, f), NEW T
  PROVE  Represents(RemovePrimes(d, T), S \ T, f)
<1>1. DOMAIN d = S
  BY RepresentedElement
<1> QED BY <1>1 DEF RemovePrimes, Represents

\* addPrimes: the rows of the same integers modulo the new primes.
LEMMA ExtendedRepresents ==
  ASSUME NEW S \in SUBSET Chain, NEW d, NEW f \in [Cols -> Int], Represents(d, S, f),
         NEW T \in SUBSET Chain, S \cap T = {}, S = {} => f = Zero
  PROVE  Represents(Extended(d, T, f), S \cup T, f)
<1> DEFINE D == Extended(d, T, f)
           all == S \cup T
<1>1. DOMAIN d = S /\ d = [i \in S |-> d[i]] /\ all \in SUBSET Chain
  BY RepresentedElement DEF Represents
<1>2. CASE T = {}
  <2>1. D = d /\ all = S
    BY <1>2 DEF Extended
  <2> QED BY <2>1
<1>3. CASE T # {} /\ S = {}
  <2>1. D = Constant(0, T) /\ all = T /\ f = Zero
    BY <1>1, <1>3 DEF Extended
  <2>2. f[0] = 0 /\ \A h \in Cols : h # 0 => f[h] = 0
    BY <2>1, Degree DEF Zero
  <2>3. Represents(Constant(0, T), T, f)
    <3> DEFINE z == 0
    <3>1. z \in Int /\ f[0] = z
      BY <2>2
    <3> HIDE DEF z
    <3>2. Represents(Constant(z, T), T, f)
      BY <2>2, <3>1, ConstantValue
    <3> QED BY <3>2 DEF z
  <2> QED BY <2>1, <2>3
<1>4. CASE T # {} /\ S # {} /\ IsConstant(f)
  <2>1. D = Constant(f[0], all)
    BY <1>1, <1>4 DEF Extended
  <2>2. f[0] \in Int /\ \A h \in Cols : h # 0 => f[h] = 0
    BY <1>4, Degree DEF IsConstant, Zero
  <2> HIDE DEF all
  <2>3. Represents(Constant(f[0], all), all, f)
    BY <1>1, <2>2, ConstantValue
  <2> QED BY <2>1, <2>3 DEF all
<1>5. CASE T # {} /\ S # {} /\ ~IsConstant(f)
  <2>1. D = [i \in all |-> IF i \in T THEN FFT(f, {i})[i] ELSE d[i]]
    BY <1>1, <1>5 DEF Extended
  <2> HIDE DEF D
  <2>2. ASSUME NEW i \in all
        PROVE  D[i] \in Rows(i) /\ \A j \in Cols : D[i][j] \in Int /\ Cong(D[i][j], Ev(f, i, j), Prime[i])
    <3>1. CASE i \in T
      <4>1. D[i] = FFT(f, {i})[i] /\ {i} \in SUBSET Chain
        BY <2>1, <3>1
      <4>2. Represents(FFT(f, {i}), {i}, f)
        BY <4>1, FFTValue
      <4> QED BY <4>1, <4>2 DEF Represents
    <3>2. CASE i \notin T
      <4>1. D[i] = d[i] /\ i \in S
        BY <2>1, <3>2
      <4> QED BY <4>1 DEF Represents
    <3> QED BY <3>1, <3>2
  <2>3. D = [i \in all |-> D[i]]
    BY <2>1
  <2>4. Represents(D, all, f)
    BY <2>2, <2>3 DEF Represents
  <2> QED BY <2>4 DEF D
<1> QED BY <1>2, <1>3, <1>4, <1>5

\* Without primes the polynomial is zero.
LEMMA ToPolyOfNone ==
  ASSUME NEW d, DOMAIN d = {}
  PROVE  ToPoly(d, DOMAIN d) = Zero
BY DEF ToPoly

\* addPrimes keeps the small polynomial.
LEMMA AddedRepresents ==
  ASSUME NEW d, Element(d), NEW T \in SUBSET Chain, DOMAIN d \cap T = {}
  PROVE  Represents(AddPrimes(d, T), DOMAIN d \cup T, ToPoly(d, DOMAIN d))
<1> DEFINE S == DOMAIN d
           f == ToPoly(d, DOMAIN d)
<1>1. S \in SUBSET Chain /\ f \in [Cols -> Int] /\ Represents(d, S, f)
  BY ElementRepresents
<1>2. S = {} => f = Zero
  BY ToPolyOfNone
<1>3. AddPrimes(d, T) = Extended(d, T, f)
  BY DEF AddPrimes
<1> HIDE DEF S, f
<1>4. S \cap T = {}
  BY DEF S
<1>5. Represents(Extended(d, T, f), S \cup T, f)
  BY <1>1, <1>2, <1>4, ExtendedRepresents
<1> QED BY <1>3, <1>5 DEF S, f

\* setPrimes keeps the small polynomial.
LEMMA SetRepresents ==
  ASSUME NEW d, Element(d), NEW T \in SUBSET Chain
  PROVE  Represents(SetPrimes(d, T), T, ToPoly(d, DOMAIN d))
<1> DEFINE f == ToPoly(d, DOMAIN d)
           e == AddPrimes(d, T \ DOMAIN d)
<1>1. DOMAIN d \in SUBSET Chain /\ f \in [Cols -> Int]
  BY ElementRepresents
<1>2. T \ DOMAIN d \in SUBSET Chain /\ DOMAIN d \cap (T \ DOMAIN d) = {}
  OBVIOUS
<1>3. Represents(e, DOMAIN d \cup (T \ DOMAIN d), f)
  BY <1>2, AddedRepresents
<1> HIDE DEF e, f
<1>4. DOMAIN d \cup (T \ DOMAIN d) = DOMAIN d \cup T /\ DOMAIN d \cup T \in SUBSET Chain
      /\ (DOMAIN d \cup T) \ (DOMAIN d \ T) = T
  BY <1>1
<1>5. Represents(RemovePrimes(e, DOMAIN d \ T), (DOMAIN d \cup T) \ (DOMAIN d \ T), f)
  BY <1>1, <1>3, <1>4, RemovedRepresents
<1>6. SetPrimes(d, T) = RemovePrimes(e, DOMAIN d \ T)
  BY DEF SetPrimes, e
<1> QED BY <1>4, <1>5, <1>6 DEF f

\* addPrimesAndScale.
LEMMA ScaledUpRepresents ==
  ASSUME NEW S \in SUBSET Chain, NEW d, NEW f \in [Cols -> Int], Represents(d, S, f),
         NEW T \in SUBSET Chain, S \cap T = {}
  PROVE  /\ Scaled(f, ProductOf(T), ProductOf(S \cup T)) \in [Cols -> Int]
         /\ Represents(AddPrimesAndScale(d, T), S \cup T, Scaled(f, ProductOf(T), ProductOf(S \cup T)))
<1> DEFINE D == AddPrimesAndScale(d, T)
           all == S \cup T
           n == ProductOf(all)
           s == ProductOf(T)
           g == Scaled(f, s, n)
           v == [i \in all |-> [j \in Cols |-> IF i \in T THEN 0 ELSE d[i][j] * (s % Prime[i])]]
<1>1. DOMAIN d = S /\ all \in SUBSET Chain /\ s \in Int
  BY RepresentedElement, ProductPositive
<1>2. n \in Positive /\ \A i \in all : Divides(Prime[i], n)
  BY <1>1, ProductPositive, PrimeDividesProduct
<1>3. D = [i \in all |-> IF i \in T THEN [j \in Cols |-> 0]
                         ELSE [j \in Cols |-> (d[i][j] * (s % Prime[i])) % Prime[i]]]
  BY <1>1 DEF AddPrimesAndScale
<1>s. s = ProductOf(T)
  OBVIOUS
<1> HIDE DEF n, s, D
<1>4. /\ g \in [Cols -> Int]
      /\ \A i \in all, j \in Cols : Cong(Ev(g, i, j), s * Ev(f, i, j), Prime[i])
  <2>1. \A i \in all : i \in Chain
    BY <1>1
  <2> HIDE DEF all
  <2> QED BY <1>1, <1>2, <2>1, ScaledValue
<1> HIDE DEF g
<1>5. D = [i \in all |-> D[i]] /\ \A i \in all : D[i] = [j \in Cols |-> v[i][j] % Prime[i]]
  <2>1. \A i \in all : 0 % Prime[i] = 0
    <3>1. SUFFICES ASSUME NEW i \in all PROVE 0 % Prime[i] = 0
      OBVIOUS
    <3>2. Prime[i] \in Positive
      BY <1>1, PrimeFacts
    <3> QED BY ONLY <3>2 DEF Positive
  <2> QED BY <1>3, <2>1
<1>6. ASSUME NEW i \in all, NEW j \in Cols PROVE v[i][j] \in Int /\ Cong(v[i][j], Ev(g, i, j), Prime[i])
  <2> DEFINE q == Prime[i]
             x == Ev(f, i, j)
             y == Ev(g, i, j)
  <2>1. q \in Int /\ q \in Positive /\ x \in Int /\ y \in Int /\ Cong(y, s * x, q) /\ i \in Chain
    BY <1>1, <1>4, PrimeFacts, SmallPoly, EvType
  <2>2. s * x \in Int
    BY <1>1, <2>1, IntRing
  <2>3. CASE i \in T
    <3>1. v[i][j] = 0
      BY <2>3
    <3>2. Divides(q, s)
      BY <1>s, <2>3, PrimeDividesProduct
    <3>3. Divides(q, s * x)
      BY <1>1, <2>1, <3>2, DividesTimes
    <3> DEFINE z == 0
    <3>4. z \in Int /\ Cong(s * x, z, q)
      BY <2>1, <2>2, <3>3, CongZero
    <3>5. v[i][j] = z
      BY <3>1
    <3> HIDE DEF z, x, y, q
    <3>6. Cong(y, z, q)
      BY <2>1, <2>2, <3>4, CongTrans
    <3>7. Cong(z, y, q)
      BY <2>1, <3>4, <3>6, CongSym
    <3> QED BY <3>4, <3>5, <3>7 DEF y, q
  <2>4. CASE i \notin T
    <3> DEFINE r == s % q
               a == d[i][j]
    <3>1. v[i][j] = a * r /\ i \in S
      BY <2>4
    <3>2. r \in Int /\ Cong(r, s, q)
      BY <1>1, <2>1, ModFacts
    <3>3. a \in Int /\ Cong(a, x, q)
      BY <3>1 DEF Represents
    <3> HIDE DEF r, a, q, x, y
    <3>4. Cong(a * r, x * s, q) /\ a * r \in Int /\ x * s = s * x
      BY <1>1, <2>1, <3>2, <3>3, CongTimes, IntRing
    <3>5. Cong(s * x, y, q)
      BY <2>1, <2>2, CongSym
    <3>6. Cong(a * r, y, q)
      BY <2>1, <2>2, <3>4, <3>5, CongTrans
    <3> QED BY <3>1, <3>4, <3>6 DEF y, q
  <2> QED BY <2>3, <2>4
<1> HIDE DEF v, all
<1>7. Represents(D, all, g)
  BY <1>1, <1>4, <1>5, <1>6, RepresentsBy
<1> QED BY <1>4, <1>7 DEF D, g, all, n, s

\* A product of units is a unit.
LEMMA ProductUnitTo ==
  ASSUME NEW S \in SUBSET Chain, NEW n \in Int, \A i \in S : Unit(Prime[i], n)
  PROVE  Unit(ProductOf(S), n)
<1> DEFINE P == {T \in SUBSET S : Unit(ProductOf(T), n)}
<1>1. {} \in P
  BY ProductOfNone, OneIsUnit
<1>2. ASSUME NEW T \in SUBSET S, NEW x \in S, T \in P, x \notin T PROVE T \cup {x} \in P
  <2>1. T \in SUBSET Chain /\ x \in Chain
    OBVIOUS
  <2>2. ProductOf(T \cup {x}) = Prime[x] * ProductOf(T) /\ ProductOf(T) \in Int /\ Prime[x] \in Int
    BY <1>2, <2>1, ProductOfMore, ProductPositive, PrimeFacts
  <2>3. Unit(Prime[x] * ProductOf(T), n)
    BY <1>2, <2>2, UnitTimes
  <2> QED BY <2>2, <2>3
<1>3. IsFiniteSet(S)
  BY ChainSubset
<1> HIDE DEF P
<1>4. S \in P
  BY <1>1, <1>2, <1>3, FiniteInduction
<1> QED BY <1>4 DEF P

\* A number coprime to a prime is a unit modulo it.
LEMMA CoprimeUnit ==
  ASSUME NEW p \in Positive, NEW b \in Int, Coprime(p, b)
  PROVE  Unit(b, p)
<1>1. ASSUME NEW d \in 1 .. p, Divides(d, b), Divides(d, p) PROVE d = 1
  <2>1. SUFFICES ASSUME d # 1 PROVE FALSE
    OBVIOUS
  <2>2. d \in 2 .. p /\ d \in Positive /\ p \in Int
    BY <2>1 DEF Positive
  <2>3. b % d = 0 /\ p % d = 0
    BY <1>1, <2>2, DividesMod
  <2> QED BY <2>2, <2>3 DEF Coprime
<1> QED BY <1>1, UnitExists

\* scaleDownToSet: delta is made divisible by the plaintext space, stays what it was modulo
\* the primes that are dropped, and is at most half their product times the plaintext space.
LEMMA FixedOne ==
  ASSUME NEW t \in Int, NEW D \in Positive, Small(t, D), NEW p \in Nat, p > 1, Unit(D, p),
         NEW r, r = ((t % p) * InvMod(D % p, p)) % p,
         NEW x, x = IF r > p \div 2 \/ (p % 2 = 0 /\ r = p \div 2 /\ t < 0) THEN r - p ELSE r
  PROVE  /\ x \in Int /\ t - D * x \in Int /\ (t - D * x) % p = 0 /\ Cong(t - D * x, t, D)
         /\ 2 * (t - D * x) =< D * p /\ -2 * (t - D * x) =< D * p
<1> DEFINE u == InvMod(D % p, p)
           E == D % p
           c == t % p
           y == t - D * x
<1>1. p \in Positive /\ p \in Int /\ p > 1 /\ D \in Int /\ D > 0
  BY DEF Positive
<1>2. E \in Int /\ Cong(E, D, p) /\ Cong(D, E, p) /\ c \in Int /\ Cong(c, t, p)
  BY <1>1, ModFacts
<1> HIDE DEF E, c
<1>3. Unit(E, p)
  BY <1>1, <1>2, UnitCong
<1>4. u \in Int /\ Cong(u * E, 1, p)
  BY <1>1, <1>2, <1>3, InverseMod DEF E
<1> HIDE DEF u
<1>5. r = (c * u) % p /\ c * u \in Int
  BY <1>2, <1>4, IntRing DEF c, u
<1>6. r \in Int /\ r \in 0 .. p - 1 /\ Cong(r, c * u, p)
  BY <1>1, <1>5, ModFacts
<1>7. x \in Int /\ 2 * x =< p /\ -2 * x =< p /\ (x = r \/ x = r - p)
      /\ (2 * x = p => t >= 0) /\ (-2 * x = p => t < 0)
  BY <1>1, <1>6
<1>8. Cong(x, r, p)
  <2>1. CASE x = r
    BY <1>1, <1>6, <2>1, CongRefl
  <2>2. CASE x = r - p
    <3>1. x - r = p * (-1)
      BY ONLY <1>1, <1>6, <2>2
    <3> QED BY <3>1 DEF Cong, Divides
  <2> QED BY <1>7, <2>1, <2>2
<1>9. D * x \in Int /\ y \in Int
  BY <1>1, <1>7, IntRing
<1>10. Cong(D * x, t, p)
  <2>1. Cong(x, c * u, p)
    BY <1>1, <1>5, <1>6, <1>7, <1>8, CongTrans
  <2>2. Cong(D * x, E * (c * u), p)
    BY <1>1, <1>2, <1>5, <1>7, <2>1, CongTimes
  <2>3. E * (c * u) = (u * E) * c /\ u * E \in Int /\ (u * E) * c \in Int
    <3>1. E * (c * u) = (c * u) * E /\ (c * u) * E = c * (u * E) /\ u * E \in Int
      BY <1>2, <1>4, <1>5, IntRing
    <3>2. c * (u * E) = (u * E) * c /\ (u * E) * c \in Int
      BY <1>2, <3>1, IntRing
    <3> QED BY ONLY <3>1, <3>2
  <2>4. Cong((u * E) * c, c, p)
    BY <1>1, <1>2, <1>4, <2>3, CongOneTimes
  <2>5. Cong(D * x, (u * E) * c, p)
    BY <2>2, <2>3
  <2>6. Cong(D * x, c, p)
    BY <1>1, <1>2, <1>9, <2>3, <2>4, <2>5, CongTrans
  <2> QED BY <1>1, <1>2, <1>9, <2>6, CongTrans
<1>11. y % p = 0
  <2>1. Cong(t, D * x, p)
    BY <1>1, <1>9, <1>10, CongSym
  <2>2. Divides(p, y)
    BY <2>1 DEF Cong
  <2> QED BY <1>1, <1>9, <2>2, DividesMod
<1>12. Cong(y, t, D)
  <2>1. y - t = D * (-x) /\ -x \in Int
    <3>1. D * (-x) = -(D * x) /\ -x \in Int
      BY <1>1, <1>7, IntRing
    <3> QED BY ONLY <1>7, <1>9, <3>1
  <2> QED BY <2>1 DEF Cong, Divides
<1>13. 2 * y =< D * p /\ -2 * y =< D * p
  <2> DEFINE a == D * x
             b == D * p
  <2>1. a \in Int /\ b \in Int /\ b >= D /\ b >= 0
    <3>1. b = D * (p - 1) + D /\ p - 1 \in Nat /\ D \in Nat
      <4>1. D * (p - 1) = D * p - D * 1 /\ D * 1 = D /\ p - 1 \in Int /\ D * p \in Int
        BY <1>1, IntRing
      <4> QED BY ONLY <1>1, <4>1
    <3>2. D * (p - 1) \in Nat
      BY <3>1
    <3> QED BY <1>1, <1>9, <3>1, <3>2
  <2>2. 2 * t < D /\ -2 * t < D
    BY DEF Small
  <2>3. CASE 2 * x < p
    <3>1. 2 * x =< p - 1 /\ p - 1 - 2 * x \in Nat /\ D \in Nat
      BY <1>1, <1>7, <2>3
    <3>2. D * (p - 1 - 2 * x) \in Nat
      BY <3>1
    <3>3. D * (p - 1 - 2 * x) = (b - D) - 2 * a
      <4>1. D * ((p - 1) - 2 * x) = D * (p - 1) - D * (2 * x) /\ D * (p - 1) = D * p - D * 1
            /\ D * 1 = D /\ D * (2 * x) = (D * 2) * x /\ D * 2 = 2 * D /\ (2 * D) * x = 2 * (D * x)
        BY <1>1, <1>7, IntRing
      <4> QED BY ONLY <1>1, <1>7, <2>1, <4>1
    <3>4. 2 * a =< b - D
      BY <2>1, <3>2, <3>3, <1>1
    <3>5. -2 * y =< b
      <4>1. -2 * y = 2 * a - 2 * t
        BY <2>1
      <4> HIDE DEF a, b, y
      <4> QED BY ONLY <1>1, <1>9, <2>1, <2>2, <3>4, <4>1
    <3>6. 2 * y =< b
      <4>1. CASE -2 * x < p
        <5>1. p - 1 + 2 * x \in Nat /\ D \in Nat
          BY <1>1, <1>7, <4>1
        <5>2. D * (p - 1 + 2 * x) \in Nat
          BY <5>1
        <5>3. D * (p - 1 + 2 * x) = (b - D) + 2 * a
          <6>1. D * ((p - 1) + 2 * x) = D * (p - 1) + D * (2 * x) /\ D * (p - 1) = D * p - D * 1
                /\ D * 1 = D /\ D * (2 * x) = (D * 2) * x /\ D * 2 = 2 * D /\ (2 * D) * x = 2 * (D * x)
            BY <1>1, <1>7, IntRing
          <6> QED BY ONLY <1>1, <1>7, <2>1, <6>1
        <5>4. 2 * y = 2 * t - 2 * a
          BY <2>1
        <5> HIDE DEF a, b, y
        <5> QED BY ONLY <1>1, <1>9, <2>1, <2>2, <5>2, <5>3, <5>4
      <4>2. CASE -2 * x = p
        <5>1. t < 0
          BY <1>7, <4>2
        <5>2. b = -(2 * a)
          <6>1. D * (-2 * x) = D * ((-2) * x) /\ D * ((-2) * x) = (D * (-2)) * x /\ D * (-2) = (-2) * D
                /\ ((-2) * D) * x = (-2) * (D * x)
            BY <1>1, <1>7, IntRing
          <6> QED BY ONLY <1>1, <1>7, <2>1, <4>2, <6>1
        <5>3. 2 * y = 2 * t - 2 * a
          BY <2>1
        <5> HIDE DEF a, b, y
        <5> QED BY ONLY <1>1, <1>9, <2>1, <5>1, <5>2, <5>3
      <4> QED BY <1>1, <1>7, <4>1, <4>2
    <3> QED BY <3>5, <3>6
  <2>4. CASE 2 * x = p
    <3>1. t >= 0
      BY <1>7, <2>4
    <3>2. b = 2 * a
      <4>1. D * (2 * x) = (D * 2) * x /\ D * 2 = 2 * D /\ (2 * D) * x = 2 * (D * x)
        BY <1>1, <1>7, IntRing
      <4> QED BY ONLY <1>1, <1>7, <2>1, <2>4, <4>1
    <3>3. 2 * y = 2 * t - 2 * a /\ -2 * y = 2 * a - 2 * t
      BY <2>1
    <3>4. 2 * y =< b /\ -2 * y =< b
      <4> HIDE DEF a, b, y
      <4> QED BY ONLY <1>1, <1>9, <2>1, <2>2, <3>1, <3>2, <3>3
    <3> QED BY <3>4
  <2> QED BY <1>1, <1>7, <2>3, <2>4
<1> QED BY <1>7, <1>9, <1>11, <1>12, <1>13

\* A plaintext space, of which no prime of the chain is a factor.
IsPtxtSpace(p) == p \in Nat /\ p > 0 /\ \A i \in Chain : Coprime(p, Prime[i])

\* A plaintext space is a unit modulo the product of the primes dropped.
LEMMA PtxtUnit ==
  ASSUME NEW p, IsPtxtSpace(p), NEW S \in SUBSET Chain
  PROVE  p \in Positive /\ p \in Nat /\ p \in Int /\ Unit(ProductOf(S), p)
<1>1. p \in Nat /\ p > 0 /\ \A i \in Chain : Coprime(p, Prime[i])
  BY DEF IsPtxtSpace
<1>2. p \in Positive /\ p \in Int
  BY <1>1 DEF Positive
<1>3. \A i \in S : Unit(Prime[i], p)
  BY <1>1, <1>2, PrimeFacts, CoprimeUnit
<1> QED BY <1>1, <1>2, <1>3, ProductUnitTo

\* The delta of scaleDownToSet.
LEMMA DeltaFacts ==
  ASSUME NEW d, Element(d), NEW S, NEW p, IsPtxtSpace(p), DOMAIN d \ S # {},
         NEW D, D = ProductOf(DOMAIN d \ S)
  PROVE  /\ ScaleDownDelta(d, S, p) \in [Cols -> Int]
         /\ \A i \in DOMAIN d \ S, j \in Cols : Cong(d[i][j], Ev(ScaleDownDelta(d, S, p), i, j), Prime[i])
         /\ \A h \in Cols : LET e == ScaleDownDelta(d, S, p)[h]
                            IN /\ e % p = 0 /\ 2 * e =< D * p /\ -2 * e =< D * p
                               /\ p = 1 => 2 * e =< D - 1 /\ -2 * e =< D - 1
<1> DEFINE diff == DOMAIN d \ S
           t == ToPoly(d, diff)
           delta == ScaleDownDelta(d, S, p)
<1>1. diff \in SUBSET Chain /\ IsElement(d) /\ DOMAIN d \cap diff = diff
  BY DEF Element, IsElement
<1>2. D \in Positive /\ D \in Int /\ \A i \in diff : Divides(Prime[i], D)
  BY <1>1, ProductPositive, PrimeDividesProduct
<1>3. p \in Positive /\ p \in Nat /\ p \in Int /\ Unit(D, p)
  BY <1>1, PtxtUnit
<1>4. /\ t \in [Cols -> Int] /\ \A h \in Cols : Small(t[h], D)
      /\ \A i \in diff, j \in Cols : Cong(Ev(t, i, j), d[i][j], Prime[i])
  BY <1>1, ToPolyValue
<1>a. delta = IF p > 1 THEN FixedDelta(t, D, p) ELSE t
  BY DEF ScaleDownDelta
<1> HIDE DEF t, delta
<1>5. /\ delta = [h \in Cols |-> delta[h]]
      /\ \A h \in Cols : LET e == delta[h]
                            IN /\ e \in Int /\ Cong(e, t[h], D)
                               /\ e % p = 0 /\ 2 * e =< D * p /\ -2 * e =< D * p
                               /\ p = 1 => 2 * e =< D - 1 /\ -2 * e =< D - 1
  <2>1. CASE p > 1
    <3> DEFINE r(h) == ((t[h] % p) * InvMod(D % p, p)) % p
               x(h) == IF r(h) > p \div 2 \/ (p % 2 = 0 /\ r(h) = p \div 2 /\ t[h] < 0) THEN r(h) - p ELSE r(h)
    <3>1. delta = [h \in Cols |-> t[h] - D * x(h)]
      BY <1>a, <2>1, Zenon DEF FixedDelta
    <3>2. ASSUME NEW h \in Cols
          PROVE  /\ t[h] - D * x(h) \in Int /\ (t[h] - D * x(h)) % p = 0 /\ Cong(t[h] - D * x(h), t[h], D)
                 /\ 2 * (t[h] - D * x(h)) =< D * p /\ -2 * (t[h] - D * x(h)) =< D * p
      <4>1. t[h] \in Int /\ Small(t[h], D)
        BY <1>4
      <4> DEFINE R == r(h)
                 X == x(h)
      <4>2. R = ((t[h] % p) * InvMod(D % p, p)) % p
            /\ X = IF R > p \div 2 \/ (p % 2 = 0 /\ R = p \div 2 /\ t[h] < 0) THEN R - p ELSE R
        OBVIOUS
      <4> HIDE DEF R, X
      <4>3. /\ t[h] - D * X \in Int /\ (t[h] - D * X) % p = 0 /\ Cong(t[h] - D * X, t[h], D)
            /\ 2 * (t[h] - D * X) =< D * p /\ -2 * (t[h] - D * X) =< D * p
        BY <1>2, <1>3, <2>1, <4>1, <4>2, FixedOne
      <4> QED BY <4>3 DEF X
    <3> HIDE DEF x, r
    <3>3. \A h \in Cols : delta[h] = t[h] - D * x(h)
      BY <3>1
    <3>4. delta = [h \in Cols |-> delta[h]]
      BY <3>1
    <3>5. \A h \in Cols : /\ delta[h] \in Int /\ Cong(delta[h], t[h], D) /\ delta[h] % p = 0
                          /\ 2 * delta[h] =< D * p /\ -2 * delta[h] =< D * p
      BY ONLY <3>2, <3>3
    <3> QED BY ONLY <2>1, <3>4, <3>5
  <2>2. CASE ~(p > 1)
    <3>1. p = 1 /\ delta = t
      BY <1>3, <1>a, <2>2 DEF Positive
    <3>2. ASSUME NEW h \in Cols
          PROVE  /\ t[h] \in Int /\ Cong(t[h], t[h], D) /\ t[h] % 1 = 0
                 /\ 2 * t[h] =< D * 1 /\ -2 * t[h] =< D * 1 /\ 2 * t[h] =< D - 1 /\ -2 * t[h] =< D - 1
      <4>1. t[h] \in Int /\ 2 * t[h] < D /\ -2 * t[h] < D
        BY <1>4 DEF Small
      <4>2. Cong(t[h], t[h], D)
        BY <1>2, <4>1, CongRefl
      <4> QED BY <1>2, <4>1, <4>2
    <3>3. t = [h \in Cols |-> t[h]]
      BY <1>4
    <3> QED BY <3>1, <3>2, <3>3
  <2> QED BY <2>1, <2>2
<1>6. delta \in [Cols -> Int] /\ \A h \in Cols : Cong(delta[h], t[h], D)
  BY <1>5
<1>7. ASSUME NEW i \in diff, NEW j \in Cols PROVE Cong(d[i][j], Ev(delta, i, j), Prime[i])
  <2>1. Cong(Ev(delta, i, j), Ev(t, i, j), Prime[i])
    BY <1>1, <1>2, <1>4, <1>6, EvCong
  <2>2. Prime[i] \in Int /\ Ev(delta, i, j) \in Int /\ Ev(t, i, j) \in Int /\ d[i][j] \in Int
    BY <1>1, <1>4, <1>6, PrimeFacts, SmallPoly, EvType, ElementRow
  <2>3. Cong(Ev(t, i, j), d[i][j], Prime[i])
    BY <1>4
  <2> QED BY <2>1, <2>2, <2>3, CongSym, CongTrans
<1> QED BY <1>5, <1>6, <1>7 DEF delta

\* scaleDownToSet: the element less delta, divided by the product of the primes dropped.
LEMMA ScaledDownFacts ==
  ASSUME NEW d, Element(d), NEW S \in SUBSET Chain, NEW p, IsPtxtSpace(p), DOMAIN d \ S # {}
  PROVE  /\ Element(ScaledDown(d, S, p)) /\ DOMAIN ScaledDown(d, S, p) = DOMAIN d \cap S
         /\ \A h \in Cols :
              Cong(PolyModulo(d)[h] - ProductOf(DOMAIN d \ S) * PolyModulo(ScaledDown(d, S, p))[h],
                   ScaleDownDelta(d, S, p)[h], ProductOf(DOMAIN d))
<1> DEFINE diff == DOMAIN d \ S
           all == DOMAIN d
           kept == DOMAIN d \cap S
           D == ProductOf(diff)
           f == PolyModulo(d)
           delta == ScaleDownDelta(d, S, p)
           rest == RemovePrimes(d, diff)
           c == Converted(delta, kept)
           o == Op("sub", rest, c)
           e == ScaledDown(d, S, p)
           n == ProductOf(kept)
           b == RingOf("sub", f, delta, n)
           g == PolyModulo(e)
<1>1. /\ all \in SUBSET Chain /\ diff \in SUBSET Chain /\ kept \in SUBSET Chain /\ all \ diff = kept
      /\ diff \subseteq all /\ kept \subseteq all /\ \A i \in all : i \in diff \/ i \in kept
      /\ \A i \in kept : i \notin diff
  BY DEF Element, IsElement
<1>2. f \in [Cols -> Int] /\ Represents(d, all, f)
  BY ElementRepresents
<1>3. Represents(rest, kept, f) /\ DOMAIN rest = kept
  <2>1. Represents(rest, all \ diff, f)
    BY <1>1, <1>2, RemovedRepresents
  <2> HIDE DEF rest, kept, diff, all
  <2> QED BY <1>1, <2>1, RepresentedElement
<1>4. /\ delta \in [Cols -> Int]
      /\ \A i \in diff, j \in Cols : Cong(d[i][j], Ev(delta, i, j), Prime[i])
  BY DeltaFacts
<1>5. Represents(c, kept, delta)
  <2> HIDE DEF delta, kept
  <2> QED BY <1>1, <1>4, ConvertedValue
<1>6. D \in Positive /\ D \in Int /\ n \in Positive /\ D = ProductOf(diff)
  BY <1>1, ProductPositive
<1>7. \A i \in kept : Unit(D, Prime[i])
  BY <1>1, ProductUnit
<1>8. e = DividedBy(o, D)
  BY <1>3 DEF ScaledDown, OpPoly
<1> HIDE DEF diff, all, kept, D, f, delta, rest, c, e, n, g
<1>9. b \in [Cols -> Int] /\ Represents(o, kept, b)
  <2>1. "sub" \in Funs
    BY DEF Funs
  <2> HIDE DEF o
  <2>2. /\ RingOf("sub", f, delta, ProductOf(kept)) \in [Cols -> Int]
        /\ Represents(Op("sub", rest, c), kept, RingOf("sub", f, delta, ProductOf(kept)))
    BY <1>1, <1>2, <1>3, <1>4, <1>5, <2>1, OpRepresents
  <2> QED BY <2>2 DEF o, n
<1>10. \A i \in kept, j \in Cols : Cong(Ev(b, i, j), Ev(f, i, j) - Ev(delta, i, j), Prime[i])
  <2>1. b = Minus(f, delta, n)
    BY DEF RingOf
  <2>2. \A i \in kept : Divides(Prime[i], n) /\ i \in Chain
    BY <1>1, PrimeDividesProduct DEF n
  <2> HIDE DEF b
  <2> QED BY <1>2, <1>4, <1>6, <2>1, <2>2, MinusValue
<1> HIDE DEF o, b
<1>11. /\ Element(e) /\ DOMAIN e = kept
       /\ \A i \in kept, j \in Cols : e[i][j] \in Int /\ Cong(D * e[i][j], Ev(b, i, j), Prime[i])
  <2>1. /\ Element(DividedBy(o, D)) /\ DOMAIN DividedBy(o, D) = kept
        /\ \A i \in kept, j \in Cols :
              DividedBy(o, D)[i][j] \in Int /\ Cong(D * DividedBy(o, D)[i][j], Ev(b, i, j), Prime[i])
    BY <1>1, <1>6, <1>7, <1>9, DividedRepresents
  <2> QED BY <1>8, <2>1
<1>12. g \in [Cols -> Int] /\ Represents(e, kept, g)
  BY <1>11, ElementRepresents DEF g
<1> DEFINE s == [h \in Cols |-> D * g[h]]
           w == [h \in Cols |-> f[h] - s[h]]
<1>13. s \in [Cols -> Int] /\ \A h \in Cols : s[h] = D * g[h]
  <2>1. \A h \in Cols : g[h] \in Int
    BY <1>12
  <2>2. \A h \in Cols : D * g[h] \in Int
    BY <1>6, <2>1, IntRing
  <2> QED BY <2>2
<1> HIDE DEF s
<1>14. w \in [Cols -> Int] /\ \A h \in Cols : w[h] = f[h] - s[h]
  BY <1>2, <1>13
<1> HIDE DEF w
<1>15. ASSUME NEW i \in all, NEW j \in Cols PROVE Cong(Ev(w, i, j), Ev(delta, i, j), Prime[i])
  <2> DEFINE q == Prime[i]
             F == Ev(f, i, j)
             G == Ev(g, i, j)
             X == Ev(delta, i, j)
             W == Ev(w, i, j)
  <2>1. i \in Chain /\ q \in Int /\ F \in Int /\ G \in Int /\ X \in Int /\ W \in Int
    BY <1>1, <1>2, <1>4, <1>12, <1>14, PrimeFacts, SmallPoly, EvType
  <2>2. W = F - D * G /\ D * G \in Int
    <3>1. Ev(s, i, j) = D * G
      <4>1. D \in Int /\ i \in Chain /\ j \in Cols
        BY <1>6, <2>1
      <4>2. g \in [Cols -> Int]
        BY <1>12
      <4>3. s \in [Cols -> Int]
        BY <1>13
      <4>4. \A h \in Cols : s[h] = D * g[h]
        BY <1>13
      <4>5. Ev(s, i, j) = D * Ev(g, i, j)
        BY ONLY <4>1, <4>2, <4>3, <4>4, EvScale
      <4> QED BY <4>5
    <3>2. W = F - Ev(s, i, j)
      BY <1>2, <1>13, <1>14, <2>1, EvMinus
    <3> HIDE DEF G
    <3> QED BY <1>6, <2>1, <3>1, <3>2, IntRing
  <2>3. CASE i \in diff
    <3>1. Divides(q, D)
      BY <1>1, <1>6, <2>3, PrimeDividesProduct
    <3>2. d[i][j] \in Int /\ Cong(d[i][j], F, q) /\ Cong(d[i][j], X, q)
      BY <1>2, <1>4, <2>3 DEF Represents
    <3> HIDE DEF q, F, G, X, W
    <3>3. Cong(F, X, q)
      BY <2>1, <3>2, CongSym, CongTrans
    <3>4. Cong(W, F, q)
      <4>1. Divides(q, D * G)
        BY <1>6, <2>1, <3>1, DividesTimes
      <4>2. W - F = -(D * G)
        BY ONLY <2>1, <2>2
      <4>3. PICK k \in Int : D * G = q * k
        BY <4>1 DEF Divides
      <4>4. W - F = q * (-k) /\ -k \in Int
        <5>1. q * (-k) = -(q * k)
          BY <2>1, IntRing
        <5> QED BY <4>2, <4>3, <5>1
      <4> QED BY <4>4 DEF Cong, Divides
    <3>5. Cong(W, X, q)
      BY <2>1, <3>3, <3>4, CongTrans
    <3> QED BY <3>5 DEF W, X, q
  <2>4. CASE i \in kept
    <3> DEFINE y == e[i][j]
               B == Ev(b, i, j)
    <3>1. y \in Int /\ Cong(D * y, B, q) /\ Cong(y, G, q)
      BY <1>11, <1>12, <2>4 DEF Represents
    <3>2. Cong(B, F - X, q) /\ B \in Int
      BY <1>9, <1>10, <2>1, <2>4, SmallPoly, EvType
    <3> HIDE DEF q, F, G, X, W, y, B
    <3>3. Cong(D * y, D * G, q) /\ D * y \in Int
      BY <1>6, <2>1, <3>1, CongTimesOne, IntRing
    <3>4. Cong(D * G, D * y, q)
      BY <2>1, <2>2, <3>3, CongSym
    <3>5. Cong(D * G, B, q)
      BY <2>1, <2>2, <3>1, <3>2, <3>3, <3>4, CongTrans
    <3>6. Cong(D * G, F - X, q) /\ F - X \in Int
      BY <2>1, <2>2, <3>2, <3>5, CongTrans
    <3>7. Cong(F, F, q)
      BY <2>1, CongRefl
    <3>8. Cong(F - D * G, F - (F - X), q)
      BY <2>1, <2>2, <3>6, <3>7, CongPlus
    <3>9. F - (F - X) = X
      BY ONLY <2>1
    <3>10. Cong(W, X, q)
      BY <2>2, <3>8, <3>9
    <3> QED BY <3>10 DEF W, X, q
  <2> QED BY <1>1, <2>3, <2>4
<1>16. \A h \in Cols : Cong(w[h], delta[h], ProductOf(all))
  BY <1>1, <1>4, <1>14, <1>15, SameValues
<1>17. \A h \in Cols : w[h] = f[h] - D * g[h]
  BY <1>13, <1>14
<1>18. \A h \in Cols : Cong(f[h] - D * g[h], delta[h], ProductOf(all))
  BY <1>16, <1>17
<1> QED BY <1>11, <1>18 DEF e, g, f, delta, all, kept, D, diff

-----------------------------------------------------------------------------
(* Random rows. *)

\* The powers of two.
LEMMA TwoToFacts ==
  /\ TwoTo[0] = 1
  /\ \A n \in Nat : TwoTo[n] \in Positive /\ TwoTo[n + 1] = 2 * TwoTo[n] /\ TwoTo[n] > n
<1> DEFINE step == [a \in Nat |-> 2 * a]
           A == Nat
<1>1. 1 \in A /\ step \in [A -> A] /\ \A a \in Nat : step[a] = 2 * a
  OBVIOUS
<1> HIDE DEF step, A
<1>2. PICK F : IsIteration(F, A, 1, step)
  BY ONLY <1>1, Recursion
<1>3. F \in [Nat -> Nat] /\ F[0] = 1 /\ \A n \in Nat : F[n + 1] = 2 * F[n]
  <2>1. F \in [Nat -> A] /\ F[0] = 1 /\ \A n \in Nat : F[n + 1] = step[F[n]]
    BY <1>2 DEF IsIteration
  <2>2. \A n \in Nat : F[n] \in Nat
    BY <2>1 DEF A
  <2> QED BY <1>1, <2>1, <2>2 DEF A
<1> DEFINE G(x) == [k \in Nat |-> IF k = 0 THEN 1 ELSE 2 * x[k - 1]]
           c == CHOOSE x : x = G(x)
<1>4. TwoTo = c
  BY Zenon DEF TwoTo
<1>5. F = G(F)
  <2>1. ASSUME NEW k \in Nat PROVE F[k] = IF k = 0 THEN 1 ELSE 2 * F[k - 1]
    <3>1. CASE k = 0
      BY <3>1, <1>3
    <3>2. CASE k # 0
      <4>1. k - 1 \in Nat /\ (k - 1) + 1 = k
        BY <3>2
      <4>2. F[(k - 1) + 1] = 2 * F[k - 1]
        BY <1>3, <4>1
      <4> QED BY <3>2, <4>1, <4>2
    <3> QED BY <3>1, <3>2
  <2>2. F = [k \in Nat |-> F[k]]
    BY <1>3
  <2>3. [k \in Nat |-> F[k]] = G(F)
    BY <2>1, Zenon
  <2> QED BY <2>2, <2>3
<1>6. c = G(c)
  BY <1>5, Zenon
<1> HIDE DEF c
<1>7. \A k \in Nat : c[k] = IF k = 0 THEN 1 ELSE 2 * c[k - 1]
  <2> HIDE DEF G
  <2>1. ASSUME NEW k \in Nat PROVE G(c)[k] = IF k = 0 THEN 1 ELSE 2 * c[k - 1]
    BY Zenon DEF G
  <2> QED BY <1>6, <2>1
<1> HIDE DEF G
<1> DEFINE N == {n \in Nat : c[n] \in Nat /\ c[n] > n}
<1>8. c[0] = 1 /\ \A n \in Nat : c[n + 1] = 2 * c[n]
  <2>1. ASSUME NEW n \in Nat PROVE c[n + 1] = 2 * c[n]
    <3>1. n + 1 \in Nat /\ n + 1 # 0 /\ (n + 1) - 1 = n
      OBVIOUS
    <3> QED BY <1>7, <3>1
  <2> QED BY <1>7, <2>1
<1>9. 0 \in N
  BY <1>8
<1>10. ASSUME NEW n \in Nat, n \in N PROVE n + 1 \in N
  BY <1>8, <1>10
<1>11. \A n \in Nat : c[n] \in Nat /\ c[n] > n
  <2> HIDE DEF N
  <2>1. Nat \subseteq N
    BY <1>9, <1>10, Induction
  <2> QED BY <2>1 DEF N
<1> QED BY <1>4, <1>8, <1>11 DEF Positive

\* NumBits is the length of the number in bits.
LEMMA NumBitsFacts ==
  ASSUME NEW n \in Nat
  PROVE  NumBits(n) \in Nat /\ TwoTo[NumBits(n)] \in Positive
<1> DEFINE S == {k \in Nat : TwoTo[k] > n}
<1>1. S \in SUBSET Nat /\ n \in S
  BY TwoToFacts
<1>2. PICK m \in S : \A k \in S : m =< k
  BY <1>1, LeastMember
<1>3. m \in 0 .. n /\ TwoTo[m] > n
  BY <1>1, <1>2
<1>4. ASSUME NEW l \in 0 .. m - 1 PROVE TwoTo[l] =< n
  <2>1. l \in Nat /\ l < m /\ TwoTo[l] \in Nat
    BY <1>3, TwoToFacts DEF Positive
  <2>2. l \notin S
    BY <1>2, <1>3, <2>1
  <2> QED BY <2>1, <2>2
<1> HIDE DEF S
<1>5. NumBits(n) \in 0 .. n
  BY <1>3, <1>4 DEF NumBits
<1> QED BY <1>5, TwoToFacts

\* What the next buffers of a stream hold.
LEMMA BuffersType ==
  ASSUME NEW K \in Nat, NEW stream \in [0 .. K - 1 -> Seq(Nat)],
         NEW from \in Nat, NEW n \in Nat, from + n =< K,
         NEW c, c = CHOOSE x : x = [k \in 0 .. n |->
                      IF k = 0 THEN <<>> ELSE x[k - 1] \o stream[from + k - 1]]
  PROVE  c[n] \in Seq(Nat)
<1> DEFINE A == Seq(Nat)
           Put(k, s) == IF k < n THEN s \o stream[from + (k + 1) - 1] ELSE s
           step == [s \in Nat \X A |-> Put(s[1], s[2])]
           G(x) == [k \in 0 .. n |-> IF k = 0 THEN <<>> ELSE x[k - 1] \o stream[from + k - 1]]
<1>1. ASSUME NEW k \in Nat, NEW s \in A PROVE Put(k, s) \in A
  <2>1. CASE k < n
    <3>1. from + (k + 1) - 1 \in 0 .. K - 1
      BY <2>1
    <3>2. stream[from + (k + 1) - 1] \in Seq(Nat)
      BY <3>1
    <3>3. s \o stream[from + (k + 1) - 1] \in Seq(Nat)
      BY <3>2, ConcatProperties
    <3> QED BY <2>1, <3>3
  <2> QED BY <2>1
<1> HIDE DEF Put, A
<1>2. step \in [Nat \X A -> A] /\ \A k \in Nat, s \in A : step[<<k, s>>] = Put(k, s)
  BY <1>1
<1> HIDE DEF step
<1>0. n \in Nat
  OBVIOUS
<1>3. <<>> \in A
  BY EmptySeq DEF A
<1>4. PICK f : IsSegment(f, n, A, <<>>, step)
  <2> DEFINE none == <<>>
  <2>1. none \in A
    BY <1>3
  <2> HIDE DEF none
  <2>2. \E f : IsSegment(f, n, A, none, step)
    BY ONLY <1>0, <1>2, <2>1, SegmentExists
  <2> QED BY <2>2 DEF none
<1>5. f \in [0 .. n -> A] /\ f = [k \in 0 .. n |-> f[k]] /\ f[0] = <<>> /\ \A k \in 1 .. n : f[k] = step[<<k - 1, f[k - 1]>>]
  BY <1>4 DEF IsSegment
<1>6. ASSUME NEW k \in 1 .. n PROVE f[k] = f[k - 1] \o stream[from + k - 1]
  <2>1. k - 1 \in Nat /\ k - 1 \in 0 .. n /\ k - 1 < n /\ (k - 1) + 1 = k /\ f[k - 1] \in A
    BY <1>5
  <2>2. f[k] = Put(k - 1, f[k - 1])
    BY <1>2, <1>5, <2>1
  <2> QED BY <2>1, <2>2 DEF Put
<1>7. f = G(f)
  <2>1. ASSUME NEW k \in 0 .. n
        PROVE  f[k] = IF k = 0 THEN <<>> ELSE f[k - 1] \o stream[from + k - 1]
    <3>1. CASE k = 0
      BY <3>1, <1>5
    <3>2. CASE k # 0
      <4>1. k \in 1 .. n
        BY <3>2
      <4> QED BY <4>1, <3>2, <1>6
    <3> QED BY <3>1, <3>2
  <2>2. [k \in 0 .. n |-> f[k]] = G(f)
    BY <2>1, Zenon
  <2> QED BY <2>2, <1>5
<1>8. c = G(c)
  BY <1>7, Zenon
<1>9. \A k \in 0 .. n : c[k] = IF k = 0 THEN <<>> ELSE c[k - 1] \o stream[from + k - 1]
  <2> HIDE DEF G
  <2>1. ASSUME NEW k \in 0 .. n
        PROVE  G(c)[k] = IF k = 0 THEN <<>> ELSE c[k - 1] \o stream[from + k - 1]
    BY Zenon DEF G
  <2>2. ASSUME NEW k \in 0 .. n
        PROVE  c[k] = IF k = 0 THEN <<>> ELSE c[k - 1] \o stream[from + k - 1]
    <3>1. c[k] = G(c)[k]
      BY <1>8
    <3> QED BY <2>1, <3>1, Zenon
  <2> QED BY <2>2
<1>10. c[0] = f[0]
  <2>1. 0 \in 0 .. n
    OBVIOUS
  <2>2. c[0] = <<>>
    BY ONLY <1>9, <2>1
  <2> QED BY <2>2, <1>5
<1>11. ASSUME NEW k \in 1 .. n, c[k - 1] = f[k - 1] PROVE c[k] = f[k]
  <2>1. k \in 0 .. n /\ k # 0
    OBVIOUS
  <2>2. c[k] = c[k - 1] \o stream[from + k - 1]
    BY ONLY <1>9, <2>1
  <2> QED BY <2>2, <1>6, <1>11
<1>12. c[n] = f[n]
  <2>1. n \in 0 .. n
    OBVIOUS
  <2>2. \A k \in 1 .. n : c[k - 1] = f[k - 1] => c[k] = f[k]
    BY ONLY <1>11
  <2> HIDE DEF G
  <2>3. Agree(c, f, n)
    BY ONLY <1>10, <2>2 DEF Agree
  <2> QED BY ONLY <1>0, <2>1, <2>3, AgreeFacts
<1>13. n \in 0 .. n
  OBVIOUS
<1> QED BY <1>5, <1>12, <1>13 DEF A

\* The numbers of a sequence that are below a bound once cut.
LEMMA GoodType ==
  ASSUME NEW q \in Positive, NEW all \in Seq(Nat), NEW t \in Positive,
         NEW c, c = CHOOSE x : x = [k \in 0 .. Len(all) |->
                      IF k = 0 THEN <<>>
                      ELSE x[k - 1] \o (IF all[k] % t < q THEN <<all[k] % t>> ELSE <<>>)]
  PROVE  c[Len(all)] \in Seq(0 .. q - 1)
<1> DEFINE n == Len(all)
           A == Seq(0 .. q - 1)
           More(k) == IF k \in 1 .. n /\ all[k] % t < q THEN <<all[k] % t>> ELSE <<>>
           Put(k, s) == s \o More(k + 1)
           step == [s \in Nat \X A |-> Put(s[1], s[2])]
           G(x) == [k \in 0 .. n |-> IF k = 0 THEN <<>>
                      ELSE x[k - 1] \o (IF all[k] % t < q THEN <<all[k] % t>> ELSE <<>>)]
<1>0. n \in Nat
  BY LenProperties
<1>1. ASSUME NEW k PROVE More(k) \in A
  <2>1. CASE k \in 1 .. n /\ all[k] % t < q
    <3>1. all[k] \in Nat
      BY <2>1, ElementOfSeq
    <3>2. all[k] % t \in Nat
      BY <3>1, DivMod
    <3>3. all[k] % t \in 0 .. q - 1
      BY <2>1, <3>2 DEF Positive
    <3> QED BY <2>1, <3>3
  <2>2. CASE ~(k \in 1 .. n /\ all[k] % t < q)
    BY <2>2, EmptySeq
  <2> QED BY <2>1, <2>2
<1> HIDE DEF n, More
<1>2. ASSUME NEW k \in Nat, NEW s \in A PROVE Put(k, s) \in A
  <2>1. More(k + 1) \in A
    BY <1>1
  <2> QED BY <2>1, ConcatProperties
<1>3. <<>> \in A
  BY EmptySeq
<1> HIDE DEF Put, A
<1>4. step \in [Nat \X A -> A] /\ \A k \in Nat, s \in A : step[<<k, s>>] = Put(k, s)
  BY <1>2
<1> HIDE DEF step
<1>5. PICK f : IsSegment(f, n, A, <<>>, step)
  <2> DEFINE none == <<>>
  <2>1. none \in A
    BY <1>3
  <2> HIDE DEF none
  <2>2. \E f : IsSegment(f, n, A, none, step)
    BY ONLY <1>0, <1>4, <2>1, SegmentExists
  <2> QED BY <2>2 DEF none
<1>6. f \in [0 .. n -> A] /\ f = [k \in 0 .. n |-> f[k]] /\ f[0] = <<>> /\ \A k \in 1 .. n : f[k] = step[<<k - 1, f[k - 1]>>]
  BY <1>5 DEF IsSegment
<1>7. ASSUME NEW k \in 1 .. n
      PROVE  f[k] = f[k - 1] \o (IF all[k] % t < q THEN <<all[k] % t>> ELSE <<>>)
  <2>1. k - 1 \in Nat /\ k - 1 \in 0 .. n /\ (k - 1) + 1 = k /\ f[k - 1] \in A
    BY <1>0, <1>6
  <2>2. f[k] = Put(k - 1, f[k - 1])
    BY <1>4, <1>6, <2>1
  <2>3. f[k] = f[k - 1] \o More(k)
    BY <2>1, <2>2 DEF Put
  <2>4. More(k) = IF all[k] % t < q THEN <<all[k] % t>> ELSE <<>>
    BY Zenon DEF More
  <2> QED BY <2>3, <2>4, Zenon
<1>8. f = G(f)
  <2>1. ASSUME NEW k \in 0 .. n
        PROVE  f[k] = IF k = 0 THEN <<>>
                      ELSE f[k - 1] \o (IF all[k] % t < q THEN <<all[k] % t>> ELSE <<>>)
    <3>1. CASE k = 0
      BY ONLY <3>1, <1>6
    <3>2. CASE k # 0
      <4>1. k \in 1 .. n
        BY <1>0, <3>2
      <4> QED BY <4>1, <3>2, <1>7, Zenon
    <3> QED BY <3>1, <3>2
  <2>2. [k \in 0 .. n |-> f[k]] = G(f)
    BY <2>1, Zenon
  <2> QED BY <2>2, <1>6
<1>9. c = G(c)
  <2>1. c = CHOOSE x : x = G(x)
    BY Zenon DEF n
  <2> QED BY <1>8, <2>1, Zenon
<1>10. \A k \in 0 .. n : c[k] = IF k = 0 THEN <<>>
                      ELSE c[k - 1] \o (IF all[k] % t < q THEN <<all[k] % t>> ELSE <<>>)
  <2> HIDE DEF G
  <2>1. ASSUME NEW k \in 0 .. n
        PROVE  G(c)[k] = IF k = 0 THEN <<>>
                      ELSE c[k - 1] \o (IF all[k] % t < q THEN <<all[k] % t>> ELSE <<>>)
    BY Zenon DEF G
  <2>2. ASSUME NEW k \in 0 .. n
        PROVE  c[k] = IF k = 0 THEN <<>>
                      ELSE c[k - 1] \o (IF all[k] % t < q THEN <<all[k] % t>> ELSE <<>>)
    <3>1. c[k] = G(c)[k]
      BY <1>9
    <3> QED BY <2>1, <3>1, Zenon
  <2> QED BY <2>2
<1>11. c[0] = f[0]
  <2>1. 0 \in 0 .. n
    BY <1>0
  <2>2. c[0] = <<>>
    BY ONLY <1>10, <2>1
  <2> QED BY <2>2, <1>6
<1>12. ASSUME NEW k \in 1 .. n, c[k - 1] = f[k - 1] PROVE c[k] = f[k]
  <2>1. k \in 0 .. n /\ k # 0
    BY <1>0
  <2>2. c[k] = c[k - 1] \o (IF all[k] % t < q THEN <<all[k] % t>> ELSE <<>>)
    BY ONLY <1>10, <2>1, Zenon
  <2> QED BY <2>2, <1>7, <1>12, Zenon
<1>13. n \in 0 .. n
  BY <1>0
<1>14. c[n] = f[n]
  <2>1. \A k \in 1 .. n : c[k - 1] = f[k - 1] => c[k] = f[k]
    BY ONLY <1>12
  <2>2. Agree(c, f, n)
    BY ONLY <1>11, <2>1 DEF Agree
  <2> QED BY ONLY <1>0, <1>13, <2>2, AgreeFacts
<1> QED BY <1>6, <1>14, <1>13 DEF A, n

\* The accepted draws are reduced numbers.
LEMMA AcceptedType ==
  ASSUME NEW i \in Chain, NEW K \in Nat, NEW stream \in [0 .. K - 1 -> Seq(Nat)],
         NEW from \in Nat, NEW n \in Nat, from + n =< K
  PROVE  Accepted(i, stream, from, n) \in Seq(0 .. Prime[i] - 1)
<1> DEFINE t == TwoTo[NumBits(Prime[i] - 1)]
           all == CHOOSE x : x = [k \in 0 .. n |->
                      IF k = 0 THEN <<>> ELSE x[k - 1] \o stream[from + k - 1]]
           b == all[n]
           q == Prime[i]
           c == CHOOSE x : x = [k \in 0 .. Len(b) |->
                      IF k = 0 THEN <<>>
                      ELSE x[k - 1] \o (IF b[k] % t < q THEN <<b[k] % t>> ELSE <<>>)]
<1>1. Accepted(i, stream, from, n) = c[Len(b)]
  BY Zenon DEF Accepted
<1>2. t \in Positive /\ q \in Positive
  <2>1. Prime[i] - 1 \in Nat
    BY PrimeFacts
  <2> QED BY <2>1, PrimeFacts, NumBitsFacts
<1>3. b \in Seq(Nat)
  BY BuffersType
<1> HIDE DEF b, t, q
<1>4. c[Len(b)] \in Seq(0 .. q - 1)
  BY ONLY <1>2, <1>3, GoodType
<1> HIDE DEF c
<1> QED BY <1>1, <1>4 DEF q

\* The places of the numbers of a finite set.
LEMMA PlaceFacts ==
  ASSUME NEW S \in SUBSET Nat, IsFiniteSet(S)
  PROVE  /\ Cardinality(S) \in Nat /\ \A i \in S : Place(S, i) \in 1 .. Cardinality(S)
         /\ \A i, k \in S : Place(S, i) = Place(S, k) => i = k
         /\ \A n \in 1 .. Cardinality(S) : \E i \in S : Place(S, i) = n
<1> DEFINE N == Cardinality(S)
           upto(i) == {k \in S : k =< i}
           p == [i \in S |-> Place(S, i)]
<1>0. N \in Nat /\ IsFiniteSet(1 .. N) /\ Cardinality(1 .. N) = N
  <2>1. N \in Nat
    BY FS_CardinalityType
  <2>2. 1 \in Int /\ N \in Int
    BY <2>1
  <2> HIDE DEF N
  <2> QED BY <2>1, <2>2, FS_Interval
<1>1. ASSUME NEW i \in S
      PROVE  upto(i) \in SUBSET S /\ IsFiniteSet(upto(i)) /\ Cardinality(upto(i)) \in Nat
             /\ Cardinality(upto(i)) =< N /\ Place(S, i) = Cardinality(upto(i))
  <2>1. upto(i) \in SUBSET S
    OBVIOUS
  <2>2. Place(S, i) = Cardinality(upto(i))
    BY Zenon DEF Place
  <2> HIDE DEF upto
  <2> QED BY <2>1, <2>2, FS_Subset, FS_CardinalityType
<1>2. ASSUME NEW i \in S PROVE Place(S, i) \in 1 .. N
  <2>1. Cardinality(upto(i)) # 0
    <3>1. i \in upto(i)
      OBVIOUS
    <3> HIDE DEF upto
    <3> QED BY <1>1, <3>1, FS_EmptySet
  <2> HIDE DEF upto, N
  <2> QED BY <1>0, <1>1, <2>1
<1>3. ASSUME NEW i \in S, NEW k \in S, i < k PROVE Place(S, i) # Place(S, k)
  <2>1. upto(i) \cup {k} \in SUBSET upto(k) /\ k \notin upto(i)
    <3>1. \A a \in S : a \in Nat
      OBVIOUS
    <3>2. ASSUME NEW x \in upto(i) \cup {k} PROVE x \in upto(k)
      <4>1. x \in S /\ (x =< i \/ x = k)
        OBVIOUS
      <4>2. x \in Nat /\ i \in Nat /\ k \in Nat
        BY <3>1, <4>1
      <4>3. x =< k
        BY <1>3, <4>1, <4>2
      <4> QED BY <4>1, <4>3
    <3>3. k \notin upto(i)
      BY <1>3, <3>1
    <3> QED BY <3>2, <3>3
  <2> HIDE DEF upto
  <2>2. Cardinality(upto(i) \cup {k}) = Cardinality(upto(i)) + 1
    BY <1>1, <2>1, FS_AddElement
  <2>3. Cardinality(upto(i) \cup {k}) =< Cardinality(upto(k))
    BY <1>1, <2>1, FS_Subset
  <2> QED BY <1>1, <2>2, <2>3
<1>4. \A i, k \in S : Place(S, i) = Place(S, k) => i = k
  <2>1. ASSUME NEW i \in S, NEW k \in S, Place(S, i) = Place(S, k) PROVE i = k
    <3>1. i \in Nat /\ k \in Nat /\ ~(i < k) /\ ~(k < i)
      BY <1>3, <2>1
    <3> QED BY <3>1
  <2> QED BY <2>1
<1>5. p \in Injection(S, 1 .. N)
  <2>1. p \in [S -> 1 .. N]
    BY <1>2
  <2>2. \A i, k \in S : p[i] = p[k] => i = k
    BY <1>4
  <2> HIDE DEF p, N
  <2> QED BY <2>1, <2>2 DEF Injection, IsInjective
<1>6. p \in Surjection(S, 1 .. N)
  <2> DEFINE T == 1 .. N
  <2>1. IsFiniteSet(S) /\ IsFiniteSet(T) /\ Cardinality(S) = Cardinality(T) /\ p \in Injection(S, T)
    BY <1>0, <1>5
  <2> HIDE DEF T, p
  <2>2. p \in Surjection(S, T)
    BY ONLY <2>1, FS_Injection
  <2> QED BY <2>2 DEF T
<1>7. ASSUME NEW n \in 1 .. N PROVE \E i \in S : Place(S, i) = n
  <2>1. \E i \in S : p[i] = n
    <3> HIDE DEF p, N
    <3> QED BY <1>6 DEF Surjection
  <2> QED BY <2>1
<1> QED BY <1>0, <1>2, <1>4, <1>7

\* One row takes at most as many buffers as are enough for any.
LEMMA BuffersFacts ==
  ASSUME NEW i \in Chain, NEW K \in Nat, NEW stream \in [0 .. K - 1 -> Seq(Nat)],
         K = Cardinality(DOMAIN stream),
         NEW b \in 1 .. K, NEW at \in 0 .. K - b, IsEnough(i, stream, at, b),
         NEW n, n = Buffers(i, stream, at)
  PROVE  /\ n \in 1 .. b /\ n \in Nat
         /\ SubSeq(Accepted(i, stream, at, n), 1, PhiM) \in [1 .. PhiM -> 0 .. Prime[i] - 1]
         /\ SubSeq(Accepted(i, stream, at, n), 1, PhiM) \in Seq(Nat)
<1> DEFINE S == {l \in Nat : l >= 1 /\ IsEnough(i, stream, at, l)}
<1>1. S \in SUBSET Nat /\ b \in S
  OBVIOUS
<1>2. PICK m \in S : \A l \in S : m =< l
  BY <1>1, LeastMember
<1>3. m \in 1 .. b /\ m \in 1 .. K
  BY <1>1, <1>2
<1>4. IsEnough(i, stream, at, m) /\ \A k \in 1 .. m - 1 : ~IsEnough(i, stream, at, k)
  BY <1>2, <1>3
<1>5. n \in 1 .. K /\ IsEnough(i, stream, at, n) /\ \A k \in 1 .. n - 1 : ~IsEnough(i, stream, at, k)
  BY <1>3, <1>4 DEF Buffers
<1>6. n =< m
  <2>1. ASSUME m < n PROVE FALSE
    <3>1. m \in 1 .. n - 1
      BY <1>3, <1>5, <2>1
    <3> QED BY <1>4, <1>5, <3>1
  <2> QED BY <1>3, <1>5, <2>1
<1>7. n \in 1 .. b /\ n \in Nat /\ at + n =< K /\ at \in Nat
  BY <1>3, <1>5, <1>6
<1> DEFINE a == Accepted(i, stream, at, n)
           s == SubSeq(a, 1, PhiM)
<1>8. a \in Seq(0 .. Prime[i] - 1) /\ Len(a) >= PhiM /\ Len(a) \in Nat
  <2>1. a \in Seq(0 .. Prime[i] - 1)
    BY <1>7, AcceptedType
  <2>2. Len(a) \in Nat
    BY <2>1, LenProperties
  <2> QED BY <1>5, <2>1, <2>2 DEF IsEnough
<1> HIDE DEF a
<1>9. \A l \in 1 .. PhiM : a[l] \in 0 .. Prime[i] - 1
  <2>1. ASSUME NEW l \in 1 .. PhiM PROVE a[l] \in 0 .. Prime[i] - 1
    <3>1. l \in 1 .. Len(a)
      BY <1>8, Degree
    <3> QED BY <1>8, <3>1, ElementOfSeq
  <2> QED BY <2>1
<1>10. s \in Seq(0 .. Prime[i] - 1) /\ Len(s) = PhiM
  <2> DEFINE R == 0 .. Prime[i] - 1
             one == 1
  <2>1. one \in Int /\ PhiM \in Int /\ \A l \in one .. PhiM : a[l] \in R
    BY <1>9, Degree
  <2> HIDE DEF R
  <2>2. SubSeq(a, one, PhiM) \in Seq(R) /\ Len(SubSeq(a, one, PhiM)) = IF one =< PhiM THEN PhiM - one + 1 ELSE 0
    <3> HIDE DEF one
    <3> QED BY <2>1, SubSeqProperties
  <2> QED BY <2>2, Degree DEF R
<1> HIDE DEF s
<1>11. s \in [1 .. PhiM -> 0 .. Prime[i] - 1]
  BY <1>10, LenProperties
<1>12. s \in Seq(Nat)
  <2>1. 0 .. Prime[i] - 1 \subseteq Nat
    BY PrimeFacts
  <2> QED BY <1>10, <2>1, SeqMonotonic
<1> QED BY <1>7, <1>11, <1>12 DEF s, a

\* The only member of a set with one.
LEMMA TheOnly ==
  ASSUME NEW y
  PROVE  The({y}) = y
BY DEF The

\* An element as it is drawn, the rows of the first n primes.
IsDrawn(d, n, S, b, from) ==
  /\ d \in [rows : Seq(Seq(Nat)), next : Nat]
  /\ Len(d.rows) = n /\ d.next =< from + n * b
  /\ \A i \in S : Place(S, i) =< n => d.rows[Place(S, i)] \in [1 .. PhiM -> 0 .. Prime[i] - 1]

\* Drawing one row more takes one part of the stream more.
LEMMA WithRowFacts ==
  ASSUME NEW S \in SUBSET Chain, NEW i \in S,
         NEW K \in Nat, NEW stream \in [0 .. K - 1 -> Seq(Nat)], K = Cardinality(DOMAIN stream),
         NEW b \in 1 .. K, NEW n \in Nat, Place(S, i) = n + 1,
         NEW from \in Nat, from + (n + 1) * b =< K,
         \A at \in 0 .. K - b : IsEnough(i, stream, at, b),
         NEW d, IsDrawn(d, n, S, b, from)
  PROVE  IsDrawn(WithRow(i, stream, d), n + 1, S, b, from)
<1> DEFINE l == Buffers(i, stream, d.next)
           row == SubSeq(Accepted(i, stream, d.next, l), 1, PhiM)
           e == [rows |-> Append(d.rows, row), next |-> d.next + l]
<1>1. WithRow(i, stream, d) = e
  <2>1. {[rows |-> Append(d.rows, SubSeq(Accepted(i, stream, d.next, k), 1, PhiM)),
          next |-> d.next + k] : k \in {Buffers(i, stream, d.next)}} = {e}
    BY Zenon
  <2> HIDE DEF e
  <2> QED BY <2>1, TheOnly, Zenon DEF WithRow
<1>2. /\ d \in [rows : Seq(Seq(Nat)), next : Nat] /\ d.rows \in Seq(Seq(Nat)) /\ d.next \in Nat
      /\ Len(d.rows) = n /\ d.next =< from + n * b
      /\ \A k \in S : Place(S, k) =< n => d.rows[Place(S, k)] \in [1 .. PhiM -> 0 .. Prime[k] - 1]
  BY DEF IsDrawn
<1>3. b \in Nat /\ n * b \in Int /\ (n + 1) * b = n * b + b
  <2>1. b \in Int /\ n \in Int /\ b \in Nat
    OBVIOUS
  <2>2. n * b \in Int /\ (n + 1) * b = n * b + 1 * b /\ 1 * b = b
    BY <2>1, IntRing
  <2> QED BY <2>1, <2>2
<1>4. d.next \in 0 .. K - b
  BY ONLY <1>2, <1>3, K \in Nat, from \in Nat, from + (n + 1) * b =< K
<1>5. i \in Chain /\ IsEnough(i, stream, d.next, b)
  BY <1>4
<1>6. l \in 1 .. b /\ l \in Nat /\ row \in [1 .. PhiM -> 0 .. Prime[i] - 1] /\ row \in Seq(Nat)
  BY <1>4, <1>5, BuffersFacts
<1> HIDE DEF l, row
<1>7. e \in [rows : Seq(Seq(Nat)), next : Nat] /\ e.rows = Append(d.rows, row) /\ e.next = d.next + l
  <2>1. Append(d.rows, row) \in Seq(Seq(Nat))
    BY <1>2, <1>6, AppendProperties
  <2>2. d.next + l \in Nat
    BY <1>2, <1>6
  <2> QED BY <2>1, <2>2
<1> HIDE DEF e
<1>8. /\ Len(e.rows) = n + 1 /\ e.rows[n + 1] = row
      /\ \A k \in 1 .. n : e.rows[k] = d.rows[k]
  <2>1. /\ Len(Append(d.rows, row)) = Len(d.rows) + 1
        /\ \A k \in 1 .. Len(d.rows) : Append(d.rows, row)[k] = d.rows[k]
        /\ Append(d.rows, row)[Len(d.rows) + 1] = row
    <3> DEFINE A == Seq(Nat)
               s == d.rows
    <3>1. s \in Seq(A) /\ row \in A
      BY <1>2, <1>6
    <3> HIDE DEF A, s
    <3>2. /\ Len(Append(s, row)) = Len(s) + 1
          /\ \A k \in 1 .. Len(s) : Append(s, row)[k] = s[k]
          /\ Append(s, row)[Len(s) + 1] = row
      BY ONLY <3>1, AppendProperties
    <3> QED BY <3>2 DEF s
  <2> QED BY <1>2, <1>7, <2>1
<1>9. e.next =< from + (n + 1) * b
  <2> DEFINE x == n * b
             y == (n + 1) * b
  <2>1. x \in Int /\ y = x + b /\ b \in Nat /\ l =< b /\ l \in Nat /\ d.next \in Nat /\ d.next =< from + x
    BY <1>2, <1>3, <1>6
  <2> HIDE DEF x, y
  <2>2. e.next =< from + y
    BY ONLY <1>7, <2>1, from \in Nat
  <2> QED BY <2>2 DEF y
<1>10. ASSUME NEW k \in S, Place(S, k) =< n + 1
       PROVE  e.rows[Place(S, k)] \in [1 .. PhiM -> 0 .. Prime[k] - 1]
  <2>1. /\ \A j \in S : Place(S, j) \in 1 .. Cardinality(S)
        /\ \A j, m \in S : Place(S, j) = Place(S, m) => j = m
    <3>1. S \in SUBSET Nat /\ IsFiniteSet(S)
      BY ChainSubset, ChainAssumption
    <3> QED BY <3>1, PlaceFacts
  <2>2. CASE Place(S, k) = n + 1
    <3>1. k = i
      BY <2>1, <2>2
    <3> QED BY <1>6, <1>8, <2>2, <3>1
  <2>3. CASE Place(S, k) # n + 1
    <3>1. Place(S, k) \in 1 .. n /\ Place(S, k) =< n
      BY <1>10, <2>1, <2>3
    <3>2. d.rows[Place(S, k)] \in [1 .. PhiM -> 0 .. Prime[k] - 1]
      BY ONLY k \in S, <1>2, <3>1
    <3>3. e.rows[Place(S, k)] = d.rows[Place(S, k)]
      BY ONLY <1>8, <3>1
    <3> QED BY ONLY <3>2, <3>3
  <2> QED BY <2>2, <2>3
<1> QED BY <1>1, <1>7, <1>8, <1>9, <1>10 DEF IsDrawn

\* A stream of K buffers, of which b are enough for a row.
IsStream(stream, K, b) ==
  /\ K \in Nat /\ K = Cardinality(DOMAIN stream) /\ stream \in [0 .. K - 1 -> Seq(Nat)]
  /\ b \in 1 .. K /\ \A i \in Chain, at \in 0 .. K - b : IsEnough(i, stream, at, b)

\* A stream that suffices holds enough for all rows.
LEMMA StreamFacts ==
  ASSUME NEW stream, NEW rows, Suffices(stream, rows)
  PROVE  \E K, b : IsStream(stream, K, b) /\ b * rows =< K
<1>1. PICK K : K = Cardinality(DOMAIN stream)
  OBVIOUS
<1>2. /\ IsFiniteSet(DOMAIN stream)
      /\ \E b \in 1 .. K : /\ stream \in [0 .. K - 1 -> Seq(Nat)]
                           /\ b * rows =< K
                           /\ \A i \in Chain, from \in 0 .. K - b : IsEnough(i, stream, from, b)
  BY <1>1 DEF Suffices
<1>3. K \in Nat
  BY <1>1, <1>2, FS_CardinalityType
<1> QED BY <1>1, <1>2, <1>3 DEF IsStream

\* randomize: a random stream makes an element over the same primes, from wherever there is
\* enough of it for the rows, and takes no more than that.
LEMMA RandomizedFrom ==
  ASSUME NEW S \in SUBSET Chain, NEW stream, NEW K, NEW b, IsStream(stream, K, b),
         NEW from \in Nat, from + Cardinality(S) * b =< K
  PROVE  LET d == Randomized(S, stream, from)
         IN /\ d = [rows |-> d.rows, next |-> d.next] /\ DOMAIN d.rows = S /\ Element(d.rows)
            /\ d.next \in Nat /\ d.next =< from + Cardinality(S) * b
<1> DEFINE N == Cardinality(S)
           A == [rows : Seq(Seq(Nat)), next : Nat]
           none == [rows |-> <<>>, next |-> from]
           at(n) == The({i \in S : Place(S, i) = n})
           W(n, d) == WithRow(at(n), stream, d)
           Put(n, d) == IF W(n + 1, d) \in A THEN W(n + 1, d) ELSE d
           step == [s \in Nat \X A |-> Put(s[1], s[2])]
           G(x) == [n \in 0 .. Cardinality(S) |-> IF n = 0 THEN [rows |-> <<>>, next |-> from]
                     ELSE The({WithRow(The({i \in S : Place(S, i) = n}), stream, d) : d \in {x[n - 1]}})]
           H(x) == [n \in 0 .. N |-> IF n = 0 THEN none ELSE W(n, x[n - 1])]
           c == CHOOSE x : x = G(x)
           last == [rows |-> [i \in S |-> [j \in Cols |-> (c[N]).rows[Place(S, i)][j + 1]]],
                    next |-> (c[N]).next]
<1>1. Randomized(S, stream, from) = last
  <2>1. Randomized(S, stream, from) =
          The({[rows |-> [i \in S |-> [j \in Cols |-> d.rows[Place(S, i)][j + 1]]],
                next |-> d.next] : d \in {c[Cardinality(S)]}})
    BY Zenon DEF Randomized
  <2> HIDE DEF c
  <2>2. {[rows |-> [i \in S |-> [j \in Cols |-> d.rows[Place(S, i)][j + 1]]],
          next |-> d.next] : d \in {c[Cardinality(S)]}} = {last}
    BY Zenon
  <2> HIDE DEF last
  <2> QED BY <2>1, <2>2, TheOnly
<1>2. /\ N \in Nat /\ \A i \in S : Place(S, i) \in 1 .. N
      /\ \A i, k \in S : Place(S, i) = Place(S, k) => i = k
      /\ \A n \in 1 .. N : \E i \in S : Place(S, i) = n
  <2>1. S \in SUBSET Nat /\ IsFiniteSet(S)
    BY ChainSubset, ChainAssumption
  <2> QED BY <2>1, PlaceFacts
<1>3. \A n \in 1 .. N : at(n) \in S /\ Place(S, at(n)) = n
  BY <1>2 DEF The
<1>4. K \in Nat /\ stream \in [0 .. K - 1 -> Seq(Nat)] /\ K = Cardinality(DOMAIN stream)
  BY DEF IsStream
<1>5. b \in 1 .. K /\ b \in Nat /\ \A i \in Chain, at1 \in 0 .. K - b : IsEnough(i, stream, at1, b)
  BY DEF IsStream
<1>6. \A n \in Nat : n < N => from + (n + 1) * b =< K
  <2>1. ASSUME NEW n \in Nat, n < N PROVE from + (n + 1) * b =< K
    <3>1. from + N * b =< K
      OBVIOUS
    <3> HIDE DEF N
    <3>2. b \in Nat /\ n + 1 \in Int /\ N \in Int /\ N - (n + 1) \in Nat /\ b \in Int
      BY <1>2, <1>5, <2>1
    <3>3. (N - (n + 1)) * b = N * b - (n + 1) * b /\ N * b \in Int /\ (n + 1) * b \in Int
      BY ONLY <3>2, IntRing
    <3>4. (N - (n + 1)) * b \in Nat
      BY <3>2
    <3> DEFINE x == N * b
               y == (n + 1) * b
    <3>5. x - y \in Nat /\ x \in Int /\ y \in Int /\ from + x =< K /\ K \in Int
      BY <1>4, <3>1, <3>3, <3>4
    <3> HIDE DEF x, y
    <3>6. from + y =< K
      BY ONLY <3>5, from \in Nat
    <3> QED BY <3>6 DEF y
  <2> QED BY <2>1
<1>7. ASSUME NEW n \in Nat, n < N, NEW d, IsDrawn(d, n, S, b, from) PROVE IsDrawn(W(n + 1, d), n + 1, S, b, from)
  <2>1. n + 1 \in 1 .. N
    BY <1>2, <1>7
  <2>2. at(n + 1) \in S /\ Place(S, at(n + 1)) = n + 1
    BY <1>3, <2>1
  <2>3. at(n + 1) \in Chain /\ \A at1 \in 0 .. K - b : IsEnough(at(n + 1), stream, at1, b)
    BY <1>5, <2>2
  <2>4. from + (n + 1) * b =< K
    BY <1>6, <1>7
  <2> HIDE DEF at
  <2> QED BY <1>4, <1>5, <1>7, <2>2, <2>3, <2>4, WithRowFacts
<1> HIDE DEF at
<1>8. none \in A /\ IsDrawn(none, 0, S, b, from)
  <2>1. <<>> \in Seq(Seq(Nat)) /\ Len(<<>>) = 0
    BY EmptySeq
  <2>2. 0 * b = 0
    <3>1. b \in Int
      BY <1>5
    <3> QED BY <3>1, IntRing
  <2>3. \A i \in S : ~(Place(S, i) =< 0)
    BY <1>2
  <2>4. none \in A /\ none.rows = <<>> /\ none.next = from
    BY <2>1
  <2> HIDE DEF none
  <2> QED BY <2>1, <2>2, <2>3, <2>4 DEF IsDrawn
<1> HIDE DEF none
<1>9. step \in [Nat \X A -> A] /\ \A n \in Nat, d \in A : step[<<n, d>>] = Put(n, d)
  <2>1. \A n \in Nat, d \in A : Put(n, d) \in A
    OBVIOUS
  <2> HIDE DEF Put, A
  <2> QED BY <2>1
<1> HIDE DEF step
<1>10. PICK f : IsSegment(f, N, A, none, step)
  <2> HIDE DEF A, Put, N
  <2> QED BY ONLY <1>2, <1>8, <1>9, SegmentExists
<1>11. /\ f \in [0 .. N -> A] /\ f = [k \in 0 .. N |-> f[k]]
       /\ f[0] = none /\ \A k \in 1 .. N : f[k] = step[<<k - 1, f[k - 1]>>]
  BY <1>10 DEF IsSegment
<1> HIDE DEF N
<1>12. ASSUME NEW n \in Nat, n < N, IsDrawn(f[n], n, S, b, from)
       PROVE  f[n + 1] = W(n + 1, f[n]) /\ IsDrawn(f[n + 1], n + 1, S, b, from)
  <2>1. IsDrawn(W(n + 1, f[n]), n + 1, S, b, from)
    BY <1>7, <1>12
  <2>2. W(n + 1, f[n]) \in A /\ f[n] \in A
    BY <1>12, <2>1 DEF IsDrawn
  <2>3. n + 1 \in 1 .. N /\ (n + 1) - 1 = n
    BY <1>2, <1>12
  <2>4. f[n + 1] = Put(n, f[n])
    <3> HIDE DEF Put, A
    <3> QED BY <1>9, <1>11, <2>2, <2>3
  <2>5. f[n + 1] = W(n + 1, f[n])
    <3> HIDE DEF A, W
    <3> QED BY <2>2, <2>4
  <2> HIDE DEF W
  <2> QED BY <2>1, <2>5
<1> DEFINE I == {n \in Nat : n =< N => IsDrawn(f[n], n, S, b, from)}
<1>13. 0 \in I
  BY <1>8, <1>11
<1>14. ASSUME NEW n \in Nat, n \in I PROVE n + 1 \in I
  <2>1. ASSUME n + 1 =< N PROVE IsDrawn(f[n + 1], n + 1, S, b, from)
    <3>1. n < N /\ IsDrawn(f[n], n, S, b, from)
      BY <1>2, <1>14, <2>1
    <3> QED BY <1>12, <3>1
  <2> QED BY <2>1
<1>15. \A n \in 0 .. N : IsDrawn(f[n], n, S, b, from)
  <2> HIDE DEF I
  <2>1. Nat \subseteq I
    BY <1>13, <1>14, Induction
  <2> QED BY <1>2, <2>1 DEF I
<1>16. \A n \in 1 .. N : f[n] = W(n, f[n - 1])
  <2>1. ASSUME NEW n \in 1 .. N PROVE f[n] = W(n, f[n - 1])
    <3>1. n - 1 \in Nat /\ n - 1 < N /\ n - 1 \in 0 .. N /\ (n - 1) + 1 = n
      BY <1>2
    <3>2. f[(n - 1) + 1] = W((n - 1) + 1, f[n - 1])
      <4> HIDE DEF W
      <4> QED BY <1>12, <1>15, <3>1
    <3> HIDE DEF W
    <3> QED BY <3>1, <3>2
  <2> QED BY <2>1
<1>17. \A x : G(x) = H(x)
  <2>1. ASSUME NEW x, NEW n \in 0 .. N
        PROVE  (IF n = 0 THEN [rows |-> <<>>, next |-> from]
                ELSE The({WithRow(The({i \in S : Place(S, i) = n}), stream, d) : d \in {x[n - 1]}}))
               = (IF n = 0 THEN none ELSE W(n, x[n - 1]))
    <3>1. none = [rows |-> <<>>, next |-> from]
      BY Zenon DEF none
    <3>2. {WithRow(The({i \in S : Place(S, i) = n}), stream, d) : d \in {x[n - 1]}} = {W(n, x[n - 1])}
      BY Zenon DEF at
    <3>3. The({W(n, x[n - 1])}) = W(n, x[n - 1])
      BY TheOnly
    <3> HIDE DEF none, W
    <3> QED BY <3>1, <3>2, <3>3, Zenon
  <2> HIDE DEF none, W
  <2> QED BY <2>1, Zenon DEF N
<1> HIDE DEF G
<1>18. f = H(f)
  <2>1. ASSUME NEW n \in 0 .. N PROVE f[n] = IF n = 0 THEN none ELSE W(n, f[n - 1])
    <3>1. CASE n = 0
      BY ONLY <3>1, <1>11
    <3>2. CASE n # 0
      <4>1. n \in 1 .. N
        BY <1>2, <3>2
      <4> HIDE DEF W
      <4> QED BY <3>2, <4>1, <1>16
    <3> QED BY <3>1, <3>2
  <2>2. [n \in 0 .. N |-> f[n]] = H(f)
    BY <2>1, Zenon
  <2> QED BY <1>11, <2>2
<1>19. c = H(c)
  <2>1. f = G(f)
    BY <1>17, <1>18, Zenon
  <2>2. c = G(c)
    BY <2>1, Zenon
  <2> QED BY <1>17, <2>2, Zenon
<1> HIDE DEF c
<1>20. \A n \in 0 .. N : c[n] = IF n = 0 THEN none ELSE W(n, c[n - 1])
  <2> HIDE DEF H
  <2>1. ASSUME NEW n \in 0 .. N PROVE H(c)[n] = IF n = 0 THEN none ELSE W(n, c[n - 1])
    BY Zenon DEF H
  <2>2. ASSUME NEW n \in 0 .. N PROVE c[n] = IF n = 0 THEN none ELSE W(n, c[n - 1])
    <3>1. c[n] = H(c)[n]
      BY <1>19
    <3> QED BY <2>1, <3>1, Zenon
  <2> QED BY <2>2
<1>21. Agree(c, f, N)
  <2>1. 0 \in 0 .. N
    BY <1>2
  <2>2. c[0] = f[0]
    <3> HIDE DEF W
    <3> QED BY ONLY <2>1, <1>11, <1>20
  <2>3. ASSUME NEW k \in 1 .. N, c[k - 1] = f[k - 1] PROVE c[k] = f[k]
    <3>1. k \in 0 .. N /\ k # 0
      BY <1>2
    <3>2. c[k] = W(k, c[k - 1])
      <4> HIDE DEF W
      <4> QED BY ONLY <3>1, <1>20
    <3>3. f[k] = W(k, f[k - 1])
      BY <1>16
    <3> HIDE DEF W
    <3> QED BY <2>3, <3>2, <3>3
  <2>4. \A k \in 1 .. N : c[k - 1] = f[k - 1] => c[k] = f[k]
    BY <2>3
  <2> QED BY ONLY <2>2, <2>4 DEF Agree
<1>22. IsDrawn(c[N], N, S, b, from)
  <2>1. N \in 0 .. N
    BY <1>2
  <2>2. c[N] = f[N]
    BY ONLY <1>2, <1>21, <2>1, AgreeFacts
  <2> QED BY <1>15, <2>1, <2>2
<1> DEFINE d == [i \in S |-> [j \in Cols |-> (c[N]).rows[Place(S, i)][j + 1]]]
<1>23. /\ Randomized(S, stream, from).rows = d /\ Randomized(S, stream, from).next = (c[N]).next
       /\ Randomized(S, stream, from) = [rows |-> Randomized(S, stream, from).rows,
                                         next |-> Randomized(S, stream, from).next]
  <2>1. last.rows = d /\ last.next = (c[N]).next /\ last = [rows |-> d, next |-> (c[N]).next]
    OBVIOUS
  <2> HIDE DEF last, d
  <2> QED BY <1>1, <2>1
<1>24. ASSUME NEW i \in S PROVE d[i] \in Rows(i)
  <2>1. Place(S, i) =< N
    BY <1>2
  <2>2. (c[N]).rows[Place(S, i)] \in [1 .. PhiM -> 0 .. Prime[i] - 1]
    BY <1>22, <2>1 DEF IsDrawn
  <2>3. \A j \in Cols : j + 1 \in 1 .. PhiM
    BY Degree DEF Cols
  <2> DEFINE r == (c[N]).rows[Place(S, i)]
  <2>4. \A j \in Cols : r[j + 1] \in 0 .. Prime[i] - 1
    <3> HIDE DEF r
    <3> QED BY <2>2, <2>3 DEF r
  <2>5. d[i] = [j \in Cols |-> r[j + 1]]
    OBVIOUS
  <2> HIDE DEF d, r
  <2> QED BY <2>4, <2>5 DEF Rows
<1>25. DOMAIN d = S /\ d = [i \in S |-> d[i]]
  OBVIOUS
<1> HIDE DEF d, last
<1>26. DOMAIN d = S /\ Element(d)
  BY <1>24, <1>25 DEF Element, IsElement
<1>27. (c[N]).next \in Nat /\ (c[N]).next =< from + N * b
  BY <1>22 DEF IsDrawn
<1> QED BY <1>23, <1>26, <1>27 DEF N

\* randomize, from the start of a stream for all rows.
LEMMA RandomizedElement ==
  ASSUME NEW S \in SUBSET Chain, NEW stream, Suffices(stream, Cardinality(Chain))
  PROVE  LET d == Randomized(S, stream, 0).rows IN DOMAIN d = S /\ Element(d)
<1>1. PICK K, b : IsStream(stream, K, b) /\ b * Cardinality(Chain) =< K
  BY StreamFacts
<1>2. Cardinality(S) \in Nat /\ Cardinality(Chain) \in Nat /\ Cardinality(S) =< Cardinality(Chain)
  BY ChainAssumption, FS_Subset, FS_CardinalityType
<1>3. b \in Nat /\ K \in Nat
  BY <1>1 DEF IsStream
<1>4. 0 + Cardinality(S) * b =< K
  <2> DEFINE n == Cardinality(S)
             m == Cardinality(Chain)
  <2>1. n \in Int /\ m \in Int /\ m - n \in Nat /\ b \in Int
    BY <1>2, <1>3
  <2> HIDE DEF n, m
  <2>2. (m - n) * b = m * b - n * b /\ m * b = b * m /\ m * b \in Int /\ n * b \in Int
    BY ONLY <2>1, IntRing
  <2>3. (m - n) * b \in Nat
    BY <1>3, <2>1
  <2>4. b * m =< K
    BY <1>1 DEF m
  <2>5. n * b =< K
    BY <1>3, <2>2, <2>3, <2>4
  <2> QED BY <1>2, <1>3, <2>2, <2>5 DEF n
<1> QED BY <1>1, <1>4, RandomizedFrom

-----------------------------------------------------------------------------
(* The operators of the instance of RingElements are those of DoubleCRT. *)

\* The cardinality that RingElements uses.
LEMMA RingCardinality ==
  ASSUME NEW S
  PROVE  Ring!Cardinality(S) = Cardinality(S)
BY Zenon DEF Ring!Cardinality, Cardinality, Ring!IsFiniteSet, IsFiniteSet

\* The columns of RingElements are those of the rows.
LEMMA RingColumns ==
  Ring!ZMStar = ZMStar /\ Ring!PhiM = PhiM /\ Ring!Cols = Cols
<1>1. Ring!ZMStar = ZMStar
  BY Zenon DEF Ring!ZMStar, ZMStar, Ring!Coprime, Coprime
<1>2. Ring!PhiM = PhiM
  BY Zenon, RingCardinality, <1>1 DEF Ring!PhiM, PhiM
<1>3. Ring!Cols = Cols
  BY Zenon, RingCardinality, <1>2 DEF Ring!Cols, Cols
<1> QED BY <1>1, <1>2, <1>3

\* The products of RingElements are those of the rows.
LEMMA RingProduct ==
  ASSUME NEW S
  PROVE  Ring!ProductOf(S) = ProductOf(S)
BY Zenon DEF Ring!ProductOf, ProductOf, FoldFunctionOnSet, MapThenFoldSet,
             Ring!FoldFunctionOnSet, Ring!MapThenFoldSet

\* The sums of RingElements are those of the rows.
LEMMA RingSum ==
  ASSUME NEW f
  PROVE  Ring!SumFunction(f) = SumFunction(f)
BY Zenon DEF Ring!SumFunction, SumFunction, FoldFunctionOnSet, MapThenFoldSet,
             Ring!FoldFunctionOnSet, Ring!MapThenFoldSet, Ring!SumFunctionOnSet, SumFunctionOnSet

\* The remainders of RingElements are those of the rows.
LEMMA RingRemainder ==
  ASSUME NEW f, NEW q
  PROVE  Ring!Remainder(f, q) = Remainder(f, q)
<1>1. Ring!XPower = XPower
  BY ONLY ZenonT(60), RingColumns DEF Ring!XPower, XPower
<1> QED BY Zenon, <1>1, RingColumns, RingSum DEF Ring!Remainder, Remainder

\* The arithmetic of RingElements is that of the rows.
LEMMA RingArithmetic ==
  ASSUME NEW f, NEW g, NEW q, NEW k
  PROVE  /\ Ring!Mod(f, q) = Mod(f, q)
         /\ Ring!Balanced(k, q) = Balanced(k, q)
         /\ Ring!Plus(f, g, q) = Plus(f, g, q) /\ Ring!Minus(f, g, q) = Minus(f, g, q)
         /\ Ring!Times(f, g, q) = Times(f, g, q)
         /\ Ring!AtPower(f, k, q) = AtPower(f, k, q)
         /\ Ring!Scaled(f, k, q) = Scaled(f, k, q)
         /\ Ring!Ring(k, f, g, q) = RingOf(k, f, g, q)
<1>1. Ring!Mod(f, q) = Mod(f, q)
  BY Zenon DEF Ring!Mod, Mod
<1>2. Ring!Balanced(k, q) = Balanced(k, q)
  BY Zenon DEF Ring!Balanced, Balanced
<1>3. Ring!Plus(f, g, q) = Plus(f, g, q) /\ Ring!Minus(f, g, q) = Minus(f, g, q)
  BY Zenon, RingColumns DEF Ring!Plus, Plus, Ring!Minus, Minus
<1>4. Ring!Times(f, g, q) = Times(f, g, q)
  BY Zenon, RingColumns, RingSum, RingRemainder DEF Ring!Times, Times
<1>5. Ring!AtPower(f, k, q) = AtPower(f, k, q)
  BY Zenon, RingColumns, RingSum, RingRemainder DEF Ring!AtPower, AtPower
<1>6. Ring!Scaled(f, k, q) = Scaled(f, k, q)
  BY Zenon, RingColumns DEF Ring!Scaled, Scaled
<1>7. Ring!Ring(k, f, g, q) = RingOf(k, f, g, q)
  BY Zenon, <1>3, <1>4 DEF Ring!Ring, RingOf
<1> QED BY <1>1, <1>2, <1>3, <1>4, <1>5, <1>6, <1>7

-----------------------------------------------------------------------------
(* Every call does to the objects what the ring does. *)

\* The objects are elements.
Elements == dcrt = [x \in Objs |-> dcrt[x]] /\ \A x \in Objs : Element(dcrt[x])

\* The ring element of an object.
RingElement(d) == [primes |-> DOMAIN d, poly |-> PolyModulo(d)]
Abstract == [x \in Objs |-> RingElement(dcrt[x])]

\* The abstract operators, over the objects.
LEMMA RingObjects ==
  ASSUME NEW x \in Objs, Elements
  PROVE  /\ Ring!Primes(x) = DOMAIN dcrt[x] /\ Ring!Poly(x) = PolyModulo(dcrt[x])
         /\ Ring!Modulus(x) = ProductOf(DOMAIN dcrt[x])
         /\ Ring!Lift(x) = ToPoly(dcrt[x], DOMAIN dcrt[x])
<1>1. Ring!Primes(x) = DOMAIN dcrt[x] /\ Ring!Poly(x) = PolyModulo(dcrt[x])
  BY DEF Ring!Primes, Ring!Poly
<1>2. Ring!Modulus(x) = ProductOf(DOMAIN dcrt[x])
  BY Zenon, <1>1, RingProduct DEF Ring!Modulus
<1>3. Ring!Lift(x) = [h \in Cols |-> Balanced(PolyModulo(dcrt[x])[h], ProductOf(DOMAIN dcrt[x]))]
  BY Zenon, <1>1, <1>2, RingColumns, RingArithmetic DEF Ring!Lift
<1>4. Element(dcrt[x])
  BY DEF Elements
<1> QED BY <1>1, <1>2, <1>3, <1>4, ElementRepresents

\* What a call returns, when it represents a polynomial over some primes.
LEMMA ReturnsIs ==
  ASSUME Elements, NEW x \in Objs, NEW c, NEW d, Returns(c, x, d),
         NEW S \in SUBSET Chain, NEW f \in [Cols -> Int], Represents(d, S, f)
  PROVE  /\ Elements' /\ call' = c
         /\ Abstract' = [Abstract EXCEPT ![x] = [primes |-> S, poly |-> Ring!Mod(f, Ring!ProductOf(S))]]
<1>1. DOMAIN d = S /\ Element(d) /\ PolyModulo(d) = Mod(f, ProductOf(S))
  BY RepresentedElement, RepresentedModulo
<1>2. dcrt' = [dcrt EXCEPT ![x] = d] /\ call' = c
  BY DEF Returns
<1>3. dcrt = [y \in Objs |-> dcrt[y]] /\ \A y \in Objs : Element(dcrt[y])
  BY DEF Elements
<1>4. dcrt' = [y \in Objs |-> IF y = x THEN d ELSE dcrt[y]]
  BY <1>2, <1>3
<1>5. Elements'
  BY <1>1, <1>3, <1>4 DEF Elements
<1>6. Abstract' = [Abstract EXCEPT ![x] = [primes |-> S, poly |-> Mod(f, ProductOf(S))]]
  <2>1. ASSUME NEW y \in Objs
        PROVE  RingElement(dcrt'[y]) =
                 IF y = x THEN [primes |-> S, poly |-> Mod(f, ProductOf(S))] ELSE RingElement(dcrt[y])
    <3>1. CASE y = x
      <4>1. dcrt'[y] = d
        BY <1>4, <3>1
      <4> QED BY <1>1, <3>1, <4>1 DEF RingElement
    <3>2. CASE y # x
      <4>1. dcrt'[y] = dcrt[y]
        BY <1>4, <3>2
      <4> QED BY <3>2, <4>1
    <3> QED BY <3>1, <3>2
  <2> QED BY <2>1 DEF Abstract
<1>7. Ring!Mod(f, Ring!ProductOf(S)) = Mod(f, ProductOf(S))
  BY RingArithmetic, RingProduct
<1> QED BY <1>2, <1>5, <1>6, <1>7

\* An object stands for a polynomial.
LEMMA ObjectFacts ==
  ASSUME Elements, NEW x \in Objs, NEW S, S = DOMAIN dcrt[x], NEW f, f = PolyModulo(dcrt[x])
  PROVE  /\ S \in SUBSET Chain /\ f \in [Cols -> Int] /\ Represents(dcrt[x], S, f)
         /\ ProductOf(S) \in Positive /\ f \in [Cols -> 0 .. ProductOf(S) - 1]
         /\ Element(dcrt[x])
<1>1. Element(dcrt[x])
  BY DEF Elements
<1> QED BY <1>1, ElementRepresents, ProductPositive

\* Conversion of a polynomial is the ring's assignment.
LEMMA AssignStep ==
  ASSUME Elements, NEW x \in Objs, Assign(x)
  PROVE  Elements' /\ Ring!Assign(call')
<1>1. PICK S \in PrimeSets, f \in Polys :
        Returns([op |-> "assign", x |-> x, throws |-> FALSE, S |-> S, f |-> f], x, Converted(f, S))
  BY DEF Assign
<1> DEFINE c == [op |-> "assign", x |-> x, throws |-> FALSE, S |-> S, f |-> f]
<1>2. c.op = "assign" /\ c.x = x /\ c.throws = FALSE /\ c.S = S /\ c.f = f
  OBVIOUS
<1>3. Returns(c, x, Converted(f, S))
  BY <1>1
<1> HIDE DEF c
<1>4. S \in SUBSET Chain /\ f \in [Cols -> Int]
  BY ArgumentsAssumption
<1>5. Represents(Converted(f, S), S, f)
  BY <1>4, ConvertedValue
<1>6. /\ Elements' /\ call' = c
      /\ Abstract' = [Abstract EXCEPT ![x] = [primes |-> S, poly |-> Ring!Mod(f, Ring!ProductOf(S))]]
  BY <1>3, <1>4, <1>5, ReturnsIs
<1>7. Ring!Assign(call')
  BY <1>2, <1>6 DEF Ring!Assign, Ring!Is, Abstract, RingElement
<1> QED BY <1>6, <1>7

\* Assignment of an object is the ring's copy.
LEMMA CopyStep ==
  ASSUME Elements, NEW x \in Objs, NEW y \in Objs, Copy(x, y)
  PROVE  Elements' /\ Ring!Copy(call')
<1> DEFINE c == [op |-> "copy", x |-> x, throws |-> FALSE, y |-> y]
<1>1. Returns(c, x, dcrt[y])
  BY DEF Copy
<1>2. c.op = "copy" /\ c.x = x /\ c.throws = FALSE /\ c.y = y
  OBVIOUS
<1> HIDE DEF c
<1>3. PICK S, f : S = DOMAIN dcrt[y] /\ f = PolyModulo(dcrt[y])
  OBVIOUS
<1>4. S \in SUBSET Chain /\ f \in [Cols -> Int] /\ Represents(dcrt[y], S, f)
  BY <1>3, ObjectFacts
<1>5. /\ Elements' /\ call' = c
      /\ Abstract' = [Abstract EXCEPT ![x] = [primes |-> S, poly |-> Ring!Mod(f, Ring!ProductOf(S))]]
  BY <1>1, <1>4, ReturnsIs
<1>6. Ring!Copy(call')
  BY <1>2, <1>3, <1>5 DEF Ring!Copy, Ring!Is, Ring!Primes, Ring!Poly, Abstract, RingElement
<1> QED BY <1>5, <1>6

\* Negate is the ring's negation.
LEMMA NegateStep ==
  ASSUME Elements, NEW x \in Objs, NEW y \in Objs, Negate(x, y)
  PROVE  Elements' /\ Ring!Negate(call')
<1> DEFINE c == [op |-> "negate", x |-> x, throws |-> FALSE, y |-> y]
<1>1. Returns(c, x, Negated(dcrt[y]))
  BY DEF Negate
<1>2. c.op = "negate" /\ c.x = x /\ c.throws = FALSE /\ c.y = y
  OBVIOUS
<1> HIDE DEF c
<1>3. PICK S, f : S = DOMAIN dcrt[y] /\ f = PolyModulo(dcrt[y])
  OBVIOUS
<1>4. S \in SUBSET Chain /\ f \in [Cols -> Int] /\ Represents(dcrt[y], S, f)
  BY <1>3, ObjectFacts
<1>5. PICK g : g = [h \in Cols |-> -f[h]]
  OBVIOUS
<1>6. g \in [Cols -> Int] /\ Represents(Negated(dcrt[y]), S, g)
  BY <1>4, <1>5, NegatedRepresents
<1>7. /\ Elements' /\ call' = c
      /\ Abstract' = [Abstract EXCEPT ![x] = [primes |-> S, poly |-> Ring!Mod(g, Ring!ProductOf(S))]]
  BY <1>1, <1>4, <1>6, ReturnsIs
<1>8. Ring!Negate(call')
  <2>1. Ring!Poly((call').y) = f
    BY <1>2, <1>3, <1>7 DEF Ring!Poly
  <2>2. [h \in Ring!Cols |-> -Ring!Poly((call').y)[h]] = g
    BY Zenon, <1>5, <2>1, RingColumns
  <2> QED BY <1>2, <1>3, <1>7, <2>2 DEF Ring!Negate, Ring!Is, Ring!Primes, Ring!Poly, Abstract, RingElement
<1> QED BY <1>7, <1>8

\* randomize yields some element over the same primes.
LEMMA RandomizeStep ==
  ASSUME Elements, NEW x \in Objs, Randomize(x)
  PROVE  Elements' /\ Ring!Randomize(call')
<1>1. PICK stream \in Streams :
        Returns([op |-> "randomize", x |-> x, throws |-> FALSE], x,
                Randomized(DOMAIN dcrt[x], stream, 0).rows)
  BY DEF Randomize
<1> DEFINE c == [op |-> "randomize", x |-> x, throws |-> FALSE]
<1>2. c.op = "randomize" /\ c.x = x /\ c.throws = FALSE
  OBVIOUS
<1>3. PICK S, d, f : S = DOMAIN dcrt[x] /\ d = Randomized(S, stream, 0).rows /\ f = PolyModulo(d)
  OBVIOUS
<1>4. Returns(c, x, d)
  BY <1>1, <1>3
<1> HIDE DEF c
<1>5. S \in SUBSET Chain
  BY <1>3, ObjectFacts
<1>6. DOMAIN d = S /\ Element(d)
  <2>1. Suffices(stream, Cardinality(Chain))
    BY ArgumentsAssumption
  <2> QED BY <1>3, <1>5, <2>1, RandomizedElement
<1>7. f \in [Cols -> Int] /\ Represents(d, S, f)
  BY <1>3, <1>6, ElementRepresents
<1>8. /\ Elements' /\ call' = c
      /\ Abstract' = [Abstract EXCEPT ![x] = [primes |-> S, poly |-> Ring!Mod(f, Ring!ProductOf(S))]]
  BY <1>4, <1>5, <1>7, ReturnsIs
<1>9. dcrt'[x] = d
  BY <1>4 DEF Returns, Elements
<1>10. Ring!Randomize(call')
  BY <1>2, <1>3, <1>8, <1>9 DEF Ring!Randomize, Ring!Is, Ring!Primes, Abstract, RingElement
<1> QED BY <1>8, <1>10

\* Op with a polynomial is the ring's operation.
LEMMA CombineWithPolyStep ==
  ASSUME Elements, NEW x \in Objs, CombineWithPoly(x)
  PROVE  Elements' /\ Ring!CombineWithPoly(call')
<1>1. PICK fun \in {"add", "sub", "mul"}, f \in Polys :
        Returns([op |-> "combine with poly", x |-> x, throws |-> FALSE, fun |-> fun, f |-> f], x,
                OpPoly(fun, dcrt[x], f))
  BY DEF CombineWithPoly
<1> DEFINE c == [op |-> "combine with poly", x |-> x, throws |-> FALSE, fun |-> fun, f |-> f]
<1>2. c.op = "combine with poly" /\ c.x = x /\ c.throws = FALSE /\ c.fun = fun /\ c.f = f
  OBVIOUS
<1>3. Returns(c, x, OpPoly(fun, dcrt[x], f)) /\ fun \in Funs
  BY <1>1 DEF Funs
<1> HIDE DEF c
<1>4. PICK S, e : S = DOMAIN dcrt[x] /\ e = PolyModulo(dcrt[x])
  OBVIOUS
<1>5. S \in SUBSET Chain /\ e \in [Cols -> Int] /\ Represents(dcrt[x], S, e)
  BY <1>4, ObjectFacts
<1>6. f \in [Cols -> Int] /\ Represents(Converted(f, S), S, f)
  BY <1>5, ConvertedValue, ArgumentsAssumption
<1>7. PICK g : g = RingOf(fun, e, f, ProductOf(S))
  OBVIOUS
<1>8. g \in [Cols -> Int] /\ Represents(Op(fun, dcrt[x], Converted(f, S)), S, g)
  BY <1>3, <1>5, <1>6, <1>7, OpRepresents
<1>9. OpPoly(fun, dcrt[x], f) = Op(fun, dcrt[x], Converted(f, S))
  BY <1>4 DEF OpPoly
<1>10. /\ Elements' /\ call' = c
       /\ Abstract' = [Abstract EXCEPT ![x] = [primes |-> S, poly |-> Ring!Mod(g, Ring!ProductOf(S))]]
  BY <1>3, <1>5, <1>8, <1>9, ReturnsIs
<1>11. g = Ring!Ring(fun, e, f, Ring!ProductOf(S))
  BY <1>7, RingProduct, RingArithmetic
<1>12. Ring!CombineWithPoly(call')
  BY <1>2, <1>4, <1>10, <1>11
  DEF Ring!CombineWithPoly, Ring!Is, Ring!Primes, Ring!Poly, Ring!Modulus, Abstract, RingElement
<1> QED BY <1>10, <1>12

\* Op with an object is the ring's operation, or throws just when the primes do not fit.
LEMMA CombineStep ==
  ASSUME Elements, NEW x \in Objs, NEW y \in Objs, Combine(x, y)
  PROVE  Elements' /\ Ring!Combine(call')
<1>1. PICK fun \in {"add", "sub", "mul"}, match \in BOOLEAN :
        IF OpThrows(dcrt[x], dcrt[y], match)
        THEN Throws([op |-> "combine", x |-> x, throws |-> FALSE, y |-> y, fun |-> fun, match |-> match], x)
        ELSE Returns([op |-> "combine", x |-> x, throws |-> FALSE, y |-> y, fun |-> fun, match |-> match], x,
                     Op(fun, dcrt[x], dcrt[y]))
  BY Zenon DEF Combine
<1> DEFINE c == [op |-> "combine", x |-> x, throws |-> FALSE, y |-> y, fun |-> fun, match |-> match]
           t == [c EXCEPT !.throws = TRUE]
<1>2. /\ c.op = "combine" /\ c.x = x /\ c.throws = FALSE /\ c.y = y /\ c.fun = fun /\ c.match = match
      /\ t.op = "combine" /\ t.x = x /\ t.throws = TRUE /\ t.y = y /\ t.fun = fun /\ t.match = match
      /\ fun \in Funs
  BY DEF Funs
<1>0. t = [c EXCEPT !.throws = TRUE]
  BY Zenon
<1>3. IF OpThrows(dcrt[x], dcrt[y], match) THEN Throws(c, x)
      ELSE Returns(c, x, Op(fun, dcrt[x], dcrt[y]))
  BY <1>1
<1> HIDE DEF c, t
<1>4. PICK S, T, e, f : /\ S = DOMAIN dcrt[x] /\ e = PolyModulo(dcrt[x])
                        /\ T = DOMAIN dcrt[y] /\ f = PolyModulo(dcrt[y])
  OBVIOUS
<1>5. /\ S \in SUBSET Chain /\ e \in [Cols -> Int] /\ Represents(dcrt[x], S, e)
      /\ T \in SUBSET Chain /\ f \in [Cols -> Int] /\ Represents(dcrt[y], T, f)
  BY <1>4, ObjectFacts
<1>6. OpThrows(dcrt[x], dcrt[y], match) <=> (~(S \subseteq T) \/ (match /\ S # T))
  BY <1>4 DEF OpThrows
<1>7. CASE OpThrows(dcrt[x], dcrt[y], match)
  <2>1. Throws(c, x)
    BY <1>3, <1>7
  <2>2. dcrt' = dcrt /\ call' = t
    BY <1>0, <2>1 DEF Throws
  <2>3. Elements'
    BY <2>2 DEF Elements
  <2>4. ~(S \subseteq T) \/ (match /\ S # T)
    BY <1>6, <1>7
  <2>5. Ring!Combine(call')
    BY <1>2, <1>4, <2>2, <2>4 DEF Ring!Combine, Ring!ThrowsIf, Ring!Primes
  <2> QED BY <2>3, <2>5
<1>8. CASE ~OpThrows(dcrt[x], dcrt[y], match)
  <2>1. Returns(c, x, Op(fun, dcrt[x], dcrt[y])) /\ S \subseteq T /\ ~(match /\ S # T)
    BY <1>3, <1>6, <1>8
  <2>2. PICK g : g = RingOf(fun, e, f, ProductOf(S))
    OBVIOUS
  <2>3. g \in [Cols -> Int] /\ Represents(Op(fun, dcrt[x], dcrt[y]), S, g)
    BY <1>2, <1>5, <2>1, <2>2, OpRepresents
  <2>4. /\ Elements' /\ call' = c
        /\ Abstract' = [Abstract EXCEPT ![x] = [primes |-> S, poly |-> Ring!Mod(g, Ring!ProductOf(S))]]
    BY <1>5, <2>1, <2>3, ReturnsIs
  <2>5. g = Ring!Ring(fun, e, f, Ring!ProductOf(S))
    BY <2>2, RingProduct, RingArithmetic
  <2>6. Ring!Combine(call')
    <3>1. /\ Ring!Primes(x) = S /\ Ring!Poly(x) = e /\ Ring!Modulus(x) = Ring!ProductOf(S)
          /\ Ring!Primes(y) = T /\ Ring!Poly(y) = f
      BY <1>4, RingObjects DEF Ring!Modulus
    <3>2. /\ (call').op = "combine" /\ (call').x = x /\ (call').throws = FALSE
          /\ (call').y = y /\ (call').fun = fun /\ (call').match = match
      BY ONLY <1>2, <2>4
    <3>3. PICK h, U, Q : /\ U = Ring!Primes((call').x) /\ Q = Ring!ProductOf(U)
                         /\ h = Ring!Ring((call').fun, Ring!Poly((call').x),
                                          Ring!Poly((call').y), Ring!Modulus((call').x))
      OBVIOUS
    <3>4. U = S /\ h = g
      BY ONLY <2>5, <3>1, <3>2, <3>3
    <3>6. ([z \in Objs |-> [primes |-> DOMAIN dcrt[z], poly |-> PolyModulo(dcrt[z])]])' =
            [[z \in Objs |-> [primes |-> DOMAIN dcrt[z], poly |-> PolyModulo(dcrt[z])]]
               EXCEPT ![(call').x] = [primes |-> U, poly |-> Ring!Mod(h, Q)]]
      BY ONLY <2>4, <3>2, <3>3, <3>4 DEF Abstract, RingElement
    <3>7. ([z \in Objs |-> [primes |-> DOMAIN dcrt[z], poly |-> PolyModulo(dcrt[z])]])' =
            [[z \in Objs |-> [primes |-> DOMAIN dcrt[z], poly |-> PolyModulo(dcrt[z])]]
               EXCEPT ![(call').x] =
                 [primes |-> Ring!Primes((call').x),
                  poly |-> Ring!Mod(Ring!Ring((call').fun, Ring!Poly((call').x),
                                              Ring!Poly((call').y), Ring!Modulus((call').x)),
                                    Ring!ProductOf(Ring!Primes((call').x)))]]
      BY Zenon, <3>3, <3>6
    <3>5. ~(\/ ~(Ring!Primes((call').x) \subseteq Ring!Primes((call').y))
            \/ (call').match /\ Ring!Primes((call').x) # Ring!Primes((call').y))
      BY Zenon, <2>1, <3>1, <3>2
    <3> QED BY Zenon, <3>2, <3>5, <3>7 DEF Ring!Combine, Ring!Is
  <2> QED BY <2>4, <2>6
<1> QED BY <1>7, <1>8

\* Op with a number is the ring's operation.
LEMMA CombineWithNumStep ==
  ASSUME Elements, NEW x \in Objs, CombineWithNum(x)
  PROVE  Elements' /\ Ring!CombineWithNum(call')
<1>1. PICK fun \in {"add", "sub", "mul"}, n \in Nums :
        Returns([op |-> "combine with num", x |-> x, throws |-> FALSE, fun |-> fun, n |-> n], x,
                OpNum(fun, dcrt[x], n))
  BY DEF CombineWithNum
<1> DEFINE c == [op |-> "combine with num", x |-> x, throws |-> FALSE, fun |-> fun, n |-> n]
<1>2. /\ c.op = "combine with num" /\ c.x = x /\ c.throws = FALSE /\ c.fun = fun /\ c.n = n
      /\ fun \in Funs /\ n \in Int
  BY ArgumentsAssumption DEF Funs
<1>3. Returns(c, x, OpNum(fun, dcrt[x], n))
  BY <1>1
<1> HIDE DEF c
<1>4. PICK S, e : S = DOMAIN dcrt[x] /\ e = PolyModulo(dcrt[x])
  OBVIOUS
<1>5. S \in SUBSET Chain /\ e \in [Cols -> Int] /\ Represents(dcrt[x], S, e)
  BY <1>4, ObjectFacts
<1>6. PICK f : f = NumPoly(n)
  OBVIOUS
<1>7. f \in [Cols -> Int] /\ Represents(Constant(n, S), S, f)
  BY <1>2, <1>5, <1>6, NumPolyRepresented
<1>8. PICK g : g = RingOf(fun, e, f, ProductOf(S))
  OBVIOUS
<1>9. g \in [Cols -> Int] /\ Represents(Op(fun, dcrt[x], Constant(n, S)), S, g)
  BY <1>2, <1>5, <1>7, <1>8, OpRepresents
<1>10. OpNum(fun, dcrt[x], n) = Op(fun, dcrt[x], Constant(n, S))
  BY <1>4, OpNumIs
<1>11. /\ Elements' /\ call' = c
       /\ Abstract' = [Abstract EXCEPT ![x] = [primes |-> S, poly |-> Ring!Mod(g, Ring!ProductOf(S))]]
  BY <1>3, <1>5, <1>9, <1>10, ReturnsIs
<1>12. g = Ring!Ring(fun, e, f, Ring!ProductOf(S))
  BY <1>8, RingProduct, RingArithmetic
<1>13. Ring!CombineWithNum(call')
  <2>1. (call').n = n
    BY <1>2, <1>11
  <2>2. [h \in Ring!Cols |-> IF h = 0 THEN (call').n ELSE 0] = f
    BY Zenon, <1>6, <2>1, RingColumns DEF NumPoly
  <2> QED BY <1>2, <1>4, <1>11, <1>12, <2>2
      DEF Ring!CombineWithNum, Ring!Is, Ring!Primes, Ring!Poly, Ring!Modulus, Abstract, RingElement
<1> QED BY <1>11, <1>13

\* automorph is the ring's automorphism, or throws for an index that is no unit.
LEMMA MoveStep ==
  ASSUME Elements, NEW x \in Objs, Move(x)
  PROVE  Elements' /\ Ring!Automorph(call')
<1>1. PICK k \in Automorphisms :
        IF k \notin ZMStar THEN Throws([op |-> "automorph", x |-> x, throws |-> FALSE, k |-> k], x)
        ELSE Returns([op |-> "automorph", x |-> x, throws |-> FALSE, k |-> k], x, Automorph(dcrt[x], k))
  BY Zenon DEF Move
<1> DEFINE c == [op |-> "automorph", x |-> x, throws |-> FALSE, k |-> k]
           t == [c EXCEPT !.throws = TRUE]
<1>2. /\ c.op = "automorph" /\ c.x = x /\ c.throws = FALSE /\ c.k = k
      /\ t.op = "automorph" /\ t.x = x /\ t.throws = TRUE /\ t.k = k
  OBVIOUS
<1>0. t = [c EXCEPT !.throws = TRUE]
  BY Zenon
<1>3. IF k \notin ZMStar THEN Throws(c, x) ELSE Returns(c, x, Automorph(dcrt[x], k))
  BY <1>1
<1> HIDE DEF c, t
<1>4. CASE k \notin ZMStar
  <2>1. Throws(c, x)
    BY <1>3, <1>4
  <2>2. dcrt' = dcrt /\ call' = t
    BY <1>0, <2>1 DEF Throws
  <2>3. Elements'
    BY <2>2 DEF Elements
  <2>4. Ring!Automorph(call')
    BY <1>2, <1>4, <2>2, RingColumns DEF Ring!Automorph, Ring!ThrowsIf
  <2> QED BY <2>3, <2>4
<1>5. CASE k \in ZMStar
  <2>1. PICK S, f : S = DOMAIN dcrt[x] /\ f = PolyModulo(dcrt[x])
    OBVIOUS
  <2>2. S \in SUBSET Chain /\ f \in [Cols -> Int] /\ Represents(dcrt[x], S, f)
    BY <2>1, ObjectFacts
  <2>3. PICK g : g = AtPower(f, k, ProductOf(S))
    OBVIOUS
  <2>4. g \in [Cols -> Int] /\ Represents(Automorph(dcrt[x], k), S, g)
    BY <1>5, <2>2, <2>3, AutomorphRepresents
  <2>5. /\ Elements' /\ call' = c
        /\ Abstract' = [Abstract EXCEPT ![x] = [primes |-> S, poly |-> Ring!Mod(g, Ring!ProductOf(S))]]
    BY <1>3, <1>5, <2>2, <2>4, ReturnsIs
  <2>6. g = Ring!AtPower(f, k, Ring!ProductOf(S))
    BY <2>3, RingProduct, RingArithmetic
  <2>7. Ring!Automorph(call')
    BY <1>2, <1>5, <2>1, <2>5, <2>6, RingColumns
    DEF Ring!Automorph, Ring!Is, Ring!Primes, Ring!Poly, Ring!Modulus, Abstract, RingElement
  <2> QED BY <2>5, <2>7
<1> QED BY <1>4, <1>5

\* complexConj is the ring's conjugation.
LEMMA ConjugateStep ==
  ASSUME Elements, NEW x \in Objs, Conjugate(x)
  PROVE  Elements' /\ Ring!ComplexConj(call')
<1> DEFINE c == [op |-> "conj", x |-> x, throws |-> FALSE]
<1>1. Returns(c, x, ComplexConj(dcrt[x]))
  BY DEF Conjugate
<1>2. c.op = "conj" /\ c.x = x /\ c.throws = FALSE
  OBVIOUS
<1> HIDE DEF c
<1>3. PICK S, f : S = DOMAIN dcrt[x] /\ f = PolyModulo(dcrt[x])
  OBVIOUS
<1>4. S \in SUBSET Chain /\ f \in [Cols -> Int] /\ Represents(dcrt[x], S, f)
  BY <1>3, ObjectFacts
<1>5. PICK g : g = AtPower(f, M - 1, ProductOf(S))
  OBVIOUS
<1>6. g \in [Cols -> Int] /\ Represents(ComplexConj(dcrt[x]), S, g)
  BY <1>4, <1>5, ConjRepresents
<1>7. /\ Elements' /\ call' = c
      /\ Abstract' = [Abstract EXCEPT ![x] = [primes |-> S, poly |-> Ring!Mod(g, Ring!ProductOf(S))]]
  BY <1>1, <1>4, <1>6, ReturnsIs
<1>8. g = Ring!AtPower(f, M - 1, Ring!ProductOf(S))
  BY <1>5, RingProduct, RingArithmetic
<1>9. Ring!ComplexConj(call')
  BY <1>2, <1>3, <1>7, <1>8
  DEF Ring!ComplexConj, Ring!Is, Ring!Primes, Ring!Poly, Ring!Modulus, Abstract, RingElement
<1> QED BY <1>7, <1>9

\* removePrimes is the ring's.
LEMMA RemoveStep ==
  ASSUME Elements, NEW x \in Objs, Remove(x)
  PROVE  Elements' /\ Ring!RemovePrimes(call')
<1>1. PICK T \in PrimeSets :
        Returns([op |-> "remove primes", x |-> x, throws |-> FALSE, S |-> T], x, RemovePrimes(dcrt[x], T))
  BY DEF Remove
<1> DEFINE c == [op |-> "remove primes", x |-> x, throws |-> FALSE, S |-> T]
<1>2. c.op = "remove primes" /\ c.x = x /\ c.throws = FALSE /\ c.S = T
  OBVIOUS
<1>3. Returns(c, x, RemovePrimes(dcrt[x], T))
  BY <1>1
<1> HIDE DEF c
<1>4. PICK S, f : S = DOMAIN dcrt[x] /\ f = PolyModulo(dcrt[x])
  OBVIOUS
<1>5. S \in SUBSET Chain /\ f \in [Cols -> Int] /\ Represents(dcrt[x], S, f)
  BY <1>4, ObjectFacts
<1>6. S \ T \in SUBSET Chain /\ Represents(RemovePrimes(dcrt[x], T), S \ T, f)
  BY <1>5, RemovedRepresents
<1>7. /\ Elements' /\ call' = c
      /\ Abstract' = [Abstract EXCEPT ![x] = [primes |-> S \ T,
                                              poly |-> Ring!Mod(f, Ring!ProductOf(S \ T))]]
  BY <1>3, <1>5, <1>6, ReturnsIs
<1>8. Ring!RemovePrimes(call')
  BY <1>2, <1>4, <1>7 DEF Ring!RemovePrimes, Ring!Is, Ring!Primes, Ring!Poly, Abstract, RingElement
<1> QED BY <1>7, <1>8

\* setPrimes is the ring's.
LEMMA ReplaceStep ==
  ASSUME Elements, NEW x \in Objs, Replace(x)
  PROVE  Elements' /\ Ring!SetPrimes(call')
<1>1. PICK T \in PrimeSets :
        Returns([op |-> "set primes", x |-> x, throws |-> FALSE, S |-> T], x, SetPrimes(dcrt[x], T))
  BY DEF Replace
<1> DEFINE c == [op |-> "set primes", x |-> x, throws |-> FALSE, S |-> T]
<1>2. c.op = "set primes" /\ c.x = x /\ c.throws = FALSE /\ c.S = T
  OBVIOUS
<1>3. Returns(c, x, SetPrimes(dcrt[x], T))
  BY <1>1
<1> HIDE DEF c
<1>4. T \in SUBSET Chain
  BY ArgumentsAssumption
<1>5. PICK f : f = ToPoly(dcrt[x], DOMAIN dcrt[x])
  OBVIOUS
<1>6. f \in [Cols -> Int] /\ Represents(SetPrimes(dcrt[x], T), T, f)
  BY <1>4, <1>5, ObjectFacts, ElementRepresents, SetRepresents
<1>7. /\ Elements' /\ call' = c
      /\ Abstract' = [Abstract EXCEPT ![x] = [primes |-> T, poly |-> Ring!Mod(f, Ring!ProductOf(T))]]
  BY <1>3, <1>4, <1>6, ReturnsIs
<1>8. Ring!SetPrimes(call')
  <2>1. (call').x = x
    BY <1>2, <1>7
  <2>2. Ring!Lift(x) = f
    BY <1>5, RingObjects
  <2>3. [h \in Ring!Cols |-> Ring!Balanced(Ring!Poly((call').x)[h], Ring!Modulus((call').x))] = f
    BY Zenon, <2>1, <2>2 DEF Ring!Lift
  <2> QED BY <1>2, <1>7, <2>3
      DEF Ring!SetPrimes, Ring!Is, Ring!Lift, Ring!Primes, Ring!Poly, Ring!Modulus, Abstract, RingElement
<1> QED BY <1>7, <1>8

\* addPrimes is the ring's, or throws just when a prime is there already.
LEMMA ExtendStep ==
  ASSUME Elements, NEW x \in Objs, Extend(x)
  PROVE  Elements' /\ Ring!AddPrimes(call')
<1>1. PICK T \in PrimeSets :
        IF AddPrimesThrows(dcrt[x], T)
        THEN Throws([op |-> "add primes", x |-> x, throws |-> FALSE, S |-> T], x)
        ELSE Returns([op |-> "add primes", x |-> x, throws |-> FALSE, S |-> T], x, AddPrimes(dcrt[x], T))
  BY Zenon DEF Extend
<1> DEFINE c == [op |-> "add primes", x |-> x, throws |-> FALSE, S |-> T]
           t == [c EXCEPT !.throws = TRUE]
<1>2. /\ c.op = "add primes" /\ c.x = x /\ c.throws = FALSE /\ c.S = T
      /\ t.op = "add primes" /\ t.x = x /\ t.throws = TRUE /\ t.S = T
  OBVIOUS
<1>0. t = [c EXCEPT !.throws = TRUE]
  BY Zenon
<1>3. IF AddPrimesThrows(dcrt[x], T) THEN Throws(c, x) ELSE Returns(c, x, AddPrimes(dcrt[x], T))
  BY <1>1
<1> HIDE DEF c, t
<1>4. PICK S, f : S = DOMAIN dcrt[x] /\ f = ToPoly(dcrt[x], DOMAIN dcrt[x])
  OBVIOUS
<1>5. Element(dcrt[x]) /\ S \in SUBSET Chain /\ f \in [Cols -> Int] /\ T \in SUBSET Chain
  <2>1. Element(dcrt[x])
    BY <1>4, ObjectFacts
  <2> QED BY <1>4, <2>1, ElementRepresents, ArgumentsAssumption
<1>6. AddPrimesThrows(dcrt[x], T) <=> T \cap S # {}
  BY <1>4 DEF AddPrimesThrows
<1>7. CASE T \cap S # {}
  <2>1. Throws(c, x)
    BY <1>3, <1>6, <1>7
  <2>2. dcrt' = dcrt /\ call' = t
    BY <1>0, <2>1 DEF Throws
  <2>3. Elements'
    BY <2>2 DEF Elements
  <2>4. Ring!AddPrimes(call')
    BY <1>2, <1>4, <1>7, <2>2 DEF Ring!AddPrimes, Ring!ThrowsIf, Ring!Primes
  <2> QED BY <2>3, <2>4
<1>8. CASE T \cap S = {}
  <2>1. Returns(c, x, AddPrimes(dcrt[x], T)) /\ S \cap T = {} /\ S \cup T \in SUBSET Chain
    BY <1>3, <1>5, <1>6, <1>8
  <2>2. Represents(AddPrimes(dcrt[x], T), S \cup T, f)
    BY <1>4, <1>5, <2>1, AddedRepresents
  <2>3. /\ Elements' /\ call' = c
        /\ Abstract' = [Abstract EXCEPT ![x] = [primes |-> S \cup T,
                                                poly |-> Ring!Mod(f, Ring!ProductOf(S \cup T))]]
    BY <1>5, <2>1, <2>2, ReturnsIs
  <2>4. (call').x = x
    BY <1>2, <2>3
  <2>5. Ring!Lift(x) = f
    BY <1>4, RingObjects
  <2>6. [h \in Ring!Cols |-> Ring!Balanced(Ring!Poly((call').x)[h], Ring!Modulus((call').x))] = f
    BY Zenon, <2>4, <2>5 DEF Ring!Lift
  <2>7. Ring!AddPrimes(call')
    BY <1>2, <1>4, <1>8, <2>3, <2>6
    DEF Ring!AddPrimes, Ring!Is, Ring!Lift, Ring!Primes, Ring!Poly, Ring!Modulus, Abstract, RingElement
  <2> QED BY <2>3, <2>7
<1> QED BY <1>7, <1>8

\* addPrimesAndScale is the ring's, or throws just when a prime is there already.
LEMMA ScaleUpStep ==
  ASSUME Elements, NEW x \in Objs, ScaleUp(x)
  PROVE  Elements' /\ Ring!ScaleUp(call')
<1>1. PICK T \in PrimeSets :
        IF AddPrimesThrows(dcrt[x], T)
        THEN Throws([op |-> "scale up", x |-> x, throws |-> FALSE, S |-> T], x)
        ELSE Returns([op |-> "scale up", x |-> x, throws |-> FALSE, S |-> T], x,
                     AddPrimesAndScale(dcrt[x], T))
  BY Zenon DEF ScaleUp
<1> DEFINE c == [op |-> "scale up", x |-> x, throws |-> FALSE, S |-> T]
           t == [c EXCEPT !.throws = TRUE]
<1>2. /\ c.op = "scale up" /\ c.x = x /\ c.throws = FALSE /\ c.S = T
      /\ t.op = "scale up" /\ t.x = x /\ t.throws = TRUE /\ t.S = T
  OBVIOUS
<1>0. t = [c EXCEPT !.throws = TRUE]
  BY Zenon
<1>3. IF AddPrimesThrows(dcrt[x], T) THEN Throws(c, x)
      ELSE Returns(c, x, AddPrimesAndScale(dcrt[x], T))
  BY <1>1
<1> HIDE DEF c, t
<1>4. PICK S, f : S = DOMAIN dcrt[x] /\ f = PolyModulo(dcrt[x])
  OBVIOUS
<1>5. /\ S \in SUBSET Chain /\ f \in [Cols -> Int] /\ Represents(dcrt[x], S, f)
      /\ T \in SUBSET Chain
  BY <1>4, ObjectFacts, ArgumentsAssumption
<1>6. AddPrimesThrows(dcrt[x], T) <=> T \cap S # {}
  BY <1>4 DEF AddPrimesThrows
<1>7. CASE T \cap S # {}
  <2>1. Throws(c, x)
    BY <1>3, <1>6, <1>7
  <2>2. dcrt' = dcrt /\ call' = t
    BY <1>0, <2>1 DEF Throws
  <2>3. Elements'
    BY <2>2 DEF Elements
  <2>4. Ring!ScaleUp(call')
    BY <1>2, <1>4, <1>7, <2>2 DEF Ring!ScaleUp, Ring!ThrowsIf, Ring!Primes
  <2> QED BY <2>3, <2>4
<1>8. CASE T \cap S = {}
  <2>1. Returns(c, x, AddPrimesAndScale(dcrt[x], T)) /\ S \cap T = {} /\ S \cup T \in SUBSET Chain
    BY <1>3, <1>5, <1>6, <1>8
  <2>2. PICK g : g = Scaled(f, ProductOf(T), ProductOf(S \cup T))
    OBVIOUS
  <2>3. g \in [Cols -> Int] /\ Represents(AddPrimesAndScale(dcrt[x], T), S \cup T, g)
    BY <1>5, <2>1, <2>2, ScaledUpRepresents
  <2>4. /\ Elements' /\ call' = c
        /\ Abstract' = [Abstract EXCEPT ![x] = [primes |-> S \cup T,
                                                poly |-> Ring!Mod(g, Ring!ProductOf(S \cup T))]]
    BY <2>1, <2>3, ReturnsIs
  <2>5. g = Ring!Scaled(f, Ring!ProductOf(T), Ring!ProductOf(S \cup T))
    BY <2>2, RingProduct, RingArithmetic
  <2>6. Ring!ScaleUp(call')
    BY <1>2, <1>4, <1>8, <2>4, <2>5
    DEF Ring!ScaleUp, Ring!Is, Ring!Primes, Ring!Poly, Abstract, RingElement
  <2> QED BY <2>4, <2>6
<1> QED BY <1>7, <1>8

\* breakIntoDigits leaves the objects, and throws just for primes in no digit.
LEMMA BreakStep ==
  ASSUME Elements, NEW x \in Objs, Break(x)
  PROVE  Elements' /\ Ring!Break(call')
<1> DEFINE c == [op |-> "break", x |-> x, throws |-> FALSE]
           t == [c EXCEPT !.throws = TRUE]
<1>1. /\ c.op = "break" /\ c.x = x /\ c.throws = FALSE
      /\ t.op = "break" /\ t.x = x /\ t.throws = TRUE
  OBVIOUS
<1>0. t = [c EXCEPT !.throws = TRUE]
  BY Zenon
<1>2. IF BreakThrows(dcrt[x]) THEN Throws(c, x) ELSE call' = c /\ dcrt' = dcrt
  BY Zenon DEF Break
<1> HIDE DEF c, t
<1>3. dcrt' = dcrt /\ call' = IF BreakThrows(dcrt[x]) THEN t ELSE c
  BY <1>0, <1>2 DEF Throws
<1>4. Elements'
  BY <1>3 DEF Elements
<1>5. BreakThrows(dcrt[x]) <=> ~(DOMAIN dcrt[x] \subseteq CtxtPrimes)
  BY DEF BreakThrows
<1>6. Ring!Break(call')
  BY <1>1, <1>3, <1>5 DEF Ring!Break, Ring!Primes
<1> QED BY <1>4, <1>6

\* Division by a number is the ring's.
LEMMA DivideStep ==
  ASSUME Elements, NEW x \in Objs, Divide(x)
  PROVE  Elements' /\ Ring!Divide(call')
<1>1. PICK n \in Nums :
        Returns([op |-> "divide", x |-> x, throws |-> FALSE, n |-> n], x, DividedBy(dcrt[x], n))
  BY DEF Divide
<1> DEFINE c == [op |-> "divide", x |-> x, throws |-> FALSE, n |-> n]
<1>2. c.op = "divide" /\ c.x = x /\ c.throws = FALSE /\ c.n = n
  OBVIOUS
<1>3. PICK S, d, e, f : /\ S = DOMAIN dcrt[x] /\ e = PolyModulo(dcrt[x])
                        /\ d = DividedBy(dcrt[x], n) /\ f = PolyModulo(d)
  OBVIOUS
<1>4. Returns(c, x, d)
  BY <1>1, <1>3
<1> HIDE DEF c
<1>5. /\ S \in SUBSET Chain /\ e \in [Cols -> Int] /\ Represents(dcrt[x], S, e)
      /\ ProductOf(S) \in Positive /\ e \in [Cols -> 0 .. ProductOf(S) - 1]
  BY <1>3, ObjectFacts
<1>6. n \in Int /\ \A i \in S : Unit(n, Prime[i])
  <2>1. n \in Int /\ \A i \in Chain : n % Prime[i] # 0
    BY ArgumentsAssumption
  <2>2. ASSUME NEW i \in S
        PROVE  Unit(n, Prime[i])
    <3>1. /\ Prime[i] \in Positive /\ Prime[i] \in Nat /\ Prime[i] \in Int /\ IsPrime(Prime[i])
          /\ n % Prime[i] # 0
      BY <1>5, <2>1, PrimeFacts
    <3>2. ~Divides(Prime[i], n)
      BY <2>1, <3>1, DividesMod
    <3> QED BY <2>1, <3>1, <3>2, UnitOfPrime
  <2> QED BY <2>1, <2>2
<1>7. /\ Element(d) /\ DOMAIN d = S
      /\ \A i \in S, j \in Cols : d[i][j] \in Int /\ Cong(n * d[i][j], Ev(e, i, j), Prime[i])
  BY <1>3, <1>5, <1>6, DividedRepresents
<1>8. f \in [Cols -> Int] /\ f \in [Cols -> 0 .. ProductOf(S) - 1] /\ Represents(d, S, f)
  BY <1>3, <1>7, ElementRepresents
<1>9. /\ Elements' /\ call' = c
      /\ Abstract' = [Abstract EXCEPT ![x] = [primes |-> S, poly |-> Ring!Mod(f, Ring!ProductOf(S))]]
  BY <1>4, <1>5, <1>8, ReturnsIs
<1>10. dcrt'[x] = d
  BY <1>4 DEF Returns, Elements
<1>11. Scaled(f, n, ProductOf(S)) = e
  <2>1. PICK g : g = Scaled(f, n, ProductOf(S))
    OBVIOUS
  <2>2. /\ g \in [Cols -> 0 .. ProductOf(S) - 1] /\ g \in [Cols -> Int]
        /\ \A i \in Chain, j \in Cols : Divides(Prime[i], ProductOf(S)) =>
             Cong(Ev(g, i, j), n * Ev(f, i, j), Prime[i])
    BY <1>5, <1>6, <1>8, <2>1, ScaledValue
  <2>3. ASSUME NEW i \in S, NEW j \in Cols
        PROVE  Cong(Ev(g, i, j), Ev(e, i, j), Prime[i])
    <3>1. /\ i \in Chain /\ Prime[i] \in Int /\ Divides(Prime[i], ProductOf(S))
          /\ Ev(f, i, j) \in Int /\ Ev(g, i, j) \in Int /\ Ev(e, i, j) \in Int
          /\ d[i][j] \in Int /\ n \in Int
      BY <1>5, <1>6, <1>7, <1>8, <2>2, PrimeFacts, PrimeDividesProduct, EvType, SmallPoly
    <3>2. Cong(Ev(g, i, j), n * Ev(f, i, j), Prime[i])
      BY <2>2, <3>1
    <3>3. Cong(d[i][j], Ev(f, i, j), Prime[i])
      BY <1>8 DEF Represents
    <3>4. Cong(n * d[i][j], n * Ev(f, i, j), Prime[i]) /\ n * d[i][j] \in Int /\ n * Ev(f, i, j) \in Int
      BY <3>1, <3>3, CongTimesBoth
    <3>5. Cong(n * d[i][j], Ev(e, i, j), Prime[i])
      BY <1>7
    <3>6. Cong(n * Ev(f, i, j), n * d[i][j], Prime[i])
      BY <3>1, <3>4, CongSym
    <3>7. Cong(n * Ev(f, i, j), Ev(e, i, j), Prime[i])
      BY <3>1, <3>4, <3>5, <3>6, CongTrans
    <3> QED BY <3>1, <3>2, <3>4, <3>7, CongTrans
  <2>4. \A h \in Cols : Cong(g[h], e[h], ProductOf(S))
    BY <1>5, <2>2, <2>3, SameValues
  <2>5. \A h \in Cols : g[h] = e[h]
    <3> SUFFICES ASSUME NEW h \in Cols
                 PROVE  g[h] = e[h]
      OBVIOUS
    <3>1. Cong(g[h], e[h], ProductOf(S)) /\ g[h] \in 0 .. ProductOf(S) - 1 /\ e[h] \in 0 .. ProductOf(S) - 1
      BY <1>5, <2>2, <2>4
    <3> QED BY <1>5, <3>1, CongUnique
  <2> QED BY <1>5, <2>1, <2>2, <2>5
<1>12. Ring!Divide(call')
  <2>1. Ring!Mod(f, Ring!ProductOf(S)) = f
    <3>1. Ring!Mod(f, Ring!ProductOf(S)) = Mod(f, ProductOf(S))
      BY RingArithmetic, RingProduct
    <3>2. PolyModulo(d) = Mod(f, ProductOf(S))
      BY <1>5, <1>8, RepresentedModulo
    <3> QED BY <1>3, <3>1, <3>2
  <2>2. Ring!Scaled(f, n, Ring!ProductOf(S)) = e
    BY <1>11, RingArithmetic, RingProduct
  <2> QED BY <1>2, <1>3, <1>9, <1>10, <2>1, <2>2
      DEF Ring!Divide, Ring!Is, Ring!Primes, Ring!Poly, Ring!Modulus, Abstract, RingElement
<1> QED BY <1>9, <1>12

\* Only the product of no primes is 1.
LEMMA ProductNotOne ==
  ASSUME NEW S \in SUBSET Chain
  PROVE  ProductOf(S) = 1 <=> S = {}
<1>1. CASE S = {}
  BY <1>1, ProductOfNone
<1>2. ASSUME NEW i \in S
      PROVE  ProductOf(S) # 1
  <2>1. S \ {i} \in SUBSET Chain /\ i \in Chain /\ i \notin S \ {i} /\ S = (S \ {i}) \cup {i}
    BY <1>2
  <2>2. PICK P : P = ProductOf(S \ {i})
    OBVIOUS
  <2>3. ProductOf(S) = Prime[i] * P
    BY <2>1, <2>2, ProductOfMore
  <2>4. P \in Int /\ P >= 1
    BY <2>1, <2>2, ProductPositive
  <2>5. Prime[i] \in Int /\ Prime[i] > 2
    BY <2>1, PrimeFacts
  <2>6. Prime[i] * P >= Prime[i] * 1
    BY ONLY <2>4, <2>5, SMT
  <2> QED BY <2>3, <2>5, <2>6
<1> QED BY <1>1, <1>2

\* scaleDownToSet is the ring's, or throws just when nothing would stay.
LEMMA ScaleDownStep ==
  ASSUME Elements, NEW x \in Objs, ScaleDown(x)
  PROVE  Elements' /\ Ring!ScaleDown(call')
<1>1. PICK T \in PrimeSets, p \in PtxtSpaces :
        IF ScaleDownThrows(dcrt[x], T)
        THEN Throws([op |-> "scale down", x |-> x, throws |-> FALSE, S |-> T, p |-> p], x)
        ELSE Returns([op |-> "scale down", x |-> x, throws |-> FALSE, S |-> T, p |-> p], x,
                     ScaledDown(dcrt[x], T, p))
  BY Zenon DEF ScaleDown
<1> DEFINE c == [op |-> "scale down", x |-> x, throws |-> FALSE, S |-> T, p |-> p]
           t == [c EXCEPT !.throws = TRUE]
<1>2. /\ c.op = "scale down" /\ c.x = x /\ c.throws = FALSE /\ c.S = T /\ c.p = p
      /\ t.op = "scale down" /\ t.x = x /\ t.throws = TRUE /\ t.S = T /\ t.p = p
  OBVIOUS
<1>0. t = [c EXCEPT !.throws = TRUE]
  BY Zenon
<1>3. IF ScaleDownThrows(dcrt[x], T) THEN Throws(c, x)
      ELSE Returns(c, x, ScaledDown(dcrt[x], T, p))
  BY <1>1
<1> HIDE DEF c, t
<1>4. PICK S, e, d, f, D : /\ S = DOMAIN dcrt[x] /\ e = PolyModulo(dcrt[x])
                           /\ d = ScaledDown(dcrt[x], T, p) /\ f = PolyModulo(d)
                           /\ D = ProductOf(S \ T)
  OBVIOUS
<1>5. /\ S \in SUBSET Chain /\ T \in SUBSET Chain /\ S \ T \in SUBSET Chain /\ S \cap T \in SUBSET Chain
      /\ e \in [Cols -> Int] /\ Element(dcrt[x])
  BY <1>4, ObjectFacts, ArgumentsAssumption
<1>6. ScaleDownThrows(dcrt[x], T) <=> S \ T # {} /\ S \cap T = {}
  BY <1>4 DEF ScaleDownThrows
<1>a. IsPtxtSpace(p)
  BY ArgumentsAssumption DEF IsPtxtSpace
<1>7. D = 1 <=> S \ T = {}
  BY <1>4, <1>5, ProductNotOne
<1>8. Ring!ProductOf(S \ T) = D
  BY <1>4, RingProduct
<1>9. CASE S \ T = {}
  <2>1. Returns(c, x, dcrt[x])
    BY <1>3, <1>4, <1>6, <1>9 DEF ScaledDown
  <2>2. dcrt' = dcrt /\ call' = c
    BY <2>1 DEF Returns, Elements
  <2>3. Elements'
    BY <2>2 DEF Elements
  <2>4. Ring!ScaleDown(call')
    BY <1>2, <1>4, <1>7, <1>8, <1>9, <2>2 DEF Ring!ScaleDown, Ring!Primes
  <2> QED BY <2>3, <2>4
<1>10. CASE S \ T # {} /\ S \cap T = {}
  <2>1. Throws(c, x)
    BY <1>3, <1>6, <1>10
  <2>2. dcrt' = dcrt /\ call' = t
    BY <1>0, <2>1 DEF Throws
  <2>3. Elements'
    BY <2>2 DEF Elements
  <2>4. Ring!ScaleDown(call')
    BY <1>2, <1>4, <1>7, <1>8, <1>10, <2>2 DEF Ring!ScaleDown, Ring!ThrowsIf, Ring!Primes
  <2> QED BY <2>3, <2>4
<1>11. CASE S \ T # {} /\ S \cap T # {}
  <2>1. Returns(c, x, d)
    BY <1>3, <1>4, <1>6, <1>11
  <2>2. PICK delta, Q : delta = ScaleDownDelta(dcrt[x], T, p) /\ Q = ProductOf(S)
    OBVIOUS
  <2>3. /\ Element(d) /\ DOMAIN d = S \cap T
        /\ \A h \in Cols : Cong(e[h] - D * f[h], delta[h], Q)
    BY <1>4, <1>5, <1>11, <2>2, <1>a, ScaledDownFacts
  <2>4. /\ delta \in [Cols -> Int]
        /\ \A h \in Cols : /\ delta[h] % p = 0 /\ 2 * delta[h] =< D * p /\ -2 * delta[h] =< D * p
                           /\ p = 1 => 2 * delta[h] =< D - 1 /\ -2 * delta[h] =< D - 1
    BY <1>4, <1>5, <1>11, <2>2, <1>a, DeltaFacts
  <2>5. f \in [Cols -> Int] /\ Represents(d, S \cap T, f)
    BY <1>4, <2>3, ElementRepresents
  <2>6. /\ Elements' /\ call' = c
        /\ Abstract' = [Abstract EXCEPT ![x] = [primes |-> S \cap T,
                                                poly |-> Ring!Mod(f, Ring!ProductOf(S \cap T))]]
    BY <1>5, <2>1, <2>5, ReturnsIs
  <2>7. Ring!Mod(f, Ring!ProductOf(S \cap T)) = f
    <3>1. Ring!Mod(f, Ring!ProductOf(S \cap T)) = Mod(f, ProductOf(S \cap T))
      BY RingArithmetic, RingProduct
    <3>2. PolyModulo(d) = Mod(f, ProductOf(S \cap T))
      BY <1>5, <2>5, RepresentedModulo
    <3> QED BY <1>4, <3>1, <3>2
  <2>8. dcrt'[x] = d
    BY <2>1 DEF Returns, Elements
  <2>9. D \in Positive /\ D % 2 = 1 /\ Q \in Positive /\ D =< Q /\ p \in Positive
    BY <1>4, <1>5, <2>2, ProductPositive, ProductOfSubset, <1>a, PtxtUnit
  <2>10. ASSUME NEW h \in Cols
         PROVE  \E k \in -p .. p :
                  LET longest == IF p = 1 THEN (D - 1) \div 2 ELSE (D * p) \div 2
                      y == ((e[h] - D * f[h]) % Q) + k * Q
                  IN y % p = 0 /\ y =< longest /\ -y =< longest
    <3>1. PICK a, b : a = e[h] - D * f[h] /\ b = delta[h]
      OBVIOUS
    <3>2. a \in Int /\ b \in Int /\ Cong(a, b, Q)
      BY <1>5, <2>3, <2>4, <2>5, <2>9, <3>1 DEF Positive
    <3>3. b % p = 0 /\ 2 * b =< D * p /\ -2 * b =< D * p /\ (p = 1 => 2 * b =< D - 1 /\ -2 * b =< D - 1)
      BY <2>4, <3>1
    <3>4. \E k \in -p .. p :
            LET longest == IF p = 1 THEN (D - 1) \div 2 ELSE (D * p) \div 2
                y == (a % Q) + k * Q
            IN y % p = 0 /\ y =< longest /\ -y =< longest
      BY ONLY <2>9, <3>2, <3>3, DeltaShift
    <3> QED BY ONLY <3>1, <3>4
  <2>11. PICK kept, Q0 : kept = S \cap T /\ Q0 = Ring!ProductOf(S) /\ Q0 = Q
    BY <2>2, RingProduct
  <2>12. Ring!ScaleDown(call')
    <3>1. /\ (call').op = "scale down" /\ (call').x = x /\ (call').throws = FALSE
          /\ (call').S = T /\ (call').p = p
      BY <1>2, <2>6
    <3>2. DOMAIN dcrt[x] = S /\ PolyModulo(dcrt[x]) = e /\ DOMAIN dcrt'[x] = S \cap T
          /\ PolyModulo(d) = f /\ dcrt'[x] = d
      BY <1>4, <2>3, <2>8
    <3>3. Ring!ProductOf(S) = Q
      BY <2>11
    <3>4. S \cap T # {} /\ D # 1
      BY <1>7, <1>11
    <3>5. ([y \in Objs |-> [primes |-> DOMAIN dcrt[y], poly |-> PolyModulo(dcrt[y])]]')[x].poly = f
      BY <3>2
    <3>6. Ring!Is(call', S \cap T, f)
      BY <2>6, <2>7, <3>1 DEF Ring!Is, Abstract, RingElement
    <3>7. /\ Ring!Primes(x) = S /\ Ring!Poly(x) = e /\ Ring!Modulus(x) = Q
      BY <1>4, <2>2, RingObjects
    <3>8. \A h \in Ring!Cols :
            LET longest == IF p = 1 THEN (D - 1) \div 2 ELSE (D * p) \div 2
                IsDelta(a) == a % p = 0 /\ a =< longest /\ -a =< longest
                a == (Ring!Poly(x)[h] - D * f[h]) % Ring!Modulus(x)
            IN \E k \in -p .. p : IsDelta(a + k * Ring!Modulus(x))
      BY Zenon, <2>10, <3>7, RingColumns
    <3>9. D = Ring!ProductOf(Ring!Primes(x) \ T)
      BY Zenon, <1>8, <3>7
    <3>10. Ring!Primes(x) \cap T = S \cap T
      BY Zenon, <3>7
    <3>11. (call').throws = FALSE /\ (call').op = "scale down" /\ x = (call').x /\ T = (call').S
           /\ p = (call').p
      BY <3>1
    <3>12. ([y \in Objs |-> [primes |-> DOMAIN dcrt[y], poly |-> PolyModulo(dcrt[y])]]')[(call').x].poly = f
      BY Zenon, <3>5, <3>11
    <3>16. ([y \in Objs |-> [primes |-> DOMAIN dcrt[y], poly |-> PolyModulo(dcrt[y])]])' =
              [[y \in Objs |-> [primes |-> DOMAIN dcrt[y], poly |-> PolyModulo(dcrt[y])]] EXCEPT ![x] = [primes |-> S \cap T, poly |-> Ring!Mod(f, Ring!ProductOf(S \cap T))]]
      BY <2>6 DEF Abstract, RingElement
    <3>13. ([y \in Objs |-> [primes |-> DOMAIN dcrt[y], poly |-> PolyModulo(dcrt[y])]])' =
              [[y \in Objs |-> [primes |-> DOMAIN dcrt[y], poly |-> PolyModulo(dcrt[y])]] EXCEPT ![(call').x] =
                 [primes |-> Ring!Primes((call').x) \cap (call').S,
                  poly |-> Ring!Mod(([y \in Objs |-> [primes |-> DOMAIN dcrt[y], poly |-> PolyModulo(dcrt[y])]])'[(call').x].poly,
                                    Ring!ProductOf(Ring!Primes((call').x) \cap (call').S))]]
      BY Zenon, <3>16, <3>10, <3>11, <3>12
    <3>14. Ring!ProductOf(Ring!Primes((call').x) \ (call').S) # 1 /\ Ring!Primes((call').x) \cap (call').S # {}
      BY Zenon, <3>4, <3>9, <3>10, <3>11
    <3>15. \A h \in Ring!Cols :
             LET DD == Ring!ProductOf(Ring!Primes((call').x) \ (call').S)
                 longest == IF (call').p = 1 THEN (DD - 1) \div 2 ELSE (DD * (call').p) \div 2
                 IsDelta(a) == a % (call').p = 0 /\ a =< longest /\ -a =< longest
                 a == (Ring!Poly((call').x)[h] - DD *
                         ([y \in Objs |-> [primes |-> DOMAIN dcrt[y], poly |-> PolyModulo(dcrt[y])]]')[(call').x].poly[h])
                         % Ring!Modulus((call').x)
             IN \E k \in -(call').p .. (call').p : IsDelta(a + k * Ring!Modulus((call').x))
      BY Zenon, <3>8, <3>9, <3>11, <3>12
    <3> QED BY Zenon, <3>11, <3>13, <3>14, <3>15 DEF Ring!ScaleDown, Ring!Is
  <2> QED BY <2>6, <2>12
<1> QED BY <1>9, <1>10, <1>11

\* The function exp computes the powers of f with.
IsPowers(c, e, f, q) ==
  c = [n \in 0 .. e |->
         IF n = 0 THEN NumPoly(1) ELSE IF n = 1 THEN f ELSE Times(c[n - 1], f, q)]

\* The recursion of IsPowers, step by step.
LEMMA PowersAre ==
  ASSUME NEW e \in Nat, NEW f, NEW q, NEW c
  PROVE  IsPowers(c, e, f, q) <=>
           /\ c = [n \in 0 .. e |-> c[n]] /\ c[0] = NumPoly(1)
           /\ \A n \in 1 .. e : c[n] = IF n = 1 THEN f ELSE Times(c[n - 1], f, q)
<1>1. ASSUME IsPowers(c, e, f, q)
      PROVE  /\ c = [n \in 0 .. e |-> c[n]] /\ c[0] = NumPoly(1)
             /\ \A n \in 1 .. e : c[n] = IF n = 1 THEN f ELSE Times(c[n - 1], f, q)
  BY <1>1 DEF IsPowers
<1>2. ASSUME /\ c = [n \in 0 .. e |-> c[n]] /\ c[0] = NumPoly(1)
             /\ \A n \in 1 .. e : c[n] = IF n = 1 THEN f ELSE Times(c[n - 1], f, q)
      PROVE  IsPowers(c, e, f, q)
  <2>1. \A n \in 0 .. e : c[n] = IF n = 0 THEN NumPoly(1)
                                 ELSE IF n = 1 THEN f ELSE Times(c[n - 1], f, q)
    <3> SUFFICES ASSUME NEW n \in 0 .. e
                 PROVE  c[n] = IF n = 0 THEN NumPoly(1)
                               ELSE IF n = 1 THEN f ELSE Times(c[n - 1], f, q)
      OBVIOUS
    <3>1. CASE n = 0
      BY <1>2, <3>1
    <3>2. CASE n # 0
      <4>1. n \in 1 .. e
        BY <3>2
      <4> QED BY <1>2, <3>2, <4>1
    <3> QED BY <3>1, <3>2
  <2> QED BY <1>2, <2>1 DEF IsPowers
<1> QED BY <1>1, <1>2

\* The powers of a polynomial modulo q exist.
LEMMA IndexedPowers ==
  ASSUME NEW f \in [Cols -> Int], NEW q \in Positive
  PROVE  \E F \in [Nat -> [Cols -> Int]] :
           /\ F[0] = NumPoly(1) /\ F[1] = f
           /\ \A n \in Nat : n >= 1 => F[n + 1] = Times(F[n], f, q)
<1> DEFINE A == [Cols -> Int]
           Next1(n, a) == IF n = 0 THEN f ELSE Times(a, f, q)
           step == [s \in Nat \X A |-> Next1(s[1], s[2])]
<1>1. f \in A /\ NumPoly(1) \in A
  BY DEF NumPoly
<1>2. \A n \in Nat, a \in A : Next1(n, a) \in A
  BY <1>1, TimesValue
<1>3. /\ \A n \in Nat, a \in A : step[<<n, a>>] = Next1(n, a)
      /\ \A n \in Nat, a \in A : n # 0 => Next1(n, a) = Times(a, f, q)
      /\ \A a \in A : Next1(0, a) = f
  OBVIOUS
<1> HIDE DEF Next1
<1>4. step \in [Nat \X A -> A]
  BY <1>2
<1> HIDE DEF A, step
<1>5. PICK F : IsIndexed(F, A, NumPoly(1), step)
  BY ONLY <1>1, <1>4, IndexedRecursion
<1>6. F \in [Nat -> A] /\ F[0] = NumPoly(1) /\ \A n \in Nat : F[n + 1] = step[<<n, F[n]>>]
  BY <1>5 DEF IsIndexed
<1>7. F[1] = f
  <2>1. F[0 + 1] = step[<<0, F[0]>>] /\ F[0] \in A
    BY <1>6
  <2>2. step[<<0, F[0]>>] = Next1(0, F[0]) /\ Next1(0, F[0]) = f
    BY <1>3, <2>1
  <2> QED BY <2>1, <2>2
<1>8. ASSUME NEW n \in Nat, n >= 1
      PROVE  F[n + 1] = Times(F[n], f, q)
  <2>1. F[n + 1] = step[<<n, F[n]>>] /\ F[n] \in A /\ n # 0
    BY <1>6, <1>8
  <2>2. step[<<n, F[n]>>] = Next1(n, F[n])
    BY <1>3, <2>1
  <2>3. Next1(n, F[n]) = Times(F[n], f, q)
    BY <1>3, <2>1
  <2> QED BY <2>1, <2>2, <2>3
<1> QED BY <1>6, <1>7, <1>8 DEF A

\* The function that exp computes is the ring's power.
LEMMA ExpFacts ==
  ASSUME NEW S \in SUBSET Chain, NEW d, NEW f \in [Cols -> Int], Represents(d, S, f),
         NEW e \in Nat, NEW q, q = ProductOf(S)
  PROVE  /\ \E c : IsPowers(c, e, f, q)
         /\ \A c : IsPowers(c, e, f, q) => c[e] \in [Cols -> Int] /\ Represents(Exp(d, e), S, c[e])
<1>1. q \in Positive
  BY ProductPositive
<1>2. PICK F \in [Nat -> [Cols -> Int]] :
        /\ F[0] = NumPoly(1) /\ F[1] = f
        /\ \A n \in Nat : n >= 1 => F[n + 1] = Times(F[n], f, q)
  BY <1>1, IndexedPowers
<1>3. Represents(Exp(d, e), S, F[e])
  BY <1>2, ExpRepresents
<1>4. \A n \in 1 .. e : F[n] = IF n = 1 THEN f ELSE Times(F[n - 1], f, q)
  <2> SUFFICES ASSUME NEW n \in 1 .. e, n # 1
               PROVE  F[n] = Times(F[n - 1], f, q)
    BY <1>2
  <2>1. n - 1 \in Nat /\ n - 1 >= 1 /\ (n - 1) + 1 = n
    OBVIOUS
  <2>2. F[(n - 1) + 1] = Times(F[n - 1], f, q)
    BY <1>2, <2>1
  <2> QED BY <2>1, <2>2
<1>5. \E c : IsPowers(c, e, f, q)
  <2>1. PICK c : c = [n \in 0 .. e |-> F[n]]
    OBVIOUS
  <2>2. \A n \in 1 .. e : c[n] = IF n = 1 THEN f ELSE Times(c[n - 1], f, q)
    <3> SUFFICES ASSUME NEW n \in 1 .. e
                 PROVE  c[n] = IF n = 1 THEN f ELSE Times(c[n - 1], f, q)
      OBVIOUS
    <3>1. c[n] = F[n] /\ c[n - 1] = F[n - 1]
      BY <2>1
    <3> QED BY <1>4, <3>1
  <2>3. c = [n \in 0 .. e |-> c[n]] /\ c[0] = NumPoly(1)
    BY <1>2, <2>1
  <2>4. IsPowers(c, e, f, q)
    BY <2>2, <2>3, PowersAre
  <2> QED BY <2>4
<1>6. ASSUME NEW c, IsPowers(c, e, f, q)
      PROVE  c[e] = F[e]
  <2>1. c[0] = NumPoly(1) /\ \A n \in 1 .. e : c[n] = IF n = 1 THEN f ELSE Times(c[n - 1], f, q)
    BY <1>6, PowersAre
  <2>2. \A n \in 1 .. e : c[n - 1] = F[n - 1] => c[n] = F[n]
    BY <1>4, <2>1
  <2>3. Agree(c, F, e)
    BY <1>2, <2>1, <2>2 DEF Agree
  <2> QED BY <2>3, AgreeFacts
<1> QED BY <1>2, <1>3, <1>5, <1>6

\* Exp is the ring's power.
LEMMA RaiseStep ==
  ASSUME Elements, NEW x \in Objs, Raise(x)
  PROVE  Elements' /\ Ring!Exp(call')
<1>1. PICK e \in Exps :
        Returns([op |-> "exp", x |-> x, throws |-> FALSE, e |-> e], x, Exp(dcrt[x], e))
  BY DEF Raise
<1> DEFINE c == [op |-> "exp", x |-> x, throws |-> FALSE, e |-> e]
<1>2. c.op = "exp" /\ c.x = x /\ c.throws = FALSE /\ c.e = e
  OBVIOUS
<1>3. Returns(c, x, Exp(dcrt[x], e)) /\ e \in Nat
  BY <1>1, ArgumentsAssumption
<1> HIDE DEF c
<1>4. PICK S, f, q : S = DOMAIN dcrt[x] /\ f = PolyModulo(dcrt[x]) /\ q = ProductOf(S)
  OBVIOUS
<1>5. S \in SUBSET Chain /\ f \in [Cols -> Int] /\ Represents(dcrt[x], S, f)
  BY <1>4, ObjectFacts
<1> DEFINE G(r) == [n \in 0 .. e |->
                      IF n = 0 THEN [h \in Ring!Cols |-> IF h = 0 THEN 1 ELSE 0]
                      ELSE IF n = 1 THEN f ELSE Ring!Times(r[n - 1], f, q)]
<1>6. ASSUME NEW r
      PROVE  r = G(r) <=> IsPowers(r, e, f, q)
  <2>1. \A n : Ring!Times(r[n - 1], f, q) = Times(r[n - 1], f, q)
    BY RingArithmetic
  <2>2. [h \in Ring!Cols |-> IF h = 0 THEN 1 ELSE 0] = NumPoly(1)
    BY Zenon, RingColumns DEF NumPoly
  <2>3. G(r) = [n \in 0 .. e |->
                  IF n = 0 THEN NumPoly(1) ELSE IF n = 1 THEN f ELSE Times(r[n - 1], f, q)]
    BY Zenon, <2>1, <2>2
  <2> QED BY Zenon, <2>3 DEF IsPowers
<1>7. PICK p : p = CHOOSE r : r = G(r)
  OBVIOUS
<1>8. IsPowers(p, e, f, q)
  <2>1. \E r : IsPowers(r, e, f, q)
    BY <1>3, <1>4, <1>5, ExpFacts
  <2>2. \E r : r = G(r)
    BY Zenon, <1>6, <2>1
  <2>3. p = G(p)
    BY Zenon, <1>7, <2>2
  <2> QED BY Zenon, <1>6, <2>3
<1>9. p[e] \in [Cols -> Int] /\ Represents(Exp(dcrt[x], e), S, p[e])
  BY <1>3, <1>4, <1>5, <1>8, ExpFacts
<1>10. /\ Elements' /\ call' = c
       /\ Abstract' = [Abstract EXCEPT ![x] = [primes |-> S, poly |-> Ring!Mod(p[e], Ring!ProductOf(S))]]
  BY <1>3, <1>5, <1>9, ReturnsIs
<1>11. (call').x = x /\ (call').e = e /\ (call').op = "exp" /\ (call').throws = FALSE
  BY <1>2, <1>10
<1>12. Ring!Poly((call').x) = f /\ Ring!Modulus((call').x) = q
  BY Zenon, <1>4, <1>11, RingObjects
<1>13. p = CHOOSE r : r = [n \in 0 .. (call').e |->
                 IF n = 0 THEN [h \in Ring!Cols |-> IF h = 0 THEN 1 ELSE 0]
                 ELSE IF n = 1 THEN Ring!Poly((call').x)
                 ELSE Ring!Times(r[n - 1], Ring!Poly((call').x), Ring!Modulus((call').x))]
  BY Zenon, <1>7, <1>11, <1>12
<1>14. Ring!Exp(call')
  BY <1>4, <1>10, <1>11, <1>13 DEF Ring!Exp, Ring!Is, Ring!Primes, Abstract, RingElement
<1> QED BY <1>10, <1>14

\* The constructors make elements, and ring elements.
LEMMA InitElements ==
  ASSUME Init
  PROVE  Elements /\ Ring!Init
<1>1. PICK S \in [Objs -> FirstSets] : dcrt = [x \in Objs |-> Converted(First[x], S[x])]
  BY DEF Init
<1>2. ASSUME NEW x \in Objs
      PROVE  /\ DOMAIN dcrt[x] = S[x] /\ Element(dcrt[x])
             /\ PolyModulo(dcrt[x]) = Ring!Mod(First[x], Ring!ProductOf(S[x]))
  <2>1. PICK T, f, d : T = S[x] /\ f = First[x] /\ d = dcrt[x]
    OBVIOUS
  <2>2. T \in SUBSET Chain /\ f \in [Cols -> Int] /\ d = Converted(f, T)
    BY <1>1, <2>1, ArgumentsAssumption
  <2>3. Represents(d, T, f)
    BY <2>2, ConvertedValue
  <2>4. DOMAIN d = T /\ Element(d) /\ PolyModulo(d) = Mod(f, ProductOf(T))
    BY <2>2, <2>3, RepresentedElement, RepresentedModulo
  <2>5. Ring!Mod(f, Ring!ProductOf(T)) = Mod(f, ProductOf(T))
    BY RingArithmetic, RingProduct
  <2> QED BY <2>1, <2>4, <2>5
<1>3. Elements
  BY <1>1, <1>2 DEF Elements
<1>4. call = [op |-> "none"]
  BY DEF Init
<1>5. [x \in Objs |-> [primes |-> DOMAIN dcrt[x], poly |-> PolyModulo(dcrt[x])]]
        = [x \in Objs |-> [primes |-> S[x], poly |-> Ring!Mod(First[x], Ring!ProductOf(S[x]))]]
  BY <1>2
<1>6. Ring!Init
  BY <1>4, <1>5 DEF Ring!Init
<1> QED BY <1>3, <1>6

\* Every call makes elements of elements, and a step of the ring.
LEMMA NextElements ==
  ASSUME Elements, Next
  PROVE  Elements' /\ Ring!Next
<1>1. PICK x \in Objs :
        \/ \E y \in Objs : Copy(x, y) \/ Negate(x, y) \/ Combine(x, y)
        \/ Assign(x) \/ Randomize(x) \/ CombineWithPoly(x) \/ CombineWithNum(x)
        \/ Divide(x) \/ Raise(x) \/ Move(x) \/ Conjugate(x) \/ Extend(x) \/ ScaleUp(x)
        \/ Remove(x) \/ Replace(x) \/ ScaleDown(x) \/ Break(x)
  BY Zenon DEF Next
<1>2. CASE \E y \in Objs : Copy(x, y) \/ Negate(x, y) \/ Combine(x, y)
  <2>1. PICK y \in Objs : Copy(x, y) \/ Negate(x, y) \/ Combine(x, y)
    BY <1>2
  <2>2. CASE Copy(x, y)
    BY Zenon, <2>2, CopyStep DEF Ring!Next, Ring!Does
  <2>3. CASE Negate(x, y)
    BY Zenon, <2>3, NegateStep DEF Ring!Next, Ring!Does
  <2>4. CASE Combine(x, y)
    BY Zenon, <2>4, CombineStep DEF Ring!Next, Ring!Does
  <2> QED BY <2>1, <2>2, <2>3, <2>4
<1>3. CASE Assign(x)
  BY Zenon, <1>3, AssignStep DEF Ring!Next, Ring!Does
<1>4. CASE Randomize(x)
  BY Zenon, <1>4, RandomizeStep DEF Ring!Next, Ring!Does
<1>5. CASE CombineWithPoly(x)
  BY Zenon, <1>5, CombineWithPolyStep DEF Ring!Next, Ring!Does
<1>6. CASE CombineWithNum(x)
  BY Zenon, <1>6, CombineWithNumStep DEF Ring!Next, Ring!Does
<1>7. CASE Divide(x)
  BY Zenon, <1>7, DivideStep DEF Ring!Next, Ring!Does
<1>8. CASE Raise(x)
  BY Zenon, <1>8, RaiseStep DEF Ring!Next, Ring!Does
<1>9. CASE Move(x)
  BY Zenon, <1>9, MoveStep DEF Ring!Next, Ring!Does
<1>10. CASE Conjugate(x)
  BY Zenon, <1>10, ConjugateStep DEF Ring!Next, Ring!Does
<1>11. CASE Extend(x)
  BY Zenon, <1>11, ExtendStep DEF Ring!Next, Ring!Does
<1>12. CASE ScaleUp(x)
  BY Zenon, <1>12, ScaleUpStep DEF Ring!Next, Ring!Does
<1>13. CASE Remove(x)
  BY Zenon, <1>13, RemoveStep DEF Ring!Next, Ring!Does
<1>14. CASE Replace(x)
  BY Zenon, <1>14, ReplaceStep DEF Ring!Next, Ring!Does
<1>15. CASE ScaleDown(x)
  BY Zenon, <1>15, ScaleDownStep DEF Ring!Next, Ring!Does
<1>16. CASE Break(x)
  BY Zenon, <1>16, BreakStep DEF Ring!Next, Ring!Does
<1> QED BY <1>1, <1>2, <1>3, <1>4, <1>5, <1>6, <1>7, <1>8, <1>9, <1>10, <1>11, <1>12, <1>13,
           <1>14, <1>15, <1>16

\* The objects are elements in every state.
THEOREM AlwaysElements == Spec => []Elements
<1>1. Init => Elements
  BY InitElements
<1>2. Elements /\ [Next]_vars => Elements'
  <2> SUFFICES ASSUME Elements, [Next]_vars
               PROVE  Elements'
    OBVIOUS
  <2>1. CASE Next
    BY <2>1, NextElements
  <2>2. CASE UNCHANGED vars
    BY <2>2 DEF vars, Elements
  <2> QED BY <2>1, <2>2
<1> QED BY <1>1, <1>2, PTL DEF Spec

\* The rows implement the ring, whatever the calls and their order.
THEOREM Refinement == Spec => ImplementsRing
<1>1. Init => Ring!Init
  BY InitElements
<1>2. Elements /\ [Next]_vars => [Ring!Next]_(Ring!vars)
  <2> SUFFICES ASSUME Elements, [Next]_vars
               PROVE  [Ring!Next]_(Ring!vars)
    OBVIOUS
  <2>1. CASE Next
    BY <2>1, NextElements
  <2>2. CASE UNCHANGED vars
    BY <2>2 DEF vars, Ring!vars
  <2> QED BY <2>1, <2>2
<1> QED BY <1>1, <1>2, AlwaysElements, PTL DEF Spec, ImplementsRing, Ring!Spec

-----------------------------------------------------------------------------
(* Digits. *)

\* The digits partition the ciphertext primes.
LEMMA DigitsAre ==
  /\ Len(Digits) \in Nat /\ DOMAIN Digits = 1 .. Len(Digits)
  /\ \A k \in 1 .. Len(Digits) : Digits[k] \in SUBSET Chain
  /\ \A k, l \in 1 .. Len(Digits) : k # l => Digits[k] \cap Digits[l] = {}
  /\ UNION {Digits[k] : k \in 1 .. Len(Digits)} = CtxtPrimes
<1>1. Digits \in Seq(SUBSET Chain)
  BY ChainAssumption
<1>2. Len(Digits) \in Nat /\ DOMAIN Digits = 1 .. Len(Digits)
  BY <1>1, LenProperties
<1>3. \A k \in 1 .. Len(Digits) : Digits[k] \in SUBSET Chain
  BY <1>1, ElementOfSeq
<1>4. \A k, l \in DOMAIN Digits : k # l => Digits[k] \cap Digits[l] = {}
  BY ChainAssumption
<1>5. UNION {Digits[k] : k \in DOMAIN Digits} = CtxtPrimes
  BY ChainAssumption
<1> QED BY <1>2, <1>3, <1>4, <1>5

\* There are digits enough.
LEMMA NDigitsFacts ==
  ASSUME NEW S, S \subseteq CtxtPrimes, NEW n, n = NDigits(S)
  PROVE  /\ n \in 0 .. Len(Digits) /\ n \in Nat
         /\ \A r \in S : \E k \in 1 .. n : r \in Digits[k]
<1> DEFINE Covers(m) == S \subseteq UNION {Digits[k] : k \in 1 .. m}
           N == {m \in Nat : Covers(m)}
<1>1. N \in SUBSET Nat /\ Len(Digits) \in N
  BY DigitsAre
<1>2. PICK m \in N : \A l \in N : m =< l
  BY <1>1, LeastMember
<1>3. m \in 0 .. Len(Digits) /\ Covers(m)
  BY <1>1, <1>2, DigitsAre
<1>4. \A l \in 0 .. m - 1 : ~Covers(l)
  <2> SUFFICES ASSUME NEW l \in 0 .. m - 1, Covers(l)
               PROVE  FALSE
    OBVIOUS
  <2>1. l \in N /\ l < m
    BY <1>2
  <2> QED BY <1>2, <2>1
<1>5. n = CHOOSE x \in 0 .. Len(Digits) : Covers(x) /\ \A l \in 0 .. x - 1 : ~Covers(l)
  BY Zenon DEF NDigits
<1> HIDE DEF Covers
<1>6. n \in 0 .. Len(Digits) /\ Covers(n)
  BY Zenon, <1>3, <1>4, <1>5
<1> QED BY <1>6, DigitsAre DEF Covers

\* The products of the digits before one.
LEMMA DigitProductFacts ==
  /\ DigitProduct(1) = 1
  /\ \A m \in 1 .. Len(Digits) :
       /\ DigitProduct(m) \in Int /\ ProductOf(Digits[m]) \in Int
       /\ DigitProduct(m + 1) \in Int /\ DigitProduct(m + 1) = ProductOf(Digits[m]) * DigitProduct(m)
<1>1. PICK f : f = [k \in DOMAIN Digits |-> ProductOf(Digits[k])]
  OBVIOUS
<1>2. \A m : DigitProduct(m) = ProductOver(f, 1 .. m - 1)
  BY Zenon, <1>1 DEF DigitProduct, ProductOver
<1>3. \A k \in 1 .. Len(Digits) : f[k] = ProductOf(Digits[k]) /\ f[k] \in Int
  BY <1>1, DigitsAre, ProductPositive
<1>4. DigitProduct(1) = 1
  <2>1. 1 .. 1 - 1 = {}
    OBVIOUS
  <2> QED BY <1>2, <2>1, ProductOfEmpty
<1>5. ASSUME NEW m \in 1 .. Len(Digits)
      PROVE  /\ DigitProduct(m) \in Int /\ ProductOf(Digits[m]) \in Int
             /\ DigitProduct(m + 1) \in Int /\ DigitProduct(m + 1) = ProductOf(Digits[m]) * DigitProduct(m)
  <2>1. PICK U : U = 1 .. m - 1
    OBVIOUS
  <2>2. /\ IsFiniteSet(U) /\ m \notin U /\ 1 .. (m + 1) - 1 = U \cup {m} /\ U \subseteq 1 .. Len(Digits)
        /\ m \in Int /\ Len(Digits) \in Nat
    <3>1. m \in Int /\ m >= 1 /\ Len(Digits) \in Nat /\ m =< Len(Digits)
      BY DigitsAre
    <3>2. IsFiniteSet(U)
      BY <2>1, <3>1, FS_Interval
    <3>3. 1 .. (m + 1) - 1 = U \cup {m} /\ U \subseteq 1 .. Len(Digits) /\ m \notin U
      BY <2>1, <3>1
    <3> QED BY <3>1, <3>2, <3>3
  <2>3. f[m] \in Int /\ \A y \in U : f[y] \in Int
    BY <1>3, <2>2
  <2>4. ProductOver(f, U \cup {m}) = f[m] * ProductOver(f, U) /\ ProductOver(f, U) \in Int
    BY <2>2, <2>3, ProductAdds, ProductType
  <2>5. DigitProduct(m) = ProductOver(f, U) /\ DigitProduct(m + 1) = ProductOver(f, U \cup {m})
    BY <1>2, <2>1, <2>2
  <2>6. f[m] = ProductOf(Digits[m])
    BY <1>3
  <2>7. f[m] * ProductOver(f, U) \in Int
    BY <2>3, <2>4
  <2> QED BY <2>3, <2>4, <2>5, <2>6, <2>7
<1> QED BY <1>4, <1>5

DigitOf(part, S) == AddPrimes(part, (S \cup SpecialPrimes) \ DOMAIN part)

\* A digit is an element that stands for a small polynomial.
IsDigit(e, S, k) ==
  \E f \in [Cols -> Int] :
    Represents(e, S \cup SpecialPrimes, f) /\ \A h \in Cols : Small(f[h], ProductOf(Digits[k] \cap S))

\* The first i digits are taken, the others are still over their own primes.
IsBroken(b, i, S, n) ==
  /\ b = [k \in 1 .. n |-> b[k]]
  /\ \A k \in 1 .. i : IsDigit(b[k], S, k)
  /\ \A k \in i + 1 .. n : Element(b[k]) /\ DOMAIN b[k] = S \cap Digits[k]

\* A part, lifted to all the primes, is a small digit that agrees with it in its rows.
LEMMA DigitTaken ==
  ASSUME NEW S, S \subseteq CtxtPrimes, NEW k \in 1 .. Len(Digits),
         NEW part, Element(part), DOMAIN part = S \cap Digits[k], NEW e, e = DigitOf(part, S)
  PROVE  /\ IsDigit(e, S, k)
         /\ \E f \in [Cols -> Int] : Represents(e, S \cup SpecialPrimes, f)
         /\ \A r \in S \cap Digits[k], j \in Cols :
              part[r][j] \in Int /\ e[r][j] \in Int /\ Cong(part[r][j], e[r][j], Prime[r])
<1>1. PICK D, T, f : /\ D = S \cap Digits[k] /\ T = (S \cup SpecialPrimes) \ D
                     /\ f = ToPoly(part, D)
  OBVIOUS
<1>2. /\ D \in SUBSET Chain /\ T \in SUBSET Chain /\ D \cap T = {} /\ D \cup T = S \cup SpecialPrimes
      /\ D \in SUBSET (S \cup SpecialPrimes) /\ S \cup SpecialPrimes \in SUBSET Chain
  BY <1>1, ChainAssumption
<1>3. e = AddPrimes(part, T)
  BY <1>1 DEF DigitOf
<1>4. f \in [Cols -> Int] /\ Represents(part, D, f)
  <2>1. Element(part) /\ D = DOMAIN part /\ f = ToPoly(part, DOMAIN part)
    BY <1>1
  <2> QED BY ONLY <2>1, ElementRepresents
<1>5. Represents(e, S \cup SpecialPrimes, f)
  BY <1>1, <1>2, <1>3, AddedRepresents
<1>6. \A h \in Cols : Small(f[h], ProductOf(Digits[k] \cap S))
  <2>1. IsElement(part) /\ DOMAIN part \cap D = Digits[k] \cap S
    BY <1>1 DEF Element
  <2> QED BY <1>1, <2>1, ToPolyValue
<1>7. ASSUME NEW r \in D, NEW j \in Cols
      PROVE  part[r][j] \in Int /\ e[r][j] \in Int /\ Cong(part[r][j], e[r][j], Prime[r])
  <2>1. /\ part[r][j] \in Int /\ e[r][j] \in Int /\ Cong(part[r][j], Ev(f, r, j), Prime[r])
        /\ Cong(e[r][j], Ev(f, r, j), Prime[r])
    BY <1>2, <1>4, <1>5 DEF Represents
  <2>2. Ev(f, r, j) \in Int /\ Prime[r] \in Int
    BY <1>2, <1>4, EvType, SmallPoly, PrimeFacts
  <2>3. Cong(Ev(f, r, j), e[r][j], Prime[r])
    BY <2>1, <2>2, CongSym
  <2> QED BY <2>1, <2>2, <2>3, CongTrans
<1> QED BY <1>1, <1>4, <1>5, <1>6, <1>7 DEF IsDigit

\* What is left of a later digit, when digit i is taken off.
IsRest(c, part, e, i) == c = DividedBy(Op("sub", part, e), ProductOf(Digits[i]))

\* A later part, less the digit and divided by the digit's product.
LEMMA LaterDigit ==
  ASSUME NEW S, S \subseteq CtxtPrimes, NEW i \in 1 .. Len(Digits), NEW k \in 1 .. Len(Digits), k # i,
         NEW part, Element(part), DOMAIN part = S \cap Digits[k],
         NEW e, NEW f \in [Cols -> Int], Represents(e, S \cup SpecialPrimes, f),
         NEW c, IsRest(c, part, e, i)
  PROVE  /\ Element(c) /\ DOMAIN c = S \cap Digits[k]
         /\ \A r \in S \cap Digits[k], j \in Cols :
              /\ c[r][j] \in Int /\ part[r][j] \in Int /\ e[r][j] \in Int
              /\ Cong(ProductOf(Digits[i]) * c[r][j], part[r][j] - e[r][j], Prime[r])
<1>1. PICK D, T, Q, fun, g : /\ D = S \cap Digits[k] /\ T = S \cup SpecialPrimes /\ Q = ProductOf(Digits[i])
                             /\ fun = "sub" /\ g = ToPoly(part, D)
  OBVIOUS
<1>2. D \in SUBSET Chain /\ T \in SUBSET Chain /\ D \subseteq T /\ Digits[i] \in SUBSET Chain
  BY <1>1, ChainAssumption, DigitsAre
<1>3. g \in [Cols -> Int] /\ Represents(part, D, g)
  <2>1. Element(part) /\ D = DOMAIN part /\ g = ToPoly(part, DOMAIN part)
    BY <1>1
  <2> QED BY ONLY <2>1, ElementRepresents
<1>4. fun \in Funs /\ Represents(e, T, f)
  BY <1>1 DEF Funs
<1>5. PICK w, d : w = RingOf(fun, g, f, ProductOf(D)) /\ d = Op(fun, part, e)
  OBVIOUS
<1>6. w \in [Cols -> Int] /\ Represents(d, D, w)
  BY <1>2, <1>3, <1>4, <1>5, OpRepresents
<1>7. Q \in Int /\ \A r \in D : Unit(Q, Prime[r])
  BY <1>1, <1>2, DigitsAre, ProductPositive, ProductUnit
<1>8. c = DividedBy(d, Q)
  BY <1>1, <1>5 DEF IsRest
<1>9. /\ Element(c) /\ DOMAIN c = D
      /\ \A r \in D, j \in Cols : c[r][j] \in Int /\ Cong(Q * c[r][j], Ev(w, r, j), Prime[r])
  <2>1. /\ Element(DividedBy(d, Q)) /\ DOMAIN DividedBy(d, Q) = D
        /\ \A r \in D, j \in Cols :
             DividedBy(d, Q)[r][j] \in Int /\ Cong(Q * DividedBy(d, Q)[r][j], Ev(w, r, j), Prime[r])
    BY ONLY <1>2, <1>6, <1>7, DividedRepresents
  <2> QED BY ONLY <1>8, <2>1
<1>10. ASSUME NEW r \in D, NEW j \in Cols
       PROVE  /\ c[r][j] \in Int /\ part[r][j] \in Int /\ e[r][j] \in Int
              /\ Cong(Q * c[r][j], part[r][j] - e[r][j], Prime[r])
  <2>1. /\ r \in Chain /\ Prime[r] \in Int /\ Divides(Prime[r], ProductOf(D)) /\ ProductOf(D) \in Positive
    BY <1>2, PrimeFacts, PrimeDividesProduct, ProductPositive
  <2>2. PICK x, a, b, u, v, z : /\ x = Q * c[r][j] /\ a = part[r][j] /\ b = e[r][j]
                                /\ u = Ev(g, r, j) /\ v = Ev(f, r, j) /\ z = Ev(w, r, j)
    OBVIOUS
  <2>3. /\ x \in Int /\ u \in Int /\ v \in Int /\ z \in Int /\ c[r][j] \in Int
    <3>1. IsPoly(g) /\ IsPoly(f) /\ IsPoly(w)
      BY <1>3, <1>6, SmallPoly
    <3>2. u \in Int /\ v \in Int /\ z \in Int
      BY <2>1, <2>2, <3>1, EvType
    <3>3. c[r][j] \in Int
      BY <1>9
    <3> QED BY <1>7, <2>2, <3>2, <3>3
  <2>4. a \in Int /\ b \in Int /\ Cong(a, u, Prime[r]) /\ Cong(b, v, Prime[r])
    BY <1>2, <1>3, <1>4, <2>2 DEF Represents
  <2>5. Cong(x, z, Prime[r])
    BY <1>9, <2>2
  <2>6. Cong(z, u - v, Prime[r])
    <3>1. Cong(z, Number(fun, u, v), Prime[r])
      BY <1>3, <1>4, <1>5, <2>1, <2>2, RingOfValue
    <3> QED BY <1>1, <3>1 DEF Number
  <2>7. Cong(a - b, u - v, Prime[r])
    BY <2>1, <2>3, <2>4, CongPlus
  <2>8. u - v \in Int /\ a - b \in Int
    BY <2>3, <2>4
  <2>9. Cong(u - v, a - b, Prime[r])
    BY <2>1, <2>7, <2>8, CongSym
  <2>10. Cong(x, u - v, Prime[r])
    BY <2>1, <2>3, <2>5, <2>6, <2>8, CongTrans
  <2>11. Cong(x, a - b, Prime[r])
    BY <2>1, <2>3, <2>8, <2>9, <2>10, CongTrans
  <2> QED BY <2>2, <2>3, <2>4, <2>11
<1> QED BY <1>1, <1>9, <1>10

\* The i-th digit is the i-th part of b, in the rows of the digit's primes.
TakesDigit(b, e, i, S) ==
  \A r \in S \cap Digits[i], j \in Cols :
    b[i][r][j] \in Int /\ e[r][j] \in Int /\ Cong(b[i][r][j], e[r][j], Prime[r])

\* The later parts are what is left of b without the digit, divided by its product.
TakesRest(c, b, e, i, S, n) ==
  \A k \in i + 1 .. n : \A r \in S \cap Digits[k], j \in Cols :
    /\ c[k][r][j] \in Int /\ b[k][r][j] \in Int /\ e[r][j] \in Int
    /\ Cong(ProductOf(Digits[i]) * c[k][r][j], b[k][r][j] - e[r][j], Prime[r])

\* What one round of breakIntoDigits does.
IsRound(c, b, e, i, S, n) ==
  /\ IsBroken(c, i, S, n) /\ c[i] = e /\ \A k \in 1 .. i - 1 : c[k] = b[k]
  /\ TakesDigit(b, e, i, S) /\ TakesRest(c, b, e, i, S, n)

\* One round of breakIntoDigits.
LEMMA LiftedFacts ==
  ASSUME NEW S, S \subseteq CtxtPrimes, NEW n \in 0 .. Len(Digits), NEW i \in 1 .. n,
         NEW b, IsBroken(b, i - 1, S, n), NEW e, e = DigitOf(b[i], S), NEW c, c = Lifted(b, i, e)
  PROVE  IsRound(c, b, e, i, S, n)
<1>1. Len(Digits) \in Nat /\ n \in Nat /\ i \in 1 .. Len(Digits) /\ i \in (i - 1) + 1 .. n
  BY DigitsAre
<1>2. /\ b = [k \in 1 .. n |-> b[k]] /\ \A k \in 1 .. i - 1 : IsDigit(b[k], S, k)
      /\ \A k \in (i - 1) + 1 .. n : Element(b[k]) /\ DOMAIN b[k] = S \cap Digits[k]
  BY DEF IsBroken
<1>3. /\ IsDigit(e, S, i)
      /\ \A r \in S \cap Digits[i], j \in Cols :
           b[i][r][j] \in Int /\ e[r][j] \in Int /\ Cong(b[i][r][j], e[r][j], Prime[r])
  BY <1>1, <1>2, DigitTaken
<1>4. PICK f \in [Cols -> Int] : Represents(e, S \cup SpecialPrimes, f)
  BY <1>3 DEF IsDigit
<1>5. /\ c = [k \in 1 .. n |-> c[k]] /\ c[i] = e /\ \A k \in 1 .. i - 1 : c[k] = b[k]
      /\ \A k \in i + 1 .. n : c[k] = DividedBy(Op("sub", b[k], e), ProductOf(Digits[i]))
  <2>1. DOMAIN b = 1 .. n
    BY <1>2
  <2>2. c = [k \in 1 .. n |-> IF k < i THEN b[k] ELSE IF k = i THEN e
                              ELSE DividedBy(Op("sub", b[k], e), ProductOf(Digits[i]))]
    BY <2>1 DEF Lifted
  <2>3. \A k \in i + 1 .. n : k \in 1 .. n /\ ~(k < i) /\ k # i
    BY <1>1
  <2>4. \A k \in 1 .. i - 1 : k \in 1 .. n /\ k < i
    BY <1>1
  <2> QED BY <1>1, <2>2, <2>3, <2>4
<1>6. ASSUME NEW k \in i + 1 .. n
      PROVE  /\ Element(c[k]) /\ DOMAIN c[k] = S \cap Digits[k]
             /\ \A r \in S \cap Digits[k], j \in Cols :
                  /\ c[k][r][j] \in Int /\ b[k][r][j] \in Int /\ e[r][j] \in Int
                  /\ Cong(ProductOf(Digits[i]) * c[k][r][j], b[k][r][j] - e[r][j], Prime[r])
  <2>1. k \in 1 .. Len(Digits) /\ k # i /\ k \in (i - 1) + 1 .. n
    BY <1>1
  <2>2. Element(b[k]) /\ DOMAIN b[k] = S \cap Digits[k]
    BY <1>2, <2>1
  <2>3. c[k] = DividedBy(Op("sub", b[k], e), ProductOf(Digits[i]))
    BY <1>5
  <2>4. PICK x, part : x = c[k] /\ part = b[k]
    OBVIOUS
  <2>6. IsRest(x, part, e, i)
    BY <2>3, <2>4 DEF IsRest
  <2>7. Element(part) /\ DOMAIN part = S \cap Digits[k]
    BY <2>2, <2>4
  <2>5. /\ Element(x) /\ DOMAIN x = S \cap Digits[k]
        /\ \A r \in S \cap Digits[k], j \in Cols :
             /\ x[r][j] \in Int /\ part[r][j] \in Int /\ e[r][j] \in Int
             /\ Cong(ProductOf(Digits[i]) * x[r][j], part[r][j] - e[r][j], Prime[r])
    BY ONLY S \subseteq CtxtPrimes, f \in [Cols -> Int], <1>1, <1>4, <2>1, <2>6, <2>7, LaterDigit
  <2> QED BY ONLY <2>4, <2>5
<1>7. \A k \in 1 .. i : IsDigit(c[k], S, k)
  <2> SUFFICES ASSUME NEW k \in 1 .. i
               PROVE  IsDigit(c[k], S, k)
    OBVIOUS
  <2>1. CASE k = i
    BY <1>3, <1>5, <2>1
  <2>2. CASE k # i
    <3>1. k \in 1 .. i - 1
      BY <1>1, <2>2
    <3> QED BY <1>2, <1>5, <3>1
  <2> QED BY <2>1, <2>2
<1>8. IsBroken(c, i, S, n)
  BY <1>5, <1>6, <1>7 DEF IsBroken
<1>9. TakesDigit(b, e, i, S)
  BY ONLY <1>3 DEF TakesDigit
<1>10. TakesRest(c, b, e, i, S, n)
  BY ONLY <1>6 DEF TakesRest
<1> QED BY ONLY <1>5, <1>8, <1>9, <1>10 DEF IsRound

\* The parts before a digit is taken.
FirstParts(d, n) == [k \in 1 .. n |-> RemovePrimes(d, DOMAIN d \ Digits[k])]
NextParts(b, i, d) == Lifted(b, i, DigitOf(b[i], DOMAIN d))

\* The function breakIntoDigits computes the digits with.
IsBreaking(c, d, n) ==
  c = [i \in 0 .. n |-> IF i = 0 THEN FirstParts(d, n) ELSE NextParts(c[i - 1], i, d)]

\* The recursion of breakIntoDigits, step by step.
LEMMA BreakingIs ==
  ASSUME NEW n \in Nat, NEW d, NEW c
  PROVE  IsBreaking(c, d, n) <=>
           /\ c = [i \in 0 .. n |-> c[i]] /\ c[0] = FirstParts(d, n)
           /\ \A i \in 1 .. n : c[i] = NextParts(c[i - 1], i, d)
<1>1. ASSUME IsBreaking(c, d, n)
      PROVE  /\ c = [i \in 0 .. n |-> c[i]] /\ c[0] = FirstParts(d, n)
             /\ \A i \in 1 .. n : c[i] = NextParts(c[i - 1], i, d)
  BY <1>1 DEF IsBreaking
<1>2. ASSUME /\ c = [i \in 0 .. n |-> c[i]] /\ c[0] = FirstParts(d, n)
             /\ \A i \in 1 .. n : c[i] = NextParts(c[i - 1], i, d)
      PROVE  IsBreaking(c, d, n)
  <2>1. \A i \in 0 .. n : c[i] = IF i = 0 THEN FirstParts(d, n) ELSE NextParts(c[i - 1], i, d)
    <3> SUFFICES ASSUME NEW i \in 0 .. n
                 PROVE  c[i] = IF i = 0 THEN FirstParts(d, n) ELSE NextParts(c[i - 1], i, d)
      OBVIOUS
    <3>1. CASE i = 0
      BY <1>2, <3>1
    <3>2. CASE i # 0
      <4>1. i \in 1 .. n
        BY <3>2
      <4> QED BY <1>2, <3>2, <4>1
    <3> QED BY <3>1, <3>2
  <2> QED BY <1>2, <2>1 DEF IsBreaking
<1> QED BY <1>1, <1>2

AllElements == {e \in UNION {[T -> UNION {Rows(i) : i \in Chain}] : T \in SUBSET Chain} : Element(e)}

\* AllElements is the set of all elements.
LEMMA ElementIn ==
  ASSUME NEW e
  PROVE  Element(e) <=> e \in AllElements
<1>1. ASSUME Element(e) PROVE e \in AllElements
  <2>1. PICK T, R : T = DOMAIN e /\ R = UNION {Rows(i) : i \in Chain}
    OBVIOUS
  <2>2. T \in SUBSET Chain /\ e = [i \in T |-> e[i]] /\ \A i \in T : e[i] \in Rows(i)
    BY <1>1, <2>1 DEF Element, IsElement
  <2>3. \A i \in T : e[i] \in R
    BY <2>1, <2>2
  <2>4. e \in [T -> R]
    BY <2>2, <2>3
  <2> QED BY <1>1, <2>1, <2>2, <2>4 DEF AllElements
<1> QED BY <1>1 DEF AllElements

\* A digit is an element over the primes and the special primes.
LEMMA DigitIsElement ==
  ASSUME NEW S, S \subseteq CtxtPrimes, NEW e, NEW k, IsDigit(e, S, k)
  PROVE  Element(e) /\ DOMAIN e = S \cup SpecialPrimes
<1>1. PICK f \in [Cols -> Int] : Represents(e, S \cup SpecialPrimes, f)
  BY DEF IsDigit
<1>2. S \cup SpecialPrimes \in SUBSET Chain
  BY ChainAssumption
<1> QED BY <1>1, <1>2, RepresentedElement

\* The parts are a function into the elements.
LEMMA BrokenIn ==
  ASSUME NEW S, S \subseteq CtxtPrimes, NEW n \in Nat, NEW i \in 0 .. n, NEW b, IsBroken(b, i, S, n)
  PROVE  b \in [1 .. n -> AllElements]
<1>1. /\ b = [k \in 1 .. n |-> b[k]] /\ \A k \in 1 .. i : IsDigit(b[k], S, k)
      /\ \A k \in i + 1 .. n : Element(b[k])
  BY DEF IsBroken
<1>2. ASSUME NEW k \in 1 .. n PROVE b[k] \in AllElements
  <2>1. CASE k \in 1 .. i
    BY <1>1, <2>1, DigitIsElement, ElementIn
  <2>2. CASE k \in i + 1 .. n
    BY <1>1, <2>2, ElementIn
  <2> QED BY <2>1, <2>2
<1> QED BY <1>1, <1>2

\* Before the first digit the parts are the element's rows.
LEMMA FirstBroken ==
  ASSUME NEW d, Element(d), NEW S, S = DOMAIN d, NEW n \in Nat
  PROVE  /\ IsBroken(FirstParts(d, n), 0, S, n)
         /\ \A k \in 1 .. n : \A r \in S \cap Digits[k] : FirstParts(d, n)[k][r] = d[r]
<1>1. PICK b : b = FirstParts(d, n)
  OBVIOUS
<1>2. b = [k \in 1 .. n |-> b[k]] /\ \A k \in 1 .. n : b[k] = RemovePrimes(d, S \ Digits[k])
  BY <1>1 DEF FirstParts
<1>3. ASSUME NEW k \in 1 .. n
      PROVE  /\ Element(b[k]) /\ DOMAIN b[k] = S \cap Digits[k]
             /\ \A r : r \in S \cap Digits[k] => b[k][r] = d[r]
  <2>1. PICK T, e : T = S \cap Digits[k] /\ e = b[k]
    OBVIOUS
  <2>2. S \ (S \ Digits[k]) = T
    BY <2>1
  <2>3. e = [i \in T |-> d[i]]
    BY <1>2, <2>1, <2>2 DEF RemovePrimes
  <2>4. T \in SUBSET Chain /\ \A i \in T : d[i] \in Rows(i)
    BY <2>1 DEF Element, IsElement
  <2>5. Element(e) /\ DOMAIN e = T
    BY <2>3, <2>4 DEF Element, IsElement
  <2> QED BY <2>1, <2>3, <2>5
<1> QED BY <1>1, <1>2, <1>3 DEF IsBroken

\* The recursion of breakIntoDigits has a solution, and its rounds are right.
LEMMA BreakingExists ==
  ASSUME NEW d, Element(d), NEW S, S = DOMAIN d, S \subseteq CtxtPrimes, NEW n \in 0 .. Len(Digits)
  PROVE  \E c : IsBreaking(c, d, n) /\ \A i \in 0 .. n : IsBroken(c[i], i, S, n)
<1> DEFINE A == [1 .. n -> AllElements]
           Inv == [i \in 0 .. n |-> {b \in A : IsBroken(b, i, S, n)}]
           step == [p \in Nat \X A |-> NextParts(p[2], p[1] + 1, d)]
<1>1. Len(Digits) \in Nat /\ n \in Nat
  BY DigitsAre
<1>2. PICK a0 : a0 = FirstParts(d, n)
  OBVIOUS
<1>3. /\ \A i \in Nat, b \in A : step[<<i, b>>] = NextParts(b, i + 1, d)
      /\ \A i \in 0 .. n : \A b : b \in Inv[i] <=> b \in A /\ IsBroken(b, i, S, n)
  OBVIOUS
<1>4. \A i \in 0 .. n : \A b : IsBroken(b, i, S, n) => b \in A
  BY <1>1, BrokenIn
<1> HIDE DEF A, Inv, step
<1>5. a0 \in A /\ a0 \in Inv[0]
  <2>1. IsBroken(a0, 0, S, n)
    BY <1>1, <1>2, FirstBroken
  <2> QED BY <1>1, <1>3, <1>4, <2>1
<1>6. Keeps(n, A, step, Inv)
  <2> SUFFICES ASSUME NEW i \in 0 .. n - 1, NEW b \in A, b \in Inv[i]
               PROVE  step[<<i, b>>] \in A /\ step[<<i, b>>] \in Inv[i + 1]
    BY DEF Keeps
  <2>1. i \in Nat /\ i \in 0 .. n /\ i + 1 \in 1 .. n /\ i + 1 \in 0 .. n /\ (i + 1) - 1 = i
    BY <1>1
  <2>2. PICK j, c : j = i + 1 /\ c = step[<<i, b>>]
    OBVIOUS
  <2>3. c = NextParts(b, j, d)
    BY <1>3, <2>1, <2>2
  <2>4. c = Lifted(b, j, DigitOf(b[j], S))
    BY <2>3 DEF NextParts
  <2>5. j \in 1 .. n /\ j - 1 = i /\ IsBroken(b, j - 1, S, n)
    BY <1>3, <2>1, <2>2
  <2>6. IsBroken(c, j, S, n)
    <3>1. PICK e : e = DigitOf(b[j], S)
      OBVIOUS
    <3>2. IsRound(c, b, e, j, S, n)
      BY <2>4, <2>5, <3>1, LiftedFacts
    <3> QED BY ONLY <3>2 DEF IsRound
  <2> QED BY <1>3, <1>4, <2>1, <2>2, <2>6
<1>7. PICK f : IsLoop(f, n, A, a0, step, Inv)
  BY ONLY <1>1, <1>5, <1>6, LoopExists
<1>8. /\ f \in [0 .. n -> A] /\ f = [k \in 0 .. n |-> f[k]]
      /\ f[0] = a0 /\ \A k \in 1 .. n : f[k] = step[<<k - 1, f[k - 1]>>]
      /\ \A k \in 0 .. n : f[k] \in Inv[k]
  BY <1>7 DEF IsLoop
<1>9. ASSUME NEW i \in 1 .. n
      PROVE  f[i] = NextParts(f[i - 1], i, d)
  <2>1. i - 1 \in Nat /\ i - 1 \in 0 .. n /\ (i - 1) + 1 = i
    BY <1>1
  <2>2. f[i - 1] \in A
    BY <1>8, <2>1
  <2> QED BY <1>3, <1>8, <2>1, <2>2
<1>10. IsBreaking(f, d, n)
  BY <1>1, <1>2, <1>8, <1>9, BreakingIs
<1> QED BY <1>3, <1>8, <1>10

\* breakIntoDigits returns what the last round leaves.
LEMMA BreakIntoDigitsIs ==
  ASSUME NEW d, Element(d), NEW S, S = DOMAIN d, S \subseteq CtxtPrimes, NEW n, n = NDigits(S)
  PROVE  \E c : /\ IsBreaking(c, d, n) /\ \A i \in 0 .. n : IsBroken(c[i], i, S, n)
                /\ BreakIntoDigits(d) = c[n]
<1>1. n \in 0 .. Len(Digits) /\ n \in Nat
  BY NDigitsFacts
<1>2. PICK f : IsBreaking(f, d, n) /\ \A i \in 0 .. n : IsBroken(f[i], i, S, n)
  BY <1>1, BreakingExists
<1>3. PICK c : c = CHOOSE x : IsBreaking(x, d, n)
  OBVIOUS
<1>4. IsBreaking(c, d, n)
  BY Zenon, <1>2, <1>3
<1>5. BreakIntoDigits(d) = c[n]
  BY Zenon, <1>3 DEF BreakIntoDigits, IsBreaking, FirstParts, NextParts, DigitOf
<1>6. Agree(c, f, n)
  <2>1. c[0] = FirstParts(d, n) /\ \A i \in 1 .. n : c[i] = NextParts(c[i - 1], i, d)
    BY <1>1, <1>4, BreakingIs
  <2>2. f[0] = FirstParts(d, n) /\ \A i \in 1 .. n : f[i] = NextParts(f[i - 1], i, d)
    BY <1>1, <1>2, BreakingIs
  <2> QED BY <2>1, <2>2 DEF Agree
<1>7. \A m \in 0 .. n : c[m] = f[m]
  BY <1>1, <1>6, AgreeFacts
<1>8. \A i \in 0 .. n : IsBroken(c[i], i, S, n)
  BY <1>2, <1>7
<1> QED BY <1>4, <1>5, <1>8

\* The digits added up, as far as the m-th.
WithDigit(a, e, m) == Op("add", a, OpNum("mul", RemovePrimes(e, SpecialPrimes), DigitProduct(m)))

IsSum(s, P, S, n) ==
  s = [m \in 0 .. n |-> IF m = 0 THEN Constant(0, S) ELSE WithDigit(s[m - 1], P[m], m)]

\* The recursion of the sum of the digits, step by step.
LEMMA SumIs ==
  ASSUME NEW n \in Nat, NEW P, NEW S, NEW s
  PROVE  IsSum(s, P, S, n) <=>
           /\ s = [m \in 0 .. n |-> s[m]] /\ s[0] = Constant(0, S)
           /\ \A m \in 1 .. n : s[m] = WithDigit(s[m - 1], P[m], m)
<1>1. ASSUME IsSum(s, P, S, n)
      PROVE  /\ s = [m \in 0 .. n |-> s[m]] /\ s[0] = Constant(0, S)
             /\ \A m \in 1 .. n : s[m] = WithDigit(s[m - 1], P[m], m)
  BY <1>1 DEF IsSum
<1>2. ASSUME /\ s = [m \in 0 .. n |-> s[m]] /\ s[0] = Constant(0, S)
             /\ \A m \in 1 .. n : s[m] = WithDigit(s[m - 1], P[m], m)
      PROVE  IsSum(s, P, S, n)
  <2>1. \A m \in 0 .. n : s[m] = IF m = 0 THEN Constant(0, S) ELSE WithDigit(s[m - 1], P[m], m)
    <3> SUFFICES ASSUME NEW m \in 0 .. n
                 PROVE  s[m] = IF m = 0 THEN Constant(0, S) ELSE WithDigit(s[m - 1], P[m], m)
      OBVIOUS
    <3>1. CASE m = 0
      BY <1>2, <3>1
    <3>2. CASE m # 0
      <4>1. m \in 1 .. n
        BY <3>2
      <4> QED BY <1>2, <3>2, <4>1
    <3> QED BY <3>1, <3>2
  <2> QED BY <1>2, <2>1 DEF IsSum
<1> QED BY <1>1, <1>2

\* t is a with the m-th digit e added.
IsAdded(t, a, e, m, S) ==
  \A r \in S, j \in Cols :
    /\ t[r][j] \in Int /\ a[r][j] \in Int /\ e[r][j] \in Int
    /\ Cong(t[r][j], a[r][j] + e[r][j] * DigitProduct(m), Prime[r])

\* Adding a digit adds it to the rows, times the product before it.
LEMMA WithDigitFacts ==
  ASSUME NEW S, S \subseteq CtxtPrimes, NEW a, Element(a), DOMAIN a = S,
         NEW e, NEW m \in 1 .. Len(Digits), IsDigit(e, S, m), NEW c, c = WithDigit(a, e, m)
  PROVE  Element(c) /\ DOMAIN c = S /\ IsAdded(c, a, e, m, S)
<1>1. PICK D : D = DigitProduct(m)
  OBVIOUS
<1>2. D \in Int
  BY <1>1, DigitProductFacts
<1>3. Element(e) /\ DOMAIN e = S \cup SpecialPrimes /\ S \in SUBSET Chain
  BY DigitIsElement, ChainAssumption
<1>4. PICK x, y : x = RemovePrimes(e, SpecialPrimes) /\ y = OpNum("mul", x, D)
  OBVIOUS
<1>5. x = [r \in S |-> e[r]]
  <2>1. (S \cup SpecialPrimes) \ SpecialPrimes = S
    BY ChainAssumption
  <2> QED BY <1>3, <1>4, <2>1 DEF RemovePrimes
<1>6. y = [r \in S |-> [j \in Cols |-> (e[r][j] * (D % Prime[r])) % Prime[r]]]
  BY <1>4, <1>5 DEF OpNum, Apply
<1>7. c = [r \in S |-> [j \in Cols |-> (a[r][j] + y[r][j]) % Prime[r]]]
  BY <1>1, <1>4 DEF WithDigit, Op, Apply
<1>8. ASSUME NEW r \in S, NEW j \in Cols
      PROVE  /\ c[r][j] \in 0 .. Prime[r] - 1
             /\ c[r][j] \in Int /\ a[r][j] \in Int /\ e[r][j] \in Int
             /\ Cong(c[r][j], a[r][j] + e[r][j] * D, Prime[r])
  <2>1. Prime[r] \in Positive /\ Prime[r] \in Int
    BY <1>3, PrimeFacts
  <2>2. a[r][j] \in Int /\ e[r][j] \in Int
    BY <1>3, ElementRow DEF Element
  <2>3. PICK q, u, v, w, z : q = Prime[r] /\ u = a[r][j] /\ v = e[r][j] /\ w = y[r][j] /\ z = c[r][j]
    OBVIOUS
  <2>4. w = (v * (D % q)) % q /\ z = (u + w) % q
    BY <1>6, <1>7, <2>3
  <2>5. /\ q \in Positive /\ q \in Int /\ u \in Int /\ v \in Int /\ v * D \in Int
    BY <1>2, <2>1, <2>2, <2>3, IntRing
  <2>6. w = (v * D) % q
    BY <1>2, <2>4, <2>5, ModTimes
  <2>7. z = (u + v * D) % q
    <3>1. PICK p : p = v * D
      OBVIOUS
    <3>2. p \in Int /\ w = p % q
      BY ONLY <2>5, <2>6, <3>1
    <3>3. (u + w) % q = (u + p) % q
      BY ONLY <2>5, <3>2, ModPlus
    <3>4. z = (u + p) % q
      BY ONLY <2>4, <3>3
    <3> QED BY ONLY <3>1, <3>4
  <2>8. u + v * D \in Int
    BY <2>5
  <2>9. z \in Int /\ z \in 0 .. q - 1 /\ Cong(z, u + v * D, q)
    BY <2>5, <2>7, <2>8, ModFacts
  <2> QED BY <2>2, <2>3, <2>9
<1>9. /\ DOMAIN c = S /\ c = [r \in S |-> c[r]] /\ \A r \in S : c[r] \in Rows(r)
  <2>1. \A r \in S : c[r] = [j \in Cols |-> c[r][j]]
    BY <1>7
  <2> QED BY <1>7, <1>8, <2>1 DEF Rows
<1>10. Element(c)
  BY <1>3, <1>9 DEF Element, IsElement
<1>11. IsAdded(c, a, e, m, S)
  <2>1. \A r \in S, j \in Cols :
          /\ c[r][j] \in Int /\ a[r][j] \in Int /\ e[r][j] \in Int
          /\ Cong(c[r][j], a[r][j] + e[r][j] * DigitProduct(m), Prime[r])
    BY ONLY <1>1, <1>8
  <2> QED BY ONLY <2>1 DEF IsAdded
<1> QED BY ONLY <1>9, <1>10, <1>11

\* The zero the sum begins with.
LEMMA ZeroElement ==
  ASSUME NEW S, S \subseteq CtxtPrimes, NEW c, c = Constant(0, S)
  PROVE  Element(c) /\ DOMAIN c = S /\ \A r \in S, j \in Cols : c[r][j] = 0
<1>1. S \in SUBSET Chain
  BY ChainAssumption
<1>2. c = [r \in S |-> [j \in Cols |-> 0 % Prime[r]]]
  BY DEF Constant
<1>3. \A r \in S : Prime[r] \in Positive /\ 0 % Prime[r] = 0 /\ 0 \in 0 .. Prime[r] - 1
  <2> SUFFICES ASSUME NEW r \in S
               PROVE  Prime[r] \in Positive /\ 0 % Prime[r] = 0 /\ 0 \in 0 .. Prime[r] - 1
    OBVIOUS
  <2>1. Prime[r] \in Positive /\ Prime[r] \in Nat /\ Prime[r] > 2
    BY <1>1, PrimeFacts
  <2> QED BY <2>1
<1>4. \A r \in S, j \in Cols : c[r][j] = 0
  BY <1>2, <1>3
<1>5. \A r \in S : c[r] \in Rows(r)
  BY <1>2, <1>3 DEF Rows
<1> QED BY <1>1, <1>2, <1>4, <1>5 DEF Element, IsElement

\* A prime of a digit divides what the digits after it are multiplied by.
LEMMA DigitProductVanishes ==
  ASSUME NEW k \in 1 .. Len(Digits), NEW m \in k + 1 .. Len(Digits), NEW r \in Digits[k]
  PROVE  Divides(Prime[r], DigitProduct(m))
<1>1. PICK f, U : f = [l \in DOMAIN Digits |-> ProductOf(Digits[l])] /\ U = 1 .. m - 1
  OBVIOUS
<1>2. DigitProduct(m) = ProductOver(f, U)
  BY Zenon, <1>1 DEF DigitProduct, ProductOver
<1>3. \A l \in 1 .. Len(Digits) : f[l] = ProductOf(Digits[l]) /\ f[l] \in Int
  BY <1>1, DigitsAre, ProductPositive
<1>4. k \in U /\ U \subseteq 1 .. Len(Digits) /\ m - 1 \in Int
  BY <1>1, DigitsAre
<1>5. IsFiniteSet(U) /\ IsFiniteSet(U \ {k})
  <2>1. 1 \in Int /\ m - 1 \in Int
    OBVIOUS
  <2>2. IsFiniteSet(U)
    BY ONLY <1>1, <2>1, FS_Interval
  <2>3. U \ {k} \in SUBSET U
    OBVIOUS
  <2> QED BY ONLY <2>2, <2>3, FS_Subset
<1>6. \A l \in U : f[l] \in Int
  BY <1>3, <1>4
<1>7. ProductOver(f, U) = f[k] * ProductOver(f, U \ {k}) /\ ProductOver(f, U \ {k}) \in Int
  BY <1>4, <1>5, <1>6, ProductTakes, ProductType
<1>8. Divides(Prime[r], ProductOf(Digits[k])) /\ Prime[r] \in Int /\ f[k] = ProductOf(Digits[k]) /\ f[k] \in Int
  BY <1>3, DigitsAre, PrimeDividesProduct, PrimeFacts
<1>9. PICK a, b, q : a = f[k] /\ b = ProductOver(f, U \ {k}) /\ q = Prime[r]
  OBVIOUS
<1>10. a \in Int /\ b \in Int /\ q \in Int /\ Divides(q, a)
  BY <1>7, <1>8, <1>9
<1>11. Divides(q, a * b)
  <2>1. PICK z \in Int : a = q * z
    BY <1>10 DEF Divides
  <2>2. a * b = q * (z * b) /\ z * b \in Int
    BY <1>10, <2>1, IntRing
  <2> QED BY <2>2 DEF Divides
<1> QED BY <1>2, <1>7, <1>9, <1>11

\* A partial sum is an element over the same primes.
LEMMA WithDigitElement ==
  ASSUME NEW S, S \subseteq CtxtPrimes, NEW x, Element(x), DOMAIN x = S,
         NEW e, NEW j \in 1 .. Len(Digits), IsDigit(e, S, j)
  PROVE  Element(WithDigit(x, e, j)) /\ DOMAIN WithDigit(x, e, j) = S
<1>1. PICK c : c = WithDigit(x, e, j)
  OBVIOUS
<1> QED BY <1>1, WithDigitFacts

\* The sum of the digits exists, and every partial sum is an element over the same primes.
LEMMA SumExists ==
  ASSUME NEW S, S \subseteq CtxtPrimes, NEW n \in 0 .. Len(Digits), NEW P,
         \A k \in 1 .. n : IsDigit(P[k], S, k)
  PROVE  \E s : IsSum(s, P, S, n) /\ \A m \in 0 .. n : Element(s[m]) /\ DOMAIN s[m] = S
<1> DEFINE A == {a \in AllElements : DOMAIN a = S}
           Inv == [m \in 0 .. n |-> A]
           step == [p \in Nat \X A |-> WithDigit(p[2], P[p[1] + 1], p[1] + 1)]
<1>1. Len(Digits) \in Nat /\ n \in Nat
  BY DigitsAre
<1>2. PICK a0 : a0 = Constant(0, S)
  OBVIOUS
<1>3. /\ \A m \in Nat, a \in A : step[<<m, a>>] = WithDigit(a, P[m + 1], m + 1)
      /\ \A m \in 0 .. n : Inv[m] = A
  OBVIOUS
<1>4. \A a : a \in A <=> Element(a) /\ DOMAIN a = S
  BY ElementIn
<1> HIDE DEF A, Inv, step
<1>5. a0 \in A /\ a0 \in Inv[0]
  <2>1. Element(a0) /\ DOMAIN a0 = S
    BY <1>2, ZeroElement
  <2> QED BY <1>1, <1>3, <1>4, <2>1
<1>6. Keeps(n, A, step, Inv)
  <2> SUFFICES ASSUME NEW m \in 0 .. n - 1, NEW a \in A, a \in Inv[m]
               PROVE  step[<<m, a>>] \in A /\ step[<<m, a>>] \in Inv[m + 1]
    BY DEF Keeps
  <2>1. PICK j, c, e, x : j = m + 1 /\ c = step[<<m, a>>] /\ e = P[j] /\ x = a
    OBVIOUS
  <2>2. m \in Nat /\ j \in 1 .. n /\ j \in 0 .. n /\ j \in 1 .. Len(Digits)
    BY <1>1, <2>1
  <2>3. c = WithDigit(x, e, j) /\ IsDigit(e, S, j)
    BY <1>3, <2>1, <2>2
  <2>4. Element(x) /\ DOMAIN x = S
    BY <1>4, <2>1
  <2>5. Element(c) /\ DOMAIN c = S
    BY ONLY S \subseteq CtxtPrimes, <2>2, <2>3, <2>4, WithDigitElement
  <2> QED BY <1>3, <1>4, <2>1, <2>2, <2>5
<1>7. PICK f : IsLoop(f, n, A, a0, step, Inv)
  BY ONLY <1>1, <1>5, <1>6, LoopExists
<1>8. /\ f \in [0 .. n -> A] /\ f = [k \in 0 .. n |-> f[k]]
      /\ f[0] = a0 /\ \A k \in 1 .. n : f[k] = step[<<k - 1, f[k - 1]>>]
  BY <1>7 DEF IsLoop
<1>9. ASSUME NEW m \in 1 .. n
      PROVE  f[m] = WithDigit(f[m - 1], P[m], m)
  <2>1. m - 1 \in Nat /\ m - 1 \in 0 .. n /\ (m - 1) + 1 = m
    BY <1>1
  <2>2. f[m - 1] \in A
    BY <1>8, <2>1
  <2> QED BY <1>3, <1>8, <2>1, <2>2
<1>10. IsSum(f, P, S, n)
  BY <1>1, <1>2, <1>8, <1>9, SumIs
<1>11. \A m \in 0 .. n : f[m] \in A
  BY <1>8
<1> QED BY <1>4, <1>10, <1>11

\* The sum that the definition takes is over the same primes.
LEMMA SumElements ==
  ASSUME NEW S, S \subseteq CtxtPrimes, NEW n \in 0 .. Len(Digits), NEW P,
         \A k \in 1 .. n : IsDigit(P[k], S, k), NEW s, IsSum(s, P, S, n)
  PROVE  \A m \in 0 .. n : Element(s[m]) /\ DOMAIN s[m] = S
<1>1. Len(Digits) \in Nat /\ n \in Nat
  BY DigitsAre
<1>2. s[0] = Constant(0, S) /\ \A m \in 1 .. n : s[m] = WithDigit(s[m - 1], P[m], m)
  BY <1>1, SumIs
<1> DEFINE N == {m \in Nat : m =< n => Element(s[m]) /\ DOMAIN s[m] = S}
<1>3. 0 \in N
  BY <1>2, ZeroElement
<1>4. ASSUME NEW m \in Nat, m \in N
      PROVE  m + 1 \in N
  <2>1. CASE m + 1 =< n
    <3>1. PICK j, a, c, e : j = m + 1 /\ a = s[m] /\ c = s[j] /\ e = P[j]
      OBVIOUS
    <3>2. j \in 1 .. n /\ j \in 1 .. Len(Digits) /\ j - 1 = m
      BY <1>1, <2>1, <3>1
    <3>3. Element(a) /\ DOMAIN a = S
      BY <1>1, <1>4, <2>1, <3>1
    <3>4. c = WithDigit(a, e, j) /\ IsDigit(e, S, j)
      BY <1>2, <3>1, <3>2
    <3>5. Element(c) /\ DOMAIN c = S
      BY ONLY S \subseteq CtxtPrimes, <3>2, <3>3, <3>4, WithDigitElement
    <3> QED BY <3>1, <3>2, <3>5
  <2>2. CASE ~(m + 1 =< n)
    BY <2>2
  <2> QED BY <2>1, <2>2
<1> HIDE DEF N
<1>5. \A m \in Nat : m \in N
  BY ONLY <1>3, <1>4, Induction
<1> QED BY <1>1, <1>5 DEF N

\* The run of breakIntoDigits on d: what b is after each of the n digits.
IsRun(d, S, n, c) ==
  /\ Element(d) /\ S = DOMAIN d /\ S \subseteq CtxtPrimes /\ n \in 0 .. Len(Digits)
  /\ IsBreaking(c, d, n) /\ \A i \in 0 .. n : IsBroken(c[i], i, S, n)

\* One digit more: it stays, and the digits before it do not change any more.
LEMMA RunStep ==
  ASSUME NEW d, NEW S, NEW n, NEW c, IsRun(d, S, n, c), NEW i \in 1 .. n, NEW b, b = c[i - 1]
  PROVE  /\ IsBroken(c[i], i, S, n) /\ \A k \in 1 .. i - 1 : c[i][k] = b[k]
         /\ IsDigit(c[i][i], S, i)
         /\ TakesDigit(b, c[i][i], i, S) /\ TakesRest(c[i], b, c[i][i], i, S, n)
<1>1. Len(Digits) \in Nat /\ n \in Nat /\ n \in 0 .. Len(Digits) /\ S \subseteq CtxtPrimes
  BY DigitsAre DEF IsRun
<1>2. i - 1 \in 0 .. n
  BY <1>1
<1>3. IsBroken(b, i - 1, S, n)
  BY <1>2 DEF IsRun
<1>4. PICK e, f : e = DigitOf(b[i], S) /\ f = c[i]
  OBVIOUS
<1>5. f = Lifted(b, i, e)
  <2>1. c[i] = NextParts(c[i - 1], i, d)
    BY <1>1, BreakingIs DEF IsRun
  <2> QED BY <1>4, <2>1 DEF NextParts, IsRun
<1>6. /\ IsBroken(f, i, S, n) /\ f[i] = e /\ \A k \in 1 .. i - 1 : f[k] = b[k]
      /\ TakesDigit(b, e, i, S) /\ TakesRest(f, b, e, i, S, n)
  <2>1. S \subseteq CtxtPrimes /\ n \in 0 .. Len(Digits) /\ e = DigitOf(b[i], S)
    BY ONLY <1>1, <1>4
  <2>2. IsRound(f, b, e, i, S, n)
    BY ONLY <2>1, i \in 1 .. n, <1>3, <1>5, LiftedFacts
  <2> QED BY ONLY <2>2 DEF IsRound
<1>7. IsDigit(f[i], S, i)
  <2>1. i \in 1 .. i
    BY <1>1
  <2>2. \A k \in 1 .. i : IsDigit(f[k], S, k)
    BY ONLY <1>6 DEF IsBroken
  <2> QED BY ONLY <2>1, <2>2
<1> QED BY ONLY <1>4, <1>6, <1>7

\* What a digit is when it is taken, it is at the end.
LEMMA DigitStays ==
  ASSUME NEW d, NEW S, NEW n, NEW c, IsRun(d, S, n, c)
  PROVE  \A k \in 1 .. n : c[n][k] = c[k][k] /\ IsDigit(c[n][k], S, k)
<1>1. Len(Digits) \in Nat /\ n \in Nat
  BY DigitsAre DEF IsRun
<1> DEFINE N == {m \in Nat : m =< n => \A k \in 1 .. m : c[m][k] = c[k][k]}
<1>2. 0 \in N
  OBVIOUS
<1>3. ASSUME NEW m \in Nat, m \in N
      PROVE  m + 1 \in N
  <2>1. CASE m + 1 =< n
    <3>1. PICK i, b : i = m + 1 /\ b = c[i - 1]
      OBVIOUS
    <3>2. i \in 1 .. n /\ i - 1 = m /\ i \in Nat
      BY <1>1, <2>1, <3>1
    <3>3. \A k \in 1 .. i - 1 : c[i][k] = b[k]
      BY <3>1, <3>2, RunStep
    <3>4. \A k \in 1 .. i - 1 : b[k] = c[k][k]
      BY <1>1, <1>3, <2>1, <3>1, <3>2
    <3>5. \A k \in 1 .. i : c[i][k] = c[k][k]
      <4> SUFFICES ASSUME NEW k \in 1 .. i
                   PROVE  c[i][k] = c[k][k]
        OBVIOUS
      <4>1. CASE k = i
        BY <4>1
      <4>2. CASE k # i
        <5>1. k \in 1 .. i - 1
          BY <3>2, <4>2
        <5> QED BY <3>3, <3>4, <5>1
      <4> QED BY <4>1, <4>2
    <3> QED BY <3>1, <3>5
  <2>2. CASE ~(m + 1 =< n)
    BY <2>2
  <2> QED BY <2>1, <2>2
<1> HIDE DEF N
<1>4. \A m \in Nat : m \in N
  BY ONLY <1>2, <1>3, Induction
<1>5. \A k \in 1 .. n : c[n][k] = c[k][k]
  BY <1>1, <1>4 DEF N
<1>6. IsBroken(c[n], n, S, n)
  BY <1>1 DEF IsRun
<1>7. \A k \in 1 .. n : IsDigit(c[n][k], S, k)
  BY <1>6 DEF IsBroken
<1> QED BY <1>5, <1>7

\* Adding a digit adds it to the rows.
LEMMA WithDigitAdds ==
  ASSUME NEW S, S \subseteq CtxtPrimes, NEW a, Element(a), DOMAIN a = S,
         NEW e, NEW m \in 1 .. Len(Digits), IsDigit(e, S, m)
  PROVE  IsAdded(WithDigit(a, e, m), a, e, m, S)
<1>1. PICK t : t = WithDigit(a, e, m)
  OBVIOUS
<1>2. IsAdded(t, a, e, m, S)
  BY <1>1, WithDigitFacts
<1> QED BY ONLY <1>1, <1>2

\* d is the sum a of i digits and, in the rows of a later digit, what is left in b times
\* the product of the i digits.
IsLeft(d, a, b, i, S, n) ==
  \A k \in i + 1 .. n : \A r \in S \cap Digits[k], j \in Cols :
    /\ d[r][j] \in Int /\ a[r][j] \in Int /\ b[k][r][j] \in Int
    /\ Cong(d[r][j], a[r][j] + DigitProduct(i + 1) * b[k][r][j], Prime[r])

\* One digit more in the sum, and its product taken out of what is left.
LEMMA LeftStep ==
  ASSUME NEW S, S \subseteq CtxtPrimes, NEW n \in 0 .. Len(Digits), NEW i \in 1 .. n,
         NEW d, NEW a, NEW b, IsLeft(d, a, b, i - 1, S, n),
         NEW e, NEW c, TakesRest(c, b, e, i, S, n), NEW t, IsAdded(t, a, e, i, S)
  PROVE  IsLeft(d, t, c, i, S, n)
<1> SUFFICES ASSUME NEW k \in i + 1 .. n, NEW r \in S \cap Digits[k], NEW j \in Cols
             PROVE  /\ d[r][j] \in Int /\ t[r][j] \in Int /\ c[k][r][j] \in Int
                    /\ Cong(d[r][j], t[r][j] + DigitProduct(i + 1) * c[k][r][j], Prime[r])
  BY DEF IsLeft
<1>1. /\ Len(Digits) \in Nat /\ n \in Nat /\ i \in 1 .. Len(Digits) /\ k \in (i - 1) + 1 .. n
      /\ (i - 1) + 1 = i /\ k \in 1 .. Len(Digits)
  BY DigitsAre
<1>2. r \in Chain /\ Prime[r] \in Int
  <2>1. Digits[k] \in SUBSET Chain
    BY <1>1, DigitsAre
  <2> QED BY <2>1, PrimeFacts
<1>3. PICK D, Q, q : D = DigitProduct(i) /\ Q = ProductOf(Digits[i]) /\ q = Prime[r]
  OBVIOUS
<1>4. D \in Int /\ Q \in Int /\ q \in Int /\ DigitProduct(i + 1) = Q * D
  BY <1>1, <1>2, <1>3, DigitProductFacts
<1>5. PICK u, x, y, z, w, v : /\ u = d[r][j] /\ x = a[r][j] /\ y = b[k][r][j] /\ z = c[k][r][j]
                              /\ w = e[r][j] /\ v = t[r][j]
  OBVIOUS
<1>6. u \in Int /\ x \in Int /\ y \in Int /\ Cong(u, x + D * y, q)
  <2>1. /\ d[r][j] \in Int /\ a[r][j] \in Int /\ b[k][r][j] \in Int
        /\ Cong(d[r][j], a[r][j] + DigitProduct((i - 1) + 1) * b[k][r][j], Prime[r])
    BY <1>1 DEF IsLeft
  <2> QED BY ONLY <1>1, <1>3, <1>5, <2>1
<1>7. z \in Int /\ w \in Int /\ Cong(Q * z, y - w, q)
  <2>1. /\ c[k][r][j] \in Int /\ e[r][j] \in Int
        /\ Cong(ProductOf(Digits[i]) * c[k][r][j], b[k][r][j] - e[r][j], Prime[r])
    BY DEF TakesRest
  <2> QED BY ONLY <1>3, <1>5, <2>1
<1>8. v \in Int /\ Cong(v, x + w * D, q)
  <2>1. t[r][j] \in Int /\ Cong(t[r][j], a[r][j] + e[r][j] * DigitProduct(i), Prime[r])
    BY DEF IsAdded
  <2> QED BY ONLY <1>3, <1>5, <2>1
<1>9. Cong(u, v + (Q * D) * z, q)
  BY ONLY <1>4, <1>6, <1>7, <1>8, RecombineStep
<1> QED BY ONLY <1>3, <1>4, <1>5, <1>6, <1>7, <1>8, <1>9

\* At first all is left.
LEMMA LeftFirst ==
  ASSUME NEW d, Element(d), NEW S, S = DOMAIN d, S \subseteq CtxtPrimes, NEW n \in 0 .. Len(Digits)
  PROVE  IsLeft(d, Constant(0, S), FirstParts(d, n), 0, S, n)
<1> SUFFICES ASSUME NEW k \in 0 + 1 .. n, NEW r \in S \cap Digits[k], NEW j \in Cols, NEW a, NEW b,
                    a = Constant(0, S), b = FirstParts(d, n)
             PROVE  /\ d[r][j] \in Int /\ a[r][j] \in Int /\ b[k][r][j] \in Int
                    /\ Cong(d[r][j], a[r][j] + DigitProduct(0 + 1) * b[k][r][j], Prime[r])
  BY DEF IsLeft
<1>1. Len(Digits) \in Nat /\ n \in Nat /\ k \in 1 .. n /\ r \in Chain /\ Prime[r] \in Int
  <2>1. Len(Digits) \in Nat /\ n \in Nat /\ k \in 1 .. n
    BY DigitsAre
  <2>2. r \in Chain
    BY ChainAssumption
  <2> QED BY <2>1, <2>2, PrimeFacts
<1>2. b[k][r] = d[r]
  BY <1>1, FirstBroken
<1>3. a[r][j] = 0
  BY ZeroElement
<1>4. d[r][j] \in Int
  BY <1>1, ElementRow DEF Element
<1>5. DigitProduct(0 + 1) = 1
  <2>1. 0 + 1 = 1
    OBVIOUS
  <2> QED BY ONLY <2>1, DigitProductFacts
<1>6. PICK u : u = d[r][j]
  OBVIOUS
<1>7. u \in Int /\ 0 + 1 * u = u
  BY ONLY <1>4, <1>6
<1>8. Cong(u, 0 + 1 * u, Prime[r])
  BY ONLY <1>1, <1>7, CongRefl
<1> QED BY ONLY <1>2, <1>3, <1>4, <1>5, <1>6, <1>7, <1>8

IsRunSum(d, S, n, c, s) == IsRun(d, S, n, c) /\ IsSum(s, c[n], S, n)

\* The partial sums are elements over the same primes.
LEMMA RunSumElements ==
  ASSUME NEW d, NEW S, NEW n, NEW c, NEW s, IsRunSum(d, S, n, c, s), NEW m \in 0 .. n
  PROVE  Element(s[m]) /\ DOMAIN s[m] = S
<1>1. /\ Len(Digits) \in Nat /\ n \in Nat /\ n \in 0 .. Len(Digits) /\ S \subseteq CtxtPrimes
  BY DigitsAre DEF IsRunSum, IsRun
<1>2. PICK P : P = c[n]
  OBVIOUS
<1>3. IsSum(s, P, S, n) /\ IsRun(d, S, n, c)
  BY <1>2 DEF IsRunSum
<1>4. \A k \in 1 .. n : P[k] = c[k][k] /\ IsDigit(P[k], S, k)
  BY <1>2, <1>3, DigitStays
<1>5. \A l \in 0 .. n : Element(s[l]) /\ DOMAIN s[l] = S
  BY <1>1, <1>3, <1>4, SumElements
<1> QED BY ONLY m \in 0 .. n, <1>5

\* The i-th partial sum has the i-th digit added.
LEMMA RunSumStep ==
  ASSUME NEW d, NEW S, NEW n, NEW c, NEW s, IsRunSum(d, S, n, c, s), NEW i \in 1 .. n
  PROVE  IsAdded(s[i], s[i - 1], c[i][i], i, S)
<1>1. /\ Len(Digits) \in Nat /\ n \in Nat /\ n \in 0 .. Len(Digits) /\ S \subseteq CtxtPrimes
      /\ i \in 1 .. Len(Digits) /\ i - 1 \in 0 .. n
  BY DigitsAre DEF IsRunSum, IsRun
<1>2. PICK P, e, a, t : P = c[n] /\ e = c[i][i] /\ a = s[i - 1] /\ t = s[i]
  OBVIOUS
<1>3. IsSum(s, P, S, n) /\ IsRun(d, S, n, c)
  BY <1>2 DEF IsRunSum
<1>4. \A k \in 1 .. n : P[k] = c[k][k] /\ IsDigit(P[k], S, k)
  BY <1>2, <1>3, DigitStays
<1>5. P[i] = e /\ IsDigit(e, S, i)
  BY <1>2, <1>4
<1>6. t = WithDigit(a, e, i)
  <2>1. \A m \in 1 .. n : s[m] = WithDigit(s[m - 1], P[m], m)
    BY <1>1, <1>3, SumIs
  <2> QED BY <1>2, <1>5, <2>1
<1>7. Element(s[i - 1]) /\ DOMAIN s[i - 1] = S
  BY <1>1, RunSumElements
<1>8. Element(a) /\ DOMAIN a = S
  BY ONLY <1>2, <1>7
<1>9. IsAdded(t, a, e, i, S)
  BY ONLY <1>1, <1>5, <1>6, <1>8, WithDigitAdds
<1> QED BY ONLY <1>2, <1>9

\* After i digits, the sum is right up to what is left in the later digits.
LEMMA RunLeft ==
  ASSUME NEW d, NEW S, NEW n, NEW c, NEW s, IsRunSum(d, S, n, c, s)
  PROVE  \A i \in 0 .. n : IsLeft(d, s[i], c[i], i, S, n)
<1>1. /\ Len(Digits) \in Nat /\ n \in Nat /\ n \in 0 .. Len(Digits) /\ S \subseteq CtxtPrimes
      /\ Element(d) /\ S = DOMAIN d /\ IsRun(d, S, n, c) /\ IsSum(s, c[n], S, n)
  BY DigitsAre DEF IsRunSum, IsRun
<1> DEFINE N == {i \in Nat : i =< n => IsLeft(d, s[i], c[i], i, S, n)}
<1>2. 0 \in N
  <2>1. s[0] = Constant(0, S)
    BY <1>1, SumIs
  <2>2. c[0] = FirstParts(d, n)
    BY <1>1, BreakingIs DEF IsRun
  <2>3. IsLeft(d, Constant(0, S), FirstParts(d, n), 0, S, n)
    BY <1>1, LeftFirst
  <2> QED BY <2>1, <2>2, <2>3
<1>3. ASSUME NEW m \in Nat, m \in N
      PROVE  m + 1 \in N
  <2>1. CASE m + 1 =< n
    <3>1. PICK i, a, b, e, f, t : /\ i = m + 1 /\ a = s[m] /\ b = c[m] /\ e = c[i][i]
                                  /\ f = c[i] /\ t = s[i]
      OBVIOUS
    <3>2. i \in 1 .. n /\ i - 1 = m
      BY <1>1, <2>1, <3>1
    <3>3. IsLeft(d, a, b, i - 1, S, n)
      BY <1>1, <1>3, <2>1, <3>1, <3>2
    <3>4. TakesRest(f, b, e, i, S, n)
      <4>1. b = c[i - 1]
        BY <3>1, <3>2
      <4>2. TakesRest(c[i], b, c[i][i], i, S, n)
        BY ONLY <1>1, <3>2, <4>1, RunStep
      <4> QED BY ONLY <3>1, <4>2
    <3>5. IsAdded(t, a, e, i, S)
      <4>1. IsAdded(s[i], s[i - 1], c[i][i], i, S)
        BY <3>2, RunSumStep
      <4> QED BY ONLY <3>1, <3>2, <4>1
    <3>6. IsLeft(d, t, f, i, S, n)
      BY ONLY <1>1, <3>2, <3>3, <3>4, <3>5, LeftStep
    <3> QED BY <3>1, <3>6
  <2>2. CASE ~(m + 1 =< n)
    BY <2>2
  <2> QED BY <2>1, <2>2
<1> HIDE DEF N
<1>4. \A m \in Nat : m \in N
  BY ONLY <1>2, <1>3, Induction
<1> QED BY <1>1, <1>4 DEF N

\* The sum t is right in the rows of the k-th digit.
IsDone(d, t, k, S) ==
  \A r \in S \cap Digits[k], j \in Cols :
    d[r][j] \in Int /\ t[r][j] \in Int /\ Cong(d[r][j], t[r][j], Prime[r])

\* Adding a digit makes the sum right in the rows of the digit.
LEMMA DoneFirst ==
  ASSUME NEW d, NEW S, NEW n, NEW c, NEW s, IsRunSum(d, S, n, c, s), NEW i \in 1 .. n
  PROVE  IsDone(d, s[i], i, S)
<1>1. /\ Len(Digits) \in Nat /\ n \in Nat /\ n \in 0 .. Len(Digits) /\ S \subseteq CtxtPrimes
      /\ i \in 1 .. Len(Digits) /\ i - 1 \in 0 .. n /\ (i - 1) + 1 = i /\ i \in (i - 1) + 1 .. n
      /\ IsRun(d, S, n, c)
  BY DigitsAre DEF IsRunSum, IsRun
<1>2. PICK a, b, e, t : a = s[i - 1] /\ b = c[i - 1] /\ e = c[i][i] /\ t = s[i]
  OBVIOUS
<1>3. IsLeft(d, a, b, i - 1, S, n)
  BY <1>1, <1>2, RunLeft
<1>4. TakesDigit(b, e, i, S)
  <2>1. b = c[i - 1]
    BY <1>2
  <2>2. TakesDigit(b, c[i][i], i, S)
    BY ONLY <1>1, i \in 1 .. n, <2>1, RunStep
  <2> QED BY ONLY <1>2, <2>2
<1>5. IsAdded(t, a, e, i, S)
  BY <1>2, RunSumStep
<1>6. ASSUME NEW r \in S \cap Digits[i], NEW j \in Cols
      PROVE  d[r][j] \in Int /\ t[r][j] \in Int /\ Cong(d[r][j], t[r][j], Prime[r])
  <2>1. r \in Chain /\ Prime[r] \in Int
    <3>1. Digits[i] \in SUBSET Chain
      BY <1>1, DigitsAre
    <3> QED BY <3>1, PrimeFacts
  <2>2. PICK D, q, u, x, y, w, v :
          /\ D = DigitProduct(i) /\ q = Prime[r] /\ u = d[r][j] /\ x = a[r][j]
          /\ y = b[i][r][j] /\ w = e[r][j] /\ v = t[r][j]
    OBVIOUS
  <2>3. D \in Int /\ q \in Int
    BY <1>1, <2>1, <2>2, DigitProductFacts
  <2>4. u \in Int /\ x \in Int /\ y \in Int /\ Cong(u, x + D * y, q)
    <3>1. /\ d[r][j] \in Int /\ a[r][j] \in Int /\ b[i][r][j] \in Int
          /\ Cong(d[r][j], a[r][j] + DigitProduct((i - 1) + 1) * b[i][r][j], Prime[r])
      BY <1>1, <1>3 DEF IsLeft
    <3> QED BY ONLY <1>1, <2>2, <3>1
  <2>5. w \in Int /\ Cong(y, w, q)
    <3>1. e[r][j] \in Int /\ Cong(b[i][r][j], e[r][j], Prime[r])
      BY <1>4 DEF TakesDigit
    <3> QED BY ONLY <2>2, <3>1
  <2>6. v \in Int /\ Cong(v, x + w * D, q)
    <3>1. t[r][j] \in Int /\ Cong(t[r][j], a[r][j] + e[r][j] * DigitProduct(i), Prime[r])
      BY <1>5 DEF IsAdded
    <3> QED BY ONLY <2>2, <3>1
  <2>7. Cong(u, v, q)
    BY ONLY <2>3, <2>4, <2>5, <2>6, TakeStep
  <2> QED BY ONLY <2>2, <2>4, <2>6, <2>7
<1>7. IsDone(d, t, i, S)
  BY ONLY <1>6 DEF IsDone
<1> QED BY ONLY <1>2, <1>7

\* The digits after it leave it right.
LEMMA DoneStep ==
  ASSUME NEW d, NEW S, NEW n, NEW c, NEW s, IsRunSum(d, S, n, c, s), NEW k \in 1 .. n,
         NEW i \in k + 1 .. n, IsDone(d, s[i - 1], k, S)
  PROVE  IsDone(d, s[i], k, S)
<1>1. /\ Len(Digits) \in Nat /\ n \in Nat /\ n \in 0 .. Len(Digits) /\ i \in 1 .. n
      /\ k \in 1 .. Len(Digits) /\ i \in k + 1 .. Len(Digits) /\ i \in 1 .. Len(Digits)
  BY DigitsAre DEF IsRunSum, IsRun
<1>2. PICK a, e, t : a = s[i - 1] /\ e = c[i][i] /\ t = s[i]
  OBVIOUS
<1>3. IsAdded(t, a, e, i, S)
  BY <1>1, <1>2, RunSumStep
<1>4. IsDone(d, a, k, S)
  BY <1>2
<1>5. ASSUME NEW r \in S \cap Digits[k], NEW j \in Cols
      PROVE  d[r][j] \in Int /\ t[r][j] \in Int /\ Cong(d[r][j], t[r][j], Prime[r])
  <2>1. r \in Chain /\ Prime[r] \in Int
    <3>1. Digits[k] \in SUBSET Chain
      BY <1>1, DigitsAre
    <3> QED BY <3>1, PrimeFacts
  <2>2. PICK D, q, u, x, w, v :
          /\ D = DigitProduct(i) /\ q = Prime[r] /\ u = d[r][j] /\ x = a[r][j]
          /\ w = e[r][j] /\ v = t[r][j]
    OBVIOUS
  <2>3. D \in Int /\ q \in Int
    BY <1>1, <2>1, <2>2, DigitProductFacts
  <2>4. Divides(q, D)
    <3>1. r \in Digits[k]
      OBVIOUS
    <3>2. Divides(Prime[r], DigitProduct(i))
      BY ONLY <1>1, <3>1, DigitProductVanishes
    <3> QED BY ONLY <2>2, <3>2
  <2>5. u \in Int /\ x \in Int /\ Cong(u, x, q)
    <3>1. d[r][j] \in Int /\ a[r][j] \in Int /\ Cong(d[r][j], a[r][j], Prime[r])
      BY <1>4 DEF IsDone
    <3> QED BY ONLY <2>2, <3>1
  <2>6. w \in Int /\ v \in Int /\ Cong(v, x + w * D, q)
    <3>1. /\ t[r][j] \in Int /\ e[r][j] \in Int
          /\ Cong(t[r][j], a[r][j] + e[r][j] * DigitProduct(i), Prime[r])
      BY <1>3 DEF IsAdded
    <3> QED BY ONLY <2>2, <3>1
  <2>7. Cong(u, v, q)
    BY ONLY <2>3, <2>4, <2>5, <2>6, VanishStep
  <2> QED BY ONLY <2>2, <2>5, <2>6, <2>7
<1>6. IsDone(d, t, k, S)
  BY ONLY <1>5 DEF IsDone
<1> QED BY ONLY <1>2, <1>6

\* A digit is small, whatever primes it is given modulo.
LEMMA DigitIsSmall ==
  ASSUME NEW S, S \subseteq CtxtPrimes, NEW k \in 1 .. Len(Digits), NEW e, IsDigit(e, S, k)
  PROVE  \A h \in Cols : Small(ToPoly(e, Chain)[h], ProductOf(Digits[k] \cap S))
<1>1. PICK f \in [Cols -> Int] :
        Represents(e, S \cup SpecialPrimes, f) /\ \A h \in Cols : Small(f[h], ProductOf(Digits[k] \cap S))
  BY DEF IsDigit
<1>2. PICK U, T, u, t : /\ U = S \cup SpecialPrimes /\ T = Digits[k] \cap S
                        /\ u = ProductOf(U) /\ t = ProductOf(T)
  OBVIOUS
<1>3. U \in SUBSET Chain /\ T \in SUBSET U /\ T \in SUBSET Chain
  BY <1>2, ChainAssumption
<1>4. u \in Int /\ t \in Int /\ t =< u
  BY <1>2, <1>3, ProductOfSubset, ProductPositive
<1>5. \A h \in Cols : f[h] \in Int /\ Small(f[h], t)
  BY <1>1, <1>2
<1>6. \A h \in Cols : Small(f[h], u)
  BY ONLY <1>4, <1>5 DEF Small
<1>7. Represents(e, U, f)
  BY <1>1, <1>2
<1>8. DOMAIN e = U /\ IsElement(e) /\ DOMAIN e \cap Chain = U
  <2>1. DOMAIN e = U /\ Element(e)
    BY <1>3, <1>7, RepresentedElement
  <2> QED BY <1>3, <2>1 DEF Element
<1>9. \A i \in U, j \in Cols : Cong(Ev(f, i, j), e[i][j], Prime[i])
  <2> SUFFICES ASSUME NEW i \in U, NEW j \in Cols
               PROVE  Cong(Ev(f, i, j), e[i][j], Prime[i])
    OBVIOUS
  <2>1. e[i][j] \in Int /\ Cong(e[i][j], Ev(f, i, j), Prime[i])
    BY <1>7 DEF Represents
  <2>2. Prime[i] \in Int /\ i \in Chain
    BY <1>3, PrimeFacts
  <2>3. Ev(f, i, j) \in Int
    BY <2>2, SmallPoly, EvType
  <2>4. PICK x, y, q : x = e[i][j] /\ y = Ev(f, i, j) /\ q = Prime[i]
    OBVIOUS
  <2> QED BY ONLY <2>1, <2>2, <2>3, <2>4, CongSym
<1>10. \A h \in Cols : Small(f[h], ProductOf(DOMAIN e \cap Chain))
  BY <1>2, <1>6, <1>8
<1>11. \A i \in DOMAIN e \cap Chain, j \in Cols : Cong(Ev(f, i, j), e[i][j], Prime[i])
  BY <1>8, <1>9
<1>12. ToPoly(e, Chain) = f
  BY ONLY f \in [Cols -> Int], <1>8, <1>10, <1>11, ToPolyIs
<1> QED BY ONLY <1>2, <1>5, <1>12

\* The digits add up to the element.
LEMMA RunRight ==
  ASSUME NEW d, NEW S, NEW n, NEW c, NEW s, IsRunSum(d, S, n, c, s), n = NDigits(S)
  PROVE  s[n] = d
<1>1. /\ Len(Digits) \in Nat /\ n \in Nat /\ n \in 0 .. Len(Digits) /\ S \subseteq CtxtPrimes
      /\ Element(d) /\ S = DOMAIN d /\ IsRun(d, S, n, c) /\ IsSum(s, c[n], S, n)
  BY DigitsAre DEF IsRunSum, IsRun
<1>2. PICK t : t = s[n]
  OBVIOUS
<1>3. Element(t) /\ DOMAIN t = S
  <2>1. n \in 0 .. n
    BY <1>1
  <2>2. Element(s[n]) /\ DOMAIN s[n] = S
    BY <2>1, RunSumElements
  <2> QED BY ONLY <1>2, <2>2
<1>4. ASSUME NEW k \in 1 .. n
      PROVE  IsDone(d, t, k, S)
  <2> DEFINE N == {l \in Nat : k + l =< n => IsDone(d, s[k + l], k, S)}
  <2>1. 0 \in N
    <3>1. k + 0 = k
      BY <1>1
    <3>2. IsDone(d, s[k], k, S)
      BY DoneFirst
    <3> QED BY <3>1, <3>2
  <2>2. ASSUME NEW l \in Nat, l \in N
        PROVE  l + 1 \in N
    <3>1. CASE k + (l + 1) =< n
      <4>1. PICK i : i = k + (l + 1)
        OBVIOUS
      <4>2. i \in k + 1 .. n /\ i - 1 = k + l /\ k + l =< n
        BY <1>1, <3>1, <4>1
      <4>3. IsDone(d, s[i - 1], k, S)
        BY <2>2, <4>2
      <4>4. IsDone(d, s[i], k, S)
        BY <4>2, <4>3, DoneStep
      <4> QED BY <4>1, <4>4
    <3>2. CASE ~(k + (l + 1) =< n)
      BY <3>2
    <3> QED BY <3>1, <3>2
  <2> HIDE DEF N
  <2>3. \A l \in Nat : l \in N
    BY ONLY <2>1, <2>2, Induction
  <2>4. n - k \in Nat /\ k + (n - k) = n
    BY <1>1
  <2> QED BY <1>2, <2>3, <2>4 DEF N
<1>5. ASSUME NEW r \in S, NEW j \in Cols
      PROVE  d[r][j] = t[r][j]
  <2>1. PICK k \in 1 .. n : r \in Digits[k]
    BY <1>1, NDigitsFacts
  <2>2. Cong(d[r][j], t[r][j], Prime[r])
    BY <1>4, <2>1 DEF IsDone
  <2>3. r \in Chain /\ d[r][j] \in 0 .. Prime[r] - 1 /\ t[r][j] \in 0 .. Prime[r] - 1
    BY <1>1, <1>3, ElementRow DEF Element
  <2>4. Prime[r] \in Positive
    BY <2>3, PrimeFacts
  <2>5. PICK x, y, q : x = d[r][j] /\ y = t[r][j] /\ q = Prime[r]
    OBVIOUS
  <2> QED BY ONLY <2>2, <2>3, <2>4, <2>5, CongUnique
<1>6. ASSUME NEW r \in S
      PROVE  d[r] = t[r]
  <2>1. d[r] \in [Cols -> 0 .. Prime[r] - 1] /\ t[r] \in [Cols -> 0 .. Prime[r] - 1]
    BY <1>1, <1>3, ElementRow DEF Element, Rows
  <2> QED BY <1>5, <2>1
<1> QED BY <1>1, <1>2, <1>3, <1>6 DEF Element

\* What breakIntoDigits returned for the element of.
IsBrokenInto(of, parts) ==
  /\ Element(of) /\ DOMAIN of \subseteq CtxtPrimes
  /\ parts = BreakIntoDigits(of)

DigitsOf == digits = None \/ IsBrokenInto(digits.of, digits.parts)

CallsCounted == calls \in 0 .. MaxCalls

\* The inductive invariant: the digits are what breakIntoDigits makes of an element.
DigitsInv == Elements /\ DigitsOf /\ CallsCounted

\* The run behind the digits.
LEMMA BrokenRun ==
  ASSUME NEW of, NEW parts, IsBrokenInto(of, parts)
  PROVE  \E S, n, c : /\ IsRun(of, S, n, c) /\ n = NDigits(S) /\ parts = c[n]
                      /\ DOMAIN parts = 1 .. n /\ Len(parts) = n
<1>1. PICK S, n : S = DOMAIN of /\ n = NDigits(S)
  OBVIOUS
<1>2. Element(of) /\ S \subseteq CtxtPrimes
  BY <1>1 DEF IsBrokenInto
<1>3. PICK c : /\ IsBreaking(c, of, n) /\ \A i \in 0 .. n : IsBroken(c[i], i, S, n)
               /\ BreakIntoDigits(of) = c[n]
  BY <1>1, <1>2, BreakIntoDigitsIs
<1>4. n \in 0 .. Len(Digits) /\ n \in Nat /\ n \in 0 .. n
  BY <1>1, <1>2, NDigitsFacts
<1>5. IsRun(of, S, n, c)
  BY <1>1, <1>2, <1>3, <1>4 DEF IsRun
<1>6. parts = c[n]
  BY <1>3 DEF IsBrokenInto
<1>7. IsBroken(parts, n, S, n)
  BY <1>3, <1>4, <1>6
<1>8. parts \in [1 .. n -> AllElements]
  BY <1>2, <1>4, <1>7, BrokenIn
<1>9. DOMAIN parts = 1 .. n
  BY ONLY <1>8
<1>10. Len(parts) = n
  <2> DEFINE A == AllElements
  <2> HIDE DEF A
  <2>1. parts \in [1 .. n -> A]
    BY <1>8 DEF A
  <2>2. parts \in Seq(A)
    BY ONLY <1>4, <2>1, SeqDef
  <2>3. Len(parts) \in Nat /\ DOMAIN parts = 1 .. Len(parts)
    BY ONLY <2>2, LenProperties
  <2> QED BY ONLY <1>4, <1>9, <2>3
<1> QED BY ONLY <1>1, <1>5, <1>6, <1>9, <1>10

\* Every digit is an element over the primes of the element and the special primes.
LEMMA PartsAre ==
  ASSUME NEW of, NEW parts, IsBrokenInto(of, parts)
  PROVE  /\ DOMAIN of \subseteq CtxtPrimes /\ DOMAIN parts \subseteq 1 .. Len(Digits)
         /\ \A k \in DOMAIN parts : IsDigit(parts[k], DOMAIN of, k)
<1>1. PICK S, n, c : /\ IsRun(of, S, n, c) /\ n = NDigits(S) /\ parts = c[n]
                     /\ DOMAIN parts = 1 .. n /\ Len(parts) = n
  BY BrokenRun
<1>2. S = DOMAIN of /\ S \subseteq CtxtPrimes /\ n \in 0 .. Len(Digits) /\ Len(Digits) \in Nat
  BY <1>1, DigitsAre DEF IsRun
<1>3. \A k \in 1 .. n : IsDigit(c[n][k], S, k)
  BY <1>1, DigitStays
<1>4. 1 .. n \subseteq 1 .. Len(Digits)
  BY <1>2
<1> QED BY ONLY <1>1, <1>2, <1>3, <1>4

\* The sum of the digits is the element.
LEMMA SumOfDigits ==
  ASSUME NEW of, NEW parts, IsBrokenInto(of, parts),
         NEW sum, sum = CHOOSE s : IsSum(s, parts, DOMAIN of, Len(parts))
  PROVE  sum[Len(parts)] = of
<1>1. PICK S, n, c : /\ IsRun(of, S, n, c) /\ n = NDigits(S) /\ parts = c[n]
                     /\ DOMAIN parts = 1 .. n /\ Len(parts) = n
  BY BrokenRun
<1>2. S = DOMAIN of /\ S \subseteq CtxtPrimes /\ n \in 0 .. Len(Digits)
  BY <1>1 DEF IsRun
<1>3. \A k \in 1 .. n : IsDigit(parts[k], S, k)
  BY <1>1, DigitStays
<1>4. \E s : IsSum(s, parts, S, n)
  BY ONLY <1>2, <1>3, SumExists
<1>5. IsSum(sum, parts, S, n)
  <2>1. sum = CHOOSE s : IsSum(s, parts, S, n)
    BY <1>1, <1>2
  <2> QED BY Zenon, <1>4, <2>1
<1>6. IsRunSum(of, S, n, c, sum)
  BY <1>1, <1>5 DEF IsRunSum
<1>7. sum[n] = of
  BY ONLY <1>1, <1>6, RunRight
<1> QED BY ONLY <1>1, <1>7

\* The digits recombine to the element they were taken from.
LEMMA Recombined ==
  ASSUME DigitsOf
  PROVE  DigitsRecombine
<1>1. CASE digits = None
  BY Zenon, <1>1 DEF DigitsRecombine
<1>2. CASE digits # None
  <2>1. PICK of, parts : of = digits.of /\ parts = digits.parts
    OBVIOUS
  <2>2. IsBrokenInto(of, parts)
    BY <1>2, <2>1 DEF DigitsOf
  <2>3. PICK sum : sum = CHOOSE s : IsSum(s, parts, DOMAIN of, Len(parts))
    OBVIOUS
  <2>4. sum[Len(parts)] = of
    BY <2>2, <2>3, SumOfDigits
  <2>5. \A k \in DOMAIN parts : DOMAIN parts[k] = DOMAIN of \cup SpecialPrimes
    <3> SUFFICES ASSUME NEW k \in DOMAIN parts
                 PROVE  DOMAIN parts[k] = DOMAIN of \cup SpecialPrimes
      OBVIOUS
    <3>1. PICK S, e : S = DOMAIN of /\ e = parts[k]
      OBVIOUS
    <3>2. S \subseteq CtxtPrimes /\ IsDigit(e, S, k)
      BY <2>2, <3>1, PartsAre
    <3>3. DOMAIN e = S \cup SpecialPrimes
      BY ONLY <3>2, DigitIsElement
    <3> QED BY ONLY <3>1, <3>3
  <2>6. (CHOOSE s : IsSum(s, parts, DOMAIN of, Len(parts)))[Len(parts)] = of
    BY <2>3, <2>4
  <2> QED BY Zenon, <2>1, <2>5, <2>6 DEF DigitsRecombine, IsSum, WithDigit
<1> QED BY <1>1, <1>2

\* No digits, no parts.
LEMMA NoneParts == DOMAIN None.parts = {}
  BY DEF None

\* Every digit is a small element.
LEMMA PartIsElement ==
  ASSUME DigitsOf, NEW k \in DOMAIN digits.parts
  PROVE  IsElement(digits.parts[k]) /\
         \A h \in Cols :
           Small(ToPoly(digits.parts[k], Chain)[h], ProductOf(Digits[k] \cap DOMAIN digits.of))
<1>1. digits # None
  BY NoneParts
<1>2. PICK of, parts : of = digits.of /\ parts = digits.parts
  OBVIOUS
<1>3. IsBrokenInto(of, parts)
  BY <1>1, <1>2 DEF DigitsOf
<1>4. PICK S, e : S = DOMAIN of /\ e = parts[k]
  OBVIOUS
<1>5. S \subseteq CtxtPrimes /\ IsDigit(e, S, k) /\ k \in 1 .. Len(Digits)
  <2>1. /\ DOMAIN of \subseteq CtxtPrimes /\ DOMAIN parts \subseteq 1 .. Len(Digits)
        /\ \A l \in DOMAIN parts : IsDigit(parts[l], DOMAIN of, l)
    BY ONLY <1>3, PartsAre
  <2>2. k \in DOMAIN parts
    BY <1>2
  <2> QED BY ONLY <1>4, <2>1, <2>2
<1>6. IsElement(e)
  BY ONLY <1>5, DigitIsElement DEF Element
<1>7. \A h \in Cols : Small(ToPoly(e, Chain)[h], ProductOf(Digits[k] \cap S))
  BY ONLY <1>5, DigitIsSmall
<1> QED BY ONLY <1>2, <1>4, <1>6, <1>7

\* The invariant implies the property.
LEMMA DigitsInvImplies ==
  ASSUME DigitsInv
  PROVE  DigitsRight
<1>1. DigitsRecombine
  BY Recombined DEF DigitsInv
<1>2. TypeOK
  <2>1. \A x \in Objs : IsElement(dcrt[x])
    BY DEF DigitsInv, Elements, Element
  <2>2. \A k \in DOMAIN digits.parts : IsElement(digits.parts[k])
    BY PartIsElement DEF DigitsInv
  <2>3. calls \in 0 .. MaxCalls
    BY DEF DigitsInv, CallsCounted
  <2> QED BY ONLY <2>1, <2>2, <2>3 DEF TypeOK
<1>3. DigitsSmall
  <2> SUFFICES ASSUME NEW k \in DOMAIN digits.parts, NEW h \in Cols, NEW c, NEW q,
                      c = ToPoly(digits.parts[k], Chain)[h],
                      q = ProductOf(Digits[k] \cap DOMAIN digits.of)
               PROVE  2 * c < q /\ -2 * c < q
    BY Zenon DEF DigitsSmall
  <2>1. Small(c, q)
    <3>1. Small(ToPoly(digits.parts[k], Chain)[h], ProductOf(Digits[k] \cap DOMAIN digits.of))
      BY PartIsElement DEF DigitsInv
    <3> QED BY <3>1
  <2> QED BY ONLY <2>1 DEF Small
<1> QED BY ONLY <1>1, <1>2, <1>3 DEF DigitsRight

\* The invariant holds at first.
LEMMA DigitsInvInit ==
  ASSUME Init
  PROVE  DigitsInv
<1>1. Elements
  BY InitElements
<1>2. DigitsOf
  BY Zenon DEF Init, DigitsOf
<1>3. CallsCounted
  BY ArgumentsAssumption DEF Init, CallsCounted
<1> QED BY ONLY <1>1, <1>2, <1>3 DEF DigitsInv

\* A return, or a throw, forgets the digits.
LEMMA StepForgets ==
  ASSUME NEW c, NEW x, NEW d
  PROVE  (Returns(c, x, d) => digits' = None) /\ (Throws(c, x) => digits' = None)
  BY Zenon DEF Returns, Throws

\* Every call but breakIntoDigits forgets the digits.
LEMMA CallForgets ==
  ASSUME NEW x \in Objs, NEW y \in Objs,
         \/ Copy(x, y) \/ Negate(x, y) \/ Combine(x, y)
         \/ Assign(x) \/ Randomize(x) \/ CombineWithPoly(x) \/ CombineWithNum(x)
         \/ Divide(x) \/ Raise(x) \/ Move(x) \/ Conjugate(x) \/ Extend(x) \/ ScaleUp(x)
         \/ Remove(x) \/ Replace(x) \/ ScaleDown(x)
  PROVE  digits' = None
<1>1. CASE Copy(x, y) \/ Negate(x, y)
  BY Zenon, <1>1, StepForgets DEF Copy, Negate
<1>2. CASE Combine(x, y)
  BY Zenon, <1>2, StepForgets DEF Combine
<1>3. CASE Assign(x) \/ Randomize(x)
  BY Zenon, <1>3, StepForgets DEF Assign, Randomize
<1>4. CASE CombineWithPoly(x) \/ CombineWithNum(x) \/ Divide(x) \/ Raise(x)
  BY Zenon, <1>4, StepForgets DEF CombineWithPoly, CombineWithNum, Divide, Raise
<1>5. CASE Move(x)
  BY Zenon, <1>5, StepForgets DEF Move
<1>6. CASE Conjugate(x)
  BY Zenon, <1>6, StepForgets DEF Conjugate
<1>7. CASE Extend(x) \/ ScaleUp(x)
  BY Zenon, <1>7, StepForgets DEF Extend, ScaleUp
<1>8. CASE Remove(x) \/ Replace(x)
  BY Zenon, <1>8, StepForgets DEF Remove, Replace
<1>9. CASE ScaleDown(x)
  BY Zenon, <1>9, StepForgets DEF ScaleDown
<1> QED BY Zenon, <1>1, <1>2, <1>3, <1>4, <1>5, <1>6, <1>7, <1>8, <1>9

\* breakIntoDigits returns the digits of an element.
LEMMA BreakKeeps ==
  ASSUME Elements, NEW x \in Objs, Break(x)
  PROVE  DigitsOf'
<1>1. CASE BreakThrows(dcrt[x])
  <2>1. digits' = None
    BY Zenon, <1>1, StepForgets DEF Break
  <2> QED BY Zenon, <2>1 DEF DigitsOf
<1>2. CASE ~BreakThrows(dcrt[x])
  <2>1. digits' = [of |-> dcrt[x], parts |-> BreakIntoDigits(dcrt[x])]
    BY Zenon, <1>2 DEF Break
  <2>2. PICK of, parts : of = dcrt[x] /\ parts = BreakIntoDigits(dcrt[x])
    OBVIOUS
  <2>3. digits'.of = of /\ digits'.parts = parts
    BY ONLY <2>1, <2>2
  <2>4. Element(of) /\ DOMAIN of \subseteq CtxtPrimes /\ parts = BreakIntoDigits(of)
    BY <1>2, <2>2 DEF Elements, BreakThrows
  <2>5. IsBrokenInto(of, parts)
    BY ONLY <2>4 DEF IsBrokenInto
  <2>6. IsBrokenInto(digits'.of, digits'.parts)
    BY ONLY <2>3, <2>5
  <2> QED BY Zenon, <2>6 DEF DigitsOf
<1> QED BY <1>1, <1>2

\* Every step keeps the invariant.
LEMMA DigitsInvNext ==
  ASSUME DigitsInv, [Next]_vars
  PROVE  DigitsInv'
<1>1. Elements /\ DigitsOf /\ CallsCounted
  BY DEF DigitsInv
<1>2. CASE Next
  <2>1. Elements'
    BY <1>1, <1>2, NextElements
  <2>2. CallsCounted'
    <3>1. calls < MaxCalls /\ calls' = calls + 1
      BY Zenon, <1>2 DEF Next
    <3> QED BY <1>1, <3>1, ArgumentsAssumption DEF CallsCounted
  <2>3. DigitsOf'
    <3>1. PICK x \in Objs, y \in Objs :
            \/ Copy(x, y) \/ Negate(x, y) \/ Combine(x, y)
            \/ Assign(x) \/ Randomize(x) \/ CombineWithPoly(x) \/ CombineWithNum(x)
            \/ Divide(x) \/ Raise(x) \/ Move(x) \/ Conjugate(x) \/ Extend(x) \/ ScaleUp(x)
            \/ Remove(x) \/ Replace(x) \/ ScaleDown(x) \/ Break(x)
      BY Zenon, <1>2 DEF Next
    <3>2. CASE Break(x)
      BY <1>1, <3>2, BreakKeeps
    <3>3. CASE ~Break(x)
      <4>1. digits' = None
        BY Zenon, <3>1, <3>3, CallForgets
      <4> QED BY Zenon, <4>1 DEF DigitsOf
    <3> QED BY <3>2, <3>3
  <2> QED BY ONLY <2>1, <2>2, <2>3 DEF DigitsInv
<1>3. CASE UNCHANGED vars
  <2>1. dcrt' = dcrt /\ digits' = digits /\ calls' = calls
    BY <1>3 DEF vars
  <2>2. Elements'
    BY <1>1, <2>1 DEF Elements
  <2>3. DigitsOf'
    BY <1>1, <2>1 DEF DigitsOf
  <2>4. CallsCounted'
    BY <1>1, <2>1 DEF CallsCounted
  <2> QED BY ONLY <2>2, <2>3, <2>4 DEF DigitsInv
<1> QED BY <1>2, <1>3

\* What breakIntoDigits returns, whatever calls were made before, are elements that are
\* small and add up to the element they were taken from.
THEOREM DigitsAlwaysRight == Spec => []DigitsRight
<1>1. Init => DigitsInv
  BY DigitsInvInit
<1>2. DigitsInv /\ [Next]_vars => DigitsInv'
  BY DigitsInvNext
<1>3. DigitsInv => DigitsRight
  BY DigitsInvImplies
<1> QED BY <1>1, <1>2, <1>3, PTL DEF Spec

-----------------------------------------------------------------------------
(* What every method makes of elements over known primes. *)

\* An element over the primes S.
Over(d, S) == Element(d) /\ DOMAIN d = S

\* An element has a polynomial that it represents.
LEMMA OverRepresents ==
  ASSUME NEW S, NEW d, Over(d, S)
  PROVE  S \in SUBSET Chain /\ \E f \in [Cols -> Int] : Represents(d, S, f)
<1>1. Element(d) /\ DOMAIN d = S
  BY DEF Over
<1> QED BY <1>1, ElementRepresents

\* What represents a polynomial over S is an element over S.
LEMMA RepresentsOver ==
  ASSUME NEW S \in SUBSET Chain, NEW d, NEW f, Represents(d, S, f)
  PROVE  Over(d, S)
BY RepresentedElement DEF Over

\* Arithmetic of two elements gives an element over the primes of the first.
LEMMA OpOver ==
  ASSUME NEW fun \in Funs, NEW S, NEW T, S \subseteq T, NEW d, NEW e, Over(d, S), Over(e, T)
  PROVE  Over(Op(fun, d, e), S)
<1>1. PICK f \in [Cols -> Int] : Represents(d, S, f)
  BY OverRepresents
<1>2. PICK g \in [Cols -> Int] : Represents(e, T, g)
  BY OverRepresents
<1>3. S \in SUBSET Chain /\ T \in SUBSET Chain
  BY OverRepresents
<1>4. Represents(Op(fun, d, e), S, RingOf(fun, f, g, ProductOf(S)))
  BY <1>1, <1>2, <1>3, OpRepresents
<1> QED BY <1>3, <1>4, RepresentsOver

\* A number is an element over any primes.
LEMMA ConstantOver ==
  ASSUME NEW n \in Int, NEW S \in SUBSET Chain
  PROVE  Over(Constant(n, S), S)
BY NumPolyRepresented, RepresentsOver

\* So is a polynomial.
LEMMA ConvertedOver ==
  ASSUME NEW f \in [Cols -> Int], NEW S \in SUBSET Chain
  PROVE  Over(Converted(f, S), S)
BY ConvertedValue, RepresentsOver

\* Arithmetic with a number and with a polynomial keeps the primes.
LEMMA OpNumOver ==
  ASSUME NEW fun \in Funs, NEW S, NEW d, Over(d, S), NEW n \in Int
  PROVE  Over(OpNum(fun, d, n), S)
<1>1. S \in SUBSET Chain /\ DOMAIN d = S
  BY OverRepresents DEF Over
<1>2. Over(Constant(n, S), S)
  BY <1>1, ConstantOver
<1> QED BY <1>1, <1>2, OpOver, OpNumIs

\* Powers keep the primes.
LEMMA ExpOver ==
  ASSUME NEW S, NEW d, Over(d, S), NEW e \in Nat
  PROVE  Over(Exp(d, e), S)
<1>1. PICK f \in [Cols -> Int] : Represents(d, S, f)
  BY OverRepresents
<1>2. S \in SUBSET Chain
  BY OverRepresents
<1>3. PICK q : q = ProductOf(S)
  OBVIOUS
<1>4. PICK c : IsPowers(c, e, f, q)
  BY <1>1, <1>2, <1>3, ExpFacts
<1>5. Represents(Exp(d, e), S, c[e])
  BY <1>1, <1>2, <1>3, <1>4, ExpFacts
<1> QED BY <1>2, <1>5, RepresentsOver

\* Automorphisms keep the primes.
LEMMA AutomorphOver ==
  ASSUME NEW S, NEW d, Over(d, S), NEW k \in ZMStar
  PROVE  Over(Automorph(d, k), S)
<1>1. PICK f \in [Cols -> Int] : Represents(d, S, f)
  BY OverRepresents
<1>2. S \in SUBSET Chain
  BY OverRepresents
<1>3. Represents(Automorph(d, k), S, AtPower(f, k, ProductOf(S)))
  BY <1>1, <1>2, AutomorphRepresents
<1> QED BY <1>2, <1>3, RepresentsOver

-----------------------------------------------------------------------------
(* The equation of a key-switching matrix. *)

\* One row of a matrix, over S: RLWE1 plus a multiple of the key.
Column(a, s, key, e, p, n, S) ==
  Op("add", Op("sub", OpNum("mul", Converted(e, S), p), Op("mul", a, s)), OpNum("mul", key, n))

\* What is left when the key it is encrypted under, and the multiple, are taken off.
LEMMA ColumnDifference ==
  ASSUME NEW S, NEW a, Over(a, S), NEW s, Over(s, S), NEW key, Over(key, S),
         NEW e \in [Cols -> Int], NEW p \in Int, NEW n \in Int
  PROVE  Op("sub", Op("add", Column(a, s, key, e, p, n, S), Op("mul", a, s)), OpNum("mul", key, n))
           = OpNum("mul", Converted(e, S), p)
<1> DEFINE noise == OpNum("mul", Converted(e, S), p)
           hidden == Op("mul", a, s)
           multiple == OpNum("mul", key, n)
           rlwe == Op("sub", noise, hidden)
           column == Op("add", rlwe, multiple)
           shown == Op("add", column, hidden)
           left == Op("sub", shown, multiple)
<1>1. {"add", "sub", "mul"} \subseteq Funs /\ S \subseteq S /\ S \in SUBSET Chain
  BY OverRepresents DEF Funs
<1>2. Over(Converted(e, S), S)
  BY <1>1, ConvertedOver
<1>3. Over(noise, S) /\ Over(hidden, S) /\ Over(multiple, S)
  BY <1>1, <1>2, OpNumOver, OpOver
<1>0. /\ rlwe = Op("sub", noise, hidden) /\ column = Op("add", rlwe, multiple)
      /\ shown = Op("add", column, hidden) /\ left = Op("sub", shown, multiple)
  OBVIOUS
<1> HIDE DEF noise, hidden, multiple, rlwe, column, shown, left
<1>4. Over(rlwe, S) /\ Over(column, S) /\ Over(shown, S) /\ Over(left, S)
  <2>1. Over(rlwe, S)
    BY <1>0, <1>1, <1>3, OpOver
  <2>2. Over(column, S)
    BY <1>0, <1>1, <1>3, <2>1, OpOver
  <2>3. Over(shown, S)
    BY <1>0, <1>1, <1>3, <2>2, OpOver
  <2> QED BY <1>0, <1>1, <1>3, <2>1, <2>2, <2>3, OpOver
<1>5. ASSUME NEW i \in S, NEW j \in Cols
      PROVE  left[i][j] = noise[i][j]
  <2>1. i \in Chain /\ Prime[i] \in Positive
    BY <1>1, PrimeFacts
  <2>2. /\ noise[i][j] \in 0 .. Prime[i] - 1 /\ hidden[i][j] \in Int /\ multiple[i][j] \in Int
    BY <1>3, ElementRow DEF Over, Element
  <2>3. rlwe[i][j] = (noise[i][j] - hidden[i][j]) % Prime[i]
    BY <1>0, <1>3 DEF Over, Op, Apply
  <2>4. column[i][j] = (rlwe[i][j] + multiple[i][j]) % Prime[i]
    BY <1>0, <1>4 DEF Over, Op, Apply
  <2>5. shown[i][j] = (column[i][j] + hidden[i][j]) % Prime[i]
    BY <1>0, <1>4 DEF Over, Op, Apply
  <2>6. left[i][j] = (shown[i][j] - multiple[i][j]) % Prime[i]
    BY <1>0, <1>4 DEF Over, Op, Apply
  <2> QED BY ONLY <2>1, <2>2, <2>3, <2>4, <2>5, <2>6, Cancels
<1>6. ASSUME NEW i \in S PROVE left[i] = noise[i]
  <2>1. i \in Chain /\ left[i] \in [Cols -> 0 .. Prime[i] - 1] /\ noise[i] \in [Cols -> 0 .. Prime[i] - 1]
    BY <1>1, <1>3, <1>4, ElementRow DEF Over, Element, Rows
  <2> QED BY <1>5, <2>1
<1>7. left = [i \in S |-> left[i]] /\ noise = [i \in S |-> noise[i]]
  BY <1>3, <1>4 DEF Over, Element
<1>8. left = noise
  BY <1>6, <1>7
<1> QED BY <1>8 DEF left, noise, shown, column, rlwe, hidden, multiple, Column

-----------------------------------------------------------------------------
(* Norms. *)

\* What the norm adds up.
Absolute(a) == IF a < 0 THEN -a ELSE a
Absolutes(f) == [h \in DOMAIN f |-> Absolute(f[h])]

\* The norm is the sum of the absolute values.
LEMMA NormIs ==
  ASSUME NEW f
  PROVE  Norm(f) = SumOver(Absolutes(f), DOMAIN f)
<1>1. Norm(f) = SumFunction(Absolutes(f))
  BY Zenon DEF Norm, Absolutes, Absolute
<1>2. DOMAIN Absolutes(f) = DOMAIN f
  BY DEF Absolutes
<1> QED BY <1>1, <1>2, SumFn

\* There are finitely many columns.
LEMMA ColsFinite == IsFiniteSet(Cols)
<1>1. 0 \in Int /\ PhiM - 1 \in Int
  BY Degree
<1> QED BY <1>1, FS_Interval DEF Cols

\* The norm is a natural number that bounds the coefficients.
LEMMA NormFacts ==
  ASSUME NEW f \in [Cols -> Int]
  PROVE  /\ Norm(f) \in Nat
         /\ \A h \in Cols : f[h] =< Norm(f) /\ -f[h] =< Norm(f)
<1>1. DOMAIN f = Cols /\ \A h \in Cols : f[h] \in Int
  OBVIOUS
<1>2. \A h \in Cols : /\ Absolutes(f)[h] = Absolute(f[h]) /\ Absolutes(f)[h] \in Nat
                      /\ f[h] =< Absolutes(f)[h] /\ -f[h] =< Absolutes(f)[h]
  BY <1>1 DEF Absolutes, Absolute
<1>3. SumOver(Absolutes(f), Cols) \in Nat /\ \A h \in Cols : Absolutes(f)[h] =< SumOver(Absolutes(f), Cols)
  BY <1>2, ColsFinite, SumNat
<1>4. Norm(f) = SumOver(Absolutes(f), Cols)
  BY <1>1, NormIs
<1> QED BY <1>1, <1>2, <1>3, <1>4

\* The norm of a multiple.
LEMMA NormTimes ==
  ASSUME NEW f \in [Cols -> Int], NEW n \in Nat, NEW g \in [Cols -> Int], \A h \in Cols : g[h] = n * f[h]
  PROVE  Norm(g) = n * Norm(f)
<1>1. DOMAIN f = Cols /\ DOMAIN g = Cols /\ \A h \in Cols : f[h] \in Int
  OBVIOUS
<1>2. \A h \in Cols : Absolutes(f)[h] \in Int /\ Absolutes(f)[h] = Absolute(f[h]) /\ Absolutes(g)[h] = Absolute(g[h])
  BY <1>1 DEF Absolutes, Absolute
<1>3. ASSUME NEW x \in Int PROVE Absolute(n * x) = n * Absolute(x)
  <2>1. n * x \in Int /\ n * (-x) = -(n * x) /\ n * 0 = 0
    <3>1. n \in Int /\ 0 \in Int /\ 0 - x = -x
      OBVIOUS
    <3>2. n * (0 - x) = n * 0 - n * x /\ n * 0 = 0 /\ n * x \in Int
      BY ONLY <3>1, x \in Int, IntRing
    <3> QED BY <3>1, <3>2
  <2>2. x >= 0 => n * x >= 0
    BY ONLY n \in Nat, x \in Int
  <2>3. x < 0 => n * (-x) >= 0
    BY ONLY n \in Nat, x \in Int
  <2>4. CASE x >= 0
    BY <2>1, <2>2, <2>4 DEF Absolute
  <2>5. CASE x < 0
    <3>1. n * x =< 0
      BY <2>1, <2>3, <2>5
    <3>2. Absolute(x) = -x
      BY <2>5 DEF Absolute
    <3>3. Absolute(n * x) = -(n * x)
      <4>1. PICK y : y = n * x
        OBVIOUS
      <4>2. y \in Int /\ y =< 0
        BY <2>1, <3>1, <4>1
      <4>3. Absolute(y) = -y
        BY <4>2 DEF Absolute
      <4> QED BY <4>1, <4>3
    <3> QED BY <2>1, <3>2, <3>3
  <2> QED BY <2>4, <2>5
<1>4. \A h \in Cols : Absolutes(g)[h] = n * Absolutes(f)[h]
  BY <1>1, <1>2, <1>3
<1>5. n \in Int
  OBVIOUS
<1>6. SumOver(Absolutes(g), Cols) = n * SumOver(Absolutes(f), Cols)
  BY <1>2, <1>4, <1>5, ColsFinite, SumScale
<1> QED BY <1>1, <1>6, NormIs

-----------------------------------------------------------------------------
(* The noise of a matrix. *)

\* The noise of RLWE1 is the error times the plaintext space, when it is small.
LEMMA NoiseIs ==
  ASSUME NEW S \in SUBSET Chain, NEW e \in [Cols -> Int], NEW p \in Nat, NEW bound \in Nat,
         Norm(e) =< bound, 2 * p * bound < ProductOf(S),
         NEW noise, noise = ToPoly(OpNum("mul", Converted(e, S), p), S)
  PROVE  noise \in [Cols -> Int] /\ \A h \in Cols : noise[h] = p * e[h]
<1> DEFINE g == [h \in Cols |-> p * e[h]]
           d == OpNum("mul", Converted(e, S), p)
           c == Converted(e, S)
<1>1. p \in Int /\ \A h \in Cols : e[h] \in Int
  OBVIOUS
<1>2. g \in [Cols -> Int] /\ \A h \in Cols : g[h] = p * e[h]
  BY <1>1, IntRing
<1>3. Over(c, S) /\ Represents(c, S, e)
  BY ConvertedOver, ConvertedValue
<1>4. Over(d, S)
  BY <1>1, <1>3, OpNumOver DEF Funs
<1>5. ASSUME NEW i \in S, NEW j \in Cols
      PROVE  Cong(Ev(g, i, j), d[i][j], Prime[i])
  <2>1. i \in Chain /\ Prime[i] \in Positive /\ Prime[i] \in Int
    BY PrimeFacts
  <2>2. c[i][j] \in Int /\ Cong(c[i][j], Ev(e, i, j), Prime[i])
    BY <1>3 DEF Represents
  <2>3. d[i][j] = (c[i][j] * (p % Prime[i])) % Prime[i]
    BY <1>3 DEF Over, OpNum, Apply
  <2> HIDE DEF g, d, c
  <2>4. Ev(g, i, j) = p * Ev(e, i, j) /\ Ev(e, i, j) \in Int /\ Ev(g, i, j) \in Int
    BY <1>1, <1>2, <2>1, EvScale, SmallPoly, EvType
  <2>5. PICK x, y, q, v : x = c[i][j] /\ y = p % Prime[i] /\ q = Prime[i] /\ v = Ev(e, i, j)
    OBVIOUS
  <2>6. q \in Positive /\ q \in Int /\ x \in Int /\ y \in Int /\ v \in Int
    BY <1>1, <2>1, <2>2, <2>4, <2>5, ModFacts
  <2>7. Cong(y, p, q) /\ Cong(x, v, q)
    BY <1>1, <2>1, <2>2, <2>5, ModFacts
  <2>8. Cong(x * y, v * p, q) /\ x * y \in Int /\ v * p \in Int /\ v * p = p * v
    BY ONLY <1>1, <2>6, <2>7, CongTimes, IntRing
  <2>9. Cong((x * y) % q, x * y, q) /\ (x * y) % q \in Int
    BY ONLY <2>6, <2>8, ModFacts
  <2>10. Cong((x * y) % q, v * p, q)
    BY ONLY <2>6, <2>8, <2>9, CongTrans
  <2>11. Cong(p * v, (x * y) % q, q)
    BY ONLY <2>6, <2>8, <2>9, <2>10, CongSym
  <2> QED BY <2>3, <2>4, <2>5, <2>11
<1>6. DOMAIN d \cap S = S /\ IsElement(d)
  BY <1>4 DEF Over, Element
<1>7. ASSUME NEW h \in Cols PROVE Small(g[h], ProductOf(S))
  <2>1. e[h] =< bound /\ -e[h] =< bound /\ e[h] \in Int
    <3>1. e[h] =< Norm(e) /\ -e[h] =< Norm(e) /\ Norm(e) \in Nat
      BY NormFacts
    <3> QED BY <1>1, <3>1
  <2>2. PICK x, P : x = e[h] /\ P = ProductOf(S)
    OBVIOUS
  <2>3. P \in Int /\ 2 * p * bound < P
    BY <2>2, ProductPositive
  <2>4. 2 * (p * x) < P /\ -2 * (p * x) < P
    <3>1. x \in Int /\ x =< bound /\ -x =< bound /\ bound \in Int
      BY <2>1, <2>2
    <3>2. p * (bound - x) \in Nat /\ p * (bound + x) \in Nat
      <4>1. bound - x \in Nat /\ bound + x \in Nat
        BY <3>1
      <4>2. \A z \in Nat : p * z \in Nat
        BY ONLY p \in Nat
      <4> QED BY <4>1, <4>2
    <3>3. p * (bound - x) = p * bound - p * x /\ p * (bound + x) = p * bound + p * x
          /\ p * bound \in Int /\ p * x \in Int
      BY ONLY <1>1, <3>1, IntRing
    <3>4. 2 * p * bound = 2 * (p * bound)
      BY ONLY <1>1, <3>1
    <3>5. PICK y, z : y = p * bound /\ z = p * x
      OBVIOUS
    <3>6. y \in Int /\ z \in Int /\ y - z \in Nat /\ y + z \in Nat /\ 2 * y < P
      BY <2>3, <3>2, <3>3, <3>4, <3>5
    <3>7. 2 * z < P /\ -2 * z < P
      BY ONLY <2>3, <3>6
    <3> QED BY <3>5, <3>7
  <2>5. g[h] = p * x
    BY <1>2, <2>2
  <2> HIDE DEF g
  <2> QED BY <2>2, <2>4, <2>5 DEF Small
<1> HIDE DEF g, d, c
<1>8. ToPoly(d, S) = g
  BY <1>2, <1>5, <1>6, <1>7, ToPolyIs
<1>9. noise = g
  BY <1>8 DEF d, c
<1> QED BY <1>2, <1>9

-----------------------------------------------------------------------------
(* The scales of the digits. *)

\* The primes whose product a digit is scaled by.
Before(i) == SpecialPrimes \cup UNION {Digits[k] : k \in 1 .. i - 1}

\* One digit more.
LEMMA BeforeFacts ==
  ASSUME NEW i \in 1 .. Len(Digits)
  PROVE  /\ Before(1) = SpecialPrimes /\ Before(i) \in SUBSET Chain
         /\ ProductOf(Before(i)) \in Int
         /\ ProductOf(Before(i + 1)) = ProductOf(Before(i)) * ProductOf(Digits[i])
<1>1. Len(Digits) \in Nat /\ i \in Nat
  BY DigitsAre
<1>2. \A j \in 1 .. i + 1 : Before(j) \in SUBSET Chain
  <2>1. ASSUME NEW j \in 1 .. i + 1, NEW r \in Before(j) PROVE r \in Chain
    <3>1. CASE r \in SpecialPrimes
      BY <3>1, ChainAssumption
    <3>2. CASE r \notin SpecialPrimes
      <4>1. PICK k \in 1 .. j - 1 : r \in Digits[k]
        BY <2>1, <3>2 DEF Before
      <4>2. k \in 1 .. Len(Digits)
        BY <1>1, <2>1
      <4> QED BY <4>1, <4>2, DigitsAre
    <3> QED BY <3>1, <3>2
  <2> QED BY <2>1
<1>3. Before(1) = SpecialPrimes
  BY DEF Before
<1>4. Before(i + 1) = Before(i) \cup Digits[i]
  <2>1. (i + 1) - 1 = i /\ \A k : k \in 1 .. i <=> k \in 1 .. i - 1 \/ k = i
    BY <1>1
  <2> QED BY <2>1 DEF Before
<1>5. Before(i) \cap Digits[i] = {}
  <2>1. SpecialPrimes \cap Digits[i] = {}
    BY DigitsAre, ChainAssumption
  <2>2. ASSUME NEW k \in 1 .. i - 1 PROVE Digits[k] \cap Digits[i] = {}
    <3>1. k \in 1 .. Len(Digits) /\ k # i
      BY <1>1
    <3> QED BY <3>1, DigitsAre
  <2> QED BY <2>1, <2>2 DEF Before
<1>6. Before(i) \in SUBSET Chain /\ Digits[i] \in SUBSET Chain
  BY <1>1, <1>2, DigitsAre
<1> QED BY <1>3, <1>4, <1>5, <1>6, ProductOfParts, ProductPositive

\* The products are computed from one digit to the next.
LEMMA DigitScaleIs ==
  ASSUME NEW i \in 1 .. Len(Digits)
  PROVE  DigitScale(i) = ProductOf(Before(i))
<1> DEFINE n == Len(Digits)
           G(x) == [k \in 1 .. Len(Digits) |->
                      IF k = 1 THEN ProductOf(SpecialPrimes)
                      ELSE x[k - 1] * ProductOf(Digits[k - 1])]
           c == CHOOSE x : x = G(x)
           f == [k \in 1 .. Len(Digits) |-> ProductOf(Before(k))]
<1>1. DigitScale(i) = c[i]
  BY Zenon DEF DigitScale
<1>2. n \in Nat
  BY DigitsAre
<1>3. ASSUME NEW k \in 1 .. n
      PROVE  f[k] = IF k = 1 THEN ProductOf(SpecialPrimes)
                    ELSE f[k - 1] * ProductOf(Digits[k - 1])
  <2>1. CASE k = 1
    <3>1. f[1] = ProductOf(SpecialPrimes)
      BY <2>1, BeforeFacts
    <3> QED BY <2>1, <3>1
  <2>2. CASE k # 1
    <3>1. PICK l : l = k - 1
      OBVIOUS
    <3>2. l \in 1 .. n /\ l + 1 = k
      BY <1>2, <2>2, <3>1
    <3>3. ProductOf(Before(k)) = ProductOf(Before(l)) * ProductOf(Digits[l])
      BY <3>2, BeforeFacts
    <3>4. f[k] = ProductOf(Before(k)) /\ f[l] = ProductOf(Before(l))
      BY <3>2
    <3> QED BY <2>2, <3>1, <3>3, <3>4
  <2> QED BY <2>1, <2>2
<1>4. f = G(f)
  <2>1. f = [k \in 1 .. n |-> f[k]]
    BY Zenon
  <2> HIDE DEF f
  <2> QED BY <1>3, <2>1
<1> HIDE DEF f
<1>5. c = G(c)
  <2> HIDE DEF G
  <2> QED BY <1>4, Zenon
<1> HIDE DEF c
<1>6. \A k \in 1 .. n : c[k] = IF k = 1 THEN ProductOf(SpecialPrimes)
                               ELSE c[k - 1] * ProductOf(Digits[k - 1])
  BY <1>5
<1> DEFINE I == {k \in Nat : k + 1 =< n => c[k + 1] = f[k + 1]}
<1> HIDE DEF G, n
<1>7. 0 \in I
  <2>1. 0 + 1 =< n => 1 \in 1 .. n
    BY <1>2
  <2> QED BY <1>3, <1>6, <2>1
<1>8. ASSUME NEW k \in Nat, k \in I PROVE k + 1 \in I
  <2>1. ASSUME (k + 1) + 1 =< n PROVE c[(k + 1) + 1] = f[(k + 1) + 1]
    <3>1. PICK l, m : l = k + 1 /\ m = (k + 1) + 1
      OBVIOUS
    <3>2. m \in 1 .. n /\ m # 1 /\ m - 1 = l /\ k + 1 =< n
      BY <1>2, <2>1, <3>1
    <3>3. c[l] = f[l]
      BY <1>8, <3>1, <3>2
    <3>4. c[m] = c[l] * ProductOf(Digits[l]) /\ f[m] = f[l] * ProductOf(Digits[l])
      BY <1>3, <1>6, <3>2
    <3> QED BY <3>1, <3>3, <3>4
  <2> QED BY <2>1
<1>9. c[i] = f[i]
  <2> HIDE DEF I
  <2>1. Nat \subseteq I
    BY <1>7, <1>8, Induction
  <2>2. i - 1 \in Nat /\ (i - 1) + 1 = i /\ i =< n
    BY <1>2 DEF n
  <2> QED BY <2>1, <2>2 DEF I
<1>10. f[i] = ProductOf(Before(i))
  BY DEF f
<1> QED BY <1>1, <1>9, <1>10

-----------------------------------------------------------------------------
(* The columns of a matrix. *)

NoColumn == [rows |-> <<>>, next |-> 0]

\* The function that columns are drawn with.
IsDrawing(c, S, stream, n) ==
  c = [i \in 0 .. n |-> IF i = 0 THEN NoColumn ELSE Randomized(S, stream, c[i - 1].next)]

\* The columns are drawn with the rows' randomize.
LEMMA ColumnsAre ==
  ASSUME NEW seed, NEW S
  PROVE  Columns(seed, S) =
           [i \in DOMAIN Digits |-> (CHOOSE c : IsDrawing(c, S, Stream[seed], Len(Digits)))[i].rows]
<1> DEFINE G(x) == [i \in 0 .. Len(Digits) |->
                      IF i = 0 THEN [rows |-> <<>>, next |-> 0]
                      ELSE The({Randomized(S, Stream[seed], d.next) : d \in {x[i - 1]}})]
           H(x) == [i \in 0 .. Len(Digits) |->
                      IF i = 0 THEN NoColumn ELSE Randomized(S, Stream[seed], x[i - 1].next)]
<1>1. Columns(seed, S) = [i \in DOMAIN Digits |-> (CHOOSE x : x = G(x))[i].rows]
  BY Zenon DEF Columns
<1>2. \A x : G(x) = H(x)
  <2>1. ASSUME NEW x, NEW i
        PROVE  The({Randomized(S, Stream[seed], d.next) : d \in {x[i - 1]}})
                 = Randomized(S, Stream[seed], x[i - 1].next)
    <3>1. {Randomized(S, Stream[seed], d.next) : d \in {x[i - 1]}}
            = {Randomized(S, Stream[seed], x[i - 1].next)}
      BY Zenon
    <3>2. \A y : The({y}) = y
      BY DEF The
    <3> QED BY Zenon, <3>1, <3>2
  <2> QED BY Zenon, <2>1 DEF NoColumn
<1>3. \A x : IsDrawing(x, S, Stream[seed], Len(Digits)) <=> x = G(x)
  <2>1. \A x : IsDrawing(x, S, Stream[seed], Len(Digits)) <=> x = H(x)
    BY Zenon DEF IsDrawing
  <2> HIDE DEF G, H
  <2> QED BY Zenon, <1>2, <2>1
<1> HIDE DEF G
<1> QED BY Zenon, <1>1, <1>3

\* The recursion that draws columns, step by step.
LEMMA DrawingIs ==
  ASSUME NEW n \in Nat, NEW S, NEW stream, NEW c
  PROVE  IsDrawing(c, S, stream, n) <=>
           /\ c = [i \in 0 .. n |-> c[i]] /\ c[0] = NoColumn
           /\ \A i \in 1 .. n : c[i] = Randomized(S, stream, c[i - 1].next)
<1>1. ASSUME IsDrawing(c, S, stream, n)
      PROVE  /\ c = [i \in 0 .. n |-> c[i]] /\ c[0] = NoColumn
             /\ \A i \in 1 .. n : c[i] = Randomized(S, stream, c[i - 1].next)
  BY <1>1 DEF IsDrawing
<1>2. ASSUME /\ c = [i \in 0 .. n |-> c[i]] /\ c[0] = NoColumn
             /\ \A i \in 1 .. n : c[i] = Randomized(S, stream, c[i - 1].next)
      PROVE  IsDrawing(c, S, stream, n)
  <2>1. \A i \in 0 .. n : c[i] = IF i = 0 THEN NoColumn ELSE Randomized(S, stream, c[i - 1].next)
    <3> SUFFICES ASSUME NEW i \in 0 .. n
                 PROVE  c[i] = IF i = 0 THEN NoColumn ELSE Randomized(S, stream, c[i - 1].next)
      OBVIOUS
    <3>1. CASE i = 0
      BY <1>2, <3>1
    <3>2. CASE i # 0
      <4>1. i \in 1 .. n
        BY <3>2
      <4> QED BY <1>2, <3>2, <4>1
    <3> QED BY <3>1, <3>2
  <2> QED BY <1>2, <2>1 DEF IsDrawing
<1> QED BY <1>1, <1>2

\* What is drawn after i columns.
IsDrawnTo(d, S, i, m) ==
  /\ d.next \in Nat /\ d.next =< i * m
  /\ i > 0 => Over(d.rows, S)

\* Every column is an element over the primes, when the stream suffices for all.
LEMMA ColumnsOver ==
  ASSUME NEW seed, NEW S \in SUBSET Chain, Suffices(Stream[seed], Len(Digits) * Cardinality(Chain)),
         NEW i \in DOMAIN Digits
  PROVE  Over(Columns(seed, S)[i], S)
<1> DEFINE n == Len(Digits)
           stream == Stream[seed]
           N == Cardinality(S)
           Record == {NoColumn} \cup [rows : AllElements, next : Nat]
<1>1. PICK K, b : IsStream(stream, K, b) /\ b * (n * Cardinality(Chain)) =< K
  BY StreamFacts
<1>2. n \in Nat /\ i \in 1 .. n
  BY DigitsAre
<1>3. N \in Nat /\ Cardinality(Chain) \in Nat /\ N =< Cardinality(Chain)
  BY ChainAssumption, FS_Subset, FS_CardinalityType
<1>4. b \in Nat /\ K \in Nat
  BY <1>1 DEF IsStream
<1>5. PICK m : m = N * b
  OBVIOUS
<1>6. m \in Nat /\ n * m =< K
  <2>1. PICK C : C = Cardinality(Chain)
    OBVIOUS
  <2>2. N \in Int /\ C \in Int /\ C - N \in Nat /\ b \in Int /\ n \in Int /\ b * (n * C) =< K
    BY <1>1, <1>2, <1>3, <1>4, <2>1
  <2> HIDE DEF N, n
  <2>3. m \in Nat
    BY <1>3, <1>4, <1>5
  <2>4. (C - N) * b = C * b - N * b /\ C * b \in Int /\ N * b \in Int
    BY ONLY <2>2, IntRing
  <2>5. (C - N) * b \in Nat
    BY ONLY <2>2, <1>4
  <2>6. PICK x : x = C * b
    OBVIOUS
  <2>7. x \in Int /\ x - m \in Nat /\ m \in Int
    BY <1>5, <2>3, <2>4, <2>5, <2>6
  <2>8. n * (x - m) = n * x - n * m /\ n * x \in Int /\ n * m \in Int
    BY ONLY <2>2, <2>7, IntRing
  <2>9. n * (x - m) \in Nat
    BY ONLY <1>2, <2>7
  <2>10. n * x = b * (n * C)
    <3>1. n * (C * b) = (n * C) * b /\ n * C \in Int
      BY ONLY <2>2, IntRing
    <3>2. (n * C) * b = b * (n * C)
      BY ONLY <2>2, <3>1, IntRing
    <3> QED BY <2>6, <3>1, <3>2
  <2>11. PICK y, z : y = n * x /\ z = n * m
    OBVIOUS
  <2>12. y \in Int /\ z \in Int /\ y - z \in Nat /\ y =< K
    BY <2>2, <2>8, <2>9, <2>10, <2>11
  <2>13. z =< K
    BY ONLY <2>12, <1>4
  <2> QED BY <2>3, <2>11, <2>13
<1> DEFINE step == [p \in Nat \X Record |-> Randomized(S, stream, p[2].next)]
           Inv == [k \in 0 .. n |-> {d \in Record : IsDrawnTo(d, S, k, m)}]
<1>7. /\ \A k \in Nat, d \in Record : step[<<k, d>>] = Randomized(S, stream, d.next)
      /\ \A k \in 0 .. n : \A d : d \in Inv[k] <=> d \in Record /\ IsDrawnTo(d, S, k, m)
      /\ NoColumn \in Record
  OBVIOUS
<1>8. \A d : d = [rows |-> d.rows, next |-> d.next] /\ Element(d.rows) /\ d.next \in Nat => d \in Record
  <2>1. ASSUME NEW d, d = [rows |-> d.rows, next |-> d.next], Element(d.rows), d.next \in Nat
        PROVE  d \in Record
    <3>1. d.rows \in AllElements
      BY <2>1, ElementIn
    <3>2. [rows |-> d.rows, next |-> d.next] \in [rows : AllElements, next : Nat]
      BY <2>1, <3>1
    <3> QED BY <2>1, <3>2
  <2> QED BY <2>1
<1> HIDE DEF n, N, stream, Record, step, Inv
<1>9. NoColumn \in Inv[0]
  <2>1. NoColumn.next = 0
    BY DEF NoColumn
  <2>2. 0 * m = 0 /\ 0 \in 0 .. n
    BY <1>2, <1>6
  <2>3. IsDrawnTo(NoColumn, S, 0, m)
    BY <2>1, <2>2 DEF IsDrawnTo
  <2> QED BY <1>7, <2>2, <2>3
<1>10. Keeps(n, Record, step, Inv)
  <2> SUFFICES ASSUME NEW k \in 0 .. n - 1, NEW d \in Record, d \in Inv[k]
               PROVE  step[<<k, d>>] \in Record /\ step[<<k, d>>] \in Inv[k + 1]
    BY DEF Keeps
  <2>1. k \in Nat /\ k \in 0 .. n /\ k + 1 \in 0 .. n /\ k + 1 > 0
    BY <1>2
  <2>2. d.next \in Nat /\ d.next =< k * m
    BY <1>7, <2>1 DEF IsDrawnTo
  <2>3. PICK e : e = Randomized(S, stream, d.next)
    OBVIOUS
  <2>4. (k + 1) * m = k * m + m /\ k * m \in Int /\ (k + 1) * m =< K
    <3>1. k \in Int /\ m \in Int /\ n \in Int /\ n - (k + 1) \in Nat
      BY <1>2, <1>6, <2>1
    <3>2. (k + 1) * m = k * m + 1 * m /\ 1 * m = m /\ k * m \in Int
      BY ONLY <3>1, IntRing
    <3>3. (n - (k + 1)) * m = n * m - (k + 1) * m /\ n * m \in Int /\ (k + 1) * m \in Int
      BY ONLY <3>1, IntRing
    <3>4. (n - (k + 1)) * m \in Nat
      BY ONLY <3>1, <1>6
    <3>5. PICK y, z : y = n * m /\ z = (k + 1) * m
      OBVIOUS
    <3>6. y \in Int /\ z \in Int /\ y - z \in Nat /\ y =< K
      BY <1>6, <3>3, <3>4, <3>5
    <3>7. z =< K
      BY ONLY <3>6, <1>4
    <3> QED BY <3>2, <3>5, <3>7
  <2>5. d.next + Cardinality(S) * b =< K
    <3>1. PICK y : y = k * m
      OBVIOUS
    <3>2. d.next + m =< K
      BY <1>4, <1>6, <2>2, <2>4, <3>1
    <3> QED BY <1>5, <3>2 DEF N
  <2>6. /\ e = [rows |-> e.rows, next |-> e.next] /\ DOMAIN e.rows = S /\ Element(e.rows)
        /\ e.next \in Nat /\ e.next =< d.next + Cardinality(S) * b
    BY <1>1, <2>2, <2>3, <2>5, RandomizedFrom
  <2>7. e \in Record
    BY <1>8, <2>6
  <2>8. e.next =< (k + 1) * m
    <3>1. PICK y, z : y = k * m /\ z = (k + 1) * m
      OBVIOUS
    <3>2. z = y + m /\ y \in Int /\ d.next =< y /\ e.next =< d.next + m
      BY <1>5, <2>2, <2>4, <2>6, <3>1 DEF N
    <3>3. e.next =< z
      BY ONLY <1>6, <2>2, <2>6, <3>2
    <3> QED BY <3>1, <3>3
  <2>9. IsDrawnTo(e, S, k + 1, m)
    BY <2>6, <2>8 DEF IsDrawnTo, Over
  <2>10. step[<<k, d>>] = e
    BY <1>7, <2>1, <2>3
  <2> QED BY <1>7, <2>1, <2>7, <2>9, <2>10
<1>11. PICK f : IsLoop(f, n, Record, NoColumn, step, Inv)
  BY ONLY <1>2, <1>7, <1>9, <1>10, LoopExists
<1>12. /\ f \in [0 .. n -> Record] /\ f = [k \in 0 .. n |-> f[k]]
       /\ f[0] = NoColumn /\ \A k \in 1 .. n : f[k] = step[<<k - 1, f[k - 1]>>]
       /\ \A k \in 0 .. n : f[k] \in Inv[k]
  BY <1>11 DEF IsLoop
<1>13. ASSUME NEW k \in 1 .. n PROVE f[k] = Randomized(S, stream, f[k - 1].next)
  <2>1. k - 1 \in Nat /\ k - 1 \in 0 .. n
    BY <1>2
  <2> QED BY <1>7, <1>12, <2>1
<1>14. IsDrawing(f, S, stream, n)
  <2>1. \A k \in 0 .. n : f[k] = IF k = 0 THEN NoColumn ELSE Randomized(S, stream, f[k - 1].next)
    <3> SUFFICES ASSUME NEW k \in 0 .. n
                 PROVE  f[k] = IF k = 0 THEN NoColumn ELSE Randomized(S, stream, f[k - 1].next)
      OBVIOUS
    <3>1. CASE k = 0
      BY <1>12, <3>1
    <3>2. CASE k # 0
      <4>1. k \in 1 .. n
        BY <1>2, <3>2
      <4> QED BY <1>13, <3>2, <4>1
    <3> QED BY <3>1, <3>2
  <2>2. f = [k \in 0 .. n |-> f[k]]
    BY <1>12
  <2> QED BY ONLY <2>1, <2>2 DEF IsDrawing
<1>15. PICK c : c = CHOOSE x : IsDrawing(x, S, stream, n)
  OBVIOUS
<1>16. IsDrawing(c, S, stream, n)
  BY Zenon, <1>14, <1>15
<1>17. Agree(c, f, n)
  <2>1. c[0] = NoColumn /\ \A k \in 1 .. n : c[k] = Randomized(S, stream, c[k - 1].next)
    BY <1>2, <1>16, DrawingIs
  <2> QED BY <1>12, <1>13, <2>1 DEF Agree
<1>18. c[i] = f[i]
  <2>1. i \in 0 .. n
    BY <1>2
  <2> QED BY <1>2, <1>17, <2>1, AgreeFacts
<1>19. Over(f[i].rows, S)
  <2>1. i \in 0 .. n /\ i > 0
    BY <1>2
  <2> QED BY <1>7, <1>12, <2>1 DEF IsDrawnTo
<1>20. Columns(seed, S)[i] = c[i].rows
  BY <1>15, ColumnsAre DEF n, stream
<1> QED BY <1>18, <1>19, <1>20

-----------------------------------------------------------------------------
(* Keys and matrices.                                                      *)

\* What the samplers promise, as the lemmas above need it.
LEMMA SamplesFacts ==
  /\ PtxtSpace \in Nat /\ ErrorBound \in Nat /\ Seeds \in Nat /\ MaxKeys \in Nat
  /\ MaxDegKswitch \in Nat \ {0} /\ XPowers \subseteq ZMStar
  /\ 2 * PtxtSpace * ErrorBound < ProductOf(AllPrimes) /\ AllPrimes \in SUBSET Chain
  /\ \A e \in ErrorSamples : e \in [Cols -> Int] /\ Norm(e) =< ErrorBound
  /\ \A n \in 1 .. MaxKeys : \A s \in KeySamples[n] : s \in [Cols -> Int]
  /\ DOMAIN Stream = 1 .. Seeds
  /\ \A seed \in 1 .. Seeds : Suffices(Stream[seed], Len(Digits) * Cardinality(Chain))
<1>1. AllPrimes \in SUBSET Chain
  BY ChainAssumption DEF AllPrimes
<1>2. \A n \in 1 .. MaxKeys : \A s \in KeySamples[n] : s \in [Cols -> Int]
  BY SamplesAssumption
<1>3. /\ PtxtSpace \in Nat /\ ErrorBound \in Nat /\ Seeds \in Nat /\ MaxKeys \in Nat
      /\ MaxDegKswitch \in Nat \ {0} /\ XPowers \subseteq ZMStar
      /\ 2 * PtxtSpace * ErrorBound < ProductOf(AllPrimes) /\ DOMAIN Stream = 1 .. Seeds
  BY SamplesAssumption
<1>4. \A e \in ErrorSamples : e \in [Cols -> Int] /\ Norm(e) =< ErrorBound
  BY Zenon, SamplesAssumption
<1>5. \A seed \in 1 .. Seeds : Suffices(Stream[seed], Len(Digits) * Cardinality(Chain))
  BY Zenon, SamplesAssumption, <1>3
<1> QED BY <1>1, <1>2, <1>3, <1>4, <1>5

\* Handles of powers of a key.
Handles == [s : Nat, x : ZMStar \cup {1}, id : Nat]

\* A power of a key is an element over its primes.
LEMMA KeyOfOver ==
  ASSUME NEW S, NEW keys, NEW h \in Handles, Over(keys[h.id + 1], S)
  PROVE  Over(KeyOf(keys, h), S)
<1> DEFINE moved == IF h.x > 1 THEN Automorph(keys[h.id + 1], h.x) ELSE keys[h.id + 1]
<1>1. KeyOf(keys, h) = IF h.s > 1 THEN Exp(moved, h.s) ELSE moved
  BY Zenon DEF KeyOf
<1>2. h.s \in Nat /\ h.x \in ZMStar \cup {1}
  BY DEF Handles
<1>3. Over(moved, S)
  <2>1. CASE h.x > 1
    <3>1. h.x \in ZMStar
      BY <1>2, <2>1
    <3> QED BY <2>1, <3>1, AutomorphOver
  <2>2. CASE ~ (h.x > 1)
    BY <2>2
  <2> QED BY <2>1, <2>2
<1> HIDE DEF moved
<1> QED BY <1>1, <1>2, <1>3, ExpOver

\* The keys are elements over all the primes.
AreKeys(keys) == keys \in Seq(AllElements) /\ \A i \in 1 .. Len(keys) : Over(keys[i], AllPrimes)

\* The columns of a matrix are elements too.
LEMMA ColumnOver ==
  ASSUME NEW S, NEW a, Over(a, S), NEW s, Over(s, S), NEW key, Over(key, S),
         NEW e \in [Cols -> Int], NEW p \in Int, NEW n \in Int
  PROVE  Over(Column(a, s, key, e, p, n, S), S)
<1>1. {"add", "sub", "mul"} \subseteq Funs /\ S \subseteq S /\ S \in SUBSET Chain
  BY OverRepresents DEF Funs
<1>2. Over(OpNum("mul", Converted(e, S), p), S) /\ Over(Op("mul", a, s), S)
      /\ Over(OpNum("mul", key, n), S)
  BY <1>1, ConvertedOver, OpNumOver, OpOver
<1>3. Over(Op("sub", OpNum("mul", Converted(e, S), p), Op("mul", a, s)), S)
  BY <1>1, <1>2, OpOver
<1> QED BY <1>1, <1>2, <1>3, OpOver DEF Column

AllMatrices ==
  [fromKey : Handles, toKeyID : Nat, prgSeed : 1 .. Seeds, noiseBound : {PtxtSpace * ErrorBound},
   b : [DOMAIN Digits -> AllElements]]

\* What a matrix looks like: short errors hide the multiples of a key, under pseudorandom
\* columns that its seed gives again.
IsMatrix(W, keys) ==
  /\ W \in AllMatrices /\ W.toKeyID + 1 =< Len(keys) /\ W.fromKey.id + 1 =< Len(keys)
  /\ \E es \in [DOMAIN Digits -> ErrorSamples] : \A i \in DOMAIN Digits :
       W.b[i] = Column(Columns(W.prgSeed, AllPrimes)[i], keys[W.toKeyID + 1],
                       KeyOf(keys, W.fromKey), es[i], PtxtSpace, ProductOf(Before(i)), AllPrimes)

\* All that is in a column of a matrix is over all the primes.
LEMMA MatrixParts ==
  ASSUME NEW keys, AreKeys(keys), NEW from \in Handles, NEW to \in Nat, NEW seed \in 1 .. Seeds,
         from.id + 1 =< Len(keys), to + 1 =< Len(keys), NEW es \in [DOMAIN Digits -> ErrorSamples],
         NEW i \in DOMAIN Digits
  PROVE  /\ Over(Columns(seed, AllPrimes)[i], AllPrimes) /\ Over(keys[to + 1], AllPrimes)
         /\ Over(KeyOf(keys, from), AllPrimes)
         /\ es[i] \in [Cols -> Int] /\ Norm(es[i]) =< ErrorBound
         /\ PtxtSpace \in Int /\ ProductOf(Before(i)) \in Int
<1>1. Over(Columns(seed, AllPrimes)[i], AllPrimes)
  BY SamplesFacts, ColumnsOver
<1>2. Len(keys) \in Nat
  BY LenProperties DEF AreKeys
<1>3. from.id \in Nat
  BY DEF Handles
<1>4. to + 1 \in 1 .. Len(keys) /\ from.id + 1 \in 1 .. Len(keys)
  BY <1>2, <1>3
<1>5. Over(keys[to + 1], AllPrimes) /\ Over(keys[from.id + 1], AllPrimes)
  BY <1>4 DEF AreKeys
<1>6. Over(KeyOf(keys, from), AllPrimes)
  BY <1>5, KeyOfOver
<1>7. es[i] \in [Cols -> Int] /\ Norm(es[i]) =< ErrorBound /\ PtxtSpace \in Int
  <2>1. es[i] \in ErrorSamples
    OBVIOUS
  <2> QED BY <2>1, SamplesFacts
<1>8. ProductOf(Before(i)) \in Int
  BY DigitsAre, BeforeFacts
<1> QED BY <1>1, <1>5, <1>6, <1>7, <1>8

\* GenKeySWmatrix makes one.
LEMMA MatrixIs ==
  ASSUME NEW keys, AreKeys(keys), NEW from \in Handles, NEW to \in Nat, NEW seed \in 1 .. Seeds,
         from.id + 1 =< Len(keys), to + 1 =< Len(keys), NEW es \in [DOMAIN Digits -> ErrorSamples]
  PROVE  IsMatrix(Matrix(keys, from, to, seed, es), keys)
<1> DEFINE W == Matrix(keys, from, to, seed, es)
           column == Columns(seed, AllPrimes)
<1>1. PICK c : c = MatrixColumns[seed]
  OBVIOUS
<1>2. c = column
  <2>1. DOMAIN Stream = 1 .. Seeds
    BY SamplesFacts
  <2> QED BY Zenon, <1>1, <2>1 DEF MatrixColumns
<1>3. W = [fromKey |-> from, toKeyID |-> to, prgSeed |-> seed, noiseBound |-> PtxtSpace * ErrorBound,
           b |-> [i \in DOMAIN Digits |->
                   Op("add", RLWE1(c[i], keys[to + 1], es[i]),
                     OpNum("mul", KeyOf(keys, from), DigitScale(i)))]]
  BY Zenon, <1>1 DEF Matrix, RLWEBound
<1> HIDE DEF W
<1>4. ASSUME NEW i \in DOMAIN Digits
      PROVE  W.b[i] = Column(column[i], keys[to + 1], KeyOf(keys, from), es[i], PtxtSpace,
                             ProductOf(Before(i)), AllPrimes)
  <2>1. Over(column[i], AllPrimes)
    BY SamplesFacts, ColumnsOver
  <2>2. DOMAIN column[i] = AllPrimes
    BY <2>1 DEF Over
  <2>3. W.b[i] = Op("add", RLWE1(c[i], keys[to + 1], es[i]),
                   OpNum("mul", KeyOf(keys, from), DigitScale(i)))
    BY <1>3
  <2> HIDE DEF column
  <2>4. RLWE1(c[i], keys[to + 1], es[i])
          = Op("sub", OpNum("mul", Converted(es[i], AllPrimes), PtxtSpace), Op("mul", column[i], keys[to + 1]))
    BY ONLY Zenon, <1>2, <2>2 DEF RLWE1
  <2>5. DigitScale(i) = ProductOf(Before(i))
    <3>1. i \in 1 .. Len(Digits)
      BY DigitsAre
    <3> QED BY <3>1, DigitScaleIs
  <2> QED BY ONLY Zenon, <2>3, <2>4, <2>5 DEF Column
<1>5. /\ W.prgSeed = seed /\ W.fromKey = from /\ W.toKeyID = to
      /\ W = [fromKey |-> from, toKeyID |-> to, prgSeed |-> seed,
              noiseBound |-> PtxtSpace * ErrorBound, b |-> W.b]
      /\ W.b = [i \in DOMAIN Digits |-> W.b[i]]
  <2>1. \A v, x : [fromKey |-> from, toKeyID |-> to, prgSeed |-> seed, noiseBound |-> v, b |-> x].b = x
    OBVIOUS
  <2> QED BY <1>3
<1>6. ASSUME NEW i \in DOMAIN Digits PROVE W.b[i] \in AllElements
  <2>1. Over(W.b[i], AllPrimes)
    <3>1. PICK x, y, z, v, n : /\ x = column[i] /\ y = keys[to + 1] /\ z = KeyOf(keys, from)
                               /\ v = es[i] /\ n = ProductOf(Before(i))
      OBVIOUS
    <3>2. /\ Over(x, AllPrimes) /\ Over(y, AllPrimes) /\ Over(z, AllPrimes) /\ v \in [Cols -> Int]
          /\ PtxtSpace \in Int /\ n \in Int
      BY <3>1, MatrixParts
    <3>3. W.b[i] = Column(x, y, z, v, PtxtSpace, n, AllPrimes)
      BY <1>4, <3>1
    <3> QED BY ONLY <3>2, <3>3, ColumnOver
  <2> QED BY <2>1, ElementIn DEF Over
<1> HIDE DEF column
<1>7. W \in AllMatrices
  <2>1. W.b \in [DOMAIN Digits -> AllElements]
    BY <1>5, <1>6
  <2> QED BY <1>5, <2>1 DEF AllMatrices
<1>8. IsMatrix(W, keys)
  BY Zenon, <1>4, <1>5, <1>7 DEF IsMatrix, column
<1> QED BY <1>8 DEF W

\* It stays one when keys are added.
LEMMA MatrixStays ==
  ASSUME NEW W, NEW keys, NEW more, IsMatrix(W, keys), Len(keys) \in Nat, Len(more) \in Nat,
         Len(keys) =< Len(more), \A i \in 1 .. Len(keys) : more[i] = keys[i]
  PROVE  IsMatrix(W, more)
<1>1. W.fromKey.id \in Nat /\ W.toKeyID \in Nat
  BY DEF IsMatrix, AllMatrices, Handles
<1>2. W.toKeyID + 1 \in 1 .. Len(keys) /\ W.fromKey.id + 1 \in 1 .. Len(keys)
      /\ W.toKeyID + 1 =< Len(more) /\ W.fromKey.id + 1 =< Len(more)
  BY <1>1 DEF IsMatrix
<1>3. more[W.toKeyID + 1] = keys[W.toKeyID + 1] /\ more[W.fromKey.id + 1] = keys[W.fromKey.id + 1]
  BY <1>2
<1>4. KeyOf(more, W.fromKey) = KeyOf(keys, W.fromKey)
  BY Zenon, <1>3 DEF KeyOf
<1> QED BY Zenon, <1>2, <1>3, <1>4 DEF IsMatrix

\* A matrix satisfies the equation of keySwitching.h.
LEMMA MatrixRight ==
  ASSUME NEW keys, AreKeys(keys), NEW W, IsMatrix(W, keys), NEW i \in DOMAIN Digits,
         NEW a, a = Columns(W.prgSeed, AllPrimes)[i], NEW noise,
         noise = ToPoly(Op("sub", Op("add", W.b[i], Op("mul", a, keys[W.toKeyID + 1])),
                                  OpNum("mul", KeyOf(keys, W.fromKey), ProductOf(Before(i)))),
                        AllPrimes)
  PROVE  Mod(noise, PtxtSpace) = Zero /\ Norm(noise) =< W.noiseBound
<1>1. PICK es \in [DOMAIN Digits -> ErrorSamples] :
        W.b[i] = Column(a, keys[W.toKeyID + 1], KeyOf(keys, W.fromKey), es[i], PtxtSpace,
                        ProductOf(Before(i)), AllPrimes)
  BY Zenon DEF IsMatrix
<1>2. /\ W.fromKey \in Handles /\ W.toKeyID \in Nat /\ W.prgSeed \in 1 .. Seeds
      /\ W.fromKey.id + 1 =< Len(keys) /\ W.toKeyID + 1 =< Len(keys)
      /\ W.noiseBound = PtxtSpace * ErrorBound
  BY DEF IsMatrix, AllMatrices
<1>3. PICK s, key, e, n : /\ s = keys[W.toKeyID + 1] /\ key = KeyOf(keys, W.fromKey) /\ e = es[i]
                          /\ n = ProductOf(Before(i))
  OBVIOUS
<1>4. /\ Over(a, AllPrimes) /\ Over(s, AllPrimes) /\ Over(key, AllPrimes) /\ e \in [Cols -> Int]
      /\ Norm(e) =< ErrorBound /\ PtxtSpace \in Int /\ n \in Int
  BY <1>2, <1>3, MatrixParts
<1>5. noise = ToPoly(OpNum("mul", Converted(e, AllPrimes), PtxtSpace), AllPrimes)
  <2>1. W.b[i] = Column(a, s, key, e, PtxtSpace, n, AllPrimes)
    BY <1>1, <1>3
  <2>2. noise = ToPoly(Op("sub", Op("add", Column(a, s, key, e, PtxtSpace, n, AllPrimes), Op("mul", a, s)),
                                 OpNum("mul", key, n)), AllPrimes)
    BY <1>3, <2>1
  <2>3. Op("sub", Op("add", Column(a, s, key, e, PtxtSpace, n, AllPrimes), Op("mul", a, s)),
                  OpNum("mul", key, n))
          = OpNum("mul", Converted(e, AllPrimes), PtxtSpace)
    BY <1>4, ColumnDifference
  <2> QED BY <2>2, <2>3
<1>6. /\ AllPrimes \in SUBSET Chain /\ PtxtSpace \in Nat /\ ErrorBound \in Nat
      /\ 2 * PtxtSpace * ErrorBound < ProductOf(AllPrimes)
  BY SamplesFacts
<1>7. noise \in [Cols -> Int] /\ \A h \in Cols : noise[h] = PtxtSpace * e[h]
  BY <1>4, <1>5, <1>6, NoiseIs
<1>8. Mod(noise, PtxtSpace) = Zero
  <2>1. PtxtSpace > 1
    BY SamplesAssumption
  <2>2. ASSUME NEW h \in Cols PROVE noise[h] % PtxtSpace = 0
    <3>1. noise[h] = PtxtSpace * e[h] /\ e[h] \in Int
      BY <1>4, <1>7
    <3>2. PICK x : x = e[h]
      OBVIOUS
    <3>3. PtxtSpace \in Positive /\ x \in Int /\ noise[h] \in Int /\ noise[h] = PtxtSpace * x
      BY <1>6, <1>7, <2>1, <3>1, <3>2 DEF Positive
    <3>4. Divides(PtxtSpace, noise[h])
      BY ONLY <3>3 DEF Divides
    <3> QED BY <3>3, <3>4, DividesMod
  <2> QED BY <1>7, <2>2 DEF Mod, Zero
<1>9. Norm(noise) =< PtxtSpace * ErrorBound
  <2>1. Norm(noise) = PtxtSpace * Norm(e)
    BY <1>4, <1>6, <1>7, NormTimes
  <2>2. Norm(e) \in Nat
    BY <1>4, NormFacts
  <2> QED BY <1>4, <1>6, <2>1, <2>2, TimesMonotone
<1> QED BY <1>2, <1>8, <1>9

-----------------------------------------------------------------------------
(* The invariant of the keys.                                              *)

KeysInv ==
  /\ AreKeys(sKeys) /\ keySwitching \in Seq(AllMatrices)
  /\ \A n \in 1 .. Len(keySwitching) : IsMatrix(keySwitching[n], sKeys)

\* It holds without keys and matrices.
LEMMA KeysInit ==
  ASSUME KeyInit
  PROVE  KeysInv
<1>1. sKeys = <<>> /\ keySwitching = <<>>
  BY DEF KeyInit
<1> QED BY <1>1, EmptySeq DEF KeysInv, AreKeys

\* Matrices that are right are what MatricesRight asks for.
LEMMA MatricesFollow ==
  ASSUME KeysInv
  PROVE  MatricesRight
<1>1. /\ DOMAIN sKeys = 1 .. Len(sKeys) /\ DOMAIN keySwitching = 1 .. Len(keySwitching)
  BY LenProperties DEF KeysInv, AreKeys
<1>3. \A d : Over(d, AllPrimes) => IsElement(d) /\ DOMAIN d = AllPrimes
  BY DEF Over, Element
<1>4. ASSUME NEW n \in DOMAIN keySwitching, NEW i \in DOMAIN Digits
      PROVE  Over(keySwitching[n].b[i], AllPrimes)
  <2>1. PICK W : W = keySwitching[n]
    OBVIOUS
  <2>2. IsMatrix(W, sKeys) /\ AreKeys(sKeys)
    BY <1>1, <2>1 DEF KeysInv
  <2>3. PICK es \in [DOMAIN Digits -> ErrorSamples] :
          W.b[i] = Column(Columns(W.prgSeed, AllPrimes)[i], sKeys[W.toKeyID + 1],
                          KeyOf(sKeys, W.fromKey), es[i], PtxtSpace, ProductOf(Before(i)), AllPrimes)
    BY Zenon, <2>2 DEF IsMatrix
  <2>4. PICK a, s, key, e, k : /\ a = Columns(W.prgSeed, AllPrimes)[i] /\ s = sKeys[W.toKeyID + 1]
                               /\ key = KeyOf(sKeys, W.fromKey) /\ e = es[i] /\ k = ProductOf(Before(i))
    OBVIOUS
  <2>5. /\ Over(a, AllPrimes) /\ Over(s, AllPrimes) /\ Over(key, AllPrimes) /\ e \in [Cols -> Int]
        /\ PtxtSpace \in Int /\ k \in Int
    <3>1. /\ W.fromKey \in Handles /\ W.toKeyID \in Nat /\ W.prgSeed \in 1 .. Seeds
          /\ W.fromKey.id + 1 =< Len(sKeys) /\ W.toKeyID + 1 =< Len(sKeys)
      BY <2>2 DEF IsMatrix, AllMatrices
    <3> QED BY <2>2, <2>4, <3>1, MatrixParts
  <2>6. W.b[i] = Column(a, s, key, e, PtxtSpace, k, AllPrimes)
    BY <2>3, <2>4
  <2> QED BY <2>1, <2>5, <2>6, ColumnOver
<1>5. KeysTypeOK
  <2>1. \A i \in DOMAIN sKeys : Over(sKeys[i], AllPrimes)
    BY <1>1 DEF KeysInv, AreKeys
  <2> QED BY Zenon, <1>3, <1>4, <2>1 DEF KeysTypeOK
<1> DEFINE Difference(n, i) ==
             Op("sub", Op("add", keySwitching[n].b[i],
                          Op("mul", Columns(keySwitching[n].prgSeed, AllPrimes)[i],
                             sKeys[keySwitching[n].toKeyID + 1])),
                       OpNum("mul", KeyOf(sKeys, keySwitching[n].fromKey), ProductOf(Before(i))))
           Stated(n, i) ==
             Op("sub", Op("add", keySwitching[n].b[i],
                               Op("mul", MatrixColumns[keySwitching[n].prgSeed][i],
                                  sKeys[keySwitching[n].toKeyID + 1])),
                            OpNum("mul", KeyOf(sKeys, keySwitching[n].fromKey),
                               ProductOf(SpecialPrimes \cup UNION {Digits[k] : k \in 1 .. i - 1})))
           Noise(n, i) == ToPoly(Difference(n, i), AllPrimes)
           StatedNoise(n, i) == ToPoly(Stated(n, i), AllPrimes)
<1>6. ASSUME NEW n \in DOMAIN keySwitching, NEW i \in DOMAIN Digits
      PROVE  /\ Mod(Noise(n, i), PtxtSpace) = Zero
             /\ Norm(Noise(n, i)) =< keySwitching[n].noiseBound
  <2>1. PICK W : W = keySwitching[n]
    OBVIOUS
  <2>2. IsMatrix(W, sKeys) /\ AreKeys(sKeys)
    BY <1>1, <2>1 DEF KeysInv
  <2> QED BY <2>1, <2>2, MatrixRight
<1>7. ASSUME NEW n \in DOMAIN keySwitching, NEW i \in DOMAIN Digits
      PROVE  StatedNoise(n, i) = Noise(n, i)
  <2>1. MatrixColumns[keySwitching[n].prgSeed] = Columns(keySwitching[n].prgSeed, AllPrimes)
    <3>1. keySwitching[n].prgSeed \in DOMAIN Stream
      <4>1. IsMatrix(keySwitching[n], sKeys)
        BY <1>1 DEF KeysInv
      <4>2. keySwitching[n].prgSeed \in 1 .. Seeds
        BY <4>1 DEF IsMatrix, AllMatrices
      <4> QED BY <4>2, SamplesFacts
    <3> QED BY Zenon, <3>1 DEF MatrixColumns
  <2> QED BY ONLY Zenon, <2>1 DEF Before
<1> HIDE DEF Difference, Noise
<1>8. ASSUME NEW n \in DOMAIN keySwitching, NEW i \in DOMAIN Digits
      PROVE  /\ Mod(StatedNoise(n, i), PtxtSpace) = Zero
             /\ Norm(StatedNoise(n, i)) =< keySwitching[n].noiseBound
  <2> HIDE DEF StatedNoise
  <2> QED BY Zenon, <1>6, <1>7
<1> QED BY Zenon, <1>5, <1>8 DEF MatricesRight

\* GenSecKey and ImportSecKey append a key, and the matrices of its powers.
LEMMA KeysNewSecKey ==
  ASSUME KeysInv, NewSecKey
  PROVE  KeysInv'
<1>1. PICK s \in KeySamples[Len(sKeys) + 1], es \in Errors :
        /\ sKeys' = Append(sKeys, Converted(s, AllPrimes))
        /\ keySwitching' = keySwitching \o [n \in 1 .. MaxDegKswitch - 1 |->
             Matrix(Append(sKeys, Converted(s, AllPrimes)), Handle(n + 1, 1, Len(sKeys)),
                         Len(sKeys), Len(keySwitching) + n, es)]
  BY Zenon DEF NewSecKey
<1>2. Len(sKeys) < MaxKeys /\ Len(keySwitching) + MaxDegKswitch - 1 =< Seeds
  BY DEF NewSecKey
<1>3. /\ Len(sKeys) \in Nat /\ Len(keySwitching) \in Nat /\ sKeys \in Seq(AllElements)
      /\ keySwitching \in Seq(AllMatrices) /\ AreKeys(sKeys)
  BY LenProperties DEF KeysInv, AreKeys
<1>4. PICK key, keys : key = Converted(s, AllPrimes) /\ keys = Append(sKeys, key)
  OBVIOUS
<1>5. Over(key, AllPrimes) /\ key \in AllElements
  <2>3. Len(sKeys) + 1 \in 1 .. MaxKeys
    BY <1>2, <1>3, SamplesFacts
  <2>4. s \in [Cols -> Int] /\ AllPrimes \in SUBSET Chain
    BY <2>3, SamplesFacts
  <2>5. Over(key, AllPrimes)
    BY <1>4, <2>4, ConvertedOver
  <2> QED BY <2>5, ElementIn DEF Over
<1>6. /\ keys \in Seq(AllElements) /\ Len(keys) = Len(sKeys) + 1
      /\ \A i \in 1 .. Len(sKeys) : keys[i] = sKeys[i]
      /\ keys[Len(sKeys) + 1] = key
  BY <1>3, <1>4, <1>5, AppendProperties
<1>7. AreKeys(keys)
  <2>1. ASSUME NEW i \in 1 .. Len(keys) PROVE Over(keys[i], AllPrimes)
    <3>1. i \in 1 .. Len(sKeys) \/ i = Len(sKeys) + 1
      BY <1>3, <1>6
    <3> QED BY <1>3, <1>5, <1>6, <3>1 DEF AreKeys
  <2> QED BY <1>6, <2>1 DEF AreKeys
<1> DEFINE W(n) == Matrix(keys, Handle(n + 1, 1, Len(sKeys)), Len(sKeys), Len(keySwitching) + n, es)
           more == [n \in 1 .. MaxDegKswitch - 1 |-> W(n)]
<1>8. keySwitching' = keySwitching \o more /\ sKeys' = keys
  BY <1>1, <1>4
<1>9. ASSUME NEW n \in 1 .. MaxDegKswitch - 1 PROVE IsMatrix(W(n), keys)
  <2>1. /\ MaxDegKswitch \in Nat /\ Seeds \in Nat /\ n \in Nat
    BY SamplesFacts
  <2>2. PICK h : h = Handle(n + 1, 1, Len(sKeys))
    OBVIOUS
  <2>3. h \in Handles /\ h.id = Len(sKeys)
    BY <1>3, <2>1, <2>2 DEF Handle, Handles
  <2>4. Len(keySwitching) + n \in 1 .. Seeds
    BY <1>2, <1>3, <2>1
  <2>5. es \in [DOMAIN Digits -> ErrorSamples]
    BY DEF Errors
  <2>6. h.id + 1 =< Len(keys) /\ Len(sKeys) + 1 =< Len(keys)
    BY <1>3, <1>6, <2>3
  <2> QED BY <1>3, <1>7, <2>2, <2>3, <2>4, <2>5, <2>6, MatrixIs
<1> HIDE DEF W
<1>10. MaxDegKswitch - 1 \in Nat
  BY SamplesFacts
<1>11. more \in Seq(AllMatrices) /\ Len(more) = MaxDegKswitch - 1
  <2>1. \A n \in 1 .. MaxDegKswitch - 1 : W(n) \in AllMatrices
    BY <1>9 DEF IsMatrix
  <2> QED BY <1>10, <2>1
<1>12. \A n \in 1 .. Len(more) : IsMatrix(more[n], keys)
  BY <1>9, <1>11
<1> HIDE DEF more
<1>13. /\ keySwitching \o more \in Seq(AllMatrices)
       /\ Len(keySwitching \o more) = Len(keySwitching) + Len(more)
       /\ \A i \in 1 .. Len(keySwitching) + Len(more) :
            (keySwitching \o more)[i] = IF i <= Len(keySwitching) THEN keySwitching[i]
                                        ELSE more[i - Len(keySwitching)]
  BY <1>3, <1>11, ConcatProperties
<1>14. ASSUME NEW n \in 1 .. Len(keySwitching) + Len(more) PROVE IsMatrix((keySwitching \o more)[n], keys)
  <2>1. CASE n =< Len(keySwitching)
    <3>1. n \in 1 .. Len(keySwitching)
      BY <1>3, <1>10, <1>11, <2>1
    <3>2. IsMatrix(keySwitching[n], sKeys)
      BY <3>1 DEF KeysInv
    <3>3. (keySwitching \o more)[n] = keySwitching[n]
      BY <1>13, <2>1
    <3> QED BY <1>3, <1>6, <3>2, <3>3, MatrixStays
  <2>2. CASE ~ (n =< Len(keySwitching))
    <3>1. n - Len(keySwitching) \in 1 .. Len(more)
      BY <1>3, <1>10, <1>11, <2>2
    <3> QED BY <1>12, <1>13, <2>2, <3>1
  <2> QED BY <2>1, <2>2
<1> QED BY <1>7, <1>8, <1>13, <1>14 DEF KeysInv

\* GenKeySWmatrix appends one matrix.
LEMMA KeysGenKeySWmatrix ==
  ASSUME KeysInv, NEW x \in XPowers \cup {1}, NEW from \in KeyIds, NEW to \in KeyIds,
         GenKeySWmatrix(x, from, to)
  PROVE  KeysInv'
<1>1. PICK es \in Errors :
        keySwitching' = Append(keySwitching,
          Matrix(sKeys, Handle(1, x, from), to, Len(keySwitching) + 1, es))
  BY Zenon DEF GenKeySWmatrix
<1>2. Len(keySwitching) < Seeds /\ sKeys' = sKeys
  BY DEF GenKeySWmatrix
<1>3. /\ Len(sKeys) \in Nat /\ Len(keySwitching) \in Nat /\ AreKeys(sKeys)
      /\ keySwitching \in Seq(AllMatrices)
  BY LenProperties DEF KeysInv, AreKeys
<1>4. from \in Nat /\ from + 1 =< Len(sKeys) /\ to \in Nat /\ to + 1 =< Len(sKeys)
  BY <1>3 DEF KeyIds
<1>5. PICK h, W : /\ h = Handle(1, x, from)
                  /\ W = Matrix(sKeys, h, to, Len(keySwitching) + 1, es)
  OBVIOUS
<1>6. h \in Handles /\ h.id = from
  <2>1. x \in ZMStar \cup {1}
    BY SamplesFacts
  <2> QED BY <1>4, <1>5, <2>1 DEF Handle, Handles
<1>7. IsMatrix(W, sKeys)
  <2>1. Len(keySwitching) + 1 \in 1 .. Seeds
    BY <1>2, <1>3, SamplesFacts
  <2>2. es \in [DOMAIN Digits -> ErrorSamples]
    BY DEF Errors
  <2> QED BY <1>3, <1>4, <1>5, <1>6, <2>1, <2>2, MatrixIs
<1>8. W \in AllMatrices
  BY <1>7 DEF IsMatrix
<1>9. /\ keySwitching' \in Seq(AllMatrices) /\ Len(keySwitching') = Len(keySwitching) + 1
      /\ \A i \in 1 .. Len(keySwitching) : keySwitching'[i] = keySwitching[i]
      /\ keySwitching'[Len(keySwitching) + 1] = W
  BY <1>1, <1>3, <1>5, <1>8, AppendProperties
<1>10. ASSUME NEW n \in 1 .. Len(keySwitching) + 1 PROVE IsMatrix(keySwitching'[n], sKeys)
  <2>1. n \in 1 .. Len(keySwitching) \/ n = Len(keySwitching) + 1
    BY <1>3
  <2> QED BY <1>7, <1>9, <2>1 DEF KeysInv
<1> QED BY <1>2, <1>3, <1>9, <1>10 DEF KeysInv

\* Every step keeps the invariant.
LEMMA KeysNext ==
  ASSUME KeysInv, [KeyNext]_keyVars
  PROVE  KeysInv'
<1>1. CASE NewSecKey
  BY <1>1, KeysNewSecKey
<1>2. CASE \E x \in XPowers \cup {1}, from, to \in KeyIds : GenKeySWmatrix(x, from, to)
  BY <1>2, KeysGenKeySWmatrix
<1>3. CASE UNCHANGED keyVars
  BY <1>3 DEF keyVars, KeysInv, AreKeys, IsMatrix, KeyOf
<1> QED BY <1>1, <1>2, <1>3 DEF KeyNext

\* Whatever keys and errors are sampled, and whatever matrices are generated (GenSecKey,
\* GenKeySWmatrix): a matrix is the one of its keys, made of a short error, modulo all the
\* primes, and the columns made again from its seed are those it was made with.
THEOREM MatricesAlwaysRight == KeySpec => []MatricesRight
<1>1. KeyInit => KeysInv
  BY KeysInit
<1>2. KeysInv /\ [KeyNext]_keyVars => KeysInv'
  BY KeysNext
<1>3. KeysInv => MatricesRight
  BY MatricesFollow
<1> QED BY <1>1, <1>2, <1>3, PTL DEF KeySpec
=============================================================================
