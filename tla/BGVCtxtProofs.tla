--------------------------- MODULE BGVCtxtProofs ---------------------------
(***************************************************************************)
(* Proofs about BGVCtxt, for every prime p and power r, all chains of      *)
(* primes other than p, and all plaintexts, errors and constants.          *)
(***************************************************************************)
EXTENDS BGVCtxt, ArithmeticProofs, FiniteSetTheorems

-----------------------------------------------------------------------------
(* The powers of a prime. *)

LEMMA PowersAreDefined ==
  ASSUME NEW p \in Nat
  PROVE  /\ PowersOf(p) \in [Nat -> Nat] /\ PowersOf(p)[0] = 1
         /\ \A i \in Nat : PowersOf(p)[i + 1] = PowersOf(p)[i] * p
<1> DEFINE step == [n \in Nat |-> n * p]
           Is(f) == f = [i \in Nat |-> IF i = 0 THEN 1 ELSE f[i - 1] * p]
<1>1. step \in [Nat -> Nat]
  BY IntRing
<1>2. PICK f \in [Nat -> Nat] : f[0] = 1 /\ \A n \in Nat : f[n + 1] = step[f[n]]
  <2>1. 1 \in Nat
    OBVIOUS
  <2> HIDE DEF step
  <2>2. PICK f : IsIteration(f, Nat, 1, step)
    BY <1>1, <2>1, Recursion
  <2> QED BY <2>2 DEF IsIteration
<1>3. Is(f)
  <2>1. ASSUME NEW i \in Nat, i # 0 PROVE f[i] = f[i - 1] * p
    <3>1. i - 1 \in Nat /\ (i - 1) + 1 = i
      BY <2>1
    <3> QED BY <1>2, <2>1, <3>1
  <2>2. f = [i \in Nat |-> f[i]] /\ f[0] = 1
    BY <1>2
  <2> QED BY <2>1, <2>2
<1>4. PowersOf(p) = CHOOSE g : Is(g)
  BY DEF PowersOf
<1>5. Is(PowersOf(p))
  BY <1>3, <1>4
<1> DEFINE g == PowersOf(p)
<1>6. g = [i \in Nat |-> IF i = 0 THEN 1 ELSE g[i - 1] * p]
  BY <1>5
<1> HIDE DEF g, Is, step
<1>7. g[0] = 1
  BY <1>6
<1>8. ASSUME NEW i \in Nat PROVE g[i + 1] = g[i] * p
  <2>1. i + 1 \in Nat /\ i + 1 # 0 /\ (i + 1) - 1 = i
    OBVIOUS
  <2> QED BY <1>6, <2>1
<1>9. ASSUME NEW i \in Nat PROVE g[i] \in Nat
  <2> DEFINE S == {j \in Nat : g[j] \in Nat}
  <2>1. 0 \in S
    BY <1>7
  <2>2. ASSUME NEW j \in Nat, j \in S PROVE j + 1 \in S
    BY <1>8, <2>2, IntRing
  <2> HIDE DEF S
  <2>3. Nat \subseteq S
    BY <2>1, <2>2, Induction
  <2> QED BY <2>3 DEF S
<1>10. g \in [Nat -> Nat]
  BY <1>6, <1>9
<1> QED BY <1>7, <1>8, <1>10 DEF g

LEMMA PowerDivides ==
  ASSUME NEW p \in Nat, NEW i \in Nat, NEW j \in Nat, i =< j
  PROVE  Divides(PowersOf(p)[i], PowersOf(p)[j])
<1> DEFINE g == PowersOf(p)
           S == {k \in Nat : Divides(g[i], g[i + k])}
<1>1. g \in [Nat -> Nat] /\ \A k \in Nat : g[k + 1] = g[k] * p
  BY PowersAreDefined
<1> HIDE DEF g
<1>2. 0 \in S
  <2>1. i + 0 = i /\ g[i] \in Int
    BY <1>1
  <2> QED BY <2>1, DividesBasics
<1>3. ASSUME NEW k \in Nat, k \in S PROVE k + 1 \in S
  <2>1. i + k \in Nat /\ i + (k + 1) = (i + k) + 1
    OBVIOUS
  <2>2. Divides(g[i], g[i + k] * p)
    <3>1. g[i] \in Int /\ g[i + k] \in Int /\ p \in Int
      BY <1>1, <2>1
    <3> QED BY <1>3, <3>1, DividesTimes
  <2> QED BY <1>1, <2>1, <2>2
<1> HIDE DEF S
<1>4. j - i \in S
  BY <1>2, <1>3, Induction
<1>5. i + (j - i) = j
  OBVIOUS
<1> QED BY <1>4, <1>5 DEF S, g

LEMMA PowerPositive ==
  ASSUME NEW p \in Nat, p > 1, NEW i \in Nat
  PROVE  PowersOf(p)[i] \in Positive
<1> DEFINE g == PowersOf(p)
           S == {k \in Nat : g[k] > 0}
<1>1. g[0] = 1 /\ \A k \in Nat : g[k] \in Nat /\ g[k + 1] = g[k] * p
  BY PowersAreDefined
<1> HIDE DEF g
<1>2. 0 \in S
  BY <1>1
<1>3. ASSUME NEW k \in Nat, k \in S PROVE k + 1 \in S
  <2>1. g[k] * p > 0
    BY <1>1, <1>3
  <2> QED BY <1>1, <2>1
<1> HIDE DEF S
<1>4. i \in S
  BY <1>2, <1>3, Induction
<1> QED BY <1>1, <1>4 DEF S, g, Positive

LEMMA PowerAbove ==
  ASSUME NEW p \in Nat, p > 1, NEW i \in Nat, i # 0
  PROVE  PowersOf(p)[i] >= p /\ Divides(p, PowersOf(p)[i])
<1> DEFINE g == PowersOf(p)
<1>1. i - 1 \in Nat /\ (i - 1) + 1 = i
  OBVIOUS
<1>2. g[i] = g[i - 1] * p
  BY <1>1, PowersAreDefined
<1>3. g[i - 1] \in Nat /\ g[i - 1] >= 1
  BY <1>1, PowerPositive DEF Positive
<1> HIDE DEF g
<1>4. g[i - 1] * p >= p
  BY <1>3
<1>5. Divides(p, g[i - 1] * p)
  <2>1. g[i - 1] \in Int /\ p \in Int
    BY <1>3
  <2>2. Divides(p, p)
    BY <2>1, DividesBasics
  <2> QED BY <2>1, <2>2, DividesTimes
<1> QED BY <1>2, <1>4, <1>5 DEF g

\* What divides a power of a prime is 1 or a multiple of the prime.
LEMMA DivisorOfPower ==
  ASSUME NEW p \in Nat, IsPrime(p), NEW i \in Nat, NEW d \in Nat, d > 1,
         Divides(d, PowersOf(p)[i])
  PROVE  Divides(p, d)
<1> DEFINE g == PowersOf(p)
           S == {k \in Nat : Divides(d, g[k]) => Divides(p, d)}
<1>1. g[0] = 1 /\ \A k \in Nat : g[k] \in Nat /\ g[k + 1] = g[k] * p
  BY PowersAreDefined
<1> HIDE DEF g
<1>2. 0 \in S
  <2>1. ~ Divides(d, 1)
    BY DivisorBound DEF Positive
  <2> QED BY <1>1, <2>1
<1>3. ASSUME NEW k \in Nat, k \in S PROVE k + 1 \in S
  <2>1. SUFFICES ASSUME Divides(d, g[k] * p) PROVE Divides(p, d)
    BY <1>1
  <2>2. PICK m \in Int : g[k] * p = d * m
    BY <2>1 DEF Divides
  <2>3. g[k] \in Int /\ p \in Int /\ d \in Int /\ p > 0
    BY <1>1 DEF IsPrime
  <2>4. Divides(p, g[k] * p)
    BY <2>3, DividesBasics, DividesTimes
  <2>5. Divides(p, d) \/ Divides(p, m)
    BY <2>2, <2>3, <2>4, EuclidsLemma
  <2>6. ASSUME Divides(p, m) PROVE Divides(p, d)
    <3>1. PICK l \in Int : m = p * l
      BY <2>6 DEF Divides
    <3>2. g[k] * p = (d * l) * p
      <4>1. d * (p * l) = (d * p) * l /\ d * p = p * d /\ (p * d) * l = p * (d * l)
        BY <2>3, IntRing
      <4>2. p * (d * l) = (d * l) * p /\ d * l \in Int
        BY <2>3, IntRing
      <4> QED BY <2>2, <3>1, <4>1, <4>2
    <3>3. g[k] = d * l
      <4>1. d * l \in Int
        BY <2>3, IntRing
      <4>2. (g[k] - d * l) * p = 0
        BY <2>3, <3>2, <4>1, IntRing
      <4> HIDE DEF IsPrime
      <4>3. ASSUME NEW e \in Int, e * p = 0, e # 0 PROVE FALSE
        <5>1. ASSUME e >= 1 PROVE FALSE
          <6>1. e * p >= p
            BY <2>3, <5>1
          <6> QED BY <2>3, <4>3, <6>1
        <5>2. ASSUME e =< -1 PROVE FALSE
          <6>1. e * p =< -p
            BY <2>3, <5>2
          <6> QED BY <2>3, <4>3, <6>1
        <5> QED BY <4>3, <5>1, <5>2
      <4>4. g[k] - d * l \in Int
        BY <2>3, <4>1
      <4>5. g[k] - d * l = 0
        BY <4>2, <4>3, <4>4
      <4> QED BY <2>3, <4>1, <4>5
    <3> QED BY <1>3, <3>3 DEF Divides
  <2> QED BY <2>5, <2>6
<1> HIDE DEF S
<1>4. i \in S
  BY <1>2, <1>3, Induction
<1> QED BY <1>4 DEF S, g

\* The units modulo a power of a prime are the numbers the prime does not divide.
LEMMA UnitsOfPower ==
  ASSUME NEW p \in Nat, IsPrime(p), NEW i \in Nat, i # 0, NEW a \in Int
  PROVE  Unit(a, PowersOf(p)[i]) <=> ~ Divides(p, a)
<1> DEFINE n == PowersOf(p)[i]
<1>1. p > 1 /\ n \in Positive /\ n \in Int /\ Divides(p, n)
  <2>1. p > 1
    BY DEF IsPrime
  <2> QED BY <2>1, PowerPositive, PowerAbove DEF Positive
<1>2. ASSUME NEW d \in 1 .. n, Divides(d, a), Divides(d, n), d # 1 PROVE Divides(p, a)
  <2>1. d \in Nat /\ d > 1 /\ d \in Int /\ p \in Int
    BY <1>1, <1>2
  <2>2. Divides(p, d)
    BY <1>2, <2>1, DivisorOfPower
  <2> QED BY <1>2, <2>1, <2>2, DividesTrans
<1> HIDE DEF n
<1>3. ASSUME ~ Divides(p, a) PROVE Unit(a, n)
  BY <1>1, <1>2, <1>3, UnitExists
<1>4. ASSUME Unit(a, n), Divides(p, a) PROVE FALSE
  BY <1>1, <1>4, UnitHasNoDivisor
<1> QED BY <1>3, <1>4 DEF n

-----------------------------------------------------------------------------
(* The numbers of the model: greatest common divisors, inverses, balanced  *)
(* residues.                                                               *)

LEMMA GCDFacts ==
  ASSUME NEW a \in Int, NEW b \in Positive
  PROVE  /\ GCD(a, b) \in 1 .. b /\ Divides(GCD(a, b), a) /\ Divides(GCD(a, b), b)
         /\ \A e \in 1 .. b : Divides(e, a) /\ Divides(e, b) => e =< GCD(a, b)
<1> DEFINE Both(d) == a % d = 0 /\ b % d = 0
           S == {k \in Nat : k < b /\ Both(b - k)}
<1>1. b \in Int /\ b > 0 /\ 1 .. b \subseteq Positive
  BY DEF Positive
<1>2. \A d \in 1 .. b : Both(d) <=> Divides(d, a) /\ Divides(d, b)
  BY <1>1, DividesMod
<1>3. b - 1 \in S
  <2>1. Divides(1, a) /\ Divides(1, b) /\ 1 \in 1 .. b /\ b - (b - 1) = 1
    BY <1>1, DividesBasics
  <2>2. Both(b - (b - 1))
    BY <1>2, <2>1
  <2> QED BY <1>1, <2>2
<1>4. PICK k \in S : \A j \in S : k =< j
  <2>1. S \in SUBSET Nat /\ S # {}
    BY <1>3
  <2> QED BY <2>1, LeastMember
<1>5. b - k \in 1 .. b /\ Both(b - k)
  BY <1>1
<1>6. ASSUME NEW e \in 1 .. b, Both(e) PROVE e =< b - k
  <2>1. b - e \in Nat /\ b - e < b /\ b - (b - e) = e
    BY <1>1
  <2>2. b - e \in S
    BY <1>6, <2>1
  <2>3. k =< b - e
    BY <1>4, <2>2
  <2> QED BY <1>1, <2>3
<1> HIDE DEF S
<1>7. GCD(a, b) \in 1 .. b /\ Both(GCD(a, b)) /\ \A e \in 1 .. b : Both(e) => e =< GCD(a, b)
  BY <1>5, <1>6 DEF GCD
<1> QED BY <1>2, <1>7

LEMMA CoprimeIsUnit ==
  ASSUME NEW a \in Int, NEW n \in Positive
  PROVE  Coprime(a, n) <=> Unit(a, n)
<1> DEFINE g == GCD(a, n)
<1>1. /\ g \in 1 .. n /\ Divides(g, a) /\ Divides(g, n)
      /\ \A e \in 1 .. n : Divides(e, a) /\ Divides(e, n) => e =< g
  BY GCDFacts
<1>2. n \in Int /\ g \in Nat
  BY <1>1 DEF Positive
<1> HIDE DEF g
<1>3. ASSUME g = 1 PROVE Unit(a, n)
  <2>1. \A d \in 1 .. n : Divides(d, a) /\ Divides(d, n) => d = 1
    BY <1>1, <1>3
  <2> QED BY <2>1, UnitExists
<1>4. ASSUME Unit(a, n) PROVE g = 1
  BY <1>1, <1>2, <1>4, UnitHasNoDivisor
<1> QED BY <1>3, <1>4 DEF Coprime, g

LEMMA GCDOfMultiple ==
  ASSUME NEW d \in Positive, NEW m \in Positive, Divides(d, m)
  PROVE  GCD(d, m) = d /\ GCD(m, d) = d
<1>1. d \in Nat /\ m \in Nat /\ d \in Int /\ m \in Int /\ d > 0
  BY DEF Positive
<1>2. d \in 1 .. m /\ d \in 1 .. d /\ Divides(d, d)
  BY <1>1, DivisorBound, DividesBasics
<1>3. GCD(d, m) \in 1 .. m /\ Divides(GCD(d, m), d) /\ d =< GCD(d, m)
  BY <1>1, <1>2, GCDFacts
<1>4. GCD(m, d) \in 1 .. d /\ d =< GCD(m, d)
  BY <1>1, <1>2, GCDFacts
<1>5. GCD(d, m) \in 1 .. d
  <2>1. GCD(d, m) \in Nat
    BY <1>3
  <2> QED BY <1>3, <2>1, DivisorBound
<1> QED BY <1>1, <1>3, <1>4, <1>5

LEMMA InvModFacts ==
  ASSUME NEW a \in Int, NEW n \in Positive, Unit(a, n)
  PROVE  InvMod(a, n) \in 0 .. n - 1 /\ Cong(a * InvMod(a, n), 1, n)
<1>1. PICK u \in Int : Cong(u * a, 1, n)
  BY DEF Unit
<1> DEFINE b == u % n
<1>2. b \in 0 .. n - 1 /\ Cong(b, u, n) /\ b \in Int /\ n \in Int
  <2>1. b \in 0 .. n - 1 /\ Cong(b, u, n)
    BY DivMod, CongMod
  <2> QED BY <2>1 DEF Positive
<1> HIDE DEF b
<1>3. a * b \in Int /\ a * u \in Int /\ a * u = u * a
  BY <1>2, IntRing
<1>4. Cong(a * b, a * u, n)
  BY <1>2, CongTimesOne
<1>5. Cong(a * b, 1, n)
  BY <1>1, <1>2, <1>3, <1>4, CongTrans
<1>6. (a * b) % n = 1 % n
  BY <1>3, <1>5, CongIffMod
<1>7. InvMod(a, n) \in 0 .. n - 1 /\ (a * InvMod(a, n)) % n = 1 % n
  BY <1>2, <1>6 DEF InvMod
<1>8. a * InvMod(a, n) \in Int
  BY <1>2, <1>7, IntRing
<1> QED BY <1>7, <1>8, CongIffMod

LEMMA BalRemFacts ==
  ASSUME NEW n \in Positive, NEW a \in 0 .. n - 1
  PROVE  /\ BalRem(a, n) \in Int /\ Cong(BalRem(a, n), a, n)
         /\ 2 * Abs(BalRem(a, n)) =< n /\ Abs(BalRem(a, n)) \in Nat
<1>1. n \in Int /\ a \in Int /\ n > 0
  BY DEF Positive
<1>2. CASE a > n \div 2
  <2>1. BalRem(a, n) = a - n
    BY <1>2 DEF BalRem
  <2>2. Cong(a - n, a - 0, n)
    <3>1. Cong(a, a, n) /\ Cong(n, 0, n)
      BY <1>1, CongRefl, CongZero, DividesBasics
    <3> QED BY <1>1, <3>1, CongPlus
  <2>3. a - 0 = a
    BY <1>1
  <2>4. 2 * Abs(a - n) =< n /\ Abs(a - n) \in Nat
    BY <1>1, <1>2 DEF Abs
  <2> QED BY <1>1, <2>1, <2>2, <2>3, <2>4
<1>3. CASE ~ (a > n \div 2)
  <2>1. BalRem(a, n) = a
    BY <1>3 DEF BalRem
  <2>2. 2 * Abs(a) =< n /\ Abs(a) \in Nat
    BY <1>1, <1>3 DEF Abs
  <2> QED BY <1>1, <2>1, <2>2, CongRefl
<1> QED BY <1>2, <1>3

-----------------------------------------------------------------------------
(* The plaintext spaces of a context: the powers of its prime.             *)

LEMMA ContextFacts ==
  ASSUME context \in Params
  PROVE  P \in Nat /\ P > 1 /\ IsPrime(P) /\ context[2] \in Nat \ {0}
BY NumbersAssumption, PrimesAssumption DEF P, IsPrime

LEMMA SpaceFacts ==
  ASSUME context \in Params, NEW n \in PtxtSpaces
  PROVE  /\ n \in Positive /\ n \in Nat /\ n \in Int /\ n > 1 /\ n >= P /\ Divides(P, n)
         /\ \A a \in Int : Unit(a, n) <=> ~ Divides(P, a)
<1>1. P \in Nat /\ P > 1 /\ IsPrime(P) /\ context[2] \in Nat
  BY ContextFacts
<1>2. PICK i \in 1 .. context[2] : n = PowersOf(P)[i]
  BY DEF PtxtSpaces
<1>3. i \in Nat /\ i # 0
  BY <1>1, <1>2
<1>4. n \in Positive /\ n >= P /\ Divides(P, n)
  BY <1>1, <1>2, <1>3, PowerPositive, PowerAbove
<1>5. \A a \in Int : Unit(a, n) <=> ~ Divides(P, a)
  BY <1>1, <1>2, <1>3, UnitsOfPower
<1> QED BY <1>1, <1>4, <1>5 DEF Positive

LEMMA SpacesAreAChain ==
  ASSUME context \in Params, NEW n \in PtxtSpaces, NEW m \in PtxtSpaces
  PROVE  Divides(n, m) \/ Divides(m, n)
<1>1. PICK i \in 1 .. context[2] : n = PowersOf(P)[i]
  BY DEF PtxtSpaces
<1>2. PICK j \in 1 .. context[2] : m = PowersOf(P)[j]
  BY DEF PtxtSpaces
<1>3. P \in Nat /\ i \in Nat /\ j \in Nat /\ (i =< j \/ j =< i)
  BY ContextFacts
<1> QED BY <1>1, <1>2, <1>3, PowerDivides

LEMMA CommonSpace ==
  ASSUME context \in Params, NEW n \in PtxtSpaces, NEW m \in PtxtSpaces
  PROVE  /\ GCD(n, m) \in PtxtSpaces /\ GCD(n, m) = GCD(m, n)
         /\ Divides(GCD(n, m), n) /\ Divides(GCD(n, m), m)
<1>1. n \in Positive /\ m \in Positive /\ n \in Int /\ m \in Int
  BY SpaceFacts
<1>2. Divides(n, n) /\ Divides(m, m)
  BY <1>1, DividesBasics
<1>3. CASE Divides(n, m)
  BY <1>1, <1>2, <1>3, GCDOfMultiple
<1>4. CASE Divides(m, n)
  BY <1>1, <1>2, <1>4, GCDOfMultiple
<1> QED BY <1>3, <1>4, SpacesAreAChain

LEMMA SpaceByP ==
  ASSUME context \in Params, NEW n \in PtxtSpaces, n > P
  PROVE  n \div P \in PtxtSpaces /\ n = (n \div P) * P
<1>1. P \in Nat /\ P > 1 /\ context[2] \in Nat
  BY ContextFacts
<1>2. PICK i \in 1 .. context[2] : n = PowersOf(P)[i]
  BY DEF PtxtSpaces
<1>3. i - 1 \in Nat /\ (i - 1) + 1 = i
  BY <1>1, <1>2
<1> DEFINE l == PowersOf(P)[i - 1]
<1>4. n = l * P /\ l \in Nat
  BY <1>1, <1>2, <1>3, PowersAreDefined
<1>5. i # 1
  <2>1. PowersOf(P)[0] = 1
    BY <1>1, PowersAreDefined
  <2> QED BY <1>1, <1>4, <2>1
<1>6. l \in PtxtSpaces
  BY <1>1, <1>3, <1>5 DEF PtxtSpaces
<1> HIDE DEF l
<1>7. n \div P = l
  BY <1>1, <1>4
<1> QED BY <1>4, <1>6, <1>7

\* The unit residues modulo a plaintext space are those of the units.
LEMMA ResidueOfUnit ==
  ASSUME context \in Params, NEW n \in PtxtSpaces, NEW a \in Int
  PROVE  Divides(P, a % n) <=> Divides(P, a)
<1>1. n \in Positive /\ n \in Int /\ \A b \in Int : Unit(b, n) <=> ~ Divides(P, b)
  BY SpaceFacts
<1>2. a % n \in Int
  BY <1>1, DivMod
<1>3. Cong(a, a % n, n) /\ Cong(a % n, a, n)
  BY <1>1, CongMod
<1>4. Unit(a, n) <=> Unit(a % n, n)
  BY <1>1, <1>2, <1>3, UnitCong
<1> QED BY <1>1, <1>2, <1>4

LEMMA UnitsMultiply ==
  ASSUME context \in Params, NEW a \in Int, NEW b \in Int
  PROVE  Divides(P, a * b) <=> Divides(P, a) \/ Divides(P, b)
<1>1. P \in Nat /\ P \in Int /\ IsPrime(P)
  BY ContextFacts
<1>2. ASSUME Divides(P, a * b) PROVE Divides(P, a) \/ Divides(P, b)
  BY <1>1, <1>2, EuclidsLemma
<1>3. ASSUME Divides(P, a) \/ Divides(P, b) PROVE Divides(P, a * b)
  <2>1. CASE Divides(P, a)
    BY <1>1, <2>1, DividesTimes
  <2>2. CASE Divides(P, b)
    BY <1>1, <2>2, DividesTimes
  <2> QED BY <1>3, <2>1, <2>2
<1> QED BY <1>2, <1>3

\* The inverse of a unit is one.
LEMMA UnitInverse ==
  ASSUME context \in Params, NEW n \in PtxtSpaces, NEW a \in Int, ~ Divides(P, a)
  PROVE  /\ InvMod(a, n) \in 0 .. n - 1 /\ InvMod(a, n) \in Int
         /\ Cong(a * InvMod(a, n), 1, n) /\ ~ Divides(P, InvMod(a, n))
<1> DEFINE b == InvMod(a, n)
<1>1. n \in Positive /\ n \in Int /\ \A c \in Int : Unit(c, n) <=> ~ Divides(P, c)
  BY SpaceFacts
<1>2. b \in 0 .. n - 1 /\ Cong(a * b, 1, n)
  BY <1>1, InvModFacts
<1>3. b \in Int
  BY <1>1, <1>2
<1> HIDE DEF b
<1>4. Unit(b, n)
  BY <1>2, <1>3 DEF Unit
<1> QED BY <1>1, <1>2, <1>3, <1>4 DEF b

-----------------------------------------------------------------------------
(* The products of the primes of a chain. *)

LEMMA ProductSplit ==
  ASSUME NEW S \in SUBSET Primes, NEW T \in SUBSET Primes
  PROVE  /\ Product[S] \in Positive /\ Product[S] \in Int
         /\ Product[S \cup T] = Product[S] * Product[T \ S]
<1>1. Product[S] \in Nat \ {0}
  BY ProductAssumption
<1>2. T \ S \in SUBSET Primes /\ S \cap (T \ S) = {} /\ S \cup (T \ S) = S \cup T
  OBVIOUS
<1>3. Product[S \cup (T \ S)] = Product[S] * Product[T \ S]
  BY <1>2, ProductAssumption
<1>4. Product[S \cup T] = Product[S] * Product[T \ S]
  BY <1>2, <1>3, Zenon
<1> QED BY <1>1, <1>4 DEF Positive

LEMMA ProductUnit ==
  ASSUME context \in Params, NEW S \in SUBSET Primes
  PROVE  ~ Divides(P, Product[S])
<1> DEFINE Bad == {T \in SUBSET Primes : Divides(P, Product[T])}
           Sizes == {Cardinality(T) : T \in Bad}
<1>1. SUFFICES ASSUME Bad # {} PROVE FALSE
  OBVIOUS
<1>2. \A T \in SUBSET Primes : IsFiniteSet(T) /\ Cardinality(T) \in Nat
  BY PrimesAssumption, FS_Subset, FS_CardinalityType
<1>3. PICK k \in Sizes : \A j \in Sizes : k =< j
  <2>1. Sizes \in SUBSET Nat /\ Sizes # {}
    BY <1>1, <1>2
  <2> HIDE DEF Sizes
  <2> QED BY <2>1, LeastMember
<1>4. PICK T \in Bad : k = Cardinality(T)
  OBVIOUS
<1>5. P \in Nat /\ P > 1 /\ P \in Positive /\ \A q \in Primes : q % P # 0
  BY ContextFacts, PrimesAssumption DEF P, Positive
<1>6. T # {}
  <2>1. ~ Divides(P, 1)
    <3>1. 1 \in Positive
      BY DEF Positive
    <3> QED BY <1>5, <3>1, DivisorBound
  <2> QED BY <1>4, <2>1, ProductAssumption
<1>7. PICK q \in T : TRUE
  BY <1>6
<1>8. q \in Primes /\ q \in Int /\ T \ {q} \in SUBSET Primes /\ T \in SUBSET Primes
  BY <1>7, NumbersAssumption
<1>9. Product[T] = q * Product[T \ {q}]
  <2>1. {q} \cup T = T /\ {q} \in SUBSET Primes /\ Product[{q}] = q
    BY <1>7, <1>8, ProductAssumption
  <2> QED BY <1>8, <2>1, ProductSplit
<1>10. Divides(P, Product[T \ {q}])
  <2>1. ~ Divides(P, q)
    BY <1>5, <1>8, DividesMod
  <2>2. Product[T \ {q}] \in Int
    BY <1>8, ProductSplit
  <2> QED BY <1>4, <1>8, <1>9, <2>1, <2>2, UnitsMultiply
<1>11. Cardinality(T \ {q}) = k - 1 /\ Cardinality(T) \in Nat
  BY <1>2, <1>4, <1>7, <1>8, FS_RemoveElement
<1>12. k - 1 \in Sizes
  BY <1>8, <1>10, <1>11
<1> QED BY <1>3, <1>4, <1>11, <1>12

-----------------------------------------------------------------------------
(* Absolute values and rounded quotients, for the bounds on the noise.     *)

LEMMA AbsFacts ==
  ASSUME NEW a \in Int, NEW b \in Int
  PROVE  /\ Abs(a) \in Nat /\ Abs(a) \in Int /\ Abs(-a) = Abs(a)
         /\ Abs(a + b) =< Abs(a) + Abs(b) /\ Abs(a - b) =< Abs(a) + Abs(b)
         /\ a =< Abs(a) /\ -a =< Abs(a) /\ (a >= 0 => Abs(a) = a)
BY DEF Abs

LEMMA AbsTimes ==
  ASSUME NEW a \in Int, NEW b \in Int
  PROVE  Abs(a * b) = Abs(a) * Abs(b)
<1>1. /\ a * b \in Int /\ (-a) * b = -(a * b) /\ a * (-b) = -(a * b)
      /\ (-a) * (-b) = -(a * (-b)) /\ -a \in Int /\ -b \in Int
  <2>1. -a \in Int /\ -b \in Int
    OBVIOUS
  <2> QED BY <2>1, IntRing
<1>2. CASE a >= 0 /\ b >= 0
  <2>1. a * b >= 0
    BY <1>2
  <2> QED BY <1>1, <1>2, <2>1 DEF Abs
<1>3. CASE a >= 0 /\ b < 0
  <2>1. a * b =< 0
    BY <1>3
  <2> QED BY <1>1, <1>3, <2>1 DEF Abs
<1>4. CASE a < 0 /\ b >= 0
  <2>1. a * b =< 0
    BY <1>4
  <2> QED BY <1>1, <1>4, <2>1 DEF Abs
<1>5. CASE a < 0 /\ b < 0
  <2>1. a * b >= 0
    BY <1>5
  <2> QED BY <1>1, <1>5, <2>1 DEF Abs
<1> QED BY <1>2, <1>3, <1>4, <1>5

LEMMA NegativeTimes ==
  ASSUME NEW a \in Int, NEW b \in Int, a > 0, b < 0
  PROVE  a * b < 0
OBVIOUS

\* A bound on each of two factors bounds their product.
LEMMA TimesBound ==
  ASSUME NEW a \in Nat, NEW b \in Nat, NEW c \in Int, NEW d \in Int, a =< c, b =< d
  PROVE  a * b =< c * d /\ a * b \in Nat /\ c * d \in Int
<1>1. a * b \in Nat /\ c * d \in Int
  OBVIOUS
<1>2. a * b =< c * b
  <2>1. (c - a) * b >= 0
    OBVIOUS
  <2>2. (c - a) * b = c * b - a * b /\ c * b \in Int
    BY IntRing
  <2> QED BY <1>1, <2>1, <2>2
<1>3. c * b =< c * d
  <2>1. c * (d - b) >= 0
    OBVIOUS
  <2>2. c * (d - b) = c * d - c * b /\ c * b \in Int
    BY IntRing
  <2> QED BY <1>1, <2>1, <2>2
<1>4. c * b \in Int
  BY IntRing
<1> QED BY <1>1, <1>2, <1>3, <1>4

LEMMA CeilingFacts ==
  ASSUME NEW a \in Int, NEW b \in Positive
  PROVE  Ceiling(a, b) \in Int /\ b * Ceiling(a, b) >= a
<1> DEFINE q == (-a) \div b
<1>1. -a \in Int /\ b \in Int
  BY DEF Positive
<1>2. q \in Int /\ (-a) % b \in Nat /\ -a = b * q + ((-a) % b)
  BY <1>1, DivMod
<1> HIDE DEF q
<1>3. b * q \in Int /\ b * (-q) = -(b * q)
  BY <1>1, <1>2, IntRing
<1>4. -(b * q) >= a
  BY <1>2, <1>3
<1>5. Ceiling(a, b) = -q
  BY DEF Ceiling, q
<1> QED BY <1>2, <1>3, <1>4, <1>5

\* A number whose multiple is bounded is bounded by the rounded quotient.
LEMMA QuotientBound ==
  ASSUME NEW z \in Int, NEW a \in Int, NEW b \in Positive, Abs(b * z) =< a
  PROVE  Abs(z) =< Ceiling(a, b)
<1>1. b \in Int /\ b > 0 /\ b \in Nat
  BY DEF Positive
<1> DEFINE c == Ceiling(a, b)
<1>2. c \in Int /\ b * c >= a
  BY CeilingFacts
<1> HIDE DEF c
<1>3. Abs(b * z) = b * Abs(z) /\ Abs(z) \in Int
  <2>1. Abs(b * z) = Abs(b) * Abs(z)
    BY <1>1, AbsTimes
  <2>2. Abs(b) = b /\ Abs(z) \in Int
    BY <1>1 DEF Abs
  <2> QED BY <2>1, <2>2
<1>4. ASSUME Abs(z) > c PROVE FALSE
  <2>1. b * (Abs(z) - c) > 0
    BY <1>1, <1>2, <1>3, <1>4
  <2>2. b * (Abs(z) - c) = b * Abs(z) - b * c /\ b * Abs(z) \in Int /\ b * c \in Int
    BY <1>1, <1>2, <1>3, IntRing
  <2> QED BY <1>2, <1>3, <2>1, <2>2
<1> QED BY <1>2, <1>3, <1>4 DEF c

-----------------------------------------------------------------------------
(* What is kept of a ciphertext: what it encrypts, that its factor is      *)
(* prime to its plaintext space, and that its noise is bounded.            *)

Ctxt == [empty : BOOLEAN, phase : Int, set : PrimeSets, space : PtxtSpaces,
         factor : Nat, noise : Int, ptxt : Nat]

(* What multiplies the plaintext in what a ciphertext decrypts to. *)
Multiplier(x) == x.factor * Q(x)

WellFormed(x) == /\ x \in Ctxt
                 /\ x.factor < x.space /\ x.ptxt < x.space
                 /\ ~ Divides(P, x.factor)

Decrypts(x) == Cong(x.phase, Multiplier(x) * x.ptxt, x.space)

Bounded(x) == Abs(x.phase) =< x.noise

LEMMA Fields ==
  ASSUME context \in Params, NEW x, WellFormed(x)
  PROVE  /\ x.space \in PtxtSpaces /\ x.space \in Positive /\ x.space \in Nat
         /\ x.space \in Int /\ x.space > 1
         /\ x.phase \in Int /\ x.noise \in Int /\ x.empty \in BOOLEAN
         /\ x.factor \in Int /\ x.factor \in Nat /\ x.factor \in 0 .. x.space - 1
         /\ x.ptxt \in Int /\ x.ptxt \in Nat /\ x.ptxt \in 0 .. x.space - 1
         /\ x.set \in PrimeSets /\ x.set \in SUBSET Primes
         /\ Q(x) \in Positive /\ Q(x) \in Int /\ Q(x) \in Nat /\ ~ Divides(P, Q(x))
         /\ Multiplier(x) \in Int /\ ~ Divides(P, Multiplier(x))
<1>1. /\ x.space \in PtxtSpaces /\ x.phase \in Int /\ x.noise \in Int
      /\ x.empty \in BOOLEAN
      /\ x.factor \in Nat /\ x.ptxt \in Nat /\ x.set \in PrimeSets
      /\ x.factor < x.space /\ x.ptxt < x.space
  BY DEF WellFormed, Ctxt
<1>2. /\ x.space \in Positive /\ x.space \in Nat /\ x.space \in Int /\ x.space > 1
  BY <1>1, SpaceFacts
<1>3. x.set \in SUBSET Primes
  BY <1>1 DEF PrimeSets
<1>4. Q(x) \in Positive /\ Q(x) \in Int /\ ~ Divides(P, Q(x))
  BY <1>3, ProductSplit, ProductUnit DEF Q
<1>5. x.factor \in Int /\ x.ptxt \in Int /\ x.factor \in 0 .. x.space - 1
      /\ x.ptxt \in 0 .. x.space - 1
  BY <1>1, <1>2
<1>6. ~ Divides(P, x.factor)
  BY DEF WellFormed
<1>7. Multiplier(x) \in Int /\ ~ Divides(P, Multiplier(x))
  BY <1>4, <1>5, <1>6, IntRing, UnitsMultiply DEF Multiplier
<1>8. Q(x) \in Nat
  BY <1>4 DEF Positive
<1> QED BY <1>1, <1>2, <1>3, <1>4, <1>5, <1>7, <1>8

\* Products of four numbers are regrouped.
LEMMA FourFactors ==
  ASSUME NEW a \in Int, NEW b \in Int, NEW c \in Int, NEW d \in Int
  PROVE  (a * b) * (c * d) = (a * c) * (b * d)
<1>1. a * b \in Int /\ c * d \in Int /\ b * d \in Int /\ c * b = b * c
  BY IntRing
<1>2. (a * b) * (c * d) = a * (b * (c * d)) /\ b * (c * d) = (b * c) * d
      /\ (c * b) * d = c * (b * d)
  BY <1>1, IntRing
<1>3. a * (c * (b * d)) = (a * c) * (b * d)
  BY <1>1, IntRing
<1> QED BY <1>1, <1>2, <1>3

IsProduct(a, b, c, n) == Cong(a, b * c, n)

LEMMA ProductOfOne ==
  ASSUME NEW a \in Int, NEW b \in Int, NEW n \in Int, Cong(a, b, n)
  PROVE  IsProduct(a, b, 1, n) /\ IsProduct(a, 1, b, n)
<1>1. b * 1 = b /\ 1 * b = b
  BY IntRing
<1> QED BY <1>1 DEF IsProduct

\* If ph encrypts m under the multiplier k, then ph times e * f encrypts m * f under k * e.
LEMMA ScaledMultiple ==
  ASSUME NEW n \in Int, NEW ph \in Int, NEW k \in Int, NEW m \in Int, NEW e \in Int,
         NEW f \in Int, NEW h \in Int, NEW ph2 \in Int, NEW k2 \in Int, NEW m2 \in Int,
         IsProduct(ph, k, m, n), IsProduct(k2, k, e, n), IsProduct(m2, m, f, n),
         IsProduct(h, e, f, n), IsProduct(ph2, ph, h, n)
  PROVE  IsProduct(ph2, k2, m2, n)
<1>1. k * m \in Int /\ k * e \in Int /\ m * f \in Int /\ e * f \in Int /\ k2 * m2 \in Int
      /\ ph * h \in Int
  BY IntRing
<1>2. (k * m) * (e * f) \in Int /\ (k * e) * (m * f) \in Int
  BY <1>1, IntRing
<1>3. Cong(ph * h, (k * m) * (e * f), n)
  BY <1>1, CongTimes DEF IsProduct
<1>4. (k * m) * (e * f) = (k * e) * (m * f)
  BY FourFactors
<1>5. Cong(k2 * m2, (k * e) * (m * f), n)
  BY <1>1, CongTimes DEF IsProduct
<1>6. Cong((k * e) * (m * f), k2 * m2, n)
  BY <1>1, <1>2, <1>5, CongSym
<1>7. Cong(ph2, (k * m) * (e * f), n)
  BY <1>1, <1>2, <1>3, CongTrans DEF IsProduct
<1> QED BY <1>1, <1>2, <1>4, <1>6, <1>7, CongTrans DEF IsProduct

\* The scale of a ciphertext is its multiplier modulo the plaintext space: modulo 2 both
\* are 1.
LEMMA ScaleFacts ==
  ASSUME context \in Params, NEW x, WellFormed(x)
  PROVE  /\ Scale(x) \in Int /\ Scale(x) \in 0 .. x.space - 1
         /\ Cong(Scale(x), Multiplier(x), x.space) /\ ~ Divides(P, Scale(x))
<1> DEFINE n == x.space
           q == Q(x) % n
<1>1. /\ n \in PtxtSpaces /\ n \in Positive /\ n \in Int /\ n > 1 /\ x.factor \in Int
      /\ Q(x) \in Int /\ Multiplier(x) \in Int /\ ~ Divides(P, Multiplier(x))
  BY Fields
<1>2. CASE n > 2
  <2>1. Scale(x) = (x.factor * q) % n
    BY <1>2 DEF Scale
  <2>2. q \in Int /\ Cong(q, Q(x), n)
    BY <1>1, DivMod, CongMod
  <2> HIDE DEF q
  <2>3. x.factor * q \in Int /\ Cong(x.factor * q, Multiplier(x), n)
    BY <1>1, <2>2, IntRing, CongTimesOne DEF Multiplier
  <2> HIDE DEF n
  <2>4. Scale(x) \in 0 .. n - 1 /\ Scale(x) \in Int
    <3> DEFINE c == x.factor * q
    <3>1. c % n \in 0 .. n - 1
      <4> HIDE DEF c
      <4> QED BY <1>1, <2>3, DivMod DEF c
    <3>2. Scale(x) = c % n
      BY <2>1
    <3> HIDE DEF c
    <3> QED BY <1>1, <3>1, <3>2
  <2>5. Cong(Scale(x), x.factor * q, n)
    BY <1>1, <2>1, <2>3, CongMod
  <2>6. Cong(Scale(x), Multiplier(x), n)
    BY <1>1, <2>3, <2>4, <2>5, CongTrans
  <2>7. Scale(x) % n = Multiplier(x) % n
    BY <1>1, <2>4, <2>6, CongIffMod
  <2>8. ~ Divides(P, Scale(x))
    BY <1>1, <2>4, <2>7, ResidueOfUnit
  <2> QED BY <2>4, <2>6, <2>8 DEF n
<1>3. CASE n = 2
  <2>1. Scale(x) = 1
    BY <1>3 DEF Scale
  <2>2. P = 2
    <3>1. P \in Nat /\ P > 1 /\ n >= P
      BY <1>1, ContextFacts, SpaceFacts
    <3> QED BY <1>3, <3>1
  <2>3. 2 \in Positive
    BY DEF Positive
  <2>4. Multiplier(x) % 2 # 0
    BY <1>1, <2>2, <2>3, DividesMod
  <2>5. 1 % 2 = Multiplier(x) % 2
    BY <1>1, <2>4
  <2>6. Cong(1, Multiplier(x), 2)
    BY <1>1, <2>3, <2>5, CongIffMod
  <2>7. ~ Divides(2, 1)
    BY <2>3, DividesMod
  <2> QED BY <1>3, <2>1, <2>2, <2>6, <2>7
<1> QED BY <1>1, <1>2, <1>3

\* The invariant of the scheme, in the form in which the code states it.
LEMMA DecryptsByScale ==
  ASSUME context \in Params, NEW x, WellFormed(x)
  PROVE  /\ Decrypts(x) <=> Cong(x.phase, Scale(x) * x.ptxt, x.space)
         /\ Decrypts(x) <=> (x.phase - Scale(x) * x.ptxt) % x.space = 0
<1> DEFINE a == Scale(x) * x.ptxt
           b == Multiplier(x) * x.ptxt
<1>1. /\ x.space \in Positive /\ x.space \in Int /\ x.phase \in Int /\ x.ptxt \in Int
      /\ Multiplier(x) \in Int /\ Scale(x) \in Int
      /\ Cong(Scale(x), Multiplier(x), x.space)
  BY Fields, ScaleFacts
<1>2. a \in Int /\ b \in Int
  BY <1>1, IntRing
<1>3. Cong(a, b, x.space) /\ Cong(b, a, x.space)
  <2>1. Cong(a, b, x.space)
    BY <1>1, CongTimesOne
  <2> HIDE DEF a, b
  <2> QED BY <1>1, <1>2, <2>1, CongSym
<1> HIDE DEF a, b
<1>4. Cong(x.phase, b, x.space) <=> Cong(x.phase, a, x.space)
  BY <1>1, <1>2, <1>3, CongTrans
<1>5. x.phase - a \in Int
  BY <1>1, <1>2
<1>6. Cong(x.phase, a, x.space) <=> (x.phase - a) % x.space = 0
  BY <1>1, <1>5, DividesMod DEF Cong
<1> QED BY <1>4, <1>6 DEF Decrypts, a, b

-----------------------------------------------------------------------------
(* The operations on one ciphertext. *)

\* A ciphertext without parts encrypts 0 under any plaintext space.
LEMMA ClearedGood ==
  ASSUME context \in Params, NEW n \in PtxtSpaces
  PROVE  WellFormed(Cleared(n)) /\ Decrypts(Cleared(n)) /\ Bounded(Cleared(n))
<1> DEFINE x == Cleared(n)
<1>1. n \in Positive /\ n \in Int /\ n > 1
  BY SpaceFacts
<1>2. /\ x.phase = 0 /\ x.ptxt = 0 /\ x.space = n /\ x.factor = 1 /\ x.noise = 0
      /\ x.set = CtxtPrimes
  BY DEF Cleared
<1>3. CtxtPrimes \in PrimeSets
  BY NumbersAssumption DEF PrimeSets, Primes
<1>4. x \in Ctxt
  BY <1>3 DEF Cleared, Ctxt
<1>5. ~ Divides(P, 1)
  BY SpaceFacts, OneIsUnit, <1>1
<1> HIDE DEF x
<1>6. WellFormed(x)
  BY <1>1, <1>2, <1>4, <1>5 DEF WellFormed
<1>7. Multiplier(x) \in Int
  BY <1>6, Fields
<1>8. Multiplier(x) * 0 = 0 /\ 0 \in Int
  BY <1>7, IntRing
<1>9. Decrypts(x)
  BY <1>1, <1>2, <1>8, CongRefl DEF Decrypts
<1>10. Bounded(x)
  BY <1>2 DEF Bounded, Abs
<1> QED BY <1>6, <1>9, <1>10 DEF x

LEMMA NegatedGood ==
  ASSUME context \in Params, NEW x, WellFormed(x), Decrypts(x)
  PROVE  /\ WellFormed(Negated(x)) /\ Decrypts(Negated(x))
         /\ Bounded(x) => Bounded(Negated(x))
<1> DEFINE y == Negated(x)
           n == x.space
<1>1. /\ n \in Positive /\ n \in Int /\ x.phase \in Int /\ x.ptxt \in Int
      /\ Multiplier(x) \in Int
  BY Fields
<1>2. /\ y.phase = -x.phase /\ y.ptxt = (-x.ptxt) % n /\ y.space = n
      /\ y.factor = x.factor /\ y.set = x.set /\ y.noise = x.noise
  BY DEF Negated, WellFormed, Ctxt
<1>3. -x.phase \in Int /\ -x.ptxt \in Int /\ y.ptxt \in Nat /\ y.ptxt < n /\ y.ptxt \in Int
  <2>1. -x.phase \in Int /\ -x.ptxt \in Int
    BY <1>1
  <2>2. (-x.ptxt) % n \in Nat /\ (-x.ptxt) % n \in 0 .. n - 1
    BY <1>1, <2>1, DivMod
  <2> QED BY <1>1, <1>2, <2>1, <2>2
<1>4. y \in Ctxt
  BY <1>2, <1>3 DEF Negated, WellFormed, Ctxt
<1>5. WellFormed(y)
  BY <1>2, <1>3, <1>4 DEF WellFormed
<1>6. Decrypts(y)
  <2>1. Multiplier(y) = Multiplier(x)
    BY <1>2 DEF Multiplier, Q
  <2>2. Cong(-x.phase, -(Multiplier(x) * x.ptxt), n)
    BY <1>1, IntRing, CongNeg DEF Decrypts
  <2>3. -(Multiplier(x) * x.ptxt) = Multiplier(x) * (-x.ptxt)
    BY <1>1, IntRing
  <2>4. Cong(-x.ptxt, y.ptxt, n)
    BY <1>1, <1>2, <1>3, CongMod
  <2>5. Cong(Multiplier(x) * (-x.ptxt), Multiplier(x) * y.ptxt, n)
    BY <1>1, <1>3, <2>4, CongTimesOne
  <2>6. Multiplier(x) * (-x.ptxt) \in Int /\ Multiplier(x) * y.ptxt \in Int
    BY <1>1, <1>3, IntRing
  <2>7. Cong(-x.phase, Multiplier(x) * y.ptxt, n)
    BY <1>1, <1>3, <2>2, <2>3, <2>5, <2>6, CongTrans
  <2> QED BY <1>2, <2>1, <2>7 DEF Decrypts
<1>7. ASSUME Bounded(x) PROVE Bounded(y)
  BY <1>1, <1>2, <1>7, AbsFacts DEF Bounded
<1> QED BY <1>5, <1>6, <1>7

LEMMA ReducedGood ==
  ASSUME context \in Params, NEW x, WellFormed(x), Decrypts(x), NEW space \in PtxtSpaces
  PROVE  LET y == ReducePtxtSpace(x, space) IN
         /\ WellFormed(y) /\ Decrypts(y) /\ (Bounded(x) => Bounded(y))
         /\ y.space = GCD(x.space, space) /\ y.set = x.set /\ y.phase = x.phase
         /\ y.noise = x.noise
<1> DEFINE y == ReducePtxtSpace(x, space)
           n == x.space
           g == GCD(n, space)
<1>1. /\ n \in PtxtSpaces /\ n \in Int /\ x.phase \in Int /\ x.ptxt \in Int
      /\ x.factor \in Int /\ Multiplier(x) \in Int /\ Q(x) \in Int
  BY Fields
<1>2. g \in PtxtSpaces /\ Divides(g, n)
  BY <1>1, CommonSpace
<1>3. g \in Positive /\ g \in Int
  BY <1>2, SpaceFacts
<1>4. /\ y.phase = x.phase /\ y.ptxt = x.ptxt % g /\ y.space = g /\ y.factor = x.factor % g
      /\ y.set = x.set /\ y.noise = x.noise
  BY DEF ReducePtxtSpace, WellFormed, Ctxt
<1> HIDE DEF g
<1>5. /\ x.ptxt % g \in Nat /\ x.ptxt % g \in 0 .. g - 1
      /\ x.factor % g \in Nat /\ x.factor % g \in 0 .. g - 1
  BY <1>1, <1>3, DivMod
<1>6. y \in Ctxt
  BY <1>2, <1>5 DEF ReducePtxtSpace, WellFormed, Ctxt, g
<1> HIDE DEF y
<1>7. WellFormed(y)
  <2>1. ~ Divides(P, x.factor % g)
    BY <1>1, <1>2, ResidueOfUnit DEF WellFormed
  <2>2. y.factor < y.space /\ y.ptxt < y.space
    BY <1>3, <1>4, <1>5
  <2> QED BY <1>4, <1>6, <2>1, <2>2 DEF WellFormed
<1>8. Decrypts(y)
  <2>1. IsProduct(x.phase, Multiplier(x), x.ptxt, g)
    <3>1. Multiplier(x) * x.ptxt \in Int
      BY <1>1, IntRing
    <3> QED BY <1>1, <1>2, <1>3, <3>1, CongToDivisor DEF Decrypts, IsProduct
  <2>2. IsProduct(y.ptxt, x.ptxt, 1, g) /\ y.ptxt \in Int
    <3>1. Cong(y.ptxt, x.ptxt, g) /\ y.ptxt \in Int
      BY <1>1, <1>3, <1>4, <1>5, CongMod
    <3> QED BY <1>1, <1>3, <3>1, ProductOfOne
  <2>3. IsProduct(Multiplier(y), Multiplier(x), 1, g) /\ Multiplier(y) \in Int
    <3>1. Multiplier(y) = (x.factor % g) * Q(x) /\ Multiplier(x) = x.factor * Q(x)
      BY <1>1, <1>4 DEF Multiplier, Q
    <3>2. Cong(x.factor % g, x.factor, g) /\ x.factor % g \in Int
      BY <1>1, <1>3, <1>5, CongMod
    <3>3. Cong((x.factor % g) * Q(x), x.factor * Q(x), g)
      BY <1>1, <1>3, <3>2, CongTimesOne
    <3>4. Multiplier(y) \in Int
      BY <1>7, Fields
    <3> QED BY <1>1, <1>3, <3>1, <3>3, <3>4, ProductOfOne
  <2>4. IsProduct(y.phase, x.phase, 1, g) /\ IsProduct(1, 1, 1, g)
    BY <1>1, <1>3, <1>4, CongRefl, ProductOfOne
  <2>5. y.phase \in Int /\ 1 \in Int
    BY <1>1, <1>4
  <2>6. IsProduct(y.phase, Multiplier(y), y.ptxt, g)
    BY <1>1, <1>3, <2>1, <2>2, <2>3, <2>4, <2>5, ScaledMultiple
  <2> QED BY <1>4, <2>6 DEF Decrypts, IsProduct
<1>9. Bounded(x) => Bounded(y)
  BY <1>4 DEF Bounded
<1> QED BY <1>4, <1>7, <1>8, <1>9 DEF y, g

\* Multiplying a ciphertext and its factor by the same unit keeps what it encrypts.
LEMMA MulIntFactorGood ==
  ASSUME context \in Params, NEW x, WellFormed(x), Decrypts(x),
         NEW e \in 0 .. x.space - 1, ~ Divides(P, e)
  PROVE  LET y == MulIntFactor(x, e) IN
         /\ WellFormed(y) /\ Decrypts(y) /\ (Bounded(x) => Bounded(y))
         /\ y.space = x.space /\ y.set = x.set /\ y.ptxt = x.ptxt
         /\ y.factor = (x.factor * e) % x.space
<1> DEFINE y == MulIntFactor(x, e)
           n == x.space
           b == BalRem(e, n)
<1>1. /\ n \in PtxtSpaces /\ n \in Positive /\ n \in Int /\ x.phase \in Int /\ x.ptxt \in Int
      /\ x.factor \in Int /\ Multiplier(x) \in Int /\ Q(x) \in Int /\ x.noise \in Int
      /\ x.factor \in 0 .. n - 1
  BY Fields
<1>2. e \in Int
  BY <1>1
<1>3. CASE e = 1
  <2>1. y = x
    BY <1>3 DEF MulIntFactor
  <2>2. (x.factor * e) % n = x.factor
    BY <1>1, <1>3
  <2> QED BY <2>1, <2>2
<1>4. CASE e # 1
  <2>1. /\ y.phase = x.phase * b /\ y.ptxt = x.ptxt /\ y.space = n
        /\ y.factor = (x.factor * e) % n /\ y.set = x.set /\ y.noise = x.noise * Abs(b)
        /\ y.empty = x.empty
    BY <1>4 DEF MulIntFactor, WellFormed, Ctxt
  <2>2. b \in Int /\ Cong(b, e, n) /\ Abs(b) \in Nat
    BY <1>1, BalRemFacts
  <2>3. x.factor * e \in Int /\ x.phase * b \in Int
    BY <1>1, <1>2, <2>2, IntRing
  <2>4. /\ (x.factor * e) % n \in Nat /\ (x.factor * e) % n \in 0 .. n - 1
        /\ Cong((x.factor * e) % n, x.factor * e, n)
    BY <1>1, <2>3, DivMod, CongMod
  <2>5. y \in Ctxt
    <3>1. x.noise * Abs(b) \in Int
      BY <1>1, <2>2
    <3> QED BY <1>4, <2>3, <2>4, <3>1 DEF MulIntFactor, WellFormed, Ctxt
  <2> HIDE DEF y, b
  <2>6. WellFormed(y)
    <3>1. ~ Divides(P, x.factor * e)
      BY <1>1, <1>2, UnitsMultiply DEF WellFormed
    <3>2. ~ Divides(P, (x.factor * e) % n)
      BY <1>1, <2>3, <3>1, ResidueOfUnit
    <3>3. y.factor < y.space /\ y.ptxt < y.space
      BY <1>1, <2>1, <2>4 DEF WellFormed
    <3> QED BY <2>1, <2>5, <3>2, <3>3 DEF WellFormed
  <2>7. Decrypts(y)
    <3>1. IsProduct(x.phase, Multiplier(x), x.ptxt, n)
      BY DEF Decrypts, IsProduct
    <3>2. IsProduct(Multiplier(y), Multiplier(x), e, n) /\ Multiplier(y) \in Int
      <4>1. Cong(y.factor * Q(x), (x.factor * e) * Q(x), n)
        <5>1. y.factor \in Int
          BY <2>1, <2>4
        <5> QED BY <1>1, <2>1, <2>3, <2>4, <5>1, CongTimesOne
      <4>2. (x.factor * e) * Q(x) = (x.factor * Q(x)) * e
        <5>1. (x.factor * e) * Q(x) = x.factor * (e * Q(x)) /\ e * Q(x) = Q(x) * e
              /\ x.factor * (Q(x) * e) = (x.factor * Q(x)) * e
          BY <1>1, <1>2, IntRing
        <5> QED BY <5>1
      <4>3. Q(y) = Q(x) /\ Multiplier(y) \in Int
        BY <2>1, <2>6, Fields DEF Q
      <4> QED BY <4>1, <4>2, <4>3 DEF Multiplier, IsProduct
    <3>3. IsProduct(y.ptxt, x.ptxt, 1, n)
      BY <1>1, <2>1, CongRefl, ProductOfOne
    <3>4. IsProduct(b, e, 1, n)
      BY <1>1, <1>2, <2>2, ProductOfOne
    <3>5. IsProduct(y.phase, x.phase, b, n)
      BY <1>1, <2>1, <2>3, CongRefl DEF IsProduct
    <3>6. y.phase \in Int /\ y.ptxt \in Int /\ 1 \in Int
      BY <1>1, <2>1, <2>3
    <3>7. IsProduct(y.phase, Multiplier(y), y.ptxt, n)
      BY <1>1, <1>2, <2>2, <3>1, <3>2, <3>3, <3>4, <3>5, <3>6, ScaledMultiple
    <3> QED BY <2>1, <3>7 DEF Decrypts, IsProduct
  <2>8. ASSUME Bounded(x) PROVE Bounded(y)
    <3>1. Abs(y.phase) = Abs(x.phase) * Abs(b)
      <4>1. Abs(x.phase * b) = Abs(x.phase) * Abs(b)
        BY <1>1, <2>2, AbsTimes
      <4> QED BY <2>1, <4>1
    <3>2. Abs(x.phase) =< x.noise /\ Abs(x.phase) \in Nat
      BY <1>1, <2>8, AbsFacts DEF Bounded
    <3>3. Abs(b) \in Int
      BY <2>2
    <3>4. Abs(x.phase) * Abs(b) =< x.noise * Abs(b)
      BY <1>1, <2>2, <3>2, <3>3, TimesBound
    <3> QED BY <2>1, <3>1, <3>4 DEF Bounded
  <2> QED BY <2>1, <2>6, <2>7, <2>8 DEF y
<1> QED BY <1>3, <1>4

\* Multiplying by primes that join the prime set multiplies the phase with Q.
LEMMA ModUpGood ==
  ASSUME context \in Params, NEW x, WellFormed(x), Decrypts(x), NEW s \in PrimeSets
  PROVE  LET y == ModUpToSet(x, s) IN
         /\ WellFormed(y) /\ Decrypts(y) /\ (Bounded(x) => Bounded(y))
         /\ y.space = x.space /\ y.set = x.set \cup s /\ y.ptxt = x.ptxt
<1> DEFINE y == ModUpToSet(x, s)
           n == x.space
           D == Product[s \ x.set]
<1>1. /\ n \in PtxtSpaces /\ n \in Positive /\ n \in Int /\ x.phase \in Int /\ x.ptxt \in Int
      /\ x.factor \in Int /\ Multiplier(x) \in Int /\ Q(x) \in Int /\ x.noise \in Int
      /\ x.set \in PrimeSets /\ x.set \in SUBSET Primes
  BY Fields
<1>2. s \in SUBSET Primes /\ s \ x.set \in SUBSET Primes
  BY DEF PrimeSets
<1>3. D \in Int /\ D \in Nat /\ D > 0
  <2>1. D \in Positive
    BY <1>2, ProductSplit
  <2> QED BY <2>1 DEF Positive
<1>4. Product[x.set \cup s] = Q(x) * D
  BY <1>1, <1>2, ProductSplit DEF Q
<1>5. /\ y.phase = x.phase * D /\ y.ptxt = x.ptxt /\ y.space = n
      /\ y.factor = x.factor /\ y.set = x.set \cup s /\ y.noise = x.noise * D
      /\ y.empty = x.empty
  BY DEF ModUpToSet, WellFormed, Ctxt
<1>6. x.phase * D \in Int /\ x.noise * D \in Int /\ x.set \cup s \in PrimeSets
  BY <1>1, <1>2, <1>3, IntRing DEF PrimeSets
<1>7. y \in Ctxt
  BY <1>6 DEF ModUpToSet, WellFormed, Ctxt
<1> HIDE DEF y, D
<1>8. WellFormed(y)
  BY <1>5, <1>7 DEF WellFormed
<1>9. Decrypts(y)
  <2>1. IsProduct(x.phase, Multiplier(x), x.ptxt, n)
    BY DEF Decrypts, IsProduct
  <2>2. IsProduct(Multiplier(y), Multiplier(x), D, n) /\ Multiplier(y) \in Int
    <3>1. Multiplier(y) = Multiplier(x) * D
      BY <1>1, <1>3, <1>4, <1>5, IntRing DEF Multiplier, Q
    <3>2. Multiplier(y) \in Int
      BY <1>8, Fields
    <3> QED BY <1>1, <3>1, <3>2, CongRefl DEF IsProduct
  <2>3. IsProduct(y.ptxt, x.ptxt, 1, n)
    BY <1>1, <1>5, CongRefl, ProductOfOne
  <2>4. IsProduct(D, D, 1, n)
    BY <1>1, <1>3, CongRefl, ProductOfOne
  <2>5. IsProduct(y.phase, x.phase, D, n)
    BY <1>1, <1>5, <1>6, CongRefl DEF IsProduct
  <2>6. y.phase \in Int /\ y.ptxt \in Int /\ 1 \in Int
    BY <1>1, <1>5, <1>6
  <2>7. IsProduct(y.phase, Multiplier(y), y.ptxt, n)
    BY <1>1, <1>3, <2>1, <2>2, <2>3, <2>4, <2>5, <2>6, ScaledMultiple
  <2> QED BY <1>5, <2>7 DEF Decrypts, IsProduct
<1>10. ASSUME Bounded(x) PROVE Bounded(y)
  <2>1. Abs(y.phase) = Abs(x.phase) * D
    <3>1. Abs(D) = D
      BY <1>3 DEF Abs
    <3>2. Abs(x.phase * D) = Abs(x.phase) * Abs(D)
      BY <1>1, <1>3, AbsTimes
    <3> QED BY <1>5, <3>1, <3>2
  <2>2. Abs(x.phase) =< x.noise /\ Abs(x.phase) \in Nat
    BY <1>1, <1>10, AbsFacts DEF Bounded
  <2>3. Abs(x.phase) * D =< x.noise * D
    BY <1>1, <1>3, <2>2, TimesBound
  <2> QED BY <1>5, <2>1, <2>3 DEF Bounded
<1> QED BY <1>5, <1>8, <1>9, <1>10 DEF y

-----------------------------------------------------------------------------
(* Modulus switching. *)

\* What is subtracted from a coefficient before it is divided by D leaves it divisible by
\* D and what it was modulo the plaintext space, and is as small as it can be.
LEMMA DeltaFacts ==
  ASSUME context \in Params, NEW n \in PtxtSpaces, NEW D \in Positive, ~ Divides(P, D),
         NEW c \in Int
  PROVE  /\ Delta(c, D, n) \in Int /\ Cong(Delta(c, D, n), c, D) /\ Divides(n, Delta(c, D, n))
         /\ 2 * Abs(Delta(c, D, n)) =< D * n
<1> DEFINE d == BalRem(c % D, D)
           i == InvMod(D % n, n)
           v == ((d % n) * i) % n
           low == v > n \div 2 \/ (n % 2 = 0 /\ v = n \div 2 /\ d < 0)
           w == IF low THEN v - n ELSE v
<1>1. n \in Positive /\ n \in Int /\ n > 1 /\ D \in Int /\ D > 0
  BY SpaceFacts DEF Positive
<1>2. c % D \in 0 .. D - 1 /\ c % D \in Int /\ Cong(c % D, c, D)
  <2>1. c % D \in 0 .. D - 1 /\ Cong(c % D, c, D)
    BY DivMod, CongMod
  <2> QED BY <1>1, <2>1
<1>3. d \in Int /\ Cong(d, c % D, D) /\ 2 * Abs(d) =< D
  BY <1>2, BalRemFacts
<1> HIDE DEF d
<1>4. Cong(d, c, D)
  BY <1>1, <1>2, <1>3, CongTrans
<1>5. D % n \in Int /\ Cong(D, D % n, n) /\ ~ Divides(P, D % n)
  BY <1>1, DivMod, CongMod, ResidueOfUnit
<1>6. i \in Int /\ Cong((D % n) * i, 1, n)
  BY <1>5, UnitInverse
<1> HIDE DEF i
<1>7. d % n \in Int /\ Cong(d % n, d, n)
  BY <1>1, <1>3, DivMod, CongMod
<1>8. (d % n) * i \in Int
  BY <1>6, <1>7, IntRing
<1>9. v \in Int /\ v \in 0 .. n - 1 /\ Cong(v, (d % n) * i, n)
  <2>1. v \in 0 .. n - 1 /\ Cong(v, (d % n) * i, n)
    BY <1>1, <1>8, DivMod, CongMod
  <2> HIDE DEF v
  <2> QED BY <1>1, <2>1
<1> HIDE DEF v
<1>10. w \in Int /\ Cong(w, v, n)
  <2>1. Cong(v - n, v - 0, n) /\ Cong(v, v, n)
    <3>1. Cong(v, v, n) /\ Cong(n, 0, n)
      BY <1>1, <1>9, CongRefl, CongZero, DividesBasics
    <3> QED BY <1>1, <1>9, <3>1, CongPlus
  <2>2. v - 0 = v /\ v - n \in Int
    BY <1>1, <1>9
  <2> QED BY <1>9, <2>1, <2>2
\* Twice w is at most n apart from 0, and at most n - 1 unless the sign of d makes up for it.
<1>11. \/ 2 * w =< n - 1 /\ -(n - 1) =< 2 * w
       \/ 2 * w = n /\ d >= 0
       \/ 2 * w = -n /\ d < 0
  <2>1. CASE low
    <3>1. w = v - n
      BY <2>1
    <3>2. CASE v > n \div 2
      BY <1>1, <1>9, <3>1, <3>2
    <3>3. CASE n % 2 = 0 /\ v = n \div 2 /\ d < 0
      BY <1>1, <1>9, <3>1, <3>3
    <3> QED BY <2>1, <3>2, <3>3
  <2>2. CASE ~ low
    <3>1. w = v /\ v =< n \div 2
      BY <1>1, <1>9, <2>2
    <3>2. CASE n % 2 = 0 /\ v = n \div 2
      BY <1>1, <1>3, <1>9, <2>2, <3>1, <3>2
    <3>3. CASE ~ (n % 2 = 0 /\ v = n \div 2)
      BY <1>1, <1>9, <3>1, <3>3
    <3> QED BY <3>2, <3>3
  <2> QED BY <2>1, <2>2
<1>12. Delta(c, D, n) = d - D * w
  BY DEF Delta, d, i, v
<1> HIDE DEF w
<1>13. D * w \in Int /\ d - D * w \in Int
  BY <1>1, <1>3, <1>10, IntRing
<1>14. Cong(d - D * w, c, D)
  <2>1. Cong(D * w, 0, D)
    BY <1>1, <1>10, <1>13, CongZero, DividesBasics
  <2>2. Cong(d - D * w, c - 0, D)
    BY <1>1, <1>3, <1>4, <1>13, <2>1, CongPlus
  <2> QED BY <2>2
<1>15. Divides(n, d - D * w)
  <2>1. Cong(D * w, (D % n) * v, n)
    BY <1>1, <1>5, <1>9, <1>10, CongTimes
  <2>2. Cong((D % n) * v, (D % n) * ((d % n) * i), n)
    BY <1>1, <1>5, <1>8, <1>9, CongTimesOne
  <2>3. (D % n) * ((d % n) * i) = ((D % n) * i) * (d % n)
    <3>1. (d % n) * i = i * (d % n) /\ (D % n) * (i * (d % n)) = ((D % n) * i) * (d % n)
      BY <1>5, <1>6, <1>7, IntRing
    <3> QED BY <3>1
  <2>4. Cong(((D % n) * i) * (d % n), 1 * d, n)
    <3>1. (D % n) * i \in Int /\ 1 \in Int
      BY <1>5, <1>6, IntRing
    <3> QED BY <1>1, <1>3, <1>6, <1>7, <3>1, CongTimes, Zenon
  <2>5. 1 * d = d /\ (D % n) * v \in Int /\ ((D % n) * i) * (d % n) \in Int
    <3>1. (D % n) * i \in Int
      BY <1>5, <1>6, IntRing
    <3> QED BY <1>3, <1>5, <1>7, <1>9, <3>1, IntRing
  <2>6. Cong(D * w, ((D % n) * i) * (d % n), n)
    BY <1>1, <1>13, <2>1, <2>2, <2>3, <2>5, CongTrans
  <2>7. Cong(D * w, d, n)
    BY <1>1, <1>3, <1>13, <2>4, <2>5, <2>6, CongTrans
  <2>8. Cong(d, D * w, n)
    BY <1>1, <1>3, <1>13, <2>7, CongSym
  <2> QED BY <2>8 DEF Cong
<1>16. 2 * Abs(d - D * w) =< D * n
  <2>1. -D =< 2 * d /\ 2 * d =< D
    BY <1>1, <1>3 DEF Abs
  <2>2. D * n \in Int /\ D * (2 * w) = 2 * (D * w)
    <3>1. D * (2 * w) = (D * 2) * w /\ D * 2 = 2 * D /\ (2 * D) * w = 2 * (D * w)
      BY <1>1, <1>10, IntRing
    <3> QED BY <1>1, <3>1, IntRing
  <2>3. CASE 2 * w =< n - 1 /\ -(n - 1) =< 2 * w
    <3>1. D * (n - 1 - 2 * w) >= 0 /\ D * (n - 1 + 2 * w) >= 0
      BY <1>1, <1>10, <2>3
    <3>2. D * (n - 1 - 2 * w) = D * n - D - D * (2 * w)
          /\ D * (n - 1 + 2 * w) = D * n - D + D * (2 * w)
      BY <1>1, <1>10
    <3> QED BY <1>1, <1>3, <1>13, <2>1, <2>2, <3>1, <3>2 DEF Abs
  <2>4. CASE 2 * w = n /\ d >= 0
    <3>1. 2 * (D * w) = D * n
      BY <2>2, <2>4
    <3>2. D * n >= D
      BY <1>1
    <3> QED BY <1>1, <1>3, <1>13, <2>1, <2>2, <2>4, <3>1, <3>2 DEF Abs
  <2>5. CASE 2 * w = -n /\ d < 0
    <3>1. 2 * (D * w) = -(D * n)
      BY <1>1, <2>2, <2>5, IntRing
    <3>2. D * n >= D
      BY <1>1
    <3> QED BY <1>1, <1>3, <1>13, <2>1, <2>2, <2>5, <3>1, <3>2 DEF Abs
  <2> QED BY <1>11, <2>3, <2>4, <2>5
<1> QED BY <1>12, <1>13, <1>14, <1>15, <1>16

\* The sanity check of a modulus switch passes.
LEMMA ModSwitchChecks ==
  ASSUME context \in Params, NEW x, WellFormed(x), NEW s \in PrimeSets
  PROVE  ~ BadModSwitch(x, s)
<1> DEFINE D == Product[x.set \ s]
<1>1. x.space \in PtxtSpaces /\ x.space \in Int /\ x.set \ s \in SUBSET Primes
  BY Fields
<1>2. D \in Positive /\ ~ Divides(P, D) /\ D \in Int
  BY <1>1, ProductSplit, ProductUnit
<1> HIDE DEF D
<1>3. SUFFICES ASSUME NEW c \in 0 .. D - 1, 2 * Abs(Delta(c, D, x.space)) > D * x.space
               PROVE  FALSE
  BY DEF BadModSwitch, D
<1>4. c \in Int /\ D * x.space \in Int
  BY <1>1, <1>2, IntRing
<1>5. Delta(c, D, x.space) \in Int /\ 2 * Abs(Delta(c, D, x.space)) =< D * x.space
  BY <1>1, <1>2, <1>4, DeltaFacts
<1>6. Abs(Delta(c, D, x.space)) \in Int
  BY <1>5, AbsFacts
<1> QED BY <1>3, <1>4, <1>5, <1>6

\* A modulus switch divides what is decrypted by the primes that are dropped, after it was
\* made divisible by them: the quotient encrypts the same, and what was added is in the noise.
LEMMA ModDownsGood ==
  ASSUME context \in Params, NEW x, WellFormed(x), Decrypts(x), NEW s \in PrimeSets,
         x.set \cap s # {}, NEW y \in ModDowns(x, s)
  PROVE  /\ WellFormed(y) /\ Decrypts(y) /\ (Bounded(x) => Bounded(y))
         /\ y.space = x.space /\ y.set = x.set \cap s
<1> DEFINE drop == x.set \ s
           D == Product[drop]
           n == x.space
<1>1. /\ n \in PtxtSpaces /\ n \in Positive /\ n \in Int /\ x.phase \in Int /\ x.ptxt \in Int
      /\ x.factor \in Int /\ Multiplier(x) \in Int /\ Q(x) \in Int /\ x.noise \in Int
      /\ x.set \in PrimeSets /\ x.set \in SUBSET Primes
  BY Fields
<1>2. CASE drop = {}
  <2>1. y = x /\ x.set \cap s = x.set
    BY <1>2 DEF ModDowns
  <2> QED BY <2>1
<1>3. CASE drop # {}
  <2>1. PICK c1 \in SecondParts :
          y = [x EXCEPT !.phase = (@ - Delta(x.phase - c1, D, n) - Delta(c1, D, n)) \div D,
                        !.set = @ \ drop,
                        !.noise = Ceiling(@ + Abs(Delta(x.phase - c1, D, n))
                                            + Abs(Delta(c1, D, n)), D)]
    BY <1>3 DEF ModDowns
  <2> DEFINE d0 == Delta(x.phase - c1, D, n)
             d1 == Delta(c1, D, n)
             z == x.phase - d0 - d1
             a == x.noise + Abs(d0) + Abs(d1)
  <2>2. /\ y.phase = z \div D /\ y.ptxt = x.ptxt /\ y.space = n /\ y.factor = x.factor
        /\ y.set = x.set \cap s /\ y.noise = Ceiling(a, D) /\ y.empty = x.empty
    <3>1. x.set \ drop = x.set \cap s
      OBVIOUS
    <3> HIDE DEF drop
    <3> QED BY <2>1, <3>1 DEF WellFormed, Ctxt
  <2>3. drop \in SUBSET Primes /\ x.set \cap s \in SUBSET Primes
        /\ x.set \cap s \in PrimeSets
    BY <1>1 DEF PrimeSets
  <2>4. D \in Positive /\ ~ Divides(P, D) /\ D \in Int
    BY <2>3, ProductSplit, ProductUnit
  <2>5. Q(x) = Product[x.set \cap s] * D
    <3>1. (x.set \cap s) \cup x.set = x.set /\ x.set \ (x.set \cap s) = drop
      OBVIOUS
    <3>2. Product[(x.set \cap s) \cup x.set] =
          Product[x.set \cap s] * Product[x.set \ (x.set \cap s)]
      BY <1>1, <2>3, ProductSplit
    <3> HIDE DEF drop
    <3> QED BY <3>1, <3>2 DEF Q
  <2> HIDE DEF drop, D
  <2>6. c1 \in Int /\ x.phase - c1 \in Int
    BY <1>1, NumbersAssumption
  <2>7. /\ d0 \in Int /\ Cong(d0, x.phase - c1, D) /\ Divides(n, d0)
        /\ d1 \in Int /\ Cong(d1, c1, D) /\ Divides(n, d1)
    BY <1>1, <2>4, <2>6, DeltaFacts
  <2> HIDE DEF d0, d1
  <2>8. z \in Int /\ Divides(D, z)
    <3>1. Cong(d0 + d1, (x.phase - c1) + c1, D)
      BY <2>4, <2>6, <2>7, CongPlus
    <3>2. (x.phase - c1) + c1 = x.phase /\ d0 + d1 \in Int
      BY <1>1, <2>6, <2>7
    <3>3. Cong(x.phase, d0 + d1, D)
      BY <1>1, <2>4, <3>1, <3>2, CongSym
    <3>4. x.phase - (d0 + d1) = z /\ z \in Int
      BY <1>1, <2>7
    <3> QED BY <3>3, <3>4 DEF Cong
  <2>9. z = D * y.phase /\ y.phase \in Int
    <3> HIDE DEF z
    <3>1. z \div D \in Int /\ z = D * (z \div D) + (z % D)
      BY <2>4, <2>8, DivMod
    <3>2. z % D = 0
      BY <2>4, <2>8, DividesMod
    <3>3. D * (z \div D) \in Int
      BY <2>4, <3>1, IntRing
    <3>4. z = D * (z \div D)
      BY <3>1, <3>2, <3>3
    <3> QED BY <2>2, <3>1, <3>4
  <2>10. Cong(z, x.phase, n)
    <3>1. Divides(n, d0 + d1) /\ d0 + d1 \in Int
      BY <1>1, <2>7, DividesSum
    <3>2. Divides(n, 0 - (d0 + d1))
      <4>1. Divides(n, 0) /\ 0 \in Int
        BY <1>1, DividesBasics
      <4> QED BY <1>1, <3>1, <4>1, DividesSum, Zenon
    <3>3. 0 - (d0 + d1) = z - x.phase
      BY <1>1, <2>7
    <3> HIDE DEF z
    <3> QED BY <3>2, <3>3 DEF Cong
  <2>11. a \in Int /\ Ceiling(a, D) \in Int
    <3>1. a \in Int
      BY <1>1, <2>7 DEF Abs
    <3> QED BY <2>4, <3>1, CeilingFacts
  <2> HIDE DEF z, a
  <2>12. y \in Ctxt
    <3>1. x.set \ drop = x.set \cap s
      BY DEF drop
    <3>2. (x.phase - d0 - d1) \div D \in Int
      BY <2>2, <2>9 DEF z
    <3>3. Ceiling(x.noise + Abs(d0) + Abs(d1), D) \in Int
      BY <2>11 DEF a
    <3> QED BY <2>1, <2>3, <3>1, <3>2, <3>3 DEF WellFormed, Ctxt, d0, d1
  <2>13. WellFormed(y)
    BY <2>2, <2>12 DEF WellFormed
  <2>14. Decrypts(y)
    <3> DEFINE k == Multiplier(y)
    <3>1. Multiplier(x) = k * D /\ k \in Int
      <4>1. Product[x.set \cap s] \in Int
        BY <2>3, ProductSplit
      <4>2. (x.factor * Product[x.set \cap s]) * D = x.factor * (Product[x.set \cap s] * D)
        BY <1>1, <2>4, <4>1, IntRing
      <4>3. k \in Int
        BY <2>13, Fields
      <4> QED BY <2>2, <2>5, <4>2, <4>3 DEF Multiplier, Q
    <3> HIDE DEF k
    <3>2. Cong(x.phase, (k * D) * x.ptxt, n)
      BY <3>1 DEF Decrypts
    <3>3. (k * D) * x.ptxt = D * (k * x.ptxt) /\ k * x.ptxt \in Int /\ (k * D) * x.ptxt \in Int
      <4>1. k * D = D * k /\ (D * k) * x.ptxt = D * (k * x.ptxt) /\ k * x.ptxt \in Int
            /\ k * D \in Int
        BY <1>1, <2>4, <3>1, IntRing
      <4>2. (k * D) * x.ptxt \in Int
        BY <1>1, <4>1, IntRing
      <4> QED BY <4>1, <4>2
    <3>4. Cong(D * y.phase, D * (k * x.ptxt), n)
      <4>1. Cong(z, (k * D) * x.ptxt, n)
        BY <1>1, <2>8, <2>10, <3>2, <3>3, CongTrans
      <4> QED BY <2>9, <3>3, <4>1
    <3>5. Unit(D, n)
      BY <1>1, <2>4, SpaceFacts
    <3>6. Cong(y.phase, k * x.ptxt, n)
      BY <1>1, <2>4, <2>9, <3>3, <3>4, <3>5, UnitCancel
    <3> QED BY <2>2, <3>6 DEF Decrypts, k
  <2>15. ASSUME Bounded(x) PROVE Bounded(y)
    <3>1. Abs(z) =< a
      <4>1. Abs(x.phase - d0) =< Abs(x.phase) + Abs(d0) /\ x.phase - d0 \in Int
        BY <1>1, <2>7 DEF Abs
      <4>2. Abs(z) =< Abs(x.phase - d0) + Abs(d1)
        BY <2>7, <4>1, AbsFacts DEF z
      <4>3. /\ Abs(x.phase) \in Int /\ Abs(d0) \in Int /\ Abs(d1) \in Int
            /\ Abs(z) \in Int /\ Abs(x.phase - d0) \in Int
        BY <1>1, <2>7, <2>8, <4>1, AbsFacts
      <4> QED BY <1>1, <2>15, <4>1, <4>2, <4>3 DEF Bounded, a
    <3>2. Abs(y.phase) =< Ceiling(a, D)
      BY <2>4, <2>9, <2>11, <3>1, QuotientBound
    <3> QED BY <2>2, <3>2 DEF Bounded
  <2> QED BY <2>2, <2>13, <2>14, <2>15
<1> QED BY <1>2, <1>3

LEMMA BroughtGood ==
  ASSUME context \in Params, NEW x, WellFormed(x), Decrypts(x), NEW s \in PrimeSets,
         NEW y \in BroughtToSet(x, s)
  PROVE  /\ WellFormed(y) /\ Decrypts(y) /\ (Bounded(x) => Bounded(y))
         /\ y.space = x.space /\ y.set = s
<1> DEFINE u == ModUpToSet(x, s)
<1>1. /\ WellFormed(u) /\ Decrypts(u) /\ (Bounded(x) => Bounded(u))
      /\ u.space = x.space /\ u.set = x.set \cup s
  BY ModUpGood
<1>2. y \in ModDowns(u, s)
  BY DEF BroughtToSet
<1> HIDE DEF u
<1>3. u.set \cap s = s /\ s # {}
  BY <1>1 DEF PrimeSets
<1>4. u.set \cap s # {}
  BY <1>3
<1>5. /\ WellFormed(y) /\ Decrypts(y) /\ (Bounded(u) => Bounded(y))
      /\ y.space = u.space /\ y.set = u.set \cap s
  BY <1>1, <1>2, <1>4, ModDownsGood
<1> QED BY <1>1, <1>3, <1>5

-----------------------------------------------------------------------------
(* Sums. *)

LEMMA MatchedGood ==
  ASSUME context \in Params, NEW x, WellFormed(x), Decrypts(x),
         NEW y, WellFormed(y)
  PROVE  LET a == Matched(x, y) IN
         /\ WellFormed(a) /\ Decrypts(a) /\ (Bounded(x) => Bounded(a))
         /\ a.space = GCD(x.space, y.space) /\ a.set = x.set \cup y.set
<1> DEFINE r == ReducePtxtSpace(x, y.space)
<1>1. y.space \in PtxtSpaces /\ y.set \in PrimeSets
  BY Fields
<1>2. /\ WellFormed(r) /\ Decrypts(r) /\ (Bounded(x) => Bounded(r))
      /\ r.space = GCD(x.space, y.space) /\ r.set = x.set
  BY <1>1, ReducedGood
<1>3. Matched(x, y) = ModUpToSet(r, y.set)
  BY DEF Matched
<1> HIDE DEF r
<1> QED BY <1>1, <1>2, <1>3, ModUpGood

\* The factors that make the integer factors of x and y the same: e[1] is e[2] times the
\* ratio of the factors, and prime to the plaintext space.
Ratio(x, y) == (y.factor * InvMod(x.factor, x.space)) % x.space

Harmonious(e, x, y) ==
  /\ e \in (0 .. x.space - 1) \X (0 .. x.space - 1)
  /\ ~ Divides(P, e[1])
  /\ IsProduct(e[1], e[2], Ratio(x, y), x.space)

\* The states of the Euclidean algorithm.
EuclidStates(x, y) ==
  {s \in [r0 : Nat, r1 : Nat, t0 : Int, t1 : Int,
          best : (0 .. x.space - 1) \X (0 .. x.space - 1)] :
    /\ IsProduct(s.r0, s.t0, Ratio(x, y), x.space)
    /\ IsProduct(s.r1, s.t1, Ratio(x, y), x.space)
    /\ Harmonious(s.best, x, y)}

LEMMA RatioFacts ==
  ASSUME context \in Params, NEW x, WellFormed(x), NEW y, WellFormed(y), x.space = y.space
  PROVE  /\ Ratio(x, y) \in 0 .. x.space - 1 /\ Ratio(x, y) \in Int
         /\ ~ Divides(P, Ratio(x, y))
         /\ IsProduct(y.factor, Ratio(x, y), x.factor, x.space)
<1> DEFINE n == x.space
           i == InvMod(x.factor, n)
           c == y.factor * i
<1>1. /\ n \in PtxtSpaces /\ n \in Positive /\ n \in Int /\ x.factor \in Int /\ y.factor \in Int
      /\ ~ Divides(P, x.factor) /\ ~ Divides(P, y.factor)
  BY Fields DEF WellFormed
<1>2. i \in Int /\ Cong(x.factor * i, 1, n) /\ ~ Divides(P, i)
  BY <1>1, UnitInverse
<1> HIDE DEF i
<1>3. c \in Int /\ ~ Divides(P, c)
  BY <1>1, <1>2, IntRing, UnitsMultiply
<1> DEFINE r == Ratio(x, y)
<1>4. r = c % n
  BY DEF Ratio, i
<1> HIDE DEF r
<1>5. r \in 0 .. n - 1 /\ Cong(r, c, n) /\ ~ Divides(P, r)
  <2> HIDE DEF c
  <2> QED BY <1>1, <1>3, <1>4, DivMod, CongMod, ResidueOfUnit
<1>6. r \in Int
  BY <1>1, <1>5
<1>7. Cong(r * x.factor, c * x.factor, n)
  BY <1>1, <1>3, <1>5, <1>6, CongTimesOne
<1>8. c * x.factor = (x.factor * i) * y.factor
  <2>1. c * x.factor = y.factor * (i * x.factor) /\ i * x.factor = x.factor * i
        /\ x.factor * i \in Int
    BY <1>1, <1>2, IntRing
  <2>2. y.factor * (x.factor * i) = (x.factor * i) * y.factor
    BY <1>1, <2>1, IntRing
  <2> QED BY <2>1, <2>2
<1>9. Cong((x.factor * i) * y.factor, 1 * y.factor, n)
  <2>1. x.factor * i \in Int /\ 1 \in Int
    BY <1>1, <1>2, IntRing
  <2> QED BY <1>1, <1>2, <2>1, CongTimesOne, Zenon
<1>10. 1 * y.factor = y.factor /\ r * x.factor \in Int /\ c * x.factor \in Int
  BY <1>1, <1>3, <1>6, IntRing
<1>11. Cong(r * x.factor, y.factor, n)
  BY <1>1, <1>7, <1>8, <1>9, <1>10, CongTrans
<1>12. Cong(y.factor, r * x.factor, n)
  BY <1>1, <1>10, <1>11, CongSym
<1> QED BY <1>5, <1>6, <1>12 DEF IsProduct, r

LEMMA EuclidStarts ==
  ASSUME context \in Params, NEW x, WellFormed(x), NEW y, WellFormed(y), x.space = y.space
  PROVE  EuclidStart(x, y) \in EuclidStates(x, y)
<1> DEFINE r == Ratio(x, y)
           n == x.space
<1>1. n \in Positive /\ n \in Nat /\ n \in Int /\ n > 1
  BY Fields
<1>2. r \in 0 .. n - 1 /\ r \in Int /\ ~ Divides(P, r)
  BY RatioFacts
<1>3. EuclidStart(x, y) = [r0 |-> n, r1 |-> r, t0 |-> 0, t1 |-> 1, best |-> <<r, 1>>]
  BY DEF EuclidStart, Ratio
<1> HIDE DEF r
<1>4. IsProduct(r, 1, r, n)
  BY <1>1, <1>2, CongRefl, ProductOfOne
<1>5. IsProduct(n, 0, r, n)
  <2>1. 0 * r = 0
    BY <1>2, IntRing
  <2>2. Cong(n, 0, n)
    BY <1>1, CongZero, DividesBasics
  <2> QED BY <2>1, <2>2 DEF IsProduct
<1>6. <<r, 1>> \in (0 .. n - 1) \X (0 .. n - 1)
  BY <1>1, <1>2
<1>7. Harmonious(<<r, 1>>, x, y)
  BY <1>2, <1>4, <1>6 DEF Harmonious, r
<1>8. r \in Nat
  BY <1>1, <1>2
<1> QED BY <1>1, <1>2, <1>3, <1>4, <1>5, <1>6, <1>7, <1>8 DEF EuclidStates, r

LEMMA EuclidSteps ==
  ASSUME context \in Params, NEW x, WellFormed(x), NEW y, WellFormed(y), x.space = y.space,
         NEW s \in EuclidStates(x, y)
  PROVE  EuclidStep(x, y, s) \in EuclidStates(x, y)
<1> DEFINE g == Ratio(x, y)
           n == x.space
           q == s.r0 \div s.r1
           r == s.r0 % s.r1
           t == s.t0 - s.t1 * q
           e == <<r % n, t % n>>
           u == EuclidStep(x, y, s)
<1>1. n \in PtxtSpaces /\ n \in Positive /\ n \in Int /\ g \in Int
  BY Fields, RatioFacts
<1>2. /\ s.r0 \in Nat /\ s.r1 \in Nat /\ s.t0 \in Int /\ s.t1 \in Int
      /\ s.best \in (0 .. n - 1) \X (0 .. n - 1)
      /\ IsProduct(s.r0, s.t0, g, n) /\ IsProduct(s.r1, s.t1, g, n)
      /\ Harmonious(s.best, x, y)
  BY DEF EuclidStates
<1>3. CASE s.r1 = 0
  <2>1. u = s
    BY <1>3 DEF EuclidStep
  <2> QED BY <2>1
<1>4. CASE s.r1 # 0
  <2>1. s.r1 \in Positive /\ s.r1 \in Int /\ s.r0 \in Int
    BY <1>2, <1>4 DEF Positive
  <2>2. q \in Int /\ r \in Nat /\ s.r0 = s.r1 * q + r
    BY <2>1, DivMod
  <2>3. u = [r0 |-> s.r1, r1 |-> r, t0 |-> s.t1, t1 |-> t,
             best |-> IF Better(x, y, e, s.best) THEN e ELSE s.best]
    BY <1>4 DEF EuclidStep
  <2> HIDE DEF q, r
  <2>4. s.t1 * q \in Int /\ t \in Int /\ s.r1 * q \in Int /\ r = s.r0 - s.r1 * q /\ r \in Int
    <3>1. s.t1 * q \in Int /\ s.r1 * q \in Int
      BY <1>2, <2>1, <2>2, IntRing
    <3> QED BY <1>2, <2>1, <2>2, <3>1
  <2>5. IsProduct(r, t, g, n)
    <3>1. Cong(s.r1 * q, (s.t1 * g) * q, n) /\ s.t1 * g \in Int /\ s.t0 * g \in Int
      BY <1>1, <1>2, <2>1, <2>2, IntRing, CongTimesOne DEF IsProduct
    <3>2. (s.t1 * g) * q = (s.t1 * q) * g
      <4>1. (s.t1 * g) * q = s.t1 * (g * q) /\ g * q = q * g /\ s.t1 * (q * g) = (s.t1 * q) * g
        BY <1>1, <1>2, <2>2, IntRing
      <4> QED BY <4>1
    <3>3. (s.t1 * q) * g \in Int
      BY <1>1, <2>4, IntRing
    <3>4. Cong(s.r0 - s.r1 * q, s.t0 * g - (s.t1 * q) * g, n)
      BY <1>1, <1>2, <2>1, <2>4, <3>1, <3>2, <3>3, CongPlus DEF IsProduct
    <3>5. s.t0 * g - (s.t1 * q) * g = t * g
      BY <1>1, <1>2, <2>4, IntRing
    <3> QED BY <2>4, <3>4, <3>5 DEF IsProduct
  <2> HIDE DEF t
  <2>6. /\ r % n \in 0 .. n - 1 /\ Cong(r % n, r, n)
        /\ t % n \in 0 .. n - 1 /\ Cong(t, t % n, n)
    BY <1>1, <2>4, DivMod, CongMod
  <2>7. r % n \in Int /\ t % n \in Int
    BY <1>1, <2>6
  <2>8. IsProduct(r % n, t % n, g, n)
    <3>1. Cong(t * g, (t % n) * g, n)
      BY <1>1, <2>4, <2>6, <2>7, CongTimesOne
    <3>2. t * g \in Int /\ (t % n) * g \in Int
      BY <1>1, <2>4, <2>7, IntRing
    <3>3. Cong(r % n, t * g, n)
      BY <1>1, <2>4, <2>5, <2>6, <2>7, <3>2, CongTrans DEF IsProduct
    <3>4. Cong(r % n, (t % n) * g, n)
      BY <1>1, <2>7, <3>1, <3>2, <3>3, CongTrans
    <3> QED BY <3>4 DEF IsProduct
  <2>9. e \in (0 .. n - 1) \X (0 .. n - 1) /\ e[1] = r % n /\ e[2] = t % n
    BY <2>6
  <2> HIDE DEF e
  <2>10. ASSUME Better(x, y, e, s.best) PROVE Harmonious(e, x, y)
    <3>1. (r % n) % P # 0
      BY <2>9, <2>10 DEF Better
    <3>2. ~ Divides(P, r % n)
      <4>1. P \in Positive
        BY ContextFacts DEF Positive
      <4> QED BY <2>7, <3>1, <4>1, DividesMod
    <3> QED BY <2>8, <2>9, <3>2 DEF Harmonious
  <2>11. u.best \in (0 .. n - 1) \X (0 .. n - 1) /\ Harmonious(u.best, x, y)
    BY <1>2, <2>3, <2>9, <2>10
  <2>12. u \in [r0 : Nat, r1 : Nat, t0 : Int, t1 : Int,
                best : (0 .. n - 1) \X (0 .. n - 1)]
    BY <1>2, <2>2, <2>3, <2>4, <2>9
  <2>13. u.r0 = s.r1 /\ u.r1 = r /\ u.t0 = s.t1 /\ u.t1 = t
    BY <2>3
  <2> HIDE DEF u
  <2>14. u \in EuclidStates(x, y)
    BY <1>2, <2>5, <2>11, <2>12, <2>13 DEF EuclidStates
  <2> QED BY <2>14 DEF u
<1> QED BY <1>3, <1>4

\* The function of the number of steps that Euclid() defines is the one of its recursion.
LEMMA EuclidUnfolds ==
  ASSUME context \in Params, NEW x, WellFormed(x), NEW y, WellFormed(y), x.space = y.space
  PROVE  /\ Euclid(x, y)[0] = EuclidStart(x, y)
         /\ \A k \in Nat : Euclid(x, y)[k + 1] = EuclidStep(x, y, Euclid(x, y)[k])
<1> DEFINE A == EuclidStates(x, y)
           start == EuclidStart(x, y)
           step == [s \in A |-> EuclidStep(x, y, s)]
           Is(f) == f = [i \in Nat |-> IF i = 0 THEN start ELSE EuclidStep(x, y, f[i - 1])]
           g == Euclid(x, y)
<1>1. start \in A
  BY EuclidStarts
<1>2. \A s \in A : EuclidStep(x, y, s) \in A
  BY EuclidSteps
<1> HIDE DEF A, start
<1>3. step \in [A -> A] /\ \A s \in A : step[s] = EuclidStep(x, y, s)
  BY <1>2
<1> HIDE DEF step
<1>4. PICK f : IsIteration(f, A, start, step)
  BY <1>1, <1>3, Recursion
<1>5. f \in [Nat -> A] /\ f[0] = start /\ \A i \in Nat : f[i + 1] = step[f[i]]
  BY <1>4 DEF IsIteration
<1>6. Is(f)
  <2>1. ASSUME NEW i \in Nat, i # 0 PROVE f[i] = EuclidStep(x, y, f[i - 1])
    <3>1. i - 1 \in Nat /\ (i - 1) + 1 = i
      BY <2>1
    <3>2. f[i - 1] \in A
      BY <1>5, <3>1
    <3> QED BY <1>3, <1>5, <3>1, <3>2
  <2>2. f = [i \in Nat |-> f[i]]
    BY <1>5
  <2> QED BY <1>5, <2>1, <2>2
<1>7. g = CHOOSE h : Is(h)
  BY DEF Euclid, start
<1>8. Is(g)
  BY <1>6, <1>7
<1> HIDE DEF g, Is
<1>9. g = [i \in Nat |-> IF i = 0 THEN start ELSE EuclidStep(x, y, g[i - 1])]
  BY <1>8 DEF Is
<1>10. ASSUME NEW k \in Nat PROVE g[k + 1] = EuclidStep(x, y, g[k])
  <2>1. k + 1 \in Nat /\ k + 1 # 0 /\ (k + 1) - 1 = k
    OBVIOUS
  <2> QED BY <1>9, <2>1
<1>11. g[0] = start
  BY <1>9
<1> QED BY <1>10, <1>11 DEF g, start

LEMMA EuclidIsDefined ==
  ASSUME context \in Params, NEW x, WellFormed(x), NEW y, WellFormed(y), x.space = y.space,
         NEW k \in Nat
  PROVE  Euclid(x, y)[k] \in EuclidStates(x, y)
<1> DEFINE g == Euclid(x, y)
           S == {i \in Nat : g[i] \in EuclidStates(x, y)}
<1>1. g[0] = EuclidStart(x, y) /\ \A i \in Nat : g[i + 1] = EuclidStep(x, y, g[i])
  BY EuclidUnfolds
<1> HIDE DEF g
<1>2. 0 \in S
  BY <1>1, EuclidStarts
<1>3. \A i \in Nat : i \in S => i + 1 \in S
  BY <1>1, EuclidSteps
<1> HIDE DEF S
<1>4. k \in S
  BY <1>2, <1>3, Induction
<1> QED BY <1>4 DEF S, g

\* The assertions of addCtxt() hold: the chosen factors are units that make the integer
\* factors the same.
LEMMA HarmonizingGood ==
  ASSUME context \in Params, NEW x, WellFormed(x), NEW y, WellFormed(y), x.space = y.space
  PROVE  LET e == HarmonizingFactors(x, y) IN
         /\ e[1] \in 0 .. x.space - 1 /\ e[2] \in 0 .. x.space - 1
         /\ ~ Divides(P, e[1]) /\ ~ Divides(P, e[2])
         /\ (e[1] * x.factor) % x.space = (e[2] * y.factor) % x.space
         /\ Harmonizes(x, y, e)
<1> DEFINE e == HarmonizingFactors(x, y)
           n == x.space
           g == Ratio(x, y)
<1>1. /\ n \in PtxtSpaces /\ n \in Positive /\ n \in Int /\ n \in Nat /\ n > 1
      /\ x.factor \in Int /\ y.factor \in Int
  BY Fields
<1>2. ~ Divides(P, 1) /\ \A c \in Int : Unit(c, n) <=> ~ Divides(P, c)
  BY <1>1, SpaceFacts, OneIsUnit
<1>3. /\ e[1] \in 0 .. n - 1 /\ e[2] \in 0 .. n - 1
      /\ ~ Divides(P, e[1]) /\ ~ Divides(P, e[2])
      /\ (e[1] * x.factor) % n = (e[2] * y.factor) % n
  <2>1. CASE x.factor = y.factor
    <3>1. e[1] = 1 /\ e[2] = 1
      BY <2>1 DEF HarmonizingFactors
    <3> QED BY <1>1, <1>2, <2>1, <3>1
  <2>2. CASE x.factor # y.factor
    <3>1. e = Euclid(x, y)[n].best
      BY <2>2 DEF HarmonizingFactors
    <3>2. Harmonious(e, x, y)
      BY <1>1, <3>1, EuclidIsDefined DEF EuclidStates
    <3> HIDE DEF e
    <3>3. /\ e[1] \in 0 .. n - 1 /\ e[2] \in 0 .. n - 1 /\ ~ Divides(P, e[1])
          /\ Cong(e[1], e[2] * g, n)
      BY <3>2 DEF Harmonious, IsProduct
    <3>4. e[1] \in Int /\ e[2] \in Int /\ g \in Int /\ Cong(y.factor, g * x.factor, n)
      BY <1>1, <3>3, RatioFacts DEF IsProduct
    <3>5. e[2] * g \in Int /\ e[1] * x.factor \in Int /\ e[2] * y.factor \in Int
          /\ g * x.factor \in Int
      BY <1>1, <3>4, IntRing
    <3>6. ~ Divides(P, e[2])
      <4>1. Unit(e[1], n)
        BY <1>2, <3>3, <3>4
      <4>2. Unit(e[2] * g, n)
        BY <1>1, <3>3, <3>4, <3>5, <4>1, UnitCong
      <4>3. Unit(e[2], n)
        BY <1>1, <3>4, <4>2, UnitFactor
      <4> QED BY <1>2, <3>4, <4>3
    <3>7. Cong(e[1] * x.factor, (e[2] * g) * x.factor, n)
      BY <1>1, <3>3, <3>4, <3>5, CongTimesOne
    <3>8. (e[2] * g) * x.factor = e[2] * (g * x.factor) /\ (e[2] * g) * x.factor \in Int
      BY <1>1, <3>4, <3>5, IntRing
    <3>9. Cong(e[2] * y.factor, e[2] * (g * x.factor), n)
      BY <1>1, <3>4, <3>5, CongTimesOne
    <3>10. Cong(e[2] * (g * x.factor), e[2] * y.factor, n)
      BY <1>1, <3>5, <3>8, <3>9, CongSym
    <3>11. Cong(e[1] * x.factor, e[2] * y.factor, n)
      BY <1>1, <3>5, <3>7, <3>8, <3>10, CongTrans
    <3> QED BY <1>1, <3>3, <3>5, <3>6, <3>11, CongIffMod
  <2> QED BY <2>1, <2>2
<1> HIDE DEF e
<1>4. e[1] \in Int /\ e[2] \in Int
  BY <1>1, <1>3
<1>5. Coprime(e[1], n) /\ Coprime(e[2], n)
  BY <1>1, <1>2, <1>3, <1>4, CoprimeIsUnit
<1>6. Harmonizes(x, y, e)
  BY <1>3, <1>5 DEF Harmonizes
<1> QED BY <1>3, <1>6 DEF e

\* Two ciphertexts with the same plaintext space, primes and factor are added part by part.
LEMMA AlignedSumGood ==
  ASSUME context \in Params, NEW c, WellFormed(c), Decrypts(c), NEW d, WellFormed(d), Decrypts(d),
         c.space = d.space, c.set = d.set, c.factor = d.factor
  PROVE  LET y == [c EXCEPT !.phase = @ + d.phase, !.noise = @ + d.noise,
                            !.ptxt = (@ + d.ptxt) % c.space] IN
         WellFormed(y) /\ Decrypts(y) /\ (Bounded(c) /\ Bounded(d) => Bounded(y))
<1> DEFINE y == [c EXCEPT !.phase = @ + d.phase, !.noise = @ + d.noise,
                          !.ptxt = (@ + d.ptxt) % c.space]
           n == c.space
           k == Multiplier(c)
           m == c.ptxt + d.ptxt
<1>1. /\ n \in PtxtSpaces /\ n \in Positive /\ n \in Int
      /\ c.phase \in Int /\ c.ptxt \in Int /\ c.noise \in Int
      /\ d.phase \in Int /\ d.ptxt \in Int /\ d.noise \in Int
      /\ k \in Int /\ Multiplier(d) = k
  <2>1. Multiplier(d) = k
    BY DEF Multiplier, Q
  <2>2. /\ n \in PtxtSpaces /\ n \in Positive /\ n \in Int
        /\ c.phase \in Int /\ c.ptxt \in Int /\ c.noise \in Int /\ k \in Int
    BY Fields
  <2>3. d.phase \in Int /\ d.ptxt \in Int /\ d.noise \in Int
    BY Fields
  <2> QED BY <2>1, <2>2, <2>3
<1>2. /\ y.phase = c.phase + d.phase /\ y.ptxt = m % n /\ y.space = n
      /\ y.factor = c.factor /\ y.set = c.set /\ y.noise = c.noise + d.noise
  BY DEF WellFormed, Ctxt
<1>3. m \in Int
  BY <1>1
<1>4. m % n \in Nat /\ m % n \in 0 .. n - 1 /\ Cong(m, m % n, n)
  <2> HIDE DEF m
  <2> QED BY <1>1, <1>3, DivMod, CongMod
<1>5. y \in Ctxt
  <2>1. c.phase + d.phase \in Int /\ c.noise + d.noise \in Int
    BY <1>1
  <2> QED BY <1>4, <2>1 DEF WellFormed, Ctxt
<1> HIDE DEF y, k, m
<1>6. WellFormed(y)
  <2>1. y.factor < y.space /\ y.ptxt < y.space
    BY <1>1, <1>2, <1>4 DEF WellFormed
  <2> QED BY <1>2, <1>5, <2>1 DEF WellFormed
<1>7. Decrypts(y)
  <2>1. k * c.ptxt \in Int /\ k * d.ptxt \in Int /\ k * m \in Int /\ k * (m % n) \in Int
        /\ m % n \in Int
    BY <1>1, <1>3, <1>4, IntRing
  <2>2. Cong(c.phase + d.phase, k * c.ptxt + k * d.ptxt, n)
    BY <1>1, <2>1, CongPlus DEF Decrypts, k
  <2>3. k * c.ptxt + k * d.ptxt = k * m
    BY <1>1, IntRing DEF m
  <2>4. Cong(k * m, k * (m % n), n)
    BY <1>1, <1>3, <1>4, <2>1, CongTimesOne
  <2>5. c.phase + d.phase \in Int
    BY <1>1
  <2>6. Cong(c.phase + d.phase, k * (m % n), n)
    BY <1>1, <2>1, <2>2, <2>3, <2>4, <2>5, CongTrans
  <2>7. Multiplier(y) = k
    BY <1>2 DEF Multiplier, Q, k
  <2> QED BY <1>2, <2>6, <2>7 DEF Decrypts
<1>8. ASSUME Bounded(c), Bounded(d) PROVE Bounded(y)
  <2>1. Abs(c.phase + d.phase) =< c.noise + d.noise
    BY <1>1, <1>8 DEF Bounded, Abs
  <2> QED BY <1>2, <2>1 DEF Bounded
<1> QED BY <1>6, <1>7, <1>8 DEF y

LEMMA SumGood ==
  ASSUME context \in Params, NEW x, WellFormed(x), Decrypts(x), NEW y, WellFormed(y), Decrypts(y),
         NEW neg \in BOOLEAN
  PROVE  LET z == Sum(x, y, neg)
             a == Matched(x, y)
             b == Matched(y, x)
         IN /\ WellFormed(z) /\ Decrypts(z) /\ (Bounded(x) /\ Bounded(y) => Bounded(z))
            /\ Harmonizes(a, b, HarmonizingFactors(a, b))
<1> DEFINE a == Matched(x, y)
           b == Matched(y, x)
           e == HarmonizingFactors(a, b)
           c == MulIntFactor(a, e[1])
           d == MulIntFactor(b, e[2])
           h == IF neg THEN Negated(d) ELSE d
<1>1. /\ WellFormed(a) /\ Decrypts(a) /\ (Bounded(x) => Bounded(a))
      /\ a.space = GCD(x.space, y.space) /\ a.set = x.set \cup y.set
  BY MatchedGood
<1>2. /\ WellFormed(b) /\ Decrypts(b) /\ (Bounded(y) => Bounded(b))
      /\ b.space = GCD(y.space, x.space) /\ b.set = y.set \cup x.set
  BY MatchedGood
<1>3. a.space = b.space /\ a.set = b.set
  <2>1. x.space \in PtxtSpaces /\ y.space \in PtxtSpaces
    BY Fields
  <2>2. a.set = b.set
    BY <1>1, <1>2
  <2> QED BY <1>1, <1>2, <2>1, <2>2, CommonSpace
<1>4. Sum(x, y, neg) = [c EXCEPT !.phase = @ + h.phase, !.noise = @ + h.noise,
                                 !.ptxt = (@ + h.ptxt) % c.space]
  BY DEF Sum
<1> HIDE DEF a, b
<1>5. /\ e[1] \in 0 .. a.space - 1 /\ e[2] \in 0 .. b.space - 1
      /\ ~ Divides(P, e[1]) /\ ~ Divides(P, e[2])
      /\ (e[1] * a.factor) % a.space = (e[2] * b.factor) % a.space
      /\ Harmonizes(a, b, e)
  BY <1>1, <1>2, <1>3, HarmonizingGood
<1> HIDE DEF e
<1>6. /\ WellFormed(c) /\ Decrypts(c) /\ (Bounded(a) => Bounded(c))
      /\ c.space = a.space /\ c.set = a.set /\ c.factor = (a.factor * e[1]) % a.space
  BY <1>1, <1>5, MulIntFactorGood
<1>7. /\ WellFormed(d) /\ Decrypts(d) /\ (Bounded(b) => Bounded(d))
      /\ d.space = b.space /\ d.set = b.set /\ d.factor = (b.factor * e[2]) % b.space
  BY <1>2, <1>5, MulIntFactorGood
<1>8. c.factor = d.factor
  <2>1. a.factor \in Int /\ a.space \in Int
    BY <1>1, Fields
  <2>2. b.factor \in Int /\ b.space \in Int
    BY <1>2, Fields
  <2>3. e[1] \in Int /\ e[2] \in Int
    BY <1>5, <2>1, <2>2
  <2>4. a.factor * e[1] = e[1] * a.factor /\ b.factor * e[2] = e[2] * b.factor
    BY <2>1, <2>2, <2>3, IntRing
  <2> QED BY <1>3, <1>5, <1>6, <1>7, <2>4
<1> HIDE DEF c, d
<1>9. /\ WellFormed(h) /\ Decrypts(h) /\ (Bounded(d) => Bounded(h))
      /\ h.space = d.space /\ h.set = d.set /\ h.factor = d.factor
  <2>1. CASE neg
    <3>1. WellFormed(Negated(d)) /\ Decrypts(Negated(d)) /\ (Bounded(d) => Bounded(Negated(d)))
      BY <1>7, NegatedGood
    <3>2. Negated(d).space = d.space /\ Negated(d).set = d.set /\ Negated(d).factor = d.factor
      BY <1>7 DEF Negated, WellFormed, Ctxt
    <3> QED BY <2>1, <3>1, <3>2
  <2>2. CASE ~ neg
    BY <1>7, <2>2
  <2> QED BY <2>1, <2>2
<1> HIDE DEF h
<1> DEFINE z == [c EXCEPT !.phase = @ + h.phase, !.noise = @ + h.noise,
                          !.ptxt = (@ + h.ptxt) % c.space]
<1>10. WellFormed(z) /\ Decrypts(z) /\ (Bounded(c) /\ Bounded(h) => Bounded(z))
  BY <1>3, <1>6, <1>7, <1>8, <1>9, AlignedSumGood
<1>11. z = Sum(x, y, neg)
  BY <1>4
<1> HIDE DEF z
<1>12. Bounded(x) /\ Bounded(y) => Bounded(z)
  BY <1>1, <1>2, <1>6, <1>7, <1>9, <1>10
<1> QED BY <1>5, <1>10, <1>11, <1>12 DEF a, b, e

-----------------------------------------------------------------------------
(* Products. *)

LEMMA TensorGood ==
  ASSUME context \in Params, NEW x, WellFormed(x), Decrypts(x), NEW y, WellFormed(y), Decrypts(y),
         x.space = y.space, x.set = y.set
  PROVE  LET z == TensorProduct(x, y) IN
         WellFormed(z) /\ Decrypts(z) /\ (Bounded(x) /\ Bounded(y) => Bounded(z))
<1> DEFINE z == TensorProduct(x, y)
           n == x.space
           q == Q(x)
           f == x.factor * y.factor
           m == x.ptxt * y.ptxt
           f2 == IF n > 2 THEN ((f % n) * (q % n)) % n ELSE 1
           k == Multiplier(x)
           l == Multiplier(y)
<1>1. /\ n \in PtxtSpaces /\ n \in Positive /\ n \in Int /\ n > 1 /\ q \in Int
      /\ x.phase \in Int /\ x.ptxt \in Int /\ x.noise \in Int /\ x.factor \in Int /\ k \in Int
      /\ ~ Divides(P, q) /\ ~ Divides(P, x.factor)
  BY Fields DEF WellFormed
<1>2. /\ y.phase \in Int /\ y.ptxt \in Int /\ y.noise \in Int /\ y.factor \in Int /\ l \in Int
      /\ ~ Divides(P, y.factor)
  BY Fields DEF WellFormed
<1>3. /\ z.phase = x.phase * y.phase /\ z.ptxt = m % n /\ z.space = n
      /\ z.factor = f2 /\ z.set = x.set /\ z.noise = x.noise * y.noise
  BY DEF TensorProduct, WellFormed, Ctxt
<1>4. /\ f \in Int /\ m \in Int /\ f * q \in Int /\ ~ Divides(P, f) /\ ~ Divides(P, f * q)
  <2>1. f \in Int /\ m \in Int /\ ~ Divides(P, f)
    BY <1>1, <1>2, IntRing, UnitsMultiply
  <2> HIDE DEF f
  <2> QED BY <1>1, <2>1, IntRing, UnitsMultiply
<1>5. m % n \in Nat /\ m % n \in 0 .. n - 1 /\ Cong(m, m % n, n)
  <2> HIDE DEF m
  <2> QED BY <1>1, <1>4, DivMod, CongMod
<1>6. f2 \in Nat /\ f2 < n /\ Cong(f2, f * q, n)
  <2> HIDE DEF f, q
  <2>1. CASE n > 2
    <3> DEFINE a == f % n
               b == q % n
    <3>1. a \in Int /\ Cong(a, f, n) /\ b \in Int /\ Cong(b, q, n)
      <4>1. a \in Nat /\ b \in Nat
        BY <1>1, <1>4, DivMod
      <4>2. Cong(a, f, n) /\ Cong(b, q, n)
        BY <1>1, <1>4, CongMod
      <4> QED BY <4>1, <4>2
    <3>2. f2 = (a * b) % n
      BY <2>1
    <3> HIDE DEF a, b
    <3>3. a * b \in Int /\ Cong(a * b, f * q, n)
      BY <1>1, <1>4, <3>1, IntRing, CongTimes
    <3>4. f2 \in Nat /\ f2 \in 0 .. n - 1 /\ Cong(f2, a * b, n)
      <4> DEFINE c == a * b
      <4>1. c \in Int
        BY <3>3
      <4> HIDE DEF c
      <4>2. c % n \in Nat /\ c % n \in 0 .. n - 1 /\ Cong(c % n, c, n)
        BY <1>1, <4>1, DivMod, CongMod
      <4> QED BY <3>2, <4>2 DEF c
    <3> HIDE DEF f2
    <3>5. f2 \in Int /\ f2 < n
      BY <1>1, <3>4
    <3> QED BY <1>1, <1>4, <3>3, <3>4, <3>5, CongTrans
  <2>2. CASE n = 2
    <3>1. f2 = 1
      BY <2>2
    <3>2. P = 2
      <4>1. P \in Nat /\ P > 1 /\ n >= P
        BY <1>1, ContextFacts, SpaceFacts
      <4> QED BY <2>2, <4>1
    <3>3. 2 \in Positive
      BY DEF Positive
    <3> DEFINE c == f * q
    <3>4. c \in Int /\ ~ Divides(2, c)
      BY <1>4, <3>2
    <3> HIDE DEF c
    <3>5. c % 2 # 0
      BY <3>3, <3>4, DividesMod
    <3>6. 1 % 2 = c % 2
      BY <3>4, <3>5
    <3>7. Cong(1, c, 2)
      BY <3>3, <3>4, <3>6, CongIffMod
    <3> QED BY <2>2, <3>1, <3>7 DEF c
  <2> QED BY <1>1, <2>1, <2>2
<1>7. ~ Divides(P, f2)
  <2> HIDE DEF f, q, f2
  <2>1. f2 \in Int /\ \A c \in Int : Unit(c, n) <=> ~ Divides(P, c)
    BY <1>1, <1>6, SpaceFacts
  <2>2. Cong(f * q, f2, n)
    BY <1>1, <1>4, <1>6, <2>1, CongSym
  <2>3. Unit(f2, n)
    BY <1>1, <1>4, <2>1, <2>2, UnitCong
  <2> QED BY <2>1, <2>3
<1>8. z \in Ctxt
  <2> HIDE DEF f2, m
  <2>1. x.phase * y.phase \in Int /\ x.noise * y.noise \in Int
    BY <1>1, <1>2, IntRing
  <2>2. z = [x EXCEPT !.phase = x.phase * y.phase, !.noise = x.noise * y.noise,
                      !.factor = f2, !.ptxt = m % n]
    BY DEF TensorProduct, f2, m, WellFormed, Ctxt
  <2> QED BY <1>5, <1>6, <2>1, <2>2 DEF WellFormed, Ctxt
<1> HIDE DEF z, f2, m, q, k, l
<1>9. WellFormed(z)
  <2>1. z.factor < z.space /\ z.ptxt < z.space
    BY <1>1, <1>3, <1>5, <1>6
  <2> QED BY <1>3, <1>7, <1>8, <2>1 DEF WellFormed
<1>10. Decrypts(z)
  <2>1. Cong(Multiplier(z), k * l, n)
    <3>1. Multiplier(z) = f2 * q
      BY <1>3 DEF Multiplier, Q, q
    <3>2. Cong(f2 * q, (f * q) * q, n)
      <4>1. f2 \in Int
        BY <1>6
      <4> QED BY <1>1, <1>4, <1>6, <4>1, CongTimesOne
    <3>3. (f * q) * q = f * (q * q)
      <4> HIDE DEF f
      <4> QED BY <1>1, <1>4, IntRing
    <3>4. f * (q * q) = (x.factor * q) * (y.factor * q)
      BY <1>1, <1>2, FourFactors
    <3>5. k = x.factor * q /\ l = y.factor * q
      BY DEF k, l, Multiplier, Q, q
    <3> QED BY <3>1, <3>2, <3>3, <3>4, <3>5
  <2>2. Cong(x.phase, k * x.ptxt, n) /\ Cong(y.phase, l * y.ptxt, n)
    BY DEF Decrypts, k, l
  <2>3. /\ k * l \in Int /\ k * x.ptxt \in Int /\ l * y.ptxt \in Int /\ x.phase * y.phase \in Int
        /\ z.ptxt \in Int /\ Multiplier(z) \in Int
    <3>1. z.ptxt \in Int /\ Multiplier(z) \in Int
      BY <1>9, Fields
    <3> QED BY <1>1, <1>2, <3>1, IntRing
  <2>4. Cong(x.phase * y.phase, (k * x.ptxt) * (l * y.ptxt), n)
    BY <1>1, <1>2, <2>2, <2>3, CongTimes
  <2>5. (k * x.ptxt) * (l * y.ptxt) = (k * l) * m
    BY <1>1, <1>2, FourFactors DEF m
  <2>6. Cong(m, z.ptxt, n) /\ Cong(k * l, Multiplier(z), n)
    BY <1>1, <1>3, <1>5, <2>1, <2>3, CongSym
  <2>7. Cong((k * l) * m, Multiplier(z) * z.ptxt, n)
    BY <1>1, <1>4, <2>3, <2>6, CongTimes
  <2>8. (k * l) * m \in Int /\ Multiplier(z) * z.ptxt \in Int
    BY <1>4, <2>3, IntRing
  <2>9. Cong(x.phase * y.phase, Multiplier(z) * z.ptxt, n)
    BY <1>1, <2>3, <2>4, <2>5, <2>7, <2>8, CongTrans
  <2> QED BY <1>3, <2>9 DEF Decrypts
<1>11. ASSUME Bounded(x), Bounded(y) PROVE Bounded(z)
  <2>1. Abs(x.phase * y.phase) = Abs(x.phase) * Abs(y.phase)
    BY <1>1, <1>2, AbsTimes
  <2>2. Abs(x.phase) \in Nat /\ Abs(y.phase) \in Nat
    BY <1>1, <1>2, AbsFacts
  <2>3. Abs(x.phase) * Abs(y.phase) =< x.noise * y.noise
    BY <1>1, <1>2, <1>11, <2>2, TimesBound DEF Bounded
  <2> QED BY <1>3, <2>1, <2>3 DEF Bounded
<1> QED BY <1>9, <1>10, <1>11 DEF z

\* What is left of a number when its common divisor d with the plaintext space is divided
\* out is prime to the space: d < n, so that p * d divides n too.
LEMMA CofactorUnit ==
  ASSUME context \in Params, NEW n \in PtxtSpaces, NEW a \in 1 .. n - 1
  PROVE  LET d == GCD(a, n) IN
         d \in 0 .. n - 1 /\ a = d * (a \div d) /\ a \div d \in Int /\ ~ Divides(P, a \div d)
<1> DEFINE d == GCD(a, n)
           u == a \div d
<1>1. n \in Positive /\ n \in Int /\ n > 1 /\ n \in Nat
  BY SpaceFacts
<1>2. a \in Int /\ a \in Positive
  BY <1>1 DEF Positive
<1>3. /\ d \in 1 .. n /\ Divides(d, a) /\ Divides(d, n)
      /\ \A e \in 1 .. n : Divides(e, a) /\ Divides(e, n) => e =< d
  BY <1>1, <1>2, GCDFacts
<1> HIDE DEF d
<1>4. d \in Nat /\ d \in Positive /\ d \in Int
  BY <1>1, <1>3 DEF Positive
<1>5. d =< a
  <2>1. d \in 1 .. a
    BY <1>2, <1>3, <1>4, DivisorBound
  <2> QED BY <2>1
<1>6. u \in Int /\ a = d * u
  <2>1. u \in Int /\ a % d \in Nat /\ a = d * u + (a % d)
    BY <1>2, <1>4, DivMod
  <2>2. a % d = 0
    BY <1>2, <1>3, <1>4, DividesMod
  <2>3. d * u \in Int
    BY <1>4, <2>1, IntRing
  <2> QED BY <2>1, <2>2, <2>3
<1> HIDE DEF u
<1>7. ASSUME Divides(P, u) PROVE FALSE
  <2>1. P \in Nat /\ P > 1 /\ P \in Int /\ IsPrime(P)
    BY ContextFacts
  <2>2. PICK l \in Int : n = d * l
    BY <1>3 DEF Divides
  <2>3. l > 1
    <3>1. ASSUME l =< 1 PROVE FALSE
      <4>1. d * l =< d * 1
        BY <1>4, <2>2, <3>1 DEF Positive
      <4>2. d * 1 = d
        BY <1>4
      <4> QED BY <1>1, <1>2, <1>4, <1>5, <2>2, <4>1, <4>2
    <3> QED BY <2>2, <3>1
  <2>4. Divides(P, l)
    <3>1. Divides(l, n)
      <4>1. d * l = l * d
        BY <1>4, <2>2, IntRing
      <4> QED BY <1>4, <2>2, <4>1 DEF Divides
    <3>2. PICK i \in 1 .. context[2] : n = PowersOf(P)[i]
      BY DEF PtxtSpaces
    <3>3. i \in Nat /\ l \in Nat
      BY <2>2, <2>3, ContextFacts
    <3> QED BY <2>1, <2>3, <3>1, <3>2, <3>3, DivisorOfPower
  <2>5. Divides(d * P, n) /\ Divides(d * P, a)
    <3>1. PICK j \in Int : l = P * j
      BY <2>4 DEF Divides
    <3>2. PICK h \in Int : u = P * h
      BY <1>7 DEF Divides
    <3>3. d * (P * j) = (d * P) * j /\ d * (P * h) = (d * P) * h
      BY <1>4, <2>1, <3>1, <3>2, IntRing
    <3> QED BY <1>6, <2>2, <3>1, <3>2, <3>3 DEF Divides
  <2>6. d * P \in Nat /\ d * P > d
    BY <1>3, <1>4, <2>1
  <2>7. d * P \in 1 .. n
    BY <1>1, <2>5, <2>6, DivisorBound
  <2> QED BY <1>3, <1>4, <2>5, <2>6, <2>7
<1>8. d \in 0 .. n - 1
  BY <1>1, <1>2, <1>4, <1>5
<1> QED BY <1>6, <1>7, <1>8 DEF d, u

LEMMA FactorTimes ==
  ASSUME context \in Params, NEW x, WellFormed(x), NEW e \in Int, ~ Divides(P, e)
  PROVE  LET f == (x.factor * e) % x.space IN
         /\ f \in Nat /\ f < x.space /\ ~ Divides(P, f)
         /\ IsProduct(f * Q(x), Multiplier(x), e, x.space)
<1> DEFINE n == x.space
           c == x.factor * e
           f == c % n
<1>1. /\ n \in PtxtSpaces /\ n \in Positive /\ n \in Int /\ x.factor \in Int /\ Q(x) \in Int
      /\ ~ Divides(P, x.factor)
  BY Fields DEF WellFormed
<1>2. c \in Int /\ ~ Divides(P, c)
  BY <1>1, IntRing, UnitsMultiply
<1>3. c * Q(x) = Multiplier(x) * e
  <2>1. c * Q(x) = x.factor * (e * Q(x)) /\ e * Q(x) = Q(x) * e
        /\ x.factor * (Q(x) * e) = (x.factor * Q(x)) * e
    BY <1>1, IntRing
  <2> QED BY <2>1 DEF Multiplier
<1> HIDE DEF c
<1>4. f \in Nat /\ f \in 0 .. n - 1 /\ Cong(f, c, n) /\ ~ Divides(P, f)
  BY <1>1, <1>2, DivMod, CongMod, ResidueOfUnit
<1> HIDE DEF f
<1>5. f \in Int /\ f < n
  BY <1>1, <1>4
<1>6. Cong(f * Q(x), c * Q(x), n)
  BY <1>1, <1>2, <1>4, <1>5, CongTimesOne
<1> QED BY <1>3, <1>4, <1>5, <1>6 DEF IsProduct, f, c

\* Multiplication by a constant: the part of it that is prime to the plaintext space goes
\* into the factor, the rest into the parts.
LEMMA MultipliedGood ==
  ASSUME context \in Params, NEW x, WellFormed(x), Decrypts(x), NEW k \in Int
  PROVE  LET y == Multiplied(x, k) IN
         WellFormed(y) /\ Decrypts(y) /\ (Bounded(x) => Bounded(y))
<1> DEFINE y == Multiplied(x, k)
           n == x.space
           c0 == k % n
<1>1. /\ n \in PtxtSpaces /\ n \in Positive /\ n \in Int /\ n > 1
      /\ x.phase \in Int /\ x.ptxt \in Int /\ x.noise \in Int /\ x.factor \in Int
      /\ Multiplier(x) \in Int
  BY Fields
<1>2. c0 \in 0 .. n - 1 /\ Cong(k, c0, n)
  BY <1>1, DivMod, CongMod
<1>3. CASE c0 = 1
  <2>1. y = x
    BY <1>3 DEF Multiplied
  <2> QED BY <2>1
<1>4. CASE c0 = 0
  <2>1. y = Cleared(n)
    BY <1>4 DEF Multiplied
  <2> QED BY <1>1, <2>1, ClearedGood
<1>5. CASE c0 # 0 /\ c0 # 1
  <2> DEFINE d == GCD(c0, n)
             u == c0 \div d
             i == InvMod(u, n)
             b == BalRem(d, n)
             f == (x.factor * i) % n
             m == x.ptxt * k
  <2>1. y = [x EXCEPT !.factor = f, !.phase = x.phase * b, !.noise = x.noise * Abs(b),
                      !.ptxt = m % n]
    BY <1>5 DEF Multiplied, WellFormed, Ctxt
  <2>2. c0 \in 1 .. n - 1 /\ c0 \in Int
    BY <1>1, <1>2, <1>5
  <2> HIDE DEF c0
  <2>3. d \in 0 .. n - 1 /\ c0 = d * u /\ u \in Int /\ ~ Divides(P, u)
    BY <1>1, <2>2, CofactorUnit
  <2> HIDE DEF u, d
  <2>4. i \in Int /\ Cong(u * i, 1, n) /\ ~ Divides(P, i)
    BY <1>1, <2>3, UnitInverse
  <2> HIDE DEF i
  <2>5. b \in Int /\ Cong(b, d, n) /\ Abs(b) \in Nat /\ d \in Int
    BY <1>1, <2>3, BalRemFacts
  <2> HIDE DEF b
  <2>6. f \in Nat /\ f < n /\ ~ Divides(P, f) /\ IsProduct(f * Q(x), Multiplier(x), i, n)
    BY <2>4, FactorTimes
  <2> HIDE DEF f
  <2>7. m \in Int /\ x.phase * b \in Int /\ x.noise * Abs(b) \in Int
    BY <1>1, <2>5, IntRing
  <2>8. m % n \in Nat /\ m % n \in 0 .. n - 1 /\ Cong(m % n, m, n) /\ m % n < n
    <3> HIDE DEF m
    <3>1. m % n \in Nat /\ m % n \in 0 .. n - 1 /\ Cong(m % n, m, n)
      BY <1>1, <2>7, DivMod, CongMod
    <3> QED BY <1>1, <3>1
  <2>9. IsProduct(m % n, x.ptxt, k, n)
    BY <2>8 DEF IsProduct
  <2> HIDE DEF m
  <2>10. /\ y.phase = x.phase * b /\ y.ptxt = m % n /\ y.space = n
         /\ y.factor = f /\ y.set = x.set /\ y.noise = x.noise * Abs(b)
    BY <2>1 DEF WellFormed, Ctxt
  <2>11. y \in Ctxt
    BY <2>1, <2>6, <2>7, <2>8 DEF WellFormed, Ctxt
  <2> HIDE DEF y
  <2>12. WellFormed(y)
    BY <2>6, <2>8, <2>10, <2>11 DEF WellFormed
  <2>13. IsProduct(b, i, k, n)
    <3>1. Cong(i * k, i * c0, n)
      BY <1>1, <1>2, <2>2, <2>4, CongTimesOne DEF c0
    <3>2. i * (d * u) = (u * i) * d
      <4>1. d * u = u * d /\ i * (u * d) = (i * u) * d /\ i * u = u * i
        BY <2>3, <2>4, <2>5, IntRing
      <4> QED BY <4>1
    <3>3. Cong((u * i) * d, 1 * d, n) /\ u * i \in Int
      <4>1. u * i \in Int /\ 1 \in Int
        BY <2>3, <2>4, IntRing
      <4> QED BY <1>1, <2>4, <2>5, <4>1, CongTimesOne, Zenon
    <3>4. 1 * d = d /\ i * k \in Int /\ (u * i) * d \in Int
      BY <2>4, <2>5, <3>3, IntRing
    <3>5. Cong(i * k, d, n)
      BY <1>1, <2>3, <2>5, <3>1, <3>2, <3>3, <3>4, CongTrans
    <3>6. Cong(d, i * k, n)
      BY <1>1, <2>5, <3>4, <3>5, CongSym
    <3> QED BY <1>1, <2>5, <3>4, <3>6, CongTrans DEF IsProduct
  <2>14. Decrypts(y)
    <3>1. IsProduct(x.phase, Multiplier(x), x.ptxt, n)
      BY DEF Decrypts, IsProduct
    <3>2. IsProduct(Multiplier(y), Multiplier(x), i, n) /\ Multiplier(y) \in Int
      <4>1. Multiplier(y) = f * Q(x)
        BY <2>10 DEF Multiplier, Q
      <4>2. Multiplier(y) \in Int
        BY <2>12, Fields
      <4> QED BY <2>6, <4>1, <4>2
    <3>3. IsProduct(y.phase, x.phase, b, n) /\ y.phase \in Int /\ y.ptxt \in Int
      <4>1. y.phase \in Int /\ y.ptxt \in Int
        BY <2>12, Fields
      <4> QED BY <1>1, <2>7, <2>10, <4>1, CongRefl DEF IsProduct
    <3>4. IsProduct(y.ptxt, x.ptxt, k, n)
      BY <2>9, <2>10
    <3>5. IsProduct(y.phase, Multiplier(y), y.ptxt, n)
      BY <1>1, <2>4, <2>5, <2>13, <3>1, <3>2, <3>3, <3>4, ScaledMultiple
    <3> QED BY <2>10, <3>5 DEF Decrypts, IsProduct
  <2>15. ASSUME Bounded(x) PROVE Bounded(y)
    <3>1. Abs(y.phase) = Abs(x.phase) * Abs(b)
      <4>1. Abs(x.phase * b) = Abs(x.phase) * Abs(b)
        BY <1>1, <2>5, AbsTimes
      <4> QED BY <2>10, <4>1
    <3>2. Abs(x.phase) =< x.noise /\ Abs(x.phase) \in Nat /\ Abs(b) \in Int
      BY <1>1, <2>5, <2>15, AbsFacts DEF Bounded
    <3>3. Abs(x.phase) * Abs(b) =< x.noise * Abs(b)
      BY <1>1, <2>5, <3>2, TimesBound
    <3> QED BY <2>10, <3>1, <3>3 DEF Bounded
  <2> QED BY <2>12, <2>14, <2>15 DEF y
<1> QED BY <1>3, <1>4, <1>5

-----------------------------------------------------------------------------
(* Encryption, constants that are added, and division by the prime.        *)

LEMMA BalancedFacts ==
  ASSUME NEW n \in Positive, NEW a \in Int, NEW b \in Balanced(a, n)
  PROVE  b \in Int /\ Cong(b, a, n) /\ 2 * Abs(b) =< n
<1>1. n \in Int /\ a - n \in Int
  BY DEF Positive
<1>2. Cong(a, a, n) /\ Cong(a - n, a, n)
  <2>1. Cong(a, a, n) /\ Cong(n, 0, n)
    BY <1>1, CongRefl, CongZero, DividesBasics
  <2>2. Cong(a - n, a - 0, n) /\ a - 0 = a
    BY <1>1, <2>1, CongPlus
  <2> QED BY <2>1, <2>2
<1>3. b \in {a, a - n} /\ 2 * Abs(b) =< n
  BY DEF Balanced
<1> QED BY <1>1, <1>2, <1>3

LEMMA EncryptionsGood ==
  ASSUME context \in Params, NEW n \in PtxtSpaces, NEW m \in Int, NEW x \in Encryptions(m, n)
  PROVE  WellFormed(x) /\ Decrypts(x) /\ Bounded(x)
<1> DEFINE q == Product[CtxtPrimes]
           c == m * (q % n)
<1>1. n \in Positive /\ n \in Int /\ n > 1 /\ n \in Nat /\ ~ Divides(P, 1)
  BY SpaceFacts, OneIsUnit
<1>2. ErrorBound \in Nat /\ CtxtPrimes \in PrimeSets /\ CtxtPrimes \in SUBSET Primes
  BY NumbersAssumption DEF PrimeSets, Primes
<1>3. q \in Int
  BY <1>2, ProductSplit
<1> HIDE DEF q
<1>4. PICK b \in Balanced(c % n, n), e \in -ErrorBound .. ErrorBound :
        x = [Cleared(n) EXCEPT !.empty = FALSE, !.ptxt = m % n, !.phase = b + n * e,
                               !.noise = n \div 2 + n * ErrorBound]
  <2>1. x \in {Encryption(m, n, b, e) : b \in Balanced(c % n, n),
                                       e \in -ErrorBound .. ErrorBound}
    BY DEF Encryptions, q
  <2>2. PICK b \in Balanced(c % n, n), e \in -ErrorBound .. ErrorBound :
          x = Encryption(m, n, b, e)
    BY <2>1
  <2> QED BY <2>2 DEF Encryption
<1>5. q % n \in Int /\ Cong(q % n, q, n)
  BY <1>1, <1>3, DivMod, CongMod
<1>6. c \in Int
  BY <1>5, IntRing
<1>7. c % n \in Int /\ Cong(c % n, c, n)
  <2> HIDE DEF c
  <2> QED BY <1>1, <1>6, DivMod, CongMod
<1>8. b \in Int /\ Cong(b, c % n, n) /\ 2 * Abs(b) =< n
  BY <1>1, <1>7, BalancedFacts
<1>9. m % n \in Nat /\ m % n \in 0 .. n - 1 /\ Cong(m, m % n, n)
  BY <1>1, DivMod, CongMod
<1>10. e \in Int /\ n * e \in Int /\ b + n * e \in Int /\ n \div 2 + n * ErrorBound \in Int
  <2>1. e \in Int
    BY <1>2
  <2>2. n * e \in Int /\ n * ErrorBound \in Int
    BY <1>1, <1>2, <2>1, IntRing
  <2> QED BY <1>1, <1>8, <2>1, <2>2
<1>11. /\ x.phase = b + n * e /\ x.ptxt = m % n /\ x.space = n /\ x.factor = 1
       /\ x.set = CtxtPrimes /\ x.noise = n \div 2 + n * ErrorBound
  BY <1>4 DEF Cleared
<1>12. x \in Ctxt
  BY <1>2, <1>4, <1>9, <1>10 DEF Cleared, Ctxt
<1>13. WellFormed(x)
  BY <1>1, <1>9, <1>11, <1>12 DEF WellFormed
<1>14. Decrypts(x)
  <2>1. Cong(b + n * e, b, n)
    <3>1. (b + n * e) - b = n * e
      BY <1>8, <1>10
    <3> QED BY <1>1, <1>10, <3>1, DividesBasics DEF Cong
  <2>2. Cong(b + n * e, c % n, n)
    <3> HIDE DEF c
    <3> QED BY <1>1, <1>7, <1>8, <1>10, <2>1, CongTrans
  <2>3. Cong(b + n * e, c, n)
    <3> HIDE DEF c
    <3> QED BY <1>1, <1>6, <1>7, <1>10, <2>2, CongTrans
  <2>4. Cong(c, (m % n) * q, n) /\ (m % n) * q \in Int
    <3>1. m % n \in Int
      BY <1>9
    <3>2. Cong(m * (q % n), (m % n) * q, n)
      BY <1>1, <1>3, <1>5, <1>9, <3>1, CongTimes
    <3> QED BY <1>3, <3>1, <3>2, IntRing
  <2>5. Cong(b + n * e, (m % n) * q, n)
    <3> HIDE DEF c
    <3> QED BY <1>1, <1>6, <1>10, <2>3, <2>4, CongTrans
  <2>6. (m % n) * q = q * (m % n) /\ Multiplier(x) = q
    <3>1. m % n \in Int /\ 1 * q = q
      BY <1>3, <1>9
    <3> QED BY <1>3, <1>11, <3>1, IntRing DEF Multiplier, Q, q
  <2> QED BY <1>11, <2>5, <2>6 DEF Decrypts
<1>15. Bounded(x)
  <2>1. Abs(n * e) = n * Abs(e)
    <3>1. Abs(n) = n
      BY <1>1 DEF Abs
    <3> QED BY <1>1, <1>10, <3>1, AbsTimes
  <2>2. Abs(e) \in Nat /\ Abs(e) =< ErrorBound
    BY <1>2, <1>10 DEF Abs
  <2>3. n * Abs(e) =< n * ErrorBound
    BY <1>1, <1>2, <2>2, TimesBound
  <2>4. Abs(b + n * e) =< Abs(b) + Abs(n * e) /\ Abs(b) =< n \div 2
    BY <1>1, <1>8, <1>10 DEF Abs
  <2>5. n * ErrorBound \in Int /\ Abs(b + n * e) \in Int /\ Abs(b) \in Int /\ n * Abs(e) \in Int
        /\ n \div 2 \in Int
    <3>1. n * ErrorBound \in Int /\ n * Abs(e) \in Int
      BY <1>1, <1>2, <2>2, IntRing
    <3> QED BY <1>1, <1>8, <1>10, <3>1 DEF Abs
  <2>6. Abs(b + n * e) =< n \div 2 + n * ErrorBound
    BY <2>1, <2>3, <2>4, <2>5
  <2> QED BY <1>11, <2>6 DEF Bounded
<1> QED BY <1>13, <1>14, <1>15

\* A multiple of the scale that is added to what is decrypted adds to the plaintext.
Added(x, b, k, noise, neg) ==
  [x EXCEPT !.empty = FALSE, !.phase = @ + Signed(b, neg), !.noise = noise,
            !.ptxt = (@ + Signed(k, neg)) % x.space]

LEMMA ScaledAddition ==
  ASSUME context \in Params, NEW x, WellFormed(x), Decrypts(x), NEW k \in Int, NEW b \in Int,
         IsProduct(b, k, Scale(x), x.space), NEW neg \in BOOLEAN, NEW noise \in Int
  PROVE  LET y == Added(x, b, k, noise, neg) IN
         /\ WellFormed(y) /\ Decrypts(y)
         /\ y.noise = noise /\ Abs(y.phase) =< Abs(x.phase) + Abs(b)
<1> DEFINE y == Added(x, b, k, noise, neg)
           n == x.space
           s == Scale(x)
           bs == Signed(b, neg)
           ks == Signed(k, neg)
           m == x.ptxt + ks
<1>1. /\ n \in PtxtSpaces /\ n \in Positive /\ n \in Int
      /\ x.phase \in Int /\ x.ptxt \in Int /\ s \in Int
  BY Fields, ScaleFacts
<1>2. bs \in Int /\ ks \in Int /\ Cong(bs, ks * s, n)
  <2>1. k * s \in Int /\ (-k) * s = -(k * s)
    BY <1>1, IntRing
  <2>2. Cong(-b, -(k * s), n)
    BY <1>1, <2>1, CongNeg DEF IsProduct
  <2> HIDE DEF s
  <2> QED BY <2>1, <2>2 DEF Signed, IsProduct, s
<1>3. Abs(x.phase + bs) =< Abs(x.phase) + Abs(b)
  BY <1>1 DEF Signed, Abs
<1> HIDE DEF bs, ks
<1>4. m \in Int /\ x.phase + bs \in Int
  BY <1>1, <1>2
<1>5. m % n \in Nat /\ m % n \in 0 .. n - 1 /\ Cong(m, m % n, n)
  <2> HIDE DEF m
  <2> QED BY <1>1, <1>4, DivMod, CongMod
<1>6. m % n < n /\ m % n \in Int
  BY <1>1, <1>5
<1>7. y = [x EXCEPT !.empty = FALSE, !.phase = x.phase + bs, !.noise = noise,
                    !.ptxt = m % n]
  BY DEF WellFormed, Ctxt, bs, ks, Added
<1>8. /\ y.phase = x.phase + bs /\ y.ptxt = m % n /\ y.space = n
      /\ y.factor = x.factor /\ y.set = x.set /\ y.noise = noise
  <2> HIDE DEF m
  <2> QED BY <1>7 DEF WellFormed, Ctxt
<1>9. y \in Ctxt
  <2> HIDE DEF m
  <2> QED BY <1>4, <1>5, <1>7 DEF WellFormed, Ctxt
<1> HIDE DEF y
<1>10. WellFormed(y)
  BY <1>6, <1>8, <1>9 DEF WellFormed
<1>11. Decrypts(y)
  <2>1. Cong(x.phase, s * x.ptxt, n)
    BY DecryptsByScale
  <2> HIDE DEF s
  <2>2. s * x.ptxt \in Int /\ ks * s \in Int /\ s * m \in Int /\ s * (m % n) \in Int
    BY <1>1, <1>2, <1>4, <1>6, IntRing
  <2>3. Cong(x.phase + bs, s * x.ptxt + ks * s, n)
    BY <1>1, <1>2, <2>1, <2>2, CongPlus
  <2>4. s * x.ptxt + ks * s = s * m
    <3>1. ks * s = s * ks /\ s * (x.ptxt + ks) = s * x.ptxt + s * ks
      BY <1>1, <1>2
    <3> QED BY <3>1
  <2>5. Cong(s * m, s * (m % n), n)
    BY <1>1, <1>4, <1>5, <1>6, CongTimesOne
  <2>6. Cong(x.phase + bs, s * (m % n), n)
    BY <1>1, <1>4, <2>2, <2>3, <2>4, <2>5, CongTrans
  <2>7. Scale(y) = s
    BY <1>8 DEF Scale, Q, s
  <2> HIDE DEF m
  <2>8. Cong(y.phase, Scale(y) * y.ptxt, y.space)
    BY <1>8, <2>6, <2>7
  <2> QED BY <1>10, <2>8, DecryptsByScale
<1> QED BY <1>3, <1>8, <1>10, <1>11 DEF y, bs

LEMMA EncodedAddedGood ==
  ASSUME context \in Params, NEW x, WellFormed(x), Decrypts(x), NEW k \in Int,
         NEW space \in PtxtSpaces, NEW neg \in BOOLEAN, NEW y \in EncodedAdded(x, k, space, neg)
  PROVE  WellFormed(y) /\ Decrypts(y) /\ (Bounded(x) => Bounded(y))
<1> DEFINE a == ReducePtxtSpace(x, space)
           n == a.space
           s == Scale(a)
           c == (k % n) * s
           polys == IF s # 1 \/ n # space THEN Balanced(c % n, n) ELSE {k}
           F(b) == [a EXCEPT !.empty = FALSE, !.phase = @ + Signed(b, neg),
                             !.noise = @ + Abs(b), !.ptxt = (@ + Signed(k, neg)) % n]
<1>1. /\ WellFormed(a) /\ Decrypts(a) /\ (Bounded(x) => Bounded(a))
  BY ReducedGood
<1>2. PICK b \in polys : y = F(b)
  <2>1. y \in {F(b) : b \in polys}
    BY DEF EncodedAdded
  <2> HIDE DEF F, polys
  <2> QED BY <2>1
<1> HIDE DEF a
<1>3. /\ n \in PtxtSpaces /\ n \in Positive /\ n \in Int /\ s \in Int /\ a.noise \in Int
      /\ a.phase \in Int
  BY <1>1, Fields, ScaleFacts
<1> HIDE DEF s
<1>4. b \in Int /\ Cong(b, k * s, n)
  <2>1. CASE s # 1 \/ n # space
    <3>1. k % n \in Int /\ Cong(k % n, k, n)
      BY <1>3, DivMod, CongMod
    <3>2. c \in Int /\ k * s \in Int /\ Cong(c, k * s, n)
      BY <1>3, <3>1, IntRing, CongTimesOne
    <3>3. c % n \in Int /\ Cong(c % n, c, n)
      <4> HIDE DEF c
      <4> QED BY <1>3, <3>2, DivMod, CongMod
    <3>4. b \in Balanced(c % n, n)
      BY <1>2, <2>1
    <3> HIDE DEF c
    <3>5. b \in Int /\ Cong(b, c % n, n)
      BY <1>3, <3>3, <3>4, BalancedFacts
    <3>6. Cong(b, c, n)
      BY <1>3, <3>2, <3>3, <3>5, CongTrans
    <3> QED BY <1>3, <3>2, <3>5, <3>6, CongTrans
  <2>2. CASE ~ (s # 1 \/ n # space)
    <3>1. b = k /\ k * s = k
      BY <1>2, <2>2
    <3> QED BY <1>3, <3>1, CongRefl
  <2> QED BY <2>1, <2>2
<1>5. Abs(b) \in Int /\ a.noise + Abs(b) \in Int /\ Abs(a.phase) \in Int
  BY <1>3, <1>4 DEF Abs
<1> DEFINE noise == a.noise + Abs(b)
<1>6. y = Added(a, b, k, noise, neg)
  BY <1>1, <1>2 DEF WellFormed, Ctxt, Added
<1> HIDE DEF noise
<1>7. /\ WellFormed(y) /\ Decrypts(y)
      /\ y.noise = noise /\ Abs(y.phase) =< Abs(a.phase) + Abs(b)
  BY <1>1, <1>4, <1>5, <1>6, ScaledAddition DEF noise, s, IsProduct
<1>8. ASSUME Bounded(x) PROVE Bounded(y)
  <2>1. Abs(a.phase) =< a.noise
    BY <1>1, <1>8 DEF Bounded
  <2>2. y.phase \in Int /\ Abs(y.phase) \in Int
    BY <1>7, Fields, AbsFacts
  <2> QED BY <1>3, <1>5, <1>7, <2>1, <2>2 DEF Bounded, noise
<1> QED BY <1>7, <1>8

\* A scalar that is taken as an encoded plaintext of its own size: the noise grows by what
\* is added only if the balanced residue is not negative.
LEMMA ScalarAddedGood ==
  ASSUME context \in Params, NEW x, WellFormed(x), Decrypts(x), NEW k \in Int, NEW neg \in BOOLEAN
  PROVE  LET y == ScalarAdded(x, k, neg) IN
         /\ WellFormed(y) /\ Decrypts(y)
         /\ Bounded(x) /\ 2 * (k % x.space) =< x.space => Bounded(y)
<1> DEFINE y == ScalarAdded(x, k, neg)
           n == x.space
           s == Scale(x)
           cc == BalRem(k % n, n)
           f == BalRem(s, n)
           b == cc * f
           noise == x.noise + cc * Abs(f)
<1>1. /\ n \in PtxtSpaces /\ n \in Positive /\ n \in Int /\ n > 1
      /\ x.noise \in Int /\ x.phase \in Int
      /\ s \in Int /\ s \in 0 .. n - 1
  BY Fields, ScaleFacts
<1>2. CASE cc = 0
  <2>1. y = x
    BY <1>2 DEF ScalarAdded
  <2> QED BY <2>1
<1>3. CASE cc # 0
  <2>1. y = Added(x, b, k, noise, neg)
    BY <1>3 DEF ScalarAdded, WellFormed, Ctxt, Added
  <2>2. k % n \in 0 .. n - 1 /\ Cong(k % n, k, n) /\ k % n \in Nat
    BY <1>1, DivMod, CongMod
  <2>3. 2 * (k % n) =< n => cc >= 0
    <3> DEFINE r == k % n
    <3>1. r \in Nat
      BY <2>2
    <3>2. cc = IF r > n \div 2 THEN r - n ELSE r
      BY DEF BalRem
    <3> HIDE DEF r, cc
    <3>3. 2 * r =< n => ~ (r > n \div 2)
      BY <1>1, <3>1
    <3> QED BY <3>1, <3>2, <3>3 DEF r
  <2>4. cc \in Int /\ Cong(cc, k % n, n)
    BY <1>1, <2>2, BalRemFacts
  <2> HIDE DEF cc
  <2>5. f \in Int /\ Cong(f, s, n) /\ Abs(f) \in Nat
    BY <1>1, BalRemFacts
  <2> HIDE DEF f, s
  <2>6. Cong(cc, k, n)
    BY <1>1, <2>2, <2>4, CongTrans
  <2>7. b \in Int /\ Cong(b, k * s, n)
    BY <1>1, <2>4, <2>5, <2>6, IntRing, CongTimes
  <2>8. cc * Abs(f) \in Int /\ noise \in Int
    <3>1. cc * Abs(f) \in Int
      BY <2>4, <2>5, IntRing
    <3> QED BY <1>1, <3>1
  <2>9. cc >= 0 => Abs(b) = cc * Abs(f)
    <3>1. Abs(b) = Abs(cc) * Abs(f)
      BY <2>4, <2>5, AbsTimes
    <3>2. cc >= 0 => Abs(cc) = cc
      BY <2>4 DEF Abs
    <3> QED BY <3>1, <3>2
  <2> HIDE DEF b, y
  <2>10. /\ WellFormed(y) /\ Decrypts(y)
         /\ y.noise = noise /\ Abs(y.phase) =< Abs(x.phase) + Abs(b)
    <3> HIDE DEF noise
    <3> QED BY <2>1, <2>7, <2>8, ScaledAddition DEF s, IsProduct
  <2>11. ASSUME Bounded(x), 2 * (k % x.space) =< x.space PROVE Bounded(y)
    <3>1. Abs(b) = cc * Abs(f) /\ Abs(x.phase) =< x.noise
      BY <2>3, <2>9, <2>11 DEF Bounded
    <3>2. Abs(y.phase) \in Int /\ Abs(x.phase) \in Int
      <4>1. y.phase \in Int
        BY <2>10, Fields
      <4> QED BY <1>1, <4>1 DEF Abs
    <3> QED BY <1>1, <2>8, <2>10, <3>1, <3>2 DEF Bounded
  <2> QED BY <2>10, <2>11 DEF y
<1> QED BY <1>2, <1>3

\* A ciphertext whose plaintext is a multiple of the prime decrypts to a multiple of it.
LEMMA DividedGood ==
  ASSUME context \in Params, NEW x, WellFormed(x), Decrypts(x), x.space > P, x.ptxt % P = 0
  PROVE  LET y == DividedByP(x) IN
         WellFormed(y) /\ Decrypts(y) /\ (Bounded(x) => Bounded(y))
<1> DEFINE y == DividedByP(x)
           n == x.space \div P
           k == Multiplier(x)
           m == x.ptxt \div P
           z == x.phase \div P
<1>1. /\ x.space \in PtxtSpaces /\ x.space \in Int /\ x.phase \in Int /\ x.ptxt \in Int
      /\ x.ptxt \in Nat /\ x.ptxt < x.space /\ x.noise \in Int /\ x.factor \in Int
      /\ Q(x) \in Int /\ k \in Int
  BY Fields DEF WellFormed
<1>2. P \in Nat /\ P > 1 /\ P \in Int /\ P \in Positive
  BY ContextFacts DEF Positive
<1>3. n \in PtxtSpaces /\ x.space = n * P
  BY <1>1, SpaceByP
<1>4. n \in Positive /\ n \in Int
  BY <1>3, SpaceFacts
<1> HIDE DEF n
<1>5. x.ptxt = P * m /\ m \in Int /\ m >= 0 /\ m < n
  <2>1. m \in Int /\ x.ptxt = P * m + (x.ptxt % P) /\ P * m \in Int
    <3>1. m \in Int /\ x.ptxt = P * m + (x.ptxt % P)
      BY <1>1, <1>2, DivMod
    <3> HIDE DEF m
    <3> QED BY <1>2, <3>1, IntRing
  <2> HIDE DEF m
  <2>2. x.ptxt = P * m
    BY <2>1
  <2>3. ASSUME m < 0 PROVE FALSE
    <3>1. P * m < 0
      <4>1. P \in Int /\ P > 0 /\ m \in Int
        BY <1>2, <2>1
      <4> QED BY <2>3, <4>1, NegativeTimes, Zenon
    <3> QED BY <1>1, <2>2, <3>1
  <2>4. ASSUME m >= n PROVE FALSE
    <3>1. P * m >= P * n
      BY <1>2, <1>4, <2>1, <2>4
    <3>2. P * n = n * P
      BY <1>2, <1>4, IntRing
    <3> QED BY <1>1, <1>3, <2>1, <2>2, <3>1, <3>2
  <2> QED BY <1>4, <2>1, <2>2, <2>3, <2>4
<1> HIDE DEF m
<1>6. x.phase = P * z /\ z \in Int
  <2>1. Divides(P, x.phase)
    <3>1. Cong(x.phase, k * x.ptxt, P)
      <4>1. Divides(P, x.space) /\ k * x.ptxt \in Int
        BY <1>1, SpaceFacts, IntRing
      <4> QED BY <1>1, <1>2, <4>1, CongToDivisor DEF Decrypts, k
    <3>2. k * x.ptxt = P * (k * m) /\ k * m \in Int
      <4>1. k * (P * m) = (k * P) * m /\ k * P = P * k /\ (P * k) * m = P * (k * m)
            /\ k * m \in Int
        BY <1>1, <1>2, <1>5, IntRing
      <4> QED BY <1>5, <4>1
    <3>3. Divides(P, k * x.ptxt)
      BY <1>2, <3>2, DividesBasics
    <3>4. k * x.ptxt \in Int
      BY <1>1, IntRing
    <3>5. Cong(x.phase, 0, P)
      <4>1. Cong(k * x.ptxt, 0, P)
        BY <1>2, <3>3, <3>4, CongZero
      <4> QED BY <1>1, <1>2, <3>1, <3>4, <4>1, CongTrans
    <3> QED BY <1>1, <1>2, <3>5, CongZero
  <2>2. x.phase % P = 0
    BY <1>1, <1>2, <2>1, DividesMod
  <2>3. z \in Int /\ x.phase = P * z + (x.phase % P)
    BY <1>1, <1>2, DivMod
  <2> HIDE DEF z
  <2>4. P * z \in Int
    BY <1>2, <2>3, IntRing
  <2> QED BY <2>2, <2>3, <2>4
<1> HIDE DEF z
<1>7. /\ x.factor % n \in Nat /\ x.factor % n \in 0 .. n - 1 /\ Cong(x.factor, x.factor % n, n)
      /\ ~ Divides(P, x.factor % n)
  <2>1. ~ Divides(P, x.factor)
    BY DEF WellFormed
  <2> QED BY <1>1, <1>3, <1>4, <2>1, DivMod, CongMod, ResidueOfUnit
<1>8. x.factor % n < n /\ x.factor % n \in Int
  BY <1>4, <1>7
<1>9. Ceiling(x.noise, P) \in Int
  BY <1>1, <1>2, CeilingFacts
<1>10. /\ y.phase = z /\ y.ptxt = m /\ y.space = n /\ y.factor = x.factor % n
       /\ y.set = x.set /\ y.noise = Ceiling(x.noise, P)
  BY DEF DividedByP, WellFormed, Ctxt, n, m, z
<1>11. y \in Ctxt
  <2>1. y = [x EXCEPT !.phase = z, !.noise = Ceiling(x.noise, P), !.space = n,
                      !.factor = x.factor % n, !.ptxt = m]
    BY DEF DividedByP, WellFormed, Ctxt, n, m, z
  <2>2. m \in Nat
    BY <1>5
  <2> HIDE DEF y
  <2> QED BY <1>3, <1>6, <1>7, <1>9, <2>1, <2>2 DEF WellFormed, Ctxt
<1> HIDE DEF y
<1>12. WellFormed(y)
  BY <1>5, <1>7, <1>8, <1>10, <1>11 DEF WellFormed
<1>13. Decrypts(y)
  <2>1. Cong(z, k * m, n)
    <3>1. PICK l \in Int : x.phase - k * x.ptxt = x.space * l
      BY DEF Decrypts, Cong, Divides, k
    <3>2. /\ k * (P * m) = P * (k * m) /\ k * m \in Int
          /\ P * (z - k * m) = P * z - P * (k * m)
          /\ (n * P) * l = P * (n * l) /\ n * l \in Int
      <4>1. k * (P * m) = (k * P) * m /\ k * P = P * k /\ (P * k) * m = P * (k * m)
            /\ k * m \in Int
        BY <1>1, <1>2, <1>5, IntRing
      <4>2. n * P = P * n /\ (P * n) * l = P * (n * l) /\ n * l \in Int
        BY <1>2, <1>4, <3>1, IntRing
      <4>3. P * (z - k * m) = P * z - P * (k * m)
        BY <1>2, <1>6, <4>1, IntRing
      <4> QED BY <4>1, <4>2, <4>3
    <3>3. P * (z - k * m) = P * (n * l)
      BY <1>3, <1>5, <1>6, <3>1, <3>2
    <3>4. z - k * m = n * l
      <4> DEFINE a == z - k * m
                 c == n * l
      <4>1. a \in Int /\ c \in Int /\ P * a = P * c
        BY <1>6, <3>2, <3>3
      <4> HIDE DEF a, c
      <4>2. a = c
        <5>1. P * (a - c) = P * a - P * c /\ P * a \in Int /\ P * c \in Int
          BY <1>2, <4>1, IntRing
        <5>2. P * (a - c) = 0
          BY <4>1, <5>1
        <5>3. ASSUME a - c >= 1 PROVE FALSE
          <6>1. P * (a - c) >= 1
            BY <1>2, <4>1, <5>3
          <6> QED BY <5>2, <6>1
        <5>4. ASSUME a - c =< -1 PROVE FALSE
          <6>1. P * (a - c) =< -1
            BY <1>2, <4>1, <5>4
          <6> QED BY <5>2, <6>1
        <5> QED BY <4>1, <5>3, <5>4
      <4> QED BY <4>2 DEF a, c
    <3> QED BY <3>1, <3>4 DEF Cong, Divides
  <2>2. Cong(k, Multiplier(y), n) /\ Multiplier(y) \in Int
    <3>1. Cong(x.factor * Q(x), (x.factor % n) * Q(x), n)
      BY <1>1, <1>4, <1>7, <1>8, CongTimesOne
    <3>2. Multiplier(y) \in Int
      BY <1>12, Fields
    <3> QED BY <1>10, <3>1, <3>2 DEF Multiplier, Q, k
  <2>3. Cong(k * m, Multiplier(y) * m, n) /\ k * m \in Int /\ Multiplier(y) * m \in Int
    BY <1>1, <1>4, <1>5, <2>2, CongTimesOne, IntRing
  <2>4. Cong(z, Multiplier(y) * m, n)
    BY <1>4, <1>6, <2>1, <2>3, CongTrans
  <2> QED BY <1>10, <2>4 DEF Decrypts
<1>14. ASSUME Bounded(x) PROVE Bounded(y)
  <2>1. Abs(P * z) =< x.noise
    BY <1>6, <1>14 DEF Bounded
  <2>2. Abs(z) =< Ceiling(x.noise, P)
    BY <1>1, <1>2, <1>6, <2>1, QuotientBound
  <2> QED BY <1>10, <2>2 DEF Bounded
<1> QED BY <1>12, <1>13, <1>14 DEF y

-----------------------------------------------------------------------------
(* Decryption. *)

\* A number below half of the modulus is its own balanced residue.
LEMMA BalancedResidue ==
  ASSUME NEW q \in Positive, NEW z \in Int, 2 * Abs(z) < q
  PROVE  BalRem(z % q, q) = z
<1>1. q \in Int /\ q > 0
  BY DEF Positive
<1>2. CASE z >= 0
  <2>1. z % q = z
    <3>1. z \in 0 .. q - 1
      BY <1>1, <1>2 DEF Abs
    <3>2. z % q \in 0 .. q - 1 /\ Cong(z % q, z, q)
      BY DivMod, CongMod
    <3> QED BY <3>1, <3>2, CongUnique
  <2>2. ~ (z > q \div 2)
    BY <1>1, <1>2 DEF Abs
  <2> QED BY <2>1, <2>2 DEF BalRem
<1>3. CASE z < 0
  <2> DEFINE w == z + q
  <2>1. w \in 0 .. q - 1 /\ w \in Int /\ w - q = z
    BY <1>1, <1>3 DEF Abs
  <2>2. z % q = w
    <3>1. z % q \in 0 .. q - 1 /\ Cong(z % q, z, q)
      BY DivMod, CongMod
    <3>2. Cong(z, w, q)
      <4>1. Divides(q, 0) /\ Divides(q, q)
        BY <1>1, DividesBasics
      <4>2. Divides(q, 0 - q) /\ 0 - q = z - w
        BY <1>1, <4>1, DividesSum
      <4> QED BY <4>2 DEF Cong
    <3> HIDE DEF w
    <3>3. z % q \in Int
      BY <1>1, <3>1
    <3>4. Cong(z % q, w, q)
      BY <1>1, <2>1, <3>1, <3>2, <3>3, CongTrans
    <3> QED BY <2>1, <3>1, <3>4, CongUnique
  <2>3. w > q \div 2
    BY <1>1, <1>3 DEF Abs
  <2> HIDE DEF w
  <2> QED BY <2>1, <2>2, <2>3 DEF BalRem
<1> QED BY <1>2, <1>3

LEMMA DecryptionRight ==
  ASSUME context \in Params, NEW x, WellFormed(x), Decrypts(x), Bounded(x), IsCorrect(x)
  PROVE  Decrypt(x) = x.ptxt
<1> DEFINE q == Q(x)
           n == x.space
           s == Scale(x)
           z == x.phase % n
           i == InvMod(s, n)
<1>1. /\ n \in PtxtSpaces /\ n \in Positive /\ n \in Int /\ x.phase \in Int /\ x.noise \in Int
      /\ x.ptxt \in Int /\ x.ptxt \in 0 .. n - 1 /\ q \in Positive /\ q \in Int /\ q > 0
      /\ s \in Int /\ ~ Divides(P, s)
  <2>1. q \in Positive /\ s \in Int /\ ~ Divides(P, s)
    BY Fields, ScaleFacts
  <2>2. /\ n \in PtxtSpaces /\ n \in Positive /\ n \in Int /\ x.phase \in Int /\ x.noise \in Int
        /\ x.ptxt \in Int /\ x.ptxt \in 0 .. n - 1
    BY Fields
  <2> HIDE DEF q, s
  <2>3. q \in Int /\ q > 0
    BY <2>1 DEF Positive
  <2> QED BY <2>1, <2>2, <2>3
<1>2. BalRem(x.phase % q, q) = x.phase
  <2>1. 100 * x.noise =< 48 * q
    BY DEF IsCorrect
  <2>2. Abs(x.phase) \in Int /\ Abs(x.phase) =< x.noise
    BY <1>1, AbsFacts DEF Bounded
  <2> HIDE DEF q
  <2>3. 2 * Abs(x.phase) < q
    BY <1>1, <2>1, <2>2
  <2> QED BY <1>1, <2>3, BalancedResidue
<1>3. Decrypt(x) = IF s = 1 THEN z ELSE (z * i) % n
  BY <1>2 DEF Decrypt
<1>4. Cong(x.phase, s * x.ptxt, n)
  BY DecryptsByScale
<1> HIDE DEF s, q
<1>5. z \in 0 .. n - 1 /\ z \in Int /\ Cong(z, x.phase, n)
  <2>1. z \in 0 .. n - 1 /\ Cong(z, x.phase, n)
    BY <1>1, DivMod, CongMod
  <2> HIDE DEF z
  <2> QED BY <1>1, <2>1
<1> HIDE DEF z
<1>6. s * x.ptxt \in Int
  BY <1>1, IntRing
<1>7. Cong(z, s * x.ptxt, n)
  BY <1>1, <1>4, <1>5, <1>6, CongTrans
<1>8. CASE s = 1
  <2>1. s * x.ptxt = x.ptxt
    BY <1>1, <1>8
  <2> QED BY <1>1, <1>3, <1>5, <1>7, <1>8, <2>1, CongUnique
<1>9. CASE s # 1
  <2>1. i \in Int /\ Cong(s * i, 1, n)
    BY <1>1, UnitInverse
  <2> HIDE DEF i
  <2>2. Cong(z * i, (s * x.ptxt) * i, n)
    BY <1>1, <1>5, <1>6, <1>7, <2>1, CongTimesOne
  <2>3. (s * x.ptxt) * i = (s * i) * x.ptxt
    <3>1. (s * x.ptxt) * i = s * (x.ptxt * i) /\ x.ptxt * i = i * x.ptxt
          /\ s * (i * x.ptxt) = (s * i) * x.ptxt
      BY <1>1, <2>1, IntRing
    <3> QED BY <3>1
  <2>4. Cong((s * i) * x.ptxt, 1 * x.ptxt, n)
    <3>1. s * i \in Int /\ 1 \in Int
      BY <1>1, <2>1, IntRing
    <3> QED BY <1>1, <2>1, <3>1, CongTimesOne, Zenon
  <2>5. 1 * x.ptxt = x.ptxt /\ z * i \in Int /\ (s * x.ptxt) * i \in Int
    BY <1>1, <1>5, <1>6, <2>1, IntRing
  <2> DEFINE a == z * i
  <2>6. Cong(a, x.ptxt, n) /\ a \in Int
    BY <1>1, <2>2, <2>3, <2>4, <2>5, CongTrans
  <2>7. Decrypt(x) = a % n
    BY <1>3, <1>9
  <2> HIDE DEF a
  <2>8. a % n \in 0 .. n - 1 /\ a % n \in Int /\ Cong(a % n, a, n)
    <3>1. a % n \in 0 .. n - 1 /\ Cong(a % n, a, n)
      BY <1>1, <2>6, DivMod, CongMod
    <3> QED BY <1>1, <3>1
  <2>9. Cong(a % n, x.ptxt, n)
    BY <1>1, <2>6, <2>8, CongTrans
  <2> QED BY <1>1, <2>7, <2>8, <2>9, CongUnique
<1> QED BY <1>8, <1>9

-----------------------------------------------------------------------------
(* The invariant. *)

IInv == /\ context \in Params /\ failed = FALSE
        /\ ct \in [Ctxts -> Ctxt]
        /\ \A c \in Ctxts : /\ WellFormed(ct[c]) /\ Decrypts(ct[c])
                            /\ ct[c].noise =< MaxNoise[c]

\* Every scalar is at most half of every plaintext space after its reduction: without it the
\* noise of a scalar that is added is not bounded by what the code makes of it.
SmallScalars ==
  \A par \in Params, k \in Scalars : \A i \in 1 .. par[2] :
    2 * (k % PowersOf(par[1])[i]) =< PowersOf(par[1])[i]

\* What an action makes of a ciphertext.
Makes(c, x) == /\ Becomes(c, x) /\ context' = context /\ failed' = FALSE
               /\ WellFormed(x) /\ Decrypts(x)
               /\ SmallScalars /\ NoiseBounded => Bounded(x)

LEMMA MakesGood ==
  ASSUME IInv, NEW c \in Ctxts, NEW x, Makes(c, x)
  PROVE  IInv' /\ (SmallScalars /\ NoiseBounded => NoiseBounded')
<1>1. /\ context' = context /\ failed' = FALSE /\ ct' = [ct EXCEPT ![c] = x]
      /\ WellFormed(x) /\ Decrypts(x) /\ x.noise =< MaxNoise[c]
      /\ SmallScalars /\ NoiseBounded => Bounded(x)
  BY DEF Makes, Becomes
<1>2. PtxtSpaces' = PtxtSpaces /\ P' = P
  BY <1>1 DEF PtxtSpaces, P
<1>3. Ctxt' = Ctxt
  BY <1>2 DEF Ctxt
<1>4. x \in Ctxt
  BY <1>1 DEF WellFormed
<1>5. ct \in [Ctxts -> Ctxt]
  BY DEF IInv
<1>6. ct' \in [Ctxts -> Ctxt] /\ \A e \in Ctxts : ct'[e] = IF e = c THEN x ELSE ct[e]
  BY <1>1, <1>4, <1>5
<1>7. ASSUME NEW e \in Ctxts
      PROVE  /\ WellFormed(ct'[e]) /\ Decrypts(ct'[e]) /\ ct'[e].noise =< MaxNoise[e]
             /\ SmallScalars /\ NoiseBounded => Bounded(ct'[e])
  BY <1>1, <1>6 DEF IInv, NoiseBounded, Bounded
<1>8. ASSUME NEW e \in Ctxts PROVE WellFormed(ct[e])' /\ Decrypts(ct[e])'
  BY <1>2, <1>3, <1>7 DEF WellFormed, Decrypts, Multiplier, Q, Cong, Divides
<1>9. IInv'
  BY <1>1, <1>3, <1>6, <1>7, <1>8 DEF IInv
<1>10. SmallScalars /\ NoiseBounded => NoiseBounded'
  BY <1>7 DEF NoiseBounded, Bounded
<1> QED BY <1>9, <1>10

LEMMA InitInv == Init => IInv /\ NoiseBounded
<1>1. SUFFICES ASSUME Init PROVE IInv /\ NoiseBounded
  OBVIOUS
<1> DEFINE n == PowersOf(context[1])[context[2]]
<1>2. context \in Params /\ failed = FALSE /\ ct = [c \in Ctxts |-> Cleared(n)]
  BY <1>1 DEF Init
<1>3. n \in PtxtSpaces
  <2>1. context[2] \in 1 .. context[2]
    BY <1>2, ContextFacts
  <2> QED BY <2>1 DEF PtxtSpaces, P
<1> HIDE DEF n
<1>4. WellFormed(Cleared(n)) /\ Decrypts(Cleared(n)) /\ Bounded(Cleared(n))
  BY <1>2, <1>3, ClearedGood
<1>5. Cleared(n) \in Ctxt /\ Cleared(n).noise = 0
  BY <1>4 DEF WellFormed, Cleared
<1>6. \A c \in Ctxts : MaxNoise[c] \in Nat
  BY NumbersAssumption
<1>7. IInv
  BY <1>2, <1>4, <1>5, <1>6 DEF IInv
<1> QED BY <1>2, <1>4, <1>7 DEF NoiseBounded, Bounded

LEMMA Known ==
  ASSUME IInv, NEW c \in Ctxts
  PROVE  /\ context \in Params /\ failed = FALSE
         /\ WellFormed(ct[c]) /\ Decrypts(ct[c]) /\ (NoiseBounded => Bounded(ct[c]))
         /\ ct[c].space \in PtxtSpaces /\ ct[c].set \in PrimeSets
<1>1. context \in Params /\ failed = FALSE /\ WellFormed(ct[c]) /\ Decrypts(ct[c])
  BY DEF IInv
<1> QED BY <1>1, Fields DEF NoiseBounded, Bounded

LEMMA AddMakes ==
  ASSUME IInv, NEW c \in Ctxts, NEW d \in Ctxts, NEW neg \in BOOLEAN, AddCtxt(c, d, neg)
  PROVE  \E x : Makes(c, x)
<1> DEFINE x == ct[c]
           y == ct[d]
<1>1. /\ context \in Params /\ failed = FALSE /\ WellFormed(x) /\ Decrypts(x)
      /\ (NoiseBounded => Bounded(x)) /\ WellFormed(y) /\ Decrypts(y)
      /\ (NoiseBounded => Bounded(y))
  BY Known
<1>2. CASE x.empty
  <2> DEFINE z == IF neg THEN Negated(y) ELSE y
  <2>1. WellFormed(z) /\ Decrypts(z) /\ (Bounded(y) => Bounded(z))
    <3>1. WellFormed(Negated(y)) /\ Decrypts(Negated(y)) /\ (Bounded(y) => Bounded(Negated(y)))
      BY <1>1, NegatedGood
    <3> QED BY <1>1, <3>1
  <2>2. Becomes(c, z) /\ context' = context /\ failed' = failed
    BY <1>2 DEF AddCtxt, NoChecks
  <2> HIDE DEF z
  <2>3. Makes(c, z)
    BY <1>1, <2>1, <2>2 DEF Makes
  <2> QED BY <2>3
<1>3. CASE ~ x.empty
  <2> DEFINE z == Sum(x, y, neg)
             e == HarmonizingFactors(Matched(x, y), Matched(y, x))
  <2>1. /\ WellFormed(z) /\ Decrypts(z) /\ (Bounded(x) /\ Bounded(y) => Bounded(z))
        /\ Harmonizes(Matched(x, y), Matched(y, x), e)
    BY <1>1, SumGood
  <2>2. Becomes(c, z) /\ context' = context
        /\ failed' = (failed \/ ~ Harmonizes(Matched(x, y), Matched(y, x), e))
    BY <1>3 DEF AddCtxt
  <2> HIDE DEF z, e
  <2>3. failed' = FALSE
    BY <1>1, <2>1, <2>2
  <2>4. Makes(c, z)
    BY <1>1, <2>1, <2>2, <2>3 DEF Makes
  <2> QED BY <2>4
<1> QED BY <1>2, <1>3

LEMMA MultMakes ==
  ASSUME IInv, NEW c \in Ctxts, NEW d \in Ctxts, MultLowLvl(c, d)
  PROVE  \E x : Makes(c, x)
<1> DEFINE x == ReducePtxtSpace(ct[c], ct[d].space)
           y == ReducePtxtSpace(ct[d], ct[c].space)
<1>1. /\ context \in Params /\ failed = FALSE /\ WellFormed(ct[c]) /\ Decrypts(ct[c])
      /\ (NoiseBounded => Bounded(ct[c])) /\ WellFormed(ct[d]) /\ Decrypts(ct[d])
      /\ (NoiseBounded => Bounded(ct[d]))
      /\ ct[c].space \in PtxtSpaces /\ ct[d].space \in PtxtSpaces
  BY Known
<1>2. /\ WellFormed(x) /\ Decrypts(x) /\ (NoiseBounded => Bounded(x))
      /\ x.space = GCD(ct[c].space, ct[d].space)
  BY <1>1, ReducedGood
<1>3. /\ WellFormed(y) /\ Decrypts(y) /\ (NoiseBounded => Bounded(y))
      /\ y.space = GCD(ct[d].space, ct[c].space)
  BY <1>1, ReducedGood
<1>4. x.space = y.space
  BY <1>1, <1>2, <1>3, CommonSpace
<1>5. CASE ct[d].empty
  <2>1. Becomes(c, ct[d]) /\ context' = context /\ failed' = failed
    BY <1>5 DEF MultLowLvl, NoChecks
  <2>2. Makes(c, ct[d])
    BY <1>1, <2>1 DEF Makes
  <2> QED BY <2>2
<1>6. CASE ~ ct[d].empty
  <2>1. PICK s \in PrimeSets :
          /\ \E a \in BroughtToSet(x, s) :
               \E b \in (IF c = d THEN {a} ELSE BroughtToSet(y, s)) :
                 Becomes(c, TensorProduct(a, b))
          /\ context' = context
          /\ failed' = (failed \/ BadModSwitch(ModUpToSet(x, s), s)
                               \/ BadModSwitch(ModUpToSet(y, s), s))
    BY <1>6 DEF MultLowLvl
  <2>2. PICK a \in BroughtToSet(x, s) :
          \E b \in (IF c = d THEN {a} ELSE BroughtToSet(y, s)) : Becomes(c, TensorProduct(a, b))
    BY <2>1
  <2>3. PICK b \in (IF c = d THEN {a} ELSE BroughtToSet(y, s)) : Becomes(c, TensorProduct(a, b))
    BY <2>2
  <2> HIDE DEF x, y
  <2>4. /\ WellFormed(a) /\ Decrypts(a) /\ (NoiseBounded => Bounded(a))
        /\ a.space = x.space /\ a.set = s
    BY <1>1, <1>2, BroughtGood
  <2>5. /\ WellFormed(b) /\ Decrypts(b) /\ (NoiseBounded => Bounded(b))
        /\ b.space = x.space /\ b.set = s
    <3>1. CASE c = d
      BY <2>3, <2>4, <3>1
    <3>2. CASE c # d
      BY <1>1, <1>3, <1>4, <2>3, <3>2, BroughtGood
    <3> QED BY <3>1, <3>2
  <2> DEFINE z == TensorProduct(a, b)
  <2>6. WellFormed(z) /\ Decrypts(z) /\ (NoiseBounded => Bounded(z))
    BY <1>1, <2>4, <2>5, TensorGood
  <2>7. ~ BadModSwitch(ModUpToSet(x, s), s) /\ ~ BadModSwitch(ModUpToSet(y, s), s)
    <3>1. WellFormed(ModUpToSet(x, s)) /\ WellFormed(ModUpToSet(y, s))
      BY <1>1, <1>2, <1>3, ModUpGood
    <3> QED BY <1>1, <3>1, ModSwitchChecks
  <2>8. failed' = FALSE
    BY <1>1, <2>1, <2>7
  <2> HIDE DEF z
  <2>9. Becomes(c, z)
    BY <2>3 DEF z
  <2>10. Makes(c, z)
    BY <2>1, <2>6, <2>8, <2>9 DEF Makes
  <2> QED BY <2>10
<1> QED BY <1>5, <1>6

LEMMA BringMakes ==
  ASSUME IInv, NEW c \in Ctxts, BringToSet(c)
  PROVE  \E x : Makes(c, x)
<1>1. /\ context \in Params /\ failed = FALSE /\ WellFormed(ct[c]) /\ Decrypts(ct[c])
      /\ (NoiseBounded => Bounded(ct[c]))
  BY Known
<1>2. PICK s \in PrimeSets :
        /\ \E x \in BroughtToSet(ct[c], s) : Becomes(c, x)
        /\ context' = context
        /\ failed' = (failed \/ BadModSwitch(ModUpToSet(ct[c], s), s))
  BY DEF BringToSet
<1>3. PICK x \in BroughtToSet(ct[c], s) : Becomes(c, x)
  BY <1>2
<1>4. WellFormed(x) /\ Decrypts(x) /\ (NoiseBounded => Bounded(x))
  BY <1>1, BroughtGood
<1>5. ~ BadModSwitch(ModUpToSet(ct[c], s), s)
  <2>1. WellFormed(ModUpToSet(ct[c], s))
    BY <1>1, ModUpGood
  <2> QED BY <1>1, <2>1, ModSwitchChecks
<1>6. failed' = FALSE
  BY <1>1, <1>2, <1>5
<1>7. Makes(c, x)
  BY <1>2, <1>3, <1>4, <1>6 DEF Makes
<1> QED BY <1>7

\* The actions of one ciphertext that check nothing.
LEMMA OthersMake ==
  ASSUME IInv, NEW c \in Ctxts,
         \/ Encrypt(c) \/ Negate(c) \/ MultByConstant(c) \/ AddEncoded(c) \/ AddScalar(c)
         \/ Reduce(c) \/ DivideByP(c)
  PROVE  \E x : Makes(c, x)
<1> DEFINE y == ct[c]
<1>1. /\ context \in Params /\ failed = FALSE /\ WellFormed(y) /\ Decrypts(y)
      /\ (NoiseBounded => Bounded(y)) /\ y.space \in PtxtSpaces
  BY Known
<1>2. Messages \subseteq Int /\ Factors \subseteq Int /\ Summands \subseteq Int
      /\ Scalars \subseteq Int
  BY NumbersAssumption
<1>3. SUFFICES \E x : /\ Becomes(c, x) /\ NoChecks /\ WellFormed(x) /\ Decrypts(x)
                      /\ SmallScalars /\ NoiseBounded => Bounded(x)
  BY <1>1 DEF Makes, NoChecks
<1>4. CASE Encrypt(c)
  <2>1. PICK m \in Messages, space \in PtxtSpaces :
          \E x \in Encryptions(m, space) : Becomes(c, x) /\ NoChecks
    BY <1>4 DEF Encrypt
  <2>2. PICK x \in Encryptions(m, space) : Becomes(c, x) /\ NoChecks
    BY <2>1
  <2>3. WellFormed(x) /\ Decrypts(x) /\ Bounded(x)
    BY <1>1, <1>2, EncryptionsGood
  <2> QED BY <2>2, <2>3
<1>5. CASE Negate(c)
  <2>1. Becomes(c, Negated(y)) /\ NoChecks
    BY <1>5 DEF Negate
  <2>2. WellFormed(Negated(y)) /\ Decrypts(Negated(y)) /\ (Bounded(y) => Bounded(Negated(y)))
    BY <1>1, NegatedGood
  <2> QED BY <1>1, <2>1, <2>2
<1>6. CASE MultByConstant(c)
  <2>1. PICK k \in Factors : Becomes(c, Multiplied(y, k)) /\ NoChecks
    BY <1>6 DEF MultByConstant
  <2>2. /\ WellFormed(Multiplied(y, k)) /\ Decrypts(Multiplied(y, k))
        /\ (Bounded(y) => Bounded(Multiplied(y, k)))
    BY <1>1, <1>2, MultipliedGood
  <2> QED BY <1>1, <2>1, <2>2
<1>7. CASE AddEncoded(c)
  <2>1. PICK k \in Summands, space \in PtxtSpaces, neg \in BOOLEAN :
          \E x \in EncodedAdded(y, k, space, neg) : Becomes(c, x) /\ NoChecks
    BY <1>7 DEF AddEncoded
  <2>2. PICK x \in EncodedAdded(y, k, space, neg) : Becomes(c, x) /\ NoChecks
    BY <2>1
  <2>3. WellFormed(x) /\ Decrypts(x) /\ (Bounded(y) => Bounded(x))
    BY <1>1, <1>2, EncodedAddedGood
  <2> QED BY <1>1, <2>2, <2>3
<1>8. CASE AddScalar(c)
  <2>1. PICK k \in Scalars, neg \in BOOLEAN : Becomes(c, ScalarAdded(y, k, neg)) /\ NoChecks
    BY <1>8 DEF AddScalar
  <2>2. SmallScalars => 2 * (k % y.space) =< y.space
    BY <1>1 DEF SmallScalars, PtxtSpaces, P
  <2>3. /\ WellFormed(ScalarAdded(y, k, neg)) /\ Decrypts(ScalarAdded(y, k, neg))
        /\ Bounded(y) /\ 2 * (k % y.space) =< y.space => Bounded(ScalarAdded(y, k, neg))
    BY <1>1, <1>2, ScalarAddedGood
  <2> QED BY <1>1, <2>1, <2>2, <2>3
<1>9. CASE Reduce(c)
  <2>1. PICK space \in PtxtSpaces : Becomes(c, ReducePtxtSpace(y, space)) /\ NoChecks
    BY <1>9 DEF Reduce
  <2>2. /\ WellFormed(ReducePtxtSpace(y, space)) /\ Decrypts(ReducePtxtSpace(y, space))
        /\ (Bounded(y) => Bounded(ReducePtxtSpace(y, space)))
    BY <1>1, ReducedGood
  <2> QED BY <1>1, <2>1, <2>2
<1>10. CASE DivideByP(c)
  <2>1. y.space > P /\ y.ptxt % P = 0 /\ Becomes(c, DividedByP(y)) /\ NoChecks
    BY <1>10 DEF DivideByP
  <2>2. WellFormed(DividedByP(y)) /\ Decrypts(DividedByP(y)) /\ (Bounded(y) => Bounded(DividedByP(y)))
    BY <1>1, <2>1, DividedGood
  <2> QED BY <1>1, <2>1, <2>2
<1> QED BY <1>4, <1>5, <1>6, <1>7, <1>8, <1>9, <1>10

LEMMA StepInv ==
  ASSUME IInv, [Next]_vars
  PROVE  IInv' /\ (SmallScalars /\ NoiseBounded => NoiseBounded')
<1>1. CASE Next
  <2>1. PICK c \in Ctxts : \E x : Makes(c, x)
    <3>1. PICK c \in Ctxts :
            \/ Encrypt(c) \/ Negate(c) \/ MultByConstant(c) \/ AddEncoded(c) \/ AddScalar(c)
            \/ BringToSet(c) \/ Reduce(c) \/ DivideByP(c)
            \/ \E d \in Ctxts : MultLowLvl(c, d) \/ \E neg \in BOOLEAN : AddCtxt(c, d, neg)
      BY <1>1 DEF Next
    <3> DEFINE Others == \/ Encrypt(c) \/ Negate(c) \/ MultByConstant(c) \/ AddEncoded(c)
                         \/ AddScalar(c) \/ Reduce(c) \/ DivideByP(c)
               Pairs == \E d \in Ctxts : MultLowLvl(c, d)
                                         \/ \E neg \in BOOLEAN : AddCtxt(c, d, neg)
               Goal == \E x : Makes(c, x)
    <3>2. Others \/ BringToSet(c) \/ Pairs
      BY <3>1
    <3>3. ASSUME Others PROVE Goal
      BY <3>3, OthersMake
    <3>4. ASSUME BringToSet(c) PROVE Goal
      BY <3>4, BringMakes
    <3>5. ASSUME Pairs PROVE Goal
      <4>1. PICK d \in Ctxts : MultLowLvl(c, d) \/ \E neg \in BOOLEAN : AddCtxt(c, d, neg)
        BY <3>5
      <4>2. ASSUME MultLowLvl(c, d) PROVE Goal
        BY <4>2, MultMakes
      <4>3. ASSUME NEW neg \in BOOLEAN, AddCtxt(c, d, neg) PROVE Goal
        BY <4>3, AddMakes
      <4> QED BY <4>1, <4>2, <4>3
    <3> HIDE DEF Others, Pairs, Goal
    <3>6. Goal
      BY <3>2, <3>3, <3>4, <3>5
    <3> QED BY <3>6 DEF Goal
  <2>2. PICK x : Makes(c, x)
    BY <2>1
  <2> QED BY <2>2, MakesGood
<1>2. CASE UNCHANGED vars
  <2>1. context' = context /\ ct' = ct /\ failed' = failed
    BY <1>2 DEF vars
  <2>2. PtxtSpaces' = PtxtSpaces /\ P' = P
    BY <2>1 DEF PtxtSpaces, P
  <2>3. Ctxt' = Ctxt
    BY <2>2 DEF Ctxt
  <2>4. ASSUME NEW e \in Ctxts PROVE WellFormed(ct[e])' /\ Decrypts(ct[e])'
    BY <2>1, <2>2, <2>3 DEF IInv, WellFormed, Decrypts, Multiplier, Q, Cong, Divides
  <2>5. IInv'
    BY <2>1, <2>3, <2>4 DEF IInv
  <2> QED BY <2>1, <2>5 DEF NoiseBounded
<1> QED BY <1>1, <1>2

LEMMA InvMeans == IInv => EncryptsPtxt /\ NothingFails
<1>1. SUFFICES ASSUME IInv PROVE EncryptsPtxt /\ NothingFails
  OBVIOUS
<1>2. NothingFails
  BY <1>1 DEF IInv, NothingFails
<1>3. ASSUME NEW c \in Ctxts
      PROVE  /\ Coprime(ct[c].factor, ct[c].space)
             /\ ct[c].factor < ct[c].space /\ ct[c].ptxt < ct[c].space
             /\ ct[c].noise =< MaxNoise[c]
             /\ (ct[c].phase - Scale(ct[c]) * ct[c].ptxt) % ct[c].space = 0
  <2> DEFINE x == ct[c]
  <2>1. /\ context \in Params /\ WellFormed(x) /\ Decrypts(x) /\ x.noise =< MaxNoise[c]
    BY <1>1 DEF IInv
  <2> HIDE DEF x
  <2>2. x.factor \in Int /\ x.space \in Positive /\ x.space \in PtxtSpaces
    BY <2>1, Fields
  <2>3. Unit(x.factor, x.space)
    BY <2>1, <2>2, SpaceFacts DEF WellFormed
  <2>4. Coprime(x.factor, x.space)
    BY <2>2, <2>3, CoprimeIsUnit
  <2>5. (x.phase - Scale(x) * x.ptxt) % x.space = 0
    BY <2>1, DecryptsByScale
  <2> QED BY <2>1, <2>4, <2>5 DEF WellFormed, x
<1>4. TypeOK
  BY <1>1, <1>3 DEF IInv, TypeOK, Ctxt
<1> QED BY <1>2, <1>3, <1>4 DEF EncryptsPtxt

LEMMA BoundMeans ==
  ASSUME IInv, NoiseBounded
  PROVE  DecryptsRight
<1>1. SUFFICES ASSUME NEW c \in Ctxts, IsCorrect(ct[c]) PROVE Decrypt(ct[c]) = ct[c].ptxt
  BY DEF DecryptsRight
<1>2. context \in Params /\ WellFormed(ct[c]) /\ Decrypts(ct[c]) /\ Bounded(ct[c])
  BY Known
<1> QED BY <1>1, <1>2, DecryptionRight

-----------------------------------------------------------------------------
(* The theorems. *)

\* Ctxt.cpp:460: after any sequence of operations on any ciphertexts, each one decrypts to
\* its factor times the product of its primes times its plaintext, modulo its plaintext
\* space, and its factor is prime to the space.
THEOREM EncryptsAlways == Spec => []EncryptsPtxt
<1>1. Init => IInv
  BY InitInv
<1>2. IInv /\ [Next]_vars => IInv'
  BY StepInv
<1>3. IInv => EncryptsPtxt
  BY InvMeans
<1> QED BY <1>1, <1>2, <1>3, PTL DEF Spec

\* The assertions of equalizeRationalFactors (Ctxt.cpp:1541) hold in every addition, and what
\* every modulus switch adds to round passes the sanity check of modDownToSet (Ctxt.cpp:489).
THEOREM NothingEverFails == Spec => []NothingFails
<1>1. Init => IInv
  BY InitInv
<1>2. IInv /\ [Next]_vars => IInv'
  BY StepInv
<1>3. IInv => NothingFails
  BY InvMeans
<1> QED BY <1>1, <1>2, <1>3, PTL DEF Spec

\* Ctxt.h:388: as long as the scalars that are added are at most half of the plaintext
\* spaces, the noise bound of each ciphertext bounds what it decrypts to.
THEOREM NoiseStaysBounded ==
  ASSUME SmallScalars
  PROVE  Spec => []NoiseBounded
<1>1. Init => IInv /\ NoiseBounded
  BY InitInv
<1>2. IInv /\ NoiseBounded /\ [Next]_vars => IInv' /\ NoiseBounded'
  BY StepInv
<1> QED BY <1>1, <1>2, PTL DEF Spec

\* Ctxt.h:1379: then a ciphertext that isCorrect() decrypts to the plaintext that the
\* operations should have given.
THEOREM CorrectCtxtsDecrypt ==
  ASSUME SmallScalars
  PROVE  Spec => []DecryptsRight
<1>1. Init => IInv /\ NoiseBounded
  BY InitInv
<1>2. IInv /\ NoiseBounded /\ [Next]_vars => IInv' /\ NoiseBounded'
  BY StepInv
<1>3. IInv /\ NoiseBounded => DecryptsRight
  BY BoundMeans
<1> QED BY <1>1, <1>2, <1>3, PTL DEF Spec

-----------------------------------------------------------------------------
(* addCtxt() minimizes the noise of a sum (Ctxt.cpp:1495).                 *)
(*                                                                         *)
(* The pairs (r, t) with r congruent to t times the ratio of the factors   *)
(* are a lattice.  The extended Euclidean algorithm visits some of them,   *)
(* its convergents, with r falling and the absolute value of t growing.    *)
(* A pair lies between two convergents, and is a combination of them with  *)
(* whole coefficients; the costs of the two, or of the one before, bound   *)
(* its own, the one that is divisible by p not counted.                    *)

-----------------------------------------------------------------------------
(* Pairs and convergents, on numbers alone.                                *)

\* Two convergents in a row, (r1, u1) and (r2, -u2), in the lattice of the ratio h modulo n.
AreBasis(n, h, r1, r2, u1, u2) ==
  /\ n \in Positive /\ h \in Int /\ r1 \in Nat /\ r2 \in Nat /\ u1 \in Nat /\ u2 \in Nat
  /\ r1 * u2 + r2 * u1 = n
  /\ IsProduct(r1, u1, h, n) /\ IsProduct(r2, -u2, h, n)

IsCombination(r, z, X, Y, r1, r2, u1, u2) ==
  X \in Int /\ Y \in Int /\ r \in Int /\ z \in Int /\ r = X * r1 + Y * r2 /\ z = X * u1 - Y * u2

\* The step of the Euclidean algorithm that finds (r2, -u2).
AreThree(q, r1, r2, u0, u1, u2) ==
  /\ q \in Nat /\ r1 \in Nat /\ r2 \in Nat /\ u0 \in Nat /\ u1 \in Nat /\ u2 \in Nat
  /\ r2 =< r1 /\ u0 =< u1 /\ u2 = u0 + q * u1

\* The best cost is not above that of a pair, which costs a * r + b * u.
Covers(best, a, b, r, u) ==
  a \in Nat /\ b \in Nat /\ best \in Int /\ best =< a * r + b * u

\* That of the convergents that are not divisible by p.
CoversThree(best, a, b, p, q, r1, r2, u0, u1, u2) ==
  /\ a \in Nat /\ b \in Nat /\ p \in Nat /\ best \in Int
  /\ ~ Divides(p, u0) => Covers(best, a, b, q * r1 + r2, u0)
  /\ ~ Divides(p, u1) => Covers(best, a, b, r1, u1)
  /\ ~ Divides(p, u2) => Covers(best, a, b, r2, u2)

\* A number times a sum, for the prover's nonlinear arithmetic.
LEMMA Monotone ==
  ASSUME NEW a \in Nat, NEW b \in Int, NEW c \in Int, b =< c
  PROVE  a * b =< a * c /\ a * b \in Int /\ a * c \in Int
<1>1. a * (c - b) >= 0
  OBVIOUS
<1>2. a * (c - b) = a * c - a * b /\ a * c \in Int /\ a * b \in Int
  BY IntRing
<1> QED BY <1>1, <1>2

LEMMA CostsGrow ==
  ASSUME NEW a \in Nat, NEW b \in Nat, NEW r \in Int, NEW u \in Int,
         NEW c \in Int, NEW d \in Int, r =< c, u =< d, NEW best \in Int, best =< a * r + b * u
  PROVE  best =< a * c + b * d
<1>1. a * r =< a * c /\ a * r \in Int /\ a * c \in Int
  BY Monotone
<1>2. b * u =< b * d /\ b * u \in Int /\ b * d \in Int
  BY Monotone
<1> QED BY <1>1, <1>2

\* The cost of the pairs between two convergents is linear, and least at one of them.
LEMMA CostsBetween ==
  ASSUME NEW a \in Nat, NEW b \in Nat, NEW r1 \in Nat, NEW r2 \in Nat, NEW u1 \in Nat,
         NEW u2 \in Nat, NEW q \in Nat, NEW k \in Nat, k =< q, NEW best \in Int,
         best =< a * r2 + b * u2, best =< a * (q * r1 + r2) + b * (u2 - q * u1)
  PROVE  best =< a * (k * r1 + r2) + b * (u2 - k * u1)
<1> DEFINE f == a * r1
           h == b * u1
           c == a * r2 + b * u2
<1>1. /\ f \in Int /\ h \in Int /\ c \in Int
  <2>1. a * r2 \in Int /\ b * u2 \in Int
    BY IntRing
  <2> QED BY <2>1, IntRing
<1>2. ASSUME NEW j \in Nat
      PROVE  a * (j * r1 + r2) + b * (u2 - j * u1) = c + j * (f - h)
  <2>1. j * r1 \in Int /\ j * u1 \in Int /\ a * r2 \in Int /\ b * u2 \in Int
        /\ a * (j * r1) \in Int /\ b * (j * u1) \in Int
    BY IntRing
  <2>2. a * (j * r1 + r2) = a * (j * r1) + a * r2
    BY <2>1, IntRing
  <2>3. b * (u2 - j * u1) = b * u2 - b * (j * u1)
    BY <2>1, IntRing
  <2>4. a * (j * r1) = j * f
    <3>1. a * (j * r1) = (a * j) * r1 /\ a * j = j * a /\ (j * a) * r1 = j * (a * r1)
      BY IntRing
    <3> QED BY <3>1
  <2>5. b * (j * u1) = j * h
    <3>1. b * (j * u1) = (b * j) * u1 /\ b * j = j * b /\ (j * b) * u1 = j * (b * u1)
      BY IntRing
    <3> QED BY <3>1
  <2>6. j * (f - h) = j * f - j * h
    BY <1>1, IntRing
  <2> QED BY <2>1, <2>2, <2>3, <2>4, <2>5, <2>6
<1>3. best =< c /\ best =< c + q * (f - h)
  BY <1>2
<1> HIDE DEF c, f, h
<1>4. best =< c + k * (f - h)
  <2> DEFINE e == f - h
  <2>1. e \in Int /\ k * e \in Int /\ q * e \in Int
    BY <1>1, IntRing
  <2>2. CASE e >= 0
    <3>1. k * e >= 0
      <4> HIDE DEF e
      <4> QED BY <2>1, <2>2
    <3> QED BY <1>1, <1>3, <2>1, <3>1
  <2>3. CASE e < 0
    <3>1. (q - k) * e =< 0
      <4> HIDE DEF e
      <4>1. q - k >= 0
        OBVIOUS
      <4> QED BY <2>1, <2>3, <4>1
    <3>2. (q - k) * e = q * e - k * e
      BY <2>1, IntRing
    <3> QED BY <1>1, <1>3, <2>1, <3>1, <3>2
  <2> QED BY <2>1, <2>2, <2>3
<1> QED BY <1>2, <1>4

\* A pair that is not divisible by p costs no less than the convergents around it.
LEMMA PairBetween ==
  ASSUME NEW a, NEW b, NEW p, NEW q, NEW r1, NEW r2, NEW u0, NEW u1, NEW u2,
         AreThree(q, r1, r2, u0, u1, u2), NEW best,
         CoversThree(best, a, b, p, q, r1, r2, u0, u1, u2),
         NEW r, NEW t, NEW X, NEW Y, IsCombination(r, t, X, Y, r1, r2, u1, u2), Y >= 0,
         ~ Divides(p, t), u1 =< Abs(t), Abs(t) < u2
  PROVE  Covers(best, a, b, Abs(r), Abs(t))
<1>0. /\ a \in Nat /\ b \in Nat /\ p \in Nat /\ q \in Nat /\ r1 \in Nat /\ r2 \in Nat /\ r2 =< r1
      /\ u0 \in Nat /\ u1 \in Nat /\ u2 \in Nat /\ u0 =< u1 /\ u2 = u0 + q * u1
      /\ X \in Int /\ Y \in Nat /\ r \in Int /\ t \in Int
      /\ r = X * r1 + Y * r2 /\ t = X * u1 - Y * u2 /\ best \in Int
      /\ ~ Divides(p, u0) => best =< a * (q * r1 + r2) + b * u0
      /\ ~ Divides(p, u1) => best =< a * r1 + b * u1
      /\ ~ Divides(p, u2) => best =< a * r2 + b * u2
  BY DEF AreThree, CoversThree, IsCombination, Covers
<1> SUFFICES ASSUME a \in Nat, b \in Nat, p \in Nat, q \in Nat,
         r1 \in Nat, r2 \in Nat, r2 =< r1,
         u0 \in Nat, u1 \in Nat, u2 \in Nat, u0 =< u1, u2 = u0 + q * u1,
         X \in Int, Y \in Nat, r \in Int, t \in Int,
         r = X * r1 + Y * r2, t = X * u1 - Y * u2, best \in Int,
         ~ Divides(p, u0) => best =< a * (q * r1 + r2) + b * u0,
         ~ Divides(p, u1) => best =< a * r1 + b * u1,
         ~ Divides(p, u2) => best =< a * r2 + b * u2
  PROVE  best =< a * Abs(r) + b * Abs(t)
  BY <1>0 DEF Covers
<1>1. /\ p \in Int /\ X * u1 \in Int /\ Y * u2 \in Int /\ X * r1 \in Int /\ Y * r2 \in Int
      /\ q * u1 \in Int /\ q * r1 \in Int
      /\ u0 \in Int /\ u1 \in Int /\ u2 \in Int /\ q \in Int /\ Y \in Int
      /\ Abs(t) \in Int /\ Abs(r) \in Int /\ r =< Abs(r) /\ -t =< Abs(t)
  <2>1. /\ X * u1 \in Int /\ Y * u2 \in Int /\ X * r1 \in Int /\ Y * r2 \in Int
        /\ q * u1 \in Int /\ q * r1 \in Int
    BY IntRing
  <2> QED BY <2>1 DEF Abs
<1>2. CASE Y = 0
  <2>1. r = X * r1 /\ t = X * u1
    <3>1. Y * r2 = 0 /\ Y * u2 = 0
      BY <1>2
    <3> QED BY <1>1, <3>1
  <2>2. ~ Divides(p, u1)
    <3>1. ASSUME Divides(p, u1) PROVE FALSE
      <4>1. Divides(p, X * u1)
        BY <1>1, <3>1, DividesTimes
      <4> QED BY <2>1, <4>1
    <3> QED BY <3>1
  <2>3. X # 0
    <3>1. ASSUME X = 0 PROVE FALSE
      <4>1. t = 0
        BY <2>1, <3>1
      <4> QED BY <1>1, <4>1, DividesBasics
    <3> QED BY <3>1
  <2>4. Abs(X) >= 1 /\ Abs(X) \in Nat
    BY <2>3 DEF Abs
  <2>5. Abs(r) = Abs(X) * r1 /\ Abs(t) = Abs(X) * u1
    <3>1. Abs(r1) = r1 /\ Abs(u1) = u1 /\ r1 \in Int
      BY DEF Abs
    <3>2. Abs(X * r1) = Abs(X) * Abs(r1) /\ Abs(X * u1) = Abs(X) * Abs(u1)
      BY <1>1, <3>1, AbsTimes
    <3> QED BY <2>1, <3>1, <3>2
  <2>6. r1 =< Abs(r) /\ u1 =< Abs(t)
    <3>1. r1 * 1 =< r1 * Abs(X) /\ r1 * Abs(X) = Abs(X) * r1 /\ r1 * 1 = r1
      BY <2>4, Monotone, IntRing
    <3> QED BY <2>5, <3>1
  <2> QED BY <1>1, <2>2, <2>6, CostsGrow
<1>3. CASE Y # 0
  <2>1. Y >= 1
    BY <1>3
  <2>2. u2 =< Y * u2 /\ r2 =< Y * r2
    <3>1. u2 * 1 =< u2 * Y /\ u2 * Y = Y * u2 /\ u2 * 1 = u2
      BY <2>1, Monotone, IntRing
    <3>2. r2 * 1 =< r2 * Y /\ r2 * Y = Y * r2 /\ r2 * 1 = r2
      BY <2>1, Monotone, IntRing
    <3> QED BY <3>1, <3>2
  <2>3. X >= 1
    <3>1. X * u1 > 0
      BY <1>1, <2>2
    <3>2. ASSUME X =< 0 PROVE FALSE
      <4>1. u1 * X =< u1 * 0 /\ u1 * X = X * u1 /\ u1 * 0 = 0
        BY <3>2, Monotone, IntRing
      <4> QED BY <3>1, <4>1
    <3> QED BY <3>2
  <2>4. X \in Nat
    BY <2>3
  <2>5. r1 =< X * r1
    <3>1. r1 * 1 =< r1 * X /\ r1 * X = X * r1 /\ r1 * 1 = r1
      BY <2>3, Monotone, IntRing
    <3> QED BY <3>1
  <2>6. CASE ~ Divides(p, u1)
    <3>1. r1 =< Abs(r)
      BY <1>1, <2>2, <2>5
    <3> QED BY <1>1, <2>6, <3>1, CostsGrow
  <2>7. CASE Divides(p, u1)
    <3>1. Divides(p, X * u1) /\ Divides(p, q * u1)
      BY <1>1, <2>7, DividesTimes
    <3>2. ~ Divides(p, u2)
      <4>1. ASSUME Divides(p, u2) PROVE FALSE
        <5>1. Divides(p, Y * u2)
          BY <1>1, <4>1, DividesTimes
        <5> QED BY <1>1, <3>1, <5>1, DividesSum
      <4> QED BY <4>1
    <3>3. ~ Divides(p, u0)
      <4>1. ASSUME Divides(p, u0) PROVE FALSE
        BY <1>1, <3>1, <3>2, <4>1, DividesSum
      <4> QED BY <4>1
    <3>4. u0 = u2 - q * u1
      BY <1>1
    <3>5. CASE X =< q
      <4>1. best =< a * (X * r1 + r2) + b * (u2 - X * u1)
        BY <2>4, <3>2, <3>3, <3>4, <3>5, CostsBetween
      <4>2. X * r1 + r2 =< Abs(r) /\ u2 - X * u1 =< Abs(t)
        BY <1>1, <2>2
      <4> QED BY <1>1, <4>1, <4>2, CostsGrow
    <3>6. CASE X > q
      <4>1. r1 * (q + 1) =< r1 * X /\ r1 * X = X * r1 /\ r1 * (q + 1) = q * r1 + r1
        <5>1. r1 * (q + 1) = r1 * q + r1 * 1 /\ r1 * q = q * r1 /\ r1 * 1 = r1
          BY IntRing
        <5>2. q + 1 =< X
          BY <3>6
        <5> QED BY <5>1, <5>2, Monotone, IntRing
      <4>2. q * r1 + r2 =< Abs(r) /\ u0 =< Abs(t)
        BY <1>1, <2>2, <4>1
      <4> QED BY <1>1, <3>3, <4>2, CostsGrow
    <3> QED BY <3>5, <3>6
  <2> QED BY <2>6, <2>7
<1> QED BY <1>2, <1>3

-----------------------------------------------------------------------------
(* Two convergents in a row are a basis of the lattice.                    *)

LEMMA CancelPositive ==
  ASSUME NEW n \in Positive, NEW a \in Int, NEW b \in Int, n * a = n * b
  PROVE  a = b
<1>1. n \in Int /\ n > 0
  BY DEF Positive
<1>2. n * (a - b) = 0
  <2>1. n * (a - b) = n * a - n * b /\ n * a \in Int
    BY <1>1, IntRing
  <2> QED BY <2>1
<1> QED BY <1>1, <1>2

LEMMA Expand ==
  ASSUME NEW a \in Int, NEW b \in Int, NEW c \in Int, NEW d \in Int, NEW e \in Int
  PROVE  (a * b + c * d) * e = a * (b * e) + c * (d * e)
<1>1. a * b \in Int /\ c * d \in Int
  BY IntRing
<1>2. (a * b + c * d) * e = (a * b) * e + (c * d) * e
  BY <1>1, IntRing
<1>3. (a * b) * e = a * (b * e) /\ (c * d) * e = c * (d * e)
  BY IntRing
<1> QED BY <1>2, <1>3

LEMMA BasisOfPairs ==
  ASSUME NEW n, NEW h, NEW r1, NEW r2, NEW u1, NEW u2, AreBasis(n, h, r1, r2, u1, u2),
         NEW r \in Int, NEW z \in Int, IsProduct(r, z, h, n)
  PROVE  \E X, Y \in Int : IsCombination(r, z, X, Y, r1, r2, u1, u2)
<1> SUFFICES ASSUME n \in Positive, h \in Int, r1 \in Nat, r2 \in Nat, u1 \in Nat, u2 \in Nat,
                    r1 * u2 + r2 * u1 = n, IsProduct(r1, u1, h, n), IsProduct(r2, -u2, h, n)
             PROVE  \E X, Y \in Int : IsCombination(r, z, X, Y, r1, r2, u1, u2)
  BY DEF AreBasis
<1>1. /\ n \in Int /\ r1 \in Int /\ r2 \in Int /\ u1 \in Int /\ u2 \in Int /\ -u2 \in Int
      /\ -r1 \in Int /\ -r2 \in Int
  BY DEF Positive
<1>2. Divides(n, r * u2 + z * r2)
  <2>1. r * u2 \in Int /\ z * h \in Int /\ (z * h) * u2 \in Int /\ (-u2) * h \in Int
        /\ z * r2 \in Int /\ z * ((-u2) * h) \in Int
    BY <1>1, IntRing
  <2>2. Cong(r * u2, (z * h) * u2, n) /\ Cong(z * r2, z * ((-u2) * h), n)
    BY <1>1, <2>1, CongTimesOne DEF IsProduct
  <2>3. Cong(r * u2 + z * r2, (z * h) * u2 + z * ((-u2) * h), n)
    BY <1>1, <2>1, <2>2, CongPlus
  <2>4. (z * h) * u2 + z * ((-u2) * h) = 0
    <3>1. (z * h) * u2 = z * (h * u2) /\ h * u2 = u2 * h /\ u2 * h \in Int
      BY <1>1, IntRing
    <3>2. (-u2) * h = -(u2 * h) /\ z * (-(u2 * h)) = -(z * (u2 * h)) /\ z * (u2 * h) \in Int
      BY <1>1, <3>1, IntRing
    <3> QED BY <3>1, <3>2
  <2> QED BY <1>1, <2>1, <2>3, <2>4, CongZero
<1>3. Divides(n, r * u1 - z * r1)
  <2>1. r * u1 \in Int /\ z * h \in Int /\ (z * h) * u1 \in Int /\ u1 * h \in Int
        /\ z * r1 \in Int /\ z * (u1 * h) \in Int
    BY <1>1, IntRing
  <2>2. Cong(r * u1, (z * h) * u1, n) /\ Cong(z * r1, z * (u1 * h), n)
    BY <1>1, <2>1, CongTimesOne DEF IsProduct
  <2>3. Cong(r * u1 - z * r1, (z * h) * u1 - z * (u1 * h), n)
    BY <1>1, <2>1, <2>2, CongPlus
  <2>4. (z * h) * u1 - z * (u1 * h) = 0
    <3>1. (z * h) * u1 = z * (h * u1) /\ h * u1 = u1 * h
      BY <1>1, IntRing
    <3> QED BY <2>1, <3>1
  <2> QED BY <1>1, <2>1, <2>3, <2>4, CongZero
<1>4. PICK X \in Int : r * u2 + z * r2 = n * X
  BY <1>2 DEF Divides
<1>5. PICK Y \in Int : r * u1 - z * r1 = n * Y
  BY <1>3 DEF Divides
<1>6. /\ X * r1 \in Int /\ Y * r2 \in Int /\ X * u1 \in Int /\ Y * u2 \in Int
      /\ r1 * u2 \in Int /\ r2 * u1 \in Int /\ r * n = n * r /\ z * n = n * z
      /\ r1 * u2 = u2 * r1 /\ r2 * u1 = u1 * r2 /\ r1 * r2 = r2 * r1 /\ u1 * u2 = u2 * u1
      /\ r1 * r2 \in Int /\ u1 * u2 \in Int
  BY <1>1, IntRing
<1>7. r = X * r1 + Y * r2
  <2>1. n * (X * r1 + Y * r2) = (n * X) * r1 + (n * Y) * r2
    <3>1. n * (X * r1 + Y * r2) = n * (X * r1) + n * (Y * r2)
      BY <1>1, <1>6, IntRing
    <3>2. n * (X * r1) = (n * X) * r1 /\ n * (Y * r2) = (n * Y) * r2
      BY <1>1, IntRing
    <3> QED BY <3>1, <3>2
  <2>2. (r * u2 + z * r2) * r1 = r * (u2 * r1) + z * (r2 * r1)
    BY <1>1, Expand
  <2>3. (r * u1 - z * r1) * r2 = r * (u1 * r2) - z * (r1 * r2)
    <3>1. r * u1 \in Int /\ z * r1 \in Int
      BY <1>1, IntRing
    <3>2. (r * u1 - z * r1) * r2 = (r * u1) * r2 - (z * r1) * r2
      BY <1>1, <3>1, IntRing
    <3>3. (r * u1) * r2 = r * (u1 * r2) /\ (z * r1) * r2 = z * (r1 * r2)
      BY <1>1, IntRing
    <3> QED BY <3>2, <3>3
  <2>4. r * (r1 * u2 + r2 * u1) = r * (r1 * u2) + r * (r2 * u1)
    BY <1>6, IntRing
  <2>5. z * (r1 * r2) \in Int /\ r * (r1 * u2) \in Int /\ r * (r2 * u1) \in Int
    BY <1>6, IntRing
  <2>6. n * (X * r1 + Y * r2) = n * r
    BY <1>4, <1>5, <1>6, <2>1, <2>2, <2>3, <2>4, <2>5
  <2>7. X * r1 + Y * r2 \in Int
    BY <1>6
  <2> QED BY <2>6, <2>7, CancelPositive
<1>8. z = X * u1 - Y * u2
  <2>1. n * (X * u1 - Y * u2) = (n * X) * u1 - (n * Y) * u2
    <3>1. n * (X * u1 - Y * u2) = n * (X * u1) - n * (Y * u2)
      BY <1>1, <1>6, IntRing
    <3>2. n * (X * u1) = (n * X) * u1 /\ n * (Y * u2) = (n * Y) * u2
      BY <1>1, IntRing
    <3> QED BY <3>1, <3>2
  <2>2. (r * u2 + z * r2) * u1 = r * (u2 * u1) + z * (r2 * u1)
    BY <1>1, Expand
  <2>3. (r * u1 - z * r1) * u2 = r * (u1 * u2) - z * (r1 * u2)
    <3>1. r * u1 \in Int /\ z * r1 \in Int
      BY <1>1, IntRing
    <3>2. (r * u1 - z * r1) * u2 = (r * u1) * u2 - (z * r1) * u2
      BY <1>1, <3>1, IntRing
    <3>3. (r * u1) * u2 = r * (u1 * u2) /\ (z * r1) * u2 = z * (r1 * u2)
      BY <1>1, IntRing
    <3> QED BY <3>2, <3>3
  <2>4. z * (r1 * u2 + r2 * u1) = z * (r1 * u2) + z * (r2 * u1)
    BY <1>6, IntRing
  <2>5. r * (u1 * u2) \in Int /\ z * (r1 * u2) \in Int /\ z * (r2 * u1) \in Int
    BY <1>6, IntRing
  <2>6. n * (X * u1 - Y * u2) = n * z
    BY <1>4, <1>5, <1>6, <2>1, <2>2, <2>3, <2>4, <2>5
  <2>7. X * u1 - Y * u2 \in Int
    BY <1>6
  <2> QED BY <2>6, <2>7, CancelPositive
<1> QED BY <1>7, <1>8 DEF IsCombination

LEMMA DividesNegative ==
  ASSUME NEW d \in Int, NEW a \in Int
  PROVE  Divides(d, -a) <=> Divides(d, a)
<1>1. a * (-1) = -a /\ (-a) * (-1) = a /\ -a \in Int /\ -1 \in Int
  OBVIOUS
<1>2. Divides(d, a) => Divides(d, a * (-1))
  BY <1>1, DividesTimes
<1>3. Divides(d, -a) => Divides(d, (-a) * (-1))
  BY <1>1, DividesTimes
<1> QED BY <1>1, <1>2, <1>3

LEMMA PairCoveredUnsigned ==
  ASSUME NEW n, NEW h, NEW q, NEW r1, NEW r2, NEW u0, NEW u1, NEW u2,
         AreBasis(n, h, r1, r2, u1, u2), AreThree(q, r1, r2, u0, u1, u2),
         NEW a, NEW b, NEW p, NEW best, CoversThree(best, a, b, p, q, r1, r2, u0, u1, u2),
         NEW r \in Int, NEW z \in Int, IsProduct(r, z, h, n), ~ Divides(p, z),
         u1 =< Abs(z), Abs(z) < u2
  PROVE  Covers(best, a, b, Abs(r), Abs(z))
<1>1. PICK X \in Int, Y \in Int : IsCombination(r, z, X, Y, r1, r2, u1, u2)
  BY BasisOfPairs
<1>2. CASE Y >= 0
  BY <1>1, <1>2, PairBetween
<1>3. CASE Y < 0
  <2>1. -Y >= 0 /\ -Y \in Int /\ -X \in Int /\ -r \in Int /\ -z \in Int
        /\ Abs(-r) = Abs(r) /\ Abs(-z) = Abs(z)
    BY <1>3, AbsFacts
  <2>2. IsCombination(-r, -z, -X, -Y, r1, r2, u1, u2)
    <3>1. r1 \in Int /\ r2 \in Int /\ u1 \in Int /\ u2 \in Int
      BY DEF AreThree
    <3>2. /\ X * r1 \in Int /\ Y * r2 \in Int /\ X * u1 \in Int /\ Y * u2 \in Int
          /\ (-X) * r1 = -(X * r1) /\ (-Y) * r2 = -(Y * r2)
          /\ (-X) * u1 = -(X * u1) /\ (-Y) * u2 = -(Y * u2)
      BY <1>1, <3>1, IntRing
    <3>3. r = X * r1 + Y * r2 /\ z = X * u1 - Y * u2
      BY <1>1 DEF IsCombination
    <3>4. -r = (-X) * r1 + (-Y) * r2 /\ -z = (-X) * u1 - (-Y) * u2
      BY <3>2, <3>3
    <3> QED BY <2>1, <3>4 DEF IsCombination
  <2>3. ~ Divides(p, -z)
    <3>1. p \in Int
      BY DEF CoversThree
    <3> QED BY <3>1, DividesNegative
  <2>4. Covers(best, a, b, Abs(-r), Abs(-z))
    <3>1. u1 =< Abs(-z) /\ Abs(-z) < u2
      BY <2>1
    <3> QED BY <2>1, <2>2, <2>3, <3>1, PairBetween
  <2> QED BY <2>1, <2>4
<1> QED BY <1>1, <1>2, <1>3

\* With the signs of t: they alternate.
LEMMA PairCovered ==
  ASSUME NEW n \in Positive, NEW g \in Int, NEW q \in Nat, NEW r1 \in Nat, NEW r2 \in Nat, r2 =< r1,
         NEW t0 \in Int, NEW t1 \in Int, NEW t2 \in Int, t2 = t0 - q * t1,
         (t0 =< 0 /\ t1 > 0) \/ (t0 >= 0 /\ t1 < 0), Abs(t0) =< Abs(t1),
         r1 * Abs(t2) + r2 * Abs(t1) = n, IsProduct(r1, t1, g, n), IsProduct(r2, t2, g, n),
         NEW a, NEW b, NEW p, NEW best,
         CoversThree(best, a, b, p, q, r1, r2, Abs(t0), Abs(t1), Abs(t2)),
         NEW r \in Int, NEW t \in Int, IsProduct(r, t, g, n), ~ Divides(p, t),
         Abs(t1) =< Abs(t), Abs(t) < Abs(t2)
  PROVE  Covers(best, a, b, Abs(r), Abs(t))
<1> DEFINE u0 == Abs(t0)
           u1 == Abs(t1)
           u2 == Abs(t2)
<1>1. u0 \in Nat /\ u1 \in Nat /\ u2 \in Nat /\ p \in Int
      /\ -t0 \in Int /\ -t1 \in Int /\ -t2 \in Int /\ -t \in Int /\ -g \in Int
  BY AbsFacts DEF CoversThree
<1>2. CASE t1 > 0
  <2>1. q * t1 >= 0 /\ q * t1 \in Int
    BY <1>2
  <2>2. u0 = -t0 /\ u1 = t1 /\ u2 = -t2 /\ -u2 = t2
    BY <1>2, <2>1 DEF Abs
  <2>3. AreThree(q, r1, r2, u0, u1, u2)
    BY <1>1, <2>1, <2>2 DEF AreThree
  <2>4. IsProduct(r1, u1, g, n) /\ IsProduct(r2, -u2, g, n)
    BY <2>2
  <2> HIDE DEF u0, u1, u2
  <2>5. AreBasis(n, g, r1, r2, u1, u2)
    BY <1>1, <2>4 DEF AreBasis, u1, u2
  <2> QED BY <2>3, <2>5, PairCoveredUnsigned DEF u0, u1, u2
<1>3. CASE t1 < 0
  <2>1. q * t1 =< 0 /\ q * t1 \in Int /\ q * (-t1) = -(q * t1)
    <3>1. q * (-t1) >= 0 /\ q * (-t1) = -(q * t1) /\ q * t1 \in Int
      BY <1>3, IntRing
    <3> QED BY <3>1
  <2>2. u0 = t0 /\ u1 = -t1 /\ u2 = t2
    BY <1>3, <2>1 DEF Abs
  <2>3. AreThree(q, r1, r2, u0, u1, u2)
    BY <1>1, <2>1, <2>2 DEF AreThree
  <2>4. IsProduct(r1, u1, -g, n) /\ IsProduct(r2, -u2, -g, n) /\ IsProduct(r, -t, -g, n)
    <3>1. \A c \in Int : (-c) * (-g) = c * g
      <4>1. \A c \in Int : (-c) * (-g) = -(c * (-g)) /\ c * (-g) = -(c * g) /\ c * g \in Int
        BY <1>1, IntRing
      <4> QED BY <4>1
    <3>2. (-t1) * (-g) = t1 * g /\ (-t2) * (-g) = t2 * g /\ (-t) * (-g) = t * g
      BY <3>1
    <3> QED BY <2>2, <3>2 DEF IsProduct
  <2>5. Abs(-t) = Abs(t) /\ ~ Divides(p, -t)
    BY <1>1, AbsFacts, DividesNegative
  <2> HIDE DEF u0, u1, u2
  <2>6. AreBasis(n, -g, r1, r2, u1, u2)
    BY <1>1, <2>4 DEF AreBasis, u1, u2
  <2>7. Covers(best, a, b, Abs(r), Abs(-t))
    <3>1. u1 =< Abs(-t) /\ Abs(-t) < u2
      BY <2>5 DEF u1, u2
    <3> QED BY <1>1, <2>3, <2>4, <2>5, <2>6, <3>1, PairCoveredUnsigned DEF u0, u1, u2
  <2> QED BY <2>5, <2>7
<1> QED BY <1>2, <1>3

-----------------------------------------------------------------------------
(* The costs of the model.                                                 *)

\* The balanced residue is the smallest number of its class.
LEMMA BalRemIsLeast ==
  ASSUME NEW n \in Positive, NEW c \in Int
  PROVE  Abs(BalRem(c % n, n)) =< Abs(c) /\ Abs(BalRem(c % n, n)) \in Nat
<1> DEFINE d == BalRem(c % n, n)
<1>1. n \in Int /\ n > 0 /\ c % n \in 0 .. n - 1 /\ c % n \in Int /\ Cong(c % n, c, n)
  <2>1. c % n \in 0 .. n - 1 /\ Cong(c % n, c, n)
    BY DivMod, CongMod
  <2> QED BY <2>1 DEF Positive
<1>2. d \in Int /\ Cong(d, c % n, n) /\ 2 * Abs(d) =< n /\ Abs(d) \in Nat
  BY <1>1, BalRemFacts
<1> HIDE DEF d
<1>3. Cong(d, c, n)
  BY <1>1, <1>2, CongTrans
<1>4. PICK k \in Int : d - c = n * k
  BY <1>3 DEF Cong, Divides
<1>5. CASE k = 0
  <2>1. d = c
    BY <1>1, <1>2, <1>4, <1>5
  <2> QED BY <1>2, <2>1 DEF d
<1>6. CASE k >= 1
  <2>1. n * k >= n
    <3>1. n \in Nat
      BY <1>1
    <3> QED BY <1>6, <3>1, Monotone, IntRing
  <2> QED BY <1>1, <1>2, <1>4, <2>1 DEF Abs, d
<1>7. CASE k =< -1
  <2>1. n * k =< -n
    <3>1. n \in Nat /\ n * (-1) = -n
      BY <1>1
    <3> QED BY <1>7, <3>1, Monotone
  <2> QED BY <1>1, <1>2, <1>4, <2>1 DEF Abs, d
<1> QED BY <1>5, <1>6, <1>7

LEMMA NormOfPair ==
  ASSUME NEW x, NEW y, x.space \in Positive, x.noise \in Nat, y.noise \in Nat,
         NEW r \in Int, NEW t \in Int
  PROVE  Covers(NoiseNorm(x, y, <<r % x.space, t % x.space>>), x.noise, y.noise, Abs(r), Abs(t))
<1> DEFINE d == Abs(BalRem(r % x.space, x.space))
           e == Abs(BalRem(t % x.space, x.space))
<1>1. d \in Nat /\ e \in Nat /\ d =< Abs(r) /\ e =< Abs(t) /\ Abs(r) \in Int /\ Abs(t) \in Int
  BY BalRemIsLeast, AbsFacts
<1>2. NoiseNorm(x, y, <<r % x.space, t % x.space>>) = x.noise * d + y.noise * e
  BY DEF NoiseNorm
<1> HIDE DEF d, e
<1>3. x.noise * d + y.noise * e \in Int
  <2>1. x.noise * d \in Int /\ y.noise * e \in Int
    BY <1>1, IntRing
  <2> QED BY <2>1
<1>4. x.noise * d + y.noise * e =< x.noise * Abs(r) + y.noise * Abs(t)
  BY <1>1, <1>3, CostsGrow
<1> QED BY <1>2, <1>3, <1>4 DEF Covers

LEMMA NormIsInteger ==
  ASSUME NEW x, NEW y, x.space \in Positive, x.noise \in Nat, y.noise \in Nat,
         NEW e \in (0 .. x.space - 1) \X (0 .. x.space - 1)
  PROVE  NoiseNorm(x, y, e) \in Int
<1>1. Abs(BalRem(e[1], x.space)) \in Nat /\ Abs(BalRem(e[2], x.space)) \in Nat
  BY BalRemFacts
<1>2. x.noise * Abs(BalRem(e[1], x.space)) \in Int /\ y.noise * Abs(BalRem(e[2], x.space)) \in Int
  BY <1>1, IntRing
<1> QED BY <1>2 DEF NoiseNorm

LEMMA CoversMore ==
  ASSUME NEW best, NEW a, NEW b, NEW r, NEW u, Covers(best, a, b, r, u), r \in Int, u \in Int,
         NEW less \in Int, less =< best
  PROVE  Covers(less, a, b, r, u)
<1>1. a * r \in Int /\ b * u \in Int
  BY IntRing DEF Covers
<1> QED BY <1>1 DEF Covers

\* Two ciphertexts that are to be added.
AreMatched(x, y) ==
  /\ WellFormed(x) /\ WellFormed(y) /\ x.space = y.space /\ x.noise \in Nat /\ y.noise \in Nat

\* A pair of factors that harmonize.
IsPair(r, t, x, y) ==
  r \in Int /\ t \in Int /\ IsProduct(r, t, Ratio(x, y), x.space) /\ ~ Divides(P, t)

LEMMA UnitsTogether ==
  ASSUME context \in Params, NEW x, NEW y, AreMatched(x, y), NEW r \in Int, NEW t \in Int,
         IsProduct(r, t, Ratio(x, y), x.space)
  PROVE  Divides(P, r) <=> Divides(P, t)
<1> DEFINE g == Ratio(x, y)
           n == x.space
<1>1. n \in PtxtSpaces /\ n \in Int /\ n \in Positive
  BY Fields DEF AreMatched
<1>2. g \in Int /\ ~ Divides(P, g)
  BY RatioFacts DEF AreMatched
<1> HIDE DEF g
<1>3. P \in Int /\ Divides(P, n)
  BY <1>1, SpaceFacts, ContextFacts
<1>4. t * g \in Int /\ Cong(r, t * g, P)
  BY <1>1, <1>2, <1>3, IntRing, CongToDivisor DEF IsProduct, g
<1>5. Divides(P, r) <=> Divides(P, t * g)
  <2>1. Cong(t * g, r, P)
    BY <1>3, <1>4, CongSym
  <2>2. Divides(P, r) <=> Cong(r, 0, P)
    BY <1>3, CongZero
  <2>3. Divides(P, t * g) <=> Cong(t * g, 0, P)
    BY <1>3, <1>4, CongZero
  <2> QED BY <1>3, <1>4, <2>1, <2>2, <2>3, CongTrans
<1>6. Divides(P, t * g) <=> Divides(P, t)
  BY <1>2, <1>3, UnitsMultiply, DividesTimes
<1> QED BY <1>5, <1>6

-----------------------------------------------------------------------------
(* The states of the algorithm: the convergents, and the best of them.     *)

BestNorm(s, x, y) == NoiseNorm(x, y, s.best)

Alternate(t0, t1) == (t0 =< 0 /\ t1 > 0) \/ (t0 >= 0 /\ t1 < 0)

\* The best pair is as good as a convergent, unless that is divisible by p.
Tried(s, x, y, r, t) ==
  ~ Divides(P, t) => Covers(BestNorm(s, x, y), x.noise, y.noise, r, Abs(t))

IsRun(s, x, y) ==
  /\ s \in EuclidStates(x, y)
  /\ s.r1 < s.r0
  /\ Alternate(s.t0, s.t1) /\ Abs(s.t0) =< Abs(s.t1)
  /\ s.r0 * Abs(s.t1) + s.r1 * Abs(s.t0) = x.space
  /\ Tried(s, x, y, s.r0, s.t0) /\ Tried(s, x, y, s.r1, s.t1)

\* And as good as a pair that the convergents have passed.
Passed(s, x, y, r, t) ==
  Abs(t) < Abs(s.t1) => Covers(BestNorm(s, x, y), x.noise, y.noise, Abs(r), Abs(t))

LEMMA RunFields ==
  ASSUME context \in Params, NEW x, NEW y, AreMatched(x, y), NEW s \in EuclidStates(x, y)
  PROVE  /\ x.space \in Positive /\ x.space \in Int /\ x.space > 1
         /\ x.noise \in Nat /\ y.noise \in Nat /\ Ratio(x, y) \in Int
         /\ Ratio(x, y) \in 0 .. x.space - 1 /\ ~ Divides(P, Ratio(x, y))
         /\ s.r0 \in Nat /\ s.r1 \in Nat /\ s.t0 \in Int /\ s.t1 \in Int
         /\ Abs(s.t0) \in Nat /\ Abs(s.t1) \in Nat
         /\ IsProduct(s.r0, s.t0, Ratio(x, y), x.space)
         /\ IsProduct(s.r1, s.t1, Ratio(x, y), x.space)
         /\ s.best \in (0 .. x.space - 1) \X (0 .. x.space - 1)
         /\ BestNorm(s, x, y) \in Int
<1>1. x.space \in Positive /\ x.space \in Int /\ x.space > 1 /\ x.noise \in Nat /\ y.noise \in Nat
  BY Fields DEF AreMatched
<1>2. Ratio(x, y) \in Int /\ Ratio(x, y) \in 0 .. x.space - 1 /\ ~ Divides(P, Ratio(x, y))
  BY RatioFacts DEF AreMatched
<1>3. /\ s.r0 \in Nat /\ s.r1 \in Nat /\ s.t0 \in Int /\ s.t1 \in Int
      /\ IsProduct(s.r0, s.t0, Ratio(x, y), x.space)
      /\ IsProduct(s.r1, s.t1, Ratio(x, y), x.space)
      /\ s.best \in (0 .. x.space - 1) \X (0 .. x.space - 1)
  BY DEF EuclidStates
<1>4. Abs(s.t0) \in Nat /\ Abs(s.t1) \in Nat
  BY <1>3, AbsFacts
<1>5. BestNorm(s, x, y) \in Int
  BY <1>1, <1>3, NormIsInteger DEF BestNorm
<1> QED BY <1>1, <1>2, <1>3, <1>4, <1>5

LEMMA RunStarts ==
  ASSUME context \in Params, NEW x, NEW y, AreMatched(x, y)
  PROVE  IsRun(EuclidStart(x, y), x, y) /\ EuclidStart(x, y).r1 < x.space
         /\ Abs(EuclidStart(x, y).t1) = 1
<1> DEFINE s == EuclidStart(x, y)
           n == x.space
           g == Ratio(x, y)
<1>1. s = [r0 |-> n, r1 |-> g, t0 |-> 0, t1 |-> 1, best |-> <<g, 1>>]
  BY DEF EuclidStart, Ratio
<1>2. s.r0 = n /\ s.r1 = g /\ s.t0 = 0 /\ s.t1 = 1 /\ s.best = <<g, 1>>
  BY <1>1
<1>3. s \in EuclidStates(x, y)
  BY EuclidStarts DEF AreMatched
<1> HIDE DEF s, g
<1>4. n \in Positive /\ n \in Int /\ n > 1 /\ x.noise \in Nat /\ y.noise \in Nat
      /\ g \in 0 .. n - 1 /\ g \in Int
  BY <1>3, RunFields DEF g
<1>5. Abs(0) = 0 /\ Abs(1) = 1 /\ Abs(g) = g
  BY <1>4 DEF Abs
<1>6. g % n = g /\ 1 % n = 1
  BY <1>4
<1>7. Tried(s, x, y, s.r1, s.t1)
  <2>1. Covers(NoiseNorm(x, y, <<g % n, 1 % n>>), x.noise, y.noise, Abs(g), Abs(1))
    BY <1>4, NormOfPair
  <2>2. Covers(BestNorm(s, x, y), x.noise, y.noise, g, Abs(1))
    BY <1>2, <1>5, <1>6, <2>1 DEF BestNorm
  <2> QED BY <1>2, <2>2 DEF Tried
<1>8. Tried(s, x, y, s.r0, s.t0)
  <2>1. Divides(P, 0)
    BY ContextFacts, DividesBasics
  <2> QED BY <1>2, <2>1 DEF Tried
<1>9. s.r0 * Abs(s.t1) + s.r1 * Abs(s.t0) = n
  <2>1. n * 1 = n /\ g * 0 = 0
    BY <1>4, IntRing
  <2> QED BY <1>2, <1>4, <1>5, <2>1
<1>10. Alternate(s.t0, s.t1) /\ Abs(s.t0) =< Abs(s.t1) /\ s.r1 < s.r0 /\ Abs(s.t1) = 1
  BY <1>2, <1>4, <1>5 DEF Alternate
<1> QED BY <1>2, <1>3, <1>4, <1>7, <1>8, <1>9, <1>10 DEF IsRun, s

\* What a step does.
LEMMA StepFields ==
  ASSUME context \in Params, NEW x, NEW y, AreMatched(x, y), NEW s, IsRun(s, x, y), s.r1 # 0
  PROVE  LET u == EuclidStep(x, y, s) IN
         /\ u \in EuclidStates(x, y) /\ u.r0 = s.r1 /\ u.t0 = s.t1 /\ u.r1 < s.r1
         /\ BestNorm(u, x, y) =< BestNorm(s, x, y)
         /\ Tried(u, x, y, u.r1, u.t1)
         /\ \E q \in Nat : q >= 1 /\ s.r0 = q * s.r1 + u.r1 /\ u.t1 = s.t0 - q * s.t1
<1> DEFINE n == x.space
           q == s.r0 \div s.r1
           r == s.r0 % s.r1
           t == s.t0 - s.t1 * q
           e == <<r % n, t % n>>
           u == EuclidStep(x, y, s)
<1>1. s \in EuclidStates(x, y) /\ s.r1 < s.r0
  BY DEF IsRun
<1>2. /\ n \in Positive /\ n \in Int /\ x.noise \in Nat /\ y.noise \in Nat
      /\ s.r0 \in Nat /\ s.r1 \in Nat /\ s.t0 \in Int /\ s.t1 \in Int /\ BestNorm(s, x, y) \in Int
  BY <1>1, RunFields
<1>3. u \in EuclidStates(x, y)
  BY <1>1, EuclidSteps DEF AreMatched
<1>4. u = [r0 |-> s.r1, r1 |-> r, t0 |-> s.t1, t1 |-> t,
           best |-> IF Better(x, y, e, s.best) THEN e ELSE s.best]
  BY DEF EuclidStep
<1>5. u.r0 = s.r1 /\ u.r1 = r /\ u.t0 = s.t1 /\ u.t1 = t
      /\ u.best = IF Better(x, y, e, s.best) THEN e ELSE s.best
  BY <1>4
<1>6. q \in Int /\ r \in Nat /\ r < s.r1 /\ s.r0 = s.r1 * q + r
  <2>1. s.r1 \in Positive /\ s.r1 \in Int /\ s.r0 \in Int
    BY <1>2 DEF Positive
  <2>2. q \in Int /\ r \in 0 .. s.r1 - 1 /\ s.r0 = s.r1 * q + r
    BY <2>1, DivMod
  <2> HIDE DEF q, r
  <2> QED BY <2>1, <2>2
<1> HIDE DEF u, q, r
<1>7. q >= 1
  <2>1. ASSUME q =< 0 PROVE FALSE
    <3>1. s.r1 * q =< s.r1 * 0 /\ s.r1 * 0 = 0 /\ s.r1 * q \in Int
      BY <1>2, <1>6, <2>1, Monotone, IntRing
    <3> QED BY <1>1, <1>2, <1>6, <3>1
  <2> QED BY <1>6, <2>1
<1>8. q \in Nat /\ s.r0 = q * s.r1 + u.r1 /\ u.t1 = s.t0 - q * s.t1
  <2>1. s.r1 * q = q * s.r1 /\ s.t1 * q = q * s.t1
    BY <1>2, <1>6, IntRing
  <2> QED BY <1>5, <1>6, <1>7, <2>1
<1>9. t \in Int
  BY <1>3, <1>5, RunFields
<1> HIDE DEF t
<1>10. Covers(NoiseNorm(x, y, e), x.noise, y.noise, Abs(r), Abs(t)) /\ Abs(r) = r
  <2>1. Abs(r) = r /\ r \in Int
    BY <1>6, AbsFacts
  <2> QED BY <1>2, <1>9, <2>1, NormOfPair
<1>11. NoiseNorm(x, y, e) \in Int
  BY <1>10 DEF Covers
<1>12. BestNorm(u, x, y) =< BestNorm(s, x, y)
  <2>1. CASE Better(x, y, e, s.best)
    BY <1>2, <1>5, <1>11, <2>1 DEF BestNorm, Better
  <2>2. CASE ~ Better(x, y, e, s.best)
    BY <1>2, <1>5, <2>2 DEF BestNorm
  <2> QED BY <2>1, <2>2
<1>13. ASSUME ~ Divides(P, t) PROVE Covers(BestNorm(u, x, y), x.noise, y.noise, r, Abs(t))
  <2>1. r \in Int /\ IsProduct(r, t, Ratio(x, y), n)
    BY <1>3, <1>5, <1>6, RunFields
  <2>2. ~ Divides(P, r)
    BY <1>9, <1>13, <2>1, UnitsTogether
  <2>3. n \in PtxtSpaces
    BY Fields DEF AreMatched
  <2>4. ~ Divides(P, r % n) /\ r % n \in Int
    BY <1>2, <2>1, <2>2, <2>3, ResidueOfUnit, DivMod
  <2>5. (r % n) % P # 0
    <3>1. P \in Positive
      BY ContextFacts DEF Positive
    <3> QED BY <2>4, <3>1, DividesMod
  <2>6. e[1] % P # 0
    BY <2>5
  <2>7. BestNorm(u, x, y) =< NoiseNorm(x, y, e)
    <3>1. CASE Better(x, y, e, s.best)
      BY <1>5, <1>11, <3>1 DEF BestNorm
    <3>2. CASE ~ Better(x, y, e, s.best)
      <4>1. ~ (NoiseNorm(x, y, e) < NoiseNorm(x, y, s.best))
        BY <2>6, <3>2 DEF Better
      <4> QED BY <1>2, <1>5, <1>11, <3>2, <4>1 DEF BestNorm
    <3> QED BY <3>1, <3>2
  <2>8. BestNorm(u, x, y) \in Int
    BY <1>3, RunFields
  <2>9. r \in Int /\ Abs(t) \in Int
    BY <1>9, <2>1, AbsFacts
  <2> HIDE DEF e
  <2> QED BY <1>10, <2>7, <2>8, <2>9, CoversMore
<1>14. Tried(u, x, y, u.r1, u.t1)
  BY <1>5, <1>13 DEF Tried
<1> QED BY <1>3, <1>5, <1>6, <1>7, <1>8, <1>12, <1>14 DEF u

IsStep(q, r0, r1, r2, t0, t1, t2) ==
  /\ q \in Nat /\ q >= 1 /\ r0 \in Nat /\ r1 \in Nat /\ r2 \in Nat /\ r0 = q * r1 + r2
  /\ t0 \in Int /\ t1 \in Int /\ t2 \in Int /\ t2 = t0 - q * t1

\* On numbers: the absolute values of t grow, and with r they keep the determinant.
LEMMA Determinant ==
  ASSUME NEW q, NEW r0, NEW r1, NEW r2, NEW t0, NEW t1, NEW t2, IsStep(q, r0, r1, r2, t0, t1, t2),
         NEW n \in Int, Alternate(t0, t1), r0 * Abs(t1) + r1 * Abs(t0) = n
  PROVE  /\ Alternate(t1, t2) /\ Abs(t1) =< Abs(t2)
         /\ r1 * Abs(t2) + r2 * Abs(t1) = n
<1> SUFFICES ASSUME q \in Nat, q >= 1, r0 \in Nat, r1 \in Nat, r2 \in Nat, r0 = q * r1 + r2,
                    t0 \in Int, t1 \in Int, t2 \in Int, t2 = t0 - q * t1
             PROVE  /\ Alternate(t1, t2) /\ Abs(t1) =< Abs(t2)
                    /\ r1 * Abs(t2) + r2 * Abs(t1) = n
  BY DEF IsStep
<1> DEFINE u0 == Abs(t0)
           u1 == Abs(t1)
<1>1. u0 \in Nat /\ u1 \in Nat /\ u1 > 0 /\ q * u1 \in Int /\ q * u1 >= u1 /\ q * t1 \in Int
  <2>1. u0 \in Nat /\ u1 \in Nat /\ u1 > 0
    BY DEF Abs, Alternate
  <2>2. u1 * 1 =< u1 * q /\ u1 * 1 = u1 /\ u1 * q = q * u1 /\ u1 * q \in Int
    BY <2>1, Monotone, IntRing
  <2> QED BY <2>1, <2>2, IntRing
<1>2. Abs(t2) = u0 + q * u1 /\ Alternate(t1, t2)
  <2>1. CASE t1 > 0
    <3>1. u1 = t1 /\ u0 = -t0 /\ t0 =< 0
      BY <2>1 DEF Abs, Alternate
    <3>2. t2 = -(u0 + q * u1) /\ t2 < 0
      BY <1>1, <3>1
    <3> QED BY <1>1, <2>1, <3>2 DEF Abs, Alternate
  <2>2. CASE t1 < 0
    <3>1. u1 = -t1 /\ u0 = t0 /\ t0 >= 0
      BY <2>2 DEF Abs, Alternate
    <3>2. q * u1 = -(q * t1)
      BY <3>1, IntRing
    <3>3. t2 = u0 + q * u1 /\ t2 > 0
      BY <1>1, <3>1, <3>2
    <3> QED BY <1>1, <2>2, <3>3 DEF Abs, Alternate
  <2> QED BY <2>1, <2>2 DEF Alternate
<1> HIDE DEF u0, u1
<1>3. r1 * (u0 + q * u1) + r2 * u1 = r0 * u1 + r1 * u0
  <2>1. r1 * (u0 + q * u1) = r1 * u0 + r1 * (q * u1)
    BY <1>1, IntRing
  <2>2. r1 * (q * u1) = (q * r1) * u1
    <3>1. r1 * (q * u1) = (r1 * q) * u1 /\ r1 * q = q * r1
      BY <1>1, IntRing
    <3> QED BY <3>1
  <2>3. (q * r1 + r2) * u1 = (q * r1) * u1 + r2 * u1 /\ q * r1 \in Int
    BY <1>1, IntRing
  <2>4. r1 * u0 \in Int /\ (q * r1) * u1 \in Int /\ r2 * u1 \in Int
    BY <1>1, <2>3, IntRing
  <2> QED BY <2>1, <2>2, <2>3, <2>4
<1> QED BY <1>1, <1>2, <1>3 DEF u0, u1

LEMMA RunSteps ==
  ASSUME context \in Params, NEW x, NEW y, AreMatched(x, y), NEW s, IsRun(s, x, y), s.r1 # 0
  PROVE  IsRun(EuclidStep(x, y, s), x, y)
<1> DEFINE u == EuclidStep(x, y, s)
<1>1. /\ u \in EuclidStates(x, y) /\ u.r0 = s.r1 /\ u.t0 = s.t1 /\ u.r1 < s.r1
      /\ BestNorm(u, x, y) =< BestNorm(s, x, y) /\ Tried(u, x, y, u.r1, u.t1)
  BY StepFields
<1>2. PICK q \in Nat : q >= 1 /\ s.r0 = q * s.r1 + u.r1 /\ u.t1 = s.t0 - q * s.t1
  BY StepFields
<1> HIDE DEF u
<1>3. /\ s.r0 \in Nat /\ s.r1 \in Nat /\ s.t0 \in Int /\ s.t1 \in Int /\ Abs(s.t1) \in Nat
      /\ u.r1 \in Nat /\ u.t1 \in Int /\ x.space \in Int /\ BestNorm(u, x, y) \in Int
  BY <1>1, RunFields DEF IsRun
<1>4. Alternate(s.t0, s.t1) /\ s.r0 * Abs(s.t1) + s.r1 * Abs(s.t0) = x.space
      /\ Tried(s, x, y, s.r1, s.t1)
  BY DEF IsRun
<1>5. /\ Alternate(s.t1, u.t1) /\ Abs(s.t1) =< Abs(u.t1)
      /\ s.r1 * Abs(u.t1) + u.r1 * Abs(s.t1) = x.space
  <2>1. IsStep(q, s.r0, s.r1, u.r1, s.t0, s.t1, u.t1)
    BY <1>2, <1>3 DEF IsStep
  <2> QED BY <1>3, <1>4, <2>1, Determinant
<1>6. Tried(u, x, y, s.r1, s.t1)
  <2>1. s.r1 \in Int /\ Abs(s.t1) \in Int
    BY <1>3
  <2> QED BY <1>1, <1>3, <1>4, <2>1, CoversMore DEF Tried
<1> QED BY <1>1, <1>5, <1>6 DEF IsRun, u

\* A pair that the convergents pass is covered.
LEMMA PassedSteps ==
  ASSUME context \in Params, NEW x, NEW y, AreMatched(x, y), NEW s, IsRun(s, x, y), s.r1 # 0,
         NEW r, NEW t, IsPair(r, t, x, y), Passed(s, x, y, r, t)
  PROVE  Passed(EuclidStep(x, y, s), x, y, r, t)
<1> DEFINE u == EuclidStep(x, y, s)
           a == x.noise
           b == y.noise
           best == BestNorm(u, x, y)
<1>1. /\ u \in EuclidStates(x, y) /\ u.r0 = s.r1 /\ u.t0 = s.t1 /\ u.r1 < s.r1
      /\ best =< BestNorm(s, x, y) /\ Tried(u, x, y, u.r1, u.t1)
  BY StepFields
<1>2. PICK q \in Nat : q >= 1 /\ s.r0 = q * s.r1 + u.r1 /\ u.t1 = s.t0 - q * s.t1
  BY StepFields
<1>3. IsRun(u, x, y)
  BY RunSteps
<1> HIDE DEF u
<1>4. /\ s.r0 \in Nat /\ s.r1 \in Nat /\ s.t0 \in Int /\ s.t1 \in Int
      /\ Abs(s.t0) \in Nat /\ Abs(s.t1) \in Nat
      /\ IsProduct(s.r1, s.t1, Ratio(x, y), x.space) /\ BestNorm(s, x, y) \in Int
  BY RunFields DEF IsRun
<1>5. /\ u.r1 \in Nat /\ u.t1 \in Int /\ Abs(u.t1) \in Nat /\ best \in Int /\ a \in Nat /\ b \in Nat
      /\ IsProduct(u.r1, u.t1, Ratio(x, y), x.space)
      /\ x.space \in Positive /\ Ratio(x, y) \in Int
  BY <1>1, RunFields
<1>6. /\ r \in Int /\ t \in Int /\ IsProduct(r, t, Ratio(x, y), x.space) /\ ~ Divides(P, t)
      /\ Abs(r) \in Int /\ Abs(t) \in Int
  BY AbsFacts DEF IsPair
<1>7. CASE Abs(t) < Abs(s.t1)
  <2>1. Covers(BestNorm(s, x, y), a, b, Abs(r), Abs(t))
    BY <1>7 DEF Passed
  <2>2. Covers(best, a, b, Abs(r), Abs(t))
    BY <1>1, <1>5, <1>6, <2>1, CoversMore
  <2> QED BY <2>2 DEF Passed, u
<1>8. CASE Abs(s.t1) =< Abs(t)
  <2>1. SUFFICES ASSUME Abs(t) < Abs(u.t1) PROVE Covers(best, a, b, Abs(r), Abs(t))
    BY DEF Passed, u
  <2>2. /\ Alternate(s.t0, s.t1) /\ Abs(s.t0) =< Abs(s.t1)
        /\ Tried(s, x, y, s.r0, s.t0) /\ Tried(s, x, y, s.r1, s.t1)
        /\ s.r1 * Abs(u.t1) + u.r1 * Abs(s.t1) = x.space
    BY <1>1, <1>3 DEF IsRun
  <2>3. \A c \in Int : Divides(P, Abs(c)) <=> Divides(P, c)
    <3>1. ASSUME NEW c \in Int PROVE Divides(P, Abs(c)) <=> Divides(P, c)
      <4>1. (Abs(c) = c \/ Abs(c) = -c) /\ P \in Int
        BY ContextFacts DEF Abs
      <4> QED BY <4>1, DividesNegative
    <3> QED BY <3>1
  <2>4. CoversThree(best, a, b, P, q, s.r1, u.r1, Abs(s.t0), Abs(s.t1), Abs(u.t1))
    <3>1. ~ Divides(P, Abs(s.t0)) => Covers(best, a, b, q * s.r1 + u.r1, Abs(s.t0))
      <4>1. ~ Divides(P, Abs(s.t0)) => Covers(BestNorm(s, x, y), a, b, s.r0, Abs(s.t0))
        BY <1>4, <2>2, <2>3 DEF Tried
      <4>2. s.r0 \in Int /\ Abs(s.t0) \in Int
        BY <1>4
      <4>3. ~ Divides(P, Abs(s.t0)) => Covers(best, a, b, s.r0, Abs(s.t0))
        BY <1>1, <1>5, <4>1, <4>2, CoversMore
      <4> QED BY <1>2, <4>3
    <3>2. ~ Divides(P, Abs(s.t1)) => Covers(best, a, b, s.r1, Abs(s.t1))
      <4>1. ~ Divides(P, Abs(s.t1)) => Covers(BestNorm(s, x, y), a, b, s.r1, Abs(s.t1))
        BY <1>4, <2>2, <2>3 DEF Tried
      <4>2. s.r1 \in Int /\ Abs(s.t1) \in Int
        BY <1>4
      <4> QED BY <1>1, <1>5, <4>1, <4>2, CoversMore
    <3>3. ~ Divides(P, Abs(u.t1)) => Covers(best, a, b, u.r1, Abs(u.t1))
      BY <1>1, <1>5, <2>3 DEF Tried
    <3>4. P \in Nat
      BY ContextFacts
    <3> HIDE DEF best, a, b
    <3> QED BY <1>5, <3>1, <3>2, <3>3, <3>4 DEF CoversThree
  <2>5. u.r1 =< s.r1
    BY <1>1, <1>4, <1>5
  <2>6. (s.t0 =< 0 /\ s.t1 > 0) \/ (s.t0 >= 0 /\ s.t1 < 0)
    BY <2>2 DEF Alternate
  <2> HIDE DEF best, a, b
  <2> QED BY <1>2, <1>4, <1>5, <1>6, <1>8, <2>1, <2>2, <2>4, <2>5, <2>6, PairCovered
<1>9. Abs(t) < Abs(s.t1) \/ Abs(s.t1) =< Abs(t)
  BY <1>4, <1>6
<1> QED BY <1>7, <1>8, <1>9

-----------------------------------------------------------------------------
(* The whole run.                                                          *)

LEMMA RunGoesOn ==
  ASSUME context \in Params, NEW x, NEW y, AreMatched(x, y), NEW k \in Nat
  PROVE  LET s == Euclid(x, y)[k] IN
         /\ IsRun(s, x, y) /\ (s.r1 = 0 \/ s.r1 + k < x.space)
         /\ \A r, t : IsPair(r, t, x, y) => Passed(s, x, y, r, t)
<1> DEFINE g == Euclid(x, y)
           Holds(s, i) == /\ IsRun(s, x, y) /\ (s.r1 = 0 \/ s.r1 + i < x.space)
                          /\ \A r, t : IsPair(r, t, x, y) => Passed(s, x, y, r, t)
           S == {i \in Nat : Holds(g[i], i)}
<1>1. g[0] = EuclidStart(x, y) /\ \A i \in Nat : g[i + 1] = EuclidStep(x, y, g[i])
  BY EuclidUnfolds DEF AreMatched
<1> HIDE DEF g
<1>2. 0 \in S
  <2>1. IsRun(g[0], x, y) /\ g[0].r1 < x.space /\ Abs(g[0].t1) = 1
    BY <1>1, RunStarts
  <2>2. g[0].r1 \in Nat
    BY <2>1, RunFields DEF IsRun
  <2>3. ASSUME NEW r, NEW t, IsPair(r, t, x, y) PROVE Passed(g[0], x, y, r, t)
    <3>1. t \in Int /\ t # 0
      <4>1. Divides(P, 0) /\ t \in Int /\ ~ Divides(P, t)
        BY <2>3, ContextFacts, DividesBasics DEF IsPair
      <4> QED BY <4>1
    <3>2. ~ (Abs(t) < 1)
      BY <3>1 DEF Abs
    <3> QED BY <2>1, <3>2 DEF Passed
  <2>4. g[0].r1 + 0 < x.space
    BY <2>1, <2>2
  <2> QED BY <2>1, <2>3, <2>4
<1>3. ASSUME NEW i \in Nat, i \in S PROVE i + 1 \in S
  <2> DEFINE s == g[i]
  <2>1. Holds(s, i) /\ g[i + 1] = EuclidStep(x, y, s)
    BY <1>1, <1>3
  <2> HIDE DEF s
  <2>2. CASE s.r1 = 0
    <3>1. EuclidStep(x, y, s) = s
      BY <2>2 DEF EuclidStep
    <3> QED BY <2>1, <2>2, <3>1
  <2>3. CASE s.r1 # 0
    <3> DEFINE u == EuclidStep(x, y, s)
    <3>1. IsRun(u, x, y) /\ \A r, t : IsPair(r, t, x, y) => Passed(u, x, y, r, t)
      BY <2>1, <2>3, RunSteps, PassedSteps
    <3>2. u.r1 < s.r1
      BY <2>1, <2>3, StepFields
    <3> HIDE DEF u
    <3>3. s.r1 \in Nat /\ u.r1 \in Nat /\ x.space \in Int
      BY <2>1, <3>1, RunFields DEF IsRun
    <3>4. u.r1 + (i + 1) < x.space
      BY <2>1, <2>3, <3>2, <3>3
    <3> QED BY <2>1, <3>1, <3>4 DEF u
  <2> QED BY <2>2, <2>3
<1> HIDE DEF S
<1>4. k \in S
  BY <1>2, <1>3, Induction
<1> QED BY <1>4 DEF S, g

\* The algorithm ends when the convergents have passed every pair there is.
LEMMA BestIsFound ==
  ASSUME context \in Params, NEW x, NEW y, AreMatched(x, y),
         NEW r, NEW t, IsPair(r, t, x, y), Abs(t) < x.space
  PROVE  Covers(BestNorm(Euclid(x, y)[x.space], x, y), x.noise, y.noise, Abs(r), Abs(t))
<1> DEFINE n == x.space
           s == Euclid(x, y)[n]
           g == Ratio(x, y)
<1>1. n \in Nat /\ n \in PtxtSpaces /\ n \in Positive /\ n \in Int /\ n > 0
  BY Fields DEF AreMatched
<1>2. IsRun(s, x, y) /\ (s.r1 = 0 \/ s.r1 + n < n) /\ Passed(s, x, y, r, t)
  BY <1>1, RunGoesOn
<1> HIDE DEF s
<1>3. s.r1 \in Nat /\ s.t1 \in Int /\ IsProduct(s.r1, s.t1, g, n) /\ g \in Int /\ ~ Divides(P, g)
  BY <1>2, RunFields DEF IsRun
<1>4. s.r1 = 0
  BY <1>1, <1>2, <1>3
<1>5. Divides(n, s.t1)
  <2>1. Cong(0, s.t1 * g, n) /\ s.t1 * g = g * s.t1 /\ g * s.t1 \in Int /\ g * 0 = 0
    BY <1>3, <1>4, IntRing DEF IsProduct
  <2>2. Cong(g * s.t1, g * 0, n)
    BY <1>1, <2>1, CongSym
  <2>3. Unit(g, n)
    BY <1>1, <1>3, SpaceFacts
  <2>4. Cong(s.t1, 0, n)
    BY <1>1, <1>3, <2>2, <2>3, UnitCancel
  <2> QED BY <1>1, <1>3, <2>4, CongZero
<1>6. Abs(s.t1) >= n
  <2>1. Divides(n, Abs(s.t1))
    <3>1. Abs(s.t1) = s.t1 \/ Abs(s.t1) = -s.t1
      BY DEF Abs
    <3> QED BY <1>1, <1>3, <1>5, <3>1, DividesNegative
  <2>2. Abs(s.t1) \in Positive
    BY <1>2, <1>3 DEF IsRun, Alternate, Abs, Positive
  <2>3. n \in 1 .. Abs(s.t1)
    BY <1>1, <2>1, <2>2, DivisorBound
  <2> QED BY <1>1, <2>2, <2>3 DEF Positive
<1>7. Abs(t) < Abs(s.t1)
  <2>1. t \in Int /\ Abs(t) \in Int /\ Abs(s.t1) \in Int
    BY <1>3, AbsFacts DEF IsPair
  <2> QED BY <1>1, <1>6, <2>1
<1> QED BY <1>2, <1>7 DEF Passed, s

\* The chosen factors are the best of all that harmonize.
LEMMA HarmonizingBest ==
  ASSUME context \in Params, NEW x, NEW y, AreMatched(x, y),
         NEW e \in (0 .. x.space - 1) \X (0 .. x.space - 1), Harmonizes(x, y, e)
  PROVE  NoiseNorm(x, y, HarmonizingFactors(x, y)) =< NoiseNorm(x, y, e)
<1> DEFINE n == x.space
           g == Ratio(x, y)
           r == BalRem(e[1], n)
           t == BalRem(e[2], n)
<1>1. /\ n \in PtxtSpaces /\ n \in Positive /\ n \in Int /\ n > 1 /\ x.noise \in Nat /\ y.noise \in Nat
      /\ x.factor \in Int /\ y.factor \in Int /\ ~ Divides(P, x.factor)
  BY Fields DEF AreMatched, WellFormed
<1>2. /\ e[1] \in 0 .. n - 1 /\ e[2] \in 0 .. n - 1 /\ e[1] \in Int /\ e[2] \in Int
      /\ ~ Divides(P, e[1]) /\ ~ Divides(P, e[2])
      /\ (e[1] * x.factor) % n = (e[2] * y.factor) % n
  <2>1. e[1] \in 0 .. n - 1 /\ e[2] \in 0 .. n - 1 /\ e[1] \in Int /\ e[2] \in Int
    BY <1>1
  <2>2. Unit(e[1], n) /\ Unit(e[2], n)
    BY <1>1, <2>1, CoprimeIsUnit DEF Harmonizes
  <2> QED BY <1>1, <2>1, <2>2, SpaceFacts DEF Harmonizes
<1>3. /\ r \in Int /\ Cong(r, e[1], n) /\ Abs(r) \in Nat
      /\ t \in Int /\ Cong(t, e[2], n) /\ 2 * Abs(t) =< n /\ Abs(t) \in Nat
  BY <1>1, <1>2, BalRemFacts
<1>4. NoiseNorm(x, y, e) = x.noise * Abs(r) + y.noise * Abs(t)
  BY DEF NoiseNorm
<1> HIDE DEF r, t
<1>5. ~ Divides(P, r) /\ ~ Divides(P, t)
  <2>1. \A a, b \in Int : Cong(a, b, n) /\ ~ Divides(P, b) => ~ Divides(P, a)
    <3>1. ASSUME NEW a \in Int, NEW b \in Int, Cong(a, b, n), ~ Divides(P, b)
          PROVE  ~ Divides(P, a)
      <4>1. Cong(b, a, n) /\ Unit(b, n)
        BY <1>1, <3>1, CongSym, SpaceFacts
      <4>2. Unit(a, n)
        BY <1>1, <4>1, UnitCong
      <4> QED BY <1>1, <4>2, SpaceFacts
    <3> QED BY <3>1
  <2> QED BY <1>2, <1>3, <2>1
<1>6. CASE x.factor = y.factor
  <2>1. HarmonizingFactors(x, y) = <<1, 1>>
    BY <1>6 DEF HarmonizingFactors
  <2>2. NoiseNorm(x, y, <<1, 1>>) = x.noise * 1 + y.noise * 1
    <3>1. Abs(BalRem(1, n)) = 1
      BY <1>1 DEF BalRem, Abs
    <3> QED BY <3>1 DEF NoiseNorm
  <2>3. Abs(r) >= 1 /\ Abs(t) >= 1
    <3>1. r # 0 /\ t # 0
      <4>1. Divides(P, 0)
        BY ContextFacts, DividesBasics
      <4> QED BY <1>5, <4>1
    <3> QED BY <1>3, <3>1 DEF Abs
  <2>4. x.noise * 1 =< x.noise * Abs(r) /\ y.noise * 1 =< y.noise * Abs(t)
        /\ x.noise * 1 \in Int /\ y.noise * 1 \in Int
        /\ x.noise * Abs(r) \in Int /\ y.noise * Abs(t) \in Int
    BY <1>1, <1>3, <2>3, Monotone
  <2> QED BY <1>4, <2>1, <2>2, <2>4
<1>7. CASE x.factor # y.factor
  <2>1. g \in Int /\ Cong(y.factor, g * x.factor, n)
    BY RatioFacts DEF AreMatched, IsProduct
  <2>2. e[2] * y.factor \in Int /\ e[1] * x.factor \in Int /\ e[2] * g \in Int
        /\ g * x.factor \in Int /\ (e[2] * g) * x.factor = e[2] * (g * x.factor)
        /\ (e[2] * g) * x.factor \in Int
        /\ (e[2] * g) * x.factor = x.factor * (e[2] * g) /\ e[1] * x.factor = x.factor * e[1]
    <3>1. e[2] * g \in Int /\ g * x.factor \in Int
      BY <1>1, <1>2, <2>1, IntRing
    <3> QED BY <1>1, <1>2, <2>1, <3>1, IntRing
  <2>3. Cong(e[1] * x.factor, e[2] * y.factor, n)
    BY <1>1, <1>2, <2>2, CongIffMod
  <2>4. Cong(e[2] * y.factor, e[2] * (g * x.factor), n)
    BY <1>1, <1>2, <2>1, <2>2, CongTimesOne
  <2>5. Cong(x.factor * e[1], x.factor * (e[2] * g), n)
    BY <1>1, <2>2, <2>3, <2>4, CongTrans
  <2>6. Unit(x.factor, n)
    BY <1>1, SpaceFacts
  <2>7. Cong(e[1], e[2] * g, n)
    BY <1>1, <1>2, <2>2, <2>5, <2>6, UnitCancel
  <2>8. IsProduct(r, t, g, n)
    <3>1. t * g \in Int /\ Cong(t * g, e[2] * g, n)
      BY <1>1, <1>2, <1>3, <2>1, IntRing, CongTimesOne
    <3>2. Cong(e[2] * g, t * g, n)
      BY <1>1, <2>2, <3>1, CongSym
    <3>3. Cong(r, e[2] * g, n)
      BY <1>1, <1>2, <1>3, <2>2, <2>7, CongTrans
    <3>4. Cong(r, t * g, n)
      BY <1>1, <1>3, <2>2, <3>1, <3>2, <3>3, CongTrans
    <3> QED BY <3>4 DEF IsProduct
  <2>9. IsPair(r, t, x, y) /\ Abs(t) < n
    BY <1>1, <1>3, <1>5, <2>8 DEF IsPair
  <2>10. Covers(BestNorm(Euclid(x, y)[n], x, y), x.noise, y.noise, Abs(r), Abs(t))
    BY <2>9, BestIsFound
  <2>11. HarmonizingFactors(x, y) = Euclid(x, y)[n].best
    BY <1>7 DEF HarmonizingFactors
  <2>12. BestNorm(Euclid(x, y)[n], x, y) = NoiseNorm(x, y, HarmonizingFactors(x, y))
    BY <2>11 DEF BestNorm
  <2> QED BY <1>4, <2>10, <2>12 DEF Covers
<1> QED BY <1>6, <1>7

\* Ctxt.cpp:1495: if the scalars that are added are at most half of the plaintext spaces, the
\* factors that harmonize two ciphertexts for an addition are those of the least noise, though
\* only the convergents are tried, and those that p divides are passed over.
THEOREM HarmonyAlwaysBest ==
  ASSUME SmallScalars
  PROVE  Spec => []HarmonyIsBest
<1>1. Init => IInv /\ NoiseBounded
  BY InitInv
<1>2. IInv /\ NoiseBounded /\ [Next]_vars => IInv' /\ NoiseBounded'
  BY StepInv
<1>3. IInv /\ NoiseBounded => HarmonyIsBest
  <2>1. SUFFICES ASSUME IInv, NoiseBounded, NEW c \in Ctxts, NEW d \in Ctxts
                 PROVE  LET a == Matched(ct[c], ct[d])
                            b == Matched(ct[d], ct[c])
                        IN \A e \in (0 .. a.space - 1) \X (0 .. a.space - 1) :
                             Harmonizes(a, b, e) =>
                               NoiseNorm(a, b, HarmonizingFactors(a, b)) =< NoiseNorm(a, b, e)
    BY DEF HarmonyIsBest
  <2> DEFINE x == ct[c]
             y == ct[d]
             a == Matched(x, y)
             b == Matched(y, x)
  <2>2. context \in Params
    BY <2>1 DEF IInv
  <2>3. WellFormed(x) /\ Decrypts(x) /\ Bounded(x) /\ WellFormed(y) /\ Decrypts(y) /\ Bounded(y)
    BY <2>1, Known DEF NoiseBounded, Bounded
  <2> HIDE DEF x, y
  <2>4. WellFormed(a) /\ Bounded(a) /\ a.space = GCD(x.space, y.space)
    BY <2>2, <2>3, MatchedGood
  <2>5. WellFormed(b) /\ Bounded(b) /\ b.space = GCD(y.space, x.space)
    BY <2>2, <2>3, MatchedGood
  <2> HIDE DEF a, b
  <2>6. a.space = b.space
    <3>1. x.space \in PtxtSpaces /\ y.space \in PtxtSpaces
      BY <2>2, <2>3, Fields
    <3> QED BY <2>2, <2>4, <2>5, <3>1, CommonSpace
  <2>7. \A z : WellFormed(z) /\ Bounded(z) => z.noise \in Nat
    <3>1. ASSUME NEW z, WellFormed(z), Bounded(z) PROVE z.noise \in Nat
      <4>1. z.noise \in Int /\ z.phase \in Int
        BY <2>2, <3>1, Fields
      <4>2. Abs(z.phase) \in Nat /\ Abs(z.phase) =< z.noise
        BY <3>1, <4>1, AbsFacts DEF Bounded
      <4> QED BY <4>1, <4>2
    <3> QED BY <3>1
  <2>8. AreMatched(a, b)
    BY <2>4, <2>5, <2>6, <2>7 DEF AreMatched
  <2> QED BY <2>2, <2>8, HarmonizingBest DEF a, b, x, y
<1> QED BY <1>1, <1>2, <1>3, PTL DEF Spec
=============================================================================
