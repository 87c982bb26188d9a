-------------------------- MODULE ArithmeticProofs --------------------------
(***************************************************************************)
(* Facts about integers that the proofs about plaintexts, factors and      *)
(* moduli rest on: induction and recursion, divisibility, congruences,     *)
(* units and primes, and finite sums and products.                         *)
(***************************************************************************)
EXTENDS Integers, FiniteSets, Functions, FiniteSetTheorems, WellFoundedInduction, TLAPS

Positive == Nat \ {0}

Divides(d, a) == \E k \in Int : a = d * k
Cong(a, b, n) == Divides(n, a - b)
Unit(a, n)    == \E u \in Int : Cong(u * a, 1, n)
IsPrime(p)    == p > 1 /\ \A d \in 2 .. p - 1 : p % d # 0

-----------------------------------------------------------------------------
(* The ring of the integers, in the form in which the steps below use it.  *)

LEMMA IntRing ==
  ASSUME NEW a \in Int, NEW b \in Int, NEW c \in Int
  PROVE  /\ a * b \in Int /\ a * b = b * a
         /\ (a * b) * c = a * (b * c)
         /\ a * (b + c) = a * b + a * c /\ a * (b - c) = a * b - a * c
         /\ (a + b) * c = a * c + b * c /\ (a - b) * c = a * c - b * c
         /\ a * 1 = a /\ 1 * a = a /\ a * 0 = 0 /\ 0 * a = 0
         /\ (-a) * b = -(a * b) /\ a * (-b) = -(a * b)
OBVIOUS

\* A set of numbers that is not empty has a least member: induction, in the form in
\* which the lemmas below use it.
LEMMA LeastMember ==
  ASSUME NEW S \in SUBSET Nat, S # {}
  PROVE  \E j \in S : \A k \in S : j =< k
<1>1. PICK j \in S : \A k \in S : ~ (<<k, j>> \in OpToRel(<, Nat))
  BY NatLessThanWellFounded, WFMin
<1>2. ASSUME NEW k \in S PROVE j =< k
  <2>1. <<k, j>> \in Nat \X Nat
    OBVIOUS
  <2> QED BY <1>1, <2>1 DEF OpToRel
<1> QED BY <1>2

LEMMA Induction ==
  ASSUME NEW S, 0 \in S, \A n \in Nat : n \in S => n + 1 \in S
  PROVE  Nat \subseteq S
<1>1. SUFFICES ASSUME Nat \ S # {} PROVE FALSE
  OBVIOUS
<1>2. PICK j \in Nat \ S : \A k \in Nat \ S : j =< k
  <2>1. Nat \ S \in SUBSET Nat
    OBVIOUS
  <2> QED BY <1>1, <2>1, LeastMember
<1>3. j - 1 \in Nat /\ (j - 1) + 1 = j
  BY <1>2
<1>4. j - 1 \in S
  BY <1>2, <1>3
<1> QED BY <1>2, <1>3, <1>4

-----------------------------------------------------------------------------
(* Recursion: a function of the natural numbers is what its value at 0 and *)
(* a step from each value to the next make it.  It is put together from    *)
(* finite beginnings.                                                      *)

IsBeginning(f, n, A, a0, step) ==
  /\ f \in [0 .. n -> A] /\ f[0] = a0
  /\ \A k \in 1 .. n : f[k] = step[f[k - 1]]

IsIteration(f, A, a0, step) ==
  f \in [Nat -> A] /\ f[0] = a0 /\ \A n \in Nat : f[n + 1] = step[f[n]]

LEMMA BeginningsExist ==
  ASSUME NEW A, NEW a0 \in A, NEW step \in [A -> A], NEW n \in Nat
  PROVE  \E f : IsBeginning(f, n, A, a0, step)
<1> DEFINE S == {m \in Nat : \E f : IsBeginning(f, m, A, a0, step)}
<1>1. 0 \in S
  <2>1. IsBeginning([k \in 0 .. 0 |-> a0], 0, A, a0, step)
    BY DEF IsBeginning
  <2> QED BY <2>1
<1>2. ASSUME NEW m \in Nat, m \in S PROVE m + 1 \in S
  <2>1. PICK f : IsBeginning(f, m, A, a0, step)
    BY <1>2
  <2> DEFINE g == [k \in 0 .. m + 1 |-> IF k = m + 1 THEN step[f[m]] ELSE f[k]]
  <2>2. g \in [0 .. m + 1 -> A]
    BY <2>1 DEF IsBeginning
  <2>3. g[0] = a0
    BY <2>1 DEF IsBeginning
  <2>4. ASSUME NEW k \in 1 .. m + 1 PROVE g[k] = step[g[k - 1]]
    BY <2>1 DEF IsBeginning
  <2>5. IsBeginning(g, m + 1, A, a0, step)
    BY <2>2, <2>3, <2>4 DEF IsBeginning
  <2> QED BY <2>5
<1> HIDE DEF S
<1>3. Nat \subseteq S
  BY <1>1, <1>2, Induction
<1> QED BY <1>3 DEF S

LEMMA BeginningsAgree ==
  ASSUME NEW A, NEW a0, NEW step, NEW m \in Nat, NEW n \in Nat, NEW f, NEW g,
         IsBeginning(f, m, A, a0, step), IsBeginning(g, n, A, a0, step),
         NEW k \in 0 .. m, k \in 0 .. n
  PROVE  f[k] = g[k]
<1> DEFINE S == {e \in Nat : e =< m /\ e =< n => f[e] = g[e]}
<1>1. 0 \in S
  BY DEF IsBeginning
<1>2. ASSUME NEW e \in Nat, e \in S PROVE e + 1 \in S
  <2>1. SUFFICES ASSUME e + 1 =< m, e + 1 =< n PROVE f[e + 1] = g[e + 1]
    OBVIOUS
  <2>2. f[e] = g[e]
    BY <1>2, <2>1
  <2>3. e + 1 \in 1 .. m /\ e + 1 \in 1 .. n /\ (e + 1) - 1 = e
    BY <2>1
  <2> QED BY <2>2, <2>3 DEF IsBeginning
<1> HIDE DEF S
<1>3. k \in S
  BY <1>1, <1>2, Induction
<1> QED BY <1>3 DEF S

LEMMA Recursion ==
  ASSUME NEW A, NEW a0 \in A, NEW step \in [A -> A]
  PROVE  \E f : IsIteration(f, A, a0, step)
<1> DEFINE B(n) == CHOOSE f : IsBeginning(f, n, A, a0, step)
           F == [n \in Nat |-> B(n)[n]]
<1>1. ASSUME NEW n \in Nat PROVE IsBeginning(B(n), n, A, a0, step)
  BY BeginningsExist
<1> HIDE DEF B
<1>2. F \in [Nat -> A]
  <2>1. ASSUME NEW n \in Nat PROVE B(n)[n] \in A
    <3>1. n \in 0 .. n
      OBVIOUS
    <3> QED BY <1>1, <3>1 DEF IsBeginning
  <2> QED BY <2>1
<1>3. F[0] = a0
  BY <1>1 DEF IsBeginning
<1>4. ASSUME NEW n \in Nat, n # 0 PROVE F[n] = step[F[n - 1]]
  <2>1. n - 1 \in Nat /\ n \in 1 .. n /\ n - 1 \in 0 .. n /\ n - 1 \in 0 .. n - 1
    BY <1>4
  <2>2. B(n)[n - 1] = B(n - 1)[n - 1]
    BY <1>1, <2>1, BeginningsAgree
  <2>3. B(n)[n] = step[B(n)[n - 1]]
    BY <1>1, <2>1 DEF IsBeginning
  <2> QED BY <2>1, <2>2, <2>3
<1> HIDE DEF F
<1>5. ASSUME NEW n \in Nat PROVE F[n + 1] = step[F[n]]
  <2>1. n + 1 \in Nat /\ n + 1 # 0 /\ (n + 1) - 1 = n
    OBVIOUS
  <2> QED BY <1>4, <2>1
<1> QED BY <1>2, <1>3, <1>5 DEF IsIteration

-----------------------------------------------------------------------------

LEMMA DivMod ==
  ASSUME NEW a \in Int, NEW n \in Positive
  PROVE  /\ a \div n \in Int /\ a % n \in 0 .. n - 1 /\ a % n \in Nat
         /\ a = n * (a \div n) + (a % n)
BY DEF Positive

-----------------------------------------------------------------------------
(* Divisibility. *)

LEMMA DividesMod ==
  ASSUME NEW a \in Int, NEW d \in Positive
  PROVE  Divides(d, a) <=> a % d = 0
<1> DEFINE q == a \div d
           r == a % d
<1>1. q \in Int /\ r \in 0 .. d - 1 /\ a = d * q + r
  BY DivMod
<1>2. ASSUME r = 0 PROVE Divides(d, a)
  <2>1. d * q \in Int
    BY <1>1, IntRing DEF Positive
  <2>2. a = d * q
    BY <1>1, <1>2, <2>1
  <2> QED BY <1>1, <2>2 DEF Divides
<1>3. ASSUME Divides(d, a) PROVE r = 0
  <2>1. PICK k \in Int : a = d * k
    BY <1>3 DEF Divides
  <2> HIDE DEF q, r
  <2>2. d * (k - q) = r
    <3>1. d * (k - q) = d * k - d * q /\ d * k \in Int /\ d * q \in Int
      BY <1>1, <2>1, IntRing DEF Positive
    <3> QED BY <1>1, <2>1, <3>1
  <2>3. k - q = 0
    <3>1. ASSUME k - q >= 1 PROVE FALSE
      <4>1. d * (k - q) >= d
        BY <3>1, <1>1 DEF Positive
      <4> QED BY <4>1, <2>2, <1>1 DEF Positive
    <3>2. ASSUME k - q =< -1 PROVE FALSE
      <4>1. d * (k - q) =< -d
        BY <3>2, <1>1 DEF Positive
      <4> QED BY <4>1, <2>2, <1>1 DEF Positive
    <3> QED BY <3>1, <3>2, <1>1
  <2>4. d * (k - q) = 0
    BY <2>3, IntRing DEF Positive
  <2> QED BY <2>2, <2>4
<1> QED BY <1>2, <1>3

LEMMA DividesBasics ==
  ASSUME NEW d \in Int, NEW a \in Int
  PROVE  Divides(d, 0) /\ Divides(d, d) /\ Divides(1, a) /\ Divides(d, d * a)
<1>1. d * 0 = 0 /\ d * 1 = d /\ 1 * a = a
  BY IntRing
<1> QED BY <1>1 DEF Divides

LEMMA DividesSum ==
  ASSUME NEW d \in Int, NEW a \in Int, NEW b \in Int, Divides(d, a), Divides(d, b)
  PROVE  Divides(d, a + b) /\ Divides(d, a - b)
<1>1. PICK k \in Int : a = d * k
  BY DEF Divides
<1>2. PICK l \in Int : b = d * l
  BY DEF Divides
<1>3. a + b = d * (k + l) /\ a - b = d * (k - l)
  BY <1>1, <1>2, IntRing
<1>4. k + l \in Int /\ k - l \in Int
  OBVIOUS
<1> QED BY <1>3, <1>4 DEF Divides

LEMMA DividesTimes ==
  ASSUME NEW d \in Int, NEW a \in Int, NEW b \in Int, Divides(d, a)
  PROVE  Divides(d, a * b) /\ Divides(d, b * a)
<1>1. PICK k \in Int : a = d * k
  BY DEF Divides
<1>2. a * b = d * (k * b) /\ k * b \in Int /\ b * a = a * b
  BY <1>1, IntRing
<1> QED BY <1>2 DEF Divides

LEMMA DividesTrans ==
  ASSUME NEW d \in Int, NEW a \in Int, NEW b \in Int, Divides(d, a), Divides(a, b)
  PROVE  Divides(d, b)
<1>1. PICK k \in Int : a = d * k
  BY DEF Divides
<1>2. PICK l \in Int : b = a * l
  BY DEF Divides
<1>3. b = d * (k * l) /\ k * l \in Int
  BY <1>1, <1>2, IntRing
<1> QED BY <1>3 DEF Divides

\* A divisor of a positive number is not above it.
LEMMA DivisorBound ==
  ASSUME NEW d \in Nat, NEW a \in Positive, Divides(d, a)
  PROVE  d \in 1 .. a
<1>1. PICK k \in Int : a = d * k
  BY DEF Divides
<1>2. d # 0
  <2>1. ASSUME d = 0 PROVE FALSE
    <3>1. d * k = 0
      BY <2>1, IntRing
    <3> QED BY <1>1, <3>1 DEF Positive
  <2> QED BY <2>1
<1>3. ASSUME k =< 0 PROVE FALSE
  <2>1. d * k =< 0
    BY <1>3, <1>2
  <2> QED BY <1>1, <2>1 DEF Positive
<1>4. d * k >= d
  BY <1>2, <1>3
<1> QED BY <1>1, <1>2, <1>4 DEF Positive

-----------------------------------------------------------------------------
(* Congruences. *)

LEMMA CongRefl ==
  ASSUME NEW a \in Int, NEW n \in Int
  PROVE  Cong(a, a, n)
<1>1. a - a = 0
  OBVIOUS
<1> QED BY <1>1, DividesBasics DEF Cong

LEMMA CongSym ==
  ASSUME NEW a \in Int, NEW b \in Int, NEW n \in Int, Cong(a, b, n)
  PROVE  Cong(b, a, n)
<1>1. Divides(n, 0 - (a - b))
  BY DividesBasics, DividesSum DEF Cong
<1>2. 0 - (a - b) = b - a
  OBVIOUS
<1> QED BY <1>1, <1>2 DEF Cong

LEMMA CongTrans ==
  ASSUME NEW a \in Int, NEW b \in Int, NEW c \in Int, NEW n \in Int,
         Cong(a, b, n), Cong(b, c, n)
  PROVE  Cong(a, c, n)
<1>1. Divides(n, (a - b) + (b - c))
  BY DividesSum DEF Cong
<1>2. (a - b) + (b - c) = a - c
  OBVIOUS
<1> QED BY <1>1, <1>2 DEF Cong

LEMMA CongPlus ==
  ASSUME NEW a \in Int, NEW b \in Int, NEW c \in Int, NEW d \in Int, NEW n \in Int,
         Cong(a, b, n), Cong(c, d, n)
  PROVE  Cong(a + c, b + d, n) /\ Cong(a - c, b - d, n)
<1>1. Divides(n, (a - b) + (c - d)) /\ Divides(n, (a - b) - (c - d))
  BY DividesSum DEF Cong
<1>2. (a - b) + (c - d) = (a + c) - (b + d) /\ (a - b) - (c - d) = (a - c) - (b - d)
  OBVIOUS
<1> QED BY <1>1, <1>2 DEF Cong

LEMMA CongNeg ==
  ASSUME NEW a \in Int, NEW b \in Int, NEW n \in Int, Cong(a, b, n)
  PROVE  Cong(-a, -b, n)
<1>1. Cong(0 - a, 0 - b, n)
  BY CongRefl, CongPlus
<1>2. 0 - a = -a /\ 0 - b = -b
  OBVIOUS
<1> QED BY <1>1, <1>2

LEMMA CongTimesOne ==
  ASSUME NEW a \in Int, NEW b \in Int, NEW c \in Int, NEW n \in Int, Cong(a, b, n)
  PROVE  Cong(a * c, b * c, n) /\ Cong(c * a, c * b, n)
<1>1. Divides(n, (a - b) * c) /\ Divides(n, c * (a - b))
  BY DividesTimes DEF Cong
<1>2. (a - b) * c = a * c - b * c /\ c * (a - b) = c * a - c * b
  BY IntRing
<1> QED BY <1>1, <1>2 DEF Cong

LEMMA CongTimes ==
  ASSUME NEW a \in Int, NEW b \in Int, NEW c \in Int, NEW d \in Int, NEW n \in Int,
         Cong(a, b, n), Cong(c, d, n)
  PROVE  Cong(a * c, b * d, n)
<1>1. Cong(a * c, b * c, n) /\ Cong(b * c, b * d, n)
  BY CongTimesOne
<1>2. a * c \in Int /\ b * c \in Int /\ b * d \in Int
  BY IntRing
<1> QED BY <1>1, <1>2, CongTrans

LEMMA CongMod ==
  ASSUME NEW a \in Int, NEW n \in Positive
  PROVE  Cong(a % n, a, n) /\ Cong(a, a % n, n)
<1>1. a \div n \in Int /\ a % n \in Int /\ a = n * (a \div n) + (a % n) /\ n \in Int
  BY DivMod DEF Positive
<1>2. Divides(n, n * (a \div n)) /\ n * (a \div n) \in Int
  BY <1>1, DividesBasics, IntRing
<1>3. a - (a % n) = n * (a \div n)
  BY <1>1, <1>2
<1>4. Cong(a, a % n, n)
  BY <1>2, <1>3 DEF Cong
<1> QED BY <1>1, <1>4, CongSym

\* Residues that are congruent are equal.
LEMMA CongUnique ==
  ASSUME NEW n \in Positive, NEW a \in 0 .. n - 1, NEW b \in 0 .. n - 1, Cong(a, b, n)
  PROVE  a = b
<1>1. n \in Int /\ n > 0
  BY DEF Positive
<1>2. PICK k \in Int : a - b = n * k
  BY DEF Cong, Divides
<1>3. ASSUME k >= 1 PROVE FALSE
  <2>1. n * k >= n
    BY <1>1, <1>3
  <2> QED BY <1>1, <1>2, <2>1
<1>4. ASSUME k =< -1 PROVE FALSE
  <2>1. n * k =< -n
    BY <1>1, <1>4
  <2> QED BY <1>1, <1>2, <2>1
<1>5. k = 0
  BY <1>3, <1>4
<1>6. n * k = 0
  BY <1>1, <1>5
<1> QED BY <1>1, <1>2, <1>6

LEMMA CongIffMod ==
  ASSUME NEW a \in Int, NEW b \in Int, NEW n \in Positive
  PROVE  Cong(a, b, n) <=> a % n = b % n
<1>1. /\ Cong(a % n, a, n) /\ Cong(a, a % n, n) /\ Cong(b % n, b, n) /\ Cong(b, b % n, n)
      /\ a % n \in Int /\ b % n \in Int /\ a % n \in 0 .. n - 1 /\ b % n \in 0 .. n - 1
      /\ n \in Int
  <2>1. a % n \in 0 .. n - 1 /\ b % n \in 0 .. n - 1 /\ n \in Int
    BY DivMod DEF Positive
  <2> QED BY <2>1, CongMod
<1>2. ASSUME Cong(a, b, n) PROVE a % n = b % n
  <2>1. Cong(a % n, b, n)
    BY ONLY <1>1, <1>2, a \in Int, b \in Int, CongTrans
  <2>2. Cong(a % n, b % n, n)
    BY ONLY <1>1, <2>1, b \in Int, CongTrans
  <2> QED BY <1>1, <2>2, CongUnique
<1>3. ASSUME a % n = b % n PROVE Cong(a, b, n)
  BY <1>1, <1>3, CongTrans
<1> QED BY <1>2, <1>3

LEMMA CongToDivisor ==
  ASSUME NEW a \in Int, NEW b \in Int, NEW n \in Int, NEW g \in Int,
         Divides(g, n), Cong(a, b, n)
  PROVE  Cong(a, b, g)
<1>1. a - b \in Int
  OBVIOUS
<1> QED BY <1>1, DividesTrans DEF Cong

LEMMA CongZero ==
  ASSUME NEW a \in Int, NEW n \in Int
  PROVE  Cong(a, 0, n) <=> Divides(n, a)
<1>1. a - 0 = a
  OBVIOUS
<1> QED BY <1>1 DEF Cong

-----------------------------------------------------------------------------
(* Units: the numbers with an inverse modulo n. *)

LEMMA OneIsUnit ==
  ASSUME NEW n \in Int
  PROVE  Unit(1, n)
<1>1. 1 * 1 = 1 /\ Cong(1, 1, n)
  BY CongRefl
<1> QED BY <1>1 DEF Unit

LEMMA UnitCong ==
  ASSUME NEW a \in Int, NEW b \in Int, NEW n \in Int, Cong(a, b, n), Unit(a, n)
  PROVE  Unit(b, n)
<1>1. PICK u \in Int : Cong(u * a, 1, n)
  BY DEF Unit
<1>2. Cong(b, a, n)
  BY CongSym
<1>3. Cong(u * b, u * a, n)
  BY <1>2, CongTimesOne
<1>4. u * a \in Int /\ u * b \in Int
  BY IntRing
<1>5. Cong(u * b, 1, n)
  BY <1>1, <1>3, <1>4, CongTrans
<1> QED BY <1>5 DEF Unit

LEMMA UnitTimes ==
  ASSUME NEW a \in Int, NEW b \in Int, NEW n \in Int, Unit(a, n), Unit(b, n)
  PROVE  Unit(a * b, n)
<1>1. PICK u \in Int : Cong(u * a, 1, n)
  BY DEF Unit
<1>2. PICK v \in Int : Cong(v * b, 1, n)
  BY DEF Unit
<1>3. u * a \in Int /\ v * b \in Int /\ u * v \in Int /\ 1 * 1 = 1
  BY IntRing
<1>4. Cong((u * a) * (v * b), 1, n)
  BY <1>1, <1>2, <1>3, CongTimes
<1>5. (u * a) * (v * b) = (u * v) * (a * b)
  <2>1. (u * a) * (v * b) = u * (a * (v * b)) /\ a * (v * b) = (a * v) * b
    BY <1>3, IntRing
  <2>2. a * v = v * a /\ (v * a) * b = v * (a * b) /\ a * b \in Int
    BY IntRing
  <2>3. u * (v * (a * b)) = (u * v) * (a * b)
    BY <2>2, IntRing
  <2> QED BY <2>1, <2>2, <2>3
<1> QED BY <1>3, <1>4, <1>5 DEF Unit

LEMMA UnitFactor ==
  ASSUME NEW a \in Int, NEW b \in Int, NEW n \in Int, Unit(a * b, n)
  PROVE  Unit(a, n) /\ Unit(b, n)
<1>1. PICK u \in Int : Cong(u * (a * b), 1, n)
  BY DEF Unit
<1>2. u * (a * b) = (u * a) * b /\ u * (b * a) = (u * b) * a /\ a * b = b * a
      /\ u * a \in Int /\ u * b \in Int
  BY IntRing
<1> QED BY <1>1, <1>2 DEF Unit

LEMMA UnitToDivisor ==
  ASSUME NEW a \in Int, NEW n \in Int, NEW g \in Int, Divides(g, n), Unit(a, n)
  PROVE  Unit(a, g)
<1>1. PICK u \in Int : Cong(u * a, 1, n)
  BY DEF Unit
<1>2. u * a \in Int
  BY IntRing
<1>3. Cong(u * a, 1, g)
  BY <1>1, <1>2, CongToDivisor
<1> QED BY <1>3 DEF Unit

LEMMA UnitCancel ==
  ASSUME NEW a \in Int, NEW b \in Int, NEW c \in Int, NEW n \in Int,
         Unit(c, n), Cong(c * a, c * b, n)
  PROVE  Cong(a, b, n)
<1>1. PICK u \in Int : Cong(u * c, 1, n)
  BY DEF Unit
<1>2. /\ u * c \in Int /\ c * a \in Int /\ c * b \in Int
      /\ u * (c * a) = (u * c) * a /\ u * (c * b) = (u * c) * b
      /\ 1 * a = a /\ 1 * b = b
      /\ (u * c) * a \in Int /\ (u * c) * b \in Int
  BY IntRing
<1>3. Cong((u * c) * a, (u * c) * b, n)
  BY <1>2, CongTimesOne
<1>4. Cong((u * c) * a, a, n) /\ Cong((u * c) * b, b, n)
  <2>1. Cong((u * c) * a, 1 * a, n) /\ Cong((u * c) * b, 1 * b, n)
    <3>1. u * c \in Int /\ 1 \in Int
      BY <1>2
    <3> QED BY <1>1, <3>1, CongTimesOne, Zenon
  <2> QED BY <1>2, <2>1
<1>5. Cong(a, (u * c) * a, n)
  BY <1>2, <1>4, CongSym
<1>6. Cong(a, (u * c) * b, n)
  BY <1>2, <1>3, <1>5, CongTrans
<1> QED BY <1>2, <1>4, <1>6, CongTrans

\* What is prime to n has an inverse modulo n: the least positive multiple of a modulo n
\* divides both.
LEMMA UnitExists ==
  ASSUME NEW a \in Int, NEW n \in Positive,
         \A d \in 1 .. n : Divides(d, a) /\ Divides(d, n) => d = 1
  PROVE  Unit(a, n)
<1> DEFINE S == {m \in Nat : m > 0 /\ \E u \in Int : Cong(u * a, m, n)}
<1>1. n \in Int /\ n \in Nat /\ n > 0
  BY DEF Positive
<1>2. n \in S
  <2>1. 0 * a = 0 /\ 0 \in Int
    BY IntRing
  <2>2. Cong(n, 0, n)
    BY <1>1, DividesBasics, CongZero
  <2>3. Cong(0, n, n)
    BY <1>1, <2>2, CongSym
  <2> QED BY <1>1, <2>1, <2>3
<1>3. PICK m \in S : \A k \in S : m =< k
  <2>1. S \in SUBSET Nat /\ S # {}
    BY <1>2
  <2> QED BY <2>1, LeastMember
<1>4. PICK u \in Int : Cong(u * a, m, n)
  BY <1>3
<1>5. m \in Positive /\ m =< n /\ m \in Int /\ m \in Nat
  <2>1. m \in Nat /\ m > 0
    OBVIOUS
  <2>2. m =< n
    BY <1>2, <1>3
  <2> QED BY <2>1, <2>2 DEF Positive
<1> HIDE DEF S
\* A multiple of m less than m apart from one of a is a multiple of m.
<1>6. ASSUME NEW b \in Int, NEW v \in Int, Cong(v * a, b, n) PROVE Divides(m, b)
  <2> DEFINE q == b \div m
             r == b % m
  <2>1. q \in Int /\ r \in 0 .. m - 1 /\ b = m * q + r /\ r \in Int
    BY <1>5, DivMod
  <2> HIDE DEF q, r
  <2>2. m * q \in Int /\ u * q \in Int /\ u * a \in Int /\ v * a \in Int /\ (u * q) * a \in Int
    BY <1>5, <2>1, IntRing
  <2>3. Cong((u * a) * q, m * q, n)
    BY <1>1, <1>4, <1>5, <2>1, <2>2, CongTimesOne
  <2>4. (u * a) * q = (u * q) * a
    <3>1. (u * a) * q = u * (a * q) /\ a * q = q * a /\ u * (q * a) = (u * q) * a
      BY <2>1, IntRing
    <3> QED BY <3>1
  <2>5. Cong((v * a) - (u * q) * a, b - m * q, n)
    BY <1>1, <1>6, <2>2, <2>3, <2>4, CongPlus
  <2>6. (v * a) - (u * q) * a = (v - u * q) * a /\ v - u * q \in Int /\ b - m * q = r
    BY <2>1, <2>2, IntRing
  <2>7. ASSUME r # 0 PROVE FALSE
    <3>1. r \in Nat /\ r > 0 /\ Cong((v - u * q) * a, r, n)
      BY <1>5, <2>1, <2>5, <2>6, <2>7
    <3>2. r \in S
      BY <2>6, <3>1 DEF S
    <3> QED BY <1>3, <1>5, <2>1, <3>2
  <2>8. b = m * q
    BY <2>1, <2>2, <2>7
  <2> QED BY <1>5, <2>1, <2>8, DividesBasics
<1>7. Divides(m, a)
  <2>1. Cong(1 * a, a, n)
    BY <1>1, IntRing, CongRefl
  <2> QED BY <1>6, <2>1
<1>8. Divides(m, n)
  <2>1. Cong(n, 0, n)
    BY <1>1, DividesBasics, CongZero
  <2>2. PICK z \in Int : Cong(z * a, n, n)
    <3>1. 0 * a = 0
      BY <1>1, IntRing
    <3>2. Cong(0, n, n)
      BY <1>1, <2>1, CongSym
    <3>3. 0 \in Int /\ Cong(0 * a, n, n)
      BY <3>1, <3>2
    <3> QED BY <3>3
  <2> QED BY <1>1, <1>6, <2>2
<1>9. m = 1
  <2>1. m \in 1 .. n
    BY <1>1, <1>5 DEF Positive
  <2> QED BY <1>7, <1>8, <2>1
<1> QED BY <1>4, <1>9 DEF Unit

LEMMA UnitHasNoDivisor ==
  ASSUME NEW a \in Int, NEW n \in Int, NEW d \in Nat, Unit(a, n), Divides(d, a), Divides(d, n)
  PROVE  d = 1
<1>1. PICK u \in Int : Cong(u * a, 1, n)
  BY DEF Unit
<1>2. u * a \in Int /\ d \in Int
  BY IntRing
<1>3. Divides(d, u * a)
  BY <1>2, DividesTimes
<1>4. Divides(d, u * a - 1)
  BY <1>1, <1>2, DividesTrans DEF Cong
<1>5. Divides(d, (u * a) - (u * a - 1))
  BY <1>2, <1>3, <1>4, DividesSum
<1>6. (u * a) - (u * a - 1) = 1
  BY <1>2
<1> QED BY <1>5, <1>6, DivisorBound DEF Positive

-----------------------------------------------------------------------------
(* Primes and their powers. *)

\* A number that a prime does not divide is a unit modulo the prime.
LEMMA UnitOfPrime ==
  ASSUME NEW p \in Nat, IsPrime(p), NEW a \in Int, ~ Divides(p, a)
  PROVE  Unit(a, p)
<1>1. p \in Positive
  BY DEF IsPrime, Positive
<1>2. ASSUME NEW d \in 1 .. p, Divides(d, a), Divides(d, p) PROVE d = 1
  <2>1. d # p
    BY <1>2
  <2>2. d \in Positive /\ p \in Int
    BY DEF Positive
  <2>3. p % d = 0
    BY <1>2, <2>2, DividesMod
  <2> QED BY <2>1, <2>3 DEF IsPrime
<1> QED BY <1>1, <1>2, UnitExists

LEMMA EuclidsLemma ==
  ASSUME NEW p \in Nat, IsPrime(p), NEW a \in Int, NEW b \in Int, Divides(p, a * b)
  PROVE  Divides(p, a) \/ Divides(p, b)
<1>1. SUFFICES ASSUME ~ Divides(p, a) PROVE Divides(p, b)
  OBVIOUS
<1>2. Unit(a, p)
  BY <1>1, UnitOfPrime
<1>3. p \in Int /\ a * b \in Int /\ a * 0 = 0
  BY IntRing
<1>4. Cong(a * b, a * 0, p)
  BY <1>3, CongZero
<1>5. Cong(b, 0, p)
  BY <1>2, <1>3, <1>4, UnitCancel
<1> QED BY <1>3, <1>5, CongZero

-----------------------------------------------------------------------------
(* Folds over finite sets, and sums. *)

\* What a fold over a set takes out of it first.
First1(T) == CHOOSE x \in T : TRUE

\* Induction over a finite set: a set P of sets that has {} and, with a set, the set with
\* one element more, has S.
LEMMA FiniteInduction ==
  ASSUME NEW S, IsFiniteSet(S), NEW P, {} \in P,
         \A T \in SUBSET S, x \in S : T \in P /\ x \notin T => T \cup {x} \in P
  PROVE  S \in P
<1> DEFINE N == {n \in Nat : \A T \in SUBSET S : Cardinality(T) = n => T \in P}
<1>1. 0 \in N
  <2>1. ASSUME NEW T \in SUBSET S, Cardinality(T) = 0 PROVE T \in P
    <3>1. T = {}
      BY <2>1, FS_Subset, FS_EmptySet
    <3> QED BY <3>1
  <2> QED BY <2>1
<1>2. ASSUME NEW n \in Nat, n \in N PROVE n + 1 \in N
  <2>1. ASSUME NEW T \in SUBSET S, Cardinality(T) = n + 1 PROVE T \in P
    <3>1. IsFiniteSet(T)
      BY FS_Subset
    <3>2. PICK x \in T : TRUE
      BY <2>1, <3>1, FS_EmptySet
    <3>3. Cardinality(T \ {x}) = n
      <4>1. Cardinality(T \ {x}) = Cardinality(T) - 1
        BY <3>1, <3>2, FS_RemoveElement
      <4> QED BY <4>1, <2>1
    <3>4. T \ {x} \in P
      BY <1>2, <3>3
    <3>5. (T \ {x}) \cup {x} = T
      BY <3>2
    <3> QED BY <3>2, <3>4, <3>5
  <2> QED BY <2>1
<1> HIDE DEF N
<1>3. Cardinality(S) \in N
  BY <1>1, <1>2, Induction, FS_CardinalityType
<1> QED BY <1>3 DEF N

IsSetRecursion(g, S, A, base, step) ==
  /\ g \in [SUBSET S -> A] /\ g[{}] = base
  /\ \A T \in SUBSET S : T # {} => g[T] = step[<<First1(T), g[T \ {First1(T)}]>>]

\* A function on the subsets of a finite set, by recursion on the set without its first
\* element.
LEMMA SetRecursion ==
  ASSUME NEW S, IsFiniteSet(S), NEW A, NEW base \in A, NEW step \in [S \X A -> A]
  PROVE  \E g : IsSetRecursion(g, S, A, base, step)
<1> DEFINE H  == [SUBSET S -> A]
           h0 == [T \in SUBSET S |-> base]
           next == [h \in H |-> [T \in SUBSET S |->
                     IF T = {} THEN base ELSE step[<<First1(T), h[T \ {First1(T)}]>>]]]
<1>1. h0 \in H
  OBVIOUS
<1>2. next \in [H -> H]
  <2>1. ASSUME NEW h \in H, NEW T \in SUBSET S, T # {}
        PROVE  step[<<First1(T), h[T \ {First1(T)}]>>] \in A
    <3>1. First1(T) \in T
      BY <2>1 DEF First1
    <3>2. T \ {First1(T)} \in SUBSET S
      OBVIOUS
    <3> QED BY <3>1, <3>2
  <2> QED BY <2>1
<1> HIDE DEF H, h0, next
<1>3. PICK F : IsIteration(F, H, h0, next)
  BY <1>1, <1>2, Recursion
<1> DEFINE g == [T \in SUBSET S |-> F[Cardinality(T)][T]]
<1>4. ASSUME NEW T \in SUBSET S PROVE Cardinality(T) \in Nat /\ F[Cardinality(T)] \in H
  <2>1. Cardinality(T) \in Nat
    BY FS_Subset, FS_CardinalityType
  <2> QED BY <1>3, <2>1 DEF IsIteration
<1>5. g \in [SUBSET S -> A]
  BY <1>4 DEF H
<1>6. g[{}] = base
  <2>1. {} \in SUBSET S /\ Cardinality({}) = 0
    BY FS_EmptySet
  <2>2. F[0] = h0
    BY <1>3 DEF IsIteration
  <2> QED BY <2>1, <2>2 DEF h0
<1>7. ASSUME NEW T \in SUBSET S, T # {} PROVE g[T] = step[<<First1(T), g[T \ {First1(T)}]>>]
  <2> DEFINE R == T \ {First1(T)}
  <2>1. First1(T) \in T /\ R \in SUBSET S
    BY <1>7 DEF First1
  <2>2. Cardinality(T) = Cardinality(R) + 1
    <3>1. IsFiniteSet(T)
      BY FS_Subset
    <3>2. Cardinality(R) = Cardinality(T) - 1
      BY <2>1, <3>1, FS_RemoveElement
    <3> QED BY <1>4, <3>2
  <2>3. F[Cardinality(R) + 1] = next[F[Cardinality(R)]]
    BY <1>3, <1>4, <2>1 DEF IsIteration
  <2>4. F[Cardinality(R)] \in H
    BY <1>4, <2>1
  <2> HIDE DEF R
  <2>5. next[F[Cardinality(R)]][T] = step[<<First1(T), F[Cardinality(R)][R]>>]
    BY <1>7, <2>4 DEF next, R
  <2> QED BY <2>1, <2>2, <2>3, <2>5 DEF R
<1> QED BY <1>5, <1>6, <1>7 DEF IsSetRecursion

\* Two functions of sets that agree on a set if they agree without its first element.
LEMMA SetRecursionUnique ==
  ASSUME NEW S, IsFiniteSet(S), NEW g, NEW h, g[{}] = h[{}],
         \A T \in SUBSET S : T # {} /\ g[T \ {First1(T)}] = h[T \ {First1(T)}] => g[T] = h[T],
         NEW T \in SUBSET S
  PROVE  g[T] = h[T]
<1> DEFINE N == {n \in Nat : \A U \in SUBSET S : Cardinality(U) = n => g[U] = h[U]}
<1>1. 0 \in N
  <2>1. ASSUME NEW U \in SUBSET S, Cardinality(U) = 0 PROVE g[U] = h[U]
    <3>1. U = {}
      BY <2>1, FS_Subset, FS_EmptySet
    <3> QED BY <3>1
  <2> QED BY <2>1
<1>2. ASSUME NEW n \in Nat, n \in N PROVE n + 1 \in N
  <2>1. ASSUME NEW U \in SUBSET S, Cardinality(U) = n + 1 PROVE g[U] = h[U]
    <3> DEFINE R == U \ {First1(U)}
    <3>1. IsFiniteSet(U) /\ U # {}
      BY <2>1, FS_Subset, FS_EmptySet
    <3>2. First1(U) \in U /\ R \in SUBSET S
      BY <3>1 DEF First1
    <3>3. Cardinality(R) = n
      <4>1. Cardinality(R) = Cardinality(U) - 1
        BY <3>1, <3>2, FS_RemoveElement
      <4> QED BY <4>1, <2>1
    <3>4. g[R] = h[R]
      BY <1>2, <3>2, <3>3
    <3> QED BY <3>1, <3>4
  <2> QED BY <2>1
<1> HIDE DEF N
<1>3. Cardinality(T) \in N
  <2>1. Cardinality(T) \in Nat
    BY FS_Subset, FS_CardinalityType
  <2> QED BY <1>1, <1>2, <2>1, Induction
<1> QED BY <1>3 DEF N

\* The fold of the values of f over the subsets of S, with an operation op.
FoldStep(f, S, A, op) == [p \in S \X A |-> op[<<f[p[1]], p[2]>>]]
IsFold(g, f, S, A, base, op) == IsSetRecursion(g, S, A, base, FoldStep(f, S, A, op))

IsOperation(op, A) ==
  /\ op \in [A \X A -> A]
  /\ \A x, y, z \in A : op[<<x, op[<<y, z>>]>>] = op[<<y, op[<<x, z>>]>>]

\* A fold takes the first element and folds the rest.
LEMMA FoldTakesFirst ==
  ASSUME NEW S, NEW A, NEW base, NEW f, NEW op, NEW g, \A x \in S : f[x] \in A,
         IsFold(g, f, S, A, base, op), NEW T \in SUBSET S, T # {}
  PROVE  g[T] = op[<<f[First1(T)], g[T \ {First1(T)}]>>]
<1>1. First1(T) \in S /\ T \ {First1(T)} \in SUBSET S
  BY DEF First1
<1>2. g[T \ {First1(T)}] \in A
  BY <1>1 DEF IsFold, IsSetRecursion
<1> QED BY <1>1, <1>2 DEF IsFold, IsSetRecursion, FoldStep

\* The elements may be taken out in any order.
LEMMA FoldTakes ==
  ASSUME NEW S, IsFiniteSet(S), NEW A, NEW base, NEW f, \A x \in S : f[x] \in A,
         NEW op, IsOperation(op, A), NEW g, IsFold(g, f, S, A, base, op)
  PROVE  \A T \in SUBSET S : \A x \in T : g[T] = op[<<f[x], g[T \ {x}]>>]
<1> DEFINE N == {n \in Nat : \A U \in SUBSET S : Cardinality(U) = n =>
                               \A y \in U : g[U] = op[<<f[y], g[U \ {y}]>>]}
<1>1. 0 \in N
  <2>1. ASSUME NEW U \in SUBSET S, Cardinality(U) = 0, NEW y \in U PROVE FALSE
    <3>1. U = {}
      BY <2>1, FS_Subset, FS_EmptySet
    <3> QED BY <3>1
  <2> QED BY <2>1
<1>2. ASSUME NEW n \in Nat, n \in N PROVE n + 1 \in N
  <2>1. ASSUME NEW U \in SUBSET S, Cardinality(U) = n + 1, NEW y \in U
        PROVE  g[U] = op[<<f[y], g[U \ {y}]>>]
    <3> DEFINE z == First1(U)
    <3>1. IsFiniteSet(U) /\ z \in U
      BY FS_Subset DEF First1
    <3>2. g[U] = op[<<f[z], g[U \ {z}]>>]
      BY <3>1, FoldTakesFirst
    <3> HIDE DEF z
    <3>3. CASE y = z
      BY <3>2, <3>3
    <3>4. CASE y # z
      <4>1. Cardinality(U \ {z}) = n /\ Cardinality(U \ {y}) = n
        <5>1. Cardinality(U \ {z}) = Cardinality(U) - 1 /\ Cardinality(U \ {y}) = Cardinality(U) - 1
          BY <3>1, <2>1, FS_RemoveElement
        <5> QED BY <5>1, <2>1
      <4>2. U \ {z} \in SUBSET S /\ U \ {y} \in SUBSET S /\ y \in U \ {z} /\ z \in U \ {y}
        BY <2>1, <3>1, <3>4
      <4>3. g[U \ {z}] = op[<<f[y], g[(U \ {z}) \ {y}]>>]
        BY <1>2, <4>1, <4>2
      <4>4. g[U \ {y}] = op[<<f[z], g[(U \ {y}) \ {z}]>>]
        BY <1>2, <4>1, <4>2
      <4>5. (U \ {y}) \ {z} = (U \ {z}) \ {y} /\ (U \ {z}) \ {y} \in SUBSET S
        OBVIOUS
      <4>6. f[y] \in A /\ f[z] \in A /\ g[(U \ {z}) \ {y}] \in A
        <5>1. y \in S /\ z \in S
          BY <2>1, <3>1
        <5> QED BY <5>1, <4>5 DEF IsFold, IsSetRecursion
      <4>7. op[<<f[z], op[<<f[y], g[(U \ {z}) \ {y}]>>]>>] = op[<<f[y], op[<<f[z], g[(U \ {z}) \ {y}]>>]>>]
        BY <4>6 DEF IsOperation
      <4> QED BY ONLY <3>2, <4>3, <4>4, <4>5, <4>7
    <3> QED BY <3>3, <3>4
  <2> QED BY <2>1
<1> HIDE DEF N
<1>3. ASSUME NEW T \in SUBSET S PROVE Cardinality(T) \in N
  <2>1. Cardinality(T) \in Nat
    BY FS_Subset, FS_CardinalityType
  <2> QED BY <1>1, <1>2, <2>1, Induction
<1> QED BY <1>3 DEF N

\* A fold of numbers takes any element first.
LEMMA FoldTakesNumber ==
  ASSUME NEW S, IsFiniteSet(S), NEW base, NEW f, \A x \in S : f[x] \in Int,
         NEW op, IsOperation(op, Int), NEW g, IsFold(g, f, S, Int, base, op), NEW x \in S
  PROVE  g[S] = op[<<f[x], g[S \ {x}]>>]
<1> DEFINE A == Int
<1>1. (\A y \in S : f[y] \in A) /\ IsOperation(op, A) /\ IsFold(g, f, S, A, base, op)
  OBVIOUS
<1> HIDE DEF A
<1>2. \A T \in SUBSET S : \A y \in T : g[T] = op[<<f[y], g[T \ {y}]>>]
  BY <1>1, FoldTakes
<1>3. S \in SUBSET S
  OBVIOUS
<1> QED BY <1>2, <1>3

\* The fold over a subset is the same, and of a function with the same values.
LEMMA FoldOfSubset ==
  ASSUME NEW S, IsFiniteSet(S), NEW A, NEW base, NEW f, \A x \in S : f[x] \in A,
         NEW op, NEW g, IsFold(g, f, S, A, base, op),
         NEW T \in SUBSET S, NEW e, \A x \in T : e[x] = f[x],
         NEW h, IsFold(h, e, T, A, base, op)
  PROVE  h[T] = g[T]
<1>1. IsFiniteSet(T)
  BY FS_Subset
<1>2. h[{}] = g[{}]
  BY DEF IsFold, IsSetRecursion
<1>3. ASSUME NEW U \in SUBSET T, U # {}, h[U \ {First1(U)}] = g[U \ {First1(U)}]
      PROVE  h[U] = g[U]
  <2>1. g[U] = op[<<f[First1(U)], g[U \ {First1(U)}]>>]
    <3>1. U \in SUBSET S
      OBVIOUS
    <3> QED BY <1>3, <3>1, FoldTakesFirst
  <2>2. h[U] = op[<<e[First1(U)], h[U \ {First1(U)}]>>]
    <3>1. \A x \in T : e[x] \in A
      OBVIOUS
    <3> QED BY ONLY <1>3, <3>1, FoldTakesFirst, IsFold(h, e, T, A, base, op)
  <2>3. First1(U) \in T
    BY <1>3 DEF First1
  <2> QED BY <2>1, <2>2, <2>3, <1>3
<1>4. T \in SUBSET T
  OBVIOUS
<1> QED BY ONLY <1>1, <1>2, <1>3, <1>4, SetRecursionUnique

-----------------------------------------------------------------------------
(* Sums. *)

SumOver(f, S) == SumFunctionOnSet(f, S)

Adding == [p \in Int \X Int |-> p[1] + p[2]]

\* Addition is commutative and associative on the integers.
LEMMA AddingIsOperation ==
  /\ IsOperation(Adding, Int)
  /\ \A x, y \in Int : Adding[<<x, y>>] = x + y
<1>1. \A x, y \in Int : Adding[<<x, y>>] = x + y /\ x + y \in Int
  BY DEF Adding
<1>2. Adding \in [Int \X Int -> Int]
  BY DEF Adding
<1>3. ASSUME NEW x \in Int, NEW y \in Int, NEW z \in Int
      PROVE  Adding[<<x, Adding[<<y, z>>]>>] = Adding[<<y, Adding[<<x, z>>]>>]
  <2>1. Adding[<<x, Adding[<<y, z>>]>>] = x + (y + z) /\ Adding[<<y, Adding[<<x, z>>]>>] = y + (x + z)
    BY <1>1
  <2> QED BY <2>1
<1> QED BY <1>1, <1>2, <1>3 DEF IsOperation

\* A fold over a finite set exists.
LEMMA FoldExists ==
  ASSUME NEW S, IsFiniteSet(S), NEW A, NEW base \in A, NEW f, \A x \in S : f[x] \in A,
         NEW op, IsOperation(op, A)
  PROVE  \E g : IsFold(g, f, S, A, base, op)
<1>1. FoldStep(f, S, A, op) \in [S \X A -> A]
  BY DEF FoldStep, IsOperation
<1> QED BY <1>1, SetRecursion DEF IsFold

\* The sum of the community module is the fold with addition.
LEMMA SumIsFold ==
  ASSUME NEW S, IsFiniteSet(S), NEW f, \A x \in S : f[x] \in Int
  PROVE  \E g : IsFold(g, f, S, Int, 0, Adding) /\ SumOver(f, S) = g[S]
<1> DEFINE G(g) == [T \in SUBSET S |->
              IF T = {} THEN 0 ELSE f[CHOOSE x \in T : TRUE] + g[T \ {CHOOSE x \in T : TRUE}]]
           c == CHOOSE g : g = G(g)
<1>1. SumOver(f, S) = c[S]
  BY Zenon DEF SumOver, SumFunctionOnSet, FoldFunctionOnSet, MapThenFoldSet
<1>3. PICK g : IsFold(g, f, S, Int, 0, Adding)
  <2>1. 0 \in Int
    OBVIOUS
  <2> QED BY ONLY <2>1, IsFiniteSet(S), \A x \in S : f[x] \in Int, AddingIsOperation, FoldExists
<1>4. ASSUME NEW T \in SUBSET S, T # {}
      PROVE  g[T] = f[First1(T)] + g[T \ {First1(T)}]
  <2>1. First1(T) \in S /\ T \ {First1(T)} \in SUBSET S
    BY <1>4 DEF First1
  <2>2. g[T \ {First1(T)}] \in Int /\ f[First1(T)] \in Int
    BY <1>3, <2>1 DEF IsFold, IsSetRecursion
  <2>3. g[T] = Adding[<<f[First1(T)], g[T \ {First1(T)}]>>]
    BY ONLY <1>3, <1>4, \A x \in S : f[x] \in Int, FoldTakesFirst
  <2> QED BY <2>2, <2>3, AddingIsOperation
<1>5. g = G(g)
  <2>1. ASSUME NEW T \in SUBSET S PROVE g[T] = G(g)[T]
    <3>1. CASE T = {}
      BY <3>1, <1>3 DEF IsFold, IsSetRecursion
    <3>2. CASE T # {}
      <4>1. g[T] = f[First1(T)] + g[T \ {First1(T)}]
        BY <3>2, <1>4
      <4> QED BY <3>2, <4>1, Zenon DEF First1
    <3> QED BY <3>1, <3>2
  <2>2. g \in [SUBSET S -> Int]
    BY <1>3 DEF IsFold, IsSetRecursion
  <2> HIDE DEF G
  <2>3. G(g) = [T \in SUBSET S |-> G(g)[T]]
    BY DEF G
  <2> QED BY <2>1, <2>2, <2>3
<1>6. c = G(c)
  BY <1>5, Zenon
<1> HIDE DEF c
<1>7. c[{}] = g[{}]
  BY <1>5, <1>6
<1>8. ASSUME NEW T \in SUBSET S, T # {}, c[T \ {First1(T)}] = g[T \ {First1(T)}]
      PROVE  c[T] = g[T]
  <2>1. g[T] = f[First1(T)] + g[T \ {First1(T)}]
    BY <1>5, <1>8, Zenon DEF First1
  <2>2. c[T] = f[First1(T)] + c[T \ {First1(T)}]
    BY <1>6, <1>8, Zenon DEF First1
  <2> QED BY <2>1, <2>2, <1>8
<1> HIDE DEF G
<1>9. c[S] = g[S]
  <2>1. \A T \in SUBSET S : T # {} /\ c[T \ {First1(T)}] = g[T \ {First1(T)}] => c[T] = g[T]
    BY <1>8
  <2>2. S \in SUBSET S
    OBVIOUS
  <2> HIDE DEF c
  <2> QED BY ONLY IsFiniteSet(S), <1>7, <2>1, <2>2, SetRecursionUnique
<1> QED BY <1>1, <1>3, <1>9

\* An empty sum is 0.
LEMMA SumOfEmpty ==
  ASSUME NEW f
  PROVE  SumOver(f, {}) = 0
<1>1. IsFiniteSet({})
  BY FS_EmptySet
<1>2. \A x \in {} : f[x] \in Int
  OBVIOUS
<1>3. PICK g : IsFold(g, f, {}, Int, 0, Adding) /\ SumOver(f, {}) = g[{}]
  BY <1>1, <1>2, SumIsFold
<1> QED BY <1>3 DEF IsFold, IsSetRecursion

\* A sum of integers is an integer.
LEMMA SumType ==
  ASSUME NEW S, IsFiniteSet(S), NEW f, \A x \in S : f[x] \in Int
  PROVE  SumOver(f, S) \in Int
<1>1. PICK g : IsFold(g, f, S, Int, 0, Adding) /\ SumOver(f, S) = g[S]
  BY SumIsFold
<1> QED BY <1>1 DEF IsFold, IsSetRecursion

\* A term can be taken out of a sum.
LEMMA SumTakes ==
  ASSUME NEW S, IsFiniteSet(S), NEW f, \A x \in S : f[x] \in Int, NEW x \in S
  PROVE  SumOver(f, S) = f[x] + SumOver(f, S \ {x})
<1>1. PICK g : IsFold(g, f, S, Int, 0, Adding) /\ SumOver(f, S) = g[S]
  BY SumIsFold
<1>2. IsFiniteSet(S \ {x}) /\ \A y \in S \ {x} : f[y] \in Int
  BY FS_Subset
<1>3. PICK h : IsFold(h, f, S \ {x}, Int, 0, Adding) /\ SumOver(f, S \ {x}) = h[S \ {x}]
  BY <1>2, SumIsFold
<1>4. h[S \ {x}] = g[S \ {x}]
  BY <1>1, <1>2, <1>3, FoldOfSubset
<1>5. g[S] = Adding[<<f[x], g[S \ {x}]>>]
  <2>2. IsOperation(Adding, Int)
    BY AddingIsOperation
  <2> QED BY ONLY <1>1, <2>2, x \in S, IsFiniteSet(S), \A y \in S : f[y] \in Int, FoldTakesNumber
<1>6. f[x] \in Int /\ g[S \ {x}] \in Int
  BY <1>1 DEF IsFold, IsSetRecursion
<1> QED BY <1>1, <1>3, <1>4, <1>5, <1>6, AddingIsOperation

\* Sums of equal terms are equal.
LEMMA SumEqual ==
  ASSUME NEW S, IsFiniteSet(S), NEW f, \A x \in S : f[x] \in Int, NEW e, \A x \in S : e[x] = f[x]
  PROVE  SumOver(e, S) = SumOver(f, S)
<1>1. PICK g : IsFold(g, f, S, Int, 0, Adding) /\ SumOver(f, S) = g[S]
  BY SumIsFold
<1>2. PICK h : IsFold(h, e, S, Int, 0, Adding) /\ SumOver(e, S) = h[S]
  BY SumIsFold
<1>3. S \in SUBSET S
  OBVIOUS
<1> QED BY <1>1, <1>2, <1>3, FoldOfSubset

\* A sum with one term more.
LEMMA SumAdds ==
  ASSUME NEW U, IsFiniteSet(U), NEW f, \A y \in U : f[y] \in Int, NEW x, x \notin U, f[x] \in Int
  PROVE  SumOver(f, U \cup {x}) = f[x] + SumOver(f, U)
<1>1. IsFiniteSet(U \cup {x}) /\ \A y \in U \cup {x} : f[y] \in Int
  BY FS_AddElement
<1>2. x \in U \cup {x} /\ (U \cup {x}) \ {x} = U
  OBVIOUS
<1> QED BY ONLY <1>1, <1>2, SumTakes

\* The sum of sums, term by term.
LEMMA SumPlus ==
  ASSUME NEW S, IsFiniteSet(S), NEW f, \A x \in S : f[x] \in Int,
         NEW e, \A x \in S : e[x] \in Int, NEW d, \A x \in S : d[x] = f[x] + e[x]
  PROVE  SumOver(d, S) = SumOver(f, S) + SumOver(e, S)
<1> DEFINE P == {U \in SUBSET S : SumOver(d, U) = SumOver(f, U) + SumOver(e, U)}
<1>1. {} \in P
  BY SumOfEmpty
<1>2. ASSUME NEW U \in SUBSET S, NEW x \in S, U \in P, x \notin U PROVE U \cup {x} \in P
  <2>1. IsFiniteSet(U)
    BY FS_Subset
  <2>2. d[x] = f[x] + e[x] /\ f[x] \in Int /\ e[x] \in Int /\ d[x] \in Int
    OBVIOUS
  <2>3. \A y \in U : f[y] \in Int /\ e[y] \in Int /\ d[y] \in Int
    OBVIOUS
  <2>4. SumOver(d, U \cup {x}) = d[x] + SumOver(d, U)
    BY <1>2, <2>1, <2>2, <2>3, SumAdds
  <2>5. SumOver(f, U \cup {x}) = f[x] + SumOver(f, U)
    BY <1>2, <2>1, <2>2, <2>3, SumAdds
  <2>6. SumOver(e, U \cup {x}) = e[x] + SumOver(e, U)
    BY <1>2, <2>1, <2>2, <2>3, SumAdds
  <2>7. SumOver(f, U) \in Int /\ SumOver(e, U) \in Int /\ SumOver(d, U) \in Int
    BY <2>1, <2>3, SumType
  <2> QED BY <1>2, <2>2, <2>4, <2>5, <2>6, <2>7
<1> HIDE DEF P
<1>3. S \in P
  BY <1>1, <1>2, FiniteInduction
<1> QED BY <1>3 DEF P

\* A common factor can be taken out of a sum.
LEMMA SumScale ==
  ASSUME NEW S, IsFiniteSet(S), NEW f, \A x \in S : f[x] \in Int, NEW a \in Int,
         NEW d, \A x \in S : d[x] = a * f[x]
  PROVE  SumOver(d, S) = a * SumOver(f, S)
<1> DEFINE P == {U \in SUBSET S : SumOver(d, U) = a * SumOver(f, U)}
<1>1. {} \in P
  <2>1. a * 0 = 0
    BY IntRing
  <2> QED BY <2>1, SumOfEmpty
<1>2. ASSUME NEW U \in SUBSET S, NEW x \in S, U \in P, x \notin U PROVE U \cup {x} \in P
  <2>1. IsFiniteSet(U)
    BY FS_Subset
  <2>2. d[x] = a * f[x] /\ f[x] \in Int /\ d[x] \in Int
    BY IntRing
  <2>3. \A y \in U : f[y] \in Int /\ d[y] \in Int
    BY IntRing
  <2>4. SumOver(d, U \cup {x}) = d[x] + SumOver(d, U)
    BY <1>2, <2>1, <2>2, <2>3, SumAdds
  <2>5. SumOver(f, U \cup {x}) = f[x] + SumOver(f, U)
    BY <1>2, <2>1, <2>2, <2>3, SumAdds
  <2>6. SumOver(f, U) \in Int
    BY <2>1, <2>3, SumType
  <2>7. a * (f[x] + SumOver(f, U)) = a * f[x] + a * SumOver(f, U)
    BY <2>2, <2>6, IntRing
  <2> QED BY <1>2, <2>2, <2>4, <2>5, <2>7
<1> HIDE DEF P
<1>3. S \in P
  BY <1>1, <1>2, FiniteInduction
<1> QED BY <1>3 DEF P

\* Sums of congruent terms are congruent.
LEMMA SumCong ==
  ASSUME NEW S, IsFiniteSet(S), NEW f, \A x \in S : f[x] \in Int,
         NEW e, \A x \in S : e[x] \in Int, NEW q \in Int, \A x \in S : Cong(f[x], e[x], q)
  PROVE  Cong(SumOver(f, S), SumOver(e, S), q)
<1> DEFINE P == {U \in SUBSET S : Cong(SumOver(f, U), SumOver(e, U), q)}
<1>1. {} \in P
  BY SumOfEmpty, CongRefl
<1>2. ASSUME NEW U \in SUBSET S, NEW x \in S, U \in P, x \notin U PROVE U \cup {x} \in P
  <2>1. IsFiniteSet(U)
    BY FS_Subset
  <2>2. f[x] \in Int /\ e[x] \in Int /\ Cong(f[x], e[x], q)
    OBVIOUS
  <2>3. \A y \in U : f[y] \in Int /\ e[y] \in Int
    OBVIOUS
  <2>4. SumOver(e, U \cup {x}) = e[x] + SumOver(e, U)
    BY <1>2, <2>1, <2>2, <2>3, SumAdds
  <2>5. SumOver(f, U \cup {x}) = f[x] + SumOver(f, U)
    BY <1>2, <2>1, <2>2, <2>3, SumAdds
  <2>6. SumOver(f, U) \in Int /\ SumOver(e, U) \in Int
    BY <2>1, <2>3, SumType
  <2>7. Cong(f[x] + SumOver(f, U), e[x] + SumOver(e, U), q)
    BY <1>2, <2>2, <2>6, CongPlus
  <2> QED BY <2>4, <2>5, <2>7
<1> HIDE DEF P
<1>3. S \in P
  BY <1>1, <1>2, FiniteInduction
<1> QED BY <1>3 DEF P

\* A sum of zeroes is 0.
LEMMA SumZero ==
  ASSUME NEW S, IsFiniteSet(S), NEW f, \A x \in S : f[x] = 0
  PROVE  SumOver(f, S) = 0
<1>1. \A x \in S : f[x] \in Int /\ f[x] = 0 * f[x]
  OBVIOUS
<1>2. SumOver(f, S) = 0 * SumOver(f, S)
  BY <1>1, SumScale
<1>3. SumOver(f, S) \in Int
  BY <1>1, SumType
<1> QED BY <1>2, <1>3, IntRing

\* Only one of the numbers is not 0.
LEMMA SumOfOne ==
  ASSUME NEW S, IsFiniteSet(S), NEW f, NEW c \in S, f[c] \in Int, \A x \in S : x # c => f[x] = 0
  PROVE  SumOver(f, S) = f[c]
<1>1. \A x \in S : f[x] \in Int
  OBVIOUS
<1>2. SumOver(f, S) = f[c] + SumOver(f, S \ {c})
  BY <1>1, SumTakes
<1>3. SumOver(f, S \ {c}) = 0
  <2>1. IsFiniteSet(S \ {c}) /\ \A x \in S \ {c} : f[x] = 0
    BY FS_Subset
  <2> QED BY <2>1, SumZero
<1> QED BY <1>2, <1>3

\* The sum over two disjoint sets.
LEMMA SumUnion ==
  ASSUME NEW S, IsFiniteSet(S), NEW T, IsFiniteSet(T), S \cap T = {},
         NEW f, \A x \in S \cup T : f[x] \in Int
  PROVE  SumOver(f, S \cup T) = SumOver(f, S) + SumOver(f, T)
<1> DEFINE P == {U \in SUBSET S : SumOver(f, U \cup T) = SumOver(f, U) + SumOver(f, T)}
<1>0. SumOver(f, T) \in Int
  BY SumType
<1>1. {} \in P
  <2>1. {} \cup T = T
    OBVIOUS
  <2> QED BY <1>0, <2>1, SumOfEmpty
<1>2. ASSUME NEW U \in SUBSET S, NEW x \in S, U \in P, x \notin U PROVE U \cup {x} \in P
  <2>1. IsFiniteSet(U) /\ IsFiniteSet(U \cup T)
    BY FS_Subset, FS_Union
  <2>2. f[x] \in Int /\ (\A y \in U : f[y] \in Int) /\ (\A y \in U \cup T : f[y] \in Int)
    OBVIOUS
  <2>3. x \notin U /\ x \notin U \cup T /\ (U \cup T) \cup {x} = (U \cup {x}) \cup T
    BY <1>2
  <2>4. SumOver(f, U \cup {x}) = f[x] + SumOver(f, U)
    BY <2>1, <2>2, <2>3, SumAdds
  <2>5. SumOver(f, (U \cup T) \cup {x}) = f[x] + SumOver(f, U \cup T)
    BY <2>1, <2>2, <2>3, SumAdds
  <2>6. SumOver(f, U) \in Int
    BY <2>1, <2>2, SumType
  <2>7. SumOver(f, (U \cup {x}) \cup T) = f[x] + SumOver(f, U \cup T)
    BY <2>3, <2>5
  <2>8. SumOver(f, U \cup T) = SumOver(f, U) + SumOver(f, T)
    BY <1>2
  <2>9. SumOver(f, (U \cup {x}) \cup T) = SumOver(f, U \cup {x}) + SumOver(f, T)
    BY <1>0, <2>2, <2>4, <2>6, <2>7, <2>8
  <2> QED BY <2>9
<1> HIDE DEF P
<1>3. S \in P
  BY <1>1, <1>2, FiniteInduction
<1> QED BY <1>3 DEF P

\* Terms that are 0 can be left out of a sum.
LEMMA SumOfPart ==
  ASSUME NEW S, IsFiniteSet(S), NEW T \in SUBSET S, NEW f, \A x \in T : f[x] \in Int,
         \A x \in S \ T : f[x] = 0
  PROVE  SumOver(f, S) = SumOver(f, T)
<1>1. IsFiniteSet(T) /\ IsFiniteSet(S \ T) /\ T \cap (S \ T) = {} /\ T \cup (S \ T) = S
  BY FS_Subset
<1>2. \A x \in T \cup (S \ T) : f[x] \in Int
  OBVIOUS
<1>3. SumOver(f, S) = SumOver(f, T) + SumOver(f, S \ T)
  BY ONLY <1>1, <1>2, SumUnion
<1>4. SumOver(f, S \ T) = 0 /\ SumOver(f, T) \in Int
  BY <1>1, SumZero, SumType
<1> QED BY <1>3, <1>4

\* The same numbers under other names.
LEMMA SumRenamed ==
  ASSUME NEW S, IsFiniteSet(S), NEW T, NEW b \in Bijection(S, T), NEW f, NEW e,
         \A y \in T : e[y] \in Int, \A x \in S : f[x] = e[b[x]]
  PROVE  SumOver(f, S) = SumOver(e, T)
<1> DEFINE Image(U) == {b[x] : x \in U}
           P == {U \in SUBSET S : SumOver(f, U) = SumOver(e, Image(U))}
<1>0. b \in [S -> T] /\ (\A x, y \in S : b[x] = b[y] => x = y) /\ \A t \in T : \E s \in S : b[s] = t
  BY DEF Bijection, Injection, Surjection, IsInjective
<1>1. {} \in P
  <2>1. Image({}) = {}
    OBVIOUS
  <2> QED BY <2>1, SumOfEmpty
<1>2. ASSUME NEW U \in SUBSET S, NEW x \in S, U \in P, x \notin U PROVE U \cup {x} \in P
  <2>1. IsFiniteSet(U) /\ IsFiniteSet(Image(U))
    <3>1. IsFiniteSet(U)
      BY FS_Subset
    <3>2. [z \in U |-> b[z]] \in Surjection(U, Image(U))
      BY DEF Surjection
    <3> QED BY <3>1, <3>2, FS_Surjection
  <2>2. f[x] = e[b[x]] /\ e[b[x]] \in Int /\ (\A y \in U : f[y] \in Int) /\ (\A y \in Image(U) : e[y] \in Int)
    BY <1>0
  <2>3. b[x] \notin Image(U) /\ Image(U \cup {x}) = Image(U) \cup {b[x]}
    BY <1>0, <1>2
  <2>4. SumOver(f, U \cup {x}) = f[x] + SumOver(f, U)
    BY <1>2, <2>1, <2>2, SumAdds
  <2>5. SumOver(e, Image(U)) = SumOver(f, U)
    BY <1>2
  <2> HIDE DEF Image
  <2>6. SumOver(e, Image(U) \cup {b[x]}) = e[b[x]] + SumOver(e, Image(U))
    BY <2>1, <2>2, <2>3, SumAdds
  <2> QED BY <2>2, <2>3, <2>4, <2>5, <2>6
<1>3. Image(S) = T
  BY <1>0
<1> HIDE DEF P
<1>4. S \in P
  BY <1>1, <1>2, FiniteInduction
<1> QED BY <1>3, <1>4 DEF P

\* The integers g, with rows over T and h as its transpose, and the sums of its rows and columns.
IsTable(S, T, g, h, r, c) ==
  /\ IsFiniteSet(S) /\ IsFiniteSet(T)
  /\ \A x \in S : \A y \in T : g[x][y] \in Int /\ h[y][x] = g[x][y]
  /\ \A x \in S : r[x] = SumOver(g[x], T)
  /\ \A y \in T : c[y] = SumOver(h[y], S)

\* The sum over the rows is the sum over the columns.
LEMMA SumSwap ==
  ASSUME NEW S, NEW T, NEW g, NEW h, NEW r, NEW c, IsTable(S, T, g, h, r, c)
  PROVE  SumOver(r, S) = SumOver(c, T)
<1> USE DEF IsTable
<1> DEFINE k(U) == [y \in T |-> SumOver(h[y], U)]
           P == {U \in SUBSET S : SumOver(r, U) = SumOver(k(U), T)}
<1>1. {} \in P
  <2>1. \A y \in T : k({})[y] = 0
    BY SumOfEmpty
  <2> HIDE DEF k
  <2>2. SumOver(k({}), T) = 0
    BY <2>1, SumZero
  <2> QED BY <2>2, SumOfEmpty
<1>2. ASSUME NEW U \in SUBSET S, NEW x \in S, U \in P, x \notin U PROVE U \cup {x} \in P
  <2>1. IsFiniteSet(U)
    BY FS_Subset
  <2>2. \A y \in T : k(U \cup {x})[y] = g[x][y] + k(U)[y] /\ k(U)[y] \in Int /\ g[x][y] \in Int
    <3>1. SUFFICES ASSUME NEW y \in T
                   PROVE  /\ SumOver(h[y], U \cup {x}) = h[y][x] + SumOver(h[y], U)
                          /\ SumOver(h[y], U) \in Int
      OBVIOUS
    <3>2. (\A z \in U : h[y][z] \in Int) /\ h[y][x] \in Int
      OBVIOUS
    <3> QED BY <1>2, <2>1, <3>2, SumAdds, SumType
  <2> HIDE DEF k, P
  <2>3. SumOver(k(U \cup {x}), T) = SumOver(g[x], T) + SumOver(k(U), T)
    <3>1. IsFiniteSet(T)
      OBVIOUS
    <3>2. \A y \in T : g[x][y] \in Int
      BY <2>2
    <3>3. \A y \in T : k(U)[y] \in Int
      BY <2>2
    <3>4. \A y \in T : k(U \cup {x})[y] = g[x][y] + k(U)[y]
      BY <2>2
    <3> QED BY ONLY <3>1, <3>2, <3>3, <3>4, SumPlus
  <2>4. \A z \in U \cup {x} : r[z] \in Int
    <3>1. ASSUME NEW z \in S PROVE SumOver(g[z], T) \in Int
      BY SumType
    <3> QED BY <3>1
  <2>5. SumOver(r, U \cup {x}) = r[x] + SumOver(r, U)
    BY <1>2, <2>1, <2>4, SumAdds
  <2> QED BY <1>2, <2>3, <2>5 DEF P
<1> HIDE DEF P
<1>3. S \in P
  BY <1>1, <1>2, FiniteInduction
<1>4. SumOver(k(S), T) = SumOver(c, T)
  <2>1. \A y \in T : k(S)[y] \in Int
    <3>1. ASSUME NEW y \in T PROVE SumOver(h[y], S) \in Int
      BY SumType
    <3> QED BY <3>1
  <2>2. \A y \in T : c[y] = k(S)[y]
    OBVIOUS
  <2> HIDE DEF k
  <2> QED BY <2>1, <2>2, SumEqual
<1> QED BY <1>3, <1>4 DEF P

-----------------------------------------------------------------------------
(* Products. *)

ProductOver(f, S) == FoldFunctionOnSet(LAMBDA a, b : a * b, 1, f, S)

Multiplying == [p \in Int \X Int |-> p[1] * p[2]]

\* Multiplication is commutative and associative on the integers.
LEMMA MultiplyingIsOperation ==
  /\ IsOperation(Multiplying, Int)
  /\ \A x, y \in Int : Multiplying[<<x, y>>] = x * y
<1>1. \A x, y \in Int : Multiplying[<<x, y>>] = x * y /\ x * y \in Int
  BY IntRing DEF Multiplying
<1>2. Multiplying \in [Int \X Int -> Int]
  BY IntRing DEF Multiplying
<1>3. ASSUME NEW x \in Int, NEW y \in Int, NEW z \in Int
      PROVE  Multiplying[<<x, Multiplying[<<y, z>>]>>] = Multiplying[<<y, Multiplying[<<x, z>>]>>]
  <2>1. /\ Multiplying[<<x, Multiplying[<<y, z>>]>>] = x * (y * z)
        /\ Multiplying[<<y, Multiplying[<<x, z>>]>>] = y * (x * z)
    BY <1>1
  <2>2. x * (y * z) = (x * y) * z /\ x * y = y * x /\ (y * x) * z = y * (x * z)
    BY IntRing
  <2> QED BY <2>1, <2>2
<1> QED BY <1>1, <1>2, <1>3 DEF IsOperation

\* The product of the model is the fold with multiplication.
LEMMA ProductIsFold ==
  ASSUME NEW S, IsFiniteSet(S), NEW f, \A x \in S : f[x] \in Int
  PROVE  \E g : IsFold(g, f, S, Int, 1, Multiplying) /\ ProductOver(f, S) = g[S]
<1> DEFINE G(g) == [T \in SUBSET S |->
              IF T = {} THEN 1 ELSE f[CHOOSE x \in T : TRUE] * g[T \ {CHOOSE x \in T : TRUE}]]
           c == CHOOSE g : g = G(g)
<1>1. ProductOver(f, S) = c[S]
  BY Zenon DEF ProductOver, FoldFunctionOnSet, MapThenFoldSet
<1>3. PICK g : IsFold(g, f, S, Int, 1, Multiplying)
  <2>1. 1 \in Int
    OBVIOUS
  <2> QED BY ONLY <2>1, IsFiniteSet(S), \A x \in S : f[x] \in Int, MultiplyingIsOperation, FoldExists
<1>4. ASSUME NEW T \in SUBSET S, T # {}
      PROVE  g[T] = f[First1(T)] * g[T \ {First1(T)}]
  <2>1. First1(T) \in S /\ T \ {First1(T)} \in SUBSET S
    BY <1>4 DEF First1
  <2>2. g[T \ {First1(T)}] \in Int /\ f[First1(T)] \in Int
    BY <1>3, <2>1 DEF IsFold, IsSetRecursion
  <2>3. g[T] = Multiplying[<<f[First1(T)], g[T \ {First1(T)}]>>]
    BY ONLY <1>3, <1>4, \A x \in S : f[x] \in Int, FoldTakesFirst
  <2> QED BY <2>2, <2>3, MultiplyingIsOperation
<1>5. g = G(g)
  <2>1. ASSUME NEW T \in SUBSET S PROVE g[T] = G(g)[T]
    <3>1. CASE T = {}
      BY <3>1, <1>3 DEF IsFold, IsSetRecursion
    <3>2. CASE T # {}
      <4>1. g[T] = f[First1(T)] * g[T \ {First1(T)}]
        BY <3>2, <1>4
      <4> QED BY <3>2, <4>1, Zenon DEF First1
    <3> QED BY <3>1, <3>2
  <2>2. g \in [SUBSET S -> Int]
    BY <1>3 DEF IsFold, IsSetRecursion
  <2> HIDE DEF G
  <2>3. G(g) = [T \in SUBSET S |-> G(g)[T]]
    BY DEF G
  <2> QED BY <2>1, <2>2, <2>3
<1>6. c = G(c)
  BY <1>5, Zenon
<1> HIDE DEF c
<1>7. c[{}] = g[{}]
  BY <1>5, <1>6
<1>8. ASSUME NEW T \in SUBSET S, T # {}, c[T \ {First1(T)}] = g[T \ {First1(T)}]
      PROVE  c[T] = g[T]
  <2>1. g[T] = f[First1(T)] * g[T \ {First1(T)}]
    BY <1>5, <1>8, Zenon DEF First1
  <2>2. c[T] = f[First1(T)] * c[T \ {First1(T)}]
    BY <1>6, <1>8, Zenon DEF First1
  <2> QED BY <2>1, <2>2, <1>8
<1> HIDE DEF G
<1>9. c[S] = g[S]
  <2>1. \A T \in SUBSET S : T # {} /\ c[T \ {First1(T)}] = g[T \ {First1(T)}] => c[T] = g[T]
    BY <1>8
  <2>2. S \in SUBSET S
    OBVIOUS
  <2> HIDE DEF c
  <2> QED BY ONLY IsFiniteSet(S), <1>7, <2>1, <2>2, SetRecursionUnique
<1> QED BY <1>1, <1>3, <1>9

\* An empty product is 1.
LEMMA ProductOfEmpty ==
  ASSUME NEW f
  PROVE  ProductOver(f, {}) = 1
<1>1. IsFiniteSet({})
  BY FS_EmptySet
<1>2. \A x \in {} : f[x] \in Int
  OBVIOUS
<1>3. PICK g : IsFold(g, f, {}, Int, 1, Multiplying) /\ ProductOver(f, {}) = g[{}]
  BY <1>1, <1>2, ProductIsFold
<1> QED BY <1>3 DEF IsFold, IsSetRecursion

\* A product of integers is an integer.
LEMMA ProductType ==
  ASSUME NEW S, IsFiniteSet(S), NEW f, \A x \in S : f[x] \in Int
  PROVE  ProductOver(f, S) \in Int
<1>1. PICK g : IsFold(g, f, S, Int, 1, Multiplying) /\ ProductOver(f, S) = g[S]
  BY ProductIsFold
<1> QED BY <1>1 DEF IsFold, IsSetRecursion

\* A factor can be taken out of a product.
LEMMA ProductTakes ==
  ASSUME NEW S, IsFiniteSet(S), NEW f, \A x \in S : f[x] \in Int, NEW x \in S
  PROVE  ProductOver(f, S) = f[x] * ProductOver(f, S \ {x})
<1>1. PICK g : IsFold(g, f, S, Int, 1, Multiplying) /\ ProductOver(f, S) = g[S]
  BY ProductIsFold
<1>2. IsFiniteSet(S \ {x}) /\ \A y \in S \ {x} : f[y] \in Int
  BY FS_Subset
<1>3. PICK h : IsFold(h, f, S \ {x}, Int, 1, Multiplying) /\ ProductOver(f, S \ {x}) = h[S \ {x}]
  BY <1>2, ProductIsFold
<1>4. h[S \ {x}] = g[S \ {x}]
  BY <1>1, <1>2, <1>3, FoldOfSubset
<1>5. g[S] = Multiplying[<<f[x], g[S \ {x}]>>]
  <2>2. IsOperation(Multiplying, Int)
    BY MultiplyingIsOperation
  <2> QED BY ONLY <1>1, <2>2, x \in S, IsFiniteSet(S), \A y \in S : f[y] \in Int, FoldTakesNumber
<1>6. f[x] \in Int /\ g[S \ {x}] \in Int
  BY <1>1 DEF IsFold, IsSetRecursion
<1> QED BY <1>1, <1>3, <1>4, <1>5, <1>6, MultiplyingIsOperation

\* A product with one factor more.
LEMMA ProductAdds ==
  ASSUME NEW U, IsFiniteSet(U), NEW f, \A y \in U : f[y] \in Int, NEW x, x \notin U, f[x] \in Int
  PROVE  ProductOver(f, U \cup {x}) = f[x] * ProductOver(f, U)
<1>1. IsFiniteSet(U \cup {x}) /\ \A y \in U \cup {x} : f[y] \in Int
  BY FS_AddElement
<1>2. x \in U \cup {x} /\ (U \cup {x}) \ {x} = U
  OBVIOUS
<1> QED BY ONLY <1>1, <1>2, ProductTakes

-----------------------------------------------------------------------------
(* Remainders and congruences. *)

\* The quotient of naturals is a natural.
LEMMA DivNat ==
  ASSUME NEW a \in Nat, NEW n \in Positive
  PROVE  a \div n \in Nat /\ a % n \in Nat /\ a = (a % n) + n * (a \div n)
<1>1. a \div n \in Int /\ a % n \in 0 .. n - 1 /\ a = n * (a \div n) + (a % n) /\ n \in Nat /\ n > 0
  BY DivMod DEF Positive
<1>2. ASSUME NEW k \in Int, NEW r \in Nat, r < n, a = n * k + r PROVE k \in Nat
  <2>1. SUFFICES ASSUME k < 0 PROVE FALSE
    BY <1>2
  <2>2. -(k + 1) \in Nat /\ n * (-(k + 1)) \in Nat /\ n * (-(k + 1)) = -(n * k) - n
    <3>1. n * (-(k + 1)) = -(n * (k + 1)) /\ n * (k + 1) = n * k + n * 1 /\ n * 1 = n /\ n * k \in Int
      BY <1>1, IntRing
    <3>2. -(k + 1) \in Nat
      BY <2>1
    <3>3. n * (-(k + 1)) \in Nat
      BY <1>1, <3>2
    <3> QED BY <3>1, <3>2, <3>3, <1>1
  <2>3. n * k \in Int
    BY <1>1, IntRing
  <2> QED BY <1>1, <1>2, <2>2, <2>3
<1>3. n * (a \div n) \in Int
  BY <1>1, IntRing
<1> QED BY <1>1, <1>2, <1>3

\* A remainder is reduced and congruent.
LEMMA ModFacts ==
  ASSUME NEW a \in Int, NEW n \in Positive
  PROVE  /\ n \in Int /\ n \in Nat /\ a % n \in Int /\ a % n \in Nat /\ a % n \in 0 .. n - 1
         /\ Cong(a % n, a, n) /\ Cong(a, a % n, n)
<1>1. n \in Int /\ n \in Nat
  BY DEF Positive
<1>2. a % n \in 0 .. n - 1 /\ a % n \in Nat
  BY DivMod
<1>3. Cong(a % n, a, n) /\ Cong(a, a % n, n)
  BY CongMod
<1> QED BY <1>1, <1>2, <1>3

\* A factor may be reduced before a product is.
LEMMA ModTimes ==
  ASSUME NEW a \in Int, NEW b \in Int, NEW n \in Positive
  PROVE  (a * (b % n)) % n = (a * b) % n /\ ((a % n) * b) % n = (a * b) % n
<1>1. n \in Int /\ a % n \in Int /\ b % n \in Int /\ Cong(b % n, b, n) /\ Cong(a % n, a, n)
  BY ModFacts
<1>2. Cong(a * (b % n), a * b, n) /\ Cong((a % n) * b, a * b, n)
  BY <1>1, CongTimesOne
<1>3. a * (b % n) \in Int /\ a * b \in Int /\ (a % n) * b \in Int
  BY <1>1, IntRing
<1> QED BY <1>2, <1>3, CongIffMod

\* A term may be reduced before a sum is.
LEMMA ModPlus ==
  ASSUME NEW a \in Int, NEW b \in Int, NEW n \in Positive
  PROVE  (a + (b % n)) % n = (a + b) % n /\ ((a % n) + b) % n = (a + b) % n
<1>1. n \in Int /\ a % n \in Int /\ b % n \in Int /\ Cong(b % n, b, n) /\ Cong(a % n, a, n)
  BY ModFacts
<1>2. Cong(a + (b % n), a + b, n) /\ Cong((a % n) + b, a + b, n)
  <2>1. Cong(a, a, n) /\ Cong(b, b, n)
    BY <1>1, CongRefl
  <2> QED BY <1>1, <2>1, CongPlus
<1>3. a + (b % n) \in Int /\ (a % n) + b \in Int /\ a + b \in Int
  BY <1>1
<1> QED BY <1>2, <1>3, CongIffMod

\* A congruence may be multiplied on both sides, from the left and from the right.
LEMMA CongTimesBoth ==
  ASSUME NEW a \in Int, NEW b \in Int, NEW c \in Int, NEW n \in Int, Cong(a, b, n)
  PROVE  Cong(a * c, b * c, n) /\ Cong(c * a, c * b, n)
BY CongTimesOne

\* What is 1 modulo n may be left out of a product.
LEMMA CongOneTimes ==
  ASSUME NEW x \in Int, NEW c \in Int, NEW n \in Int, Cong(x, 1, n) \/ Cong(1, x, n)
  PROVE  Cong(x * c, c, n) /\ Cong(c * x, c, n)
<1> DEFINE one == 1
<1>1. one \in Int /\ (Cong(x, one, n) \/ Cong(one, x, n)) /\ one * c = c /\ c * one = c
  OBVIOUS
<1> HIDE DEF one
<1>2. Cong(x, one, n)
  BY <1>1, CongSym
<1>3. Cong(x * c, one * c, n) /\ Cong(c * x, c * one, n)
  BY <1>1, <1>2, CongTimesOne
<1> QED BY <1>1, <1>3

\* Less than half the modulus, in absolute value.
Small(x, n) == 2 * x < n /\ -2 * x < n

\* Two small congruent numbers are equal.
LEMMA SmallUnique ==
  ASSUME NEW n \in Positive, NEW x \in Int, NEW y \in Int, Small(x, n), Small(y, n), Cong(x, y, n)
  PROVE  x = y
<1>1. PICK k \in Int : x - y = n * k
  BY DEF Cong, Divides
<1>2. n \in Int /\ n > 0 /\ x - y < n /\ y - x < n
  BY DEF Small, Positive
<1>3. CASE k >= 1
  <2>1. n * k = n + n * (k - 1) /\ n * (k - 1) >= 0
    <3>1. k - 1 \in Nat /\ n \in Nat
      BY <1>2, <1>3
    <3>2. n * (k - 1) = n * k - n * 1 /\ n * 1 = n
      BY <1>2, IntRing
    <3>3. n * (k - 1) \in Nat
      BY <3>1
    <3>4. n * k \in Int
      BY <1>2
    <3> QED BY ONLY <1>2, <3>2, <3>3, <3>4
  <2> QED BY <1>1, <1>2, <2>1
<1>4. CASE k =< -1
  <2>1. n * k = -n - n * (-k - 1) /\ n * (-k - 1) >= 0
    <3>1. -k - 1 \in Nat /\ n \in Nat /\ -k \in Int
      BY <1>2, <1>4
    <3>2. n * (-k - 1) = n * (-k) - n * 1 /\ n * 1 = n /\ n * (-k) = -(n * k)
      BY <1>2, <3>1, IntRing
    <3>3. n * (-k - 1) \in Nat
      BY <3>1
    <3>4. n * k \in Int
      BY <1>2
    <3> QED BY ONLY <1>2, <3>2, <3>3, <3>4
  <2> QED BY <1>1, <1>2, <2>1
<1>5. CASE k = 0
  <2>1. n * 0 = 0
    BY <1>2, IntRing
  <2> QED BY <1>1, <1>5, <2>1
<1> QED BY <1>3, <1>4, <1>5

\* A delta no longer than D * p / 2 is a remainder modulo Q, shifted at most p times.
LEMMA DeltaShift ==
  ASSUME NEW D \in Positive, NEW p \in Positive, NEW Q \in Positive, D =< Q, D % 2 = 1,
         NEW e \in Int, e % p = 0, 2 * e =< D * p, -2 * e =< D * p,
         p = 1 => 2 * e =< D - 1 /\ -2 * e =< D - 1,
         NEW x \in Int, Cong(x, e, Q)
  PROVE  \E k \in -p .. p :
           LET longest == IF p = 1 THEN (D - 1) \div 2 ELSE (D * p) \div 2
               y == (x % Q) + k * Q
           IN y % p = 0 /\ y =< longest /\ -y =< longest
<1> DEFINE r == x % Q
           b == D * p
           c == Q * p
           longest == IF p = 1 THEN (D - 1) \div 2 ELSE b \div 2
<1>1. p \in Int /\ p >= 1 /\ Q \in Int /\ D \in Int /\ D >= 1 /\ b \in Int /\ c \in Int /\ Q >= 1
  BY IntRing DEF Positive
<1>2. r \in Int /\ r \in 0 .. Q - 1 /\ Cong(r, x, Q)
  BY ModFacts
<1> HIDE DEF r
<1>3. Cong(e, r, Q)
  BY <1>1, <1>2, CongSym, CongTrans
<1>4. PICK k \in Int : e - r = Q * k
  BY <1>3 DEF Cong, Divides
<1> DEFINE a == k * Q
<1>5. a \in Int /\ e = r + a /\ Q * k = a
  <2>1. Q * k = k * Q /\ k * Q \in Int
    BY <1>1, IntRing
  <2> QED BY ONLY <1>2, <1>4, <2>1
<1>6. b =< c
  <2>1. (Q - D) * p = Q * p - D * p /\ Q - D \in Nat /\ p \in Nat
    BY <1>1, IntRing
  <2>2. (Q - D) * p \in Nat
    BY <2>1
  <2>3. (Q - D) * p = c - b
    BY <2>1
  <2> HIDE DEF b, c
  <2> QED BY ONLY <1>1, <2>2, <2>3
<1>7. 2 * e =< c /\ -2 * e =< c /\ (p = 1 => -2 * e < Q)
  BY <1>1, <1>6
<1>8. k =< p
  <2>1. SUFFICES ASSUME k > p PROVE FALSE
    BY <1>1
  <2>2. Q * (k - p) = Q * k - Q * p /\ k - p - 1 \in Nat /\ Q * (k - p) = Q * (k - p - 1) + Q
    <3>1. Q * (k - p) = Q * k - Q * p /\ Q * ((k - p) - 1) = Q * (k - p) - Q * 1 /\ Q * 1 = Q /\ Q * (k - p) \in Int
      BY <1>1, IntRing
    <3>2. k - p - 1 \in Nat
      BY <1>1, <2>1
    <3> QED BY ONLY <1>1, <3>1, <3>2
  <2>3. Q * (k - p - 1) \in Nat
    BY <1>1, <2>2
  <2>4. a - c >= Q
    <3>1. Q * (k - p) = a - c
      BY <1>5, <2>2
    <3> HIDE DEF a, c
    <3> QED BY ONLY <1>1, <1>5, <2>2, <2>3, <3>1
  <2> HIDE DEF a, b, c
  <2>5. c >= 1
    BY <1>1, <1>6 DEF b, c
  <2> QED BY ONLY <1>1, <1>2, <1>5, <1>7, <2>4, <2>5
<1>9. k >= -p
  <2>1. SUFFICES ASSUME k < -p PROVE FALSE
    BY <1>1
  <2>2. -k - p - 1 \in Nat
    BY <1>1, <2>1
  <2>3. Q * (-k - p - 1) \in Nat
    BY <1>1, <2>2
  <2>4. Q * (-k - p - 1) = -a - c - Q
    <3>1. Q * ((-k - p) - 1) = Q * (-k - p) - Q * 1 /\ Q * 1 = Q /\ Q * (-k - p) = Q * (-k) - Q * p
          /\ Q * (-k) = -(Q * k)
      BY <1>1, IntRing
    <3> HIDE DEF a
    <3> QED BY ONLY <1>1, <1>5, <3>1
  <2>5. a =< -c - Q
    <3> HIDE DEF a, c
    <3> QED BY ONLY <1>1, <1>5, <2>3, <2>4
  <2>6. CASE p = 1
    <3>1. c = Q
      BY <1>1, <2>6
    <3> HIDE DEF a, b, c
    <3> QED BY ONLY <1>1, <1>2, <1>5, <1>7, <2>5, <2>6, <3>1
  <2>7. CASE p # 1
    <3>1. c >= 2 * Q
      <4>1. Q * (p - 2) = Q * p - Q * 2 /\ p - 2 \in Nat /\ Q \in Nat
        BY <1>1, <2>7, IntRing
      <4>2. Q * (p - 2) \in Nat
        BY <4>1
      <4>3. Q * (p - 2) = c - Q * 2
        BY <4>1
      <4> HIDE DEF c
      <4> QED BY ONLY <1>1, <4>2, <4>3
    <3> HIDE DEF a, b, c
    <3> QED BY ONLY <1>1, <1>2, <1>5, <1>7, <2>5, <3>1
  <2> QED BY <2>6, <2>7
<1>10. k \in -p .. p
  BY <1>1, <1>8, <1>9
<1>11. e =< longest /\ -e =< longest
  <2>1. CASE p = 1
    BY <1>1, <2>1
  <2>2. CASE p # 1
    <3> HIDE DEF b
    <3>1. 2 * e =< b /\ -2 * e =< b
      BY DEF b
    <3> QED BY <1>1, <2>2, <3>1
  <2> QED BY <2>1, <2>2
<1>12. (x % Q) + k * Q = e
  BY <1>5 DEF r
<1> QED BY <1>10, <1>11, <1>12

\* The congruences of one round, put together.
LEMMA RecombineStep ==
  ASSUME NEW d \in Int, NEW x \in Int, NEW y \in Int, NEW z \in Int, NEW w \in Int, NEW t \in Int,
         NEW D \in Int, NEW Q \in Int, NEW q \in Int,
         Cong(d, x + D * y, q), Cong(Q * z, y - w, q), Cong(t, x + w * D, q)
  PROVE  Cong(d, t + (Q * D) * z, q)
<1>1. PICK a, b, c, e : a = (Q * D) * z /\ b = D * y /\ c = w * D /\ e = Q * z
  OBVIOUS
<1>2. a \in Int /\ b \in Int /\ c \in Int /\ e \in Int /\ D * e \in Int
  BY <1>1, IntRing
<1>3. D * e = a
  <2>1. (Q * D) * z = (D * Q) * z /\ (D * Q) * z = D * (Q * z)
    BY IntRing
  <2> QED BY <1>1, <2>1
<1>4. D * (y - w) = b - c /\ y - w \in Int
  <2>1. D * (y - w) = D * y - D * w /\ D * w = w * D
    BY IntRing
  <2> QED BY <1>1, <2>1
<1>5. Cong(D * e, D * (y - w), q)
  BY <1>1, <1>2, <1>4, CongTimesOne
<1>6. Cong(a, b - c, q)
  BY <1>3, <1>4, <1>5
<1>7. Cong(t + a, (x + c) + (b - c), q)
  <2>1. x + c \in Int /\ b - c \in Int /\ Cong(t, x + c, q)
    BY <1>1, <1>2
  <2> QED BY <1>2, <1>6, <2>1, CongPlus
<1>8. (x + c) + (b - c) = x + b
  BY ONLY x \in Int, <1>2
<1>9. Cong(x + b, t + a, q)
  <2>1. Cong(t + a, x + b, q) /\ t + a \in Int /\ x + b \in Int
    BY <1>2, <1>7, <1>8
  <2> QED BY <2>1, CongSym
<1>10. Cong(d, x + b, q) /\ t + a \in Int /\ x + b \in Int
  BY <1>1, <1>2
<1>11. Cong(d, t + a, q)
  BY <1>9, <1>10, CongTrans
<1> QED BY <1>1, <1>11

\* In the rows of the digit that is added, what is left is the digit: the sum is right.
LEMMA TakeStep ==
  ASSUME NEW d \in Int, NEW x \in Int, NEW y \in Int, NEW w \in Int, NEW t \in Int,
         NEW D \in Int, NEW q \in Int,
         Cong(d, x + D * y, q), Cong(y, w, q), Cong(t, x + w * D, q)
  PROVE  Cong(d, t, q)
<1>1. PICK b, c : b = D * y /\ c = w * D
  OBVIOUS
<1>2. b \in Int /\ c \in Int /\ x + b \in Int /\ x + c \in Int
  BY <1>1, IntRing
<1>3. D * w = c
  BY <1>1, IntRing
<1>4. Cong(b, c, q)
  <2>1. Cong(D * y, D * w, q)
    BY CongTimesOne
  <2> QED BY ONLY <1>1, <1>3, <2>1
<1>5. Cong(x, x, q)
  BY CongRefl
<1>6. Cong(x + b, x + c, q)
  BY ONLY x \in Int, q \in Int, <1>2, <1>4, <1>5, CongPlus
<1>7. Cong(x + c, t, q)
  <2>1. Cong(t, x + c, q)
    BY <1>1
  <2> QED BY <1>2, <2>1, CongSym
<1>8. Cong(d, x + b, q)
  BY <1>1
<1>9. Cong(d, x + c, q)
  BY <1>2, <1>6, <1>8, CongTrans
<1> QED BY <1>2, <1>7, <1>9, CongTrans

\* A multiple of the prime does not change the row.
LEMMA VanishStep ==
  ASSUME NEW d \in Int, NEW x \in Int, NEW w \in Int, NEW t \in Int, NEW D \in Int, NEW q \in Int,
         Cong(d, x, q), Divides(q, D), Cong(t, x + w * D, q)
  PROVE  Cong(d, t, q)
<1>1. PICK c : c = w * D
  OBVIOUS
<1>2. c \in Int /\ x + c \in Int
  BY <1>1, IntRing
<1>3. Divides(q, c)
  <2>1. PICK z \in Int : D = q * z
    BY DEF Divides
  <2>2. w * z \in Int /\ w * (q * z) = q * (w * z)
    <3>1. w * (q * z) = (w * q) * z /\ (w * q) * z = (q * w) * z /\ (q * w) * z = q * (w * z)
      BY <2>1, IntRing
    <3>2. w * z \in Int
      BY <2>1, IntRing
    <3> QED BY ONLY <3>1, <3>2
  <2>3. c = q * (w * z)
    BY ONLY <1>1, <2>1, <2>2
  <2> QED BY ONLY <2>2, <2>3 DEF Divides
<1>4. Cong(c, 0, q)
  BY <1>2, <1>3, CongZero
<1>5. Cong(x, x, q) /\ 0 \in Int
  BY CongRefl
<1>6. Cong(x + c, x + 0, q)
  BY ONLY x \in Int, q \in Int, <1>2, <1>4, <1>5, CongPlus
<1>7. x + 0 = x
  OBVIOUS
<1>8. Cong(t, x + c, q)
  BY <1>1
<1>9. Cong(t, x, q)
  BY <1>2, <1>6, <1>7, <1>8, CongTrans
<1>10. Cong(x, t, q)
  BY <1>9, CongSym
<1> QED BY <1>10, CongTrans

\* What is added and taken off again cancels modulo q.
LEMMA Cancels ==
  ASSUME NEW q \in Positive, NEW x \in 0 .. q - 1, NEW y \in Int, NEW k \in Int
  PROVE  ((((((((x - y) % q) + k) % q) + y) % q)) - k) % q = x
<1>1. PICK a : a = (x - y) % q
  OBVIOUS
<1>2. q \in Int /\ x \in Int /\ x - y \in Int
  BY DEF Positive
<1>3. a \in Int /\ Cong(a, x - y, q)
  BY <1>1, <1>2, ModFacts
<1>4. PICK b : b = (a + k) % q
  OBVIOUS
<1>5. b \in Int /\ Cong(b, a + k, q)
  BY <1>3, <1>4, ModFacts
<1>6. PICK c : c = (b + y) % q
  OBVIOUS
<1>7. c \in Int /\ Cong(c, b + y, q)
  BY <1>5, <1>6, ModFacts
<1>8. Cong(a + k, (x - y) + k, q)
  BY <1>2, <1>3, CongRefl, CongPlus
<1>9. Cong(b, (x - y) + k, q)
  BY <1>2, <1>3, <1>5, <1>8, CongTrans
<1>10. Cong(b + y, ((x - y) + k) + y, q)
  BY <1>2, <1>5, <1>9, CongRefl, CongPlus
<1>11. ((x - y) + k) + y = x + k
  BY <1>2
<1>12. Cong(c, x + k, q)
  BY <1>2, <1>5, <1>7, <1>10, <1>11, CongTrans
<1>13. Cong(c - k, (x + k) - k, q)
  BY <1>2, <1>7, <1>12, CongRefl, CongPlus
<1>14. (x + k) - k = x
  BY <1>2
<1>15. Cong((c - k) % q, c - k, q) /\ (c - k) % q \in Int /\ (c - k) % q \in 0 .. q - 1
  <2>1. PICK d : d = c - k
    OBVIOUS
  <2>2. d \in Int
    BY <1>2, <1>7, <2>1
  <2>3. Cong(d % q, d, q) /\ d % q \in Int /\ d % q \in 0 .. q - 1
    BY <2>2, ModFacts
  <2> QED BY <2>1, <2>3
<1>16. Cong((c - k) % q, x, q)
  BY <1>2, <1>7, <1>13, <1>14, <1>15, CongTrans
<1>17. (c - k) % q = x
  BY <1>15, <1>16, CongUnique
<1> QED BY <1>1, <1>4, <1>6, <1>17

\* A product of natural numbers is monotone.
LEMMA TimesMonotone ==
  ASSUME NEW n \in Nat, NEW a \in Nat, NEW b \in Nat, a =< b
  PROVE  n * a =< n * b
<1>1. n \in Int /\ a \in Int /\ b \in Int /\ b - a \in Nat
  OBVIOUS
<1>2. n * (b - a) = n * b - n * a /\ n * b \in Int /\ n * a \in Int
  BY ONLY <1>1, IntRing
<1>3. n * (b - a) \in Nat
  BY ONLY n \in Nat, <1>1
<1>4. PICK x, y : x = n * a /\ y = n * b
  OBVIOUS
<1>5. x \in Int /\ y \in Int /\ y - x \in Nat
  BY <1>2, <1>3, <1>4
<1>6. x =< y
  BY ONLY <1>5
<1> QED BY <1>4, <1>6

-----------------------------------------------------------------------------
(* Recursive functions on segments, and loops. *)

\* Two recursions with the same step agree.
LEMMA AgreeOnSegment ==
  ASSUME NEW n \in Nat, NEW c, NEW f, c[0] = f[0],
         \A k \in 1 .. n : c[k - 1] = f[k - 1] => c[k] = f[k],
         NEW m \in 0 .. n
  PROVE  c[m] = f[m]
<1> DEFINE N == {k \in Nat : k =< n => c[k] = f[k]}
<1>1. 0 \in N
  OBVIOUS
<1>2. ASSUME NEW k \in Nat, k \in N PROVE k + 1 \in N
  <2>1. SUFFICES ASSUME k + 1 =< n PROVE c[k + 1] = f[k + 1]
    OBVIOUS
  <2>2. k + 1 \in 1 .. n /\ (k + 1) - 1 = k /\ c[k] = f[k]
    BY <1>2, <2>1
  <2> QED BY <2>2
<1> HIDE DEF N
<1>3. m \in N
  BY <1>1, <1>2, Induction
<1> QED BY <1>3 DEF N

IsIndexed(f, A, a0, step) ==
  f \in [Nat -> A] /\ f[0] = a0 /\ \A n \in Nat : f[n + 1] = step[<<n, f[n]>>]

\* A function on the naturals, by recursion with the index.
LEMMA IndexedRecursion ==
  ASSUME NEW A, NEW a0 \in A, NEW step \in [Nat \X A -> A]
  PROVE  \E f : IsIndexed(f, A, a0, step)
<1> DEFINE B == Nat \X A
           b0 == <<0, a0>>
           next == [s \in B |-> <<s[1] + 1, step[s]>>]
<1>1. b0 \in B /\ next \in [B -> B]
  <2>1. ASSUME NEW s \in B PROVE <<s[1] + 1, step[s]>> \in B
    BY <2>1
  <2> QED BY <2>1
<1>2. \A n \in Nat, a \in A : <<n, a>> \in B /\ next[<<n, a>>] = <<n + 1, step[<<n, a>>]>>
  OBVIOUS
<1> HIDE DEF next
<1>3. PICK F : IsIteration(F, B, b0, next)
  <2> HIDE DEF B, b0
  <2> QED BY ONLY <1>1, Recursion
<1> DEFINE f == [n \in Nat |-> F[n][2]]
           N == {n \in Nat : F[n] = <<n, F[n][2]>>}
<1>4. ASSUME NEW n \in Nat PROVE F[n] \in B /\ F[n][2] \in A /\ F[n + 1] = next[F[n]]
  <2>1. F[n] \in B /\ F[n + 1] = next[F[n]]
    BY <1>3 DEF IsIteration
  <2> QED BY <2>1
<1>5. 0 \in N
  BY <1>3 DEF IsIteration
<1>6. ASSUME NEW n \in Nat, n \in N PROVE n + 1 \in N
  <2>1. PICK a \in A : F[n] = <<n, a>>
    BY <1>4, <1>6
  <2>2. next[F[n]] = <<n + 1, step[<<n, a>>]>>
    BY <1>2, <2>1
  <2>3. F[n + 1] = <<n + 1, step[<<n, a>>]>>
    BY <1>4, <2>2
  <2> QED BY <2>3
<1> HIDE DEF N
<1>7. \A n \in Nat : F[n] = <<n, F[n][2]>>
  BY <1>5, <1>6, Induction DEF N
<1>8. f \in [Nat -> A]
  BY <1>4
<1>9. f[0] = a0
  BY <1>3 DEF IsIteration
<1>10. ASSUME NEW n \in Nat PROVE f[n + 1] = step[<<n, f[n]>>]
  <2>1. PICK a \in A : F[n] = <<n, a>>
    BY <1>4, <1>7
  <2>2. next[F[n]] = <<n + 1, step[<<n, a>>]>>
    BY <1>2, <2>1
  <2>3. F[n + 1] = <<n + 1, step[<<n, a>>]>>
    BY <1>4, <2>2
  <2>4. f[n + 1] = step[<<n, a>>] /\ f[n] = a
    BY <2>1, <2>3
  <2> QED BY <2>4
<1> QED BY <1>8, <1>9, <1>10 DEF IsIndexed

\* A recursion on a segment.
IsSegment(f, n, A, a0, step) ==
  /\ f \in [0 .. n -> A] /\ f = [k \in 0 .. n |-> f[k]]
  /\ f[0] = a0 /\ \A k \in 1 .. n : f[k] = step[<<k - 1, f[k - 1]>>]

\* A recursion on a segment exists.
LEMMA SegmentExists ==
  ASSUME NEW n \in Nat, NEW A, NEW a0 \in A, NEW step \in [Nat \X A -> A]
  PROVE  \E f : IsSegment(f, n, A, a0, step)
<1>1. PICK F : IsIndexed(F, A, a0, step)
  BY IndexedRecursion
<1> DEFINE f == [k \in 0 .. n |-> F[k]]
<1>2. F \in [Nat -> A] /\ F[0] = a0 /\ \A k \in Nat : F[k + 1] = step[<<k, F[k]>>]
  BY <1>1 DEF IsIndexed
<1>3. f \in [0 .. n -> A] /\ f[0] = a0 /\ f = [k \in 0 .. n |-> f[k]]
  BY <1>2
<1>4. ASSUME NEW k \in 1 .. n PROVE f[k] = step[<<k - 1, f[k - 1]>>]
  <2>1. k - 1 \in Nat /\ (k - 1) + 1 = k /\ k \in 0 .. n /\ k - 1 \in 0 .. n
    OBVIOUS
  <2>2. F[(k - 1) + 1] = step[<<k - 1, F[k - 1]>>]
    BY <1>2, <2>1
  <2>3. f[k] = F[k] /\ f[k - 1] = F[k - 1]
    BY <2>1
  <2> HIDE DEF f
  <2> QED BY <2>1, <2>2, <2>3
<1> HIDE DEF f
<1> QED BY <1>3, <1>4 DEF IsSegment

Agree(c, f, n) == c[0] = f[0] /\ \A k \in 1 .. n : c[k - 1] = f[k - 1] => c[k] = f[k]

\* Functions that agree at every step agree.
LEMMA AgreeFacts ==
  ASSUME NEW n \in Nat, NEW c, NEW f, Agree(c, f, n)
  PROVE  \A m \in 0 .. n : c[m] = f[m]
BY AgreeOnSegment DEF Agree

\* A recursion whose values stay in sets Inv.
IsLoop(f, n, A, a0, step, Inv) ==
  /\ f \in [0 .. n -> A] /\ f = [k \in 0 .. n |-> f[k]]
  /\ f[0] = a0 /\ \A k \in 1 .. n : f[k] = step[<<k - 1, f[k - 1]>>]
  /\ \A k \in 0 .. n : f[k] \in Inv[k]

Keeps(n, A, step, Inv) ==
  \A i \in 0 .. n - 1 : \A a \in A : a \in Inv[i] => step[<<i, a>>] \in A /\ step[<<i, a>>] \in Inv[i + 1]

\* A recursion on a segment that keeps an invariant exists, with the invariant.
LEMMA LoopExists ==
  ASSUME NEW n \in Nat, NEW A, NEW a0 \in A, NEW step, NEW Inv, a0 \in Inv[0], Keeps(n, A, step, Inv)
  PROVE  \E f : IsLoop(f, n, A, a0, step, Inv)
<1> DEFINE Next1(p) == IF step[p] \in A THEN step[p] ELSE a0
           next == [p \in Nat \X A |-> Next1(p)]
<1>1. /\ next \in [Nat \X A -> A]
      /\ \A k \in Nat, a \in A : step[<<k, a>>] \in A => next[<<k, a>>] = step[<<k, a>>]
  OBVIOUS
<1> HIDE DEF next
<1>2. PICK f : IsSegment(f, n, A, a0, next)
  BY ONLY <1>1, n \in Nat, a0 \in A, SegmentExists
<1>3. /\ f \in [0 .. n -> A] /\ f = [k \in 0 .. n |-> f[k]]
      /\ f[0] = a0 /\ \A k \in 1 .. n : f[k] = next[<<k - 1, f[k - 1]>>]
  BY <1>2 DEF IsSegment
<1>4. ASSUME NEW k \in 1 .. n, f[k - 1] \in Inv[k - 1]
      PROVE  f[k] = step[<<k - 1, f[k - 1]>>] /\ f[k] \in Inv[k]
  <2>1. k - 1 \in 0 .. n - 1 /\ k - 1 \in Nat /\ k - 1 \in 0 .. n /\ (k - 1) + 1 = k
    OBVIOUS
  <2>2. f[k - 1] \in A
    BY <1>3, <2>1
  <2>3. step[<<k - 1, f[k - 1]>>] \in A /\ step[<<k - 1, f[k - 1]>>] \in Inv[(k - 1) + 1]
    BY <1>4, <2>1, <2>2 DEF Keeps
  <2>4. f[k] = next[<<k - 1, f[k - 1]>>]
    BY <1>3
  <2> QED BY <1>1, <2>1, <2>2, <2>3, <2>4
<1> DEFINE N == {k \in Nat : k =< n => f[k] \in Inv[k]}
<1>5. 0 \in N
  BY <1>3
<1>6. ASSUME NEW k \in Nat, k \in N
      PROVE  k + 1 \in N
  <2>1. CASE k + 1 =< n
    <3>1. k + 1 \in 1 .. n /\ (k + 1) - 1 = k /\ f[k] \in Inv[k]
      BY <1>6, <2>1
    <3>2. f[(k + 1) - 1] \in Inv[(k + 1) - 1]
      BY <1>3, <1>6, <3>1
    <3>3. f[k + 1] \in Inv[k + 1]
      BY ONLY <1>4, <3>1, <3>2
    <3> QED BY <3>3
  <2>2. CASE ~(k + 1 =< n)
    BY <2>2
  <2> QED BY <2>1, <2>2
<1>7. \A k \in 0 .. n : f[k] \in Inv[k]
  <2> HIDE DEF N
  <2>1. Nat \subseteq N
    BY <1>5, <1>6, Induction
  <2> QED BY <2>1 DEF N
<1>8. \A k \in 1 .. n : f[k] = step[<<k - 1, f[k - 1]>>]
  BY <1>4, <1>7
<1>9. IsLoop(f, n, A, a0, step, Inv)
  BY <1>3, <1>7, <1>8 DEF IsLoop
<1> QED BY <1>9

-----------------------------------------------------------------------------
(* Sums of natural numbers, of ones, and modulo a number. *)

\* A sum of natural numbers is one, and is not below any of them.
LEMMA SumNat ==
  ASSUME NEW S, IsFiniteSet(S), NEW f, \A x \in S : f[x] \in Nat
  PROVE  SumOver(f, S) \in Nat /\ \A x \in S : f[x] =< SumOver(f, S)
<1> DEFINE P == {T \in SUBSET S : SumOver(f, T) \in Nat}
<1>1. {} \in P
  BY SumOfEmpty
<1>2. ASSUME NEW T \in SUBSET S, NEW x \in S, T \in P, x \notin T
      PROVE  T \cup {x} \in P
  <2>1. IsFiniteSet(T) /\ SumOver(f, T) \in Nat /\ f[x] \in Nat
    BY <1>2, FS_Subset
  <2>2. IsFiniteSet(T \cup {x}) /\ \A y \in T \cup {x} : f[y] \in Int
    BY <2>1, FS_AddElement
  <2>3. SumOver(f, T \cup {x}) = f[x] + SumOver(f, (T \cup {x}) \ {x})
    BY <2>2, SumTakes
  <2>4. (T \cup {x}) \ {x} = T
    BY <1>2
  <2>5. SumOver(f, T \cup {x}) \in Nat
    BY <2>1, <2>3, <2>4
  <2> QED BY <1>2, <2>5
<1>3. \A T \in SUBSET S : T \in P
  <2> SUFFICES ASSUME NEW T \in SUBSET S PROVE T \in P
    OBVIOUS
  <2> DEFINE Q == {U \in SUBSET T : U \in P}
  <2>1. {} \in Q
    BY <1>1
  <2>2. \A U \in SUBSET T, x \in T : U \in Q /\ x \notin U => U \cup {x} \in Q
    BY <1>2
  <2>3. IsFiniteSet(T)
    BY FS_Subset
  <2> HIDE DEF Q, P
  <2>4. T \in Q
    BY <2>1, <2>2, <2>3, FiniteInduction
  <2> QED BY <2>4 DEF Q
<1>4. ASSUME NEW x \in S PROVE f[x] =< SumOver(f, S)
  <2>1. SumOver(f, S) = f[x] + SumOver(f, S \ {x})
    BY SumTakes
  <2>2. SumOver(f, S \ {x}) \in Nat
    BY <1>3
  <2> QED BY <2>1, <2>2
<1> QED BY <1>3, <1>4

\* A sum of ones counts.
LEMMA SumOfOnes ==
  ASSUME NEW S, IsFiniteSet(S), NEW f, \A x \in S : f[x] = 1
  PROVE  SumOver(f, S) = Cardinality(S)
<1> DEFINE P == {U \in SUBSET S : SumOver(f, U) = Cardinality(U)}
<1>1. {} \in P
  BY SumOfEmpty, FS_EmptySet
<1>2. ASSUME NEW U \in SUBSET S, NEW x \in S, U \in P, x \notin U PROVE U \cup {x} \in P
  <2>1. IsFiniteSet(U) /\ Cardinality(U \cup {x}) = Cardinality(U) + 1 /\ Cardinality(U) \in Nat
    BY <1>2, FS_Subset, FS_AddElement, FS_CardinalityType
  <2>2. (\A y \in U : f[y] \in Int) /\ f[x] \in Int /\ f[x] = 1
    OBVIOUS
  <2>3. SumOver(f, U \cup {x}) = f[x] + SumOver(f, U)
    BY <1>2, <2>1, <2>2, SumAdds
  <2>4. SumOver(f, U \cup {x}) = Cardinality(U \cup {x})
    BY <1>2, <2>1, <2>2, <2>3
  <2> QED BY <2>4
<1> HIDE DEF P
<1>3. S \in P
  BY <1>1, <1>2, FiniteInduction
<1> QED BY <1>3 DEF P

\* A sum of residues, reduced.
LEMMA SumReduced ==
  ASSUME NEW S, IsFiniteSet(S), NEW f, \A x \in S : f[x] \in Int, NEW n \in Positive,
         NEW e, \A x \in S : e[x] = f[x] % n
  PROVE  /\ SumOver(e, S) \in Int /\ SumOver(e, S) % n \in 0 .. n - 1 /\ SumOver(e, S) % n \in Int
         /\ SumOver(f, S) \in Int /\ Cong(SumOver(e, S) % n, SumOver(f, S), n)
<1>1. \A x \in S : e[x] \in Int /\ Cong(e[x], f[x], n)
  BY ModFacts
<1>2. SumOver(e, S) \in Int /\ SumOver(f, S) \in Int /\ n \in Int
  BY <1>1, SumType DEF Positive
<1>3. Cong(SumOver(e, S), SumOver(f, S), n)
  BY <1>1, <1>2, SumCong
<1>4. SumOver(e, S) % n \in Int /\ SumOver(e, S) % n \in 0 .. n - 1 /\ Cong(SumOver(e, S) % n, SumOver(e, S), n)
  BY <1>2, ModFacts
<1>5. Cong(SumOver(e, S) % n, SumOver(f, S), n)
  BY <1>2, <1>3, <1>4, CongTrans
<1> QED BY <1>2, <1>4, <1>5

\* The sum of a function is the sum over its domain.
LEMMA SumFn ==
  ASSUME NEW f
  PROVE  SumFunction(f) = SumOver(f, DOMAIN f)
BY Zenon DEF SumFunction, SumOver
=============================================================================
