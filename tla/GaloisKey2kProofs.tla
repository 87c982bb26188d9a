------------------------- MODULE GaloisKey2kProofs -------------------------
(***************************************************************************)
(* Proofs about GaloisKey2k, for every m the module allows, all steps and  *)
(* keys.                                                                   *)
(***************************************************************************)
EXTENDS GaloisKey2k, WellFoundedInduction, TLAPS

-----------------------------------------------------------------------------
(* Numbers.                                                                *)

Residue == 0 .. M - 1

LEMMA Sizes ==
  /\ M \in Nat /\ M >= 4
  /\ RowSize \in {1, 2, 4, 8, 16} /\ M = 4 * RowSize
BY MAssumption DEF PowersOfTwo, RowSize

LEMMA DivMod ==
  ASSUME NEW a \in Nat
  PROVE  /\ a \div M \in Nat /\ a % M \in Residue
         /\ a = M * (a \div M) + (a % M)
<1>1. M \in Nat /\ M > 0
  BY Sizes
<1> QED BY ONLY <1>1, a \in Nat DEF Residue

\* The remainder is the only one.
LEMMA ModUnique ==
  ASSUME NEW a \in Nat, NEW q \in Int, NEW r \in Residue, a = M * q + r
  PROVE  a % M = r
<1> DEFINE p == a \div M
           t == a % M
<1>1. p \in Int /\ t \in Residue /\ M * p + t = M * q + r
  BY DivMod
<1> HIDE DEF p, t
<1>2. M * (p - q) = r - t /\ r - t < M /\ r - t > - M
  BY <1>1, Sizes DEF Residue
<1>3. ASSUME p - q >= 1 PROVE FALSE
  <2>1. M * (p - q) >= M
    BY <1>3, <1>1, Sizes
  <2> QED BY <2>1, <1>2, <1>1, Sizes DEF Residue
<1>4. ASSUME p - q =< -1 PROVE FALSE
  <2>1. M * (p - q) =< - M
    BY <1>4, <1>1, Sizes
  <2> QED BY <2>1, <1>2, <1>1, Sizes DEF Residue
<1>5. p = q
  BY <1>3, <1>4, <1>1
<1>6. t = r
  BY <1>5, <1>1, Sizes DEF Residue
<1> QED BY <1>6 DEF t

LEMMA ModOfResidue ==
  ASSUME NEW r \in Residue
  PROVE  r % M = r
BY Sizes DEF Residue

\* A factor may be reduced first.
LEMMA ModTimes ==
  ASSUME NEW a \in Nat, NEW b \in Nat
  PROVE  ((a % M) * b) % M = (a * b) % M
<1> DEFINE p == a \div M
           t == a % M
           u == (t * b) \div M
           r == (t * b) % M
<1>1. p \in Nat /\ t \in Residue /\ a = M * p + t
  BY DivMod
<1>2. t * b \in Nat
  BY <1>1 DEF Residue
<1>3. u \in Nat /\ r \in Residue /\ t * b = M * u + r
  BY <1>2, DivMod
<1> HIDE DEF p, t, u, r
<1>4. a * b = M * (p * b + u) + r
  BY <1>1, <1>3, Sizes DEF Residue
<1>5. a * b \in Nat /\ p * b + u \in Int
  BY <1>1, <1>3
<1>6. (a * b) % M = r
  BY <1>3, <1>4, <1>5, ModUnique
<1> QED BY <1>6 DEF r, t

\* A set of numbers that is not empty has a least member: induction, in the form in
\* which the lemmas below use it.
LEMMA LeastMember ==
  ASSUME NEW S \in SUBSET Nat, S # {}
  PROVE  \E j \in S : \A k \in S : j =< k
<1>1. PICK j \in S : \A k \in S : ~ (<<k, j>> \in OpToRel(<, Nat))
  BY NatLessThanWellFounded, WFMin
<1>2. ASSUME NEW k \in S PROVE j =< k
  <2>1. <<k, j>> \in Nat \X Nat
    OBVIOUS
  <2> QED BY <1>1, <2>1 DEF OpToRel
<1> QED BY <1>2

-----------------------------------------------------------------------------
(* The powers of the generator.  Power is defined by recursion; that there *)
(* is a function that does what its definition says has to be shown, from  *)
(* finite beginnings of it.                                                *)

IsPower(f, n) ==
  /\ f \in [0 .. n -> Residue] /\ f[0] = 1
  /\ \A k \in 1 .. n : f[k] = (f[k - 1] * Generator) % M

LEMMA TimesGenerator ==
  ASSUME NEW x \in Residue
  PROVE  (x * Generator) % M \in Residue
BY DivMod DEF Residue, Generator

LEMMA OneIsResidue == 1 \in Residue
BY Sizes DEF Residue

LEMMA BeginningsExist ==
  ASSUME NEW n \in Nat
  PROVE  \E f : IsPower(f, n)
<1> DEFINE S == {k \in Nat : ~ \E f : IsPower(f, k)}
<1>1. SUFFICES S = {}
  OBVIOUS
<1>2. SUFFICES ASSUME S # {} PROVE FALSE
  OBVIOUS
<1>3. PICK j \in S : \A k \in S : j =< k
  BY <1>2, LeastMember
<1>4. j # 0
  <2>1. IsPower([k \in 0 .. 0 |-> 1], 0)
    BY OneIsResidue DEF IsPower
  <2> QED BY <2>1
<1>5. j - 1 \in Nat /\ j - 1 \notin S
  BY <1>3, <1>4
<1>6. PICK f : IsPower(f, j - 1)
  BY <1>5
<1> DEFINE g == [k \in 0 .. j |-> IF k = j THEN (f[j - 1] * Generator) % M ELSE f[k]]
<1>7. f[j - 1] \in Residue
  BY <1>5, <1>6 DEF IsPower
<1>8. g \in [0 .. j -> Residue]
  BY <1>5, <1>6, <1>7, TimesGenerator DEF IsPower
<1>9. g[0] = 1
  BY <1>4, <1>5, <1>6 DEF IsPower
<1>10. ASSUME NEW k \in 1 .. j PROVE g[k] = (g[k - 1] * Generator) % M
  BY <1>4, <1>5, <1>6 DEF IsPower
<1>11. IsPower(g, j)
  BY <1>8, <1>9, <1>10 DEF IsPower
<1> QED BY <1>3, <1>11

LEMMA BeginningsAgree ==
  ASSUME NEW m \in Nat, NEW n \in Nat, NEW f, NEW g, IsPower(f, m), IsPower(g, n),
         NEW k \in 0 .. m, k \in 0 .. n
  PROVE  f[k] = g[k]
<1> DEFINE S == {e \in Nat : e =< m /\ e =< n /\ f[e] # g[e]}
<1>1. SUFFICES S = {}
  OBVIOUS
<1>2. SUFFICES ASSUME S # {} PROVE FALSE
  OBVIOUS
<1>3. PICK j \in S : \A e \in S : j =< e
  BY <1>2, LeastMember
<1>4. j # 0
  BY DEF IsPower
<1>5. j - 1 \in Nat /\ j - 1 \notin S
  BY <1>3, <1>4
<1>6. f[j - 1] = g[j - 1]
  BY <1>5
<1>7. j \in 1 .. m /\ j \in 1 .. n
  BY <1>4
<1> QED BY <1>6, <1>7 DEF IsPower

Beginning(n) == CHOOSE f : IsPower(f, n)

LEMMA PowerIsDefined ==
  Power = [e \in Nat |-> IF e = 0 THEN 1 ELSE (Power[e - 1] * Generator) % M]
<1> DEFINE F == [e \in Nat |-> Beginning(e)[e]]
<1>1. ASSUME NEW n \in Nat PROVE IsPower(Beginning(n), n)
  BY BeginningsExist DEF Beginning
<1>2. F[0] = 1
  BY <1>1 DEF IsPower
<1>3. ASSUME NEW e \in Nat, e # 0 PROVE F[e] = (F[e - 1] * Generator) % M
  <2>1. e - 1 \in Nat /\ e \in 1 .. e /\ e - 1 \in 0 .. e /\ e - 1 \in 0 .. e - 1
    BY <1>3
  <2>2. Beginning(e)[e - 1] = Beginning(e - 1)[e - 1]
    BY <1>1, <2>1, BeginningsAgree
  <2>3. Beginning(e)[e] = (Beginning(e)[e - 1] * Generator) % M
    BY <1>1, <2>1 DEF IsPower
  <2> QED BY <2>1, <2>2, <2>3
<1>4. F = [e \in Nat |-> IF e = 0 THEN 1 ELSE (F[e - 1] * Generator) % M]
  BY <1>2, <1>3
<1> HIDE DEF F
<1> QED BY <1>4 DEF Power

LEMMA PowerOfZero == Power[0] = 1
BY PowerIsDefined

LEMMA PowerNext ==
  ASSUME NEW e \in Nat
  PROVE  Power[e + 1] = (Power[e] * Generator) % M
<1>1. e + 1 \in Nat /\ e + 1 # 0 /\ (e + 1) - 1 = e
  OBVIOUS
<1> QED BY <1>1, PowerIsDefined

LEMMA PowerInResidue ==
  ASSUME NEW e \in Nat
  PROVE  Power[e] \in Residue
<1> DEFINE S == {k \in Nat : Power[k] \notin Residue}
<1>1. SUFFICES S = {}
  OBVIOUS
<1>2. SUFFICES ASSUME S # {} PROVE FALSE
  OBVIOUS
<1>3. PICK j \in S : \A k \in S : j =< k
  BY <1>2, LeastMember
<1>4. j # 0
  BY PowerOfZero, OneIsResidue
<1>5. j - 1 \in Nat /\ j - 1 \notin S
  BY <1>3, <1>4
<1>6. Power[j - 1] \in Residue /\ j = (j - 1) + 1
  BY <1>5
<1>7. Power[j] = (Power[j - 1] * Generator) % M
  BY <1>5, <1>6, PowerNext
<1> QED BY <1>6, <1>7, TimesGenerator

LEMMA TimesCommute ==
  ASSUME NEW a \in Nat, NEW b \in Nat, NEW c \in Nat
  PROVE  a * b = b * a /\ (a * b) * c = a * (b * c) /\ (a * b) * c = (a * c) * b /\ a * b \in Nat
OBVIOUS

LEMMA PowerOfSum ==
  ASSUME NEW a \in Nat, NEW b \in Nat
  PROVE  Power[a + b] = (Power[a] * Power[b]) % M
<1> DEFINE S == {k \in Nat : Power[a + k] # (Power[a] * Power[k]) % M}
<1>1. SUFFICES S = {}
  OBVIOUS
<1>2. SUFFICES ASSUME S # {} PROVE FALSE
  OBVIOUS
<1>3. PICK j \in S : \A k \in S : j =< k
  BY <1>2, LeastMember
<1>4. \A k \in Nat : Power[k] \in Nat
  BY PowerInResidue DEF Residue
<1>5. j # 0
  <2>1. Power[a] * 1 = Power[a] /\ a + 0 = a
    BY <1>4
  <2>2. (Power[a] * Power[0]) % M = Power[a + 0]
    BY <2>1, PowerOfZero, PowerInResidue, ModOfResidue
  <2> QED BY <1>3, <2>2
<1>6. PICK n \in Nat : j = n + 1 /\ n \notin S
  <2>1. j - 1 \in Nat /\ j = (j - 1) + 1 /\ ~ (j =< j - 1)
    BY <1>3, <1>5
  <2> QED BY <2>1, <1>3
<1> DEFINE x == Power[a]
           y == Power[n]
<1>7. Power[a + n] = (x * y) % M
  BY <1>6
<1>8. x \in Nat /\ y \in Nat /\ Generator \in Nat /\ Power[a + n] \in Nat
  BY <1>4 DEF Generator
<1>9. Power[a + j] = (((x * y) % M) * Generator) % M
  <2>1. a + j = (a + n) + 1
    BY <1>6
  <2> QED BY <2>1, <1>7, PowerNext
<1>10. Power[j] = (y * Generator) % M
  BY <1>6, PowerNext
<1> HIDE DEF x, y
<1>11. Power[a + j] = ((x * y) * Generator) % M
  BY <1>8, <1>9, ModTimes, TimesCommute
<1>12. (x * Power[j]) % M = ((x * y) * Generator) % M
  <2>1. y * Generator \in Nat /\ (y * Generator) % M \in Nat
    BY <1>8, TimesCommute, DivMod DEF Residue
  <2>2. x * ((y * Generator) % M) = ((y * Generator) % M) * x
    BY <1>8, <2>1, TimesCommute
  <2>3. (((y * Generator) % M) * x) % M = ((y * Generator) * x) % M
    BY <1>8, <2>1, ModTimes
  <2>4. (y * Generator) * x = (x * y) * Generator
    BY <1>8, TimesCommute
  <2> QED BY <1>10, <2>2, <2>3, <2>4
<1> QED BY <1>3, <1>11, <1>12 DEF x

LEMMA PowerOfDouble ==
  ASSUME NEW a \in Nat
  PROVE  Power[2 * a] = (Power[a] * Power[a]) % M
<1>1. 2 * a = a + a
  OBVIOUS
<1> QED BY <1>1, PowerOfSum

\* The generator has the order of a row.
LEMMA PowerOfRow ==
  ASSUME RowSize # 1
  PROVE  Power[RowSize] = 1
<1>1. Power[1] = (1 * 3) % M
  <2>1. Power[0 + 1] = (Power[0] * Generator) % M
    BY PowerNext
  <2> QED BY <2>1, PowerOfZero DEF Generator
<1>2. Power[2] = (Power[1] * Power[1]) % M
  BY PowerOfDouble
<1>3. Power[4] = (Power[2] * Power[2]) % M
  <2>1. Power[2 * 2] = (Power[2] * Power[2]) % M
    BY PowerOfDouble
  <2> QED BY <2>1
<1>4. Power[8] = (Power[4] * Power[4]) % M
  <2>1. Power[2 * 4] = (Power[4] * Power[4]) % M
    BY PowerOfDouble
  <2> QED BY <2>1
<1>5. Power[16] = (Power[8] * Power[8]) % M
  <2>1. Power[2 * 8] = (Power[8] * Power[8]) % M
    BY PowerOfDouble
  <2> QED BY <2>1
<1>6. CASE RowSize = 2
  <2>1. M = 8
    BY <1>6, Sizes
  <2>2. Power[1] = 3
    BY <2>1, <1>1
  <2> QED BY <1>6, <2>1, <2>2, <1>2
<1>7. CASE RowSize = 4
  <2>1. M = 16
    BY <1>7, Sizes
  <2>2. Power[1] = 3
    BY <2>1, <1>1
  <2>3. Power[2] = 9
    BY <2>1, <2>2, <1>2
  <2> QED BY <1>7, <2>1, <2>3, <1>3
<1>8. CASE RowSize = 8
  <2>1. M = 32
    BY <1>8, Sizes
  <2>2. Power[1] = 3
    BY <2>1, <1>1
  <2>3. Power[2] = 9
    BY <2>1, <2>2, <1>2
  <2>4. Power[4] = 17
    BY <2>1, <2>3, <1>3
  <2> QED BY <1>8, <2>1, <2>4, <1>4
<1>9. CASE RowSize = 16
  <2>1. M = 64
    BY <1>9, Sizes
  <2>2. Power[1] = 3
    BY <2>1, <1>1
  <2>3. Power[2] = 9
    BY <2>1, <2>2, <1>2
  <2>4. Power[4] = 17
    BY <2>1, <2>3, <1>3
  <2>5. Power[8] = 33
    BY <2>1, <2>4, <1>4
  <2> QED BY <1>9, <2>1, <2>5, <1>5
<1> QED BY <1>6, <1>7, <1>8, <1>9, Sizes

\* Rows are counted modulo their size.
LEMMA PowerModRow ==
  ASSUME NEW n \in 0 .. 2 * RowSize - 1, RowSize # 1
  PROVE  Power[n] = Power[n % RowSize]
<1>1. RowSize \in Nat /\ RowSize > 0
  BY Sizes
<1>2. CASE n < RowSize
  BY <1>1, <1>2
<1>3. CASE n >= RowSize
  <2>1. n - RowSize \in Nat /\ n = (n - RowSize) + RowSize
    BY <1>1, <1>3
  <2>2. n % RowSize = n - RowSize
    BY <1>1, <1>3, Sizes
  <2>3. Power[n] = (Power[n - RowSize] * 1) % M
    BY <1>1, <2>1, PowerOfSum, PowerOfRow
  <2>4. Power[n - RowSize] \in Residue
    BY <2>1, PowerInResidue
  <2>5. Power[n - RowSize] * 1 = Power[n - RowSize]
    BY <2>4 DEF Residue
  <2> QED BY <2>2, <2>3, <2>4, <2>5, ModOfResidue
<1> QED BY <1>1, <1>2, <1>3

LEMMA PowerIsNotZero ==
  ASSUME NEW n \in 0 .. RowSize
  PROVE  Power[n] # 0
<1>1. CASE RowSize = 1
  <2>1. M = 4 /\ n \in {0, 1}
    BY <1>1, Sizes
  <2>2. Power[0 + 1] = (Power[0] * Generator) % M
    BY PowerNext
  <2>3. Power[1] = 3
    BY <2>1, <2>2, PowerOfZero DEF Generator
  <2> QED BY <2>1, <2>3, PowerOfZero
<1>2. CASE RowSize # 1
  <2>1. n \in Nat /\ RowSize - n \in Nat /\ RowSize = n + (RowSize - n)
    BY Sizes
  <2>2. 1 = (Power[n] * Power[RowSize - n]) % M
    BY <1>2, <2>1, PowerOfRow, PowerOfSum
  <2>3. Power[RowSize - n] \in Nat
    BY <2>1, PowerInResidue DEF Residue
  <2>4. ASSUME Power[n] = 0 PROVE FALSE
    <3>1. Power[n] * Power[RowSize - n] = 0
      BY <2>3, <2>4
    <3> QED BY <2>2, <3>1, Sizes
  <2> QED BY <2>4
<1> QED BY <1>1, <1>2

-----------------------------------------------------------------------------
(* Automorphisms.                                                          *)

Sign(columns) == IF columns = 1 THEN M - 1 ELSE 1

\* The number of steps forward.
Forward(step) == IF step < 0 THEN RowSize - Abs(step) ELSE step

LEMMA ForwardInRow ==
  ASSUME NEW step \in Int, step # 0, ~ TooLarge(step)
  PROVE  /\ Forward(step) \in 1 .. RowSize - 1 /\ RowSize # 1
         /\ EltFromStep(step) = Power[Forward(step)]
         /\ \A r \in 0 .. RowSize - 1 : (r + Forward(step)) % RowSize = (r + step) % RowSize
<1>1. Forward(step) \in 1 .. RowSize - 1 /\ RowSize # 1
  BY Sizes DEF Forward, TooLarge, Abs
<1>2. EltFromStep(step) = Power[Forward(step)]
  BY DEF EltFromStep, Forward
<1>3. ASSUME NEW r \in 0 .. RowSize - 1
      PROVE  (r + Forward(step)) % RowSize = (r + step) % RowSize
  BY Sizes DEF Forward, TooLarge, Abs
<1> QED BY <1>1, <1>2, <1>3

LEMMA EltInRange ==
  ASSUME NEW step \in Int, ~ TooLarge(step)
  PROVE  EltFromStep(step) \in 1 .. M - 1
<1>1. CASE step = 0
  BY <1>1, Sizes DEF EltFromStep
<1>2. CASE step # 0
  <2>1. Forward(step) \in 0 .. RowSize /\ Forward(step) \in Nat
    <3>1. Forward(step) \in 1 .. RowSize - 1
      BY <1>2, ForwardInRow
    <3> QED BY <3>1, Sizes
  <2>2. EltFromStep(step) = Power[Forward(step)]
    BY <1>2, ForwardInRow
  <2> QED BY <2>1, <2>2, PowerInResidue, PowerIsNotZero DEF Residue
<1> QED BY <1>1, <1>2

\* A step of the rows adds to the steps before it.
LEMMA RowsTurned ==
  ASSUME NEW r \in 0 .. RowSize - 1, NEW c \in {0, 1},
         NEW step \in Int, step # 0, ~ TooLarge(step)
  PROVE  (((Power[r] * Sign(c)) % M) * EltFromStep(step)) % M
           = (Power[(r + step) % RowSize] * Sign(c)) % M
<1> DEFINE x == Power[r]
           n == Forward(step)
           g == Power[n]
           t == Sign(c)
<1>1. r \in Nat /\ n \in Nat /\ r + n \in 0 .. 2 * RowSize - 1 /\ RowSize # 1
  <2>1. n \in 1 .. RowSize - 1 /\ RowSize # 1
    BY ForwardInRow
  <2>2. RowSize \in Nat
    BY Sizes
  <2> HIDE DEF n
  <2> QED BY <2>1, <2>2
<1>2. x \in Nat /\ g \in Nat /\ t \in Nat
  BY <1>1, PowerInResidue, Sizes DEF Residue, Sign
<1>3. (x * g) % M = Power[(r + step) % RowSize]
  <2>1. (x * g) % M = Power[r + n]
    BY <1>1, PowerOfSum
  <2>2. Power[r + n] = Power[(r + n) % RowSize]
    BY <1>1, PowerModRow
  <2>3. (r + n) % RowSize = (r + step) % RowSize
    BY ForwardInRow
  <2> QED BY <2>1, <2>2, <2>3
<1>4. EltFromStep(step) = g
  BY ForwardInRow
<1> HIDE DEF x, g, t
<1>5. (((x * t) % M) * g) % M = ((x * t) * g) % M
  BY <1>2, TimesCommute, ModTimes
<1>6. (((x * g) % M) * t) % M = ((x * g) * t) % M
  BY <1>2, TimesCommute, ModTimes
<1>7. (x * t) * g = (x * g) * t
  BY <1>2, TimesCommute
<1>8. (((x * t) % M) * g) % M = (((x * g) % M) * t) % M
  BY <1>5, <1>6, <1>7
<1> QED BY <1>3, <1>4, <1>8 DEF x, t

LEMMA MinusOne ==
  ASSUME NEW x \in 1 .. M - 1
  PROVE  (x * (M - 1)) % M = M - x
<1>1. x * (M - 1) = M * (x - 1) + (M - x)
  BY Sizes
<1>2. x * (M - 1) \in Nat /\ x - 1 \in Int /\ M - x \in Residue
  BY Sizes DEF Residue
<1> QED BY <1>1, <1>2, ModUnique

\* Two rotations of the columns are none.
LEMMA ColumnsTurned ==
  ASSUME NEW x \in 1 .. M - 1, NEW c \in {0, 1}
  PROVE  (((x * Sign(c)) % M) * (M - 1)) % M = (x * Sign(1 - c)) % M
<1>1. x \in Residue /\ x * 1 = x
  BY Sizes DEF Residue
<1>2. CASE c = 0
  BY <1>1, <1>2, ModOfResidue DEF Sign
<1>3. CASE c = 1
  <2>1. (x * (M - 1)) % M = M - x
    BY MinusOne
  <2>2. M - x \in 1 .. M - 1 /\ M - (M - x) = x
    BY Sizes
  <2>3. ((M - x) * (M - 1)) % M = x
    BY <2>2, MinusOne
  <2> QED BY <1>1, <1>3, <2>1, <2>3, ModOfResidue DEF Sign
<1> QED BY <1>2, <1>3

\* No sequence of rotations is the element 0.
LEMMA TurnedInRange ==
  ASSUME NEW r \in 0 .. RowSize - 1, NEW c \in {0, 1}
  PROVE  Power[r] \in 1 .. M - 1 /\ (Power[r] * Sign(c)) % M \in 1 .. M - 1
<1>1. r \in Nat /\ r \in 0 .. RowSize
  BY Sizes
<1>2. Power[r] \in 1 .. M - 1
  BY <1>1, PowerInResidue, PowerIsNotZero DEF Residue
<1>3. CASE c = 0
  <2>1. Power[r] * 1 = Power[r] /\ Power[r] \in Residue
    BY <1>2, Sizes DEF Residue
  <2> QED BY <1>2, <1>3, <2>1, ModOfResidue DEF Sign
<1>4. CASE c = 1
  <2>1. (Power[r] * (M - 1)) % M = M - Power[r]
    BY <1>2, MinusOne
  <2> QED BY <1>2, <1>4, <2>1, Sizes DEF Sign
<1> QED BY <1>2, <1>3, <1>4

-----------------------------------------------------------------------------
(* Parts.                                                                  *)

LEMMA MaxSAssumption == MaxS \in Nat /\ MaxS >= 1
BY InputsAssumption

LEMMA PartIsRecord ==
  ASSUME NEW h \in TrueHandles
  PROVE  Part(h) \in PartRecords /\ Noise(h) \in PartRecords
<1>1. Handle(0, 0, 0) \in TrueHandles
  BY Sizes, MaxSAssumption DEF Handle, TrueHandles
<1> QED BY <1>1 DEF Part, Noise, PartRecords

LEMMA HandlesOfKeys ==
  ASSUME NEW id \in Nat
  PROVE  Handle(1, 1, id) \in TrueHandles /\ One \in TrueHandles /\ Base \in TrueHandles
BY Sizes, MaxSAssumption DEF Handle, One, Base, TrueHandles

LEMMA PartsStay ==
  ASSUME NEW ps \in Seq(PartRecords), NEW p \in PartRecords
  PROVE  PartAdded(ps, p) \in Seq(PartRecords)
<1>1. CASE \E n \in DOMAIN ps : ps[n].h = p.h
  <2>1. PartAdded(ps, p) = [n \in DOMAIN ps |->
            IF ps[n].h = p.h /\ ps[n].true = ps[n].h THEN p ELSE ps[n]]
    BY <1>1 DEF PartAdded
  <2>2. DOMAIN ps = 1 .. Len(ps) /\ Len(ps) \in Nat /\ \A n \in DOMAIN ps : ps[n] \in PartRecords
    OBVIOUS
  <2>3. PartAdded(ps, p) \in [1 .. Len(ps) -> PartRecords]
    BY <2>1, <2>2
  <2> QED BY <2>2, <2>3
<1>2. CASE ~ \E n \in DOMAIN ps : ps[n].h = p.h
  BY <1>2 DEF PartAdded
<1> QED BY <1>1, <1>2

LEMMA SwitchedStay ==
  ASSUME NEW ps \in Seq(PartRecords), NEW p \in PartRecords
  PROVE  Switched(ps, p) \in Seq(PartRecords)
<1>1. One \in TrueHandles /\ Base \in TrueHandles
  BY HandlesOfKeys
<1>2. {Part(One), Part(Base), Noise(One), Noise(Base)} \subseteq PartRecords
  BY <1>1, PartIsRecord
<1> QED BY <1>2, PartsStay DEF Switched

LEMMA RotatedStay ==
  ASSUME NEW p \in PartRecords, NEW g \in 1 .. M - 1
  PROVE  RotatedPart(p, g) \in PartRecords
<1>1. p.true.x \in Nat /\ g \in Nat /\ p.true.x * g \in Nat
  BY DEF PartRecords, TrueHandles
<1>2. (p.true.x * g) % M \in 0 .. M - 1
  BY <1>1, DivMod DEF Residue
<1>3. g \in 0 .. M - 1
  BY Sizes
<1> QED BY <1>2, <1>3 DEF RotatedPart, PartRecords, TrueHandles

-----------------------------------------------------------------------------
(* Types, and rotations.                                                   *)

Turned == applied = (Power[asked.rows] * Sign(asked.columns)) % M

LEMMA InitRotations == Init => RotationsAddUp
<1> SUFFICES ASSUME Init PROVE RotationsAddUp
  OBVIOUS
<1>1. <<>> \in Seq(PartRecords)
  OBVIOUS
<1>2. TypeOK
  <2>1. 0 \in 0 .. RowSize - 1 /\ 1 \in 1 .. M - 1
    BY Sizes
  <2>2. asked \in [rows : 0 .. RowSize - 1, columns : {0, 1}]
    BY <2>1 DEF Init, NoRotation
  <2> QED BY <1>1, <2>1, <2>2 DEF Init, TypeOK
<1>3. Power[0] * 1 = 1 /\ 1 % M = 1
  BY PowerOfZero, OneIsResidue, ModOfResidue
<1>4. Turned
  <2>1. applied = 1 /\ asked.rows = 0 /\ asked.columns = 0
    BY DEF Init, NoRotation
  <2> QED BY <1>3, <2>1 DEF Turned, Sign
<1> QED BY <1>2, <1>4 DEF RotationsAddUp, Turned, Sign

\* A ciphertext that was just encrypted.
LEMMA NewIsUnrotated ==
  ASSUME NewHistory
  PROVE  /\ applied' \in 1 .. M - 1 /\ asked' \in [rows : 0 .. RowSize - 1, columns : {0, 1}]
         /\ thrown' = "none" /\ broken' \in BOOLEAN
         /\ Turned'
<1>1. Power[0] * 1 = 1 /\ 1 % M = 1
  BY PowerOfZero, OneIsResidue, ModOfResidue
<1>2. asked' = [rows |-> 0, columns |-> 0] /\ applied' = 1 /\ thrown' = "none" /\ broken' = FALSE
  BY DEF NewHistory, NoRotation
<1>3. 0 \in 0 .. RowSize - 1 /\ 1 \in 1 .. M - 1
  BY Sizes
<1>4. asked'.rows = 0 /\ asked'.columns = 0 /\ Sign(0) = 1
  BY <1>2 DEF Sign
<1>5. Turned'
  BY <1>1, <1>2, <1>4 DEF Turned
<1> QED BY <1>2, <1>3, <1>5

\* A rotation that is counted.
LEMMA RotationIsCounted ==
  ASSUME NEW step \in Int, ~ TooLarge(step),
         asked \in [rows : 0 .. RowSize - 1, columns : {0, 1}], Turned,
         applied' = (applied * EltFromStep(step)) % M,
         asked' = IF step = 0 THEN [asked EXCEPT !.columns = 1 - @]
                  ELSE [asked EXCEPT !.rows = (@ + step) % RowSize]
  PROVE  /\ asked' \in [rows : 0 .. RowSize - 1, columns : {0, 1}]
         /\ Turned' /\ applied' \in 1 .. M - 1
<1>1. asked.rows \in 0 .. RowSize - 1 /\ asked.columns \in {0, 1}
  OBVIOUS
<1>2. Power[asked.rows] \in 1 .. M - 1
  BY <1>1, TurnedInRange
<1>3. CASE step = 0
  <2>1. asked' = [asked EXCEPT !.columns = 1 - @]
    BY <1>3
  <2>2. asked'.rows = asked.rows /\ asked'.columns = 1 - asked.columns
    BY <2>1
  <2>3. asked' \in [rows : 0 .. RowSize - 1, columns : {0, 1}]
    BY <2>1
  <2>4. Turned'
    BY <1>1, <1>2, <1>3, <2>2, ColumnsTurned DEF EltFromStep, Turned
  <2>5. asked'.rows \in 0 .. RowSize - 1 /\ asked'.columns \in {0, 1}
    BY <2>3
  <2> QED BY <2>3, <2>4, <2>5, TurnedInRange DEF Turned
<1>4. CASE step # 0
  <2>1. asked' = [asked EXCEPT !.rows = (@ + step) % RowSize]
    BY <1>4
  <2>2. asked'.rows = (asked.rows + step) % RowSize /\ asked'.columns = asked.columns
    BY <2>1
  <2>3. (asked.rows + step) % RowSize \in 0 .. RowSize - 1
    BY <1>1, Sizes
  <2>4. asked' \in [rows : 0 .. RowSize - 1, columns : {0, 1}]
    BY <2>1, <2>3
  <2>5. Turned'
    BY <1>1, <1>4, <2>2, RowsTurned DEF Turned
  <2>6. asked'.rows \in 0 .. RowSize - 1 /\ asked'.columns \in {0, 1}
    BY <2>4
  <2> QED BY <2>4, <2>5, <2>6, TurnedInRange DEF Turned
<1> QED BY <1>3, <1>4

LEMMA NextPreservesRotations == RotationsAddUp /\ [Next]_vars => RotationsAddUp'
<1> SUFFICES ASSUME RotationsAddUp, [Next]_vars
             PROVE  RotationsAddUp'
  OBVIOUS
<1>1. TypeOK /\ Turned
  BY DEF RotationsAddUp, Turned, Sign
<1>2. SUFFICES TypeOK' /\ Turned'
  BY DEF RotationsAddUp, Turned, Sign
<1>3. StepSet \subseteq Int /\ KeyIds \subseteq Nat
  BY InputsAssumption
<1>4. 1 \in 1 .. M - 1 /\ <<>> \in Seq(PartRecords)
  BY Sizes
<1>0. ASSUME UNCHANGED <<applied, asked>> PROVE Turned'
  BY <1>1, <1>0 DEF Turned
<1>5. ASSUME NEW id \in KeyIds, Encrypt(id) PROVE TypeOK' /\ Turned'
  <2>1. Handle(1, 1, id) \in TrueHandles /\ One \in TrueHandles
    BY <1>3, HandlesOfKeys
  <2>2. parts' \in Seq(PartRecords)
    BY <1>5, <2>1, PartIsRecord DEF Encrypt
  <2>3. UNCHANGED <<keys, elt, i, tmp>> /\ NewHistory
    BY <1>5 DEF Encrypt, loop
  <2> QED BY <1>1, <2>2, <2>3, NewIsUnrotated DEF TypeOK
<1>6. ASSUME DummyEncrypt PROVE TypeOK' /\ Turned'
  <2>1. parts' \in Seq(PartRecords)
    BY <1>6, HandlesOfKeys, PartIsRecord DEF DummyEncrypt
  <2>2. UNCHANGED <<keys, elt, i, tmp>> /\ NewHistory
    BY <1>6 DEF DummyEncrypt, loop
  <2> QED BY <1>1, <2>1, <2>2, NewIsUnrotated DEF TypeOK
<1>7. ASSUME Square PROVE TypeOK' /\ Turned'
  <2>1. parts \in Seq(PartRecords) /\ 2 \in DOMAIN parts /\ 2 \in 0 .. MaxS
    <3>1. parts \in Seq(PartRecords)
      BY <1>1 DEF TypeOK
    <3>2. Len(parts) = 2 /\ 2 =< MaxS
      BY <1>7 DEF Square
    <3> QED BY <3>1, <3>2, MaxSAssumption
  <2>2. parts[2] \in PartRecords
    BY <2>1
  <2>3. [parts[2] EXCEPT !.h.s = 2, !.true.s = 2] \in PartRecords
    BY <2>1, <2>2 DEF PartRecords, TrueHandles
  <2>4. parts' \in Seq(PartRecords)
    BY <1>7, <2>1, <2>3 DEF Square
  <2>5. UNCHANGED <<keys, elt, i, tmp, broken, applied, asked>> /\ thrown' = "none"
    BY <1>7 DEF Square, loop, history
  <2> QED BY <1>0, <1>1, <2>4, <2>5 DEF TypeOK
<1>8. ASSUME NEW step \in StepSet, GenerateStep(step) PROVE TypeOK' /\ Turned'
  <2>1. keys' \subseteq 1 .. M - 1 /\ thrown' \in {"none", "too large"}
    <3>1. CASE TooLarge(step)
      BY <1>1, <1>8, <3>1 DEF GenerateStep, TypeOK
    <3>2. CASE ~ TooLarge(step)
      <4>1. EltFromStep(step) \in 1 .. M - 1
        BY <1>3, <3>2, EltInRange
      <4> QED BY <1>1, <1>8, <3>2, <4>1 DEF GenerateStep, TypeOK
    <3> QED BY <3>1, <3>2
  <2>2. UNCHANGED <<parts, elt, i, tmp, broken, applied, asked>>
    BY <1>8 DEF GenerateStep, loop, history
  <2> QED BY <1>0, <1>1, <2>1, <2>2 DEF TypeOK
<1>9. ASSUME NEW step \in StepSet, Rotate(step) PROVE TypeOK' /\ Turned'
  <2>1. CASE TooLarge(step)
    <3>1. UNCHANGED <<keys, parts, elt, i, tmp, broken, applied, asked>> /\ thrown' = "too large"
      BY <1>9, <2>1 DEF Rotate, loop, history
    <3> QED BY <1>0, <1>1, <3>1 DEF TypeOK
  <2>2. CASE ~ TooLarge(step)
    <3> DEFINE g == EltFromStep(step)
    <3>1. g \in 1 .. M - 1
      BY <1>3, <2>2, EltInRange
    <3>2. /\ parts' = [n \in DOMAIN parts |-> RotatedPart(parts[n], g)]
          /\ applied' = (applied * g) % M
          /\ asked' = IF step = 0 THEN [asked EXCEPT !.columns = 1 - @]
                      ELSE [asked EXCEPT !.rows = (@ + step) % RowSize]
          /\ keys' = keys
      BY <1>9, <2>2 DEF Rotate
    <3>3. /\ elt' = 1 \/ elt' = g
          /\ tmp' = <<>>
          /\ thrown' \in {"none", "no matrix"}
      BY <1>9, <2>2 DEF Rotate, Fail
    <3>4. i' \in Nat
      <4>1. i' = 0 \/ i' = 1
        BY <1>9, <2>2 DEF Rotate, Fail
      <4> QED BY <4>1
    <3>5. broken' = TRUE \/ broken' = broken
      BY <1>9, <2>2 DEF Rotate, Fail
    <3>6. asked \in [rows : 0 .. RowSize - 1, columns : {0, 1}]
      BY <1>1 DEF TypeOK
    <3>7. /\ asked' \in [rows : 0 .. RowSize - 1, columns : {0, 1}]
          /\ Turned' /\ applied' \in 1 .. M - 1
      BY <1>1, <1>3, <2>2, <3>2, <3>6, RotationIsCounted
    <3> HIDE DEF g
    <3>8. parts' \in Seq(PartRecords)
      <4>1. parts \in Seq(PartRecords)
        BY <1>1 DEF TypeOK
      <4>2. DOMAIN parts = 1 .. Len(parts) /\ Len(parts) \in Nat
        BY <4>1
      <4>3. \A n \in DOMAIN parts : RotatedPart(parts[n], g) \in PartRecords
        BY <3>1, <4>1, RotatedStay
      <4>4. parts' \in [1 .. Len(parts) -> PartRecords]
        BY <3>2, <4>2, <4>3
      <4> QED BY <4>2, <4>4
    <3>9. /\ keys' \subseteq 1 .. M - 1 /\ tmp' \in Seq(PartRecords)
          /\ elt' \in 1 .. M - 1 /\ i' \in Nat
      <4>1. keys' \subseteq 1 .. M - 1
        BY <1>1, <3>2 DEF TypeOK
      <4>3. elt' \in 1 .. M - 1
        BY <1>4, <3>1, <3>3
      <4>4. tmp' \in Seq(PartRecords)
        <5>1. tmp' = <<>>
          BY <3>3
        <5> QED BY <5>1
      <4> QED BY <3>4, <4>1, <4>3, <4>4
    <3>10. /\ thrown' \in {"none", "too large", "no matrix", "handles do not match"}
          /\ broken' \in BOOLEAN
      <4>1. broken \in BOOLEAN
        BY <1>1 DEF TypeOK
      <4> QED BY <3>3, <3>5, <4>1
    <3> QED BY <3>7, <3>8, <3>9, <3>10 DEF TypeOK
  <2> QED BY <2>1, <2>2
<1>10. ASSUME SwitchPart PROVE TypeOK' /\ Turned'
  <2>1. parts \in Seq(PartRecords) /\ tmp \in Seq(PartRecords) /\ i \in DOMAIN parts /\ i \in Nat
    <3>1. parts \in Seq(PartRecords) /\ tmp \in Seq(PartRecords) /\ i \in Nat
      BY <1>1 DEF TypeOK
    <3>2. i > 0 /\ i =< Len(parts)
      BY <1>10 DEF SwitchPart
    <3> QED BY <3>1, <3>2
  <2>2. parts[i] \in PartRecords
    BY <2>1
  <2>3. {PartAdded(tmp, parts[i]), Switched(tmp, parts[i]), <<>>} \subseteq Seq(PartRecords)
    BY <1>4, <2>1, <2>2, PartsStay, SwitchedStay
  <2>4. /\ tmp' \in {PartAdded(tmp, parts[i]), Switched(tmp, parts[i]), <<>>}
        /\ elt' = 1 \/ elt' = elt
        /\ thrown' \in {thrown, "handles do not match"}
    BY <1>10 DEF SwitchPart, Fail
  <2>5. i' = 0 \/ i' = i + 1
    BY <1>10 DEF SwitchPart, Fail
  <2>6. broken' = TRUE \/ broken' = broken
    BY <1>10 DEF SwitchPart, Fail
  <2>7. UNCHANGED <<keys, parts, applied, asked>>
    BY <1>10 DEF SwitchPart
  <2>8. /\ tmp' \in Seq(PartRecords) /\ elt' \in 1 .. M - 1 /\ i' \in Nat
        /\ thrown' \in {"none", "too large", "no matrix", "handles do not match"}
        /\ broken' \in BOOLEAN
    <3>1. /\ elt \in 1 .. M - 1
          /\ thrown \in {"none", "too large", "no matrix", "handles do not match"}
      BY <1>1 DEF TypeOK
    <3>2. broken \in BOOLEAN
      BY <1>1 DEF TypeOK
    <3>3. i + 1 \in Nat
      BY <2>1
    <3>4. broken' \in BOOLEAN
      BY <2>6, <3>2
    <3>5. tmp' \in Seq(PartRecords)
      BY <2>3, <2>4
    <3>6. i' \in Nat
      BY <2>5, <3>3
    <3>7. elt' \in 1 .. M - 1
      BY <1>4, <2>4, <3>1
    <3>8. thrown' \in {"none", "too large", "no matrix", "handles do not match"}
      BY <2>4, <3>1
    <3> QED BY <3>4, <3>5, <3>7, <3>8, <3>6
  <2>9. TypeOK'
    BY <1>1, <2>7, <2>8 DEF TypeOK
  <2> QED BY <1>0, <2>7, <2>9
<1>11. ASSUME RotateEnd PROVE TypeOK' /\ Turned'
  <2>1. /\ parts' = tmp /\ tmp' = <<>> /\ i' = 0 /\ elt' = 1 /\ broken' = FALSE
        /\ UNCHANGED <<keys, thrown, applied, asked>>
    BY <1>11 DEF RotateEnd
  <2> QED BY <1>0, <1>1, <1>4, <2>1 DEF TypeOK
<1>12. ASSUME UNCHANGED vars PROVE TypeOK' /\ Turned'
  BY <1>0, <1>1, <1>12 DEF vars, loop, history, TypeOK
<1> QED BY <1>5, <1>6, <1>7, <1>8, <1>9, <1>10, <1>11, <1>12 DEF Next

\* After any sequence of calls, with steps in both directions and rotations that fail on
\* the way, the automorphism is that of the sum of the steps (GaloisKey2k::rotate).
THEOREM RotationsAlwaysAddUp == Spec => []RotationsAddUp
<1>1. Init => RotationsAddUp
  BY InitRotations
<1>2. RotationsAddUp /\ [Next]_vars => RotationsAddUp'
  BY NextPreservesRotations
<1> QED BY <1>1, <1>2, PTL DEF Spec

-----------------------------------------------------------------------------
(* Handles.                                                                *)

\* A part that is relative to what its handle says, and not moved.
AtRest(p) == p.true = p.h /\ p.h.x = 1

\* rotate() sets the power of X of a handle and does not multiply it, which is right
\* because it only starts from parts at rest, and leaves only such parts: a part that
\* it moved is moved back by key_switch(), and one of 1 never moves.
HandlesInv ==
  /\ \A n \in DOMAIN parts : parts[n].true = parts[n].h
  /\ \A n \in DOMAIN tmp : AtRest(tmp[n])
  /\ i # 0 => ~ broken
  /\ ~ broken => \A n \in DOMAIN parts : parts[n].h.x = 1 \/ (i # 0 /\ parts[n].h.s # 0)

LEMMA NewPartsAtRest ==
  ASSUME NEW id
  PROVE  AtRest(Part(Handle(1, 1, id))) /\ AtRest(Part(One)) /\ AtRest(Part(Base))
BY DEF AtRest, Part, Handle, One, Base

LEMMA AppendedAtRest ==
  ASSUME NEW ps \in Seq(PartRecords), \A n \in DOMAIN ps : AtRest(ps[n]),
         NEW p, AtRest(p)
  PROVE  \A n \in DOMAIN Append(ps, p) : AtRest(Append(ps, p)[n])
<1>1. Len(ps) \in Nat /\ DOMAIN ps = 1 .. Len(ps) /\ DOMAIN Append(ps, p) = 1 .. Len(ps) + 1
  OBVIOUS
<1>2. \A n \in 1 .. Len(ps) + 1 : Append(ps, p)[n] = IF n = Len(ps) + 1 THEN p ELSE ps[n]
  OBVIOUS
<1>3. ASSUME NEW n \in 1 .. Len(ps) + 1 PROVE AtRest(Append(ps, p)[n])
  <2>1. CASE n = Len(ps) + 1
    BY <1>2, <2>1
  <2>2. CASE n # Len(ps) + 1
    <3>1. n \in DOMAIN ps
      BY <1>1, <2>2
    <3> QED BY <1>2, <2>2, <3>1
  <2> QED BY <2>1, <2>2
<1> QED BY <1>1, <1>3

LEMMA AddedAtRest ==
  ASSUME NEW ps \in Seq(PartRecords), \A n \in DOMAIN ps : AtRest(ps[n]),
         NEW p \in PartRecords, AtRest(p)
  PROVE  \A n \in DOMAIN PartAdded(ps, p) : AtRest(PartAdded(ps, p)[n])
<1>1. CASE \E n \in DOMAIN ps : ps[n].h = p.h
  <2>1. PartAdded(ps, p) = [n \in DOMAIN ps |->
            IF ps[n].h = p.h /\ ps[n].true = ps[n].h THEN p ELSE ps[n]]
    BY <1>1 DEF PartAdded
  <2> QED BY <2>1
<1>2. CASE ~ \E n \in DOMAIN ps : ps[n].h = p.h
  <2>1. PartAdded(ps, p) = Append(ps, p)
    BY <1>2 DEF PartAdded
  <2> QED BY <2>1, AppendedAtRest
<1> QED BY <1>1, <1>2

LEMMA SwitchedAtRest ==
  ASSUME NEW ps \in Seq(PartRecords), \A n \in DOMAIN ps : AtRest(ps[n]),
         NEW p \in PartRecords, p.true = p.h
  PROVE  \A n \in DOMAIN Switched(ps, p) : AtRest(Switched(ps, p)[n])
<1> DEFINE qs == PartAdded(ps, Part(Base))
<1>1. Part(One) \in PartRecords /\ Part(Base) \in PartRecords
  BY HandlesOfKeys, PartIsRecord
<1>2. AtRest(Part(One)) /\ AtRest(Part(Base))
  BY NewPartsAtRest
<1>3. qs \in Seq(PartRecords)
  BY <1>1, PartsStay
<1>4. \A n \in DOMAIN qs : AtRest(qs[n])
  BY <1>1, <1>2, AddedAtRest
<1>5. Switched(ps, p) = PartAdded(qs, Part(One))
  BY DEF Switched
<1> HIDE DEF qs
<1> QED BY <1>1, <1>2, <1>3, <1>4, <1>5, AddedAtRest

\* The automorphism of a part at rest is written into its handle.
LEMMA RotatedIsTrue ==
  ASSUME NEW p \in PartRecords, AtRest(p), NEW g \in 1 .. M - 1
  PROVE  /\ RotatedPart(p, g).true = RotatedPart(p, g).h
         /\ RotatedPart(p, g).h.x = 1 \/ RotatedPart(p, g).h.s # 0
<1>1. CASE IsOne(p.h)
  BY <1>1 DEF RotatedPart, AtRest
<1>2. CASE ~ IsOne(p.h)
  <2>1. (1 * g) % M = g
    <3>1. g \in Residue /\ 1 * g = g
      BY Sizes DEF Residue
    <3> QED BY <3>1, ModOfResidue
  <2>2. p.true = p.h /\ p.true.x = 1
    BY DEF AtRest
  <2>3. RotatedPart(p, g) = [p EXCEPT !.true.x = (@ * g) % M, !.h.x = g]
    BY <1>2 DEF RotatedPart
  <2>4. /\ RotatedPart(p, g).true = [p.true EXCEPT !.x = g]
        /\ RotatedPart(p, g).h = [p.h EXCEPT !.x = g]
    BY <2>1, <2>2, <2>3 DEF PartRecords, TrueHandles
  <2>5. RotatedPart(p, g).h.s # 0
    BY <1>2, <2>4 DEF IsOne, PartRecords, TrueHandles
  <2> QED BY <2>2, <2>4, <2>5
<1> QED BY <1>1, <1>2

LEMMA InitHandles == Init => HandlesInv
BY DEF Init, HandlesInv

LEMMA NextPreservesHandles ==
  ASSUME Careful = TRUE, TypeOK, HandlesInv, [Next]_vars
  PROVE  HandlesInv'
<1>1. parts \in Seq(PartRecords) /\ tmp \in Seq(PartRecords) /\ i \in Nat
  BY DEF TypeOK
<1>2. /\ \A n \in DOMAIN parts : parts[n].true = parts[n].h
      /\ \A n \in DOMAIN tmp : AtRest(tmp[n])
      /\ i # 0 => ~ broken
      /\ ~ broken => \A n \in DOMAIN parts : parts[n].h.x = 1 \/ (i # 0 /\ parts[n].h.s # 0)
  BY DEF HandlesInv
<1>3. ASSUME CanUse
      PROVE  /\ i = 0 /\ ~ broken
             /\ \A n \in DOMAIN parts : AtRest(parts[n])
  BY <1>2, <1>3 DEF CanUse, AtRest
<1>4. ASSUME NEW id \in KeyIds, Encrypt(id) PROVE HandlesInv'
  <2>1. parts' = <<Part(One), Part(Handle(1, 1, id))>> /\ UNCHANGED <<i, tmp>> /\ i = 0
    BY <1>4 DEF Encrypt, loop
  <2>2. \A n \in DOMAIN parts' : AtRest(parts'[n])
    BY <2>1, NewPartsAtRest
  <2> QED BY <1>2, <2>1, <2>2 DEF HandlesInv, AtRest
<1>5. ASSUME DummyEncrypt PROVE HandlesInv'
  <2>1. parts' = <<Part(One)>> /\ UNCHANGED <<i, tmp>> /\ i = 0
    BY <1>5 DEF DummyEncrypt, loop
  <2>2. \A n \in DOMAIN parts' : AtRest(parts'[n])
    BY <2>1, NewPartsAtRest
  <2> QED BY <1>2, <2>1, <2>2 DEF HandlesInv, AtRest
<1>6. ASSUME Square PROVE HandlesInv'
  <2> DEFINE p == [parts[2] EXCEPT !.h.s = 2, !.true.s = 2]
  <2>1. /\ parts' = Append(parts, p) /\ Len(parts) = 2 /\ CanUse
        /\ UNCHANGED <<i, tmp, broken>>
    BY <1>6 DEF Square, loop, history
  <2>2. parts[2] \in PartRecords /\ AtRest(parts[2])
    BY <1>1, <1>3, <2>1
  <2>3. AtRest(p)
    BY <2>2 DEF AtRest, PartRecords, TrueHandles
  <2> HIDE DEF p
  <2>4. \A n \in DOMAIN parts' : AtRest(parts'[n])
    <3>1. \A n \in DOMAIN parts : AtRest(parts[n])
      BY <1>3, <2>1
    <3> QED BY <1>1, <2>1, <2>3, <3>1, AppendedAtRest
  <2> QED BY <1>2, <2>1, <2>4 DEF HandlesInv, AtRest
<1>7. ASSUME NEW step \in StepSet, GenerateStep(step) PROVE HandlesInv'
  <2>1. UNCHANGED <<parts, tmp, i, broken>>
    BY <1>7 DEF GenerateStep, loop, history
  <2> QED BY <1>2, <2>1 DEF HandlesInv
<1>8. ASSUME NEW step \in StepSet, Rotate(step) PROVE HandlesInv'
  <2>1. CanUse
    BY <1>8 DEF Rotate
  <2>2. CASE TooLarge(step)
    <3>1. UNCHANGED <<parts, tmp, i, broken>>
      BY <1>8, <2>2 DEF Rotate, loop, history
    <3> QED BY <1>2, <3>1 DEF HandlesInv
  <2>3. CASE ~ TooLarge(step)
    <3> DEFINE g == EltFromStep(step)
    <3>1. g \in 1 .. M - 1
      BY <2>3, EltInRange, InputsAssumption
    <3>2. parts' = [n \in DOMAIN parts |-> RotatedPart(parts[n], g)]
      BY <1>8, <2>3 DEF Rotate
    <3>3. tmp' = <<>>
      BY <1>8, <2>3 DEF Rotate, Fail
    <3>4. (broken' = TRUE /\ i' = 0) \/ (i' = 1 /\ broken' = broken)
      BY <1>8, <2>3 DEF Rotate, Fail
    <3> HIDE DEF g
    <3>5. ASSUME NEW n \in DOMAIN parts
          PROVE  /\ parts'[n].true = parts'[n].h
                 /\ parts'[n].h.x = 1 \/ parts'[n].h.s # 0
      <4>1. parts[n] \in PartRecords /\ AtRest(parts[n])
        BY <1>1, <1>3, <2>1
      <4> QED BY <3>1, <3>2, <4>1, RotatedIsTrue
    <3>6. DOMAIN parts' = DOMAIN parts
      BY <3>2
    <3>7. ~ broken
      BY <1>3, <2>1
    <3> QED BY <3>3, <3>4, <3>5, <3>6, <3>7 DEF HandlesInv
  <2> QED BY <2>2, <2>3
<1>9. ASSUME SwitchPart PROVE HandlesInv'
  <2>1. i \in DOMAIN parts /\ i # 0
    <3>1. i > 0 /\ i =< Len(parts)
      BY <1>9 DEF SwitchPart
    <3> QED BY <1>1, <3>1
  <2>2. parts[i] \in PartRecords /\ parts[i].true = parts[i].h
    BY <1>1, <1>2, <2>1
  <2>3. ~ broken /\ (parts[i].h.x = 1 \/ parts[i].h.s # 0)
    BY <1>2, <2>1
  <2>4. UNCHANGED parts
    BY <1>9 DEF SwitchPart
  <2>5. CASE (IsOne(parts[i].h) \/ parts[i].h = Base) /\ tmp' = PartAdded(tmp, parts[i])
               /\ i' = i + 1 /\ UNCHANGED broken
    <3>1. AtRest(parts[i])
      BY <2>2, <2>3, <2>5 DEF AtRest, IsOne, Base, Handle
    <3>2. \A n \in DOMAIN tmp' : AtRest(tmp'[n])
      BY <1>1, <1>2, <2>2, <2>5, <3>1, AddedAtRest
    <3> QED BY <1>1, <1>2, <2>1, <2>3, <2>4, <2>5, <3>2 DEF HandlesInv
  <2>6. CASE tmp' = Switched(tmp, parts[i]) /\ i' = i + 1 /\ UNCHANGED broken
    <3>1. \A n \in DOMAIN tmp' : AtRest(tmp'[n])
      BY <1>1, <1>2, <2>2, <2>6, SwitchedAtRest
    <3> QED BY <1>1, <1>2, <2>1, <2>3, <2>4, <2>6, <3>1 DEF HandlesInv
  <2>7. CASE Fail("handles do not match")
    <3>1. tmp' = <<>> /\ i' = 0 /\ broken' = TRUE
      BY <2>7 DEF Fail
    <3> QED BY <1>2, <2>4, <3>1 DEF HandlesInv
  <2> QED BY <1>9, <2>5, <2>6, <2>7 DEF SwitchPart
<1>10. ASSUME RotateEnd PROVE HandlesInv'
  <2>1. parts' = tmp /\ tmp' = <<>> /\ i' = 0 /\ broken' = FALSE
    BY <1>10 DEF RotateEnd
  <2> QED BY <1>2, <2>1 DEF HandlesInv, AtRest
<1>11. ASSUME UNCHANGED vars PROVE HandlesInv'
  BY <1>2, <1>11 DEF vars, loop, history, HandlesInv
<1> QED BY <1>4, <1>5, <1>6, <1>7, <1>8, <1>9, <1>10, <1>11 DEF Next

\* As long as a ciphertext is not used after an exception on it, every handle is what
\* its part is relative to (Ctxt.h of SKHandle), at every step of every rotation.
THEOREM HandlesAlwaysTrue ==
  ASSUME Careful = TRUE
  PROVE  Spec => []HandlesTrue
<1>1. Init => HandlesInv
  BY InitHandles
<1>2. RotationsAddUp /\ HandlesInv /\ [Next]_vars => HandlesInv'
  BY NextPreservesHandles DEF RotationsAddUp
<1>3. HandlesInv => HandlesTrue
  BY DEF HandlesInv, HandlesTrue, AtRest
<1> QED BY <1>1, <1>2, <1>3, RotationsAlwaysAddUp, PTL DEF Spec
=============================================================================
