--------------------------- MODULE PolynomialRing ---------------------------
(***************************************************************************)
(* The ring Z[X]/Phi_m(X) that helib computes in: integer polynomials of   *)
(* degree below phi(m), as functions from the exponents to the             *)
(* coefficients, and reduction modulo the cyclotomic polynomial.  Used by  *)
(* what DoubleCRT promises (module RingElements) and where the code itself *)
(* divides by Phi_m (module DoubleCRTRows).                                *)
(***************************************************************************)
EXTENDS Integers, FiniteSets, Functions

CONSTANTS
  M,        \* the ring is that of the M'th roots of unity
  PhimX,    \* the coefficients of the M'th cyclotomic polynomial
  Prime     \* the prime chain: the primes by their indices

Coprime(a, b) == \A d \in 2 .. a : a % d = 0 => b % d # 0

\* PAlgebra: Zm* in ascending order, zmsRep and zmsIdx.
ZMStar == {k \in 1 .. M - 1 : Coprime(k, M)}
PhiM   == Cardinality(ZMStar)
Cols   == 0 .. PhiM - 1
ZmsIdx == [k \in ZMStar |-> Cardinality({a \in ZMStar : a < k})]
ZmsRep == [j \in Cols |-> CHOOSE k \in ZMStar : ZmsIdx[k] = j]

ASSUME CyclotomicAssumption ==
  /\ M \in Nat /\ M > 2
  /\ PhimX \in [0 .. PhiM -> Int] /\ PhimX[PhiM] = 1

Chain == DOMAIN Prime

\* Context::productOfPrimes.
ProductOf(S) == FoldFunctionOnSet(LAMBDA a, b : a * b, 1, Prime, S)

Zero == [h \in Cols |-> 0]

Mod(f, q) == [h \in DOMAIN f |-> f[h] % q]

\* The representative of x modulo q with the least absolute value, of odd q.
Balanced(x, q) == IF x % q >= (q + 1) \div 2 THEN (x % q) - q ELSE x % q

\* X^k modulo Phi_m.
XPower ==
  LET x[k \in 0 .. M - 1] ==
        IF k < PhiM THEN [h \in Cols |-> IF h = k THEN 1 ELSE 0]
        ELSE [h \in Cols |-> (IF h = 0 THEN 0 ELSE x[k - 1][h - 1]) - x[k - 1][PhiM - 1] * PhimX[h]]
  IN x

\* The remainder of f, of any degree, modulo Phi_m and q.
Remainder(f, q) ==
  [h \in Cols |-> SumFunction([k \in DOMAIN f |-> (f[k] * XPower[k % M][h]) % q]) % q]

Plus(f, g, q)  == [h \in Cols |-> (f[h] + g[h]) % q]
Minus(f, g, q) == [h \in Cols |-> (f[h] - g[h]) % q]

Times(f, g, q) ==
  Remainder([h \in 0 .. 2 * (PhiM - 1) |->
               SumFunction([a \in {b \in Cols : h - b \in Cols} |-> (f[a] * g[h - a]) % q])],
            q)

\* f(X^k).
AtPower(f, k, q) ==
  Remainder([h \in 0 .. M - 1 |-> SumFunction([a \in {b \in Cols : (b * k) % M = h} |-> f[a]])],
            q)

Scaled(f, n, q) == [h \in Cols |-> (f[h] * (n % q)) % q]
=============================================================================
