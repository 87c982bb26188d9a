---------------------------- MODULE ExtractDigits ----------------------------
(***************************************************************************)
(* extractDigits.cpp: the digits of an encrypted integer modulo p^r, each  *)
(* lifted to p^(r-j) by raising it "in spirit" to the power p, and the     *)
(* variant of Chen and Han.  interpolateMod of NumbTh.cpp belongs to it.   *)
(***************************************************************************)
EXTENDS PolyEval

LOCAL INSTANCE SequencesExt
LOCAL INSTANCE FiniteSetsExt

(* Reduced to -q/2 .. q/2: the digits of an odd base are balanced. *)
Balanced(a, q) == IF a % q > q \div 2 THEN (a % q) - q ELSE a % q

PolyProduct(f, g) ==
  IF f = <<>> \/ g = <<>> THEN <<>>
  ELSE Normalized([n \in 1 .. Len(f) + Len(g) - 1 |->
         MapThenSumSet(LAMBDA i : IF n + 1 - i \in DOMAIN g THEN f[i] * g[n + 1 - i] ELSE 0, DOMAIN f)])

PolyEvalMod(f, x, p) == FoldRight(LAMBDA c, acc : (acc * x + c) % p, f, 0)

-----------------------------------------------------------------------------
(* Interpolation of y at the points x modulo p^e, one digit after another. *)

\* NTL::interpolate, modulo the prime p: Lagrange's formula.
Interpolate(x, y, p) ==
  LET Others(j) == FoldLeftDomain(LAMBDA acc, i :
                     IF i = j THEN acc ELSE Reduced(PolyProduct(acc, <<-x[i], 1>>), p), <<1>>, x)
      Basis(j) == LET f == Others(j) IN Scaled(f, y[j] * InvMod(PolyEvalMod(f, x[j], p), p))
  IN FoldLeftDomain(LAMBDA acc, j : Reduced(PolySum(acc, Basis(j)), p), <<>>, x)

RECURSIVE RecursiveInterpolateMod(_, _, _, _)
RecursiveInterpolateMod(x, y, p, p2e) ==
  IF p2e <= 1 THEN <<>>
  ELSE LET digit == Interpolate(x, y, p)
           rest  == [j \in DOMAIN y |-> ((y[j] - PolyEvalMod(digit, x[j], p2e)) % p2e) \div p]
       IN PolySum(Scaled(RecursiveInterpolateMod(x, rest, p, p2e \div p), p), digit)

InterpolateMod(x, y, p, e) ==
  RecursiveInterpolateMod(x, [j \in DOMAIN y |-> y[j] % p^e], p, p^e)

PowerMod(a, n, q) ==
  LET P[i \in 0 .. n] == IF i = 0 THEN 1 % q ELSE (P[i - 1] * a) % q IN P[n]

\* Mutant: the digits are 0 .. p-1.
DigitPolynomialUnbalanced(p, e) ==
  LET x == [j \in 1 .. p |-> j - 1]
      y == [j \in 1 .. p |-> Balanced(x[j] - PowerMod(x[j], p, p^e), p^e)]
  IN IF p < 2 \/ e <= 1 THEN <<>> ELSE SetCoeff(InterpolateMod(x, y, p, e), p, 1)

\* x^p + poly'(x), where poly'(z) = z - z^p modulo p^e for the p balanced digits z.
BuildDigitPolynomial(p, e) ==
  LET x == [j \in 1 .. p |-> j - 1 - p \div 2]
      y == [j \in 1 .. p |-> Balanced(x[j] - PowerMod(x[j] % p^e, p, p^e), p^e)]
  IN IF p < 2 \/ e <= 1 THEN <<>> ELSE SetCoeff(InterpolateMod(x, y, p, e), p, 1)

-----------------------------------------------------------------------------

\* digits[j] = digits[j]^p, in spirit.
Lift(d, p, x2p) ==
  CASE p = 2 -> Square(d)
    [] p = 3 -> Cube(d)
    [] OTHER -> EvalCleartext(d, x2p, d, 0)

\* Take what the digits before it stand for from c, and divide, once for each.
RECURSIVE Stripped(_, _, _)
Stripped(c, digits, p) ==
  IF digits = <<>> THEN c
  ELSE Stripped(DivideByP(Minus(c, digits[1]), p), Tail(digits), p)

NextDigit(c, lifted, p) == Append(lifted, Stripped(c, lifted, p))

DigitsUpTo(c, n, p, x2p) ==
  FoldLeft(LAMBDA digits, i : NextDigit(c, FoldLeft(LAMBDA acc, d : Append(acc, Lift(d, p, x2p)), <<>>, digits), p),
           <<>>, [i \in 1 .. n |-> i])

\* r <= 0 or too large stands for all the digits of the plaintext space, rr.
Extract(c, r, p, rr) ==
  LET n == IF r <= 0 \/ r > rr THEN rr ELSE r
  IN DigitsUpTo(c, n, p, IF p > 3 THEN BuildDigitPolynomial(p, n) ELSE <<>>)

-----------------------------------------------------------------------------
(* Chen and Han: a polynomial that gives the lowest digit at once.         *)

\* 1/f modulo X^n, for a constant term 1.
InvTrunc(f, n, q) ==
  LET C[i \in 0 .. n - 1] ==
        IF i = 0 THEN 1
        ELSE (-FoldLeftDomain(LAMBDA acc, j : (acc + Coeff(f, j) * C[i - j]) % q, 0,
                              [j \in 1 .. i |-> j])) % q
  IN Normalized([i \in 1 .. n |-> C[i - 1]])

Factorial(m, q) == FoldLeft(LAMBDA acc, i : (acc * i) % q, 1, [i \in 1 .. m |-> i])

\* (X+1)^p modulo q.
ShiftedPower(p, q) ==
  FoldLeft(LAMBDA acc, i : Reduced(PolyProduct(acc, <<1, 1>>), q), <<1>>, [i \in 1 .. p |-> i])

\* The multiples of p that are the coefficients of p * (X+1)^p / ((X+1)^p - X^p).
Series(p, len, q) ==
  LET f == ShiftedPower(p, q)
  IN Reduced(Scaled(Trunc(PolyProduct(f, InvTrunc(SetCoeff(f, p, Coeff(f, p) - 1), len, q)), len), p), q)

\* a(m)/m! modulo p^e, or the exception "cannot divide".
AVal(m, p, e, series) ==
  LET q  == p^(2 * e)
      mf == Factorial(m, q)
      d  == IF mf = 0 THEN q ELSE CommonDivisor(mf, q)
      c  == Coeff(series, m)
  IN IF d > p^e \/ c % d # 0 THEN -1
     ELSE (((c \div d) % p^e) * InvMod((mf \div d) % p^e, p^e)) % p^e

\* Falling(m) = X(X-1)...(X-m+1).
Falling(m, q) ==
  FoldLeft(LAMBDA acc, i : Reduced(PolyProduct(acc, <<-(i - 1), 1>>), q), <<1>>, [i \in 1 .. m |-> i])

\* poly(X + s).
Translated(f, s, q) ==
  FoldRight(LAMBDA c, acc : Reduced(PolySum(PolyProduct(acc, <<s, 1>>), Normalized(<<c>>)), q),
            f, <<>>)

CannotDivide(p, e, series) ==
  \E m \in p .. (e - 1) * (p - 1) + 1 : AVal(m, p, e, series) = -1

MagicFrom(p, e, series) ==
  LET len  == (e - 1) * (p - 1) + 2
      poly == FoldLeft(LAMBDA acc, i : Reduced(PolySum(acc,
                         Scaled(Falling(i, p^e), AVal(i, p, e, series))), p^e),
                       <<>>, [i \in 1 .. len - p |-> i + p - 1])
      at   == IF p % 2 = 1 THEN Translated(poly, (p - 1) \div 2, p^e) ELSE poly
  IN Reduced(PolySum(<<0, 1>>, Scaled(at, -1)), p^e)

SeriesFor(p, e) == Series(p, (e - 1) * (p - 1) + 2, p^(2 * e))
MagicFails(p, e) == CannotDivide(p, e, SeriesFor(p, e))
ComputeMagicPoly(p, e) == MagicFrom(p, e, SeriesFor(p, e))

\* One round.  State: digits0, the digits lifted step by step, and digits, the digits by
\* the magic polynomial, which are preferred when they have more capacity; a digits0[j]
\* that is passed over is not lifted.
Better(old, j) == old.digits[j].depth <= old.digits0[j].depth

LiftedUnlessBetter(old, p, x2p) ==
  FoldLeftDomain(LAMBDA acc, j : Append(acc, IF Better(old, j) THEN old.digits0[j]
                                              ELSE Lift(old.digits0[j], p, x2p)),
                 <<>>, old.digits0)

Taken(old, lifted) == [j \in DOMAIN lifted |-> IF Better(old, j) THEN old.digits[j] ELSE lifted[j]]

WithLowest(old, lifted, rest, G) ==
  [digits0 |-> Append(lifted, rest),
   digits  |-> Append(old.digits, EvalCleartext(Empty(rest.space), G, rest, 0))]

NextRound(c, old, lifted, p, G) == WithLowest(old, lifted, Stripped(c, Taken(old, lifted), p), G)

ExtendExtract(c, r, e, p) ==
  FoldLeft(LAMBDA old, i :
             NextRound(c, old, LiftedUnlessBetter(old, p, IF p > 3 THEN BuildDigitPolynomial(p, r) ELSE <<>>),
                       p, ComputeMagicPoly(p, e + r - (i - 1))),
           [digits0 |-> <<>>, digits |-> <<>>], [i \in 1 .. r |-> i]).digits
=============================================================================
