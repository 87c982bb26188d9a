------------------------------ MODULE PolyEval ------------------------------
(***************************************************************************)
(* Polynomials of ciphertexts: polyEval.cpp and the products of Ctxt.cpp.  *)
(* A cleartext polynomial is the sequence of its integer coefficients from *)
(* the free term up, without leading zeros; an encrypted one the sequence  *)
(* of its ciphertexts.  DynamicCtxtPowers computes each power once; what a *)
(* power is does not depend on when, so [x, size] stands for the object.   *)
(***************************************************************************)
EXTENDS Integers, Sequences, CtxtValues

LOCAL INSTANCE FiniteSetsExt

-----------------------------------------------------------------------------
(* NTL's integer polynomials. *)

Deg(f) == Len(f) - 1
Coeff(f, i) == IF i + 1 \in DOMAIN f THEN f[i + 1] ELSE 0
Normalized(f) ==
  SubSeq(f, 1, Max({0} \cup {i \in DOMAIN f : f[i] # 0}))
Trunc(f, n) == Normalized(SubSeq(f, 1, IF n < Len(f) THEN n ELSE Len(f)))
RightShift(f, n) == SubSeq(f, n + 1, Len(f))
Monomial(n) == [i \in 1 .. n + 1 |-> IF i = n + 1 THEN 1 ELSE 0]
PolySum(f, g) ==
  IF f = <<>> THEN Normalized(g) ELSE Normalized([i \in 1 .. Larger(Len(f), Len(g)) |-> Coeff(f, i - 1) + Coeff(g, i - 1)])
Scaled(f, a) == Normalized([i \in DOMAIN f |-> a * f[i]])
SetCoeff(f, i, a) == PolySum(f, Scaled(Monomial(i), a - Coeff(f, i)))
Reduced(f, p) == IF f = <<>> THEN f ELSE Normalized([i \in DOMAIN f |-> f[i] % p])

\* [quotient, remainder] by a monic polynomial.
RECURSIVE DivRem(_, _)
DivRem(f, g) ==
  IF Deg(f) < Deg(g) THEN [c |-> <<>>, s |-> f]
  ELSE LET lead == Scaled(Monomial(Deg(f) - Deg(g)), f[Len(f)])
           less == PolySum(f, Normalized([i \in 1 .. Len(f) |->
                     IF i > Deg(f) - Deg(g) THEN -f[Len(f)] * g[i - (Deg(f) - Deg(g))] ELSE 0]))
           rest == DivRem(less, g)
       IN [c |-> PolySum(lead, rest.c), s |-> rest.s]

HasInverse(a, p) == \E b \in 1 .. p - 1 : (a * b) % p = 1
InvMod(a, p) == CHOOSE b \in 1 .. p - 1 : (a * b) % p = 1

-----------------------------------------------------------------------------
(* The powers of a ciphertext. *)

Powers(x, n) == [x |-> x, size |-> n]
PowersFail(x, n) == x.empty \/ n <= 0

\* X^e = X^(e-k) * X^k for the largest power of two k smaller than e; at() throws
\* beyond the size.
RECURSIVE GetPower(_, _)
GetPower(s, e) ==
  IF e < 1 \/ e > s.size THEN Failed(s.x)
  ELSE IF e = 1 THEN s.x
  ELSE LET k == 2^(NextPowerOfTwo(e) - 1)
       IN MultiplyBy(GetPower(s, e - k), GetPower(s, k))

\* Ctxt::power.
Power(c, e) ==
  LET ell == NumBits(e)
      Squared[n \in 0 .. 30] == IF n = 0 THEN c ELSE Square(Squared[n - 1])
  IN IF e < 1 THEN Failed(c)
     ELSE IF e = 2^(ell - 1) THEN Squared[ell - 1]
     ELSE IF PowersFail(c, e) THEN Failed(c)
     ELSE GetPower(Powers(c, e), e)

-----------------------------------------------------------------------------
(* A cleartext polynomial at an encrypted point. *)

\* ret is cleared first: it gives its plaintext space to a result without terms.
SimplePolyEval(ret, f, baby) ==
  LET Term(i) == MultByConstant(GetPower(baby, i), Coeff(f, i))
      Terms[i \in 0 .. Len(f)] ==
        IF i = 0 THEN Cleared(ret) ELSE IF i = Len(f) THEN Terms[i - 1]
        ELSE Plus(Terms[i - 1], Term(i))
  IN IF f = <<>> THEN Cleared(ret)
     ELSE IF Deg(f) > baby.size THEN Failed(ret)
     ELSE AddConstant(Terms[Deg(f)], Coeff(f, 0))

\* poly = (c + X^(kt)) * q + s' with q and s' monic of the same degree, where cs is c
\* and the rest of the division, s.
RECURSIVE PatersonStockmeyer(_, _, _, _, _, _, _), Divided(_, _, _, _, _, _, _, _)
PatersonStockmeyer(ret, f, k, t, delta, baby, giant) ==
  LET q == RightShift(f, k * t)
      r == Trunc(f, k * t)
  IN IF Deg(f) <= baby.size THEN SimplePolyEval(ret, f, baby)
     ELSE Divided(ret, q, DivRem(SetCoeff(r, Deg(q), Coeff(r, Deg(q)) - 1), q),
                  k, t, delta, baby, giant)

Divided(ret, q, cs, k, t, delta, baby, giant) ==
  LET p    == baby.x.space
      s    == Reduced(SetCoeff(cs.s, Deg(q), 1), p)
      top  == PatersonStockmeyer(ret, q, k, t \div 2, delta, baby, giant)
      tmp  == Plus(SimplePolyEval(Empty(p), Reduced(cs.c, p), baby), GetPower(giant, t))
      low  == PatersonStockmeyer(ret, s, k, t \div 2, delta, baby, giant)
  IN IF Deg(cs.s) < Deg(q) /\ (cs.c = <<>> \/ Deg(cs.c) < k - delta)
       THEN Plus(MultiplyBy(top, tmp), low) ELSE Failed(ret)

\* c * X^(k(n-1)) for a power of two n, by the powers of the giant step.
Raised(c, n, giant) ==
  LET R[e \in 0 .. NextPowerOfTwo(n)] ==
        IF e = 0 THEN c ELSE MultiplyBy(R[e - 1], GetPower(giant, 2^(e - 1)))
  IN R[NextPowerOfTwo(n)]

AbovePowerOfTwo(ret, f, k, n, baby, giant) ==
  LET u == (n - 1) * k
      r == SetCoeff(Trunc(f, u), u, 1)
      q == PolySum(RightShift(f, u), <<-1>>)
  IN Plus(PatersonStockmeyer(ret, r, k, n \div 2, 0, baby, giant),
          Raised(SimplePolyEval(Empty(baby.x.space), q, baby), n, giant))

\* Mutant: the number of giant steps is not rounded up to a power of two.
DegPowerOfTwoUnrounded(ret, f, k, baby, giant) ==
  IF Deg(f) <= baby.size THEN SimplePolyEval(ret, f, baby)
  ELSE AbovePowerOfTwo(ret, f, k, Deg(f) \div k, baby, giant)

\* "k*(2^e +1) > deg(poly) > k*(2^e -1)": what is above X^(k(n-1)) apart.
DegPowerOfTwo(ret, f, k, baby, giant) ==
  IF Deg(f) <= baby.size THEN SimplePolyEval(ret, f, baby)
  ELSE AbovePowerOfTwo(ret, f, k, 2^NextPowerOfTwo(Deg(f) \div k), baby, giant)

\* "poly = q*X^u + r ... recurse on poly = (q-1)*X^u + (X^u+r)".
RECURSIVE RecursivePolyEval(_, _, _, _, _), SplitAt(_, _, _, _, _, _, _)
RecursivePolyEval(ret, f, k, baby, giant) ==
  LET n    == (Deg(f) + k - 1) \div k
      half == 2^NextPowerOfTwo(n) \div 2
  IN IF Deg(f) <= baby.size THEN SimplePolyEval(ret, f, baby)
     ELSE IF n = 2^NextPowerOfTwo(n) THEN DegPowerOfTwo(ret, f, k, baby, giant)
     ELSE IF n = 2 * half - 1 /\ Deg(f) % k = 0
       THEN PatersonStockmeyer(ret, f, k, half, 0, baby, giant)
     ELSE SplitAt(ret, f, Deg(f) - k * (half - 1), k, half, baby, giant)

SplitAt(ret, f, u, k, half, baby, giant) ==
  LET delta == Deg(f) % k
      q     == PolySum(RightShift(f, u), <<-1>>)
      shift == IF delta = 0 THEN GetPower(giant, u \div k)
               ELSE MultiplyBy(GetPower(giant, u \div k), GetPower(baby, delta))
  IN Plus(MultiplyBy(PatersonStockmeyer(ret, q, k, half \div 2, 0, baby, giant), shift),
          RecursivePolyEval(ret, SetCoeff(Trunc(f, u), u, 1), k, baby, giant))

\* k ~ sqrt(deg/2), rounded to a power of two.
BabySteps(d) ==
  LET kk == Max({s \in 0 .. d : 2 * s * s <= d})
      k  == 2^NextPowerOfTwo(kk)
  IN IF (k = 16 /\ d > 167) \/ (k > 16 /\ 100 * k > 144 * kk) THEN k \div 2 ELSE k

\* What made the polynomial monic, scale times and less extra, is undone.
Rescaled(c, scale, extra, giant, n) ==
  LET scaled == IF scale = 1 THEN c ELSE MultByConstant(c, scale)
  IN IF extra = 0 THEN scaled ELSE Minus(scaled, MultByConstant(GetPower(giant, n), extra))

EvaluateByGiants(ret, f, scale, extra, k, n, baby, giant) ==
  IF PowersFail(giant.x, giant.size) THEN Failed(ret)
  ELSE Rescaled(RecursivePolyEval(ret, f, k, baby, giant), scale, extra, giant, n)

\* k baby steps and n = ceil(deg/k) giant ones: the polynomial is made monic of degree
\* n*k, by an inverse or by a term that is subtracted again.
EvaluateMonic(ret, f, x, k, n, top) ==
  LET p     == x.space
      adds  == n * k # Deg(f) \/ ~ HasInverse(top, p)
      extra == IF adds THEN (1 - Coeff(f, n * k)) % p ELSE 0
      monic == IF adds THEN SetCoeff(f, n * k, 1)
               ELSE IF top = 1 THEN f ELSE Reduced(Scaled(f, InvMod(top, p)), p)
  IN EvaluateByGiants(ret, monic, IF adds THEN 1 ELSE top, extra, k, n, Powers(x, k),
       Powers(GetPower(Powers(x, k), k), IF extra = 0 THEN (n + 1) \div 2 ELSE n))

\* InvModStatus() takes a leading coefficient reduced modulo the plaintext space.
EvaluateBySteps(ret, f, x, k, n) ==
  IF n = 2^NextPowerOfTwo(n)
    THEN IF PowersFail(x, n \div 2) THEN Failed(ret)
         ELSE DegPowerOfTwo(ret, f, k, Powers(x, k), Powers(GetPower(Powers(x, k), k), n \div 2))
  ELSE IF f[Len(f)] \notin 0 .. x.space - 1 THEN Failed(ret)
  ELSE EvaluateMonic(ret, f, x, k, n, f[Len(f)])

EvalCleartext(ret, f, x, wanted) ==
  LET k == IF wanted <= 0 THEN BabySteps(Deg(f)) ELSE wanted
  IN IF Deg(f) < 1 THEN AddConstant(Cleared(ret), Coeff(f, 0))
     ELSE IF x.empty THEN Failed(ret)
     ELSE IF Deg(f) <= 2 THEN SimplePolyEval(ret, f, Powers(x, Deg(f)))
     ELSE EvaluateBySteps(ret, f, x, k, (Deg(f) + k - 1) \div k)

-----------------------------------------------------------------------------
(* An encrypted polynomial: powers[i] is x^(2^(i-1)).                      *)

RECURSIVE EvalCoefficients(_, _, _)
EvalCoefficients(ret, f, powers) ==
  LET logD == NextPowerOfTwo(Len(f)) - 1
      d    == 2^logD
      tmp  == EvalCoefficients(Empty(ret.space), SubSeq(f, d + 1, Len(f)), powers)
  IN IF f = <<>> THEN Cleared(ret)
     ELSE IF Len(f) = 1 THEN f[1]
     ELSE Plus(EvalCoefficients(ret, SubSeq(f, 1, d), powers),
               MultiplyBy(tmp, powers[logD + 1]))

\* p0(X) + (p1(X) + p2(X)*X^d)*X^d, with d <= deg < 3d.
EvalEncrypted(ret, f, x) ==
  LET deg    == Len(f) - 1
      logD   == NextPowerOfTwo((Len(f) + 2) \div 3)
      d      == 2^logD
      Squared[i \in 0 .. logD] == IF i = 0 THEN x ELSE Square(Squared[i - 1])
      powers == [i \in 1 .. logD + 1 |-> Squared[i - 1]]
      p1  == EvalCoefficients(ret, SubSeq(f, d + 1, IF 2 * d < Len(f) THEN 2 * d ELSE Len(f)), powers)
      p2  == EvalCoefficients(Empty(ret.space), SubSeq(f, 2 * d + 1, Len(f)), powers)
      p12 == IF Len(f) > 2 * d THEN Plus(p1, MultiplyBy(p2, powers[logD + 1])) ELSE p1
  IN IF f = <<>> THEN Cleared(ret)
     ELSE IF Len(f) = 1 THEN f[1]
     ELSE IF deg \notin d .. 3 * d - 1 THEN Failed(ret)
     ELSE Plus(MultiplyBy(p12, powers[logD + 1]),
               EvalCoefficients(p12, SubSeq(f, 1, d), powers))

-----------------------------------------------------------------------------
(* Products of vectors of ciphertexts. *)

FirstHalf(n) == 2^(NumBits(n - 1) - 1)

\* "For i=n-1...0, set v[i]=prod_{j<=i} v[j]".
RECURSIVE IncrementalProduct(_)
IncrementalProduct(v) ==
  LET n1 == FirstHalf(Len(v))
      lo == IncrementalProduct(SubSeq(v, 1, n1))
      hi == IncrementalProduct(SubSeq(v, n1 + 1, Len(v)))
  IN IF Len(v) <= 1 THEN v ELSE lo \o [i \in DOMAIN hi |-> MultiplyBy(hi[i], lo[n1])]

RECURSIVE TotalProduct(_)
TotalProduct(v) ==
  LET n1 == FirstHalf(Len(v))
  IN CASE Len(v) = 1 -> v[1]
       [] Len(v) = 2 -> MultiplyBy(v[1], v[2])
       [] Len(v) = 3 -> MultiplyBy2(v, 1, 2, 3)[1]
       [] OTHER -> MultiplyBy(TotalProduct(SubSeq(v, 1, n1)),
                              TotalProduct(SubSeq(v, n1 + 1, Len(v))))

\* One re-linearization at the end; the vectors may have different lengths.
InnerProduct(ret, v, w) ==
  LET n == IF Len(v) < Len(w) THEN Len(v) ELSE Len(w)
      Sum[i \in 0 .. n] ==
        IF i = 0 THEN Cleared(ret)
        ELSE IF i = 1 THEN MultLowLvl(v[1], w[1])
        ELSE Plus(Sum[i - 1], MultLowLvl(v[i], w[i]))
  IN Sum[n]
=============================================================================
