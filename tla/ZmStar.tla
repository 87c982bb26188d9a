-------------------------------- MODULE ZmStar --------------------------------
(***************************************************************************)
(* The number theory under the plaintext algebra (NumbTh.cpp) and the      *)
(* structure of Zm* that PAlgebra's constructor computes.  An array over   *)
(* 0..m-1 is a function; a polynomial is the sequence of its coefficients  *)
(* from the free term up, as in PolyEval.                                  *)
(***************************************************************************)
EXTENDS Integers, Sequences, FiniteSets, TLC

LOCAL INSTANCE SequencesExt
LOCAL INSTANCE FiniteSetsExt

-----------------------------------------------------------------------------
(* NTL. *)

Divides(d, n) == n % d = 0
RelativelyPrime(a, b) == \A d \in 2 .. b : ~ (Divides(d, a) /\ Divides(d, b))
ProbPrime(n) == n > 1 /\ \A d \in 2 .. n - 1 : ~ Divides(d, n)
PowerMod(a, e, n) == FoldLeft(LAMBDA acc, i : (acc * a) % n, 1 % n, [i \in 1 .. e |-> i])

\* The primes in order, from n on.
RECURSIVE NextPrime(_)
NextPrime(n) == IF ProbPrime(n) THEN n ELSE NextPrime(n + 1)

-----------------------------------------------------------------------------
(* Divisors and orders. *)

\* How many steps from j to 1, or the class of 1, multiplying by i.
RECURSIVE StepsToOne(_, _, _, _)
StepsToOne(classes, j, i, m) ==
  IF classes[j] = 1 THEN 0 ELSE 1 + StepsToOne(classes, (j * i) % m, i, m)

\* The order of p modulo m, or 0.
MultOrd(p, m) ==
  IF RelativelyPrime(p, m) THEN 1 + StepsToOne([i \in 0 .. m - 1 |-> i], p % m, p % m, m) ELSE 0

RECURSIVE Multiplicity(_, _)
Multiplicity(p, n) == IF Divides(p, n) THEN 1 + Multiplicity(p, n \div p) ELSE 0

\* Trial division: the rest once it is prime itself, or the next prime that divides
\* it, with its multiplicity; s is where the sequence of primes stands.
RECURSIVE FactorsFrom(_, _)
FactorsFrom(n, s) ==
  IF n < 2 THEN <<>>
  ELSE IF ProbPrime(n) THEN <<[a |-> n, b |-> 1]>>
  ELSE LET p == NextPrime(s)
           e == Multiplicity(p, n)
       IN IF Divides(p, n) THEN <<[a |-> p, b |-> e]>> \o FactorsFrom(n \div p^e, p + 1)
          ELSE FactorsFrom(n, p + 1)

Factorize(n) == FactorsFrom(n, 2)

PpFactorize(n) == [i \in DOMAIN Factorize(n) |-> Factorize(n)[i].a ^ Factorize(n)[i].b]

PhiN(n) ==
  FoldLeft(LAMBDA acc, f : acc * (f.a - 1) * f.a^(f.b - 1), 1, Factorize(n))

Mobius(n) ==
  IF \E i \in DOMAIN Factorize(n) : Factorize(n)[i].b > 1 THEN 0
  ELSE IF Len(Factorize(n)) % 2 = 0 THEN 1 ELSE -1

\* An element of order e modulo the prime q, the product of one of order pp for each
\* prime power pp of e: a small prime that is no p'th power, raised to (q-1)/pp.
RECURSIVE NonResidue(_, _, _)
NonResidue(n, p, q) ==
  IF PowerMod(NextPrime(n), (q - 1) \div p, q) # 1 THEN NextPrime(n)
  ELSE NonResidue(NextPrime(n) + 1, p, q)

FindPrimRootT(e, q) ==
  FoldLeft(LAMBDA root, f :
             (root * PowerMod(NonResidue(2, f.a, q), (q - 1) \div f.a^f.b, q)) % q,
           1, Factorize(e))

-----------------------------------------------------------------------------
(* The cyclotomic polynomials, as sparse power series.                     *)

\* A power series, cut off behind X^D, times 1 - X^d.
Times1MinusXd(A, d) == [i \in DOMAIN A |-> IF i > d THEN A[i] - A[i - d] ELSE A[i]]

\* Divided by it, in place and from the low coefficients up.
Over1MinusXd(A, d) ==
  FoldLeft(LAMBDA acc, i : IF i > d THEN [acc EXCEPT ![i] = @ + acc[i - d]] ELSE acc,
           A, [i \in DOMAIN A |-> i])

\* Phi_n for odd square-free n is the product of (1 - X^d)^mobius(n/d) over the divisors
\* d; only half of its coefficients are computed, the others mirror them.
Cyclotomic(n) ==
  LET twos     == Multiplicity(2, n)
      odd      == n \div 2^twos
      facs     == Factorize(odd)
      radn     == FoldLeft(LAMBDA acc, f : acc * f.a, 1, facs)
      phiRadn  == FoldLeft(LAMBDA acc, f : acc * (f.a - 1), 1, facs)
      D        == phiRadn \div 2
      d(S)     == ProductSet({facs[i].a : i \in S})
      Series   == FoldSet(LAMBDA S, A :
                            IF (Len(facs) + Cardinality(S)) % 2 = 0
                              THEN Times1MinusXd(A, d(S)) ELSE Over1MinusXd(A, d(S)),
                          [i \in 1 .. D + 1 |-> IF i = 1 THEN 1 ELSE 0],
                          SUBSET DOMAIN facs)
      q        == (odd \div radn) * (IF twos > 0 THEN 2^(twos - 1) ELSE 1)
      Half(i)  == IF twos > 0 /\ i % 2 = 1 THEN -Series[i + 1] ELSE Series[i + 1]
  IN IF odd = 1 THEN IF twos = 0 THEN <<-1, 1>>
                     ELSE [i \in 1 .. 2^(twos - 1) + 1 |-> IF i \in {1, 2^(twos - 1) + 1} THEN 1 ELSE 0]
     ELSE [j \in 1 .. phiRadn * q + 1 |->
             LET i == (j - 1) \div q
             IN IF (j - 1) % q # 0 THEN 0 ELSE IF i <= D THEN Half(i) ELSE Half(phiRadn - i)]

-----------------------------------------------------------------------------
(* Generators of Zm* /(p). *)

\* classes[i] is the pivot of the class of i, or 0 outside Zm*.  Merging goes round
\* the multiples of a pivot i by the powers of g.
RECURSIVE MergedInto(_, _, _, _, _)
MergedInto(classes, i, j, g, m) ==
  IF classes[j] = i THEN classes
  ELSE MergedInto([classes EXCEPT ![classes[j]] = i], i, (j * g) % m, g, m)

\* Mutant: the pivot of what is no pivot is not looked up again.
ConjClassesStale(classes, g, m) ==
  FoldLeft(LAMBDA c, i : IF c[i] = i /\ i # 0 THEN MergedInto(c, i, (i * g) % m, g, m) ELSE c,
           classes, [i \in 1 .. m |-> i - 1])

ConjClasses(classes, g, m) ==
  FoldLeft(LAMBDA c, i :
             IF c[i] = 0 THEN c
             ELSE IF c[i] < i THEN [c EXCEPT ![i] = c[c[i]]]
             ELSE MergedInto(c, i, (i * g) % m, g, m),
           classes, [i \in 1 .. m |-> i - 1])

\* The order of each element of the quotient group, that of its pivot.
CompOrder(classes, m) ==
  [i \in 0 .. m - 1 |->
     IF classes[i] = 0 THEN 0 ELSE 1 + StepsToOne(classes, classes[i], classes[i], m)]

\* The first of the largest order, of the best quality: its order is the same in Zm*,
\* or in Zm* /(p); 0 when there is none.  One of low quality is only warned of, and is
\* the index -1 into the orders.
BestGenerator(orders, pSubgp, m) ==
  LET largest    == Max({orders[i] : i \in 0 .. m - 1})
      Candidates == {i \in 0 .. m - 1 : orders[i] = largest}
      Of(S)      == {i \in Candidates : PowerMod(i, largest, m) \in S}
  IN IF largest <= 1 THEN 0
     ELSE IF Of({1}) # {} THEN Min(Of({1}))
     ELSE IF Of(pSubgp) # {} THEN Min(Of(pSubgp))
     ELSE -1

\* A candidate that is no longer of order above 1 gives way to the best generator.
RECURSIVE MoreGenerators(_, _, _, _, _)
MoreGenerators(found, classes, pSubgp, candidates, m) ==
  LET orders == CompOrder(classes, m)
      usable == candidates # <<>> /\ orders[Head(candidates)] > 1
      idx    == IF usable THEN Head(candidates) ELSE BestGenerator(orders, pSubgp, m)
  IN IF idx = -1 THEN [found EXCEPT !.undefined = TRUE]
     ELSE IF idx = 0 THEN found
     ELSE MoreGenerators([found EXCEPT !.gens = Append(@, idx), !.ords = Append(@, orders[idx])],
                         ConjClasses(classes, idx, m), pSubgp,
                         IF candidates = <<>> THEN <<>> ELSE Tail(candidates), m)

FindGenerators(m, p, candidates) ==
  LET own     == [i \in 0 .. m - 1 |-> IF RelativelyPrime(i, m) THEN i ELSE 0]
      classes == ConjClasses(own, p % m, m)
      pSubgp  == {i \in 0 .. m - 1 : classes[i] = 1}
      none    == [gens |-> <<>>, ords |-> <<>>, undefined |-> FALSE, ordP |-> Cardinality(pSubgp)]
  IN MoreGenerators(none, classes, pSubgp, candidates, m)

-----------------------------------------------------------------------------
(* PAlgebra. *)

\* p^0, p^1, ...: the exponent of x, or -1.
FrobeniusLog(x, p, ordP, m) ==
  Max({-1} \cup {i \in 0 .. ordP - 1 : PowerMod(p, i, m) = x})

\* Generators that come with orders are taken as they are: the checks that they
\* generate Zm* /(p) are commented out.
PAlgebra(m, p, gens, ords) ==
  LET given == gens # <<>> /\ Len(gens) = Len(ords)
      found == IF given
                 THEN [gens |-> gens, ords |-> ords, undefined |-> FALSE, ordP |-> MultOrd(p, m)]
                 ELSE FindGenerators(m, p, gens)
      Raised(j) == PowerMod(found.gens[j], found.ords[j], m)
  IN IF found.undefined THEN found
     ELSE found @@
          [native      |-> [j \in DOMAIN found.gens |-> Raised(j) = 1],
           frobPerturb |-> [j \in DOMAIN found.gens |-> FrobeniusLog(Raised(j), p, found.ordP, m)],
           phiM        |-> FoldLeft(LAMBDA acc, d : acc * d, found.ordP, found.ords),
           radm        |-> FoldLeft(LAMBDA acc, f : acc * f.a, 1, Factorize(m)),
           zmsRep      |-> SelectSeq([i \in 1 .. m |-> i - 1], LAMBDA i : RelativelyPrime(i, m)),
           PhimX       |-> Cyclotomic(m)]
=============================================================================
