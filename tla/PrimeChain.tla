----------------------------- MODULE PrimeChain -----------------------------
(***************************************************************************)
(* The chain of primes of a context (buildModChain of Context.cpp) and the *)
(* search for a set of them of a given size (primeChain.cpp).  A prime is  *)
(* [len, n], the n-th of a generator for the length len: a generator never *)
(* gives a prime twice, nor one of another length (see PrimeGenerator).    *)
(* Logarithms are integers, in 1/1000 of a bit.                            *)
(***************************************************************************)
EXTENDS Integers, FiniteSets

LOCAL INSTANCE FiniteSetsExt

Bit == 1000

\* A prime of length len is at least (1 - 1/2^B) * 2^len.
BitLoss == 193

DivCeil(a, b) == (a + b - 1) \div b

Prime(len, n) == [len |-> len, n |-> n]
FirstPrimes(len, n) == {Prime(len, i) : i \in 1 .. n}

\* loss[n] is what the n-th prime of a generator is short of 2^len.
LogOfProduct(S, loss) == MapThenSumSet(LAMBDA q : q.len * Bit - loss[q.n], S)

-----------------------------------------------------------------------------
(* The small primes: of lengths below that of a ctxt prime by resolution,  *)
(* twice, four times as much, ...; and the smallest two or three times.    *)

Smallest(cpSize) ==
  IF cpSize >= 54 THEN DivCeil(2 * cpSize, 3)
  ELSE IF cpSize >= 45 THEN DivCeil(7 * cpSize, 10)
  ELSE DivCeil(11 * cpSize, 15)

\* Mutant: steps of three.
DeltasByThree(resolution, cpSize) ==
  {d \in {resolution * 3^j : j \in 0 .. 4} : cpSize - d > Smallest(cpSize)}

Deltas(resolution, cpSize) ==
  {d \in {resolution * 2^j : j \in 0 .. 6} \cup {3 * resolution}
           \cup (IF resolution = 1 THEN {11} ELSE {}) :
     cpSize - d > Smallest(cpSize)}

SmallPrimes(resolution, cpSize) ==
  FirstPrimes(Smallest(cpSize), IF cpSize >= 45 THEN 2 ELSE 3)
    \cup {Prime(cpSize - d, 1) :
            d \in Deltas(IF resolution \in 1 .. 10 THEN resolution ELSE 3, cpSize)}

-----------------------------------------------------------------------------
(* The lengths of the other primes: as many as are needed of the largest   *)
(* length sp, and then as short as that many still have nBits.             *)

NumPrimes(nBits, sp) == DivCeil(nBits, sp * Bit - BitLoss)

TargetSize(nBits, sp, least) ==
  Min({sp} \cup {len \in least .. sp - 1 :
                   (len * Bit - BitLoss) * NumPrimes(nBits, sp) >= nBits})

LeastCtxtSize(sp) == Max({30, DivCeil(9 * sp, 10)})
LeastSpecialSize(sp) == Max({30, DivCeil(55 * sp, 100)})

\* "until their product is at least 2^{nBits}", or half a bit less.
CtxtPrimes(nBits, len, loss) ==
  FirstPrimes(len, CHOOSE n \in DOMAIN loss :
    /\ LogOfProduct(FirstPrimes(len, n), loss) >= nBits - Bit \div 2
    /\ LogOfProduct(FirstPrimes(len, n - 1), loss) < nBits - Bit \div 2)

\* Mutant: primes of the chain are taken again.
SpecialPrimesAgain(n, len, chain) == FirstPrimes(len, n)

\* The first n that are not in the chain yet.
SpecialPrimes(n, len, chain) ==
  LET Fresh == FirstPrimes(len, n + Cardinality(chain)) \ chain
  IN {q \in Fresh : Cardinality({p \in Fresh : p.n < q.n}) < n}

-----------------------------------------------------------------------------
(* The digits of key switching: the ctxt primes in order, each digit the   *)
(* rounded-up share of those that remain.                                  *)

NumDigits(nDgts, nCtxt) == IF nDgts > nCtxt THEN nCtxt ELSE IF nDgts <= 0 THEN 1 ELSE nDgts

Digits(ctxt, nDgts) ==
  LET n == Cardinality(ctxt)
      D == NumDigits(nDgts, n)
      Taken[d \in 0 .. D] ==
        IF d = 0 THEN 0 ELSE Taken[d - 1] + DivCeil(n - Taken[d - 1], D - (d - 1))
  IN [d \in 1 .. D |-> {q \in ctxt : q.n > Taken[d - 1] /\ q.n <= Taken[d]}]

\* c: nBits, nDgts, resolution and bitsInSpecialPrimes are the arguments; without the
\* latter the special primes are to be about as large as the largest digit: "estimate"
\* is what the noise adds.  sp and loss are of the build.
SpecialBits(c, digits) ==
  LET largest == Max({LogOfProduct(digits[d], c.loss) : d \in DOMAIN digits})
  IN IF c.bitsInSpecialPrimes # 0 THEN c.bitsInSpecialPrimes * Bit
     ELSE Max({Bit, largest + c.estimate})

BuildModChain(c) ==
  LET pSize   == TargetSize(c.nBits * Bit, c.sp, LeastCtxtSize(c.sp))
      small   == SmallPrimes(c.resolution, pSize)
      ctxt    == CtxtPrimes(c.nBits * Bit, pSize, c.loss)
      digits  == Digits(ctxt, c.nDgts)
      nBits   == SpecialBits(c, digits)
      special == SpecialPrimes(NumPrimes(nBits, c.sp), TargetSize(nBits, c.sp, LeastSpecialSize(c.sp)),
                               small \cup ctxt)
  IN [small |-> small, ctxt |-> ctxt, special |-> special, digits |-> digits]

-----------------------------------------------------------------------------
(* The table of sizes: any small primes, and the ctxt primes up to one.    *)

Sets(chain) == {s \cup {q \in chain.ctxt : q.n <= n} :
                  s \in SUBSET chain.small, n \in 0 .. Cardinality(chain.ctxt)}
SizeTable(chain, loss) == {[size |-> LogOfProduct(s, loss), set |-> s] : s \in Sets(chain)}

\* The primes that are added, and a fifth of those that are removed, in percent.
CostEstimate(from, to, pow2) ==
  100 * Cardinality(to \ from) + (IF pow2 THEN 0 ELSE 20 * Cardinality(from \ to))

\* Of the entries S, the cheapest ones to reach from all sets of froms.
TotalCost(e, froms, pow2) == MapThenSumSet(LAMBDA f : CostEstimate(f, e.set, pow2), froms)
AtCost(S, cost, froms, pow2) == {e \in S : TotalCost(e, froms, pow2) = cost}
Cheapest(S, froms, pow2) == AtCost(S, Min({TotalCost(e, froms, pow2) : e \in S}), froms, pow2)

LeastSize(S) == Min({e.size : e \in S})
LargestSize(S) == Max({e.size : e \in S})
OfSize(S, size) == (CHOOSE e \in S : e.size = size).set
SmallestOf(S) == OfSize(S, LeastSize(S))
LargestOf(S) == OfSize(S, LargestSize(S))
UpTo(S, size) == {e \in S : e.size <= size}
From(S, size) == {e \in S : e.size >= size}

\* In the interval, or else within one bit of the closest below it, or above.
GetSet4Size(table, low, high, froms, pow2, reverse) ==
  LET fits  == UpTo(From(table, low), high)
      below == {e \in table : e.size < low}
      above == {e \in From(table, low) : e.size > high}
  IN IF fits # {} THEN LargestOf(Cheapest(fits, froms, pow2))
     ELSE IF reverse /\ above # {}
       THEN SmallestOf(Cheapest(UpTo(above, LeastSize(above) + Bit), froms, pow2))
     ELSE IF ~ reverse /\ below # {}
       THEN LargestOf(Cheapest(From(below, LargestSize(below) - Bit), froms, pow2))
     ELSE {}
=============================================================================
