--------------------------- MODULE PrimeGenerator ---------------------------
(***************************************************************************)
(* PrimeGenerator.h: primes 2^k * t * m + 1 below 2^len and near to it,    *)
(* with t odd, those with a large k first.  A generator is [len, m, k, t]; *)
(* a call of next() gives the prime q and the generator after it.          *)
(***************************************************************************)
EXTENDS Integers, Sequences

B == 3

DivC(a, b) == (a + b - 1) \div b

\* NTL::ProbPrime.
IsPrime(n) == n > 1 /\ \A d \in 2 .. n - 1 : d * d <= n => n % d # 0

UpperBound(g) == DivC(2^g.len - 1, g.m * 2^g.k)

LowerBound(g) == DivC(2^g.len - 2^(g.len - B) - 1, g.m * 2^g.k)

\* "We run k down to 0 if m is even, and down to 1 if m is odd."
LeastK(g) == IF g.m % 2 = 0 THEN 0 ELSE 1

\* t at its bound: the first call of next() goes to a smaller k.
Generator(len, m) ==
  LET k == CHOOSE k \in 0 .. len : m * 2^k > 2^(len - B) /\ (k = 0 \/ m * 2^(k - 1) <= 2^(len - B))
  IN [len |-> len, m |-> m, k |-> k, t |-> DivC(2^len - 1, m * 2^k)]

Candidate(g) == g.t * g.m * 2^g.k + 1
InInterval(g) == Candidate(g) \in 2^g.len - 2^(g.len - B) .. 2^g.len - 1

Throws(g) == [q |-> 0, gen |-> g]

RECURSIVE NextFrom(_)
NextFrom(g) ==
  LET smaller == [g EXCEPT !.k = @ - 1]
  IN IF g.t >= UpperBound(g)
       THEN IF smaller.k < LeastK(g) THEN Throws(g)
            ELSE NextFrom([smaller EXCEPT !.t = LowerBound(smaller)])
     ELSE IF g.t % 2 = 0 THEN NextFrom([g EXCEPT !.t = @ + 1])
     ELSE IF ~ InInterval(g) THEN Throws(g)
     ELSE IF IsPrime(Candidate(g)) THEN [q |-> Candidate(g), gen |-> g]
     ELSE NextFrom([g EXCEPT !.t = @ + 1])

NextPrime(g) == NextFrom([g EXCEPT !.t = @ + 1])

\* What a generator gives until it throws.
RECURSIVE PrimesFrom(_)
PrimesFrom(g) ==
  LET n == NextPrime(g) IN IF n.q = 0 THEN <<>> ELSE <<n.q>> \o PrimesFrom(n.gen)
=============================================================================
