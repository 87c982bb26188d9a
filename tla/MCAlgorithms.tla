---------------------------- MODULE MCAlgorithms ----------------------------
(***************************************************************************)
(* Inputs for the algorithms, and beside them a GaloisKey2k object.  The   *)
(* two share nothing: a behaviour is a call of an algorithm, or a sequence *)
(* of calls on the object.                                                 *)
(***************************************************************************)
EXTENDS GaloisKey2k

LOCAL INSTANCE SequencesExt
LOCAL INSTANCE FiniteSetsExt

CONSTANTS Polynomials, Factors, DigitInputs, Numbers, Lengths, Chains, Tables, Windows,
          Graphs, Queries, Groups, Signatures

VARIABLE call

A == INSTANCE Algorithms

MCInit == Init /\ A!Init
MCNext ==
  \/ keys = {} /\ parts = <<>> /\ thrown = "none" /\ A!Next /\ UNCHANGED vars
  \/ call = A!NoCall /\ Next /\ UNCHANGED call
MCSpec == MCInit /\ [][MCNext]_<<call, vars>>

(* The properties of module Algorithms.                                    *)

\* Polynomials, powers and products of vectors.
EvaluationRight == A!EvaluationRight
\* The digits of a number modulo p^r.
DigitsRight == A!DigitsRight
\* The larger and the smaller of two encrypted numbers, and which one it is.
ComparisonRight == A!ComparisonRight
\* The primes of a generator, and the chain that buildModChain() makes of them.
ChainRight == A!ChainRight
\* The prime set for an interval of sizes.
SizesReached == A!SizesReached
\* The matchings that the edges of a graph are divided into.
MatchingsRight == A!MatchingsRight
\* The records that a query finds.
QueriesAnswered == A!QueriesAnswered
\* The group, the cyclotomic polynomial and the cube of the slots.
SlotsRight == A!SlotsRight

-----------------------------------------------------------------------------
\* Steps in both directions, and one that is too large.
MCSteps == {-3, -1, 0, 1, 2, 4}

-----------------------------------------------------------------------------
\* Coefficients with zeros among them, for degrees around every power of two; the number of
\* baby steps that is chosen for them goes from 1 to 4.
Poly(n, p, a, lead) == [c \in 1 .. n + 1 |-> IF c = n + 1 THEN lead ELSE (a * c * c + 3 * a) % p]

MCPolynomials ==
  [f : {Poly(n, 17, a, lead) : n \in 0 .. 13, a \in {0, 5}, lead \in {1, 3}}, p : {17}, x : {2, 7}, k : 0 .. 5]
    \cup [f : {Poly(n, 16, 5, lead) : n \in 0 .. 13, lead \in {1, 2}}, p : {16}, x : {3, 6}, k : {0, 3}]
    \cup [f : {Poly(n, 17, 5, lead) : n \in {31, 32, 33, 35}, lead \in {1, 3}}, p : {17}, x : {2}, k : {0, 6}]

MCFactors == [v : {[j \in 1 .. n |-> (a * j * j + j) % 17] : n \in 1 .. 13, a \in 2 .. 4}, p : {17}]

MCDigits ==
  {[p |-> t[1], r |-> t[2], e |-> t[3]] :
     t \in {<<2, 4, 0>>, <<3, 3, 0>>, <<5, 2, 0>>, <<7, 2, 0>>,
            <<2, 2, 1>>, <<2, 1, 2>>, <<3, 2, 1>>, <<5, 1, 1>>}}

MCNumbers == UNION {[1 .. n -> {"0", "1"}] : n \in 0 .. 4} \cup [1 .. 2 -> {"0", "1", "empty"}]

MCLengths == [len : 5 .. 9, m : 1 .. 12]

\* What the primes are short of a power of two: nothing, as much as may be, and between.
MCLosses == {[n \in 1 .. 20 |-> 0], [n \in 1 .. 20 |-> 192], [n \in 1 .. 20 |-> (37 * n) % 193]}

MCChains ==
  [sp : {50, 60}, nBits : {20, 100, 300}, nDgts : {0, 2, 3, 7}, resolution : {1, 3},
   bitsInSpecialPrimes : {0, 70}, estimate : {-40000, 3000}, loss : MCLosses]

\* Ctxt primes of 45 and of 54 bits.
MCTables ==
  [sp : {50, 60}, nBits : {250}, nDgts : {3}, resolution : 1 .. 10, bitsInSpecialPrimes : {70},
   estimate : {0}, loss : MCLosses]

\* Low ends at the bottom, where sets fit, those of Froms among them, where none does, and
\* above all sets.
MCWindows ==
  [c : {c \in MCTables : c.sp = 60 /\ c.resolution \in {3, 5}}, low : {30, 171, 200, 221, 236, 257, 268, 310, 420, 600}]

EdgesOf(mult, R) ==
  FlattenSeq([n \in DOMAIN mult |->
                [c \in 1 .. mult[n] |-> [l |-> (n - 1) \div R + 1, r |-> ((n - 1) % R) + 1]]])
MCGraphs == {EdgesOf(mult, 2) : mult \in [1 .. 4 -> 0 .. 2]}
              \cup {EdgesOf(mult, 3) : mult \in [1 .. 9 -> 0 .. 1]}

Column(c) == [op |-> "column", name |-> c]
Negations(S) == {[op |-> "!", l |-> t] : t \in S}
Joined(S) == {[op |-> o, l |-> t, r |-> u] : o \in {"&&", "||"}, t, u \in S}
Flat == LET S == {Column("A"), Column("B"), Column("C")} IN S \cup Negations(S) \cup Joined(S)
MCQueries == Flat \cup Negations(Flat) \cup Joined(Flat)

LOCAL Z == INSTANCE ZmStar
MCGroups == {g \in [m : 2 .. 21, p : 1 .. 20] : g.p < g.m /\ Z!RelativelyPrime(g.p, g.m)}

MCSignatures == UNION {[1 .. n -> 1 .. 4] : n \in 1 .. 2} \cup {<<2, 3, 2>>, <<3, 1, 4>>}
=============================================================================
