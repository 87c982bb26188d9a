----------------------------- MODULE Algorithms -----------------------------
(***************************************************************************)
(* The algorithms of the library that keep no state of their own, each a   *)
(* module of operators.  A behaviour is one call: its name, its input and  *)
(* what it returns, which the properties compare with a reference that     *)
(* does not know the algorithm.                                            *)
(***************************************************************************)
EXTENDS Integers, Sequences, FiniteSets, TLC

LOCAL INSTANCE SequencesExt
LOCAL INSTANCE FiniteSetsExt

CONSTANTS   \* the inputs
  Polynomials,  \* records [f, p, x, k]: coefficients, plaintext space, point, baby steps
  Factors,      \* records [v, p]: values modulo p
  DigitInputs,  \* records [p, r, e]: r digits of a number modulo p^(r+e)
  Numbers,      \* sequences of bits, the low bit first; "empty" is an empty ciphertext
  Lengths,      \* records [len, m]: of primes that are 1 modulo m
  Chains,       \* records of the arguments of buildModChain, see PrimeChain
  Tables,       \* such records, of chains whose sizes are tabulated
  Windows,      \* records [c, low]: such a record, and the low end of an interval
  Graphs,       \* sequences of edges
  Queries,      \* trees
  Groups,       \* records [m, p]
  Signatures    \* the dimensions of a cube

VARIABLE call

P == INSTANCE PolyEval
D == INSTANCE ExtractDigits
C == INSTANCE BinaryCompare
G == INSTANCE PrimeGenerator
K == INSTANCE PrimeChain
E == INSTANCE Matching
Q == INSTANCE Query
Z == INSTANCE ZmStar
H == INSTANCE Hypercube

NoCall == [op |-> "none"]
Init == call = NoCall

Return(op, in, out) == call' = [op |-> op, in |-> in, out |-> out]

-----------------------------------------------------------------------------
(* One action per algorithm.                                               *)

Encrypt(v, p) == [i \in DOMAIN v |-> P!Encrypted(v[i], p)]

PolyEval == \E i \in Polynomials :
  Return("polyEval", i,
    [clear     |-> P!EvalCleartext(P!Empty(i.p), i.f, P!Encrypted(i.x, i.p), i.k),
     encrypted |-> P!EvalEncrypted(P!Empty(i.p), Encrypt(i.f, i.p), P!Encrypted(i.x, i.p))])

\* Three ciphertexts of any levels.
Triples(c) == [1 .. 3 -> {c, P!Square(c), P!Square(P!Square(c))}]

Multiply == \E i \in Factors :
  LET v == Encrypt(i.v, i.p)
  IN Return("multiply", i,
       [total  |-> P!TotalProduct(v),
        upTo   |-> P!IncrementalProduct(v),
        inner  |-> P!InnerProduct(P!Empty(i.p), v, Reverse(v)),
        powers |-> [e \in 1 .. 9 |-> P!Power(v[1], e)],
        cube   |-> P!Cube(v[1]),
        three  |-> [x \in Triples(v[1]), j, n \in 1 .. 3 |-> P!MultiplyBy2(x, 1, j, n)]])

ExtractDigits == \E i \in DigitInputs : \E z \in 0 .. i.p^(i.r + i.e) - 1 :
  LET c == P!Encrypted(z, i.p^(i.r + i.e))
  IN Return("extractDigits", [i EXCEPT !.e = z] @@ [lifts |-> i.r + i.e],
            IF i.e = 0 THEN D!Extract(c, 0, i.p, i.r) ELSE D!ExtendExtract(c, i.r, i.e, i.p))

Bits(v) == [i \in DOMAIN v |-> IF v[i] = "empty" THEN C!Empty(2)
                               ELSE C!Encrypted(IF v[i] = "1" THEN 1 ELSE 0, 2)]

Compare == \E a, b \in Numbers, signed \in BOOLEAN :
  Return("compare", [a |-> a, b |-> b, signed |-> signed],
         C!CompareTwoNumbers(Bits(a), Bits(b), signed))

GeneratePrimes == \E i \in Lengths :
  Return("generate", i, G!PrimesFrom(G!Generator(i.len, i.m)))

BuildModChain == \E c \in Chains : Return("chain", c, K!BuildModChain(c))

\* The sets a search may start from.
Froms(chain) ==
  LET one == {q \in chain.ctxt : q.n = 1}
  IN {{chain.ctxt}, {chain.small \cup one}, {chain.ctxt, chain.small \cup one}}

ChooseSetOf(c, low, chain, table) ==
  \E froms \in Froms(chain), pow2, reverse \in BOOLEAN, width \in {0, c.resolution} :
    Return("choose", [c |-> c, chain |-> chain, froms |-> froms, pow2 |-> pow2, reverse |-> reverse,
                      low |-> low * K!Bit, high |-> (low + width) * K!Bit],
           K!GetSet4Size(table, low * K!Bit, (low + width) * K!Bit, froms, pow2, reverse))

ChooseSet == \E w \in Windows : \E chain \in {K!BuildModChain(w.c)} :
  \E table \in {K!SizeTable(chain, w.c.loss)} : ChooseSetOf(w.c, w.low, chain, table)

TabulateSizes == \E c \in Tables : \E chain \in {K!BuildModChain(c)} :
  Return("sizes", [c |-> c, chain |-> chain], {e.size : e \in K!SizeTable(chain, c.loss)})

\* The neighbours of a node in either order.
Match == \E edges \in Graphs, up \in BOOLEAN :
  LET n == E!Sink(edges)
  IN Return("match", edges,
            E!PartitionToMatchings(edges, [i \in 1 .. n + 1 |-> IF up THEN i - 1 ELSE n + 1 - i]))

Masks == [DOMAIN Q!Columns -> {0, 1}]

\* In plaintext spaces of prime order, small ones among them.
Ask == \E tree \in Queries : \E mask \in Masks, p \in {2, 3, 5} :
  LET rpn == Q!Eval(tree)
  IN Return("ask", [tree |-> tree, mask |-> mask, p |-> p],
            [clauses  |-> Q!ExpandOr(rpn),
             query    |-> Q!Build(rpn),
             contains |-> Q!ContainsQuery(Q!Build(rpn), mask, p),
             string   |-> Q!ContainsString(Q!RemoveOr(rpn), mask, p)])

\* A query in infix notation, in brackets where they are needed, or everywhere.
RECURSIVE Written(_, _, _)
Written(t, level, always) ==
  LET own == IF t.op = "&&" THEN 1 ELSE 0
      words == Written(t.l, own, always) \o <<IF own = 1 THEN "AND" ELSE "OR">>
                 \o Written(t.r, own + 1, always)
  IN IF t.op = "column" THEN <<t.name>>
     ELSE IF own < level \/ always THEN <<"(">> \o words \o <<")">> ELSE words

RECURSIVE HasInfix(_)
HasInfix(t) == t.op = "column" \/ (t.op # "!" /\ HasInfix(t.l) /\ HasInfix(t.r))

ReadInfix == \E tree \in {t \in Queries : HasInfix(t)}, always \in BOOLEAN :
  Return("read", tree, Q!ConvertToPostFix(Written(tree, 0, always)))

FindGenerators == \E i \in Groups :
  LET Orders == {e \in 1 .. i.m - 1 : Z!ProbPrime(i.m) /\ (i.m - 1) % e = 0}
  IN Return("generators", i, Z!PAlgebra(i.m, i.p, <<>>, <<>>)
                               @@ [roots |-> [e \in Orders |-> Z!FindPrimRootT(e, i.m)]])

Cube == \E dims \in Signatures : \E d \in 0 .. Len(dims) - 1, k \in -4 .. 4 :
  LET data == [i \in 0 .. H!Size(dims) - 1 |-> ToString(i)]
  IN Return("cube", [dims |-> dims, d |-> d, k |-> k],
            [data    |-> data,
             rotated |-> H!Rotate1D(dims, data, d, k),
             shifted |-> H!Shift1D(dims, data, d, k)])

Next ==
  /\ call = NoCall
  /\ \/ PolyEval \/ Multiply \/ ExtractDigits \/ Compare \/ GeneratePrimes
     \/ BuildModChain \/ TabulateSizes \/ ChooseSet \/ Match \/ Ask \/ ReadInfix \/ FindGenerators \/ Cube

Spec == Init /\ [][Next]_call

-----------------------------------------------------------------------------
(* References, and the properties.                                         *)

\* f at x modulo p, by its terms.
ValueAt(f, x, p) ==
  FoldLeftDomain(LAMBDA acc, i : (acc + f[i] * D!PowerMod(x, i - 1, p)) % p, 0, f)

ProductOf(v, p) == FoldLeft(LAMBDA acc, a : (acc * a) % p, 1 % p, v)

\* Products of a vector halve it over and over: each is that of the elements it stands
\* for, whatever the length, in no more rounds than the halvings.  The product of three
\* objects, which is made in the place of the first and in the order of their levels, is that
\* of the values they had before the call, also if some are one object, and leaves the others.
ProductsAreRight == call.op = "multiply" =>
  LET v == call.in.v  p == call.in.p  out == call.out
      Right(c, w) == c.ok /\ c.val = ProductOf(w, p) /\ c.depth <= P!NextPowerOfTwo(Len(w))
  IN /\ Right(out.total, v)
     /\ \A i \in DOMAIN v : Right(out.upTo[i], SubSeq(v, 1, i))
     /\ out.inner.val = FoldLeftDomain(LAMBDA acc, i : (acc + v[i] * v[Len(v) + 1 - i]) % p, 0, v)
     /\ \A e \in DOMAIN out.powers : Right(out.powers[e], [i \in 1 .. e |-> v[1]])
     /\ Right(out.cube, <<v[1], v[1], v[1]>>)
     /\ \A a \in DOMAIN out.three :
          LET x == a[1]  y == out.three[a]
          IN /\ y[1].ok /\ y[1].val = ProductOf(<<x[1].val, x[a[2]].val, x[a[3]].val>>, p)
             /\ y[2] = x[2] /\ y[3] = x[3]

\* polyEval.h and Ctxt.h: "Evaluate a cleartext polynomial on an encrypted input".  The
\* value is that of the polynomial, by powers, baby steps and giant steps that are right
\* only together, for any degree; the number of baby steps that the library chooses itself
\* never fails, and needs log(deg) + 1 products in a row.  Products of vectors are right too.
EvaluationRight == ProductsAreRight /\ (call.op = "polyEval" =>
  LET i == call.in  out == call.out  value == ValueAt(i.f, i.x, i.p)
      deg == Len(i.f) - 1
  IN /\ out.clear.ok => out.clear.val = value
     /\ i.k <= 0 \/ deg <= 2 \/ deg >= 2 * i.k => out.clear.ok
     /\ i.k <= 0 => out.clear.depth <= P!NextPowerOfTwo(deg) + 1
     /\ out.encrypted.ok /\ out.encrypted.val = value)

\* The j-th digit of z, counted from 0; those of an odd base are balanced.
DigitOf(z, j, p) ==
  LET Lowest(n) == IF p = 2 THEN n % 2 ELSE D!Balanced(n, p)
      Left[n \in 0 .. j] == IF n = 0 THEN z ELSE (Left[n - 1] - Lowest(Left[n - 1])) \div p
  IN Lowest(Left[j])

\* Every digit of every number modulo p^r comes out, each with as much of the plaintext
\* space as is left of it, and no division by p meets a number that p does not divide.
DigitsRight == call.op = "extractDigits" =>
  \A j \in DOMAIN call.out :
    LET c == call.out[j]  p == call.in.p
    IN /\ c.ok /\ c.space = p^(call.in.lifts - j + 1)
       /\ c.val = DigitOf(call.in.e, j - 1, p) % c.space

Unsigned(v) == FoldLeftDomain(LAMBDA acc, i : acc + v[i].val * 2^(i - 1), 0, v)
Signed(v) == IF v = <<>> THEN 0 ELSE Unsigned(v) - Last(v).val * 2^Len(v)

\* The larger and the smaller number, for all lengths: products from halves, and sums of
\* them, over vectors that are written in place.  "mu=(a>b) and ni=(a<b)", as
\* binaryCompare.h has it, where the first number is not the longer one: then the code
\* swaps the numbers and not the bits, which tell what the header says of the first of
\* the shorter.  An empty number counts as 0, and as less than whatever it is compared with.
\* Signed numbers are equally long, which the code relies on and the header does not ask.
ComparisonRight == call.op = "compare" =>
  LET a == Bits(call.in.a)  b == Bits(call.in.b)  out == call.out
      Value(v) == IF call.in.signed THEN Signed(v) ELSE Unsigned(v)
      Bit(c, holds) == c.ok /\ c.val = (IF holds THEN 1 ELSE 0)
  IN Len(a) = Len(b) \/ ~ call.in.signed =>
       /\ Value(out.max) = Max({Value(a), Value(b)})
       /\ Value(out.min) = Min({Value(a), Value(b)})
       /\ Len(a) <= Len(b) =>
            /\ Bit(out.mu, Value(a) > Value(b))
            /\ Bit(out.ni, Value(a) < Value(b) \/ a = <<>>)

-----------------------------------------------------------------------------
TwosIn(n) == CHOOSE k \in 0 .. n : n % 2^k = 0 /\ n % 2^(k + 1) # 0

\* A generator gives every prime p of the interval with few enough twos in (p-1)/m, and
\* none twice, though it goes over them in one pass for each number of twos.
GeneratorComplete == call.op = "generate" =>
  LET len == call.in.len  m == call.in.m  out == call.out
      k == G!Generator(len, m).k
      Twos(p) == TwosIn((p - 1) \div m)
      InInterval == {p \in 2^len - 2^(len - 3) .. 2^len - 1 : G!IsPrime(p) /\ (p - 1) % m = 0}
  IN /\ ToSet(out) = {p \in InInterval : Twos(p) < k}
     /\ \A i, j \in DOMAIN out : i < j => Twos(out[i]) > Twos(out[j])
                                        \/ (Twos(out[i]) = Twos(out[j]) /\ out[i] < out[j])

\* The chain holds enough bits in as few primes as are needed; the special primes are
\* new, and large enough for the largest digit; the digits are intervals that share the
\* ctxt primes among them evenly.
ChainOfArguments(c, r) ==
  /\ K!LogOfProduct(r.ctxt, c.loss) >= c.nBits * K!Bit - K!Bit \div 2
  /\ Cardinality(r.ctxt) <= K!NumPrimes(c.nBits * K!Bit, c.sp)
  /\ r.special \cap (r.small \cup r.ctxt) = {}
  /\ K!LogOfProduct(r.special, c.loss) >= K!SpecialBits(c, r.digits)
  /\ UNION Range(r.digits) = r.ctxt
  /\ \A d, e \in DOMAIN r.digits :
       /\ r.digits[d] # {} /\ Cardinality(r.digits[d]) - Cardinality(r.digits[e]) \in -1 .. 1
       /\ d < e => \A p \in r.digits[d], q \in r.digits[e] : p.n < q.n

\* Context.cpp:758 and 1069: what buildModChain() is asked for, whatever the primes it
\* finds are short of the powers of two.
ChainRight == GeneratorComplete /\ (call.op = "chain" => ChainOfArguments(call.in, call.out))

SizeOf(i, S) == K!LogOfProduct(S, i.c.loss)
CpSize(chain) == (CHOOSE q \in chain.ctxt : TRUE).len

\* Bits within which there is a size above low.
Reach(i, low) ==
  IF low >= 4 * CpSize(i.chain) /\ (CpSize(i.chain) >= 54 \/ i.c.resolution \notin 7 .. 9)
    THEN i.c.resolution ELSE 13

\* "This ensures we can express everything to given resolution" (Context.cpp:792): between
\* four ctxt primes and all of them, each interval of whole bits that is as wide as the
\* resolution is hit.  Above two ctxt primes this takes up to 13 bits; and so it does above
\* four for ctxt primes of 45 to 50 bits and the resolutions 7, 8 and 9, against the comment.
ResolutionKept == call.op = "sizes" =>
  LET i == call.in
      cp == CpSize(i.chain)
  IN \E bits \in {{K!DivCeil(s, K!Bit) : s \in call.out}} :
       \A low \in 2 * cp .. SizeOf(i, i.chain.ctxt) \div K!Bit :
         (low + Reach(i, low)) * K!Bit <= SizeOf(i, i.chain.ctxt) =>
            bits \cap (low .. low + Reach(i, low)) # {}

\* fit are the entries of the table in the interval, beyond those on the side that is
\* asked for else, and closest is the size among these that is nearest to it.
WellChosen(i, chosen, fit, beyond) ==
  /\ fit # {} => chosen \in fit
  /\ \A S \in i.froms : Cardinality(i.froms) = 1 /\ SizeOf(i, S) \in i.low .. i.high => call.out = S
  /\ fit = {} /\ beyond # {} =>
       \E closest \in {IF i.reverse THEN K!LeastSize(beyond) ELSE K!LargestSize(beyond)} :
         /\ chosen \in beyond /\ chosen.size - closest \in -K!Bit .. K!Bit
         /\ \A e \in beyond : e.size = closest /\ chosen.size # closest =>
              K!TotalCost(e, i.froms, i.pow2) > K!TotalCost(chosen, i.froms, i.pow2)

\* getSet4Size() finds a set in the interval if there is one, and keeps the set it starts
\* from if that fits.  Else it takes "the largest value smaller than low", or the smallest
\* larger than high, or one that is cheaper to reach and up to "one bit of slack" further
\* off.  With nothing on that side nothing is said: the code returns the empty set, and its
\* comment (primeChain.cpp:178) promises the smallest prime.  And the table is dense.
SizesReached == ResolutionKept /\ (call.op = "choose" =>
  LET i == call.in
      chosen == [size |-> SizeOf(i, call.out), set |-> call.out]
  IN \E table \in {K!SizeTable(i.chain, i.c.loss)} :
       WellChosen(i, chosen, {e \in table : i.low <= e.size /\ e.size <= i.high},
                  IF i.reverse THEN {e \in table : e.size > i.high} ELSE {e \in table : e.size < i.low}))

-----------------------------------------------------------------------------
IsMatching(edges, S) ==
  \A e, f \in S : e # f => edges[e].l # edges[f].l /\ edges[e].r # edges[f].r

\* Every edge gets a colour, and the edges of a colour are a matching, of as many edges
\* as any matching of those that were left: augmenting paths must take back flow.
MatchingsRight == call.op = "match" =>
  LET edges == call.in  colors == call.out
      Of(c) == {e \in DOMAIN edges : colors[e] = c}
      From(c) == {e \in DOMAIN edges : colors[e] >= c}
  IN \A e \in DOMAIN edges :
       /\ colors[e] > 0 /\ IsMatching(edges, Of(colors[e]))
       /\ \A S \in SUBSET From(colors[e]) :
            IsMatching(edges, S) => Cardinality(S) <= Cardinality(Of(colors[e]))

RECURSIVE Holds(_, _)
Holds(t, mask) ==
  CASE t.op = "column" -> mask[Q!IndexOf(t.name)] = 1
    [] t.op = "!"  -> ~ Holds(t.l, mask)
    [] t.op = "&&" -> Holds(t.l, mask) /\ Holds(t.r, mask)
    [] t.op = "||" -> Holds(t.l, mask) \/ Holds(t.r, mask)

\* Clause i holds, but p divides the number of its members that do: its score is 0.
CancelsOut(query, i, mask, p) ==
  LET true == {c \in DOMAIN mask : \/ query.taus[i][c] = 1 /\ mask[c] = 1
                                   \/ query.taus[i][c] = -1 /\ mask[c] = 0}
  IN true # {} /\ Cardinality(true) % p = 0

\* A query and its string find the records for which it holds: the query, an AND of ORs
\* after negations and products of clauses, except for those in which the true members of
\* some clause are a multiple of p.  It is refused just when a clause has a column and its
\* negation, though query.h:608 promises to delete these.  In infix notation a query means
\* what its brackets and the precedence of AND say.
QueriesAnswered ==
  LET Answer(tree, mask) == IF Holds(tree, mask) THEN 1 ELSE 0
  IN /\ call.op = "ask" =>
          LET answer == Answer(call.in.tree, call.in.mask)
              query == call.out.query
              hidden == \E i \in DOMAIN query.mus : CancelsOut(query, i, call.in.mask, call.in.p)
          IN /\ query.ok <=> ~ \E clause \in Range(call.out.clauses) : \E c, d \in Range(clause) : c = -d
             /\ query.ok => call.out.contains = (IF hidden THEN 0 ELSE answer)
             /\ call.out.string = answer
     /\ call.op = "read" =>
          /\ call.out.ok
          /\ \A mask \in Masks :
               Q!ContainsString(Q!RemoveOr(call.out.rpn), mask, 2) = Answer(call.in, mask)

-----------------------------------------------------------------------------
Units(m) == {i \in 1 .. m - 1 : Z!RelativelyPrime(i, m)}
ElementAt(gens, e, m) ==
  FoldLeftDomain(LAMBDA acc, j : (acc * Z!PowerMod(gens[j], e[j], m)) % m, 1, gens)

\* The cube of the slots: each unit modulo m is the product of the generators raised to
\* the coordinates of just one place, and of just one power of p.
GroupCovered == call.op = "generators" =>
  LET m == call.in.m  out == call.out
      places == 0 .. H!Size(out.ords) - 1
  IN /\ ~ out.undefined /\ out.phiM = Cardinality(Units(m)) /\ ToSet(out.zmsRep) = Units(m)
     /\ \A x \in Units(m) : Cardinality({n \in places \X (0 .. out.ordP - 1) :
          (ElementAt(out.gens, H!AllCoords(out.ords, n[1]), m) * Z!PowerMod(call.in.p, n[2], m)) % m = x}) = 1
     /\ \A j \in DOMAIN out.gens :
          Z!PowerMod(call.in.p, out.frobPerturb[j], m) = Z!PowerMod(out.gens[j], out.ords[j], m)

Product(f, g) ==
  [k \in 1 .. Len(f) + Len(g) - 1 |->
     MapThenSumSet(LAMBDA i : IF k + 1 - i \in DOMAIN g THEN f[i] * g[k + 1 - i] ELSE 0, DOMAIN f)]

\* The cyclotomic polynomials of the divisors of m multiply to X^m - 1, and a root that
\* is put together from the prime powers of an order has just that order.
CyclotomicRight == call.op = "generators" =>
  LET m == call.in.m
      divisors == {d \in 1 .. m - 1 : m % d = 0}
      product == FoldLeft(LAMBDA acc, d : Product(acc, Z!Cyclotomic(d)), call.out.PhimX, SetToSeq(divisors))
      roots == call.out.roots
  IN /\ product = [i \in 1 .. m + 1 |-> IF i = 1 THEN -1 ELSE IF i = m + 1 THEN 1 ELSE 0]
     /\ \A e \in DOMAIN roots : \A n \in 1 .. e : Z!PowerMod(roots[e], n, m) = 1 <=> n = e

CoordsOf(dims) == {v \in [DOMAIN dims -> 0 .. Max(ToSet(dims)) - 1] : \A d \in DOMAIN dims : v[d] < dims[d]}

\* The arithmetic on indices of a cube is that on coordinates, at the ends of every
\* dimension too.  A rotation moves along one of them and back.  A shift by k fills up with
\* zeros, and brings to a coordinate below 2k, seen from where it starts, what was k before
\* it.  Further on it repeats the first k places, because the loop, which works in place,
\* has overwritten what it should move.  By all of a dimension nothing is shifted.
CubesRight == call.op = "cube" =>
  LET dims == call.in.dims  d == call.in.d  k == call.in.k  out == call.out
      size == dims[d + 1]
      step == IF k < 0 THEN -H!Prod(dims, d + 1) ELSE H!Prod(dims, d + 1)
      far == (IF k < 0 THEN -k ELSE k) % size
      FromStart(i) == IF k < 0 THEN size - 1 - H!Coord(dims, i, d) ELSE H!Coord(dims, i, d)
      Shifted(i) == IF far = 0 THEN out.data[i]
                    ELSE IF FromStart(i) < far THEN "empty"
                    ELSE out.data[i - (FromStart(i) - (FromStart(i) % far)) * step]
  IN /\ \A v \in CoordsOf(dims) :
          LET i == H!AssembleCoords(dims, v)
              next == H!IncrementCoords(dims, v)
          IN /\ H!AllCoords(dims, i) = v /\ H!Coord(dims, i, d) = v[d + 1]
             /\ H!AllCoords(dims, H!AddCoord(dims, i, d, k)) = [v EXCEPT ![d + 1] = (@ + k) % size]
             /\ IF next = <<>> THEN i = H!Size(dims) - 1 ELSE H!AssembleCoords(dims, next) = i + 1
             /\ H!AssembleIndexByDim(dims, H!BreakIndexByDim(dims, i, d), d) = i
     /\ H!Rotate1D(dims, out.rotated, d, -k) = out.data
     /\ out.shifted = [i \in DOMAIN out.data |-> Shifted(i)]

\* The slice of the places with the first n coordinates of v, one dimension at a time.
SliceOf(dims, v, n) ==
  FoldLeft(LAMBDA s, c : H!SubSlice(dims, s, c, 1), H!FullSlice, SubSeq(v, 1, n))

\* A column of a slice is a line of the cube along the first dimension of the slice, and
\* what is written to it, or to the slice, goes there and nowhere else.
SlicesRight == call.op = "cube" =>
  LET dims == call.in.dims  d == call.in.d  data == call.out.data
      Copied(s) == H!CopySlice(dims, data, s, SliceOf(dims, [n \in DOMAIN dims |-> 0], d))
      Prefix(i) == SubSeq(H!AllCoords(dims, i), 1, d)
  IN \A v \in CoordsOf(dims) :
       LET s == SliceOf(dims, v, d)
           pos == H!AssembleCoords(dims, v) % H!Prod(dims, d + 1)
           At(n) == H!AssembleCoords(dims, [v EXCEPT ![d + 1] = n - 1])
           Line == {At(n) : n \in 1 .. dims[d + 1]}
           written == H!SetHyperColumn(dims, data, <<"new">>, s, pos, <<"pad">>)
       IN /\ H!HyperColumn(dims, data, s, pos) = [n \in 1 .. dims[d + 1] |-> data[At(n)]]
          /\ \A n \in 1 .. dims[d + 1] : H!SliceCoord(dims, s, At(n) - s.sizeOffset, 0) = n - 1
          /\ written = [i \in DOMAIN data |-> IF i = At(1) THEN "new" ELSE IF i \in Line THEN "pad" ELSE data[i]]
          /\ Copied(s) = [i \in DOMAIN data |-> IF Prefix(i) = SubSeq(v, 1, d)
                                                 THEN data[i % H!Prod(dims, d)] ELSE data[i]]

\* The slots of a plaintext: the group they stand for, its polynomial and the cube.
SlotsRight == GroupCovered /\ CyclotomicRight /\ CubesRight /\ SlicesRight
=============================================================================
