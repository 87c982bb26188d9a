---------------------------- MODULE DoubleCRTRows ----------------------------
(***************************************************************************)
(* helib::DoubleCRT, the representation every ciphertext part and key is   *)
(* kept in: a map from a set of primes to rows.  The row of a prime q      *)
(* holds the values of the polynomial at the primitive M'th roots of unity *)
(* modulo q, in the order of Zm*.  Every method of the class is an         *)
(* operator from elements to elements; what makes the method throw is an   *)
(* operator of its own.  The FFT (class Cmodulus) is modelled by the       *)
(* values it computes, and the dry run mode is left out.                   *)
(***************************************************************************)
EXTENDS PolynomialRing, Sequences

CONSTANTS
  Root,           \* for every prime a primitive M'th root of unity
  CtxtPrimes, SpecialPrimes,
  Digits          \* Context::digits, a partition of the ctxt primes

Power(x, e, q) ==
  LET p[n \in 0 .. e] == IF n = 0 THEN 1 ELSE (p[n - 1] * x) % q IN p[e]

InvMod(x, q) == CHOOSE y \in 0 .. q - 1 : (x * y) % q = 1

\* PrimeGenerator makes the primes of the chain 1 modulo M; Phi_m is the polynomial that
\* vanishes at the primitive M'th roots of unity.
ASSUME ChainAssumption ==
  /\ IsFiniteSet(Chain) /\ Chain \subseteq Nat
  /\ \A i \in Chain :
       /\ Prime[i] \in Nat /\ Prime[i] % M = 1
       /\ Prime[i] > 1 /\ \A d \in 2 .. Prime[i] - 1 : Prime[i] % d # 0
       /\ Root[i] \in 1 .. Prime[i] - 1
       /\ \A k \in 1 .. M : (Power(Root[i], k, Prime[i]) = 1) <=> (k = M)
       /\ \A k \in ZMStar :
            SumFunction([h \in 0 .. PhiM |->
              PhimX[h] * Power(Root[i], (k * h) % M, Prime[i])]) % Prime[i] = 0
  /\ \A i, j \in Chain : Prime[i] = Prime[j] => i = j
  /\ CtxtPrimes \cup SpecialPrimes \subseteq Chain /\ CtxtPrimes \cap SpecialPrimes = {}
  /\ SpecialPrimes # {}
  /\ Digits \in Seq(SUBSET Chain)
  /\ UNION {Digits[n] : n \in DOMAIN Digits} = CtxtPrimes
  /\ \A n, k \in DOMAIN Digits : n # k => Digits[n] \cap Digits[k] = {}

Rows(i)  == [Cols -> 0 .. Prime[i] - 1]
IsElement(d) == DOMAIN d \subseteq Chain /\ \A i \in DOMAIN d : d[i] \in Rows(i)

-----------------------------------------------------------------------------
(* From polynomials to rows and back.                                      *)

\* operator=(ZZ): the constant n.
Constant(n, S) == [i \in S |-> [j \in Cols |-> n % Prime[i]]]

\* The powers of the roots of unity: the root of a column to every exponent.
RootPower ==
  [i \in Chain |-> [j \in Cols |-> [h \in 0 .. M - 1 |->
     Power(Root[i], (ZmsRep[j] * h) % M, Prime[i])]]]

FFT(poly, S) ==
  [i \in S |-> [j \in Cols |->
     SumFunction([h \in Cols |-> ((poly[h] % Prime[i]) * RootPower[i][j][h]) % Prime[i]])
       % Prime[i]]]

IsConstant(poly) == poly = [Zero EXCEPT ![0] = poly[0]]

\* The constructor from a polynomial and operator=(ZZX).
Converted(poly, S) == IF IsConstant(poly) THEN Constant(poly[0], S) ELSE FFT(poly, S)

\* Cmodulus::iFFT: an inverse transform of length m, of which only the entries in
\* Zm* are not 0, then the remainder modulo Phi_m.  The coefficients of column j.
IFFTColumn ==
  [i \in Chain |-> [j \in Cols |->
     LET q == Prime[i]
     IN Scaled(Remainder([h \in 0 .. M - 1 |-> InvMod(RootPower[i][j][h], q)], q),
               InvMod(M, q), q)]]

IFFT(d, i) ==
  [h \in Cols |-> SumFunction([j \in Cols |-> (d[i][j] * IFFTColumn[i][j][h]) % Prime[i]])
                   % Prime[i]]

\* The integer polynomial with these remainders, coefficients in [-prod/2, prod/2].
ChineseRemainder(poly, S) ==
  LET prod == ProductOf(S)
      Term(i, c) == LET prod1 == prod \div Prime[i]
                    IN prod1 * ((c * InvMod(prod1 % Prime[i], Prime[i])) % Prime[i])
  IN [h \in Cols |-> Balanced(SumFunction([i \in S |-> Term(i, poly[i][h])]), prod)]

\* The element, modulo the product of the primes of S that it has.
ToPoly(d, S) ==
  LET s1 == DOMAIN d \cap S
  IN IF s1 = {} THEN Zero ELSE ChineseRemainder([i \in s1 |-> IFFT(d, i)], s1)

-----------------------------------------------------------------------------
(* Arithmetic, prime by prime.                                             *)

\* AddMod, SubMod and MulMod.
Apply(fun, a, b, q) ==
  CASE fun = "add" -> (a + b) % q
    [] fun = "sub" -> (a - b) % q
    [] fun = "mul" -> (a * b) % q

\* Op and do_mul throw unless the other element has the primes of this one, and,
\* when the index sets are to match, no more than these.
OpThrows(d, e, match) ==
  \/ ~(DOMAIN d \subseteq DOMAIN e)
  \/ match /\ ~(DOMAIN e \subseteq DOMAIN d)

Op(fun, d, e) ==
  [i \in DOMAIN d |-> [j \in Cols |-> Apply(fun, d[i][j], e[i][j], Prime[i])]]
OpNum(fun, d, n) ==
  [i \in DOMAIN d |-> [j \in Cols |-> Apply(fun, d[i][j], n % Prime[i], Prime[i])]]
OpPoly(fun, d, poly) == Op(fun, d, Converted(poly, DOMAIN d))

\* operator/=, by a number no prime of the element divides.
DividedBy(d, n) ==
  [i \in DOMAIN d |-> [j \in Cols |->
     (d[i][j] * InvMod(n % Prime[i], Prime[i])) % Prime[i]]]

\* Negate(other): over the primes of the other element.
Negated(e) == [i \in DOMAIN e |-> [j \in Cols |-> (-e[i][j]) % Prime[i]]]

Exp(d, e) == [i \in DOMAIN d |-> [j \in Cols |-> Power(d[i][j], e, Prime[i])]]

\* Mutant: new[j*k] = old[j], the automorphism of the inverse of k.
AutomorphInverse(d, k) ==
  [i \in DOMAIN d |-> [j \in Cols |->
     d[i][CHOOSE h \in Cols : (ZmsRep[h] * k) % M = ZmsRep[j]]]]

\* automorph(k): new[j] = old[j*k mod m]; it throws for a k outside Zm*.
Automorph(d, k) ==
  [i \in DOMAIN d |-> [j \in Cols |-> d[i][ZmsIdx[(ZmsRep[j] * k) % M]]]]

\* complexConj: the columns j and phi(m)-j-1 are swapped.
ComplexConj(d) == [i \in DOMAIN d |-> [j \in Cols |-> d[i][PhiM - j - 1]]]

TwoTo[k \in Nat] == IF k = 0 THEN 1 ELSE 2 * TwoTo[k - 1]

NumBits(n) == CHOOSE k \in 0 .. n : TwoTo[k] > n /\ \A l \in 0 .. k - 1 : TwoTo[l] =< n

\* Of the next n buffers of a random stream, the numbers that are below the prime of
\* the row once they are cut down to as many bits as it has.
Accepted(i, stream, from, n) ==
  LET cut(x) == x % TwoTo[NumBits(Prime[i] - 1)]
      all[k \in 0 .. n] == IF k = 0 THEN <<>> ELSE all[k - 1] \o stream[from + k - 1]
      good[k \in 0 .. Len(all[n])] ==
        IF k = 0 THEN <<>>
        ELSE good[k - 1] \o (IF cut(all[n][k]) < Prime[i] THEN <<cut(all[n][k])>> ELSE <<>>)
  IN good[Len(all[n])]

\* The element of a singleton.
The(S) == CHOOSE x \in S : TRUE

\* The buffers that are taken for a row: as few as have numbers for all columns.
IsEnough(i, stream, from, n) == Len(Accepted(i, stream, from, n)) >= PhiM
Buffers(i, stream, from) ==
  CHOOSE n \in 1 .. Cardinality(DOMAIN stream) :
    IsEnough(i, stream, from, n) /\ \A k \in 1 .. n - 1 : ~IsEnough(i, stream, from, k)

\* A stream does not end before there are numbers for so many rows: some number of buffers
\* is enough for a row, wherever it starts.
Suffices(stream, rows) ==
  /\ IsFiniteSet(DOMAIN stream)
  /\ \E buffers \in 1 .. Cardinality(DOMAIN stream) :
       /\ stream \in [0 .. Cardinality(DOMAIN stream) - 1 -> Seq(Nat)]
       /\ buffers * rows =< Cardinality(DOMAIN stream)
       /\ \A i \in Chain, from \in 0 .. Cardinality(DOMAIN stream) - buffers :
            IsEnough(i, stream, from, buffers)

\* The next row, what is left of the last buffer being dropped.
WithRow(i, stream, d) ==
  The({[rows |-> Append(d.rows, SubSeq(Accepted(i, stream, d.next, n), 1, PhiM)),
        next |-> d.next + n] : n \in {Buffers(i, stream, d.next)}})

Place(S, i) == Cardinality({k \in S : k =< i})

\* randomize: row by row, in the order of the primes.  The rows, and where the stream is
\* after them.
Randomized(S, stream, from) ==
  LET drawn[n \in 0 .. Cardinality(S)] ==
        IF n = 0 THEN [rows |-> <<>>, next |-> from]
        ELSE The({WithRow(The({i \in S : Place(S, i) = n}), stream, d) : d \in {drawn[n - 1]}})
  IN The({[rows |-> [i \in S |-> [j \in Cols |-> d.rows[Place(S, i)][j + 1]]], next |-> d.next] :
          d \in {drawn[Cardinality(S)]}})

-----------------------------------------------------------------------------
(* Primes added and removed.                                               *)

AddPrimesThrows(d, S) == S \cap DOMAIN d # {}

\* Over S in addition, for an element that is the integer polynomial poly.
Extended(d, S, poly) ==
  LET all == DOMAIN d \cup S
  IN IF S = {} THEN d
     ELSE IF DOMAIN d = {} THEN Constant(0, S)
     ELSE IF IsConstant(poly) THEN Constant(poly[0], all)
     ELSE [i \in all |-> IF i \in S THEN FFT(poly, {i})[i] ELSE d[i]]

AddPrimes(d, S) == Extended(d, S, ToPoly(d, DOMAIN d))

\* Mutant: the old rows are not scaled.
AddPrimesUnscaled(d, S) ==
  [i \in DOMAIN d \cup S |-> IF i \in S THEN [j \in Cols |-> 0] ELSE d[i]]

\* Over S in addition, and multiplied by the product of S.
AddPrimesAndScale(d, S) ==
  [i \in DOMAIN d \cup S |->
     IF i \in S THEN [j \in Cols |-> 0]
     ELSE [j \in Cols |-> (d[i][j] * (ProductOf(S) % Prime[i])) % Prime[i]]]

RemovePrimes(d, S) == [i \in DOMAIN d \ S |-> d[i]]

\* setPrimes: addPrimes, then removePrimes.
SetPrimes(d, S) == RemovePrimes(AddPrimes(d, S \ DOMAIN d), DOMAIN d \ S)

\* scaleDownToSet throws when no prime would be left.
ScaleDownThrows(d, S) == DOMAIN d \ S # {} /\ DOMAIN d \cap S = {}

\* Mutant: every residue up to p is taken off.
FixedUnbalanced(delta, diffProd, p) ==
  [h \in Cols |-> delta[h] - diffProd * ((delta[h] * InvMod(diffProd % p, p)) % p)]

\* delta made divisible by the plaintext space p, by multiples of diffProd that are
\* balanced modulo p: for an even p the sign of delta decides between p/2 and -p/2 (and
\* a delta of 0, for which the code tosses a coin, is never fixed).
FixedDelta(delta, diffProd, p) ==
  [h \in Cols |->
     LET r == ((delta[h] % p) * InvMod(diffProd % p, p)) % p
         down == \/ r > p \div 2
                 \/ p % 2 = 0 /\ r = p \div 2 /\ delta[h] < 0
     IN delta[h] - diffProd * (IF down THEN r - p ELSE r)]

\* scaleDownToSet: what the element is modulo the primes that are dropped, fixed for
\* the plaintext space, is taken off first, so that it can be divided by their product.
ScaleDownDelta(d, S, p) ==
  LET diff == DOMAIN d \ S
  IN IF p > 1 THEN FixedDelta(ToPoly(d, diff), ProductOf(diff), p) ELSE ToPoly(d, diff)

ScaledDown(d, S, p) ==
  LET diff == DOMAIN d \ S
  IN IF diff = {} THEN d
     ELSE DividedBy(OpPoly("sub", RemovePrimes(d, diff), ScaleDownDelta(d, S, p)),
                    ProductOf(diff))

-----------------------------------------------------------------------------
(* Digits for key switching.                                               *)

\* breakIntoDigits throws for primes that are in no digit.
BreakThrows(d) == ~(DOMAIN d \subseteq CtxtPrimes)

\* As many digits as are needed to cover the primes of the element.
NDigits(S) ==
  CHOOSE n \in 0 .. Len(Digits) :
    /\ S \subseteq UNION {Digits[k] : k \in 1 .. n}
    /\ \A l \in 0 .. n - 1 : ~(S \subseteq UNION {Digits[k] : k \in 1 .. l})

\* Mutant: the later digits are not divided by the product of the digit.
LiftedUndivided(parts, i, digit) ==
  [k \in DOMAIN parts |->
     IF k < i THEN parts[k] ELSE IF k = i THEN digit ELSE Op("sub", parts[k], digit)]

\* The digit is taken off the digits after it, which are then divided by the product of
\* the digit, all of whose primes count.
Lifted(parts, i, digit) ==
  [k \in DOMAIN parts |->
     IF k < i THEN parts[k] ELSE IF k = i THEN digit
     ELSE DividedBy(Op("sub", parts[k], digit), ProductOf(Digits[i]))]

\* breakIntoDigits: a digit is the element modulo the primes of the digit, lifted to
\* all the primes, one after the other.
BreakIntoDigits(d) ==
  LET n == NDigits(DOMAIN d)
      Digit(part) == AddPrimes(part, (DOMAIN d \cup SpecialPrimes) \ DOMAIN part)
      broken[i \in 0 .. n] ==
        IF i = 0 THEN [k \in 1 .. n |-> RemovePrimes(d, DOMAIN d \ Digits[k])]
        ELSE Lifted(broken[i - 1], i, Digit(broken[i - 1][i]))
  IN broken[n]
=============================================================================
