------------------------------ MODULE DoubleCRT ------------------------------
(***************************************************************************)
(* Objects of class helib::DoubleCRT and every method that changes one, in *)
(* any order: an object is a map from primes to rows (DoubleCRTRows), and  *)
(* an action is a call.  The calls implement the arithmetic of module      *)
(* RingElements, which knows no rows.                                      *)
(***************************************************************************)
EXTENDS DoubleCRTRows

CONSTANTS
  Objs,                  \* the objects
  Operands,              \* bound: those that are only made and read
  First,                 \* the polynomials the objects are made from
  FirstSets,             \*   and the sets of primes they are made over
  PrimeSets,             \* the arguments of the calls: sets of primes,
  Polys, Nums, Exps,     \*   polynomials, numbers no prime divides, exponents,
  Automorphisms,         \*   powers of X,
  PtxtSpaces,            \*   plaintext spaces
  Streams,               \*   and random streams
  MaxCalls               \* bound: the calls of a run

ASSUME ArgumentsAssumption ==
  /\ PrimeSets \cup FirstSets \subseteq SUBSET Chain
  /\ Operands \subseteq Objs
  /\ First \in [Objs -> [Cols -> Int]] /\ Polys \subseteq [Cols -> Int]
  /\ Exps \cup Automorphisms \subseteq Nat
  /\ \A n \in Nums : n \in Int /\ \A i \in Chain : n % Prime[i] # 0
  /\ \A p \in PtxtSpaces : p \in Nat /\ p > 0 /\ \A i \in Chain : Coprime(p, Prime[i])
  /\ \A stream \in Streams : Suffices(stream, Cardinality(Chain))
  /\ MaxCalls \in Nat

VARIABLES
  dcrt,      \* the objects
  digits,    \* what breakIntoDigits last returned, and what it was called on
  call,      \* the last call and its arguments
  calls      \* how many calls there were

vars == <<dcrt, digits, call, calls>>

None == [of |-> <<>>, parts |-> <<>>]

\* The constructors.
Init ==
  /\ \E S \in [Objs -> FirstSets] : dcrt = [x \in Objs |-> Converted(First[x], S[x])]
  /\ digits = None
  /\ call = [op |-> "none"]
  /\ calls = 0

Returns(c, x, d) ==
  /\ dcrt' = [dcrt EXCEPT ![x] = d]
  /\ call' = c
  /\ digits' = None

Throws(c, x) ==
  /\ call' = [c EXCEPT !.throws = TRUE]
  /\ UNCHANGED dcrt
  /\ digits' = None

-----------------------------------------------------------------------------
(* The calls.                                                              *)

Assign(x) ==
  \E S \in PrimeSets, f \in Polys :
    Returns([op |-> "assign", x |-> x, throws |-> FALSE, S |-> S, f |-> f], x, Converted(f, S))

Copy(x, y) ==
  Returns([op |-> "copy", x |-> x, throws |-> FALSE, y |-> y], x, dcrt[y])

Negate(x, y) ==
  Returns([op |-> "negate", x |-> x, throws |-> FALSE, y |-> y], x, Negated(dcrt[y]))

Randomize(x) ==
  \E stream \in Streams :
    Returns([op |-> "randomize", x |-> x, throws |-> FALSE], x,
            Randomized(DOMAIN dcrt[x], stream, 0).rows)

Combine(x, y) ==
  \E fun \in {"add", "sub", "mul"}, match \in BOOLEAN :
    LET c == [op |-> "combine", x |-> x, throws |-> FALSE, y |-> y, fun |-> fun,
              match |-> match]
    IN IF OpThrows(dcrt[x], dcrt[y], match) THEN Throws(c, x)
       ELSE Returns(c, x, Op(fun, dcrt[x], dcrt[y]))

CombineWithPoly(x) ==
  \E fun \in {"add", "sub", "mul"}, f \in Polys :
    Returns([op |-> "combine with poly", x |-> x, throws |-> FALSE, fun |-> fun, f |-> f], x,
            OpPoly(fun, dcrt[x], f))

CombineWithNum(x) ==
  \E fun \in {"add", "sub", "mul"}, n \in Nums :
    Returns([op |-> "combine with num", x |-> x, throws |-> FALSE, fun |-> fun, n |-> n], x,
            OpNum(fun, dcrt[x], n))

Divide(x) ==
  \E n \in Nums :
    Returns([op |-> "divide", x |-> x, throws |-> FALSE, n |-> n], x, DividedBy(dcrt[x], n))

Raise(x) ==
  \E e \in Exps :
    Returns([op |-> "exp", x |-> x, throws |-> FALSE, e |-> e], x, Exp(dcrt[x], e))

Move(x) ==
  \E k \in Automorphisms :
    LET c == [op |-> "automorph", x |-> x, throws |-> FALSE, k |-> k]
    IN IF k \notin ZMStar THEN Throws(c, x) ELSE Returns(c, x, Automorph(dcrt[x], k))

Conjugate(x) ==
  Returns([op |-> "conj", x |-> x, throws |-> FALSE], x, ComplexConj(dcrt[x]))

Extend(x) ==
  \E S \in PrimeSets :
    LET c == [op |-> "add primes", x |-> x, throws |-> FALSE, S |-> S]
    IN IF AddPrimesThrows(dcrt[x], S) THEN Throws(c, x)
       ELSE Returns(c, x, AddPrimes(dcrt[x], S))

ScaleUp(x) ==
  \E S \in PrimeSets :
    LET c == [op |-> "scale up", x |-> x, throws |-> FALSE, S |-> S]
    IN IF AddPrimesThrows(dcrt[x], S) THEN Throws(c, x)
       ELSE Returns(c, x, AddPrimesAndScale(dcrt[x], S))

Remove(x) ==
  \E S \in PrimeSets :
    Returns([op |-> "remove primes", x |-> x, throws |-> FALSE, S |-> S], x,
            RemovePrimes(dcrt[x], S))

Replace(x) ==
  \E S \in PrimeSets :
    Returns([op |-> "set primes", x |-> x, throws |-> FALSE, S |-> S], x,
            SetPrimes(dcrt[x], S))

ScaleDown(x) ==
  \E S \in PrimeSets, p \in PtxtSpaces :
    LET c == [op |-> "scale down", x |-> x, throws |-> FALSE, S |-> S, p |-> p]
    IN IF ScaleDownThrows(dcrt[x], S) THEN Throws(c, x)
       ELSE Returns(c, x, ScaledDown(dcrt[x], S, p))

Break(x) ==
  IF BreakThrows(dcrt[x]) THEN Throws([op |-> "break", x |-> x, throws |-> FALSE], x)
  ELSE /\ digits' = [of |-> dcrt[x], parts |-> BreakIntoDigits(dcrt[x])]
       /\ call' = [op |-> "break", x |-> x, throws |-> FALSE]
       /\ UNCHANGED dcrt

Next ==
  /\ calls < MaxCalls
  /\ calls' = calls + 1
  /\ \/ \E x \in Objs \ Operands, y \in Objs : Copy(x, y) \/ Negate(x, y) \/ Combine(x, y)
     \/ \E x \in Objs \ Operands :
          \/ Assign(x) \/ Randomize(x) \/ CombineWithPoly(x) \/ CombineWithNum(x)
          \/ Divide(x) \/ Raise(x) \/ Move(x) \/ Conjugate(x) \/ Extend(x) \/ ScaleUp(x)
          \/ Remove(x) \/ Replace(x) \/ ScaleDown(x) \/ Break(x)

Spec == Init /\ [][Next]_vars

-----------------------------------------------------------------------------
(* Properties.                                                             *)

\* DoubleCRT::verify: the rows are those of primes of the chain, and every entry is
\* reduced modulo its prime, for the objects and for the digits of one.
TypeOK ==
  /\ \A x \in Objs : IsElement(dcrt[x])
  /\ \A n \in DOMAIN digits.parts : IsElement(digits.parts[n])
  /\ calls \in 0 .. MaxCalls

PolyModulo(d) == [h \in Cols |-> ToPoly(d, DOMAIN d)[h] % ProductOf(DOMAIN d)]

Ring == INSTANCE RingElements WITH
  elem <- [x \in Objs |-> [primes |-> DOMAIN dcrt[x], poly |-> PolyModulo(dcrt[x])]]

\* The rows compute what the class promises: every call does to the polynomials modulo
\* the product of the primes what the ring does, whatever calls came before it, and it
\* throws just when the primes do not fit, leaving the object as it was.
ImplementsRing == Ring!Spec

DigitProduct(n) == FoldFunctionOnSet(LAMBDA a, b : a * b, 1,
                     [k \in DOMAIN Digits |-> ProductOf(Digits[k])], 1 .. n - 1)

\* breakIntoDigits: the digits, each times the products of the digits before it, add up
\* to the element, also when primes were dropped from the element and a digit is without
\* primes; and all of them are over the same primes, with the special primes.
DigitsRecombine ==
  LET of    == digits.of
      parts == digits.parts
      sum[n \in 0 .. Len(parts)] ==
        IF n = 0 THEN Constant(0, DOMAIN of)
        ELSE Op("add", sum[n - 1], OpNum("mul", RemovePrimes(parts[n], SpecialPrimes),
                                         DigitProduct(n)))
  IN digits # None =>
       /\ sum[Len(parts)] = of
       /\ \A n \in DOMAIN parts : DOMAIN parts[n] = DOMAIN of \cup SpecialPrimes

\* The noise estimate of key switching counts on it: a digit is a small integer
\* polynomial, of coefficients at most half the product of the primes of its digit,
\* though it is given modulo all the primes.
DigitsSmall ==
  \A n \in DOMAIN digits.parts : \A h \in Cols :
    LET c == ToPoly(digits.parts[n], Chain)[h]
        q == ProductOf(Digits[n] \cap DOMAIN digits.of)
    IN 2 * c < q /\ -2 * c < q

\* The digits of key switching are elements that are small and add up to the element
\* they were taken from.
DigitsRight == TypeOK /\ DigitsSmall /\ DigitsRecombine
=============================================================================
