---------------------------- MODULE RingElements ----------------------------
(***************************************************************************)
(* What helib::DoubleCRT promises: objects that are polynomials modulo     *)
(* Phi_m and modulo the product of a set of primes, with the arithmetic of *)
(* that ring, and with changes of the set that keep or scale the integer   *)
(* polynomial closest to 0.  No rows, roots or transforms: an action says  *)
(* what a call, which the variable call names with its arguments, makes of *)
(* the objects and when it throws.                                         *)
(***************************************************************************)
EXTENDS PolynomialRing

CONSTANTS Objs, CtxtPrimes, First, FirstSets

VARIABLES
  elem,      \* the objects: a set of primes and a polynomial modulo their product
  call       \* the last call: op, the object x, the arguments, and whether it threw

vars == <<elem, call>>

Primes(x)  == elem[x].primes
Poly(x)    == elem[x].poly
Modulus(x) == ProductOf(Primes(x))

\* The integer polynomial closest to 0.
Lift(x) == [h \in Cols |-> Balanced(Poly(x)[h], Modulus(x))]

\* The call leaves its object the polynomial f modulo the primes S.
Is(c, S, f) ==
  ~c.throws /\ elem' = [elem EXCEPT ![c.x] = [primes |-> S, poly |-> Mod(f, ProductOf(S))]]

ThrowsIf(c, condition) == condition /\ c.throws /\ UNCHANGED elem

Ring(fun, f, g, q) ==
  CASE fun = "add" -> Plus(f, g, q)
    [] fun = "sub" -> Minus(f, g, q)
    [] fun = "mul" -> Times(f, g, q)

Init ==
  /\ \E S \in [Objs -> FirstSets] :
       elem = [x \in Objs |-> [primes |-> S[x], poly |-> Mod(First[x], ProductOf(S[x]))]]
  /\ call = [op |-> "none"]

Assign(c) == c.op = "assign" /\ Is(c, c.S, c.f)
Copy(c)   == c.op = "copy" /\ Is(c, Primes(c.y), Poly(c.y))
Negate(c) == c.op = "negate" /\ Is(c, Primes(c.y), [h \in Cols |-> -Poly(c.y)[h]])
Randomize(c) == c.op = "randomize" /\ Is(c, Primes(c.x), elem'[c.x].poly)

Combine(c) ==
  /\ c.op = "combine"
  /\ LET bad == \/ ~(Primes(c.x) \subseteq Primes(c.y))
                \/ c.match /\ Primes(c.x) # Primes(c.y)
     IN \/ ThrowsIf(c, bad)
        \/ ~bad /\ Is(c, Primes(c.x), Ring(c.fun, Poly(c.x), Poly(c.y), Modulus(c.x)))

CombineWithPoly(c) ==
  c.op = "combine with poly" /\ Is(c, Primes(c.x), Ring(c.fun, Poly(c.x), c.f, Modulus(c.x)))

\* A number is taken off, added or multiplied in every slot, as a constant polynomial.
CombineWithNum(c) ==
  /\ c.op = "combine with num"
  /\ Is(c, Primes(c.x),
        Ring(c.fun, Poly(c.x), [h \in Cols |-> IF h = 0 THEN c.n ELSE 0], Modulus(c.x)))

\* The quotient times the number is the dividend.
Divide(c) ==
  /\ c.op = "divide"
  /\ Is(c, Primes(c.x), elem'[c.x].poly)
  /\ Scaled(elem'[c.x].poly, c.n, Modulus(c.x)) = Poly(c.x)

Exp(c) ==
  /\ c.op = "exp"
  /\ LET q == Modulus(c.x)
         p[n \in 0 .. c.e] ==
           IF n = 0 THEN [h \in Cols |-> IF h = 0 THEN 1 ELSE 0]
           ELSE IF n = 1 THEN Poly(c.x)
           ELSE Times(p[n - 1], Poly(c.x), q)
     IN Is(c, Primes(c.x), p[c.e])

\* F(X) becomes F(X^k).
Automorph(c) ==
  /\ c.op = "automorph"
  /\ \/ ThrowsIf(c, c.k \notin ZMStar)
     \/ c.k \in ZMStar /\ Is(c, Primes(c.x), AtPower(Poly(c.x), c.k, Modulus(c.x)))

ComplexConj(c) ==
  c.op = "conj" /\ Is(c, Primes(c.x), AtPower(Poly(c.x), M - 1, Modulus(c.x)))

\* The same integers modulo more primes, or modulo fewer.
AddPrimes(c) ==
  /\ c.op = "add primes"
  /\ \/ ThrowsIf(c, c.S \cap Primes(c.x) # {})
     \/ c.S \cap Primes(c.x) = {} /\ Is(c, Primes(c.x) \cup c.S, Lift(c.x))

RemovePrimes(c) == c.op = "remove primes" /\ Is(c, Primes(c.x) \ c.S, Poly(c.x))
SetPrimes(c)    == c.op = "set primes" /\ Is(c, c.S, Lift(c.x))

ScaleUp(c) ==
  /\ c.op = "scale up"
  /\ \/ ThrowsIf(c, c.S \cap Primes(c.x) # {})
     \/ /\ c.S \cap Primes(c.x) = {}
        /\ LET all == Primes(c.x) \cup c.S
           IN Is(c, all, Scaled(Poly(c.x), ProductOf(c.S), ProductOf(all)))

\* Division by the product D of the primes dropped, of the element less a delta that
\* the plaintext space p divides, and that is no longer than it must be.
ScaleDown(c) ==
  LET kept == Primes(c.x) \cap c.S
      D    == ProductOf(Primes(c.x) \ c.S)
      longest == IF c.p = 1 THEN (D - 1) \div 2 ELSE (D * c.p) \div 2
      IsDelta(delta) == delta % c.p = 0 /\ delta =< longest /\ -delta =< longest
  IN /\ c.op = "scale down"
     /\ \/ D = 1 /\ ~c.throws /\ UNCHANGED elem
        \/ ThrowsIf(c, D # 1 /\ kept = {})
        \/ /\ D # 1 /\ kept # {}
           /\ Is(c, kept, elem'[c.x].poly)
           /\ \A h \in Cols : LET delta == (Poly(c.x)[h] - D * elem'[c.x].poly[h]) % Modulus(c.x)
                            IN \E k \in -c.p .. c.p : IsDelta(delta + k * Modulus(c.x))

\* The digits of an element are no change of it.
Break(c) ==
  c.op = "break" /\ UNCHANGED elem /\ c.throws = ~(Primes(c.x) \subseteq CtxtPrimes)

Does(c) ==
  \/ Assign(c) \/ Copy(c) \/ Negate(c) \/ Randomize(c)
  \/ Combine(c) \/ CombineWithPoly(c) \/ CombineWithNum(c) \/ Divide(c) \/ Exp(c)
  \/ Automorph(c) \/ ComplexConj(c)
  \/ AddPrimes(c) \/ RemovePrimes(c) \/ SetPrimes(c) \/ ScaleUp(c) \/ ScaleDown(c)
  \/ Break(c)

Next == Does(call')

Spec == Init /\ [][Next]_vars
=============================================================================
