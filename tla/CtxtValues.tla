----------------------------- MODULE CtxtValues -----------------------------
(***************************************************************************)
(* A ciphertext as the algorithms over ciphertexts see it: the plaintext   *)
(* it decrypts to modulo its plaintext space, whether it is empty, and the *)
(* multiplications behind it.  Each operator is a method of Ctxt by its    *)
(* effect on these; that the methods have this effect is what BGVCtxt and  *)
(* SecKey check.  capacity() falls with the depth.  "ok" is lost with the  *)
(* first exception, or when a precondition on the plaintext is not met.    *)
(***************************************************************************)
LOCAL INSTANCE Integers
LOCAL INSTANCE FiniteSetsExt

Larger(a, b) == IF a >= b THEN a ELSE b

CommonDivisor(a, b) == Max({d \in 1 .. a : a % d = 0 /\ b % d = 0})

(* NTL: the least k with 2^k >= n, and the number of bits of n. *)
NextPowerOfTwo(n) == CHOOSE k \in 0 .. 30 : 2^k >= n /\ (k = 0 \/ 2^(k - 1) < n)
NumBits(n) == CHOOSE k \in 0 .. 30 : n < 2^k /\ (k = 0 \/ 2^(k - 1) <= n)

(* Ctxt(ZeroCtxtLike, ...), and a ciphertext that was just encrypted. *)
Empty(space) == [ok |-> TRUE, empty |-> TRUE, val |-> 0, space |-> space, depth |-> 0]
Encrypted(m, space) == [Empty(space) EXCEPT !.empty = FALSE, !.val = m % space]

Cleared(c) == [c EXCEPT !.empty = TRUE, !.val = 0, !.depth = 0]
Failed(c) == [c EXCEPT !.ok = FALSE]

(* "if (other.isEmpty()) *this = other" keeps the plaintext space of other. *)
MultLowLvl(c, d) ==
  LET g == CommonDivisor(c.space, d.space)
  IN IF c.empty THEN [c EXCEPT !.ok = @ /\ d.ok]
     ELSE IF d.empty THEN [d EXCEPT !.ok = @ /\ c.ok]
     ELSE [ok |-> c.ok /\ d.ok /\ g > 1, empty |-> FALSE, val |-> (c.val * d.val) % g,
           space |-> g, depth |-> 1 + Larger(c.depth, d.depth)]

(* A multiplyBy() is a multLowLvl() and a re-linearization. *)
MultiplyBy(c, d) == MultLowLvl(c, d)

Square(c) == MultiplyBy(c, c)

(* c + sign * d: "if other is empty then do nothing", "just copy other". *)
AddCtxt(c, d, sign) ==
  LET g == CommonDivisor(c.space, d.space)
  IN IF d.empty THEN [c EXCEPT !.ok = @ /\ d.ok]
     ELSE IF c.empty THEN [d EXCEPT !.ok = @ /\ c.ok, !.val = (sign * @) % d.space]
     ELSE [ok |-> c.ok /\ d.ok /\ g > 1, empty |-> FALSE, val |-> (c.val + sign * d.val) % g,
           space |-> g, depth |-> Larger(c.depth, d.depth)]

Plus(c, d) == AddCtxt(c, d, 1)
Minus(c, d) == AddCtxt(c, d, -1)

AddConstant(c, k) ==
  IF k % c.space = 0 THEN c
  ELSE [c EXCEPT !.empty = FALSE, !.val = (@ + k) % c.space]

(* A constant that is 0 modulo the plaintext space clears the ciphertext. *)
MultByConstant(c, k) ==
  IF c.empty THEN c
  ELSE IF k % c.space = 0 THEN Cleared(c)
  ELSE [c EXCEPT !.val = (@ * (k % c.space)) % c.space]

(* "It is assumed that the ciphertext encrypts a polynomial which is zero mod p." *)
DivideByP(c, p) ==
  IF c.empty THEN c
  ELSE [c EXCEPT !.ok = @ /\ c.space % p = 0 /\ c.space > p /\ c.val % p = 0,
                 !.val = @ \div p, !.space = @ \div p]

-----------------------------------------------------------------------------
(* multiplyBy2(): the three ciphertexts are objects of x, and may be one.  *)
(* x[c] is overwritten by each product, and so is every factor that is it. *)

MultiplyInPlace(x, c, i) == [x EXCEPT ![c] = MultLowLvl(@, x[i])]

(* The order in which the factors are taken: the deepest last. *)
OthersFirst(x, c, i, j) == x[c].depth > x[i].depth /\ x[c].depth > x[j].depth

FirstFactor(x, c, i, j) ==
  IF x[c].depth > x[j].depth \/ x[i].depth > x[j].depth THEN j ELSE i

(* Mutant: the second factor is not copied before it is overwritten. *)
InTurnUncopied(x, c, first, second) ==
  MultiplyInPlace(MultiplyInPlace(x, c, first), c, second)

(* x[c] * x[first] * x[second], with a copy "to handle pointer collision". *)
InTurn(x, c, first, second) ==
  LET once == MultiplyInPlace(x, c, first)
      tmp  == x[second]
  IN IF c = second THEN [once EXCEPT ![c] = MultLowLvl(@, tmp)]
     ELSE MultiplyInPlace(once, c, second)

MultiplyBy2(x, c, i, j) ==
  LET first  == FirstFactor(x, c, i, j)
      second == IF first = i THEN j ELSE i
      tmp    == MultLowLvl(x[i], x[j])
  IN IF x[c].empty THEN x
     ELSE IF x[i].empty THEN [x EXCEPT ![c] = x[i]]
     ELSE IF x[j].empty THEN [x EXCEPT ![c] = x[j]]
     ELSE IF OthersFirst(x, c, i, j) THEN [x EXCEPT ![c] = MultLowLvl(@, tmp)]
     ELSE InTurn(x, c, first, second)

Cube(c) == MultiplyBy2([n \in {1} |-> c], 1, 1, 1)[1]
=============================================================================
