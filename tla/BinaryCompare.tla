---------------------------- MODULE BinaryCompare ----------------------------
(***************************************************************************)
(* binaryCompare.cpp: two numbers given bit by bit, the low bit first, as  *)
(* ciphertexts modulo 2.  The two vectors e and g are worked on in place   *)
(* there; here each step returns them as [e, g].                           *)
(***************************************************************************)
EXTENDS Integers, Sequences, CtxtValues

LOCAL INSTANCE SequencesExt

\* A slice of a slice is cut at its end (PtrVector.h).
Slice(v, from, n) ==
  SubSeq(v, from + 1, IF from + n < Len(v) THEN from + n ELSE Len(v))

\* Mutant: the order of the sum is turned around.
RunningSumsFromLow(v) ==
  [i \in DOMAIN v |-> FoldLeft(Plus, v[1], SubSeq(v, 2, i))]

\* v[i] = sum of v[j] over j >= i.
RunningSums(v) == [i \in DOMAIN v |-> FoldRight(LAMBDA c, acc : Plus(c, acc),
                                                SubSeq(v, i, Len(v) - 1), v[Len(v)])]

\* The second part has the size of the largest power of two below n; its first product
\* goes into e[0] and every g of the first part.
RECURSIVE CompProducts(_, _)
CompProducts(e, g) ==
  LET n    == Len(e)
      n1   == n - 2^(NumBits(n - 1) - 1)
      low  == CompProducts(SubSeq(e, 1, n1), Slice(g, 0, n1))
      high == CompProducts(SubSeq(e, n1 + 1, n), Slice(g, n1, n - n1))
      f    == high.e[1]
  IN IF n <= 1 THEN [e |-> e, g |-> g]
     ELSE [e |-> [low.e EXCEPT ![1] = MultiplyBy(@, f)] \o high.e,
           g |-> [i \in DOMAIN low.g |-> MultiplyBy(low.g[i], f)] \o high.g]

\* e[i] = (a = b from bit i up), g[i] = (a > b, seen from bit i up); b is the longer.
CompEqGt(a, b) ==
  LET eq == [i \in DOMAIN b |-> LET notB == AddConstant(b[i], 1)
                                IN IF i \in DOMAIN a THEN Plus(notB, a[i]) ELSE notB]
      gt == [i \in DOMAIN a |-> MultiplyBy(AddConstant(b[i], 1), a[i])]
      products == CompProducts(eq, gt)
  IN [e |-> products.e, g |-> RunningSums(products.g)]

\* mu = a > b, ni = a < b, of the two the shorter is a.  For two's complement, they are
\* flipped when the sign bits differ.
CompareTwoNumbers(aa, bb, twosComplement) ==
  LET swap == Len(bb) < Len(aa)
      a    == IF swap THEN bb ELSE aa
      b    == IF swap THEN aa ELSE bb
      eg   == CompEqGt(a, b)
      Flip(c) == IF twosComplement THEN Plus(Plus(c, Last(aa)), Last(bb)) ELSE c
      mu   == eg.g[1]
      ni   == Plus(AddConstant(mu, 1), eg.e[1])
      diff == [i \in DOMAIN a |-> MultiplyBy(Minus(a[i], b[i]), Flip(eg.g[i]))]
  IN IF a = <<>>
       THEN [mu |-> Empty(2), ni |-> AddConstant(Empty(2), 1), max |-> b, min |-> <<>>]
     ELSE [mu |-> Flip(mu), ni |-> Flip(ni),
           max |-> [i \in DOMAIN b |-> IF i \in DOMAIN a THEN Plus(diff[i], b[i]) ELSE b[i]],
           min |-> [i \in DOMAIN a |-> Minus(diff[i], a[i])]]
=============================================================================
