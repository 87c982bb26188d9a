------------------------- MODULE SerializationProofs -------------------------
(***************************************************************************)
(* Proofs about the binary form: what is written is bytes, and the forms   *)
(* without eye catchers are read back and framed, for every size of a      *)
(* number and every object whose numbers fit.                              *)
(***************************************************************************)
EXTENDS Serialization, ArithmeticProofs, SequenceTheorems, FiniteSetTheorems

-----------------------------------------------------------------------------
(* Recursion over the indices of a sequence.                               *)

IsRecursion(f, n, A, a0, step) ==
  /\ f \in [0 .. n -> A] /\ f[0] = a0
  /\ \A i \in 1 .. n : f[i] = step[i][f[i - 1]]

LEMMA RecursionOverIndices ==
  ASSUME NEW n \in Nat, NEW A, NEW a0 \in A, NEW step \in [1 .. n -> [A -> A]]
  PROVE  \E f : IsRecursion(f, n, A, a0, step)
<1> DEFINE S == {m \in Nat : m =< n => \E f : IsRecursion(f, m, A, a0, step)}
<1>1. 0 \in S
  <2>1. IsRecursion([k \in 0 .. 0 |-> a0], 0, A, a0, step)
    BY DEF IsRecursion
  <2> QED BY <2>1
<1>2. ASSUME NEW m \in Nat, m \in S PROVE m + 1 \in S
  <2>1. SUFFICES ASSUME m + 1 =< n PROVE \E f : IsRecursion(f, m + 1, A, a0, step)
    OBVIOUS
  <2>2. PICK f : IsRecursion(f, m, A, a0, step)
    BY <1>2, <2>1
  <2>3. m + 1 \in 1 .. n /\ m \in 0 .. m /\ f[m] \in A
    BY <2>1, <2>2 DEF IsRecursion
  <2>4. step[m + 1][f[m]] \in A
    BY <2>3
  <2> DEFINE g == [k \in 0 .. m + 1 |-> IF k = m + 1 THEN step[m + 1][f[m]] ELSE f[k]]
  <2>5. g \in [0 .. m + 1 -> A] /\ g[0] = a0
    BY <2>2, <2>4 DEF IsRecursion
  <2>6. ASSUME NEW k \in 1 .. m + 1 PROVE g[k] = step[k][g[k - 1]]
    <3>1. CASE k = m + 1
      <4>1. k - 1 = m /\ k - 1 \in 0 .. m + 1 /\ k \in 0 .. m + 1 /\ k - 1 # m + 1
        BY <3>1
      <4> QED BY <3>1, <4>1
    <3>2. CASE k # m + 1
      <4>1. k \in 1 .. m /\ k \in 0 .. m + 1 /\ k - 1 \in 0 .. m + 1 /\ k - 1 # m + 1
        BY <3>2
      <4>2. f[k] = step[k][f[k - 1]]
        BY <2>2, <4>1 DEF IsRecursion
      <4> QED BY <3>2, <4>1, <4>2
    <3> QED BY <3>1, <3>2
  <2>7. IsRecursion(g, m + 1, A, a0, step)
    BY <2>5, <2>6 DEF IsRecursion
  <2> QED BY <2>7
<1> HIDE DEF S
<1>3. n \in S
  BY <1>1, <1>2, Induction
<1> QED BY <1>3 DEF S

-----------------------------------------------------------------------------
(* FlattenSeq.                                                             *)

LEMMA FlattenUnfolds ==
  ASSUME NEW A, NEW s \in Seq(Seq(A)), Len(s) # 0
  PROVE  \E f \in [1 .. Len(s) -> Seq(A)] :
           /\ f = [i \in 1 .. Len(s) |-> IF i = 1 THEN s[i] ELSE f[i - 1] \o s[i]]
           /\ FlattenSeq(s) = f[Len(s)]
<1> DEFINE n == Len(s)
           B == Seq(A)
           step == [i \in 1 .. n |-> [b \in B |-> IF i = 1 THEN s[i] ELSE b \o s[i]]]
           Is(f) == f = [i \in 1 .. n |-> IF i = 1 THEN s[i] ELSE f[i - 1] \o s[i]]
<1>1. n \in Nat \ {0} /\ \A i \in 1 .. n : s[i] \in B
  OBVIOUS
<1>2. step \in [1 .. n -> [B -> B]] /\ <<>> \in B
  BY <1>1
<1>3. \A i \in 1 .. n, b \in B : step[i][b] = IF i = 1 THEN s[i] ELSE b \o s[i]
  OBVIOUS
<1> HIDE DEF n, B, step
<1>4. PICK h : IsRecursion(h, n, B, <<>>, step)
  BY <1>1, <1>2, RecursionOverIndices
<1> DEFINE f == [i \in 1 .. n |-> h[i]]
<1>5. f \in [1 .. n -> B]
  BY <1>1, <1>4 DEF IsRecursion
<1>6. ASSUME NEW i \in 1 .. n PROVE f[i] = IF i = 1 THEN s[i] ELSE f[i - 1] \o s[i]
  <2>1. i - 1 \in 0 .. n /\ h[i - 1] \in B /\ h[i] = step[i][h[i - 1]]
    BY <1>1, <1>4 DEF IsRecursion
  <2>2. i # 1 => i - 1 \in 1 .. n
    BY <1>1
  <2> QED BY <1>3, <2>1, <2>2
<1>7. Is(f)
  BY <1>5, <1>6
<1> HIDE DEF f
<1> DEFINE g == CHOOSE e : Is(e)
<1>8. Is(g)
  BY <1>7
<1>9. FlattenSeq(s) = g[n]
  BY <1>1 DEF FlattenSeq, n
<1> HIDE DEF g
<1>10. g \in [1 .. n -> B]
  <2> DEFINE T == {i \in Nat : i + 1 \in 1 .. n => g[i + 1] \in B}
  <2>1. 0 \in T
    BY <1>1, <1>8
  <2>2. ASSUME NEW i \in Nat, i \in T PROVE i + 1 \in T
    <3>1. SUFFICES ASSUME (i + 1) + 1 \in 1 .. n PROVE g[(i + 1) + 1] \in B
      OBVIOUS
    <3>2. i + 1 \in 1 .. n /\ g[i + 1] \in B /\ ((i + 1) + 1) - 1 = i + 1 /\ (i + 1) + 1 # 1
      BY <1>1, <2>2, <3>1
    <3>3. g[(i + 1) + 1] = g[i + 1] \o s[(i + 1) + 1]
      BY <1>8, <3>1, <3>2
    <3> QED BY <1>1, <3>1, <3>2, <3>3 DEF B
  <2> HIDE DEF T
  <2>3. Nat \subseteq T
    BY <2>1, <2>2, Induction
  <2>4. ASSUME NEW i \in 1 .. n PROVE g[i] \in B
    <3>1. i - 1 \in Nat /\ (i - 1) + 1 = i
      BY <1>1
    <3> QED BY <2>3, <3>1 DEF T
  <2>5. g = [i \in 1 .. n |-> g[i]]
    BY <1>8
  <2> QED BY <2>4, <2>5
<1> QED BY <1>8, <1>9, <1>10 DEF n, B

LEMMA FlattenEmpty == FlattenSeq(<<>>) = <<>>
BY DEF FlattenSeq

LEMMA FlattenAppend ==
  ASSUME NEW A, NEW s \in Seq(Seq(A)), NEW x \in Seq(A)
  PROVE  FlattenSeq(Append(s, x)) = FlattenSeq(s) \o x
<1> DEFINE t == Append(s, x)
           n == Len(s)
<1>1. /\ n \in Nat /\ t \in Seq(Seq(A)) /\ Len(t) = n + 1 /\ Len(t) # 0 /\ t[n + 1] = x
      /\ \A i \in 1 .. n : t[i] = s[i]
  OBVIOUS
<1> HIDE DEF t
<1>2. PICK g \in [1 .. Len(t) -> Seq(A)] :
        /\ g = [i \in 1 .. Len(t) |-> IF i = 1 THEN t[i] ELSE g[i - 1] \o t[i]]
        /\ FlattenSeq(t) = g[Len(t)]
  BY <1>1, FlattenUnfolds
<1>3. \A i \in 1 .. n + 1 : g[i] = IF i = 1 THEN t[i] ELSE g[i - 1] \o t[i]
  BY <1>1, <1>2
<1>4. CASE n = 0
  <2>1. s = <<>>
    BY <1>4
  <2>2. FlattenSeq(t) = x
    BY <1>1, <1>2, <1>3, <1>4
  <2>3. <<>> \o x = x
    BY ConcatEmptySeq
  <2> QED BY <2>1, <2>2, <2>3, FlattenEmpty DEF t
<1>5. CASE n # 0
  <2>1. PICK f \in [1 .. n -> Seq(A)] :
          /\ f = [i \in 1 .. n |-> IF i = 1 THEN s[i] ELSE f[i - 1] \o s[i]]
          /\ FlattenSeq(s) = f[n]
    BY <1>5, FlattenUnfolds
  <2>2. \A i \in 1 .. n : f[i] = IF i = 1 THEN s[i] ELSE f[i - 1] \o s[i]
    BY <2>1
  <2> HIDE DEF n
  <2> DEFINE T == {i \in Nat : i + 1 \in 1 .. n => g[i + 1] = f[i + 1]}
  <2>3. 0 \in T
    <3>1. 1 \in 1 .. n /\ 1 \in 1 .. n + 1 /\ 0 + 1 = 1
      BY <1>1, <1>5
    <3>2. g[1] = t[1] /\ f[1] = s[1]
      BY <1>3, <2>2, <3>1
    <3> QED BY <1>1, <3>1, <3>2
  <2>4. ASSUME NEW i \in Nat, i \in T PROVE i + 1 \in T
    <3>1. SUFFICES ASSUME (i + 1) + 1 \in 1 .. n PROVE g[(i + 1) + 1] = f[(i + 1) + 1]
      OBVIOUS
    <3>2. /\ i + 1 \in 1 .. n /\ ((i + 1) + 1) - 1 = i + 1 /\ (i + 1) + 1 # 1
          /\ (i + 1) + 1 \in 1 .. n + 1
      BY <1>1, <3>1
    <3>3. g[i + 1] = f[i + 1]
      BY <2>4, <3>2
    <3> DEFINE k == (i + 1) + 1
    <3>4. g[k] = g[k - 1] \o t[k]
      BY <1>3, <3>2
    <3>5. f[k] = f[k - 1] \o s[k]
      BY <2>2, <3>1, <3>2
    <3>6. k - 1 = i + 1 /\ t[k] = s[k]
      BY <1>1, <3>1, <3>2
    <3> QED BY <3>3, <3>4, <3>5, <3>6
  <2> HIDE DEF T
  <2>5. Nat \subseteq T
    BY <2>3, <2>4, Induction
  <2>6. g[n] = f[n]
    <3>1. n - 1 \in Nat /\ (n - 1) + 1 = n /\ n \in 1 .. n
      BY <1>1, <1>5
    <3> QED BY <2>5, <3>1 DEF T
  <2>7. g[n + 1] = g[n] \o x
    <3>1. n + 1 \in 1 .. n + 1 /\ n + 1 # 1 /\ (n + 1) - 1 = n
      BY <1>1, <1>5
    <3> QED BY <1>1, <1>3, <3>1
  <2> QED BY <1>1, <1>2, <2>1, <2>6, <2>7 DEF t
<1> QED BY <1>4, <1>5

LEMMA FlattenIsSeq ==
  ASSUME NEW A, NEW s \in Seq(Seq(A))
  PROVE  FlattenSeq(s) \in Seq(A)
<1>1. CASE Len(s) = 0
  <2>1. s = <<>> /\ <<>> \in Seq(A)
    BY <1>1
  <2> QED BY <2>1, FlattenEmpty
<1>2. CASE Len(s) # 0
  <2>1. PICK f \in [1 .. Len(s) -> Seq(A)] : FlattenSeq(s) = f[Len(s)]
    BY <1>2, FlattenUnfolds
  <2>2. Len(s) \in 1 .. Len(s)
    BY <1>2
  <2> QED BY <2>1, <2>2
<1> QED BY <1>1, <1>2

\* What holds of <<>>, and of a sequence when it holds of all but its last element.
LEMMA SequenceInduction ==
  ASSUME NEW B, NEW S, <<>> \in S, \A t \in Seq(B), x \in B : t \in S => Append(t, x) \in S
  PROVE  Seq(B) \subseteq S
<1> DEFINE N == {n \in Nat : \A s \in Seq(B) : Len(s) = n => s \in S}
<1>1. 0 \in N
  <2>1. \A s \in Seq(B) : Len(s) = 0 => s = <<>>
    OBVIOUS
  <2> QED BY <2>1
<1>2. ASSUME NEW n \in Nat, n \in N PROVE n + 1 \in N
  <2>1. SUFFICES ASSUME NEW s \in Seq(B), Len(s) = n + 1 PROVE s \in S
    OBVIOUS
  <2>2. s # <<>>
    BY <2>1
  <2>3. PICK t \in Seq(B), x \in B : s = Append(t, x)
    BY <2>2, SequenceEmptyOrAppend
  <2>4. Len(t) = n
    BY <2>1, <2>3
  <2> QED BY <1>2, <2>3, <2>4
<1> HIDE DEF N
<1>3. Nat \subseteq N
  BY <1>1, <1>2, Induction
<1>4. ASSUME NEW s \in Seq(B) PROVE s \in S
  <2>1. Len(s) \in N
    BY <1>3
  <2> QED BY <2>1 DEF N
<1> QED BY <1>4

LEMMA FlattenConcat ==
  ASSUME NEW A, NEW s \in Seq(Seq(A)), NEW t \in Seq(Seq(A))
  PROVE  FlattenSeq(s \o t) = FlattenSeq(s) \o FlattenSeq(t)
<1> DEFINE B == Seq(A)
           S == {u \in Seq(B) : FlattenSeq(s \o u) = FlattenSeq(s) \o FlattenSeq(u)}
<1>1. <<>> \in S
  <2>1. s \o <<>> = s /\ FlattenSeq(s) \in Seq(A) /\ <<>> \in Seq(B)
    BY ConcatEmptySeq, FlattenIsSeq
  <2>2. FlattenSeq(s) \o <<>> = FlattenSeq(s)
    BY <2>1, ConcatEmptySeq
  <2> QED BY <2>1, <2>2, FlattenEmpty
<1>2. ASSUME NEW u \in Seq(B), NEW x \in B, u \in S PROVE Append(u, x) \in S
  <2>1. s \o Append(u, x) = Append(s \o u, x) /\ s \o u \in Seq(B) /\ Append(u, x) \in Seq(B)
    OBVIOUS
  <2>2. FlattenSeq(s \o Append(u, x)) = FlattenSeq(s \o u) \o x
    BY <2>1, FlattenAppend
  <2>3. FlattenSeq(Append(u, x)) = FlattenSeq(u) \o x
    BY FlattenAppend
  <2>4. FlattenSeq(s) \in Seq(A) /\ FlattenSeq(u) \in Seq(A)
    BY FlattenIsSeq
  <2>5. (FlattenSeq(s) \o FlattenSeq(u)) \o x = FlattenSeq(s) \o (FlattenSeq(u) \o x)
    <3> DEFINE a == FlattenSeq(s)
               b == FlattenSeq(u)
    <3>1. a \in Seq(A) /\ b \in Seq(A) /\ x \in Seq(A)
      BY <2>4
    <3> HIDE DEF a, b
    <3>2. (a \o b) \o x = a \o (b \o x)
      BY <3>1, ConcatAssociative
    <3> QED BY <3>2 DEF a, b
  <2> QED BY <1>2, <2>1, <2>2, <2>3, <2>5
<1> HIDE DEF S
<1>3. t \in S
  BY <1>1, <1>2, SequenceInduction
<1> QED BY <1>3 DEF S

LEMMA FlattenOne ==
  ASSUME NEW A, NEW x \in Seq(A)
  PROVE  FlattenSeq(<<x>>) = x
<1>1. <<x>> = Append(<<>>, x) /\ <<>> \in Seq(Seq(A))
  OBVIOUS
<1>2. <<>> \o x = x
  BY ConcatEmptySeq
<1> QED BY <1>1, <1>2, FlattenAppend, FlattenEmpty

\* Sequences of one length.
Uniform(s, w) == \A i \in 1 .. Len(s) : Len(s[i]) = w

LEMMA FlattenUniform ==
  ASSUME NEW A, NEW w \in Nat, NEW s \in Seq(Seq(A)), Uniform(s, w)
  PROVE  /\ Len(FlattenSeq(s)) = Len(s) * w
         /\ \A i \in 1 .. Len(s), j \in 1 .. w : FlattenSeq(s)[(i - 1) * w + j] = s[i][j]
<1> DEFINE B == {b \in Seq(A) : Len(b) = w}
           S == {u \in Seq(B) :
                   /\ Len(FlattenSeq(u)) = Len(u) * w
                   /\ \A i \in 1 .. Len(u), j \in 1 .. w :
                        FlattenSeq(u)[(i - 1) * w + j] = u[i][j]}
<1>1. <<>> \in S
  BY FlattenEmpty
<1>2. ASSUME NEW u \in Seq(B), NEW x \in B, u \in S PROVE Append(u, x) \in S
  <2> DEFINE n == Len(u)
             f == FlattenSeq(u)
             t == Append(u, x)
  <2>1. u \in Seq(Seq(A)) /\ x \in Seq(A) /\ n \in Nat /\ Len(x) = w
    OBVIOUS
  <2>2. f \in Seq(A) /\ FlattenSeq(t) = f \o x
    BY <2>1, FlattenIsSeq, FlattenAppend
  <2>3. t \in Seq(B) /\ Len(t) = n + 1 /\ t[n + 1] = x /\ \A i \in 1 .. n : t[i] = u[i]
    OBVIOUS
  <2>4. Len(f) = n * w /\ \A i \in 1 .. n, j \in 1 .. w : f[(i - 1) * w + j] = u[i][j]
    BY <1>2
  <2> HIDE DEF n, f, t, B, S
  <2>5. n * w \in Nat /\ (n + 1) * w = n * w + w
    BY <2>1, IntRing
  <2>6. Len(f \o x) = (n + 1) * w
    <3>1. Len(f \o x) = Len(f) + Len(x)
      BY <2>1, <2>2, ConcatProperties
    <3> QED BY <2>1, <2>4, <2>5, <3>1
  <2>7. ASSUME NEW i \in 1 .. n + 1, NEW j \in 1 .. w
        PROVE  (f \o x)[(i - 1) * w + j] = t[i][j]
    <3>1. CASE i = n + 1
      <4>1. (i - 1) * w = n * w
        BY <2>1, <3>1
      <4>2. n * w + j \in 1 .. Len(f) + Len(x) /\ ~ (n * w + j =< Len(f))
            /\ (n * w + j) - Len(f) = j
        BY <2>1, <2>4, <2>5
      <4> QED BY <2>1, <2>2, <2>3, <3>1, <4>1, <4>2, ConcatProperties
    <3>2. CASE i # n + 1
      <4>1. i \in 1 .. n /\ i - 1 \in Nat /\ n - i \in Nat
        BY <2>1, <3>2
      <4>2. (i - 1) * w \in Nat /\ (n - i) * w \in Nat
            /\ (i - 1) * w + w + (n - i) * w = n * w
        <5>1. (i - 1) * w = i * w - w /\ (n - i) * w = n * w - i * w /\ i * w \in Int
          BY <2>1, <4>1, IntRing
        <5>2. (i - 1) * w \in Nat /\ (n - i) * w \in Nat
          BY <4>1
        <5> QED BY <2>5, <5>1, <5>2
      <4>3. (i - 1) * w + j \in 1 .. Len(f)
        <5> DEFINE a == (i - 1) * w
                   b == (n - i) * w
                   c == n * w
        <5>1. a \in Nat /\ b \in Nat /\ a + w + b = c /\ Len(f) = c
          BY <2>4, <4>2
        <5> HIDE DEF a, b, c
        <5>2. a + j \in 1 .. Len(f)
          BY <5>1
        <5> QED BY <5>2 DEF a
      <4>4. (f \o x)[(i - 1) * w + j] = f[(i - 1) * w + j]
        BY <2>1, <2>2, <4>3, ConcatProperties
      <4> QED BY <2>3, <2>4, <4>1, <4>4
    <3> QED BY <3>1, <3>2
  <2> QED BY <2>2, <2>3, <2>6, <2>7 DEF S, t
<1>3. s \in Seq(B)
  <2>1. \A i \in 1 .. Len(s) : s[i] \in B
    BY DEF Uniform
  <2>2. s = [i \in 1 .. Len(s) |-> s[i]] /\ Len(s) \in Nat
    BY LenProperties
  <2> HIDE DEF B
  <2>3. [i \in 1 .. Len(s) |-> s[i]] \in Seq(B)
    BY <2>1, <2>2
  <2> QED BY <2>2, <2>3
<1> HIDE DEF S
<1>4. s \in S
  BY <1>1, <1>2, <1>3, SequenceInduction
<1> QED BY <1>4 DEF S

-----------------------------------------------------------------------------
(* Numbers and their bytes.                                                *)

LEMMA ThreeLists ==
  ASSUME NEW s \in Seq(Symbols), NEW t \in Seq(Symbols), NEW u \in Seq(Symbols)
  PROVE  (s \o t) \o u = s \o (t \o u)
<1> DEFINE X == Symbols
<1>1. s \in Seq(X) /\ t \in Seq(X) /\ u \in Seq(X)
  OBVIOUS
<1> HIDE DEF X
<1> QED BY <1>1, ConcatAssociative

LEMMA SymbolsAreNumbers ==
  /\ 0 .. Base - 1 \subseteq Symbols /\ Symbols \subseteq Nat
  /\ \A c \in Catchers : Eye[c] \in Symbols
<1>1. Base \in Nat
  BY SizesAssumption
<1>2. DOMAIN CatcherList \subseteq Nat
  BY DEF CatcherList
<1>3. ASSUME NEW c \in Catchers PROVE Eye[c] \in Nat /\ Eye[c] \in Symbols
  <2>1. \E i \in DOMAIN CatcherList : CatcherList[i] = c
    BY DEF Catchers, ToSet
  <2>2. (CHOOSE i \in DOMAIN CatcherList : CatcherList[i] = c) \in DOMAIN CatcherList
    BY <2>1
  <2>3. PICK k \in Nat : Eye[c] = Base + k
    BY <1>2, <2>2 DEF Eye
  <2> QED BY <1>1, <2>3 DEF Symbols
<1> QED BY <1>1, <1>3 DEF Symbols

LEMMA PowerIsDefined ==
  /\ Power \in [Nat -> Positive] /\ Power[0] = 1
  /\ \A i \in Nat : Power[i + 1] = Base * Power[i]
<1> DEFINE step == [n \in Positive |-> Base * n]
           Is(f) == f = [i \in Nat |-> IF i = 0 THEN 1 ELSE Base * f[i - 1]]
<1>0. Base \in Positive
  BY SizesAssumption DEF Positive
<1>1. step \in [Positive -> Positive]
  <2>1. \A n \in Positive : Base * n \in Positive
    BY <1>0 DEF Positive
  <2> QED BY <2>1
<1>2. PICK f \in [Nat -> Positive] : f[0] = 1 /\ \A n \in Nat : f[n + 1] = step[f[n]]
  <2>1. 1 \in Positive
    BY DEF Positive
  <2> HIDE DEF step
  <2>2. PICK f : IsIteration(f, Positive, 1, step)
    BY <1>1, <2>1, Recursion
  <2> QED BY <2>2 DEF IsIteration
<1>3. Is(f)
  <2>1. ASSUME NEW i \in Nat, i # 0 PROVE f[i] = Base * f[i - 1]
    <3>1. i - 1 \in Nat /\ (i - 1) + 1 = i
      BY <2>1
    <3> QED BY <1>2, <2>1, <3>1
  <2>2. f = [i \in Nat |-> f[i]] /\ f[0] = 1
    BY <1>2
  <2> QED BY <2>1, <2>2
<1>4. Power = CHOOSE g : Is(g)
  BY DEF Power
<1>5. Is(Power)
  BY <1>3, <1>4
<1>6. Power = [i \in Nat |-> IF i = 0 THEN 1 ELSE Base * Power[i - 1]]
  BY <1>5
<1> HIDE DEF Is, step
<1>7. Power[0] = 1
  BY <1>6
<1>8. ASSUME NEW i \in Nat PROVE Power[i + 1] = Base * Power[i]
  <2>1. i + 1 \in Nat /\ i + 1 # 0 /\ (i + 1) - 1 = i
    OBVIOUS
  <2> QED BY <1>6, <2>1
<1>9. ASSUME NEW i \in Nat PROVE Power[i] \in Positive
  <2> DEFINE S == {j \in Nat : Power[j] \in Positive}
  <2>1. 0 \in S
    BY <1>7 DEF Positive
  <2>2. ASSUME NEW j \in Nat, j \in S PROVE j + 1 \in S
    BY <1>0, <1>8, <2>2 DEF Positive
  <2> HIDE DEF S
  <2>3. Nat \subseteq S
    BY <2>1, <2>2, Induction
  <2> QED BY <2>3 DEF S
<1>10. Power \in [Nat -> Positive]
  BY <1>6, <1>9
<1> QED BY <1>7, <1>8, <1>10

\* A residue, one digit further.
LEMMA NextDigit ==
  ASSUME NEW n \in Int, NEW a \in Positive, NEW b \in Positive
  PROVE  n % (b * a) = (n % a) + ((n \div a) % b) * a
<1> DEFINE q == n \div a
           r == n % a
           c == q \div b
           d == q % b
           m == b * a
<1>1. /\ q \in Int /\ r \in 0 .. a - 1 /\ n = a * q + r
      /\ c \in Int /\ d \in 0 .. b - 1 /\ q = b * c + d /\ a \in Int /\ b \in Int /\ a > 0 /\ b > 0
  BY DivMod DEF Positive
<1> HIDE DEF q, r, c, d
<1>2. d * a + r \in 0 .. m - 1 /\ m \in Positive
  <2>1. d * a \in Int /\ (b - 1 - d) * a \in Int /\ m \in Int
    BY <1>1
  <2>2. d * a >= 0 /\ (b - 1 - d) * a >= 0
    <3>1. d >= 0 /\ b - 1 - d >= 0
      BY <1>1
    <3> QED BY <1>1, <3>1
  <2>3. (b - 1 - d) * a = (b - 1) * a - d * a /\ (b - 1) * a = m - a
    <3>1. 1 * a = a /\ b - 1 \in Int /\ d \in Int
      BY <1>1
    <3> QED BY <1>1, <3>1, IntRing
  <2> HIDE DEF m
  <2>4. d * a + r =< m - 1
    BY <1>1, <2>1, <2>2, <2>3
  <2> QED BY <1>1, <2>1, <2>2, <2>4 DEF Positive
<1>3. n - (d * a + r) = m * c
  <2>1. a * q = a * (b * c) + a * d /\ a * (b * c) \in Int /\ a * d \in Int /\ d * a = a * d
    BY <1>1, IntRing
  <2>2. a * (b * c) = m * c
    BY <1>1, IntRing
  <2> QED BY <1>1, <2>1, <2>2
<1> HIDE DEF m
<1>4. Cong(n, d * a + r, m)
  BY <1>1, <1>3 DEF Cong, Divides
<1>5. n % m \in 0 .. m - 1 /\ Cong(n % m, n, m) /\ m \in Int
  <2>1. n % m \in 0 .. m - 1
    BY <1>2, DivMod
  <2>2. Cong(n % m, n, m)
    BY <1>2, CongMod
  <2> QED BY <1>2, <2>1, <2>2 DEF Positive
<1>6. Cong(n % m, d * a + r, m)
  <2>1. n % m \in Int /\ d * a + r \in Int
    BY <1>2, <1>5
  <2> QED BY <1>4, <1>5, <2>1, CongTrans
<1>7. n % m = d * a + r
  BY <1>2, <1>5, <1>6, CongUnique
<1>8. d * a + r = r + d * a
  BY <1>1
<1> QED BY <1>7, <1>8 DEF m, q, r, c, d

\* The partial sums of read_raw_int.
LEMMA UnsignedUnfolds ==
  ASSUME NEW bytes \in Seq(Nat)
  PROVE  \E f : /\ f \in [0 .. Len(bytes) -> Nat] /\ f[0] = 0
                /\ \A i \in 1 .. Len(bytes) :
                     f[i] = f[i - 1] + (bytes[i] % Base) * Power[i - 1]
                /\ Unsigned(bytes) = f[Len(bytes)]
<1> DEFINE n == Len(bytes)
           step == [i \in 1 .. n |-> [k \in Nat |-> k + (bytes[i] % Base) * Power[i - 1]]]
           Is(f) == f = [i \in 0 .. n |-> IF i = 0 THEN 0
                                          ELSE f[i - 1] + (bytes[i] % Base) * Power[i - 1]]
<1>1. n \in Nat /\ \A i \in 1 .. n : bytes[i] \in Nat
  OBVIOUS
<1>2. ASSUME NEW i \in 1 .. n PROVE (bytes[i] % Base) * Power[i - 1] \in Nat
  <2>1. bytes[i] % Base \in Nat
    BY <1>1, SizesAssumption
  <2>2. Power[i - 1] \in Nat
    <3>1. i - 1 \in Nat
      BY <1>1
    <3> QED BY <3>1, PowerIsDefined DEF Positive
  <2> QED BY <2>1, <2>2
<1>3. \A i \in 1 .. n, k \in Nat : step[i][k] = k + (bytes[i] % Base) * Power[i - 1]
  OBVIOUS
<1>4. step \in [1 .. n -> [Nat -> Nat]]
  BY <1>2
<1> HIDE DEF step, n
<1>5. PICK h : IsRecursion(h, n, Nat, 0, step)
  BY <1>1, <1>4, RecursionOverIndices
<1>6. ASSUME NEW i \in 1 .. n PROVE h[i] = h[i - 1] + (bytes[i] % Base) * Power[i - 1]
  <2>1. i - 1 \in 0 .. n
    BY <1>1
  <2>2. h[i] = step[i][h[i - 1]] /\ h \in [0 .. n -> Nat]
    BY <1>5 DEF IsRecursion
  <2>3. h[i - 1] \in Nat
    BY <2>1, <2>2
  <2> QED BY <1>3, <2>2, <2>3
<1>7. Is(h)
  <2>1. h = [i \in 0 .. n |-> h[i]] /\ h[0] = 0
    BY <1>5 DEF IsRecursion
  <2>2. \A i \in 0 .. n : i # 0 => i \in 1 .. n
    BY <1>1
  <2> QED BY <1>6, <2>1, <2>2
<1> DEFINE g == CHOOSE f : Is(f)
<1>8. Is(g)
  BY <1>7
<1>9. Unsigned(bytes) = g[n]
  BY DEF Unsigned, n
<1> HIDE DEF g
<1>10. g[0] = 0
  BY <1>1, <1>8
<1>11. ASSUME NEW i \in 1 .. n PROVE g[i] = g[i - 1] + (bytes[i] % Base) * Power[i - 1]
  <2>1. i \in 0 .. n /\ i # 0
    BY <1>1
  <2> QED BY <1>8, <2>1
<1>12. g \in [0 .. n -> Nat]
  <2> DEFINE T == {i \in Nat : i =< n => g[i] \in Nat}
  <2>1. 0 \in T
    BY <1>10
  <2>2. ASSUME NEW i \in Nat, i \in T PROVE i + 1 \in T
    <3>1. SUFFICES ASSUME i + 1 =< n PROVE g[i + 1] \in Nat
      OBVIOUS
    <3>2. i + 1 \in 1 .. n /\ (i + 1) - 1 = i /\ g[i] \in Nat
      BY <1>1, <2>2, <3>1
    <3> DEFINE d == (bytes[i + 1] % Base) * Power[(i + 1) - 1]
    <3>3. g[i + 1] = g[i] + d /\ d \in Nat
      BY <1>2, <1>11, <3>2
    <3> QED BY <3>2, <3>3
  <2> HIDE DEF T
  <2>3. Nat \subseteq T
    BY <2>1, <2>2, Induction
  <2>4. ASSUME NEW i \in 0 .. n PROVE g[i] \in Nat
    BY <1>1, <2>3 DEF T
  <2>5. g = [i \in 0 .. n |-> g[i]]
    BY <1>8
  <2> QED BY <2>4, <2>5
<1> QED BY <1>9, <1>10, <1>11, <1>12 DEF n

LEMMA UnsignedIsNumber ==
  ASSUME NEW bytes \in Seq(Nat)
  PROVE  Unsigned(bytes) \in Nat
<1>1. PICK f : f \in [0 .. Len(bytes) -> Nat] /\ Unsigned(bytes) = f[Len(bytes)]
  BY UnsignedUnfolds
<1> QED BY <1>1

LEMMA NumberIsBytes ==
  ASSUME NEW n \in Int, NEW w \in Nat
  PROVE  /\ Number(n, w) \in Seq(0 .. Base - 1) /\ Number(n, w) \in Seq(Symbols)
         /\ Number(n, w) \in Seq(Nat) /\ Len(Number(n, w)) = w
         /\ \A i \in 1 .. w : Number(n, w)[i] = (n \div Power[i - 1]) % Base
<1>1. ASSUME NEW i \in 1 .. w PROVE (n \div Power[i - 1]) % Base \in 0 .. Base - 1
  <2>1. Power[i - 1] \in Positive /\ Base \in Positive
    BY PowerIsDefined, SizesAssumption DEF Positive
  <2>2. n \div Power[i - 1] \in Int
    BY <2>1, DivMod
  <2> QED BY <2>1, <2>2, DivMod
<1>2. Number(n, w) \in Seq(0 .. Base - 1) /\ Len(Number(n, w)) = w
  BY <1>1 DEF Number
<1>3. \A i \in 1 .. w : Number(n, w)[i] = (n \div Power[i - 1]) % Base
  BY DEF Number
<1>4. 0 .. Base - 1 \subseteq Symbols /\ 0 .. Base - 1 \subseteq Nat
  BY SymbolsAreNumbers, SizesAssumption
<1>5. Number(n, w) \in Seq(Symbols) /\ Number(n, w) \in Seq(Nat)
  BY <1>2, <1>4, SeqMonotonic
<1> QED BY <1>2, <1>3, <1>5

\* What read_raw_int makes of what write_raw_int wrote, as an unsigned number.
LEMMA UnsignedOfNumber ==
  ASSUME NEW n \in Int, NEW w \in Nat
  PROVE  Unsigned(Number(n, w)) = n % Power[w]
<1> DEFINE bytes == Number(n, w)
<1>1. bytes \in Seq(Nat) /\ Len(bytes) = w
      /\ \A i \in 1 .. w : bytes[i] = (n \div Power[i - 1]) % Base
  BY NumberIsBytes
<1> HIDE DEF bytes
<1>2. PICK f : /\ f \in [0 .. w -> Nat] /\ f[0] = 0 /\ Unsigned(bytes) = f[w]
               /\ \A i \in 1 .. w : f[i] = f[i - 1] + (bytes[i] % Base) * Power[i - 1]
  BY <1>1, UnsignedUnfolds
<1> DEFINE S == {i \in Nat : i =< w => f[i] = n % Power[i]}
<1>3. 0 \in S
  <2>1. n % 1 = 0
    OBVIOUS
  <2> QED BY <1>2, <2>1, PowerIsDefined
<1>4. ASSUME NEW i \in Nat, i \in S PROVE i + 1 \in S
  <2>1. SUFFICES ASSUME i + 1 =< w PROVE f[i + 1] = n % Power[i + 1]
    OBVIOUS
  <2>2. i + 1 \in 1 .. w /\ (i + 1) - 1 = i /\ f[i] = n % Power[i]
    BY <1>4, <2>1
  <2>3. f[i + 1] = (n % Power[i]) + (((n \div Power[i]) % Base) % Base) * Power[i]
    BY <1>1, <1>2, <2>2
  <2>4. Power[i] \in Positive /\ Base \in Positive /\ Power[i + 1] = Base * Power[i]
    BY PowerIsDefined, SizesAssumption DEF Positive
  <2>5. ((n \div Power[i]) % Base) % Base = (n \div Power[i]) % Base
    <3>1. n \div Power[i] \in Int
      BY <2>4, DivMod
    <3>2. (n \div Power[i]) % Base \in 0 .. Base - 1
      BY <2>4, <3>1, DivMod
    <3>3. Base \in Nat /\ Base > 0
      BY <2>4 DEF Positive
    <3> QED BY <3>2, <3>3
  <2>6. n % (Base * Power[i]) = (n % Power[i]) + ((n \div Power[i]) % Base) * Power[i]
    BY <2>4, NextDigit
  <2> QED BY <2>3, <2>4, <2>5, <2>6
<1> HIDE DEF S
<1>5. w \in S
  BY <1>3, <1>4, Induction
<1> QED BY <1>2, <1>5 DEF S, bytes

LEMMA NumberIsReadBack ==
  ASSUME NEW n \in Int, NEW w \in Nat, Fits(n, w)
  PROVE  Signed(Unsigned(Number(n, w)), w) = n
<1> DEFINE a == Power[w]
           h == a \div 2
<1>1. a \in Positive /\ a \in Nat /\ a > 0 /\ h \in Nat /\ 2 * h =< a
  BY PowerIsDefined DEF Positive
<1>2. -h =< n /\ n < h
  BY DEF Fits
<1>3. Unsigned(Number(n, w)) = n % a
  BY UnsignedOfNumber
<1> HIDE DEF a
<1>4. CASE n >= 0
  <2>1. n % a = n
    <3>1. n \in 0 .. a - 1
      BY <1>1, <1>2, <1>4
    <3> QED BY <1>1, <3>1
  <2> QED BY <1>2, <1>3, <2>1 DEF Signed, a
<1>5. CASE n < 0
  <2>1. n + a \in 0 .. a - 1
    BY <1>1, <1>2, <1>5
  <2>2. n % a = n + a
    <3>1. Cong(n, n + a, a)
      <4>1. n - (n + a) = a * (-1) /\ -1 \in Int
        BY <1>1
      <4> QED BY <4>1 DEF Cong, Divides
    <3>2. n % a = (n + a) % a
      <4>1. n + a \in Int
        BY <1>1
      <4> QED BY <1>1, <3>1, <4>1, CongIffMod
    <3>3. (n + a) % a = n + a
      BY <1>1, <2>1
    <3> QED BY <3>2, <3>3
  <2>3. ~ n + a < h /\ (n + a) - a = n
    BY <1>1, <1>2
  <2> QED BY <1>3, <2>2, <2>3 DEF Signed, a
<1> QED BY <1>4, <1>5

-----------------------------------------------------------------------------
(* Readers.                                                                *)

Reader == [bytes : Seq(Symbols), values : Seq(Seq(Int)), ok : BOOLEAN, stack : BOOLEAN,
           ub : BOOLEAN]

\* p with other bytes left, and other values read.
Now(p, bytes, values) == [p EXCEPT !.bytes = bytes, !.values = values]

LEMMA ReaderFields ==
  ASSUME NEW p \in Reader
  PROVE  /\ p.bytes \in Seq(Symbols) /\ p.values \in Seq(Seq(Int)) /\ p.ok \in BOOLEAN
         /\ p.stack \in BOOLEAN /\ p.ub \in BOOLEAN
         /\ Throw(p) \in Reader /\ ~ Throw(p).ok /\ Throw(p).bytes = p.bytes
BY DEF Reader, Throw

LEMMA NowIsReader ==
  ASSUME NEW p \in Reader, NEW bytes \in Seq(Symbols), NEW values \in Seq(Seq(Int))
  PROVE  /\ Now(p, bytes, values) \in Reader
         /\ Now(p, bytes, values).bytes = bytes /\ Now(p, bytes, values).values = values
         /\ Now(p, bytes, values).ok = p.ok
BY DEF Reader, Now

LEMMA NowTwice ==
  ASSUME NEW p \in Reader, NEW b \in Seq(Symbols), NEW v \in Seq(Seq(Int)),
         NEW c \in Seq(Symbols), NEW u \in Seq(Seq(Int))
  PROVE  Now(Now(p, b, v), c, u) = Now(p, c, u)
BY DEF Reader, Now

LEMMA RestIsSeq ==
  ASSUME NEW s \in Seq(Symbols), NEW n \in Nat
  PROVE  Rest(s, n) \in Seq(Symbols)
<1>1. \A i \in n + 1 .. Len(s) : s[i] \in Symbols
  OBVIOUS
<1>2. SubSeq(s, n + 1, Len(s)) \in Seq(Symbols)
  BY <1>1, SubSeqProperties
<1> QED BY <1>2 DEF Rest

LEMMA SliceIsSeq ==
  ASSUME NEW s \in Seq(Symbols), NEW a \in Positive, NEW b \in Int
  PROVE  Slice(s, a, b) \in Seq(Symbols)
<1> DEFINE c == IF b =< Len(s) THEN b ELSE Len(s)
<1>1. c \in Int /\ c =< Len(s) /\ a \in Int /\ a > 0
  BY DEF Positive
<1> HIDE DEF c
<1>2. \A i \in a .. c : s[i] \in Symbols
  BY <1>1
<1>3. SubSeq(s, a, c) \in Seq(Symbols)
  BY <1>1, <1>2, SubSeqProperties
<1> QED BY <1>3 DEF Slice, c

LEMMA RestOfConcat ==
  ASSUME NEW s \in Seq(Symbols), NEW t \in Seq(Symbols), NEW n, n = Len(s)
  PROVE  Rest(s \o t, n) = t
<1> DEFINE u == s \o t
<1>1. /\ u \in Seq(Symbols) /\ Len(u) = Len(s) + Len(t) /\ n \in Nat /\ Len(t) \in Nat
      /\ \A i \in 1 .. Len(t) : u[n + i] = t[i]
  OBVIOUS
<1> HIDE DEF u
<1>2. CASE Len(t) = 0
  <2>1. t = <<>> /\ ~ n < Len(u)
    BY <1>1, <1>2
  <2> QED BY <2>1 DEF Rest, u
<1>3. CASE Len(t) # 0
  <2> DEFINE v == SubSeq(u, n + 1, Len(u))
  <2>1. \A i \in n + 1 .. Len(u) : u[i] \in Symbols
    BY <1>1
  <2>2. /\ v \in Seq(Symbols) /\ Len(v) = IF n + 1 =< Len(u) THEN Len(u) - (n + 1) + 1 ELSE 0
        /\ \A i \in 1 .. Len(u) - (n + 1) + 1 : v[i] = u[(n + 1) + i - 1]
    BY <1>1, <2>1, SubSeqProperties
  <2> HIDE DEF v
  <2>3. Len(v) = Len(t) /\ Len(u) - (n + 1) + 1 = Len(t) /\ n < Len(u)
    BY <1>1, <1>3, <2>2
  <2>4. \A i \in 1 .. Len(t) : v[i] = t[i]
    <3>1. ASSUME NEW i \in 1 .. Len(t) PROVE v[i] = t[i]
      <4>1. (n + 1) + i - 1 = n + i
        BY <1>1
      <4> QED BY <1>1, <2>2, <2>3, <4>1
    <3> QED BY <3>1
  <2>5. v = t
    BY <2>2, <2>3, <2>4, SeqEqual
  <2> QED BY <2>3, <2>5 DEF Rest, u, v
<1> QED BY <1>2, <1>3

\* The bytes of a list of numbers.
NumBytes(ns, w) == FlattenSeq([i \in 1 .. Len(ns) |-> Number(ns[i], w)])

LEMMA NumBytesAre ==
  ASSUME NEW ns \in Seq(Int), NEW w \in Nat
  PROVE  /\ NumBytes(ns, w) \in Seq(Symbols) /\ Len(NumBytes(ns, w)) = Len(ns) * w
         /\ \A i \in 1 .. Len(ns), j \in 1 .. w :
              NumBytes(ns, w)[(i - 1) * w + j] = Number(ns[i], w)[j]
<1> DEFINE s == [i \in 1 .. Len(ns) |-> Number(ns[i], w)]
<1>1. ASSUME NEW i \in 1 .. Len(ns)
      PROVE  Number(ns[i], w) \in Seq(Symbols) /\ Len(Number(ns[i], w)) = w
  <2>1. ns[i] \in Int
    BY ElementOfSeq
  <2> QED BY <2>1, NumberIsBytes
<1>2. /\ s \in Seq(Seq(Symbols)) /\ Len(s) = Len(ns)
      /\ \A i \in 1 .. Len(s) : s[i] = Number(ns[i], w)
      /\ \A i \in 1 .. Len(s) : Len(s[i]) = w
  BY <1>1
<1>3. NumBytes(ns, w) = FlattenSeq(s)
  BY DEF NumBytes
<1> HIDE DEF s
<1>4. FlattenSeq(s) \in Seq(Symbols)
  BY <1>2, FlattenIsSeq
<1>5. /\ Len(FlattenSeq(s)) = Len(s) * w
      /\ \A i \in 1 .. Len(s), j \in 1 .. w : FlattenSeq(s)[(i - 1) * w + j] = s[i][j]
  <2> DEFINE A == Symbols
  <2>1. s \in Seq(Seq(A))
    BY <1>2
  <2>2. Uniform(s, w)
    BY <1>2 DEF Uniform
  <2> HIDE DEF A
  <2> QED BY <2>1, <2>2, FlattenUniform
<1> QED BY <1>2, <1>3, <1>4, <1>5

LEMMA SliceOfNumbers ==
  ASSUME NEW ns \in Seq(Int), NEW w \in Nat \ {0}, NEW rest \in Seq(Symbols),
         NEW i \in 1 .. Len(ns)
  PROVE  Slice(NumBytes(ns, w) \o rest, (i - 1) * w + 1, i * w) = Number(ns[i], w)
<1> DEFINE f == NumBytes(ns, w)
           u == f \o rest
           a == (i - 1) * w
           n == Len(ns)
           t == Number(ns[i], w)
<1>1. /\ f \in Seq(Symbols) /\ Len(f) = n * w
      /\ \A j \in 1 .. w : f[a + j] = t[j]
  BY NumBytesAre
<1>2. t \in Seq(Symbols) /\ Len(t) = w
  <2>1. ns[i] \in Int
    BY ElementOfSeq
  <2> QED BY <2>1, NumberIsBytes
<1>3. a \in Nat /\ i * w = a + w /\ a + w =< n * w /\ n * w \in Nat
  <2>1. (i - 1) * w = i * w - w /\ (n - i) * w = n * w - i * w /\ i * w \in Int /\ n * w \in Int
    <3>1. 1 * w = w
      OBVIOUS
    <3> QED BY <3>1, IntRing
  <2>2. a >= 0 /\ (n - i) * w >= 0 /\ n * w >= 0
    <3>1. i - 1 \in Nat /\ n - i \in Nat /\ n \in Nat
      OBVIOUS
    <3> QED BY <3>1
  <2> QED BY <2>1, <2>2
<1>4. /\ u \in Seq(Symbols) /\ Len(u) = Len(f) + Len(rest) /\ Len(rest) \in Nat
      /\ \A j \in 1 .. Len(f) : u[j] = f[j]
  <2> HIDE DEF f
  <2>1. /\ u \in Seq(Symbols) /\ Len(u) = Len(f) + Len(rest) /\ Len(rest) \in Nat
        /\ Len(f) \in Nat
        /\ \A j \in 1 .. Len(f) + Len(rest) : u[j] = IF j =< Len(f) THEN f[j] ELSE rest[j - Len(f)]
    BY <1>1, ConcatProperties, LenProperties
  <2> HIDE DEF u
  <2> QED BY <2>1
<1> HIDE DEF f, u, a, n, t
<1>5. a + w =< Len(u)
  BY <1>1, <1>3, <1>4
<1> DEFINE v == SubSeq(u, a + 1, a + w)
<1>6. /\ v \in Seq(Symbols) /\ Len(v) = w
      /\ \A j \in 1 .. w : v[j] = u[a + j]
  <2>1. \A j \in a + 1 .. a + w : u[j] \in Symbols
    BY <1>3, <1>4, <1>5
  <2>2. /\ v \in Seq(Symbols)
        /\ Len(v) = IF a + 1 =< a + w THEN (a + w) - (a + 1) + 1 ELSE 0
        /\ \A j \in 1 .. (a + w) - (a + 1) + 1 : v[j] = u[(a + 1) + j - 1]
    BY <1>3, <2>1, SubSeqProperties
  <2> HIDE DEF v
  <2>3. (a + w) - (a + 1) + 1 = w /\ a + 1 =< a + w
    BY <1>3
  <2>4. ASSUME NEW j \in 1 .. w PROVE v[j] = u[a + j]
    <3>1. (a + 1) + j - 1 = a + j
      BY <1>3
    <3> QED BY <2>2, <2>3, <3>1
  <2> QED BY <2>2, <2>3, <2>4
<1> HIDE DEF v
<1>7. ASSUME NEW j \in 1 .. w PROVE v[j] = t[j]
  <2>1. a + j \in 1 .. Len(f)
    BY <1>1, <1>3
  <2> QED BY <1>1, <1>4, <1>6, <2>1
<1>8. v = t
  BY <1>2, <1>6, <1>7, SeqEqual
<1> QED BY <1>3, <1>5, <1>8 DEF Slice, f, u, a, t, v

LEMMA NumbersAreRead ==
  ASSUME NEW p \in Reader, p.ok, NEW ns \in Seq(Int), NEW w \in Nat \ {0}, NEW k, k = Len(ns),
         \A i \in 1 .. Len(ns) : Fits(ns[i], w),
         NEW rest \in Seq(Symbols), p.bytes = NumBytes(ns, w) \o rest
  PROVE  ReadNumbers(p, k, w) = Now(p, rest, Append(p.values, ns))
<1> DEFINE f == NumBytes(ns, w)
           vs == [i \in 1 .. NonNegative(k) |->
                    Signed(Unsigned(Slice(p.bytes, (i - 1) * w + 1, i * w)), w)]
<1>1. k \in Nat /\ NonNegative(k) = k
  BY DEF NonNegative
<1>2. vs = ns
  <2>1. ASSUME NEW i \in 1 .. k PROVE vs[i] = ns[i]
    <3>1. Slice(p.bytes, (i - 1) * w + 1, i * w) = Number(ns[i], w)
      BY SliceOfNumbers
    <3>2. Signed(Unsigned(Number(ns[i], w)), w) = ns[i]
      BY NumberIsReadBack
    <3> QED BY <1>1, <3>1, <3>2
  <2>2. ns = [i \in 1 .. k |-> ns[i]]
    BY LenProperties
  <2>3. vs = [i \in 1 .. k |-> vs[i]]
    BY <1>1
  <2> HIDE DEF vs
  <2> QED BY <2>1, <2>2, <2>3
<1>3. Rest(p.bytes, NonNegative(k) * w) = rest
  <2>1. f \in Seq(Symbols) /\ Len(f) = k * w
    BY NumBytesAre
  <2> HIDE DEF f
  <2>2. Rest(f \o rest, k * w) = rest
    BY <2>1, RestOfConcat
  <2> QED BY <1>1, <2>2 DEF f
<1>4. ReadNumbers(p, k, w)
      = [p EXCEPT !.bytes = Rest(@, NonNegative(k) * w), !.values = Append(@, vs)]
  BY DEF ReadNumbers, Goes
<1> HIDE DEF vs
<1> QED BY <1>2, <1>3, <1>4 DEF Now, Reader

-----------------------------------------------------------------------------
(* The elements of a set in their order.                                   *)

LEMMA AscendingFacts ==
  ASSUME NEW S \in SUBSET Int, IsFiniteSet(S)
  PROVE  /\ Ascending(S) \in Seq(Int) /\ Len(Ascending(S)) = Cardinality(S)
         /\ ToSet(Ascending(S)) = S
<1> DEFINE N == Cardinality(S)
           below(n) == {k \in S : k < n}
           rank == [n \in S |-> Cardinality(below(n))]
           t == Ascending(S)
<1>1. N \in Nat
  BY FS_CardinalityType
<1>2. ASSUME NEW n \in S
      PROVE  /\ IsFiniteSet(below(n)) /\ Cardinality(below(n)) \in 0 .. N - 1
  <2>1. below(n) \in SUBSET S
    OBVIOUS
  <2>2. IsFiniteSet(below(n)) /\ Cardinality(below(n)) =< N
        /\ (N = Cardinality(below(n)) => S = below(n))
    BY <2>1, FS_Subset
  <2>3. Cardinality(below(n)) \in Nat
    BY <2>2, FS_CardinalityType
  <2>4. n \notin below(n)
    OBVIOUS
  <2> HIDE DEF below, N
  <2> QED BY <1>1, <2>2, <2>3, <2>4
<1>3. ASSUME NEW n \in S, NEW m \in S, n < m
      PROVE  Cardinality(below(n)) # Cardinality(below(m))
  <2>0. n \in Int /\ m \in Int /\ \A k \in S : k \in Int
    OBVIOUS
  <2>1. below(n) \in SUBSET below(m)
    <3>1. \A k \in S : k < n => k < m
      BY <1>3, <2>0
    <3> QED BY <3>1
  <2>2. n \in below(m) /\ n \notin below(n)
    BY <1>3, <2>0
  <2>3. IsFiniteSet(below(m))
    BY <1>2
  <2> HIDE DEF below
  <2> QED BY <2>1, <2>2, <2>3, FS_Subset
<1> HIDE DEF below, N
<1>4. rank \in [S -> 0 .. N - 1] /\ \A n \in S : rank[n] = Cardinality(below(n))
  BY <1>2
<1> HIDE DEF rank
<1>5. rank \in Injection(S, 0 .. N - 1)
  <2>1. ASSUME NEW n \in S, NEW m \in S, rank[n] = rank[m] PROVE n = m
    <3>1. n \in Int /\ m \in Int /\ ~ n < m /\ ~ m < n
      BY <1>3, <1>4, <2>1
    <3> QED BY <3>1
  <2> QED BY <1>4, <2>1 DEF Injection, IsInjective
<1>6. IsFiniteSet(0 .. N - 1) /\ Cardinality(0 .. N - 1) = N
  BY <1>1, FS_Interval
<1>7. rank \in Surjection(S, 0 .. N - 1)
  BY <1>5, <1>6, FS_Injection DEF N
<1>8. ASSUME NEW i \in 1 .. N
      PROVE  t[i] \in S /\ Cardinality(below(t[i])) = i - 1
  <2>1. i - 1 \in 0 .. N - 1
    BY <1>1
  <2>2. \E n \in S : rank[n] = i - 1
    BY <1>7, <2>1 DEF Surjection
  <2>3. \E n \in S : Cardinality(below(n)) = i - 1
    BY <1>4, <2>2
  <2>4. t[i] = CHOOSE n \in S : Cardinality(below(n)) = i - 1
    BY DEF Ascending, below, N
  <2> QED BY <2>3, <2>4
<1>9. t \in Seq(Int) /\ Len(t) = N /\ DOMAIN t = 1 .. N
  <2>1. t = [i \in 1 .. N |-> t[i]]
    BY DEF Ascending, N
  <2> HIDE DEF t
  <2>2. \A i \in 1 .. N : t[i] \in Int
    BY <1>8
  <2> QED BY <1>1, <2>1, <2>2
<1> HIDE DEF t
<1>10. ASSUME NEW n \in S PROVE n \in ToSet(t)
  <2> DEFINE i == rank[n] + 1
  <2>1. i \in 1 .. N /\ i - 1 = rank[n]
    BY <1>1, <1>4
  <2> HIDE DEF i
  <2>2. t[i] \in S /\ rank[t[i]] = rank[n]
    BY <1>4, <1>8, <2>1
  <2>3. t[i] = n
    BY <1>5, <2>2 DEF Injection, IsInjective
  <2> QED BY <1>9, <2>1, <2>3 DEF ToSet
<1>11. ToSet(t) \subseteq S
  BY <1>8, <1>9 DEF ToSet
<1> QED BY <1>9, <1>10, <1>11 DEF t, N

LEMMA ToSetIsFinite ==
  ASSUME NEW s \in Seq(Int)
  PROVE  ToSet(s) \in SUBSET Int /\ IsFiniteSet(ToSet(s))
<1>1. /\ s \in [1 .. Len(s) -> Int] /\ DOMAIN s = 1 .. Len(s) /\ Len(s) \in Nat
      /\ s \in [1 .. Len(s) -> ToSet(s)]
  BY LenProperties DEF ToSet
<1>2. s \in Surjection(1 .. Len(s), ToSet(s))
  BY <1>1 DEF Surjection, ToSet
<1>3. IsFiniteSet(1 .. Len(s))
  BY <1>1, FS_Interval
<1>4. IsFiniteSet(ToSet(s))
  BY <1>2, <1>3, FS_Surjection
<1> QED BY <1>1, <1>4 DEF ToSet

-----------------------------------------------------------------------------
(* Whatever is in the stream, a reader leaves bytes, and its numbers are   *)
(* numbers.                                                                *)

\* What q has read last is a list of numbers.
HasRead(q) == q.values # <<>> /\ Got(q) \in Seq(Int)

LEMMA NumbersType ==
  ASSUME NEW p \in Reader, NEW k \in Int, NEW w \in Nat \ {0}
  PROVE  /\ ReadNumbers(p, k, w) \in Reader /\ ReadNumbers(p, k, w).ok = p.ok
         /\ p.ok => /\ HasRead(ReadNumbers(p, k, w))
                    /\ Len(Got(ReadNumbers(p, k, w))) = NonNegative(k)
<1> DEFINE n == NonNegative(k)
           vs == [i \in 1 .. n |-> Signed(Unsigned(Slice(p.bytes, (i - 1) * w + 1, i * w)), w)]
           q == ReadNumbers(p, k, w)
<1>1. CASE ~ p.ok
  BY <1>1 DEF ReadNumbers, Goes
<1>2. CASE p.ok
  <2>1. n \in Nat
    BY DEF NonNegative
  <2>2. /\ p.bytes \in Seq(Symbols) /\ p.values \in Seq(Seq(Int))
    BY DEF Reader
  <2>3. ASSUME NEW i \in 1 .. n
        PROVE  Signed(Unsigned(Slice(p.bytes, (i - 1) * w + 1, i * w)), w) \in Int
    <3>1. (i - 1) * w + 1 \in Positive /\ i * w \in Int
      <4>1. i - 1 \in Nat /\ i \in Nat /\ w \in Nat
        BY <2>1
      <4>2. (i - 1) * w \in Nat /\ i * w \in Nat
        BY <4>1
      <4> HIDE DEF n
      <4> QED BY <4>2 DEF Positive
    <3> DEFINE s == Slice(p.bytes, (i - 1) * w + 1, i * w)
    <3>2. s \in Seq(Symbols)
      BY <2>2, <3>1, SliceIsSeq
    <3> HIDE DEF s
    <3>3. s \in Seq(Nat)
      BY <3>2, SymbolsAreNumbers, SeqMonotonic
    <3>4. Unsigned(s) \in Nat /\ Power[w] \in Nat
      BY <3>3, UnsignedIsNumber, PowerIsDefined DEF Positive
    <3>5. Signed(Unsigned(s), w) \in Int
      BY <3>4 DEF Signed
    <3> QED BY <3>5 DEF s
  <2>4. vs \in Seq(Int) /\ Len(vs) = n
    <3> HIDE DEF n
    <3> QED BY <2>1, <2>3
  <2>5. Rest(p.bytes, n * w) \in Seq(Symbols)
    <3>1. n * w \in Nat
      BY <2>1
    <3> QED BY <2>2, <3>1, RestIsSeq
  <2>6. q = [p EXCEPT !.bytes = Rest(@, n * w), !.values = Append(@, vs)]
    BY <1>2 DEF ReadNumbers, Goes
  <2> HIDE DEF vs, n, q
  <2>7. q = Now(p, Rest(p.bytes, n * w), Append(p.values, vs))
    BY <2>6 DEF Now, Reader
  <2>8. /\ Append(p.values, vs) \in Seq(Seq(Int)) /\ Append(p.values, vs) # <<>>
        /\ Append(p.values, vs)[Len(Append(p.values, vs))] = vs
    BY <2>2, <2>4, AppendProperties
  <2>9. q \in Reader /\ q.ok = p.ok /\ q.values = Append(p.values, vs)
    <3> DEFINE b == Rest(p.bytes, n * w)
               v == Append(p.values, vs)
    <3>1. b \in Seq(Symbols) /\ v \in Seq(Seq(Int)) /\ q = Now(p, b, v)
      BY <2>5, <2>7, <2>8
    <3> HIDE DEF b, v
    <3>2. q \in Reader /\ q.ok = p.ok /\ q.values = v
      BY <3>1, NowIsReader
    <3> QED BY <3>2 DEF v
  <2> QED BY <2>4, <2>8, <2>9 DEF HasRead, Got, q, n
<1> QED BY <1>1, <1>2

LEMMA LongType ==
  ASSUME NEW p \in Reader
  PROVE  /\ ReadLong(p) \in Reader /\ ReadLong(p).ok = p.ok
         /\ p.ok => HasRead(ReadLong(p)) /\ Got(ReadLong(p))[1] \in Int
<1> DEFINE q == ReadLong(p)
<1>1. /\ q \in Reader /\ q.ok = p.ok
      /\ p.ok => HasRead(q) /\ Len(Got(q)) = 1
  <2>1. NonNegative(1) = 1 /\ 1 \in Int
    BY DEF NonNegative
  <2> QED BY <2>1, NumbersType, SizesAssumption DEF ReadLong
<1> HIDE DEF q
<1>2. ASSUME p.ok PROVE Got(q)[1] \in Int
  <2> DEFINE v == Got(q)
  <2>1. v \in Seq(Int) /\ Len(v) = 1
    BY <1>1, <1>2 DEF HasRead
  <2> HIDE DEF v
  <2>2. v[1] \in Int
    <3>1. 1 \in 1 .. Len(v)
      BY <2>1
    <3> QED BY <2>1, <3>1, ElementOfSeq
  <2> QED BY <2>2 DEF v
<1> QED BY <1>1, <1>2 DEF q

\* What was read last put in another form.
LEMMA LastReplaced ==
  ASSUME NEW r \in Reader, HasRead(r), NEW x \in Seq(Int)
  PROVE  LET q == [r EXCEPT !.values[Len(r.values)] = x]
         IN q \in Reader /\ q.ok = r.ok /\ HasRead(q) /\ Got(q) = x
<1> DEFINE v == r.values
           u == [v EXCEPT ![Len(v)] = x]
           q == [r EXCEPT !.values[Len(r.values)] = x]
<1>1. v \in Seq(Seq(Int)) /\ v # <<>> /\ r.bytes \in Seq(Symbols)
  BY DEF HasRead, Reader
<1>2. Len(v) \in 1 .. Len(v)
  BY <1>1, EmptySeq
<1>3. u \in Seq(Seq(Int)) /\ Len(u) = Len(v) /\ u[Len(v)] = x
  BY <1>1, <1>2, ExceptSeq
<1>4. q = Now(r, r.bytes, u)
  BY DEF Now, Reader
<1> HIDE DEF v, u, q
<1>5. q \in Reader /\ q.values = u /\ q.ok = r.ok
  BY <1>1, <1>3, <1>4, NowIsReader
<1>6. u # <<>>
  BY <1>2, <1>3
<1> QED BY <1>3, <1>5, <1>6 DEF HasRead, Got, q

LEMMA ZZType ==
  ASSUME NEW p \in Reader
  PROVE  ReadZZ(p) \in Reader
<1> DEFINE q == ReadLong(p)
           n == Got(q)[1]
<1>1. q \in Reader /\ q.ok = p.ok /\ (p.ok => n \in Int)
  BY LongType
<1>2. ReadZZ(p) = IF ~ q.ok THEN q
                  ELSE IF n =< 0 THEN Throw(q)
                  ELSE [q EXCEPT !.bytes = Rest(@, n), !.values = Append(@, Slice(q.bytes, 1, n))]
  BY DEF ReadZZ, Goes
<1> HIDE DEF q, n
<1>3. CASE q.ok /\ ~ n =< 0
  <2>1. n \in Nat /\ n \in Int /\ 1 \in Positive
    BY <1>1, <1>3 DEF Positive
  <2> DEFINE s == Slice(q.bytes, 1, n)
  <2>2. s \in Seq(Symbols) /\ Rest(q.bytes, n) \in Seq(Symbols) /\ q.values \in Seq(Seq(Int))
    BY <1>1, <2>1, ReaderFields, SliceIsSeq, RestIsSeq
  <2> HIDE DEF s
  <2>3. s \in Seq(Int)
    <3>1. Symbols \subseteq Int
      BY SymbolsAreNumbers
    <3> QED BY <2>2, <3>1, SeqMonotonic
  <2>4. Append(q.values, s) \in Seq(Seq(Int))
    BY <2>2, <2>3, AppendProperties
  <2>5. Now(q, Rest(q.bytes, n), Append(q.values, s)) \in Reader
    BY <1>1, <2>2, <2>4, NowIsReader
  <2> QED BY <1>1, <1>2, <1>3, <2>5 DEF Now, Reader, s
<1> QED BY <1>1, <1>2, <1>3, ReaderFields

LEMMA VectorType ==
  ASSUME NEW p \in Reader
  PROVE  ReadVector(p) \in Reader
<1> DEFINE q == ReadLong(p)
           n == Got(q)[1]
<1>1. q \in Reader /\ q.ok = p.ok /\ (p.ok => n \in Int)
  BY LongType
<1>2. ReadVector(p) = IF q.ok /\ n < 0 THEN Throw(q) ELSE ReadNumbers(q, n, BIT64)
  BY DEF ReadVector, Goes
<1> HIDE DEF q, n
<1>3. CASE q.ok
  BY <1>1, <1>2, <1>3, ReaderFields, NumbersType, SizesAssumption
<1>4. CASE ~ q.ok
  BY <1>1, <1>2, <1>4 DEF ReadNumbers, Goes
<1> QED BY <1>3, <1>4

LEMMA SetType ==
  ASSUME NEW p \in Reader
  PROVE  ReadSet(p) \in Reader /\ (ReadSet(p).ok => HasRead(ReadSet(p)))
<1> DEFINE q == ReadLong(p)
           n == Got(q)[1]
           r == ReadNumbers(q, n, BIT64)
           S == ToSet(Got(r))
           x == Ascending(S)
           z == [r EXCEPT !.values[Len(r.values)] = x]
<1>1. q \in Reader /\ q.ok = p.ok /\ (p.ok => n \in Int)
  BY LongType
<1>2. ReadSet(p) = IF ~ r.ok THEN r ELSE IF \E m \in S : m < 0 THEN Throw(r) ELSE z
  BY DEF ReadSet, Goes
<1>3. r \in Reader /\ r.ok = q.ok /\ (q.ok => HasRead(r))
  <2> HIDE DEF q, n
  <2>1. CASE q.ok
    BY <1>1, <2>1, NumbersType, SizesAssumption
  <2>2. CASE ~ q.ok
    BY <1>1, <2>2 DEF ReadNumbers, Goes
  <2> QED BY <2>1, <2>2
<1> HIDE DEF q, n, r
<1>4. ASSUME r.ok PROVE x \in Seq(Int)
  <2>1. S \in SUBSET Int /\ IsFiniteSet(S)
    BY <1>3, <1>4, ToSetIsFinite DEF HasRead
  <2> QED BY <2>1, AscendingFacts
<1> HIDE DEF x, S
<1>5. ASSUME r.ok PROVE z \in Reader /\ HasRead(z)
  BY <1>3, <1>4, <1>5, LastReplaced
<1> HIDE DEF z
<1> QED BY <1>2, <1>3, <1>5, ReaderFields

LEMMA RowType ==
  ASSUME NEW p \in Reader
  PROVE  ReadRow(p) \in Reader
<1> DEFINE q == ReadNumbers(p, 2, BIT32)
           k == Got(q)[1]
           w == Got(q)[2]
           r == ReadNumbers(q, k, w)
           n == Len(Got(r))
           x == [i \in 1 .. IF n < PhiM THEN PhiM ELSE n |-> IF i =< n THEN Got(r)[i] ELSE 0]
           z == [r EXCEPT !.values[Len(r.values)] = x]
<1>1. q \in Reader /\ q.ok = p.ok /\ (p.ok => HasRead(q) /\ Len(Got(q)) = 2)
  <2>1. NonNegative(2) = 2 /\ 2 \in Int
    BY DEF NonNegative
  <2> QED BY <2>1, NumbersType, SizesAssumption
<1>2. ReadRow(p) = IF ~ q.ok THEN q ELSE IF w \notin {BIT64, BIT32} THEN Throw(q) ELSE z
  BY DEF ReadRow, Goes
<1> HIDE DEF q
<1>3. p.ok => k \in Int
  BY <1>1 DEF HasRead
<1>4. ASSUME q.ok, w \in {BIT64, BIT32} PROVE r \in Reader /\ HasRead(r)
  <2> HIDE DEF k, w
  <2>1. w \in Nat \ {0}
    BY <1>4, SizesAssumption
  <2> QED BY <1>1, <1>3, <1>4, <2>1, NumbersType
<1> HIDE DEF k, w, r
<1>5. ASSUME HasRead(r) PROVE x \in Seq(Int)
  <2>1. Got(r) \in Seq(Int) /\ n \in Nat /\ PhiM \in Nat
    BY <1>5, SizesAssumption DEF HasRead
  <2> DEFINE m == IF n < PhiM THEN PhiM ELSE n
  <2>2. m \in Nat
    BY <2>1
  <2>3. \A i \in 1 .. m : (IF i =< n THEN Got(r)[i] ELSE 0) \in Int
    BY <2>1
  <2> HIDE DEF n, m
  <2>4. [i \in 1 .. m |-> IF i =< n THEN Got(r)[i] ELSE 0] \in Seq(Int)
    BY <2>2, <2>3
  <2> QED BY <2>4 DEF m
<1> HIDE DEF x
<1>6. ASSUME q.ok, w \in {BIT64, BIT32} PROVE z \in Reader
  BY <1>4, <1>5, <1>6, LastReplaced
<1> HIDE DEF z
<1> QED BY <1>1, <1>2, <1>6, ReaderFields

\* The repetitions that occur.
Rows(n, p)       == Repeat(ReadRow, n, p)
Sets(n, p)       == Repeat(ReadSet, n, p)
DoubleCRTs(n, p) == Repeat(ReadDoubleCRT, n, p)
Parts(n, p)      == Repeat(ReadPart, n, p)

LEMMA StaysInside ==
  ASSUME NEW n \in Nat, NEW A, NEW g, g[0] \in A, \A i \in 1 .. n : g[i - 1] \in A => g[i] \in A
  PROVE  \A i \in 0 .. n : g[i] \in A
<1> DEFINE S == {i \in Nat : i =< n => g[i] \in A}
<1>1. 0 \in S
  OBVIOUS
<1>2. ASSUME NEW i \in Nat, i \in S PROVE i + 1 \in S
  <2>1. SUFFICES ASSUME i + 1 =< n PROVE g[i + 1] \in A
    OBVIOUS
  <2>2. i + 1 \in 1 .. n /\ (i + 1) - 1 = i /\ g[i] \in A
    BY <1>2, <2>1
  <2> QED BY <2>2
<1> HIDE DEF S
<1>3. Nat \subseteq S
  BY <1>1, <1>2, Induction
<1>4. ASSUME NEW i \in 0 .. n PROVE g[i] \in A
  BY <1>3 DEF S
<1> QED BY <1>4

LEMMA RepetitionExists ==
  ASSUME NEW n \in Nat, NEW p \in Reader, NEW step \in [Reader -> Reader]
  PROVE  \E h \in [0 .. n -> Reader] :
           h = [i \in 0 .. n |-> IF i = 0 THEN p
                                 ELSE IF h[i - 1].ok THEN step[h[i - 1]] ELSE h[i - 1]]
<1> DEFINE turn == [q \in Reader |-> IF q.ok THEN step[q] ELSE q]
           all  == [i \in 1 .. n |-> turn]
<1>1. turn \in [Reader -> Reader] /\ \A q \in Reader : turn[q] = IF q.ok THEN step[q] ELSE q
  OBVIOUS
<1> HIDE DEF turn
<1>2. all \in [1 .. n -> [Reader -> Reader]] /\ \A i \in 1 .. n : all[i] = turn
  BY <1>1
<1> HIDE DEF all
<1>3. PICK h : IsRecursion(h, n, Reader, p, all)
  BY <1>2, RecursionOverIndices
<1>4. h \in [0 .. n -> Reader] /\ h[0] = p
  BY <1>3 DEF IsRecursion
<1>5. ASSUME NEW i \in 0 .. n, i # 0
      PROVE  h[i] = IF h[i - 1].ok THEN step[h[i - 1]] ELSE h[i - 1]
  <2>1. i \in 1 .. n /\ i - 1 \in 0 .. n
    BY <1>5
  <2>2. h[i - 1] \in Reader /\ h[i] = turn[h[i - 1]]
    BY <1>2, <1>3, <1>4, <2>1 DEF IsRecursion
  <2> QED BY <1>1, <2>2
<1>6. h = [i \in 0 .. n |-> h[i]]
  BY <1>4
<1> QED BY <1>4, <1>5, <1>6

LEMMA RepeatRow ==
  ASSUME NEW p \in Reader, NEW n \in Int
  PROVE  \E g \in [0 .. NonNegative(n) -> Reader] :
           /\ g[0] = p /\ Rows(n, p) = g[NonNegative(n)]
           /\ \A i \in 1 .. NonNegative(n) :
                g[i] = IF g[i - 1].ok THEN ReadRow(g[i - 1]) ELSE g[i - 1]
<1> DEFINE N == NonNegative(n)
           step == [q \in Reader |-> ReadRow(q)]
           Is(g) == g = [i \in 0 .. N |->
                           IF i = 0 THEN p
                           ELSE LET q == g[i - 1] IN IF Goes(q) THEN ReadRow(q) ELSE q]
           g == CHOOSE f : Is(f)
<1>1. N \in Nat
  BY DEF NonNegative
<1>2. step \in [Reader -> Reader] /\ \A q \in Reader : step[q] = ReadRow(q)
  BY RowType
<1>3. Rows(n, p) = g[N]
  BY DEF Repeat, Rows
<1> HIDE DEF step, N
<1>4. PICK h \in [0 .. N -> Reader] :
        h = [i \in 0 .. N |-> IF i = 0 THEN p
                              ELSE IF h[i - 1].ok THEN step[h[i - 1]] ELSE h[i - 1]]
  BY <1>1, <1>2, RepetitionExists
<1>5. Is(h)
  <2>1. ASSUME NEW i \in 0 .. N, i # 0
        PROVE  h[i] = IF Goes(h[i - 1]) THEN ReadRow(h[i - 1]) ELSE h[i - 1]
    <3>1. i - 1 \in 0 .. N
      BY <1>1, <2>1
    <3>2. h[i - 1] \in Reader
      BY <3>1
    <3> QED BY <1>2, <1>4, <2>1, <3>2 DEF Goes
  <2>2. h = [i \in 0 .. N |-> h[i]] /\ (0 \in 0 .. N => h[0] = p)
    BY <1>4
  <2> QED BY <1>1, <2>1, <2>2
<1>6. Is(g)
  BY <1>5
<1> HIDE DEF g
<1>7. g[0] = p
  BY <1>1, <1>6
<1>8. ASSUME NEW i \in 1 .. N
      PROVE  g[i] = IF g[i - 1].ok THEN ReadRow(g[i - 1]) ELSE g[i - 1]
  <2>1. i \in 0 .. N /\ i # 0
    BY <1>1
  <2> QED BY <1>6, <2>1 DEF Goes
<1>9. \A i \in 0 .. N : g[i] \in Reader
  <2>1. \A i \in 1 .. N : g[i - 1] \in Reader => g[i] \in Reader
    BY <1>8, RowType
  <2> QED BY <1>1, <1>7, <2>1, StaysInside
<1>10. g \in [0 .. N -> Reader]
  <2>1. g = [i \in 0 .. N |-> g[i]]
    BY <1>6
  <2> QED BY <1>9, <2>1
<1> QED BY <1>3, <1>7, <1>8, <1>10 DEF N

LEMMA RepeatRowType ==
  ASSUME NEW p \in Reader, NEW n \in Int
  PROVE  Rows(n, p) \in Reader
<1>1. NonNegative(n) \in Nat
  BY DEF NonNegative
<1>2. PICK g \in [0 .. NonNegative(n) -> Reader] : Rows(n, p) = g[NonNegative(n)]
  BY RepeatRow
<1> QED BY <1>1, <1>2

LEMMA DoubleCRTType ==
  ASSUME NEW p \in Reader
  PROVE  ReadDoubleCRT(p) \in Reader
<1> DEFINE q == ReadSet(p)
<1>1. q \in Reader /\ (q.ok => HasRead(q))
  BY SetType
<1>2. ReadDoubleCRT(p) = IF q.ok THEN Rows(Len(Got(q)), q) ELSE q
  BY DEF ReadDoubleCRT, Goes, Rows
<1> HIDE DEF q
<1>3. q.ok => Len(Got(q)) \in Int
  BY <1>1, LenProperties DEF HasRead
<1> QED BY <1>1, <1>2, <1>3, RepeatRowType

LEMMA HandleType ==
  ASSUME NEW p \in Reader
  PROVE  ReadHandle(p) \in Reader /\ ReadXDouble(p) \in Reader
<1>1. 2 \in Int /\ 3 \in Int /\ BIT64 \in Nat \ {0}
  BY SizesAssumption
<1> QED BY <1>1, NumbersType DEF ReadHandle, ReadXDouble

LEMMA PartType ==
  ASSUME NEW p \in Reader
  PROVE  ReadPart(p) \in Reader
BY DoubleCRTType, HandleType DEF ReadPart

LEMMA RepeatSet ==
  ASSUME NEW p \in Reader, NEW n \in Int
  PROVE  \E g \in [0 .. NonNegative(n) -> Reader] :
           /\ g[0] = p /\ Sets(n, p) = g[NonNegative(n)]
           /\ \A i \in 1 .. NonNegative(n) :
                g[i] = IF g[i - 1].ok THEN ReadSet(g[i - 1]) ELSE g[i - 1]
<1> DEFINE N == NonNegative(n)
           step == [q \in Reader |-> ReadSet(q)]
           Is(g) == g = [i \in 0 .. N |->
                           IF i = 0 THEN p
                           ELSE LET q == g[i - 1] IN IF Goes(q) THEN ReadSet(q) ELSE q]
           g == CHOOSE f : Is(f)
<1>1. N \in Nat
  BY DEF NonNegative
<1>2. step \in [Reader -> Reader] /\ \A q \in Reader : step[q] = ReadSet(q)
  BY SetType
<1>3. Sets(n, p) = g[N]
  BY DEF Repeat, Sets
<1> HIDE DEF step, N
<1>4. PICK h \in [0 .. N -> Reader] :
        h = [i \in 0 .. N |-> IF i = 0 THEN p
                              ELSE IF h[i - 1].ok THEN step[h[i - 1]] ELSE h[i - 1]]
  BY <1>1, <1>2, RepetitionExists
<1>5. Is(h)
  <2>1. ASSUME NEW i \in 0 .. N, i # 0
        PROVE  h[i] = IF Goes(h[i - 1]) THEN ReadSet(h[i - 1]) ELSE h[i - 1]
    <3>1. i - 1 \in 0 .. N
      BY <1>1, <2>1
    <3>2. h[i - 1] \in Reader
      BY <3>1
    <3> QED BY <1>2, <1>4, <2>1, <3>2 DEF Goes
  <2>2. h = [i \in 0 .. N |-> h[i]] /\ (0 \in 0 .. N => h[0] = p)
    BY <1>4
  <2> QED BY <1>1, <2>1, <2>2
<1>6. Is(g)
  BY <1>5
<1> HIDE DEF g
<1>7. g[0] = p
  BY <1>1, <1>6
<1>8. ASSUME NEW i \in 1 .. N
      PROVE  g[i] = IF g[i - 1].ok THEN ReadSet(g[i - 1]) ELSE g[i - 1]
  <2>1. i \in 0 .. N /\ i # 0
    BY <1>1
  <2> QED BY <1>6, <2>1 DEF Goes
<1>9. \A i \in 0 .. N : g[i] \in Reader
  <2>1. \A i \in 1 .. N : g[i - 1] \in Reader => g[i] \in Reader
    BY <1>8, SetType
  <2> QED BY <1>1, <1>7, <2>1, StaysInside
<1>10. g \in [0 .. N -> Reader]
  <2>1. g = [i \in 0 .. N |-> g[i]]
    BY <1>6
  <2> QED BY <1>9, <2>1
<1> QED BY <1>3, <1>7, <1>8, <1>10 DEF N

LEMMA RepeatSetType ==
  ASSUME NEW p \in Reader, NEW n \in Int
  PROVE  Sets(n, p) \in Reader
<1>1. NonNegative(n) \in Nat
  BY DEF NonNegative
<1>2. PICK g \in [0 .. NonNegative(n) -> Reader] : Sets(n, p) = g[NonNegative(n)]
  BY RepeatSet
<1> QED BY <1>1, <1>2

LEMMA RepeatDoubleCRT ==
  ASSUME NEW p \in Reader, NEW n \in Int
  PROVE  \E g \in [0 .. NonNegative(n) -> Reader] :
           /\ g[0] = p /\ DoubleCRTs(n, p) = g[NonNegative(n)]
           /\ \A i \in 1 .. NonNegative(n) :
                g[i] = IF g[i - 1].ok THEN ReadDoubleCRT(g[i - 1]) ELSE g[i - 1]
<1> DEFINE N == NonNegative(n)
           step == [q \in Reader |-> ReadDoubleCRT(q)]
           Is(g) == g = [i \in 0 .. N |->
                           IF i = 0 THEN p
                           ELSE LET q == g[i - 1] IN IF Goes(q) THEN ReadDoubleCRT(q) ELSE q]
           g == CHOOSE f : Is(f)
<1>1. N \in Nat
  BY DEF NonNegative
<1>2. step \in [Reader -> Reader] /\ \A q \in Reader : step[q] = ReadDoubleCRT(q)
  BY DoubleCRTType
<1>3. DoubleCRTs(n, p) = g[N]
  BY DEF Repeat, DoubleCRTs
<1> HIDE DEF step, N
<1>4. PICK h \in [0 .. N -> Reader] :
        h = [i \in 0 .. N |-> IF i = 0 THEN p
                              ELSE IF h[i - 1].ok THEN step[h[i - 1]] ELSE h[i - 1]]
  BY <1>1, <1>2, RepetitionExists
<1>5. Is(h)
  <2>1. ASSUME NEW i \in 0 .. N, i # 0
        PROVE  h[i] = IF Goes(h[i - 1]) THEN ReadDoubleCRT(h[i - 1]) ELSE h[i - 1]
    <3>1. i - 1 \in 0 .. N
      BY <1>1, <2>1
    <3>2. h[i - 1] \in Reader
      BY <3>1
    <3> QED BY <1>2, <1>4, <2>1, <3>2 DEF Goes
  <2>2. h = [i \in 0 .. N |-> h[i]] /\ (0 \in 0 .. N => h[0] = p)
    BY <1>4
  <2> QED BY <1>1, <2>1, <2>2
<1>6. Is(g)
  BY <1>5
<1> HIDE DEF g
<1>7. g[0] = p
  BY <1>1, <1>6
<1>8. ASSUME NEW i \in 1 .. N
      PROVE  g[i] = IF g[i - 1].ok THEN ReadDoubleCRT(g[i - 1]) ELSE g[i - 1]
  <2>1. i \in 0 .. N /\ i # 0
    BY <1>1
  <2> QED BY <1>6, <2>1 DEF Goes
<1>9. \A i \in 0 .. N : g[i] \in Reader
  <2>1. \A i \in 1 .. N : g[i - 1] \in Reader => g[i] \in Reader
    BY <1>8, DoubleCRTType
  <2> QED BY <1>1, <1>7, <2>1, StaysInside
<1>10. g \in [0 .. N -> Reader]
  <2>1. g = [i \in 0 .. N |-> g[i]]
    BY <1>6
  <2> QED BY <1>9, <2>1
<1> QED BY <1>3, <1>7, <1>8, <1>10 DEF N

LEMMA RepeatDoubleCRTType ==
  ASSUME NEW p \in Reader, NEW n \in Int
  PROVE  DoubleCRTs(n, p) \in Reader
<1>1. NonNegative(n) \in Nat
  BY DEF NonNegative
<1>2. PICK g \in [0 .. NonNegative(n) -> Reader] : DoubleCRTs(n, p) = g[NonNegative(n)]
  BY RepeatDoubleCRT
<1> QED BY <1>1, <1>2

LEMMA RepeatPart ==
  ASSUME NEW p \in Reader, NEW n \in Int
  PROVE  \E g \in [0 .. NonNegative(n) -> Reader] :
           /\ g[0] = p /\ Parts(n, p) = g[NonNegative(n)]
           /\ \A i \in 1 .. NonNegative(n) :
                g[i] = IF g[i - 1].ok THEN ReadPart(g[i - 1]) ELSE g[i - 1]
<1> DEFINE N == NonNegative(n)
           step == [q \in Reader |-> ReadPart(q)]
           Is(g) == g = [i \in 0 .. N |->
                           IF i = 0 THEN p
                           ELSE LET q == g[i - 1] IN IF Goes(q) THEN ReadPart(q) ELSE q]
           g == CHOOSE f : Is(f)
<1>1. N \in Nat
  BY DEF NonNegative
<1>2. step \in [Reader -> Reader] /\ \A q \in Reader : step[q] = ReadPart(q)
  BY PartType
<1>3. Parts(n, p) = g[N]
  BY DEF Repeat, Parts
<1> HIDE DEF step, N
<1>4. PICK h \in [0 .. N -> Reader] :
        h = [i \in 0 .. N |-> IF i = 0 THEN p
                              ELSE IF h[i - 1].ok THEN step[h[i - 1]] ELSE h[i - 1]]
  BY <1>1, <1>2, RepetitionExists
<1>5. Is(h)
  <2>1. ASSUME NEW i \in 0 .. N, i # 0
        PROVE  h[i] = IF Goes(h[i - 1]) THEN ReadPart(h[i - 1]) ELSE h[i - 1]
    <3>1. i - 1 \in 0 .. N
      BY <1>1, <2>1
    <3>2. h[i - 1] \in Reader
      BY <3>1
    <3> QED BY <1>2, <1>4, <2>1, <3>2 DEF Goes
  <2>2. h = [i \in 0 .. N |-> h[i]] /\ (0 \in 0 .. N => h[0] = p)
    BY <1>4
  <2> QED BY <1>1, <2>1, <2>2
<1>6. Is(g)
  BY <1>5
<1> HIDE DEF g
<1>7. g[0] = p
  BY <1>1, <1>6
<1>8. ASSUME NEW i \in 1 .. N
      PROVE  g[i] = IF g[i - 1].ok THEN ReadPart(g[i - 1]) ELSE g[i - 1]
  <2>1. i \in 0 .. N /\ i # 0
    BY <1>1
  <2> QED BY <1>6, <2>1 DEF Goes
<1>9. \A i \in 0 .. N : g[i] \in Reader
  <2>1. \A i \in 1 .. N : g[i - 1] \in Reader => g[i] \in Reader
    BY <1>8, PartType
  <2> QED BY <1>1, <1>7, <2>1, StaysInside
<1>10. g \in [0 .. N -> Reader]
  <2>1. g = [i \in 0 .. N |-> g[i]]
    BY <1>6
  <2> QED BY <1>9, <2>1
<1> QED BY <1>3, <1>7, <1>8, <1>10 DEF N

LEMMA RepeatPartType ==
  ASSUME NEW p \in Reader, NEW n \in Int
  PROVE  Parts(n, p) \in Reader
<1>1. NonNegative(n) \in Nat
  BY DEF NonNegative
<1>2. PICK g \in [0 .. NonNegative(n) -> Reader] : Parts(n, p) = g[NonNegative(n)]
  BY RepeatPart
<1> QED BY <1>1, <1>2

LEMMA VectorSetType ==
  ASSUME NEW p \in Reader
  PROVE  ReadVectorOf(ReadSet, p) \in Reader
<1> DEFINE q == ReadLong(p)
           n == Got(q)[1]
<1>1. q \in Reader /\ q.ok = p.ok /\ (p.ok => n \in Int)
  BY LongType
<1>2. ReadVectorOf(ReadSet, p)
      = IF ~ q.ok THEN q ELSE IF n < 0 THEN Throw(q) ELSE Sets(n, q)
  BY DEF ReadVectorOf, Goes, Sets
<1> HIDE DEF q, n
<1> QED BY <1>1, <1>2, ReaderFields, RepeatSetType

LEMMA VectorDoubleCRTType ==
  ASSUME NEW p \in Reader
  PROVE  ReadVectorOf(ReadDoubleCRT, p) \in Reader
<1> DEFINE q == ReadLong(p)
           n == Got(q)[1]
<1>1. q \in Reader /\ q.ok = p.ok /\ (p.ok => n \in Int)
  BY LongType
<1>2. ReadVectorOf(ReadDoubleCRT, p)
      = IF ~ q.ok THEN q ELSE IF n < 0 THEN Throw(q) ELSE DoubleCRTs(n, q)
  BY DEF ReadVectorOf, Goes, DoubleCRTs
<1> HIDE DEF q, n
<1> QED BY <1>1, <1>2, ReaderFields, RepeatDoubleCRTType

LEMMA VectorPartType ==
  ASSUME NEW p \in Reader
  PROVE  ReadVectorOf(ReadPart, p) \in Reader
<1> DEFINE q == ReadLong(p)
           n == Got(q)[1]
<1>1. q \in Reader /\ q.ok = p.ok /\ (p.ok => n \in Int)
  BY LongType
<1>2. ReadVectorOf(ReadPart, p)
      = IF ~ q.ok THEN q ELSE IF n < 0 THEN Throw(q) ELSE Parts(n, q)
  BY DEF ReadVectorOf, Goes, Parts
<1> HIDE DEF q, n
<1> QED BY <1>1, <1>2, ReaderFields, RepeatPartType

LEMMA CatcherType ==
  ASSUME NEW p \in Reader, NEW c \in Catchers
  PROVE  ReadHeader(p) \in Reader /\ ReadCatcher(p, c) \in Reader
<1>1. p.bytes \in Seq(Symbols) /\ (p.bytes # <<>> => Tail(p.bytes) \in Seq(Symbols))
  BY ReaderFields, HeadTailProperties
<1>2. \A x : (Head(p.bytes) = x) \in BOOLEAN
  OBVIOUS
<1> QED BY <1>1, <1>2 DEF ReadHeader, ReadCatcher, Goes, Reader

LEMMA FieldType ==
  ASSUME NEW p \in Reader, NEW field,
         field \in Catchers \cup {"long", "ZZ", "xdouble", "vector", "IndexSet", "IndexSets",
                                  "row", "SKHandle", "DoubleCRT", "DoubleCRTs", "CtxtPart",
                                  "CtxtParts"}
  PROVE  ReadField(p, field) \in Reader
<1>1. CASE field \in Catchers
  <2>1. Catchers \subseteq {"HEADER", "CONTEXT_BEGIN", "CONTEXT_END", "CTXT_BEGIN", "CTXT_END",
                           "SKM_BEGIN", "SKM_END"}
    BY DEF Catchers, CatcherList, ToSet
  <2>2. ReadHeader(p) \in Reader /\ ReadCatcher(p, field) \in Reader
    BY <1>1, CatcherType
  <2> QED BY <1>1, <2>1, <2>2 DEF ReadField
<1>2. CASE field \notin Catchers
  <2>1. /\ ReadLong(p) \in Reader /\ ReadZZ(p) \in Reader /\ ReadXDouble(p) \in Reader
        /\ ReadVector(p) \in Reader /\ ReadSet(p) \in Reader
        /\ ReadVectorOf(ReadSet, p) \in Reader /\ ReadRow(p) \in Reader
        /\ ReadHandle(p) \in Reader /\ ReadDoubleCRT(p) \in Reader
        /\ ReadVectorOf(ReadDoubleCRT, p) \in Reader /\ ReadPart(p) \in Reader
        /\ ReadVectorOf(ReadPart, p) \in Reader
    BY LongType, ZZType, HandleType, VectorType, SetType, RowType, DoubleCRTType, PartType,
       VectorSetType, VectorDoubleCRTType, VectorPartType
  <2> QED BY <1>2, <2>1 DEF ReadField
<1> QED BY <1>1, <1>2

FieldNames == Catchers \cup {"long", "ZZ", "xdouble", "vector", "IndexSet", "IndexSets", "row",
                             "SKHandle", "DoubleCRT", "DoubleCRTs", "CtxtPart", "CtxtParts"}

\* A reader before it has read anything.
Start(bytes, stack) == [bytes |-> bytes, values |-> <<>>, ok |-> TRUE, stack |-> stack, ub |-> FALSE]

LEMMA FieldsAre ==
  ASSUME NEW kind \in Open \cup Closed
  PROVE  /\ Len(Fields(kind)) \in Nat /\ \A i \in 1 .. Len(Fields(kind)) : Fields(kind)[i] \in FieldNames
         /\ kind \in Open => Len(Fields(kind)) = 1 /\ Fields(kind)[1] = kind
<1>1. {"HEADER", "CONTEXT_BEGIN", "CONTEXT_END", "CTXT_BEGIN", "CTXT_END", "SKM_BEGIN", "SKM_END"}
      \subseteq FieldNames
  <2>1. ASSUME NEW i \in 1 .. 7 PROVE CatcherList[i] \in Catchers
    BY <2>1 DEF Catchers, CatcherList, ToSet
  <2>2. /\ CatcherList[1] = "HEADER" /\ CatcherList[2] = "CONTEXT_BEGIN"
        /\ CatcherList[3] = "CONTEXT_END" /\ CatcherList[4] = "CTXT_BEGIN"
        /\ CatcherList[5] = "CTXT_END" /\ CatcherList[6] = "SKM_BEGIN" /\ CatcherList[7] = "SKM_END"
    BY DEF CatcherList
  <2>3. 1 \in 1 .. 7 /\ 2 \in 1 .. 7 /\ 3 \in 1 .. 7 /\ 4 \in 1 .. 7 /\ 5 \in 1 .. 7 /\ 6 \in 1 .. 7
        /\ 7 \in 1 .. 7
    OBVIOUS
  <2> QED BY <2>1, <2>2, <2>3 DEF FieldNames
<1>2. Open \subseteq FieldNames /\ {"long", "ZZ", "xdouble", "vector", "IndexSet", "IndexSets", "row",
        "SKHandle", "DoubleCRT", "DoubleCRTs", "CtxtPart", "CtxtParts"} \subseteq FieldNames
  BY DEF Open, FieldNames
<1> HIDE DEF FieldNames
<1>3. CASE kind \in Open
  <2>1. Fields(kind) = <<kind>>
    BY <1>3 DEF Fields, Open
  <2> QED BY <1>2, <1>3, <2>1
<1>4. CASE kind = "Ctxt"
  <2>1. Fields(kind) = CtxtFields /\ kind \notin Open
    BY <1>4 DEF Fields, Open
  <2> QED BY <1>1, <1>2, <2>1 DEF CtxtFields
<1>5. CASE kind = "KeySwitch"
  <2>1. Fields(kind) = KeySwitchFields /\ kind \notin Open
    BY <1>5 DEF Fields, Open
  <2> QED BY <1>1, <1>2, <2>1 DEF KeySwitchFields
<1>6. CASE kind = "Context"
  <2>1. Fields(kind) = ContextFields /\ kind \notin Open
    BY <1>6 DEF Fields, Open
  <2> QED BY <1>1, <1>2, <2>1 DEF ContextFields
<1> QED BY <1>3, <1>4, <1>5, <1>6 DEF Closed

LEMMA ReadUnfolds ==
  ASSUME NEW kind \in Open \cup Closed, NEW bytes \in Seq(Symbols), NEW stack \in BOOLEAN
  PROVE  /\ Read(kind, bytes, stack) \in Reader
         /\ kind \in Open =>
              Read(kind, bytes, stack) = ReadField(Start(bytes, stack), kind)
<1> DEFINE fs == Fields(kind)
           n  == Len(fs)
           start == Start(bytes, stack)
           step == [i \in 1 .. n |-> [p \in Reader |-> IF p.ok THEN ReadField(p, fs[i]) ELSE p]]
           Is(f) == f = [i \in 0 .. n |->
                           IF i = 0 THEN [bytes |-> bytes, values |-> <<>>, ok |-> TRUE,
                                          stack |-> stack, ub |-> FALSE]
                           ELSE LET p == f[i - 1] IN IF Goes(p) THEN ReadField(p, fs[i]) ELSE p]
           g == CHOOSE f : Is(f)
<1>1. n \in Nat /\ \A i \in 1 .. n : fs[i] \in FieldNames
  BY FieldsAre
<1>2. start \in Reader /\ start.ok
  BY DEF Start, Reader
<1>3. \A i \in 1 .. n, p \in Reader : ReadField(p, fs[i]) \in Reader
  BY <1>1, FieldType DEF FieldNames
<1>4. Read(kind, bytes, stack) = g[n]
  BY DEF Read
<1>5. kind \in Open => n = 1 /\ fs[1] = kind
  BY FieldsAre
<1> HIDE DEF fs, n
<1>6. /\ step \in [1 .. n -> [Reader -> Reader]]
      /\ \A i \in 1 .. n, p \in Reader : step[i][p] = IF p.ok THEN ReadField(p, fs[i]) ELSE p
  BY <1>3
<1> HIDE DEF step
<1>7. PICK h : IsRecursion(h, n, Reader, start, step)
  BY <1>1, <1>2, <1>6, RecursionOverIndices
<1>8. h \in [0 .. n -> Reader] /\ h[0] = start
  BY <1>7 DEF IsRecursion
<1>9. Is(h)
  <2>1. ASSUME NEW i \in 0 .. n, i # 0
        PROVE  h[i] = IF Goes(h[i - 1]) THEN ReadField(h[i - 1], fs[i]) ELSE h[i - 1]
    <3>1. i \in 1 .. n /\ i - 1 \in 0 .. n
      BY <1>1, <2>1
    <3>2. h[i - 1] \in Reader /\ h[i] = step[i][h[i - 1]]
      BY <1>7, <1>8, <3>1 DEF IsRecursion
    <3> QED BY <1>6, <3>1, <3>2 DEF Goes
  <2>2. h = [i \in 0 .. n |-> h[i]] /\ h[0] = start
    BY <1>8
  <2> QED BY <2>1, <2>2 DEF Start
<1>10. Is(g)
  BY <1>9
<1> HIDE DEF g
<1>11. g[0] = start
  BY <1>1, <1>10 DEF Start
<1>12. ASSUME NEW i \in 1 .. n
       PROVE  g[i] = IF g[i - 1].ok THEN ReadField(g[i - 1], fs[i]) ELSE g[i - 1]
  <2>1. i \in 0 .. n /\ i # 0
    BY <1>1
  <2> QED BY <1>10, <2>1 DEF Goes
<1>13. \A i \in 0 .. n : g[i] \in Reader
  <2>1. \A i \in 1 .. n : g[i - 1] \in Reader => g[i] \in Reader
    BY <1>3, <1>12
  <2> QED BY <1>1, <1>2, <1>11, <2>1, StaysInside
<1>14. ASSUME kind \in Open PROVE g[n] = ReadField(start, kind)
  <2>1. 1 \in 1 .. n /\ 1 - 1 = 0
    BY <1>5, <1>14
  <2> QED BY <1>2, <1>5, <1>11, <1>12, <1>14, <2>1
<1>15. g[n] \in Reader
  BY <1>1, <1>13
<1> QED BY <1>4, <1>14, <1>15

-----------------------------------------------------------------------------
(* Lists of fields: their bytes, and what a reader of them has read.       *)

FB(fs)   == FlattenSeq([i \in 1 .. Len(fs) |-> FieldBytes(fs[i])])
Vals(fs) == FlattenSeq([i \in 1 .. Len(fs) |-> IF fs[i][1] = "catcher" THEN <<>> ELSE <<fs[i][2]>>])

\* p when it has read the fields fs.
Done(p, fs, rest) == Now(p, rest, p.values \o Vals(fs))

LEMMA FieldBytesType ==
  ASSUME NEW f \in Field
  PROVE  /\ f[2] \in Seq(Int) /\ FieldBytes(f) \in Seq(Symbols)
         /\ f[1] = "long" => FieldBytes(f) = NumBytes(f[2], BIT64)
         /\ f[1] = "int" => FieldBytes(f) = NumBytes(f[2], BIT32)
         /\ f[1] = "bytes" => FieldBytes(f) = f[2]
<1>1. /\ f[2] \in Seq(Int) /\ f[1] \in {"long", "int", "bytes", "catcher"}
      /\ f[1] \in {"bytes", "catcher"} => f[2] \in Seq(Symbols)
  BY DEF Field
<1>2. NumBytes(f[2], BIT64) \in Seq(Symbols) /\ NumBytes(f[2], BIT32) \in Seq(Symbols)
  BY <1>1, NumBytesAre, SizesAssumption
<1>3. /\ f[1] = "long" => FieldBytes(f) = NumBytes(f[2], BIT64)
      /\ f[1] = "int" => FieldBytes(f) = NumBytes(f[2], BIT32)
      /\ f[1] \in {"bytes", "catcher"} => FieldBytes(f) = f[2]
  BY DEF FieldBytes, NumBytes
<1> QED BY <1>1, <1>2, <1>3

\* The lists behind FB and Vals.
BytesOf(fs)  == [i \in 1 .. Len(fs) |-> FieldBytes(fs[i])]
ValuesOf(fs) == [i \in 1 .. Len(fs) |-> IF fs[i][1] = "catcher" THEN <<>> ELSE <<fs[i][2]>>]

LEMMA ListsOf ==
  ASSUME NEW fs \in Seq(Field)
  PROVE  /\ BytesOf(fs) \in Seq(Seq(Symbols)) /\ Len(BytesOf(fs)) = Len(fs)
         /\ ValuesOf(fs) \in Seq(Seq(Seq(Int))) /\ Len(ValuesOf(fs)) = Len(fs)
         /\ \A i \in 1 .. Len(fs) :
              /\ BytesOf(fs)[i] = FieldBytes(fs[i])
              /\ ValuesOf(fs)[i] = IF fs[i][1] = "catcher" THEN <<>> ELSE <<fs[i][2]>>
         /\ FB(fs) = FlattenSeq(BytesOf(fs)) /\ FB(fs) \in Seq(Symbols)
         /\ Vals(fs) = FlattenSeq(ValuesOf(fs)) /\ Vals(fs) \in Seq(Seq(Int))
<1>1. ASSUME NEW i \in 1 .. Len(fs)
      PROVE  /\ FieldBytes(fs[i]) \in Seq(Symbols)
             /\ (IF fs[i][1] = "catcher" THEN <<>> ELSE <<fs[i][2]>>) \in Seq(Seq(Int))
  <2>1. fs[i] \in Field
    BY ElementOfSeq
  <2>2. FieldBytes(fs[i]) \in Seq(Symbols) /\ fs[i][2] \in Seq(Int)
    BY <2>1, FieldBytesType
  <2> DEFINE v == fs[i][2]
  <2> HIDE DEF v
  <2>3. v \in Seq(Int) => <<v>> \in Seq(Seq(Int)) /\ <<>> \in Seq(Seq(Int))
    OBVIOUS
  <2> QED BY <2>2, <2>3 DEF v
<1>2. BytesOf(fs) \in Seq(Seq(Symbols)) /\ Len(BytesOf(fs)) = Len(fs)
      /\ \A i \in 1 .. Len(fs) : BytesOf(fs)[i] = FieldBytes(fs[i])
  BY <1>1 DEF BytesOf
<1>3. ValuesOf(fs) \in Seq(Seq(Seq(Int))) /\ Len(ValuesOf(fs)) = Len(fs)
      /\ \A i \in 1 .. Len(fs) :
           ValuesOf(fs)[i] = IF fs[i][1] = "catcher" THEN <<>> ELSE <<fs[i][2]>>
  BY <1>1 DEF ValuesOf
<1>4. FB(fs) = FlattenSeq(BytesOf(fs)) /\ Vals(fs) = FlattenSeq(ValuesOf(fs))
  BY DEF FB, Vals, BytesOf, ValuesOf
<1>5. FlattenSeq(BytesOf(fs)) \in Seq(Symbols) /\ FlattenSeq(ValuesOf(fs)) \in Seq(Seq(Int))
  BY <1>2, <1>3, FlattenIsSeq
<1> QED BY <1>2, <1>3, <1>4, <1>5

LEMMA FieldsConcat ==
  ASSUME NEW fs \in Seq(Field), NEW gs \in Seq(Field)
  PROVE  /\ fs \o gs \in Seq(Field)
         /\ FB(fs \o gs) = FB(fs) \o FB(gs) /\ Vals(fs \o gs) = Vals(fs) \o Vals(gs)
<1> DEFINE h == fs \o gs
<1>1. /\ h \in Seq(Field) /\ Len(h) = Len(fs) + Len(gs) /\ Len(fs) \in Nat /\ Len(gs) \in Nat
      /\ \A i \in 1 .. Len(fs) + Len(gs) :
           h[i] = IF i =< Len(fs) THEN fs[i] ELSE gs[i - Len(fs)]
  BY ConcatProperties, LenProperties
<1> HIDE DEF h
<1>2. BytesOf(h) = BytesOf(fs) \o BytesOf(gs)
  <2> DEFINE a == BytesOf(fs)
             b == BytesOf(gs)
             c == BytesOf(h)
  <2>1. /\ a \in Seq(Seq(Symbols)) /\ b \in Seq(Seq(Symbols)) /\ c \in Seq(Seq(Symbols))
        /\ Len(a) = Len(fs) /\ Len(b) = Len(gs) /\ Len(c) = Len(h)
        /\ \A i \in 1 .. Len(fs) : a[i] = FieldBytes(fs[i])
        /\ \A i \in 1 .. Len(gs) : b[i] = FieldBytes(gs[i])
        /\ \A i \in 1 .. Len(h) : c[i] = FieldBytes(h[i])
    BY <1>1, ListsOf
  <2> HIDE DEF a, b, c
  <2>2. /\ a \o b \in Seq(Seq(Symbols)) /\ Len(a \o b) = Len(a) + Len(b)
        /\ \A i \in 1 .. Len(a) + Len(b) : (a \o b)[i] = IF i =< Len(a) THEN a[i] ELSE b[i - Len(a)]
    <3>1. a \in Seq(Seq(Symbols)) /\ b \in Seq(Seq(Symbols))
      BY <2>1
    <3> QED BY <3>1, ConcatProperties
  <2>3. ASSUME NEW i \in 1 .. Len(c) PROVE c[i] = (a \o b)[i]
    <3>1. i \in 1 .. Len(a) + Len(b) /\ i \in 1 .. Len(h)
      BY <1>1, <2>1
    <3>2. CASE i =< Len(fs)
      <4>1. i \in 1 .. Len(fs)
        BY <1>1, <3>1, <3>2
      <4> QED BY <1>1, <2>1, <2>2, <3>1, <3>2, <4>1
    <3>3. CASE ~ i =< Len(fs)
      <4>1. i - Len(fs) \in 1 .. Len(gs)
        BY <1>1, <2>1, <3>1, <3>3
      <4> QED BY <1>1, <2>1, <2>2, <3>1, <3>3, <4>1
    <3> QED BY <3>2, <3>3
  <2> QED BY <1>1, <2>1, <2>2, <2>3, SeqEqual DEF a, b, c
<1>3. ValuesOf(h) = ValuesOf(fs) \o ValuesOf(gs)
  <2> DEFINE a == ValuesOf(fs)
             b == ValuesOf(gs)
             c == ValuesOf(h)
             v(f) == IF f[1] = "catcher" THEN <<>> ELSE <<f[2]>>
  <2>1. /\ a \in Seq(Seq(Seq(Int))) /\ b \in Seq(Seq(Seq(Int))) /\ c \in Seq(Seq(Seq(Int)))
        /\ Len(a) = Len(fs) /\ Len(b) = Len(gs) /\ Len(c) = Len(h)
        /\ \A i \in 1 .. Len(fs) : a[i] = v(fs[i])
        /\ \A i \in 1 .. Len(gs) : b[i] = v(gs[i])
        /\ \A i \in 1 .. Len(h) : c[i] = v(h[i])
    BY <1>1, ListsOf
  <2> HIDE DEF a, b, c, v
  <2>2. /\ a \o b \in Seq(Seq(Seq(Int))) /\ Len(a \o b) = Len(a) + Len(b)
        /\ \A i \in 1 .. Len(a) + Len(b) : (a \o b)[i] = IF i =< Len(a) THEN a[i] ELSE b[i - Len(a)]
    <3>1. a \in Seq(Seq(Seq(Int))) /\ b \in Seq(Seq(Seq(Int)))
      BY <2>1
    <3> QED BY <3>1, ConcatProperties
  <2>3. ASSUME NEW i \in 1 .. Len(c) PROVE c[i] = (a \o b)[i]
    <3>1. i \in 1 .. Len(a) + Len(b) /\ i \in 1 .. Len(h)
      BY <1>1, <2>1
    <3>2. CASE i =< Len(fs)
      <4>1. i \in 1 .. Len(fs)
        BY <1>1, <3>1, <3>2
      <4> QED BY <1>1, <2>1, <2>2, <3>1, <3>2, <4>1
    <3>3. CASE ~ i =< Len(fs)
      <4>1. i - Len(fs) \in 1 .. Len(gs)
        BY <1>1, <2>1, <3>1, <3>3
      <4> QED BY <1>1, <2>1, <2>2, <3>1, <3>3, <4>1
    <3> QED BY <3>2, <3>3
  <2> QED BY <1>1, <2>1, <2>2, <2>3, SeqEqual DEF a, b, c
<1>4. /\ FB(h) = FlattenSeq(BytesOf(h)) /\ Vals(h) = FlattenSeq(ValuesOf(h))
      /\ FB(fs) = FlattenSeq(BytesOf(fs)) /\ Vals(fs) = FlattenSeq(ValuesOf(fs))
      /\ FB(gs) = FlattenSeq(BytesOf(gs)) /\ Vals(gs) = FlattenSeq(ValuesOf(gs))
  BY <1>1, ListsOf
<1>5. FlattenSeq(BytesOf(fs) \o BytesOf(gs)) = FlattenSeq(BytesOf(fs)) \o FlattenSeq(BytesOf(gs))
  BY ListsOf, FlattenConcat
<1>6. FlattenSeq(ValuesOf(fs) \o ValuesOf(gs))
      = FlattenSeq(ValuesOf(fs)) \o FlattenSeq(ValuesOf(gs))
  BY ListsOf, FlattenConcat
<1> QED BY <1>1, <1>2, <1>3, <1>4, <1>5, <1>6 DEF h

LEMMA OneField ==
  ASSUME NEW f \in Field
  PROVE  /\ <<f>> \in Seq(Field) /\ FB(<<f>>) = FieldBytes(f)
         /\ f[1] # "catcher" => Vals(<<f>>) = <<f[2]>>
<1>1. <<f>> \in Seq(Field) /\ Len(<<f>>) = 1 /\ <<f>>[1] = f
  OBVIOUS
<1>2. FieldBytes(f) \in Seq(Symbols) /\ f[2] \in Seq(Int)
  BY FieldBytesType
<1>3. FB(<<f>>) = FieldBytes(f)
  <2>1. BytesOf(<<f>>) = <<FieldBytes(f)>>
    BY DEF BytesOf
  <2>2. FB(<<f>>) = FlattenSeq(BytesOf(<<f>>))
    BY <1>1, ListsOf
  <2>3. FlattenSeq(<<FieldBytes(f)>>) = FieldBytes(f)
    BY <1>2, FlattenOne
  <2> QED BY <2>1, <2>2, <2>3
<1>4. ASSUME f[1] # "catcher" PROVE Vals(<<f>>) = <<f[2]>>
  <2>1. ValuesOf(<<f>>) = <<<<f[2]>>>>
    BY <1>4 DEF ValuesOf
  <2>2. <<f[2]>> \in Seq(Seq(Int))
    BY <1>2
  <2>3. Vals(<<f>>) = FlattenSeq(ValuesOf(<<f>>))
    BY <1>1, ListsOf
  <2> QED BY <2>1, <2>2, <2>3, FlattenOne
<1> QED BY <1>1, <1>3, <1>4

LEMMA DoneFacts ==
  ASSUME NEW p \in Reader, NEW fs \in Seq(Field), NEW rest \in Seq(Symbols)
  PROVE  /\ Done(p, fs, rest) \in Reader /\ Done(p, fs, rest).ok = p.ok
         /\ Done(p, fs, rest).bytes = rest
         /\ Done(p, fs, rest).values = p.values \o Vals(fs)
<1>1. p.values \in Seq(Seq(Int)) /\ Vals(fs) \in Seq(Seq(Int))
  BY ReaderFields, ListsOf
<1>2. p.values \o Vals(fs) \in Seq(Seq(Int))
  BY <1>1, ConcatProperties
<1> DEFINE v == p.values \o Vals(fs)
<1>3. Done(p, fs, rest) = Now(p, rest, v) /\ v \in Seq(Seq(Int))
  BY <1>2 DEF Done
<1> HIDE DEF v
<1>4. /\ Now(p, rest, v) \in Reader /\ Now(p, rest, v).ok = p.ok
      /\ Now(p, rest, v).bytes = rest /\ Now(p, rest, v).values = v
  BY <1>3, NowIsReader
<1> QED BY <1>3, <1>4 DEF v

\* One field more.
LEMMA DoneOne ==
  ASSUME NEW p \in Reader, NEW f \in Field, f[1] # "catcher", NEW rest \in Seq(Symbols)
  PROVE  /\ Done(p, <<f>>, rest) = Now(p, rest, Append(p.values, f[2]))
         /\ Got(Done(p, <<f>>, rest)) = f[2] /\ HasRead(Done(p, <<f>>, rest))
<1> DEFINE v == p.values
           n == f[2]
           d == Done(p, <<f>>, rest)
<1>1. v \in Seq(Seq(Int)) /\ n \in Seq(Int) /\ Vals(<<f>>) = <<n>>
  BY ReaderFields, FieldBytesType, OneField
<1>2. <<f>> \in Seq(Field)
  BY OneField
<1>3. d.values = v \o <<n>> /\ d = Now(p, rest, v \o <<n>>)
  <2>1. Done(p, <<f>>, rest) = Now(p, rest, p.values \o Vals(<<f>>))
    BY DEF Done
  <2>2. Done(p, <<f>>, rest).values = p.values \o Vals(<<f>>)
    BY <1>2, DoneFacts
  <2> QED BY <1>1, <2>1, <2>2
<1> HIDE DEF v, n, d
<1>4. v \o <<n>> = Append(v, n)
  BY <1>1
<1>5. /\ Append(v, n) # <<>> /\ Append(v, n)[Len(Append(v, n))] = n
  BY <1>1, AppendProperties
<1>6. Got(d) = n /\ HasRead(d)
  BY <1>1, <1>3, <1>4, <1>5 DEF Got, HasRead
<1> QED BY <1>3, <1>4, <1>6 DEF v, n, d

LEMMA DoneTwice ==
  ASSUME NEW p \in Reader, NEW fs \in Seq(Field), NEW gs \in Seq(Field),
         NEW r \in Seq(Symbols), NEW rest \in Seq(Symbols)
  PROVE  Done(Done(p, fs, r), gs, rest) = Done(p, fs \o gs, rest)
<1> DEFINE v == p.values
           a == Vals(fs)
           b == Vals(gs)
<1>1. v \in Seq(Seq(Int)) /\ a \in Seq(Seq(Int)) /\ b \in Seq(Seq(Int))
  BY ReaderFields, ListsOf
<1>2. Vals(fs \o gs) = a \o b
  BY FieldsConcat
<1>3. Done(p, fs, r).values = v \o a
  BY DoneFacts
<1>4. Done(Done(p, fs, r), gs, rest) = Now(Now(p, r, v \o a), rest, (v \o a) \o b)
  BY <1>3 DEF Done
<1>5. Done(p, fs \o gs, rest) = Now(p, rest, v \o (a \o b))
  BY <1>2 DEF Done
<1> HIDE DEF v, a, b
<1>6. (v \o a) \o b = v \o (a \o b)
  <2> DEFINE X == Seq(Int)
  <2>1. v \in Seq(X) /\ a \in Seq(X) /\ b \in Seq(X)
    BY <1>1
  <2> HIDE DEF X
  <2> QED BY <2>1, ConcatAssociative
<1>7. v \o a \in Seq(Seq(Int)) /\ a \o b \in Seq(Seq(Int))
  BY <1>1, ConcatProperties
<1>8. v \o (a \o b) \in Seq(Seq(Int))
  BY <1>1, <1>7, ConcatProperties
<1>9. Now(Now(p, r, v \o a), rest, v \o (a \o b)) = Now(p, rest, v \o (a \o b))
  <2> DEFINE x == v \o a
             y == v \o (a \o b)
  <2>1. x \in Seq(Seq(Int)) /\ y \in Seq(Seq(Int))
    BY <1>7, <1>8
  <2> HIDE DEF x, y
  <2>2. Now(Now(p, r, x), rest, y) = Now(p, rest, y)
    BY <2>1, NowTwice
  <2> QED BY <2>2 DEF x, y
<1> QED BY <1>4, <1>5, <1>6, <1>9

-----------------------------------------------------------------------------
(* A reader takes what the writer put there, and leaves the rest.          *)

LEMMA PlainFields ==
  ASSUME NEW f \in Plain
  PROVE  /\ f \in Field /\ f[1] # "catcher" /\ f[2] \in Seq(Int)
         /\ f[1] = "long" => \A i \in 1 .. Len(f[2]) : Fits(f[2][i], BIT64)
         /\ f[1] = "int" => \A i \in 1 .. Len(f[2]) : Fits(f[2][i], BIT32)
<1>1. /\ f \in Field /\ f[1] # "catcher"
      /\ f[1] = "long" => \A n \in ToSet(f[2]) : Fits(n, BIT64)
      /\ f[1] = "int" => \A n \in ToSet(f[2]) : Fits(n, BIT32)
  BY DEF Plain
<1>2. f[2] \in Seq(Int)
  BY <1>1, FieldBytesType
<1>3. \A i \in 1 .. Len(f[2]) : f[2][i] \in ToSet(f[2])
  BY <1>2 DEF ToSet
<1> QED BY <1>1, <1>2, <1>3

\* k longs.
LEMMA LongsAreRead ==
  ASSUME NEW p \in Reader, p.ok, NEW ns, Longs(ns) \in Plain, NEW k, k = Len(ns),
         NEW rest \in Seq(Symbols), p.bytes = FB(<<Longs(ns)>>) \o rest
  PROVE  /\ ReadNumbers(p, k, BIT64) = Done(p, <<Longs(ns)>>, rest)
         /\ Got(ReadNumbers(p, k, BIT64)) = ns /\ ns \in Seq(Int)
<1> DEFINE f == Longs(ns)
<1>1. f[1] = "long" /\ f[2] = ns
  BY DEF Longs
<1> HIDE DEF f
<1>2. f \in Field /\ f[1] # "catcher" /\ ns \in Seq(Int) /\ \A i \in 1 .. Len(ns) : Fits(ns[i], BIT64)
  BY <1>1, PlainFields DEF f
<1>3. FB(<<f>>) = NumBytes(ns, BIT64)
  BY <1>1, <1>2, OneField, FieldBytesType
<1>4. ReadNumbers(p, k, BIT64) = Now(p, rest, Append(p.values, ns))
  <2>1. p.bytes = NumBytes(ns, BIT64) \o rest
    BY <1>3 DEF f
  <2> QED BY <1>2, <2>1, NumbersAreRead, SizesAssumption
<1> QED BY <1>1, <1>2, <1>4, DoneOne DEF f

LEMMA IntsAreRead ==
  ASSUME NEW p \in Reader, p.ok, NEW ns, Ints(ns) \in Plain, NEW k, k = Len(ns),
         NEW rest \in Seq(Symbols), p.bytes = FB(<<Ints(ns)>>) \o rest
  PROVE  /\ ReadNumbers(p, k, BIT32) = Done(p, <<Ints(ns)>>, rest)
         /\ Got(ReadNumbers(p, k, BIT32)) = ns /\ ns \in Seq(Int)
<1> DEFINE f == Ints(ns)
<1>1. f[1] = "int" /\ f[2] = ns
  BY DEF Ints
<1> HIDE DEF f
<1>2. f \in Field /\ f[1] # "catcher" /\ ns \in Seq(Int) /\ \A i \in 1 .. Len(ns) : Fits(ns[i], BIT32)
  BY <1>1, PlainFields DEF f
<1>3. FB(<<f>>) = NumBytes(ns, BIT32)
  BY <1>1, <1>2, OneField, FieldBytesType
<1>4. ReadNumbers(p, k, BIT32) = Now(p, rest, Append(p.values, ns))
  <2>1. p.bytes = NumBytes(ns, BIT32) \o rest
    BY <1>3 DEF f
  <2> QED BY <1>2, <2>1, NumbersAreRead, SizesAssumption
<1> QED BY <1>1, <1>2, <1>4, DoneOne DEF f

\* The fields of a list of two.
LEMMA TwoFields ==
  ASSUME NEW f \in Field, NEW g \in Field, NEW rest \in Seq(Symbols)
  PROVE  /\ <<f>> \in Seq(Field) /\ <<g>> \in Seq(Field) /\ <<f, g>> = <<f>> \o <<g>>
         /\ FB(<<g>>) \o rest \in Seq(Symbols)
         /\ FB(<<f, g>>) \o rest = FB(<<f>>) \o (FB(<<g>>) \o rest)
<1>1. <<f>> \in Seq(Field) /\ <<g>> \in Seq(Field) /\ <<f, g>> = <<f>> \o <<g>>
  <2>1. <<f>> \in Seq(Field) /\ <<g>> \in Seq(Field)
    BY OneField
  <2>2. ASSUME NEW x, NEW y PROVE <<x, y>> = <<x>> \o <<y>>
    <3> DEFINE s == <<x, y>>
               t == <<x>> \o <<y>>
    <3>1. <<x>> \in Seq({x, y}) /\ <<y>> \in Seq({x, y}) /\ Len(<<x>>) = 1 /\ Len(<<y>>) = 1
      OBVIOUS
    <3>2. s \in Seq({x, y}) /\ Len(s) = 2 /\ s[1] = x /\ s[2] = y
      OBVIOUS
    <3>3. t \in Seq({x, y}) /\ Len(t) = 2 /\ t[1] = x /\ t[2] = y
      BY <3>1
    <3> HIDE DEF s, t
    <3>4. \A i \in 1 .. Len(s) : s[i] = t[i]
      BY <3>2, <3>3
    <3>5. s = t
      BY <3>2, <3>3, <3>4, SeqEqual
    <3> QED BY <3>5 DEF s, t
  <2> QED BY <2>1, <2>2
<1>2. FB(<<f>>) \in Seq(Symbols) /\ FB(<<g>>) \in Seq(Symbols) /\ FB(<<f, g>>) = FB(<<f>>) \o FB(<<g>>)
  BY <1>1, ListsOf, FieldsConcat
<1>3. FB(<<g>>) \o rest \in Seq(Symbols)
  BY <1>2, ConcatProperties
<1>4. (FB(<<f>>) \o FB(<<g>>)) \o rest = FB(<<f>>) \o (FB(<<g>>) \o rest)
  BY <1>2, ThreeLists
<1> QED BY <1>1, <1>2, <1>3, <1>4

LEMMA TwoPlain ==
  ASSUME NEW f, NEW g, <<f, g>> \in Seq(Plain)
  PROVE  f \in Plain /\ g \in Plain /\ f \in Field /\ g \in Field
<1>1. f \in Plain /\ g \in Plain
  <2> DEFINE s == <<f, g>>
  <2>1. Len(s) = 2 /\ s[1] = f /\ s[2] = g /\ s \in Seq(Plain)
    OBVIOUS
  <2> HIDE DEF s
  <2>2. s[1] \in Plain /\ s[2] \in Plain
    BY <2>1, ElementOfSeq
  <2> QED BY <2>1, <2>2
<1> QED BY <1>1, PlainFields

LEMMA SliceOfConcat ==
  ASSUME NEW s \in Seq(Symbols), NEW t \in Seq(Symbols)
  PROVE  Slice(s \o t, 1, Len(s)) = s
<1> DEFINE u == s \o t
           n == Len(s)
           v == SubSeq(u, 1, n)
<1>1. /\ u \in Seq(Symbols) /\ Len(u) = n + Len(t) /\ n \in Nat /\ Len(t) \in Nat
      /\ \A i \in 1 .. n : u[i] = s[i]
  OBVIOUS
<1> HIDE DEF u
<1>2. \A i \in 1 .. n : u[i] \in Symbols
  BY <1>1
<1>3. /\ v \in Seq(Symbols) /\ Len(v) = IF 1 =< n THEN n - 1 + 1 ELSE 0
      /\ \A i \in 1 .. n - 1 + 1 : v[i] = u[1 + i - 1]
  <2> HIDE DEF n
  <2> QED BY <1>1, <1>2, SubSeqProperties
<1> HIDE DEF v, n
<1>4. Len(v) = n
  BY <1>1, <1>3
<1>5. \A i \in 1 .. n : v[i] = s[i]
  <2>1. ASSUME NEW i \in 1 .. n PROVE v[i] = s[i]
    <3>1. 1 + i - 1 = i /\ i \in 1 .. n - 1 + 1
      BY <1>1
    <3> QED BY <1>1, <1>3, <3>1
  <2> QED BY <2>1
<1>6. v = s
  BY <1>3, <1>4, <1>5, SeqEqual DEF n
<1>7. n =< Len(u)
  BY <1>1
<1>8. Slice(u, 1, n) = v
  BY <1>7 DEF Slice, v
<1> QED BY <1>6, <1>8 DEF u, n

LEMMA LastKept ==
  ASSUME NEW r \in Reader, HasRead(r)
  PROVE  [r EXCEPT !.values[Len(r.values)] = Got(r)] = r
<1> DEFINE v == r.values
           u == [v EXCEPT ![Len(v)] = v[Len(v)]]
<1>1. v \in Seq(Seq(Int)) /\ v # <<>> /\ r.bytes \in Seq(Symbols)
  BY DEF HasRead, Reader
<1>2. Len(v) \in 1 .. Len(v)
  BY <1>1, EmptySeq
<1>3. u = v
  <2>1. v = [i \in 1 .. Len(v) |-> v[i]]
    BY <1>1, LenProperties
  <2> HIDE DEF v
  <2> QED BY <2>1
<1>4. [r EXCEPT !.values[Len(r.values)] = Got(r)] = [r EXCEPT !.values = u]
  BY DEF Got
<1> HIDE DEF u
<1> QED BY <1>3, <1>4 DEF Reader, v

\* The number of elements, and the elements.
LEMMA ListIsRead ==
  ASSUME NEW p \in Reader, p.ok, NEW ns, WriteVector(ns) \in Seq(Plain),
         NEW rest \in Seq(Symbols), p.bytes = FB(WriteVector(ns)) \o rest
  PROVE  LET q == ReadLong(p)
             r == ReadNumbers(q, Got(q)[1], BIT64)
         IN /\ q \in Reader /\ q.ok /\ Got(q)[1] = Len(ns) /\ Len(ns) \in Nat
            /\ r = Done(p, WriteVector(ns), rest) /\ Got(r) = ns /\ ns \in Seq(Int)
            /\ WriteVector(ns) \in Seq(Field)
<1> DEFINE n == Len(ns)
           f == Longs(<<n>>)
           g == Longs(ns)
           after == FB(<<g>>) \o rest
           q == ReadLong(p)
           r == ReadNumbers(q, Got(q)[1], BIT64)
<1>1. WriteVector(ns) = <<f, g>>
  BY DEF WriteVector
<1>2. f \in Plain /\ g \in Plain /\ f \in Field /\ g \in Field
  <2> HIDE DEF f, g
  <2> QED BY <1>1, TwoPlain
<1>3. ns \in Seq(Int) /\ n \in Nat
  <2>1. g[2] = ns
    BY DEF Longs
  <2> QED BY <1>2, <2>1, PlainFields
<1>4. /\ after \in Seq(Symbols) /\ p.bytes = FB(<<f>>) \o after
      /\ <<f>> \in Seq(Field) /\ <<g>> \in Seq(Field) /\ WriteVector(ns) = <<f>> \o <<g>>
  <2> HIDE DEF f, g
  <2>1. /\ <<f>> \in Seq(Field) /\ <<g>> \in Seq(Field) /\ <<f, g>> = <<f>> \o <<g>>
        /\ FB(<<g>>) \o rest \in Seq(Symbols)
        /\ FB(<<f, g>>) \o rest = FB(<<f>>) \o (FB(<<g>>) \o rest)
    BY <1>2, TwoFields
  <2> QED BY <1>1, <2>1
<1> HIDE DEF after, q
<1>5. q = Done(p, <<f>>, after) /\ Got(q) = <<n>>
  <2>1. Len(<<n>>) = 1
    OBVIOUS
  <2> QED BY <1>2, <1>4, <2>1, LongsAreRead DEF q, ReadLong
<1>6. q \in Reader /\ q.ok /\ q.bytes = after /\ Got(q)[1] = n
  <2>1. <<n>>[1] = n
    OBVIOUS
  <2> HIDE DEF f, n
  <2> QED BY <1>4, <1>5, <2>1, DoneFacts
<1>7. r = Done(q, <<g>>, rest) /\ Got(r) = ns
  <2>1. ReadNumbers(q, n, BIT64) = Done(q, <<g>>, rest) /\ Got(ReadNumbers(q, n, BIT64)) = ns
    BY <1>2, <1>6, LongsAreRead DEF after
  <2> QED BY <1>6, <2>1
<1> HIDE DEF f, g, r
<1>8. r = Done(p, WriteVector(ns), rest)
  <2>1. Done(Done(p, <<f>>, after), <<g>>, rest) = Done(p, <<f>> \o <<g>>, rest)
    BY <1>4, DoneTwice
  <2> QED BY <1>4, <1>5, <1>7, <2>1
<1>9. WriteVector(ns) \in Seq(Field)
  BY <1>4, FieldsConcat
<1> QED BY <1>3, <1>6, <1>7, <1>8, <1>9 DEF q, r

LEMMA VectorIsRead ==
  ASSUME NEW p \in Reader, p.ok, NEW ns, WriteVector(ns) \in Seq(Plain),
         NEW rest \in Seq(Symbols), p.bytes = FB(WriteVector(ns)) \o rest
  PROVE  ReadVector(p) = Done(p, WriteVector(ns), rest)
<1> DEFINE q == ReadLong(p)
           n == Got(q)[1]
           r == ReadNumbers(q, n, BIT64)
<1>1. q.ok /\ n = Len(ns) /\ Len(ns) \in Nat /\ r = Done(p, WriteVector(ns), rest)
  BY ListIsRead
<1>2. ReadVector(p) = IF q.ok /\ n < 0 THEN Throw(q) ELSE r
  BY DEF ReadVector, Goes
<1> HIDE DEF q, n, r
<1> QED BY <1>1, <1>2

LEMMA SetIsRead ==
  ASSUME NEW p \in Reader, p.ok, NEW S, SetFits(S),
         NEW rest \in Seq(Symbols), p.bytes = FB(WriteSet(S)) \o rest
  PROVE  /\ ReadSet(p) = Done(p, WriteSet(S), rest)
         /\ Len(Got(ReadSet(p))) = Cardinality(S) /\ WriteSet(S) \in Seq(Field)
<1> DEFINE a == Ascending(S)
           q == ReadLong(p)
           n == Got(q)[1]
           r == ReadNumbers(q, n, BIT64)
           T == ToSet(Got(r))
<1>1. S \in SUBSET Nat /\ S \in SUBSET Int /\ IsFiniteSet(S) /\ WriteVector(a) \in Seq(Plain)
      /\ WriteSet(S) = WriteVector(a)
  BY DEF SetFits, WriteSet
<1>2. a \in Seq(Int) /\ Len(a) = Cardinality(S) /\ ToSet(a) = S
  BY <1>1, AscendingFacts
<1>3. /\ r = Done(p, WriteVector(a), rest) /\ Got(r) = a /\ WriteVector(a) \in Seq(Field)
      /\ q \in Reader /\ q.ok /\ n \in Int
  <2> HIDE DEF a
  <2>1. /\ r = Done(p, WriteVector(a), rest) /\ Got(r) = a /\ WriteVector(a) \in Seq(Field)
        /\ q \in Reader /\ q.ok /\ n = Len(a) /\ Len(a) \in Nat
    BY <1>1, ListIsRead
  <2> QED BY <2>1
<1>4. ReadSet(p) = IF ~ r.ok THEN r
                   ELSE IF \E m \in T : m < 0 THEN Throw(r)
                   ELSE [r EXCEPT !.values[Len(r.values)] = Ascending(T)]
  BY DEF ReadSet, Goes
<1> HIDE DEF q, n, r
<1>5. r \in Reader /\ r.ok
  <2> HIDE DEF a
  <2> QED BY <1>3, DoneFacts
<1>6. HasRead(r)
  BY <1>3, NumbersType, SizesAssumption DEF r
<1>7. T = S
  BY <1>2, <1>3
<1>8. ~ \E m \in T : m < 0
  <2>1. T \in SUBSET Nat
    BY <1>1, <1>7
  <2> HIDE DEF T
  <2>2. \A m \in T : m \in Nat
    BY <2>1
  <2> QED BY <2>2
<1>9. [r EXCEPT !.values[Len(r.values)] = Ascending(T)] = r
  BY <1>3, <1>5, <1>6, <1>7, LastKept
<1> HIDE DEF T, a
<1> QED BY <1>1, <1>2, <1>3, <1>4, <1>5, <1>8, <1>9

LEMMA RowIsRead ==
  ASSUME NEW p \in Reader, p.ok, NEW row, RowFits(row),
         NEW rest \in Seq(Symbols), p.bytes = FB(WriteRow(row)) \o rest
  PROVE  ReadRow(p) = Done(p, WriteRow(row), rest) /\ WriteRow(row) \in Seq(Field)
<1> DEFINE n == Len(row)
           ns == <<n, BIT64>>
           f == Ints(ns)
           g == Longs(row)
           after == FB(<<g>>) \o rest
           q == ReadNumbers(p, 2, BIT32)
           r == ReadNumbers(q, Got(q)[1], Got(q)[2])
           k == Len(Got(r))
           x == [i \in 1 .. IF k < PhiM THEN PhiM ELSE k |-> IF i =< k THEN Got(r)[i] ELSE 0]
<1>1. row \in Seq(Int) /\ n = PhiM /\ WriteRow(row) \in Seq(Plain) /\ WriteRow(row) = <<f, g>>
  BY DEF RowFits, WriteRow
<1>2. f \in Plain /\ g \in Plain /\ f \in Field /\ g \in Field
  <2> HIDE DEF f, g
  <2> QED BY <1>1, TwoPlain
<1>3. /\ after \in Seq(Symbols) /\ p.bytes = FB(<<f>>) \o after
      /\ <<f>> \in Seq(Field) /\ <<g>> \in Seq(Field) /\ WriteRow(row) = <<f>> \o <<g>>
  <2> HIDE DEF f, g
  <2>1. /\ <<f>> \in Seq(Field) /\ <<g>> \in Seq(Field) /\ <<f, g>> = <<f>> \o <<g>>
        /\ FB(<<g>>) \o rest \in Seq(Symbols)
        /\ FB(<<f, g>>) \o rest = FB(<<f>>) \o (FB(<<g>>) \o rest)
    BY <1>2, TwoFields
  <2> QED BY <1>1, <2>1
<1> HIDE DEF after
<1>4. Len(ns) = 2 /\ ns[1] = n /\ ns[2] = BIT64
  OBVIOUS
<1> HIDE DEF q, ns
<1>5. q = Done(p, <<f>>, after) /\ Got(q) = ns
  BY <1>2, <1>3, <1>4, IntsAreRead DEF q
<1>6. q \in Reader /\ q.ok /\ q.bytes = after
  <2> HIDE DEF f
  <2> QED BY <1>3, <1>5, DoneFacts
<1>7. /\ ReadNumbers(q, n, BIT64) = Done(q, <<g>>, rest) /\ Got(ReadNumbers(q, n, BIT64)) = row
  BY <1>2, <1>6, LongsAreRead DEF after
<1>8. r = ReadNumbers(q, n, BIT64)
  BY <1>4, <1>5
<1>9. r = Done(p, WriteRow(row), rest) /\ Got(r) = row
  <2> HIDE DEF f, g
  <2>1. Done(Done(p, <<f>>, after), <<g>>, rest) = Done(p, <<f>> \o <<g>>, rest)
    BY <1>3, DoneTwice
  <2> QED BY <1>3, <1>5, <1>7, <1>8, <2>1
<1>10. WriteRow(row) \in Seq(Field)
  BY <1>3, FieldsConcat
<1> HIDE DEF f, g
<1>11. r \in Reader /\ HasRead(r)
  <2>1. n \in Int
    BY <1>1
  <2> HIDE DEF n, r
  <2>2. ReadNumbers(q, n, BIT64) \in Reader /\ HasRead(ReadNumbers(q, n, BIT64))
    BY <1>6, <2>1, NumbersType, SizesAssumption
  <2> QED BY <1>8, <2>2
<1>12. x = row
  <2>1. k = PhiM /\ PhiM \in Nat
    BY <1>1, <1>9, SizesAssumption
  <2>2. x = [i \in 1 .. PhiM |-> row[i]]
    <3> HIDE DEF r
    <3> QED BY <1>9, <2>1
  <2>3. row = [i \in 1 .. PhiM |-> row[i]]
    BY <1>1, LenProperties
  <2> QED BY <2>2, <2>3
<1>13. ReadRow(p) = IF ~ q.ok THEN q
                    ELSE IF Got(q)[2] \notin {BIT64, BIT32} THEN Throw(q)
                    ELSE [r EXCEPT !.values[Len(r.values)] = x]
  BY DEF ReadRow, Goes, q
<1> HIDE DEF x, r, n
<1>14. [r EXCEPT !.values[Len(r.values)] = x] = r
  BY <1>9, <1>11, <1>12, LastKept
<1> QED BY <1>4, <1>5, <1>6, <1>9, <1>10, <1>13, <1>14

LEMMA NoFields == FB(<<>>) = <<>> /\ Vals(<<>>) = <<>> /\ <<>> \in Seq(Field)
<1>1. <<>> \in Seq(Field)
  OBVIOUS
<1>2. BytesOf(<<>>) = <<>> /\ ValuesOf(<<>>) = <<>>
  BY DEF BytesOf, ValuesOf
<1>3. FB(<<>>) = FlattenSeq(BytesOf(<<>>)) /\ Vals(<<>>) = FlattenSeq(ValuesOf(<<>>))
  BY <1>1, ListsOf
<1> QED BY <1>1, <1>2, <1>3, FlattenEmpty

\* The fields of i rows.
RowsOf(row, i) == FlattenSeq([j \in 1 .. i |-> WriteRow(row)])

LEMMA RowsOfAre ==
  ASSUME NEW row, RowFits(row)
  PROVE  /\ RowsOf(row, 0) = <<>>
         /\ \A i \in Nat : /\ RowsOf(row, i) \in Seq(Field)
                           /\ RowsOf(row, i + 1) = RowsOf(row, i) \o WriteRow(row)
                           /\ RowsOf(row, i + 1) = WriteRow(row) \o RowsOf(row, i)
<1> DEFINE w == WriteRow(row)
           s(i) == [j \in 1 .. i |-> w]
<1>1. w \in Seq(Field)
  <2>1. Plain \subseteq Field
    BY DEF Plain
  <2> QED BY <2>1, SeqMonotonic DEF RowFits
<1> HIDE DEF w
<1>2. RowsOf(row, 0) = <<>>
  <2>1. s(0) = <<>>
    OBVIOUS
  <2>2. RowsOf(row, 0) = FlattenSeq(s(0))
    BY DEF RowsOf, w
  <2> HIDE DEF s
  <2> QED BY <2>1, <2>2, FlattenEmpty
<1>3. ASSUME NEW i \in Nat
      PROVE  /\ RowsOf(row, i) \in Seq(Field)
             /\ RowsOf(row, i + 1) = RowsOf(row, i) \o WriteRow(row)
             /\ RowsOf(row, i + 1) = WriteRow(row) \o RowsOf(row, i)
  <2>1. s(i) \in Seq(Seq(Field)) /\ Len(s(i)) = i /\ \A j \in 1 .. i : s(i)[j] = w
    BY <1>1
  <2>2. s(i + 1) \in Seq(Seq(Field)) /\ Len(s(i + 1)) = i + 1 /\ \A j \in 1 .. i + 1 : s(i + 1)[j] = w
    BY <1>1
  <2>3. RowsOf(row, i) = FlattenSeq(s(i)) /\ RowsOf(row, i + 1) = FlattenSeq(s(i + 1))
    BY DEF RowsOf, w
  <2> DEFINE a == s(i)
             b == s(i + 1)
  <2> HIDE DEF s
  <2> HIDE DEF a, b
  <2>4. b = Append(a, w)
    <3>1. Append(a, w) \in Seq(Seq(Field)) /\ Len(Append(a, w)) = i + 1
          /\ \A j \in 1 .. i + 1 : Append(a, w)[j] = w
      <4>1. a \in Seq(Seq(Field)) /\ Len(a) = i /\ \A j \in 1 .. i : a[j] = w
        BY <2>1 DEF a
      <4> QED BY <1>1, <4>1, AppendProperties
    <3>2. b \in Seq(Seq(Field)) /\ Len(b) = i + 1 /\ \A j \in 1 .. i + 1 : b[j] = w
      BY <2>2 DEF b
    <3> QED BY <3>1, <3>2, SeqEqual
  <2>5. b = <<w>> \o a
    <3>1. a \in Seq(Seq(Field)) /\ Len(a) = i /\ \A j \in 1 .. i : a[j] = w
      BY <2>1 DEF a
    <3> DEFINE c == <<w>> \o a
    <3>2. <<w>> \in Seq(Seq(Field)) /\ Len(<<w>>) = 1 /\ <<w>>[1] = w
      BY <1>1
    <3>3. /\ c \in Seq(Seq(Field)) /\ Len(c) = 1 + i
          /\ \A j \in 1 .. 1 + i : c[j] = IF j =< 1 THEN <<w>>[j] ELSE a[j - 1]
      BY <3>1, <3>2, ConcatProperties
    <3> HIDE DEF c
    <3>4. ASSUME NEW j \in 1 .. i + 1 PROVE c[j] = w
      <4>1. CASE j = 1
        BY <3>2, <3>3, <4>1
      <4>2. CASE j # 1
        <5>1. j - 1 \in 1 .. i /\ ~ j =< 1 /\ j \in 1 .. 1 + i
          BY <4>2
        <5> QED BY <3>1, <3>3, <5>1
      <4> QED BY <4>1, <4>2
    <3>5. b \in Seq(Seq(Field)) /\ Len(b) = i + 1 /\ \A j \in 1 .. i + 1 : b[j] = w
      BY <2>2 DEF b
    <3>6. Len(c) = i + 1 /\ \A j \in 1 .. Len(b) : b[j] = c[j]
      BY <3>3, <3>4, <3>5
    <3>7. b = c
      BY <3>3, <3>5, <3>6, SeqEqual
    <3> QED BY <3>7 DEF c
  <2>6. a \in Seq(Seq(Field)) /\ <<w>> \in Seq(Seq(Field))
    BY <1>1, <2>1 DEF a
  <2>7. FlattenSeq(Append(a, w)) = FlattenSeq(a) \o w
    BY <1>1, <2>6, FlattenAppend
  <2>8. FlattenSeq(<<w>> \o a) = FlattenSeq(<<w>>) \o FlattenSeq(a) /\ FlattenSeq(<<w>>) = w
    BY <1>1, <2>6, FlattenConcat, FlattenOne
  <2>9. FlattenSeq(a) \in Seq(Field)
    BY <2>6, FlattenIsSeq
  <2> QED BY <2>3, <2>4, <2>5, <2>7, <2>8, <2>9 DEF a, b, w
<1> QED BY <1>2, <1>3

\* n rows, each where the one before ended.
LEMMA RowsAreRead ==
  ASSUME NEW p \in Reader, p.ok, NEW row, RowFits(row), NEW n \in Nat,
         NEW rest \in Seq(Symbols), p.bytes = FB(RowsOf(row, n)) \o rest
  PROVE  Rows(n, p) = Done(p, RowsOf(row, n), rest)
<1> DEFINE R(i)    == RowsOf(row, i)
           left(i) == FB(R(n - i)) \o rest
           at(i)   == Done(p, R(i), left(i))
<1>1. /\ R(0) = <<>>
      /\ \A i \in Nat : /\ R(i) \in Seq(Field) /\ R(i + 1) = R(i) \o WriteRow(row)
                        /\ R(i + 1) = WriteRow(row) \o R(i)
  BY RowsOfAre
<1>2. \A i \in Nat : FB(R(i)) \in Seq(Symbols)
  BY <1>1, ListsOf
<1>3. WriteRow(row) \in Seq(Field) /\ FB(WriteRow(row)) \in Seq(Symbols)
  <2>1. Plain \subseteq Field
    BY DEF Plain
  <2>2. WriteRow(row) \in Seq(Field)
    BY <2>1, SeqMonotonic DEF RowFits
  <2> QED BY <2>2, ListsOf
<1>4. ASSUME NEW i \in 0 .. n PROVE left(i) \in Seq(Symbols)
  <2>1. n - i \in Nat
    OBVIOUS
  <2>2. FB(R(n - i)) \in Seq(Symbols)
    BY <1>2, <2>1
  <2> QED BY <2>2, ConcatProperties
<1> HIDE DEF R
<1>5. ASSUME NEW i \in 0 .. n PROVE at(i) \in Reader /\ at(i).ok /\ at(i).bytes = left(i)
  <2>1. left(i) \in Seq(Symbols)
    BY <1>4
  <2> HIDE DEF left
  <2>2. i \in Nat
    OBVIOUS
  <2>3. R(i) \in Seq(Field)
    BY <1>1, <2>2
  <2> QED BY <2>1, <2>3, DoneFacts
<1>6. at(0) = p
  <2>1. left(0) = p.bytes
    BY DEF R
  <2>2. Vals(<<>>) = <<>>
    BY NoFields
  <2>3. p.values \o <<>> = p.values
    BY ReaderFields
  <2> HIDE DEF left
  <2> QED BY <1>1, <2>1, <2>2, <2>3 DEF Done, Now, Reader
<1>7. ASSUME NEW i \in 1 .. n PROVE ReadRow(at(i - 1)) = at(i)
  <2> DEFINE j == i - 1
             q == at(j)
  <2>1. j \in 0 .. n /\ j \in Nat /\ i \in 0 .. n /\ j + 1 = i /\ n - i \in Nat /\ n - j = (n - i) + 1
    OBVIOUS
  <2>2. left(j) = FB(WriteRow(row)) \o left(i)
    <3>1. R(n - j) = WriteRow(row) \o R(n - i) /\ R(n - i) \in Seq(Field)
      BY <1>1, <2>1
    <3>2. FB(R(n - j)) = FB(WriteRow(row)) \o FB(R(n - i)) /\ FB(R(n - i)) \in Seq(Symbols)
      <4>1. FB(WriteRow(row) \o R(n - i)) = FB(WriteRow(row)) \o FB(R(n - i))
        BY <1>3, <3>1, FieldsConcat
      <4>2. FB(R(n - i)) \in Seq(Symbols)
        BY <3>1, ListsOf
      <4> QED BY <3>1, <4>1, <4>2
    <3> DEFINE a == FB(WriteRow(row))
               b == FB(R(n - i))
    <3> HIDE DEF a, b
    <3>3. (a \o b) \o rest = a \o (b \o rest)
      BY <1>3, <3>2, ThreeLists DEF a, b
    <3> QED BY <3>2, <3>3 DEF a, b
  <2>3. q \in Reader /\ q.ok /\ q.bytes = FB(WriteRow(row)) \o left(i) /\ left(i) \in Seq(Symbols)
        /\ left(j) \in Seq(Symbols)
    BY <1>4, <1>5, <2>1, <2>2
  <2>4. R(j) \in Seq(Field) /\ R(i) = R(j) \o WriteRow(row)
    BY <1>1, <2>1
  <2>5. q = Done(p, R(j), left(j)) /\ at(i) = Done(p, R(i), left(i))
    OBVIOUS
  <2> HIDE DEF left, q, at
  <2>6. ReadRow(q) = Done(q, WriteRow(row), left(i))
    BY <2>3, RowIsRead
  <2>7. Done(Done(p, R(j), left(j)), WriteRow(row), left(i)) = Done(p, R(j) \o WriteRow(row), left(i))
    BY <1>3, <2>3, <2>4, DoneTwice
  <2> QED BY <2>4, <2>5, <2>6, <2>7 DEF q
<1>8. NonNegative(n) = n
  BY DEF NonNegative
<1>9. PICK g \in [0 .. n -> Reader] :
        /\ g[0] = p /\ Rows(n, p) = g[n]
        /\ \A i \in 1 .. n : g[i] = IF g[i - 1].ok THEN ReadRow(g[i - 1]) ELSE g[i - 1]
  <2>1. n \in Int
    OBVIOUS
  <2>2. \E g \in [0 .. NonNegative(n) -> Reader] :
           /\ g[0] = p /\ Rows(n, p) = g[NonNegative(n)]
           /\ \A i \in 1 .. NonNegative(n) :
                g[i] = IF g[i - 1].ok THEN ReadRow(g[i - 1]) ELSE g[i - 1]
    BY <2>1, RepeatRow
  <2> QED BY <1>8, <2>2
<1> DEFINE Is(i) == g[i] = at(i)
           good  == {i \in 0 .. n : Is(i)}
<1>10. 0 \in good
  BY <1>6, <1>9
<1>11. ASSUME NEW i \in 1 .. n, i - 1 \in good PROVE i \in good
  <2>1. i - 1 \in 0 .. n /\ i \in 0 .. n
    OBVIOUS
  <2>2. g[i - 1] = at(i - 1)
    BY <1>11
  <2>3. at(i - 1).ok
    BY <1>5, <2>1
  <2> HIDE DEF at
  <2>4. g[i] = ReadRow(at(i - 1))
    BY <1>9, <2>2, <2>3
  <2>5. g[i] = at(i)
    BY <1>7, <2>4
  <2> QED BY <2>1, <2>5
<1>12. n \in good
  <2> DEFINE id == [i \in 0 .. n |-> i]
  <2>1. id[0] \in good /\ \A i \in 1 .. n : id[i - 1] \in good => id[i] \in good
    <3> HIDE DEF good
    <3> QED BY <1>10, <1>11
  <2> HIDE DEF id, good
  <2>2. \A i \in 0 .. n : id[i] \in good
    BY <2>1, StaysInside
  <2>3. id[n] = n /\ n \in 0 .. n
    BY DEF id
  <2> QED BY <2>2, <2>3
<1>13. at(n) = Done(p, R(n), rest)
  <2>1. n - n = 0 /\ FB(<<>>) = <<>>
    BY NoFields
  <2>2. <<>> \o rest = rest
    OBVIOUS
  <2> QED BY <1>1, <2>1, <2>2
<1> HIDE DEF at
<1> QED BY <1>9, <1>12, <1>13 DEF R

\* One list of fields and another.
LEMMA TwoLists ==
  ASSUME NEW fs \in Seq(Field), NEW gs \in Seq(Field), NEW rest \in Seq(Symbols)
  PROVE  /\ fs \o gs \in Seq(Field) /\ FB(gs) \o rest \in Seq(Symbols)
         /\ FB(fs \o gs) \o rest = FB(fs) \o (FB(gs) \o rest)
<1>1. FB(fs) \in Seq(Symbols) /\ FB(gs) \in Seq(Symbols) /\ fs \o gs \in Seq(Field)
      /\ FB(fs \o gs) = FB(fs) \o FB(gs)
  BY ListsOf, FieldsConcat
<1>2. FB(gs) \o rest \in Seq(Symbols)
  BY <1>1, ConcatProperties
<1>3. (FB(fs) \o FB(gs)) \o rest = FB(fs) \o (FB(gs) \o rest)
  BY <1>1, ThreeLists
<1> QED BY <1>1, <1>2, <1>3

LEMMA DoubleCRTIsRead ==
  ASSUME NEW p \in Reader, p.ok, NEW S, NEW row, SetFits(S), S = {} \/ RowFits(row),
         NEW rest \in Seq(Symbols), p.bytes = FB(WriteDoubleCRT(S, row)) \o rest
  PROVE  /\ ReadDoubleCRT(p) = Done(p, WriteDoubleCRT(S, row), rest)
         /\ WriteDoubleCRT(S, row) \in Seq(Field)
<1> DEFINE n == Cardinality(S)
           fs == WriteSet(S)
           gs == RowsOf(row, n)
           after == FB(gs) \o rest
           q == ReadSet(p)
<1>1. n \in Nat /\ (S = {} => n = 0)
  BY FS_CardinalityType, FS_EmptySet DEF SetFits
<1>2. fs \in Seq(Field)
  <2>1. Plain \subseteq Field
    BY DEF Plain
  <2> QED BY <2>1, SeqMonotonic DEF SetFits
<1>3. gs \in Seq(Field)
  <2>1. CASE S = {}
    <3>1. [j \in 1 .. n |-> WriteRow(row)] = <<>>
      BY <1>1, <2>1
    <3>2. gs = <<>>
      BY <3>1, FlattenEmpty DEF RowsOf
    <3> QED BY <3>2
  <2>2. CASE RowFits(row)
    BY <1>1, <2>2, RowsOfAre
  <2> QED BY <2>1, <2>2
<1>4. WriteDoubleCRT(S, row) = fs \o gs
  BY DEF WriteDoubleCRT, RowsOf
<1> HIDE DEF fs, gs
<1>5. /\ after \in Seq(Symbols) /\ p.bytes = FB(fs) \o after /\ fs \o gs \in Seq(Field)
  <2>1. fs \o gs \in Seq(Field) /\ FB(gs) \o rest \in Seq(Symbols)
        /\ FB(fs \o gs) \o rest = FB(fs) \o (FB(gs) \o rest)
    BY <1>2, <1>3, TwoLists
  <2> QED BY <1>4, <2>1
<1> HIDE DEF after
<1>6. q = Done(p, fs, after) /\ Len(Got(q)) = n
  BY <1>5, SetIsRead DEF fs
<1> HIDE DEF n
<1>7. q \in Reader /\ q.ok /\ q.bytes = after
  <2> HIDE DEF q
  <2> QED BY <1>2, <1>5, <1>6, DoneFacts
<1>8. ReadDoubleCRT(p) = Rows(n, q)
  BY <1>6, <1>7 DEF ReadDoubleCRT, Rows, Goes
<1> HIDE DEF q
<1>9. Rows(n, q) = Done(q, gs, rest)
  <2>1. CASE S = {}
    <3>1. n = 0 /\ gs = <<>> /\ after = rest
      <4>1. n = 0
        BY <1>1, <2>1 DEF n
      <4>2. [j \in 1 .. n |-> WriteRow(row)] = <<>>
        BY <4>1
      <4>3. gs = <<>>
        BY <4>2, FlattenEmpty DEF RowsOf, gs
      <4>4. <<>> \o rest = rest
        OBVIOUS
      <4> QED BY <4>1, <4>3, <4>4, NoFields DEF after
    <3>2. Rows(n, q) = q
      <4>1. NonNegative(0) = 0 /\ 0 \in Int
        BY DEF NonNegative
      <4>2. \E g : g[0] = q /\ Rows(0, q) = g[NonNegative(0)]
        BY <1>7, <4>1, RepeatRow
      <4> QED BY <3>1, <4>1, <4>2
    <3>3. Done(q, <<>>, rest) = q
      <4>1. q.values \o <<>> = q.values
        BY <1>7, ReaderFields
      <4> QED BY <1>7, <3>1, <4>1, NoFields DEF Done, Now, Reader
    <3> QED BY <3>1, <3>2, <3>3
  <2>2. CASE RowFits(row)
    <3>1. n \in Nat /\ gs = RowsOf(row, n) /\ q.bytes = FB(RowsOf(row, n)) \o rest
      BY <1>1, <1>7 DEF gs, after, n
    <3>2. Rows(n, q) = Done(q, RowsOf(row, n), rest)
      BY <1>7, <2>2, <3>1, RowsAreRead
    <3> QED BY <3>1, <3>2
  <2> QED BY <2>1, <2>2
<1>10. Done(Done(p, fs, after), gs, rest) = Done(p, fs \o gs, rest)
  BY <1>2, <1>3, <1>5, DoneTwice
<1> QED BY <1>4, <1>5, <1>6, <1>8, <1>9, <1>10

LEMMA HandleIsRead ==
  ASSUME NEW p \in Reader, p.ok, NEW h, Longs(h) \in Plain, Len(h) = 3,
         NEW rest \in Seq(Symbols), p.bytes = FB(WriteHandle(h)) \o rest
  PROVE  ReadHandle(p) = Done(p, WriteHandle(h), rest) /\ WriteHandle(h) \in Seq(Field)
<1>1. p.bytes = FB(<<Longs(h)>>) \o rest
  BY DEF WriteHandle
<1>2. ReadNumbers(p, 3, BIT64) = Done(p, <<Longs(h)>>, rest)
  BY <1>1, LongsAreRead
<1>3. <<Longs(h)>> \in Seq(Field)
  <2>1. Longs(h) \in Field
    BY PlainFields
  <2> QED BY <2>1, OneField
<1> QED BY <1>2, <1>3 DEF ReadHandle, WriteHandle

LEMMA XDoubleIsRead ==
  ASSUME NEW p \in Reader, p.ok, NEW x, Longs(x) \in Plain, Len(x) = 2,
         NEW rest \in Seq(Symbols), p.bytes = FB(WriteXDouble(x)) \o rest
  PROVE  ReadXDouble(p) = Done(p, WriteXDouble(x), rest)
<1>1. p.bytes = FB(<<Longs(x)>>) \o rest
  BY DEF WriteXDouble
<1>2. ReadNumbers(p, 2, BIT64) = Done(p, <<Longs(x)>>, rest)
  BY <1>1, LongsAreRead
<1> QED BY <1>2 DEF ReadXDouble, WriteXDouble

LEMMA PartIsRead ==
  ASSUME NEW p \in Reader, p.ok, NEW S, NEW row, NEW h, SetFits(S), S = {} \/ RowFits(row),
         Longs(h) \in Plain, Len(h) = 3,
         NEW rest \in Seq(Symbols), p.bytes = FB(WritePart(S, row, h)) \o rest
  PROVE  ReadPart(p) = Done(p, WritePart(S, row, h), rest)
<1> DEFINE fs == WriteDoubleCRT(S, row)
           gs == WriteHandle(h)
           after == FB(gs) \o rest
           q == ReadDoubleCRT(p)
<1>1. WritePart(S, row, h) = fs \o gs
  BY DEF WritePart
<1>2. gs \in Seq(Field)
  <2>1. Longs(h) \in Field
    BY PlainFields
  <2> QED BY <2>1, OneField DEF WriteHandle
<1>3. fs \in Seq(Field)
  <2>1. Plain \subseteq Field
    BY DEF Plain
  <2>2. WriteSet(S) \in Seq(Field)
    BY <2>1, SeqMonotonic DEF SetFits
  <2>3. RowsOf(row, Cardinality(S)) \in Seq(Field)
    <3>1. Cardinality(S) \in Nat
      BY FS_CardinalityType DEF SetFits
    <3>2. CASE S = {}
      <4>1. [j \in 1 .. Cardinality(S) |-> WriteRow(row)] = <<>>
        BY <3>2, FS_EmptySet
      <4>2. RowsOf(row, Cardinality(S)) = <<>>
        BY <4>1, FlattenEmpty DEF RowsOf
      <4> QED BY <4>2
    <3>3. CASE RowFits(row)
      BY <3>1, <3>3, RowsOfAre
    <3> QED BY <3>2, <3>3
  <2>4. fs = WriteSet(S) \o RowsOf(row, Cardinality(S))
    BY DEF WriteDoubleCRT, RowsOf
  <2> HIDE DEF fs
  <2> QED BY <2>2, <2>3, <2>4, FieldsConcat
<1> HIDE DEF fs, gs
<1>4. after \in Seq(Symbols) /\ p.bytes = FB(fs) \o after
  <2>1. FB(gs) \o rest \in Seq(Symbols) /\ FB(fs \o gs) \o rest = FB(fs) \o (FB(gs) \o rest)
    BY <1>2, <1>3, TwoLists
  <2> QED BY <1>1, <2>1
<1> HIDE DEF after
<1>5. q = Done(p, fs, after)
  BY <1>4, DoubleCRTIsRead DEF fs
<1> HIDE DEF q
<1>6. q \in Reader /\ q.ok /\ q.bytes = after
  BY <1>3, <1>4, <1>5, DoneFacts
<1>7. ReadHandle(q) = Done(q, gs, rest)
  BY <1>6, HandleIsRead DEF gs, after
<1>8. Done(Done(p, fs, after), gs, rest) = Done(p, fs \o gs, rest)
  BY <1>2, <1>3, <1>4, DoneTwice
<1> QED BY <1>1, <1>5, <1>7, <1>8 DEF ReadPart, q

LEMMA ZZIsRead ==
  ASSUME NEW p \in Reader, p.ok, NEW bytes, bytes # <<>>, WriteZZ(bytes) \in Seq(Plain),
         NEW rest \in Seq(Symbols), p.bytes = FB(WriteZZ(bytes)) \o rest
  PROVE  ReadZZ(p) = Done(p, WriteZZ(bytes), rest)
<1> DEFINE n == Len(bytes)
           f == Longs(<<n>>)
           g == ZZ(bytes)
           after == FB(<<g>>) \o rest
           q == ReadLong(p)
<1>1. WriteZZ(bytes) = <<f, g>>
  BY DEF WriteZZ
<1>2. f \in Plain /\ g \in Plain /\ f \in Field /\ g \in Field
  <2> HIDE DEF f, g
  <2> QED BY <1>1, TwoPlain
<1>3. g[1] = "bytes" /\ g[2] = bytes
  BY DEF ZZ
<1> HIDE DEF g
<1>4. bytes \in Seq(Symbols) /\ FB(<<g>>) = bytes /\ n \in Nat /\ n # 0
  <2>1. bytes \in Seq(Symbols) /\ FB(<<g>>) = bytes
    BY <1>2, <1>3, OneField, FieldBytesType
  <2> QED BY <2>1
<1>5. /\ after \in Seq(Symbols) /\ p.bytes = FB(<<f>>) \o after
      /\ <<f>> \in Seq(Field) /\ <<g>> \in Seq(Field) /\ WriteZZ(bytes) = <<f>> \o <<g>>
  <2> HIDE DEF f
  <2>1. /\ <<f>> \in Seq(Field) /\ <<g>> \in Seq(Field) /\ <<f, g>> = <<f>> \o <<g>>
        /\ FB(<<g>>) \o rest \in Seq(Symbols)
        /\ FB(<<f, g>>) \o rest = FB(<<f>>) \o (FB(<<g>>) \o rest)
    BY <1>2, TwoFields
  <2> QED BY <1>1, <2>1
<1> HIDE DEF after, q
<1>6. q = Done(p, <<f>>, after) /\ Got(q) = <<n>>
  <2>1. Len(<<n>>) = 1
    OBVIOUS
  <2> QED BY <1>2, <1>5, <2>1, LongsAreRead DEF q, ReadLong
<1> HIDE DEF f
<1>7. q \in Reader /\ q.ok /\ q.bytes = after /\ Got(q)[1] = n
  <2>1. <<n>>[1] = n
    OBVIOUS
  <2> HIDE DEF n
  <2> QED BY <1>5, <1>6, <2>1, DoneFacts
<1>8. Slice(q.bytes, 1, n) = bytes /\ Rest(q.bytes, n) = rest
  BY <1>4, <1>7, SliceOfConcat, RestOfConcat DEF after
<1>9. ReadZZ(p) = [q EXCEPT !.bytes = Rest(@, n), !.values = Append(@, Slice(q.bytes, 1, n))]
  <2>1. ~ n =< 0
    BY <1>4
  <2> QED BY <1>7, <2>1 DEF ReadZZ, Goes, q
<1> HIDE DEF n
<1>10. ReadZZ(p) = Now(q, rest, Append(q.values, bytes))
  BY <1>7, <1>8, <1>9 DEF Now, Reader
<1>11. Done(q, <<g>>, rest) = Now(q, rest, Append(q.values, bytes))
  <2>1. g[1] # "catcher"
    BY <1>3
  <2> QED BY <1>2, <1>3, <1>7, <2>1, DoneOne
<1>12. Done(Done(p, <<f>>, after), <<g>>, rest) = Done(p, <<f>> \o <<g>>, rest)
  BY <1>5, DoneTwice
<1> QED BY <1>5, <1>6, <1>10, <1>11, <1>12

\* Any of the forms without eye catchers.
LEMMA FormIsRead ==
  ASSUME NEW o, o.kind \in Open, IsForm(o), NEW p \in Reader, p.ok,
         NEW rest \in Seq(Symbols), p.bytes = FB(o.fields) \o rest
  PROVE  ReadField(p, o.kind) = Done(p, o.fields, rest)
<1> DEFINE kind == o.kind
           fs   == o.fields
           at(i) == o.fields[i][2]
           S    == ToSet(at(2))
           row  == IF S = {} THEN <<>> ELSE at(4)
           handle == at(Len(o.fields))
<1>1. /\ kind = "IndexSet" => SetFits(S) /\ fs = WriteSet(S)
      /\ kind = "DoubleCRT" => SetFits(S) /\ (S = {} \/ RowFits(row)) /\ fs = WriteDoubleCRT(S, row)
      /\ kind = "CtxtPart" => /\ SetFits(S) /\ (S = {} \/ RowFits(row))
                              /\ Len(handle) = 3 /\ Longs(handle) \in Plain
                              /\ fs = WritePart(S, row, handle)
      /\ kind = "SKHandle" => /\ Len(at(1)) = 3 /\ Longs(at(1)) \in Plain /\ fs = WriteHandle(at(1))
      /\ kind = "xdouble" => /\ Len(at(1)) = 2 /\ Longs(at(1)) \in Plain /\ fs = WriteXDouble(at(1))
      /\ kind = "ZZ" => at(2) # <<>> /\ WriteZZ(at(2)) \in Seq(Plain) /\ fs = WriteZZ(at(2))
      /\ kind = "vector" => WriteVector(at(2)) \in Seq(Plain) /\ fs = WriteVector(at(2))
  BY DEF IsForm
<1>2. kind \in {"IndexSet", "DoubleCRT", "SKHandle", "CtxtPart", "ZZ", "xdouble", "vector"}
  BY DEF Open
<1>3. kind \notin Catchers
  <2>1. Catchers \subseteq {"HEADER", "CONTEXT_BEGIN", "CONTEXT_END", "CTXT_BEGIN", "CTXT_END",
                           "SKM_BEGIN", "SKM_END"}
    BY DEF Catchers, CatcherList, ToSet
  <2> HIDE DEF kind
  <2> QED BY <1>2, <2>1
<1>4. p.bytes = FB(fs) \o rest
  OBVIOUS
<1> HIDE DEF kind, fs, at, S, row, handle
<1>5. CASE kind = "IndexSet"
  <2>1. ReadField(p, kind) = ReadSet(p)
    BY <1>3, <1>5 DEF ReadField
  <2> QED BY <1>1, <1>4, <1>5, <2>1, SetIsRead DEF kind, fs
<1>6. CASE kind = "DoubleCRT"
  <2>1. ReadField(p, kind) = ReadDoubleCRT(p)
    BY <1>3, <1>6 DEF ReadField
  <2> QED BY <1>1, <1>4, <1>6, <2>1, DoubleCRTIsRead DEF kind, fs
<1>7. CASE kind = "CtxtPart"
  <2>1. ReadField(p, kind) = ReadPart(p)
    BY <1>3, <1>7 DEF ReadField
  <2> QED BY <1>1, <1>4, <1>7, <2>1, PartIsRead DEF kind, fs
<1>8. CASE kind = "SKHandle"
  <2>1. ReadField(p, kind) = ReadHandle(p)
    BY <1>3, <1>8 DEF ReadField
  <2> QED BY <1>1, <1>4, <1>8, <2>1, HandleIsRead DEF kind, fs
<1>9. CASE kind = "xdouble"
  <2>1. ReadField(p, kind) = ReadXDouble(p)
    BY <1>3, <1>9 DEF ReadField
  <2> QED BY <1>1, <1>4, <1>9, <2>1, XDoubleIsRead DEF kind, fs
<1>10. CASE kind = "ZZ"
  <2>1. ReadField(p, kind) = ReadZZ(p)
    BY <1>3, <1>10 DEF ReadField
  <2> QED BY <1>1, <1>4, <1>10, <2>1, ZZIsRead DEF kind, fs
<1>11. CASE kind = "vector"
  <2>1. ReadField(p, kind) = ReadVector(p)
    BY <1>3, <1>11 DEF ReadField
  <2> QED BY <1>1, <1>4, <1>11, <2>1, VectorIsRead DEF kind, fs
<1> QED BY <1>2, <1>5, <1>6, <1>7, <1>8, <1>9, <1>10, <1>11

-----------------------------------------------------------------------------
(* The stream.                                                             *)

LEMMA BytesAre ==
  ASSUME NEW o \in Objects
  PROVE  Bytes(o) = FB(o.fields) /\ Bytes(o) \in Seq(Symbols)
         /\ Values(o) = Vals(o.fields) /\ Values(o) \in Seq(Seq(Int)) /\ o.fields \in Seq(Field)
<1>1. o.fields \in Seq(Field)
  BY ObjectsAssumption
<1>2. FB(o.fields) \in Seq(Symbols) /\ Vals(o.fields) \in Seq(Seq(Int))
  BY <1>1, ListsOf
<1> QED BY <1>1, <1>2 DEF Bytes, Values, FB, Vals

\* What the objects of a queue are written as.
Written(q) == FlattenSeq([i \in 1 .. Len(q) |-> Bytes(q[i])])

LEMMA WrittenAre ==
  ASSUME NEW q \in Seq(Objects)
  PROVE  /\ Written(<<>>) = <<>> /\ Written(q) \in Seq(Symbols)
         /\ \A o \in Objects : Written(Append(q, o)) = Written(q) \o Bytes(o)
         /\ q # <<>> => Written(q) = Bytes(Head(q)) \o Written(Tail(q))
<1> DEFINE all(u) == [i \in 1 .. Len(u) |-> Bytes(u[i])]
<1>1. ASSUME NEW u \in Seq(Objects)
      PROVE  all(u) \in Seq(Seq(Symbols)) /\ Len(all(u)) = Len(u)
             /\ \A i \in 1 .. Len(u) : all(u)[i] = Bytes(u[i])
  <2>1. \A i \in 1 .. Len(u) : Bytes(u[i]) \in Seq(Symbols)
    <3>1. ASSUME NEW i \in 1 .. Len(u) PROVE Bytes(u[i]) \in Seq(Symbols)
      <4>1. u[i] \in Objects
        BY ElementOfSeq
      <4> QED BY <4>1, BytesAre
    <3> QED BY <3>1
  <2> QED BY <2>1
<1>2. \A u : Written(u) = FlattenSeq(all(u))
  BY DEF Written
<1>3. all(<<>>) = <<>>
  OBVIOUS
<1> HIDE DEF all
<1>4. Written(<<>>) = <<>> /\ Written(q) \in Seq(Symbols)
  BY <1>1, <1>2, <1>3, FlattenEmpty, FlattenIsSeq
<1>5. ASSUME NEW o \in Objects PROVE Written(Append(q, o)) = Written(q) \o Bytes(o)
  <2> DEFINE u == Append(q, o)
             a == all(q)
             b == all(u)
             x == Bytes(o)
  <2>1. /\ u \in Seq(Objects) /\ Len(u) = Len(q) + 1 /\ Len(q) \in Nat /\ u[Len(q) + 1] = o
        /\ \A i \in 1 .. Len(q) : u[i] = q[i]
    BY AppendProperties
  <2> HIDE DEF u
  <2>2. a \in Seq(Seq(Symbols)) /\ Len(a) = Len(q) /\ \A i \in 1 .. Len(q) : a[i] = Bytes(q[i])
    BY <1>1
  <2>3. b \in Seq(Seq(Symbols)) /\ Len(b) = Len(u) /\ \A i \in 1 .. Len(u) : b[i] = Bytes(u[i])
    BY <1>1, <2>1
  <2>4. x \in Seq(Symbols)
    BY BytesAre
  <2> HIDE DEF a, b
  <2>5. /\ Append(a, x) \in Seq(Seq(Symbols)) /\ Len(Append(a, x)) = Len(q) + 1
        /\ Append(a, x)[Len(q) + 1] = x /\ \A i \in 1 .. Len(q) : Append(a, x)[i] = a[i]
    <3> HIDE DEF x
    <3>1. a \in Seq(Seq(Symbols)) /\ Len(a) = Len(q)
      BY <2>2
    <3>2. x \in Seq(Symbols)
      BY <2>4
    <3>3. /\ Append(a, x) \in Seq(Seq(Symbols)) /\ Len(Append(a, x)) = Len(a) + 1
          /\ Append(a, x)[Len(a) + 1] = x /\ \A i \in 1 .. Len(a) : Append(a, x)[i] = a[i]
      BY <3>1, <3>2, AppendProperties
    <3> QED BY <3>1, <3>3
  <2>6. ASSUME NEW i \in 1 .. Len(b) PROVE b[i] = Append(a, x)[i]
    <3>1. i \in 1 .. Len(u)
      BY <2>3
    <3>2. CASE i = Len(q) + 1
      BY <2>1, <2>3, <2>5, <3>1, <3>2
    <3>3. CASE i # Len(q) + 1
      <4>1. i \in 1 .. Len(q)
        BY <2>1, <3>1, <3>3
      <4> QED BY <2>1, <2>2, <2>3, <2>5, <3>1, <4>1
    <3> QED BY <3>2, <3>3
  <2>7. b = Append(a, x)
    <3>1. Len(b) = Len(Append(a, x)) /\ b \in Seq(Seq(Symbols)) /\ Append(a, x) \in Seq(Seq(Symbols))
      BY <2>1, <2>3, <2>5
    <3> QED BY <2>6, <3>1, SeqEqual
  <2>8. FlattenSeq(Append(a, x)) = FlattenSeq(a) \o x
    BY <2>2, <2>4, FlattenAppend
  <2> QED BY <1>2, <2>7, <2>8 DEF a, b, u
<1>6. ASSUME q # <<>> PROVE Written(q) = Bytes(Head(q)) \o Written(Tail(q))
  <2> DEFINE o == Head(q)
             t == Tail(q)
             a == all(q)
             b == all(t)
             x == Bytes(o)
             c == <<x>> \o b
  <2>1. /\ t \in Seq(Objects) /\ Len(t) = Len(q) - 1 /\ Len(q) \in Nat /\ Len(q) # 0
        /\ o = q[1] /\ o \in Objects /\ \A i \in 1 .. Len(q) - 1 : t[i] = q[i + 1]
    <3>1. t \in Seq(Objects) /\ Len(t) = Len(q) - 1 /\ \A i \in 1 .. Len(t) : t[i] = q[i + 1]
      BY <1>6, HeadTailProperties
    <3>2. o \in Objects /\ o = q[1] /\ Len(q) # 0
      BY <1>6, HeadTailProperties, EmptySeq
    <3> QED BY <3>1, <3>2
  <2>2. x \in Seq(Symbols) /\ <<x>> \in Seq(Seq(Symbols)) /\ Len(<<x>>) = 1 /\ <<x>>[1] = x
    <3>1. x \in Seq(Symbols)
      BY <2>1, BytesAre
    <3> HIDE DEF x
    <3> QED BY <3>1
  <2> HIDE DEF t, o
  <2>3. a \in Seq(Seq(Symbols)) /\ Len(a) = Len(q) /\ \A i \in 1 .. Len(q) : a[i] = Bytes(q[i])
    BY <1>1
  <2>4. b \in Seq(Seq(Symbols)) /\ Len(b) = Len(t) /\ \A i \in 1 .. Len(t) : b[i] = Bytes(t[i])
    BY <1>1, <2>1
  <2> HIDE DEF a, b, x
  <2>5. /\ c \in Seq(Seq(Symbols)) /\ Len(c) = 1 + Len(b)
        /\ \A i \in 1 .. 1 + Len(b) : c[i] = IF i =< 1 THEN <<x>>[i] ELSE b[i - 1]
    <3>1. b \in Seq(Seq(Symbols)) /\ <<x>> \in Seq(Seq(Symbols)) /\ Len(<<x>>) = 1
      BY <2>2, <2>4
    <3> QED BY <3>1, ConcatProperties
  <2> HIDE DEF c
  <2>6. ASSUME NEW i \in 1 .. Len(a) PROVE a[i] = c[i]
    <3>1. i \in 1 .. Len(q) /\ i \in 1 .. 1 + Len(b)
      BY <2>1, <2>3, <2>4
    <3>2. CASE i = 1
      <4>1. a[1] = Bytes(q[1]) /\ c[1] = x
        BY <2>2, <2>3, <2>5, <3>1, <3>2
      <4> QED BY <2>1, <3>2, <4>1 DEF x
    <3>3. CASE i # 1
      <4>1. i - 1 \in 1 .. Len(t) /\ i - 1 \in 1 .. Len(q) - 1 /\ (i - 1) + 1 = i /\ ~ i =< 1
        BY <2>1, <3>1, <3>3
      <4>2. c[i] = b[i - 1] /\ b[i - 1] = Bytes(t[i - 1]) /\ t[i - 1] = q[i]
        BY <2>1, <2>4, <2>5, <3>1, <4>1
      <4> QED BY <2>3, <3>1, <4>2
    <3> QED BY <3>2, <3>3
  <2>7. a = c
    <3>1. Len(a) = Len(c) /\ a \in Seq(Seq(Symbols)) /\ c \in Seq(Seq(Symbols))
      BY <2>1, <2>3, <2>4, <2>5
    <3> QED BY <2>6, <3>1, SeqEqual
  <2>8. FlattenSeq(<<x>> \o b) = FlattenSeq(<<x>>) \o FlattenSeq(b) /\ FlattenSeq(<<x>>) = x
    BY <2>2, <2>4, FlattenConcat, FlattenOne
  <2> QED BY <1>2, <2>7, <2>8 DEF a, b, c, x, t, o
<1> QED BY <1>4, <1>5, <1>6

\* Reading the first object of the queue, of a kind without eye catchers.
LEMMA FirstIsRead ==
  ASSUME NEW q \in Seq(Objects), q # <<>>, NEW stack \in BOOLEAN, Head(q).kind \in Open
  PROVE  LET p == Read(Head(q).kind, Written(q), stack)
         IN p.ok /\ p.values = Values(Head(q)) /\ p.bytes = Written(Tail(q))
<1> DEFINE o == Head(q)
           rest == Written(Tail(q))
           bytes == Written(q)
           s == Start(bytes, stack)
<1>1. o \in Objects /\ Tail(q) \in Seq(Objects) /\ o.kind \in Open
  BY HeadTailProperties
<1>2. bytes = Bytes(o) \o rest /\ bytes \in Seq(Symbols) /\ rest \in Seq(Symbols)
  <2>1. rest \in Seq(Symbols)
    BY <1>1, WrittenAre
  <2> QED BY <2>1, WrittenAre
<1> HIDE DEF o, rest, bytes
<1>3. /\ s \in Reader /\ s.ok /\ s.bytes = bytes /\ s.values = <<>>
  BY <1>2 DEF Start, Reader
<1>4. /\ Bytes(o) = FB(o.fields) /\ Values(o) = Vals(o.fields) /\ o.fields \in Seq(Field)
      /\ Values(o) \in Seq(Seq(Int)) /\ IsForm(o)
  BY <1>1, BytesAre, ObjectsAssumption
<1>5. Read(o.kind, bytes, stack) = ReadField(s, o.kind)
  BY <1>1, <1>2, ReadUnfolds
<1> HIDE DEF s
<1>6. ReadField(s, o.kind) = Done(s, o.fields, rest)
  BY <1>1, <1>2, <1>3, <1>4, FormIsRead
<1>7. /\ Done(s, o.fields, rest).ok /\ Done(s, o.fields, rest).bytes = rest
      /\ Done(s, o.fields, rest).values = <<>> \o Values(o)
  <2>1. /\ Done(s, o.fields, rest).ok = s.ok /\ Done(s, o.fields, rest).bytes = rest
        /\ Done(s, o.fields, rest).values = s.values \o Vals(o.fields)
    <3>1. s \in Reader /\ o.fields \in Seq(Field) /\ rest \in Seq(Symbols)
      BY <1>2, <1>3, <1>4
    <3> QED BY <3>1, DoneFacts
  <2> QED BY <1>3, <1>4, <2>1
<1>8. <<>> \o Values(o) = Values(o)
  BY <1>4
<1> QED BY <1>5, <1>6, <1>7, <1>8 DEF o, rest, bytes

-----------------------------------------------------------------------------
(* The invariant.                                                          *)

\* The types, and what became of the last read.
Inv ==
  /\ stream \in Seq(Symbols) /\ queue \in Seq(Objects)
  /\ cut \in BOOLEAN /\ threw \in BOOLEAN
  /\ last.kind \in Kinds \cup {"none"} /\ last.returned \in BOOLEAN
  /\ last.kind \in Open /\ last.framed =>
       last.returned /\ last.values = last.expected /\ stream = Written(queue)

LEMMA KindsAre ==
  /\ Kinds \subseteq Open \cup Closed /\ "none" \notin Open /\ "none" \notin Closed
  /\ NoRead.kind = "none" /\ NoRead.returned = FALSE
<1>1. Kinds \subseteq Open \cup Closed
  BY ObjectsAssumption DEF Kinds
<1> QED BY <1>1 DEF Open, Closed, NoRead

LEMMA InvInit == Init => Inv
<1> SUFFICES ASSUME Init PROVE Inv
  OBVIOUS
<1>1. stream = <<>> /\ queue = <<>> /\ cut = FALSE /\ threw = FALSE /\ last = NoRead
  BY DEF Init
<1>2. <<>> \in Seq(Symbols) /\ <<>> \in Seq(Objects)
  OBVIOUS
<1>3. Written(<<>>) = <<>>
  BY <1>2, WrittenAre
<1> QED BY <1>1, <1>2, <1>3, KindsAre DEF Inv

LEMMA InvImplies == Inv => OpenFormsFramed
<1> SUFFICES ASSUME Inv PROVE OpenFormsFramed
  OBVIOUS
<1>1. TypeOK
  <2>1. stream \in Seq(Symbols)
    BY DEF Inv
  <2>2. \A i \in DOMAIN stream : stream[i] \in Symbols
    BY <2>1
  <2> QED BY <2>2 DEF Inv, TypeOK
<1>2. ASSUME last.kind \in Open, last.framed
      PROVE  last.returned /\ last.values = last.expected /\ stream = Written(queue)
  BY <1>2, KindsAre DEF Inv
<1> QED BY <1>1, <1>2 DEF OpenFormsFramed, Framed, Written

\* Reading from a stream that is in frame.
LEMMA ReadStep ==
  ASSUME queue \in Seq(Objects), stream \in Seq(Symbols),
         NEW kind \in Kinds, NEW stack \in BOOLEAN, ReadFrom(kind, stack)
  PROVE  /\ stream' \in Seq(Symbols) /\ queue' \in Seq(Objects)
         /\ cut' = cut /\ threw' \in BOOLEAN /\ threw' = ~ last'.returned
         /\ last'.kind = kind /\ last'.returned \in BOOLEAN /\ last'.framed = Framed
         /\ kind \in Open /\ Framed =>
              last'.returned /\ last'.values = last'.expected /\ stream' = Written(queue')
<1> DEFINE p == Read(kind, stream, stack)
           o == Head(queue)
<1>1. /\ ~ threw /\ queue # <<>> /\ (kind \in Open => kind = o.kind)
      /\ stream' = p.bytes /\ threw' = ~ p.ok /\ cut' = cut
      /\ queue' = IF p.ok THEN Tail(queue) ELSE queue
      /\ last' = [kind |-> kind, values |-> p.values,
                  expected |-> IF kind = o.kind THEN Values(o) ELSE <<>>,
                  returned |-> p.ok, ub |-> p.ub, cut |-> cut, framed |-> Framed]
  BY DEF ReadFrom
<1>2. kind \in Open \cup Closed
  BY KindsAre
<1>3. p.bytes \in Seq(Symbols) /\ p.ok \in BOOLEAN
  <2>1. p \in Reader
    BY <1>2, ReadUnfolds
  <2> QED BY <2>1, ReaderFields
<1>4. Tail(queue) \in Seq(Objects)
  BY <1>1, HeadTailProperties
<1>5. /\ last'.kind = kind /\ last'.values = p.values /\ last'.returned = p.ok
      /\ last'.framed = Framed /\ (kind = o.kind => last'.expected = Values(o))
  BY <1>1
<1>6. ASSUME kind \in Open, Framed
      PROVE  p.ok /\ p.values = Values(o) /\ p.bytes = Written(Tail(queue)) /\ kind = o.kind
  <2>1. kind = o.kind /\ o.kind \in Open
    BY <1>1, <1>6
  <2>2. stream = Written(queue)
    BY <1>6 DEF Framed, Written
  <2>3. LET r == Read(o.kind, Written(queue), stack)
        IN r.ok /\ r.values = Values(o) /\ r.bytes = Written(Tail(queue))
    BY <1>1, <2>1, FirstIsRead
  <2> QED BY <2>1, <2>2, <2>3
<1> HIDE DEF p, o
<1>7. stream' \in Seq(Symbols) /\ queue' \in Seq(Objects) /\ threw' \in BOOLEAN
  BY <1>1, <1>3, <1>4
<1>8. ASSUME kind \in Open, Framed
      PROVE  last'.returned /\ last'.values = last'.expected /\ stream' = Written(queue')
  <2>1. stream' = Written(Tail(queue)) /\ queue' = Tail(queue)
    BY <1>1, <1>6, <1>8
  <2> QED BY <1>5, <1>6, <1>8, <2>1
<1> QED BY <1>1, <1>3, <1>5, <1>7, <1>8

LEMMA InvNext == Inv /\ [Next]_vars => Inv'
<1> SUFFICES ASSUME Inv, [Next]_vars PROVE Inv'
  OBVIOUS
<1>1. stream \in Seq(Symbols) /\ queue \in Seq(Objects) /\ cut \in BOOLEAN /\ threw \in BOOLEAN
  BY DEF Inv
<1>2. ASSUME NEW o \in Objects, WriteTo(o) PROVE Inv'
  <2>1. /\ stream' = stream \o Bytes(o) /\ queue' = Append(queue, o)
        /\ last' = NoRead /\ cut' = cut /\ threw' = threw
    BY <1>2 DEF WriteTo
  <2>2. Bytes(o) \in Seq(Symbols)
    BY BytesAre
  <2>3. stream \o Bytes(o) \in Seq(Symbols) /\ Append(queue, o) \in Seq(Objects)
    BY <1>1, <2>2, ConcatProperties, AppendProperties
  <2> QED BY <1>1, <2>1, <2>3, KindsAre DEF Inv
<1>3. ASSUME NEW n \in 0 .. Len(stream) - 1, Cut(n) PROVE Inv'
  <2>1. /\ stream' = SubSeq(stream, 1, n) /\ queue' = queue /\ cut' = TRUE /\ threw' = threw
        /\ last' = NoRead
    BY <1>3 DEF Cut
  <2>2. SubSeq(stream, 1, n) \in Seq(Symbols)
    <3>1. n \in Int /\ n =< Len(stream)
      BY <1>1
    <3>2. \A i \in 1 .. n : stream[i] \in Symbols
      BY <1>1, <3>1
    <3> QED BY <1>1, <3>1, <3>2, SubSeqProperties
  <2> QED BY <1>1, <2>1, <2>2, KindsAre DEF Inv
<1>4. ASSUME NEW kind \in Kinds, NEW stack \in BOOLEAN, ReadFrom(kind, stack) PROVE Inv'
  <2>1. /\ stream' \in Seq(Symbols) /\ queue' \in Seq(Objects)
        /\ cut' = cut /\ threw' \in BOOLEAN
        /\ last'.kind = kind /\ last'.returned \in BOOLEAN /\ last'.framed = Framed
        /\ kind \in Open /\ Framed =>
             last'.returned /\ last'.values = last'.expected /\ stream' = Written(queue')
    BY ONLY <1>1, <1>4, ReadStep
  <2> QED BY ONLY <1>1, <2>1 DEF Inv, Kinds
<1>5. ASSUME Reset PROVE Inv'
  <2>1. stream' = <<>> /\ queue' = <<>> /\ cut' = FALSE /\ threw' = FALSE /\ last' = NoRead
    BY <1>5 DEF Reset
  <2>2. <<>> \in Seq(Symbols) /\ <<>> \in Seq(Objects)
    OBVIOUS
  <2> QED BY <2>1, <2>2, KindsAre DEF Inv
<1>6. CASE UNCHANGED vars
  BY <1>6 DEF Inv, vars, Kinds, Written
<1> QED BY <1>2, <1>3, <1>4, <1>5, <1>6 DEF Next

\* Every index set, element, handle, part, integer, floating-point number and vector is
\* read back as it was written, whatever its values and whatever is before and behind it,
\* and leaves the stream in frame if it was.
THEOREM OpenFormsAlwaysFramed == Spec => []OpenFormsFramed
<1>1. Init => Inv
  BY InvInit
<1>2. Inv /\ [Next]_vars => Inv'
  BY InvNext
<1>3. Inv => OpenFormsFramed
  BY InvImplies
<1> QED BY <1>1, <1>2, <1>3, PTL DEF Spec

\* Where nothing is enclosed in eye catchers, no reader ever throws, and the stream is in
\* frame from the beginning until it breaks off.
THEOREM OpenFormsAloneAlwaysFramed ==
  ASSUME Kinds \subseteq Open
  PROVE  Spec => [](~ cut => Framed /\ ~ threw)
<1> DEFINE Alone == ~ cut => stream = Written(queue) /\ ~ threw
<1>1. Init => Inv /\ Alone
  <2> SUFFICES ASSUME Init PROVE Inv /\ Alone
    OBVIOUS
  <2>1. <<>> \in Seq(Objects)
    OBVIOUS
  <2>2. Written(<<>>) = <<>>
    BY <2>1, WrittenAre
  <2> QED BY <2>2, InvInit DEF Init
<1>2. Inv /\ Alone /\ [Next]_vars => Inv' /\ Alone'
  <2> SUFFICES ASSUME Inv, Alone, [Next]_vars PROVE Alone'
    BY InvNext
  <2>1. stream \in Seq(Symbols) /\ queue \in Seq(Objects) /\ cut \in BOOLEAN
    BY DEF Inv
  <2>2. ASSUME NEW o \in Objects, WriteTo(o) PROVE Alone'
    <3>1. /\ ~ cut /\ ~ threw /\ stream' = stream \o Bytes(o) /\ queue' = Append(queue, o)
          /\ cut' = cut /\ threw' = threw
      BY <2>2 DEF WriteTo
    <3>2. Written(Append(queue, o)) = Written(queue) \o Bytes(o)
      BY <2>1, WrittenAre
    <3> QED BY <3>1, <3>2
  <2>3. ASSUME NEW n \in 0 .. Len(stream) - 1, Cut(n) PROVE Alone'
    BY <2>3 DEF Cut
  <2>4. ASSUME NEW kind \in Kinds, NEW stack \in BOOLEAN, ReadFrom(kind, stack) PROVE Alone'
    <3>1. /\ cut' = cut /\ threw' = ~ last'.returned /\ kind \in Open
          /\ kind \in Open /\ Framed => last'.returned /\ stream' = Written(queue')
      BY ONLY <2>1, <2>4, ReadStep, Kinds \subseteq Open
    <3>2. ~ cut => Framed
      BY DEF Framed, Written
    <3> QED BY ONLY <3>1, <3>2
  <2>5. ASSUME Reset PROVE Alone'
    <3>1. stream' = <<>> /\ queue' = <<>> /\ cut' = FALSE /\ threw' = FALSE
      BY <2>5 DEF Reset
    <3>2. <<>> \in Seq(Objects)
      OBVIOUS
    <3>3. Written(<<>>) = <<>>
      BY <3>2, WrittenAre
    <3> QED BY <3>1, <3>3
  <2>6. CASE UNCHANGED vars
    BY <2>6 DEF vars, Written
  <2> QED BY <2>2, <2>3, <2>4, <2>5, <2>6 DEF Next
<1>3. Alone => (~ cut => Framed /\ ~ threw)
  BY DEF Framed, Written
<1> HIDE DEF Alone
<1> QED BY <1>1, <1>2, <1>3, PTL DEF Spec
=============================================================================
