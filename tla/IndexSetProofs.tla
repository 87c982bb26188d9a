--------------------------- MODULE IndexSetProofs ---------------------------
(***************************************************************************)
(* Proofs about IndexSet, for every MaxIndex.                              *)
(***************************************************************************)
EXTENDS IndexSet, FiniteSetTheorems, WellFoundedInduction, TLAPS

\* An object with its invariant.
WellFormed(s) == IsIndexSet(s) /\ CachesAgree(s)

LEMMA LeastExists ==
  ASSUME NEW S \in SUBSET Nat, S # {}
  PROVE  \E j \in S : IsLeast(j, S)
<1>1. PICK j \in S : \A k \in S : ~ (<<k, j>> \in OpToRel(<, Nat))
  BY NatLessThanWellFounded, WFMin
<1>2. ASSUME NEW k \in S PROVE j =< k
  <2>1. <<k, j>> \in Nat \X Nat
    OBVIOUS
  <2>2. ~ (k < j)
    BY <1>1, <2>1 DEF OpToRel
  <2> QED BY <2>2
<1> QED BY <1>2 DEF IsLeast

LEMMA GreatestExists ==
  ASSUME NEW S \in SUBSET Nat, NEW n \in Nat, S # {}, \A j \in S : j < n
  PROVE  \E j \in S : IsGreatest(j, S)
<1> DEFINE T == {k \in 0 .. n : n - k \in S}
<1>1. T \in SUBSET Nat /\ T # {}
  <2>1. PICK j \in S : TRUE
    OBVIOUS
  <2>2. n - j \in T
    BY <2>1
  <2>3. T \in SUBSET Nat
    OBVIOUS
  <2> QED BY <2>2, <2>3
<1>2. PICK k \in T : IsLeast(k, T)
  BY <1>1, LeastExists
<1>3. n - k \in S /\ \A j \in S : j =< n - k
  <2>1. ASSUME NEW j \in S PROVE j =< n - k
    <3>1. n - j \in T
      OBVIOUS
    <3> QED BY <3>1, <1>2 DEF IsLeast
  <2> QED BY <2>1
<1> QED BY <1>3 DEF IsGreatest

LEMMA ElementsFinite ==
  ASSUME NEW s, IsIndexSet(s)
  PROVE  /\ Elements(s) \in SUBSET Nat
         /\ \A j \in Elements(s) : j < s.size
         /\ IsFiniteSet(Elements(s))
         /\ Cardinality(Elements(s)) \in Nat
         /\ Cardinality(Elements(s)) = 0 <=> Elements(s) = {}
         /\ Cardinality(Elements(s)) = 1 <=> \E j : Elements(s) = {j}
<1>1. Elements(s) \in SUBSET Nat /\ \A j \in Elements(s) : j < s.size
  BY DEF Elements, IsIndexSet
<1>2. IsFiniteSet(Elements(s))
  BY FS_BoundedSetOfNaturals, <1>1 DEF IsIndexSet
<1> QED BY <1>1, <1>2, FS_CardinalityType, FS_EmptySet, FS_Singleton

\* Of a well-formed object: the cached members have the types the code gives them.
LEMMA EndsOfWellFormed ==
  ASSUME NEW s, WellFormed(s)
  PROVE  /\ s.card \in Nat /\ s.size \in Nat
         /\ s.card = 0 <=> Elements(s) = {}
         /\ s.card = 0 => s.first = 0 /\ s.last = -1
         /\ s.card # 0 => /\ s.first \in Elements(s) /\ s.last \in Elements(s)
                          /\ s.first \in Nat /\ s.last \in Nat
                          /\ s.first =< s.last /\ s.last < s.size
         /\ \A j \in Elements(s) : j \in Nat /\ s.first =< j /\ j =< s.last
BY ElementsFinite DEF WellFormed, CachesAgree, IsIndexSet, IsLeast, IsGreatest

\* The two scans find the neighbour of j in the set.
LEMMA NextOfCorrect ==
  ASSUME NEW s, WellFormed(s), NEW j \in Int, j >= -1
  PROVE  /\ NextOf(s, j) \in Nat
         /\ \A k \in Elements(s) : k > j => k >= NextOf(s, j)
         /\ NextOf(s, j) > j
         /\ NextOf(s, j) =< s.last => NextOf(s, j) \in Elements(s)
         /\ s.last =< j => NextOf(s, j) = j + 1
<1>1. CASE s.card = 0
  BY <1>1, EndsOfWellFormed DEF NextOf
<1>2. CASE s.card # 0 /\ j >= s.last
  BY <1>2, EndsOfWellFormed DEF NextOf
<1>3. CASE s.card # 0 /\ j < s.last /\ j < s.first
  BY <1>3, EndsOfWellFormed DEF NextOf
<1>4. CASE s.card # 0 /\ j < s.last /\ s.first =< j
  <2> DEFINE T == {l \in j + 1 .. s.size - 1 : s.rep[l]}
  <2>1. s.last \in T /\ T \in SUBSET Nat
    BY <1>4, EndsOfWellFormed DEF Elements
  <2>2. PICK k \in T : IsLeast(k, T)
    BY <2>1, LeastExists
  <2>3. NextOf(s, j) = CHOOSE l \in j + 1 .. s.size - 1 : IsLeast(l, T)
    BY <1>4, EndsOfWellFormed DEF NextOf
  <2>4. NextOf(s, j) \in j + 1 .. s.size - 1 /\ IsLeast(NextOf(s, j), T)
    <3> HIDE DEF T
    <3>1. k \in j + 1 .. s.size - 1
      BY <2>2 DEF T
    <3> QED BY <2>2, <2>3, <3>1
  <2>5. \A l \in Elements(s) : l > j => l \in T
    BY <1>4, EndsOfWellFormed DEF Elements
  <2>6. NextOf(s, j) \in Elements(s)
    BY <2>4, <1>4, EndsOfWellFormed DEF IsLeast, Elements
  <2> QED BY <2>4, <2>5, <2>6, <1>4, EndsOfWellFormed DEF IsLeast
<1> QED BY <1>1, <1>2, <1>3, <1>4, EndsOfWellFormed

LEMMA PrevOfCorrect ==
  ASSUME NEW s, WellFormed(s), NEW j \in Nat
  PROVE  /\ PrevOf(s, j) \in Int /\ PrevOf(s, j) >= -1
         /\ \A k \in Elements(s) : k < j => k =< PrevOf(s, j)
         /\ PrevOf(s, j) < j
         /\ s.card # 0 /\ PrevOf(s, j) >= s.first => PrevOf(s, j) \in Elements(s)
         /\ j =< s.first => PrevOf(s, j) = j - 1
<1>1. CASE s.card = 0
  BY <1>1, EndsOfWellFormed DEF PrevOf
<1>2. CASE s.card # 0 /\ j > s.last
  BY <1>2, EndsOfWellFormed DEF PrevOf
<1>3. CASE s.card # 0 /\ j =< s.last /\ j =< s.first
  BY <1>3, EndsOfWellFormed DEF PrevOf
<1>4. CASE s.card # 0 /\ j =< s.last /\ s.first < j
  <2> DEFINE T == {l \in 0 .. j - 1 : s.rep[l]}
  <2>1. s.first \in T /\ T \in SUBSET Nat /\ \A l \in T : l < j
    BY <1>4, EndsOfWellFormed DEF Elements
  <2>2. PICK k \in T : IsGreatest(k, T)
    <3> HIDE DEF T
    <3> QED BY <2>1, GreatestExists
  <2>3. PrevOf(s, j) = CHOOSE l \in 0 .. j - 1 : IsGreatest(l, T)
    BY <1>4, EndsOfWellFormed DEF PrevOf
  <2>4. PrevOf(s, j) \in 0 .. j - 1 /\ IsGreatest(PrevOf(s, j), T)
    <3> HIDE DEF T
    <3>1. k \in 0 .. j - 1
      BY <2>2 DEF T
    <3> QED BY <2>2, <2>3, <3>1
  <2>5. \A l \in Elements(s) : l < j => l \in T
    BY <1>4, EndsOfWellFormed DEF Elements
  <2>6. PrevOf(s, j) \in Elements(s)
    BY <2>4, <1>4, EndsOfWellFormed DEF IsGreatest, Elements
  <2> QED BY <2>4, <2>5, <2>6, <1>4, EndsOfWellFormed DEF IsGreatest
<1> QED BY <1>1, <1>2, <1>3, <1>4, EndsOfWellFormed

LEMMA ContainsCorrect ==
  ASSUME NEW s, WellFormed(s), NEW j \in Nat
  PROVE  Contains(s, j) <=> j \in Elements(s)
<1>1. CASE s.card = 0
  BY <1>1, EndsOfWellFormed DEF Contains
<1>2. CASE s.card # 0
  BY <1>2, EndsOfWellFormed DEF Contains, Elements
<1> QED BY <1>1, <1>2

LEMMA EmptyWellFormed == WellFormed(Empty) /\ Elements(Empty) = {}
<1>1. Elements(Empty) = {}
  BY DEF Elements, Empty
<1> QED BY <1>1, FS_EmptySet DEF WellFormed, IsIndexSet, CachesAgree, Empty

LEMMA IntervalWellFormed ==
  ASSUME NEW low \in Nat, NEW high \in Int
  PROVE  WellFormed(Interval(low, high)) /\ Elements(Interval(low, high)) = low .. high
<1>1. CASE high < low
  <2>1. Interval(low, high) = Empty /\ low .. high = {}
    BY <1>1 DEF Interval
  <2> QED BY <2>1, EmptyWellFormed
<1>2. CASE low =< high
  <2> DEFINE s == Interval(low, high)
  <2>0. /\ s.size = high + 1 /\ s.rep = [j \in 0 .. high |-> j >= low]
        /\ s.first = low /\ s.last = high /\ s.card = high - low + 1
        /\ DOMAIN s = {"size", "rep", "first", "last", "card"}
    BY <1>2 DEF Interval
  <2> HIDE DEF s
  <2>1. Elements(s) = low .. high
    <3>1. s.size - 1 = high
      BY <2>0
    <3>2. Elements(s) = {j \in 0 .. high : j >= low}
      BY <2>0, <3>1 DEF Elements
    <3> QED BY <3>2
  <2>2. IsIndexSet(s)
    <3>1. s.size - 1 = high /\ s.size \in Nat
      BY <1>2, <2>0
    <3>2. s.rep \in [0 .. high -> BOOLEAN]
      BY <1>2, <2>0
    <3> QED BY <2>0, <3>1, <3>2 DEF IsIndexSet
  <2>3. Cardinality(low .. high) = high - low + 1
    BY <1>2, FS_Interval
  <2>4. WellFormed(s) /\ Elements(s) = low .. high
    BY <1>2, <2>0, <2>1, <2>2, <2>3 DEF WellFormed, CachesAgree, IsLeast, IsGreatest
  <2> QED BY <2>4 DEF s
<1> QED BY <1>1, <1>2

\* insert(j) adds j and keeps the invariant.
LEMMA InsertedWellFormed ==
  ASSUME NEW s, WellFormed(s), NEW j \in Nat
  PROVE  WellFormed(WithInserted(s, j)) /\ Elements(WithInserted(s, j)) = Elements(s) \cup {j}
<1> DEFINE n == Larger(s.size, j + 1)
           r == WithInserted(s, j)
<1>1. n \in Nat /\ n >= s.size /\ n > j
  BY EndsOfWellFormed DEF Larger
<1>2. r.size = n /\ r.rep \in [0 .. n - 1 -> BOOLEAN]
       /\ \A k \in 0 .. n - 1 : r.rep[k] <=> k = j \/ (k < s.size /\ s.rep[k])
  <2> DEFINE old == [k \in 0 .. n - 1 |-> IF k < s.size THEN s.rep[k] ELSE FALSE]
  <2>1. r.size = n /\ r.rep = [old EXCEPT ![j] = TRUE]
    BY DEF WithInserted
  <2>2. old \in [0 .. n - 1 -> BOOLEAN]
    <3>1. ASSUME NEW k \in 0 .. n - 1, k < s.size PROVE s.rep[k] \in BOOLEAN
      BY <1>1, <3>1, EndsOfWellFormed DEF WellFormed, IsIndexSet
    <3> QED BY <3>1
  <2>3. \A k \in 0 .. n - 1 : old[k] <=> (k < s.size /\ s.rep[k])
    BY <1>1, EndsOfWellFormed DEF WellFormed, IsIndexSet
  <2> HIDE DEF old, r, n
  <2>4. [old EXCEPT ![j] = TRUE] \in [0 .. n - 1 -> BOOLEAN]
    BY <2>2
  <2>5. \A k \in 0 .. n - 1 : [old EXCEPT ![j] = TRUE][k] <=> k = j \/ old[k]
    BY <2>2
  <2> QED BY <2>1, <2>3, <2>4, <2>5
<1>3. Elements(r) = Elements(s) \cup {j}
  BY <1>1, <1>2, EndsOfWellFormed DEF Elements
<1>4. IsIndexSet(r)
  BY <1>1, <1>2 DEF IsIndexSet, WithInserted
<1>5. r.card = Cardinality(Elements(r))
  <2>1. Cardinality(Elements(s) \cup {j}) = IF j \in Elements(s) THEN s.card ELSE s.card + 1
    BY ElementsFinite, FS_AddElement DEF WellFormed, CachesAgree
  <2>2. r.card = IF j \in Elements(s) THEN s.card ELSE s.card + 1
    BY <1>1, EndsOfWellFormed DEF WithInserted, Elements, WellFormed, IsIndexSet
  <2> QED BY <2>1, <2>2, <1>3
<1>6. IsLeast(r.first, Elements(r)) /\ IsGreatest(r.last, Elements(r))
  <2>1. CASE s.card = 0
    <3>1. r.first = j /\ r.last = j
      BY <2>1 DEF WithInserted
    <3>2. Elements(s) = {}
      BY <2>1, EndsOfWellFormed
    <3> QED BY <3>1, <3>2, <1>3 DEF IsLeast, IsGreatest
  <2>2. CASE s.card # 0
    <3>1. r.first = Smaller(s.first, j) /\ r.last = Larger(s.last, j)
      BY <2>2 DEF WithInserted
    <3> QED BY <2>2, <3>1, <1>3, EndsOfWellFormed DEF IsLeast, IsGreatest, Smaller, Larger
  <2> QED BY <2>1, <2>2
<1> QED BY <1>3, <1>4, <1>5, <1>6 DEF WellFormed, CachesAgree

\* remove(j) takes j away and keeps the invariant.
LEMMA RemovedWellFormed ==
  ASSUME NEW s, WellFormed(s), NEW j \in Nat
  PROVE  WellFormed(WithRemoved(s, j)) /\ Elements(WithRemoved(s, j)) = Elements(s) \ {j}
<1> DEFINE r == WithRemoved(s, j)
<1>1. CASE j \notin Elements(s)
  BY <1>1, EndsOfWellFormed DEF WithRemoved, Elements
<1>2. CASE j \in Elements(s)
  <2>1. j < s.size /\ s.rep[j] /\ s.card # 0 /\ s.size \in Nat
    BY <1>2, EndsOfWellFormed DEF Elements
  <2>2. r.size = s.size /\ r.rep \in [0 .. s.size - 1 -> BOOLEAN]
        /\ \A k \in 0 .. s.size - 1 : r.rep[k] <=> k # j /\ s.rep[k]
    BY <2>1 DEF WithRemoved, WellFormed, IsIndexSet
  <2>3. Elements(r) = Elements(s) \ {j}
    BY <2>1, <2>2 DEF Elements
  <2>4. IsIndexSet(r)
    BY <2>1, <2>2 DEF IsIndexSet, WithRemoved
  <2>5. r.card = s.card - 1 /\ r.card = Cardinality(Elements(r))
    <3>1. r.card = s.card - 1
      BY <2>1 DEF WithRemoved
    <3>2. Cardinality(Elements(s) \ {j}) = s.card - 1
      <4>1. IsFiniteSet(Elements(s)) /\ Cardinality(Elements(s)) = s.card
        BY ElementsFinite DEF WellFormed, CachesAgree
      <4> QED BY <1>2, <4>1, FS_RemoveElement
    <3> QED BY <3>1, <3>2, <2>3
  <2>6. CASE s.card = 1
    <3>1. Elements(r) = {}
      BY <2>6, <1>2, <2>3, ElementsFinite DEF WellFormed, CachesAgree
    <3>2. r.first = 0 /\ r.last = -1
      BY <2>1, <2>6 DEF WithRemoved
    <3> QED BY <2>3, <2>4, <2>5, <3>1, <3>2 DEF WellFormed, CachesAgree
  <2>7. CASE s.card # 1
    <3>1. Elements(r) # {}
      <4>1. r.card # 0
        <5> HIDE DEF r
        <5> QED BY <2>7, <2>1, <2>5, EndsOfWellFormed
      <4> QED BY <4>1, <2>4, <2>5, ElementsFinite
    <3>2. r.first = IF s.first = j THEN NextOf(s, s.first) ELSE s.first
      BY <2>1, <2>7 DEF WithRemoved
    <3>3. r.last = IF s.last = j THEN PrevOf(s, s.last) ELSE s.last
      BY <2>1, <2>7 DEF WithRemoved
    <3>4. s.first < s.last
      <4>1. PICK k \in Elements(s) : k # j
        BY <3>1, <2>3
      <4>2. k \in Nat /\ s.first =< k /\ k =< s.last
        BY <4>1, EndsOfWellFormed
      <4>3. s.first \in Nat /\ s.last \in Nat /\ s.first =< j /\ j =< s.last
        BY <2>1, <1>2, EndsOfWellFormed
      <4> QED BY <4>1, <4>2, <4>3
    <3>5. IsLeast(r.first, Elements(r))
      BY <2>1, <2>3, <3>2, <3>4, EndsOfWellFormed, NextOfCorrect DEF IsLeast
    <3>6. IsGreatest(r.last, Elements(r))
      BY <2>1, <2>3, <3>3, <3>4, EndsOfWellFormed, PrevOfCorrect DEF IsGreatest
    <3> QED BY <2>3, <2>4, <2>5, <3>1, <3>5, <3>6 DEF WellFormed, CachesAgree
  <2> QED BY <2>6, <2>7, <2>3
<1> QED BY <1>1, <1>2

LEMMA ArgumentWellFormed ==
  ASSUME NEW s \in Argument
  PROVE  WellFormed(s) /\ Elements(s) \in SUBSET Index
<1>0. PICK n \in 0 .. MaxIndex + 1 : s \in {ObjectOf(S, n) : S \in SUBSET (0 .. n - 1)}
  BY DEF Argument
<1>1. PICK S \in SUBSET (0 .. n - 1) : s = ObjectOf(S, n)
  BY <1>0
<1>2. n \in Nat /\ S \in SUBSET Nat /\ \A j \in S : j < n
  BY <1>1, MaxIndexAssumption
<1>3. s.size = n /\ s.rep = [j \in 0 .. n - 1 |-> j \in S] /\ s.card = Cardinality(S)
  BY <1>1 DEF ObjectOf
<1>4. Elements(s) = S
  BY <1>1, <1>3 DEF Elements
<1>5. IsIndexSet(s)
  BY <1>1, <1>2, <1>3 DEF IsIndexSet, ObjectOf
<1>6. Elements(s) \in SUBSET Index
  BY <1>1, <1>4, MaxIndexAssumption DEF Index
<1>7. CASE S = {}
  BY <1>1, <1>3, <1>4, <1>5, <1>6, <1>7 DEF ObjectOf, WellFormed, CachesAgree
<1>8. CASE S # {}
  <2>1. s.first = CHOOSE j \in S : IsLeast(j, S)
    BY <1>1, <1>8 DEF ObjectOf
  <2>2. s.last = CHOOSE j \in S : IsGreatest(j, S)
    BY <1>1, <1>8 DEF ObjectOf
  <2>3. IsLeast(s.first, S)
    BY <2>1, <1>2, <1>8, LeastExists
  <2>4. IsGreatest(s.last, S)
    <3>1. PICK j \in S : IsGreatest(j, S)
      BY <1>2, <1>8, GreatestExists
    <3> QED BY <2>2, <3>1
  <2> QED BY <1>3, <1>4, <1>5, <1>6, <1>8, <2>3, <2>4 DEF WellFormed, CachesAgree
<1> QED BY <1>7, <1>8

-----------------------------------------------------------------------------
(***************************************************************************)
(* The inductive invariant.  CachesCorrect alone is not inductive: a step  *)
(* of retain() is right because its cursor is on an element of x, which    *)
(* holds because the scan that moved it there ran on correct caches.       *)
(***************************************************************************)
IInv ==
  /\ WellFormed(x) /\ Elements(x) \in SUBSET Index
  /\ WellFormed(t) /\ Elements(t) \in SUBSET Index
  /\ op \in {"idle", "insert", "remove", "retain"}
  /\ i \in -1 .. MaxIndex + 1
  /\ before \in SUBSET Index
  /\ CursorOnElement
  /\ LoopInv

LEMMA InitIInv == Init => IInv
<1> SUFFICES ASSUME Init PROVE IInv
  OBVIOUS
<1>1. WellFormed(Empty) /\ Elements(Empty) = {}
  BY EmptyWellFormed
<1> QED BY <1>1, MaxIndexAssumption DEF Init, IInv, CursorOnElement, LoopInv, InLoop

\* An operation that returns at once leaves a good object behind.
LEMMA UpdateIInv ==
  ASSUME IInv, NEW s, WellFormed(s), Elements(s) \in SUBSET Index, Update(s)
  PROVE  IInv'
BY DEF IInv, Update, CursorOnElement, LoopInv, InLoop

\* Entering a loop: nothing is done yet.
LEMMA BeginIInv ==
  ASSUME IInv, NEW s, WellFormed(s), Elements(s) \in SUBSET Index, s.card # 0, x.card # 0,
         NEW name \in {"insert", "remove", "retain"}, NEW cursor,
         Begin(name, s, cursor),
         cursor = IF name = "insert" THEN s.last
                  ELSE IF name = "remove" THEN s.first ELSE x.first
  PROVE  IInv'
<1>1. /\ x' = x /\ t' = s /\ op' = name /\ i' = cursor /\ before' = Elements(x)
  BY DEF Begin
<1>2. cursor \in IF name = "retain" THEN Elements(x) ELSE Elements(s)
  BY EndsOfWellFormed DEF IInv
<1>3. cursor \in Index
  BY <1>2 DEF IInv
<1>4. CursorOnElement'
  BY <1>1, <1>2 DEF CursorOnElement
<1>5. LoopInv'
  <2>1. CASE name = "insert"
    <3>1. {j \in Elements(s) : j > cursor} = {}
      BY <2>1, EndsOfWellFormed
    <3> QED BY <1>1, <2>1, <3>1 DEF LoopInv
  <2>2. CASE name = "remove"
    <3>1. {j \in Elements(s) : j < cursor} = {}
      BY <2>2, EndsOfWellFormed
    <3> QED BY <1>1, <2>2, <3>1 DEF LoopInv
  <2>3. CASE name = "retain"
    <3>1. \A j \in Elements(x) : j >= cursor
      BY <2>3, EndsOfWellFormed DEF IInv
    <3> QED BY <1>1, <2>3, <3>1 DEF LoopInv
  <2> QED BY <2>1, <2>2, <2>3
<1> QED BY <1>1, <1>3, <1>4, <1>5, MaxIndexAssumption DEF IInv, Index

LEMMA InsertStepIInv ==
  ASSUME IInv, InsertStep
  PROVE  IInv'
<1>1. /\ op = "insert" /\ op' = op /\ t' = t /\ before' = before
      /\ x' = WithInserted(x, i) /\ i' = PrevOf(t, i)
  BY DEF InsertStep
<1>2. i \in Elements(t) /\ i \in Index /\ i \in Nat
  BY <1>1, MaxIndexAssumption DEF InsertStep, IInv, CursorOnElement, Index
<1>3. WellFormed(x') /\ Elements(x') = Elements(x) \cup {i}
  BY <1>1, <1>2, InsertedWellFormed DEF IInv
<1>4. /\ i' \in Int /\ i' >= -1 /\ i' < i
      /\ \A k \in Elements(t) : k < i => k =< i'
      /\ i' >= t.first => i' \in Elements(t)
  BY <1>1, <1>2, PrevOfCorrect, EndsOfWellFormed DEF IInv
<1>5. i' \in -1 .. MaxIndex + 1
  BY <1>2, <1>4, MaxIndexAssumption DEF Index
<1>6. CursorOnElement'
  BY <1>1, <1>4 DEF CursorOnElement, InLoop
<1>7. {j \in Elements(t) : j > i'} = {j \in Elements(t) : j > i} \cup {i}
  <2>1. ASSUME NEW j \in Elements(t) PROVE j > i' <=> j > i \/ j = i
    <3>1. j \in Nat
      BY EndsOfWellFormed DEF IInv
    <3> QED BY <3>1, <1>2, <1>4
  <2> QED BY <2>1, <1>2
<1>8. LoopInv'
  BY <1>1, <1>3, <1>7 DEF LoopInv, IInv
<1> QED BY <1>1, <1>2, <1>3, <1>5, <1>6, <1>8 DEF IInv

LEMMA RemoveStepIInv ==
  ASSUME IInv, RemoveStep
  PROVE  IInv'
<1>1. /\ op = "remove" /\ op' = op /\ t' = t /\ before' = before
      /\ x' = WithRemoved(x, i) /\ i' = NextOf(t, i)
  BY DEF RemoveStep
<1>2. i \in Elements(t) /\ i \in Index /\ i \in Nat
  BY <1>1, MaxIndexAssumption DEF RemoveStep, IInv, CursorOnElement, Index
<1>3. WellFormed(x') /\ Elements(x') = Elements(x) \ {i}
  BY <1>1, <1>2, RemovedWellFormed DEF IInv
<1>4. /\ i' \in Nat /\ i' > i
      /\ \A k \in Elements(t) : k > i => k >= i'
      /\ i' =< t.last => i' \in Elements(t)
      /\ t.last =< i => i' = i + 1
  BY <1>1, <1>2, NextOfCorrect DEF IInv
<1>5. i' \in -1 .. MaxIndex + 1
  <2>1. t.last \in Elements(t) /\ t.last \in Nat
    BY <1>2, EndsOfWellFormed DEF IInv
  <2> QED BY <1>2, <1>4, <2>1, MaxIndexAssumption DEF Index, IInv
<1>6. CursorOnElement'
  BY <1>1, <1>4 DEF CursorOnElement, InLoop
<1>7. {j \in Elements(t) : j < i'} = {j \in Elements(t) : j < i} \cup {i}
  <2>1. ASSUME NEW j \in Elements(t) PROVE j < i' <=> j < i \/ j = i
    <3>1. j \in Nat
      BY EndsOfWellFormed DEF IInv
    <3> QED BY <3>1, <1>2, <1>4
  <2> QED BY <2>1, <1>2
<1>8. LoopInv'
  BY <1>1, <1>3, <1>7 DEF LoopInv, IInv
<1> QED BY <1>1, <1>2, <1>3, <1>5, <1>6, <1>8 DEF IInv

\* retain() reads the next cursor and the loop test off the object it has just changed.
LEMMA RetainStepIInv ==
  ASSUME IInv, RetainStep
  PROVE  IInv'
<1>1. /\ op = "retain" /\ op' = op /\ t' = t /\ before' = before
      /\ x' = IF Contains(t, i) THEN x ELSE WithRemoved(x, i)
      /\ i' = NextOf(x', i)
  BY DEF RetainStep
<1>2. i \in Elements(x) /\ i \in Index /\ i \in Nat
  BY <1>1, MaxIndexAssumption DEF RetainStep, IInv, CursorOnElement, Index
<1>3. Contains(t, i) <=> i \in Elements(t)
  BY <1>2, EndsOfWellFormed, ContainsCorrect DEF IInv
<1>4. WellFormed(x') /\ Elements(x') = IF i \in Elements(t) THEN Elements(x) ELSE Elements(x) \ {i}
  BY <1>1, <1>2, <1>3, RemovedWellFormed DEF IInv
<1>5. /\ i' \in Nat /\ i' > i
      /\ \A k \in Elements(x') : k > i => k >= i'
      /\ i' =< x'.last => i' \in Elements(x')
      /\ x'.last =< i => i' = i + 1
  BY <1>1, <1>2, <1>4, NextOfCorrect
<1>6. i' \in -1 .. MaxIndex + 1
  <2>1. CASE x'.card = 0
    <3>1. x'.last = -1
      BY <2>1, <1>4, EndsOfWellFormed
    <3> QED BY <1>2, <1>5, <3>1, MaxIndexAssumption DEF Index
  <2>2. CASE x'.card # 0
    <3>1. x'.last \in Elements(x') /\ x'.last \in Nat
      BY <2>2, <1>4, EndsOfWellFormed
    <3>2. x'.last =< MaxIndex
      BY <3>1, <1>4, MaxIndexAssumption DEF IInv, Index
    <3> QED BY <1>2, <1>5, <3>1, <3>2, MaxIndexAssumption DEF Index
  <2> QED BY <2>1, <2>2
<1>7. CursorOnElement'
  BY <1>1, <1>5 DEF CursorOnElement, InLoop
<1>8. Elements(x') = {j \in before : j >= i' \/ j \in Elements(t)}
  <2>1. Elements(x) = {j \in before : j >= i \/ j \in Elements(t)}
    BY <1>1 DEF IInv, LoopInv
  <2>2. before \in SUBSET Nat
    BY MaxIndexAssumption DEF IInv, Index
  <2>3. ASSUME NEW j \in before
        PROVE  j \in Elements(x') <=> j >= i' \/ j \in Elements(t)
    <3>1. CASE j > i
      BY <3>1, <2>1, <2>2, <1>2, <1>4, <1>5
    <3>2. CASE j =< i
      BY <3>2, <2>1, <2>2, <1>2, <1>4, <1>5
    <3> QED BY <3>1, <3>2, <2>2, <1>2
  <2> QED BY <2>1, <2>3, <1>4
<1>9. LoopInv'
  BY <1>1, <1>8 DEF LoopInv
<1> QED BY <1>1, <1>2, <1>4, <1>6, <1>7, <1>9 DEF IInv

LEMMA NextIInv == IInv /\ [Next]_vars => IInv'
<1> SUFFICES ASSUME IInv, [Next]_vars PROVE IInv'
  OBVIOUS
<1>1. CASE Construct
  <2>1. PICK low \in Index, high \in -1 .. MaxIndex : Update(Interval(low, high))
    BY <1>1 DEF Construct
  <2>2. low \in Nat /\ high \in Int /\ low .. high \in SUBSET Index
    BY MaxIndexAssumption DEF Index
  <2> QED BY <2>1, <2>2, IntervalWellFormed, UpdateIInv
<1>2. CASE Clear \/ RemoveSelf
  BY <1>2, EmptyWellFormed, UpdateIInv DEF Clear, RemoveSelf
<1>3. CASE Insert
  <2>1. PICK j \in Index : Update(WithInserted(x, j))
    BY <1>3 DEF Insert
  <2>2. /\ WellFormed(WithInserted(x, j)) /\ j \in Nat /\ Elements(x) \in SUBSET Index
        /\ Elements(WithInserted(x, j)) = Elements(x) \cup {j}
    BY InsertedWellFormed, MaxIndexAssumption DEF Index, IInv
  <2>3. Elements(WithInserted(x, j)) \in SUBSET Index
    BY <2>2
  <2> QED BY <2>1, <2>2, <2>3, UpdateIInv
<1>4. CASE Remove
  <2>1. PICK j \in Index : Update(WithRemoved(x, j))
    BY <1>4 DEF Remove
  <2>2. /\ WellFormed(WithRemoved(x, j)) /\ j \in Nat /\ Elements(x) \in SUBSET Index
        /\ Elements(WithRemoved(x, j)) = Elements(x) \ {j}
    BY RemovedWellFormed, MaxIndexAssumption DEF Index, IInv
  <2>3. Elements(WithRemoved(x, j)) \in SUBSET Index
    BY <2>2
  <2> QED BY <2>1, <2>2, <2>3, UpdateIInv
<1>5. CASE SetOperation
  <2>1. PICK s \in Argument : InsertSet(s) \/ RemoveSet(s) \/ RetainSet(s)
    BY <1>5 DEF SetOperation
  <2>2. WellFormed(s) /\ Elements(s) \in SUBSET Index
    BY ArgumentWellFormed
  <2>3. WellFormed(x) /\ Elements(x) \in SUBSET Index
    BY DEF IInv
  <2>4. CASE Update(x) \/ Update(s) \/ Update(Empty)
    BY <2>2, <2>3, <2>4, UpdateIInv, EmptyWellFormed
  <2>5. CASE s.card # 0 /\ x.card # 0 /\ Begin("insert", s, s.last)
    BY <2>2, <2>5, BeginIInv
  <2>6. CASE s.card # 0 /\ x.card # 0 /\ Begin("remove", s, s.first)
    BY <2>2, <2>6, BeginIInv
  <2>7. CASE s.card # 0 /\ x.card # 0 /\ Begin("retain", s, x.first)
    BY <2>2, <2>7, BeginIInv
  <2> QED BY <2>1, <2>4, <2>5, <2>6, <2>7 DEF InsertSet, RemoveSet, RetainSet
<1>6. CASE InsertStep
  BY <1>6, InsertStepIInv
<1>7. CASE RemoveStep
  BY <1>7, RemoveStepIInv
<1>8. CASE RetainStep
  BY <1>8, RetainStepIInv
<1>9. CASE Return
  BY <1>9 DEF Return, IInv, CursorOnElement, LoopInv, InLoop
<1>10. CASE UNCHANGED vars
  BY <1>10 DEF vars, IInv, CursorOnElement, LoopInv, InLoop
<1> QED BY <1>1, <1>2, <1>3, <1>4, <1>5, <1>6, <1>7, <1>8, <1>9, <1>10 DEF Next

LEMMA Invariance == Spec => []IInv
BY InitIInv, NextIInv, PTL DEF Spec

\* The object and the state of its loops keep their types.
THEOREM TypeCorrect == Spec => []TypeOK
<1>1. IInv => TypeOK
  BY DEF IInv, TypeOK, WellFormed
<1> QED BY <1>1, Invariance, PTL

\* The invariant stated in the header for the members of the class holds at every
\* moment, between two iterations of a loop too.
THEOREM CachesAlwaysCorrect == Spec => []CachesCorrect
<1>1. IInv => CachesCorrect
  BY DEF IInv, CachesCorrect, WellFormed
<1> QED BY <1>1, Invariance, PTL

\* No loop ever acts on an index outside the set it walks over, and a loop has done
\* what is behind its cursor and nothing else.
THEOREM LoopsAlwaysRight == Spec => []LoopsRight
<1>1. IInv => LoopsRight
  BY DEF IInv, LoopsRight
<1> QED BY <1>1, Invariance, PTL

-----------------------------------------------------------------------------
(* Refinement: an IndexSet is a set with union, set minus and intersection. *)

AbsA == IF op = "idle" THEN Elements(x) ELSE before

LEMMA UpdateRefines ==
  ASSUME NEW s, Update(s),
         \/ \E low \in Index, high \in Index : Elements(s) = {j \in Index : low =< j /\ j =< high}
         \/ Elements(s) = {}
         \/ \E name \in {"insert", "remove", "retain"}, T \in SUBSET Index :
              Elements(s) = Abstract!Outcome(name, Elements(x), T)
  PROVE  Abstract!AbsNext
<1>1. op = "idle" /\ x' = s /\ op' = op /\ t' = t /\ before' = before
  BY DEF Update
<1>2. AbsA = Elements(x) /\ AbsA' = Elements(s)
  BY <1>1 DEF AbsA
<1> QED BY <1>1, <1>2 DEF Abstract!AbsNext, Abstract!AbsUpdate, Abstract!Operations, AbsA

\* The loop that ends has done the whole operation.
LEMMA ReturnRefines ==
  ASSUME IInv, Return
  PROVE  Abstract!AbsReturn
<1>1. op # "idle" /\ ~ InLoop /\ op' = "idle" /\ x' = x /\ t' = t /\ before' = before
  BY DEF Return
<1>2. Elements(x) = Abstract!Outcome(op, before, Elements(t))
  <2>1. CASE op = "insert"
    <3>1. {j \in Elements(t) : j > i} = Elements(t)
      BY <1>1, <2>1, EndsOfWellFormed DEF InLoop, IInv
    <3> QED BY <2>1, <3>1 DEF IInv, LoopInv, Abstract!Outcome
  <2>2. CASE op = "remove"
    <3>1. {j \in Elements(t) : j < i} = Elements(t)
      BY <1>1, <2>2, EndsOfWellFormed DEF InLoop, IInv
    <3> QED BY <2>2, <3>1 DEF IInv, LoopInv, Abstract!Outcome
  <2>3. CASE op = "retain"
    <3>1. \A j \in Elements(x) : j < i
      BY <1>1, <2>3, EndsOfWellFormed DEF InLoop, IInv
    <3>2. Elements(x) = {j \in before : j >= i \/ j \in Elements(t)}
      BY <2>3 DEF IInv, LoopInv
    <3>3. Elements(x) = before \cap Elements(t)
      <4>1. before \in SUBSET Nat
        BY MaxIndexAssumption DEF IInv, Index
      <4>2. ASSUME NEW j \in before PROVE j \in Elements(x) <=> j \in Elements(t)
        <5>1. j \in Nat /\ i \in Int
          BY <4>1 DEF IInv
        <5> QED BY <3>1, <3>2, <5>1
      <4> QED BY <3>2, <4>2
    <3> QED BY <2>3, <3>3 DEF Abstract!Outcome
  <2> QED BY <1>1, <2>1, <2>2, <2>3 DEF IInv
<1> QED BY <1>1, <1>2 DEF Abstract!AbsReturn

LEMMA NextRefines == IInv /\ [Next]_vars => [Abstract!AbsNext]_(Abstract!absVars)
<1> SUFFICES ASSUME IInv, [Next]_vars PROVE [Abstract!AbsNext]_(Abstract!absVars)
  OBVIOUS
<1> DEFINE Names == {"insert", "remove", "retain"}
<1>0. WellFormed(x) /\ Elements(x) \in SUBSET Index
  BY DEF IInv
<1>1. CASE Construct
  <2>1. PICK low \in Index, high \in -1 .. MaxIndex : Update(Interval(low, high))
    BY <1>1 DEF Construct
  <2>2. Elements(Interval(low, high)) = low .. high
    BY <2>1, IntervalWellFormed, MaxIndexAssumption DEF Index
  <2>3. CASE high = -1
    <3>1. Elements(Interval(low, high)) = {}
      BY <2>2, <2>3, MaxIndexAssumption DEF Index
    <3> QED BY <2>1, <3>1, UpdateRefines
  <2>4. CASE high \in Index
    <3>1. low .. high = {j \in Index : low =< j /\ j =< high}
      BY <2>4, MaxIndexAssumption DEF Index
    <3> QED BY <2>1, <2>2, <2>4, <3>1, UpdateRefines
  <2> QED BY <2>3, <2>4, MaxIndexAssumption DEF Index
<1>2. CASE Clear \/ RemoveSelf
  BY <1>2, EmptyWellFormed, UpdateRefines DEF Clear, RemoveSelf
<1>3. CASE Insert
  <2>1. PICK j \in Index : Update(WithInserted(x, j))
    BY <1>3 DEF Insert
  <2>2. Elements(WithInserted(x, j)) = Abstract!Outcome("insert", Elements(x), {j})
    BY <1>0, InsertedWellFormed, MaxIndexAssumption DEF Index, Abstract!Outcome
  <2>3. {j} \in SUBSET Index
    OBVIOUS
  <2> QED BY <2>1, <2>2, <2>3, UpdateRefines
<1>4. CASE Remove
  <2>1. PICK j \in Index : Update(WithRemoved(x, j))
    BY <1>4 DEF Remove
  <2>2. Elements(WithRemoved(x, j)) = Abstract!Outcome("remove", Elements(x), {j})
    BY <1>0, RemovedWellFormed, MaxIndexAssumption DEF Index, Abstract!Outcome
  <2>3. {j} \in SUBSET Index
    OBVIOUS
  <2> QED BY <2>1, <2>2, <2>3, UpdateRefines
<1>5. CASE SetOperation
  <2>1. PICK s \in Argument : InsertSet(s) \/ RemoveSet(s) \/ RetainSet(s)
    BY <1>5 DEF SetOperation
  <2>2. WellFormed(s) /\ Elements(s) \in SUBSET Index
    BY ArgumentWellFormed
  <2>3. CASE Update(Empty)
    BY <2>3, EmptyWellFormed, UpdateRefines
  <2>4. CASE Update(x)
    <3>1. Elements(x) = Abstract!Outcome("insert", Elements(x), {}) /\ {} \in SUBSET Index
      BY DEF Abstract!Outcome
    <3> QED BY <2>4, <3>1, UpdateRefines
  <2>5. CASE x.card = 0 /\ Update(s)
    <3>1. Elements(s) = Abstract!Outcome("insert", Elements(x), Elements(s))
      BY <1>0, <2>5, EndsOfWellFormed DEF Abstract!Outcome
    <3> QED BY <2>2, <2>5, <3>1, UpdateRefines
  <2>6. ASSUME NEW name \in Names, NEW cursor, Begin(name, s, cursor)
        PROVE  Abstract!AbsNext
    <3>1. op = "idle" /\ op' = name /\ t' = s /\ before' = Elements(x) /\ x' = x
      BY <2>6 DEF Begin
    <3> QED BY <2>2, <3>1 DEF Abstract!AbsNext, Abstract!AbsCall, Abstract!Operations
  <2> QED BY <2>1, <2>3, <2>4, <2>5, <2>6 DEF InsertSet, RemoveSet, RetainSet
<1>6. CASE InsertStep \/ RemoveStep \/ RetainStep
  <2>1. op # "idle" /\ op' = op /\ t' = t /\ before' = before
    BY <1>6 DEF InsertStep, RemoveStep, RetainStep
  <2> QED BY <2>1 DEF Abstract!absVars
<1>7. CASE Return
  BY <1>7, ReturnRefines DEF Abstract!AbsNext
<1>8. CASE UNCHANGED vars
  BY <1>8 DEF vars, Abstract!absVars
<1> QED BY <1>1, <1>2, <1>3, <1>4, <1>5, <1>6, <1>7, <1>8 DEF Next

\* Every behaviour of the bit vector with its cached members is one of a set whose
\* operations take effect as a whole.
THEOREM Refinement == Spec => IsASet
<1>1. Init => Abstract!AbsInit
  BY EmptyWellFormed DEF Init, Abstract!AbsInit
<1> QED BY <1>1, Invariance, NextRefines, PTL DEF Spec, IsASet, Abstract!AbsSpec

-----------------------------------------------------------------------------
\* operator== compares the cached members and the bits between the ends; that is
\* equality of the two sets, whatever the lengths of the two vectors.
THEOREM EqualCorrect ==
  ASSUME NEW s, NEW u, WellFormed(s), WellFormed(u)
  PROVE  Equal(s, u) <=> Elements(s) = Elements(u)
<1>1. ASSUME Elements(s) = Elements(u) PROVE Equal(s, u)
  <2>1. s.card = u.card
    BY <1>1 DEF WellFormed, CachesAgree
  <2>2. s.first = u.first /\ s.last = u.last
    BY <1>1, <2>1, EndsOfWellFormed
  <2>3. ASSUME NEW j \in s.first .. s.last PROVE s.rep[j] = u.rep[j]
    <3>1. CASE s.card = 0
      BY <3>1, EndsOfWellFormed
    <3>2. CASE s.card # 0
      <4>1. j \in 0 .. s.size - 1 /\ j \in 0 .. u.size - 1
        BY <3>2, <2>1, <2>2, EndsOfWellFormed
      <4>2. s.rep[j] \in BOOLEAN /\ u.rep[j] \in BOOLEAN
        BY <4>1 DEF WellFormed, IsIndexSet
      <4>3. (s.rep[j] <=> j \in Elements(s)) /\ (u.rep[j] <=> j \in Elements(u))
        BY <4>1 DEF Elements
      <4> QED BY <1>1, <4>2, <4>3
    <3> QED BY <3>1, <3>2
  <2> QED BY <2>1, <2>2, <2>3 DEF Equal
<1>2. ASSUME Equal(s, u) PROVE Elements(s) = Elements(u)
  <2>1. CASE s.card = 0
    BY <1>2, <2>1, EndsOfWellFormed DEF Equal
  <2>2. CASE s.card # 0
    <3>1. ASSUME NEW j \in s.first .. s.last PROVE j \in Elements(s) <=> j \in Elements(u)
      <4>1. j \in 0 .. s.size - 1 /\ j \in 0 .. u.size - 1
        BY <1>2, <2>2, EndsOfWellFormed DEF Equal
      <4> QED BY <4>1, <1>2, <3>1 DEF Equal, Elements
    <3>2. \A j \in Elements(s) : j \in s.first .. s.last
      BY <2>2, EndsOfWellFormed
    <3>3. \A j \in Elements(u) : j \in s.first .. s.last
      BY <1>2, <2>2, EndsOfWellFormed DEF Equal
    <3> QED BY <3>1, <3>2, <3>3
  <2> QED BY <2>1, <2>2
<1> QED BY <1>1, <1>2

-----------------------------------------------------------------------------
(***************************************************************************)
(* The observers.  A walk is a recursive function that goes up to the end  *)
(* of the vector: it is put together from its end down.                    *)
(***************************************************************************)

\* What holds at n and, with j + 1, at j holds from 0 to n.
LEMMA DownwardInduction ==
  ASSUME NEW n \in Nat, NEW S, n \in S,
         \A j \in 0 .. n - 1 : (\A k \in j + 1 .. n : k \in S) => j \in S
  PROVE  0 .. n \subseteq S
<1> DEFINE B == {j \in 0 .. n : j \notin S}
<1>1. SUFFICES ASSUME B # {} PROVE FALSE
  OBVIOUS
<1>2. B \in SUBSET Nat /\ \A j \in B : j < n + 1
  OBVIOUS
<1>3. PICK j \in B : IsGreatest(j, B)
  <2> HIDE DEF B
  <2> QED BY <1>1, <1>2, GreatestExists
<1>4. \A k \in j + 1 .. n : k \in S
  BY <1>3 DEF IsGreatest
<1>5. j \in 0 .. n - 1
  BY <1>3
<1> QED BY <1>3, <1>4, <1>5

LEMMA UpwardInduction ==
  ASSUME NEW n \in Nat, NEW S, 0 \in S,
         \A j \in 1 .. n : j - 1 \in S => j \in S
  PROVE  0 .. n \subseteq S
<1> DEFINE B == {j \in 0 .. n : j \notin S}
<1>1. SUFFICES ASSUME B # {} PROVE FALSE
  OBVIOUS
<1>2. PICK j \in B : IsLeast(j, B)
  <2>1. B \in SUBSET Nat
    OBVIOUS
  <2> QED BY <1>1, <2>1, LeastExists
<1>3. j \in 1 .. n /\ j - 1 \in 0 .. n
  BY <1>2
<1>4. j - 1 \in S
  BY <1>2, <1>3 DEF IsLeast
<1> QED BY <1>2, <1>3, <1>4

\* The rest of a walk from each index on.
IsWalk(f, s) ==
  f = [j \in 0 .. s.size + 1 |-> IF j > s.last THEN <<>> ELSE <<j>> \o f[NextOf(s, j)]]

LEMMA WalkExists ==
  ASSUME NEW s, WellFormed(s)
  PROVE  \E f : IsWalk(f, s)
<1> DEFINE n == s.size + 1
           IsEnd(f, k) == /\ f = [j \in k .. n |-> f[j]]
                          /\ \A j \in k .. n :
                               f[j] = IF j > s.last THEN <<>> ELSE <<j>> \o f[NextOf(s, j)]
           S == {k \in 0 .. n : \E f : IsEnd(f, k)}
<1>1. n \in Nat /\ s.last \in Int /\ s.last < s.size /\ s.size \in Nat
  BY EndsOfWellFormed
<1>2. n \in S
  <2> DEFINE f == [j \in n .. n |-> <<>>]
  <2>1. \A j \in n .. n : f[j] = <<>> /\ j > s.last
    BY <1>1
  <2>2. f = [j \in n .. n |-> f[j]]
    OBVIOUS
  <2> HIDE DEF f
  <2>3. \A j \in n .. n : f[j] = IF j > s.last THEN <<>> ELSE <<j>> \o f[NextOf(s, j)]
    BY <2>1
  <2>4. IsEnd(f, n)
    BY <2>2, <2>3
  <2> HIDE DEF IsEnd
  <2> QED BY <1>1, <2>4
<1>3. ASSUME NEW k \in 0 .. n - 1, k + 1 \in S PROVE k \in S
  <2>1. PICK f : IsEnd(f, k + 1)
    BY <1>3
  <2> DEFINE v == IF k > s.last THEN <<>> ELSE <<k>> \o f[NextOf(s, k)]
             g == [j \in k .. n |-> IF j = k THEN v ELSE f[j]]
  <2> HIDE DEF v
  <2>2. g[k] = v /\ \A j \in k + 1 .. n : g[j] = f[j]
    BY <1>1
  <2>3. ASSUME NEW j \in k .. n, ~ (j > s.last) PROVE NextOf(s, j) \in k + 1 .. n
    <3>1. NextOf(s, j) \in Nat /\ NextOf(s, j) > j
      BY <1>1, NextOfCorrect
    <3>2. NextOf(s, j) =< s.last + 1
      <4>1. CASE s.last =< j
        BY <1>1, <2>3, <4>1, NextOfCorrect
      <4>2. CASE j < s.last
        <5>1. s.card # 0
          BY <1>1, <4>2, EndsOfWellFormed
        <5>2. s.last \in Elements(s)
          BY <5>1, EndsOfWellFormed
        <5> QED BY <1>1, <3>1, <4>2, <5>2, NextOfCorrect
      <4> QED BY <1>1, <4>1, <4>2
    <3> QED BY <1>1, <3>1, <3>2
  <2>4. g = [j \in k .. n |-> g[j]]
    OBVIOUS
  <2> HIDE DEF g
  <2>5. ASSUME NEW j \in k .. n
        PROVE  g[j] = IF j > s.last THEN <<>> ELSE <<j>> \o g[NextOf(s, j)]
    <3>1. ~ (j > s.last) => g[NextOf(s, j)] = f[NextOf(s, j)]
      BY <2>2, <2>3
    <3>2. CASE j = k
      BY <2>2, <3>1, <3>2 DEF v
    <3>3. CASE j # k
      <4>1. j \in k + 1 .. n
        BY <1>1, <3>3
      <4> QED BY <2>1, <2>2, <3>1, <4>1
    <3> QED BY <3>2, <3>3
  <2>6. IsEnd(g, k)
    BY <2>4, <2>5
  <2> HIDE DEF IsEnd
  <2>7. k \in 0 .. n
    BY <1>1
  <2> QED BY <2>6, <2>7
<1>4. 0 \in S
  <2> HIDE DEF S
  <2>1. \A j \in 0 .. n - 1 : (\A k \in j + 1 .. n : k \in S) => j \in S
    BY <1>1, <1>3
  <2>2. 0 .. n \subseteq S
    <3> HIDE DEF n
    <3> QED BY <1>1, <1>2, <2>1, DownwardInduction
  <2> QED BY <1>1, <2>2
<1>5. PICK f : IsEnd(f, 0)
  BY <1>4
<1> QED BY <1>5 DEF IsWalk

\* From an element on, and from the end on, the walk visits what is left of the set once.
LEMMA WalkVisits ==
  ASSUME NEW s, WellFormed(s)
  PROVE  /\ Walk(s) \in Seq(Elements(s))
         /\ Len(Walk(s)) = s.card
         /\ {Walk(s)[n] : n \in 1 .. Len(Walk(s))} = Elements(s)
<1> DEFINE f == CHOOSE g : IsWalk(g, s)
           n == s.size + 1
           Rest(j) == {k \in Elements(s) : j =< k}
           Right(j) == /\ f[j] \in Seq(Elements(s))
                       /\ Len(f[j]) = Cardinality(Rest(j))
                       /\ {f[j][m] : m \in 1 .. Len(f[j])} = Rest(j)
<1>1. Walk(s) = f[s.first]
  BY DEF Walk, IsWalk
<1>2. IsWalk(f, s)
  BY WalkExists
<1> HIDE DEF f
<1>3. n \in Nat /\ s.last \in Int /\ s.last < s.size /\ s.size \in Nat
      /\ s.first \in Nat /\ s.first =< s.size
      /\ \A k \in Elements(s) : k \in Nat /\ k =< s.last /\ s.first =< k
  BY EndsOfWellFormed
<1>4. IsFiniteSet(Elements(s))
  BY ElementsFinite DEF WellFormed
<1> DEFINE S == {j \in 0 .. n : j > s.last \/ j \in Elements(s) => Right(j)}
<1>5. ASSUME NEW j \in 0 .. n, j > s.last PROVE Right(j)
  <2>1. f[j] = <<>>
    BY <1>2, <1>5 DEF IsWalk
  <2>2. Rest(j) = {}
    BY <1>3, <1>5
  <2>3. Cardinality({}) = 0
    BY FS_EmptySet
  <2> HIDE DEF Rest
  <2>4. <<>> \in Seq(Elements(s)) /\ Len(<<>>) = 0
    OBVIOUS
  <2>5. {f[j][m] : m \in 1 .. Len(f[j])} = {}
    BY <2>1, <2>4
  <2> QED BY <2>1, <2>2, <2>3, <2>4, <2>5
<1>6. ASSUME NEW j \in 0 .. n - 1, \A k \in j + 1 .. n : k \in S, j \in Elements(s)
      PROVE  Right(j)
  <2> DEFINE k == NextOf(s, j)
             w == f[k]
  <2>1. j =< s.last /\ j \in 0 .. n
    BY <1>3, <1>6
  <2>2. k \in Nat /\ k > j /\ (k =< s.last => k \in Elements(s))
        /\ \A l \in Elements(s) : l > j => l >= k
    BY <1>3, NextOfCorrect
  <2>3. k =< s.last + 1
    <3>1. CASE s.last =< j
      BY <1>3, <2>1, <3>1, NextOfCorrect
    <3>2. CASE j < s.last
      <4>1. s.last \in Elements(s)
        BY <1>6, EndsOfWellFormed
      <4> QED BY <1>3, <2>2, <3>2, <4>1
    <3> QED BY <1>3, <2>1, <3>1, <3>2
  <2>4. f[j] = <<j>> \o w
    <3>1. f[j] = IF j > s.last THEN <<>> ELSE <<j>> \o f[NextOf(s, j)]
      BY <1>2, <2>1 DEF IsWalk
    <3>2. ~ (j > s.last)
      BY <1>3, <2>1
    <3> QED BY <3>1, <3>2
  <2>5. k \in j + 1 .. n /\ (k > s.last \/ k \in Elements(s))
    BY <1>3, <2>1, <2>2, <2>3
  <2> HIDE DEF k
  <2>6. Right(k)
    <3> HIDE DEF Right
    <3> QED BY <1>6, <2>5
  <2>7. Rest(j) = Rest(k) \cup {j} /\ j \notin Rest(k)
    BY <1>3, <1>6, <2>2
  <2>8. Cardinality(Rest(j)) = Cardinality(Rest(k)) + 1 /\ Cardinality(Rest(k)) \in Nat
    <3>1. IsFiniteSet(Rest(k))
      BY <1>4, FS_Subset
    <3> HIDE DEF Rest
    <3> QED BY <2>7, <3>1, FS_AddElement, FS_CardinalityType
  <2> HIDE DEF Rest
  <2>9. /\ f[j] \in Seq(Elements(s)) /\ Len(f[j]) = Len(w) + 1
        /\ f[j][1] = j /\ \A m \in 1 .. Len(w) : f[j][m + 1] = w[m]
    <3> HIDE DEF w
    <3>1. w \in Seq(Elements(s))
      BY <2>6 DEF w
    <3> QED BY <1>6, <2>4, <3>1
  <2>10. {f[j][m] : m \in 1 .. Len(f[j])} = {w[m] : m \in 1 .. Len(w)} \cup {j}
    <3> HIDE DEF w
    <3>1. Len(w) \in Nat
      BY <2>6 DEF w
    <3>2. ASSUME NEW m \in 1 .. Len(f[j])
          PROVE  f[j][m] = j \/ \E l \in 1 .. Len(w) : f[j][m] = w[l]
      <4>1. CASE m = 1
        BY <2>9, <4>1
      <4>2. CASE m # 1
        <5>1. m - 1 \in 1 .. Len(w) /\ (m - 1) + 1 = m
          BY <2>9, <3>1, <4>2
        <5>2. f[j][m] = w[m - 1]
          BY <2>9, <5>1
        <5> QED BY <5>1, <5>2
      <4> QED BY <4>1, <4>2
    <3>3. ASSUME NEW m \in 1 .. Len(w) PROVE \E l \in 1 .. Len(f[j]) : w[m] = f[j][l]
      <4>1. m + 1 \in 1 .. Len(f[j])
        BY <2>9, <3>1
      <4> QED BY <2>9, <4>1
    <3>4. \E l \in 1 .. Len(f[j]) : j = f[j][l]
      <4>1. 1 \in 1 .. Len(f[j])
        BY <2>9, <3>1
      <4> QED BY <2>9, <4>1
    <3> DEFINE A == {f[j][m] : m \in 1 .. Len(f[j])}
               W == {w[m] : m \in 1 .. Len(w)}
    <3>5. \A v \in A : v = j \/ v \in W
      BY <3>2
    <3>6. \A v \in W : v \in A
      BY <3>3
    <3>7. j \in A
      BY <3>4
    <3> HIDE DEF A, W
    <3>8. A = W \cup {j}
      BY <3>5, <3>6, <3>7
    <3> QED BY <3>8 DEF A, W
  <2> QED BY <2>6, <2>7, <2>8, <2>9, <2>10
<1>7. 0 .. n \subseteq S
  <2>1. ASSUME NEW j \in 0 .. n - 1, \A k \in j + 1 .. n : k \in S PROVE j \in S
    <3>1. j \in 0 .. n
      BY <1>3
    <3> HIDE DEF Right
    <3>2. j \in Elements(s) => Right(j)
      BY <1>6, <2>1
    <3> QED BY <1>5, <3>1, <3>2
  <2>2. n \in S
    <3> HIDE DEF Right
    <3>1. n \in 0 .. n
      BY <1>3
    <3>2. n > s.last
      BY <1>3
    <3> QED BY <1>5, <3>1, <3>2
  <2> HIDE DEF S, n
  <2> QED BY <1>3, <2>1, <2>2, DownwardInduction
<1>8. Right(s.first)
  <2> HIDE DEF Right
  <2>1. s.first \in 0 .. n
    BY <1>3
  <2>2. s.first > s.last \/ s.first \in Elements(s)
    BY EndsOfWellFormed
  <2> QED BY <1>7, <2>1, <2>2
<1>9. Rest(s.first) = Elements(s)
  BY <1>3
<1>10. Cardinality(Elements(s)) = s.card
  BY DEF WellFormed, CachesAgree
<1> QED BY <1>1, <1>8, <1>9, <1>10

\* A loop over u with next() sees the elements of u and nothing else.
LEMMA VisitedCorrect ==
  ASSUME NEW s, WellFormed(s)
  PROVE  Visited(s) = Elements(s)
<1> DEFINE w == Walk(s)
<1>1. w \in Seq(Elements(s)) /\ {w[n] : n \in 1 .. Len(w)} = Elements(s)
  BY WalkVisits
<1>2. DOMAIN w = 1 .. Len(w)
  BY <1>1
<1>3. Visited(s) = {w[n] : n \in DOMAIN w}
  BY DEF Visited
<1> HIDE DEF w
<1> QED BY <1>1, <1>2, <1>3

LEMMA ContainsSetCorrect ==
  ASSUME NEW s, NEW u, WellFormed(s), WellFormed(u)
  PROVE  ContainsSet(s, u) <=> Elements(u) \subseteq Elements(s)
<1>1. Visited(u) = Elements(u)
  BY VisitedCorrect
<1>2. \A j \in Elements(u) : Contains(s, j) <=> j \in Elements(s)
  BY EndsOfWellFormed, ContainsCorrect
<1> QED BY <1>1, <1>2 DEF ContainsSet

LEMMA DisjointFromCorrect ==
  ASSUME NEW s, NEW u, WellFormed(s), WellFormed(u)
  PROVE  DisjointFrom(s, u) <=> Elements(s) \cap Elements(u) = {}
<1>1. (\A j \in Visited(u) : ~ Contains(s, j)) <=> Elements(s) \cap Elements(u) = {}
  <2>1. Visited(u) = Elements(u)
    BY VisitedCorrect
  <2>2. \A j \in Elements(u) : Contains(s, j) <=> j \in Elements(s)
    BY EndsOfWellFormed, ContainsCorrect
  <2> QED BY <2>1, <2>2
<1>2. ASSUME s.card = 0 \/ u.card = 0 \/ s.last < u.first \/ u.last < s.first
      PROVE  Elements(s) \cap Elements(u) = {}
  <2>1. CASE s.card = 0 \/ u.card = 0
    BY <2>1, EndsOfWellFormed
  <2>2. CASE s.card # 0 /\ u.card # 0
    <3>1. SUFFICES ASSUME NEW j \in Elements(s), j \in Elements(u) PROVE FALSE
      OBVIOUS
    <3>2. j \in Nat /\ s.first =< j /\ j =< s.last
      BY EndsOfWellFormed
    <3>3. u.first =< j /\ j =< u.last
      BY <3>1, EndsOfWellFormed
    <3>4. s.first \in Nat /\ s.last \in Nat /\ u.first \in Nat /\ u.last \in Nat
      BY <2>2, EndsOfWellFormed
    <3> QED BY <1>2, <2>2, <3>2, <3>3, <3>4
  <2> QED BY <2>1, <2>2
<1> QED BY <1>1, <1>2 DEF DisjointFrom

\* isInterval() asks for as many elements as there are indices between the ends.
LEMMA IsIntervalCorrect ==
  ASSUME NEW s, WellFormed(s), Elements(s) \in SUBSET Index
  PROVE  IsInterval(s) <=> \E low, high \in -1 .. MaxIndex : Elements(s) = low .. high
<1>1. CASE s.card = 0
  <2>1. IsInterval(s)
    BY <1>1, EndsOfWellFormed DEF IsInterval
  <2>2. Elements(s) = 0 .. -1 /\ 0 \in -1 .. MaxIndex /\ -1 \in -1 .. MaxIndex
    BY <1>1, EndsOfWellFormed, MaxIndexAssumption
  <2> QED BY <2>1, <2>2
<1>2. CASE s.card # 0
  <2> DEFINE a == s.first
             b == s.last
  <2>1. a \in Nat /\ b \in Nat /\ a =< b /\ a \in Elements(s) /\ b \in Elements(s)
        /\ \A j \in Elements(s) : j \in Nat /\ a =< j /\ j =< b
    BY <1>2, EndsOfWellFormed
  <2>2. s.card = Cardinality(Elements(s)) /\ IsFiniteSet(Elements(s))
    BY ElementsFinite DEF WellFormed, CachesAgree
  <2> HIDE DEF a, b
  <2>3. Cardinality(a .. b) = b - a + 1 /\ IsFiniteSet(a .. b)
    <3>1. a \in Int /\ b \in Int /\ ~ (a > b)
      BY <2>1
    <3> QED BY <3>1, FS_Interval
  <2>4. ASSUME s.card = 1 + b - a PROVE Elements(s) = a .. b
    <3>1. ASSUME NEW j \in Elements(s) PROVE j \in a .. b
      BY <2>1
    <3>2. Cardinality(Elements(s)) = Cardinality(a .. b)
      BY <2>1, <2>2, <2>3, <2>4
    <3> QED BY <2>3, <3>1, <3>2, FS_Subset
  <2>5. ASSUME NEW low \in -1 .. MaxIndex, NEW high \in -1 .. MaxIndex,
               Elements(s) = low .. high
        PROVE  s.card = 1 + b - a
    <3>1. low \in Int /\ high \in Int
      BY MaxIndexAssumption
    <3>2. low =< high
      BY <2>1, <2>5, <3>1
    <3>3. low \in Elements(s) /\ high \in Elements(s)
      BY <2>5, <3>1, <3>2
    <3>4. a = low /\ b = high
      <4>1. a =< low /\ high =< b
        BY <2>1, <3>3
      <4>2. low =< a /\ b =< high
        BY <2>1, <2>5, <3>1
      <4> QED BY <2>1, <3>1, <4>1, <4>2
    <3> QED BY <2>1, <2>2, <2>3, <2>5, <3>4
  <2>6. a \in -1 .. MaxIndex /\ b \in -1 .. MaxIndex
    BY <2>1, MaxIndexAssumption DEF Index
  <2>7. IsInterval(s) <=> s.card = 1 + b - a
    BY DEF IsInterval, a, b
  <2> QED BY <2>4, <2>5, <2>6, <2>7
<1> QED BY <1>1, <1>2

\* readFrom(): what is inserted from an empty object on, one element after another.
LEMMA ReadFromCorrect ==
  ASSUME NEW n \in Nat, NEW e \in Seq(Nat), Len(e) = n
  PROVE  LET s == ReadFrom([n |-> n, elements |-> e])
         IN WellFormed(s) /\ Elements(s) = {e[m] : m \in 1 .. n}
<1> DEFINE IsGot(g, k) == g = [m \in 0 .. k |-> IF m = 0 THEN Empty
                                               ELSE WithInserted(g[m - 1], e[m])]
           got == CHOOSE g : IsGot(g, n)
           S == {k \in 0 .. n : \E g : IsGot(g, k)}
<1>1. 0 \in S
  <2> DEFINE g == [m \in 0 .. 0 |-> Empty]
  <2>1. IsGot(g, 0)
    OBVIOUS
  <2> HIDE DEF IsGot
  <2> QED BY <2>1
<1>2. ASSUME NEW k \in 1 .. n, k - 1 \in S PROVE k \in S
  <2>1. PICK g : IsGot(g, k - 1)
    BY <1>2
  <2> DEFINE v == WithInserted(g[k - 1], e[k])
             h == [m \in 0 .. k |-> IF m = k THEN v ELSE g[m]]
  <2> HIDE DEF v
  <2>2. h[k] = v /\ \A m \in 0 .. k - 1 : h[m] = g[m]
    OBVIOUS
  <2>3. h = [m \in 0 .. k |-> h[m]]
    OBVIOUS
  <2> HIDE DEF h
  <2>4. ASSUME NEW m \in 0 .. k
        PROVE  h[m] = IF m = 0 THEN Empty ELSE WithInserted(h[m - 1], e[m])
    <3>1. CASE m = k
      <4>1. k - 1 \in 0 .. k - 1 /\ m # 0
        BY <3>1
      <4> QED BY <2>2, <3>1, <4>1 DEF v
    <3>2. CASE m # k
      <4>1. m \in 0 .. k - 1 /\ (m # 0 => m - 1 \in 0 .. k - 1)
        BY <3>2
      <4>2. g[m] = IF m = 0 THEN Empty ELSE WithInserted(g[m - 1], e[m])
        BY <2>1, <4>1
      <4> QED BY <2>2, <4>1, <4>2
    <3> QED BY <3>1, <3>2
  <2>5. IsGot(h, k)
    BY <2>3, <2>4
  <2> HIDE DEF IsGot
  <2> QED BY <2>5
<1>3. IsGot(got, n)
  <2> HIDE DEF IsGot, S
  <2>1. 0 .. n \subseteq S
    BY <1>1, <1>2, UpwardInduction
  <2>2. n \in S
    BY <2>1
  <2> QED BY <2>2 DEF S
<1>4. ReadFrom([n |-> n, elements |-> e]) = got[n]
  BY DEF ReadFrom
<1> HIDE DEF got
<1> DEFINE Upto(k) == {e[m] : m \in 1 .. k}
           R == {k \in 0 .. n : WellFormed(got[k]) /\ Elements(got[k]) = Upto(k)}
<1>5. 0 \in R
  <2>1. got[0] = Empty /\ 0 \in 0 .. n
    BY <1>3
  <2>2. Upto(0) = {}
    OBVIOUS
  <2> HIDE DEF Upto
  <2> QED BY <2>1, <2>2, EmptyWellFormed
<1>6. ASSUME NEW k \in 1 .. n, k - 1 \in R PROVE k \in R
  <2>1. got[k] = WithInserted(got[k - 1], e[k])
    BY <1>3
  <2>2. e[k] \in Nat
    OBVIOUS
  <2>3. WellFormed(got[k]) /\ Elements(got[k]) = Elements(got[k - 1]) \cup {e[k]}
    BY <1>6, <2>1, <2>2, InsertedWellFormed
  <2>4. Upto(k) = Upto(k - 1) \cup {e[k]}
    <3>1. \A m \in 1 .. k : m = k \/ m \in 1 .. k - 1
      OBVIOUS
    <3>2. \A m \in 1 .. k - 1 : m \in 1 .. k
      OBVIOUS
    <3> QED BY <3>1, <3>2
  <2>5. Elements(got[k - 1]) = Upto(k - 1)
    BY <1>6
  <2>6. Elements(got[k]) = Upto(k)
    <3> HIDE DEF Upto
    <3> QED BY <2>3, <2>4, <2>5
  <2>7. k \in 0 .. n
    OBVIOUS
  <2> HIDE DEF Upto
  <2> QED BY <2>3, <2>6, <2>7
<1>7. n \in R
  <2> HIDE DEF R
  <2>1. 0 .. n \subseteq R
    BY <1>5, <1>6, UpwardInduction
  <2> QED BY <2>1
<1> QED BY <1>4, <1>7

\* What writeTo() writes, readFrom() makes the same set of.
LEMMA WrittenAndRead ==
  ASSUME NEW s, WellFormed(s)
  PROVE  LET u == ReadFrom(WriteTo(s))
         IN WellFormed(u) /\ Elements(u) = Elements(s)
<1> DEFINE w == Walk(s)
<1>1. w \in Seq(Elements(s)) /\ Len(w) = s.card /\ {w[n] : n \in 1 .. Len(w)} = Elements(s)
  BY WalkVisits
<1>2. WriteTo(s) = [n |-> s.card, elements |-> w]
  BY DEF WriteTo
<1> HIDE DEF w
<1>3. w \in Seq(Nat) /\ s.card \in Nat
  BY <1>1, EndsOfWellFormed
<1> QED BY <1>1, <1>2, <1>3, ReadFromCorrect

\* Whatever the object went through, operator==, contains(), disjointFrom() and
\* isInterval() tell what the sets do, for every second object of the class, and what is
\* written of it is read back as an equal object with the invariant of the class.
THEOREM ObserversAlwaysCorrect == Spec => []ObserversCorrect
<1>1. ASSUME IInv PROVE ObserversCorrect
  <2>1. WellFormed(x) /\ Elements(x) \in SUBSET Index
    BY <1>1 DEF IInv
  <2>2. ASSUME NEW s \in Argument
        PROVE  /\ Equal(x, s) <=> Elements(x) = Elements(s)
               /\ ContainsSet(x, s) <=> Elements(s) \subseteq Elements(x)
               /\ DisjointFrom(x, s) <=> Elements(x) \cap Elements(s) = {}
    BY <2>1, ArgumentWellFormed, EqualCorrect, ContainsSetCorrect, DisjointFromCorrect
  <2>3. IsInterval(x) <=> \E low, high \in -1 .. MaxIndex : Elements(x) = low .. high
    BY <2>1, IsIntervalCorrect
  <2> DEFINE u == ReadFrom(WriteTo(x))
  <2>4. WellFormed(u) /\ Elements(u) = Elements(x)
    BY <2>1, WrittenAndRead
  <2> HIDE DEF u
  <2>5. CachesAgree(u) /\ Equal(u, x)
    BY <2>1, <2>4, EqualCorrect DEF WellFormed
  <2> QED BY <2>2, <2>3, <2>4, <2>5 DEF ObserversCorrect, u
<1> QED BY <1>1, Invariance, PTL
=============================================================================
