------------------------- MODULE KeySwitchingProofs -------------------------
(***************************************************************************)
(* Proofs about KeySwitching, for every ring, number of keys and matrices. *)
(***************************************************************************)
EXTENDS KeySwitching, SequenceTheorems, FiniteSetTheorems, WellFoundedInduction, TLAPS

-----------------------------------------------------------------------------
(* Arithmetic modulo M.                                                    *)

LEMMA DivMod ==
  ASSUME NEW a \in Nat
  PROVE  /\ a \div M \in Nat
         /\ a % M \in Node
         /\ a = M * (a \div M) + (a % M)
BY MAssumption DEF Node

LEMMA ModUnique ==
  ASSUME NEW a \in Nat, NEW q \in Int, NEW r \in Node, a = M * q + r
  PROVE  a % M = r
<1> DEFINE p == a \div M
           t == a % M
<1>1. p \in Int /\ t \in Node /\ M * p + t = M * q + r
  BY DivMod
<1> HIDE DEF p, t
<1>2. M * (p - q) = r - t /\ r - t < M /\ r - t > - M
  BY <1>1, MAssumption DEF Node
<1>3. ~ (p - q >= 1) /\ ~ (p - q =< -1)
  <2>1. ASSUME p - q >= 1 PROVE FALSE
    <3>1. M * (p - q) >= M
      BY <2>1, <1>1, MAssumption
    <3> QED BY <3>1, <1>2, <1>1, MAssumption DEF Node
  <2>2. ASSUME p - q =< -1 PROVE FALSE
    <3>1. M * (p - q) =< - M
      BY <2>2, <1>1, MAssumption
    <3> QED BY <3>1, <1>2, <1>1, MAssumption DEF Node
  <2> QED BY <2>1, <2>2
<1>4. p = q
  BY <1>3, <1>1
<1>5. t = r
  BY <1>4, <1>1, MAssumption DEF Node
<1> QED BY <1>5 DEF t

LEMMA ModTimes ==
  ASSUME NEW a \in Nat, NEW b \in Nat
  PROVE  (((a % M) * b) % M) = ((a * b) % M)
<1> DEFINE p == a \div M
           t == a % M
           u == (t * b) \div M
           r == (t * b) % M
<1>1. p \in Nat /\ t \in Node /\ a = M * p + t
  BY DivMod
<1>2. t * b \in Nat
  BY <1>1 DEF Node
<1>3. u \in Nat /\ r \in Node /\ t * b = M * u + r
  BY <1>2, DivMod
<1> HIDE DEF p, t, u, r
<1>4. a * b = M * (p * b + u) + r
  BY <1>1, <1>3, MAssumption DEF Node
<1>5. a * b \in Nat /\ p * b + u \in Int
  BY <1>1, <1>3
<1>6. (a * b) % M = r
  BY <1>3, <1>4, <1>5, ModUnique
<1> QED BY <1>6 DEF t, r

LEMMA MulModAssociative ==
  ASSUME NEW a \in Nat, NEW b \in Nat, NEW c \in Nat
  PROVE  MulMod(MulMod(a, b), c) = MulMod(a, MulMod(b, c))
<1>1. a * b \in Nat /\ b * c \in Nat
  OBVIOUS
<1>2. MulMod(MulMod(a, b), c) = ((a * b) * c) % M
  BY <1>1, ModTimes DEF MulMod
<1>3. b * c = c * b /\ (b * c) * a = a * (b * c) /\ (a * b) * c = (b * c) * a
  OBVIOUS
<1>4. (b * c) % M \in Node
  BY <1>1, DivMod
<1>5. ((b * c) % M) * a = a * ((b * c) % M)
  BY <1>4 DEF Node
<1>6. (((b * c) % M) * a) % M = ((b * c) * a) % M
  BY <1>1, ModTimes
<1> QED BY <1>2, <1>3, <1>5, <1>6 DEF MulMod

LEMMA MulModInNode ==
  ASSUME NEW a \in Nat, NEW b \in Nat
  PROVE  MulMod(a, b) \in Node /\ MulMod(a, b) = MulMod(b, a)
<1>1. a * b \in Nat /\ a * b = b * a
  OBVIOUS
<1> QED BY <1>1, DivMod DEF MulMod

LEMMA MulModOne ==
  ASSUME NEW c \in Node
  PROVE  MulMod(c, 1) = c
<1>1. c \in Nat /\ c * 1 = M * 0 + c
  BY MAssumption DEF Node
<1> QED BY <1>1, ModUnique DEF MulMod

LEMMA InvModOfUnit ==
  ASSUME NEW x \in Units
  PROVE  /\ x \in Node /\ x \in Nat
         /\ InvMod(x) \in Node /\ InvMod(x) \in Nat
         /\ MulMod(x, InvMod(x)) = 1
<1>1. x \in Node /\ \E j \in Node : IsInverse(j, x)
  BY DEF Units
<1>2. InvMod(x) \in Node /\ IsInverse(InvMod(x), x)
  BY <1>1 DEF InvMod
<1>3. Node \subseteq Nat
  BY DEF Node
<1>4. MulMod(InvMod(x), x) = 1
  BY <1>2 DEF IsInverse, MulMod
<1> QED BY <1>1, <1>2, <1>3, <1>4, MulModInNode

\* A step over an edge and back.
LEMMA StepBack ==
  ASSUME NEW c \in Node, NEW x \in Units
  PROVE  MulMod(MulMod(c, x), InvMod(x)) = c
BY InvModOfUnit, MulModAssociative, MulModOne DEF Node

LEMMA UnitsClosed ==
  ASSUME NEW c \in Units, NEW x \in Units
  PROVE  MulMod(c, x) \in Units
<1> DEFINE a == MulMod(c, x)
           b == MulMod(InvMod(x), InvMod(c))
<1>0. /\ c \in Nat /\ x \in Nat /\ InvMod(c) \in Nat /\ InvMod(x) \in Nat
      /\ InvMod(c) \in Node /\ InvMod(x) \in Node /\ c \in Node
  BY InvModOfUnit
<1>1. a \in Node /\ b \in Node /\ a \in Nat /\ b \in Nat
  BY <1>0, MulModInNode DEF Node
<1>2. MulMod(a, b) = MulMod(MulMod(a, InvMod(x)), InvMod(c))
  BY <1>0, <1>1, MulModAssociative
<1>3. MulMod(a, InvMod(x)) = c
  BY <1>0, StepBack
<1>4. MulMod(a, b) = 1
  BY <1>2, <1>3, InvModOfUnit
<1>5. MulMod(b, a) = 1
  BY <1>1, <1>4, MulModInNode
<1> HIDE DEF a, b
<1>6. IsInverse(b, a)
  BY <1>5 DEF IsInverse, MulMod
<1>7. a \in Units
  BY <1>6, <1>1 DEF Units
<1> QED BY <1>7 DEF a

LEMMA OneIsUnit == 1 \in Units
<1>1. 1 \in Node /\ MulMod(1, 1) = 1
  BY MulModOne, MAssumption DEF Node
<1> QED BY <1>1 DEF Units, IsInverse, MulMod

\* The element that makes sure that a loop over Zm* meets more than 1.
LEMMA MinusOneIsUnit == M - 1 \in Units /\ M - 1 # 1
<1>1. M - 1 \in Node /\ (M - 1) * (M - 1) \in Nat
  BY MAssumption DEF Node
<1>2. (M - 1) * (M - 1) = M * (M - 2) + 1
  BY MAssumption
<1>3. 1 \in Node /\ M - 2 \in Int
  BY MAssumption DEF Node
<1>4. ((M - 1) * (M - 1)) % M = 1
  BY <1>1, <1>2, <1>3, ModUnique
<1> QED BY <1>1, <1>4, MAssumption DEF Units, IsInverse

-----------------------------------------------------------------------------
(* The inductive invariant.                                                *)

\* Every matrix is between existing keys and for a unit.
MatricesExist ==
  \A n \in 1 .. Len(keySwitching) :
    /\ keySwitching[n].from.id < nKeys /\ keySwitching[n].to < nKeys
    /\ keySwitching[n].from.x \in Units

\* A loop over Zm* that reached its end made or found a matrix of its key.
LoopsInv ==
  op = "addAll" => cursor \in 0 .. M /\ (cursor = M => key < nKeys)

\* The search has a row, and the nodes in its queue already lead home.
SearchInv ==
  op = "bfs" =>
    /\ HasRow(key) /\ Row(key) \in Rows
    /\ \A i \in 1 .. Len(queue) :
         queue[i] \in Units /\ (queue[i] = 1 \/ Row(key)[queue[i]] # None)

IInv == TypeOK /\ MatricesExist /\ NoDuplicates /\ MapLeadsHome /\ LoopsInv /\ SearchInv

LEMMA LeastMember ==
  ASSUME NEW S \in SUBSET Nat, S # {}
  PROVE  FirstOf(S) \in S
<1>1. PICK j \in S : \A k \in S : ~ (<<k, j>> \in OpToRel(<, Nat))
  BY NatLessThanWellFounded, WFMin
<1>2. ASSUME NEW k \in S PROVE j =< k
  <2>1. <<k, j>> \in Nat \X Nat
    OBVIOUS
  <2> QED BY <1>1, <2>1 DEF OpToRel
<1> QED BY <1>2 DEF FirstOf

\* A lookup that finds nothing has seen every matrix.
LEMMA NothingFound ==
  ASSUME NEW h, NEW to, GetKeySWmatrix(h, to) = None
  PROVE  \A n \in 1 .. Len(keySwitching) : ~ Holds(h, to, n)
<1> DEFINE S == {n \in 1 .. Len(keySwitching) : Holds(h, to, n)}
<1>1. FirstOf(S) = None
  BY DEF GetKeySWmatrix, HitsRow, Throws, None
<1>2. S \in SUBSET Nat /\ None \notin S
  BY DEF None
<1> QED BY <1>1, <1>2, LeastMember

LEMMA EmptyRowHasNoEntries == DOMAIN <<>> = {}
OBVIOUS

\* What one call of GenKeySWmatrix does to the list.
LEMMA GeneratedMatrix ==
  ASSUME IInv, NEW s \in Nat, NEW x \in Nat, NEW from \in KeyId, NEW to \in KeyId
  PROVE  LET h == Handle(s, x, from) IN
           \/ Generated(h, to) = keySwitching
           \/ /\ Generated(h, to) = Append(keySwitching, [from |-> h, to |-> to])
              /\ [from |-> h, to |-> to] \in Matrices
              /\ from < nKeys /\ to < nKeys /\ x \in Units
              /\ \A n \in 1 .. Len(keySwitching) : keySwitching[n] # [from |-> h, to |-> to]
<1> DEFINE h == Handle(s, x, from)
<1>1. h.s = s /\ h.x = x /\ h.id = from /\ h \in Handles
  BY DEF Handle, Handles
<1> HIDE DEF h
<1>2. CASE Trivial(h, to) \/ GetKeySWmatrix(h, to) # None \/ GenerationThrows(h, to)
  BY <1>2 DEF Generated, h
<1>3. CASE ~ (Trivial(h, to) \/ GetKeySWmatrix(h, to) # None \/ GenerationThrows(h, to))
  <2>1. Generated(h, to) = Append(keySwitching, [from |-> h, to |-> to])
    BY <1>3 DEF Generated
  <2>2. ~ (from >= nKeys) /\ ~ (to >= nKeys) /\ x \in Units
    BY <1>1, <1>3 DEF GenerationThrows
  <2>3. from < nKeys /\ to < nKeys
    BY <2>2, BoundsAssumption DEF IInv, TypeOK, KeyId
  <2>4. \A n \in 1 .. Len(keySwitching) : keySwitching[n] # [from |-> h, to |-> to]
    BY <1>3, NothingFound DEF Holds
  <2>5. [from |-> h, to |-> to] \in Matrices
    BY <1>1 DEF Matrices
  <2> QED BY <2>1, <2>2, <2>3, <2>4, <2>5 DEF h
<1> QED BY <1>2, <1>3

\* The map stays right when the list of matrices grows.
LEMMA ListGrows ==
  ASSUME TypeOK, MapLeadsHome, UNCHANGED keySwitchMap,
         keySwitching' \in Seq(Matrices), Len(keySwitching) =< Len(keySwitching'),
         \A n \in 1 .. Len(keySwitching) : keySwitching'[n] = keySwitching[n]
  PROVE  /\ MapLeadsHome' /\ keySwitchMap' \in Seq(Rows' \cup {<<>>})
         /\ \A id : Row(id)' = Row(id) /\ HasRow(id)' = HasRow(id)
<1>0. Len(keySwitching) \in Nat /\ Len(keySwitching') \in Nat
  BY DEF TypeOK
<1>1. Rows \subseteq Rows'
  BY <1>0 DEF Rows, Node
<1>2. keySwitchMap' \in Seq(Rows' \cup {<<>>})
  <2>1. keySwitchMap \in Seq(Rows \cup {<<>>}) /\ Rows \cup {<<>>} \subseteq Rows' \cup {<<>>}
    BY <1>1 DEF TypeOK
  <2> QED BY <2>1, SeqMonotonic
<1>3. \A id : Row(id)' = Row(id) /\ HasRow(id)' = HasRow(id)
  BY DEF Row, HasRow
<1>4. MapLeadsHome'
  <2> SUFFICES ASSUME NEW id \in 0 .. Len(keySwitchMap) - 1, NEW k \in DOMAIN Row(id),
                      Row(id)[k] # None
               PROVE  /\ k \in Units
                      /\ \E x \in Units : keySwitching'[Row(id)[k]] = [from |-> Handle(1, x, id), to |-> id]
                      /\ After(k, id)' = 1 \/ Row(id)[After(k, id)'] # None
    BY <1>3 DEF MapLeadsHome
  <2>1. Row(id) \in Rows
    <3>1. Row(id) \in Rows \cup {<<>>}
      BY DEF TypeOK, Row
    <3> QED BY <3>1, EmptyRowHasNoEntries
  <2>2. Row(id)[k] \in 1 .. Len(keySwitching)
    BY <2>1, <1>0 DEF Rows, None
  <2>3. keySwitching'[Row(id)[k]] = keySwitching[Row(id)[k]]
    BY <2>2
  <2>4. After(k, id)' = After(k, id)
    BY <2>3, <1>3 DEF After
  <2> QED BY <2>3, <2>4 DEF MapLeadsHome
<1> QED BY <1>2, <1>3, <1>4

\* One matrix more, or none.
LEMMA MatrixAppended ==
  ASSUME IInv, UNCHANGED <<nKeys, keySwitchMap>>, NEW s \in Nat, NEW x \in Nat,
         NEW from \in KeyId, NEW to \in KeyId,
         keySwitching' = Generated(Handle(s, x, from), to)
  PROVE  /\ keySwitching' \in Seq(Matrices) /\ Len(keySwitching) =< Len(keySwitching')
         /\ MatricesExist' /\ NoDuplicates' /\ MapLeadsHome'
         /\ keySwitchMap' \in Seq(Rows' \cup {<<>>})
         /\ \A id : Row(id)' = Row(id) /\ HasRow(id)' = HasRow(id)
<1> DEFINE w == [from |-> Handle(s, x, from), to |-> to]
<1>1. w.from.id = from /\ w.to = to /\ w.from.x = x
  BY DEF Handle
<1>2. TypeOK /\ MatricesExist /\ NoDuplicates /\ MapLeadsHome /\ keySwitching \in Seq(Matrices)
  BY DEF IInv, TypeOK
<1>3. \/ keySwitching' = keySwitching
      \/ /\ keySwitching' = Append(keySwitching, w) /\ w \in Matrices
         /\ from < nKeys /\ to < nKeys /\ x \in Units
         /\ \A n \in 1 .. Len(keySwitching) : keySwitching[n] # w
  BY GeneratedMatrix
<1> HIDE DEF w
<1>4. CASE keySwitching' = keySwitching
  <2>1. MatricesExist' /\ NoDuplicates'
    BY <1>2, <1>4 DEF MatricesExist, NoDuplicates
  <2>2. /\ UNCHANGED keySwitchMap /\ keySwitching' \in Seq(Matrices)
        /\ Len(keySwitching) =< Len(keySwitching')
        /\ \A n \in 1 .. Len(keySwitching) : keySwitching'[n] = keySwitching[n]
    BY <1>2, <1>4
  <2> QED BY <2>1, <2>2, <1>2, ListGrows
<1>5. CASE /\ keySwitching' = Append(keySwitching, w) /\ w \in Matrices
           /\ from < nKeys /\ to < nKeys /\ x \in Units
           /\ \A n \in 1 .. Len(keySwitching) : keySwitching[n] # w
  <2>1. /\ keySwitching' \in Seq(Matrices) /\ Len(keySwitching') = Len(keySwitching) + 1
        /\ \A n \in 1 .. Len(keySwitching) : keySwitching'[n] = keySwitching[n]
        /\ keySwitching'[Len(keySwitching) + 1] = w
        /\ Len(keySwitching) \in Nat
    BY <1>2, <1>5
  <2>2. MatricesExist'
    BY <2>1, <1>1, <1>2, <1>5 DEF MatricesExist
  <2>3. NoDuplicates'
    <3> SUFFICES ASSUME NEW n \in 1 .. Len(keySwitching'), NEW k \in 1 .. Len(keySwitching'),
                        keySwitching'[n] = keySwitching'[k]
                 PROVE  n = k
      BY DEF NoDuplicates
    <3>1. CASE n =< Len(keySwitching) /\ k =< Len(keySwitching)
      BY <3>1, <2>1, <1>2 DEF NoDuplicates
    <3>2. CASE n = Len(keySwitching) + 1 \/ k = Len(keySwitching) + 1
      BY <3>2, <2>1, <1>5
    <3> QED BY <3>1, <3>2, <2>1
  <2>4. UNCHANGED keySwitchMap /\ Len(keySwitching) =< Len(keySwitching')
    BY <2>1
  <2> QED BY <2>1, <2>2, <2>3, <2>4, <1>2, ListGrows
<1> QED BY <1>3, <1>4, <1>5

\* A row is emptied and the search for it begins.
LEMMA SearchBegins ==
  ASSUME IInv, NEW id \in KeyId, id < nKeys, BeginSearch(id)
  PROVE  /\ keySwitchMap' \in Seq(Rows' \cup {<<>>}) /\ Len(keySwitchMap') =< nKeys'
         /\ op' = "bfs" /\ key' \in KeyId
         /\ queue' \in Seq(Node) /\ edge' \in 1 .. Len(keySwitching') + 1
         /\ MatricesExist' /\ NoDuplicates' /\ MapLeadsHome' /\ SearchInv'
<1> DEFINE n == IF HasRow(id) THEN Len(keySwitchMap) ELSE id + 1
           row(r) == IF r = id + 1 THEN EmptyRow
                     ELSE IF r =< Len(keySwitchMap) THEN keySwitchMap[r] ELSE <<>>
<1>0. /\ keySwitchMap \in Seq(Rows \cup {<<>>}) /\ Len(keySwitchMap) \in Nat /\ Len(keySwitchMap) =< nKeys
      /\ id \in Nat /\ nKeys \in Nat /\ keySwitching \in Seq(Matrices) /\ Len(keySwitching) \in Nat
      /\ MatricesExist /\ NoDuplicates /\ MapLeadsHome
  BY BoundsAssumption DEF IInv, TypeOK, KeyId
<1>1. /\ keySwitchMap' = [r \in 1 .. n |-> row(r)]
      /\ op' = "bfs" /\ key' = id /\ queue' = <<1>> /\ edge' = 1
      /\ UNCHANGED <<nKeys, keySwitching>>
  BY DEF BeginSearch
<1>2. n \in Nat /\ id + 1 \in 1 .. n /\ n =< nKeys /\ Len(keySwitchMap) =< n
  BY <1>0 DEF HasRow
<1>3. EmptyRow \in Rows /\ \A k \in Node : EmptyRow[k] = None
  BY <1>0 DEF EmptyRow, Rows, None
<1>4. \A r \in 1 .. n : row(r) \in Rows \cup {<<>>}
  BY <1>0, <1>3
<1> HIDE DEF n, row
<1>5. keySwitchMap' \in Seq(Rows \cup {<<>>}) /\ Len(keySwitchMap') = n
  BY <1>1, <1>2, <1>4
<1>6. Rows' = Rows
  BY <1>1 DEF Rows, Node
<1>7. \A i \in 0 .. n - 1 : Row(i)' = row(i + 1)
  BY <1>1, <1>2 DEF Row
<1>8. HasRow(key)' /\ Row(key)' = EmptyRow
  <2>1. id \in 0 .. n - 1 /\ row(id + 1) = EmptyRow
    BY <1>0, <1>2 DEF row
  <2>2. Row(id)' = EmptyRow
    BY <2>1, <1>7
  <2>3. id < Len(keySwitchMap')
    BY <2>1, <1>5
  <2> QED BY <2>2, <2>3, <1>1 DEF HasRow, Row
<1>9. MapLeadsHome'
  <2> SUFFICES ASSUME NEW i \in 0 .. n - 1, NEW k \in DOMAIN Row(i)', Row(i)'[k] # None
               PROVE  /\ k \in Units
                      /\ \E x \in Units : keySwitching[Row(i)'[k]] = [from |-> Handle(1, x, i), to |-> i]
                      /\ After(k, i)' = 1 \/ Row(i)'[After(k, i)'] # None
    BY <1>1, <1>5 DEF MapLeadsHome, Handle
  <2>1. Row(i)' = row(i + 1)
    BY <1>7
  <2>2. i # id
    BY <2>1, <1>3 DEF row, EmptyRow
  <2>3. i + 1 =< Len(keySwitchMap) /\ Row(i)' = keySwitchMap[i + 1]
    BY <2>1, <2>2, EmptyRowHasNoEntries, <1>0, <1>2 DEF row
  <2>4. Row(i)' = Row(i) /\ i \in 0 .. Len(keySwitchMap) - 1
    BY <2>3, <1>0, <1>2 DEF Row
  <2>5. After(k, i)' = After(k, i)
    BY <2>4, <1>1 DEF After
  <2> QED BY <2>4, <2>5, <1>0 DEF MapLeadsHome
<1>10. MatricesExist' /\ NoDuplicates'
  BY <1>0, <1>1 DEF MatricesExist, NoDuplicates
<1>11. SearchInv'
  <2>1. queue' = <<1>> /\ Len(queue') = 1 /\ queue'[1] = 1
    BY <1>1
  <2> QED BY <2>1, <1>3, <1>6, <1>8, OneIsUnit DEF SearchInv
<1>12. queue' \in Seq(Node) /\ edge' \in 1 .. Len(keySwitching') + 1
  BY <1>0, <1>1, OneIsUnit DEF Units
<1> QED BY <1>0, <1>1, <1>2, <1>5, <1>6, <1>9, <1>10, <1>11, <1>12

-----------------------------------------------------------------------------
(* Every step preserves it.                                                *)

LEMMA InitEstablishesIInv == Init => IInv
<1> SUFFICES ASSUME Init PROVE IInv
  OBVIOUS
<1>1. Len(keySwitching) = 0 /\ Len(keySwitchMap) = 0 /\ keySwitching \in Seq(Matrices)
  BY DEF Init
<1>2. 0 \in KeyId /\ 0 \in 0 .. MaxKeys
  BY BoundsAssumption DEF KeyId
<1>3. TypeOK
  <2>1. seen \in [KeyId -> -1 .. Len(keySwitching)]
    BY <1>1 DEF Init
  <2>2. /\ keySwitchMap \in Seq(Rows \cup {<<>>}) /\ queue \in Seq(Node)
        /\ edge \in 1 .. Len(keySwitching) + 1
    BY <1>1 DEF Init
  <2> QED BY <1>1, <1>2, <2>1, <2>2 DEF Init, TypeOK
<1>4. MatricesExist /\ NoDuplicates /\ MapLeadsHome
  BY <1>1 DEF MatricesExist, NoDuplicates, MapLeadsHome
<1> QED BY <1>3, <1>4 DEF Init, IInv, LoopsInv, SearchInv

LEMMA ImportSecKeyStep ==
  ASSUME IInv, NEW degree \in 1 .. MaxDegree, ImportSecKey(degree)
  PROVE  IInv'
<1> DEFINE new == [e \in 1 .. degree - 1 |-> [from |-> Handle(e + 1, 1, nKeys), to |-> nKeys]]
<1>0. /\ TypeOK /\ MatricesExist /\ NoDuplicates /\ MapLeadsHome
      /\ nKeys \in Nat /\ nKeys < MaxKeys /\ nKeys' = nKeys + 1 /\ degree \in Nat /\ degree >= 1
      /\ keySwitching \in Seq(Matrices) /\ Len(keySwitching) \in Nat /\ op = "idle"
      /\ UNCHANGED <<keySwitchMap, op, loop, seen>> /\ threw' = FALSE
  BY BoundsAssumption DEF IInv, TypeOK, ImportSecKey
<1>1. /\ new \in Seq(Matrices) /\ Len(new) = degree - 1
      /\ \A e \in 1 .. degree - 1 : new[e] = [from |-> Handle(e + 1, 1, nKeys), to |-> nKeys]
  <2>1. \A e \in 1 .. degree - 1 : [from |-> Handle(e + 1, 1, nKeys), to |-> nKeys] \in Matrices
    BY <1>0, BoundsAssumption DEF Matrices, Handles, Handle, KeyId
  <2> QED BY <2>1, <1>0
<1>2. keySwitching' = keySwitching \o new
  BY DEF ImportSecKey
<1> HIDE DEF new
<1>3. /\ keySwitching' \in Seq(Matrices) /\ Len(keySwitching') = Len(keySwitching) + Len(new)
      /\ \A n \in 1 .. Len(keySwitching) + Len(new) :
           keySwitching'[n] = IF n =< Len(keySwitching) THEN keySwitching[n]
                              ELSE new[n - Len(keySwitching)]
  BY <1>0, <1>1, <1>2, ConcatProperties
<1>4. \A n \in 1 .. Len(keySwitching) : keySwitching'[n] = keySwitching[n]
  <2> SUFFICES ASSUME NEW n \in 1 .. Len(keySwitching)
               PROVE  keySwitching'[n] = keySwitching[n]
    OBVIOUS
  <2>1. Len(keySwitching) \in Nat /\ Len(new) \in Nat
    BY <1>0, <1>1
  <2>2. n \in 1 .. Len(keySwitching) + Len(new) /\ n =< Len(keySwitching)
    BY <2>1
  <2> QED BY <2>2, <1>3
<1>5. \A n \in Len(keySwitching) + 1 .. Len(keySwitching') :
        keySwitching'[n] = [from |-> Handle(n - Len(keySwitching) + 1, 1, nKeys), to |-> nKeys]
  <2> SUFFICES ASSUME NEW n \in Len(keySwitching) + 1 .. Len(keySwitching')
               PROVE  keySwitching'[n] = [from |-> Handle(n - Len(keySwitching) + 1, 1, nKeys), to |-> nKeys]
    OBVIOUS
  <2>1. n - Len(keySwitching) \in 1 .. degree - 1 /\ n \in 1 .. Len(keySwitching) + Len(new)
        /\ ~ (n =< Len(keySwitching))
    BY <1>0, <1>1, <1>3
  <2>2. keySwitching'[n] = new[n - Len(keySwitching)]
    BY <2>1, <1>3
  <2> QED BY <2>1, <2>2, <1>1
<1>6. MatricesExist'
  <2> SUFFICES ASSUME NEW n \in 1 .. Len(keySwitching')
               PROVE  /\ keySwitching'[n].from.id < nKeys' /\ keySwitching'[n].to < nKeys'
                      /\ keySwitching'[n].from.x \in Units
    BY DEF MatricesExist
  <2>1. CASE n =< Len(keySwitching)
    <3>1. keySwitching[n] \in Matrices /\ keySwitching'[n] = keySwitching[n] /\ n \in 1 .. Len(keySwitching)
      BY <2>1, <1>0, <1>4
    <3>2. keySwitching[n].from.id \in Nat /\ keySwitching[n].to \in Nat
      BY <3>1, BoundsAssumption DEF Matrices, Handles, KeyId
    <3> QED BY <3>1, <3>2, <1>0 DEF MatricesExist
  <2>2. CASE n > Len(keySwitching)
    <3>1. n \in Len(keySwitching) + 1 .. Len(keySwitching')
      BY <2>2, <1>0, <1>1, <1>3
    <3>2. keySwitching'[n] = [from |-> Handle(n - Len(keySwitching) + 1, 1, nKeys), to |-> nKeys]
      BY <3>1, <1>5
    <3> QED BY <3>2, <1>0, OneIsUnit DEF Handle
  <2> QED BY <2>1, <2>2, <1>0, <1>1, <1>3
<1>7. NoDuplicates'
  <2> SUFFICES ASSUME NEW n \in 1 .. Len(keySwitching'), NEW k \in 1 .. Len(keySwitching'),
                      keySwitching'[n] = keySwitching'[k]
               PROVE  n = k
    BY DEF NoDuplicates
  <2> DEFINE old(j) == j =< Len(keySwitching)
  <2>1. \A j \in 1 .. Len(keySwitching') : ~ old(j) =>
          keySwitching'[j].from.id = nKeys /\ keySwitching'[j].from.s = j - Len(keySwitching) + 1
    <3> SUFFICES ASSUME NEW j \in 1 .. Len(keySwitching'), ~ old(j)
                 PROVE  /\ keySwitching'[j].from.id = nKeys
                        /\ keySwitching'[j].from.s = j - Len(keySwitching) + 1
      OBVIOUS
    <3>1. j \in Len(keySwitching) + 1 .. Len(keySwitching')
      BY <1>0, <1>1, <1>3
    <3>2. keySwitching'[j] = [from |-> Handle(j - Len(keySwitching) + 1, 1, nKeys), to |-> nKeys]
      BY <3>1, <1>5
    <3> QED BY <3>2 DEF Handle
  <2>2. \A j \in 1 .. Len(keySwitching') : old(j) =>
          keySwitching'[j].from.id # nKeys
    <3> SUFFICES ASSUME NEW j \in 1 .. Len(keySwitching), keySwitching[j].from.id = nKeys PROVE FALSE
      BY <1>4, <1>0
    <3> QED BY <1>0 DEF MatricesExist
  <2>3. CASE old(n) /\ old(k)
    BY <2>3, <1>0, <1>4 DEF NoDuplicates
  <2>4. CASE ~ old(n) /\ ~ old(k)
    <3>1. n - Len(keySwitching) + 1 = k - Len(keySwitching) + 1
      BY <2>1, <2>4
    <3> QED BY <3>1, <1>0, <1>1, <1>3
  <2>5. CASE old(n) # old(k)
    BY <2>1, <2>2, <2>5
  <2> QED BY <2>3, <2>4, <2>5
<1>8. MapLeadsHome' /\ keySwitchMap' \in Seq(Rows' \cup {<<>>})
  BY <1>0, <1>1, <1>3, <1>4, ListGrows
<1>9. TypeOK'
  <2>1. Len(keySwitching') \in Nat /\ Len(keySwitching) =< Len(keySwitching')
    BY <1>0, <1>1, <1>3
  <2>2. seen' \in [KeyId -> -1 .. Len(keySwitching')] /\ edge' \in 1 .. Len(keySwitching') + 1
    BY <1>0, <2>1 DEF TypeOK, loop
  <2>3. Len(keySwitchMap') =< nKeys'
    <3>1. Len(keySwitchMap) \in Nat /\ Len(keySwitchMap) =< nKeys
      BY <1>0 DEF TypeOK
    <3> QED BY <3>1, <1>0
  <2>4. nKeys' \in 0 .. MaxKeys
    BY <1>0, BoundsAssumption
  <2> QED BY <1>0, <1>3, <1>8, <2>2, <2>3, <2>4 DEF TypeOK, loop
<1>10. LoopsInv' /\ SearchInv'
  BY <1>0 DEF IInv, LoopsInv, SearchInv, loop
<1> QED BY <1>6, <1>7, <1>8, <1>9, <1>10 DEF IInv

\* What a step that generates one matrix leaves right.
LEMMA TypesAfterAppend ==
  ASSUME TypeOK, keySwitching' \in Seq(Matrices), Len(keySwitching) =< Len(keySwitching'),
         UNCHANGED <<seen, edge>>
  PROVE  seen' \in [KeyId -> -1 .. Len(keySwitching')] /\ edge' \in 1 .. Len(keySwitching') + 1
<1>1. Len(keySwitching) \in Nat /\ Len(keySwitching') \in Nat
  BY DEF TypeOK
<1> QED BY <1>1 DEF TypeOK

LEMMA GenKeySWmatrixStep ==
  ASSUME IInv, NEW s \in 0 .. MaxDegree, NEW x \in XPowers, NEW from \in KeyId, NEW to \in KeyId,
         GenKeySWmatrix(s, x, from, to)
  PROVE  IInv'
<1>1. s \in Nat /\ x \in Nat /\ op = "idle" /\ UNCHANGED <<nKeys, keySwitchMap, op, loop, seen>>
  BY BoundsAssumption DEF GenKeySWmatrix
<1>2. keySwitching' = Generated(Handle(s, x, from), to)
  BY DEF GenKeySWmatrix
<1>3. /\ keySwitching' \in Seq(Matrices) /\ Len(keySwitching) =< Len(keySwitching')
      /\ MatricesExist' /\ NoDuplicates' /\ MapLeadsHome'
      /\ keySwitchMap' \in Seq(Rows' \cup {<<>>})
  BY <1>1, <1>2, MatrixAppended
<1>4. threw' \in BOOLEAN
  BY DEF GenKeySWmatrix, GenerationThrows
<1>5. TypeOK'
  BY <1>1, <1>3, <1>4, TypesAfterAppend DEF IInv, TypeOK, loop
<1>6. LoopsInv' /\ SearchInv'
  BY <1>1 DEF IInv, LoopsInv, SearchInv, loop
<1> QED BY <1>3, <1>5, <1>6 DEF IInv

\* A step that leaves the key material alone.
LEMMA OtherVariables ==
  ASSUME IInv, UNCHANGED keys
  PROVE  /\ nKeys' \in 0 .. MaxKeys /\ keySwitching' \in Seq(Matrices)
         /\ keySwitchMap' \in Seq(Rows' \cup {<<>>}) /\ Len(keySwitchMap') =< nKeys'
         /\ MatricesExist' /\ NoDuplicates' /\ MapLeadsHome'
         /\ \A id : Row(id)' = Row(id) /\ HasRow(id)' = HasRow(id)
         /\ Rows' = Rows
<1>1. UNCHANGED <<nKeys, keySwitching, keySwitchMap>>
  BY DEF keys
<1>2. Rows' = Rows /\ \A id : Row(id)' = Row(id) /\ HasRow(id)' = HasRow(id)
  BY <1>1 DEF Rows, Row, HasRow
<1>3. MatricesExist' /\ NoDuplicates'
  BY <1>1 DEF IInv, MatricesExist, NoDuplicates
<1>4. MapLeadsHome'
  <2>1. \A k, id : After(k, id)' = After(k, id)
    BY <1>1 DEF After, Row
  <2> QED BY <1>1, <1>2, <2>1 DEF IInv, MapLeadsHome
<1> QED BY <1>1, <1>2, <1>3, <1>4 DEF IInv, TypeOK

LEMMA SetKeySwitchMapStep ==
  ASSUME IInv, NEW id \in KeyId, SetKeySwitchMap(id)
  PROVE  IInv'
<1>1. CASE id < nKeys /\ BeginSearch(id) /\ threw' = FALSE /\ cursor' = cursor
  <2>1. /\ keySwitchMap' \in Seq(Rows' \cup {<<>>}) /\ Len(keySwitchMap') =< nKeys'
        /\ op' = "bfs" /\ key' \in KeyId
        /\ queue' \in Seq(Node) /\ edge' \in 1 .. Len(keySwitching') + 1
        /\ MatricesExist' /\ NoDuplicates' /\ MapLeadsHome' /\ SearchInv'
    BY <1>1, SearchBegins
  <2>2. UNCHANGED <<nKeys, keySwitching, seen>>
    BY <1>1 DEF BeginSearch
  <2>3. TypeOK'
    BY <1>1, <2>1, <2>2 DEF IInv, TypeOK
  <2>4. LoopsInv'
    BY <2>1 DEF LoopsInv
  <2> QED BY <2>1, <2>3, <2>4 DEF IInv
<1>2. CASE threw' = TRUE /\ UNCHANGED <<keys, op, loop, seen>>
  <2>1. UNCHANGED <<nKeys, keySwitching, keySwitchMap>> /\ UNCHANGED keys
    BY <1>2 DEF keys
  <2>2. TypeOK'
    BY <1>2, <2>1, OtherVariables DEF IInv, TypeOK, loop
  <2>3. LoopsInv' /\ SearchInv'
    BY <1>2, <2>1, OtherVariables DEF IInv, LoopsInv, SearchInv, loop
  <2> QED BY <2>1, <2>2, <2>3, OtherVariables DEF IInv
<1> QED BY <1>1, <1>2 DEF SetKeySwitchMap


\* The node the search meets over an edge is a unit, and the edge leads back from it.
LEMMA NodeIsMet ==
  ASSUME IInv, op = "bfs", queue # <<>>, edge =< Len(keySwitching), IsEdge(edge, key)
  PROVE  /\ edge \in 1 .. Len(keySwitching)
         /\ keySwitching[edge].from.x \in Units
         /\ keySwitching[edge] = [from |-> Handle(1, keySwitching[edge].from.x, key), to |-> key]
         /\ Head(queue) \in Units /\ Target \in Units
         /\ Head(queue) = 1 \/ Row(key)[Head(queue)] # None
         /\ MulMod(Target, InvMod(keySwitching[edge].from.x)) = Head(queue)
<1> DEFINE w == keySwitching[edge]
<1>1. edge \in 1 .. Len(keySwitching) /\ w \in Matrices
  BY DEF IInv, TypeOK
<1>2. w.from.x \in Units
  BY <1>1 DEF IInv, MatricesExist
<1>3. w = [from |-> Handle(1, w.from.x, key), to |-> key]
  BY <1>1 DEF IsEdge, Matrices, Handles, Handle
<1>4. Head(queue) \in Units /\ (Head(queue) = 1 \/ Row(key)[Head(queue)] # None)
  <2>1. queue \in Seq(Node) /\ Len(queue) \in Nat /\ Len(queue) # 0
    BY DEF IInv, TypeOK
  <2>2. 1 \in 1 .. Len(queue) /\ Head(queue) = queue[1]
    BY <2>1
  <2> QED BY <2>2 DEF IInv, SearchInv
<1>5. Head(queue) \in Node
  BY <1>4 DEF Units
<1> HIDE DEF w
<1>6. Target = MulMod(Head(queue), w.from.x)
  BY DEF Target, w
<1>7. Target \in Units /\ MulMod(Target, InvMod(w.from.x)) = Head(queue)
  BY <1>2, <1>4, <1>5, <1>6, StepBack, UnitsClosed
<1> QED BY <1>1, <1>2, <1>3, <1>4, <1>7 DEF w

LEMMA SearchEdgeStep ==
  ASSUME IInv, SearchEdge
  PROVE  IInv'
<1>0. /\ op = "bfs" /\ queue # <<>> /\ edge =< Len(keySwitching) /\ edge' = edge + 1
      /\ UNCHANGED <<nKeys, keySwitching, op, key, cursor, threw, seen>>
      /\ queue \in Seq(Node) /\ Len(queue) \in Nat
      /\ keySwitchMap \in Seq(Rows \cup {<<>>}) /\ Len(keySwitchMap) \in Nat
      /\ keySwitching \in Seq(Matrices) /\ Len(keySwitching) \in Nat /\ edge \in 1 .. Len(keySwitching)
      /\ key \in Nat /\ HasRow(key) /\ Row(key) \in Rows /\ Rows' = Rows
  <2>1. /\ op = "bfs" /\ queue # <<>> /\ edge =< Len(keySwitching) /\ edge' = edge + 1
        /\ UNCHANGED <<nKeys, keySwitching, op, key, cursor, threw, seen>>
    BY DEF SearchEdge
  <2>2. /\ queue \in Seq(Node) /\ keySwitchMap \in Seq(Rows \cup {<<>>})
        /\ keySwitching \in Seq(Matrices) /\ edge \in 1 .. Len(keySwitching) + 1 /\ key \in Nat
    BY BoundsAssumption DEF IInv, TypeOK, KeyId
  <2>3. HasRow(key) /\ Row(key) \in Rows /\ Rows' = Rows
    BY <2>1 DEF IInv, SearchInv, Rows
  <2> QED BY <2>1, <2>2, <2>3, LenProperties
<1>1. edge' \in 1 .. Len(keySwitching') + 1
  BY <1>0
<1>2. LoopsInv' /\ MatricesExist' /\ NoDuplicates'
  BY <1>0 DEF IInv, LoopsInv, MatricesExist, NoDuplicates
<1>3. CASE ~ IsNew
  <2>1. UNCHANGED <<keySwitchMap, queue>>
    BY <1>3 DEF SearchEdge
  <2>2. UNCHANGED keys
    BY <1>0, <2>1 DEF keys
  <2>3. TypeOK' /\ SearchInv'
    BY <1>0, <1>1, <2>1, <2>2, OtherVariables DEF IInv, TypeOK, SearchInv
  <2> QED BY <1>2, <2>2, <2>3, OtherVariables DEF IInv
<1>4. CASE IsNew
  <2> DEFINE t == Target
             row == [Row(key) EXCEPT ![t] = edge]
             x == keySwitching[edge].from.x
  <2>1. /\ x \in Units /\ keySwitching[edge] = [from |-> Handle(1, x, key), to |-> key]
        /\ Head(queue) \in Units /\ t \in Units /\ t \in Node
        /\ Head(queue) = 1 \/ Row(key)[Head(queue)] # None
        /\ MulMod(t, InvMod(x)) = Head(queue) /\ Row(key)[t] = None
    BY <1>0, <1>4, NodeIsMet DEF IsNew, Units
  <2>2. queue' = Append(queue, t) /\ keySwitchMap' = [keySwitchMap EXCEPT ![key + 1] = row]
    BY <1>0, <1>4 DEF SearchEdge, Row
  <2> HIDE DEF t
  <2>3. /\ row \in Rows /\ row[t] = edge
        /\ \A k \in Node : k # t => row[k] = Row(key)[k]
        /\ \A k \in Node : Row(key)[k] # None => row[k] # None
    BY <1>0, <2>1 DEF Rows, None
  <2> HIDE DEF row, x
  <2>4. /\ keySwitchMap' \in Seq(Rows \cup {<<>>}) /\ Len(keySwitchMap') = Len(keySwitchMap)
        /\ key + 1 \in 1 .. Len(keySwitchMap)
    BY <1>0, <2>2, <2>3, ExceptSeq DEF HasRow
  <2>5. /\ Row(key)' = row /\ HasRow(key)'
        /\ \A id \in 0 .. Len(keySwitchMap) - 1 : Row(id)' = IF id = key THEN row ELSE Row(id)
    BY <1>0, <2>2, <2>4 DEF Row, HasRow
  <2>6. TypeOK'
    BY <1>0, <1>1, <2>1, <2>2, <2>4 DEF IInv, TypeOK
  <2>7. SearchInv'
    <3>1. Len(queue') = Len(queue) + 1 /\ queue'[Len(queue) + 1] = t
          /\ \A i \in 1 .. Len(queue) : queue'[i] = queue[i]
      BY <1>0, <2>1, <2>2
    <3>2. row[t] # None
      BY <1>0, <2>3 DEF None
    <3>3. \A i \in 1 .. Len(queue) : queue[i] \in Units /\ queue[i] \in Node /\ (queue[i] = 1 \/ Row(key)[queue[i]] # None)
      BY <1>0 DEF IInv, SearchInv, Units
    <3>4. \A i \in 1 .. Len(queue) + 1 : queue'[i] \in Units /\ (queue'[i] = 1 \/ row[queue'[i]] # None)
      BY <1>0, <2>1, <2>3, <3>1, <3>2, <3>3
    <3> QED BY <1>0, <2>3, <2>5, <3>1, <3>4 DEF SearchInv
  <2>8. MapLeadsHome'
    <3> SUFFICES ASSUME NEW id \in 0 .. Len(keySwitchMap) - 1, NEW k \in DOMAIN Row(id)',
                        Row(id)'[k] # None
                 PROVE  /\ k \in Units
                        /\ \E y \in Units : keySwitching[Row(id)'[k]] = [from |-> Handle(1, y, id), to |-> id]
                        /\ After(k, id)' = 1 \/ Row(id)'[After(k, id)'] # None
      BY <1>0, <2>4 DEF MapLeadsHome, Handle
    <3>1. CASE id # key
      <4>1. Row(id)' = Row(id) /\ After(k, id)' = After(k, id)
        BY <3>1, <2>5, <1>0 DEF After
      <4> QED BY <4>1 DEF IInv, MapLeadsHome
    <3>2. CASE id = key /\ k = t
      <4>1. Row(id)'[k] = edge /\ After(k, id)' = Head(queue)
        BY <3>2, <1>0, <2>1, <2>3, <2>5 DEF After, x
      <4>2. Head(queue) \in Node
        BY <2>1 DEF Units
      <4>3. \E y \in Units : keySwitching[Row(id)'[k]] = [from |-> Handle(1, y, id), to |-> id]
        BY <3>2, <4>1, <2>1
      <4>4. After(k, id)' = 1 \/ Row(id)'[After(k, id)'] # None
        BY <3>2, <4>1, <4>2, <2>1, <2>3, <2>5
      <4> QED BY <3>2, <4>3, <4>4, <2>1
    <3>3. CASE id = key /\ k # t
      <4>1. k \in Node /\ Row(id)'[k] = Row(id)[k] /\ DOMAIN Row(id) = Node
        BY <3>3, <1>0, <2>3, <2>5 DEF Rows
      <4>2. After(k, id)' = After(k, id) /\ Row(id)[k] # None
        BY <4>1, <1>0 DEF After
      <4>3. /\ k \in Units
            /\ \E y \in Units : keySwitching[Row(id)[k]] = [from |-> Handle(1, y, id), to |-> id]
            /\ After(k, id) = 1 \/ Row(id)[After(k, id)] # None
        BY <4>1, <4>2 DEF IInv, MapLeadsHome
      <4>4. After(k, id) \in Node
        <5>1. PICK y \in Units : keySwitching[Row(id)[k]] = [from |-> Handle(1, y, id), to |-> id]
          BY <4>3
        <5>2. keySwitching[Row(id)[k]].from.x = y
          BY <5>1 DEF Handle
        <5>3. k \in Nat /\ InvMod(y) \in Nat
          BY <4>3, InvModOfUnit
        <5> QED BY <5>2, <5>3, MulModInNode DEF After
      <4>5. Row(id)[After(k, id)] # None => Row(id)'[After(k, id)] # None
        BY <3>3, <4>4, <2>3, <2>5
      <4> QED BY <4>1, <4>2, <4>3, <4>5
    <3> QED BY <3>1, <3>2, <3>3
  <2> QED BY <1>2, <2>6, <2>7, <2>8 DEF IInv
<1> QED BY <1>3, <1>4

LEMMA SearchPopStep ==
  ASSUME IInv, SearchPop
  PROVE  IInv'
<1>1. /\ op = "bfs" /\ queue # <<>> /\ queue' = Tail(queue) /\ edge' = 1
      /\ UNCHANGED keys /\ UNCHANGED <<op, key, cursor, threw, seen>>
      /\ UNCHANGED <<nKeys, keySwitching, keySwitchMap>>
  BY DEF SearchPop, keys
<1>2. /\ queue \in Seq(Node) /\ queue' \in Seq(Node) /\ Len(queue) \in Nat
      /\ Len(queue') = Len(queue) - 1 /\ Len(keySwitching) \in Nat
      /\ \A i \in 1 .. Len(queue') : i + 1 \in 1 .. Len(queue) /\ queue'[i] = queue[i + 1]
  BY <1>1 DEF IInv, TypeOK
<1>3. TypeOK'
  BY <1>1, <1>2, OtherVariables DEF IInv, TypeOK
<1>4. SearchInv'
  <2>1. HasRow(key)' /\ Row(key)' = Row(key) /\ Row(key)' \in Rows'
    BY <1>1, OtherVariables DEF IInv, SearchInv
  <2>2. \A i \in 1 .. Len(queue') :
          queue'[i] \in Units /\ (queue'[i] = 1 \/ Row(key)[queue'[i]] # None)
    BY <1>1, <1>2 DEF IInv, SearchInv
  <2> QED BY <2>1, <2>2 DEF SearchInv
<1>5. LoopsInv'
  BY <1>1 DEF IInv, LoopsInv
<1> QED BY <1>1, <1>3, <1>4, <1>5, OtherVariables DEF IInv

LEMMA SearchEndStep ==
  ASSUME IInv, SearchEnd
  PROVE  IInv'
<1>1. /\ op = "bfs" /\ op' = "idle" /\ key' = 0 /\ queue' = <<>> /\ edge' = 1
      /\ UNCHANGED keys /\ UNCHANGED <<cursor, threw>>
      /\ UNCHANGED <<nKeys, keySwitching, keySwitchMap>>
      /\ seen' = [seen EXCEPT ![key] = Len(keySwitching)]
  BY DEF SearchEnd, LeaveSearch, keys
<1>2. 0 \in KeyId /\ queue' \in Seq(Node) /\ Len(keySwitching) \in Nat
  BY <1>1, BoundsAssumption DEF IInv, TypeOK, KeyId
<1>3. TypeOK'
  BY <1>1, <1>2, OtherVariables DEF IInv, TypeOK
<1>4. SearchInv' /\ LoopsInv'
  BY <1>1, <1>2 DEF IInv, LoopsInv, SearchInv
<1> QED BY <1>1, <1>3, <1>4, OtherVariables DEF IInv

LEMMA AddAllMatricesStep ==
  ASSUME IInv, NEW id \in KeyId, AddAllMatrices(id)
  PROVE  IInv'
<1>1. /\ op = "idle" /\ op' = "addAll" /\ key' = id /\ cursor' = 0
      /\ UNCHANGED keys /\ UNCHANGED <<queue, edge, threw, seen>>
      /\ UNCHANGED <<nKeys, keySwitching, keySwitchMap>>
  BY DEF AddAllMatrices, keys
<1>2. TypeOK'
  BY <1>1, OtherVariables DEF IInv, TypeOK
<1>3. SearchInv' /\ LoopsInv'
  BY <1>1, MAssumption DEF IInv, LoopsInv, SearchInv
<1> QED BY <1>1, <1>2, <1>3, OtherVariables DEF IInv

\* The element -1 has been found or made when the loop is past it.
LEMMA AddAllKeyExists ==
  ASSUME IInv, op = "addAll", cursor = M - 1,
         ~ GenerationThrows(Handle(1, cursor, key), key)
  PROVE  key < nKeys
<1> DEFINE h == Handle(1, cursor, key)
<1>1. h.s = 1 /\ h.x = cursor /\ h.id = key /\ h # Handle(1, 1, key)
  BY MinusOneIsUnit DEF Handle
<1>2. ~ Trivial(h, key)
  BY <1>1, MAssumption DEF Trivial
<1>3. key \in Nat /\ nKeys \in Nat
  BY BoundsAssumption DEF IInv, TypeOK, KeyId
<1> HIDE DEF h
<1>4. CASE GetKeySWmatrix(h, key) = None
  <2>1. ~ GenerationThrows(h, key)
    BY DEF h
  <2> QED BY <2>1, <1>1, <1>2, <1>3, <1>4 DEF GenerationThrows
<1>5. CASE GetKeySWmatrix(h, key) # None
  <2>0. ~ GenerationThrows(h, key)
    BY DEF h
  <2>1. GetKeySWmatrix(h, key) # Throws
    BY <2>0, <1>2 DEF GenerationThrows
  <2>2. CASE AsksRow(h) /\ h.id = key /\ Probe(h) # Throws /\ HitsRow(h)
    BY <2>2, <1>1, <1>3 DEF AsksRow, HasRow, IInv, TypeOK
  <2>3. CASE GetKeySWmatrix(h, key) = FirstOf({n \in 1 .. Len(keySwitching) : Holds(h, key, n)})
    <3> DEFINE S == {n \in 1 .. Len(keySwitching) : Holds(h, key, n)}
    <3>1. S # {}
      BY <1>5, <2>3 DEF FirstOf, None
    <3>2. PICK n \in S : TRUE
      BY <3>1
    <3>3. n \in 1 .. Len(keySwitching) /\ keySwitching[n].to = key
      BY <3>2 DEF Holds
    <3> QED BY <3>3 DEF IInv, MatricesExist
  <2> QED BY <2>1, <2>2, <2>3 DEF GetKeySWmatrix
<1> QED BY <1>4, <1>5

LEMMA AddNextStep ==
  ASSUME IInv, AddNext
  PROVE  IInv'
<1> DEFINE h == Handle(1, cursor, key)
           skip == cursor \notin Units
<1>0. /\ op = "addAll" /\ cursor < M /\ cursor \in 0 .. M /\ key \in KeyId /\ cursor \in Nat
      /\ UNCHANGED <<nKeys, keySwitchMap, seen>>
      /\ nKeys \in Nat /\ key \in Nat
  BY BoundsAssumption, MAssumption DEF IInv, TypeOK, LoopsInv, AddNext, KeyId
<1>1. CASE /\ ~ skip /\ GenerationThrows(h, key)
           /\ op' = "idle" /\ threw' = TRUE /\ LeaveLoop
           /\ UNCHANGED keySwitching
  <2>1. /\ key' = 0 /\ queue' = <<>> /\ edge' = 1 /\ cursor' = 0
        /\ op' = "idle" /\ threw' = TRUE /\ UNCHANGED keys
    BY <1>0, <1>1 DEF LeaveLoop, LeaveSearch, keys
  <2>2. 0 \in KeyId /\ queue' \in Seq(Node) /\ UNCHANGED <<keySwitching, seen>> /\ Len(keySwitching) \in Nat
    BY <1>0, <1>1, <2>1, BoundsAssumption DEF KeyId, IInv, TypeOK
  <2>3. TypeOK'
    BY <2>1, <2>2, OtherVariables DEF IInv, TypeOK
  <2>4. SearchInv' /\ LoopsInv'
    BY <2>1 DEF LoopsInv, SearchInv
  <2> QED BY <2>1, <2>3, <2>4, OtherVariables DEF IInv
<1>2. CASE /\ skip \/ ~ GenerationThrows(h, key)
           /\ keySwitching' = IF skip THEN keySwitching ELSE Generated(h, key)
           /\ cursor' = cursor + 1
           /\ UNCHANGED <<op, threw, key, queue, edge>>
  <2>1. /\ keySwitching' \in Seq(Matrices) /\ Len(keySwitching) =< Len(keySwitching')
        /\ MatricesExist' /\ NoDuplicates' /\ MapLeadsHome'
        /\ keySwitchMap' \in Seq(Rows' \cup {<<>>})
    <3>1. CASE skip
      <4>1. UNCHANGED keys /\ UNCHANGED keySwitching
        BY <3>1, <1>0, <1>2 DEF keys
      <4>2. Len(keySwitching) =< Len(keySwitching')
        BY <4>1 DEF IInv, TypeOK
      <4> QED BY <4>1, <4>2, OtherVariables
    <3>2. CASE ~ skip
      BY <3>2, <1>0, <1>2, MatrixAppended
    <3> QED BY <3>1, <3>2
  <2>2. TypeOK'
    <3>1. seen' \in [KeyId -> -1 .. Len(keySwitching')] /\ edge' \in 1 .. Len(keySwitching') + 1
      BY <1>0, <1>2, <2>1, TypesAfterAppend DEF IInv
    <3> QED BY <1>0, <1>2, <2>1, <3>1 DEF IInv, TypeOK
  <2>3. LoopsInv'
    <3>1. cursor' = M => key < nKeys
      <4> SUFFICES ASSUME cursor = M - 1 PROVE key < nKeys
        BY <1>0, <1>2, MAssumption
      <4>1. ~ GenerationThrows(h, key)
        BY <1>2, MinusOneIsUnit
      <4> QED BY <1>0, <4>1, AddAllKeyExists
    <3> QED BY <3>1, <1>0, <1>2, MAssumption DEF LoopsInv
  <2>4. SearchInv'
    BY <1>0, <1>2 DEF SearchInv
  <2> QED BY <2>1, <2>2, <2>3, <2>4 DEF IInv
<1> QED BY <1>1, <1>2 DEF AddNext

LEMMA AddDoneStep ==
  ASSUME IInv, AddDone
  PROVE  IInv'
<1>1. 0 \in KeyId /\ 0 < nKeys
  BY BoundsAssumption DEF IInv, TypeOK, LoopsInv, AddDone, KeyId
<1>2. BeginSearch(0) /\ cursor' = 0 /\ threw' = FALSE /\ UNCHANGED <<nKeys, keySwitching, seen>>
  BY DEF AddDone, BeginSearch
<1>3. /\ keySwitchMap' \in Seq(Rows' \cup {<<>>}) /\ Len(keySwitchMap') =< nKeys'
      /\ op' = "bfs" /\ key' \in KeyId
      /\ queue' \in Seq(Node) /\ edge' \in 1 .. Len(keySwitching') + 1
      /\ MatricesExist' /\ NoDuplicates' /\ MapLeadsHome' /\ SearchInv'
  BY <1>1, <1>2, SearchBegins
<1>4. TypeOK'
  <2>1. threw' \in BOOLEAN
    BY <1>2
  <2>2. cursor' \in Int
    BY <1>2
  <2>3. nKeys' \in 0 .. MaxKeys /\ keySwitching' \in Seq(Matrices)
    BY <1>2 DEF IInv, TypeOK
  <2>4. seen' \in [KeyId -> -1 .. Len(keySwitching')]
    BY <1>2 DEF IInv, TypeOK
  <2> QED BY <1>3, <2>1, <2>2, <2>3, <2>4 DEF TypeOK
<1>5. LoopsInv'
  BY <1>3 DEF LoopsInv
<1> QED BY <1>3, <1>4, <1>5 DEF IInv

LEMMA Stutters ==
  ASSUME IInv, UNCHANGED vars
  PROVE  IInv'
<1>1. /\ UNCHANGED keys /\ UNCHANGED <<op, key, cursor, queue, edge, threw, seen>>
      /\ UNCHANGED <<nKeys, keySwitching, keySwitchMap>>
  BY DEF vars, loop, keys
<1>2. TypeOK'
  BY <1>1, OtherVariables DEF IInv, TypeOK
<1>3. SearchInv' /\ LoopsInv'
  BY <1>1, OtherVariables DEF IInv, LoopsInv, SearchInv
<1> QED BY <1>1, <1>2, <1>3, OtherVariables DEF IInv

LEMMA NextPreservesIInv == IInv /\ [Next]_vars => IInv'
<1> SUFFICES ASSUME IInv, [Next]_vars PROVE IInv'
  OBVIOUS
<1>1. CASE Calls
  BY <1>1, ImportSecKeyStep, GenKeySWmatrixStep, SetKeySwitchMapStep, AddAllMatricesStep DEF Calls
<1>2. CASE Steps
  BY <1>2, SearchEdgeStep, SearchPopStep, SearchEndStep, AddNextStep, AddDoneStep DEF Steps
<1> QED BY <1>1, <1>2, Stutters DEF Next

\* The strengthened invariant holds in every reachable state.
LEMMA IInvAlways == Spec => []IInv
BY InitEstablishesIInv, NextPreservesIInv, PTL DEF Spec

-----------------------------------------------------------------------------
(* The theorems.                                                           *)

\* The key material and the variables of the loops keep their types.
THEOREM TypeCorrect == Spec => []TypeOK
<1>1. IInv => TypeOK
  BY DEF IInv
<1> QED BY <1>1, IInvAlways, PTL

\* keySwitchMap: every entry, also of a row that is out of date or being computed, is a
\* matrix of its own key after which the walk is at 1 or at another entry, so that
\* smartAutomorph() never meets the dummy matrix on its way.
THEOREM MapAlwaysLeadsHome == Spec => []MapLeadsHome
<1>1. IInv => MapLeadsHome
  BY DEF IInv
<1> QED BY <1>1, IInvAlways, PTL

\* GenKeySWmatrix and its lookup through the map never let a matrix in twice.
THEOREM NeverDuplicates == Spec => []NoDuplicates
<1>1. IInv => NoDuplicates
  BY DEF IInv
<1> QED BY <1>1, IInvAlways, PTL

\* What the first of a set of positions is.
LEMMA FirstOfPositions ==
  ASSUME NEW S, S \subseteq 1 .. Len(keySwitching), IInv
  PROVE  /\ FirstOf(S) > None => FirstOf(S) \in S
         /\ FirstOf(S) = None => S = {}
         /\ FirstOf(S) \in Nat
<1>1. S \in SUBSET Nat /\ None \notin S
  BY DEF None
<1>2. CASE S = {}
  BY <1>2 DEF FirstOf, None
<1>3. CASE S # {}
  <2>1. FirstOf(S) \in S
    BY <1>1, <1>3, LeastMember
  <2> QED BY <1>1, <1>3, <2>1 DEF None
<1> QED BY <1>2, <1>3

\* What the two lookups return: an exception, the dummy matrix if there is no matrix for
\* the handle, or the index of one.
LEMMA LookupResult ==
  ASSUME IInv, NEW h \in Handles, NEW to \in KeyId
  PROVE  /\ \/ GetKeySWmatrix(h, to) = Throws
            \/ /\ GetKeySWmatrix(h, to) = None
               /\ \A n \in 1 .. Len(keySwitching) : ~ Holds(h, to, n)
            \/ /\ GetKeySWmatrix(h, to) \in 1 .. Len(keySwitching)
               /\ Holds(h, to, GetKeySWmatrix(h, to))
         /\ \/ GetAnyKeySWmatrix(h) = Throws
            \/ /\ GetAnyKeySWmatrix(h) = None
               /\ \A n \in 1 .. Len(keySwitching) : keySwitching[n].from # h
            \/ /\ GetAnyKeySWmatrix(h) \in 1 .. Len(keySwitching)
               /\ keySwitching[GetAnyKeySWmatrix(h)].from = h
         /\ GetKeySWmatrix(h, to) = Throws => AsksRow(h) /\ Probe(h) = Throws
<1> DEFINE S == {n \in 1 .. Len(keySwitching) : Holds(h, to, n)}
           T == {n \in 1 .. Len(keySwitching) : keySwitching[n].from = h}
<1>1. /\ FirstOf(S) \in S \/ (FirstOf(S) = None /\ S = {})
      /\ FirstOf(T) \in T \/ (FirstOf(T) = None /\ T = {})
  <2>1. S \subseteq 1 .. Len(keySwitching) /\ T \subseteq 1 .. Len(keySwitching)
    OBVIOUS
  <2> HIDE DEF S, T
  <2>2. \A n \in Nat : n > None \/ n = None
    BY DEF None
  <2> QED BY <2>1, <2>2, FirstOfPositions
<1>2. ASSUME AsksRow(h), HitsRow(h), Probe(h) # Throws
      PROVE  /\ Probe(h) \in 1 .. Len(keySwitching)
             /\ keySwitching[Probe(h)].from = h
             /\ h.id = to => Holds(h, to, Probe(h))
  <2>1. h.id \in 0 .. Len(keySwitchMap) - 1 /\ Len(keySwitchMap) \in Nat
    BY <1>2, BoundsAssumption DEF AsksRow, HasRow, Handles, KeyId, IInv, TypeOK
  <2>2. h.x \in DOMAIN Row(h.id) /\ Probe(h) = Row(h.id)[h.x] /\ Probe(h) # None
    BY <1>2 DEF Probe, HitsRow
  <2>3. Row(h.id) \in Rows
    <3>1. h.id + 1 \in 1 .. Len(keySwitchMap)
      BY <2>1
    <3>2. keySwitchMap[h.id + 1] \in Rows \cup {<<>>}
      BY <3>1 DEF IInv, TypeOK
    <3> QED BY <3>2, <2>2, EmptyRowHasNoEntries DEF Row
  <2>4. Probe(h) \in 1 .. Len(keySwitching)
    BY <2>2, <2>3 DEF Rows, None, IInv, TypeOK
  <2>5. \E y \in Units : keySwitching[Probe(h)] = [from |-> Handle(1, y, h.id), to |-> h.id]
    BY <2>1, <2>2 DEF IInv, MapLeadsHome
  <2>6. keySwitching[Probe(h)].to = h.id
    BY <2>5
  <2> QED BY <1>2, <2>4, <2>6 DEF Holds, HitsRow
<1>3. \/ GetKeySWmatrix(h, to) = Throws /\ AsksRow(h) /\ Probe(h) = Throws
      \/ /\ AsksRow(h) /\ h.id = to /\ HitsRow(h) /\ Probe(h) # Throws
         /\ GetKeySWmatrix(h, to) = Probe(h)
      \/ GetKeySWmatrix(h, to) = FirstOf(S)
  BY DEF GetKeySWmatrix
<1>4. \/ GetAnyKeySWmatrix(h) = Throws
      \/ /\ AsksRow(h) /\ HitsRow(h) /\ Probe(h) # Throws
         /\ GetAnyKeySWmatrix(h) = Probe(h)
      \/ GetAnyKeySWmatrix(h) = FirstOf(T)
  BY DEF GetAnyKeySWmatrix
<1>5. /\ \A n \in S : n \in 1 .. Len(keySwitching) /\ Holds(h, to, n)
      /\ \A n \in T : n \in 1 .. Len(keySwitching) /\ keySwitching[n].from = h
      /\ S = {} => \A n \in 1 .. Len(keySwitching) : ~ Holds(h, to, n)
      /\ T = {} => \A n \in 1 .. Len(keySwitching) : keySwitching[n].from # h
  OBVIOUS
<1>6. \A n \in 1 .. Len(keySwitching) : n # Throws
  BY DEF Throws
<1>7. None # Throws
  BY DEF None, Throws
<1> HIDE DEF S, T
<1> QED BY <1>1, <1>2, <1>3, <1>4, <1>5, <1>6, <1>7

\* A lookup throws only where the row does.
LEMMA LookupThrows ==
  ASSUME IInv, NEW h \in Handles, NEW to \in KeyId
  PROVE  /\ GetKeySWmatrix(h, to) = Throws => AsksRow(h) /\ h.id = to /\ Probe(h) = Throws
         /\ GetAnyKeySWmatrix(h) = Throws => AsksRow(h) /\ Probe(h) = Throws
<1> DEFINE S == {n \in 1 .. Len(keySwitching) : Holds(h, to, n)}
           T == {n \in 1 .. Len(keySwitching) : keySwitching[n].from = h}
<1>1. FirstOf(S) # Throws /\ FirstOf(T) # Throws
  <2>1. S \subseteq 1 .. Len(keySwitching) /\ T \subseteq 1 .. Len(keySwitching)
    OBVIOUS
  <2> HIDE DEF S, T
  <2>2. \A n \in Nat : n # Throws
    BY DEF Throws
  <2> QED BY <2>1, <2>2, FirstOfPositions
<1>2. \/ AsksRow(h) /\ h.id = to /\ Probe(h) = Throws
      \/ GetKeySWmatrix(h, to) = FirstOf(S)
      \/ GetKeySWmatrix(h, to) = Probe(h) /\ AsksRow(h) /\ h.id = to
  BY DEF GetKeySWmatrix
<1>3. \/ AsksRow(h) /\ Probe(h) = Throws
      \/ GetAnyKeySWmatrix(h) = FirstOf(T)
      \/ GetAnyKeySWmatrix(h) = Probe(h) /\ AsksRow(h)
  BY DEF GetAnyKeySWmatrix
<1> HIDE DEF S, T
<1> QED BY <1>1, <1>2, <1>3

-----------------------------------------------------------------------------
(***************************************************************************)
(* Which rows there are, and which of them are empty: the map has a row    *)
(* for a key when it was computed for that key or for a later one, and the *)
(* row is empty when it was computed for later ones only.                  *)
(***************************************************************************)
RowOf(id) ==
  /\ HasRow(id) <=> \E later \in KeyId : later >= id /\ Computed(later)
  /\ HasRow(id) => (Row(id) = <<>> <=> ~ Computed(id))

EmptyRowsInv == \A id \in KeyId : RowOf(id)

\* A row of a key is empty or has an entry for every node.
LEMMA RowIsWhole ==
  ASSUME IInv, NEW id \in KeyId, HasRow(id)
  PROVE  /\ Row(id) = <<>> \/ DOMAIN Row(id) = Node
         /\ Row(id) = <<>> => DOMAIN Row(id) = {}
         /\ \A k \in DOMAIN Row(id) : Row(id)[k] # Throws
<1>1. /\ Len(keySwitchMap) \in Nat /\ id \in Nat /\ Len(keySwitching) \in Nat
      /\ keySwitchMap \in Seq(Rows \cup {<<>>})
  BY BoundsAssumption DEF IInv, TypeOK, KeyId
<1>2. id + 1 \in 1 .. Len(keySwitchMap)
  BY <1>1 DEF HasRow
<1>3. Row(id) \in Rows \cup {<<>>}
  BY <1>1, <1>2 DEF Row
<1>4. CASE Row(id) \in Rows
  <2>1. DOMAIN Row(id) = Node /\ \A k \in Node : Row(id)[k] \in 0 .. Len(keySwitching)
    BY <1>4 DEF Rows
  <2>2. 1 \in Node
    BY MAssumption DEF Node
  <2>3. Row(id) # <<>>
    BY <2>1, <2>2
  <2> QED BY <1>1, <2>1, <2>3 DEF Throws
<1>5. CASE Row(id) = <<>>
  BY <1>5
<1> QED BY <1>3, <1>4, <1>5

\* Steps that neither begin nor end a search and leave the map alone.
LEMMA EmptyRowsKept ==
  ASSUME EmptyRowsInv, UNCHANGED <<keySwitchMap, seen>>,
         (op # "bfs" /\ op' # "bfs") \/ (op' = op /\ key' = key)
  PROVE  EmptyRowsInv'
<1>1. \A id \in KeyId : HasRow(id)' = HasRow(id) /\ Row(id)' = Row(id) /\ (Computed(id)' <=> Computed(id))
  BY DEF HasRow, Row, Computed
<1> QED BY <1>1 DEF EmptyRowsInv, RowOf

LEMMA EmptyRowsWhenSearchBegins ==
  ASSUME IInv, EmptyRowsInv, op # "bfs", NEW id \in KeyId, BeginSearch(id)
  PROVE  EmptyRowsInv'
<1> DEFINE n == IF HasRow(id) THEN Len(keySwitchMap) ELSE id + 1
           row(r) == IF r = id + 1 THEN EmptyRow
                     ELSE IF r =< Len(keySwitchMap) THEN keySwitchMap[r] ELSE <<>>
<1>0. /\ Len(keySwitchMap) \in Nat /\ id \in Nat /\ \A i \in KeyId : i \in Nat
      /\ keySwitchMap \in Seq(Rows \cup {<<>>})
  BY BoundsAssumption DEF IInv, TypeOK, KeyId
<1>1. /\ keySwitchMap' = [r \in 1 .. n |-> row(r)]
      /\ op' = "bfs" /\ key' = id /\ seen' = seen
  BY DEF BeginSearch
<1>2. n \in Nat /\ id + 1 =< n /\ Len(keySwitchMap) =< n /\ (n = Len(keySwitchMap) \/ n = id + 1)
  BY <1>0 DEF HasRow
<1> HIDE DEF n
<1>3. Len(keySwitchMap') = n
  <2> HIDE DEF row
  <2> QED BY <1>1, <1>2
<1>4. \A i \in 0 .. n - 1 : Row(i)' = row(i + 1)
  BY <1>1, <1>2 DEF Row
<1>5. \A i \in KeyId : Computed(i)' <=> Computed(i) \/ i = id
  BY <1>1 DEF Computed
<1>6. EmptyRow # <<>>
  <2>1. 1 \in DOMAIN EmptyRow
    BY MAssumption DEF EmptyRow, Node
  <2> QED BY <2>1
<1> SUFFICES ASSUME NEW i \in KeyId PROVE RowOf(i)'
  BY DEF EmptyRowsInv
<1>7. /\ i \in Nat /\ RowOf(i) /\ (HasRow(i)' <=> i < n) /\ (HasRow(i) <=> i < Len(keySwitchMap))
  BY <1>0, <1>3 DEF HasRow, EmptyRowsInv
<1>8. HasRow(i)' <=> \E later \in KeyId : later >= i /\ Computed(later)'
  <2>1. HasRow(i)' <=> HasRow(i) \/ i =< id
    BY <1>0, <1>2, <1>7
  <2> QED BY <1>0, <1>5, <1>7, <2>1 DEF RowOf
<1>9. ASSUME i < n PROVE Row(i)' = <<>> <=> ~ Computed(i)'
  <2>1. Row(i)' = row(i + 1)
    BY <1>4, <1>7, <1>9, <1>2
  <2>2. CASE i = id
    BY <2>1, <2>2, <1>5, <1>6
  <2>3. CASE i # id /\ i < Len(keySwitchMap)
    <3>1. Row(i)' = Row(i)
      BY <1>0, <1>7, <2>1, <2>3 DEF Row
    <3> QED BY <3>1, <2>3, <1>5, <1>7 DEF RowOf
  <2>4. CASE i # id /\ ~ (i < Len(keySwitchMap))
    <3>1. Row(i)' = <<>>
      BY <1>0, <1>7, <2>1, <2>4
    <3>2. ~ HasRow(i)
      BY <1>7, <2>4
    <3>3. ~ Computed(i)
      BY <3>2, <1>7 DEF RowOf
    <3> QED BY <3>1, <3>3, <2>4, <1>5
  <2> QED BY <2>2, <2>3, <2>4
<1> QED BY <1>7, <1>8, <1>9 DEF RowOf

LEMMA EmptyRowsAfterSearchEdge ==
  ASSUME IInv, EmptyRowsInv, SearchEdge
  PROVE  EmptyRowsInv'
<1>0. /\ Len(keySwitchMap) \in Nat /\ key \in Nat /\ \A i \in KeyId : i \in Nat
      /\ keySwitchMap \in Seq(Rows \cup {<<>>}) /\ op = "bfs" /\ op' = op /\ key' = key
      /\ seen' = seen
  BY BoundsAssumption DEF IInv, TypeOK, KeyId, SearchEdge
<1>1. CASE UNCHANGED keySwitchMap
  BY <1>0, <1>1, EmptyRowsKept
<1>2. CASE keySwitchMap' = [keySwitchMap EXCEPT ![key + 1][Target] = edge]
  <2>1. /\ HasRow(key) /\ Row(key) \in Rows /\ key + 1 \in DOMAIN keySwitchMap
    BY <1>0 DEF IInv, SearchInv, HasRow
  <2>2. Len(keySwitchMap') = Len(keySwitchMap)
    BY <1>0, <1>2
  <2>3. \A i \in Nat : i # key => Row(i)' = Row(i)
    BY <1>0, <1>2 DEF Row
  <2>4. DOMAIN Row(key)' = Node
    <3>1. keySwitchMap'[key + 1] = [keySwitchMap[key + 1] EXCEPT ![Target] = edge]
      BY <1>2, <2>1
    <3>2. DOMAIN keySwitchMap[key + 1] = Node
      BY <2>1 DEF Row, Rows
    <3>3. DOMAIN keySwitchMap'[key + 1] = Node
      BY <3>1, <3>2
    <3> QED BY <1>0, <3>3 DEF Row
  <2>5. Row(key)' # <<>> /\ Row(key) # <<>>
    <3>1. 1 \in Node
      BY MAssumption DEF Node
    <3>2. DOMAIN Row(key) = Node
      BY <2>1 DEF Rows
    <3> QED BY <3>1, <3>2, <2>4
  <2>6. \A i \in KeyId : HasRow(i)' = HasRow(i) /\ (Computed(i)' <=> Computed(i))
                           /\ (Row(i)' = <<>> <=> Row(i) = <<>>)
    <3>1. \A i \in KeyId : HasRow(i)' = HasRow(i) /\ (Computed(i)' <=> Computed(i))
      BY <1>0, <2>2 DEF HasRow, Computed
    <3>2. \A i \in KeyId : Row(i)' = <<>> <=> Row(i) = <<>>
      BY <1>0, <2>3, <2>5
    <3> QED BY <3>1, <3>2
  <2> QED BY <2>6 DEF EmptyRowsInv, RowOf
<1> QED BY <1>1, <1>2 DEF SearchEdge

LEMMA EmptyRowsAfterSearchEnd ==
  ASSUME IInv, EmptyRowsInv, SearchEnd
  PROVE  EmptyRowsInv'
<1>1. /\ op = "bfs" /\ op' = "idle" /\ key \in KeyId /\ Len(keySwitching) \in Nat
      /\ UNCHANGED keySwitchMap
      /\ seen \in [KeyId -> -1 .. Len(keySwitching)]
      /\ seen' = [seen EXCEPT ![key] = Len(keySwitching)]
  BY DEF SearchEnd, keys, IInv, TypeOK
<1>2. \A i \in KeyId : HasRow(i)' = HasRow(i) /\ Row(i)' = Row(i) /\ (Computed(i)' <=> Computed(i))
  BY <1>1 DEF HasRow, Row, Computed
<1> QED BY <1>2 DEF EmptyRowsInv, RowOf

LEMMA NextPreservesEmptyRows == IInv /\ EmptyRowsInv /\ [Next]_vars => EmptyRowsInv'
<1> SUFFICES ASSUME IInv, EmptyRowsInv, [Next]_vars PROVE EmptyRowsInv'
  OBVIOUS
<1>1. ASSUME NEW degree \in 1 .. MaxDegree, ImportSecKey(degree) PROVE EmptyRowsInv'
  BY <1>1, EmptyRowsKept DEF ImportSecKey, loop
<1>2. ASSUME NEW s, NEW x, NEW from, NEW to, GenKeySWmatrix(s, x, from, to)
      PROVE  EmptyRowsInv'
  BY <1>2, EmptyRowsKept DEF GenKeySWmatrix, loop
<1>3. ASSUME NEW id \in KeyId, SetKeySwitchMap(id) PROVE EmptyRowsInv'
  <2>1. op # "bfs"
    BY <1>3 DEF SetKeySwitchMap
  <2>2. CASE BeginSearch(id)
    BY <2>1, <2>2, EmptyRowsWhenSearchBegins
  <2>3. CASE UNCHANGED <<keys, op, loop, seen>>
    BY <2>3, EmptyRowsKept DEF keys, loop
  <2> QED BY <1>3, <2>2, <2>3 DEF SetKeySwitchMap
<1>4. ASSUME NEW id \in KeyId, AddAllMatrices(id) PROVE EmptyRowsInv'
  BY <1>4, EmptyRowsKept DEF AddAllMatrices, keys
<1>5. CASE SearchEdge
  BY <1>5, EmptyRowsAfterSearchEdge
<1>6. CASE SearchPop
  BY <1>6, EmptyRowsKept DEF SearchPop, keys
<1>7. CASE SearchEnd
  BY <1>7, EmptyRowsAfterSearchEnd
<1>8. CASE AddNext
  <2>1. op # "bfs" /\ op' # "bfs" /\ UNCHANGED <<keySwitchMap, seen>>
    BY <1>8 DEF AddNext
  <2> QED BY <2>1, EmptyRowsKept
<1>9. CASE AddDone
  <2>1. 0 \in KeyId /\ op # "bfs" /\ BeginSearch(0)
    BY <1>9, BoundsAssumption DEF AddDone, KeyId
  <2> QED BY <2>1, EmptyRowsWhenSearchBegins
<1>10. CASE UNCHANGED vars
  BY <1>10, EmptyRowsKept DEF vars, keys, loop
<1> QED BY <1>1, <1>2, <1>3, <1>4, <1>5, <1>6, <1>7, <1>8, <1>9, <1>10 DEF Next, Calls, Steps

LEMMA InitEstablishesEmptyRows == Init => EmptyRowsInv
<1> SUFFICES ASSUME Init PROVE EmptyRowsInv
  OBVIOUS
<1>1. \A id \in KeyId : ~ HasRow(id) /\ ~ Computed(id)
  BY BoundsAssumption DEF Init, HasRow, Computed, KeyId
<1> QED BY <1>1 DEF EmptyRowsInv, RowOf

LEMMA EmptyRowsAlways == Spec => []EmptyRowsInv
BY InitEstablishesEmptyRows, NextPreservesEmptyRows, IInvAlways, PTL DEF Spec

\* The place of a key in the map throws when the key was skipped, and only then.
LEMMA ProbeThrows ==
  ASSUME IInv, EmptyRowsInv, NEW h, NEW x \in Node, NEW id \in KeyId, h.x = x, h.id = id
  PROVE  HasRow(id) /\ Probe(h) = Throws <=> Skipped(id)
<1>1. HasRow(id) => /\ Row(id) = <<>> => Probe(h) = Throws
                    /\ Row(id) # <<>> => Probe(h) # Throws
  BY RowIsWhole DEF Probe
<1>2. /\ HasRow(id) <=> \E later \in KeyId : later >= id /\ Computed(later)
      /\ HasRow(id) => (Row(id) = <<>> <=> ~ Computed(id))
  BY DEF EmptyRowsInv, RowOf
<1>3. \A i \in KeyId : i \in Int
  BY DEF KeyId
<1>4. Skipped(id) <=> ~ Computed(id) /\ HasRow(id)
  BY <1>2, <1>3 DEF Skipped
<1> QED BY <1>1, <1>2, <1>4

\* getKeySWmatrix and getAnyKeySWmatrix, in every case: a lookup throws exactly when the
\* map of its key was skipped for that of a later key (which keys.h:111 does not say);
\* every other one, through the map or by the linear search, finds a matrix for this very
\* handle and key if there is one, and the dummy matrix otherwise.
THEOREM LookupAlwaysCorrect == Spec => []LookupCorrect
<1>1. IInv /\ EmptyRowsInv => LookupCorrect
  <2> SUFFICES ASSUME IInv, EmptyRowsInv, NEW s \in 1 .. MaxDegree + 1, NEW x \in Node,
                      NEW id \in KeyId, NEW to \in KeyId, NEW h, h = Handle(s, x, id)
               PROVE  /\ GetKeySWmatrix(h, to) = Throws <=> s = 1 /\ id = to /\ Skipped(id)
                      /\ GetAnyKeySWmatrix(h) = Throws <=> s = 1 /\ Skipped(id)
                      /\ GetKeySWmatrix(h, to) > None => Holds(h, to, GetKeySWmatrix(h, to))
                      /\ GetKeySWmatrix(h, to) = None =>
                           \A n \in 1 .. Len(keySwitching) : ~ Holds(h, to, n)
                      /\ GetAnyKeySWmatrix(h) > None =>
                           keySwitching[GetAnyKeySWmatrix(h)].from = h
                      /\ GetAnyKeySWmatrix(h) = None =>
                           \A n \in 1 .. Len(keySwitching) : keySwitching[n].from # h
    BY DEF LookupCorrect
  <2>1. h \in Handles /\ h.s = s /\ h.x = x /\ h.id = id
    BY DEF Handle, Handles, Node
  <2>2. /\ ~ (Throws > None) /\ Throws # None
        /\ \A n \in 1 .. Len(keySwitching) : n # None /\ n # Throws
    BY DEF Throws, None
  <2>3. AsksRow(h) /\ Probe(h) = Throws <=> s = 1 /\ Skipped(id)
    BY <2>1, ProbeThrows DEF AsksRow
  <2>4. GetKeySWmatrix(h, to) = Throws <=> s = 1 /\ id = to /\ Skipped(id)
    <3>1. AsksRow(h) /\ h.id = to /\ Probe(h) = Throws => GetKeySWmatrix(h, to) = Throws
      BY DEF GetKeySWmatrix
    <3>2. GetKeySWmatrix(h, to) = Throws => AsksRow(h) /\ h.id = to /\ Probe(h) = Throws
      BY <2>1, LookupThrows
    <3> QED BY <3>1, <3>2, <2>1, <2>3
  <2>5. GetAnyKeySWmatrix(h) = Throws <=> s = 1 /\ Skipped(id)
    <3>1. AsksRow(h) /\ Probe(h) = Throws => GetAnyKeySWmatrix(h) = Throws
      BY DEF GetAnyKeySWmatrix
    <3>2. GetAnyKeySWmatrix(h) = Throws => AsksRow(h) /\ Probe(h) = Throws
      BY <2>1, LookupThrows
    <3> QED BY <3>1, <3>2, <2>3
  <2>6. GetKeySWmatrix(h, to) \notin {Throws, None} => Holds(h, to, GetKeySWmatrix(h, to))
    BY <2>1, LookupResult
  <2>7. GetKeySWmatrix(h, to) = None => \A n \in 1 .. Len(keySwitching) : ~ Holds(h, to, n)
    BY <2>1, <2>2, LookupResult
  <2>8. GetAnyKeySWmatrix(h) \notin {Throws, None} => keySwitching[GetAnyKeySWmatrix(h)].from = h
    BY <2>1, LookupResult
  <2>9. GetAnyKeySWmatrix(h) = None => \A n \in 1 .. Len(keySwitching) : keySwitching[n].from # h
    BY <2>1, <2>2, LookupResult
  <2>10. ~ (None > None)
    BY DEF None
  <2> QED BY <2>2, <2>4, <2>5, <2>6, <2>7, <2>8, <2>9, <2>10
<1> QED BY <1>1, IInvAlways, EmptyRowsAlways, PTL

-----------------------------------------------------------------------------
(***************************************************************************)
(* The search is a breadth-first search.  What makes it one is that the    *)
(* depths of the nodes in the queue never fall and never exceed that of    *)
(* its head by more than one.  Node 1, which may come into the queue a     *)
(* second time with an entry of its own, is an exception: then all edges   *)
(* out of it have been gone over before.                                   *)
(***************************************************************************)

\* R is a row of the map, W the list of matrices, E the exponents of the edges.
Met(R)   == {k \in Node : R[k] # None}
Known(R) == Met(R) \cup {1}

\* D[k] is the number of matrices from node k to 1 along the row.
IsDepth(D, R, W) ==
  /\ D \in [Node -> Nat] /\ D[1] = 0
  /\ \A k \in Met(R) \ {1} : D[k] = D[MulMod(k, InvMod(W[R[k]].from.x))] + 1

\* Every node that an edge leads to from k is met, at most one deeper.
Expanded(R, D, E, k) ==
  \A a \in E : MulMod(k, a) \in Met(R) /\ D[MulMod(k, a)] =< D[k] + 1

\* Only products of the exponents are met, of no more of them than there are nodes met.
OnlyProducts(R, E) ==
  \A k \in Met(R) : \E d \in 1 .. Cardinality(Met(R)) : k \in ProductsOf(E)[d]

\* A row when its search is over.
Finished(R, W, E) ==
  /\ OnlyProducts(R, E)
  /\ \E D : IsDepth(D, R, W) /\ \A k \in Known(R) : Expanded(R, D, E, k)

\* A row during its search, with queue q and the edges in F done at the head of it.
QueueInv(R, D, E, F, q) ==
  /\ \A k \in Known(R) : (\E n \in 1 .. Len(q) : q[n] = k) \/ Expanded(R, D, E, k)
  /\ q # <<>> => Expanded(R, D, F, q[1])
  /\ \A n \in 1 .. Len(q) : q[n] # 1 => \A k \in Known(R) : D[k] =< D[q[n]] + 1
  /\ \A n, m \in 1 .. Len(q) : n =< m /\ q[n] # 1 /\ q[m] # 1 => D[q[n]] =< D[q[m]]
  /\ \/ Expanded(R, D, E, 1)
     \/ q # <<>> /\ q[1] = 1 /\ \A k \in Known(R) : D[k] =< 1

Searching(R, W, E, F, q) ==
  /\ OnlyProducts(R, E)
  /\ \E D : IsDepth(D, R, W) /\ QueueInv(R, D, E, F, q)

\* What holds at 0 and, with j - 1, at j holds up to n.
LEMMA UpwardInduction ==
  ASSUME NEW n \in Nat, NEW S, 0 \in S,
         \A j \in 1 .. n : j - 1 \in S => j \in S
  PROVE  0 .. n \subseteq S
<1> DEFINE B == {j \in 0 .. n : j \notin S}
<1>1. SUFFICES ASSUME B # {} PROVE FALSE
  OBVIOUS
<1>2. B \in SUBSET Nat
  OBVIOUS
<1>3. PICK j \in B : \A k \in B : ~ (<<k, j>> \in OpToRel(<, Nat))
  BY <1>1, <1>2, NatLessThanWellFounded, WFMin
<1>4. j \in 1 .. n /\ j - 1 \in 0 .. n
  <2>1. j \in 0 .. n /\ j # 0
    OBVIOUS
  <2> QED BY <2>1
<1>5. j - 1 \in S
  <2>1. <<j - 1, j>> \in Nat \X Nat /\ j - 1 < j
    BY <1>4
  <2> QED BY <1>3, <1>4, <2>1 DEF OpToRel
<1> QED BY <1>3, <1>4, <1>5

IsIteration(f, n, A, a0, step) ==
  f \in [0 .. n -> A] /\ f[0] = a0 /\ \A d \in 1 .. n : f[d] = step[f[d - 1]]

LEMMA FiniteRecursion ==
  ASSUME NEW n \in Nat, NEW A, NEW a0 \in A, NEW step \in [A -> A]
  PROVE  \E f : IsIteration(f, n, A, a0, step)
<1> DEFINE Is(f, m) == /\ f \in [0 .. m -> A] /\ f[0] = a0
                       /\ \A d \in 1 .. m : f[d] = step[f[d - 1]]
           S == {m \in 0 .. n : \E f : Is(f, m)}
<1>1. 0 \in S
  <2>1. Is([d \in 0 .. 0 |-> a0], 0)
    OBVIOUS
  <2> HIDE DEF Is
  <2> QED BY <2>1
<1>2. ASSUME NEW m \in 1 .. n, m - 1 \in S PROVE m \in S
  <2>1. PICK f : Is(f, m - 1)
    BY <1>2
  <2> DEFINE g == [d \in 0 .. m |-> IF d = m THEN step[f[m - 1]] ELSE f[d]]
  <2>2. g \in [0 .. m -> A] /\ g[0] = a0
    BY <2>1
  <2>3. ASSUME NEW d \in 1 .. m PROVE g[d] = step[g[d - 1]]
    BY <2>1
  <2> HIDE DEF g
  <2>4. Is(g, m)
    BY <2>2, <2>3
  <2> HIDE DEF Is
  <2> QED BY <2>4
<1> HIDE DEF Is, S
<1>3. 0 .. n \subseteq S
  BY <1>1, <1>2, UpwardInduction
<1>4. n \in S
  BY <1>3
<1>5. PICK f : Is(f, n)
  BY <1>4 DEF S
<1> QED BY <1>5 DEF Is, IsIteration

\* The products of d of the exponents, one product after the other.
LEMMA ProductsOfCorrect ==
  ASSUME NEW E \in SUBSET Nat
  PROVE  /\ ProductsOf(E)[0] = {1}
         /\ \A d \in 1 .. M : ProductsOf(E)[d] =
              {MulMod(k, a) : k \in ProductsOf(E)[d - 1], a \in E}
         /\ \A d \in 0 .. M : ProductsOf(E)[d] \subseteq Node
<1> DEFINE next(L) == {MulMod(k, a) : k \in L, a \in E}
           step == [L \in SUBSET Node |-> next(L)]
           Is(f) == f = [d \in 0 .. M |-> IF d = 0 THEN {1} ELSE next(f[d - 1])]
<1>1. step \in [SUBSET Node -> SUBSET Node]
  <2>1. ASSUME NEW L \in SUBSET Node, NEW k \in L, NEW a \in E PROVE MulMod(k, a) \in Node
    BY MulModInNode DEF Node
  <2> QED BY <2>1
<1>2. {1} \in SUBSET Node /\ M \in Nat
  BY MAssumption DEF Node
<1>3. PICK f \in [0 .. M -> SUBSET Node] : f[0] = {1} /\ \A d \in 1 .. M : f[d] = step[f[d - 1]]
  <2> DEFINE A == SUBSET Node
             a0 == {1}
  <2>1. step \in [A -> A] /\ a0 \in A /\ M \in Nat
    BY <1>1, <1>2
  <2> HIDE DEF step, A, a0
  <2>2. PICK f : IsIteration(f, M, A, a0, step)
    BY <2>1, FiniteRecursion
  <2> QED BY <2>2 DEF IsIteration, A, a0
<1>4. ASSUME NEW d \in 0 .. M PROVE f[d] = IF d = 0 THEN {1} ELSE next(f[d - 1])
  <2> HIDE DEF next
  <2>1. CASE d = 0
    BY <1>3, <2>1
  <2>2. CASE d # 0
    <3>1. d \in 1 .. M /\ d - 1 \in 0 .. M
      BY <1>2, <2>2
    <3> QED BY <1>3, <2>2, <3>1
  <2> QED BY <2>1, <2>2
<1>5. Is(f)
  <2> HIDE DEF next
  <2> QED BY <1>3, <1>4
<1>6. ProductsOf(E) = CHOOSE g : Is(g)
  BY DEF ProductsOf
<1> HIDE DEF next, Is, step
<1>7. Is(ProductsOf(E))
  BY <1>5, <1>6
<1> DEFINE g == ProductsOf(E)
<1>8. \A d \in 0 .. M : g[d] = IF d = 0 THEN {1} ELSE next(g[d - 1])
  BY <1>7 DEF Is
<1>9. g[0] = {1} /\ \A d \in 1 .. M : g[d] = next(g[d - 1])
  BY <1>2, <1>8
<1> HIDE DEF g
<1> DEFINE S == {d \in 0 .. M : g[d] \subseteq Node}
<1>10. 0 .. M \subseteq S
  <2>1. 0 \in S
    BY <1>2, <1>9
  <2>2. ASSUME NEW d \in 1 .. M, d - 1 \in S PROVE d \in S
    <3>1. g[d - 1] \in SUBSET Node
      BY <2>2
    <3>2. next(g[d - 1]) = step[g[d - 1]]
      BY <3>1 DEF step
    <3> QED BY <1>1, <1>9, <3>1, <3>2
  <2> HIDE DEF S
  <2> QED BY <1>2, <2>1, <2>2, UpwardInduction
<1> QED BY <1>9, <1>10 DEF g, next

LEMMA ProductsGrow ==
  ASSUME NEW E \in SUBSET Nat
  PROVE  /\ ProductsOf(E)[0] = {1}
         /\ \A d \in 1 .. M : \A k \in ProductsOf(E)[d - 1], a \in E : MulMod(k, a) \in ProductsOf(E)[d]
         /\ \A d \in 1 .. M : \A t \in ProductsOf(E)[d] :
              \E k \in ProductsOf(E)[d - 1], a \in E : t = MulMod(k, a)
BY ProductsOfCorrect

LEMMA MetIsFinite ==
  ASSUME NEW R
  PROVE  IsFiniteSet(Met(R)) /\ Cardinality(Met(R)) \in 0 .. M /\ Cardinality(Met(R)) \in Nat
<1>1. IsFiniteSet(Node) /\ Cardinality(Node) = M
  <2>1. 0 \in Int /\ M - 1 \in Int /\ ~ (0 > M - 1) /\ (M - 1) - 0 + 1 = M
    BY MAssumption
  <2> QED BY <2>1, FS_Interval DEF Node
<1>2. Met(R) \subseteq Node
  BY DEF Met
<1>3. IsFiniteSet(Met(R)) /\ Cardinality(Met(R)) =< M
  BY <1>1, <1>2, FS_Subset
<1> QED BY <1>3, FS_CardinalityType, MAssumption

\* An empty row, and only node 1 in the queue.
LEMMA SearchStarts ==
  ASSUME NEW W, NEW E
  PROVE  Searching(EmptyRow, W, E, {}, <<1>>)
<1> DEFINE D == [k \in Node |-> 0]
           q == <<1>>
<1>1. Met(EmptyRow) = {} /\ Known(EmptyRow) = {1}
  BY DEF Met, Known, EmptyRow
<1>2. 1 \in Node
  BY MAssumption DEF Node
<1>3. IsDepth(D, EmptyRow, W)
  BY <1>1, <1>2 DEF IsDepth
<1>4. Len(q) = 1 /\ q[1] = 1 /\ q # <<>>
  OBVIOUS
<1>5. D[1] = 0
  BY <1>2
<1> HIDE DEF D, q
<1>6. Expanded(EmptyRow, D, {}, q[1])
  BY DEF Expanded
<1>7. QueueInv(EmptyRow, D, E, {}, q)
  <2>1. \A n \in 1 .. Len(q) : q[n] = 1
    BY <1>4
  <2>2. \E n \in 1 .. Len(q) : q[n] = 1
    BY <1>4
  <2>3. \A k \in Known(EmptyRow) : D[k] =< 1 /\ k = 1
    BY <1>1, <1>5
  <2> QED BY <1>4, <1>6, <2>1, <2>2, <2>3 DEF QueueInv
<1>8. OnlyProducts(EmptyRow, E)
  BY <1>1 DEF OnlyProducts
<1> QED BY <1>3, <1>7, <1>8 DEF Searching, q

\* A node that is met for the first time is one deeper than the head of the queue.
LEMMA NodeIsEntered ==
  ASSUME NEW R \in [Node -> Nat], NEW W, NEW E \in SUBSET Nat, NEW F \in SUBSET E, NEW a \in E,
         NEW q \in Seq(Node), q # <<>>, \A n \in 1 .. Len(q) : q[n] \in Known(R),
         \A k \in Met(R) \ {1} : MulMod(k, InvMod(W[R[k]].from.x)) \in Known(R),
         NEW t \in Node, t = MulMod(q[1], a), R[t] = None,
         NEW n \in Nat, n # None, W[n].from.x = a, MulMod(t, InvMod(a)) = q[1],
         Searching(R, W, E, F, q)
  PROVE  Searching([R EXCEPT ![t] = n], W, E, F \cup {a}, Append(q, t))
<1> DEFINE S == [R EXCEPT ![t] = n]
           h == q[1]
           p == Append(q, t)
<1>1. /\ Len(q) \in Nat /\ Len(q) >= 1 /\ h \in Known(R) /\ h \in Node /\ h \in Nat /\ a \in Nat
      /\ \A k \in Known(R) : k \in Node
      /\ 1 \in Node /\ 1 \in Known(R)
  BY MAssumption DEF Known, Met, Node
<1>2. /\ p # <<>> /\ Len(p) = Len(q) + 1 /\ p[Len(q) + 1] = t
      /\ \A m \in 1 .. Len(q) : p[m] = q[m]
      /\ p[1] = h
  BY <1>1
<1>3. Met(S) = Met(R) \cup {t} /\ t \notin Met(R) /\ Known(S) = Known(R) \cup {t}
      /\ S[t] = n /\ \A k \in Met(R) : S[k] = R[k]
  BY DEF Met, Known
<1> HIDE DEF S, p
<1>4. OnlyProducts(S, E)
  <2> DEFINE c == Cardinality(Met(R))
             L == ProductsOf(E)
  <2>1. c \in Nat /\ c =< M /\ Cardinality(Met(S)) = c + 1 /\ c + 1 =< M
    <3>1. IsFiniteSet(Met(R)) /\ c \in Nat /\ c =< M
      BY MetIsFinite, MAssumption
    <3>2. Cardinality(Met(S)) = c + 1
      <4>1. Cardinality(Met(R) \cup {t}) = IF t \in Met(R) THEN c ELSE c + 1
        BY <3>1, FS_AddElement
      <4> HIDE DEF c
      <4> QED BY <1>3, <4>1
    <3>3. Cardinality(Met(S)) =< M
      BY MetIsFinite, MAssumption
    <3> QED BY <3>1, <3>2, <3>3
  <2>2. \A k \in Met(R) : \E d \in 1 .. c : k \in L[d]
    BY DEF OnlyProducts, Searching
  <2>3. L[0] = {1} /\ \A d \in 1 .. M : \A k \in L[d - 1], b \in E : MulMod(k, b) \in L[d]
    BY ProductsGrow
  <2> HIDE DEF c, L
  <2>4. PICK d \in 0 .. c : h \in L[d]
    <3>1. CASE h = 1
      BY <2>1, <2>3, <3>1
    <3>2. CASE h # 1
      <4>1. h \in Met(R)
        BY <1>1, <3>2 DEF Known
      <4>2. PICK d \in 1 .. c : h \in L[d]
        BY <2>2, <4>1
      <4>3. d \in 0 .. c
        BY <2>1
      <4> QED BY <4>2, <4>3
    <3> QED BY <3>1, <3>2
  <2>5. d + 1 \in 1 .. c + 1 /\ t \in L[d + 1]
    <3>1. d + 1 \in 1 .. c + 1 /\ d + 1 \in 1 .. M /\ (d + 1) - 1 = d
      BY <2>1, MAssumption
    <3>2. \A k \in L[d], b \in E : MulMod(k, b) \in L[d + 1]
      BY <2>3, <3>1
    <3> QED BY <2>4, <3>1, <3>2
  <2>6. ASSUME NEW k \in Met(S) PROVE \E e \in 1 .. c + 1 : k \in L[e]
    <3>1. CASE k = t
      BY <2>5, <3>1
    <3>2. CASE k # t
      <4>1. PICK e \in 1 .. c : k \in L[e]
        BY <1>3, <2>2, <3>2
      <4>2. e \in 1 .. c + 1
        BY <2>1
      <4> QED BY <4>1, <4>2
    <3> QED BY <3>1, <3>2
  <2> QED BY <2>1, <2>6 DEF OnlyProducts, L
<1>5. PICK D : IsDepth(D, R, W) /\ QueueInv(R, D, E, F, q)
  BY DEF Searching
<1>6. D \in [Node -> Nat] /\ D[1] = 0 /\ \A k \in Known(R) : D[k] \in Nat
  BY <1>1, <1>5 DEF IsDepth
<1> DEFINE C == IF t = 1 THEN D ELSE [D EXCEPT ![t] = D[h] + 1]
<1>7. /\ C \in [Node -> Nat] /\ C[1] = 0 /\ C[t] =< D[h] + 1 /\ C[t] \in Nat
      /\ t # 1 => C[t] = D[h] + 1
      /\ \A k \in Known(R) : C[k] = D[k] /\ C[k] \in Nat
      /\ D[h] \in Nat
  <2>1. t # 1 => t \notin Known(R)
    BY <1>3 DEF Known
  <2>2. D[h] \in Nat /\ D[h] + 1 \in Nat
    BY <1>1, <1>6
  <2>3. CASE t = 1
    BY <1>1, <1>6, <2>2, <2>3
  <2>4. CASE t # 1
    <3>1. C = [D EXCEPT ![t] = D[h] + 1]
      BY <2>4
    <3> HIDE DEF C, h
    <3>2. C \in [Node -> Nat] /\ C[t] = D[h] + 1 /\ C[1] = 0
      BY <1>1, <1>6, <2>2, <2>4, <3>1
    <3>3. \A k \in Known(R) : C[k] = D[k] /\ C[k] \in Nat
      BY <1>1, <1>6, <2>1, <2>4, <3>1
    <3> QED BY <2>2, <2>4, <3>2, <3>3
  <2> QED BY <2>3, <2>4
<1> HIDE DEF C
<1>8. IsDepth(C, S, W)
  <2>1. ASSUME NEW k \in Met(S) \ {1}
        PROVE  C[k] = C[MulMod(k, InvMod(W[S[k]].from.x))] + 1
    <3>1. CASE k = t
      <4>1. t # 1 /\ S[t] = n /\ C[t] = D[h] + 1 /\ C[h] = D[h]
        BY <1>1, <1>3, <1>7, <2>1, <3>1
      <4>2. MulMod(t, InvMod(W[S[t]].from.x)) = h
        BY <4>1
      <4> QED BY <3>1, <4>1, <4>2
    <3>2. CASE k # t
      <4>1. k \in Met(R) \ {1} /\ k \in Known(R) /\ S[k] = R[k]
        BY <1>3, <2>1, <3>2 DEF Known
      <4>2. D[k] = D[MulMod(k, InvMod(W[R[k]].from.x))] + 1
        BY <1>5, <4>1 DEF IsDepth
      <4> QED BY <1>7, <4>1, <4>2
    <3> QED BY <3>1, <3>2
  <2> QED BY <1>7, <2>1 DEF IsDepth
<1>9. ASSUME NEW k \in Known(R), NEW G, Expanded(R, D, G, k)
      PROVE  Expanded(S, C, G, k)
  <2>1. ASSUME NEW b \in G PROVE MulMod(k, b) \in Met(S) /\ C[MulMod(k, b)] =< C[k] + 1
    <3>1. MulMod(k, b) \in Met(R) /\ D[MulMod(k, b)] =< D[k] + 1
      BY <1>9 DEF Expanded
    <3>2. MulMod(k, b) \in Known(R)
      BY <3>1 DEF Known
    <3> QED BY <1>3, <1>7, <3>1, <3>2
  <2> QED BY <2>1 DEF Expanded
<1>10. \A k \in Known(R) : (\E m \in 1 .. Len(q) : q[m] = k) \/ Expanded(R, D, E, k)
  BY <1>5 DEF QueueInv
<1>11. Expanded(R, D, F, h)
  BY <1>5 DEF QueueInv
<1>12. /\ \A m \in 1 .. Len(q) : q[m] # 1 => \A k \in Known(R) : D[k] =< D[q[m]] + 1
       /\ \A m, j \in 1 .. Len(q) : m =< j /\ q[m] # 1 /\ q[j] # 1 => D[q[m]] =< D[q[j]]
  BY <1>5 DEF QueueInv
<1>13. Expanded(R, D, E, 1) \/ (h = 1 /\ \A k \in Known(R) : D[k] =< 1)
  BY <1>5 DEF QueueInv
\* Nothing is deeper than the new node, and nothing in the queue is less deep than the head.
<1>14. ASSUME NEW k \in Known(R) PROVE D[k] =< D[h] + 1
  <2>1. CASE h # 1
    BY <1>1, <1>12, <2>1
  <2>2. CASE h = 1
    <3>1. ~ Expanded(R, D, E, 1)
      BY <1>3, <2>2 DEF Expanded
    <3> QED BY <1>6, <1>13, <2>2, <3>1
  <2> QED BY <2>1, <2>2
<1>15. ASSUME NEW m \in 1 .. Len(q), q[m] # 1 PROVE D[h] =< D[q[m]]
  <2>1. q[m] \in Known(R) /\ 1 \in 1 .. Len(q) /\ 1 =< m
    BY <1>1
  <2>2. CASE h # 1
    BY <1>12, <1>15, <2>1, <2>2
  <2>3. CASE h = 1
    BY <1>6, <2>1, <2>3
  <2> QED BY <2>2, <2>3
<1>16. \A k \in Known(S) : (\E m \in 1 .. Len(p) : p[m] = k) \/ Expanded(S, C, E, k)
  <2>1. ASSUME NEW k \in Known(R), NEW m \in 1 .. Len(q), q[m] = k
        PROVE  \E j \in 1 .. Len(p) : p[j] = k
    BY <1>1, <1>2, <2>1
  <2>2. \E m \in 1 .. Len(p) : p[m] = t
    BY <1>1, <1>2
  <2> QED BY <1>3, <1>9, <1>10, <2>1, <2>2
<1>17. Expanded(S, C, F \cup {a}, p[1])
  <2>1. Expanded(S, C, F, h)
    BY <1>1, <1>9, <1>11
  <2>2. MulMod(h, a) \in Met(S) /\ C[MulMod(h, a)] =< C[h] + 1
    BY <1>1, <1>3, <1>7
  <2> QED BY <1>2, <2>1, <2>2 DEF Expanded
<1>18. ASSUME NEW m \in 1 .. Len(p), p[m] # 1, NEW k \in Known(S) PROVE C[k] =< C[p[m]] + 1
  <2>1. C[k] =< D[h] + 1 /\ C[k] \in Nat
    <3>1. CASE k \in Known(R)
      BY <1>7, <1>14, <3>1
    <3>2. CASE k = t
      BY <1>7, <3>2
    <3> QED BY <1>3, <3>1, <3>2
  <2>2. CASE m = Len(q) + 1
    BY <1>2, <1>7, <1>18, <2>1, <2>2
  <2>3. CASE m # Len(q) + 1
    <3>1. m \in 1 .. Len(q) /\ p[m] = q[m] /\ q[m] \in Known(R)
      BY <1>1, <1>2, <2>3
    <3>2. D[h] =< D[q[m]] /\ C[q[m]] = D[q[m]] /\ D[q[m]] \in Nat
      BY <1>6, <1>7, <1>15, <1>18, <3>1
    <3>3. C[p[m]] = D[q[m]]
      BY <3>1, <3>2
    <3>4. C[k] =< D[q[m]] + 1
      <4> DEFINE e == D[h]
                 c == C[k]
                 b == D[q[m]]
      <4>1. e \in Nat /\ c \in Nat /\ b \in Nat /\ c =< e + 1 /\ e =< b
        BY <1>7, <2>1, <3>2
      <4> HIDE DEF e, c, b
      <4>2. c =< b + 1
        BY <4>1
      <4> QED BY <4>2 DEF c, b
    <3> QED BY <3>3, <3>4
  <2> QED BY <2>2, <2>3
<1>19. ASSUME NEW m \in 1 .. Len(p), NEW j \in 1 .. Len(p), m =< j, p[m] # 1, p[j] # 1
       PROVE  C[p[m]] =< C[p[j]]
  <2>1. CASE j \in 1 .. Len(q)
    <3>1. m \in 1 .. Len(q) /\ p[m] = q[m] /\ p[j] = q[j] /\ q[m] \in Known(R) /\ q[j] \in Known(R)
      BY <1>1, <1>2, <1>19, <2>1
    <3>2. D[q[m]] =< D[q[j]]
      BY <1>12, <1>19, <2>1, <3>1
    <3> QED BY <1>7, <3>1, <3>2
  <2>2. CASE j = Len(q) + 1 /\ m \in 1 .. Len(q)
    <3>1. p[m] = q[m] /\ p[j] = t /\ q[m] \in Known(R) /\ t # 1
      BY <1>2, <1>19, <2>2
    <3>2. D[q[m]] =< D[h] + 1
      BY <1>14, <3>1
    <3> QED BY <1>7, <3>1, <3>2
  <2>3. CASE j = Len(q) + 1 /\ m = Len(q) + 1
    BY <1>2, <1>7, <2>3
  <2> QED BY <1>1, <1>2, <2>1, <2>2, <2>3
<1>20. Expanded(S, C, E, 1) \/ (p[1] = 1 /\ \A k \in Known(S) : C[k] =< 1)
  <2>1. CASE Expanded(R, D, E, 1)
    BY <1>1, <1>9, <2>1
  <2>2. CASE h = 1 /\ \A k \in Known(R) : D[k] =< 1
    BY <1>2, <1>3, <1>6, <1>7, <2>2
  <2> QED BY <1>13, <2>1, <2>2
<1>21. QueueInv(S, C, E, F \cup {a}, p)
  BY <1>2, <1>16, <1>17, <1>18, <1>19, <1>20 DEF QueueInv
<1> QED BY <1>4, <1>8, <1>21 DEF Searching, S, p

\* A node that is met again is not too deep.
LEMMA NodeIsKnown ==
  ASSUME NEW R, NEW W, NEW E, NEW F, NEW a \in E,
         NEW q \in Seq(Node), q # <<>>, q[1] \in Known(R), MulMod(q[1], a) \in Met(R),
         Searching(R, W, E, F, q)
  PROVE  Searching(R, W, E, F \cup {a}, q)
<1> DEFINE t == MulMod(q[1], a)
<1>1. PICK D : IsDepth(D, R, W) /\ QueueInv(R, D, E, F, q)
  BY DEF Searching
<1>2. D[1] = 0 /\ Len(q) \in Nat /\ Len(q) >= 1 /\ t \in Known(R)
  BY <1>1 DEF IsDepth, Known
<1>3. D[t] =< D[q[1]] + 1
  <2>1. CASE q[1] # 1
    BY <1>1, <1>2, <2>1 DEF QueueInv
  <2>2. CASE q[1] = 1 /\ Expanded(R, D, E, 1)
    BY <2>2 DEF Expanded
  <2>3. CASE q[1] = 1 /\ ~ Expanded(R, D, E, 1)
    <3>1. D[t] =< 1
      BY <1>1, <1>2, <2>3 DEF QueueInv
    <3> QED BY <1>2, <2>3, <3>1
  <2> QED BY <2>1, <2>2, <2>3
<1>4. Expanded(R, D, F \cup {a}, q[1])
  BY <1>1, <1>3 DEF QueueInv, Expanded
<1>5. QueueInv(R, D, E, F \cup {a}, q)
  BY <1>1, <1>4 DEF QueueInv
<1> QED BY <1>1, <1>5 DEF Searching

\* When all edges of the head are done it leaves the queue.
LEMMA NodeIsPopped ==
  ASSUME NEW R, NEW W, NEW E, NEW q \in Seq(Node), q # <<>>, Searching(R, W, E, E, q)
  PROVE  Searching(R, W, E, {}, Tail(q))
<1> DEFINE p == Tail(q)
<1>1. PICK D : IsDepth(D, R, W) /\ QueueInv(R, D, E, E, q)
  BY DEF Searching
<1>2. /\ Len(q) \in Nat /\ Len(q) >= 1 /\ Len(p) = Len(q) - 1
      /\ \A m \in 1 .. Len(p) : m + 1 \in 1 .. Len(q) /\ p[m] = q[m + 1]
      /\ \A m \in 1 .. Len(q) : m # 1 => m - 1 \in 1 .. Len(p) /\ p[m - 1] = q[m]
  OBVIOUS
<1> HIDE DEF p
<1>3. Expanded(R, D, E, q[1])
  BY <1>1 DEF QueueInv
<1>4. ASSUME NEW k \in Known(R)
      PROVE  (\E m \in 1 .. Len(p) : p[m] = k) \/ Expanded(R, D, E, k)
  <2>1. CASE \E m \in 1 .. Len(q) : q[m] = k
    BY <1>2, <1>3, <2>1
  <2>2. CASE Expanded(R, D, E, k)
    BY <2>2
  <2> QED BY <1>1, <2>1, <2>2 DEF QueueInv
<1>5. p # <<>> => Expanded(R, D, {}, p[1])
  BY DEF Expanded
<1>6. \A m \in 1 .. Len(p) : p[m] # 1 => \A k \in Known(R) : D[k] =< D[p[m]] + 1
  BY <1>1, <1>2 DEF QueueInv
<1>7. ASSUME NEW m \in 1 .. Len(p), NEW j \in 1 .. Len(p), m =< j, p[m] # 1, p[j] # 1
      PROVE  D[p[m]] =< D[p[j]]
  <2>1. m + 1 =< j + 1
    BY <1>2, <1>7
  <2> QED BY <1>1, <1>2, <1>7, <2>1 DEF QueueInv
<1>8. Expanded(R, D, E, 1)
  BY <1>1, <1>3 DEF QueueInv
<1>9. QueueInv(R, D, E, {}, p)
  BY <1>4, <1>5, <1>6, <1>7, <1>8 DEF QueueInv
<1> QED BY <1>1, <1>9 DEF Searching, p

LEMMA SearchIsOver ==
  ASSUME NEW R, NEW W, NEW E, NEW F, Searching(R, W, E, F, <<>>)
  PROVE  Finished(R, W, E)
<1>1. PICK D : IsDepth(D, R, W) /\ QueueInv(R, D, E, F, <<>>)
  BY DEF Searching
<1>2. Len(<<>>) = 0
  OBVIOUS
<1>3. \A k \in Known(R) : Expanded(R, D, E, k)
  BY <1>1, <1>2 DEF QueueInv
<1> QED BY <1>1, <1>3 DEF Finished, Searching

\* The rows no search is working on are finished, for the matrices there were when they
\* were computed; the one a search is working on is as far as its queue says.
RowsInv ==
  \A id \in 0 .. Len(keySwitchMap) - 1 : Row(id) # <<>> /\ ~ (op = "bfs" /\ key = id) =>
    Finished(Row(id), keySwitching, Exponents(id, seen[id]))

QueueRight ==
  op = "bfs" => Searching(Row(key), keySwitching, Exponents(key, Len(keySwitching)),
                          Exponents(key, edge - 1), queue)

MapInv == RowsInv /\ QueueRight

LEMMA RowTypes ==
  ASSUME IInv, NEW id \in 0 .. Len(keySwitchMap) - 1
  PROVE  /\ id \in KeyId /\ seen[id] \in -1 .. Len(keySwitching)
         /\ Row(id) # <<>> => /\ Row(id) \in [Node -> Nat] /\ DOMAIN Row(id) = Node
                              /\ \A k \in Met(Row(id)) : Row(id)[k] \in 1 .. Len(keySwitching)
<1>1. /\ Len(keySwitchMap) \in Nat /\ Len(keySwitchMap) =< nKeys /\ nKeys \in 0 .. MaxKeys
      /\ keySwitchMap \in Seq(Rows \cup {<<>>}) /\ Len(keySwitching) \in Nat
      /\ seen \in [KeyId -> -1 .. Len(keySwitching)]
  BY DEF IInv, TypeOK
<1>2. id \in KeyId
  BY <1>1, BoundsAssumption DEF KeyId
<1>3. Row(id) \in Rows \cup {<<>>}
  BY <1>1 DEF Row
<1>4. ASSUME Row(id) \in Rows
      PROVE  /\ Row(id) \in [Node -> Nat] /\ DOMAIN Row(id) = Node
             /\ \A k \in Met(Row(id)) : Row(id)[k] \in 1 .. Len(keySwitching)
  BY <1>1, <1>4 DEF Rows, Met, None
<1> QED BY <1>1, <1>2, <1>3, <1>4

LEMMA ExponentsAreUnits ==
  ASSUME IInv, NEW id, NEW n \in -1 .. Len(keySwitching)
  PROVE  Exponents(id, n) \in SUBSET Units /\ Exponents(id, n) \in SUBSET Nat
<1>1. Len(keySwitching) \in Nat
  BY DEF IInv, TypeOK
<1>2. \A l \in 1 .. n : keySwitching[l].from.x \in Units
  BY <1>1 DEF IInv, MatricesExist
<1>3. Units \in SUBSET Nat
  BY DEF Units, Node
<1> QED BY <1>2, <1>3 DEF Exponents

\* A row stays finished when the list of matrices grows.
LEMMA RowStaysFinished ==
  ASSUME IInv, NEW id \in 0 .. Len(keySwitchMap) - 1, Row(id) # <<>>,
         Finished(Row(id), keySwitching, Exponents(id, seen[id])),
         \A n \in 1 .. Len(keySwitching) : keySwitching'[n] = keySwitching[n]
  PROVE  Finished(Row(id), keySwitching', Exponents(id, seen[id]))
<1> DEFINE R == Row(id)
           E == Exponents(id, seen[id])
           V == keySwitching
           W == keySwitching'
<1>1. \A k \in Met(R) : W[R[k]] = V[R[k]]
  BY RowTypes
<1> HIDE DEF R, E, V, W
<1>2. Finished(R, V, E)
  BY DEF R, V, E
<1>3. PICK D : IsDepth(D, R, V) /\ \A k \in Known(R) : Expanded(R, D, E, k)
  BY <1>2 DEF Finished
<1>4. IsDepth(D, R, W)
  BY <1>1, <1>3 DEF IsDepth
<1>5. Finished(R, W, E)
  BY <1>2, <1>3, <1>4 DEF Finished
<1> QED BY <1>5 DEF R, W, E

\* Exponents looks at the first n matrices only.
LEMMA SameExponents ==
  ASSUME NEW id, NEW n \in Int,
         \A l \in 1 .. n : keySwitching'[l] = keySwitching[l]
  PROVE  /\ {keySwitching'[j].from.x : j \in {l \in 1 .. n : IsEdge(l, id)'}} = Exponents(id, n)
         /\ Exponents(id, n)' = Exponents(id, n)
<1>1. \A l \in 1 .. n : IsEdge(l, id)' <=> IsEdge(l, id)
  BY DEF IsEdge
<1>2. {l \in 1 .. n : IsEdge(l, id)'} = {l \in 1 .. n : IsEdge(l, id)}
  BY <1>1
<1>3. {keySwitching'[j].from.x : j \in {l \in 1 .. n : IsEdge(l, id)'}} = Exponents(id, n)
  BY <1>2 DEF Exponents
<1> QED BY <1>3 DEF Exponents

\* Steps outside of a search, which only add matrices.
LEMMA MapKept ==
  ASSUME IInv, MapInv, op # "bfs", op' # "bfs", UNCHANGED <<keySwitchMap, seen>>,
         \A n \in 1 .. Len(keySwitching) : keySwitching'[n] = keySwitching[n]
  PROVE  MapInv'
<1>1. ASSUME NEW id \in 0 .. Len(keySwitchMap) - 1, Row(id) # <<>>
      PROVE  Finished(Row(id)', keySwitching', Exponents(id, seen[id])')
  <2>1. Finished(Row(id), keySwitching, Exponents(id, seen[id]))
    BY <1>1 DEF MapInv, RowsInv
  <2>2. seen[id] \in -1 .. Len(keySwitching) /\ Len(keySwitching) \in Nat
    BY RowTypes DEF IInv, TypeOK
  <2>3. seen[id] \in Int /\ \A l \in 1 .. seen[id] : keySwitching'[l] = keySwitching[l]
    BY <2>2
  <2>4. seen'[id] = seen[id] /\ Row(id)' = Row(id)
    BY DEF Row
  <2>5. Exponents(id, seen[id])' = Exponents(id, seen[id])
    BY <2>3, <2>4, SameExponents DEF Exponents
  <2>6. Finished(Row(id), keySwitching', Exponents(id, seen[id]))
    BY <1>1, <2>1, RowStaysFinished
  <2> QED BY <2>4, <2>5, <2>6
<1>2. RowsInv'
  BY <1>1 DEF RowsInv, Row
<1>3. QueueRight'
  BY DEF QueueRight
<1> QED BY <1>2, <1>3 DEF MapInv

\* A row is emptied: the others stay as they are.
LEMMA MapWhenSearchBegins ==
  ASSUME IInv, MapInv, op # "bfs", NEW id \in KeyId, id < nKeys, BeginSearch(id)
  PROVE  MapInv'
<1> DEFINE n == IF HasRow(id) THEN Len(keySwitchMap) ELSE id + 1
           row(r) == IF r = id + 1 THEN EmptyRow
                     ELSE IF r =< Len(keySwitchMap) THEN keySwitchMap[r] ELSE <<>>
<1>0. /\ Len(keySwitchMap) \in Nat /\ id \in Nat /\ Len(keySwitching) \in Nat
      /\ keySwitchMap \in Seq(Rows \cup {<<>>})
  BY BoundsAssumption DEF IInv, TypeOK, KeyId
<1>1. /\ keySwitchMap' = [r \in 1 .. n |-> row(r)]
      /\ op' = "bfs" /\ key' = id /\ queue' = <<1>> /\ edge' = 1
      /\ UNCHANGED <<nKeys, keySwitching, seen>>
  BY DEF BeginSearch
<1>2. n \in Nat /\ id + 1 \in 1 .. n /\ Len(keySwitchMap) =< n
  BY <1>0 DEF HasRow
<1> HIDE DEF n
<1>3. Len(keySwitchMap') = n
  <2> HIDE DEF row
  <2> QED BY <1>1, <1>2
<1>4. \A i \in 0 .. n - 1 : Row(i)' = row(i + 1)
  BY <1>1, <1>2 DEF Row
<1>5. RowsInv'
  <2> SUFFICES ASSUME NEW i \in 0 .. n - 1, Row(i)' # <<>>, ~ (key' = i)
               PROVE  Finished(Row(i)', keySwitching', Exponents(i, seen[i])')
    BY <1>1, <1>3 DEF RowsInv
  <2>1. i + 1 =< Len(keySwitchMap) /\ Row(i)' = Row(i) /\ i \in 0 .. Len(keySwitchMap) - 1
    BY <1>0, <1>1, <1>2, <1>4 DEF Row
  <2>2. Finished(Row(i), keySwitching, Exponents(i, seen[i]))
    BY <2>1 DEF MapInv, RowsInv
  <2>3. Exponents(i, seen[i])' = Exponents(i, seen[i])
    BY <1>1 DEF Exponents, IsEdge
  <2> QED BY <1>1, <2>1, <2>2, <2>3
<1>6. QueueRight'
  <2>1. Row(key)' = EmptyRow
    <3>1. id \in 0 .. n - 1 /\ row(id + 1) = EmptyRow
      BY <1>0, <1>2
    <3>2. Row(id)' = EmptyRow
      BY <1>4, <3>1
    <3> QED BY <1>1, <3>2 DEF Row
  <2>2. Exponents(key, edge - 1)' = {}
    <3>1. edge' - 1 = 0
      BY <1>1
    <3>2. Exponents(key, edge - 1)' = {keySwitching'[j].from.x : j \in {l \in 1 .. 0 : IsEdge(l, key)'}}
      BY <3>1 DEF Exponents
    <3> QED BY <3>2
  <2>3. Searching(EmptyRow, keySwitching', Exponents(key, Len(keySwitching))', {}, <<1>>)
    BY SearchStarts
  <2> QED BY <1>1, <2>1, <2>2, <2>3 DEF QueueRight
<1> QED BY <1>5, <1>6 DEF MapInv

\* After a matrix of the row a walk is at a node that is known.
LEMMA LeadsToKnown ==
  ASSUME IInv, NEW id \in 0 .. Len(keySwitchMap) - 1, Row(id) # <<>>, NEW j \in Met(Row(id))
  PROVE  /\ After(j, id) \in Known(Row(id))
         /\ MulMod(j, InvMod(keySwitching[Row(id)[j]].from.x)) \in Known(Row(id))
<1>1. j \in DOMAIN Row(id) /\ Row(id)[j] # None
  BY RowTypes DEF Met
<1>2. /\ j \in Units
      /\ \E x \in Units : keySwitching[Row(id)[j]] = [from |-> Handle(1, x, id), to |-> id]
      /\ After(j, id) = 1 \/ Row(id)[After(j, id)] # None
  BY <1>1 DEF IInv, MapLeadsHome
<1>3. keySwitching[Row(id)[j]].from.x \in Units
  BY <1>2 DEF Handle
<1>4. After(j, id) \in Node
  <2>1. j \in Nat /\ InvMod(keySwitching[Row(id)[j]].from.x) \in Nat
    BY <1>2, <1>3, InvModOfUnit
  <2> QED BY <2>1, MulModInNode DEF After
<1>5. After(j, id) \in Known(Row(id))
  BY <1>2, <1>4 DEF Known, Met
<1> QED BY <1>5 DEF After

\* What the search knows of its row.
LEMMA SearchTypes ==
  ASSUME IInv, op = "bfs"
  PROVE  /\ key \in 0 .. Len(keySwitchMap) - 1 /\ key \in Nat /\ key \in KeyId
         /\ Row(key) \in [Node -> Nat] /\ Row(key) # <<>>
         /\ queue \in Seq(Node) /\ \A n \in 1 .. Len(queue) : queue[n] \in Known(Row(key))
         /\ edge - 1 \in 0 .. Len(keySwitching) /\ Len(keySwitching) \in 0 .. Len(keySwitching)
         /\ Len(keySwitching) \in Nat /\ edge \in Nat
         /\ \A k \in Met(Row(key)) \ {1} :
              MulMod(k, InvMod(keySwitching[Row(key)[k]].from.x)) \in Known(Row(key))
<1>1. /\ key \in KeyId /\ key \in Nat /\ Len(keySwitchMap) \in Nat /\ Len(keySwitching) \in Nat
      /\ queue \in Seq(Node) /\ edge \in 1 .. Len(keySwitching) + 1
  BY BoundsAssumption DEF IInv, TypeOK, KeyId
<1>2. key \in 0 .. Len(keySwitchMap) - 1
  BY <1>1 DEF IInv, SearchInv, HasRow
<1>3. Row(key) \in Rows /\ Row(key) \in [Node -> Nat]
  BY <1>1 DEF IInv, SearchInv, Rows
<1>4. Row(key) # <<>>
  BY <1>3, EmptyRowHasNoEntries, OneIsUnit DEF Units
<1>5. ASSUME NEW n \in 1 .. Len(queue) PROVE queue[n] \in Known(Row(key))
  <2>1. queue[n] \in Units /\ (queue[n] = 1 \/ Row(key)[queue[n]] # None)
    BY DEF IInv, SearchInv
  <2> QED BY <2>1 DEF Known, Met, Units
<1>6. ASSUME NEW k \in Met(Row(key))
      PROVE  MulMod(k, InvMod(keySwitching[Row(key)[k]].from.x)) \in Known(Row(key))
  BY <1>2, <1>4, LeadsToKnown
<1>7. edge - 1 \in 0 .. Len(keySwitching) /\ Len(keySwitching) \in 0 .. Len(keySwitching) /\ edge \in Nat
  BY <1>1
<1> QED BY <1>1, <1>2, <1>3, <1>4, <1>5, <1>6, <1>7

\* The rows other than the one of the search do not notice a step of it.
LEMMA OtherRows ==
  ASSUME IInv, MapInv, op = "bfs", op' = "bfs", key' = key, UNCHANGED <<keySwitching, seen>>,
         Len(keySwitchMap') = Len(keySwitchMap),
         \A id \in 0 .. Len(keySwitchMap) - 1 : id # key => Row(id)' = Row(id)
  PROVE  RowsInv'
<1> SUFFICES ASSUME NEW id \in 0 .. Len(keySwitchMap) - 1, Row(id)' # <<>>, id # key
             PROVE  Finished(Row(id)', keySwitching', Exponents(id, seen[id])')
  BY DEF RowsInv
<1>1. Row(id)' = Row(id)
  OBVIOUS
<1>2. Finished(Row(id), keySwitching, Exponents(id, seen[id]))
  BY <1>1 DEF MapInv, RowsInv
<1>3. Exponents(id, seen[id])' = Exponents(id, seen[id])
  BY DEF Exponents, IsEdge
<1> QED BY <1>1, <1>2, <1>3

LEMMA MapAfterSearchEdge ==
  ASSUME IInv, MapInv, SearchEdge
  PROVE  MapInv'
<1> DEFINE R == Row(key)
           E == Exponents(key, Len(keySwitching))
           F == Exponents(key, edge - 1)
           G == Exponents(key, edge)
           a == keySwitching[edge].from.x
<1>1. /\ op = "bfs" /\ queue # <<>> /\ edge =< Len(keySwitching) /\ edge' = edge + 1
      /\ UNCHANGED <<nKeys, keySwitching, op, key, cursor, threw, seen>>
  BY DEF SearchEdge
<1>2. /\ key \in 0 .. Len(keySwitchMap) - 1 /\ key \in Nat
      /\ R \in [Node -> Nat]
      /\ queue \in Seq(Node) /\ \A n \in 1 .. Len(queue) : queue[n] \in Known(R)
      /\ edge - 1 \in 0 .. Len(keySwitching)
      /\ Len(keySwitching) \in Nat /\ edge \in Nat
      /\ \A k \in Met(R) \ {1} : MulMod(k, InvMod(keySwitching[R[k]].from.x)) \in Known(R)
  BY <1>1, SearchTypes
<1>3. E \in SUBSET Nat /\ F \in SUBSET E
  <2>1. E \in SUBSET Nat
    <3>1. Len(keySwitching) \in 0 .. Len(keySwitching)
      BY <1>2
    <3> QED BY <3>1, ExponentsAreUnits
  <2>2. \A l \in 1 .. edge - 1 : l \in 1 .. Len(keySwitching)
    BY <1>2
  <2>3. F \subseteq E
    BY <2>2 DEF Exponents
  <2> QED BY <2>1, <2>3
<1>4. Searching(R, keySwitching, E, F, queue)
  BY <1>1 DEF MapInv, QueueRight
<1>5. edge \in 1 .. edge /\ edge \in 1 .. Len(keySwitching) /\ \A l \in 1 .. edge : l = edge \/ l \in 1 .. edge - 1
  BY <1>1, <1>2
<1>6. IsEdge(edge, key) => G = F \cup {a} /\ a \in E
  BY <1>2, <1>5 DEF Exponents
<1>7. ~ IsEdge(edge, key) => G = F
  BY <1>2, <1>5 DEF Exponents
<1>8. /\ Exponents(key, edge - 1)' = G
      /\ Exponents(key, Len(keySwitching))' = E
  <2>1. edge' - 1 = edge
    BY <1>1, <1>2
  <2> QED BY <1>1, <2>1 DEF Exponents, IsEdge
<1>9. Target = MulMod(queue[1], a) /\ Len(queue) \in Nat /\ 1 \in 1 .. Len(queue)
  BY <1>1, <1>2 DEF Target
<1> HIDE DEF R, E, F, G, a
<1>10. CASE ~ IsNew
  <2>1. UNCHANGED <<keySwitchMap, queue>>
    BY <1>10 DEF SearchEdge
  <2>2. Row(key)' = R /\ \A id \in 0 .. Len(keySwitchMap) - 1 : Row(id)' = Row(id)
    BY <1>1, <2>1 DEF Row, R
  <2>3. Searching(R, keySwitching, E, G, queue)
    <3>1. CASE ~ IsEdge(edge, key)
      BY <1>4, <1>7, <3>1
    <3>2. CASE IsEdge(edge, key)
      <4>1. MulMod(queue[1], a) \in Met(R)
        <5>1. Target \in Node
          BY <1>1, <3>2, NodeIsMet DEF Units
        <5>2. R[Target] # None
          BY <1>10, <3>2 DEF IsNew, R
        <5> QED BY <1>9, <5>1, <5>2 DEF Met
      <4>2. queue[1] \in Known(R)
        BY <1>2, <1>9
      <4>3. a \in E /\ G = F \cup {a}
        BY <1>6, <3>2
      <4>4. Searching(R, keySwitching, E, F \cup {a}, queue)
        BY <1>1, <1>2, <1>4, <4>1, <4>2, <4>3, NodeIsKnown
      <4> QED BY <4>3, <4>4
    <3> QED BY <3>1, <3>2
  <2>4. QueueRight'
    BY <1>1, <1>8, <2>1, <2>2, <2>3 DEF QueueRight
  <2>5. RowsInv'
    BY <1>1, <2>1, <2>2, OtherRows
  <2> QED BY <2>4, <2>5 DEF MapInv
<1>11. CASE IsNew
  <2> DEFINE t == Target
  <2>1. IsEdge(edge, key) /\ R[t] = None
    BY <1>11 DEF IsNew, R
  <2>2. /\ t \in Node /\ a \in Units /\ MulMod(t, InvMod(a)) = queue[1]
    BY <1>1, <1>2, <2>1, NodeIsMet DEF Units, a
  <2>3. queue' = Append(queue, t) /\ keySwitchMap' = [keySwitchMap EXCEPT ![key + 1][t] = edge]
    BY <1>11 DEF SearchEdge
  <2>4. a \in E /\ G = F \cup {a}
    BY <1>6, <2>1
  <2>5. t = MulMod(queue[1], a)
    BY <1>9
  <2> HIDE DEF t
  <2>6. keySwitchMap \in Seq(Rows \cup {<<>>}) /\ Len(keySwitchMap) \in Nat
    BY DEF IInv, TypeOK
  <2>7. key + 1 \in 1 .. Len(keySwitchMap) /\ R = keySwitchMap[key + 1]
    BY <1>2, <2>6 DEF R, Row
  <2>8. keySwitchMap' = [keySwitchMap EXCEPT ![key + 1] = [R EXCEPT ![t] = edge]]
    BY <2>3, <2>7
  <2>9. /\ Len(keySwitchMap') = Len(keySwitchMap)
        /\ keySwitchMap'[key + 1] = [R EXCEPT ![t] = edge]
        /\ \A i \in 1 .. Len(keySwitchMap) : i # key + 1 => keySwitchMap'[i] = keySwitchMap[i]
    <3> DEFINE new == [R EXCEPT ![t] = edge]
    <3>1. keySwitchMap' = [keySwitchMap EXCEPT ![key + 1] = new]
      BY <2>8
    <3> HIDE DEF new
    <3>2. Len(keySwitchMap') = Len(keySwitchMap) /\ keySwitchMap'[key + 1] = new
          /\ \A i \in 1 .. Len(keySwitchMap) : i # key + 1 => keySwitchMap'[i] = keySwitchMap[i]
      BY <2>6, <2>7, <3>1
    <3> QED BY <3>2 DEF new
  <2>10. /\ Row(key)' = [R EXCEPT ![t] = edge]
         /\ \A id \in 0 .. Len(keySwitchMap) - 1 : id # key => Row(id)' = Row(id)
    <3>1. Row(key)' = [R EXCEPT ![t] = edge]
      BY <1>1, <2>9 DEF Row
    <3>2. ASSUME NEW id \in 0 .. Len(keySwitchMap) - 1, id # key PROVE Row(id)' = Row(id)
      <4>1. id + 1 \in 1 .. Len(keySwitchMap) /\ id + 1 # key + 1
        BY <1>2, <2>6, <3>2
      <4> QED BY <2>9, <4>1 DEF Row
    <3> QED BY <3>1, <3>2
  <2>11. edge \in Nat /\ edge # None /\ keySwitching[edge].from.x = a
    BY <1>5, <1>2 DEF None, a
  <2>12. Searching([R EXCEPT ![t] = edge], keySwitching, E, F \cup {a}, Append(queue, t))
    BY <1>1, <1>2, <1>3, <1>4, <2>1, <2>2, <2>4, <2>5, <2>11, NodeIsEntered
  <2>13. QueueRight'
    BY <1>1, <1>8, <2>3, <2>4, <2>10, <2>12 DEF QueueRight
  <2>14. RowsInv'
    BY <1>1, <2>9, <2>10, OtherRows
  <2> QED BY <2>13, <2>14 DEF MapInv
<1> QED BY <1>10, <1>11

LEMMA MapAfterSearchPop ==
  ASSUME IInv, MapInv, SearchPop
  PROVE  MapInv'
<1> DEFINE R == Row(key)
           E == Exponents(key, Len(keySwitching))
<1>1. /\ op = "bfs" /\ queue # <<>> /\ edge > Len(keySwitching) /\ queue' = Tail(queue) /\ edge' = 1
      /\ UNCHANGED <<nKeys, keySwitching, keySwitchMap, op, key, cursor, threw, seen>>
  BY DEF SearchPop, keys
<1>2. queue \in Seq(Node) /\ edge - 1 = Len(keySwitching)
  <2>1. Len(keySwitching) \in Nat /\ edge - 1 \in 0 .. Len(keySwitching) /\ edge \in Nat
        /\ queue \in Seq(Node)
    BY <1>1, SearchTypes
  <2> QED BY <1>1, <2>1
<1>3. Searching(R, keySwitching, E, E, queue)
  BY <1>1, <1>2 DEF MapInv, QueueRight
<1>4. Row(key)' = R /\ Exponents(key, Len(keySwitching))' = E
      /\ \A id \in 0 .. Len(keySwitchMap) - 1 : Row(id)' = Row(id)
  BY <1>1 DEF Row, Exponents, IsEdge
<1>5. Exponents(key, edge - 1)' = {}
  <2>1. edge' - 1 = 0
    BY <1>1
  <2>2. Exponents(key, edge - 1)' = {keySwitching'[j].from.x : j \in {l \in 1 .. 0 : IsEdge(l, key)'}}
    BY <2>1 DEF Exponents
  <2> QED BY <2>2
<1> HIDE DEF R, E
<1>6. Searching(R, keySwitching, E, {}, Tail(queue))
  BY <1>1, <1>2, <1>3, NodeIsPopped
<1>7. QueueRight'
  BY <1>1, <1>4, <1>5, <1>6 DEF QueueRight
<1>8. RowsInv'
  BY <1>1, <1>4, OtherRows
<1> QED BY <1>7, <1>8 DEF MapInv

LEMMA MapAfterSearchEnd ==
  ASSUME IInv, MapInv, SearchEnd
  PROVE  MapInv'
<1>1. /\ op = "bfs" /\ queue = <<>> /\ op' = "idle" /\ key \in KeyId
      /\ UNCHANGED <<nKeys, keySwitching, keySwitchMap>>
      /\ seen' = [seen EXCEPT ![key] = Len(keySwitching)] /\ seen \in [KeyId -> -1 .. Len(keySwitching)]
  BY DEF SearchEnd, keys, IInv, TypeOK
<1>2. ASSUME NEW id \in 0 .. Len(keySwitchMap) - 1, Row(id) # <<>>
      PROVE  Finished(Row(id), keySwitching, Exponents(id, seen'[id]))
  <2>1. CASE id = key
    <3>1. Searching(Row(key), keySwitching, Exponents(key, Len(keySwitching)),
                    Exponents(key, edge - 1), <<>>)
      BY <1>1 DEF MapInv, QueueRight
    <3>2. Finished(Row(key), keySwitching, Exponents(key, Len(keySwitching)))
      BY <3>1, SearchIsOver
    <3>3. seen'[key] = Len(keySwitching)
      BY <1>1
    <3> QED BY <2>1, <3>2, <3>3
  <2>2. CASE id # key
    <3>1. id \in KeyId
      BY RowTypes
    <3>2. seen'[id] = seen[id]
      BY <1>1, <2>2, <3>1
    <3>3. Finished(Row(id), keySwitching, Exponents(id, seen[id]))
      BY <1>2, <2>2 DEF MapInv, RowsInv
    <3> QED BY <3>2, <3>3
  <2> QED BY <2>1, <2>2
<1>3. \A id \in 0 .. Len(keySwitchMap) - 1 :
        Row(id)' = Row(id) /\ Exponents(id, seen[id])' = Exponents(id, seen'[id])
  BY <1>1 DEF Row, Exponents, IsEdge
<1>4. RowsInv'
  BY <1>1, <1>2, <1>3 DEF RowsInv
<1>5. QueueRight'
  BY <1>1 DEF QueueRight
<1> QED BY <1>4, <1>5 DEF MapInv

\* The steps that may add matrices leave those that are there alone.
LEMMA ListIsKept ==
  ASSUME IInv, NEW s \in Nat, NEW x \in Nat, NEW from \in KeyId, NEW to \in KeyId,
         keySwitching' = Generated(Handle(s, x, from), to) \/ keySwitching' = keySwitching
  PROVE  \A n \in 1 .. Len(keySwitching) : keySwitching'[n] = keySwitching[n]
<1>1. keySwitching \in Seq(Matrices) /\ Len(keySwitching) \in Nat
  BY DEF IInv, TypeOK
<1>2. CASE keySwitching' = keySwitching
  BY <1>2
<1>3. CASE keySwitching' = Append(keySwitching, [from |-> Handle(s, x, from), to |-> to])
           /\ [from |-> Handle(s, x, from), to |-> to] \in Matrices
  <2> DEFINE w == [from |-> Handle(s, x, from), to |-> to]
  <2> HIDE DEF w
  <2>1. keySwitching' = Append(keySwitching, w) /\ w \in Matrices
    BY <1>3 DEF w
  <2> QED BY <1>1, <2>1
<1> QED BY <1>2, <1>3, GeneratedMatrix

LEMMA MapAfterImport ==
  ASSUME IInv, MapInv, NEW degree \in 1 .. MaxDegree, ImportSecKey(degree)
  PROVE  MapInv'
<1> DEFINE new == [e \in 1 .. degree - 1 |-> [from |-> Handle(e + 1, 1, nKeys), to |-> nKeys]]
<1>1. /\ op = "idle" /\ op' = op /\ UNCHANGED <<keySwitchMap, seen>>
      /\ keySwitching \in Seq(Matrices) /\ Len(keySwitching) \in Nat
  BY DEF ImportSecKey, IInv, TypeOK
<1>2. keySwitching' = keySwitching \o new
  BY DEF ImportSecKey
<1>3. new \in Seq(Matrices) /\ Len(new) \in Nat
  <2>1. /\ nKeys \in Nat /\ nKeys < MaxKeys /\ degree \in Nat /\ degree >= 1
    BY BoundsAssumption DEF IInv, TypeOK, ImportSecKey
  <2>2. \A e \in 1 .. degree - 1 : [from |-> Handle(e + 1, 1, nKeys), to |-> nKeys] \in Matrices
    BY <2>1, BoundsAssumption DEF Matrices, Handles, Handle, KeyId
  <2> QED BY <2>1, <2>2
<1> HIDE DEF new
<1>4. \A n \in 1 .. Len(keySwitching) : keySwitching'[n] = keySwitching[n]
  <2>1. \A n \in 1 .. Len(keySwitching) + Len(new) :
           keySwitching'[n] = IF n =< Len(keySwitching) THEN keySwitching[n]
                              ELSE new[n - Len(keySwitching)]
    BY <1>1, <1>2, <1>3, ConcatProperties
  <2> SUFFICES ASSUME NEW n \in 1 .. Len(keySwitching)
               PROVE  keySwitching'[n] = keySwitching[n]
    OBVIOUS
  <2>2. n \in 1 .. Len(keySwitching) + Len(new) /\ n =< Len(keySwitching)
    BY <1>1, <1>3
  <2> QED BY <2>1, <2>2
<1> QED BY <1>1, <1>4, MapKept

LEMMA NextPreservesMapInv == IInv /\ MapInv /\ [Next]_vars => MapInv'
<1> SUFFICES ASSUME IInv, MapInv, [Next]_vars PROVE MapInv'
  OBVIOUS
<1>1. ASSUME NEW degree \in 1 .. MaxDegree, ImportSecKey(degree) PROVE MapInv'
  BY <1>1, MapAfterImport
<1>2. ASSUME NEW s \in 0 .. MaxDegree, NEW x \in XPowers, NEW from \in KeyId, NEW to \in KeyId,
             GenKeySWmatrix(s, x, from, to)
      PROVE  MapInv'
  <2>1. s \in Nat /\ x \in Nat /\ op = "idle" /\ op' = op /\ UNCHANGED <<keySwitchMap, seen>>
    BY <1>2, BoundsAssumption DEF GenKeySWmatrix
  <2>2. keySwitching' = Generated(Handle(s, x, from), to)
    BY <1>2 DEF GenKeySWmatrix
  <2> QED BY <2>1, <2>2, ListIsKept, MapKept
<1>3. ASSUME NEW id \in KeyId, SetKeySwitchMap(id) PROVE MapInv'
  <2>1. CASE id < nKeys /\ BeginSearch(id)
    BY <1>3, <2>1, MapWhenSearchBegins DEF SetKeySwitchMap
  <2>2. CASE UNCHANGED <<keys, op, loop, seen>>
    BY <1>3, <2>2, MapKept DEF SetKeySwitchMap, keys
  <2> QED BY <1>3, <2>1, <2>2 DEF SetKeySwitchMap
<1>4. ASSUME NEW id \in KeyId, AddAllMatrices(id) PROVE MapInv'
  BY <1>4, MapKept DEF AddAllMatrices, keys
<1>5. CASE SearchEdge \/ SearchPop \/ SearchEnd
  BY <1>5, MapAfterSearchEdge, MapAfterSearchPop, MapAfterSearchEnd
<1>6. CASE AddNext
  <2>1. op = "addAll" /\ op' # "bfs" /\ cursor \in Nat /\ key \in KeyId /\ UNCHANGED <<keySwitchMap, seen>>
    BY <1>6, MAssumption DEF AddNext, IInv, TypeOK, LoopsInv
  <2>2. keySwitching' = Generated(Handle(1, cursor, key), key) \/ keySwitching' = keySwitching
    BY <1>6 DEF AddNext
  <2>3. \A n \in 1 .. Len(keySwitching) : keySwitching'[n] = keySwitching[n]
    BY <2>1, <2>2, ListIsKept
  <2> QED BY <2>1, <2>3, MapKept
<1>7. CASE AddDone
  <2>1. 0 \in KeyId /\ 0 < nKeys /\ op # "bfs" /\ BeginSearch(0)
    BY <1>7, BoundsAssumption DEF IInv, TypeOK, LoopsInv, AddDone, KeyId
  <2> QED BY <2>1, MapWhenSearchBegins
<1>8. CASE UNCHANGED vars
  <2>1. UNCHANGED <<nKeys, keySwitching, keySwitchMap, op, key, queue, edge, seen>>
    BY <1>8 DEF vars, keys, loop
  <2>2. \A id, n : Row(id)' = Row(id) /\ IsEdge(n, id)' = IsEdge(n, id)
    BY <2>1 DEF Row, IsEdge
  <2>3. /\ \A id : Exponents(id, seen[id])' = Exponents(id, seen[id])
        /\ Exponents(key, Len(keySwitching))' = Exponents(key, Len(keySwitching))
        /\ Exponents(key, edge - 1)' = Exponents(key, edge - 1)
    BY <2>1 DEF Exponents, IsEdge
  <2>4. RowsInv'
    BY <2>1, <2>2, <2>3 DEF MapInv, RowsInv
  <2>5. QueueRight'
    BY <2>1, <2>2, <2>3 DEF MapInv, QueueRight
  <2> QED BY <2>4, <2>5 DEF MapInv
<1> QED BY <1>1, <1>2, <1>3, <1>4, <1>5, <1>6, <1>7, <1>8 DEF Next, Calls, Steps

LEMMA InitEstablishesMapInv == Init => MapInv
<1> SUFFICES ASSUME Init PROVE MapInv
  OBVIOUS
<1>1. Len(keySwitchMap) = 0 /\ op # "bfs"
  BY DEF Init
<1>2. \A id \in 0 .. Len(keySwitchMap) - 1 : FALSE
  BY <1>1
<1> QED BY <1>1, <1>2 DEF MapInv, RowsInv, QueueRight

\* The products of d exponents are known, and their depth is at most d.
LEMMA ProductsAreMet ==
  ASSUME NEW R, NEW W, NEW E \in SUBSET Nat, NEW D, IsDepth(D, R, W),
         \A k \in Known(R) : Expanded(R, D, E, k)
  PROVE  \A d \in 1 .. M : \A k \in ProductsOf(E)[d] : k \in Met(R) /\ D[k] =< d
<1> DEFINE L == ProductsOf(E)
           S == {d \in 0 .. M : \A k \in L[d] : k \in Known(R) /\ D[k] =< d /\ (d # 0 => k \in Met(R))}
<1>1. M \in Nat
  BY MAssumption
<1>2. L[0] = {1} /\ \A d \in 1 .. M : \A t \in L[d] : \E k \in L[d - 1], a \in E : t = MulMod(k, a)
  BY ProductsGrow
<1> HIDE DEF L
<1>3. D[1] = 0 /\ \A k \in Known(R) : D[k] \in Nat
  BY MAssumption DEF IsDepth, Known, Met, Node
<1>4. 0 \in S
  BY <1>1, <1>2, <1>3 DEF Known
<1>5. ASSUME NEW d \in 1 .. M, d - 1 \in S PROVE d \in S
  <2>1. ASSUME NEW t \in L[d] PROVE t \in Known(R) /\ D[t] =< d /\ t \in Met(R)
    <3>1. PICK k \in L[d - 1], a \in E : t = MulMod(k, a)
      BY <1>2
    <3>2. k \in Known(R) /\ D[k] =< d - 1
      BY <1>5
    <3>3. t \in Met(R) /\ D[t] =< D[k] + 1
      BY <3>1, <3>2 DEF Expanded
    <3>4. t \in Known(R)
      BY <3>3 DEF Known
    <3> QED BY <1>3, <3>2, <3>3, <3>4
  <2>2. d \in 0 .. M
    OBVIOUS
  <2> QED BY <2>1, <2>2
<1>6. 0 .. M \subseteq S
  <2> HIDE DEF S
  <2> QED BY <1>1, <1>4, <1>5, UpwardInduction
<1> QED BY <1>6 DEF L

\* Along the row, the depth falls by one with each matrix.
LEMMA WalkGoesUp ==
  ASSUME IInv, NEW id \in 0 .. Len(keySwitchMap) - 1, Row(id) # <<>>,
         NEW D, IsDepth(D, Row(id), keySwitching), NEW k \in Met(Row(id))
  PROVE  \A d \in 0 .. M : Walk(k, id)[d] = 1 \/ (/\ Walk(k, id)[d] \in Met(Row(id))
                                                  /\ D[Walk(k, id)[d]] + d = D[k])
<1> DEFINE R == Row(id)
           A == Known(R)
           next(j) == IF j = 1 THEN 1 ELSE After(j, id)
           step == [j \in A |-> next(j)]
           Is(f) == f = [d \in 0 .. M |-> IF d = 0 THEN k ELSE
                                          IF f[d - 1] = 1 THEN 1 ELSE After(f[d - 1], id)]
<1>1. M \in Nat /\ k \in A /\ 1 \in A
  BY MAssumption DEF Known
<1>2. ASSUME NEW j \in A, j # 1 PROVE After(j, id) \in A /\ j \in Met(R)
  <2>1. j \in Met(R)
    BY <1>2 DEF Known
  <2> QED BY <2>1, LeadsToKnown
<1>3. step \in [A -> A]
  BY <1>1, <1>2
<1>4. PICK f : IsIteration(f, M, A, k, step)
  <2> HIDE DEF step, A
  <2> QED BY <1>1, <1>3, FiniteRecursion
<1>5. f \in [0 .. M -> A] /\ f[0] = k /\ \A d \in 1 .. M : f[d] = step[f[d - 1]]
  BY <1>4 DEF IsIteration
<1>6. Is(f)
  <2>1. ASSUME NEW d \in 0 .. M
        PROVE  f[d] = IF d = 0 THEN k ELSE IF f[d - 1] = 1 THEN 1 ELSE After(f[d - 1], id)
    <3>1. CASE d = 0
      BY <1>5, <3>1
    <3>2. CASE d # 0
      <4>1. d \in 1 .. M /\ d - 1 \in 0 .. M
        BY <1>1, <3>2
      <4>2. f[d - 1] \in A /\ f[d] = step[f[d - 1]]
        BY <1>5, <4>1
      <4> QED BY <3>2, <4>2
    <3> QED BY <3>1, <3>2
  <2> QED BY <1>5, <2>1
<1>7. Walk(k, id) = CHOOSE g : Is(g)
  BY DEF Walk
<1>8. Is(Walk(k, id))
  <2> HIDE DEF Is
  <2> QED BY <1>6, <1>7
<1> DEFINE g == Walk(k, id)
<1>9. \A d \in 0 .. M : g[d] = IF d = 0 THEN k ELSE IF g[d - 1] = 1 THEN 1 ELSE After(g[d - 1], id)
  BY <1>8
<1> HIDE DEF g, Is
<1> DEFINE S == {d \in 0 .. M : g[d] = 1 \/ (g[d] \in Met(R) /\ D[g[d]] + d = D[k])}
<1>10. D \in [Node -> Nat] /\ D[k] \in Nat /\ \A j \in A : D[j] \in Nat
  BY MAssumption DEF IsDepth, Known, Met, Node
<1>11. 0 \in S
  BY <1>1, <1>9, <1>10
<1>12. ASSUME NEW d \in 1 .. M, d - 1 \in S PROVE d \in S
  <2>1. d \in 0 .. M /\ d # 0 /\ g[d] = IF g[d - 1] = 1 THEN 1 ELSE After(g[d - 1], id)
    BY <1>9
  <2>2. CASE g[d - 1] = 1
    BY <2>1, <2>2
  <2>3. CASE g[d - 1] # 1
    <3>1. g[d - 1] \in Met(R) /\ D[g[d - 1]] + (d - 1) = D[k]
      BY <1>12, <2>3
    <3>2. g[d] = After(g[d - 1], id) /\ g[d] \in A
      BY <1>2, <2>1, <2>3, <3>1 DEF Known
    <3>3. D[g[d - 1]] = D[g[d]] + 1
      BY <2>3, <3>1, <3>2 DEF IsDepth, After
    <3>4. D[g[d]] \in Nat
      BY <1>10, <3>2
    <3>5. D[g[d]] + d = D[k]
      BY <1>10, <3>1, <3>3, <3>4
    <3> QED BY <2>1, <3>2, <3>5 DEF Known
  <2> QED BY <2>2, <2>3
<1>13. 0 .. M \subseteq S
  <2> HIDE DEF S
  <2> QED BY <1>1, <1>11, <1>12, UpwardInduction
<1> QED BY <1>13 DEF g

\* keys.cpp:89: the search of setKeySwitchMap() is a breadth-first search.  A row that is
\* not being computed has an entry for exactly the powers of X that the matrices known
\* when it was computed can bring back to X, and a walk along it takes the fewest.
THEOREM MapAlwaysRight == Spec => []MapRight
<1>1. Init => IInv /\ MapInv
  BY InitEstablishesIInv, InitEstablishesMapInv
<1>2. IInv /\ MapInv /\ [Next]_vars => IInv' /\ MapInv'
  BY NextPreservesIInv, NextPreservesMapInv
<1>3. ASSUME IInv, MapInv PROVE MapRight
  <2>1. ASSUME NEW id \in 0 .. Len(keySwitchMap) - 1, Row(id) # <<>>, ~ (op = "bfs" /\ key = id)
        PROVE  LET level == ProductsOf(Exponents(id, seen[id]))
               IN /\ \A k \in Node : Row(id)[k] # None <=> \E d \in 1 .. M : k \in level[d]
                  /\ \A k \in Node \ {1}, d \in 1 .. M :
                       Row(id)[k] # None /\ k \in level[d] => Walk(k, id)[d] = 1
    <3> DEFINE E == Exponents(id, seen[id])
               L == ProductsOf(E)
               R == Row(id)
    <3>1. Finished(R, keySwitching, E)
      BY <1>3, <2>1 DEF MapInv, RowsInv
    <3>2. E \in SUBSET Nat
      BY <1>3, RowTypes, ExponentsAreUnits
    <3> HIDE DEF E
    <3>3. PICK D : IsDepth(D, R, keySwitching) /\ \A k \in Known(R) : Expanded(R, D, E, k)
      BY <3>1 DEF Finished
    <3>4. \A d \in 1 .. M : \A k \in L[d] : k \in Met(R) /\ D[k] =< d
      BY <3>2, <3>3, ProductsAreMet
    <3>5. \A k \in Met(R) : \E d \in 1 .. Cardinality(Met(R)) : k \in L[d]
      BY <3>1 DEF Finished, OnlyProducts
    <3>6. Cardinality(Met(R)) \in Nat /\ Cardinality(Met(R)) =< M /\ M \in Nat
      BY MetIsFinite, MAssumption
    <3>7. ASSUME NEW k \in Node PROVE R[k] # None <=> \E d \in 1 .. M : k \in L[d]
      <4>1. ASSUME R[k] # None PROVE \E d \in 1 .. M : k \in L[d]
        <5>1. k \in Met(R)
          BY <4>1 DEF Met
        <5>2. PICK d \in 1 .. Cardinality(Met(R)) : k \in L[d]
          BY <3>5, <5>1
        <5>3. d \in 1 .. M
          BY <3>6
        <5> QED BY <5>2, <5>3
      <4>2. ASSUME NEW d \in 1 .. M, k \in L[d] PROVE R[k] # None
        BY <3>4, <4>2 DEF Met
      <4> QED BY <4>1, <4>2
    <3>8. ASSUME NEW k \in Node \ {1}, NEW d \in 1 .. M, R[k] # None, k \in L[d]
          PROVE  Walk(k, id)[d] = 1
      <4>1. k \in Met(R) /\ D[k] =< d
        BY <3>4, <3>8
      <4> DEFINE j == Walk(k, id)[d]
      <4>2. d \in 0 .. M
        BY <3>6
      <4>3. j = 1 \/ (j \in Met(R) /\ D[j] + d = D[k])
        BY <1>3, <2>1, <3>3, <4>1, <4>2, WalkGoesUp
      <4> HIDE DEF j
      <4>4. ASSUME j # 1 PROVE FALSE
        <5>1. j \in Met(R) \ {1} /\ D[j] + d = D[k]
          BY <4>3, <4>4
        <5> DEFINE i == MulMod(j, InvMod(keySwitching[R[j]].from.x))
        <5>2. D[j] = D[i] + 1 /\ D \in [Node -> Nat]
          BY <3>3, <5>1 DEF IsDepth
        <5>3. j \in Node /\ k \in Node
          BY <5>1 DEF Met
        <5>4. D[j] \in Nat /\ D[k] \in Nat
          BY <5>2, <5>3
        <5>5. D[j] = 0
          BY <4>1, <5>1, <5>4
        <5>6. i \in Known(R)
          BY <1>3, <2>1, <5>1, LeadsToKnown
        <5>7. i \in Node
          BY <5>6, MAssumption DEF Known, Met, Node
        <5>8. D[i] \in Nat
          BY <5>2, <5>7
        <5> HIDE DEF i
        <5> QED BY <5>2, <5>5, <5>8
      <4> QED BY <4>4 DEF j
    <3> QED BY <3>7, <3>8 DEF E
  <2>2. MapComplete
    BY <2>1 DEF MapComplete
  <2>3. ShortestWalks
    BY <2>1 DEF ShortestWalks
  <2> QED BY <2>2, <2>3 DEF MapRight
<1> QED BY <1>1, <1>2, <1>3, PTL DEF Spec
=============================================================================
