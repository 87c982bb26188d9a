-------------------------- MODULE CiphertextProofs --------------------------
(***************************************************************************)
(* Proofs about Ciphertext, for every ring, prime chain and number of      *)
(* ciphertexts, on top of those about its key-switching matrices.          *)
(***************************************************************************)
EXTENDS Ciphertext, SequenceTheorems, WellFoundedInduction, TLAPS

KP == INSTANCE KeySwitchingProofs

-----------------------------------------------------------------------------
(* What the key gives to a ciphertext.                                     *)

LEMMA SameConstants ==
  /\ Keys!Node = KP!Node /\ Keys!Units = KP!Units /\ Keys!KeyId = KP!KeyId
  /\ Keys!Handles = KP!Handles /\ Keys!Matrices = KP!Matrices
  /\ Keys!None = KP!None /\ Keys!Throws = KP!Throws
  /\ \A x, y : Keys!MulMod(x, y) = KP!MulMod(x, y)
  /\ \A x : Keys!InvMod(x) = KP!InvMod(x)
  /\ \A s, x, id : Keys!Handle(s, x, id) = KP!Handle(s, x, id)
  /\ \A id : Keys!Row(id) = KP!Row(id) /\ Keys!HasRow(id) = KP!HasRow(id)
BY DEF Keys!Node, KP!Node, Keys!Units, KP!Units, Keys!KeyId, KP!KeyId, Keys!Handles, KP!Handles,
       Keys!Matrices, KP!Matrices, Keys!None, KP!None, Keys!Throws, KP!Throws, Keys!MulMod,
       KP!MulMod, Keys!InvMod, KP!InvMod, Keys!IsInverse, KP!IsInverse, Keys!Handle, KP!Handle,
       Keys!Row, KP!Row, Keys!HasRow, KP!HasRow

LEMMA SameInit == Keys!Init <=> KP!Init
BY DEF Keys!Init, KP!Init, Keys!KeyId, KP!KeyId

LEMMA SameNext == Keys!Next <=> KP!Next
BY DEF Keys!Node, KP!Node, Keys!KeyId, KP!KeyId, Keys!IsInverse, KP!IsInverse, Keys!Units,
       KP!Units, Keys!InvMod, KP!InvMod, Keys!MulMod, KP!MulMod, Keys!Handle, KP!Handle,
       Keys!None, KP!None, Keys!Throws, KP!Throws, Keys!EmptyRow, KP!EmptyRow, Keys!HasRow,
       KP!HasRow, Keys!Row, KP!Row, Keys!Holds, KP!Holds, Keys!FirstOf, KP!FirstOf,
       Keys!AsksRow, KP!AsksRow, Keys!Probe, KP!Probe, Keys!HitsRow, KP!HitsRow,
       Keys!GetKeySWmatrix, KP!GetKeySWmatrix, Keys!Trivial, KP!Trivial,
       Keys!GenerationThrows, KP!GenerationThrows, Keys!Generated, KP!Generated,
       Keys!LeaveSearch, KP!LeaveSearch, Keys!LeaveLoop, KP!LeaveLoop, Keys!ImportSecKey,
       KP!ImportSecKey, Keys!GenKeySWmatrix, KP!GenKeySWmatrix, Keys!IsEdge, KP!IsEdge,
       Keys!BeginSearch, KP!BeginSearch, Keys!SetKeySwitchMap, KP!SetKeySwitchMap,
       Keys!Target, KP!Target, Keys!IsNew, KP!IsNew, Keys!SearchEdge, KP!SearchEdge,
       Keys!SearchPop, KP!SearchPop, Keys!SearchEnd, KP!SearchEnd, Keys!AddAllMatrices,
       KP!AddAllMatrices, Keys!AddNext, KP!AddNext, Keys!AddDone, KP!AddDone, Keys!Steps,
       KP!Steps, Keys!Calls, KP!Calls, Keys!Next, KP!Next, Keys!keys, KP!keys, Keys!loop,
       KP!loop

LEMMA NodeFacts ==
  /\ Keys!Node \subseteq Nat /\ Keys!Units \subseteq Keys!Node
  /\ 0 \in Keys!Node /\ 1 \in Keys!Node /\ 0 \in Keys!KeyId
  /\ Keys!KeyId \subseteq Nat /\ AnyKey \notin Keys!KeyId
  /\ \A x, y \in Keys!Node : Keys!MulMod(x, y) \in Keys!Node
BY KeysAssumption DEF Keys!Node, Keys!Units, Keys!KeyId, Keys!MulMod, AnyKey

\* Multiplication by a unit is one to one.
LEMMA UnitCancels ==
  ASSUME NEW x \in Keys!Node, NEW y \in Keys!Node, NEW k \in Keys!Units,
         Keys!MulMod(x, k) = Keys!MulMod(y, k)
  PROVE  x = y
BY KP!StepBack, SameConstants, KeysAssumption

\* A step of smartAutomorph() moves a unit from what is left to do to what is done.
LEMMA UnitMoved ==
  ASSUME NEW done \in Keys!Node, NEW k \in Keys!Units, NEW x \in Keys!Units
  PROVE  /\ Keys!MulMod(k, Keys!InvMod(x)) \in Keys!Units
         /\ Keys!MulMod(done, x) \in Keys!Node
         /\ Keys!MulMod(Keys!MulMod(done, x), Keys!MulMod(k, Keys!InvMod(x))) =
              Keys!MulMod(done, k)
<1>0. /\ x \in Nat /\ k \in Nat /\ done \in Nat
      /\ KP!InvMod(x) \in Nat /\ KP!InvMod(x) \in KP!Node /\ KP!MulMod(x, KP!InvMod(x)) = 1
      /\ k \in KP!Node /\ k \in KP!Units /\ x \in KP!Units /\ x \in KP!Node
  BY KP!InvModOfUnit, SameConstants, NodeFacts, KeysAssumption
<1>1. KP!InvMod(x) \in KP!Units
  <2>1. KP!IsInverse(x, KP!InvMod(x))
    BY <1>0 DEF KP!IsInverse, KP!MulMod
  <2> QED BY <1>0, <2>1 DEF KP!Units
<1>2. KP!MulMod(k, KP!InvMod(x)) \in KP!Units
  BY <1>0, <1>1, KP!UnitsClosed, KeysAssumption
<1>3. KP!MulMod(done, x) \in KP!Node
  BY <1>0, KP!MulModInNode, KeysAssumption
<1>4. KP!MulMod(k, KP!InvMod(x)) = KP!MulMod(KP!InvMod(x), k)
  BY <1>0, KP!MulModInNode, KeysAssumption
<1>5. KP!MulMod(KP!MulMod(done, x), KP!MulMod(KP!InvMod(x), k)) =
        KP!MulMod(KP!MulMod(KP!MulMod(done, x), KP!InvMod(x)), k)
  <2>1. KP!MulMod(done, x) \in Nat
    BY <1>3, SameConstants, NodeFacts
  <2> QED BY <2>1, <1>0, KP!MulModAssociative, KeysAssumption
<1>6. KP!MulMod(KP!MulMod(done, x), KP!InvMod(x)) = done
  BY <1>0, KP!StepBack, SameConstants, KeysAssumption
<1> QED BY <1>2, <1>3, <1>4, <1>5, <1>6, SameConstants

LEMMA MatrixFacts ==
  ASSUME KP!IInv
  PROVE  /\ keySwitching \in Seq(Keys!Matrices) /\ Len(keySwitching) \in Nat
         /\ \A n \in 1 .. Len(keySwitching) :
              /\ keySwitching[n].from.x \in Keys!Units
              /\ keySwitching[n].from \in Keys!Handles /\ keySwitching[n].to \in Keys!KeyId
<1>1. keySwitching \in Seq(Keys!Matrices)
  BY SameConstants DEF KP!IInv, KP!TypeOK
<1>2. \A n \in 1 .. Len(keySwitching) : keySwitching[n] \in Keys!Matrices
  BY <1>1
<1>3. \A n \in 1 .. Len(keySwitching) : keySwitching[n].from.x \in Keys!Units
  BY SameConstants DEF KP!IInv, KP!MatricesExist
<1> QED BY <1>1, <1>2, <1>3 DEF Keys!Matrices

\* The matrix the lookup returns is from the handle that was asked for, and to the key.
LEMMA LookUpResult ==
  ASSUME KP!IInv, NEW h \in Keys!Handles, NEW id \in Keys!KeyId \cup {AnyKey}
  PROVE  \/ LookUp(h, id) \in {Keys!None, Keys!Throws}
         \/ /\ LookUp(h, id) \in 1 .. Len(keySwitching)
            /\ keySwitching[LookUp(h, id)].from = h
            /\ id # AnyKey => keySwitching[LookUp(h, id)].to = id
<1>1. /\ \A to : Keys!GetKeySWmatrix(h, to) = KP!GetKeySWmatrix(h, to)
      /\ Keys!GetAnyKeySWmatrix(h) = KP!GetAnyKeySWmatrix(h)
  BY DEF Keys!GetKeySWmatrix, KP!GetKeySWmatrix, Keys!GetAnyKeySWmatrix, KP!GetAnyKeySWmatrix,
         Keys!AsksRow, KP!AsksRow, Keys!Probe, KP!Probe, Keys!Throws, KP!Throws, Keys!HitsRow,
         KP!HitsRow, Keys!None, KP!None, Keys!FirstOf, KP!FirstOf, Keys!Holds, KP!Holds,
         Keys!Row, KP!Row, Keys!HasRow, KP!HasRow
<1>2. CASE id = AnyKey
  <2>1. 0 \in KP!KeyId
    BY SameConstants, NodeFacts
  <2> QED BY <1>1, <1>2, <2>1, KP!LookupResult, SameConstants, KeysAssumption DEF LookUp
<1>3. CASE id # AnyKey
  BY <1>1, <1>3, KP!LookupResult, SameConstants, KeysAssumption DEF LookUp, KP!Holds
<1> QED BY <1>2, <1>3

\* An entry of the map is the position of a matrix.
LEMMA EntryInList ==
  ASSUME KP!IInv, NEW id \in Keys!KeyId, NEW k, Keys!HasRow(id), k \in DOMAIN Keys!Row(id),
         Keys!Row(id)[k] # Keys!None
  PROVE  /\ Keys!Row(id)[k] \in 1 .. Len(keySwitching) /\ Keys!Row(id)[k] > Keys!None
         /\ DOMAIN Keys!Row(id) = Keys!Node /\ id \in 0 .. Len(keySwitchMap) - 1
<1>1. id \in 0 .. Len(keySwitchMap) - 1 /\ Len(keySwitchMap) \in Nat
  BY NodeFacts DEF Keys!HasRow, KP!IInv, KP!TypeOK
<1>2. KP!Row(id) \in KP!Rows
  <2>1. id + 1 \in 1 .. Len(keySwitchMap)
    BY <1>1
  <2>2. keySwitchMap[id + 1] \in KP!Rows \cup {<<>>}
    BY <2>1 DEF KP!IInv, KP!TypeOK
  <2>3. KP!Row(id) # <<>>
    BY SameConstants, KP!EmptyRowHasNoEntries, KeysAssumption
  <2> QED BY <2>2, <2>3 DEF KP!Row
<1> QED BY <1>1, <1>2, SameConstants, MatrixFacts DEF KP!Rows, Keys!None

\* An entry of the map is a matrix of the key, and leads to 1 or to another entry.
LEMMA MapEntry ==
  ASSUME KP!IInv, NEW id \in Keys!KeyId, NEW k, Keys!HasRow(id), k \in DOMAIN Keys!Row(id),
         Keys!Row(id)[k] # Keys!None,
         NEW w, w = Keys!Row(id)[k], NEW x, x = keySwitching[w].from.x
  PROVE  /\ w \in 1 .. Len(keySwitching) /\ w > Keys!None
         /\ x \in Keys!Units /\ k \in Keys!Units
         /\ keySwitching[w] = [from |-> Keys!Handle(1, x, id), to |-> id]
         /\ \/ Keys!MulMod(k, Keys!InvMod(x)) = 1
            \/ Keys!Row(id)[Keys!MulMod(k, Keys!InvMod(x))] # Keys!None
         /\ DOMAIN Keys!Row(id) = Keys!Node
<1>1. /\ w \in 1 .. Len(keySwitching) /\ w > Keys!None /\ DOMAIN Keys!Row(id) = Keys!Node
      /\ id \in 0 .. Len(keySwitchMap) - 1
  BY EntryInList
<1>2. /\ k \in KP!Units
      /\ \E y \in KP!Units : keySwitching[w] = [from |-> KP!Handle(1, y, id), to |-> id]
      /\ KP!After(k, id) = 1 \/ KP!Row(id)[KP!After(k, id)] # KP!None
  BY <1>1, SameConstants DEF KP!IInv, KP!MapLeadsHome
<1>3. KP!After(k, id) = Keys!MulMod(k, Keys!InvMod(x))
  BY SameConstants DEF KP!After
<1>4. x \in Keys!Units /\ keySwitching[w] = [from |-> Keys!Handle(1, x, id), to |-> id]
  <2>1. PICK y \in KP!Units : keySwitching[w] = [from |-> KP!Handle(1, y, id), to |-> id]
    BY <1>2
  <2>2. y = x
    BY <2>1 DEF KP!Handle
  <2> QED BY <2>1, <2>2, SameConstants
<1> QED BY <1>1, <1>2, <1>3, <1>4, SameConstants

\* What the walk switches with is found.
LEMMA WalkLookUp ==
  ASSUME KP!IInv, NEW id \in Keys!KeyId, NEW x \in Keys!Units, Keys!HasRow(id),
         DOMAIN Keys!Row(id) = Keys!Node, NEW n \in 1 .. Len(keySwitching),
         keySwitching[n] = [from |-> Keys!Handle(1, x, id), to |-> id]
  PROVE  LookUp(Keys!Handle(1, x, id), id) \notin {Keys!None, Keys!Throws}
<1> DEFINE h == Keys!Handle(1, x, id)
<1>1. id # AnyKey /\ id \in KP!KeyId /\ h \in KP!Handles /\ x \in Keys!Node
  BY NodeFacts, SameConstants DEF Keys!Handle, Keys!Handles
<1>2. KP!Holds(h, id, n)
  BY DEF KP!Holds
<1>3. h.x \in DOMAIN KP!Row(h.id) /\ h.x = x /\ h.id = id
  BY <1>1, SameConstants DEF Keys!Handle
<1>4. ASSUME KP!Probe(h) = KP!Throws PROVE FALSE
  <2>1. n \in Nat /\ KP!Row(id)[x] = KP!Throws
    BY <1>3, <1>4 DEF KP!Probe
  <2>2. KP!Row(id)[x] = Keys!Row(id)[x] /\ KP!Throws # Keys!None
    BY SameConstants DEF KP!Throws, Keys!None
  <2>3. Keys!Row(id)[x] \in 1 .. Len(keySwitching)
    <3>1. x \in DOMAIN Keys!Row(id) /\ Keys!Row(id)[x] # Keys!None
      BY <2>1, <2>2, <1>1
    <3> QED BY <3>1, EntryInList
  <2> QED BY <2>1, <2>2, <2>3 DEF KP!Throws
<1>5. LookUp(h, id) = KP!GetKeySWmatrix(h, id)
  BY <1>1 DEF LookUp, Keys!GetKeySWmatrix, KP!GetKeySWmatrix, Keys!AsksRow, KP!AsksRow,
              Keys!Probe, KP!Probe, Keys!Throws, KP!Throws, Keys!HitsRow, KP!HitsRow,
              Keys!None, KP!None, Keys!FirstOf, KP!FirstOf, Keys!Holds, KP!Holds,
              Keys!Row, KP!Row, Keys!HasRow, KP!HasRow
<1> HIDE DEF h
<1>6. \/ KP!GetKeySWmatrix(h, id) = KP!None /\ FALSE
      \/ KP!GetKeySWmatrix(h, id) \in 1 .. Len(keySwitching)
  BY <1>1, <1>2, <1>4, KP!LookupResult, KeysAssumption
<1>7. \A j \in 1 .. Len(keySwitching) : j \notin {Keys!None, Keys!Throws}
  BY DEF Keys!None, Keys!Throws
<1> QED BY <1>5, <1>6, <1>7 DEF h

-----------------------------------------------------------------------------
(* Lists of parts.                                                         *)

\* The power of X is reduced, and 1 is the only handle that does not involve a key.
GoodHandle(h) == h \in Keys!Handles /\ h.x \in Keys!Node /\ (h.s = 0 => h = One)

GoodList(ps) ==
  /\ ps \in Seq(Parts)
  /\ \A i \in DOMAIN ps : GoodHandle(ps[i].h)
  /\ ps # <<>> => ps[1].h = One
  /\ \A i, j \in DOMAIN ps : ps[i].h = ps[j].h => i = j

SamePrimes(ps, P) == \A i \in DOMAIN ps : ps[i].primes = P

LEMMA HandleFacts ==
  /\ GoodHandle(One)
  /\ \A id \in Keys!KeyId : GoodHandle(Base(id)) /\ Base(id) # One
  /\ \A x \in Keys!Node, id \in Keys!KeyId :
       GoodHandle(Keys!Handle(1, x, id)) /\ Keys!Handle(1, x, id) # One
<1>1. \A x \in Keys!Node, id \in Keys!KeyId : Keys!Handle(1, x, id) # One
  BY DEF One, Keys!Handle
<1> QED BY <1>1, NodeFacts DEF GoodHandle, One, Base, Keys!Handle, Keys!Handles

LEMMA EmptyList == GoodList(<<>>) /\ \A P : SamePrimes(<<>>, P)
BY DEF GoodList, SamePrimes

LEMMA MulGood ==
  ASSUME NEW g, NEW h, GoodHandle(g), GoodHandle(h)
  PROVE  GoodHandle(Mul(g, h)) /\ (g = One /\ h = One => Mul(g, h) = One)
<1>1. CASE g = One \/ h = One
  BY <1>1 DEF Mul
<1>2. CASE g # One /\ h # One
  <2>1. g.s \in Nat \ {0} /\ h.s \in Nat \ {0}
    BY <1>2 DEF GoodHandle, Keys!Handles
  <2>2. g.s + h.s \in Nat \ {0}
    BY <2>1
  <2>3. Mul(g, h) = [g EXCEPT !.s = g.s + h.s]
    BY <1>2 DEF Mul
  <2> QED BY <1>2, <2>2, <2>3 DEF GoodHandle, Keys!Handles
<1> QED BY <1>1, <1>2

\* A part is added to a list that has its 1 in front.
LEMMA PartAddedGood ==
  ASSUME NEW ps, GoodList(ps), NEW p \in Parts, GoodHandle(p.h), ps # <<>> \/ p.h = One
  PROVE  /\ GoodList(PartAdded(ps, p)) /\ PartAdded(ps, p) # <<>>
         /\ \A i \in DOMAIN PartAdded(ps, p) :
              PartAdded(ps, p)[i] = p \/ \E j \in DOMAIN ps : PartAdded(ps, p)[i] = ps[j]
         /\ \A P : SamePrimes(ps, P) /\ p.primes = P => SamePrimes(PartAdded(ps, p), P)
<1>0. ps \in Seq(Parts) /\ Len(ps) \in Nat /\ DOMAIN ps = 1 .. Len(ps)
  BY DEF GoodList
<1>1. CASE \E i \in DOMAIN ps : ps[i].h = p.h
  <2>1. ps # <<>>
    BY <1>1
  <2> QED BY <1>1, <2>1 DEF PartAdded
<1>2. CASE \A i \in DOMAIN ps : ps[i].h # p.h
  <2> DEFINE qs == Append(ps, p)
  <2>1. /\ qs \in Seq(Parts) /\ qs # <<>> /\ DOMAIN qs = 1 .. Len(ps) + 1
        /\ qs[Len(ps) + 1] = p /\ \A i \in DOMAIN ps : qs[i] = ps[i]
    BY <1>0
  <2>2. PartAdded(ps, p) = qs
    BY <1>2 DEF PartAdded
  <2> HIDE DEF qs
  <2>3. \A i \in DOMAIN qs : i \in DOMAIN ps \/ i = Len(ps) + 1
    BY <1>0, <2>1
  <2>4. qs[1].h = One
    <3>1. CASE ps = <<>>
      BY <3>1, <2>1
    <3>2. CASE ps # <<>>
      <4>1. 1 \in DOMAIN ps
        BY <1>0, <3>2
      <4> QED BY <4>1, <3>2, <2>1 DEF GoodList
    <3> QED BY <3>1, <3>2
  <2>5. \A i, j \in DOMAIN qs : qs[i].h = qs[j].h => i = j
    BY <1>2, <2>1, <2>3 DEF GoodList
  <2>6. \A i \in DOMAIN qs : GoodHandle(qs[i].h)
    BY <2>1, <2>3 DEF GoodList
  <2>7. GoodList(qs)
    BY <2>1, <2>4, <2>5, <2>6 DEF GoodList
  <2>8. \A P : SamePrimes(ps, P) /\ p.primes = P => SamePrimes(qs, P)
    BY <2>1, <2>3 DEF SamePrimes
  <2> QED BY <2>1, <2>2, <2>3, <2>7, <2>8
<1> QED BY <1>1, <1>2

LEMMA ListOf ==
  ASSUME NEW n \in Nat, NEW f, f = [i \in 1 .. n |-> f[i]], NEW S, \A i \in 1 .. n : f[i] \in S
  PROVE  f \in Seq(S) /\ DOMAIN f = 1 .. n /\ Len(f) = n /\ (f = <<>> <=> n = 0)
<1>1. f \in [1 .. n -> S]
  OBVIOUS
<1>2. f \in Seq(S)
  BY <1>1, SeqDef
<1> QED BY <1>1, <1>2

\* A list whose parts change their primes only, all or one of them.
LEMMA Rescaled ==
  ASSUME NEW ps, GoodList(ps), NEW qs \in Seq(Parts), DOMAIN qs = DOMAIN ps,
         \A i \in DOMAIN ps : qs[i].h = ps[i].h
  PROVE  GoodList(qs) /\ (qs = <<>> <=> ps = <<>>) /\ Len(qs) = Len(ps)
<1>1. /\ ps \in Seq(Parts) /\ Len(ps) \in Nat /\ DOMAIN ps = 1 .. Len(ps)
      /\ Len(qs) \in Nat /\ DOMAIN qs = 1 .. Len(qs)
  BY DEF GoodList
<1>2. Len(qs) = Len(ps) /\ (qs = <<>> <=> ps = <<>>) /\ (ps # <<>> => 1 \in DOMAIN ps)
  BY <1>1
<1> QED BY <1>2 DEF GoodList

LEMMA PartsReplaced ==
  ASSUME NEW ct \in CiphertextRecords, NEW ps
  PROVE  [ct EXCEPT !.parts = ps] = [parts |-> ps, primeSet |-> ct.primeSet]
BY DEF CiphertextRecords

LEMMA PartReplaced ==
  ASSUME NEW ps, GoodList(ps), NEW i \in DOMAIN ps, NEW p \in Parts, p.h = ps[i].h,
         NEW qs, qs = [ps EXCEPT ![i] = p]
  PROVE  /\ GoodList(qs) /\ DOMAIN qs = DOMAIN ps
         /\ \A n \in DOMAIN ps : qs[n].h = ps[n].h /\ (n # i => qs[n] = ps[n])
<1>1. ps \in Seq(Parts) /\ Len(ps) \in Nat /\ DOMAIN ps = 1 .. Len(ps)
  BY DEF GoodList
<1>2. /\ DOMAIN qs = DOMAIN ps /\ qs[i] = p
      /\ \A n \in DOMAIN ps : qs[n].h = ps[n].h /\ (n # i => qs[n] = ps[n])
  BY <1>1
<1>3. qs \in Seq(Parts)
  <2>1. \A n \in 1 .. Len(ps) : qs[n] \in Parts
    BY <1>1, <1>2
  <2>2. qs = [n \in 1 .. Len(ps) |-> qs[n]]
    BY <1>1, <1>2
  <2> QED BY <1>1, <2>1, <2>2, ListOf
<1> QED BY <1>2, <1>3, Rescaled

-----------------------------------------------------------------------------
(* Prime sets.                                                             *)

ValidPrimes(P) ==
  /\ P \subseteq Primes /\ P # {} /\ P \cap SpecialPrimes \in {{}, SpecialPrimes}
  /\ P \cap CtxtPrimes \in Prefixes
  /\ P \cap SpecialPrimes # {} => P \cap CtxtPrimes # {}

Good(ct) == ct \in CiphertextRecords /\ GoodList(ct.parts) /\ ValidPrimes(ct.primeSet)

LEMMA PrimeFacts ==
  /\ CtxtPrimes \subseteq Primes /\ SpecialPrimes \subseteq Primes /\ Primes \subseteq Nat
  /\ CtxtPrimes # {} /\ SpecialPrimes # {}
  /\ CtxtPrimes \cap SpecialPrimes = {} /\ SmallPrimes \cap CtxtPrimes = {}
  /\ SmallPrimes \cap SpecialPrimes = {} /\ Primes = SmallPrimes \cup CtxtPrimes \cup SpecialPrimes
BY PrimesAssumption DEF Primes

LEMMA PrefixIsInterval ==
  ASSUME NEW P \in Prefixes
  PROVE  IsInterval(P)
<1> SUFFICES ASSUME NEW a \in P, NEW b \in P, NEW n \in a .. b PROVE n \in P
  BY DEF IsInterval
<1>1. a \in CtxtPrimes /\ b \in CtxtPrimes /\ a \in Nat /\ b \in Nat
  BY PrimeFacts DEF Prefixes
<1>2. n \in CtxtPrimes
  BY <1>1, PrimesAssumption DEF IsInterval
<1>3. n < b \/ n = b
  BY <1>1
<1> QED BY <1>1, <1>2, <1>3 DEF Prefixes

\* What addCtxt() asks for holds of the union of two prime sets.
LEMMA UnionValid ==
  ASSUME NEW P, NEW Q, ValidPrimes(P), ValidPrimes(Q)
  PROVE  ValidPrimes(P \cup Q) /\ VerifyPrimeSet(P \cup Q)
<1>1. (P \cup Q) \cap CtxtPrimes \in Prefixes
  <2>1. (P \cup Q) \cap CtxtPrimes = (P \cap CtxtPrimes) \cup (Q \cap CtxtPrimes)
    OBVIOUS
  <2>2. \A R, S \in Prefixes : R \cup S \in Prefixes
    BY DEF Prefixes
  <2> QED BY <2>1, <2>2 DEF ValidPrimes
<1>2. (P \cup Q) \cap SpecialPrimes \in {{}, SpecialPrimes}
  <2>1. (P \cup Q) \cap SpecialPrimes = (P \cap SpecialPrimes) \cup (Q \cap SpecialPrimes)
    OBVIOUS
  <2>2. \A S \in {{}, SpecialPrimes} : {} \cup S = S /\ SpecialPrimes \cup S = SpecialPrimes
    OBVIOUS
  <2> QED BY <2>1, <2>2 DEF ValidPrimes
<1>3. (P \cup Q) \cap SpecialPrimes # {} => (P \cup Q) \cap CtxtPrimes # {}
  BY DEF ValidPrimes
<1> QED BY <1>1, <1>2, <1>3, PrefixIsInterval DEF ValidPrimes, VerifyPrimeSet

\* A prefix of the ctxt primes, with the special primes or without.
LEMMA PrefixValid ==
  ASSUME NEW P \in Prefixes, P # {}
  PROVE  /\ P \subseteq CtxtPrimes /\ P \in SUBSET Primes /\ P \cap SpecialPrimes = {}
         /\ ValidPrimes(P) /\ ValidPrimes(P \cup SpecialPrimes)
<1>1. P \subseteq CtxtPrimes
  BY DEF Prefixes
<1>2. /\ P \cap CtxtPrimes = P /\ P \cap SpecialPrimes = {}
      /\ (P \cup SpecialPrimes) \cap CtxtPrimes = P
      /\ (P \cup SpecialPrimes) \cap SpecialPrimes = SpecialPrimes
  BY <1>1, PrimeFacts
<1> QED BY <1>1, <1>2, PrimeFacts DEF ValidPrimes

LEMMA LeastOf ==
  ASSUME NEW S \in SUBSET Nat, S # {}
  PROVE  \E a \in S : \A b \in S : a =< b
<1>1. PICK a \in S : \A b \in S : ~ (<<b, a>> \in OpToRel(<, Nat))
  BY NatLessThanWellFounded, WFMin
<1>2. ASSUME NEW b \in S PROVE a =< b
  <2>1. a \in Nat /\ b \in Nat /\ <<b, a>> \in Nat \X Nat
    OBVIOUS
  <2> QED BY <1>1, <2>1 DEF OpToRel
<1> QED BY <1>2

LEMMA FirstIsPrefix == {FirstCtxtPrime} \in Prefixes
<1>1. \E a \in CtxtPrimes : \A b \in CtxtPrimes : a =< b
  BY LeastOf, PrimeFacts
<1>2. FirstCtxtPrime \in CtxtPrimes /\ \A b \in CtxtPrimes : FirstCtxtPrime =< b
  BY <1>1 DEF FirstCtxtPrime
<1>3. \A b \in CtxtPrimes : b \in Nat
  BY PrimeFacts
<1>4. \A b \in CtxtPrimes : ~ (b < FirstCtxtPrime)
  BY <1>2, <1>3
<1> QED BY <1>2, <1>4 DEF Prefixes

\* What Brought() goes to, for a set of the size table.
LEMMA SizeTableValid ==
  ASSUME NEW P \in SizeTable
  PROVE  P \in SUBSET Primes /\ IF P = {} THEN ValidPrimes({FirstCtxtPrime}) ELSE ValidPrimes(P)
<1>1. PICK S \in SUBSET SmallPrimes, R \in Prefixes : P = S \cup R
  BY DEF SizeTable
<1>2. R \subseteq CtxtPrimes
  BY DEF Prefixes
<1>3. P \cap CtxtPrimes = R /\ P \cap SpecialPrimes = {} /\ P \in SUBSET Primes
  BY <1>1, <1>2, PrimeFacts
<1>4. ValidPrimes({FirstCtxtPrime})
  BY FirstIsPrefix, PrefixValid
<1> QED BY <1>3, <1>4 DEF ValidPrimes

\* Dropping the small and the special primes leaves some of the ctxt primes.
LEMMA DropTargetValid ==
  ASSUME NEW ct, ValidPrimes(ct.primeSet), NEW P \in DropTargets(ct)
  PROVE  P \in Prefixes /\ P # {}
<1>1. CASE ct.primeSet \cap SmallPrimes = {}
  <2>1. P = ct.primeSet \cap CtxtPrimes
    BY <1>1 DEF DropTargets
  <2>2. ct.primeSet \cap CtxtPrimes # {}
    BY <1>1, PrimeFacts DEF ValidPrimes
  <2> QED BY <2>1, <2>2 DEF ValidPrimes
<1>2. CASE ct.primeSet \cap SmallPrimes # {}
  BY <1>2 DEF DropTargets
<1> QED BY <1>1, <1>2

\* modUpToSet.
LEMMA ModUpGood ==
  ASSUME NEW ct, Good(ct), OverPrimeSet(ct), NEW P, ValidPrimes(P)
  PROVE  /\ Good(ModUp(ct, P)) /\ OverPrimeSet(ModUp(ct, P))
         /\ ModUp(ct, P).primeSet = ct.primeSet \cup P
         /\ IsEmpty(ModUp(ct, P)) <=> IsEmpty(ct)
<1> DEFINE up == ModUp(ct, P)
           ps == ct.parts
<1>1. /\ ps \in Seq(Parts) /\ GoodList(ps) /\ DOMAIN ps = 1 .. Len(ps) /\ Len(ps) \in Nat
      /\ ct.primeSet \in SUBSET Primes /\ P \in SUBSET Primes
  BY DEF Good, CiphertextRecords, ValidPrimes
<1>2. /\ up.parts = [i \in DOMAIN ps |-> [ps[i] EXCEPT !.primes = @ \cup (P \ ct.primeSet)]]
      /\ up.primeSet = ct.primeSet \cup P
      /\ up = [parts |-> up.parts, primeSet |-> up.primeSet]
  BY DEF ModUp
<1>3. \A i \in DOMAIN ps : /\ up.parts[i] \in Parts /\ up.parts[i].h = ps[i].h
                           /\ up.parts[i].primes = ct.primeSet \cup P
  <2> SUFFICES ASSUME NEW i \in DOMAIN ps
               PROVE  /\ up.parts[i] \in Parts /\ up.parts[i].h = ps[i].h
                      /\ up.parts[i].primes = ct.primeSet \cup P
    OBVIOUS
  <2>1. ps[i] \in Parts /\ ps[i].primes = ct.primeSet
    BY <1>1 DEF OverPrimeSet
  <2>2. ct.primeSet \cup (P \ ct.primeSet) = ct.primeSet \cup P
    OBVIOUS
  <2>3. up.parts[i] = [ps[i] EXCEPT !.primes = ct.primeSet \cup P]
    BY <1>2, <2>1, <2>2
  <2> QED BY <1>1, <2>1, <2>3 DEF Parts
<1>4. up.parts \in Seq(Parts) /\ DOMAIN up.parts = DOMAIN ps
  <2>1. up.parts = [i \in 1 .. Len(ps) |-> up.parts[i]]
    BY <1>1, <1>2
  <2> QED BY <1>1, <1>3, <2>1, ListOf
<1> HIDE DEF up, ps
<1>5. GoodList(up.parts) /\ (up.parts = <<>> <=> ps = <<>>)
  BY <1>1, <1>3, <1>4, Rescaled
<1>6. ValidPrimes(up.primeSet)
  BY <1>2, UnionValid DEF Good
<1>7. OverPrimeSet(up)
  BY <1>2, <1>3, <1>4 DEF OverPrimeSet
<1>8. up \in CiphertextRecords
  BY <1>1, <1>2, <1>4 DEF CiphertextRecords
<1> QED BY <1>2, <1>5, <1>6, <1>7, <1>8 DEF Good, IsEmpty, up, ps

\* bringToSet.
LEMMA BroughtGood ==
  ASSUME NEW ct, Good(ct), OverPrimeSet(ct), NEW P,
         IF P = {} THEN ValidPrimes({FirstCtxtPrime}) ELSE ValidPrimes(P)
  PROVE  /\ Good(Brought(ct, P)) /\ OverPrimeSet(Brought(ct, P))
         /\ Brought(ct, P).primeSet = IF P = {} THEN {FirstCtxtPrime} ELSE P
         /\ IsEmpty(Brought(ct, P)) <=> IsEmpty(ct)
         /\ DOMAIN Brought(ct, P).parts = DOMAIN ct.parts
         /\ \A i \in DOMAIN ct.parts : Brought(ct, P).parts[i].h = ct.parts[i].h
<1> DEFINE Q == IF P = {} THEN {FirstCtxtPrime} ELSE P
           down == Brought(ct, P)
           ps == ct.parts
<1>1. /\ ps \in Seq(Parts) /\ GoodList(ps) /\ DOMAIN ps = 1 .. Len(ps) /\ Len(ps) \in Nat
      /\ ct.primeSet \in SUBSET Primes /\ ValidPrimes(Q) /\ Q \in SUBSET Primes
  <2>1. ValidPrimes(Q)
    OBVIOUS
  <2> HIDE DEF Q
  <2> QED BY <2>1 DEF Good, CiphertextRecords, ValidPrimes
<1> HIDE DEF Q
<1>2. /\ DOMAIN down.parts = DOMAIN ps
      /\ \A i \in DOMAIN ps : down.parts[i] = [h |-> ps[i].h, primes |-> Q]
      /\ down.parts = [i \in DOMAIN ps |-> [h |-> ps[i].h, primes |-> Q]]
      /\ down.primeSet = Q
      /\ down = [parts |-> down.parts, primeSet |-> Q]
  <2>1. /\ down.parts = [i \in DOMAIN ps |->
                           [ModUp(ct, Q).parts[i] EXCEPT !.primes = @ \cap Q]]
        /\ down.primeSet = (ct.primeSet \cup Q) \cap Q
        /\ down = [parts |-> down.parts, primeSet |-> down.primeSet]
    BY DEF Brought, ModDown, ModUp, Q
  <2>2. (ct.primeSet \cup Q) \cap Q = Q
    OBVIOUS
  <2>3. ASSUME NEW i \in DOMAIN ps
        PROVE  [ModUp(ct, Q).parts[i] EXCEPT !.primes = @ \cap Q] = [h |-> ps[i].h, primes |-> Q]
    <3>1. ps[i] \in Parts /\ ps[i].primes = ct.primeSet
      BY <1>1 DEF OverPrimeSet
    <3>2. ModUp(ct, Q).parts[i] = [ps[i] EXCEPT !.primes = @ \cup (Q \ ct.primeSet)]
      BY DEF ModUp
    <3>3. (ct.primeSet \cup (Q \ ct.primeSet)) \cap Q = Q
      OBVIOUS
    <3>4. [ModUp(ct, Q).parts[i] EXCEPT !.primes = @ \cap Q] =
             [ps[i] EXCEPT !.primes = (ct.primeSet \cup (Q \ ct.primeSet)) \cap Q]
      BY <3>1, <3>2 DEF Parts
    <3>5. [ModUp(ct, Q).parts[i] EXCEPT !.primes = @ \cap Q] = [ps[i] EXCEPT !.primes = Q]
      BY <3>3, <3>4
    <3> QED BY <3>1, <3>5 DEF Parts
  <2>4. down.parts = [i \in DOMAIN ps |-> [h |-> ps[i].h, primes |-> Q]]
    BY <2>1, <2>3
  <2> HIDE DEF down
  <2> QED BY <2>1, <2>2, <2>4
<1>3. \A i \in DOMAIN ps : ps[i].h \in Keys!Handles
  <2>1. \A i \in DOMAIN ps : ps[i] \in Parts
    BY <1>1
  <2> QED BY <2>1 DEF Parts
<1>4. down.parts \in Seq(Parts) /\ \A i \in DOMAIN ps : down.parts[i].h = ps[i].h
  <2>1. \A i \in 1 .. Len(ps) : down.parts[i] \in Parts
    BY <1>1, <1>2, <1>3 DEF Parts
  <2>2. down.parts = [i \in 1 .. Len(ps) |-> down.parts[i]]
    BY <1>1, <1>2
  <2>3. down.parts \in Seq(Parts)
    BY <1>1, <2>1, <2>2, ListOf
  <2> QED BY <1>2, <2>3
<1> HIDE DEF down, ps
<1>5. GoodList(down.parts) /\ (down.parts = <<>> <=> ps = <<>>)
  BY <1>1, <1>2, <1>4, Rescaled
<1>6. OverPrimeSet(down)
  BY <1>2 DEF OverPrimeSet
<1>7. down \in CiphertextRecords
  BY <1>1, <1>2, <1>4 DEF CiphertextRecords
<1> QED BY <1>1, <1>2, <1>4, <1>5, <1>6, <1>7 DEF Good, IsEmpty, down, ps, Q

\* automorph by a unit.
LEMMA AutomorphedGood ==
  ASSUME NEW ct, Good(ct), NEW k \in Keys!Units
  PROVE  /\ Good(Automorphed(ct, k)) /\ Automorphed(ct, k).primeSet = ct.primeSet
         /\ DOMAIN Automorphed(ct, k).parts = DOMAIN ct.parts
         /\ OverPrimeSet(ct) => OverPrimeSet(Automorphed(ct, k))
         /\ IsEmpty(Automorphed(ct, k)) <=> IsEmpty(ct)
         /\ \A i \in DOMAIN ct.parts :
              Automorphed(ct, k).parts[i].h =
                IF ct.parts[i].h = One THEN One
                ELSE [ct.parts[i].h EXCEPT !.x = Keys!MulMod(@, k)]
<1> DEFINE ps == ct.parts
           qs == [i \in DOMAIN ps |-> IF ps[i].h = One THEN ps[i]
                    ELSE [ps[i] EXCEPT !.h = [ps[i].h EXCEPT !.x = Keys!MulMod(ps[i].h.x, k)]]]
<1>1. /\ ps \in Seq(Parts) /\ GoodList(ps) /\ DOMAIN ps = 1 .. Len(ps) /\ Len(ps) \in Nat
      /\ ct \in CiphertextRecords
  BY DEF Good, CiphertextRecords
<1>2. Automorphed(ct, k) = [parts |-> qs, primeSet |-> ct.primeSet]
  <2>1. Automorphed(ct, k) = [ct EXCEPT !.parts = qs]
    <3>0. \A i \in DOMAIN ps : ps[i] \in Parts
      BY <1>1
    <3>1. \A i \in DOMAIN ps : ps[i].h \in Keys!Handles
      BY <3>0 DEF Parts
    <3> QED BY <3>1 DEF Automorphed, Keys!Handles
  <2> HIDE DEF qs
  <2> QED BY <1>1, <2>1 DEF CiphertextRecords
<1>3. \A i \in DOMAIN ps :
        /\ qs[i] \in Parts /\ GoodHandle(qs[i].h) /\ qs[i].primes = ps[i].primes
        /\ qs[i].h = IF ps[i].h = One THEN One
                     ELSE [ps[i].h EXCEPT !.x = Keys!MulMod(@, k)]
        /\ qs[i].h = One <=> ps[i].h = One
  <2> SUFFICES ASSUME NEW i \in DOMAIN ps
               PROVE  /\ qs[i] \in Parts /\ GoodHandle(qs[i].h) /\ qs[i].primes = ps[i].primes
                      /\ qs[i].h = IF ps[i].h = One THEN One
                                   ELSE [ps[i].h EXCEPT !.x = Keys!MulMod(@, k)]
                      /\ qs[i].h = One <=> ps[i].h = One
    OBVIOUS
  <2>1. ps[i] \in Parts /\ ps[i].h \in Keys!Handles /\ GoodHandle(ps[i].h) /\ k \in Keys!Node
    BY <1>1, NodeFacts DEF GoodList, GoodHandle
  <2>2. CASE ps[i].h = One
    BY <2>1, <2>2
  <2>3. CASE ps[i].h # One
    <3>1. ps[i].h.s # 0 /\ Keys!MulMod(ps[i].h.x, k) \in Keys!Node
      BY <2>1, <2>3, NodeFacts DEF GoodHandle
    <3>2. qs[i] = [ps[i] EXCEPT !.h = [ps[i].h EXCEPT !.x = Keys!MulMod(ps[i].h.x, k)]]
      BY <2>3
    <3> HIDE DEF qs
    <3>3. /\ qs[i].h = [ps[i].h EXCEPT !.x = Keys!MulMod(ps[i].h.x, k)]
          /\ qs[i].primes = ps[i].primes
          /\ qs[i] = [h |-> qs[i].h, primes |-> ps[i].primes]
      BY <2>1, <3>2 DEF Parts
    <3>4. /\ qs[i].h \in Keys!Handles /\ qs[i].h.s = ps[i].h.s
          /\ qs[i].h.x = Keys!MulMod(ps[i].h.x, k)
      BY <2>1, <3>1, <3>3, NodeFacts DEF Keys!Handles
    <3>5. One.s = 0 /\ ps[i].primes \in SUBSET Primes
      BY <2>1 DEF One, Keys!Handle, Parts
    <3>6. qs[i] \in Parts
      BY <3>3, <3>4, <3>5 DEF Parts
    <3>7. GoodHandle(qs[i].h) /\ qs[i].h # One
      BY <3>1, <3>4, <3>5 DEF GoodHandle
    <3> QED BY <2>3, <3>3, <3>6, <3>7
  <2> QED BY <2>2, <2>3
<1>4. qs \in Seq(Parts) /\ DOMAIN qs = DOMAIN ps /\ (qs = <<>> <=> ps = <<>>)
  <2>1. qs = [i \in 1 .. Len(ps) |-> qs[i]] /\ \A i \in 1 .. Len(ps) : qs[i] \in Parts
    BY <1>1, <1>3
  <2>2. ps = <<>> <=> Len(ps) = 0
    BY <1>1
  <2> HIDE DEF qs
  <2>3. qs \in Seq(Parts) /\ DOMAIN qs = 1 .. Len(ps) /\ (qs = <<>> <=> Len(ps) = 0)
    BY <1>1, <2>1, ListOf
  <2> QED BY <1>1, <2>2, <2>3
<1> HIDE DEF qs
<1>5. ASSUME NEW i \in DOMAIN ps, NEW j \in DOMAIN ps, qs[i].h = qs[j].h
      PROVE  i = j
  <2>1. GoodHandle(ps[i].h) /\ GoodHandle(ps[j].h)
    BY <1>1 DEF GoodList
  <2>2. CASE ps[i].h = One
    BY <1>1, <1>3, <1>5, <2>2 DEF GoodList
  <2>3. CASE ps[i].h # One
    <3>1. ps[j].h # One
      BY <1>3, <1>5, <2>3
    <3>2. [ps[i].h EXCEPT !.x = Keys!MulMod(@, k)] = [ps[j].h EXCEPT !.x = Keys!MulMod(@, k)]
      BY <1>3, <1>5, <2>3, <3>1
    <3>3. /\ ps[i].h.s = ps[j].h.s /\ ps[i].h.id = ps[j].h.id
          /\ Keys!MulMod(ps[i].h.x, k) = Keys!MulMod(ps[j].h.x, k)
      BY <2>1, <3>2 DEF GoodHandle, Keys!Handles
    <3>4. ps[i].h.x = ps[j].h.x
      BY <2>1, <3>3, UnitCancels DEF GoodHandle
    <3>5. ps[i].h = ps[j].h
      BY <2>1, <3>3, <3>4 DEF GoodHandle, Keys!Handles
    <3> QED BY <1>1, <3>5 DEF GoodList
  <2> QED BY <2>2, <2>3
<1>6. GoodList(qs)
  <2>1. qs # <<>> => 1 \in DOMAIN ps /\ ps[1].h = One
    BY <1>1, <1>4 DEF GoodList
  <2> QED BY <1>3, <1>4, <1>5, <2>1 DEF GoodList
<1>7. OverPrimeSet(ct) => OverPrimeSet([parts |-> qs, primeSet |-> ct.primeSet])
  BY <1>3, <1>4 DEF OverPrimeSet
<1> QED BY <1>1, <1>2, <1>3, <1>4, <1>6, <1>7 DEF Good, CiphertextRecords, IsEmpty, ps

-----------------------------------------------------------------------------
(* The strengthened invariant: what holds between the steps of a call.     *)

CallRecords ==
  [op : Ops, after : Ops, c : Ctxts, id : Keys!KeyId \cup {AnyKey},
   i : Nat \ {0}, j : Nat \ {0}, k : Keys!Node, done : Keys!Node, asked : Keys!Node,
   other : CiphertextRecords, tmp : CiphertextRecords]

\* All ciphertexts are good, and over their prime sets but for one that is being scaled.
CtxtsInv ==
  /\ ctxt \in [Ctxts -> CiphertextRecords] /\ \A c \in Ctxts : Good(ctxt[c])
  /\ abandoned \subseteq Ctxts
  /\ \A c \in Ctxts \ abandoned : OverPrimeSet(ctxt[c]) \/ (call.op = "parts" /\ call.c = c)

\* The local variables, and where the call goes after its last step.
LocalsInv ==
  /\ call \in CallRecords
  /\ GoodList(call.tmp.parts) /\ OverPrimeSet(call.tmp)
  /\ GoodList(call.other.parts) /\ OverPrimeSet(call.other)

ControlInv ==
  /\ call.op # "idle" => call.c \notin abandoned /\ ~ IsEmpty(ctxt[call.c])
  /\ call.op \in {"idle", "add"} => call.after = "idle"
  /\ call.op = "tensor" => call.after \in {"idle", "relin"}
  /\ call.op \in {"relin", "parts"} => call.after \in {"idle", "clean", "check", "walk"}
  /\ call.op \in {"clean", "check", "walk"} => call.after = call.op
  /\ call.op \in {"relin", "check", "walk"} => call.i = 1

AddInv == call.op = "add" => call.other.primeSet = ctxt[call.c].primeSet

\* Both factors start with a part for 1, and so does the product, from its first part on.
TensorInv ==
  call.op = "tensor" =>
    /\ ~ IsEmpty(call.other) /\ call.j \in DOMAIN call.other.parts
    /\ call.other.primeSet = ctxt[call.c].primeSet
    /\ call.tmp.primeSet = ctxt[call.c].primeSet
    /\ IsEmpty(call.tmp) => call.i = 1 /\ call.j = 1

\* The parts still to come are modulo a prefix P of the ctxt primes, those of the result
\* modulo P and the special primes.
PartsInv ==
  call.op = "parts" =>
    LET P == ctxt[call.c].primeSet
    IN /\ P \in Prefixes \ {{}}
       /\ call.tmp.primeSet = P \cup SpecialPrimes
       /\ \A n \in DOMAIN ctxt[call.c].parts : n >= call.i => ctxt[call.c].parts[n].primes = P
       /\ IsEmpty(call.tmp) => call.i = 1
       /\ call.id # AnyKey =>
            \A n \in DOMAIN call.tmp.parts : call.tmp.parts[n].h \in {One, Base(call.id)}

\* The parts are for 1, or for a handle the key has a matrix of the walk for.
Switchable(ct, id) ==
  \E x \in Keys!Units :
    /\ \A n \in DOMAIN ct.parts : ct.parts[n].h \in {One, Keys!Handle(1, x, id)}
    /\ \E n \in 1 .. Len(keySwitching) :
         keySwitching[n] = [from |-> Keys!Handle(1, x, id), to |-> id]

\* What is done and what is left to do is what was asked for, the map goes on from there,
\* and the next re-linearization can do its work.
WalkInv ==
  call.after \in {"check", "walk"} =>
    /\ call.id \in Keys!KeyId /\ Keys!HasRow(call.id)
    /\ DOMAIN Keys!Row(call.id) = Keys!Node
    /\ call.k \in Keys!Units /\ Keys!MulMod(call.done, call.k) = call.asked
    /\ call.k = 1 \/ Keys!Row(call.id)[call.k] # Keys!None
    /\ call.op \in {"check", "walk"} => InCanonicalForm(ctxt[call.c], call.id)
    /\ call.op \in {"relin", "parts"} /\ call.after = "walk" =>
         Switchable(ctxt[call.c], call.id)

CallInv == LocalsInv /\ ControlInv /\ AddInv /\ TensorInv /\ PartsInv /\ WalkInv

IInv ==
  /\ KP!IInv /\ CtxtsInv /\ CallInv
  /\ thrown \in Outcomes /\ thrown # "assertion"

-----------------------------------------------------------------------------
(* Facts that several steps use.                                           *)

LEMMA EmptyGood ==
  /\ Good(Empty) /\ OverPrimeSet(Empty) /\ IsEmpty(Empty) /\ Empty \in CiphertextRecords
<1>1. CtxtPrimes \in Prefixes
  BY DEF Prefixes
<1>2. ValidPrimes(CtxtPrimes) /\ CtxtPrimes \in SUBSET Primes
  BY <1>1, PrefixValid, PrimeFacts
<1>3. <<>> \in Seq(Parts)
  OBVIOUS
<1> QED BY <1>2, <1>3, EmptyList DEF Empty, Good, IsEmpty, CiphertextRecords, OverPrimeSet

LEMMA IdleFacts ==
  /\ Idle \in CallRecords /\ Idle.op = "idle" /\ Idle.after = "idle"
  /\ Idle.tmp = Empty /\ Idle.other = Empty /\ Idle.i = 1 /\ Idle.j = 1
  /\ Idle.done = 1 /\ Idle.k = 1
<1>1. (CHOOSE c \in Ctxts : TRUE) \in Ctxts
  BY BoundsAssumption
<1> QED BY <1>1, NodeFacts, EmptyGood DEF Idle, CallRecords, Ops

LEMMA KeysKept ==
  ASSUME KP!IInv, UNCHANGED pubKey
  PROVE  KP!IInv'
<1>1. UNCHANGED KP!vars
  BY DEF pubKey, KP!vars, KP!keys, KP!loop
<1> QED BY <1>1, KP!NextPreservesIInv, KeysAssumption

LEMMA CtxtReplaced ==
  ASSUME CtxtsInv, NEW c \in Ctxts, NEW ct, Good(ct), ctxt' = [ctxt EXCEPT ![c] = ct]
  PROVE  /\ ctxt' \in [Ctxts -> CiphertextRecords] /\ \A b \in Ctxts : Good(ctxt'[b])
         /\ ctxt'[c] = ct /\ \A b \in Ctxts \ {c} : ctxt'[b] = ctxt[b]
BY DEF CtxtsInv, Good

LEMMA IdleCall ==
  ASSUME CtxtsInv, call = Idle
  PROVE  CallInv
<1>1. call.op = "idle" /\ call.after = "idle" /\ call \in CallRecords
  BY IdleFacts
<1>2. LocalsInv
  BY IdleFacts, EmptyGood DEF LocalsInv, Good
<1> QED BY <1>1, <1>2 DEF CallInv, ControlInv, AddInv, TensorInv, PartsInv, WalkInv

\* A call ends.
LEMMA Returned ==
  ASSUME IInv, UNCHANGED pubKey, NEW why \in Outcomes, why # "assertion", Return(why),
         ctxt' \in [Ctxts -> CiphertextRecords], \A c \in Ctxts : Good(ctxt'[c]),
         abandoned' \subseteq Ctxts, \A c \in Ctxts \ abandoned' : OverPrimeSet(ctxt'[c])
  PROVE  IInv'
<1>1. CtxtsInv'
  BY DEF CtxtsInv
<1>2. call' = Idle'
  BY DEF Return, Idle, Empty
<1>3. CallInv'
  <2>1. CtxtsInv' /\ call' = Idle'
    BY <1>1, <1>2
  <2>2. (CtxtsInv /\ call = Idle => CallInv)'
    BY IdleCall, PTL
  <2> QED BY <2>1, <2>2
<1> QED BY <1>1, <1>3, KeysKept DEF IInv, Return

\* A call that is one step assigns to a ciphertext.
LEMMA AssignedGood ==
  ASSUME IInv, UNCHANGED pubKey, call.op = "idle", NEW c \in Ctxts, NEW ct, Good(ct),
         OverPrimeSet(ct), Assigned(c, ct), Return("none")
  PROVE  IInv'
<1>1. /\ ctxt' = [ctxt EXCEPT ![c] = ct] /\ abandoned' = abandoned \ {c}
      /\ CtxtsInv
  BY DEF Assigned, IInv
<1>2. /\ ctxt' \in [Ctxts -> CiphertextRecords] /\ \A b \in Ctxts : Good(ctxt'[b])
      /\ ctxt'[c] = ct /\ \A b \in Ctxts \ {c} : ctxt'[b] = ctxt[b]
  BY <1>1, CtxtReplaced
<1>3. \A b \in Ctxts \ abandoned' : OverPrimeSet(ctxt'[b])
  BY <1>1, <1>2 DEF CtxtsInv
<1>4. abandoned' \subseteq Ctxts
  BY <1>1 DEF CtxtsInv
<1> QED BY <1>2, <1>3, <1>4, Returned DEF Outcomes

\* A call that is one step fails before it changes anything.
LEMMA FailedGood ==
  ASSUME IInv, UNCHANGED <<pubKey, ctxt, abandoned>>, call.op # "parts",
         NEW why \in Outcomes, why # "assertion", Return(why)
  PROVE  IInv'
BY Returned DEF IInv, CtxtsInv

LEMMA InitEstablishesIInv == Init => IInv
<1> SUFFICES ASSUME Init PROVE IInv
  OBVIOUS
<1>1. KP!IInv
  BY SameInit, KP!InitEstablishesIInv, KeysAssumption DEF Init
<1>2. CtxtsInv
  BY EmptyGood DEF Init, CtxtsInv
<1> QED BY <1>1, <1>2, IdleCall DEF Init, IInv, Outcomes

-----------------------------------------------------------------------------
(* Every step preserves it.                                                *)

LEMMA CallCan ==
  ASSUME IInv, NEW S, CanCall(S)
  PROVE  /\ call = Idle /\ call.op = "idle"
         /\ \A c \in S \cap Ctxts : /\ Good(ctxt[c]) /\ OverPrimeSet(ctxt[c])
                                    /\ c \notin abandoned /\ ctxt[c] \in CiphertextRecords
<1>1. call = Idle /\ call.op = "idle" /\ S \cap abandoned = {}
  BY IdleFacts DEF CanCall
<1> QED BY <1>1 DEF IInv, CtxtsInv

LEMMA Stutters ==
  ASSUME IInv, UNCHANGED vars
  PROVE  IInv'
<1>1. KP!IInv' /\ UNCHANGED <<pubKey, ctxt, call, thrown, abandoned>>
  BY KeysKept DEF IInv, vars
<1>2. CtxtsInv'
  BY <1>1 DEF IInv, CtxtsInv
<1>3. keySwitching' = keySwitching /\ keySwitchMap' = keySwitchMap
  BY <1>1 DEF pubKey
<1>4. CallInv'
  BY <1>1, <1>3 DEF IInv, CallInv, LocalsInv, ControlInv, AddInv, TensorInv, PartsInv, WalkInv,
     Switchable, Keys!HasRow, Keys!Row
<1> QED BY <1>1, <1>2, <1>4 DEF IInv

LEMMA BuildKeysStep ==
  ASSUME IInv, BuildKeys
  PROVE  IInv'
<1>1. /\ Keys!Next /\ UNCHANGED <<ctxt, call, thrown, abandoned>> /\ call = Idle
  BY DEF BuildKeys
<1>2. KP!IInv'
  BY <1>1, SameNext, KP!NextPreservesIInv, KeysAssumption DEF IInv
<1>3. CtxtsInv'
  BY <1>1 DEF IInv, CtxtsInv
<1>4. call' = Idle'
  BY <1>1 DEF Idle, Empty
<1>5. (CtxtsInv /\ call = Idle => CallInv)'
  BY IdleCall, PTL
<1> QED BY <1>1, <1>2, <1>3, <1>4, <1>5 DEF IInv

\* A new ciphertext, of one part or of two.
LEMMA FreshGood ==
  /\ LET ct == [parts |-> <<Part(One, CtxtPrimes)>>, primeSet |-> CtxtPrimes]
     IN Good(ct) /\ OverPrimeSet(ct)
  /\ \A id \in Keys!KeyId :
       LET ct == [parts |-> <<Part(One, CtxtPrimes), Part(Base(id), CtxtPrimes)>>,
                  primeSet |-> CtxtPrimes]
       IN Good(ct) /\ OverPrimeSet(ct)
<1>1. /\ ValidPrimes(CtxtPrimes) /\ CtxtPrimes \in SUBSET Primes
  BY EmptyGood, PrimeFacts DEF Good, Empty
<1>2. Part(One, CtxtPrimes) \in Parts /\ \A id \in Keys!KeyId : Part(Base(id), CtxtPrimes) \in Parts
  BY <1>1, HandleFacts DEF Part, Parts, GoodHandle
<1>3. LET ct == [parts |-> <<Part(One, CtxtPrimes)>>, primeSet |-> CtxtPrimes]
      IN Good(ct) /\ OverPrimeSet(ct)
  <2> DEFINE ps == <<Part(One, CtxtPrimes)>>
  <2>1. /\ ps \in Seq(Parts) /\ DOMAIN ps = {1} /\ ps # <<>> /\ ps[1].h = One
        /\ ps[1].primes = CtxtPrimes
    BY <1>2 DEF Part
  <2> HIDE DEF ps
  <2>2. GoodList(ps)
    BY <2>1, HandleFacts DEF GoodList
  <2> QED BY <1>1, <2>1, <2>2 DEF Good, CiphertextRecords, OverPrimeSet, ps
<1>4. ASSUME NEW id \in Keys!KeyId
      PROVE  LET ct == [parts |-> <<Part(One, CtxtPrimes), Part(Base(id), CtxtPrimes)>>,
                        primeSet |-> CtxtPrimes]
             IN Good(ct) /\ OverPrimeSet(ct)
  <2> DEFINE ps == <<Part(One, CtxtPrimes), Part(Base(id), CtxtPrimes)>>
  <2>1. /\ ps \in Seq(Parts) /\ DOMAIN ps = {1, 2} /\ ps # <<>> /\ ps[1].h = One
        /\ ps[2].h = Base(id) /\ \A i \in DOMAIN ps : ps[i].primes = CtxtPrimes
    BY <1>2 DEF Part
  <2> HIDE DEF ps
  <2>2. GoodList(ps)
    BY <2>1, HandleFacts DEF GoodList
  <2> QED BY <1>1, <2>1, <2>2 DEF Good, CiphertextRecords, OverPrimeSet, ps
<1> QED BY <1>3, <1>4

LEMMA EncryptStep ==
  ASSUME IInv, NEW c \in Ctxts, NEW id \in Keys!KeyId, Encrypt(c, id)
  PROVE  IInv'
<1> DEFINE ct == [parts |-> <<Part(One, CtxtPrimes), Part(Base(id), CtxtPrimes)>>,
                  primeSet |-> CtxtPrimes]
<1>1. CanCall({}) /\ Assigned(c, ct) /\ Return("none") /\ UNCHANGED pubKey
  BY DEF Encrypt
<1>2. Good(ct) /\ OverPrimeSet(ct)
  BY FreshGood
<1> HIDE DEF ct
<1>3. call.op = "idle"
  BY <1>1, CallCan
<1> QED BY <1>1, <1>2, <1>3, AssignedGood

LEMMA DummyEncryptStep ==
  ASSUME IInv, NEW c \in Ctxts, DummyEncrypt(c)
  PROVE  IInv'
<1> DEFINE ct == [parts |-> <<Part(One, CtxtPrimes)>>, primeSet |-> CtxtPrimes]
<1>1. CanCall({}) /\ Assigned(c, ct) /\ Return("none") /\ UNCHANGED pubKey
  BY DEF DummyEncrypt
<1>2. Good(ct) /\ OverPrimeSet(ct)
  BY FreshGood
<1> HIDE DEF ct
<1>3. call.op = "idle"
  BY <1>1, CallCan
<1> QED BY <1>1, <1>2, <1>3, AssignedGood

LEMMA AddCtxtStep ==
  ASSUME IInv, NEW c \in Ctxts, NEW d \in Ctxts, AddCtxt(c, d)
  PROVE  IInv'
<1>1. /\ CanCall({c, d}) /\ ~ IsEmpty(ctxt[d]) /\ UNCHANGED pubKey
  BY DEF AddCtxt
<1>2. /\ call = Idle /\ call.op = "idle" /\ CtxtsInv
      /\ Good(ctxt[c]) /\ OverPrimeSet(ctxt[c]) /\ c \notin abandoned
      /\ Good(ctxt[d]) /\ OverPrimeSet(ctxt[d]) /\ d \notin abandoned
  BY <1>1, CallCan DEF IInv
<1>3. CASE IsEmpty(ctxt[c])
  <2>1. Assigned(c, ctxt[d]) /\ Return("none")
    BY <1>3 DEF AddCtxt
  <2> QED BY <1>1, <1>2, <2>1, AssignedGood
<1>4. CASE ~ IsEmpty(ctxt[c])
  <2> DEFINE up == ModUp(ctxt[c], ctxt[d].primeSet)
             other == ModUp(ctxt[d], ctxt[c].primeSet)
  <2>1. /\ Assigned(c, up) /\ thrown' = Checked(up.primeSet)
        /\ call' = IF thrown' # "none" THEN Idle
                   ELSE [Idle EXCEPT !.op = "add", !.c = c, !.other = other]
    BY <1>4 DEF AddCtxt
  <2>2. /\ Good(up) /\ OverPrimeSet(up) /\ ~ IsEmpty(up)
        /\ up.primeSet = ctxt[c].primeSet \cup ctxt[d].primeSet
        /\ Good(other) /\ OverPrimeSet(other)
        /\ other.primeSet = ctxt[d].primeSet \cup ctxt[c].primeSet
    BY <1>2, <1>4, ModUpGood DEF Good
  <2> HIDE DEF up, other
  <2>3. VerifyPrimeSet(up.primeSet)
    BY <1>2, <2>2, UnionValid DEF Good
  <2>4. /\ thrown' = "none" /\ call' = [Idle EXCEPT !.op = "add", !.c = c, !.other = other]
    BY <2>1, <2>3 DEF Checked
  <2>5. /\ call' \in CallRecords /\ call'.op = "add" /\ call'.c = c /\ call'.other = other
        /\ call'.tmp = Empty /\ call'.after = "idle"
    BY <2>2, <2>4, IdleFacts DEF CallRecords, Ops, Good
  <2>6. ctxt' = [ctxt EXCEPT ![c] = up] /\ abandoned' = abandoned \ {c}
    BY <2>1 DEF Assigned
  <2>7. /\ ctxt' \in [Ctxts -> CiphertextRecords] /\ \A b \in Ctxts : Good(ctxt'[b])
        /\ ctxt'[c] = up /\ \A b \in Ctxts \ {c} : ctxt'[b] = ctxt[b]
    BY <1>2, <2>2, <2>6, CtxtReplaced
  <2>8. CtxtsInv'
    BY <1>2, <2>2, <2>6, <2>7 DEF CtxtsInv
  <2>9. LocalsInv'
    BY <2>2, <2>5, EmptyGood DEF LocalsInv, Good
  <2>10. ControlInv' /\ AddInv'
    BY <2>2, <2>5, <2>6, <2>7 DEF ControlInv, AddInv
  <2>11. TensorInv' /\ PartsInv' /\ WalkInv'
    BY <2>5 DEF TensorInv, PartsInv, WalkInv
  <2>12. KP!IInv'
    BY <1>1, KeysKept DEF IInv
  <2> QED BY <2>4, <2>8, <2>9, <2>10, <2>11, <2>12 DEF IInv, CallInv, Outcomes
<1> QED BY <1>3, <1>4

LEMMA AddPartStep ==
  ASSUME IInv, AddPart
  PROVE  IInv'
<1> DEFINE c == call.c
           p == call.other.parts[call.i]
           ps == PartAdded(ctxt[c].parts, p)
           ct == [ctxt[c] EXCEPT !.parts = ps]
<1>1. /\ call.op = "add" /\ call.i =< Len(call.other.parts)
      /\ ctxt' = [ctxt EXCEPT ![c] = ct]
      /\ call' = [call EXCEPT !.i = @ + 1]
      /\ UNCHANGED <<pubKey, thrown, abandoned>>
  BY DEF AddPart
<1>2. /\ call \in CallRecords /\ c \in Ctxts /\ CtxtsInv /\ Good(ctxt[c]) /\ OverPrimeSet(ctxt[c])
      /\ ~ IsEmpty(ctxt[c]) /\ c \notin abandoned
      /\ call.other.primeSet = ctxt[c].primeSet
      /\ GoodList(call.other.parts) /\ OverPrimeSet(call.other)
      /\ GoodList(ctxt[c].parts) /\ ctxt[c] \in CiphertextRecords
  <2>1. call \in CallRecords /\ c \in Ctxts
    BY DEF IInv, CallInv, LocalsInv, CallRecords
  <2> QED BY <1>1, <2>1 DEF IInv, CallInv, LocalsInv, ControlInv, AddInv, CtxtsInv, Good
<1>3. p \in Parts /\ GoodHandle(p.h) /\ p.primes = ctxt[c].primeSet
  <2>1. call.i \in DOMAIN call.other.parts
    BY <1>1, <1>2 DEF CallRecords, GoodList
  <2> QED BY <1>2, <2>1 DEF GoodList, OverPrimeSet
<1> HIDE DEF p
<1>4. /\ GoodList(ps) /\ ps # <<>> /\ SamePrimes(ps, ctxt[c].primeSet)
  <2>1. ctxt[c].parts # <<>> /\ SamePrimes(ctxt[c].parts, ctxt[c].primeSet)
    BY <1>2 DEF IsEmpty, SamePrimes, OverPrimeSet
  <2> QED BY <1>2, <1>3, <2>1, PartAddedGood
<1> HIDE DEF ps
<1>5. ct = [parts |-> ps, primeSet |-> ctxt[c].primeSet]
  BY <1>2 DEF CiphertextRecords
<1>6. /\ Good(ct) /\ OverPrimeSet(ct) /\ ~ IsEmpty(ct) /\ ct.primeSet = ctxt[c].primeSet
  BY <1>2, <1>4, <1>5 DEF Good, OverPrimeSet, SamePrimes, IsEmpty, CiphertextRecords, GoodList
<1> HIDE DEF ct
<1>7. /\ call' \in CallRecords /\ call'.op = "add" /\ call'.c = c /\ call'.other = call.other
      /\ call'.tmp = call.tmp /\ call'.after = call.after
  BY <1>1, <1>2 DEF CallRecords
<1>8. /\ ctxt' \in [Ctxts -> CiphertextRecords] /\ \A b \in Ctxts : Good(ctxt'[b])
      /\ ctxt'[c] = ct /\ \A b \in Ctxts \ {c} : ctxt'[b] = ctxt[b]
  BY <1>1, <1>2, <1>6, CtxtReplaced
<1> HIDE DEF c
<1>9. CtxtsInv'
  BY <1>1, <1>2, <1>6, <1>8 DEF CtxtsInv
<1>10. LocalsInv'
  BY <1>7 DEF IInv, CallInv, LocalsInv
<1>11. ControlInv' /\ AddInv'
  BY <1>1, <1>2, <1>6, <1>7, <1>8 DEF IInv, CallInv, ControlInv, AddInv
<1>12. TensorInv' /\ PartsInv' /\ WalkInv'
  BY <1>1, <1>7 DEF IInv, CallInv, ControlInv, TensorInv, PartsInv, WalkInv
<1> QED BY <1>1, <1>9, <1>10, <1>11, <1>12, KeysKept DEF IInv, CallInv

LEMMA AddEndStep ==
  ASSUME IInv, AddEnd
  PROVE  IInv'
BY FailedGood DEF AddEnd, Outcomes

\* A call that is over leaves a good ciphertext to the code after it.
LEMMA GoneOn ==
  ASSUME IInv, GoOn, UNCHANGED <<pubKey, thrown, abandoned>>,
         call.op \in {"tensor", "relin", "parts"},
         NEW ct, Good(ct), OverPrimeSet(ct), ~ IsEmpty(ct),
         ctxt' = [ctxt EXCEPT ![call.c] = ct],
         call.after \in {"check", "walk"} => InCanonicalForm(ct, call.id)
  PROVE  IInv'
<1> DEFINE c == call.c
<1>1. /\ call \in CallRecords /\ c \in Ctxts /\ CtxtsInv /\ c \notin abandoned
      /\ call.after \in {"idle", "relin", "clean", "check", "walk"}
      /\ UNCHANGED <<keySwitching, keySwitchMap>> /\ KP!IInv'
  <2>1. call \in CallRecords /\ c \in Ctxts
    BY DEF IInv, CallInv, LocalsInv, CallRecords
  <2>2. KP!IInv' /\ UNCHANGED <<keySwitching, keySwitchMap>>
    BY KeysKept DEF IInv, pubKey
  <2> QED BY <2>1, <2>2 DEF IInv, CallInv, ControlInv
<1>2. /\ ctxt' \in [Ctxts -> CiphertextRecords] /\ \A b \in Ctxts : Good(ctxt'[b])
      /\ ctxt'[c] = ct /\ \A b \in Ctxts \ {c} : ctxt'[b] = ctxt[b]
  BY <1>1, CtxtReplaced
<1>3. \A b \in Ctxts \ abandoned' : OverPrimeSet(ctxt'[b])
  BY <1>1, <1>2 DEF CtxtsInv
<1>4. CASE call.after = "idle"
  <2>1. Return(thrown)
    BY <1>4 DEF GoOn, Return
  <2>2. thrown \in Outcomes /\ thrown # "assertion"
    BY DEF IInv
  <2>3. abandoned' \subseteq Ctxts
    BY <1>1 DEF CtxtsInv
  <2> QED BY <1>2, <1>3, <2>1, <2>2, <2>3, Returned
<1>5. CASE call.after # "idle"
  <2>1. call' = [call EXCEPT !.op = call.after, !.i = 1, !.j = 1, !.tmp = Empty,
                             !.other = Empty,
                             !.after = IF call.after = "relin" THEN "idle" ELSE @]
    BY <1>5 DEF GoOn
  <2>2. /\ call' \in CallRecords /\ call'.op = call.after /\ call'.c = c /\ call'.i = 1
        /\ call'.tmp = Empty /\ call'.other = Empty /\ call'.id = call.id
        /\ call'.k = call.k /\ call'.done = call.done /\ call'.asked = call.asked
        /\ call'.after = IF call.after = "relin" THEN "idle" ELSE call.after
    <3>1. call.after \in Ops /\ Empty \in CiphertextRecords /\ 1 \in Nat \ {0} /\ "idle" \in Ops
      BY <1>1, EmptyGood DEF CallRecords, Ops
    <3>2. CASE call.after = "relin"
      <4>1. call' = [call EXCEPT !.op = call.after, !.i = 1, !.j = 1, !.tmp = Empty,
                                 !.other = Empty, !.after = "idle"]
        BY <2>1, <3>2
      <4> QED BY <1>1, <3>1, <3>2, <4>1 DEF CallRecords
    <3>3. CASE call.after # "relin"
      <4>1. call' = [call EXCEPT !.op = call.after, !.i = 1, !.j = 1, !.tmp = Empty,
                                 !.other = Empty]
        BY <1>1, <2>1, <3>3 DEF CallRecords
      <4> QED BY <1>1, <3>1, <3>3, <4>1 DEF CallRecords
    <3> QED BY <3>2, <3>3
  <2> HIDE DEF c
  <2>3. CtxtsInv'
    BY <1>1, <1>2, <1>3 DEF CtxtsInv
  <2>4. LocalsInv'
    BY <2>2, EmptyGood DEF LocalsInv, Good
  <2>5. ControlInv' /\ AddInv' /\ TensorInv' /\ PartsInv'
    BY <1>1, <1>2, <1>5, <2>2 DEF ControlInv, AddInv, TensorInv, PartsInv
  <2>6. WalkInv'
    <3>1. \A id : Keys!HasRow(id)' = Keys!HasRow(id) /\ Keys!Row(id)' = Keys!Row(id)
      BY <1>1 DEF Keys!HasRow, Keys!Row
    <3>2. ASSUME call.after \in {"check", "walk"}
          PROVE  WalkInv'
      <4>1. /\ call.id \in Keys!KeyId /\ Keys!HasRow(call.id)
            /\ DOMAIN Keys!Row(call.id) = Keys!Node
            /\ call.k \in Keys!Units /\ Keys!MulMod(call.done, call.k) = call.asked
            /\ call.k = 1 \/ Keys!Row(call.id)[call.k] # Keys!None
        BY <3>2 DEF IInv, CallInv, WalkInv
      <4>2. InCanonicalForm(ctxt'[call'.c], call'.id)
        BY <1>2, <2>2, <3>2 DEF c
      <4>3. InCanonicalForm(ctxt[call.c], call.id)'
        BY <4>2
      <4> QED BY <3>1, <3>2, <4>1, <4>3, <2>2 DEF WalkInv
    <3>3. ASSUME call.after \notin {"check", "walk"}
          PROVE  WalkInv'
      BY <2>2, <3>3 DEF WalkInv
    <3> QED BY <3>2, <3>3
  <2> QED BY <1>1, <2>3, <2>4, <2>5, <2>6 DEF IInv, CallInv
<1> QED BY <1>4, <1>5

LEMMA MultLowLvlStep ==
  ASSUME IInv, NEW c \in Ctxts, NEW d \in Ctxts, NEW destructive \in BOOLEAN,
         NEW after \in {"idle", "relin"}, MultLowLvl(c, d, destructive, after)
  PROVE  IInv'
<1>1. /\ CanCall({c, d}) /\ ~ IsEmpty(ctxt[c]) /\ UNCHANGED pubKey
  BY DEF MultLowLvl
<1>2. /\ call = Idle /\ call.op = "idle" /\ CtxtsInv
      /\ Good(ctxt[c]) /\ OverPrimeSet(ctxt[c]) /\ c \notin abandoned
      /\ Good(ctxt[d]) /\ OverPrimeSet(ctxt[d]) /\ d \notin abandoned
  BY <1>1, CallCan DEF IInv
<1>3. CASE IsEmpty(ctxt[d])
  <2>1. Assigned(c, ctxt[d]) /\ Return("none")
    BY <1>3 DEF MultLowLvl
  <2> QED BY <1>1, <1>2, <2>1, AssignedGood
<1>4. CASE ~ IsEmpty(ctxt[d])
  <2>1. PICK P \in SizeTable :
          /\ ctxt' = [b \in Ctxts |->
               IF b = c \/ (b = d /\ destructive) THEN Brought(ctxt[b], P) ELSE ctxt[b]]
          /\ call' = [Idle EXCEPT !.op = "tensor", !.after = after, !.c = c,
               !.other = Brought(ctxt[d], P),
               !.tmp = [parts |-> <<>>, primeSet |-> Brought(ctxt[c], P).primeSet]]
          /\ thrown' = "none" /\ UNCHANGED abandoned
    BY <1>4 DEF MultLowLvl
  <2> DEFINE left == Brought(ctxt[c], P)
             right == Brought(ctxt[d], P)
             tmp == [parts |-> <<>>, primeSet |-> left.primeSet]
  <2>2. P \in SUBSET Primes /\ IF P = {} THEN ValidPrimes({FirstCtxtPrime}) ELSE ValidPrimes(P)
    BY SizeTableValid
  <2>3. /\ Good(left) /\ OverPrimeSet(left) /\ ~ IsEmpty(left)
        /\ Good(right) /\ OverPrimeSet(right) /\ ~ IsEmpty(right)
        /\ right.primeSet = left.primeSet
    <3>1. /\ Good(left) /\ OverPrimeSet(left) /\ ~ IsEmpty(left)
          /\ left.primeSet = IF P = {} THEN {FirstCtxtPrime} ELSE P
      BY <1>1, <1>2, <2>2, BroughtGood
    <3>2. /\ Good(right) /\ OverPrimeSet(right) /\ ~ IsEmpty(right)
          /\ right.primeSet = IF P = {} THEN {FirstCtxtPrime} ELSE P
      BY <1>2, <1>4, <2>2, BroughtGood
    <3> QED BY <3>1, <3>2
  <2>4. \A b \in {c, d} : Good(Brought(ctxt[b], P)) /\ OverPrimeSet(Brought(ctxt[b], P))
    BY <2>3
  <2>5. ctxt'[c] = left
    BY <2>1
  <2> HIDE DEF left, right
  <2>6. /\ tmp \in CiphertextRecords /\ GoodList(tmp.parts) /\ OverPrimeSet(tmp) /\ IsEmpty(tmp)
    BY <2>3, EmptyList, EmptyGood DEF Good, CiphertextRecords, OverPrimeSet, IsEmpty
  <2>7. call' = [Idle EXCEPT !.op = "tensor", !.after = after, !.c = c, !.other = right, !.tmp = tmp]
    BY <2>1 DEF left, right
  <2>8. tmp.primeSet = left.primeSet
    OBVIOUS
  <2> HIDE DEF tmp
  <2>9. /\ call' \in CallRecords /\ call'.op = "tensor" /\ call'.c = c /\ call'.other = right
        /\ call'.tmp = tmp /\ call'.after = after /\ call'.i = 1 /\ call'.j = 1
    BY <2>3, <2>6, <2>7, IdleFacts DEF CallRecords, Ops, Good
  <2>10. CtxtsInv'
    <3>1. \A b \in Ctxts : /\ Good(ctxt'[b]) /\ ctxt'[b] \in CiphertextRecords
                           /\ b \notin abandoned => OverPrimeSet(ctxt'[b])
      <4> SUFFICES ASSUME NEW b \in Ctxts
                   PROVE  /\ Good(ctxt'[b]) /\ ctxt'[b] \in CiphertextRecords
                          /\ b \notin abandoned => OverPrimeSet(ctxt'[b])
        OBVIOUS
      <4>1. CASE ctxt'[b] = ctxt[b]
        BY <1>2, <4>1 DEF CtxtsInv
      <4>2. CASE b \in {c, d} /\ ctxt'[b] = Brought(ctxt[b], P)
        BY <2>4, <4>2 DEF Good
      <4> QED BY <2>1, <4>1, <4>2
    <3>2. ctxt' \in [Ctxts -> CiphertextRecords]
      BY <2>1, <3>1
    <3> QED BY <1>2, <2>1, <3>1, <3>2 DEF CtxtsInv
  <2>11. LocalsInv'
    BY <2>3, <2>6, <2>9 DEF LocalsInv, Good
  <2>12. ControlInv' /\ AddInv' /\ PartsInv' /\ WalkInv'
    BY <1>2, <2>1, <2>3, <2>5, <2>9 DEF ControlInv, AddInv, PartsInv, WalkInv
  <2>13. TensorInv'
    <3>1. 1 \in DOMAIN right.parts
      BY <2>3 DEF Good, GoodList, IsEmpty
    <3> QED BY <2>3, <2>5, <2>8, <2>9, <3>1 DEF TensorInv
  <2>14. KP!IInv'
    BY <1>1, KeysKept DEF IInv
  <2> QED BY <2>1, <2>10, <2>11, <2>12, <2>13, <2>14 DEF IInv, CallInv, Outcomes
<1> QED BY <1>3, <1>4

LEMMA TensorPartStep ==
  ASSUME IInv, TensorPart
  PROVE  IInv'
<1> DEFINE c == call.c
           p == ctxt[c].parts[call.i]
           q == call.other.parts[call.j]
           last_j == call.j = Len(call.other.parts)
           ps == PartAdded(call.tmp.parts, Part(Mul(q.h, p.h), p.primes))
           P == ctxt[c].primeSet
<1>1. /\ call.op = "tensor" /\ call.i =< Len(ctxt[c].parts)
      /\ UNCHANGED <<pubKey, ctxt, abandoned>>
      /\ \/ MulFails(q.h, p.h) /\ Return("handles")
         \/ q.primes # p.primes /\ Return("assertion")
         \/ /\ call' = [call EXCEPT !.tmp.parts = ps, !.j = IF last_j THEN 1 ELSE @ + 1,
                                    !.i = IF last_j THEN @ + 1 ELSE @]
            /\ UNCHANGED thrown
  BY DEF TensorPart
<1>2. /\ call \in CallRecords /\ c \in Ctxts /\ CtxtsInv /\ Good(ctxt[c]) /\ OverPrimeSet(ctxt[c])
      /\ ~ IsEmpty(ctxt[c]) /\ c \notin abandoned /\ call.after \in {"idle", "relin"}
      /\ ~ IsEmpty(call.other) /\ call.j \in DOMAIN call.other.parts
      /\ call.other.primeSet = P /\ call.tmp.primeSet = P
      /\ IsEmpty(call.tmp) => call.i = 1 /\ call.j = 1
      /\ GoodList(call.other.parts) /\ OverPrimeSet(call.other)
      /\ GoodList(call.tmp.parts) /\ OverPrimeSet(call.tmp)
      /\ GoodList(ctxt[c].parts) /\ ctxt[c] \in CiphertextRecords
  <2>1. call \in CallRecords /\ c \in Ctxts
    BY DEF IInv, CallInv, LocalsInv, CallRecords
  <2> QED BY <1>1, <2>1 DEF IInv, CallInv, LocalsInv, ControlInv, TensorInv, CtxtsInv, Good
<1>3. call.i \in DOMAIN ctxt[c].parts
  <2>1. ctxt[c].parts \in Seq(Parts) /\ call.i \in Nat \ {0}
    BY <1>2 DEF CallRecords, GoodList
  <2> HIDE DEF c
  <2> QED BY <1>1, <2>1
<1>4. /\ p \in Parts /\ GoodHandle(p.h) /\ p.primes = P /\ (call.i = 1 => p.h = One)
      /\ q \in Parts /\ GoodHandle(q.h) /\ q.primes = P /\ (call.j = 1 => q.h = One)
  <2>1. p \in Parts /\ GoodHandle(p.h) /\ p.primes = P /\ (call.i = 1 => p.h = One)
    BY <1>2, <1>3 DEF GoodList, OverPrimeSet, IsEmpty
  <2>2. q \in Parts /\ GoodHandle(q.h) /\ q.primes = P /\ (call.j = 1 => q.h = One)
    BY <1>2 DEF GoodList, OverPrimeSet, IsEmpty
  <2> QED BY <2>1, <2>2
<1> HIDE DEF p, q
<1>5. CASE MulFails(q.h, p.h) /\ Return("handles")
  BY <1>1, <1>5, FailedGood DEF Outcomes
<1>6. CASE /\ call' = [call EXCEPT !.tmp.parts = ps, !.j = IF last_j THEN 1 ELSE @ + 1,
                                   !.i = IF last_j THEN @ + 1 ELSE @]
           /\ UNCHANGED thrown
  <2>1. GoodHandle(Mul(q.h, p.h)) /\ (q.h = One /\ p.h = One => Mul(q.h, p.h) = One)
    BY <1>4, MulGood
  <2>2. LET r == Part(Mul(q.h, p.h), p.primes)
        IN r \in Parts /\ r.h = Mul(q.h, p.h) /\ r.primes = P
    BY <1>4, <2>1 DEF Part, Parts, GoodHandle
  <2>3. call.tmp.parts # <<>> \/ Mul(q.h, p.h) = One
    BY <1>2, <1>4, <2>1 DEF IsEmpty
  <2>4. GoodList(ps) /\ ps # <<>> /\ SamePrimes(ps, P)
    <3>1. SamePrimes(call.tmp.parts, P)
      BY <1>2 DEF SamePrimes, OverPrimeSet
    <3> QED BY <1>2, <2>1, <2>2, <2>3, <3>1, PartAddedGood
  <2> HIDE DEF ps
  <2>5. /\ [call.tmp EXCEPT !.parts = ps] = [parts |-> ps, primeSet |-> P]
        /\ [parts |-> ps, primeSet |-> P] \in CiphertextRecords
    BY <1>2, <2>4 DEF CallRecords, CiphertextRecords, GoodList
  <2>6. /\ call'.tmp = [parts |-> ps, primeSet |-> P] /\ call'.op = "tensor" /\ call'.c = c
        /\ call'.other = call.other /\ call'.after = call.after
        /\ call'.j = IF last_j THEN 1 ELSE call.j + 1
        /\ call' \in CallRecords
    <3>1. call' = [call EXCEPT !.tmp = [parts |-> ps, primeSet |-> P],
                               !.j = IF last_j THEN 1 ELSE call.j + 1,
                               !.i = IF last_j THEN call.i + 1 ELSE call.i]
      BY <1>2, <1>6, <2>5 DEF CallRecords
    <3> HIDE DEF last_j
    <3>2. call.j + 1 \in Nat \ {0} /\ call.i + 1 \in Nat \ {0} /\ 1 \in Nat \ {0}
      BY <1>2 DEF CallRecords
    <3>3. CASE last_j
      BY <1>1, <1>2, <2>5, <3>1, <3>2, <3>3 DEF CallRecords
    <3>4. CASE ~ last_j
      BY <1>1, <1>2, <2>5, <3>1, <3>2, <3>4 DEF CallRecords
    <3> QED BY <3>3, <3>4
  <2>7. call'.j \in DOMAIN call.other.parts
    BY <1>2, <2>6 DEF GoodList, IsEmpty, CallRecords
  <2>8. UNCHANGED ctxt /\ UNCHANGED abandoned /\ UNCHANGED thrown
    BY <1>1, <1>6
  <2> HIDE DEF c, P, last_j
  <2>9. CtxtsInv'
    BY <1>1, <1>2, <2>6, <2>8 DEF CtxtsInv
  <2>10. LocalsInv'
    BY <1>2, <2>4, <2>6 DEF LocalsInv, OverPrimeSet, SamePrimes
  <2>11. ControlInv' /\ AddInv' /\ PartsInv' /\ WalkInv'
    BY <1>2, <2>6, <2>8 DEF ControlInv, AddInv, PartsInv, WalkInv
  <2>12. TensorInv'
    BY <1>2, <2>4, <2>6, <2>7, <2>8 DEF TensorInv, IsEmpty, P
  <2> QED BY <1>1, <2>8, <2>9, <2>10, <2>11, <2>12, KeysKept DEF IInv, CallInv
<1> QED BY <1>1, <1>4, <1>5, <1>6

LEMMA TensorEndStep ==
  ASSUME IInv, TensorEnd
  PROVE  IInv'
<1>1. /\ call.op = "tensor" /\ call.i > Len(ctxt[call.c].parts)
      /\ ctxt' = [ctxt EXCEPT ![call.c] = call.tmp] /\ GoOn
      /\ UNCHANGED <<pubKey, thrown, abandoned>>
  BY DEF TensorEnd
<1>2. /\ call \in CallRecords /\ call.c \in Ctxts /\ Good(ctxt[call.c])
      /\ ~ IsEmpty(ctxt[call.c]) /\ call.after \in {"idle", "relin"}
      /\ call.tmp.primeSet = ctxt[call.c].primeSet /\ (IsEmpty(call.tmp) => call.i = 1)
      /\ GoodList(call.tmp.parts) /\ OverPrimeSet(call.tmp)
  <2>1. call \in CallRecords /\ call.c \in Ctxts
    BY DEF IInv, CallInv, LocalsInv, CallRecords
  <2> QED BY <1>1, <2>1 DEF IInv, CallInv, LocalsInv, ControlInv, TensorInv, CtxtsInv
<1>3. Good(call.tmp)
  BY <1>2 DEF Good, CallRecords
<1>4. ~ IsEmpty(call.tmp)
  <2>1. Len(ctxt[call.c].parts) \in Nat \ {0}
    BY <1>2 DEF Good, GoodList, IsEmpty
  <2> QED BY <1>1, <1>2, <2>1
<1> QED BY <1>1, <1>2, <1>3, <1>4, GoneOn

\* reLinearize() and cleanUp() begin.
LEMMA RelinCalled ==
  ASSUME IInv, UNCHANGED <<pubKey, ctxt, abandoned>>, thrown' = "none",
         NEW c \in Ctxts, CanCall({c}), ~ IsEmpty(ctxt[c]),
         call' \in CallRecords, call'.op = "relin", call'.c = c, call'.i = 1,
         call'.after \in {"idle", "clean"}, call'.tmp = Empty, call'.other = Empty
  PROVE  IInv'
<1>1. /\ call.op = "idle" /\ CtxtsInv /\ c \notin abandoned
  BY CallCan DEF IInv
<1>2. CtxtsInv'
  BY <1>1 DEF CtxtsInv
<1>3. LocalsInv'
  BY EmptyGood DEF LocalsInv, Good
<1>4. ControlInv' /\ AddInv' /\ TensorInv' /\ PartsInv' /\ WalkInv'
  BY <1>1 DEF ControlInv, AddInv, TensorInv, PartsInv, WalkInv
<1> QED BY <1>2, <1>3, <1>4, KeysKept DEF IInv, CallInv, Outcomes

LEMMA ReLinearizeStep ==
  ASSUME IInv, NEW c \in Ctxts, NEW id \in Keys!KeyId \cup {AnyKey}, ReLinearize(c, id)
  PROVE  IInv'
<1>1. /\ CanCall({c}) /\ ~ IsEmpty(ctxt[c]) /\ thrown' = "none"
      /\ call' = [Idle EXCEPT !.op = "relin", !.c = c, !.id = id]
      /\ UNCHANGED <<pubKey, ctxt, abandoned>>
  BY DEF ReLinearize
<1>2. /\ call' \in CallRecords /\ call'.op = "relin" /\ call'.c = c /\ call'.i = 1
      /\ call'.after = "idle" /\ call'.tmp = Empty /\ call'.other = Empty
  BY <1>1, IdleFacts DEF CallRecords, Ops
<1> QED BY <1>1, <1>2, RelinCalled

LEMMA CleanUpStep ==
  ASSUME IInv, NEW c \in Ctxts, CleanUp(c)
  PROVE  IInv'
<1>1. /\ CanCall({c}) /\ ~ IsEmpty(ctxt[c]) /\ thrown' = "none"
      /\ call' = [Idle EXCEPT !.op = "relin", !.after = "clean", !.c = c]
      /\ UNCHANGED <<pubKey, ctxt, abandoned>>
  BY DEF CleanUp
<1>2. /\ call' \in CallRecords /\ call'.op = "relin" /\ call'.c = c /\ call'.i = 1
      /\ call'.after = "clean" /\ call'.tmp = Empty /\ call'.other = Empty
  BY <1>1, IdleFacts DEF CallRecords, Ops
<1> QED BY <1>1, <1>2, RelinCalled

\* The ciphertext of the running call.
LEMMA Current ==
  ASSUME IInv, call.op # "idle"
  PROVE  /\ call \in CallRecords /\ call.c \in Ctxts /\ CtxtsInv
         /\ Good(ctxt[call.c]) /\ ctxt[call.c] \in CiphertextRecords
         /\ ~ IsEmpty(ctxt[call.c]) /\ call.c \notin abandoned
         /\ call.op # "parts" => OverPrimeSet(ctxt[call.c])
<1>1. call \in CallRecords /\ call.c \in Ctxts
  BY DEF IInv, CallInv, LocalsInv, CallRecords
<1> QED BY <1>1 DEF IInv, CallInv, ControlInv, CtxtsInv, Good

LEMMA RowsKept ==
  ASSUME UNCHANGED pubKey
  PROVE  /\ \A id : Keys!HasRow(id)' = Keys!HasRow(id) /\ Keys!Row(id)' = Keys!Row(id)
         /\ keySwitching' = keySwitching
BY DEF pubKey, Keys!HasRow, Keys!Row

\* A ciphertext keeps its handles.
LEMMA SwitchableKept ==
  ASSUME NEW ct, NEW new, NEW id, Switchable(ct, id), DOMAIN new.parts = DOMAIN ct.parts,
         \A n \in DOMAIN ct.parts : new.parts[n].h = ct.parts[n].h
  PROVE  Switchable(new, id)
BY DEF Switchable

LEMMA WalkGoesOn ==
  ASSUME WalkInv, UNCHANGED pubKey,
         call.op \in {"relin", "parts"}, call'.op = "parts", call'.after = call.after,
         call'.id = call.id, call'.k = call.k, call'.done = call.done, call'.asked = call.asked,
         call.after = "walk" /\ Switchable(ctxt[call.c], call.id) =>
           Switchable(ctxt'[call'.c], call.id)
  PROVE  WalkInv'
<1>1. ASSUME call.after \notin {"check", "walk"} PROVE WalkInv'
  BY <1>1 DEF WalkInv
<1>2. ASSUME call.after \in {"check", "walk"} PROVE WalkInv'
  <2>1. /\ call.id \in Keys!KeyId /\ Keys!HasRow(call.id)
        /\ DOMAIN Keys!Row(call.id) = Keys!Node
        /\ call.k \in Keys!Units /\ Keys!MulMod(call.done, call.k) = call.asked
        /\ call.k = 1 \/ Keys!Row(call.id)[call.k] # Keys!None
        /\ call.after = "walk" => Switchable(ctxt[call.c], call.id)
    BY <1>2 DEF WalkInv
  <2>2. call'.after = "walk" => Switchable(ctxt'[call'.c], call'.id)
    BY <2>1
  <2>3. call'.after = "walk" => Switchable(ctxt[call.c], call.id)'
    BY <2>2, RowsKept DEF Switchable
  <2> QED BY <1>2, <2>1, <2>3, RowsKept DEF WalkInv
<1> QED BY <1>1, <1>2

LEMMA RelinBeginStep ==
  ASSUME IInv, RelinBegin
  PROVE  IInv'
<1> DEFINE c == call.c
           ct == ctxt[c]
<1>1. /\ call.op = "relin" /\ UNCHANGED <<pubKey, abandoned>>
      /\ \/ InCanonicalForm(ct, call.id) /\ GoOn /\ UNCHANGED <<ctxt, thrown>>
         \/ \E P \in DropTargets(ct) :
              \/ P = {} /\ Return("assertion") /\ UNCHANGED ctxt
              \/ /\ ctxt' = [ctxt EXCEPT ![c] = Brought(ct, P)]
                 /\ call' = [call EXCEPT !.op = "parts",
                      !.tmp = [parts |-> <<>>, primeSet |-> P \cup SpecialPrimes]]
                 /\ UNCHANGED thrown
  BY DEF RelinBegin
<1>2. /\ call \in CallRecords /\ c \in Ctxts /\ CtxtsInv /\ Good(ct) /\ ~ IsEmpty(ct)
      /\ c \notin abandoned /\ OverPrimeSet(ct) /\ ct \in CiphertextRecords
  BY <1>1, Current
<1>3. /\ call.after \in {"idle", "clean", "check", "walk"} /\ call.i = 1
      /\ GoodList(call.other.parts) /\ OverPrimeSet(call.other) /\ WalkInv
  BY <1>1 DEF IInv, CallInv, ControlInv, LocalsInv
<1>4. CASE InCanonicalForm(ct, call.id) /\ GoOn /\ UNCHANGED <<ctxt, thrown>>
  <2>1. ctxt' = [ctxt EXCEPT ![call.c] = ct]
    BY <1>2, <1>4 DEF CtxtsInv
  <2> QED BY <1>1, <1>2, <1>4, <2>1, GoneOn
<1>5. ASSUME NEW P \in DropTargets(ct),
             \/ P = {} /\ Return("assertion") /\ UNCHANGED ctxt
             \/ /\ ctxt' = [ctxt EXCEPT ![c] = Brought(ct, P)]
                /\ call' = [call EXCEPT !.op = "parts",
                     !.tmp = [parts |-> <<>>, primeSet |-> P \cup SpecialPrimes]]
                /\ UNCHANGED thrown
      PROVE  IInv'
  <2> DEFINE new == Brought(ct, P)
             tmp == [parts |-> <<>>, primeSet |-> P \cup SpecialPrimes]
  <2>1. P \in Prefixes /\ P # {}
    BY <1>2, DropTargetValid DEF Good
  <2>2. /\ ValidPrimes(P) /\ P \cup SpecialPrimes \in SUBSET Primes
    BY <2>1, PrefixValid, PrimeFacts
  <2>3. /\ Good(new) /\ OverPrimeSet(new) /\ ~ IsEmpty(new) /\ new.primeSet = P
        /\ DOMAIN new.parts = DOMAIN ct.parts
        /\ \A n \in DOMAIN ct.parts : new.parts[n].h = ct.parts[n].h
    BY <1>2, <2>1, <2>2, BroughtGood
  <2>4. /\ ctxt' = [ctxt EXCEPT ![c] = new] /\ UNCHANGED thrown
        /\ call' = [call EXCEPT !.op = "parts", !.tmp = tmp]
    BY <1>5, <2>1
  <2>5. /\ tmp \in CiphertextRecords /\ GoodList(tmp.parts) /\ OverPrimeSet(tmp) /\ IsEmpty(tmp)
        /\ tmp.primeSet = P \cup SpecialPrimes /\ tmp.parts = <<>>
    BY <2>2, EmptyList DEF CiphertextRecords, OverPrimeSet, IsEmpty, GoodList
  <2> HIDE DEF new, tmp
  <2>6. /\ call' \in CallRecords /\ call'.op = "parts" /\ call'.c = c /\ call'.tmp = tmp
        /\ call'.other = call.other /\ call'.after = call.after /\ call'.i = 1
        /\ call'.id = call.id /\ call'.k = call.k /\ call'.done = call.done
        /\ call'.asked = call.asked
    BY <1>2, <1>3, <2>4, <2>5 DEF CallRecords, Ops
  <2>7. /\ ctxt' \in [Ctxts -> CiphertextRecords] /\ \A b \in Ctxts : Good(ctxt'[b])
        /\ ctxt'[c] = new /\ \A b \in Ctxts \ {c} : ctxt'[b] = ctxt[b]
    BY <1>2, <2>3, <2>4, CtxtReplaced
  <2>8. ctxt'[call'.c] = new
    BY <2>6, <2>7
  <2>9. WalkInv'
    <3>1. Switchable(ctxt[call.c], call.id) => Switchable(ctxt'[call'.c], call.id)
      BY <2>3, <2>8, SwitchableKept
    <3> QED BY <1>1, <1>3, <2>6, <3>1, WalkGoesOn
  <2> HIDE DEF c, ct
  <2>10. CtxtsInv'
    BY <1>1, <1>2, <2>3, <2>6, <2>7 DEF CtxtsInv
  <2>11. LocalsInv'
    BY <1>3, <2>5, <2>6 DEF LocalsInv
  <2>12. ControlInv' /\ AddInv' /\ TensorInv'
    BY <1>1, <1>2, <1>3, <2>3, <2>6, <2>8 DEF ControlInv, AddInv, TensorInv
  <2>13. PartsInv'
    BY <2>1, <2>3, <2>5, <2>6, <2>8 DEF PartsInv, OverPrimeSet
  <2> QED BY <1>1, <2>4, <2>9, <2>10, <2>11, <2>12, <2>13, KeysKept DEF IInv, CallInv
<1> QED BY <1>1, <1>4, <1>5

\* What the loop of reLinearize() works on.
LEMMA PartFacts ==
  ASSUME IInv, call.op = "parts", call.i =< Len(ctxt[call.c].parts),
         NEW p, p = ctxt[call.c].parts[call.i], NEW P, P = ctxt[call.c].primeSet
  PROVE  /\ call.i \in DOMAIN ctxt[call.c].parts
         /\ p \in Parts /\ GoodHandle(p.h) /\ p.primes = P /\ (call.i = 1 => p.h = One)
         /\ P \in Prefixes \ {{}} /\ P \cap SpecialPrimes = {} /\ P \in SUBSET Primes
         /\ call.tmp.primeSet = P \cup SpecialPrimes
         /\ P \cup SpecialPrimes \in SUBSET Primes
         /\ GoodList(call.tmp.parts) /\ SamePrimes(call.tmp.parts, P \cup SpecialPrimes)
         /\ call.tmp.parts = <<>> => call.i = 1
<1>1. /\ call \in CallRecords /\ Good(ctxt[call.c])
  BY Current
<1>2. /\ P \in Prefixes \ {{}} /\ call.tmp.primeSet = P \cup SpecialPrimes
      /\ \A n \in DOMAIN ctxt[call.c].parts : n >= call.i => ctxt[call.c].parts[n].primes = P
      /\ call.tmp.parts = <<>> => call.i = 1
      /\ GoodList(call.tmp.parts) /\ SamePrimes(call.tmp.parts, P \cup SpecialPrimes)
  BY DEF IInv, CallInv, PartsInv, LocalsInv, IsEmpty, OverPrimeSet, SamePrimes
<1>3. call.i \in DOMAIN ctxt[call.c].parts /\ call.i >= call.i
  BY <1>1 DEF CallRecords, Good, GoodList
<1>4. p \in Parts /\ GoodHandle(p.h) /\ (call.i = 1 => p.h = One)
  BY <1>1, <1>3 DEF Good, GoodList
<1>5. P \cap SpecialPrimes = {} /\ P \in SUBSET Primes /\ P \cup SpecialPrimes \in SUBSET Primes
  BY <1>2, PrefixValid, PrimeFacts
<1> QED BY <1>2, <1>3, <1>4, <1>5

\* A call gives up in the middle of its parts.
LEMMA GivenUp ==
  ASSUME IInv, UNCHANGED pubKey, call.op = "parts", NEW why \in Outcomes, why # "assertion",
         GiveUp(why)
  PROVE  IInv'
<1>1. /\ Return(why) /\ abandoned' = abandoned \cup {call.c} /\ UNCHANGED ctxt
      /\ CtxtsInv /\ call.c \in Ctxts
  BY Current DEF GiveUp
<1>2. \A c \in Ctxts \ abandoned' : OverPrimeSet(ctxt'[c])
  BY <1>1 DEF CtxtsInv
<1>3. /\ ctxt' \in [Ctxts -> CiphertextRecords] /\ \A c \in Ctxts : Good(ctxt'[c])
      /\ abandoned' \subseteq Ctxts
  BY <1>1 DEF CtxtsInv
<1> QED BY <1>1, <1>2, <1>3, Returned

\* One part went to the result, the loop goes on.
LEMMA PartDone ==
  ASSUME IInv, UNCHANGED <<pubKey, thrown, abandoned>>,
         call.op = "parts", call.i =< Len(ctxt[call.c].parts),
         NEW P, P = ctxt[call.c].primeSet,
         NEW ps, call' = [call EXCEPT !.i = @ + 1, !.tmp.parts = ps],
         GoodList(ps), ps # <<>>, SamePrimes(ps, call.tmp.primeSet),
         call.id # AnyKey => \A n \in DOMAIN ps : ps[n].h \in {One, Base(call.id)},
         NEW ct, ctxt' = [ctxt EXCEPT ![call.c] = ct], Good(ct), ct.primeSet = P,
         DOMAIN ct.parts = DOMAIN ctxt[call.c].parts,
         \A n \in DOMAIN ct.parts :
           /\ ct.parts[n].h = ctxt[call.c].parts[n].h
           /\ n > call.i => ct.parts[n].primes = ctxt[call.c].parts[n].primes
  PROVE  IInv'
<1> DEFINE c == call.c
           p == ctxt[c].parts[call.i]
<1>1. /\ call \in CallRecords /\ c \in Ctxts /\ CtxtsInv /\ Good(ctxt[c]) /\ ~ IsEmpty(ctxt[c])
      /\ c \notin abandoned
  BY Current
<1>2. /\ call.i \in DOMAIN ctxt[c].parts /\ P \in Prefixes \ {{}}
      /\ call.tmp.primeSet = P \cup SpecialPrimes /\ P \cup SpecialPrimes \in SUBSET Primes
  BY PartFacts
<1>3. /\ GoodList(call.other.parts) /\ OverPrimeSet(call.other) /\ WalkInv
      /\ call.after \in {"idle", "clean", "check", "walk"}
      /\ \A n \in DOMAIN ctxt[c].parts : n >= call.i => ctxt[c].parts[n].primes = P
  BY DEF IInv, CallInv, LocalsInv, ControlInv, PartsInv
<1> DEFINE tmp == [parts |-> ps, primeSet |-> call.tmp.primeSet]
<1>4. /\ tmp \in CiphertextRecords /\ OverPrimeSet(tmp) /\ ~ IsEmpty(tmp)
      /\ tmp.parts = ps /\ tmp.primeSet = call.tmp.primeSet
  <2>1. call.tmp.primeSet \in SUBSET Primes
    BY <1>2
  <2> QED BY <2>1 DEF CiphertextRecords, GoodList, OverPrimeSet, SamePrimes, IsEmpty
<1>5. call' = [call EXCEPT !.i = call.i + 1, !.tmp = tmp]
  <2>1. [call.tmp EXCEPT !.parts = ps] = tmp
    <3>1. call.tmp \in CiphertextRecords
      BY <1>1 DEF CallRecords
    <3> QED BY <3>1, PartsReplaced
  <2> HIDE DEF tmp
  <2> QED BY <1>1, <2>1 DEF CallRecords
<1> HIDE DEF tmp
<1>6. /\ call' \in CallRecords /\ call'.op = "parts" /\ call'.c = c /\ call'.tmp = tmp
      /\ call'.other = call.other /\ call'.after = call.after /\ call'.i = call.i + 1
      /\ call'.id = call.id /\ call'.k = call.k /\ call'.done = call.done
      /\ call'.asked = call.asked
  <2>1. call.i + 1 \in Nat \ {0}
    BY <1>1 DEF CallRecords
  <2> QED BY <1>1, <1>4, <1>5, <2>1 DEF CallRecords
<1>7. /\ ctxt' \in [Ctxts -> CiphertextRecords] /\ \A b \in Ctxts : Good(ctxt'[b])
      /\ ctxt'[c] = ct /\ \A b \in Ctxts \ {c} : ctxt'[b] = ctxt[b]
  BY <1>1, CtxtReplaced
<1>8. ctxt'[call'.c] = ct
  BY <1>6, <1>7
<1>9. WalkInv'
  <2>1. Switchable(ctxt[call.c], call.id) => Switchable(ctxt'[call'.c], call.id)
    BY <1>8, SwitchableKept
  <2> QED BY <1>3, <1>6, <2>1, WalkGoesOn
<1>10. ~ IsEmpty(ct)
  <2>1. 1 \in DOMAIN ctxt[c].parts
    BY <1>1 DEF Good, GoodList, IsEmpty
  <2> QED BY <2>1 DEF IsEmpty
<1>11. \A n \in DOMAIN ct.parts : n >= call.i + 1 => ct.parts[n].primes = P
  <2> SUFFICES ASSUME NEW n \in DOMAIN ct.parts, n >= call.i + 1 PROVE ct.parts[n].primes = P
    OBVIOUS
  <2>1. n \in Nat /\ call.i \in Nat
    BY <1>1 DEF Good, GoodList, CallRecords
  <2>2. n > call.i /\ n >= call.i
    BY <2>1
  <2> QED BY <1>3, <2>2
<1> HIDE DEF c, p
<1>12. CtxtsInv'
  BY <1>1, <1>6, <1>7 DEF CtxtsInv
<1>13. LocalsInv'
  BY <1>3, <1>4, <1>6 DEF LocalsInv
<1>14. ControlInv' /\ AddInv' /\ TensorInv'
  BY <1>1, <1>3, <1>6, <1>8, <1>10 DEF ControlInv, AddInv, TensorInv
<1>15. PartsInv'
  BY <1>2, <1>4, <1>6, <1>8, <1>11 DEF PartsInv
<1> QED BY <1>9, <1>12, <1>13, <1>14, <1>15, KeysKept DEF IInv, CallInv

LEMMA RelinPartStep ==
  ASSUME IInv, RelinPart
  PROVE  IInv'
<1> DEFINE c == call.c
           p == ctxt[c].parts[call.i]
           P == ctxt[c].primeSet
           Q == p.primes \cup SpecialPrimes
           w == LookUp(p.h, call.id)
           own == p.h = One \/ IsBase(p.h, call.id)
           added == PartAdded(call.tmp.parts, Part(p.h, Q))
           switched == Switched(call.tmp.parts, keySwitching[w].to, Q)
<1>1. /\ call.op = "parts" /\ call.i =< Len(ctxt[c].parts) /\ UNCHANGED pubKey
      /\ \/ GiveUp("no matrix") \/ GiveUp("out of range")
         \/ (p.primes \cap SpecialPrimes # {} \/ Q # call.tmp.primeSet) /\ GiveUp("assertion")
         \/ /\ own
            /\ ctxt' = [ctxt EXCEPT ![c].parts[call.i].primes = Q]
            /\ call' = [call EXCEPT !.i = @ + 1, !.tmp.parts = added]
            /\ UNCHANGED <<thrown, abandoned>>
         \/ /\ ~ own /\ w \notin {Keys!None, Keys!Throws}
            /\ keySwitching[w].from # p.h /\ GiveUp("assertion")
         \/ /\ ~ own /\ w \notin {Keys!None, Keys!Throws}
            /\ call' = [call EXCEPT !.i = @ + 1, !.tmp.parts = switched]
            /\ UNCHANGED <<ctxt, thrown, abandoned>>
  BY DEF RelinPart
<1>2. /\ call \in CallRecords /\ c \in Ctxts /\ CtxtsInv /\ Good(ctxt[c]) /\ ~ IsEmpty(ctxt[c])
      /\ c \notin abandoned /\ ctxt[c] \in CiphertextRecords
      /\ call.id \in Keys!KeyId \cup {AnyKey}
  BY <1>1, Current DEF CallRecords
<1>3. /\ call.i \in DOMAIN ctxt[c].parts
      /\ p \in Parts /\ GoodHandle(p.h) /\ p.primes = P /\ (call.i = 1 => p.h = One)
      /\ P \in Prefixes \ {{}} /\ P \cap SpecialPrimes = {} /\ P \in SUBSET Primes
      /\ call.tmp.primeSet = P \cup SpecialPrimes
      /\ P \cup SpecialPrimes \in SUBSET Primes
      /\ GoodList(call.tmp.parts) /\ SamePrimes(call.tmp.parts, P \cup SpecialPrimes)
      /\ call.tmp.parts = <<>> => call.i = 1
  BY <1>1, PartFacts
<1>4. Q = call.tmp.primeSet /\ SamePrimes(call.tmp.parts, Q) /\ Q \in SUBSET Primes
  BY <1>3
<1>5. call.id # AnyKey =>
        \A n \in DOMAIN call.tmp.parts : call.tmp.parts[n].h \in {One, Base(call.id)}
  BY <1>1 DEF IInv, CallInv, PartsInv
<1>6. ~ own => \/ w \in {Keys!None, Keys!Throws}
               \/ /\ w \in 1 .. Len(keySwitching) /\ keySwitching[w].from = p.h
                  /\ call.id # AnyKey => keySwitching[w].to = call.id
  <2>1. KP!IInv /\ p.h \in Keys!Handles /\ call.id \in Keys!KeyId \cup {AnyKey}
    BY <1>2, <1>3 DEF IInv, GoodHandle
  <2> HIDE DEF p
  <2>2. \/ w \in {Keys!None, Keys!Throws}
        \/ /\ w \in 1 .. Len(keySwitching) /\ keySwitching[w].from = p.h
           /\ call.id # AnyKey => keySwitching[w].to = call.id
    BY <2>1, LookUpResult
  <2> QED BY <2>2
<1>7. \A h : GoodHandle(h) =>
        LET r == Part(h, Q) IN r \in Parts /\ r.h = h /\ r.primes = Q
  BY <1>3, <1>4 DEF Part, Parts, GoodHandle
<1> HIDE DEF Q, w
<1>8. CASE GiveUp("no matrix") \/ GiveUp("out of range")
  BY <1>1, <1>8, GivenUp DEF Outcomes
<1>9. CASE /\ own
           /\ ctxt' = [ctxt EXCEPT ![c].parts[call.i].primes = Q]
           /\ call' = [call EXCEPT !.i = @ + 1, !.tmp.parts = added]
           /\ UNCHANGED <<thrown, abandoned>>
  <2>1. call.tmp.parts # <<>> \/ p.h = One
    BY <1>3
  <2>2. /\ GoodList(added) /\ added # <<>> /\ SamePrimes(added, Q)
        /\ \A i \in DOMAIN added : added[i].h = p.h \/
             \E j \in DOMAIN call.tmp.parts : added[i].h = call.tmp.parts[j].h
    <3> DEFINE r == Part(p.h, Q)
               ps == call.tmp.parts
    <3>1. /\ r \in Parts /\ r.h = p.h /\ r.primes = Q /\ GoodHandle(r.h)
          /\ added = PartAdded(ps, r) /\ GoodList(ps) /\ SamePrimes(ps, Q)
          /\ ps # <<>> \/ r.h = One
      BY <1>3, <1>4, <1>7, <2>1
    <3> HIDE DEF r, ps, added, c, p, P
    <3>2. /\ GoodList(added) /\ added # <<>> /\ SamePrimes(added, Q)
          /\ \A i \in DOMAIN added : added[i] = r \/ \E j \in DOMAIN ps : added[i] = ps[j]
      BY <3>1, PartAddedGood
    <3> QED BY <3>1, <3>2 DEF ps
  <2>3. ASSUME call.id # AnyKey
        PROVE  \A n \in DOMAIN added : added[n].h \in {One, Base(call.id)}
    <3>1. p.h \in {One, Base(call.id)}
      <4>1. IsBase(p.h, call.id) => p.h = Base(call.id)
        BY <1>3, <2>3 DEF IsBase, Base, Keys!Handle, GoodHandle, Keys!Handles
      <4> QED BY <1>9, <4>1
    <3> QED BY <1>5, <2>2, <2>3, <3>1
  <2> HIDE DEF added
  <2> DEFINE qs == [ctxt[c].parts EXCEPT ![call.i] = [p EXCEPT !.primes = Q]]
             ct == [parts |-> qs, primeSet |-> P]
  <2>4. ctxt' = [ctxt EXCEPT ![c] = ct]
    <3>1. ctxt' = [ctxt EXCEPT ![c] = [ctxt[c] EXCEPT !.parts = qs]]
      BY <1>9
    <3>2. [ctxt[c] EXCEPT !.parts = qs] = ct
      BY <1>2, PartsReplaced
    <3> QED BY <3>1, <3>2
  <2>5. /\ GoodList(qs) /\ DOMAIN qs = DOMAIN ctxt[c].parts
        /\ \A n \in DOMAIN ctxt[c].parts : /\ qs[n].h = ctxt[c].parts[n].h
                                           /\ n # call.i => qs[n] = ctxt[c].parts[n]
    <3>1. /\ GoodList(ctxt[c].parts) /\ [p EXCEPT !.primes = Q] \in Parts
          /\ [p EXCEPT !.primes = Q].h = p.h
      BY <1>2, <1>3, <1>4 DEF Good, Parts
    <3> QED BY <1>3, <3>1, PartReplaced
  <2> HIDE DEF qs
  <2>7. Good(ct) /\ ct.primeSet = P /\ ct.parts = qs
    BY <1>2, <1>3, <2>5 DEF Good, CiphertextRecords, GoodList
  <2>8. \A n \in DOMAIN ct.parts : n > call.i => ct.parts[n].primes = ctxt[c].parts[n].primes
    <3> SUFFICES ASSUME NEW n \in DOMAIN ct.parts, n > call.i
                 PROVE  ct.parts[n].primes = ctxt[c].parts[n].primes
      OBVIOUS
    <3>1. n \in Nat /\ call.i \in Nat
      BY <1>2, <2>5, <2>7 DEF Good, GoodList, CallRecords
    <3>2. n # call.i
      BY <3>1
    <3> QED BY <2>5, <2>7, <3>2
  <2>9. DOMAIN ct.parts = DOMAIN ctxt[c].parts
        /\ \A n \in DOMAIN ct.parts : ct.parts[n].h = ctxt[c].parts[n].h
    BY <2>5, <2>7
  <2> HIDE DEF ct
  <2> QED BY <1>1, <1>9, <2>2, <2>3, <2>4, <2>7, <2>8, <2>9, <1>4, PartDone
<1>10. CASE /\ ~ own /\ w \notin {Keys!None, Keys!Throws}
            /\ call' = [call EXCEPT !.i = @ + 1, !.tmp.parts = switched]
            /\ UNCHANGED <<ctxt, thrown, abandoned>>
  <2> DEFINE to == keySwitching[w].to
             base == Part(Base(to), Q)
             one == Part(One, Q)
             half == PartAdded(call.tmp.parts, base)
  <2>1. to \in Keys!KeyId /\ (call.id # AnyKey => to = call.id)
    BY <1>6, <1>10, MatrixFacts DEF IInv
  <2> HIDE DEF to
  <2>2. call.tmp.parts # <<>>
    BY <1>3, <1>10
  <2>3. /\ GoodHandle(Base(to)) /\ GoodHandle(One)
    BY <2>1, HandleFacts
  <2>4. /\ base \in Parts /\ base.h = Base(to) /\ base.primes = Q
        /\ one \in Parts /\ one.h = One /\ one.primes = Q
        /\ GoodHandle(base.h) /\ GoodHandle(one.h)
    BY <1>7, <2>3
  <2>5. switched = PartAdded(half, one)
    BY DEF Switched, to
  <2> HIDE DEF base, one, switched, c, p, P
  <2>6. /\ GoodList(half) /\ half # <<>> /\ SamePrimes(half, Q)
        /\ \A i \in DOMAIN half : half[i] = base \/
             \E j \in DOMAIN call.tmp.parts : half[i] = call.tmp.parts[j]
    <3> DEFINE ps == call.tmp.parts
    <3>1. GoodList(ps) /\ ps # <<>> /\ SamePrimes(ps, Q)
      BY <1>3, <1>4, <2>2
    <3> HIDE DEF ps
    <3>2. half = PartAdded(ps, base)
      BY DEF ps
    <3> HIDE DEF half
    <3>3. /\ GoodList(half) /\ half # <<>> /\ SamePrimes(half, Q)
          /\ \A i \in DOMAIN half : half[i] = base \/ \E j \in DOMAIN ps : half[i] = ps[j]
      BY <3>1, <3>2, <2>4, PartAddedGood
    <3> QED BY <3>3 DEF ps
  <2> HIDE DEF half
  <2>7. /\ GoodList(switched) /\ switched # <<>> /\ SamePrimes(switched, Q)
        /\ \A i \in DOMAIN switched : switched[i] = one \/
             \E j \in DOMAIN half : switched[i] = half[j]
    BY <2>4, <2>5, <2>6, PartAddedGood
  <2>8. ASSUME call.id # AnyKey
        PROVE  \A n \in DOMAIN switched : switched[n].h \in {One, Base(call.id)}
    BY <1>5, <2>1, <2>4, <2>6, <2>7, <2>8
  <2>9. ctxt' = [ctxt EXCEPT ![c] = ctxt[c]]
    BY <1>2, <1>10 DEF CtxtsInv
  <2> QED BY <1>1, <1>2, <1>10, <2>7, <2>8, <2>9, <1>4, PartDone DEF c, P
<1>11. ~ (p.primes \cap SpecialPrimes # {} \/ Q # call.tmp.primeSet)
  BY <1>3, <1>4
<1>12. ~ (~ own /\ w \notin {Keys!None, Keys!Throws} /\ keySwitching[w].from # p.h)
  BY <1>6
<1> QED BY <1>1, <1>8, <1>9, <1>10, <1>11, <1>12

LEMMA RelinEndStep ==
  ASSUME IInv, RelinEnd
  PROVE  IInv' /\ (call.id # AnyKey => InCanonicalForm(ctxt'[call.c], call.id))
<1>1. /\ call.op = "parts" /\ call.i > Len(ctxt[call.c].parts)
      /\ ctxt' = [ctxt EXCEPT ![call.c] = call.tmp] /\ GoOn
      /\ UNCHANGED <<pubKey, thrown, abandoned>>
  BY DEF RelinEnd
<1>2. /\ call \in CallRecords /\ call.c \in Ctxts /\ Good(ctxt[call.c]) /\ ~ IsEmpty(ctxt[call.c])
      /\ GoodList(call.tmp.parts) /\ OverPrimeSet(call.tmp) /\ call.tmp \in CiphertextRecords
      /\ CtxtsInv
  BY <1>1, Current DEF IInv, CallInv, LocalsInv, CallRecords
<1>3. /\ ctxt[call.c].primeSet \in Prefixes \ {{}}
      /\ call.tmp.primeSet = ctxt[call.c].primeSet \cup SpecialPrimes
      /\ IsEmpty(call.tmp) => call.i = 1
      /\ call.id # AnyKey =>
           \A n \in DOMAIN call.tmp.parts : call.tmp.parts[n].h \in {One, Base(call.id)}
      /\ call.after \in {"check", "walk"} => call.id \in Keys!KeyId
  BY <1>1 DEF IInv, CallInv, PartsInv, WalkInv
<1>4. Good(call.tmp)
  BY <1>2, <1>3, PrefixValid DEF Good
<1>5. ~ IsEmpty(call.tmp)
  <2>1. Len(ctxt[call.c].parts) \in Nat \ {0}
    BY <1>2 DEF Good, GoodList, IsEmpty
  <2> QED BY <1>1, <1>3, <2>1
<1>6. ASSUME call.id # AnyKey PROVE InCanonicalForm(call.tmp, call.id)
  <2> DEFINE ps == call.tmp.parts
  <2>1. /\ Len(ps) \in Nat /\ DOMAIN ps = 1 .. Len(ps) /\ ps # <<>> /\ ps[1].h = One
        /\ \A i, j \in DOMAIN ps : ps[i].h = ps[j].h => i = j
        /\ \A n \in DOMAIN ps : ps[n].h \in {One, Base(call.id)}
    BY <1>2, <1>3, <1>5, <1>6 DEF GoodList, IsEmpty
  <2>2. \A n \in DOMAIN ps \ {1} : ps[n].h = Base(call.id)
    BY <1>2, <1>5, <2>1
  <2>3. Len(ps) =< 2
    <3>1. SUFFICES ASSUME Len(ps) > 2 PROVE FALSE
      BY <2>1
    <3>2. 2 \in DOMAIN ps \ {1} /\ 3 \in DOMAIN ps \ {1}
      BY <2>1, <3>1
    <3>3. ps[2].h = ps[3].h
      BY <2>2, <3>2
    <3> QED BY <2>1, <3>2, <3>3
  <2>4. Len(ps) > 1 => IsBase(ps[2].h, call.id)
    <3>1. SUFFICES ASSUME Len(ps) > 1 PROVE IsBase(ps[2].h, call.id)
      OBVIOUS
    <3>2. 2 \in DOMAIN ps \ {1}
      BY <2>1, <3>1
    <3>3. ps[2].h = Base(call.id)
      BY <2>2, <3>2
    <3> QED BY <3>3 DEF IsBase, Base, Keys!Handle
  <2> QED BY <2>1, <2>3, <2>4 DEF InCanonicalForm
<1>7. ctxt'[call.c] = call.tmp
  BY <1>1, <1>2 DEF CtxtsInv
<1>8. call.after \in {"check", "walk"} => InCanonicalForm(call.tmp, call.id)
  BY <1>3, <1>6, NodeFacts
<1>9. IInv'
  BY <1>1, <1>2, <1>4, <1>5, <1>8, GoneOn
<1> QED BY <1>6, <1>7, <1>9

LEMMA DropStep ==
  ASSUME IInv, NEW c \in Ctxts, DropSmallAndSpecialPrimes(c)
  PROVE  IInv'
<1>1. PICK P \in DropTargets(ctxt[c]) :
        \/ P = {} /\ Return("assertion")
        \/ Assigned(c, Brought(ctxt[c], P)) /\ Return("none")
  BY DEF DropSmallAndSpecialPrimes
<1>2. /\ call.op = "idle" /\ Good(ctxt[c]) /\ OverPrimeSet(ctxt[c]) /\ UNCHANGED pubKey
  BY CallCan DEF DropSmallAndSpecialPrimes
<1>3. P \in Prefixes /\ P # {} /\ ValidPrimes(P)
  BY <1>2, DropTargetValid, PrefixValid DEF Good
<1>4. Good(Brought(ctxt[c], P)) /\ OverPrimeSet(Brought(ctxt[c], P))
  BY <1>2, <1>3, BroughtGood
<1> QED BY <1>1, <1>2, <1>3, <1>4, AssignedGood

LEMMA CleanEndStep ==
  ASSUME IInv, CleanEnd
  PROVE  IInv'
<1> DEFINE c == call.c
           ct == ctxt[c]
<1>1. /\ call.op = "clean" /\ UNCHANGED <<pubKey, abandoned>>
      /\ \/ Return("none") /\ UNCHANGED ctxt
         \/ \E P \in DropTargets(ct) :
              \/ P = {} /\ Return("assertion") /\ UNCHANGED ctxt
              \/ ctxt' = [ctxt EXCEPT ![c] = Brought(ct, P)] /\ Return("none")
  BY DEF CleanEnd
<1>2. /\ c \in Ctxts /\ CtxtsInv /\ Good(ct) /\ OverPrimeSet(ct)
  BY <1>1, Current
<1>3. CASE Return("none") /\ UNCHANGED ctxt
  BY <1>1, <1>3, FailedGood DEF Outcomes
<1>4. ASSUME NEW P \in DropTargets(ct),
             \/ P = {} /\ Return("assertion") /\ UNCHANGED ctxt
             \/ ctxt' = [ctxt EXCEPT ![c] = Brought(ct, P)] /\ Return("none")
      PROVE  IInv'
  <2> DEFINE new == Brought(ct, P)
  <2>1. P \in Prefixes /\ P # {} /\ ValidPrimes(P)
    BY <1>2, DropTargetValid, PrefixValid DEF Good
  <2>2. Good(new) /\ OverPrimeSet(new)
    BY <1>2, <2>1, BroughtGood
  <2>3. ctxt' = [ctxt EXCEPT ![c] = new] /\ Return("none")
    BY <1>4, <2>1
  <2> HIDE DEF new
  <2>4. /\ ctxt' \in [Ctxts -> CiphertextRecords] /\ \A b \in Ctxts : Good(ctxt'[b])
        /\ ctxt'[c] = new /\ \A b \in Ctxts \ {c} : ctxt'[b] = ctxt[b]
    BY <1>2, <2>2, <2>3, CtxtReplaced
  <2>5. \A b \in Ctxts \ abandoned' : OverPrimeSet(ctxt'[b])
    BY <1>1, <1>2, <2>2, <2>4 DEF CtxtsInv
  <2>6. abandoned' \subseteq Ctxts /\ "none" \in Outcomes /\ "none" # "assertion"
    BY <1>1, <1>2 DEF CtxtsInv, Outcomes
  <2> HIDE DEF c, ct
  <2> QED BY <1>1, <2>3, <2>4, <2>5, <2>6, Returned
<1> QED BY <1>1, <1>3, <1>4

LEMMA AutomorphStep ==
  ASSUME IInv, NEW c \in Ctxts, NEW k \in XPowers, Automorph(c, k)
  PROVE  IInv'
<1>1. /\ CanCall({c}) /\ UNCHANGED pubKey
      /\ \/ k \in Keys!Units /\ Assigned(c, Automorphed(ctxt[c], k)) /\ Return("none")
         \/ Return("not a unit") /\ UNCHANGED <<ctxt, abandoned>>
  BY DEF Automorph
<1>2. call.op = "idle" /\ Good(ctxt[c]) /\ OverPrimeSet(ctxt[c])
  BY <1>1, CallCan
<1>3. CASE k \in Keys!Units /\ Assigned(c, Automorphed(ctxt[c], k)) /\ Return("none")
  <2>1. Good(Automorphed(ctxt[c], k)) /\ OverPrimeSet(Automorphed(ctxt[c], k))
    BY <1>2, <1>3, AutomorphedGood
  <2> QED BY <1>1, <1>2, <1>3, <2>1, AssignedGood
<1>4. CASE Return("not a unit") /\ UNCHANGED <<ctxt, abandoned>>
  BY <1>1, <1>2, <1>4, FailedGood DEF Outcomes
<1> QED BY <1>1, <1>3, <1>4

LEMMA GetKeyIDType ==
  ASSUME NEW ct, Good(ct)
  PROVE  GetKeyID(ct) \in Keys!KeyId
<1>1. CASE Keyed(ct) = {}
  BY <1>1, NodeFacts DEF GetKeyID
<1>2. CASE Keyed(ct) # {}
  <2>1. Keyed(ct) \in SUBSET Nat /\ \A i \in Keyed(ct) : ct.parts[i].h.id \in Keys!KeyId
    <3>1. ct.parts \in Seq(Parts)
      BY DEF Good, GoodList
    <3>2. \A i \in DOMAIN ct.parts : i \in Nat /\ ct.parts[i] \in Parts
      BY <3>1
    <3> QED BY <3>2 DEF Keyed, Parts, Keys!Handles
  <2>2. \E i \in Keyed(ct) : \A j \in Keyed(ct) : i =< j
    BY <1>2, <2>1, LeastOf
  <2> QED BY <1>2, <2>1, <2>2 DEF GetKeyID
<1> QED BY <1>1, <1>2

LEMMA MulModByOne ==
  ASSUME NEW k \in Keys!Node
  PROVE  Keys!MulMod(1, k) = k
<1>1. KP!MulMod(k, 1) = k /\ KP!MulMod(k, 1) = KP!MulMod(1, k)
  BY KP!MulModOne, KP!MulModInNode, SameConstants, NodeFacts, KeysAssumption
<1> QED BY <1>1, SameConstants

LEMMA SmartAutomorphStep ==
  ASSUME IInv, NEW c \in Ctxts, NEW k \in XPowers, SmartAutomorph(c, k)
  PROVE  IInv'
<1> DEFINE id == GetKeyID(ctxt[c])
           walk == [Idle EXCEPT !.c = c, !.id = id, !.k = k, !.asked = k]
<1>1. /\ CanCall({c}) /\ ~ IsEmpty(ctxt[c]) /\ UNCHANGED <<pubKey, ctxt, abandoned>>
      /\ \/ Return("not a unit") \/ Return("unreachable")
         \/ /\ k \in Keys!Units /\ Keys!IsReachable(k, id) /\ thrown' = "none"
            /\ \/ /\ InCanonicalForm(ctxt[c], id)
                  /\ call' = [walk EXCEPT !.op = "walk", !.after = "walk"]
               \/ call' = [walk EXCEPT !.op = "relin", !.after = "check"]
  BY DEF SmartAutomorph
<1>2. call.op = "idle" /\ Good(ctxt[c]) /\ OverPrimeSet(ctxt[c]) /\ c \notin abandoned /\ CtxtsInv
  BY <1>1, CallCan DEF IInv
<1>3. CASE Return("not a unit") \/ Return("unreachable")
  BY <1>1, <1>2, <1>3, FailedGood DEF Outcomes
<1>4. CASE /\ k \in Keys!Units /\ Keys!IsReachable(k, id) /\ thrown' = "none"
           /\ \/ /\ InCanonicalForm(ctxt[c], id)
                 /\ call' = [walk EXCEPT !.op = "walk", !.after = "walk"]
              \/ call' = [walk EXCEPT !.op = "relin", !.after = "check"]
  <2>1. id \in Keys!KeyId /\ k \in Keys!Node /\ Keys!MulMod(1, k) = k
    BY <1>2, <1>4, GetKeyIDType, NodeFacts, MulModByOne
  <2> HIDE DEF id
  <2>2. /\ Keys!HasRow(id) /\ k \in DOMAIN Keys!Row(id) /\ Keys!Row(id)[k] # Keys!None
    BY <1>4 DEF Keys!IsReachable, Keys!GetNextKSWmatrix, Keys!Throws, Keys!None
  <2>3. DOMAIN Keys!Row(id) = Keys!Node
    BY <2>1, <2>2, MapEntry DEF IInv
  <2>4. /\ walk \in CallRecords /\ walk.c = c /\ walk.id = id /\ walk.k = k /\ walk.asked = k
        /\ walk.done = 1 /\ walk.i = 1 /\ walk.tmp = Empty /\ walk.other = Empty
    BY <2>1, IdleFacts DEF CallRecords
  <2> HIDE DEF walk
  <2>5. /\ call' \in CallRecords /\ call'.c = c /\ call'.id = id /\ call'.k = k /\ call'.asked = k
        /\ call'.done = 1 /\ call'.i = 1 /\ call'.tmp = Empty /\ call'.other = Empty
        /\ \/ InCanonicalForm(ctxt[c], id) /\ call'.op = "walk" /\ call'.after = "walk"
           \/ call'.op = "relin" /\ call'.after = "check"
    <3>1. PICK o \in {"walk", "relin"}, a \in {"walk", "check"} :
            /\ call' = [walk EXCEPT !.op = o, !.after = a]
            /\ \/ InCanonicalForm(ctxt[c], id) /\ o = "walk" /\ a = "walk"
               \/ o = "relin" /\ a = "check"
      BY <1>4
    <3>2. o \in Ops /\ a \in Ops
      BY DEF Ops
    <3>3. call' \in CallRecords
      BY <2>4, <3>1, <3>2 DEF CallRecords
    <3>4. /\ call'.op = o /\ call'.after = a /\ call'.c = walk.c /\ call'.id = walk.id
          /\ call'.k = walk.k /\ call'.asked = walk.asked /\ call'.done = walk.done
          /\ call'.i = walk.i /\ call'.tmp = walk.tmp /\ call'.other = walk.other
      BY <2>4, <3>1 DEF CallRecords
    <3> QED BY <2>4, <3>1, <3>3, <3>4
  <2>6. CtxtsInv'
    BY <1>1, <1>2 DEF CtxtsInv
  <2>7. LocalsInv'
    BY <2>5, EmptyGood DEF LocalsInv, Good
  <2>8. ControlInv' /\ AddInv' /\ TensorInv' /\ PartsInv'
    BY <1>1, <1>2, <2>5 DEF ControlInv, AddInv, TensorInv, PartsInv
  <2>9. WalkInv'
    <3>1. call'.op \in {"check", "walk"} => InCanonicalForm(ctxt'[call'.c], call'.id)
      BY <1>1, <2>5
    <3>2. call'.op \in {"check", "walk"} => InCanonicalForm(ctxt[call.c], call.id)'
      BY <3>1
    <3>3. \A j : Keys!HasRow(j)' = Keys!HasRow(j) /\ Keys!Row(j)' = Keys!Row(j)
      BY <1>1, RowsKept
    <3> QED BY <1>4, <2>1, <2>2, <2>3, <2>5, <3>2, <3>3 DEF WalkInv
  <2> QED BY <1>1, <1>4, <2>6, <2>7, <2>8, <2>9, KeysKept DEF IInv, CallInv, Outcomes
<1> QED BY <1>1, <1>3, <1>4

LEMMA WalkBeginStep ==
  ASSUME IInv, WalkBegin
  PROVE  IInv'
<1>1. /\ call.op = "check" /\ UNCHANGED <<pubKey, ctxt, abandoned>>
      /\ call.after = "check" /\ call.i = 1 /\ CtxtsInv /\ call \in CallRecords
      /\ LocalsInv /\ ControlInv /\ WalkInv /\ InCanonicalForm(ctxt[call.c], call.id)
  BY DEF WalkBegin, IInv, CallInv, ControlInv, LocalsInv, WalkInv
<1>2. call' = [call EXCEPT !.op = "walk", !.after = "walk"] /\ UNCHANGED thrown
  BY <1>1 DEF WalkBegin
<1>3. /\ call' \in CallRecords /\ call'.op = "walk" /\ call'.after = "walk" /\ call'.c = call.c
      /\ call'.id = call.id /\ call'.k = call.k /\ call'.done = call.done /\ call'.i = 1
      /\ call'.asked = call.asked /\ call'.tmp = call.tmp /\ call'.other = call.other
  BY <1>1, <1>2 DEF CallRecords, Ops
<1>4. CtxtsInv'
  BY <1>1, <1>3 DEF CtxtsInv
<1>5. LocalsInv'
  BY <1>1, <1>3 DEF LocalsInv
<1>6. ControlInv' /\ AddInv' /\ TensorInv' /\ PartsInv'
  BY <1>1, <1>3 DEF ControlInv, AddInv, TensorInv, PartsInv
<1>7. WalkInv'
  <2>1. InCanonicalForm(ctxt'[call'.c], call'.id)
    BY <1>1, <1>3
  <2>2. InCanonicalForm(ctxt[call.c], call.id)'
    BY <2>1
  <2>3. \A j : Keys!HasRow(j)' = Keys!HasRow(j) /\ Keys!Row(j)' = Keys!Row(j)
    BY <1>1, RowsKept
  <2> QED BY <1>1, <1>3, <2>2, <2>3 DEF WalkInv
<1> QED BY <1>1, <1>2, <1>4, <1>5, <1>6, <1>7, KeysKept DEF IInv, CallInv

\* A step of the walk takes the matrix of the map, and what it makes of a canonical
\* ciphertext can be switched with it.
LEMMA WalkStepStep ==
  ASSUME IInv, WalkStep
  PROVE  IInv' /\ UNCHANGED thrown
<1> DEFINE c == call.c
           ct == ctxt[c]
           id == call.id
           k == call.k
           w == Keys!Row(id)[k]
           amt == keySwitching[w].from.x
           new == Automorphed(ct, amt)
<1>1. /\ call.op = "walk" /\ k # 1 /\ UNCHANGED <<pubKey, abandoned>>
      /\ call.after = "walk" /\ call.i = 1 /\ CtxtsInv /\ call \in CallRecords
      /\ LocalsInv /\ ControlInv /\ WalkInv
  BY DEF WalkStep, IInv, CallInv, ControlInv, LocalsInv
<1>2. /\ id \in Keys!KeyId /\ Keys!HasRow(id) /\ DOMAIN Keys!Row(id) = Keys!Node
      /\ k \in Keys!Units /\ k \in Keys!Node /\ Keys!MulMod(call.done, k) = call.asked
      /\ Keys!Row(id)[k] # Keys!None /\ InCanonicalForm(ct, id)
  BY <1>1, NodeFacts DEF WalkInv
<1>3. /\ w \in 1 .. Len(keySwitching) /\ w > Keys!None /\ amt \in Keys!Units
      /\ keySwitching[w] = [from |-> Keys!Handle(1, amt, id), to |-> id]
      /\ \/ Keys!MulMod(k, Keys!InvMod(amt)) = 1
         \/ Keys!Row(id)[Keys!MulMod(k, Keys!InvMod(amt))] # Keys!None
  <2>1. KP!IInv
    BY DEF IInv
  <2> HIDE DEF id, k
  <2> QED BY <1>2, <2>1, MapEntry
<1>4. /\ ctxt' = [ctxt EXCEPT ![c] = new] /\ UNCHANGED thrown
      /\ call' = [call EXCEPT !.op = "relin", !.done = Keys!MulMod(call.done, amt),
                              !.k = Keys!MulMod(k, Keys!InvMod(amt))]
  <2>1. Keys!GetNextKSWmatrix(k, id) = w /\ w # Keys!Throws
    BY <1>2, <1>3 DEF Keys!GetNextKSWmatrix, Keys!Throws
  <2> QED BY <1>1, <1>3, <2>1 DEF WalkStep, CallRecords, CtxtsInv
<1>5. /\ c \in Ctxts /\ Good(ct) /\ ~ IsEmpty(ct) /\ c \notin abandoned /\ OverPrimeSet(ct)
  BY <1>1, Current
<1>6. /\ Good(new) /\ OverPrimeSet(new) /\ ~ IsEmpty(new)
      /\ DOMAIN new.parts = DOMAIN ct.parts
      /\ \A n \in DOMAIN ct.parts :
           new.parts[n].h = IF ct.parts[n].h = One THEN One
                            ELSE [ct.parts[n].h EXCEPT !.x = Keys!MulMod(@, amt)]
  BY <1>3, <1>5, AutomorphedGood
<1>7. /\ Keys!MulMod(k, Keys!InvMod(amt)) \in Keys!Units
      /\ Keys!MulMod(call.done, amt) \in Keys!Node
      /\ Keys!MulMod(Keys!MulMod(call.done, amt), Keys!MulMod(k, Keys!InvMod(amt))) = call.asked
  <2>1. call.done \in Keys!Node
    BY <1>1 DEF CallRecords
  <2>2. k \in Keys!Units /\ amt \in Keys!Units /\ Keys!MulMod(call.done, k) = call.asked
    BY <1>2, <1>3
  <2> HIDE DEF k, amt, w, id, ct, c, new
  <2>3. /\ Keys!MulMod(k, Keys!InvMod(amt)) \in Keys!Units
        /\ Keys!MulMod(call.done, amt) \in Keys!Node
        /\ Keys!MulMod(Keys!MulMod(call.done, amt), Keys!MulMod(k, Keys!InvMod(amt))) =
             Keys!MulMod(call.done, k)
    BY <2>1, <2>2, UnitMoved
  <2> QED BY <2>2, <2>3
<1>8. Switchable(new, id)
  <2>1. \A n \in DOMAIN ct.parts : ct.parts[n].h = One \/ ct.parts[n].h = Keys!Handle(1, 1, id)
    <3> SUFFICES ASSUME NEW n \in DOMAIN ct.parts
                 PROVE  ct.parts[n].h = One \/ ct.parts[n].h = Keys!Handle(1, 1, id)
      OBVIOUS
    <3>1. Len(ct.parts) =< 2 /\ n \in 1 .. Len(ct.parts) /\ Len(ct.parts) \in Nat \ {0}
      <4>1. ct.parts \in Seq(Parts) /\ ct.parts # <<>> /\ Len(ct.parts) =< 2
        BY <1>2, <1>5 DEF InCanonicalForm, Good, GoodList, IsEmpty
      <4> HIDE DEF ct
      <4> QED BY <4>1
    <3>2. n = 1 \/ (n = 2 /\ Len(ct.parts) > 1)
      <4> DEFINE len == Len(ct.parts)
      <4>1. len =< 2 /\ n \in 1 .. len /\ len \in Nat \ {0}
        BY <3>1
      <4> HIDE DEF len
      <4>2. n = 1 \/ (n = 2 /\ len > 1)
        BY <4>1
      <4> QED BY <4>2 DEF len
    <3>3. CASE n = 1
      BY <1>2, <3>1, <3>3 DEF InCanonicalForm
    <3>4. CASE n = 2 /\ Len(ct.parts) > 1
      <4>1. IsBase(ct.parts[2].h, id) /\ ct.parts[2].h \in Keys!Handles
        BY <1>2, <1>5, <3>4 DEF InCanonicalForm, Good, GoodList, GoodHandle
      <4>2. id # AnyKey
        BY <1>2, NodeFacts
      <4> HIDE DEF id
      <4> QED BY <3>4, <4>1, <4>2 DEF IsBase, Keys!Handle, Keys!Handles
    <3> QED BY <3>2, <3>3, <3>4
  <2>2. [Keys!Handle(1, 1, id) EXCEPT !.x = Keys!MulMod(@, amt)] = Keys!Handle(1, amt, id)
    <3>1. Keys!MulMod(1, amt) = amt
      BY <1>3, NodeFacts, MulModByOne
    <3> HIDE DEF amt, id
    <3> QED BY <3>1 DEF Keys!Handle
  <2> HIDE DEF new, ct, amt, w, id
  <2>3. \A n \in DOMAIN new.parts : new.parts[n].h \in {One, Keys!Handle(1, amt, id)}
    BY <1>6, <2>1, <2>2
  <2> QED BY <1>3, <2>3 DEF Switchable
<1> HIDE DEF new, amt, w
<1>9. /\ call' \in CallRecords /\ call'.op = "relin" /\ call'.after = "walk" /\ call'.c = c
      /\ call'.id = id /\ call'.k = Keys!MulMod(k, Keys!InvMod(amt))
      /\ call'.done = Keys!MulMod(call.done, amt) /\ call'.asked = call.asked
      /\ call'.i = 1 /\ call'.tmp = call.tmp /\ call'.other = call.other
  <2>1. Keys!MulMod(k, Keys!InvMod(amt)) \in Keys!Node
    BY <1>7, NodeFacts
  <2> QED BY <1>1, <1>4, <1>7, <2>1 DEF CallRecords, Ops
<1>10. /\ ctxt' \in [Ctxts -> CiphertextRecords] /\ \A b \in Ctxts : Good(ctxt'[b])
       /\ ctxt'[c] = new /\ \A b \in Ctxts \ {c} : ctxt'[b] = ctxt[b]
  BY <1>1, <1>4, <1>5, <1>6, CtxtReplaced
<1>11. ctxt'[call'.c] = new
  BY <1>9, <1>10
<1> HIDE DEF c, ct, id, k
<1>12. CtxtsInv'
  BY <1>1, <1>6, <1>10 DEF CtxtsInv
<1>13. LocalsInv'
  BY <1>1, <1>9 DEF LocalsInv
<1>14. ControlInv' /\ AddInv' /\ TensorInv' /\ PartsInv'
  BY <1>1, <1>5, <1>6, <1>9, <1>11 DEF ControlInv, AddInv, TensorInv, PartsInv
<1>15. WalkInv'
  <2>1. \A j : Keys!HasRow(j)' = Keys!HasRow(j) /\ Keys!Row(j)' = Keys!Row(j)
    BY <1>1, RowsKept
  <2>2. Switchable(ctxt'[call'.c], call'.id)
    BY <1>8, <1>9, <1>11
  <2>3. Switchable(ctxt[call.c], call.id)'
    BY <1>1, <2>2, RowsKept DEF Switchable
  <2> QED BY <1>2, <1>3, <1>7, <1>9, <2>1, <2>3 DEF WalkInv
<1> QED BY <1>1, <1>4, <1>12, <1>13, <1>14, <1>15, KeysKept DEF IInv, CallInv

LEMMA WalkEndStep ==
  ASSUME IInv, WalkEnd
  PROVE  IInv'
BY FailedGood DEF WalkEnd, Outcomes

-----------------------------------------------------------------------------
(* The invariant is inductive.                                             *)

LEMMA CallsPreserveIInv ==
  ASSUME IInv, Calls
  PROVE  IInv'
<1>1. ASSUME NEW c \in Ctxts, DummyEncrypt(c) \/ \E id \in Keys!KeyId : Encrypt(c, id)
      PROVE  IInv'
  BY <1>1, DummyEncryptStep, EncryptStep
<1>2. ASSUME NEW c \in Ctxts, CleanUp(c) \/ DropSmallAndSpecialPrimes(c)
      PROVE  IInv'
  BY <1>2, CleanUpStep, DropStep
<1>3. ASSUME NEW c \in Ctxts, NEW d \in Ctxts, AddCtxt(c, d)
      PROVE  IInv'
  BY <1>3, AddCtxtStep
<1>4. ASSUME NEW c \in Ctxts, NEW d \in Ctxts, NEW destructive \in BOOLEAN,
             \/ MultLowLvl(c, d, destructive, "idle")
             \/ MultLowLvl(c, d, FALSE, "relin")
      PROVE  IInv'
  <2>1. CASE MultLowLvl(c, d, destructive, "idle")
    BY <2>1, MultLowLvlStep
  <2>2. CASE MultLowLvl(c, d, FALSE, "relin")
    BY <2>2, MultLowLvlStep
  <2> QED BY <1>4, <2>1, <2>2
<1>5. ASSUME NEW c \in Ctxts, NEW id \in Keys!KeyId \cup {AnyKey}, ReLinearize(c, id)
      PROVE  IInv'
  BY <1>5, ReLinearizeStep
<1>6. ASSUME NEW c \in Ctxts, NEW k \in XPowers, Automorph(c, k) \/ SmartAutomorph(c, k)
      PROVE  IInv'
  BY <1>6, AutomorphStep, SmartAutomorphStep
<1> QED BY <1>1, <1>2, <1>3, <1>4, <1>5, <1>6 DEF Calls

LEMMA StepsPreserveIInv ==
  ASSUME IInv, Steps
  PROVE  IInv'
<1>1. CASE AddPart \/ AddEnd
  BY <1>1, AddPartStep, AddEndStep
<1>2. CASE TensorPart \/ TensorEnd
  BY <1>2, TensorPartStep, TensorEndStep
<1>3. CASE RelinBegin \/ RelinPart \/ RelinEnd
  BY <1>3, RelinBeginStep, RelinPartStep, RelinEndStep
<1>4. CASE CleanEnd
  BY <1>4, CleanEndStep
<1>5. CASE WalkBegin \/ WalkStep \/ WalkEnd
  BY <1>5, WalkBeginStep, WalkStepStep, WalkEndStep
<1> QED BY <1>1, <1>2, <1>3, <1>4, <1>5 DEF Steps

LEMMA NextPreservesIInv == IInv /\ [Next]_vars => IInv'
BY BuildKeysStep, CallsPreserveIInv, StepsPreserveIInv, Stutters DEF Next

LEMMA IInvAlways == Spec => []IInv
BY InitEstablishesIInv, NextPreservesIInv, PTL DEF Spec

-----------------------------------------------------------------------------
(* The properties.                                                         *)

\* The ciphertexts and the variables of the running call always have their types.
THEOREM TypeCorrect == Spec => []TypeOK
<1>1. IInv => TypeOK
  <2> SUFFICES ASSUME IInv PROVE TypeOK
    OBVIOUS
  <2>1. call \in CallRecords /\ ctxt \in [Ctxts -> CiphertextRecords] /\ abandoned \subseteq Ctxts
    BY DEF IInv, CtxtsInv, CallInv, LocalsInv
  <2>2. call.op \in Ops /\ call.after \in {"idle", "relin", "clean", "check", "walk"}
    BY <2>1 DEF IInv, CallInv, ControlInv, CallRecords, Ops
  <2> QED BY <2>1, <2>2 DEF TypeOK, IInv, CallRecords
<1> QED BY <1>1, IInvAlways, PTL

\* Ctxt: the part for 1 comes first, and no handle is there twice, whatever is added,
\* multiplied, switched or mapped by an automorphism.
THEOREM OneAlwaysComesFirst == Spec => []OneComesFirst
<1>1. IInv => OneComesFirst
  <2> SUFFICES ASSUME IInv, NEW ct \in {ctxt[c] : c \in Ctxts} \cup {call.tmp}
               PROVE  /\ ct.parts # <<>> => ct.parts[1].h = One
                      /\ \A i, j \in DOMAIN ct.parts : ct.parts[i].h = ct.parts[j].h => i = j
    BY DEF OneComesFirst
  <2>1. GoodList(ct.parts)
    BY DEF IInv, CtxtsInv, CallInv, LocalsInv, Good
  <2> QED BY <2>1 DEF GoodList
<1> QED BY <1>1, IInvAlways, PTL

\* Ctxt: between calls all the parts of a ciphertext are over its prime set.
THEOREM PartsAlwaysOverPrimeSet == Spec => []PartsOverPrimeSet
<1>1. IInv => PartsOverPrimeSet
  BY DEF IInv, CtxtsInv, CallInv, LocalsInv, PartsOverPrimeSet
<1> QED BY <1>1, IInvAlways, PTL

\* Ctxt: whatever the noise estimates choose, a ciphertext never loses all its primes,
\* and never has some of the special primes.
THEOREM PrimeSetsAlwaysValid == Spec => []PrimeSetValid
<1>1. IInv => \A c \in Ctxts : ValidPrimes(ctxt[c].primeSet)
  BY DEF IInv, CtxtsInv, Good
<1>2. IInv /\ TypeOK => PrimeSetValid
  BY <1>1 DEF PrimeSetValid, ValidPrimes
<1> QED BY <1>2, IInvAlways, TypeCorrect, PTL

\* None of the library's assertions in these calls can fail.
THEOREM AssertionsNeverFail == Spec => []NoAssertionFails
<1>1. IInv => NoAssertionFails
  BY DEF IInv, NoAssertionFails
<1> QED BY <1>1, IInvAlways, PTL

\* reLinearize() to a given key leaves a canonical ciphertext when it returns.
THEOREM RelinearizationIsCanonical == Spec => RelinearizedIsCanonical
<1>1. IInv /\ [Next]_vars =>
        [RelinEnd /\ call.id # AnyKey => InCanonicalForm(ctxt'[call.c], call.id)]_vars
  BY RelinEndStep
<1> QED BY <1>1, IInvAlways, PTL DEF Spec, RelinearizedIsCanonical

\* In a walk every part is for 1 or for a handle the key has a matrix for.
LEMMA WalkSwitches ==
  ASSUME IInv, RelinPart, call.after = "walk"
  PROVE  UNCHANGED thrown
<1> DEFINE p == ctxt[call.c].parts[call.i]
           w == LookUp(p.h, call.id)
<1>1. call.op = "parts" /\ call.i =< Len(ctxt[call.c].parts)
  BY DEF RelinPart
<1>2. call.i \in DOMAIN ctxt[call.c].parts
  BY <1>1, PartFacts
<1>3. /\ KP!IInv /\ call.id \in Keys!KeyId /\ Keys!HasRow(call.id)
      /\ DOMAIN Keys!Row(call.id) = Keys!Node /\ Switchable(ctxt[call.c], call.id)
  BY <1>1 DEF IInv, CallInv, WalkInv
<1>4. p.h # One => w \notin {Keys!None, Keys!Throws}
  <2>1. PICK x \in Keys!Units :
          /\ \A n \in DOMAIN ctxt[call.c].parts :
               ctxt[call.c].parts[n].h \in {One, Keys!Handle(1, x, call.id)}
          /\ \E n \in 1 .. Len(keySwitching) :
               keySwitching[n] = [from |-> Keys!Handle(1, x, call.id), to |-> call.id]
    BY <1>3 DEF Switchable
  <2>2. LookUp(Keys!Handle(1, x, call.id), call.id) \notin {Keys!None, Keys!Throws}
    BY <1>3, <2>1, WalkLookUp
  <2>3. p.h # One => p.h = Keys!Handle(1, x, call.id)
    BY <1>2, <2>1
  <2> QED BY <2>2, <2>3
<1>5. GiveUp("assertion") \/ UNCHANGED thrown
  <2>1. \/ p.h # One /\ w = Keys!None
        \/ p.h # One /\ w = Keys!Throws
        \/ GiveUp("assertion")
        \/ UNCHANGED thrown
    BY DEF RelinPart
  <2> HIDE DEF p, w
  <2> QED BY <1>4, <2>1
<1>6. thrown' # "assertion"
  BY RelinPartStep DEF IInv
<1> QED BY <1>5, <1>6 DEF GiveUp, Return

LEMMA WalkNeverFails ==
  ASSUME IInv, Next, call.after = "walk"
  PROVE  thrown' \in {thrown, "none"}
<1>1. call # Idle /\ call.op \notin {"add", "tensor", "clean", "check"}
  BY IdleFacts DEF IInv, CallInv, ControlInv
<1>2. ~ BuildKeys
  BY <1>1 DEF BuildKeys
<1>3. ~ Calls
  <2>1. \A S : ~ CanCall(S)
    BY <1>1 DEF CanCall
  <2>2. \A c, d : ~ DummyEncrypt(c) /\ ~ Encrypt(c, d) /\ ~ CleanUp(c) /\ ~ AddCtxt(c, d)
    BY <2>1 DEF DummyEncrypt, Encrypt, CleanUp, AddCtxt
  <2>3. \A c, d, e, f : ~ MultLowLvl(c, d, e, f)
    BY <2>1 DEF MultLowLvl
  <2>4. \A c, d : ~ ReLinearize(c, d) /\ ~ Automorph(c, d) /\ ~ SmartAutomorph(c, d)
    BY <2>1 DEF ReLinearize, Automorph, SmartAutomorph
  <2>5. \A c : ~ DropSmallAndSpecialPrimes(c)
    BY <2>1 DEF DropSmallAndSpecialPrimes
  <2> QED BY <2>2, <2>3, <2>4, <2>5 DEF Calls
<1>4. ~ (AddPart \/ AddEnd \/ TensorPart \/ TensorEnd \/ CleanEnd \/ WalkBegin)
  BY <1>1 DEF AddPart, AddEnd, TensorPart, TensorEnd, CleanEnd, WalkBegin
<1>5. CASE RelinBegin
  <2>1. thrown' # "assertion"
    BY <1>5, RelinBeginStep DEF IInv
  <2> QED BY <1>5, <2>1 DEF RelinBegin, Return
<1>6. CASE RelinPart
  BY <1>6, WalkSwitches
<1>7. CASE RelinEnd
  BY <1>7 DEF RelinEnd
<1>8. CASE WalkStep
  BY <1>8, WalkStepStep
<1>9. CASE WalkEnd
  BY <1>9 DEF WalkEnd, Return
<1> QED BY <1>2, <1>3, <1>4, <1>5, <1>6, <1>7, <1>8, <1>9 DEF Next, Steps

\* At the end of a walk there is nothing left to do.
LEMMA WalkDone ==
  ASSUME IInv, WalkEnd
  PROVE  call.done = call.asked /\ InCanonicalForm(ctxt[call.c], call.id)
<1>1. call.op = "walk" /\ call.k = 1 /\ call.after = "walk"
  BY DEF WalkEnd, IInv, CallInv, ControlInv
<1>2. Keys!MulMod(call.done, 1) = call.asked /\ InCanonicalForm(ctxt[call.c], call.id)
  BY <1>1 DEF IInv, CallInv, WalkInv
<1>3. call.done \in Keys!Node
  BY DEF IInv, CallInv, LocalsInv, CallRecords
<1>4. Keys!MulMod(call.done, 1) = call.done
  BY <1>3, KP!MulModOne, SameConstants, KeysAssumption
<1> QED BY <1>2, <1>4

\* smartAutomorph(): its test at the start is enough for all the steps along the map, and
\* they compose to the automorphism it was asked for.
THEOREM AutomorphismApplied == Spec => AutomorphApplied
<1>1. IInv /\ [Next]_vars => [call.after = "walk" => thrown' \in {thrown, "none"}]_vars
  BY WalkNeverFails
<1>2. IInv /\ [Next]_vars =>
        [WalkEnd => call.done = call.asked /\ InCanonicalForm(ctxt[call.c], call.id)]_vars
  BY WalkDone
<1> QED BY <1>1, <1>2, IInvAlways, PTL DEF Spec, AutomorphApplied, WalkSucceeds
=============================================================================
