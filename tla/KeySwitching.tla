---------------------------- MODULE KeySwitching ----------------------------
(***************************************************************************)
(* The key-switching matrices of a helib::PubKey / SecKey.                 *)
(*                                                                         *)
(* keySwitching is the list of matrices W[s_from^r(X^t) => s_to(X)].  It   *)
(* only ever grows.  keySwitchMap has one row per secret key: entry k of   *)
(* row i is the index of the first matrix to use when s_i(X^k) has to be   *)
(* brought back to s_i(X).  A row is a snapshot: setKeySwitchMap(i)        *)
(* recomputes row i by a breadth-first search, and matrices generated      *)
(* afterwards are not in it.                                               *)
(*                                                                         *)
(* One call runs at a time ("not thread-safe", ImportSecKey); the search   *)
(* and the loop of addAllMatrices() are steps.  A matrix index is one more *)
(* than in the code, so that 0 stands for -1, none.                        *)
(***************************************************************************)
EXTENDS Integers, Sequences, FiniteSets

CONSTANTS
  M,            \* the m of the cyclotomic ring
  MaxKeys,      \* bound: secret keys
  MaxMatrices,  \* bound: a call that generates matrices starts below it
  MaxDegree,    \* bound: largest maxDegKswitch
  XPowers       \* the powers of X the application asks a matrix for

ASSUME MAssumption == M \in Nat /\ M > 2
ASSUME BoundsAssumption ==
  /\ MaxKeys \in Nat \ {0} /\ MaxMatrices \in Nat /\ MaxDegree \in Nat
  /\ XPowers \subseteq Nat

VARIABLES
  nKeys,         \* number of secret keys: skBounds.size() and sKeys.size()
  keySwitching,  \* the matrices
  keySwitchMap,  \* the rows, numbered from 1; a row resize() made is empty
  op,            \* "idle", or the loop in progress: "addAll", "bfs"
  key,           \* the key the loop in progress is about
  cursor,        \* the loop variable of addAllMatrices()
  queue, edge,   \* of the search: the queue and the matrix the inner loop is at
  threw,         \* the last call ended in an exception
  seen           \* history: how many matrices there were when a row was computed; -1 before

keys == <<nKeys, keySwitching, keySwitchMap>>
loop == <<key, cursor, queue, edge>>
vars == <<keys, op, loop, threw, seen>>

-----------------------------------------------------------------------------
Node  == 0 .. M - 1
KeyId == 0 .. MaxKeys - 1

\* PAlgebra::inZmStar and NTL::InvMod.
IsInverse(j, k) == (j * k) % M = 1
Units           == {k \in Node : \E j \in Node : IsInverse(j, k)}
InvMod(k)       == CHOOSE j \in Node : IsInverse(j, k)
MulMod(j, k)    == (j * k) % M

\* SKHandle: s_id(X^x) to the power s.
Handle(s, x, id) == [s |-> s, x |-> x, id |-> id]
Handles == [s : Nat, x : Nat, id : KeyId]

\* KeySwitch: fromKey and toKeyID.
Matrices == [from : Handles, to : KeyId]

None     == 0    \* the index of the dummy matrix
Throws   == -1   \* vector::at throws out_of_range
EmptyRow == [k \in Node |-> None]

\* Row of key id, if the map has one.
HasRow(id) == id < Len(keySwitchMap)
Row(id)    == keySwitchMap[id + 1]

Holds(h, to, n) == keySwitching[n].from = h /\ keySwitching[n].to = to

\* The linear search for a matrix from h, to the key "to" or to any key.
FirstOf(S) == IF S = {} THEN None ELSE CHOOSE n \in S : \A k \in S : n =< k

\* keySwitchMap.at(id).at(x), when the code looks there.
AsksRow(h)    == h.s = 1 /\ HasRow(h.id)
Probe(h)      == IF h.x \in DOMAIN Row(h.id) THEN Row(h.id)[h.x] ELSE Throws
HitsRow(h)    == Probe(h) # None /\ keySwitching[Probe(h)].from = h

\* Mutant: the matrix found through the map is returned unchecked.
GetFirstHop(h, to) ==
  IF AsksRow(h) /\ h.id = to /\ Probe(h) # None THEN Probe(h)
  ELSE FirstOf({n \in 1 .. Len(keySwitching) : Holds(h, to, n)})

GetKeySWmatrix(h, to) ==
  IF AsksRow(h) /\ h.id = to /\ Probe(h) = Throws THEN Throws
  ELSE IF AsksRow(h) /\ h.id = to /\ HitsRow(h) THEN Probe(h)
  ELSE FirstOf({n \in 1 .. Len(keySwitching) : Holds(h, to, n)})

GetAnyKeySWmatrix(h) ==
  IF AsksRow(h) /\ Probe(h) = Throws THEN Throws
  ELSE IF AsksRow(h) /\ HitsRow(h) THEN Probe(h)
  ELSE FirstOf({n \in 1 .. Len(keySwitching) : keySwitching[n].from = h})

GetNextKSWmatrix(k, id) ==
  IF HasRow(id) /\ k \in DOMAIN Row(id) THEN Row(id)[k] ELSE Throws

IsReachable(k, id) == HasRow(id) /\ GetNextKSWmatrix(k, id) > None

(***************************************************************************)
(* GenKeySWmatrix: nothing to do for a trivial handle or for a matrix that *)
(* is there; an exception for a lookup that throws, for a key that does    *)
(* not exist (sKeys.at) and for an x outside Zm* (automorph).              *)
(***************************************************************************)
Trivial(h, to) == h.s = 0 \/ h.x = 0 \/ h = Handle(1, 1, to)

GenerationThrows(h, to) ==
  /\ ~ Trivial(h, to)
  /\ \/ GetKeySWmatrix(h, to) = Throws
     \/ /\ GetKeySWmatrix(h, to) = None
        /\ h.id >= nKeys \/ to >= nKeys \/ h.x \notin Units

\* Mutant: no test whether the matrix is there.
GeneratedAgain(h, to) ==
  IF Trivial(h, to) \/ GenerationThrows(h, to) THEN keySwitching
  ELSE Append(keySwitching, [from |-> h, to |-> to])

Generated(h, to) ==
  IF Trivial(h, to) \/ GetKeySWmatrix(h, to) # None \/ GenerationThrows(h, to)
    THEN keySwitching
    ELSE Append(keySwitching, [from |-> h, to |-> to])

-----------------------------------------------------------------------------
Init ==
  /\ nKeys = 0 /\ keySwitching = <<>> /\ keySwitchMap = <<>>
  /\ op = "idle" /\ key = 0 /\ cursor = 0
  /\ queue = <<>> /\ edge = 1
  /\ threw = FALSE
  /\ seen = [id \in KeyId |-> -1]

\* The local variables of a loop end with it.
LeaveSearch == key' = 0 /\ queue' = <<>> /\ edge' = 1
LeaveLoop   == LeaveSearch /\ cursor' = 0

\* ImportSecKey: a new key and the matrices s^e -> s for e = 2 .. maxDegKswitch.
\* (GenKeySWmatrix finds none of these, and never looks into the map for e > 1.)
ImportSecKey(degree) ==
  /\ op = "idle" /\ nKeys < MaxKeys
  /\ nKeys' = nKeys + 1
  /\ keySwitching' = keySwitching \o
       [e \in 1 .. degree - 1 |-> [from |-> Handle(e + 1, 1, nKeys), to |-> nKeys]]
  /\ threw' = FALSE
  /\ UNCHANGED <<keySwitchMap, op, loop, seen>>

GenKeySWmatrix(s, x, from, to) ==
  /\ op = "idle" /\ Len(keySwitching) < MaxMatrices
  /\ keySwitching' = Generated(Handle(s, x, from), to)
  /\ threw' = GenerationThrows(Handle(s, x, from), to)
  /\ UNCHANGED <<nKeys, keySwitchMap, op, loop, seen>>

\* Mutant: the test that the matrix is for s^1 is dropped.
IsEdgeOfAnyPower(n, id) ==
  keySwitching[n].to = id /\ keySwitching[n].from.id = id

\* The matrices the search for key id uses: those from s_id(X^x) to s_id(X).
IsEdge(n, id) ==
  /\ keySwitching[n].to = id
  /\ keySwitching[n].from.s = 1 /\ keySwitching[n].from.id = id

\* setKeySwitchMap(id): the row is emptied, the search starts from node 1.
BeginSearch(id) ==
  /\ op' = "bfs" /\ key' = id
  /\ queue' = <<1>> /\ edge' = 1
  /\ keySwitchMap' = [r \in 1 .. (IF HasRow(id) THEN Len(keySwitchMap) ELSE id + 1) |->
                        IF r = id + 1 THEN EmptyRow
                        ELSE IF r =< Len(keySwitchMap) THEN keySwitchMap[r] ELSE <<>>]
  /\ UNCHANGED <<nKeys, keySwitching, seen>>

\* Mutant: the sanity check lets the index one past the last key through.
SetKeySwitchMapUpTo(id) ==
  /\ op = "idle"
  /\ \/ id =< nKeys /\ BeginSearch(id) /\ threw' = FALSE /\ cursor' = cursor
     \/ id > nKeys /\ threw' = TRUE /\ UNCHANGED <<keys, op, loop, seen>>

SetKeySwitchMap(id) ==
  /\ op = "idle"
  /\ \/ id < nKeys /\ BeginSearch(id) /\ threw' = FALSE /\ cursor' = cursor
     \/ id >= nKeys /\ threw' = TRUE /\ UNCHANGED <<keys, op, loop, seen>>

Target == MulMod(Head(queue), keySwitching[edge].from.x)

\* A node that is met for the first time over the edge the loop is at.
IsNew == IsEdge(edge, key) /\ Row(key)[Target] = None

\* Mutants: a stack instead of a queue; the queue is not popped.
SearchEdgeDepthFirst ==
  /\ op = "bfs" /\ queue # <<>> /\ edge =< Len(keySwitching)
  /\ IF IsNew
       THEN /\ keySwitchMap' = [keySwitchMap EXCEPT ![key + 1][Target] = edge]
            /\ queue' = <<Head(queue), Target>> \o Tail(queue)
       ELSE UNCHANGED <<keySwitchMap, queue>>
  /\ edge' = edge + 1
  /\ UNCHANGED <<nKeys, keySwitching, op, key, cursor, threw, seen>>

SearchKeepsNode ==
  /\ op = "bfs" /\ queue # <<>> /\ edge > Len(keySwitching)
  /\ edge' = 1
  /\ UNCHANGED <<keys, op, key, cursor, queue, threw, seen>>

\* One pass of the inner loop: an edge into the node at the head of the queue.  The code
\* collects the edges beforehand; passing over the other matrices takes the same edges
\* in the same order.
SearchEdge ==
  /\ op = "bfs" /\ queue # <<>> /\ edge =< Len(keySwitching)
  /\ IF IsNew
       THEN /\ keySwitchMap' = [keySwitchMap EXCEPT ![key + 1][Target] = edge]
            /\ queue' = Append(queue, Target)
       ELSE UNCHANGED <<keySwitchMap, queue>>
  /\ edge' = edge + 1
  /\ UNCHANGED <<nKeys, keySwitching, op, key, cursor, threw, seen>>

SearchPop ==
  /\ op = "bfs" /\ queue # <<>> /\ edge > Len(keySwitching)
  /\ queue' = Tail(queue) /\ edge' = 1
  /\ UNCHANGED <<keys, op, key, cursor, threw, seen>>

SearchEnd ==
  /\ op = "bfs" /\ queue = <<>>
  /\ op' = "idle"
  /\ LeaveSearch
  /\ seen' = [seen EXCEPT ![key] = Len(keySwitching)]
  /\ UNCHANGED <<keys, cursor, threw>>

\* addAllMatrices(sKey, keyID): a matrix for every element of Zm*, then
\* "re-compute the key-switching map", which is that of key 0.  (A loop that ends has
\* found or made a matrix for an element other than 1, so that key 0 exists.)
AddAllMatrices(id) ==
  /\ op = "idle" /\ Len(keySwitching) < MaxMatrices
  /\ op' = "addAll" /\ key' = id /\ cursor' = 0
  /\ UNCHANGED <<keys, queue, edge, threw, seen>>

AddNext ==
  /\ op = "addAll" /\ cursor < M
  /\ LET h == Handle(1, cursor, key)
         skip == cursor \notin Units
     IN \/ /\ ~ skip /\ GenerationThrows(h, key)
           /\ op' = "idle" /\ threw' = TRUE /\ LeaveLoop
           /\ UNCHANGED keySwitching
        \/ /\ skip \/ ~ GenerationThrows(h, key)
           /\ keySwitching' = IF skip THEN keySwitching ELSE Generated(h, key)
           /\ cursor' = cursor + 1
           /\ UNCHANGED <<op, threw, key, queue, edge>>
  /\ UNCHANGED <<nKeys, keySwitchMap, seen>>

AddDone ==
  /\ op = "addAll" /\ cursor = M
  /\ BeginSearch(0)
  /\ cursor' = 0 /\ threw' = FALSE

Steps == SearchEdge \/ SearchPop \/ SearchEnd \/ AddNext \/ AddDone

Calls ==
  \/ \E degree \in 1 .. MaxDegree : ImportSecKey(degree)
  \/ \E s \in 0 .. MaxDegree, x \in XPowers, from, to \in KeyId : GenKeySWmatrix(s, x, from, to)
  \/ \E id \in KeyId : SetKeySwitchMap(id) \/ AddAllMatrices(id)

Next == Calls \/ Steps

Spec == Init /\ [][Next]_vars

\* A thread that entered one of the loops runs it to its end.
FairSpec == Spec /\ WF_vars(Steps)

-----------------------------------------------------------------------------
(* Properties.                                                             *)

Rows == [Node -> 0 .. Len(keySwitching)]

\* The key material and the loops' variables have the types the code gives them.
TypeOK ==
  /\ nKeys \in 0 .. MaxKeys
  /\ keySwitching \in Seq(Matrices)
  /\ keySwitchMap \in Seq(Rows \cup {<<>>}) /\ Len(keySwitchMap) =< nKeys
  /\ op \in {"idle", "addAll", "bfs"}
  /\ key \in KeyId /\ cursor \in Int
  /\ queue \in Seq(Node) /\ edge \in 1 .. Len(keySwitching) + 1
  /\ threw \in BOOLEAN
  /\ seen \in [KeyId -> -1 .. Len(keySwitching)]

\* The node a walk along the map is at after the first matrix of node k.
After(k, id) == MulMod(k, InvMod(keySwitching[Row(id)[k]].from.x))

\* "The entry keySwitchMap[i][n] contains the index j such that keySwitching[j] is the
\* first matrix one needs to use when re-linearizing s_i(X^n)": the entry is a matrix
\* of key i, and after it the walk is at 1 or at another node with an entry, so that
\* smartAutomorph() never meets the dummy matrix on its way.  It holds in the middle
\* of the search and for a row that is out of date.
MapLeadsHome ==
  \A id \in 0 .. Len(keySwitchMap) - 1 : \A k \in DOMAIN Row(id) :
    Row(id)[k] # None =>
      /\ k \in Units
      /\ \E x \in Units : keySwitching[Row(id)[k]] = [from |-> Handle(1, x, id), to |-> id]
      /\ After(k, id) = 1 \/ Row(id)[After(k, id)] # None

\* No matrix is generated twice: the test in GenKeySWmatrix sees every matrix of the
\* list, whether it finds it through the map or by the linear search.
NoDuplicates ==
  \A n, k \in 1 .. Len(keySwitching) : keySwitching[n] = keySwitching[k] => n = k

\* The map was computed for key id, or is being computed.
Computed(id) == seen[id] >= 0 \/ (op = "bfs" /\ key = id)

\* Never for key id, but for a later key: there is a row for id, and it is empty.
Skipped(id) == ~ Computed(id) /\ \E later \in KeyId : later > id /\ Computed(later)

\* What the two lookups return in every case.  One that asks for s_id(X^x) -> s_id(X)
\* throws when the map of key id was skipped, and only then, whether the matrix exists
\* or not: keys.h:111 ("If no such matrix exists it returns a dummy matrix") does not
\* hold of that case.  Every other one finds a matrix for this very handle and key when
\* there is one, and the dummy otherwise; an entry of the map is only a first step and
\* may be for another handle.
LookupCorrect ==
  \A s \in 1 .. MaxDegree + 1, x \in Node, id, to \in KeyId :
    LET h == Handle(s, x, id)
        w == GetKeySWmatrix(h, to)
        v == GetAnyKeySWmatrix(h)
    IN /\ w = Throws <=> s = 1 /\ id = to /\ Skipped(id)
       /\ v = Throws <=> s = 1 /\ Skipped(id)
       /\ w > None  => Holds(h, to, w)
       /\ w = None  => \A n \in 1 .. Len(keySwitching) : ~ Holds(h, to, n)
       /\ v > None  => keySwitching[v].from = h
       /\ v = None  => \A n \in 1 .. Len(keySwitching) : keySwitching[n].from # h

\* Distances in the graph of the first n matrices: a product of d of their exponents.
Exponents(id, n) == {keySwitching[j].from.x : j \in {l \in 1 .. n : IsEdge(l, id)}}

ProductsOf(E) ==
  LET level[d \in 0 .. M] ==
        IF d = 0 THEN {1} ELSE {MulMod(k, a) : k \in level[d - 1], a \in E}
  IN level

Walk(k, id) ==
  LET at[d \in 0 .. M] == IF d = 0 THEN k ELSE IF at[d - 1] = 1 THEN 1 ELSE After(at[d - 1], id)
  IN at

\* A row that is not being computed has an entry for exactly the nodes that the
\* matrices known when it was computed can bring back to 1.
MapComplete ==
  \A id \in 0 .. Len(keySwitchMap) - 1 : Row(id) # <<>> /\ ~ (op = "bfs" /\ key = id) =>
    LET level == ProductsOf(Exponents(id, seen[id]))
    IN \A k \in Node : Row(id)[k] # None <=> \E d \in 1 .. M : k \in level[d]

\* The walk along it takes the fewest key-switchings those matrices allow.
ShortestWalks ==
  \A id \in 0 .. Len(keySwitchMap) - 1 :
    LET level == ProductsOf(Exponents(id, seen[id]))
    IN Row(id) # <<>> /\ ~ (op = "bfs" /\ key = id) =>
         \A k \in Node \ {1}, d \in 1 .. M :
           Row(id)[k] # None /\ k \in level[d] => Walk(k, id)[d] = 1

\* keys.cpp:89: the entries are those of a breadth-first search.
MapRight == MapComplete /\ ShortestWalks

\* Every call returns: the search ends, though its queue grows while it runs.
CallsReturn == op # "idle" ~> op = "idle"

=============================================================================
