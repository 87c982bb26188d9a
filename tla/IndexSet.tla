------------------------------ MODULE IndexSet ------------------------------
(***************************************************************************)
(* helib::IndexSet: a dynamic set of non-negative integers kept as a       *)
(* vector of bits "rep" together with three cached numbers, the lowest     *)
(* element, the highest element and the number of elements.  Every prime   *)
(* set of the library (of a context, a ciphertext, a DoubleCRT) is one.    *)
(*                                                                         *)
(* The module describes one object x under its public operations.  An      *)
(* operation that takes a second set t walks over it element by element,   *)
(* so it is a loop here too: BeginInsertSet and its like start one, a      *)
(* ...Step is one iteration of the body, and Return leaves the loop when   *)
(* its test fails.  retain() is the delicate one: it walks over x itself   *)
(* while it removes elements from x.                                       *)
(***************************************************************************)
EXTENDS Integers, FiniteSets, Sequences

CONSTANT MaxIndex   \* bound: the largest index the environment inserts

ASSUME MaxIndexAssumption == MaxIndex \in Nat

Index == 0 .. MaxIndex

VARIABLES
  x,        \* the object
  op,       \* the loop in progress, or "idle"
  t,        \* the argument of the loop in progress, a const reference
  i,        \* its cursor
  before    \* history: the elements x had when the loop began

vars == <<x, op, t, i, before>>

-----------------------------------------------------------------------------
(* The representation.  DOMAIN rep is 0 .. size-1, like a vector of bits.  *)


\* The set an object stands for: "rep always defines the characteristic function".
Elements(s) == {j \in 0 .. s.size - 1 : s.rep[j]}

IsLeast(j, S)    == j \in S /\ \A k \in S : j =< k
IsGreatest(j, S) == j \in S /\ \A k \in S : k =< j

Empty == [size |-> 0, rep |-> [j \in {} |-> FALSE], first |-> 0, last |-> -1, card |-> 0]

\* intervalConstructor(low, high)
Interval(low, high) ==
  IF high < low
    THEN Empty
    ELSE [size |-> high + 1, rep |-> [j \in 0 .. high |-> j >= low],
          first |-> low, last |-> high, card |-> high - low + 1]

Contains(s, j) == s.first =< j /\ j =< s.last /\ s.rep[j]

\* Mutants of next(): j is advanced before the bounds test and again in the scan;
\* the end is never passed.
NextTooFar(s, j) ==
  IF s.card = 0 \/ j + 1 >= s.last THEN j + 2
  ELSE IF j < s.first THEN s.first
  ELSE CHOOSE k \in j + 1 .. s.size - 1 : IsLeast(k, {l \in j + 1 .. s.size - 1 : s.rep[l]})

NextStuckAtLast(s, j) ==
  IF s.card = 0 THEN j + 1
  ELSE IF j >= s.last THEN s.last
  ELSE IF j < s.first THEN s.first
  ELSE CHOOSE k \in j + 1 .. s.size - 1 : IsLeast(k, {l \in j + 1 .. s.size - 1 : s.rep[l]})

\* The scan "while (rep[j] == false) j++" stops at the next set bit.
NextOf(s, j) ==
  IF s.card = 0 \/ j >= s.last THEN j + 1
  ELSE IF j < s.first THEN s.first
  ELSE CHOOSE k \in j + 1 .. s.size - 1 : IsLeast(k, {l \in j + 1 .. s.size - 1 : s.rep[l]})

PrevOf(s, j) ==
  IF s.card = 0 THEN j - 1
  ELSE IF j > s.last THEN s.last
  ELSE IF j =< s.first THEN j - 1
  ELSE CHOOSE k \in 0 .. j - 1 : IsGreatest(k, {l \in 0 .. j - 1 : s.rep[l]})

Larger(a, b)  == IF a >= b THEN a ELSE b
Smaller(a, b) == IF a =< b THEN a ELSE b

\* insert(j): grow the vector, move the ends, count a new element.
WithInserted(s, j) ==
  LET n   == Larger(s.size, j + 1)
      old == [k \in 0 .. n - 1 |-> IF k < s.size THEN s.rep[k] ELSE FALSE]
  IN [size  |-> n,
      rep   |-> [old EXCEPT ![j] = TRUE],
      first |-> IF s.card = 0 THEN j ELSE Smaller(s.first, j),
      last  |-> IF s.card = 0 THEN j ELSE Larger(s.last, j),
      card  |-> IF s.card = 0 THEN 1 ELSE IF old[j] THEN s.card ELSE s.card + 1]

\* Mutant of remove(j): the highest element is removed and _last stays.
RemoveKeepsLast(s, j) ==
  IF j >= s.size THEN s
  ELSE IF ~ s.rep[j] THEN s
  ELSE [size  |-> s.size,
        rep   |-> [s.rep EXCEPT ![j] = FALSE],
        first |-> IF s.card = 1 THEN 0 ELSE IF s.first = j THEN NextOf(s, s.first) ELSE s.first,
        last  |-> IF s.card = 1 THEN -1 ELSE s.last,
        card  |-> s.card - 1]

\* remove(j): the new ends are read off the old representation.
WithRemoved(s, j) ==
  IF j >= s.size THEN s
  ELSE IF ~ s.rep[j] THEN s
  ELSE [size  |-> s.size,
        rep   |-> [s.rep EXCEPT ![j] = FALSE],
        first |-> IF s.card = 1 THEN 0 ELSE IF s.first = j THEN NextOf(s, s.first) ELSE s.first,
        last  |-> IF s.card = 1 THEN -1 ELSE IF s.last = j THEN PrevOf(s, s.last) ELSE s.last,
        card  |-> s.card - 1]

\* Mutant of operator==: the bits are not compared.
EqualByCaches(s, u) == s.card = u.card /\ s.first = u.first /\ s.last = u.last

\* operator==: the cached numbers first, then the bits between the ends.
Equal(s, u) ==
  /\ s.card = u.card /\ s.first = u.first /\ s.last = u.last
  /\ \A j \in s.first .. s.last : s.rep[j] = u.rep[j]

IsInterval(s) == s.card = 1 + s.last - s.first

(***************************************************************************)
(* The comment on the data members: if _card = 0 then _first = 0 and       *)
(* _last = -1, otherwise _first and _last are the lowest and the highest   *)
(* index in the set; _card counts the set bits.                            *)
(***************************************************************************)
IsIndexSet(s) ==
  /\ DOMAIN s = {"size", "rep", "first", "last", "card"}
  /\ s.size \in Nat
  /\ s.rep \in [0 .. s.size - 1 -> BOOLEAN]

CachesAgree(s) ==
  /\ s.card = Cardinality(Elements(s))
  /\ IF Elements(s) = {}
       THEN s.first = 0 /\ s.last = -1
       ELSE IsLeast(s.first, Elements(s)) /\ IsGreatest(s.last, Elements(s))

\* The object with these elements in a vector of n bits: every well-formed one.
ObjectOf(S, n) ==
  [size |-> n, rep |-> [j \in 0 .. n - 1 |-> j \in S],
   first |-> IF S = {} THEN 0 ELSE CHOOSE j \in S : IsLeast(j, S),
   last  |-> IF S = {} THEN -1 ELSE CHOOSE j \in S : IsGreatest(j, S),
   card  |-> Cardinality(S)]

\* What the environment may pass as a second set.
Argument == UNION {{ObjectOf(S, n) : S \in SUBSET (0 .. n - 1)} : n \in 0 .. MaxIndex + 1}

-----------------------------------------------------------------------------
Init ==
  /\ x = Empty
  /\ op = "idle"
  /\ t = Empty
  /\ i = 0
  /\ before = {}

\* An operation that returns at once.
Update(s) ==
  /\ op = "idle"
  /\ x' = s
  /\ UNCHANGED <<op, t, i, before>>

Construct == \E low \in Index, high \in -1 .. MaxIndex : Update(Interval(low, high))
Clear     == Update(Empty)
Insert    == \E j \in Index : Update(WithInserted(x, j))
Remove    == \E j \in Index : Update(WithRemoved(x, j))

\* Enter the loop of an operation whose argument is the set s.
Begin(name, s, cursor) ==
  /\ op = "idle"
  /\ op' = name
  /\ t' = s
  /\ i' = cursor
  /\ before' = Elements(x)
  /\ x' = x

\* insert(s): nothing to do for an empty s, a copy when x is empty, else a
\* walk from high to low.  (insert(x) on x itself returns at once.)
InsertSet(s) ==
  \/ s.card = 0 /\ Update(x)
  \/ s.card # 0 /\ x.card = 0 /\ Update(s)
  \/ s.card # 0 /\ x.card # 0 /\ Begin("insert", s, s.last)

\* remove(s): a walk over s from low to high.
RemoveSet(s) ==
  \/ (s.card = 0 \/ x.card = 0) /\ Update(x)
  \/ s.card # 0 /\ x.card # 0 /\ Begin("remove", s, s.first)

\* x.remove(x) empties x.
RemoveSelf == Update(Empty)

\* retain(s): a walk over x itself from low to high.
RetainSet(s) ==
  \/ s.card = 0 /\ Update(Empty)
  \/ s.card # 0 /\ x.card = 0 /\ Update(x)
  \/ s.card # 0 /\ x.card # 0 /\ Begin("retain", s, x.first)

\* Mutant: retain() runs to the last element of its argument.
InLoopOfArgument ==
  CASE op = "insert" -> i >= t.first
    [] op \in {"remove", "retain"} -> i =< t.last
    [] OTHER -> FALSE

InLoop ==
  CASE op = "insert" -> i >= t.first
    [] op = "remove" -> i =< t.last
    [] op = "retain" -> i =< x.last
    [] OTHER -> FALSE

\* Mutant: the cursor moves over the object and not over the argument.
InsertStepOverSelf ==
  /\ op = "insert" /\ InLoop
  /\ x' = WithInserted(x, i)
  /\ i' = PrevOf(x', i)
  /\ UNCHANGED <<op, t, before>>

InsertStep ==
  /\ op = "insert" /\ InLoop
  /\ x' = WithInserted(x, i)
  /\ i' = PrevOf(t, i)
  /\ UNCHANGED <<op, t, before>>

RemoveStep ==
  /\ op = "remove" /\ InLoop
  /\ x' = WithRemoved(x, i)
  /\ i' = NextOf(t, i)
  /\ UNCHANGED <<op, t, before>>

RetainStep ==
  /\ op = "retain" /\ InLoop
  /\ x' = IF Contains(t, i) THEN x ELSE WithRemoved(x, i)
  /\ i' = NextOf(x', i)
  /\ UNCHANGED <<op, t, before>>

Return ==
  /\ op # "idle" /\ ~ InLoop
  /\ op' = "idle"
  /\ UNCHANGED <<x, t, i, before>>

SetOperation == \E s \in Argument : InsertSet(s) \/ RemoveSet(s) \/ RetainSet(s)

Next ==
  \/ Construct \/ Clear \/ Insert \/ Remove
  \/ SetOperation \/ RemoveSelf
  \/ InsertStep \/ RemoveStep \/ RetainStep \/ Return

Spec == Init /\ [][Next]_vars

\* The loops contain no wait: a thread that entered one keeps iterating.
FairSpec == Spec /\ WF_vars(InsertStep \/ RemoveStep \/ RetainStep \/ Return)

-----------------------------------------------------------------------------
(* Walks that do not change x, and what is written from and read into it.  *)

\* The elements that "for (i = first(); i <= last(); i = next(i))" visits, in order.
Walk(s) ==
  LET from[j \in 0 .. s.size + 1] ==
        IF j > s.last THEN <<>> ELSE <<j>> \o from[NextOf(s, j)]
  IN from[s.first]

Visited(s) == {Walk(s)[n] : n \in DOMAIN Walk(s)}

ContainsSet(s, u) == \A j \in Visited(u) : Contains(s, j)

DisjointFrom(s, u) ==
  \/ s.card = 0 \/ u.card = 0 \/ s.last < u.first \/ u.last < s.first
  \/ \A j \in Visited(u) : ~ Contains(s, j)

\* writeTo: the cardinality and the elements; readFrom: that many insertions.
WriteTo(s)  == [n |-> s.card, elements |-> Walk(s)]
ReadFrom(w) ==
  LET got[n \in 0 .. w.n] == IF n = 0 THEN Empty ELSE WithInserted(got[n - 1], w.elements[n])
  IN got[w.n]

-----------------------------------------------------------------------------
(* Properties.                                                             *)

\* The fields have the ranges the C++ types and the callers give them.
TypeOK ==
  /\ IsIndexSet(x) /\ IsIndexSet(t)
  /\ op \in {"idle", "insert", "remove", "retain"}
  /\ i \in -1 .. MaxIndex + 1
  /\ before \subseteq Index

\* The invariant the class states for its members, at every moment, also in the
\* middle of a loop: the cached ends and the count are those of the bits.
CachesCorrect == CachesAgree(x) /\ CachesAgree(t)

\* A loop only ever acts on elements of the set it walks over, so that no scan for
\* the next bit leaves the vector.  For retain() that set is x, which the body of
\* the loop shrinks, so that the ends the loop test reads move under it.
CursorOnElement ==
  InLoop => i \in IF op = "retain" THEN Elements(x) ELSE Elements(t)

\* Where a loop stands: the part of the argument behind the cursor is done and the
\* part before it is not.
LoopInv ==
  CASE op = "insert" -> Elements(x) = before \cup {j \in Elements(t) : j > i}
    [] op = "remove" -> Elements(x) = before \ {j \in Elements(t) : j < i}
    [] op = "retain" -> Elements(x) = {j \in before : j >= i \/ j \in Elements(t)}
    [] OTHER -> TRUE

\* The loops of insert(set), remove(set) and retain(): the cursor on an element of the
\* set that is walked, and exactly what is behind it done.
LoopsRight == CursorOnElement /\ LoopInv

\* The observers agree with the sets the two objects stand for, whatever the lengths
\* of their vectors: operator== compares the cached members and one range of bits
\* only, and contains() and disjointFrom() take short cuts on the cached members.
\* What writeTo() writes of an object readFrom() turns into an equal one, with the
\* invariant of the class, though its vector may be shorter.
ObserversCorrect ==
  /\ \A s \in Argument :
       /\ Equal(x, s) <=> Elements(x) = Elements(s)
       /\ ContainsSet(x, s) <=> Elements(s) \subseteq Elements(x)
       /\ DisjointFrom(x, s) <=> Elements(x) \cap Elements(s) = {}
  /\ IsInterval(x) <=> \E low, high \in -1 .. MaxIndex : Elements(x) = low .. high
  /\ LET s == ReadFrom(WriteTo(x))
     IN CachesAgree(s) /\ Equal(s, x) /\ Elements(s) = Elements(x)

\* The three operations with a second set are union, set minus and intersection,
\* and each has its effect as a whole.
Abstract == INSTANCE AbstractSet WITH
  Universe <- Index,
  A        <- IF op = "idle" THEN Elements(x) ELSE before,
  call     <- op,
  arg      <- Elements(t)

IsASet == Abstract!AbsSpec

\* Every operation returns, retain() too, whose loop test reads a set it changes.
Returns == Abstract!AbsFairSpec
=============================================================================
