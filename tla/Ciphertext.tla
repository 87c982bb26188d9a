----------------------------- MODULE Ciphertext -----------------------------
(***************************************************************************)
(* The parts, secret-key handles and prime sets of helib::Ctxt, on top of  *)
(* the key-switching matrices of module KeySwitching.                      *)
(*                                                                         *)
(* A ciphertext is a list of parts.  A part has a handle, which says what  *)
(* element s_id^s(X^x) it is multiplied by on decryption, and a set of     *)
(* primes it is given modulo.  A call works on the ciphertext in place,    *)
(* and calls that go over parts or along the key-switching map are one     *)
(* step per part or matrix.  An exception leaves what was done so far.     *)
(*                                                                         *)
(* Noise, plaintext spaces and the polynomials are left out.  Where the    *)
(* code chooses a prime set from noise estimates, every set it may choose  *)
(* from is possible.  An application stops using a ciphertext on which     *)
(* reLinearize() threw half way (abandoned) until it assigns to it.        *)
(***************************************************************************)
EXTENDS Integers, Sequences, FiniteSets

CONSTANTS
  M, MaxKeys, MaxMatrices, MaxDegree, XPowers,   \* of module KeySwitching
  SmallPrimes, CtxtPrimes, SpecialPrimes,        \* the indices of the prime chain
  Ctxts,                                         \* the ciphertext objects
  Operands,                                      \* bound: those that are only encrypted and read
  MaxS                                           \* bound: powers of s in a product

Primes == SmallPrimes \cup CtxtPrimes \cup SpecialPrimes

IsInterval(P) == \A a, b \in P : a .. b \subseteq P

ASSUME PrimesAssumption ==
  /\ Primes \subseteq Nat /\ CtxtPrimes # {} /\ SpecialPrimes # {}
  /\ IsInterval(SmallPrimes) /\ IsInterval(CtxtPrimes) /\ IsInterval(SpecialPrimes)
  /\ SmallPrimes \cap CtxtPrimes = {} /\ SmallPrimes \cap SpecialPrimes = {}
  /\ CtxtPrimes \cap SpecialPrimes = {}
ASSUME KeysAssumption ==
  /\ M \in Nat /\ M > 2
  /\ MaxKeys \in Nat \ {0} /\ MaxMatrices \in Nat /\ MaxDegree \in Nat
  /\ XPowers \subseteq Nat
ASSUME BoundsAssumption == MaxS \in Nat /\ Operands \subseteq Ctxts /\ Ctxts # {}

VARIABLES
  nKeys, keySwitching, keySwitchMap,             \* the public key, and the loops on it
  op, key, cursor, queue, edge, threw, seen,
  ctxt,       \* the ciphertexts
  call,       \* the running call: its control state and its local variables
  thrown,     \* how the last call on a ciphertext ended
  abandoned   \* the ciphertexts reLinearize() left half way

pubKey == <<nKeys, keySwitching, keySwitchMap, op, key, cursor, queue, edge,
            threw, seen>>
vars == <<pubKey, ctxt, call, thrown, abandoned>>

Keys == INSTANCE KeySwitching

-----------------------------------------------------------------------------
(* Handles, parts and prime sets.                                          *)

One      == Keys!Handle(0, 1, 0)
Base(id) == Keys!Handle(1, 1, id)

\* isBase(-1) asks for the base of any key.
AnyKey        == -1
IsBase(h, id) == h.s = 1 /\ h.x = 1 /\ (id = AnyKey \/ h.id = id)

Parts == [h : Keys!Handles, primes : SUBSET Primes]
Empty == [parts |-> <<>>, primeSet |-> CtxtPrimes]

IsEmpty(ct) == ct.parts = <<>>

InCanonicalForm(ct, id) ==
  /\ Len(ct.parts) =< 2
  /\ Len(ct.parts) > 0 => ct.parts[1].h = One
  /\ Len(ct.parts) > 1 => IsBase(ct.parts[2].h, id)

\* The key of the first part that does not point to one.
Keyed(ct)    == {i \in DOMAIN ct.parts : ct.parts[i].h # One}
GetKeyID(ct) ==
  IF Keyed(ct) = {} THEN 0
  ELSE ct.parts[CHOOSE i \in Keyed(ct) : \A j \in Keyed(ct) : i =< j].h.id

\* SKHandle::mul.
MulFails(g, h) == g # One /\ h # One /\ (g.id # h.id \/ g.x # h.x)
Mul(g, h) == IF g = One THEN h ELSE IF h = One THEN g ELSE [g EXCEPT !.s = @ + h.s]

\* Mutant: the part is appended without a look for its handle.
PartAppended(parts, p) == Append(parts, p)

\* addPart and the like: a part with this handle takes it up, or it is appended.
PartAdded(parts, p) ==
  IF \E i \in DOMAIN parts : parts[i].h = p.h THEN parts ELSE Append(parts, p)

FirstCtxtPrime == CHOOSE a \in CtxtPrimes : \A b \in CtxtPrimes : a =< b
Prefixes == {P \in SUBSET CtxtPrimes : \A a \in P, b \in CtxtPrimes : b < a => b \in P}

\* ModuliSizes: the subsets of the small primes, with every prefix of the ctxt primes.
SizeTable == {S \cup P : S \in SUBSET SmallPrimes, P \in Prefixes}

VerifyPrimeSet(P) == P \cap SpecialPrimes \in {{}, SpecialPrimes} /\ IsInterval(P \cap CtxtPrimes)

ModUp(ct, P) ==
  [parts    |-> [i \in DOMAIN ct.parts |->
                   [ct.parts[i] EXCEPT !.primes = @ \cup (P \ ct.primeSet)]],
   primeSet |-> ct.primeSet \cup P]

\* Mutant: only the first part is switched down.
ModDownFirst(ct, P) ==
  [parts    |-> [i \in DOMAIN ct.parts |->
                   IF i = 1 THEN [ct.parts[i] EXCEPT !.primes = @ \cap P] ELSE ct.parts[i]],
   primeSet |-> ct.primeSet \cap P]

ModDown(ct, P) ==
  [parts    |-> [i \in DOMAIN ct.parts |-> [ct.parts[i] EXCEPT !.primes = @ \cap P]],
   primeSet |-> ct.primeSet \cap P]

\* Mutant: the empty set stands for the last ctxt prime.
BroughtToLast(ct, P) ==
  LET Q == IF P = {} THEN {CHOOSE a \in CtxtPrimes : \A b \in CtxtPrimes : b =< a} ELSE P
  IN ModDown(ModUp(ct, Q), Q)

Brought(ct, P) == LET Q == IF P = {} THEN {FirstCtxtPrime} ELSE P IN ModDown(ModUp(ct, Q), Q)

\* Mutant: the special primes stay when there is no small prime to drop.
DropsSmallOnly(ct) ==
  IF ct.primeSet \cap SmallPrimes = {} THEN {ct.primeSet}
  ELSE {P \in Prefixes \ {{}} : ct.primeSet \cap CtxtPrimes \subseteq P}

\* dropSmallAndSpecialPrimes: no ctxt prime is added if there is no small prime to
\* compensate for; otherwise as many, from the first, as the noise estimate asks for.
DropTargets(ct) ==
  IF ct.primeSet \cap SmallPrimes = {} THEN {ct.primeSet \cap CtxtPrimes}
  ELSE {P \in Prefixes \ {{}} : ct.primeSet \cap CtxtPrimes \subseteq P}

\* automorph: every handle but one gets its power of X multiplied.
Automorphed(ct, k) ==
  [ct EXCEPT !.parts = [i \in DOMAIN ct.parts |->
     IF ct.parts[i].h = One THEN ct.parts[i]
     ELSE [ct.parts[i] EXCEPT !.h.x = Keys!MulMod(@, k)]]]

-----------------------------------------------------------------------------
(* The running call.  After its own last step it goes on as "after" says:  *)
(* to the end, to the second half of cleanUp(), or back into the loop of   *)
(* smartAutomorph().                                                       *)

Idle == [op |-> "idle", after |-> "idle", c |-> CHOOSE c \in Ctxts : TRUE, id |-> 0,
         i |-> 1, j |-> 1, k |-> 1, done |-> 1, asked |-> 1, other |-> Empty, tmp |-> Empty]

Init ==
  /\ Keys!Init
  /\ ctxt = [c \in Ctxts |-> Empty]
  /\ call = Idle
  /\ thrown = "none"
  /\ abandoned = {}

\* The public key is built before there is a ciphertext.
BuildKeys ==
  /\ call = Idle /\ \A c \in Ctxts : IsEmpty(ctxt[c])
  /\ Keys!Next
  /\ UNCHANGED <<ctxt, call, thrown, abandoned>>

\* Bound: ciphertexts come when all keys are there, and of the states of the key that
\* only differ in how the last call ended one is enough (a call that generates nothing,
\* such as for s^0, leads to it).
KeyReady == op = "idle" /\ ~ threw /\ nKeys = MaxKeys

CanCall(S) == call = Idle /\ KeyReady /\ S \cap abandoned = {}

Assigned(c, ct) == ctxt' = [ctxt EXCEPT ![c] = ct] /\ abandoned' = abandoned \ {c}

Return(why) == call' = Idle /\ thrown' = why

Part(h, P) == [h |-> h, primes |-> P]

\* Encryption under key id, and the trivial encryption of a known plaintext.
Encrypt(c, id) ==
  /\ CanCall({}) /\ id < nKeys
  /\ Assigned(c, [parts |-> <<Part(One, CtxtPrimes), Part(Base(id), CtxtPrimes)>>,
                  primeSet |-> CtxtPrimes])
  /\ Return("none")
  /\ UNCHANGED pubKey

DummyEncrypt(c) ==
  /\ CanCall({})
  /\ Assigned(c, [parts |-> <<Part(One, CtxtPrimes)>>, primeSet |-> CtxtPrimes])
  /\ Return("none")
  /\ UNCHANGED pubKey

\* An exception for a prime set that is not valid comes after the change.
Checked(P) == IF VerifyPrimeSet(P) THEN "none" ELSE "assertion"

\* addCtxt: both go up to the union of their prime sets, other in a copy.
AddCtxt(c, d) ==
  /\ CanCall({c, d}) /\ ~ IsEmpty(ctxt[d])
  /\ IF IsEmpty(ctxt[c])
       THEN Assigned(c, ctxt[d]) /\ Return("none")
       ELSE LET up == ModUp(ctxt[c], ctxt[d].primeSet)
            IN /\ Assigned(c, up)
               /\ thrown' = Checked(up.primeSet)
               /\ call' = IF thrown' # "none" THEN Idle
                          ELSE [Idle EXCEPT !.op = "add", !.c = c,
                                            !.other = ModUp(ctxt[d], ctxt[c].primeSet)]
  /\ UNCHANGED pubKey

AddPart ==
  /\ call.op = "add" /\ call.i =< Len(call.other.parts)
  /\ ctxt' = [ctxt EXCEPT ![call.c].parts = PartAdded(@, call.other.parts[call.i])]
  /\ call' = [call EXCEPT !.i = @ + 1]
  /\ UNCHANGED <<pubKey, thrown, abandoned>>

AddEnd ==
  /\ call.op = "add" /\ call.i > Len(call.other.parts)
  /\ Return("none")
  /\ UNCHANGED <<pubKey, ctxt, abandoned>>

LargestS(ct) == CHOOSE s \in 0 .. MaxS : /\ \A i \in DOMAIN ct.parts : ct.parts[i].h.s =< s
                                         /\ \E i \in DOMAIN ct.parts : ct.parts[i].h.s = s

\* multLowLvl, and multiplyBy, which calls reLinearize() afterwards.  Both are brought
\* to a common set of the size table, other in a copy unless the call is destructive.
MultLowLvl(c, d, destructive, after) ==
  /\ CanCall({c, d}) /\ ~ IsEmpty(ctxt[c])
  /\ IF IsEmpty(ctxt[d])
       THEN Assigned(c, ctxt[d]) /\ Return("none")
       ELSE /\ LargestS(ctxt[c]) + LargestS(ctxt[d]) =< MaxS
            /\ \E P \in SizeTable :
                 /\ ctxt' = [b \in Ctxts |->
                      IF b = c \/ (b = d /\ destructive) THEN Brought(ctxt[b], P) ELSE ctxt[b]]
                 /\ call' = [Idle EXCEPT !.op = "tensor", !.after = after, !.c = c,
                      !.other = Brought(ctxt[d], P),
                      !.tmp = [parts |-> <<>>, primeSet |-> Brought(ctxt[c], P).primeSet]]
            /\ thrown' = "none" /\ UNCHANGED abandoned
  /\ UNCHANGED pubKey

\* One product of the tensor; both parts must be given modulo the same primes.
TensorPart ==
  /\ call.op = "tensor" /\ call.i =< Len(ctxt[call.c].parts)
  /\ LET p == ctxt[call.c].parts[call.i]
         q == call.other.parts[call.j]
         last_j == call.j = Len(call.other.parts)
     IN IF MulFails(q.h, p.h) THEN Return("handles")
        ELSE IF q.primes # p.primes THEN Return("assertion")
        ELSE /\ call' = [call EXCEPT
                  !.tmp.parts = PartAdded(@, Part(Mul(q.h, p.h), p.primes)),
                  !.j = IF last_j THEN 1 ELSE @ + 1,
                  !.i = IF last_j THEN @ + 1 ELSE @]
             /\ UNCHANGED thrown
  /\ UNCHANGED <<pubKey, ctxt, abandoned>>

\* A call is over, or the caller's code after it starts.
GoOn == call' = IF call.after = "idle" THEN Idle
                ELSE [call EXCEPT !.op = call.after, !.i = 1, !.j = 1, !.tmp = Empty,
                                  !.other = Empty,
                                  !.after = IF call.after = "relin" THEN "idle" ELSE @]

TensorEnd ==
  /\ call.op = "tensor" /\ call.i > Len(ctxt[call.c].parts)
  /\ ctxt' = [ctxt EXCEPT ![call.c] = call.tmp]
  /\ GoOn
  /\ UNCHANGED <<pubKey, thrown, abandoned>>

ReLinearize(c, id) ==
  /\ CanCall({c}) /\ ~ IsEmpty(ctxt[c])
  /\ call' = [Idle EXCEPT !.op = "relin", !.c = c, !.id = id]
  /\ thrown' = "none"
  /\ UNCHANGED <<pubKey, ctxt, abandoned>>

\* Nothing to do for a canonical ciphertext, else the small and the special primes are
\* dropped, and an empty ciphertext with the special primes is set up for the result.
RelinBegin ==
  /\ call.op = "relin"
  /\ LET ct == ctxt[call.c]
     IN IF InCanonicalForm(ct, call.id) THEN GoOn /\ UNCHANGED <<ctxt, thrown>>
        ELSE \E P \in DropTargets(ct) :
          IF P = {} THEN Return("assertion") /\ UNCHANGED ctxt
          ELSE /\ ctxt' = [ctxt EXCEPT ![call.c] = Brought(ct, P)]
               /\ call' = [call EXCEPT !.op = "parts",
                     !.tmp = [parts |-> <<>>, primeSet |-> P \cup SpecialPrimes]]
               /\ UNCHANGED thrown
  /\ UNCHANGED <<pubKey, abandoned>>

\* Mutant: the key asked for is not looked at.
LookUpAny(h, id) == Keys!GetAnyKeySWmatrix(h)

LookUp(h, id) ==
  IF id = AnyKey THEN Keys!GetAnyKeySWmatrix(h) ELSE Keys!GetKeySWmatrix(h, id)

\* The two parts a switched part turns into: the digits times the a_i, then the b_i.
Switched(parts, id, P) == PartAdded(PartAdded(parts, Part(Base(id), P)), Part(One, P))

GiveUp(why) == Return(why) /\ abandoned' = abandoned \cup {call.c} /\ UNCHANGED ctxt

\* One part: a part of 1 or of the base is scaled, in place, and added; any other is
\* switched by a matrix for its handle.
RelinPart ==
  /\ call.op = "parts" /\ call.i =< Len(ctxt[call.c].parts)
  /\ LET p == ctxt[call.c].parts[call.i]
         P == p.primes \cup SpecialPrimes
         w == LookUp(p.h, call.id)
         own == p.h = One \/ IsBase(p.h, call.id)
         Continue(parts) == call' = [call EXCEPT !.i = @ + 1, !.tmp.parts = parts]
     IN IF ~ own /\ w = Keys!None THEN GiveUp("no matrix")
        ELSE IF ~ own /\ w = Keys!Throws THEN GiveUp("out of range")
        ELSE IF p.primes \cap SpecialPrimes # {} \/ P # call.tmp.primeSet
          THEN GiveUp("assertion")
        ELSE IF own
          THEN /\ ctxt' = [ctxt EXCEPT ![call.c].parts[call.i].primes = P]
               /\ Continue(PartAdded(call.tmp.parts, Part(p.h, P)))
               /\ UNCHANGED <<thrown, abandoned>>
        ELSE IF keySwitching[w].from # p.h THEN GiveUp("assertion")
        ELSE /\ Continue(Switched(call.tmp.parts, keySwitching[w].to, P))
             /\ UNCHANGED <<ctxt, thrown, abandoned>>
  /\ UNCHANGED pubKey

RelinEnd ==
  /\ call.op = "parts" /\ call.i > Len(ctxt[call.c].parts)
  /\ ctxt' = [ctxt EXCEPT ![call.c] = call.tmp]
  /\ GoOn
  /\ UNCHANGED <<pubKey, thrown, abandoned>>

DropSmallAndSpecialPrimes(c) ==
  /\ CanCall({c}) /\ ~ IsEmpty(ctxt[c])
  /\ \E P \in DropTargets(ctxt[c]) :
       IF P = {} THEN Return("assertion") /\ UNCHANGED <<ctxt, abandoned>>
       ELSE Assigned(c, Brought(ctxt[c], P)) /\ Return("none")
  /\ UNCHANGED pubKey

\* cleanUp: reLinearize(), which may have nothing to do and then drops no primes.
CleanUp(c) ==
  /\ CanCall({c}) /\ ~ IsEmpty(ctxt[c])
  /\ call' = [Idle EXCEPT !.op = "relin", !.after = "clean", !.c = c]
  /\ thrown' = "none"
  /\ UNCHANGED <<pubKey, ctxt, abandoned>>

CleanEnd ==
  /\ call.op = "clean"
  /\ LET ct == ctxt[call.c]
     IN IF ct.primeSet \cap (SpecialPrimes \cup SmallPrimes) = {}
          THEN Return("none") /\ UNCHANGED ctxt
          ELSE \E P \in DropTargets(ct) :
            IF P = {} THEN Return("assertion") /\ UNCHANGED ctxt
            ELSE ctxt' = [ctxt EXCEPT ![call.c] = Brought(ct, P)] /\ Return("none")
  /\ UNCHANGED <<pubKey, abandoned>>

Automorph(c, k) ==
  /\ CanCall({c}) /\ ~ IsEmpty(ctxt[c])
  /\ IF k \in Keys!Units THEN Assigned(c, Automorphed(ctxt[c], k)) /\ Return("none")
     ELSE Return("not a unit") /\ UNCHANGED <<ctxt, abandoned>>
  /\ UNCHANGED pubKey

\* Mutant: no test that k is reachable.
SmartAutomorphUnchecked(c, k) ==
  /\ CanCall({c}) /\ ~ IsEmpty(ctxt[c]) /\ k # 1
  /\ LET id == GetKeyID(ctxt[c])
         walk == [Idle EXCEPT !.c = c, !.id = id, !.k = k, !.asked = k]
     IN /\ call' = IF InCanonicalForm(ctxt[c], id)
                     THEN [walk EXCEPT !.op = "walk", !.after = "walk"]
                     ELSE [walk EXCEPT !.op = "relin", !.after = "check"]
        /\ thrown' = "none"
  /\ UNCHANGED <<pubKey, ctxt, abandoned>>

\* smartAutomorph: a walk along the key-switching map from k to 1, each step an
\* automorphism and a re-linearization.
SmartAutomorph(c, k) ==
  /\ CanCall({c}) /\ ~ IsEmpty(ctxt[c]) /\ k # 1
  /\ LET id == GetKeyID(ctxt[c])
         walk == [Idle EXCEPT !.c = c, !.id = id, !.k = k, !.asked = k]
     IN IF k \notin Keys!Units THEN Return("not a unit")
        ELSE IF ~ Keys!IsReachable(k, id) THEN Return("unreachable")
        ELSE /\ call' = IF InCanonicalForm(ctxt[c], id)
                          THEN [walk EXCEPT !.op = "walk", !.after = "walk"]
                          ELSE [walk EXCEPT !.op = "relin", !.after = "check"]
             /\ thrown' = "none"
  /\ UNCHANGED <<pubKey, ctxt, abandoned>>

WalkBegin ==
  /\ call.op = "check"
  /\ IF InCanonicalForm(ctxt[call.c], call.id)
       THEN call' = [call EXCEPT !.op = "walk", !.after = "walk"] /\ UNCHANGED thrown
       ELSE Return("assertion")
  /\ UNCHANGED <<pubKey, ctxt, abandoned>>

\* Mutant: the automorphism is taken off the wrong way round.
WalkStepForward ==
  /\ call.op = "walk" /\ call.k # 1
  /\ LET w == Keys!GetNextKSWmatrix(call.k, call.id)
         amt == IF w > Keys!None THEN keySwitching[w].from.x ELSE -1
     IN IF w = Keys!Throws THEN Return("out of range") /\ UNCHANGED ctxt
        ELSE IF amt \notin Keys!Units THEN Return("not a unit") /\ UNCHANGED ctxt
        ELSE /\ ctxt' = [ctxt EXCEPT ![call.c] = Automorphed(@, amt)]
             /\ call' = [call EXCEPT !.op = "relin", !.k = Keys!MulMod(@, amt),
                                     !.done = Keys!MulMod(@, amt)]
             /\ UNCHANGED thrown
  /\ UNCHANGED <<pubKey, abandoned>>

\* The power of X of the dummy matrix is -1, an automorphism that automorph() refuses,
\* when the steps before it have already moved the ciphertext.
WalkStep ==
  /\ call.op = "walk" /\ call.k # 1
  /\ LET w == Keys!GetNextKSWmatrix(call.k, call.id)
         amt == IF w > Keys!None THEN keySwitching[w].from.x ELSE -1
     IN IF w = Keys!Throws THEN Return("out of range") /\ UNCHANGED ctxt
        ELSE IF amt \notin Keys!Units THEN Return("not a unit") /\ UNCHANGED ctxt
        ELSE /\ ctxt' = [ctxt EXCEPT ![call.c] = Automorphed(@, amt)]
             /\ call' = [call EXCEPT !.op = "relin", !.done = Keys!MulMod(@, amt),
                                     !.k = Keys!MulMod(@, Keys!InvMod(amt))]
             /\ UNCHANGED thrown
  /\ UNCHANGED <<pubKey, abandoned>>

WalkEnd ==
  /\ call.op = "walk" /\ call.k = 1
  /\ Return("none")
  /\ UNCHANGED <<pubKey, ctxt, abandoned>>

Calls ==
  \/ \E c \in Ctxts : DummyEncrypt(c) \/ \E id \in Keys!KeyId : Encrypt(c, id)
  \/ \E c \in Ctxts \ Operands :
    \/ CleanUp(c) \/ DropSmallAndSpecialPrimes(c)
    \/ \E d \in Ctxts :
         \/ AddCtxt(c, d)
         \/ \E destructive \in BOOLEAN : /\ destructive => d \notin Operands
                                         /\ MultLowLvl(c, d, destructive, "idle")
         \/ MultLowLvl(c, d, FALSE, "relin")
    \/ \E id \in Keys!KeyId \cup {AnyKey} : ReLinearize(c, id)
    \/ \E k \in XPowers : Automorph(c, k) \/ SmartAutomorph(c, k)

Steps ==
  \/ AddPart \/ AddEnd \/ TensorPart \/ TensorEnd
  \/ RelinBegin \/ RelinPart \/ RelinEnd \/ CleanEnd
  \/ WalkBegin \/ WalkStep \/ WalkEnd

Next == BuildKeys \/ Calls \/ Steps

Spec == Init /\ [][Next]_vars

\* A thread that is in a call runs on to its end.
FairSpec == Spec /\ WF_vars(Steps)

-----------------------------------------------------------------------------
(* Properties.                                                             *)

Ops      == {"idle", "add", "tensor", "relin", "parts", "clean", "check", "walk"}
Outcomes == {"none", "handles", "no matrix", "out of range", "not a unit", "unreachable",
             "assertion"}

CiphertextRecords == [parts : Seq(Parts), primeSet : SUBSET Primes]

\* The ciphertexts and the variables of the running call have their types.
TypeOK ==
  /\ ctxt \in [Ctxts -> CiphertextRecords]
  /\ call.op \in Ops
  /\ call.after \in {"idle", "relin", "clean", "check", "walk"}
  /\ call.c \in Ctxts /\ call.id \in Keys!KeyId \cup {AnyKey}
  /\ call.i \in Nat \ {0} /\ call.j \in Nat \ {0}
  /\ call.k \in Keys!Node /\ call.done \in Keys!Node /\ call.asked \in Keys!Node
  /\ call.other \in CiphertextRecords /\ call.tmp \in CiphertextRecords
  /\ thrown \in Outcomes
  /\ abandoned \subseteq Ctxts

OverPrimeSet(ct) == \A i \in DOMAIN ct.parts : ct.parts[i].primes = ct.primeSet

\* "We maintain the invariance that all the parts of a ciphertext are defined relative
\* to the same set of primes": through every change of the prime set, and in the copies
\* and results calls work on, except for the parts reLinearize() scales in place.
PartsOverPrimeSet ==
  /\ \A c \in Ctxts \ abandoned :
       (call.op = "parts" /\ call.c = c) \/ OverPrimeSet(ctxt[c])
  /\ OverPrimeSet(call.other) /\ OverPrimeSet(call.tmp)

\* "By convention, c[0] has skHndl that points to 1", and no two parts have the same
\* handle, so that a part found by its handle is the only one.
OneComesFirst ==
  \A ct \in {ctxt[c] : c \in Ctxts} \cup {call.tmp} :
    /\ ct.parts # <<>> => ct.parts[1].h = One
    /\ \A i, j \in DOMAIN ct.parts : ct.parts[i].h = ct.parts[j].h => i = j

\* The state has its types, and a ciphertext is modulo all the special primes or none,
\* modulo a prefix of the ctxt primes, and modulo something: what
\* dropSmallAndSpecialPrimes() and the digits of a key-switching need.
PrimeSetValid ==
  TypeOK /\ \A c \in Ctxts :
    LET P == ctxt[c].primeSet
    IN /\ P # {} /\ P \cap SpecialPrimes \in {{}, SpecialPrimes}
       /\ P \cap CtxtPrimes \in Prefixes
       /\ P \cap SpecialPrimes # {} => P \cap CtxtPrimes # {}

\* None of the library's own assertions about prime sets, handles, digits and canonical
\* forms fails, whatever the order of calls: only the exceptions about missing matrices,
\* handles that cannot be multiplied and wrong arguments remain.
NoAssertionFails == thrown # "assertion"

\* Once smartAutomorph() has found k reachable and the ciphertext canonical, its walk
\* meets no exception: neither the dummy matrix, whose automorphism is refused, nor a
\* missing row, nor a part no matrix is for.  The test at the start is enough for all
\* the steps, though the map may be out of date.
WalkSucceeds == [][call.after = "walk" => thrown' \in {thrown, "none"}]_vars

\* A walk meets no exception, and when it ends it has applied the automorphism it was
\* asked for, and the ciphertext is canonical under the key it started with.
AutomorphApplied ==
  WalkSucceeds /\ [][WalkEnd => call.done = call.asked /\ InCanonicalForm(ctxt[call.c], call.id)]_vars

\* "key-switch to (1,s_i)": a reLinearize() to a given key that returns leaves a
\* canonical ciphertext.
RelinearizedIsCanonical ==
  [][RelinEnd /\ call.id # AnyKey => InCanonicalForm(ctxt'[call.c], call.id)]_vars

\* Every call returns.  The walk has no bound of its own: it ends because the map has
\* no cycle.
CallsReturn == call # Idle ~> call = Idle
=============================================================================
