----------------------------- MODULE GaloisKey2k ----------------------------
(***************************************************************************)
(* helib::GaloisKey2k: rotations of the slots for m a power of two, with   *)
(* key-switching matrices of its own, for key 0, beside those of the       *)
(* public key.                                                             *)
(*                                                                         *)
(* A part of a ciphertext has a handle, what the program takes it to be    *)
(* relative to, and here also a true handle, which only the mathematics    *)
(* knows: an automorphism moves it, whatever the program writes into the   *)
(* handle.  rotate() changes the parts in place before it looks for the    *)
(* matrix.  The ciphertext's history is the rotation asked for since its   *)
(* encryption.  Prime sets are left out (see module Ciphertext).           *)
(***************************************************************************)
EXTENDS Integers, Sequences, FiniteSets

CONSTANTS
  M,         \* the m of the ring, a power of two
  StepSet,   \* the steps the application asks for, some of them too large
  KeyIds,    \* the keys it encrypts under
  MaxS,      \* bound: powers of s in a product
  Careful    \* bound: no use of a ciphertext after an exception on it

PowersOfTwo == {4, 8, 16, 32, 64}
ASSUME MAssumption == M \in PowersOfTwo
ASSUME InputsAssumption ==
  StepSet \subseteq Int /\ KeyIds \subseteq Nat /\ MaxS \in Nat \ {0} /\ Careful \in BOOLEAN

VARIABLES
  keys,      \* the elements with a matrix
  parts,     \* the ciphertext
  elt, i,    \* of the running rotate(): its element, and the part it is at; 0 is idle
  tmp,       \* the result of the running key_switch()
  thrown,    \* how the last call ended
  broken,    \* history: the last call on this ciphertext ended in an exception
  applied,   \* history: the automorphism the parts went through since encryption
  asked      \* history: the rotations it should be, of the rows and of the columns

loop == <<elt, i, tmp>>
history == <<broken, applied, asked>>
vars == <<keys, parts, loop, thrown, history>>

-----------------------------------------------------------------------------
RowSize == M \div 4
Abs(n)  == IF n < 0 THEN -n ELSE n

TooLarge(step) == step # 0 /\ Abs(step) >= RowSize

Generator == 3
Power[e \in Nat] == IF e = 0 THEN 1 ELSE (Power[e - 1] * Generator) % M

\* Mutant: the sign of the step is lost.
EltFromAbs(step) == IF step = 0 THEN M - 1 ELSE Power[Abs(step)]

\* get_elt_from_step: step 0 rotates the columns.
EltFromStep(step) ==
  IF step = 0 THEN M - 1 ELSE Power[IF step < 0 THEN RowSize - Abs(step) ELSE step]

Handle(s, x, id) == [s |-> s, x |-> x, id |-> id]
One  == Handle(0, 1, 0)
Base == Handle(1, 1, 0)

IsOne(h)  == h.s = 0
Part(h)   == [h |-> h, true |-> h]

\* Mutant: the handle stays as it was.
RotatedPartOnly(p, g) == IF IsOne(p.h) THEN p ELSE [p EXCEPT !.true.x = (@ * g) % M]

\* The automorphism of rotate(): the power of X is set to g, whatever it was.
RotatedPart(p, g) ==
  IF IsOne(p.h) THEN p ELSE [p EXCEPT !.true.x = (@ * g) % M, !.h.x = g]

\* Ctxt::addPart.  A sum of a right and a wrong part is wrong.
PartAdded(ps, p) ==
  IF \E n \in DOMAIN ps : ps[n].h = p.h
    THEN [n \in DOMAIN ps |->
            IF ps[n].h = p.h /\ ps[n].true = ps[n].h THEN p ELSE ps[n]]
    ELSE Append(ps, p)

\* A part that is not relative to what its handle says turns into noise.
Noise(h) == [h |-> h, true |-> Handle(0, 0, 0)]
Switched(ps, p) ==
  IF p.true = p.h THEN PartAdded(PartAdded(ps, Part(Base)), Part(One))
  ELSE PartAdded(PartAdded(ps, Noise(Base)), Noise(One))

-----------------------------------------------------------------------------
NoRotation == [rows |-> 0, columns |-> 0]
NewHistory == thrown' = "none" /\ broken' = FALSE /\ applied' = 1 /\ asked' = NoRotation

Init ==
  /\ keys = {} /\ parts = <<>>
  /\ elt = 1 /\ i = 0 /\ tmp = <<>>
  /\ thrown = "none" /\ broken = FALSE /\ applied = 1 /\ asked = NoRotation

CanUse == i = 0 /\ parts # <<>> /\ ~ (Careful /\ broken)

\* SecKey encryption, under any key, and the trivial encryption.
Encrypt(id) ==
  /\ i = 0
  /\ parts' = <<Part(One), Part(Handle(1, 1, id))>>
  /\ NewHistory
  /\ UNCHANGED <<keys, loop>>

DummyEncrypt ==
  /\ i = 0
  /\ parts' = <<Part(One)>>
  /\ NewHistory
  /\ UNCHANGED <<keys, loop>>

\* Ctxt::multLowLvl() with itself: s becomes s and s^2.  (The slots are squared, and
\* rotated as they were.)
Square ==
  /\ CanUse /\ 2 =< MaxS
  /\ Len(parts) = 2 /\ parts[2].h.s = 1 /\ parts[2].true = parts[2].h
  /\ parts' = Append(parts, [parts[2] EXCEPT !.h.s = 2, !.true.s = 2])
  /\ thrown' = "none"
  /\ UNCHANGED <<keys, loop, history>>

\* generate_step: nothing to do for an element that has a matrix.
GenerateStep(step) ==
  /\ i = 0
  /\ IF TooLarge(step) THEN thrown' = "too large" /\ UNCHANGED keys
     ELSE keys' = keys \cup {EltFromStep(step)} /\ thrown' = "none"
  /\ UNCHANGED <<parts, loop, history>>

Fail(why) == thrown' = why /\ broken' = TRUE /\ elt' = 1 /\ i' = 0 /\ tmp' = <<>>

\* rotate(): the parts are rotated, and then the matrix is looked for.
Rotate(step) ==
  /\ CanUse
  /\ IF TooLarge(step)
       THEN thrown' = "too large" /\ UNCHANGED <<parts, loop, history>>
       ELSE LET g == EltFromStep(step)
            IN /\ parts' = [n \in DOMAIN parts |-> RotatedPart(parts[n], g)]
               /\ applied' = (applied * g) % M
               /\ asked' = IF step = 0 THEN [asked EXCEPT !.columns = 1 - @]
                           ELSE [asked EXCEPT !.rows = (@ + step) % RowSize]
               /\ IF g \notin keys THEN Fail("no matrix")
                  ELSE elt' = g /\ i' = 1 /\ tmp' = <<>> /\ thrown' = "none" /\ UNCHANGED broken
  /\ UNCHANGED keys

\* key_switch(): a part of 1 or of the base is added, any other is switched by the
\* matrix for this element, which must be for its handle.
SwitchPart ==
  /\ i > 0 /\ i =< Len(parts)
  /\ LET p == parts[i]
     IN \/ /\ IsOne(p.h) \/ p.h = Base
           /\ tmp' = PartAdded(tmp, p) /\ i' = i + 1 /\ UNCHANGED <<thrown, broken, elt>>
        \/ /\ p.h = Handle(1, elt, 0)
           /\ tmp' = Switched(tmp, p) /\ i' = i + 1 /\ UNCHANGED <<thrown, broken, elt>>
        \/ /\ ~ IsOne(p.h) /\ p.h \notin {Base, Handle(1, elt, 0)}
           /\ Fail("handles do not match")
  /\ UNCHANGED <<keys, parts, applied, asked>>

RotateEnd ==
  /\ i > Len(parts) /\ i > 0
  /\ parts' = tmp /\ i' = 0 /\ elt' = 1 /\ tmp' = <<>> /\ broken' = FALSE
  /\ UNCHANGED <<keys, thrown, applied, asked>>

Next ==
  \/ \E id \in KeyIds : Encrypt(id)
  \/ DummyEncrypt \/ Square
  \/ \E step \in StepSet : GenerateStep(step) \/ Rotate(step)
  \/ SwitchPart \/ RotateEnd

Spec == Init /\ [][Next]_vars

-----------------------------------------------------------------------------
(* Properties.                                                             *)

TrueHandles == [s : 0 .. MaxS, x : 0 .. M - 1, id : Nat]
PartRecords == [h : TrueHandles, true : TrueHandles]

\* The key, the ciphertext and the running call have their types.
TypeOK ==
  /\ keys \subseteq 1 .. M - 1
  /\ parts \in Seq(PartRecords) /\ tmp \in Seq(PartRecords)
  /\ elt \in 1 .. M - 1 /\ i \in Nat
  /\ thrown \in {"none", "too large", "no matrix", "handles do not match"}
  /\ broken \in BOOLEAN /\ applied \in 1 .. M - 1
  /\ asked \in [rows : 0 .. RowSize - 1, columns : {0, 1}]

\* A handle is what a part is relative to, in the middle of a rotation and after one
\* that failed too, as long as the application leaves that ciphertext alone.
HandlesTrue ==
  \A p \in {parts[n] : n \in DOMAIN parts} \cup {tmp[n] : n \in DOMAIN tmp} : p.true = p.h

\* The automorphisms of any sequence of steps, forwards and backwards, are those of one
\* rotation of the rows by their sum, and of the columns if asked for an odd number of
\* times: a negative step undoes the positive one.  And the state has its types.
RotationsAddUp ==
  TypeOK /\ applied = (Power[asked.rows] * (IF asked.columns = 1 THEN M - 1 ELSE 1)) % M

\* Ctxt.h, of SKHandle: "describing the secret-key element that matches a part".  A
\* rotate() that returns leaves a ciphertext of which this is so.
RotatedIsRight == i = 0 /\ ~ broken => HandlesTrue
=============================================================================
