---------------------------- MODULE AbstractSet ----------------------------
(***************************************************************************)
(* What the header promises of an IndexSet: a set of indices whose         *)
(* operations with a second set are union, set minus and intersection.     *)
(* A call has its effect in one step, when it returns.                     *)
(***************************************************************************)
EXTENDS Naturals

CONSTANT Universe

VARIABLES
  A,     \* the set
  call,  \* the operation that has been called and has not returned, or "idle"
  arg    \* its argument

absVars == <<A, call, arg>>

Operations == {"insert", "remove", "retain"}

Outcome(name, S, T) ==
  CASE name = "insert" -> S \cup T
    [] name = "remove" -> S \ T
    [] name = "retain" -> S \cap T

AbsInit == A = {} /\ call = "idle" /\ arg = {}

AbsUpdate ==
  /\ call = "idle"
  /\ \/ \E low \in Universe, high \in Universe : A' = {j \in Universe : low =< j /\ j =< high}
     \/ A' = {}
     \/ \E name \in Operations, T \in SUBSET Universe : A' = Outcome(name, A, T)
  /\ UNCHANGED <<call, arg>>

AbsCall ==
  /\ call = "idle"
  /\ call' \in Operations
  /\ arg' \in SUBSET Universe
  /\ A' = A

AbsReturn ==
  /\ call # "idle"
  /\ A' = Outcome(call, A, arg)
  /\ call' = "idle"
  /\ arg' = arg

AbsNext == AbsUpdate \/ AbsCall \/ AbsReturn

\* A call returns.
AbsSpec == AbsInit /\ [][AbsNext]_absVars

AbsFairSpec == AbsSpec /\ WF_absVars(AbsReturn)
=============================================================================
