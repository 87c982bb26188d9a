-------------------------- MODULE MCSerialization --------------------------
(* Objects for Serialization: small ones of every kind, of several sizes.  *)
EXTENDS Serialization

Object(kind, fields) == [kind |-> kind, fields |-> fields]

XDoubles == {<<37, 0>>, <<90, -2>>}
Handles  == {<<0, 1, 0>>, <<1, 5, 1>>}
Sets     == {{}, {0}, {1, 3}}
ARow     == <<9, 63>>
ZZs      == {<<2>>, <<1, 3>>, <<0, 0, 2>>}

OpenObjects ==
  {Object("IndexSet", WriteSet(S)) : S \in Sets}
  \cup {Object("DoubleCRT", WriteDoubleCRT(S, ARow)) : S \in Sets}
  \cup {Object("SKHandle", WriteHandle(h)) : h \in Handles}
  \cup {Object("CtxtPart", WritePart(S, ARow, h)) : S \in Sets, h \in Handles}
  \cup {Object("ZZ", WriteZZ(z)) : z \in ZZs}
  \cup {Object("xdouble", WriteXDouble(x)) : x \in XDoubles}
  \cup {Object("vector", WriteVector(v)) : v \in {<<>>, <<4, -4>>}}

CtxtObjects ==
  {Object("Ctxt", WriteCtxt(p, f, x, S, ARow, hs)) :
     p \in ZZs, f \in {<<1>>, <<3, 1>>}, x \in XDoubles, S \in Sets,
     hs \in {<<>>, <<<<0, 1, 0>>, <<1, 1, 0>>>>}}

KeySwitchObjects ==
  {Object("KeySwitch", WriteKeySwitch(<<2, 1, 0>>, 0, p, n, {0, 1}, ARow, z, x)) :
     p \in ZZs, n \in 1 .. 2, z \in {<<2>>, <<1, 3>>}, x \in XDoubles}

ContextObjects ==
  {Object("Context", WriteContext(p, 1, 4, x, 10, {}, {3}, <<3, 5, 7, 11>>, ds, <<0, 1, 1>>)) :
     p \in ZZs, x \in XDoubles, ds \in {<<{0, 1, 2}>>, <<{0, 1}, {2}>>}}

MCObjects  == OpenObjects \cup CtxtObjects \cup KeySwitchObjects \cup ContextObjects
MCContexts == ContextObjects
=============================================================================
