------------------------------ MODULE Hypercube ------------------------------
(***************************************************************************)
(* hypercube.h and hypercube.cpp: the slots of a plaintext as a cube.  A   *)
(* signature is the sequence of its dimensions; an index i of the cube, a  *)
(* dimension d and a position in a slice count from 0, as in the code, so  *)
(* dims[d + 1] is dimension d and data is a function over 0..size-1.       *)
(***************************************************************************)
EXTENDS Integers, Sequences

LOCAL INSTANCE SequencesExt

\* The product of the sizes of dimensions d, d+1, ...
Prod(dims, d) == FoldLeft(LAMBDA a, b : a * b, 1, SubSeq(dims, d + 1, Len(dims)))
Size(dims) == Prod(dims, 0)

Coord(dims, i, d) == (i % Prod(dims, d)) \div Prod(dims, d + 1)

\* C++'s % has the sign of its left operand, and a multiple is added back.
AddCoord(dims, i, d, offset) ==
  LET id  == Coord(dims, i, d)
      id1 == (id + (offset % dims[d + 1])) % dims[d + 1]
  IN i + (id1 - id) * Prod(dims, d + 1)

\* The next coordinates in lexicographic order, or <<>> at the last.
IncrementCoords(dims, v) ==
  LET i == SelectLastInSeq([d \in DOMAIN v |-> v[d] < dims[d] - 1], LAMBDA less : less)
  IN IF i = 0 THEN <<>>
     ELSE [d \in DOMAIN v |-> IF d < i THEN v[d] ELSE IF d = i THEN v[d] + 1 ELSE 0]

\* From the last dimension to the first, dividing what is left of the index.
RECURSIVE AllCoords(_, _)
AllCoords(dims, i) ==
  IF dims = <<>> THEN <<>>
  ELSE LET last == dims[Len(dims)]
       IN Append(AllCoords(SubSeq(dims, 1, Len(dims) - 1), (i - (i % last)) \div last), i % last)

AssembleCoords(dims, v) ==
  FoldLeftDomain(LAMBDA idx, d : idx + v[d] * Prod(dims, d), 0, v)

\* The subcube of the other dimensions, and the place in dimension d.
BreakIndexByDim(dims, idx, d) ==
  <<(idx % Prod(dims, d + 1)) + (idx \div Prod(dims, d)) * Prod(dims, d + 1),
    (idx % Prod(dims, d)) \div Prod(dims, d + 1)>>

AssembleIndexByDim(dims, pair, d) ==
  LET third == pair[1] % Prod(dims, d + 1)
  IN (pair[1] - third) * dims[d + 1] + pair[2] * Prod(dims, d + 1) + third

-----------------------------------------------------------------------------
(* Rotations and shifts along a dimension. *)

Rotate1D(dims, data, d, k) ==
  [i \in DOMAIN data |-> data[AddCoord(dims, i, d, -k)]]

\* In place, up for a right shift and down for a left one: what is moved to may be
\* moved again.  "empty" stands for T().
Moved(dims, data, d, k, i, forward) ==
  LET to == AddCoord(dims, i, d, k)
  IN [data EXCEPT ![to] = IF (forward /\ to > i) \/ (~ forward /\ to < i) THEN data[i] ELSE "empty"]

Shift1D(dims, data, d, k) ==
  LET n    == Size(dims)
      Up   == [i \in 1 .. n |-> i - 1]
      Down == [i \in 1 .. n |-> n - i]
  IN IF k % dims[d + 1] = 0 THEN data
     ELSE FoldLeft(LAMBDA acc, i : Moved(dims, acc, d, k, i, k > 0), data, IF k > 0 THEN Up ELSE Down)

-----------------------------------------------------------------------------
(* Slices: the subcubes without the first dimensions. *)

FullSlice == [dimOffset |-> 0, sizeOffset |-> 0]

\* The i'th subcube of a slice, off dimensions lower.
SubSlice(dims, s, i, off) ==
  [dimOffset |-> off + s.dimOffset,
   sizeOffset |-> s.sizeOffset + i * Prod(dims, off + s.dimOffset)]

SliceSize(dims, s) == Prod(dims, s.dimOffset)
SliceAt(data, s, i) == data[i + s.sizeOffset]
SliceCoord(dims, s, i, d) == Coord(dims, i + s.sizeOffset, d + s.dimOffset)

CopySlice(dims, data, to, from) ==
  [i \in DOMAIN data |->
     IF i - to.sizeOffset \in 0 .. SliceSize(dims, to) - 1
       THEN SliceAt(data, from, i - to.sizeOffset) ELSE data[i]]

\* The values at position pos of the subcubes of a slice, along its first dimension.
HyperColumn(dims, data, s, pos) ==
  [i \in 1 .. dims[s.dimOffset + 1] |->
     SliceAt(data, s, pos + (i - 1) * Prod(dims, s.dimOffset + 1))]

\* v may be shorter, and is padded with val if there is one.
SetHyperColumn(dims, data, v, s, pos, val) ==
  LET m        == Prod(dims, s.dimOffset + 1)
      InColumn(i) == /\ i - s.sizeOffset \in 0 .. SliceSize(dims, s) - 1
                     /\ (i - s.sizeOffset) % m = pos
      Row(i)   == (i - s.sizeOffset) \div m + 1
  IN [i \in DOMAIN data |->
        IF ~ InColumn(i) THEN data[i]
        ELSE IF Row(i) <= Len(v) THEN v[Row(i)]
        ELSE IF val # <<>> THEN val[1] ELSE data[i]]
=============================================================================
