--------------------------- MODULE Serialization ---------------------------
(***************************************************************************)
(* The binary form of the library's objects: writeTo() and readFrom() over *)
(* one stream.                                                             *)
(*                                                                         *)
(* An object is written as a list of fields; nothing in the stream tells   *)
(* where a field ends or what type it has, so that a reader has to take    *)
(* the same bytes for every field as the writer put there.  Ciphertexts,   *)
(* matrices and contexts are enclosed in eye catchers, which are all that  *)
(* a reader can notice a mistake by: the state of the stream is never      *)
(* looked at.                                                              *)
(*                                                                         *)
(* A number is BIT64 or BIT32 bytes, the least significant byte first.     *)
(* A header or an eye catcher is one byte, which no number contains.  The  *)
(* JSON form, PubKey and SecKey (which begin with a context) are left out. *)
(***************************************************************************)
EXTENDS Integers, Sequences, FiniteSets, SequencesExt

CONSTANTS
  Base,           \* values of a byte; 256 in the code
  BIT64, BIT32,   \* bytes of a long and of an int; 8 and 4 in the code
  PhiM,           \* length of a row of a DoubleCRT
  Objects,        \* the objects that are written
  MaxObjects,     \* bound: objects in the stream
  MaxBytes        \* bound: the length of a stream of several objects

VARIABLES
  stream,   \* the bytes that were written and not yet read
  queue,    \* history: the objects they are the form of
  cut,      \* history: the stream lost its tail
  threw,    \* a reader threw; where it left the stream is not used again
  last      \* history: the last readFrom()

vars == <<stream, queue, cut, threw, last>>

\* The powers of Base.
Power ==
  LET pow[i \in Nat] == IF i = 0 THEN 1 ELSE Base * pow[i - 1] IN pow

\* The elements of a set of numbers in their order.
Ascending(S) ==
  [i \in 1 .. Cardinality(S) |-> CHOOSE n \in S : Cardinality({k \in S : k < n}) = i - 1]

-----------------------------------------------------------------------------
(* What writeTo() writes.  A field is its encoding and its numbers.        *)

CatcherList == <<"HEADER", "CONTEXT_BEGIN", "CONTEXT_END", "CTXT_BEGIN", "CTXT_END",
                 "SKM_BEGIN", "SKM_END">>
Catchers == ToSet(CatcherList)
\* The byte an eye catcher is.
Eye == [c \in Catchers |-> Base + CHOOSE i \in DOMAIN CatcherList : CatcherList[i] = c]

\* What a stream is made of.
Symbols == 0 .. Base - 1 \cup {Eye[c] : c \in Catchers}

Longs(ns) == <<"long", ns>>
Ints(ns)  == <<"int", ns>>
ZZ(bytes) == <<"bytes", bytes>>
Mark(c)   == <<"catcher", <<Eye[c]>>>>

\* write_raw_ZZ: how many bytes, and the bytes.
WriteZZ(bytes) == <<Longs(<<Len(bytes)>>), ZZ(bytes)>>
\* write_raw_vector<long>, and IndexSet::writeTo for the elements in order.
WriteVector(ns) == <<Longs(<<Len(ns)>>), Longs(ns)>>
WriteSet(S)     == WriteVector(Ascending(S))
\* write_ntl_vec_long
WriteRow(ns)    == <<Ints(<<Len(ns), BIT64>>), Longs(ns)>>
WriteDoubleCRT(S, row) == WriteSet(S) \o FlattenSeq([i \in 1 .. Cardinality(S) |-> WriteRow(row)])
WriteHandle(h)         == <<Longs(h)>>
WritePart(S, row, h)   == WriteDoubleCRT(S, row) \o WriteHandle(h)
WriteXDouble(x)        == <<Longs(x)>>

WriteCtxt(ptxtSpace, intFactor, x, S, row, handles) ==
  <<Mark("HEADER"), Mark("CTXT_BEGIN")>> \o WriteZZ(ptxtSpace) \o WriteZZ(intFactor)
  \o WriteXDouble(x) \o WriteXDouble(x) \o WriteXDouble(x) \o WriteSet(S)
  \o <<Longs(<<Len(handles)>>)>>
  \o FlattenSeq([i \in 1 .. Len(handles) |-> WritePart(S, row, handles[i])])
  \o <<Mark("CTXT_END")>>

WriteKeySwitch(fromKey, toKeyID, ptxtSpace, n, S, row, prgSeed, x) ==
  <<Mark("SKM_BEGIN")>> \o WriteHandle(fromKey) \o <<Longs(<<toKeyID>>)>> \o WriteZZ(ptxtSpace)
  \o <<Longs(<<n>>)>> \o FlattenSeq([i \in 1 .. n |-> WriteDoubleCRT(S, row)])
  \o WriteZZ(prgSeed) \o WriteXDouble(x) \o <<Mark("SKM_END")>>

\* Without the generators, their orders and mvec, which are not compiled.
WriteContext(p, r, m, x, scale, small, special, qs, digits, params) ==
  <<Mark("HEADER"), Mark("CONTEXT_BEGIN")>> \o WriteZZ(p) \o <<Longs(<<r>>), Longs(<<m>>)>>
  \o WriteXDouble(x) \o <<Longs(<<scale>>)>> \o WriteSet(small) \o WriteSet(special)
  \o WriteVector(qs) \o <<Longs(<<Len(digits)>>)>>
  \o FlattenSeq([i \in 1 .. Len(digits) |-> WriteSet(digits[i])])
  \o <<Longs(params), Mark("CONTEXT_END")>>

Number(n, w) == [i \in 1 .. w |-> (n \div Power[i - 1]) % Base]

FieldBytes(f) ==
  LET numbers(w) == FlattenSeq([i \in 1 .. Len(f[2]) |-> Number(f[2][i], w)])
  IN CASE f[1] = "long"  -> numbers(BIT64)
       [] f[1] = "int"   -> numbers(BIT32)
       [] f[1] \in {"bytes", "catcher"} -> f[2]

Bytes(o) == FlattenSeq([i \in 1 .. Len(o.fields) |-> FieldBytes(o.fields[i])])

\* What a reader has to come up with: the numbers of every field, eye catchers aside.
Values(o) ==
  FlattenSeq([i \in 1 .. Len(o.fields) |->
                IF o.fields[i][1] = "catcher" THEN <<>> ELSE <<o.fields[i][2]>>])

-----------------------------------------------------------------------------
(* What readFrom() reads: from a reader p, with the bytes that are left,   *)
(* the values it has read, whether it still goes on, and what decides a    *)
(* comparison with memory that was never written (stack; ub once it was).  *)

Goes(p) == p.ok
Throw(p) == [p EXCEPT !.ok = FALSE]
Got(p)   == p.values[Len(p.values)]

\* istream::read at the end of the stream reads less, and nothing once it failed.
Slice(s, a, b) == SubSeq(s, a, IF b =< Len(s) THEN b ELSE Len(s))
Rest(s, n)     == IF n < Len(s) THEN SubSeq(s, n + 1, Len(s)) ELSE <<>>
NonNegative(n)    == IF n > 0 THEN n ELSE 0

\* The number in bytes that were set to 0 before.
Unsigned(bytes) ==
  LET sum[i \in 0 .. Len(bytes)] ==
        IF i = 0 THEN 0 ELSE sum[i - 1] + (bytes[i] % Base) * Power[i - 1]
  IN sum[Len(bytes)]
Signed(n, w) == IF n < Power[w] \div 2 THEN n ELSE n - Power[w]

\* k times read_raw_int (w = BIT64) or read_raw_int32 (w = BIT32).
ReadNumbers(p, k, w) ==
  IF ~ Goes(p) THEN p
  ELSE [p EXCEPT
         !.bytes  = Rest(@, NonNegative(k) * w),
         !.values = Append(@, [i \in 1 .. NonNegative(k) |->
                                 Signed(Unsigned(Slice(p.bytes, (i - 1) * w + 1, i * w)), w)])]

ReadLong(p) == ReadNumbers(p, 1, BIT64)

Repeat(Read(_), n, p) ==
  LET after[i \in 0 .. NonNegative(n)] ==
        IF i = 0 THEN p
        ELSE LET q == after[i - 1] IN IF Goes(q) THEN Read(q) ELSE q
  IN after[NonNegative(n)]

\* read_raw_ZZ
ReadZZ(p) ==
  LET q == ReadLong(p)
      n == Got(q)[1]
  IN IF ~ Goes(q) THEN q
     ELSE IF n =< 0 THEN Throw(q)
     ELSE [q EXCEPT !.bytes = Rest(@, n), !.values = Append(@, Slice(q.bytes, 1, n))]

\* read_raw_vector<long>, whose resize() throws for a negative length.
ReadVector(p) ==
  LET q == ReadLong(p)
  IN IF Goes(q) /\ Got(q)[1] < 0 THEN Throw(q) ELSE ReadNumbers(q, Got(q)[1], BIT64)

\* IndexSet::readFrom, whose insert() throws for a negative element.
ReadSet(p) ==
  LET q == ReadLong(p)
      r == ReadNumbers(q, Got(q)[1], BIT64)
      S == ToSet(Got(r))
  IN IF ~ Goes(r) THEN r
     ELSE IF \E n \in S : n < 0 THEN Throw(r)
     ELSE [r EXCEPT !.values[Len(r.values)] = Ascending(S)]

\* Mutant: the field that tells the width of the numbers is not read.
ReadRowWithoutSize(p) ==
  LET q == ReadNumbers(p, 1, BIT32)
  IN IF ~ Goes(q) THEN q ELSE ReadNumbers(q, Got(q)[1], BIT64)

\* read_ntl_vec_long into a row of PhiM zeros, which is made longer and never shorter.
ReadRow(p) ==
  LET q == ReadNumbers(p, 2, BIT32)
      r == ReadNumbers(q, Got(q)[1], Got(q)[2])
      n == Len(Got(r))
  IN IF ~ Goes(q) THEN q
     ELSE IF Got(q)[2] \notin {BIT64, BIT32} THEN Throw(q)
     ELSE [r EXCEPT !.values[Len(r.values)] =
             [i \in 1 .. IF n < PhiM THEN PhiM ELSE n |-> IF i =< n THEN Got(r)[i] ELSE 0]]

\* DoubleCRT::read: the set, and a row for each of its elements.
ReadDoubleCRT(p) ==
  LET q == ReadSet(p) IN IF Goes(q) THEN Repeat(ReadRow, Len(Got(q)), q) ELSE q

ReadHandle(p)  == ReadNumbers(p, 3, BIT64)
ReadXDouble(p) == ReadNumbers(p, 2, BIT64)
ReadPart(p)    == ReadHandle(ReadDoubleCRT(p))

\* read_raw_vector<T>: resize() or reserve() throws for a negative length.
ReadVectorOf(Read(_), p) ==
  LET q == ReadLong(p)
  IN IF ~ Goes(q) THEN q ELSE IF Got(q)[1] < 0 THEN Throw(q) ELSE Repeat(Read, Got(q)[1], q)

\* SerializeHeader::readFrom reads over a header that has the right eye catchers already.
ReadHeader(p) ==
  IF ~ Goes(p) \/ p.bytes = <<>> THEN p
  ELSE [p EXCEPT !.bytes = Tail(@), !.ok = Head(p.bytes) = Eye["HEADER"]]

\* Mutant: the end of the stream passes for the eye catcher.
EndAsCatcher(p, c) ==
  IF ~ Goes(p) \/ p.bytes = <<>> THEN p
  ELSE [p EXCEPT !.bytes = Tail(@), !.ok = Head(p.bytes) = Eye[c]]

\* readEyeCatcher reads over an array with indeterminate contents.
ReadCatcher(p, c) ==
  IF ~ Goes(p) THEN p
  ELSE IF p.bytes = <<>> THEN [p EXCEPT !.ok = p.stack, !.ub = p.stack]
  ELSE [p EXCEPT !.bytes = Tail(@), !.ok = Head(p.bytes) = Eye[c]]

\* One field of the readers below.
ReadField(p, field) ==
  CASE field \in Catchers \ {"HEADER"} -> ReadCatcher(p, field)
    [] field = "HEADER"     -> ReadHeader(p)
    [] field = "long"       -> ReadLong(p)
    [] field = "ZZ"         -> ReadZZ(p)
    [] field = "xdouble"    -> ReadXDouble(p)
    [] field = "vector"     -> ReadVector(p)
    [] field = "IndexSet"   -> ReadSet(p)
    [] field = "IndexSets"  -> ReadVectorOf(ReadSet, p)
    [] field = "row"        -> ReadRow(p)
    [] field = "SKHandle"   -> ReadHandle(p)
    [] field = "DoubleCRT"  -> ReadDoubleCRT(p)
    [] field = "DoubleCRTs" -> ReadVectorOf(ReadDoubleCRT, p)
    [] field = "CtxtPart"   -> ReadPart(p)
    [] field = "CtxtParts"  -> ReadVectorOf(ReadPart, p)

CtxtFields == <<"HEADER", "CTXT_BEGIN", "long", "long", "xdouble", "xdouble", "xdouble",
                "IndexSet", "CtxtParts", "CTXT_END">>
KeySwitchFields == <<"SKM_BEGIN", "SKHandle", "long", "long", "DoubleCRTs", "ZZ", "xdouble",
                     "SKM_END">>
ContextFields == <<"HEADER", "CONTEXT_BEGIN", "long", "long", "long", "vector", "vector",
                   "xdouble", "long", "IndexSet", "IndexSet", "vector", "IndexSets",
                   "long", "long", "long", "row", "long", "long", "CONTEXT_END">>

\* Those that are enclosed in eye catchers, and those that are not.
Closed == {"Ctxt", "KeySwitch", "Context"}
Open   == {"IndexSet", "DoubleCRT", "SKHandle", "CtxtPart", "ZZ", "xdouble", "vector"}

Fields(kind) == CASE kind = "Ctxt"      -> CtxtFields
                  [] kind = "KeySwitch" -> KeySwitchFields
                  [] kind = "Context"   -> ContextFields
                  [] kind \in Open      -> <<kind>>

Read(kind, bytes, stack) ==
  LET after[i \in 0 .. Len(Fields(kind))] ==
        IF i = 0 THEN [bytes |-> bytes, values |-> <<>>, ok |-> TRUE, stack |-> stack, ub |-> FALSE]
        ELSE LET p == after[i - 1] IN IF Goes(p) THEN ReadField(p, Fields(kind)[i]) ELSE p
  IN after[Len(Fields(kind))]

-----------------------------------------------------------------------------
\* The stream is what the objects that have not been read were written as.
Framed == stream = FlattenSeq([i \in 1 .. Len(queue) |-> Bytes(queue[i])])

NoRead == [kind |-> "none", values |-> <<>>, expected |-> <<>>, returned |-> FALSE,
           ub |-> FALSE, cut |-> FALSE, framed |-> TRUE]

Init ==
  /\ stream = <<>> /\ queue = <<>>
  /\ cut = FALSE /\ threw = FALSE /\ last = NoRead

\* Bound: nothing is written behind bytes that a reader left of another object.
WriteTo(o) ==
  /\ ~ cut /\ ~ threw /\ Framed /\ Len(queue) < MaxObjects
  /\ stream = <<>> \/ Len(stream) + Len(Bytes(o)) =< MaxBytes
  /\ stream' = stream \o Bytes(o)
  /\ queue' = Append(queue, o) /\ last' = NoRead
  /\ UNCHANGED <<cut, threw>>

\* The file or the connection breaks off.
Cut(n) ==
  /\ ~ cut /\ ~ threw
  /\ stream' = SubSeq(stream, 1, n) /\ cut' = TRUE /\ last' = NoRead
  /\ UNCHANGED <<queue, threw>>

\* The caller of a reader without eye catchers knows what comes; the others may be tried.
ReadFrom(kind, stack) ==
  LET p == Read(kind, stream, stack)
      o == Head(queue)
  IN /\ ~ threw /\ queue # <<>>
     /\ kind \in Open => kind = o.kind
     /\ last' = [kind |-> kind, values |-> p.values,
                 expected |-> IF kind = o.kind THEN Values(o) ELSE <<>>,
                 returned |-> p.ok, ub |-> p.ub, cut |-> cut, framed |-> Framed]
     /\ stream' = p.bytes /\ threw' = ~ p.ok
     /\ queue' = IF p.ok THEN Tail(queue) ELSE queue
     /\ UNCHANGED cut

\* The application starts again with an empty stream.
Reset ==
  /\ queue # <<>> \/ threw \/ cut
  /\ stream' = <<>> /\ queue' = <<>> /\ cut' = FALSE /\ threw' = FALSE /\ last' = NoRead

Kinds == {o.kind : o \in Objects}

Next ==
  \/ \E o \in Objects : WriteTo(o)
  \/ \E n \in 0 .. Len(stream) - 1 : Cut(n)
  \/ \E kind \in Kinds, stack \in BOOLEAN : ReadFrom(kind, stack)
  \/ Reset

Spec == Init /\ [][Next]_vars

-----------------------------------------------------------------------------
(* What is assumed of the constants.                                       *)

\* A number that w bytes hold.
Fits(n, w) == - (Power[w] \div 2) =< n /\ n < Power[w] \div 2

Field == {f \in {"long", "int", "bytes", "catcher"} \X Seq(Int) :
            f[1] \in {"bytes", "catcher"} => f[2] \in Seq(Symbols)}

\* A field that is read back as it was written.
Plain == {f \in Field : /\ f[1] # "catcher"
                        /\ f[1] = "long" => \A n \in ToSet(f[2]) : Fits(n, BIT64)
                        /\ f[1] = "int"  => \A n \in ToSet(f[2]) : Fits(n, BIT32)}

SetFits(S)   == S \subseteq Nat /\ IsFiniteSet(S) /\ WriteSet(S) \in Seq(Plain)
RowFits(row) == row \in Seq(Int) /\ Len(row) = PhiM /\ WriteRow(row) \in Seq(Plain)

\* The fields of an object without eye catchers are what writeTo() writes of one of its
\* kind, with numbers that fit, indices that are not negative, and rows of PhiM entries.
IsForm(o) ==
  LET at(i)  == o.fields[i][2]
      S      == ToSet(at(2))
      row    == IF S = {} THEN <<>> ELSE at(4)
      handle == at(Len(o.fields))
      rowsFit == SetFits(S) /\ (S = {} \/ RowFits(row))
  IN CASE o.kind = "IndexSet"  -> SetFits(S) /\ o.fields = WriteSet(S)
       [] o.kind = "DoubleCRT" -> rowsFit /\ o.fields = WriteDoubleCRT(S, row)
       [] o.kind = "CtxtPart"  -> /\ rowsFit /\ Len(handle) = 3 /\ Longs(handle) \in Plain
                                  /\ o.fields = WritePart(S, row, handle)
       [] o.kind = "SKHandle"  -> /\ Len(at(1)) = 3 /\ Longs(at(1)) \in Plain
                                  /\ o.fields = WriteHandle(at(1))
       [] o.kind = "xdouble"   -> /\ Len(at(1)) = 2 /\ Longs(at(1)) \in Plain
                                  /\ o.fields = WriteXDouble(at(1))
       [] o.kind = "ZZ"        -> /\ at(2) # <<>> /\ WriteZZ(at(2)) \in Seq(Plain)
                                  /\ o.fields = WriteZZ(at(2))
       [] o.kind = "vector"    -> /\ WriteVector(at(2)) \in Seq(Plain)
                                  /\ o.fields = WriteVector(at(2))

ASSUME SizesAssumption ==
  /\ Base \in Nat \ {0, 1} /\ BIT64 \in Nat \ {0} /\ BIT32 \in Nat \ {0}
  /\ PhiM \in Nat /\ MaxObjects \in Nat /\ MaxBytes \in Nat

ASSUME ObjectsAssumption ==
  \A o \in Objects :
    /\ o.kind \in Open \cup Closed /\ o.fields \in Seq(Field)
    /\ o.kind \in Open => IsForm(o)

-----------------------------------------------------------------------------
(* Properties.                                                             *)

\* The stream holds bytes, numbers too large for their width or negative included.
TypeOK ==
  /\ \A i \in DOMAIN stream : stream[i] \in Symbols
  /\ queue \in Seq(Objects)
  /\ cut \in BOOLEAN /\ threw \in BOOLEAN
  /\ last.kind \in Kinds \cup {"none"} /\ last.returned \in BOOLEAN

\* An index set, handle, part or vector is read back as it was written, whatever is
\* before and behind it in the stream, and its reader stops where its writer did: if the
\* stream was the form of the objects in the queue, it is that of those that are left, and
\* bytes throughout.
OpenFormsFramed ==
  TypeOK /\ (last.kind \in Open /\ last.framed =>
    last.returned /\ last.values = last.expected /\ Framed)

\* The eye catchers at the ends never let a wrong read pass.  In this build every read of a
\* ciphertext, matrix or context is wrong: tried on the form of another type, torn at any
\* byte, or because the reader takes other bytes than the writer put there, and then those
\* of what follows in the stream too.  All of them throw, unless the memory that
\* readEyeCatcher() did not write happens to hold what it looks for.
NothingTornReturned == last.kind \in Closed /\ last.returned => last.ub

-----------------------------------------------------------------------------
(* What the tests say and the code does not do.                            *)

\* TestBinIO, readContextFromDeserializeCorrectly and the like: what was written can
\* be read back.
ClosedFormsReadBack ==
  last.kind \in Closed /\ last.expected # <<>> /\ ~ last.cut =>
    last.returned /\ last.values = last.expected
=============================================================================
