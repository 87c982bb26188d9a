-------------------------------- MODULE Query --------------------------------
(***************************************************************************)
(* query.h and the lookups of partialMatch.h.  A query is a tree           *)
(* [op, l, r], or a sequence of the words of a string; a column is the     *)
(* letter at its index in Columns, counted from 0 there.                   *)
(***************************************************************************)
EXTENDS Integers, Sequences

LOCAL INSTANCE SequencesExt
LOCAL INSTANCE FiniteSetsExt

Columns == <<"A", "B", "C">>
IsNumber(s) == s \in ToSet(Columns)
IndexOf(s) == CHOOSE c \in DOMAIN Columns : Columns[c] = s
Operators == {"AND", "OR"}

\* The string of an expression, in reverse Polish notation.
RECURSIVE Eval(_)
Eval(t) ==
  CASE t.op = "column" -> <<t.name>>
    [] t.op = "!"      -> Eval(t.l) \o <<"!">>
    [] OTHER           -> Eval(t.l) \o Eval(t.r) \o <<t.op>>

-----------------------------------------------------------------------------
(* A query in infix notation. *)

\* The regular expressions, for words separated by one blank: "()" at the very end
\* is not refused.
Refused(s) ==
  \/ \E i \in 1 .. Len(s) - 1 :
       \/ IsNumber(s[i]) /\ IsNumber(s[i + 1])
       \/ s[i] \in Operators /\ s[i + 1] \in Operators \cup {")"}
       \/ s[i] = "(" /\ s[i + 1] \in Operators
       \/ s[i] = "(" /\ s[i + 1] = ")" /\ i + 1 < Len(s)
  \/ s # <<>> /\ (s[1] \in Operators \/ s[Len(s)] \in Operators)
  \/ Quantify(DOMAIN s, LAMBDA i : s[i] = "(") # Quantify(DOMAIN s, LAMBDA i : s[i] = ")")

\* The stack st has its top first; top() of an empty one is undefined.
Word(op) == IF op = "AND" THEN "&&" ELSE "||"

\* An operator of the same or a higher precedence on the stack is the left operand's.
OperatorRead(c, op) ==
  IF Head(c.st) = "AND" \/ (op = "OR" /\ Head(c.st) = "OR")
    THEN [c EXCEPT !.ret = Append(@, Word(Head(c.st))), !.st = <<op>> \o Tail(@)]
    ELSE [c EXCEPT !.st = <<op>> \o @]

\* ")" empties the stack until it hits a "(".
ClosingRead(c) ==
  LET n == SelectInSeq(c.st, LAMBDA x : x = "(")
  IN IF n = 0 THEN [c EXCEPT !.undefined = TRUE]
     ELSE [c EXCEPT !.ret = @ \o [i \in 1 .. n - 1 |-> Word(c.st[i])],
                    !.st = SubSeq(@, n + 1, Len(@))]

NextWord(c, word) ==
  CASE word = "("        -> [c EXCEPT !.st = <<"(">> \o @]
    [] word = ")"        -> ClosingRead(c)
    [] IsNumber(word)    -> [c EXCEPT !.ret = Append(@, word)]
    [] word \in Operators -> IF c.st = <<>> THEN [c EXCEPT !.undefined = TRUE] ELSE OperatorRead(c, word)

ConvertToPostFix(s) ==
  LET c == FoldLeft(NextWord, [st |-> <<"(">>, ret |-> <<>>, undefined |-> FALSE], Append(s, ")"))
  IN [ok |-> ~ Refused(s) /\ ~ c.undefined /\ c.st = <<>>, rpn |-> c.ret]

-----------------------------------------------------------------------------
(* The query as an AND of ORs: column i is i+1, its negation -(i+1).       *)

Below(st) == SubSeq(st, 1, Len(st) - 1)
BelowTwo(st) == SubSeq(st, 1, Len(st) - 2)

\* All the products of a clause of f and one of g.
Product(f, g) ==
  FlattenSeq([i \in DOMAIN f |-> [j \in DOMAIN g |-> f[i] \o g[j]]])

\* Mutant: the clauses of a negation are those of the clause, negated.
NegateClausewise(f) == [i \in DOMAIN f |-> [j \in DOMAIN f[i] |-> -f[i][j]]]

Negate(f) ==
  FoldLeft(LAMBDA acc, clause : Product(acc, [j \in DOMAIN clause |-> <<-clause[j]>>]),
           <<<<>>>>, f)

ExpandSymbol(st, s) ==
  CASE s = "&&" -> Append(BelowTwo(st), st[Len(st) - 1] \o st[Len(st)])
    [] s = "||" -> Append(BelowTwo(st), Product(st[Len(st)], st[Len(st) - 1]))
    [] s = "!"  -> Append(Below(st), Negate(st[Len(st)]))
    [] OTHER    -> Append(st, <<<<IndexOf(s)>>>>)

ExpandOr(rpn) == FoldLeft(ExpandSymbol, <<>>, rpn)[1]

\* remove_if() moves the elements that stay to the front, and is not followed by an
\* erase(): behind them the vector keeps what was there.
TidyClause(clause) ==
  LET once == FoldLeft(LAMBDA acc, c : IF Contains(acc, c) THEN acc ELSE Append(acc, c), <<>>, clause)
      kept == SelectSeq(once, LAMBDA c : ~ Contains(once, -c))
  IN kept \o SubSeq(once, Len(kept) + 1, Len(once))

Tidy(f) == SelectSeq([i \in DOMAIN f |-> TidyClause(f[i])], LAMBDA c : c # <<>>)

Column(lit) == IF lit < 0 THEN -lit ELSE lit
Repeats(clause) == \E i, j \in DOMAIN clause : i < j /\ Column(clause[i]) = Column(clause[j])

\* mu counts the negated columns of a clause, tau has 1 for a column and -1 for a
\* negated one; a column that is repeated fails an assertion.
BuildWeights(f) ==
  [ok         |-> f # <<>> /\ \A i \in DOMAIN f : f[i] # <<>> /\ ~ Repeats(f[i]),
   containsOR |-> \E i \in DOMAIN f : Len(f[i]) > 1,
   mus        |-> [i \in DOMAIN f |-> Quantify(DOMAIN f[i], LAMBDA j : f[i][j] < 0)],
   taus       |-> [i \in DOMAIN f |-> [c \in DOMAIN Columns |->
                     IF Contains(f[i], c) THEN 1 ELSE IF Contains(f[i], -c) THEN -1 ELSE 0]]]

Build(rpn) == BuildWeights(Tidy(ExpandOr(rpn)))

\* A || B as !(!A && !B).
WithoutOr(st, s) ==
  CASE s = "&&" -> Append(BelowTwo(st), st[Len(st) - 1] \o st[Len(st)] \o <<"&&">>)
    [] s = "||" -> Append(BelowTwo(st), st[Len(st) - 1] \o <<"!">> \o st[Len(st)] \o <<"!", "&&", "!">>)
    [] s = "!"  -> Append(Below(st), Append(st[Len(st)], "!"))
    [] OTHER    -> Append(st, <<s>>)

RemoveOr(rpn) == FoldLeft(WithoutOr, <<>>, rpn)[1]

-----------------------------------------------------------------------------
(* Lookups: mask[c] is 1 where the data of column c match, and 0 elsewhere. *)

\* The product over the clauses of mu + tau * mask.
CalculateScores(query, mask, p) ==
  LET Factor(i) == query.mus[i] + MapThenSumSet(LAMBDA c : query.taus[i][c] * mask[c], DOMAIN mask)
  IN FoldLeftDomain(LAMBDA acc, i : (acc * Factor(i)) % p, 1, query.mus)

\* Fermat's little theorem makes 1 of every score but 0.
ContainsQuery(query, mask, p) ==
  LET score == CalculateScores(query, mask, p)
  IN IF query.containsOR THEN FoldLeft(LAMBDA acc, i : (acc * score) % p, 1, [i \in 1 .. p - 1 |-> i])
     ELSE score

\* The string of a query without ORs.
Lookup(st, s, mask, p) ==
  CASE s = "&&" -> Append(BelowTwo(st), (st[Len(st) - 1] * st[Len(st)]) % p)
    [] s = "!"  -> Append(Below(st), (1 - st[Len(st)]) % p)
    [] OTHER    -> Append(st, mask[IndexOf(s)])

ContainsString(rpn, mask, p) == FoldLeft(LAMBDA st, s : Lookup(st, s, mask, p), <<>>, rpn)[1]
=============================================================================
