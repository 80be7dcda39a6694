--------------------------- MODULE ExprReference ---------------------------
(***************************************************************************)
(* What the tokens of an expression mean, without a parser: an expression  *)
(* is split at the last of its operators that bind least.                  *)
(***************************************************************************)
EXTENDS ExprTree

Atom == {"IDENT", "STRING", "NUMBER", "INTEGER", "TRUE", "FALSE", "DISTINCT", "DURATIONVAL", "REGEX"}

\* The positions where an operand ends: an asterisk behind one is an operator.
OperandEnds(toks) ==
  LET ends[k \in 0 .. Len(toks)] ==
        /\ k > 0
        /\ \/ toks[k].tok \in Atom \cup {"RPAREN"}
           \/ toks[k].tok = "MUL" /\ ~ends[k - 1]
  IN {k \in 1 .. Len(toks) : ends[k]}

\* How many parentheses are open before position k.
Depth(toks, k) ==
  LET count(names) == Cardinality({j \in 1 .. k - 1 : toks[j].tok \in names})
  IN count({"LPAREN", "CALL"}) - count({"RPAREN"})

Operators(toks) ==
  LET ends == OperandEnds(toks)
  IN {k \in 2 .. Len(toks) : toks[k].tok \in Op /\ k - 1 \in ends /\ Depth(toks, k) = 0}

\* A regular expression stands behind =~ and !~, and as an argument.
RegexInPlace(toks) ==
  \A k \in 1 .. Len(toks) :
     LET before == IF k = 1 THEN "EOF" ELSE toks[k - 1].tok
         after  == IF k = Len(toks) THEN "EOF" ELSE toks[k + 1].tok
     IN /\ before \in RegexOp => toks[k].tok = "REGEX"
        /\ toks[k].tok = "REGEX" => \/ before \in RegexOp
                                    \/ before \in {"CALL", "COMMA"} /\ after \in {"COMMA", "RPAREN"}

\* The literal that an atom stands for.
AtomValue(t) ==
  LET value(p) == p.n * Scale[p.unit]
      sum == FoldLeft(LAMBDA d, p : Wrap(d + value(p)), 0, t.parts)
  IN CASE t.tok = "INTEGER" -> IntegerValue(t.leaf.v)
       [] t.tok = "DURATIONVAL" ->
            IF sum < 0 \/ \E p \in Range(t.parts) : p.n > MaxInt THEN <<>> ELSE <<Lit("duration", sum)>>
       [] OTHER -> <<t.leaf>>

Between(toks, i, j) == SubSeq(toks, i, j)

\* The tree of a whole sequence of tokens, if it is an expression.
RECURSIVE Expression(_)
Expression(toks) ==
  LET n == Len(toks)
      ops == Operators(toks)
      least == {k \in ops : \A j \in ops : Precedence(toks[k].tok) <= Precedence(toks[j].tok)}
      k == Max(least)
      commas == {c \in 2 .. n - 1 : toks[c].tok = "COMMA" /\ Depth(toks, c) = 1}
      bounds == SetToSortSeq(commas \cup {1, n}, <)
      args == [a \in 1 .. Len(bounds) - 1 |-> Expression(Between(toks, bounds[a] + 1, bounds[a + 1] - 1))]
      closes == n > 1 /\ toks[n].tok = "RPAREN" /\ \A j \in 2 .. n : Depth(toks, j) > 0
  IN IF n = 0 THEN <<>>
     ELSE IF ops # {} THEN
       LET l == Expression(Between(toks, 1, k - 1))
           r == Expression(Between(toks, k + 1, n))
       IN IF l = <<>> \/ r = <<>> THEN <<>> ELSE <<Binary(toks[k].tok, l[1], r[1])>>
     ELSE IF n = 1 /\ toks[1].tok \in Atom THEN
       IF AtomValue(toks[1]) = <<>> THEN <<>> ELSE <<Leaf1(AtomValue(toks[1])[1])>>
     ELSE IF n = 1 /\ toks[1].tok = "MUL" THEN <<Leaf1(Named("wildcard", NoName))>>
     ELSE IF n > 1 /\ toks[1].tok \in {"ADD", "SUB"} /\ toks[2].tok \in Signable THEN
       LET x == Expression(Tail(toks))
           minus == toks[1].tok = "SUB"
       IN CASE x = <<>> -> <<>>
            [] x # <<>> /\ (x[1].kind # "leaf" \/ x[1].leaf.type = "var") ->
                 <<Binary("MUL", Leaf1(Lit("int", IF minus THEN -1 ELSE 1)), x[1])>>
            [] OTHER ->
                 IF ~minus THEN x
                 ELSE IF Negated(x[1].leaf) = <<>> THEN <<>> ELSE <<Leaf1(Negated(x[1].leaf)[1])>>
     ELSE IF toks[1].tok = "LPAREN" /\ closes THEN
       LET x == Expression(Between(toks, 2, n - 1)) IN IF x = <<>> THEN <<>> ELSE <<Group(x[1])>>
     ELSE IF toks[1].tok = "CALL" /\ closes THEN
       IF n = 2 THEN <<Apply(toks[1].leaf, <<>>)>>
       ELSE IF \E a \in DOMAIN args : args[a] = <<>> THEN <<>>
       ELSE <<Apply(toks[1].leaf, [a \in DOMAIN args |-> args[a][1]])>>
     ELSE <<>>

\* What ParseExpr reads of a text: up to the first operand without an
\* operator behind it.
FirstExpression(toks) ==
  LET stops == {k \in OperandEnds(toks) :
                  k = Len(toks) \/ (Depth(toks, k + 1) <= 0 /\ toks[k + 1].tok \notin Op)}
  IN IF stops = {} THEN toks ELSE SubSeq(toks, 1, Min(stops))

Meaning(toks) == IF RegexInPlace(toks) THEN Expression(toks) ELSE <<>>
=============================================================================
