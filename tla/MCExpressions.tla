--------------------------- MODULE MCExpressions ---------------------------
(***************************************************************************)
(* Instances of ExprParser.  The trees that it returns are the arguments   *)
(* of the functions of ExprTree and of Evaluation.                         *)
(***************************************************************************)
EXTENDS ExprParser, ExprReference, Evaluation

MCScale == [w |-> 128, d |-> 64, h |-> 32, m |-> 16, s |-> 8, ms |-> 4, u |-> 2, ns |-> 1]

MCSpelled == "a b" :> <<"a", "b">> @@ "my f" :> <<"my", "f">>

MCMatches == {<<"r", "s">>}

Whole(n)     == TL("INTEGER", Lit("int", n))
Decimal(v, d) == TL("NUMBER", Fraction(v, d))
Ident(x)     == TL("IDENT", Named("var", x))
Text(s)      == TL("STRING", Named("string", s))
Call(f)      == TL("CALL", Named("nil", f))
Duration(ps) == [T("DURATIONVAL") EXCEPT !.parts = ps]
P(n, unit)   == [n |-> n, unit |-> unit]
Plains(toks) == {T(tok) : tok \in toks}

\* Long texts in a few tokens: nesting, signs, arguments.
Nested ==
  { {Ident("x")} \cup Plains({"SUB", "DIV", "LT"}),
    {Ident("b"), TL("TRUE", BoolOf(TRUE))} \cup Plains({"OR", "AND", "EQ"}),
    {Ident("x")} \cup Plains({"SUB", "MUL", "LPAREN", "RPAREN"}),
    {Ident("b")} \cup Plains({"OR", "AND", "LPAREN", "RPAREN"}),
    {Call("f"), Ident("x"), TL("REGEX", Named("regex", "r"))} \cup Plains({"COMMA", "RPAREN", "ADD"}) }

\* Short texts in many.
Varied ==
  { {Ident("x"), Whole(2)} \cup Plains({"MUL", "SUB", "ADD", "DIV", "LPAREN", "RPAREN"}),
    {Ident("x"), Whole(1024), Whole(2), TL("TRUE", BoolOf(TRUE))}
      \cup Plains({"OR", "AND", "LT", "SUB", "LPAREN", "RPAREN"}),
    {Ident("b"), TL("TRUE", BoolOf(TRUE)), TL("FALSE", BoolOf(FALSE))}
      \cup Plains({"OR", "AND", "EQ", "LPAREN", "RPAREN"}),
    {Call("f"), TL("REGEX", Named("regex", "r")), Ident("s"), Text("s"),
     TL("DISTINCT", Named("distinct", "x"))}
      \cup Plains({"EQREGEX", "COMMA", "RPAREN", "MUL", "DIV"}),
    {Call("f"), Call("my f"), TL("DISTINCT", Named("distinct", "a b")), Ident("x")}
      \cup Plains({"COMMA", "RPAREN", "ADD"}),
    {Duration(<<P(3, "w"), P(1, "ns")>>), Duration(<<P(9, "w")>>), Duration(<<P(17, "w")>>),
     Duration(<<P(7, "w"), P(127, "ns")>>), Duration(<<P(1024, "ns")>>), Duration(<<P(2, "m")>>),
     Whole(3)}
      \cup Plains({"SUB", "ADD", "LT", "MUL"}),
    {Whole(1024), Whole(1), Whole(2048), Ident("x")}
      \cup Plains({"SUB", "ADD", "GTE", "MOD", "BITWISE_AND"}),
    {Decimal(3, 2), Decimal(4, 1), Whole(3), Ident("x")}
      \cup Plains({"SUB", "ADD", "EQ", "DIV", "MUL"}) }

MCAlphabets == Nested \cup Varied

MCMaxTokens == [a \in MCAlphabets |-> IF a \in Nested THEN 7 ELSE 5]

\* Where only signs matter.
NestedMaxTokens == [a \in Nested |-> MCMaxTokens[a]]

----------------------------------------------------------------------------
(* The results.                                                            *)

Result == TreeOf(nodes, nodes[1].rhs)

\* The parser returns the meaning of the tokens it consumed: operators nest
\* by their precedence and from left to right, the parentheses, signs,
\* calls, and literals are the ones of the text; and it refuses a text
\* only if its tokens, the offending one included, mean nothing (ParseExpr,
\* parseUnaryExpr, parseCall, ParseDuration).
ReturnsTheMeaning ==
  /\ pc = "done" => Meaning(SubSeq(text, 1, at)) = <<Result>>
  /\ pc = "error" => Meaning(SelectSeq(text, LAMBDA t : t.tok # "EOF")) = <<>>

\* A multiplication by the one that a sign stands for, at the right of an
\* operator that binds as strongly, is printed without the parentheses it
\* would need.
SignOnTheRight(t) ==
  \E x \in Subtrees(t) :
     /\ x.kind = "bin" /\ x.op \in Multiplicative
     /\ x.kids[2].kind = "bin" /\ x.kids[2].op \in Multiplicative

\* Literals that are printed like one of another type.
PrintedAsAnother(t) ==
  \E l \in Range(Leaves(t)) : \/ l.type \in {"time", "panic"}
                              \/ l.type = "uint" /\ l.v <= MaxInt

\* A call or a DISTINCT with a name that needs quotes.
LosesQuotes(t) ==
  \E x \in Subtrees(t) : (x.kind = "call" \/ IsLeaf(x, "distinct")) /\ x.leaf.name \in DOMAIN Spelled

ReadsBack(t) == Meaning(Tokens(t)) = <<t>>

\* An expression that was read is printed as a text that reads back as the
\* same expression, and so is what Reduce makes of it, although Reduce drops
\* parentheses (BinaryExpr.String, ParenExpr.String, reduceParenExpr): all but
\* signs on the right of an operator, and the names that Call.String and
\* Distinct.String print without the quotes they need, which never read back.
PrintedTextReadsBack ==
  pc = "done" /\ ~SignOnTheRight(Result) =>
    \A t \in {Result, Reduce(Result, <<>>)} :
       t = Result \/ ~PrintedAsAnother(t) => (ReadsBack(t) <=> ~LosesQuotes(t))

\* "Attempt to reparse the expr as a string and confirm it parses the same"
\* (parser_test.go): whatever was read reads back.
ReparsedTheSame == pc = "done" => ReadsBack(Result)

----------------------------------------------------------------------------
(* Evaluation.                                                             *)

Sort == [x |-> "num", b |-> "bool", s |-> "string"]

\* The sort of an expression whose operands go together, or "none".
RECURSIVE SortOf(_)
SortOf(t) ==
  CASE t.kind = "leaf" ->
         CASE t.leaf.type \in Numeric -> "num"
           [] t.leaf.type = "bool" -> "bool"
           [] t.leaf.type = "string" -> "string"
           [] t.leaf.type = "regex" -> "regex"
           [] t.leaf.type = "var" -> Sort[t.leaf.name]
           [] OTHER -> "none"
    [] t.kind = "paren" -> SortOf(t.kids[1])
    [] t.kind = "bin" ->
         LET sorts == <<SortOf(t.kids[1]), SortOf(t.kids[2])>>
         IN CASE t.op \in {"AND", "OR"} /\ sorts = <<"bool", "bool">> -> "bool"
              [] t.op \in Equality /\ sorts[1] = sorts[2] /\ sorts[1] \in {"num", "bool", "string"} -> "bool"
              [] t.op \in Ordering /\ sorts = <<"num", "num">> -> "bool"
              [] t.op \in RegexOp /\ sorts = <<"string", "regex">> -> "bool"
              [] t.op \in Additive \cup Multiplicative /\ sorts = <<"num", "num">> -> "num"
              [] OTHER -> "none"
    [] OTHER -> "none"

\* The remainder of floats is not modelled.
FloatRemainder(t) ==
  \E x \in Subtrees(t) : IsBin(x, "MOD") /\ \E l \in Range(Leaves(t)) : l.type = "float" \/ IsBin(x.kids[1], "DIV")

Envs == {[x |-> Lit("int", x), b |-> BoolOf(b), s |-> Named("string", s)] :
           x \in {-1, 2}, b \in BOOLEAN, s \in {"s", "t"}}
        \cup {[b |-> BoolOf(TRUE), s |-> Named("string", "s")]}

Known(env, names) == [x \in DOMAIN env \cap names |-> env[x]]

SameValue(p, q) == p.type = q.type /\ p.name = q.name /\ p.v * q.den = q.v * p.den

\* Whatever part of the values Reduce is given, what it leaves evaluates to
\* the value of the whole expression (Reduce, ValuerEval with
\* IntegerFloatDivision), for expressions whose operands go together.  The
\* boolean always has a value: without one, b alone is nil and b OR FALSE,
\* which Reduce makes b of, is false.
ReducedEvaluatesTheSame ==
  pc = "done" /\ SortOf(Result) # "none" /\ ~FloatRemainder(Result) =>
    \A env \in Envs : \A names \in SUBSET {l.name : l \in Range(Leaves(Result)) \cap Range(LET l == Leaves(Result) IN SelectSeq(l, LAMBDA y : y.type = "var"))} :
       SameValue(Eval(Reduce(Result, Known(env, names)), env, TRUE), Eval(Result, env, TRUE))

\* The two conditions that PartitionExpr returns hold together exactly when
\* the expression holds, whatever their operands are.
PartitionKeepsTheCondition ==
  pc = "done" =>
    LET passes(c) == \E l \in Range(Leaves(c)) : l = Named("var", "x") \/ l.type = "bool"
        parts == Partition(Result, passes)
    IN \A env \in Envs :
         EvalBool(Result, env, FALSE)
         <=> \A side \in {parts.pass, parts.fail} \ {<<>>} : EvalBool(Conjunction(side), env, FALSE)

----------------------------------------------------------------------------
(* Rewriting.                                                              *)

Dropped == {Lit("int", 2), BoolOf(TRUE)}
Changed == (Named("var", "x") :> Named("var", "y")) @@ (Named("var", "b") :> Lit("int", 1))

\* The tree with every leaf changed, without the dropped ones.
RECURSIVE Replaced(_)
Replaced(t) ==
  LET kids == [k \in DOMAIN t.kids |-> Replaced(t.kids[k])]
      left == SelectSeq(kids, LAMBDA k : k # <<>>)
  IN CASE t.kind = "leaf" ->
            IF t.leaf \in Dropped THEN <<>>
            ELSE <<Leaf1(IF t.leaf \in DOMAIN Changed THEN Changed[t.leaf] ELSE t.leaf)>>
       [] t.kind = "bin" -> CASE Len(left) = 2 -> <<Binary(t.op, left[1][1], left[2][1])>>
                              [] Len(left) = 1 -> left[1]
                              [] OTHER -> <<>>
       [] t.kind = "paren" -> IF left = <<>> THEN <<>> ELSE <<Group(left[1][1])>>
       [] OTHER -> <<Apply(t.leaf, [k \in DOMAIN kids |-> IF kids[k] = <<>> THEN Leaf1(Nil) ELSE kids[k][1]])>>

\* Rewriting a clone in place gives the tree with its leaves replaced, and
\* leaves the original as it was (CloneExpr, RewriteExpr).
RewritesTheCloneOnly ==
  pc = "done" =>
    LET c == Clone(nodes, nodes[1].rhs)
        r == RewriteExpr(c.heap, c.id, Dropped, Changed)
    IN /\ TreeOf(r.heap, nodes[1].rhs) = Result
       /\ (IF r.id = 0 THEN <<>> ELSE <<TreeOf(r.heap, r.id)>>) = Replaced(Result)
=============================================================================
