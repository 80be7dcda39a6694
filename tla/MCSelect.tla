------------------------------ MODULE MCSelect ------------------------------
(***************************************************************************)
(* Instances of SelectStatement, and what its methods must not change.     *)
(***************************************************************************)
EXTENDS SelectStatement

MCScale == [w |-> 128, d |-> 64, h |-> 32, m |-> 16, s |-> 8, ms |-> 4, u |-> 2, ns |-> 1]

\* The names are identifiers without quotes.
MCSpelled == <<>>

MCNumbered(name, k) == name \o "_" \o ToString(k)

MCNow == [now |-> Lit("time", 6)]

MCSpans == {[start |-> 2, end |-> 6], [start |-> 4, end |-> 5]}

----------------------------------------------------------------------------
(* Regular expressions.                                                    *)

Re(op, sub)   == [op |-> op, fold |-> FALSE, vals |-> <<>>, sub |-> sub]
Chars(vals)   == [op |-> "class", fold |-> FALSE, vals |-> vals, sub |-> <<>>]
Chars1(val)   == [op |-> "literal", fold |-> FALSE, vals |-> <<val>>, sub |-> <<>>]
Exactly(subs) == Re("concat", <<Re("begintext", <<>>)>> \o subs \o <<Re("endtext", <<>>)>>)

MCSyntax ==
  [ a      |-> Exactly(<<Chars1("a")>>),                                    \* ^a$
    none   |-> Exactly(<<>>),                                               \* ^$
    aOrB   |-> Exactly(<<Re("capture", <<Chars(<<"a", "b">>)>>)>>),         \* ^([ab])$
    aThen  |-> Exactly(<<Chars1("a"), Chars(<<"a", "b">>)>>),               \* ^a[ab]$
    thenA  |-> Exactly(<<Chars(<<"a", "b">>), Chars1("a")>>),               \* ^[ab]a$
    four   |-> Exactly(<<Chars(<<"a", "b">>), Chars(<<"a", "b">>)>>),       \* ^[ab][ab]$
    words  |-> Exactly(<<Re("alternate", <<Chars1("ab"), Chars(<<"a", "b">>)>>)>>),
    many   |-> Exactly(<<Re("alternate", <<Chars(<<"a", "b">>), Chars(<<"a", "b">>)>>)>>),
    stars  |-> Exactly(<<Re("star", <<Chars1("a")>>)>>),                    \* ^a*$
    folded |-> Exactly(<<[Chars1("a") EXCEPT !.fold = TRUE]>>),             \* ^(?i:a)$
    sides  |-> Re("alternate", <<Re("concat", <<Re("begintext", <<>>), Chars1("a")>>),
                                 Re("concat", <<Chars1("b"), Re("endtext", <<>>)>>)>>),
    starts |-> Re("concat", <<Re("begintext", <<>>), Chars1("a")>>),        \* ^a
    x      |-> Chars1("x") ]

\* The texts of an expression, where ^ and $ stand for the ends of a text.
RECURSIVE Language(_)
Language(re) ==
  LET subs == [k \in DOMAIN re.sub |-> Language(re.sub[k])]
      both(P, Q) == {p \o q : p \in P, q \in Q}
  IN CASE re.op \in {"literal", "class"} -> Range(re.vals) \cup IF re.fold THEN {"A"} ELSE {}
       [] re.op = "capture" -> subs[1]
       [] re.op = "concat" -> FoldLeft(both, {""}, subs)
       [] re.op = "alternate" -> UNION Range(subs)
       [] re.op = "star" -> {""} \cup subs[1] \cup both(subs[1], subs[1])
       [] re.op = "begintext" -> {"^"}
       [] re.op = "endtext" -> {"$"}

HostNames == {"", "a", "A", "b", "aa", "ab", "ba", "bb", "host", "x"}

Padding == {"", "a", "b", "ab", "ba", "hos", "ost"}

\* An expression matches a text when one of its texts is somewhere in it.
MCMatches ==
  {<<r, s>> \in (DOMAIN MCSyntax) \X HostNames :
     \E w \in Language(MCSyntax[r]) :
       \E p \in {""} \cup {"^" \o q : q \in Padding}, e \in {""} \cup {q \o "$" : q \in Padding} :
          p \o w \o e = "^" \o s \o "$"}

----------------------------------------------------------------------------
(* Conditions.                                                             *)

Num(n)    == Leaf1(Lit("int", n))
TextOf(s) == Leaf1(Named("string", s))
TimeOf(n) == Leaf1([Named("string", "time") EXCEPT !.v = n])
Ago(n)    == Binary("SUB", Apply(Named("nil", "now"), <<>>), Leaf1(Lit("duration", n)))
Like(op, r) == Binary(op, Var("host"), Leaf1(Named("regex", r)))

TimeAtoms ==
  { Binary("GT", Var("time"), Num(3)),
    Binary("LT", Var("time"), TimeOf(7)),
    Binary("LTE", Ago(2), Var("time")),
    Binary("EQ", Var("Time"), TimeOf(5)),
    Binary("LTE", Var("time"), Ago(1)) }

OtherAtoms ==
  { Binary("EQ", Var("host"), TextOf("a")),
    Like("NEQREGEX", "aOrB"),
    Binary("GT", Var("x"), Num(1)),
    Bool(TRUE) }

\* Strict comparisons with the last and the first instant of a time literal.
Edges == { Binary("GT", Var("time"), TimeOf(MaxTime)), Binary("LT", Var("time"), TimeOf(MinTime + 1)) }

RegexAtoms == {Like(op, r) : op \in RegexOp, r \in (DOMAIN MCSyntax) \ {"x"}}

Both(P, Q) == {Binary(op, p, q) : op \in {"AND", "OR"}, p \in P, q \in Q}

Atoms == TimeAtoms \cup OtherAtoms

Few == { Binary("GT", Var("time"), Num(3)), Like("NEQREGEX", "aOrB"), Binary("GT", Var("x"), Num(1)) }

Pairs == {t \in Both(Few, Few) : t.kids[1] # t.kids[2]}

Grouped == {Group(t) : t \in Pairs}

\* What the parser returns: AND binds tighter than OR.
Conditions ==
  Atoms \cup Edges \cup RegexAtoms \cup Both(Edges, Few) \cup Both(Atoms, Atoms) \cup Both(Few, Grouped) \cup Both(Grouped, Few)
  \cup {t \in Both(Pairs, Few) : IsBin(t, "AND") => IsBin(t.kids[1], "AND")}

----------------------------------------------------------------------------
(* Statements.                                                             *)

MCFieldTypes ==
  [ m |-> [x |-> Integer, s |-> String],
    n |-> [x |-> Float, host |-> Boolean] ]

MCTagKeys == [m |-> {"host"}, n |-> {"host", "x"}]

\* A mapper as in InfluxDB: mean is a float, the others keep the type.
MCCallType(name, types) == IF name = "mean" THEN Float ELSE IF types = <<>> THEN Unknown ELSE types[1]

MCAlphabetical == <<"host", "max", "mean", "mean_x", "s", "x", "x_1">>

Of(m) == [name |-> m, sub |-> <<>>]
In(s) == [name |-> NoName, sub |-> <<s>>]

Field(expr)       == [expr |-> expr, alias |-> NoName]
As(expr, alias)   == [expr |-> expr, alias |-> alias]

Statement(fields, dims, sources, condition) ==
  [fields |-> fields, dims |-> dims, sources |-> sources, condition |-> condition,
   timeAlias |-> NoName, raw |-> TRUE, target |-> FALSE]

All        == Leaf1(Named("wildcard", NoName))
Some(v)    == Leaf1([Named("wildcard", NoName) EXCEPT !.v = v])
Pattern    == Leaf1(Named("regex", "x"))
Fn(f, args) == Apply(Named("nil", f), args)
Every      == Fn("time", <<Leaf1(Lit("duration", 2))>>)

Exprs ==
  { Var("x"), All, Some(FieldsOnly), Some(TagsOnly), Pattern, Group(All),
    Fn("mean", <<All>>), Fn("max", <<Fn("mean", <<All>>)>>), Fn("max", <<Some(TagsOnly)>>),
    Fn("count", <<Pattern>>), Fn("mean", <<Var("x"), All>>), Fn("count", <<>>),
    Binary("ADD", Var("x"), Var("s")), Binary("ADD", All, Num(1)),
    Leaf1(Named("distinct", "x")), Fn("count", <<Leaf1(Named("distinct", "x"))>>) }

Columns ==
  { Field(Var("x")), As(Var("s"), "x"), As(Var("s"), "x_1"), Field(Var("x_1")),
    Field(Fn("top", <<Var("x"), Var("host"), Num(1)>>)), Field(Var("time")) }

SubQueries ==
  { Statement(<<Field(Fn("mean", <<All>>)), As(Var("x"), "x")>>, <<Var("host")>>, <<Of("n")>>, <<>>),
    Statement(<<Field(Var("x")), Field(All)>>, <<All>>, <<Of("m")>>, <<>>),
    Statement(<<Field(Var("x")), Field(Var("host"))>>, <<Var("host")>>, <<Of("m")>>, <<>>) }

Sources == {<<Of("m")>>, <<Of("m"), Of("n")>>, <<Of("other")>>} \cup {<<In(s), Of("m")>> : s \in SubQueries}

Dimensions == {<<>>, <<Var("host")>>, <<Every, All>>, <<Pattern>>}

MCStatements ==
  {Statement(<<Field(Var("x"))>>, <<>>, <<Of("m")>>, <<c>>) : c \in Conditions}
  \cup {Statement(<<Field(Var("x"))>>, <<>>, <<Of("m")>>, <<>>)}
  \cup {Statement(<<Field(x)>>, d, s, <<>>) : x \in Exprs, d \in Dimensions, s \in Sources}
  \cup {Statement(<<p, q, r>>, <<>>, <<Of("m")>>, <<>>) : p \in Columns, q \in Columns, r \in Columns}

----------------------------------------------------------------------------
(* What a condition means.                                                 *)

Times == {MinTime, MinTime + 1, MaxTime - 1, MaxTime} \cup 2 .. 7

Envs ==
  {[host |-> Named("string", h), x |-> Lit("int", 2)] : h \in {"", "a", "A", "ab", "bb"}}
  \cup {[host |-> Named("string", "b"), x |-> Lit("int", 1)], [x |-> Lit("int", 2)]}

IsTimeTest(t) ==
  t.kind = "bin" /\ t.op \notin {"AND", "OR"} /\ \E k \in 1 .. 2 : IsTimeRef(t.kids[k])

\* The truth of a condition for a row; without a time, every comparison
\* with the time holds.
RECURSIVE Truth(_, _, _)
Truth(t, time, env) ==
  CASE t.kind = "bin" /\ t.op = "AND" -> Truth(t.kids[1], time, env) /\ Truth(t.kids[2], time, env)
    [] t.kind = "bin" /\ t.op = "OR" -> Truth(t.kids[1], time, env) \/ Truth(t.kids[2], time, env)
    [] t.kind = "paren" -> Truth(t.kids[1], time, env)
    [] IsTimeTest(t) ->
         \/ time = <<>>
         \/ IF IsTimeRef(t.kids[1]) THEN InRelation(t.op, time[1], InstantExpr(t.kids[2], Now)[1])
            ELSE InRelation(Swapped(t.op), time[1], InstantExpr(t.kids[1], Now)[1])
    [] OTHER -> EvalBool(t, env, FALSE)

Holds1(cond, time, env) == cond = <<>> \/ Truth(cond[1], time, env)

\* There is no OR above a comparison with the time.
TimeIsConjunct(cond) ==
  \A t \in UNION {Subtrees(c) : c \in Range(cond)} :
     IsBin(t, "OR") => ~\E x \in Subtrees(t) : IsTimeTest(x)

\* ConditionExpr splits a condition into a range and a condition without
\* the time: together they are satisfied by exactly the rows that satisfied
\* it, as long as no OR stands above a time (ConditionExpr, conditionExpr,
\* getTimeRange).
ConditionMeansTheSame ==
  naming = "returned" /\ TimeIsConjunct(stmt.condition) =>
    \A x \in Range(ConditionExpr(stmt.condition, Now)) :
      \A env \in Envs, t \in Times :
         Holds1(stmt.condition, <<t>>, env) <=> Within(x.range, t) /\ Holds1(x.expr, <<>>, env)

\* Comparisons that rewriteWithoutTimeDimensions finds, and no constant below
\* an OR: the range is joined to the text without parentheses and becomes part
\* of the operand on the right of the OR, so that Reduce makes TRUE OR (x AND
\* time) true, without the range, and x OR (TRUE AND time) to x OR time.
Replaceable(cond) ==
  /\ TimeIsConjunct(cond)
  /\ \A t \in UNION {Subtrees(c) : c \in Range(cond)} :
       /\ IsTimeTest(t) => t.kids[1] = Var("time")
       /\ IsBin(t, "OR") => ~\E x \in Subtrees(t) : IsTrue(x)

\* SetTimeRange, called on any condition that the other methods leave, puts
\* the range it is given, the start in it and the end not, in place of the
\* ranges there are, and the rest of the condition means what it meant,
\* although the condition goes through text on the way and is joined without
\* parentheses.
SetTimeRangeHolds ==
  [][ \A s \in Spans :
        /\ naming = "returned" /\ Replaceable(stmt.condition)
        /\ ConditionExpr(stmt.condition, Now) # <<>> /\ CallSetTimeRange(s)
        => \E x \in Range(ConditionExpr(stmt'.condition, Now)) :
             /\ x.range = [min |-> <<s.start>>, max |-> <<s.end - 1>>]
             /\ \A env \in Envs : Holds1(x.expr, <<>>, env) <=> Holds1(stmt.condition, <<>>, env)
    ]_vars

\* "SetTimeRange sets the start and end time of the select statement to
\* [start, end)" (ast.go), whatever its condition is.
SetsTheTimeRange ==
  [][ \A s \in Spans :
        ConditionExpr(stmt.condition, Now) # <<>> /\ CallSetTimeRange(s) =>
          \A x \in Range(ConditionExpr(stmt'.condition, Now)) :
             x.range = [min |-> <<s.start>>, max |-> <<s.end - 1>>] ]_vars

\* RewriteRegexConditions, Reduce and RewriteFields change no condition's
\* meaning: the same rows satisfy it; and a regular expression becomes at
\* most the comparisons that the limit of matchRegex allows.
RewritingKeepsTheCondition ==
  [][ /\ stmt'.condition # stmt.condition /\ ConditionExpr(stmt.condition, Now) # <<>>
      /\ CallReduce \/ CallRewriteRegexConditions \/ CallRewriteFields
      => LET c == stmt.condition[1]
             d == stmt'.condition[1]
         IN /\ \A env \in Envs, t \in Times : Truth(c, <<t>>, env) <=> Truth(d, <<t>>, env)
            /\ Len(Leaves(d)) <= MaxLiterals * Len(Leaves(c)) ]_vars

----------------------------------------------------------------------------
(* Wildcards.                                                              *)

\* The columns of a statement whose fields are variables, and its dimensions.
Selects(r, P(_)) == {f.expr.leaf.name : f \in {g \in Range(r.fields) : P(g.expr.leaf.v)}}

GroupedBy(r) == {d.leaf.name : d \in {x \in Range(r.dims) : IsVar(x)}}

IsTag(type) == type = Tag
IsField(type) == type # Tag

\* How many columns are the tag x, or the field x.
Columned(r, x, P(_)) ==
  Cardinality({k \in DOMAIN r.fields : r.fields[k].expr.leaf.name = x /\ P(r.fields[k].expr.leaf.v)})

\* What the fields of the sources are called that are fields, or tags of a subquery.
FieldNames(fields, P(_)) == {f.name : f \in {g \in fields : P(g.type)}}

TagsAndDimensions(r, selected) ==
  LET tags == DimensionSet(r.sources)
      twice == selected \cap (tags \ GroupedBy(r))
  IN /\ Selects(r, IsTag) \cap GroupedBy(r) \subseteq selected
     /\ tags \cup selected \subseteq Selects(r, IsTag) \cup GroupedBy(r)
     /\ \A x \in Selects(r, IsTag) : Columned(r, x, IsTag) = IF x \in twice THEN 2 ELSE 1

SelectsAll(r, fields) ==
  /\ Selects(r, IsField) = FieldNames(fields, IsField)
  /\ \A x \in FieldNames(fields, IsField) : Columned(r, x, IsField) = 1
  /\ \/ fields = {} \/ \E d \in Range(stmt.dims) : d.leaf.type = "regex"
     \/ TagsAndDimensions(r, FieldNames(fields, IsTag))

\* RewriteFields changes nothing in what it returned, does not depend
\* on the order of the sources, and SELECT * selects every field of them
\* once, and every tag as a column or as a dimension, and never as both or
\* twice unless a subquery selects the tag: that is a column, and a second one
\* if the subquery groups by it and the statement does not.  Tags are left out
\* under GROUP BY a regular expression.
WildcardsExpand ==
  naming = "returned" =>
    \A r \in Range(RewriteFields(stmt)) :
      /\ RewriteFields(r) = <<r>>
      /\ RewriteFields([stmt EXCEPT !.sources = Reverse(@)]) = <<[r EXCEPT !.sources = Reverse(@)]>>
      /\ stmt.fields = <<Field(All)>> => SelectsAll(r, FieldSet(r.sources))
=============================================================================
