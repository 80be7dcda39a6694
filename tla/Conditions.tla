----------------------------- MODULE Conditions -----------------------------
(***************************************************************************)
(* Conditions of a SELECT statement: the time range ConditionExpr takes    *)
(* out of one, the range SetTimeRange puts into one, and the regular       *)
(* expressions RewriteRegexConditions turns into comparisons.  A condition *)
(* that may be nil is a sequence of at most one tree.                      *)
(***************************************************************************)
EXTENDS Evaluation, ExprReference, TimeRange

CONSTANTS
  Syntax,       \* regexp/syntax: what every regular expression is parsed to
  MaxLiterals   \* maxLiterals of matchRegex

\* What op makes of a value, when there is one.
Given(found, op(_)) == [k \in DOMAIN found |-> op(found[k])]

----------------------------------------------------------------------------
(* ConditionExpr.  An error is an empty sequence.                          *)

AnyCaseTime == {"time", "Time"}

IsTimeRef(t) == IsLeaf(t, "var") /\ t.leaf.name \in AnyCaseTime

\* The instant that a literal stands for next to the time.
InstantOf(lit) ==
  CASE lit.type = "time" -> IF lit.v \in LiteralTime THEN <<lit.v>> ELSE <<>>
    [] lit.type \in {"duration", "int"} -> <<lit.v>>
    [] lit.type = "float" -> <<Truncated(lit)>>
    [] OTHER -> <<>>

\* What the other side of a comparison with the time comes to.
InstantExpr(t, env) ==
  LET instant(x) == IF x.kind = "leaf" THEN InstantOf(x.leaf) ELSE <<>>
  IN instant(Reduce(IF t.kind = "leaf" /\ TimeLike(t.leaf) THEN Leaf1(Instant(t.leaf)) ELSE t, env))

\* getTimeRange.
GetTimeRange(op, t, env) ==
  LET compared(instant) == [expr |-> <<>>, range |-> Compared(op, instant)]
  IN IF op \notin TimeOp THEN <<>> ELSE Given(InstantExpr(t, env), compared)

\* Mutant: a side that is only a time range makes the other side vanish.
Joined_Either(op, l, r) ==
  [expr |-> IF l.expr = <<>> \/ r.expr = <<>> THEN <<>>
            ELSE <<Reduced(Binary(op, l.expr[1], r.expr[1]), <<>>)>>,
   range |-> Intersect(l.range, r.range)]

\* Both sides of an AND or an OR; the ranges are intersected for both.
Joined(op, l, r) ==
  [expr |-> IF l.expr = <<>> \/ r.expr = <<>> THEN l.expr \o r.expr
            ELSE <<Reduced(Binary(op, l.expr[1], r.expr[1]), <<>>)>>,
   range |-> Intersect(l.range, r.range)]

\* conditionExpr.
RECURSIVE Extract(_, _)
Extract(t, env) ==
  CASE t.kind = "bin" /\ t.op \in {"AND", "OR"} ->
         LET l == Extract(t.kids[1], env)
             r == Extract(t.kids[2], env)
         IN IF l = <<>> \/ r = <<>> THEN <<>> ELSE <<Joined(t.op, l[1], r[1])>>
    [] t.kind = "bin" /\ t.op \notin {"AND", "OR"} ->
         IF IsTimeRef(t.kids[1]) THEN GetTimeRange(t.op, t.kids[2], env)
         ELSE IF IsTimeRef(t.kids[2]) THEN GetTimeRange(Swapped(t.op), t.kids[1], env)
         ELSE <<[expr |-> <<Reduced(t, env)>>, range |-> Everywhere]>>
    [] t.kind = "paren" ->
         LET x == Extract(t.kids[1], env)
         IN IF x = <<>> \/ x[1].expr = <<>> THEN x
            ELSE <<[x[1] EXCEPT !.expr = <<Reduced(Group(@[1]), <<>>)>>]>>
    [] IsLeaf(t, "bool") -> <<[expr |-> <<t>>, range |-> Everywhere]>>
    [] OTHER -> <<>>

\* Without the parentheses around all of it; a condition that is true is nil.
Stripped(exprs) ==
  IF exprs # <<>> /\ IsTrue(Peeled(exprs[1])) THEN <<>> ELSE Given(exprs, Peeled)

ConditionExpr(cond, env) ==
  IF cond = <<>> THEN <<[expr |-> <<>>, range |-> Everywhere]>>
  ELSE Given(Extract(cond[1], env), LAMBDA x : [x EXCEPT !.expr = Stripped(@)])

----------------------------------------------------------------------------
(* SetTimeRange.                                                           *)

\* rewriteWithoutTimeDimensions, which changes the tree in place.
RECURSIVE WithoutTime(_)
WithoutTime(t) ==
  CASE t.kind = "bin" ->
         IF t.kids[1] = Var("time") THEN Bool(TRUE)
         ELSE Binary(t.op, WithoutTime(t.kids[1]), WithoutTime(t.kids[2]))
    [] t.kind = "paren" -> Group(WithoutTime(t.kids[1]))
    [] t.kind = "call" -> Bool(TRUE)
    [] OTHER -> t

\* What is left in the statement of a tree that was changed in place, where
\* the topmost node is not replaced.
LeftInPlace(t) ==
  CASE t.kind = "bin" -> Binary(t.op, WithoutTime(t.kids[1]), WithoutTime(t.kids[2]))
    [] t.kind = "call" -> Apply(t.leaf, [k \in DOMAIN t.kids |-> WithoutTime(t.kids[k])])
    [] OTHER -> WithoutTime(t)

Moment(v) == TL("STRING", [Named("string", "time") EXCEPT !.v = v])

TimeText == TL("IDENT", Named("var", "time"))

\* Mutant: the end is part of the range.
RangeText_Closed(start, end) ==
  <<TimeText, T("GTE"), Moment(start), T("AND"), TimeText, T("LTE"), Moment(end)>>

RangeText(start, end) ==
  <<TimeText, T("GTE"), Moment(start), T("AND"), TimeText, T("LT"), Moment(end)>>

\* The text of the new condition; there are no parentheses around the old.
ConditionText(cond, start, end) ==
  (IF cond = <<>> THEN <<>> ELSE Tokens(WithoutTime(cond[1])) \o <<T("AND")>>)
  \o RangeText(start, end)

SetTimeRange(cond, start, end) ==
  LET parsed == Meaning(FirstExpression(ConditionText(cond, start, end)))
  IN IF parsed # <<>> THEN <<Reduce(parsed[1], <<>>)>>
     ELSE IF cond = <<>> THEN <<>> ELSE <<LeftInPlace(cond[1])>>

----------------------------------------------------------------------------
(* RewriteRegexConditions.  A node of a regular expression has an          *)
(* operator, whether it ignores the case, the texts of a literal or of a   *)
(* character class, and its subexpressions.                                *)

Begin == {"beginline", "begintext"}
End   == {"endline", "endtext"}

\* Every name followed by every value.
Crossed(names, vals) ==
  LET n == Len(names) * Len(vals)
  IN IF Len(vals) # 1 /\ Len(names) # 1 /\ n > MaxLiterals THEN <<>>
     ELSE <<[k \in 1 .. n |->
              names[((k - 1) \div Len(vals)) + 1] \o vals[((k - 1) % Len(vals)) + 1]]>>

\* matchRegex: the list of the texts that are matched, or nothing.
RECURSIVE MatchRegex(_)
MatchRegex(re) ==
  LET subs == [k \in DOMAIN re.sub |-> MatchRegex(re.sub[k])]
      limited(vals) == IF Len(vals) > MaxLiterals THEN <<>> ELSE <<vals>>
  IN IF re.fold THEN <<>>
     ELSE CASE re.op = "literal" -> <<re.vals>>
            [] re.op = "class" -> limited(re.vals)
            [] re.op = "capture" -> subs[1]
            [] re.op = "concat" ->
                 FoldLeft(LAMBDA names, vals :
                            IF names = <<>> \/ vals = <<>> THEN <<>> ELSE Crossed(names[1], vals[1]),
                          subs[1], Tail(subs))
            [] re.op = "alternate" ->
                 IF \E k \in DOMAIN subs : subs[k] = <<>> THEN <<>>
                 ELSE limited(FlattenSeq([k \in DOMAIN subs |-> subs[k][1]]))
            [] OTHER -> <<>>

Anchored(re) ==
  /\ re.op = "concat" /\ Len(re.sub) >= 2
  /\ re.sub[1].op \in Begin
  /\ Last(re.sub).op \in End

\* matchExactRegex.
MatchExactRegex(re) ==
  IF ~Anchored(re) THEN <<>>
  ELSE IF Len(re.sub) = 2 THEN << <<>> >>
  ELSE MatchRegex([re EXCEPT !.sub = SubSeq(@, 2, Len(@) - 1)])

\* Mutant: several values are alternatives for !~ too.
Comparisons_Or(op, l, vals) ==
  LET compare(v) == Binary(IF op = "EQREGEX" THEN "EQ" ELSE "NEQ", l, Leaf1(Named("string", v)))
      all == FoldLeft(LAMBDA x, v : Binary("OR", x, compare(v)), compare(vals[1]), Tail(vals))
  IN IF vals = <<>> THEN compare("") ELSE IF Len(vals) = 1 THEN all ELSE Group(all)

\* The comparisons of l with the values.
Comparisons(op, l, vals) ==
  LET compare(v) == Binary(IF op = "EQREGEX" THEN "EQ" ELSE "NEQ", l, Leaf1(Named("string", v)))
      join == IF op = "EQREGEX" THEN "OR" ELSE "AND"
      all == FoldLeft(LAMBDA x, v : Binary(join, x, compare(v)), compare(vals[1]), Tail(vals))
  IN IF vals = <<>> THEN compare("") ELSE IF Len(vals) = 1 THEN all ELSE Group(all)

RECURSIVE WithoutRegex(_)
WithoutRegex(t) ==
  LET kids == [k \in DOMAIN t.kids |-> WithoutRegex(t.kids[k])]
      vals == MatchExactRegex(Syntax[kids[2].leaf.name])
  IN IF t.kind = "bin" /\ t.op \in RegexOp
     THEN IF vals = <<>> THEN Binary(t.op, kids[1], kids[2]) ELSE Comparisons(t.op, kids[1], vals[1])
     ELSE [t EXCEPT !.kids = kids]

RewriteRegexConditions(cond) == Given(cond, LAMBDA t : Peeled(WithoutRegex(t)))
=============================================================================
