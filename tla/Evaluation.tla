----------------------------- MODULE Evaluation -----------------------------
(***************************************************************************)
(* ValuerEval and Reduce of ast.go.  A value is a literal.  A float is an  *)
(* exact fraction: rounding, NaN and the remainder of floats are left out. *)
(* A time-like string is one named "time", with its instant as a number.   *)
(***************************************************************************)
EXTENDS ExprTree, Bitwise

CONSTANT Matches   \* the pairs of a regular expression and a string it matches

BoolOf(b) == Lit("bool", IF b THEN 1 ELSE 0)

Equality == {"EQ", "NEQ"}
Ordering == {"LT", "LTE", "GT", "GTE"}

Holds(op, a, b) ==
  CASE op = "EQ" -> a = b
    [] op = "NEQ" -> a # b
    [] op = "LT" -> a < b
    [] op = "LTE" -> a <= b
    [] op = "GT" -> a > b
    [] op = "GTE" -> a >= b

\* Division in Go truncates.
Quotient(a, b) ==
  LET abs(x) == IF x < 0 THEN -x ELSE x
      q == abs(a) \div abs(b)
  IN IF (a < 0) = (b < 0) THEN q ELSE -q

Remainder(a, b) == a - b * Quotient(a, b)

Fraction(v, den) == [type |-> "float", name |-> NoName, v |-> v, den |-> den]

AsFloat(x) == [x EXCEPT !.type = "float"]

Truncated(x) == Quotient(x.v, x.den)

----------------------------------------------------------------------------
(* The tables that both functions share: an operator on two floats, on two *)
(* ints and on two unsigned ints, without the cases that differ.           *)

FloatResult(op, l, r) ==
  CASE op \in Equality \cup Ordering -> BoolOf(Holds(op, l.v * r.den, r.v * l.den))
    [] op = "ADD" -> Fraction(l.v * r.den + r.v * l.den, l.den * r.den)
    [] op = "SUB" -> Fraction(l.v * r.den - r.v * l.den, l.den * r.den)
    [] op = "MUL" -> Fraction(l.v * r.v, l.den * r.den)
    [] op = "DIV" -> IF r.v = 0 THEN Fraction(0, 1)
                     ELSE IF r.v < 0 THEN Fraction(-(l.v * r.den), -(l.den * r.v))
                     ELSE Fraction(l.v * r.den, l.den * r.v)
    [] OTHER -> Nil

\* "word" is Wrap or WrapUint.
WordResult(op, type, l, r, word(_)) ==
  CASE op \in Equality \cup Ordering -> BoolOf(Holds(op, l, r))
    [] op = "ADD" -> Lit(type, word(l + r))
    [] op = "SUB" -> Lit(type, word(l - r))
    [] op = "MUL" -> Lit(type, word(l * r))
    [] op = "DIV" -> Lit(type, IF r = 0 THEN 0 ELSE word(Quotient(l, r)))
    [] op = "MOD" -> Lit(type, IF r = 0 THEN 0 ELSE Remainder(l, r))
    [] op = "BITWISE_AND" -> Lit(type, word(WrapUint(l) & WrapUint(r)))
    [] op = "BITWISE_OR" -> Lit(type, word(WrapUint(l) | WrapUint(r)))
    [] op = "BITWISE_XOR" -> Lit(type, word(WrapUint(l) ^^ WrapUint(r)))
    [] OTHER -> Nil

\* One side is unsigned: a negative integer on the other is less than it.
UnsignedResult(op, l, r) ==
  IF op \in Ordering /\ (l.v < 0 \/ r.v < 0)
  THEN BoolOf(Holds(op, l.v, r.v))
  ELSE WordResult(op, "uint", WrapUint(l.v), WrapUint(r.v), WrapUint)

Numeric == {"int", "uint", "float"}

\* An operator on two numbers; "inexact" makes every division a float.
NumberResult(op, l, r, inexact) ==
  CASE "float" \in {l.type, r.type} -> FloatResult(op, AsFloat(l), AsFloat(r))
    [] l.type = "int" /\ r.type = "int" ->
         IF op = "DIV" /\ inexact THEN FloatResult(op, AsFloat(l), AsFloat(r))
         ELSE WordResult(op, "int", l.v, r.v, Wrap)
    [] OTHER -> UnsignedResult(op, l, r)

BoolResult(op, p, q) ==
  CASE op \in {"AND", "BITWISE_AND"} -> BoolOf(p = 1 /\ q = 1)
    [] op \in {"OR", "BITWISE_OR"} -> BoolOf(p = 1 \/ q = 1)
    [] op \in {"NEQ", "BITWISE_XOR"} -> BoolOf(p # q)
    [] op = "EQ" -> BoolOf(p = q)
    [] OTHER -> Nil

----------------------------------------------------------------------------
(* Eval.                                                                   *)

\* What types that do not go together give.
Incomparable(op) == IF op \in Equality \cup Ordering THEN BoolOf(FALSE) ELSE Nil

\* A missing value next to a boolean is false.
Cast(x, other) == IF x.type = "nil" /\ other.type = "bool" THEN BoolOf(FALSE) ELSE x

StringResult(op, l, r) ==
  CASE op \in Equality /\ r.type = "string" -> BoolOf((op = "EQ") = (l = r))
    [] op = "EQREGEX" -> BoolOf(r.type = "regex" /\ <<r.name, l.name>> \in Matches)
    [] op = "NEQREGEX" -> BoolOf(r.type = "regex" /\ <<r.name, l.name>> \notin Matches)
    [] OTHER -> Incomparable(op)

\* evalBinaryExpr.
EvalBinary(op, lhs, rhs, inexact) ==
  LET l == Cast(lhs, rhs)
      r == Cast(rhs, lhs)
      or(x) == IF x = Nil THEN Incomparable(op) ELSE x
  IN CASE l.type = "bool" ->
            IF op \notin {"AND", "OR", "EQ", "NEQ", "BITWISE_AND", "BITWISE_OR", "BITWISE_XOR"}
            THEN Incomparable(op)
            ELSE IF r.type = "bool" THEN BoolResult(op, l.v, r.v) ELSE BoolOf(FALSE)
       [] l.type \in Numeric /\ r.type \in Numeric -> or(NumberResult(op, l, r, inexact))
       [] l.type = "string" -> StringResult(op, l, r)
       [] OTHER -> Incomparable(op)

\* Eval of the tree t; env maps the names that have a value to it.
RECURSIVE Eval(_, _, _)
Eval(t, env, inexact) ==
  CASE t.kind = "bin" ->
         EvalBinary(t.op, Eval(t.kids[1], env, inexact), Eval(t.kids[2], env, inexact), inexact)
    [] t.kind = "paren" -> Eval(t.kids[1], env, inexact)
    [] t.kind = "call" -> Nil
    [] OTHER ->
         CASE t.leaf.type = "var" -> IF t.leaf.name \in DOMAIN env THEN env[t.leaf.name] ELSE Nil
           [] t.leaf.type \in Numeric \cup {"bool", "regex", "string"} -> t.leaf
           [] OTHER -> Nil

EvalBool(t, env, inexact) == Eval(t, env, inexact) = BoolOf(TRUE)

----------------------------------------------------------------------------
(* Reduce: the result of an operator on two literals, or nothing.          *)

Instant(s) == Lit("time", s.v)

TimeLike(x) == x.type = "string" /\ x.name = "time"

\* Times, with what can stand on their right.
TimeLHS(op, l, rhs) ==
  LET r == IF TimeLike(rhs) THEN Instant(rhs) ELSE rhs
  IN CASE r.type \in {"duration", "int"} /\ op = "ADD" -> <<Lit("time", l.v + r.v)>>
       [] r.type \in {"duration", "int"} /\ op = "SUB" -> <<Lit("time", l.v + Wrap(-r.v))>>
       [] r.type = "time" /\ op = "SUB" ->
            <<Lit("duration", IF l.v - r.v > MaxInt THEN MaxInt
                              ELSE IF l.v - r.v < MinInt THEN MinInt ELSE l.v - r.v)>>
       [] r.type = "time" /\ op \in Equality \cup Ordering -> <<BoolOf(Holds(op, l.v, r.v))>>
       [] r.type = "nil" -> <<BoolOf(FALSE)>>
       [] OTHER -> <<>>

\* A divisor that is not zero is cut to an integer, which can be.
DurationLHS(op, l, rhs) ==
  LET r == IF TimeLike(rhs) THEN Instant(rhs) ELSE rhs
  IN CASE r.type = "duration" /\ op \in {"ADD", "SUB"} \cup Equality \cup Ordering ->
            <<WordResult(op, "duration", l.v, r.v, Wrap)>>
       [] r.type = "float" /\ op = "DIV" /\ r.v # 0 /\ Truncated(r) = 0 ->
            <<Named("panic", NoName)>>
       [] r.type \in {"float", "int"} /\ op \in {"MUL", "DIV"} ->
            <<WordResult(op, "duration", l.v, Truncated(r), Wrap)>>
       [] r.type = "time" /\ op = "ADD" -> <<Lit("time", r.v + l.v)>>
       [] r.type = "nil" -> <<BoolOf(FALSE)>>
       [] OTHER -> <<>>

StringLHS(op, l, r) ==
  CASE r.type = "string" /\ op \in Equality ->
         IF TimeLike(l) /\ TimeLike(r) THEN <<BoolOf(Holds(op, l.v, r.v))>>
         ELSE <<BoolOf((op = "EQ") = (l = r))>>
    [] r.type = "string" /\ op = "ADD" -> <<Named("string", l.name \o r.name)>>
    [] r.type = "nil" -> IF op \in Equality THEN <<BoolOf(FALSE)>> ELSE <<>>
    [] r.type = "string" /\ op \notin Equality \cup {"ADD"} ->
         IF TimeLike(l) THEN TimeLHS(op, Instant(l), r) ELSE <<>>
    [] r.type \in {"duration", "time", "int"} ->
         IF TimeLike(l) THEN TimeLHS(op, Instant(l), r) ELSE <<>>
    [] OTHER -> <<>>

\* Numbers: as in Eval, but a quotient of integers is a float, and there
\* are no bits of unsigned integers.
NumberLHS(op, l, r) ==
  LET bits == {"BITWISE_AND", "BITWISE_OR", "BITWISE_XOR"}
      known(x) == IF x = Nil THEN <<>> ELSE <<x>>
  IN IF op \in bits /\ "uint" \in {l.type, r.type} THEN <<>> ELSE known(NumberResult(op, l, r, TRUE))

IntegerLHS(op, l, r) ==
  CASE r.type = "duration" ->
         IF op \in {"ADD", "SUB"} THEN TimeLHS(op, Lit("time", l.v), r) ELSE <<>>
    [] r.type = "time" \/ TimeLike(r) -> DurationLHS(op, Lit("duration", l.v), r)
    [] r.type = "nil" -> <<BoolOf(FALSE)>>
    [] OTHER -> <<>>

LiteralResult(op, l, r) ==
  CASE l.type \in Numeric /\ r.type \in Numeric -> NumberLHS(op, l, r)
    [] l.type = "int" /\ r.type \notin Numeric -> IntegerLHS(op, l, r)
    [] l.type = "float" /\ r.type \notin Numeric -> IF r.type = "nil" THEN <<BoolOf(FALSE)>> ELSE <<>>
    [] l.type = "bool" ->
         CASE r.type = "bool" /\ BoolResult(op, l.v, r.v) # Nil -> <<BoolResult(op, l.v, r.v)>>
           [] r.type = "nil" -> <<BoolOf(FALSE)>>
           [] OTHER -> <<>>
    [] l.type = "duration" -> DurationLHS(op, l, r)
    [] l.type = "time" -> TimeLHS(op, l, r)
    [] l.type = "string" -> StringLHS(op, l, r)
    [] l.type = "nil" -> IF op \in Equality THEN <<BoolOf(FALSE)>> ELSE <<>>
    [] OTHER -> <<>>

Literal(t) == t.kind = "leaf" /\ t.leaf.type \notin {"var", "wildcard", "distinct"}

IsTrue(t)  == t.kind = "leaf" /\ t.leaf = BoolOf(TRUE)
IsFalse(t) == t.kind = "leaf" /\ t.leaf = BoolOf(FALSE)

\* Mutant: true is also the answer of an AND with one true side.
Logic_Absorbed(op, l, r) ==
  CASE op = "AND" /\ (IsFalse(l) \/ IsFalse(r)) -> <<Bool(FALSE)>>
    [] op \in {"AND", "OR"} /\ (IsTrue(l) \/ IsTrue(r)) -> <<Bool(TRUE)>>
    [] OTHER -> <<>>

\* AND and OR with a literal side, whatever the other is.
Logic(op, l, r) ==
  CASE op = "AND" /\ (IsFalse(l) \/ IsFalse(r)) -> <<Bool(FALSE)>>
    [] op = "AND" /\ IsTrue(l) -> <<r>>
    [] op = "AND" /\ IsTrue(r) -> <<l>>
    [] op = "OR" /\ (IsTrue(l) \/ IsTrue(r)) -> <<Bool(TRUE)>>
    [] op = "OR" /\ IsFalse(l) -> <<r>>
    [] op = "OR" /\ IsFalse(r) -> <<l>>
    [] OTHER -> <<>>

\* Operands that stay are left with the type they were brought to.
Converted(l, r) ==
  CASE l.type \in {"int", "uint"} /\ r.type = "float" -> <<AsFloat(l), r>>
    [] l.type = "float" /\ r.type = "uint" -> <<l, AsFloat(r)>>
    [] {l.type, r.type} = {"int", "uint"} ->
         <<Lit("uint", WrapUint(l.v)), Lit("uint", WrapUint(r.v))>>
    [] OTHER -> <<l, r>>

\* reduceBinaryExpr, of operands that are reduced.
ReduceBinary(op, l, r) ==
  LET c == Converted(l.leaf, r.leaf)
      result(x) == IF x # <<>> THEN Leaf1(x[1]) ELSE Binary(op, Leaf1(c[1]), Leaf1(c[2]))
  IN IF Logic(op, l, r) # <<>> THEN Logic(op, l, r)[1]
     ELSE IF ~Literal(l) \/ ~Literal(r) THEN Binary(op, l, r)
     ELSE result(LiteralResult(op, l.leaf, r.leaf))

\* asLiteral: there is no case for unsigned integers.
AsLiteral(v) == IF v.type = "uint" THEN Leaf1(Nil) ELSE Leaf1(v)

\* reduce; env maps names to values, and the name "now" to the instant that
\* the call now() stands for when the valuer can make it.
RECURSIVE Reduced(_, _)
Reduced(t, env) ==
  CASE t.kind = "bin" -> ReduceBinary(t.op, Reduced(t.kids[1], env), Reduced(t.kids[2], env))
    [] t.kind = "paren" ->
         LET x == Reduced(t.kids[1], env) IN IF x.kind = "bin" THEN Group(x) ELSE x
    [] t.kind = "call" ->
         IF t.leaf.name = "now" /\ t.kids = <<>> /\ "now" \in DOMAIN env
         THEN AsLiteral(env["now"])
         ELSE Apply(t.leaf, [k \in DOMAIN t.kids |-> Reduced(t.kids[k], env)])
    [] OTHER ->
         IF t.leaf.type = "var" /\ t.leaf.name \in DOMAIN env THEN AsLiteral(env[t.leaf.name]) ELSE t

\* Without the parentheses around all of it.
Peeled(x) == IF x.kind = "paren" THEN x.kids[1] ELSE x

Reduce(t, env) == Peeled(Reduced(t, env))
=============================================================================
