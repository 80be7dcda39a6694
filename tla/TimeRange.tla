----------------------------- MODULE TimeRange -----------------------------
(***************************************************************************)
(* TimeRange of ast.go: the inclusive range that comparisons of the time   *)
(* with an instant leave.  A bound that is not set is an empty sequence.   *)
(***************************************************************************)
EXTENDS Literals

MinTime == MinInt + 2
MaxTime == MaxInt - 1

Bound == {<<>>} \cup {<<v>> : v \in Int}

Ranges == [min : Bound, max : Bound]

Everywhere == [min |-> <<>>, max |-> <<>>]

Later(a, b)   == IF b # <<>> /\ (a = <<>> \/ b[1] > a[1]) THEN b ELSE a
Earlier(a, b) == IF b # <<>> /\ (a = <<>> \/ b[1] < a[1]) THEN b ELSE a

Intersect(p, q) == [min |-> Later(p.min, q.min), max |-> Earlier(p.max, q.max)]

MinTimeNano(r) == IF r.min = <<>> THEN MinTime ELSE Wrap(r.min[1])
MaxTimeNano(r) == IF r.max = <<>> THEN MaxTime ELSE Wrap(r.max[1])

Within(r, t) == MinTimeNano(r) <= t /\ t <= MaxTimeNano(r)

\* The instants that a time literal may have.
LiteralTime == (MinTime + 1) .. MaxTime

TimeOp == {"GT", "GTE", "LT", "LTE", "EQ"}

\* The times that stand in the relation op to v.
Compared(op, v) ==
  CASE op = "GT"  -> [Everywhere EXCEPT !.min = <<v + 1>>]
    [] op = "GTE" -> [Everywhere EXCEPT !.min = <<v>>]
    [] op = "LT"  -> [Everywhere EXCEPT !.max = <<v - 1>>]
    [] op = "LTE" -> [Everywhere EXCEPT !.max = <<v>>]
    [] op = "EQ"  -> [min |-> <<v>>, max |-> <<v>>]

\* The operator with its operands exchanged.
Swapped(op) ==
  CASE op = "GT" -> "LT" [] op = "LT" -> "GT" [] op = "GTE" -> "LTE" [] op = "LTE" -> "GTE"
    [] OTHER -> op

InRelation(op, t, v) ==
  CASE op = "GT" -> t > v [] op = "GTE" -> t >= v [] op = "LT" -> t < v [] op = "LTE" -> t <= v
    [] op = "EQ" -> t = v
=============================================================================
