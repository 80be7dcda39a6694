-------------------------- MODULE SelectStatement --------------------------
(***************************************************************************)
(* A SELECT statement and the methods that a program calls on it between   *)
(* parsing and running it, in any order.  Methods that return another      *)
(* statement replace the one in hand.                                      *)
(***************************************************************************)
EXTENDS Conditions, Wildcards, ColumnNames

CONSTANTS
  Statements,   \* the statements that were parsed
  Spans,        \* the ranges for SetTimeRange: a start and an end
  Now           \* the valuer: what now() is

VARIABLE stmt   \* the statement

vars == <<stmt, namingVars>>

Init ==
  /\ stmt \in Statements
  /\ NamingInit

\* A method that is called gives the statement s; methods do not run at the
\* same time.
Call(s) ==
  /\ naming = "returned"
  /\ stmt' = s
  /\ UNCHANGED namingVars

----------------------------------------------------------------------------
(* The condition.                                                          *)

CallSetTimeRange(s) == Call([stmt EXCEPT !.condition = SetTimeRange(@, s.start, s.end)])

CallRewriteRegexConditions == Call([stmt EXCEPT !.condition = RewriteRegexConditions(@)])

\* SelectStatement.Reduce: the condition and the dimensions, and those of
\* the subqueries.
RECURSIVE ReduceStatement(_, _)
ReduceStatement(s, env) ==
  [s EXCEPT
     !.condition = [k \in DOMAIN @ |-> Reduce(@[k], env)],
     !.dims = [k \in DOMAIN @ |-> Reduce(@[k], env)],
     !.sources = [k \in DOMAIN @ |->
                    [@[k] EXCEPT !.sub = [j \in DOMAIN @ |-> ReduceStatement(@[j], env)]]]]

CallReduce == Call(ReduceStatement(stmt, Now))

----------------------------------------------------------------------------
(* The fields.                                                             *)

\* An error leaves the program with the statement it had.
CallRewriteFields == Call(OrElse(RewriteFields(stmt), stmt))

\* RewriteTimeFields: the loop goes on behind the field that takes the place
\* of the one it removed.
RECURSIVE WithoutTimeFields(_, _)
WithoutTimeFields(s, k) ==
  IF k > Len(s.fields) THEN s
  ELSE LET f == s.fields[k]
       IN IF IsVar(f.expr) /\ f.expr.leaf.name = "time"
          THEN WithoutTimeFields([s EXCEPT !.fields = RemoveAt(@, k), !.timeAlias = f.alias], k + 1)
          ELSE WithoutTimeFields(s, k + 1)

CallRewriteTimeFields == Call(WithoutTimeFields(stmt, 1))

\* Distinct.NewCall.
DistinctCall(t) == Apply(Named("nil", "distinct"), <<Ref(t.leaf.name, Unknown)>>)

RECURSIVE WithDistinctCalls(_)
WithDistinctCalls(t) ==
  [t EXCEPT !.kids = [k \in DOMAIN @ |->
     IF IsCall(t) /\ IsLeaf(@[k], "distinct") THEN DistinctCall(@[k]) ELSE WithDistinctCalls(@[k])]]

RewriteDistinct(s) ==
  [s EXCEPT
     !.fields = [k \in DOMAIN @ |->
        [@[k] EXCEPT !.expr = IF IsLeaf(@, "distinct") THEN DistinctCall(@) ELSE WithDistinctCalls(@)]],
     !.raw = @ /\ ~\E f \in Range(s.fields) : IsLeaf(f.expr, "distinct")]

CallRewriteDistinct == Call(RewriteDistinct(stmt))

\* The columns of a field: its own and, for top and bottom, the tags and
\* fields among the arguments, unless the result is written to a target.
ColumnsOf(f, s) ==
  LET refs == IF TopOrBottom(f.expr) /\ ~s.target THEN SelectSeq(Tail(f.expr.kids), IsVar) ELSE <<>>
  IN <<[alias |-> f.alias, name |-> ExprName(f.expr)]>>
     \o [k \in DOMAIN refs |-> [alias |-> NoName, name |-> refs[k].leaf.name]]

CallColumnNames ==
  /\ NameColumns(FlattenSeq([k \in DOMAIN stmt.fields |-> ColumnsOf(stmt.fields[k], stmt)]))
  /\ UNCHANGED stmt

InColumnNames == NamingStep /\ UNCHANGED stmt

----------------------------------------------------------------------------
Next ==
  \/ \E s \in Spans : CallSetTimeRange(s)
  \/ CallRewriteRegexConditions \/ CallReduce
  \/ CallRewriteFields \/ CallRewriteTimeFields \/ CallRewriteDistinct
  \/ CallColumnNames \/ InColumnNames

Spec == Init /\ [][Next]_vars
=============================================================================
