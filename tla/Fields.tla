------------------------------- MODULE Fields -------------------------------
(***************************************************************************)
(* The fields, the dimensions and the sources of a SELECT statement: their *)
(* names and types, and the wildcards RewriteFields replaces.  A source is *)
(* a measurement or a subquery, which is a statement of its own.  The type *)
(* of a variable is the number v of its leaf; that of a wildcard is 0, or  *)
(* one for fields and two for tags only.                                   *)
(***************************************************************************)
EXTENDS Evaluation, DataTypes

CONSTANTS
  FieldTypes,        \* the FieldMapper: the fields of every measurement
  TagKeys,           \* and its tags
  CallType(_, _),    \* the CallTypeMapper
  Alphabetical       \* all names of fields and tags, sorted

FieldsOnly == 1
TagsOnly   == 2

Ref(name, type) == Leaf1([Named("var", name) EXCEPT !.v = type])

IsVar(t)    == IsLeaf(t, "var")
IsMatch(t)  == t.kind = "leaf" /\ t.leaf.type \in {"wildcard", "regex"}
IsCall(t)   == t.kind = "call"
TopOrBottom(t) == IsCall(t) /\ t.leaf.name \in {"top", "bottom"}

IsSubquery(source) == source.sub # <<>>

\* What was found, or something else.
OrElse(found, other) == IF found = <<>> THEN other ELSE found[1]

----------------------------------------------------------------------------
(* Names.                                                                  *)

\* The names of the variables and the calls of an expression.
RECURSIVE NamesOf(_)
NamesOf(t) ==
  CASE IsVar(t) \/ IsCall(t) -> <<t.leaf.name>>
    [] t.kind \in {"bin", "paren"} -> FlattenSeq([k \in DOMAIN t.kids |-> NamesOf(t.kids[k])])
    [] OTHER -> <<>>

JoinNames(ns) ==
  IF ns = <<>> THEN NoName ELSE FoldLeft(LAMBDA x, y : x \o "_" \o y, ns[1], Tail(ns))

RECURSIVE ExprName(_)
ExprName(t) ==
  CASE IsVar(t) \/ IsCall(t) -> t.leaf.name
    [] t.kind = "bin" -> JoinNames(NamesOf(t))
    [] t.kind = "paren" -> ExprName(t.kids[1])
    [] OTHER -> NoName

FieldName(f) == IF f.alias # NoName THEN f.alias ELSE ExprName(f.expr)

\* What the field f has for a name: itself, or an argument of top or bottom.
FieldExpr(f, name) ==
  LET args == f.expr.kids
      found == SelectSeq(SubSeq(args, 2, Len(args) - 1), LAMBDA x : IsVar(x) /\ x.leaf.name = name)
  IN IF FieldName(f) = name THEN <<f.expr>>
     ELSE IF TopOrBottom(f.expr) /\ Len(args) > 2 /\ found # <<>> THEN <<found[1]>>
     ELSE <<>>

FieldExprByName(stmt, name) ==
  LET found == FlattenSeq([k \in DOMAIN stmt.fields |-> FieldExpr(stmt.fields[k], name)])
  IN IF found = <<>> THEN <<>> ELSE <<found[1]>>

----------------------------------------------------------------------------
(* Types.  A type error is an empty sequence.                              *)

Zero(d) ==
  CASE d = Float -> Fraction(0, 1)
    [] d = Integer -> Lit("int", 0)
    [] d = Unsigned -> Lit("uint", 0)
    [] d \in {String, Tag} -> Named("string", NoName)
    [] d = Boolean -> BoolOf(FALSE)
    [] d = Time -> Lit("time", 0)
    [] d = Duration -> Lit("duration", 0)
    [] OTHER -> Nil

InspectDataType(v) ==
  CASE v.type = "float" -> Float
    [] v.type = "int" -> Integer
    [] v.type = "uint" -> Unsigned
    [] v.type = "string" -> String
    [] v.type = "bool" -> Boolean
    [] v.type = "time" -> Time
    [] v.type = "duration" -> Duration
    [] OTHER -> Unknown

MapType(measurement, name) ==
  CASE measurement \notin DOMAIN FieldTypes -> Unknown
    [] measurement \in DOMAIN FieldTypes /\ name \in DOMAIN FieldTypes[measurement] ->
         FieldTypes[measurement][name]
    [] OTHER -> IF name \in TagKeys[measurement] THEN Tag ELSE Unknown

\* An integer that is not a literal does not go with an unsigned.
NeedsCast(l, ltype, r, rtype) ==
  \/ ltype = Unsigned /\ rtype = Integer /\ (Literal(l) \/ ~Literal(r))
  \/ ltype = Integer /\ rtype = Unsigned /\ (Literal(r) \/ ~Literal(l))

BinaryType(op, l, ltype, r, rtype) ==
  LET known(type) == IF type = Unknown THEN <<>> ELSE <<type>>
  IN IF NeedsCast(l, ltype, r, rtype) THEN <<>>
     ELSE IF ltype = Unknown THEN <<rtype>>
     ELSE IF rtype = Unknown THEN <<ltype>>
     ELSE known(InspectDataType(EvalBinary(op, Zero(ltype), Zero(rtype), FALSE)))

RECURSIVE TypeOf(_, _)
RECURSIVE VarType(_, _, _, _)

\* evalVarRefExprType, from the source k on.
VarType(name, sources, k, type) ==
  LET s == sources[k]
      found == FieldExprByName(s.sub[1], name)
      inner == TypeOf(found[1], s.sub[1].sources)
      field == IF found = <<>> THEN type ELSE Higher(type, inner[1])
      grouped == \E j \in DOMAIN s.sub[1].dims : IsVar(s.sub[1].dims[j]) /\ s.sub[1].dims[j].leaf.name = name
  IN IF k > Len(sources) THEN <<type>>
     ELSE IF ~IsSubquery(s) THEN VarType(name, sources, k + 1, Higher(type, MapType(s.name, name)))
     ELSE IF found # <<>> /\ inner = <<>> THEN <<>>
     ELSE VarType(name, sources, k + 1, IF field = Unknown /\ grouped THEN Tag ELSE field)

TypeOf(t, sources) ==
  LET types == [k \in DOMAIN t.kids |-> TypeOf(t.kids[k], sources)]
  IN IF \E k \in DOMAIN types : types[k] = <<>> THEN <<>>
     ELSE CASE IsVar(t) -> IF t.leaf.v \notin {Unknown, AnyField} THEN <<t.leaf.v>>
                           ELSE VarType(t.leaf.name, sources, 1, Unknown)
            [] IsCall(t) -> <<CallType(t.leaf.name, [k \in DOMAIN types |-> types[k][1]])>>
            [] t.kind = "bin" -> BinaryType(t.op, t.kids[1], types[1][1], t.kids[2], types[2][1])
            [] t.kind = "paren" -> types[1]
            [] t.kind = "leaf" /\ ~IsVar(t) ->
                 IF t.leaf.type \in {"float", "int", "uint", "string", "bool"}
                 THEN <<InspectDataType(t.leaf)>> ELSE <<Unknown>>

EvalType(t, sources) == OrElse(TypeOf(t, sources), Unknown)

TypedVar(t, type) == IF type = Tag /\ t.leaf.v = AnyField THEN t ELSE Ref(t.leaf.name, type)

\* The tree with its variables typed.
RECURSIVE Typed(_, _)
Typed(t, sources) ==
  IF IsVar(t) /\ t.leaf.v \in {Unknown, AnyField} THEN TypedVar(t, EvalType(t, sources))
  ELSE [t EXCEPT !.kids = [k \in DOMAIN @ |-> Typed(@[k], sources)]]
=============================================================================
