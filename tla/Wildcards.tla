----------------------------- MODULE Wildcards -----------------------------
(***************************************************************************)
(* RewriteFields: the variables of a statement get their types, and its    *)
(* wildcards and regular expressions become the fields and the tags of its *)
(* sources.  A statement is a record; an error is an empty sequence.       *)
(***************************************************************************)
EXTENDS Fields

\* VarRefs.Less.
Before(p, q) ==
  LET place(ref) == SelectInSeq(Alphabetical, LAMBDA x : x = ref.name)
  IN place(p) < place(q) \/ (p.name = q.name /\ p.type < q.type)

Sorted(refs) == SetToSortSeq(refs, Before)

----------------------------------------------------------------------------
(* FieldDimensions.                                                        *)

\* The fields of one source, in the order in which they are met.
SourceFields(s) ==
  IF IsSubquery(s)
  THEN [k \in DOMAIN s.sub[1].fields |->
          [name |-> FieldName(s.sub[1].fields[k]),
           type |-> EvalType(s.sub[1].fields[k].expr, s.sub[1].sources)]]
  ELSE Sorted({[name |-> x, type |-> FieldTypes[s.name][x]] : x \in DOMAIN FieldTypes[s.name]})

SourceTags(s) ==
  IF IsSubquery(s)
  THEN {d.leaf.name : d \in {x \in Range(s.sub[1].dims) : IsVar(x)}}
  ELSE TagKeys[s.name]

Unmapped(s) == ~IsSubquery(s) /\ s.name \notin DOMAIN FieldTypes

\* The type of a field is the highest that a source gives it.
Merged(met) ==
  LET type(x) == FoldLeft(LAMBDA t, f : IF f.name = x THEN Higher(t, f.type) ELSE t, Unknown, met)
  IN {[name |-> f.name, type |-> type(f.name)] : f \in Range(met)}

FieldSet(sources) == Merged(FlattenSeq([k \in DOMAIN sources |-> SourceFields(sources[k])]))

DimensionSet(sources) == UNION {SourceTags(s) : s \in Range(sources)}

----------------------------------------------------------------------------
(* Expansion.                                                              *)

HasFieldWildcard(stmt) ==
  \E f \in Range(stmt.fields) : \E x \in Subtrees(f.expr) : IsMatch(x)

HasDimensionWildcard(stmt) == \E d \in Range(stmt.dims) : IsMatch(d)

\* Mutant: the dimensions of the statement are selected as fields as well.
Ungrouped_All(stmt) == DimensionSet(stmt.sources)

\* The tags that a wildcard stands for: not the dimensions of the statement.
Ungrouped(stmt) ==
  DimensionSet(stmt.sources) \ {d.leaf.name : d \in {x \in Range(stmt.dims) : IsVar(x)}}

\* What field wildcards and what dimension wildcards stand for.  A tag that a
\* subquery selects is a field, and a tag again if it is a dimension there.
WildcardFields(stmt) ==
  LET tags == {[name |-> x, type |-> Tag] : x \in IF HasDimensionWildcard(stmt) THEN {} ELSE Ungrouped(stmt)}
      with(fields) ==
        IF fields = {} THEN <<>> ELSE SortSeq(SetToSeq(fields) \o SetToSeq(tags), Before)
  IN with(FieldSet(stmt.sources))

WildcardTags(stmt) == Sorted({[name |-> x, type |-> Unknown] : x \in DimensionSet(stmt.sources)})

Plain(ref) == [expr |-> Ref(ref.name, ref.type), alias |-> NoName]

Selected(match, ref) ==
  IF match.type = "regex" THEN <<match.name, ref.name>> \in Matches
  ELSE CASE match.v = FieldsOnly -> ref.type # Tag
         [] match.v = TagsOnly -> ref.type = Tag
         [] OTHER -> TRUE

\* The innermost call of nested first arguments, and the tree with another
\* first argument there.
RECURSIVE Innermost(_)
Innermost(t) == IF t.kids # <<>> /\ IsCall(t.kids[1]) THEN Innermost(t.kids[1]) ELSE t

RECURSIVE Filled(_, _)
Filled(t, x) == [t EXCEPT !.kids[1] = IF IsCall(t.kids[1]) THEN Filled(t.kids[1], x) ELSE x]

Supported(name) ==
  LET more == CASE name \in {"count", "first", "last", "distinct", "elapsed", "mode", "sample"} ->
                     {String, Boolean}
                [] name \in {"min", "max"} -> {Boolean}
                [] OTHER -> {}
      less == IF name \in {"holt_winters", "holt_winters_with_fit"} THEN {Unsigned} ELSE {}
  IN ({Float, Integer, Unsigned} \cup more) \ less

\* A field with a call: one field for every name its argument stands for.
CallFields(f, refs) ==
  LET call == Innermost(f.expr)
      arg == call.kids[1]
      fits(ref) == ref.type \in Supported(call.leaf.name) \ {Tag} /\ Selected(arg.leaf, ref)
      named == SelectSeq(refs, fits)
  IN IF call.kids = <<>> \/ ~IsMatch(arg) THEN <<<<f>>>>
     ELSE IF arg.leaf.type = "wildcard" /\ arg.leaf.v = TagsOnly THEN <<>>
     ELSE <<[k \in DOMAIN named |->
               [expr |-> Filled(f.expr, Ref(named[k].name, named[k].type)),
                alias |-> FieldName(f) \o "_" \o named[k].name]]>>

\* The fields that take the place of f, or an error.
FieldsFor(f, refs) ==
  CASE IsMatch(f.expr) ->
         LET named == SelectSeq(refs, LAMBDA ref : Selected(f.expr.leaf, ref))
         IN <<[k \in DOMAIN named |-> Plain(named[k])]>>
    [] IsCall(f.expr) -> CallFields(f, refs)
    [] f.expr.kind = "bin" ->
         IF \E x \in Subtrees(f.expr) : IsMatch(x) THEN <<>> ELSE <<<<f>>>>
    [] OTHER -> <<<<f>>>>

ExpandFields(fields, refs) ==
  LET each == [k \in DOMAIN fields |-> FieldsFor(fields[k], refs)]
  IN IF \E k \in DOMAIN each : each[k] = <<>> THEN <<>>
     ELSE <<FlattenSeq([k \in DOMAIN each |-> each[k][1]])>>

ExpandDimensions(dims, refs) ==
  FlattenSeq([k \in DOMAIN dims |->
    IF ~IsMatch(dims[k]) THEN <<dims[k]>>
    ELSE LET named == SelectSeq(refs, LAMBDA ref : dims[k].leaf.type = "wildcard" \/ Selected(dims[k].leaf, ref))
         IN [j \in DOMAIN named |-> Var(named[j].name)]])

\* A statement whose variables have their types.
TypedStatement(stmt, sources) ==
  [stmt EXCEPT
     !.sources = sources,
     !.fields = [k \in DOMAIN @ |-> [@[k] EXCEPT !.expr = Typed(@, sources)]],
     !.condition = [k \in DOMAIN @ |-> Typed(@[k], sources)]]

\* Such a statement with its wildcards expanded.
Expanded(stmt) ==
  LET fields == IF HasFieldWildcard(stmt) THEN ExpandFields(stmt.fields, WildcardFields(stmt))
                ELSE <<stmt.fields>>
      with(found) ==
        IF found = <<>> THEN <<>>
        ELSE <<[stmt EXCEPT !.fields = found[1], !.dims = ExpandDimensions(@, WildcardTags(stmt))]>>
  IN IF ~HasFieldWildcard(stmt) /\ ~HasDimensionWildcard(stmt) THEN <<stmt>>
     ELSE IF \E s \in Range(stmt.sources) : Unmapped(s) THEN <<>>
     ELSE with(fields)

\* RewriteFields: the subqueries first.
RECURSIVE RewriteFields(_)
RewriteFields(stmt) ==
  LET sub == [k \in DOMAIN stmt.sources |->
                IF IsSubquery(stmt.sources[k]) THEN RewriteFields(stmt.sources[k].sub[1]) ELSE <<stmt>>]
      sources == [k \in DOMAIN sub |->
                    IF IsSubquery(stmt.sources[k]) THEN [stmt.sources[k] EXCEPT !.sub = sub[k]]
                    ELSE stmt.sources[k]]
  IN IF \E k \in DOMAIN sub : sub[k] = <<>> THEN <<>> ELSE Expanded(TypedStatement(stmt, sources))
=============================================================================
