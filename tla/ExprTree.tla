------------------------------ MODULE ExprTree ------------------------------
(***************************************************************************)
(* Expressions as values: what a heap of nodes stands for, how it is       *)
(* printed, how it is copied and rewritten in place, and conjunctions.     *)
(***************************************************************************)
EXTENDS ExprTokens

CONSTANT
  Spelled   \* the words that a name which needs quotes falls into without them

----------------------------------------------------------------------------
(* Trees.                                                                  *)

Leaf1(leaf)     == [kind |-> "leaf", op |-> "none", leaf |-> leaf, kids |-> <<>>]
Binary(op, l, r) == [kind |-> "bin", op |-> op, leaf |-> Nil, kids |-> <<l, r>>]
Group(x)        == [kind |-> "paren", op |-> "none", leaf |-> Nil, kids |-> <<x>>]
Apply(f, args)  == [kind |-> "call", op |-> "none", leaf |-> f, kids |-> args]

Var(x)  == Leaf1(Named("var", x))
Bool(b) == Leaf1(Lit("bool", IF b THEN 1 ELSE 0))

IsBin(t, op) == t.kind = "bin" /\ t.op = op
IsLeaf(t, type) == t.kind = "leaf" /\ t.leaf.type = type

\* The tree below a node of a heap.
RECURSIVE TreeOf(_, _)
TreeOf(heap, i) ==
  IF i = 0 THEN Leaf1(Nil) ELSE
  LET n == heap[i]
  IN CASE n.kind = "leaf" -> Leaf1(n.leaf)
       [] n.kind = "bin" -> Binary(n.op, TreeOf(heap, n.lhs), TreeOf(heap, n.rhs))
       [] n.kind = "paren" -> Group(TreeOf(heap, n.rhs))
       [] n.kind = "call" -> Apply(n.leaf, [k \in DOMAIN n.args |-> TreeOf(heap, n.args[k])])

\* All subtrees.
RECURSIVE Subtrees(_)
Subtrees(t) == {t} \cup UNION {Subtrees(t.kids[k]) : k \in DOMAIN t.kids}

\* The leaves from left to right.
RECURSIVE Leaves(_)
Leaves(t) ==
  IF t.kind = "leaf" THEN <<t.leaf>> ELSE FlattenSeq([k \in DOMAIN t.kids |-> Leaves(t.kids[k])])

----------------------------------------------------------------------------
(* Printing: the tokens of String.  The name of a variable gets the quotes *)
(* that it needs, so that it is one token again.  The names of a call and  *)
(* of DISTINCT do not: such a name falls into words, of which DISTINCT has *)
(* the first one and the parenthesis of the call the last one.             *)

PrintedBare(name) == IF name \in DOMAIN Spelled THEN Spelled[name] ELSE <<name>>

Identifiers(words) == [k \in DOMAIN words |-> TL("IDENT", Named("var", words[k]))]

DistinctTokens(name) ==
  LET words == PrintedBare(name)
  IN <<TL("DISTINCT", Named("distinct", words[1]))>> \o Identifiers(Tail(words))

CallTokens(name) ==
  LET words == PrintedBare(name)
  IN Append(Identifiers(Front(words)), TL("CALL", Named("nil", Last(words))))

\* A magnitude behind the sign it is printed with.
Signed1(v, toks) == IF v < 0 THEN <<T("SUB")>> \o toks ELSE toks

\* Mutant: whole floats are printed without a decimal point.
FloatToken_Plain(abs) ==
  IF abs.v % abs.den = 0 THEN TL("INTEGER", Lit("int", abs.v \div abs.den)) ELSE TL("NUMBER", abs)

\* A float is printed with a decimal point, a whole one too.
FloatToken(abs) == TL("NUMBER", abs)

LeafTokens(leaf) ==
  LET abs == [leaf EXCEPT !.v = IF @ < 0 THEN -@ ELSE @]
  IN CASE leaf.type \in {"int", "uint"} -> Signed1(leaf.v, <<TL("INTEGER", [abs EXCEPT !.type = "int"])>>)
       [] leaf.type = "float" -> Signed1(leaf.v, <<FloatToken(abs)>>)
       [] leaf.type = "duration" ->
            LET n == FormatNumber(leaf.v)
            IN Signed1(n, <<[tok |-> "DURATIONVAL", leaf |-> Nil,
                             parts |-> <<[n |-> IF n < 0 THEN -n ELSE n,
                                          unit |-> FormatUnit(leaf.v)]>>]>>)
       [] leaf.type = "bool" -> <<TL(IF leaf.v = 1 THEN "TRUE" ELSE "FALSE", leaf)>>
       [] leaf.type = "string" -> <<TL("STRING", leaf)>>
       [] leaf.type = "time" -> <<TL("STRING", [leaf EXCEPT !.type = "string", !.name = "time"])>>
       [] leaf.type = "regex" -> <<TL("REGEX", leaf)>>
       [] leaf.type = "distinct" -> DistinctTokens(leaf.name)
       [] leaf.type = "wildcard" -> <<T("MUL")>>
       [] OTHER -> <<TL("IDENT", leaf)>>

RECURSIVE Tokens(_)
Tokens(t) ==
  CASE t.kind = "leaf" -> LeafTokens(t.leaf)
    [] t.kind = "bin" -> Tokens(t.kids[1]) \o <<T(t.op)>> \o Tokens(t.kids[2])
    [] t.kind = "paren" -> <<T("LPAREN")>> \o Tokens(t.kids[1]) \o <<T("RPAREN")>>
    [] t.kind = "call" ->
         CallTokens(t.leaf.name)
         \o FlattenSeq([k \in DOMAIN t.kids |->
              (IF k = 1 THEN <<>> ELSE <<T("COMMA")>>) \o Tokens(t.kids[k])])
         \o <<T("RPAREN")>>

----------------------------------------------------------------------------
(* Copying and rewriting, on a heap.                                       *)

\* Mutant: only the topmost node is copied.
Clone_Shallow(heap, i) == [heap |-> Append(heap, heap[i]), id |-> Len(heap) + 1]

\* CloneExpr: the heap with a copy of the tree below i, and its root.
RECURSIVE Clone(_, _)
RECURSIVE CloneArgs(_, _)

CloneArgs(heap, args) ==
  IF args = <<>> THEN [heap |-> heap, ids |-> <<>>]
  ELSE LET first == Clone(heap, Head(args))
           rest == CloneArgs(first.heap, Tail(args))
       IN [heap |-> rest.heap, ids |-> <<first.id>> \o rest.ids]

Clone(heap, i) ==
  LET n == heap[i]
      kids == CASE n.kind = "bin" -> <<n.lhs, n.rhs>>
                [] n.kind = "paren" -> <<n.rhs>>
                [] OTHER -> n.args
      c == CloneArgs(heap, kids)
      copy == CASE n.kind = "bin" -> [n EXCEPT !.lhs = c.ids[1], !.rhs = c.ids[2]]
                [] n.kind = "paren" -> [n EXCEPT !.rhs = c.ids[1]]
                [] OTHER -> [n EXCEPT !.args = c.ids]
  IN [heap |-> Append(c.heap, copy), id |-> Len(c.heap) + 1]

\* RewriteExpr(expr, fn), where fn returns nil for the leaves of the set
\* "drop" and another leaf for those that "change" is defined on.  Node 0 is
\* nil.  An operator with one operand left becomes that operand, to which fn
\* is applied once more.
Rewritten(heap, i, drop, change) ==
  LET leaf == IF i = 0 THEN Nil ELSE heap[i].leaf
  IN CASE i = 0 \/ heap[i].kind # "leaf" -> [heap |-> heap, id |-> i]
       [] leaf \in drop -> [heap |-> heap, id |-> 0]
       [] leaf \in DOMAIN change -> [heap |-> [heap EXCEPT ![i].leaf = change[leaf]], id |-> i]
       [] OTHER -> [heap |-> heap, id |-> i]

RECURSIVE RewriteExpr(_, _, _, _)
RECURSIVE RewriteArgs(_, _, _, _, _)

RewriteArgs(heap, i, k, drop, change) ==
  IF k > Len(heap[i].args) THEN heap
  ELSE LET r == RewriteExpr(heap, heap[i].args[k], drop, change)
       IN RewriteArgs([r.heap EXCEPT ![i].args[k] = r.id], i, k + 1, drop, change)

RewriteExpr(heap, i, drop, change) ==
  LET n == heap[i]
  IN CASE n.kind = "leaf" -> Rewritten(heap, i, drop, change)
       [] n.kind = "bin" ->
            LET l == RewriteExpr(heap, n.lhs, drop, change)
                r == RewriteExpr([l.heap EXCEPT ![i].lhs = l.id], n.rhs, drop, change)
                h == [r.heap EXCEPT ![i].rhs = r.id]
            IN IF l.id # 0 /\ r.id # 0 THEN [heap |-> h, id |-> i]
               ELSE Rewritten(h, IF l.id # 0 THEN l.id ELSE r.id, drop, change)
       [] n.kind = "paren" ->
            LET x == RewriteExpr(heap, n.rhs, drop, change)
            IN [heap |-> [x.heap EXCEPT ![i].rhs = x.id], id |-> IF x.id = 0 THEN 0 ELSE i]
       [] n.kind = "call" -> [heap |-> RewriteArgs(heap, i, 1, drop, change), id |-> i]

----------------------------------------------------------------------------
(* Conjunctions (utils.go).                                                *)

\* Mutant: an OR is split like an AND.
RECURSIVE Conjuncts_AlsoOr(_)
Conjuncts_AlsoOr(t) ==
  IF t.kind = "bin" /\ t.op \in {"AND", "OR"}
  THEN Conjuncts_AlsoOr(t.kids[1]) \o Conjuncts_AlsoOr(t.kids[2])
  ELSE IF t.kind = "paren" THEN Conjuncts_AlsoOr(t.kids[1])
  ELSE <<t>>

\* ConjunctionsToExprSlice: parentheses around a conjunct are left out.
RECURSIVE Conjuncts(_)
Conjuncts(t) ==
  IF IsBin(t, "AND") THEN Conjuncts(t.kids[1]) \o Conjuncts(t.kids[2])
  ELSE IF t.kind = "paren" THEN Conjuncts(t.kids[1])
  ELSE <<t>>

\* ExprsToConjunction of at least one expression.
Conjunction(ts) == FoldLeft(LAMBDA l, r : Binary("AND", l, r), ts[1], Tail(ts))

\* PartitionExpr: the conjuncts that pass and the ones that fail.
Partition(t, passes(_)) ==
  [pass |-> SelectSeq(Conjuncts(t), passes),
   fail |-> SelectSeq(Conjuncts(t), LAMBDA c : ~passes(c))]
=============================================================================
