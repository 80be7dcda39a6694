---------------------------- MODULE CommandTable ----------------------------
(***************************************************************************)
(* What the parse trees of parse_tree.go promise: each tree is a table of  *)
(* the statements it can parse, from the tokens a statement starts with to *)
(* the handler that parses the rest.  No statement's tokens are a prefix   *)
(* of another's, a lookup finds the handler of exactly the tokens it read, *)
(* and a copy is a table of its own.                                       *)
(***************************************************************************)
EXTENDS Naturals, Sequences

CONSTANTS
  Token, Handler,
  Tree,          \* the trees there can be
  Language,      \* the tree there is at the start
  None           \* what a lookup finds when there is no such statement

VARIABLES
  table,         \* of every tree, its entries
  found          \* what the lookup that just returned found

tvars == <<table, found>>

Entry == [path : Seq(Token), handler : Handler]

IsPrefixOf(p, q) == Len(p) <= Len(q) /\ SubSeq(q, 1, Len(p)) = p

TInit == table = [t \in {Language} |-> {}] /\ found = None

Register(t, p, h) ==
  /\ t \in DOMAIN table
  /\ \A e \in table[t] : ~ IsPrefixOf(e.path, p) /\ ~ IsPrefixOf(p, e.path)
  /\ table' = [table EXCEPT ![t] = @ \cup {[path |-> p, handler |-> h]}]
  /\ found' = None

\* The statements of t that start with p become the tree c, without p.
Copy(t, p, c) ==
  /\ t \in DOMAIN table /\ c \notin DOMAIN table
  /\ table' = [d \in DOMAIN table \cup {c} |->
                 IF d # c THEN table[d]
                 ELSE {[path |-> SubSeq(e.path, Len(p) + 1, Len(e.path)),
                        handler |-> e.handler] :
                         e \in {f \in table[t] : IsPrefixOf(p, f.path)}}]
  /\ found' = None

Find(t, p) ==
  /\ t \in DOMAIN table
  /\ found' = IF \E e \in table[t] : e.path = p
                THEN (CHOOSE e \in table[t] : e.path = p).handler
                ELSE None
  /\ UNCHANGED table

\* The caller has taken the result of the lookup.
Take == found' = None /\ UNCHANGED table

\* path bounds the statements looked at.
TNext(path) ==
  \E t \in DOMAIN table, p \in path :
    \/ \E h \in Handler : Register(t, p, h)
    \/ \E c \in Tree : Copy(t, p, c)
    \/ Find(t, p)
    \/ Take
=============================================================================
