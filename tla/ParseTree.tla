----------------------------- MODULE ParseTree ------------------------------
(***************************************************************************)
(* The parse trees of parse_tree.go: nodes that map a token to a subtree   *)
(* (Tokens) or to the handler of a statement (Handlers), and list in Keys  *)
(* the tokens added, for error messages.  Programs build them with Group   *)
(* and Handle, copy them with Clone, and parse statements with Parse.      *)
(*                                                                         *)
(* A step is one iteration of Group's or Parse's loop, one call of Handle, *)
(* or one node of Clone's recursion: the program is sequential, and pc is  *)
(* the method it is in.  The heap is never collected.                      *)
(***************************************************************************)
EXTENDS Naturals, Sequences, FiniteSets

CONSTANTS
  Token, Handler,
  None,          \* no statement was found
  MaxNodes,      \* a bound on the nodes allocated
  MaxPath,       \* a bound on the tokens of one call of Group
  MaxHandled     \* Handle is called while there are fewer handlers

ASSUME BoundAssumption == MaxNodes \in Nat \ {0} /\ MaxPath \in Nat
                             /\ MaxHandled \in Nat /\ None \notin Handler

VARIABLES
  heap,          \* the nodes allocated
  held,          \* the nodes the program has a reference to
  trees,         \* the roots: Language, and what Clone has returned
  pc,            \* the method running
  at,            \* its t, or the root of the clone being made
  rest,          \* the tokens Group still has to look at
  todo,          \* <<node, its copy, token>>: the subtrees Clone has to copy
  read,          \* the tokens Parse has consumed
  start,         \* the node Parse was called on
  out            \* what the Parse that just returned gave its caller

vars == <<heap, held, trees, pc, at, rest, todo, read, start, out>>

----------------------------------------------------------------------------
(* Nodes.  root and path say where a node was put: in which tree, and under *)
(* which tokens: the code has no such fields, and only the properties and    *)
(* the bound of Clone read them.                                            *)

Language == 1

(* A map without a value for a token gives nil, which is Nil or None here.  *)

Nil == 0

Node ==
  [root : Nat, path : Seq(Token), handlers : [Token -> Handler \cup {None}],
   tokens : [Token -> Nat], keys : Seq(Token)]

NewNode(r, p) ==
  [root |-> r, path |-> p, handlers |-> [tok \in Token |-> None],
   tokens |-> [tok \in Token |-> Nil], keys |-> <<>>]

Fresh == Len(heap) + 1

Grouped(n) == {tok \in Token : heap[n].tokens[tok] # Nil}

Handled(n) == {tok \in Token : heap[n].handlers[tok] # None}

Handlers ==
  {place \in (DOMAIN heap) \X Token : heap[place[1]].handlers[place[2]] # None}

Valid(n) == Grouped(n) \cup Handled(n)

----------------------------------------------------------------------------
(* Group                                                                   *)

\* A method returns: its local variables are gone.
Return(p) ==
  /\ pc' = p /\ at' = Language /\ start' = Language
  /\ rest' = <<>> /\ todo' = {}

\* A method is called: the result of the last Parse has been taken.
NoResult == [kind |-> "none"]

Called == out' = NoResult /\ read' = <<>>

CallGroup(t, toks) ==
  /\ pc = "idle" /\ t \in held /\ Len(heap) + Len(toks) <= MaxNodes
  /\ pc' = "group" /\ at' = t /\ rest' = toks /\ Called
  /\ UNCHANGED <<heap, held, trees, todo, start>>

\* Mutant: the tree stays where it is when the token has a subtree.
GroupDescend_Stays ==
  /\ pc = "group" /\ rest # <<>>
  /\ Head(rest) \in Grouped(at)
  /\ UNCHANGED vars

\* Mutant: a token that has a subtree leads to a new node all the same.
GroupDescend_Replaces ==
  /\ pc = "group" /\ rest # <<>>
  /\ Head(rest) \in Grouped(at)
  /\ heap' = Append([heap EXCEPT ![at].tokens[Head(rest)] = Fresh],
                    NewNode(heap[at].root, Append(heap[at].path, Head(rest))))
  /\ at' = Fresh /\ rest' = Tail(rest)
  /\ UNCHANGED <<held, trees, pc, todo, read, start, out>>

\* The token has a subtree: it is used.
GroupDescend ==
  /\ pc = "group" /\ rest # <<>>
  /\ Head(rest) \in Grouped(at)
  /\ at' = heap[at].tokens[Head(rest)] /\ rest' = Tail(rest)
  /\ UNCHANGED <<heap, held, trees, pc, todo, read, start, out>>

\* The token has a handler: what was grouped before it stays.
GroupConflict ==
  /\ pc = "group" /\ rest # <<>>
  /\ Head(rest) \notin Grouped(at)
  /\ Head(rest) \in Handled(at)
  /\ Return("panic")
  /\ UNCHANGED <<heap, held, trees, read, out>>

\* Mutant: Group does not look for a handler of the token.
GroupNew_NoConflict ==
  /\ pc = "group" /\ rest # <<>>
  /\ Head(rest) \notin Grouped(at)
  /\ LET tok == Head(rest) IN
     heap' = Append([heap EXCEPT ![at].tokens[tok] = Fresh,
                                 ![at].keys = Append(@, tok)],
                    NewNode(heap[at].root, Append(heap[at].path, tok)))
  /\ at' = Fresh /\ rest' = Tail(rest)
  /\ UNCHANGED <<held, trees, pc, todo, read, start, out>>

GroupNew ==
  /\ pc = "group" /\ rest # <<>>
  /\ Head(rest) \notin Valid(at)
  /\ LET tok == Head(rest) IN
     heap' = Append([heap EXCEPT ![at].tokens[tok] = Fresh,
                                 ![at].keys = Append(@, tok)],
                    NewNode(heap[at].root, Append(heap[at].path, tok)))
  /\ at' = Fresh /\ rest' = Tail(rest)
  /\ UNCHANGED <<held, trees, pc, todo, read, start, out>>

GroupReturn ==
  /\ pc = "group" /\ rest = <<>>
  /\ held' = held \cup {at} /\ Return("idle")
  /\ UNCHANGED <<heap, trees, read, out>>

----------------------------------------------------------------------------
(* Handle                                                                  *)

\* Mutant: a handler is registered again for the token it had.
Handle_Again(t, tok, h) ==
  /\ pc = "idle" /\ t \in held /\ Cardinality(Handlers) < MaxHandled
  /\ IF tok \in Grouped(t)
       THEN pc' = "panic" /\ UNCHANGED heap
       ELSE /\ heap' = [heap EXCEPT ![t].handlers[tok] = h,
                                    ![t].keys = Append(@, tok)]
            /\ UNCHANGED pc
  /\ Called
  /\ UNCHANGED <<held, trees, at, rest, todo, start>>

Handle(t, tok, h) ==
  /\ pc = "idle" /\ t \in held /\ Cardinality(Handlers) < MaxHandled
  /\ IF tok \in Valid(t)
       THEN pc' = "panic" /\ UNCHANGED heap
       ELSE /\ heap' = [heap EXCEPT ![t].handlers[tok] = h,
                                    ![t].keys = Append(@, tok)]
            /\ UNCHANGED pc
  /\ Called
  /\ UNCHANGED <<held, trees, at, rest, todo, start>>

\* The program recovers from a conflict, or ends.
Recover ==
  /\ pc = "panic" /\ pc' = "idle"
  /\ UNCHANGED <<heap, held, trees, at, rest, todo, read, start, out>>

----------------------------------------------------------------------------
(* Clone                                                                   *)

\* The copy of a node before its subtrees are copied: Keys stays empty.
CopyOf(n, r, p) ==
  [root |-> r, path |-> p, handlers |-> heap[n].handlers,
   tokens |-> [tok \in Token |-> Nil], keys |-> <<>>]

Subtrees(n, copy) == {<<n, copy, tok>> : tok \in Grouped(n)}

\* The nodes below n, n included.
Below(n) ==
  {m \in DOMAIN heap :
     /\ heap[m].root = heap[n].root
     /\ Len(heap[n].path) <= Len(heap[m].path)
     /\ SubSeq(heap[m].path, 1, Len(heap[n].path)) = heap[n].path}

CallClone(t) ==
  /\ pc = "idle" /\ t \in held
  /\ Len(heap) + Cardinality(Below(t)) <= MaxNodes
  /\ heap' = Append(heap, CopyOf(t, Fresh, <<>>))
  /\ pc' = "clone" /\ at' = Fresh /\ start' = t /\ todo' = Subtrees(t, Fresh)
  /\ Called /\ UNCHANGED <<held, trees, rest>>

\* Mutant: a clone shares the subtrees of the original.
CloneSubtree_Shares ==
  /\ pc = "clone"
  /\ \E w \in todo :
       /\ heap' = [heap EXCEPT ![w[2]].tokens[w[3]] = heap[w[1]].tokens[w[3]]]
       /\ todo' = todo \ {w}
  /\ UNCHANGED <<held, trees, pc, at, rest, read, start, out>>

\* Mutant: the handlers of the subtrees are not copied.
CloneSubtree_Bare ==
  /\ pc = "clone"
  /\ \E w \in todo :
       LET child == heap[w[1]].tokens[w[3]] IN
       /\ heap' = Append([heap EXCEPT ![w[2]].tokens[w[3]] = Fresh],
                         NewNode(at, Append(heap[w[2]].path, w[3])))
       /\ todo' = (todo \ {w}) \cup Subtrees(child, Fresh)
  /\ UNCHANGED <<held, trees, pc, at, rest, read, start, out>>

\* One subtree is copied, in the order of a map: any.
CloneSubtree ==
  /\ pc = "clone"
  /\ \E w \in todo :
       LET copy  == w[2]
           tok   == w[3]
           child == heap[w[1]].tokens[tok]
       IN  /\ heap' = Append([heap EXCEPT ![copy].tokens[tok] = Fresh],
                             CopyOf(child, at, Append(heap[copy].path, tok)))
           /\ todo' = (todo \ {w}) \cup Subtrees(child, Fresh)
  /\ UNCHANGED <<held, trees, pc, at, rest, read, start, out>>

CloneReturn ==
  /\ pc = "clone" /\ todo = {}
  /\ held' = held \cup {at} /\ trees' = trees \cup {at} /\ Return("idle")
  /\ UNCHANGED <<heap, read, out>>

----------------------------------------------------------------------------
(* Parse: the next token of the statement is any token.                    *)

CallParse(t) ==
  /\ pc = "idle" /\ t \in held
  /\ pc' = "parse" /\ at' = t /\ start' = t /\ Called
  /\ UNCHANGED <<heap, held, trees, rest, todo>>

\* Mutant: Parse follows a subtree that may be nil.
ParseDescend_Nil(tok) ==
  /\ pc = "parse"
  /\ at' = heap[at].tokens[tok] /\ read' = Append(read, tok)
  /\ UNCHANGED <<heap, held, trees, pc, rest, todo, start, out>>

ParseDescend(tok) ==
  /\ pc = "parse" /\ tok \in Grouped(at)
  /\ at' = heap[at].tokens[tok] /\ read' = Append(read, tok)
  /\ UNCHANGED <<heap, held, trees, pc, rest, todo, start, out>>

ParseHandler(tok) ==
  /\ pc = "parse" /\ tok \in Handled(at) \ Grouped(at)
  /\ read' = Append(read, tok)
  /\ out' = [kind |-> "handler", handler |-> heap[at].handlers[tok]]
  /\ Return("idle") /\ UNCHANGED <<heap, held, trees>>

ParseError(tok) ==
  /\ pc = "parse" /\ tok \notin Valid(at)
  /\ read' = Append(read, tok)
  /\ out' = [kind |-> "error", keys |-> heap[at].keys, valid |-> Valid(at)]
  /\ Return("idle") /\ UNCHANGED <<heap, held, trees>>

----------------------------------------------------------------------------
Init ==
  /\ heap = <<NewNode(Language, <<>>)>>
  /\ held = {Language} /\ trees = {Language}
  /\ pc = "idle" /\ at = Language /\ rest = <<>> /\ todo = {}
  /\ read = <<>> /\ start = Language /\ out = NoResult

Call ==
  \E t \in held :
    \/ \E n \in 0 .. MaxPath : \E toks \in [1 .. n -> Token] : CallGroup(t, toks)
    \/ \E tok \in Token, h \in Handler : Handle(t, tok, h)
    \/ CallClone(t)
    \/ CallParse(t)

Continue ==
  \/ GroupDescend \/ GroupConflict \/ GroupNew \/ GroupReturn \/ Recover
  \/ CloneSubtree \/ CloneReturn
  \/ \E tok \in Token : ParseDescend(tok) \/ ParseHandler(tok) \/ ParseError(tok)

Next == Call \/ Continue

\* A method that runs goes on running.
Spec == Init /\ [][Next]_vars /\ WF_vars(Continue)

----------------------------------------------------------------------------
(* Properties.                                                             *)

Result ==
  [kind : {"none"}] \cup [kind : {"handler"}, handler : Handler]
  \cup [kind : {"error"}, keys : Seq(Token), valid : SUBSET Token]

TypeOK ==
  /\ heap \in Seq(Node) /\ DOMAIN heap # {}
  /\ held \subseteq DOMAIN heap /\ trees \subseteq DOMAIN heap
  /\ pc \in {"idle", "group", "clone", "parse", "panic"}
  /\ {at, start} \subseteq DOMAIN heap
  /\ rest \in Seq(Token) /\ read \in Seq(Token)
  /\ todo \subseteq (DOMAIN heap) \X (DOMAIN heap) \X Token
  /\ out \in Result

\* A subtree is in the tree of its parent, one token below it, and younger: no
\* sequence of Group, Handle and Clone makes two trees share a node, or a
\* cycle, so that what is added to one tree shows in no other.
SubtreesBelongToTheirParent ==
  \A n \in DOMAIN heap : \A tok \in Grouped(n) :
    LET child == heap[n].tokens[tok] IN
    /\ child \in DOMAIN heap /\ n < child
    /\ heap[child].root = heap[n].root
    /\ heap[child].path = Append(heap[n].path, tok)

\* A token has a subtree or a handler, never both, in originals and in clones:
\* Parse looks at Tokens first, and would never call the handler.
NoTokenIsBoth ==
  \A n \in DOMAIN heap : Grouped(n) \cap Handled(n) = {}

Listed(keys) == {keys[k] : k \in DOMAIN keys}

\* Keys lists tokens the node has, each once.  In the tree that is not a clone
\* it lists them all.
KeysListTokens ==
  \A n \in DOMAIN heap :
    /\ Listed(heap[n].keys) \subseteq Valid(n)
    /\ \A j, k \in DOMAIN heap[n].keys : heap[n].keys[j] = heap[n].keys[k] => j = k
    /\ heap[n].root = Language => Listed(heap[n].keys) = Valid(n)

\* Two nodes are never at the same place of the same tree.
PlacesAreUnique ==
  \A m, n \in DOMAIN heap :
    heap[m].root = heap[n].root /\ heap[m].path = heap[n].path => m = n

\* The table of a tree: the handlers of its nodes, by the path that leads there.
EntriesOf(t) ==
  UNION {{[path |-> Append(heap[n].path, tok), handler |-> heap[n].handlers[tok]] :
            tok \in Handled(n)} :
         n \in {m \in DOMAIN heap : heap[m].root = t}}

Commands == INSTANCE CommandTable WITH
  Tree <- Nat,
  table <- [t \in trees |-> EntriesOf(t)],
  found <- IF out.kind = "handler" THEN out.handler ELSE None

\* The step of the table that a step of the trees is: a handler registered, a
\* clone returned, or a statement parsed.
TableStep ==
  \/ /\ pc = "idle"
     /\ \/ Commands!Take
        \/ \E n \in held, tok \in Token, h \in Handler :
             Commands!Register(heap[n].root, Append(heap[n].path, tok), h)
  \/ pc = "clone" /\ Commands!Copy(heap[start].root, heap[start].path, at)
  \/ pc = "parse" /\ Commands!Find(heap[start].root, heap[start].path \o read')

\* Group, Handle, Clone and Parse implement the table of statements: Handle adds
\* one entry and keeps the table prefix-free, a clone starts as a copy and is
\* never changed through the original nor changes it, and Parse finds the
\* handler of the tokens it read exactly when there is one.
ImplementsTheTable ==
  Commands!TInit /\ [][TableStep]_(Commands!tvars)

\* Every call returns: a Group, a Clone or a Parse never runs for ever.
CallsReturn == []<>(pc = "idle")

\* A comment in Parse: "Return the valid tokens in the order they were added."
ErrorListsTheValidTokens ==
  out.kind = "error" => Listed(out.keys) = out.valid
=============================================================================
