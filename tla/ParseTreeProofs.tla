-------------------------- MODULE ParseTreeProofs ---------------------------
(***************************************************************************)
(* Proofs about parse trees, for any tokens and handlers and any sequence  *)
(* of Group, Handle, Clone and Parse: the nodes form trees that share no   *)
(* node, no token has both a subtree and a handler, and Keys lists tokens  *)
(* of its node.                                                            *)
(*                                                                         *)
(* The heap changes in four ways: a handler is added to a node, a subtree  *)
(* is added by Group or by Clone, and a root is added by Clone.  A lemma   *)
(* for each describes the new heap field by field; the invariants are then *)
(* proved of the fields.                                                   *)
(***************************************************************************)
EXTENDS ParseTree, SequenceTheorems, TLAPS

----------------------------------------------------------------------------
(* The heap, field by field.                                               *)

\* What node n becomes, when its keys and one subtree may change.
Changed(n, p, tok, v, keys) ==
  /\ heap'[n].root = heap[n].root
  /\ heap'[n].path = heap[n].path
  /\ heap'[n].handlers = heap[n].handlers
  /\ heap'[n].keys = IF n = p THEN keys ELSE heap[n].keys
  /\ \A u \in Token :
       heap'[n].tokens[u] = IF n = p /\ u = tok THEN v ELSE heap[n].tokens[u]

\* A function on 1 .. m is a sequence of length m.
LEMMA FunctionIsSequence ==
  ASSUME NEW S, NEW m \in Nat, NEW f \in [1 .. m -> S]
  PROVE  f \in Seq(S) /\ Len(f) = m
OBVIOUS

\* A node is well typed when its fields are.
LEMMA NewNodeType ==
  ASSUME NEW r \in Nat, NEW p \in Seq(Token)
  PROVE  NewNode(r, p) \in Node
BY DEF NewNode, Node, Nil

\* A record of well typed fields is a node.
LEMMA RecordType ==
  ASSUME NEW r \in Nat, NEW p \in Seq(Token), NEW k \in Seq(Token),
         NEW h \in [Token -> Handler \cup {None}], NEW t \in [Token -> Nat]
  PROVE  [root |-> r, path |-> p, handlers |-> h, tokens |-> t, keys |-> k] \in Node
BY DEF Node

\* The heap after Group has added a subtree.
LEMMA GroupedHeap ==
  ASSUME heap \in Seq(Node), NEW p \in DOMAIN heap, NEW tok \in Token,
         NEW node \in Node, NEW keys \in Seq(Token),
         heap' = Append([heap EXCEPT ![p].tokens[tok] = Fresh,
                                     ![p].keys = keys], node)
  PROVE  /\ heap' \in Seq(Node)
         /\ Fresh \in Nat /\ Fresh \notin DOMAIN heap
         /\ DOMAIN heap' = DOMAIN heap \cup {Fresh}
         /\ heap'[Fresh] = node
         /\ \A n \in DOMAIN heap : Changed(n, p, tok, Fresh, keys)
<1> DEFINE g == [heap EXCEPT ![p].tokens[tok] = Fresh, ![p].keys = keys]
<1>1. Fresh \in Nat /\ Fresh \notin DOMAIN heap /\ DOMAIN heap = 1 .. Len(heap)
  BY DEF Fresh
<1>2. heap[p] \in Node
  OBVIOUS
<1>3. /\ DOMAIN g = DOMAIN heap
      /\ \A n \in DOMAIN heap : n # p => g[n] = heap[n]
      /\ g[p] = [heap[p] EXCEPT !.tokens = [heap[p].tokens EXCEPT ![tok] = Fresh],
                                !.keys = keys]
  BY <1>2 DEF Node
<1>4. g[p] \in Node
  BY <1>1, <1>2, <1>3 DEF Node
<1>5. g \in Seq(Node) /\ Len(g) = Len(heap)
  <2>1. Len(heap) \in Nat /\ DOMAIN g = 1 .. Len(heap)
    BY <1>1, <1>3
  <2>2. \A n \in 1 .. Len(heap) : g[n] \in Node
    BY <1>1, <1>3, <1>4
  <2>3. g \in [1 .. Len(heap) -> Node]
    BY <2>1, <2>2
  <2>4. QED
    BY <2>1, <2>3, FunctionIsSequence
<1>6. /\ heap' \in Seq(Node) /\ DOMAIN heap' = DOMAIN heap \cup {Fresh}
      /\ heap'[Fresh] = node
      /\ \A n \in DOMAIN heap : heap'[n] = g[n]
  BY <1>1, <1>5 DEF Fresh
<1>7. ASSUME NEW n \in DOMAIN heap PROVE Changed(n, p, tok, Fresh, keys)
  <2>1. CASE n = p
    <3>1. heap'[n] = g[p]
      BY <2>1, <1>6
    <3>2. /\ g[p].root = heap[p].root /\ g[p].path = heap[p].path
          /\ g[p].handlers = heap[p].handlers /\ g[p].keys = keys
          /\ g[p].tokens = [heap[p].tokens EXCEPT ![tok] = Fresh]
      BY <1>2, <1>3 DEF Node
    <3>3. \A u \in Token :
            g[p].tokens[u] = IF u = tok THEN Fresh ELSE heap[p].tokens[u]
      BY <3>2, <1>2 DEF Node
    <3>4. QED
      BY <2>1, <3>1, <3>2, <3>3 DEF Changed
  <2>2. CASE n # p
    BY <2>2, <1>3, <1>6 DEF Changed
  <2>3. QED
    BY <2>1, <2>2
<1>8. QED
  BY <1>1, <1>6, <1>7

\* The heap after Clone has copied a subtree: no keys are added.
LEMMA ClonedHeap ==
  ASSUME heap \in Seq(Node), NEW p \in DOMAIN heap, NEW tok \in Token,
         NEW node \in Node,
         heap' = Append([heap EXCEPT ![p].tokens[tok] = Fresh], node)
  PROVE  /\ heap' \in Seq(Node)
         /\ Fresh \in Nat /\ Fresh \notin DOMAIN heap
         /\ DOMAIN heap' = DOMAIN heap \cup {Fresh}
         /\ heap'[Fresh] = node
         /\ \A n \in DOMAIN heap : Changed(n, p, tok, Fresh, heap[p].keys)
<1> DEFINE g == [heap EXCEPT ![p].tokens[tok] = Fresh]
<1>1. Fresh \in Nat /\ Fresh \notin DOMAIN heap /\ DOMAIN heap = 1 .. Len(heap)
  BY DEF Fresh
<1>2. heap[p] \in Node
  OBVIOUS
<1>3. /\ DOMAIN g = DOMAIN heap
      /\ \A n \in DOMAIN heap : n # p => g[n] = heap[n]
      /\ g[p] = [heap[p] EXCEPT !.tokens = [heap[p].tokens EXCEPT ![tok] = Fresh]]
  BY <1>2 DEF Node
<1>4. g[p] \in Node
  BY <1>1, <1>2, <1>3 DEF Node
<1>5. g \in Seq(Node) /\ Len(g) = Len(heap)
  <2>1. Len(heap) \in Nat /\ DOMAIN g = 1 .. Len(heap)
    BY <1>1, <1>3
  <2>2. \A n \in 1 .. Len(heap) : g[n] \in Node
    BY <1>1, <1>3, <1>4
  <2>3. g \in [1 .. Len(heap) -> Node]
    BY <2>1, <2>2
  <2>4. QED
    BY <2>1, <2>3, FunctionIsSequence
<1>6. /\ heap' \in Seq(Node) /\ DOMAIN heap' = DOMAIN heap \cup {Fresh}
      /\ heap'[Fresh] = node
      /\ \A n \in DOMAIN heap : heap'[n] = g[n]
  BY <1>1, <1>5 DEF Fresh
<1>7. ASSUME NEW n \in DOMAIN heap PROVE Changed(n, p, tok, Fresh, heap[p].keys)
  <2>1. CASE n = p
    <3>1. heap'[n] = g[p]
      BY <2>1, <1>6
    <3>2. /\ g[p].root = heap[p].root /\ g[p].path = heap[p].path
          /\ g[p].handlers = heap[p].handlers /\ g[p].keys = heap[p].keys
          /\ g[p].tokens = [heap[p].tokens EXCEPT ![tok] = Fresh]
      BY <1>2, <1>3 DEF Node
    <3>3. \A u \in Token :
            g[p].tokens[u] = IF u = tok THEN Fresh ELSE heap[p].tokens[u]
      BY <3>2, <1>2 DEF Node
    <3>4. QED
      BY <2>1, <3>1, <3>2, <3>3 DEF Changed
  <2>2. CASE n # p
    BY <2>2, <1>3, <1>6 DEF Changed
  <2>3. QED
    BY <2>1, <2>2
<1>8. QED
  BY <1>1, <1>6, <1>7

\* The heap after Clone has made a root.
LEMMA RootedHeap ==
  ASSUME heap \in Seq(Node), NEW node \in Node, heap' = Append(heap, node)
  PROVE  /\ heap' \in Seq(Node)
         /\ Fresh \in Nat /\ Fresh \notin DOMAIN heap
         /\ DOMAIN heap' = DOMAIN heap \cup {Fresh}
         /\ heap'[Fresh] = node
         /\ \A n \in DOMAIN heap : heap'[n] = heap[n]
BY DEF Fresh

\* The heap after Handle has added a handler.
HandlerAdded(p, tok, h, keys) ==
  [heap EXCEPT ![p].handlers[tok] = h, ![p].keys = keys]

\* Handle leaves every tree's root, path and tokens as they were.
LEMMA HandledHeap ==
  ASSUME heap \in Seq(Node), NEW p \in DOMAIN heap, NEW tok \in Token,
         NEW h \in Handler, NEW keys \in Seq(Token),
         heap' = HandlerAdded(p, tok, h, keys)
  PROVE  /\ heap' \in Seq(Node)
         /\ DOMAIN heap' = DOMAIN heap
         /\ \A n \in DOMAIN heap :
              /\ n # p => heap'[n] = heap[n]
              /\ heap'[n].root = heap[n].root
              /\ heap'[n].path = heap[n].path
              /\ heap'[n].tokens = heap[n].tokens
         /\ heap'[p].keys = keys
         /\ heap'[p].handlers = [heap[p].handlers EXCEPT ![tok] = h]
<1>1. heap[p] \in Node /\ DOMAIN heap = 1 .. Len(heap)
  OBVIOUS
<1>2. /\ DOMAIN heap' = DOMAIN heap
      /\ \A n \in DOMAIN heap : n # p => heap'[n] = heap[n]
      /\ heap'[p] = [heap[p] EXCEPT !.handlers = [heap[p].handlers EXCEPT ![tok] = h],
                                    !.keys = keys]
  BY <1>1 DEF Node, HandlerAdded
<1>3. heap'[p] \in Node
  <2>1. /\ heap[p].root \in Nat /\ heap[p].path \in Seq(Token)
        /\ heap[p].tokens \in [Token -> Nat]
        /\ [heap[p].handlers EXCEPT ![tok] = h] \in [Token -> Handler \cup {None}]
    BY <1>1 DEF Node
  <2>2. heap'[p] = [root |-> heap[p].root, path |-> heap[p].path,
                    handlers |-> [heap[p].handlers EXCEPT ![tok] = h],
                    tokens |-> heap[p].tokens, keys |-> keys]
    BY <1>1, <1>2 DEF Node
  <2>3. [root |-> heap[p].root, path |-> heap[p].path,
         handlers |-> [heap[p].handlers EXCEPT ![tok] = h],
         tokens |-> heap[p].tokens, keys |-> keys] \in Node
    BY <2>1, RecordType
  <2>4. QED
    BY <2>2, <2>3
<1>4. heap' \in Seq(Node)
  <2>1. DOMAIN heap' = 1 .. Len(heap) /\ Len(heap) \in Nat
    BY <1>1, <1>2
  <2>2. \A n \in 1 .. Len(heap) : heap'[n] \in Node
    BY <1>1, <1>2, <1>3
  <2>3. heap' \in [1 .. Len(heap) -> Node]
    BY <2>1, <2>2, <1>2 DEF HandlerAdded
  <2>4. QED
    BY <2>1, <2>3, FunctionIsSequence
<1>5. QED
  BY <1>1, <1>2, <1>4 DEF Node

----------------------------------------------------------------------------
(* The inductive invariant.                                                *)

\* A tree is named by its root, and only the root has the empty path.
RootsAreNamed ==
  \A n \in DOMAIN heap :
    heap[n].root \in 1 .. n /\ (heap[n].path = <<>> => heap[n].root = n)

\* A node that is not a root hangs where its path says.
NodesHaveParents ==
  \A n \in DOMAIN heap :
    heap[n].path = <<>> \/ \E p \in DOMAIN heap, tok \in Token :
      /\ heap[p].root = heap[n].root
      /\ heap[n].path = Append(heap[p].path, tok)
      /\ heap[p].tokens[tok] = n

\* What Clone still has to copy: subtrees of older trees, each to a place of
\* the clone that is free; the copy of a node has the handlers of that node.
CloneInProgress ==
  /\ todo # {} => pc = "clone"
  /\ pc = "clone" => heap[at].root = at /\ at # Language
  /\ \A w \in todo :
       /\ w[3] \in Grouped(w[1])
       /\ heap[w[1]].root # at
       /\ heap[w[2]].root = at
       /\ heap[w[2]].tokens[w[3]] = Nil
       /\ heap[w[2]].handlers = heap[w[1]].handlers
  /\ \A v, w \in todo : v[2] = w[2] => v[1] = w[1]

TreeInv ==
  /\ TypeOK
  /\ RootsAreNamed
  /\ SubtreesBelongToTheirParent
  /\ NodesHaveParents
  /\ PlacesAreUnique
  /\ NoTokenIsBoth
  /\ KeysListTokens
  /\ CloneInProgress

----------------------------------------------------------------------------
(* A subtree is added, by Group or by Clone.                               *)

Extended(p, tok, node, keys) ==
  /\ Fresh \in Nat /\ Fresh \notin DOMAIN heap
  /\ \A n \in DOMAIN heap : n \in Nat \ {0} /\ n < Fresh
  /\ DOMAIN heap' = DOMAIN heap \cup {Fresh}
  /\ heap'[Fresh] = node
  /\ \A n \in DOMAIN heap : Changed(n, p, tok, Fresh, keys)

\* Where a new subtree goes, there was none: the trees stay trees.
LEMMA SubtreeKeepsTrees ==
  ASSUME TypeOK, RootsAreNamed, SubtreesBelongToTheirParent, NodesHaveParents,
         PlacesAreUnique,
         NEW p \in DOMAIN heap, NEW tok \in Token, NEW node \in Node,
         NEW keys, Extended(p, tok, node, keys),
         heap[p].tokens[tok] = Nil,
         node.root = heap[p].root,
         node.path = Append(heap[p].path, tok),
         \A u \in Token : node.tokens[u] = Nil
  PROVE  /\ RootsAreNamed' /\ SubtreesBelongToTheirParent'
         /\ NodesHaveParents' /\ PlacesAreUnique'
<1>1. \A n \in DOMAIN heap : heap[n] \in Node
  BY DEF TypeOK
<1>2. /\ DOMAIN heap' = DOMAIN heap \cup {Fresh} /\ Fresh \in Nat
      /\ Fresh \notin DOMAIN heap /\ heap'[Fresh] = node
      /\ \A n \in DOMAIN heap :
           /\ n \in Nat \ {0} /\ n < Fresh
           /\ heap'[n].root = heap[n].root /\ heap'[n].path = heap[n].path
           /\ \A u \in Token :
                heap'[n].tokens[u] = IF n = p /\ u = tok THEN Fresh
                                     ELSE heap[n].tokens[u]
  BY DEF Extended, Changed
<1>3. heap[p].path \in Seq(Token) /\ node.path # <<>>
  <2>1. heap[p].path \in Seq(Token)
    BY <1>1 DEF Node
  <2>2. Len(Append(heap[p].path, tok)) = Len(heap[p].path) + 1
    BY <2>1
  <2>3. Append(heap[p].path, tok) # <<>>
    BY <2>1, <2>2
  <2>4. QED
    BY <2>1, <2>3
<1>4. RootsAreNamed'
  <2>1. heap[p].root \in 1 .. p /\ p < Fresh /\ p \in Nat
    BY <1>2 DEF RootsAreNamed
  <2>2. node.root \in 1 .. Fresh
    BY <2>1, <1>2
  <2>3. QED
    BY <2>2, <1>2, <1>3 DEF RootsAreNamed
<1>5. SubtreesBelongToTheirParent'
  <2> SUFFICES ASSUME NEW n \in DOMAIN heap', NEW u \in Token,
                      heap'[n].tokens[u] # Nil
               PROVE  LET child == heap'[n].tokens[u] IN
                      /\ child \in DOMAIN heap' /\ n < child
                      /\ heap'[child].root = heap'[n].root
                      /\ heap'[child].path = Append(heap'[n].path, u)
    BY DEF SubtreesBelongToTheirParent, Grouped
  <2>1. CASE n = Fresh
    BY <2>1, <1>2
  <2>2. CASE n = p /\ u = tok
    BY <2>2, <1>2
  <2>3. CASE n \in DOMAIN heap /\ ~ (n = p /\ u = tok)
    <3>1. heap'[n].tokens[u] = heap[n].tokens[u]
      BY <2>3, <1>2
    <3>2. /\ heap[n].tokens[u] \in DOMAIN heap /\ n < heap[n].tokens[u]
          /\ heap[heap[n].tokens[u]].root = heap[n].root
          /\ heap[heap[n].tokens[u]].path = Append(heap[n].path, u)
      BY <2>3, <3>1 DEF SubtreesBelongToTheirParent, Grouped
    <3>3. QED
      BY <3>1, <3>2, <2>3, <1>2
  <2>4. QED
    BY <2>1, <2>2, <2>3, <1>2
<1>6. NodesHaveParents'
  <2> SUFFICES ASSUME NEW n \in DOMAIN heap', heap'[n].path # <<>>
               PROVE  \E q \in DOMAIN heap', u \in Token :
                        /\ heap'[q].root = heap'[n].root
                        /\ heap'[n].path = Append(heap'[q].path, u)
                        /\ heap'[q].tokens[u] = n
    BY DEF NodesHaveParents
  <2>1. CASE n = Fresh
    BY <2>1, <1>2
  <2>2. CASE n \in DOMAIN heap
    <3>1. heap[n].path # <<>>
      BY <2>2, <1>2
    <3>2. PICK q \in DOMAIN heap, u \in Token :
            /\ heap[q].root = heap[n].root
            /\ heap[n].path = Append(heap[q].path, u)
            /\ heap[q].tokens[u] = n
      BY <2>2, <3>1 DEF NodesHaveParents
    <3>3. ~ (q = p /\ u = tok)
      BY <3>2, <2>2, <1>2 DEF Nil
    <3>4. QED
      BY <3>2, <3>3, <2>2, <1>2
  <2>3. QED
    BY <2>1, <2>2, <1>2
<1>7. ASSUME NEW n \in DOMAIN heap
      PROVE  ~ (heap[n].root = node.root /\ heap[n].path = node.path)
  <2> SUFFICES ASSUME heap[n].root = node.root, heap[n].path = node.path
               PROVE  FALSE
    OBVIOUS
  <2>1. PICK q \in DOMAIN heap, u \in Token :
          /\ heap[q].root = heap[n].root
          /\ heap[n].path = Append(heap[q].path, u)
          /\ heap[q].tokens[u] = n
    BY <1>3 DEF NodesHaveParents
  <2>2. heap[q].path \in Seq(Token) /\ heap[p].path \in Seq(Token)
    BY <1>1 DEF Node
  <2>3. heap[q].path = heap[p].path /\ u = tok
    <3>1. Append(heap[q].path, u) = Append(heap[p].path, tok)
      BY <2>1
    <3>2. QED
      BY <3>1, <2>2, AppendInjective
  <2>4. q = p
    BY <2>1, <2>3 DEF PlacesAreUnique
  <2>5. QED
    BY <2>1, <2>3, <2>4, <1>2 DEF Nil
<1>8. PlacesAreUnique'
  BY <1>2, <1>7 DEF PlacesAreUnique
<1>9. QED
  BY <1>4, <1>5, <1>6, <1>8

\* The tokens of the nodes of an extended heap.
LEMMA ExtendedTokens ==
  ASSUME NEW p \in DOMAIN heap, NEW tok \in Token, NEW node \in Node, NEW keys,
         Extended(p, tok, node, keys)
  PROVE  /\ \A n \in DOMAIN heap :
              /\ Grouped(n)' = IF n = p THEN Grouped(n) \cup {tok} ELSE Grouped(n)
              /\ Handled(n)' = Handled(n)
         /\ \A f : f = Fresh =>
              /\ Grouped(f)' = {u \in Token : node.tokens[u] # Nil}
              /\ Handled(f)' = {u \in Token : node.handlers[u] # None}
<1>1. ASSUME NEW n \in DOMAIN heap
      PROVE  /\ Grouped(n)' = IF n = p THEN Grouped(n) \cup {tok} ELSE Grouped(n)
             /\ Handled(n)' = Handled(n)
  <2>1. /\ heap'[n].handlers = heap[n].handlers
        /\ \A u \in Token : heap'[n].tokens[u] = IF n = p /\ u = tok THEN Fresh
                                                 ELSE heap[n].tokens[u]
        /\ Fresh # Nil
    BY DEF Extended, Changed, Fresh, Nil
  <2>2. QED
    BY <2>1 DEF Grouped, Handled
<1>2. ASSUME NEW f, f = Fresh
      PROVE  /\ Grouped(f)' = {u \in Token : node.tokens[u] # Nil}
             /\ Handled(f)' = {u \in Token : node.handlers[u] # None}
  BY <1>2 DEF Extended, Grouped, Handled
<1>3. QED
  BY <1>1, <1>2

\* A token that is added to a list it is not on.
LEMMA ListedAppend ==
  ASSUME NEW keys \in Seq(Token), NEW tok \in Token, tok \notin Listed(keys),
         \A j, k \in DOMAIN keys : keys[j] = keys[k] => j = k
  PROVE  /\ Listed(Append(keys, tok)) = Listed(keys) \cup {tok}
         /\ \A j, k \in DOMAIN Append(keys, tok) :
              Append(keys, tok)[j] = Append(keys, tok)[k] => j = k
<1> DEFINE app == Append(keys, tok)
<1>1. /\ DOMAIN app = DOMAIN keys \cup {Len(keys) + 1}
      /\ app[Len(keys) + 1] = tok
      /\ \A k \in DOMAIN keys : app[k] = keys[k] /\ k # Len(keys) + 1
  OBVIOUS
<1>2. \A k \in DOMAIN keys : keys[k] # tok
  BY DEF Listed
<1> HIDE DEF app
<1>3. Listed(app) = Listed(keys) \cup {tok}
  BY <1>1 DEF Listed
<1>4. \A j, k \in DOMAIN app : app[j] = app[k] => j = k
  BY <1>1, <1>2
<1>5. QED
  BY <1>3, <1>4 DEF app

----------------------------------------------------------------------------
(* Each action keeps the invariant.                                        *)

\* What the step of Group that adds a subtree does to the heap.
LEMMA GroupNewExtends ==
  ASSUME TreeInv, GroupNew, NEW tok, tok = Head(rest),
         NEW node, node = NewNode(heap[at].root, Append(heap[at].path, tok)),
         NEW keys, keys = Append(heap[at].keys, tok)
  PROVE  /\ at \in DOMAIN heap /\ tok \in Token /\ Tail(rest) \in Seq(Token)
         /\ todo = {} /\ node \in Node /\ keys \in Seq(Token)
         /\ heap[at].tokens[tok] = Nil /\ heap[at].handlers[tok] = None
         /\ tok \notin Valid(at)
         /\ heap' \in Seq(Node) /\ Extended(at, tok, node, keys)
<1>1. /\ heap \in Seq(Node) /\ at \in DOMAIN heap /\ heap[at] \in Node
      /\ rest \in Seq(Token) /\ tok \in Token /\ Tail(rest) \in Seq(Token)
      /\ todo = {}
  BY DEF TreeInv, TypeOK, GroupNew, CloneInProgress
<1>2. /\ keys \in Seq(Token) /\ Append(heap[at].path, tok) \in Seq(Token)
      /\ heap[at].root \in Nat
  BY <1>1 DEF Node
<1>3. node \in Node
  BY <1>2, NewNodeType
<1>4. /\ heap[at].tokens[tok] = Nil /\ heap[at].handlers[tok] = None
      /\ tok \notin Valid(at)
  BY <1>1 DEF GroupNew, Valid, Grouped, Handled
<1>5. heap' = Append([heap EXCEPT ![at].tokens[tok] = Fresh,
                                  ![at].keys = keys], node)
  BY DEF GroupNew
<1>6. \A n \in DOMAIN heap : n \in Nat \ {0} /\ n < Fresh
  BY <1>1 DEF Fresh
<1>7. heap' \in Seq(Node) /\ Extended(at, tok, node, keys)
  <2>1. /\ heap' \in Seq(Node)
        /\ Fresh \in Nat /\ Fresh \notin DOMAIN heap
        /\ DOMAIN heap' = DOMAIN heap \cup {Fresh}
        /\ heap'[Fresh] = node
        /\ \A n \in DOMAIN heap : Changed(n, at, tok, Fresh, keys)
    BY <1>1, <1>2, <1>3, <1>5, GroupedHeap
  <2>2. QED
    BY <1>6, <2>1 DEF Extended
<1>8. QED
  BY <1>1, <1>2, <1>3, <1>4, <1>7

\* Group adds a subtree for a token that has neither a subtree nor a handler.
LEMMA GroupNewKeeps ==
  ASSUME TreeInv, GroupNew
  PROVE  TreeInv'
<1> DEFINE tok  == Head(rest)
           keys == Append(heap[at].keys, tok)
           node == NewNode(heap[at].root, Append(heap[at].path, tok))
<1>1. /\ heap \in Seq(Node) /\ at \in DOMAIN heap /\ heap[at] \in Node
  BY DEF TreeInv, TypeOK
<1>2. /\ tok \in Token /\ Tail(rest) \in Seq(Token) /\ todo = {}
      /\ heap[at].tokens[tok] = Nil /\ heap[at].handlers[tok] = None
      /\ tok \notin Valid(at) /\ node \in Node
      /\ heap' \in Seq(Node) /\ Extended(at, tok, node, keys)
  BY GroupNewExtends
<1>3. DOMAIN heap' = DOMAIN heap \cup {Fresh}
  BY <1>2 DEF Extended
<1>4. TypeOK'
  BY <1>1, <1>2, <1>3 DEF TreeInv, TypeOK, GroupNew
<1>5. /\ RootsAreNamed' /\ SubtreesBelongToTheirParent'
      /\ NodesHaveParents' /\ PlacesAreUnique'
  <2>1. /\ node.root = heap[at].root /\ node.path = Append(heap[at].path, tok)
        /\ \A u \in Token : node.tokens[u] = Nil
    BY DEF NewNode
  <2>2. QED
    BY <1>1, <1>2, <1>3, <2>1, SubtreeKeepsTrees DEF TreeInv
<1>6. PICK p \in DOMAIN heap : p = at
  BY <1>1, <1>2
<1>7. PICK f : f = Fresh
  OBVIOUS
<1>8. /\ \A n \in DOMAIN heap :
           /\ Grouped(n)' = IF n = p THEN Grouped(n) \cup {tok} ELSE Grouped(n)
           /\ Handled(n)' = Handled(n)
      /\ Grouped(f)' = {} /\ Handled(f)' = {}
  <2>1. \A u \in Token : node.tokens[u] = Nil /\ node.handlers[u] = None
    BY DEF NewNode
  <2>2. QED
    BY <1>1, <1>2, <1>3, <1>6, <1>7, <2>1, ExtendedTokens
<1>9. NoTokenIsBoth'
  <2>1. \A n \in DOMAIN heap : Grouped(n) \cap Handled(n) = {}
    BY DEF TreeInv, NoTokenIsBoth
  <2>2. tok \notin Handled(p)
    BY <1>2, <1>6 DEF Valid
  <2>3. QED
    BY <1>2, <1>3, <1>7, <1>8, <2>1, <2>2 DEF NoTokenIsBoth
<1>10. KeysListTokens'
  <2>1. \A n \in DOMAIN heap :
          /\ Listed(heap[n].keys) \subseteq Valid(n)
          /\ \A j, k \in DOMAIN heap[n].keys :
               heap[n].keys[j] = heap[n].keys[k] => j = k
          /\ heap[n].root = Language => Listed(heap[n].keys) = Valid(n)
    BY DEF TreeInv, KeysListTokens
  <2>2. /\ Listed(keys) = Listed(heap[p].keys) \cup {tok}
        /\ \A j, k \in DOMAIN keys : keys[j] = keys[k] => j = k
    <3>1. heap[p].keys \in Seq(Token) /\ tok \notin Listed(heap[p].keys)
      BY <1>1, <1>2, <1>6, <2>1 DEF Node
    <3>2. QED
      BY <1>1, <1>2, <1>6, <2>1, <3>1, ListedAppend
  <2>3. /\ heap'[p].keys = keys
        /\ \A n \in DOMAIN heap : n # p => heap'[n].keys = heap[n].keys
        /\ \A n \in DOMAIN heap : heap'[n].root = heap[n].root
        /\ heap'[f].keys = <<>>
    <3>1. Extended(p, tok, node, keys) /\ heap'[f] = node
      BY <1>2, <1>3, <1>6, <1>7 DEF Extended
    <3>2. node.keys = <<>>
      BY DEF NewNode
    <3>3. \A n \in DOMAIN heap : Changed(n, p, tok, Fresh, keys)
      BY <3>1 DEF Extended
    <3>4. QED
      BY <3>1, <3>2, <3>3 DEF Changed
  <2>4. Listed(heap'[f].keys) = {}
    BY <2>3 DEF Listed
  <2>5. ASSUME NEW n \in DOMAIN heap'
        PROVE  /\ Listed(heap'[n].keys) \subseteq Valid(n)'
               /\ \A j, k \in DOMAIN heap'[n].keys :
                    heap'[n].keys[j] = heap'[n].keys[k] => j = k
               /\ heap'[n].root = Language => Listed(heap'[n].keys) = Valid(n)'
    <3>1. CASE n = f
      BY <3>1, <1>8, <2>3, <2>4 DEF Valid
    <3>2. CASE n = p
      BY <3>2, <1>8, <2>1, <2>2, <2>3 DEF Valid
    <3>3. CASE n \in DOMAIN heap /\ n # p
      BY <3>3, <1>8, <2>1, <2>3 DEF Valid
    <3>4. QED
      BY <3>1, <3>2, <3>3, <1>2, <1>3, <1>7
  <2>6. QED
    BY <2>5 DEF KeysListTokens
<1>11. CloneInProgress'
  BY <1>1, <1>2 DEF GroupNew, CloneInProgress
<1>12. QED
  BY <1>4, <1>5, <1>9, <1>10, <1>11 DEF TreeInv

\* The subtree child of w[1], which tok leads to, gets the copy node below p.
Copied(w, p, tok, child, node) ==
  /\ w[1] \in DOMAIN heap /\ p \in DOMAIN heap /\ tok \in Token
  /\ w = <<w[1], p, tok>>
  /\ tok \in Grouped(w[1]) /\ heap[w[1]].root # at
  /\ heap[p].root = at /\ heap[p].tokens[tok] = Nil
  /\ heap[p].handlers = heap[w[1]].handlers
  /\ child \in DOMAIN heap /\ heap[child].root = heap[w[1]].root
  /\ heap[child].path = Append(heap[w[1]].path, tok)
  /\ node \in Node /\ node.root = at /\ node.keys = <<>>
  /\ node.path = Append(heap[p].path, tok)
  /\ node.handlers = heap[child].handlers
  /\ \A u \in Token : node.tokens[u] = Nil
  /\ heap' \in Seq(Node) /\ Extended(p, tok, node, heap[p].keys)
  /\ todo' = (todo \ {w}) \cup Subtrees(child, Fresh)

\* What copying one subtree does to the heap.
LEMMA CloneSubtreeExtends ==
  ASSUME TreeInv, CloneSubtree
  PROVE  \E w \in todo : \E p, tok, child, node : Copied(w, p, tok, child, node)
<1>1. PICK w \in todo :
        /\ heap' = Append([heap EXCEPT ![w[2]].tokens[w[3]] = Fresh],
                          CopyOf(heap[w[1]].tokens[w[3]], at,
                                 Append(heap[w[2]].path, w[3])))
        /\ todo' = (todo \ {w}) \cup Subtrees(heap[w[1]].tokens[w[3]], Fresh)
  BY DEF CloneSubtree
<1> DEFINE tok   == w[3]
           p     == w[2]
           child == heap[w[1]].tokens[tok]
           node  == CopyOf(child, at, Append(heap[p].path, tok))
<1>2. /\ heap \in Seq(Node) /\ at \in DOMAIN heap
      /\ todo \subseteq (DOMAIN heap) \X (DOMAIN heap) \X Token
      /\ w[1] \in DOMAIN heap /\ p \in DOMAIN heap /\ tok \in Token
      /\ w = <<w[1], w[2], w[3]>>
  BY DEF TreeInv, TypeOK
<1>3. /\ tok \in Grouped(w[1]) /\ heap[w[1]].root # at
      /\ heap[p].root = at /\ heap[p].tokens[tok] = Nil
      /\ heap[p].handlers = heap[w[1]].handlers
  BY <1>2 DEF TreeInv, CloneInProgress
<1>4. /\ child \in DOMAIN heap /\ heap[child].root = heap[w[1]].root
      /\ heap[child].path = Append(heap[w[1]].path, tok)
  BY <1>2, <1>3 DEF TreeInv, SubtreesBelongToTheirParent
<1>5. \A n \in DOMAIN heap : heap[n] \in Node /\ n \in Nat \ {0} /\ n < Fresh
  BY <1>2 DEF Fresh
<1>6. /\ node \in Node /\ node.root = at /\ node.keys = <<>>
      /\ node.path = Append(heap[p].path, tok)
      /\ node.handlers = heap[child].handlers
      /\ \A u \in Token : node.tokens[u] = Nil
  <2>1. Append(heap[p].path, tok) \in Seq(Token) /\ at \in Nat
    BY <1>2, <1>5 DEF Node
  <2>2. heap[child].handlers \in [Token -> Handler \cup {None}]
    BY <1>4, <1>5 DEF Node
  <2>3. node = [root |-> at, path |-> Append(heap[p].path, tok),
                 handlers |-> heap[child].handlers,
                 tokens |-> [u \in Token |-> Nil], keys |-> <<>>]
    BY DEF CopyOf
  <2>4. [u \in Token |-> Nil] \in [Token -> Nat] /\ <<>> \in Seq(Token)
    BY DEF Nil
  <2>5. node \in Node
    BY <2>1, <2>2, <2>4, RecordType DEF CopyOf
  <2>6. \A u \in Token : node.tokens[u] = Nil
    BY <2>3
  <2>7. QED
    BY <2>3, <2>5, <2>6
<1> HIDE DEF node
<1>7. heap' \in Seq(Node) /\ Extended(p, tok, node, heap[p].keys)
  <2>1. heap' = Append([heap EXCEPT ![p].tokens[tok] = Fresh], node)
    BY <1>1 DEF node
  <2>2. QED
    BY <1>2, <1>5, <1>6, <2>1, ClonedHeap DEF Extended
<1>8. Copied(w, p, tok, child, node)
  BY <1>1, <1>2, <1>3, <1>4, <1>6, <1>7 DEF Copied
<1>9. QED
  BY <1>8

\* Clone copies a subtree: a token of the copy that is still free.
LEMMA CloneSubtreeKeeps ==
  ASSUME TreeInv, CloneSubtree
  PROVE  TreeInv'
<1>1. PICK w \in todo : \E p, tok, child, node : Copied(w, p, tok, child, node)
  BY CloneSubtreeExtends
<1>2. PICK p, tok, child, node : Copied(w, p, tok, child, node)
  BY <1>1
<1>3. pc = "clone" /\ todo' = (todo \ {w}) \cup Subtrees(child, Fresh)
  BY <1>2 DEF CloneSubtree, Copied
<1>4. /\ w[1] \in DOMAIN heap /\ p \in DOMAIN heap /\ tok \in Token
      /\ w = <<w[1], p, tok>>
      /\ tok \in Grouped(w[1]) /\ heap[w[1]].root # at
      /\ heap[p].root = at /\ heap[p].tokens[tok] = Nil
      /\ heap[p].handlers = heap[w[1]].handlers
      /\ child \in DOMAIN heap /\ heap[child].root = heap[w[1]].root
      /\ node \in Node /\ node.root = at /\ node.keys = <<>>
      /\ node.path = Append(heap[p].path, tok)
      /\ node.handlers = heap[child].handlers
      /\ \A u \in Token : node.tokens[u] = Nil
      /\ heap' \in Seq(Node) /\ Extended(p, tok, node, heap[p].keys)
  BY <1>2 DEF Copied
<1>5. /\ DOMAIN heap' = DOMAIN heap \cup {Fresh}
      /\ todo \subseteq (DOMAIN heap) \X (DOMAIN heap) \X Token
      /\ at \in DOMAIN heap /\ heap[at].root = at /\ at # Language
  BY <1>3, <1>4 DEF Extended, TreeInv, TypeOK, CloneInProgress
<1>6. PICK f : f = Fresh
  OBVIOUS
<1>7. /\ \A n \in DOMAIN heap :
           /\ Grouped(n)' = IF n = p THEN Grouped(n) \cup {tok} ELSE Grouped(n)
           /\ Handled(n)' = Handled(n)
      /\ Grouped(f)' = {} /\ Handled(f)' = Handled(child)
  <2>1. {u \in Token : node.handlers[u] # None} = Handled(child)
    BY <1>4, <1>5 DEF Handled
  <2>2. {u \in Token : node.tokens[u] # Nil} = {}
    BY <1>4, <1>5
  <2>3. /\ \A n \in DOMAIN heap :
             /\ Grouped(n)' = IF n = p THEN Grouped(n) \cup {tok} ELSE Grouped(n)
             /\ Handled(n)' = Handled(n)
        /\ \A g : g = Fresh =>
             /\ Grouped(g)' = {u \in Token : node.tokens[u] # Nil}
             /\ Handled(g)' = {u \in Token : node.handlers[u] # None}
    BY <1>4, <1>5, ExtendedTokens
  <2>4. QED
    BY <1>6, <2>1, <2>2, <2>3
<1>8. /\ \A n \in DOMAIN heap :
           /\ heap'[n].root = heap[n].root
           /\ heap'[n].handlers = heap[n].handlers
           /\ heap'[n].keys = heap[n].keys
           /\ \A u \in Token : ~ (n = p /\ u = tok) =>
                heap'[n].tokens[u] = heap[n].tokens[u]
      /\ heap'[f] = node /\ f \notin DOMAIN heap
      /\ DOMAIN heap' = DOMAIN heap \cup {f}
  BY <1>4, <1>5, <1>6 DEF Extended, Changed
<1>9. TypeOK'
  <2>1. Subtrees(child, Fresh) \subseteq (DOMAIN heap') \X (DOMAIN heap') \X Token
    BY <1>4, <1>5 DEF Subtrees, Grouped
  <2>2. todo' \subseteq (DOMAIN heap') \X (DOMAIN heap') \X Token
    BY <1>3, <1>4, <1>5, <2>1
  <2>3. QED
    BY <1>4, <1>5, <2>2 DEF TreeInv, TypeOK, CloneSubtree
<1>10. /\ RootsAreNamed' /\ SubtreesBelongToTheirParent'
       /\ NodesHaveParents' /\ PlacesAreUnique'
  BY <1>4, <1>5, SubtreeKeepsTrees DEF TreeInv
<1>11. NoTokenIsBoth'
  <2>1. \A n \in DOMAIN heap : Grouped(n) \cap Handled(n) = {}
    BY DEF TreeInv, NoTokenIsBoth
  <2>2. tok \notin Handled(p)
    <3>1. Handled(p) = Handled(w[1])
      BY <1>4, <1>5 DEF Handled
    <3>2. QED
      BY <1>4, <1>5, <2>1, <3>1
  <2>3. ASSUME NEW n \in DOMAIN heap PROVE Grouped(n)' \cap Handled(n)' = {}
    <3>1. Grouped(n) \cap Handled(n) = {} /\ Handled(n)' = Handled(n)
      BY <1>7, <2>1
    <3>2. Grouped(n)' = IF n = p THEN Grouped(n) \cup {tok} ELSE Grouped(n)
      BY <1>7
    <3>3. QED
      BY <2>2, <3>1, <3>2
  <2>4. Grouped(f)' \cap Handled(f)' = {}
    BY <1>7
  <2>5. DOMAIN heap' = DOMAIN heap \cup {f}
    BY <1>8
  <2>6. QED
    BY <2>3, <2>4, <2>5 DEF NoTokenIsBoth
<1>12. KeysListTokens'
  <2>1. \A n \in DOMAIN heap :
          /\ Listed(heap[n].keys) \subseteq Valid(n)
          /\ \A j, k \in DOMAIN heap[n].keys :
               heap[n].keys[j] = heap[n].keys[k] => j = k
          /\ heap[n].root = Language => Listed(heap[n].keys) = Valid(n)
    BY DEF TreeInv, KeysListTokens
  <2>2. ASSUME NEW n \in DOMAIN heap'
        PROVE  /\ Listed(heap'[n].keys) \subseteq Valid(n)'
               /\ \A j, k \in DOMAIN heap'[n].keys :
                    heap'[n].keys[j] = heap'[n].keys[k] => j = k
               /\ heap'[n].root = Language => Listed(heap'[n].keys) = Valid(n)'
    <3>1. CASE n = f
      BY <3>1, <1>4, <1>5, <1>8 DEF Listed
    <3>2. CASE n \in DOMAIN heap
      <4>1. /\ Valid(n) \subseteq Valid(n)'
            /\ n # p => Valid(n)' = Valid(n)
        BY <3>2, <1>7 DEF Valid
      <4>2. QED
        BY <3>2, <4>1, <2>1, <1>4, <1>5, <1>8
    <3>3. DOMAIN heap' = DOMAIN heap \cup {f}
      BY <1>8
    <3>4. QED
      BY <3>1, <3>2, <3>3
  <2>3. QED
    BY <2>2 DEF KeysListTokens
<1>13. CloneInProgress'
  <2>1. at' = at /\ pc' = "clone" /\ heap'[at].root = at
    BY <1>4, <1>5, <1>8 DEF CloneSubtree
  <2>2. todo' = (todo \ {w}) \cup Subtrees(child, f)
    BY <1>3, <1>6
  <2>3. ASSUME NEW v \in todo'
        PROVE  /\ v[3] \in Grouped(v[1])'
               /\ heap'[v[1]].root # at
               /\ heap'[v[2]].root = at
               /\ heap'[v[2]].tokens[v[3]] = Nil
               /\ heap'[v[2]].handlers = heap'[v[1]].handlers
    <3>1. CASE v \in todo \ {w}
      <4>1. /\ v[3] \in Grouped(v[1]) /\ heap[v[1]].root # at
            /\ heap[v[2]].root = at /\ heap[v[2]].tokens[v[3]] = Nil
            /\ heap[v[2]].handlers = heap[v[1]].handlers
            /\ v[2] = w[2] => v[1] = w[1]
        BY <3>1 DEF TreeInv, CloneInProgress
      <4>2. /\ v[1] \in DOMAIN heap /\ v[2] \in DOMAIN heap /\ v[3] \in Token
            /\ v = <<v[1], v[2], v[3]>>
        BY <3>1, <1>4, <1>5
      <4>3. ~ (v[2] = p /\ v[3] = tok)
        BY <3>1, <4>1, <4>2, <1>4, <1>5
      <4>4. QED
        BY <4>1, <4>2, <4>3, <1>7, <1>8
    <3>2. CASE v \in Subtrees(child, f)
      <4>1. PICK u \in Grouped(child) : v = <<child, f, u>>
        BY <3>2 DEF Subtrees
      <4>2. v[1] = child /\ v[2] = f /\ v[3] = u /\ u \in Token
        BY <4>1 DEF Grouped
      <4>3. QED
        BY <4>1, <4>2, <1>4, <1>5, <1>7, <1>8
    <3>3. QED
      BY <3>1, <3>2, <2>2
  <2>4. ASSUME NEW u \in todo', NEW v \in todo', u[2] = v[2]
        PROVE  u[1] = v[1]
    <3>1. \A x \in todo : x[2] \in DOMAIN heap
      BY <1>4, <1>5
    <3>2. \A x \in Subtrees(child, f) : x[1] = child /\ x[2] = f
      BY DEF Subtrees
    <3>3. \A x, y \in todo : x[2] = y[2] => x[1] = y[1]
      BY DEF TreeInv, CloneInProgress
    <3>4. QED
      BY <2>2, <2>4, <3>1, <3>2, <3>3, <1>8
  <2>5. QED
    BY <2>1, <2>3, <2>4, <1>4, <1>5 DEF CloneInProgress
<1>14. QED
  BY <1>9, <1>10, <1>11, <1>12, <1>13 DEF TreeInv

\* What the call of Clone does to the heap: the root f of the clone is added.
LEMMA CallCloneRoots ==
  ASSUME TreeInv, NEW t \in held, CallClone(t), NEW f, f = Fresh
  PROVE  /\ t \in DOMAIN heap /\ todo = {} /\ todo' = Subtrees(t, f)
         /\ f \in Nat \ {0} /\ f # Language /\ f \notin DOMAIN heap
         /\ at' = f /\ pc' = "clone"
         /\ heap' \in Seq(Node) /\ DOMAIN heap' = DOMAIN heap \cup {f}
         /\ \A n \in DOMAIN heap : heap'[n] = heap[n] /\ n \in Nat \ {0} /\ n < f
         /\ heap'[f].root = f /\ heap'[f].path = <<>> /\ heap'[f].keys = <<>>
         /\ heap'[f].handlers = heap[t].handlers
         /\ \A u \in Token : heap'[f].tokens[u] = Nil
         /\ \A n \in DOMAIN heap : Grouped(n)' = Grouped(n) /\ Handled(n)' = Handled(n)
         /\ Grouped(f)' = {} /\ Handled(f)' = Handled(t)
<1> DEFINE node == CopyOf(t, Fresh, <<>>)
<1>1. /\ heap \in Seq(Node) /\ t \in DOMAIN heap
      /\ heap' = Append(heap, node) /\ todo' = Subtrees(t, Fresh)
      /\ at' = Fresh /\ pc' = "clone" /\ todo = {} /\ DOMAIN heap # {}
  BY DEF TreeInv, TypeOK, CallClone, CloneInProgress
<1>2. \A n \in DOMAIN heap : heap[n] \in Node /\ n \in Nat \ {0} /\ n < Fresh
  BY <1>1 DEF Fresh
<1>3. Fresh \in Nat \ {0} /\ Fresh # Language /\ Fresh \notin DOMAIN heap
  BY <1>1, <1>2 DEF Fresh, Language
<1>4. /\ node.root = Fresh /\ node.path = <<>> /\ node.keys = <<>>
      /\ node.handlers = heap[t].handlers
      /\ \A u \in Token : node.tokens[u] = Nil
  BY DEF CopyOf
<1>5. node \in Node
  <2>1. heap[t].handlers \in [Token -> Handler \cup {None}]
    BY <1>1, <1>2 DEF Node
  <2>2. [u \in Token |-> Nil] \in [Token -> Nat] /\ <<>> \in Seq(Token)
    BY DEF Nil
  <2>3. QED
    BY <1>3, <2>1, <2>2, RecordType DEF CopyOf
<1> HIDE DEF node
<1>6. /\ heap' \in Seq(Node) /\ DOMAIN heap' = DOMAIN heap \cup {f}
      /\ heap'[f] = node /\ \A n \in DOMAIN heap : heap'[n] = heap[n]
  BY <1>1, <1>5, RootedHeap
<1>7. /\ \A n \in DOMAIN heap : Grouped(n)' = Grouped(n) /\ Handled(n)' = Handled(n)
      /\ Grouped(f)' = {} /\ Handled(f)' = Handled(t)
  BY <1>4, <1>6 DEF Grouped, Handled
<1>8. QED
  BY <1>1, <1>2, <1>3, <1>4, <1>6, <1>7

\* Clone makes a root: a tree of its own, in which nothing is copied yet.
LEMMA CallCloneKeeps ==
  ASSUME TreeInv, NEW t \in held, CallClone(t)
  PROVE  TreeInv'
<1>1. PICK f : f = Fresh
  OBVIOUS
<1>2. /\ t \in DOMAIN heap /\ todo = {} /\ todo' = Subtrees(t, f)
      /\ f \in Nat \ {0} /\ f # Language /\ f \notin DOMAIN heap
      /\ at' = f /\ pc' = "clone"
      /\ heap' \in Seq(Node) /\ DOMAIN heap' = DOMAIN heap \cup {f}
      /\ \A n \in DOMAIN heap : heap'[n] = heap[n] /\ n \in Nat \ {0} /\ n < f
      /\ heap'[f].root = f /\ heap'[f].path = <<>> /\ heap'[f].keys = <<>>
      /\ heap'[f].handlers = heap[t].handlers
      /\ \A u \in Token : heap'[f].tokens[u] = Nil
      /\ \A n \in DOMAIN heap : Grouped(n)' = Grouped(n) /\ Handled(n)' = Handled(n)
      /\ Grouped(f)' = {} /\ Handled(f)' = Handled(t)
  BY <1>1, CallCloneRoots
<1>3. TypeOK'
  <2>1. todo' \subseteq (DOMAIN heap') \X (DOMAIN heap') \X Token
    BY <1>2 DEF Subtrees, Grouped
  <2>2. out' \in Result /\ read' \in Seq(Token)
    BY DEF CallClone, Called, NoResult, Result
  <2>3. QED
    BY <1>2, <2>1, <2>2 DEF TreeInv, TypeOK, CallClone
<1>4. RootsAreNamed'
  <2>1. \A n \in DOMAIN heap :
          heap[n].root \in 1 .. n /\ (heap[n].path = <<>> => heap[n].root = n)
    BY DEF TreeInv, RootsAreNamed
  <2>2. f \in 1 .. f
    BY <1>2
  <2>3. QED
    BY <1>2, <2>1, <2>2 DEF RootsAreNamed
<1>5. SubtreesBelongToTheirParent'
  BY <1>2 DEF TreeInv, SubtreesBelongToTheirParent
<1>6. NodesHaveParents'
  <2>1. /\ DOMAIN heap' = DOMAIN heap \cup {f} /\ heap'[f].path = <<>>
        /\ \A n \in DOMAIN heap : heap'[n] = heap[n]
    BY <1>2
  <2>2. QED
    BY <2>1 DEF TreeInv, NodesHaveParents
<1>7. PlacesAreUnique'
  <2>1. \A n \in DOMAIN heap : heap[n].root # f
    BY <1>2 DEF TreeInv, RootsAreNamed
  <2>2. QED
    BY <1>2, <2>1 DEF TreeInv, PlacesAreUnique
<1>8. NoTokenIsBoth'
  BY <1>2 DEF TreeInv, NoTokenIsBoth
<1>9. KeysListTokens'
  <2>1. Listed(heap'[f].keys) = {} /\ heap'[f].root # Language /\ heap'[f].keys = <<>>
    BY <1>2 DEF Listed
  <2>2. \A n \in DOMAIN heap : Valid(n)' = Valid(n)
    BY <1>2 DEF Valid
  <2>3. QED
    BY <1>2, <2>1, <2>2 DEF TreeInv, KeysListTokens
<1>10. CloneInProgress'
  <2>1. heap'[f].root = f /\ f # Language
    BY <1>2
  <2>2. heap[t].root # f
    BY <1>2 DEF TreeInv, RootsAreNamed
  <2>3. \A w \in todo' : w[1] = t /\ w[2] = f /\ w[3] \in Grouped(t)
    BY <1>2 DEF Subtrees
  <2>4. \A u \in Grouped(t) : u \in Token
    BY DEF Grouped
  <2>5. QED
    BY <1>2, <2>1, <2>2, <2>3, <2>4 DEF CloneInProgress
<1>11. QED
  BY <1>3, <1>4, <1>5, <1>6, <1>7, <1>8, <1>9, <1>10 DEF TreeInv

\* What Handle does to the heap when there is no conflict.
LEMMA HandlerIsAdded ==
  ASSUME TreeInv, NEW t \in held, NEW tok \in Token, NEW h \in Handler,
         Handle(t, tok, h), tok \notin Valid(t)
  PROVE  /\ t \in DOMAIN heap /\ heap[t].keys \in Seq(Token)
         /\ heap' \in Seq(Node) /\ DOMAIN heap' = DOMAIN heap
         /\ \A n \in DOMAIN heap :
              /\ n # t => heap'[n] = heap[n]
              /\ heap'[n].root = heap[n].root /\ heap'[n].path = heap[n].path
              /\ heap'[n].tokens = heap[n].tokens
         /\ heap'[t].keys = Append(heap[t].keys, tok)
         /\ \A u \in Token :
              heap'[t].handlers[u] = IF u = tok THEN h ELSE heap[t].handlers[u]
         /\ \A n \in DOMAIN heap :
              /\ Grouped(n)' = Grouped(n)
              /\ Handled(n)' = IF n = t THEN Handled(n) \cup {tok} ELSE Handled(n)
<1>1. heap \in Seq(Node) /\ t \in DOMAIN heap
  BY DEF TreeInv, TypeOK
<1>2. PICK keys : keys = Append(heap[t].keys, tok)
  OBVIOUS
<1>3. heap[t] \in Node /\ DOMAIN heap = 1 .. Len(heap)
  BY <1>1
<1>4. heap[t].keys \in Seq(Token)
  BY <1>3 DEF Node
<1>5. keys \in Seq(Token)
  BY <1>2, <1>4
<1>6. heap' = HandlerAdded(t, tok, h, keys)
  <2>1. heap' = [heap EXCEPT ![t].handlers[tok] = h,
                             ![t].keys = Append(@, tok)]
    BY <1>1 DEF Handle
  <2>2. [heap EXCEPT ![t].handlers[tok] = h, ![t].keys = Append(@, tok)]
          = HandlerAdded(t, tok, h, keys)
    BY <1>2, <1>3 DEF Node, HandlerAdded
  <2>3. QED
    BY <2>1, <2>2
<1>7. /\ heap' \in Seq(Node) /\ DOMAIN heap' = DOMAIN heap
      /\ \A n \in DOMAIN heap :
           /\ n # t => heap'[n] = heap[n]
           /\ heap'[n].root = heap[n].root /\ heap'[n].path = heap[n].path
           /\ heap'[n].tokens = heap[n].tokens
      /\ heap'[t].keys = keys
      /\ heap'[t].handlers = [heap[t].handlers EXCEPT ![tok] = h]
  BY <1>1, <1>6, <1>5, HandledHeap
<1>8. \A n \in DOMAIN heap :
        /\ Grouped(n)' = Grouped(n)
        /\ Handled(n)' = IF n = t THEN Handled(n) \cup {tok} ELSE Handled(n)
  <2>1. \A n \in DOMAIN heap : Grouped(n)' = Grouped(n)
    BY <1>7 DEF Grouped
  <2>2. \A n \in DOMAIN heap : n # t => Handled(n)' = Handled(n)
    BY <1>7 DEF Handled
  <2>3. h # None
    BY BoundAssumption
  <2>4. \A u \in Token :
          heap'[t].handlers[u] = IF u = tok THEN h ELSE heap[t].handlers[u]
    BY <1>3, <1>7 DEF Node
  <2>5. Handled(t)' = Handled(t) \cup {tok}
    BY <2>3, <2>4 DEF Handled
  <2>6. QED
    BY <2>1, <2>2, <2>5
<1>9. \A u \in Token :
        heap'[t].handlers[u] = IF u = tok THEN h ELSE heap[t].handlers[u]
  BY <1>1, <1>3, <1>7 DEF Node
<1>10. QED
  BY <1>1, <1>2, <1>4, <1>7, <1>8, <1>9

\* Handle adds a handler for a token that has neither a handler nor a subtree.
LEMMA HandleKeeps ==
  ASSUME TreeInv, NEW t \in held, NEW tok \in Token, NEW h \in Handler,
         Handle(t, tok, h)
  PROVE  TreeInv'
<1>1. /\ heap \in Seq(Node) /\ t \in DOMAIN heap /\ todo = {} /\ todo' = {}
      /\ at' = at /\ pc' \in {"idle", "panic"} /\ held' = held /\ trees' = trees
      /\ rest' = rest /\ start' = start
      /\ out' \in Result /\ read' \in Seq(Token)
  BY DEF TreeInv, TypeOK, Handle, CloneInProgress, Called, NoResult, Result
<1>2. CloneInProgress'
  BY <1>1 DEF CloneInProgress
<1>3. CASE heap' = heap
  <2>1. /\ TypeOK'
    BY <1>1, <1>3 DEF TreeInv, TypeOK
  <2>2. QED
    BY <1>2, <1>3, <2>1
       DEF TreeInv, RootsAreNamed, SubtreesBelongToTheirParent, NodesHaveParents,
           PlacesAreUnique, NoTokenIsBoth, KeysListTokens, Grouped, Handled, Valid
<1>4. CASE tok \notin Valid(t)
  <2>1. PICK keys : keys = Append(heap[t].keys, tok)
    OBVIOUS
  <2>2. heap[t].keys \in Seq(Token)
    BY <1>4, HandlerIsAdded
  <2>3. /\ heap' \in Seq(Node) /\ DOMAIN heap' = DOMAIN heap
        /\ \A n \in DOMAIN heap :
             /\ n # t => heap'[n] = heap[n]
             /\ heap'[n].root = heap[n].root /\ heap'[n].path = heap[n].path
             /\ heap'[n].tokens = heap[n].tokens
        /\ heap'[t].keys = keys
    BY <1>4, <2>1, HandlerIsAdded
  <2>4. \A n \in DOMAIN heap :
          /\ Grouped(n)' = Grouped(n)
          /\ Handled(n)' = IF n = t THEN Handled(n) \cup {tok} ELSE Handled(n)
    BY <1>4, HandlerIsAdded
  <2>5. TypeOK'
    BY <1>1, <2>3 DEF TreeInv, TypeOK
  <2>6. RootsAreNamed'
    BY <2>3 DEF TreeInv, RootsAreNamed
  <2>7. NodesHaveParents'
    <3>1. ASSUME NEW n \in DOMAIN heap
          PROVE  heap'[n].path = <<>> \/ \E p \in DOMAIN heap, u \in Token :
                   /\ heap'[p].root = heap'[n].root
                   /\ heap'[n].path = Append(heap'[p].path, u)
                   /\ heap'[p].tokens[u] = n
      <4>1. CASE heap[n].path = <<>>
        BY <4>1, <2>3
      <4>2. CASE heap[n].path # <<>>
        <5>1. PICK p \in DOMAIN heap, u \in Token :
                /\ heap[p].root = heap[n].root
                /\ heap[n].path = Append(heap[p].path, u)
                /\ heap[p].tokens[u] = n
          BY <4>2 DEF TreeInv, NodesHaveParents
        <5>2. /\ heap'[p].root = heap'[n].root
              /\ heap'[n].path = Append(heap'[p].path, u)
              /\ heap'[p].tokens[u] = n
          BY <5>1, <2>3
        <5>3. QED
          BY <5>2
      <4>3. QED
        BY <4>1, <4>2
    <3>2. QED
      BY <3>1, <2>3 DEF NodesHaveParents
  <2>8. PlacesAreUnique'
    BY <2>3 DEF TreeInv, PlacesAreUnique
  <2>9. SubtreesBelongToTheirParent'
    <3>1. ASSUME NEW n \in DOMAIN heap, NEW u \in Grouped(n)
          PROVE  /\ heap'[n].tokens[u] \in DOMAIN heap /\ n < heap'[n].tokens[u]
                 /\ heap'[heap'[n].tokens[u]].root = heap'[n].root
                 /\ heap'[heap'[n].tokens[u]].path = Append(heap'[n].path, u)
      <4>1. PICK c : c = heap[n].tokens[u]
        OBVIOUS
      <4>2. /\ c \in DOMAIN heap /\ n < c /\ heap[c].root = heap[n].root
            /\ heap[c].path = Append(heap[n].path, u)
        BY <4>1 DEF TreeInv, SubtreesBelongToTheirParent
      <4>3. heap'[n].tokens[u] = c
        BY <4>1, <2>3
      <4>4. QED
        BY <4>2, <4>3, <2>3
    <3>2. QED
      BY <3>1, <2>3, <2>4 DEF SubtreesBelongToTheirParent
  <2>10. NoTokenIsBoth'
    BY <1>4, <2>3, <2>4 DEF TreeInv, NoTokenIsBoth, Valid
  <2>11. KeysListTokens'
    <3>1. \A n \in DOMAIN heap :
            /\ Listed(heap[n].keys) \subseteq Valid(n)
            /\ \A j, k \in DOMAIN heap[n].keys :
                 heap[n].keys[j] = heap[n].keys[k] => j = k
            /\ heap[n].root = Language => Listed(heap[n].keys) = Valid(n)
      BY DEF TreeInv, KeysListTokens
    <3>2. /\ Listed(keys) = Listed(heap[t].keys) \cup {tok}
          /\ \A j, k \in DOMAIN keys : keys[j] = keys[k] => j = k
      BY <1>1, <1>4, <2>1, <2>2, <3>1, ListedAppend
    <3>3. /\ Valid(t)' = Valid(t) \cup {tok}
          /\ \A n \in DOMAIN heap : n # t => Valid(n)' = Valid(n)
      BY <1>1, <2>4 DEF Valid
    <3>4. ASSUME NEW n \in DOMAIN heap, n # t
          PROVE  /\ Listed(heap'[n].keys) \subseteq Valid(n)'
                 /\ \A j, k \in DOMAIN heap'[n].keys :
                      heap'[n].keys[j] = heap'[n].keys[k] => j = k
                 /\ heap'[n].root = Language => Listed(heap'[n].keys) = Valid(n)'
      BY <3>1, <3>3, <3>4, <2>3
    <3>5. /\ Listed(heap'[t].keys) \subseteq Valid(t)'
          /\ \A j, k \in DOMAIN heap'[t].keys :
               heap'[t].keys[j] = heap'[t].keys[k] => j = k
          /\ heap'[t].root = Language => Listed(heap'[t].keys) = Valid(t)'
      BY <1>1, <3>1, <3>2, <3>3, <2>3
    <3>6. QED
      BY <3>4, <3>5, <2>3 DEF KeysListTokens
  <2>12. QED
    BY <1>2, <2>5, <2>6, <2>7, <2>8, <2>9, <2>10, <2>11 DEF TreeInv
<1>5. QED
  BY <1>3, <1>4 DEF Handle

----------------------------------------------------------------------------
(* The other actions leave the heap alone.                                 *)

\* Keeping the heap, and starting no clone, keeps the invariant.
LEMMA SameHeapKeeps ==
  ASSUME TreeInv, heap' = heap, TypeOK', todo' = {}, pc' # "clone"
  PROVE  TreeInv'
<1>1. \A n : Grouped(n)' = Grouped(n) /\ Handled(n)' = Handled(n)
  BY DEF Grouped, Handled
<1>2. \A n : Valid(n)' = Valid(n)
  BY <1>1 DEF Valid
<1>3. RootsAreNamed' /\ NodesHaveParents' /\ PlacesAreUnique'
  BY DEF TreeInv, RootsAreNamed, NodesHaveParents, PlacesAreUnique
<1>4. SubtreesBelongToTheirParent' /\ NoTokenIsBoth'
  BY <1>1 DEF TreeInv, SubtreesBelongToTheirParent, NoTokenIsBoth
<1>5. KeysListTokens'
  BY <1>2 DEF TreeInv, KeysListTokens
<1>6. CloneInProgress'
  BY DEF CloneInProgress
<1>7. QED
  BY <1>3, <1>4, <1>5, <1>6 DEF TreeInv

\* What the invariant says of the types, and of calls that are not a clone.
LEMMA Types ==
  ASSUME TreeInv
  PROVE  /\ heap \in Seq(Node) /\ DOMAIN heap = 1 .. Len(heap) /\ Len(heap) \in Nat
         /\ Language \in DOMAIN heap /\ at \in DOMAIN heap
         /\ rest \in Seq(Token) /\ read \in Seq(Token) /\ out \in Result
         /\ pc # "clone" => todo = {}
         /\ \A n \in DOMAIN heap : \A tok \in Grouped(n) :
              tok \in Token /\ heap[n].tokens[tok] \in DOMAIN heap
<1>1. heap \in Seq(Node) /\ DOMAIN heap # {}
  BY DEF TreeInv, TypeOK
<1>2. DOMAIN heap = 1 .. Len(heap) /\ Len(heap) \in Nat
  BY <1>1
<1>3. Language \in DOMAIN heap
  BY <1>1, <1>2 DEF Language
<1>4. \A n \in DOMAIN heap : \A tok \in Grouped(n) :
        tok \in Token /\ heap[n].tokens[tok] \in DOMAIN heap
  BY DEF TreeInv, SubtreesBelongToTheirParent, Grouped
<1>5. QED
  BY <1>1, <1>2, <1>3, <1>4 DEF TreeInv, TypeOK, CloneInProgress

\* Group finds the token, fails, or returns; Clone returns.
LEMMA ReturnsKeep ==
  ASSUME TreeInv, GroupDescend \/ GroupConflict \/ GroupReturn \/ Recover
                    \/ CloneReturn
  PROVE  TreeInv'
<1>1. CASE GroupDescend
  <2>1. /\ at' \in DOMAIN heap /\ rest' \in Seq(Token) /\ heap' = heap
        /\ todo' = {} /\ pc' = "group"
    BY <1>1, Types DEF GroupDescend
  <2>2. TypeOK'
    BY <1>1, <2>1 DEF TreeInv, TypeOK, GroupDescend
  <2>3. QED
    BY <2>1, <2>2, SameHeapKeeps
<1>2. CASE GroupConflict
  <2>1. TypeOK'
    BY <1>2, Types DEF TreeInv, TypeOK, GroupConflict, Return
  <2>2. QED
    BY <1>2, <2>1, SameHeapKeeps DEF GroupConflict, Return
<1>3. CASE GroupReturn
  <2>1. TypeOK'
    BY <1>3, Types DEF TreeInv, TypeOK, GroupReturn, Return
  <2>2. QED
    BY <1>3, <2>1, SameHeapKeeps DEF GroupReturn, Return
<1>4. CASE Recover
  <2>1. TypeOK'
    BY <1>4 DEF TreeInv, TypeOK, Recover
  <2>2. QED
    BY <1>4, <2>1, Types, SameHeapKeeps DEF Recover
<1>5. CASE CloneReturn
  <2>1. TypeOK'
    BY <1>5, Types DEF TreeInv, TypeOK, CloneReturn, Return
  <2>2. QED
    BY <1>5, <2>1, SameHeapKeeps DEF CloneReturn, Return
<1>6. QED
  BY <1>1, <1>2, <1>3, <1>4, <1>5

\* Parse only reads the tree.
LEMMA ParseKeeps ==
  ASSUME TreeInv, NEW tok \in Token,
         ParseDescend(tok) \/ ParseHandler(tok) \/ ParseError(tok)
  PROVE  TreeInv'
<1>1. CASE ParseDescend(tok)
  <2>1. /\ at' \in DOMAIN heap /\ read' \in Seq(Token) /\ heap' = heap
        /\ todo' = {} /\ pc' = "parse"
    BY <1>1, Types DEF ParseDescend
  <2>2. TypeOK'
    BY <1>1, <2>1 DEF TreeInv, TypeOK, ParseDescend
  <2>3. QED
    BY <2>1, <2>2, SameHeapKeeps
<1>2. CASE ParseHandler(tok)
  <2>1. heap[at].handlers[tok] \in Handler
    <3>1. heap[at] \in Node
      BY Types
    <3>2. heap[at].handlers[tok] \in Handler \cup {None}
      BY <3>1 DEF Node
    <3>3. QED
      BY <1>2, <3>2 DEF ParseHandler, Handled
  <2>2. out' \in Result /\ read' \in Seq(Token)
    BY <1>2, <2>1, Types DEF ParseHandler, Result
  <2>3. TypeOK'
    BY <1>2, <2>2, Types DEF TreeInv, TypeOK, ParseHandler, Return
  <2>4. QED
    BY <1>2, <2>3, SameHeapKeeps DEF ParseHandler, Return
<1>3. CASE ParseError(tok)
  <2>1. heap[at].keys \in Seq(Token)
    <3>1. heap[at] \in Node
      BY Types
    <3>2. QED
      BY <3>1 DEF Node
  <2>2. Valid(at) \subseteq Token
    BY DEF Valid, Grouped, Handled
  <2>3. out' \in Result /\ read' \in Seq(Token)
    BY <1>3, <2>1, <2>2, Types DEF ParseError, Result
  <2>4. TypeOK'
    BY <1>3, <2>3, Types DEF TreeInv, TypeOK, ParseError, Return
  <2>5. QED
    BY <1>3, <2>4, SameHeapKeeps DEF ParseError, Return
<1>4. QED
  BY <1>1, <1>2, <1>3

\* A call of Group or of Parse starts.
LEMMA CallsKeep ==
  ASSUME TreeInv, NEW t \in held,
         CallParse(t) \/ \E n \in 0 .. MaxPath : \E toks \in [1 .. n -> Token] :
                            CallGroup(t, toks)
  PROVE  TreeInv'
<1>1. t \in DOMAIN heap /\ NoResult \in Result /\ <<>> \in Seq(Token)
  BY DEF TreeInv, TypeOK, NoResult, Result
<1>2. CASE CallParse(t)
  <2>1. TypeOK'
    BY <1>1, <1>2 DEF TreeInv, TypeOK, CallParse, Called
  <2>2. QED
    BY <1>2, <2>1, Types, SameHeapKeeps DEF CallParse
<1>3. ASSUME NEW n \in 0 .. MaxPath, NEW toks \in [1 .. n -> Token],
             CallGroup(t, toks)
      PROVE  TreeInv'
  <2>1. toks \in Seq(Token)
    BY BoundAssumption, FunctionIsSequence
  <2>2. TypeOK'
    BY <1>1, <1>3, <2>1 DEF TreeInv, TypeOK, CallGroup, Called
  <2>3. QED
    BY <1>3, <2>2, Types, SameHeapKeeps DEF CallGroup
<1>4. QED
  BY <1>2, <1>3

----------------------------------------------------------------------------
(* The theorems.                                                           *)

\* The tree of the language alone satisfies the invariant.
LEMMA InitTree == Init => TreeInv
<1> SUFFICES ASSUME Init PROVE TreeInv
  OBVIOUS
<1> DEFINE root == NewNode(Language, <<>>)
<1>1. root \in Node
  <2>1. Language \in Nat /\ <<>> \in Seq(Token)
    BY DEF Language
  <2>2. QED
    BY <2>1, NewNodeType
<1>2. /\ root.root = Language /\ root.path = <<>> /\ root.keys = <<>>
      /\ \A u \in Token : root.tokens[u] = Nil /\ root.handlers[u] = None
  BY DEF NewNode
<1>3. heap = <<root>>
  BY DEF Init
<1> HIDE DEF root
<1>4. heap \in Seq(Node) /\ DOMAIN heap = {Language} /\ heap[Language] = root
  BY <1>1, <1>3 DEF Language
<1>5. Grouped(Language) = {} /\ Handled(Language) = {}
  BY <1>2, <1>4 DEF Grouped, Handled
<1>6. TypeOK
  <2>1. NoResult \in Result
    BY DEF NoResult, Result
  <2>2. QED
    BY <1>4, <2>1 DEF Init, TypeOK
<1>7. RootsAreNamed
  BY <1>2, <1>4 DEF RootsAreNamed, Language
<1>8. SubtreesBelongToTheirParent /\ NodesHaveParents /\ PlacesAreUnique
      /\ NoTokenIsBoth
  BY <1>2, <1>4, <1>5 DEF SubtreesBelongToTheirParent, NodesHaveParents,
     PlacesAreUnique, NoTokenIsBoth
<1>9. KeysListTokens
  <2>1. Listed(heap[Language].keys) = {} /\ DOMAIN heap[Language].keys = {}
    BY <1>2, <1>4 DEF Listed
  <2>2. QED
    BY <1>4, <1>5, <2>1 DEF KeysListTokens, Valid
<1>10. CloneInProgress
  BY DEF Init, CloneInProgress
<1>11. QED
  BY <1>6, <1>7, <1>8, <1>9, <1>10 DEF TreeInv

\* Every step keeps the invariant.
LEMMA NextTree == TreeInv /\ [Next]_vars => TreeInv'
<1> SUFFICES ASSUME TreeInv, [Next]_vars PROVE TreeInv'
  OBVIOUS
<1>1. CASE Call
  <2>1. PICK t \in held :
          \/ \E n \in 0 .. MaxPath : \E toks \in [1 .. n -> Token] : CallGroup(t, toks)
          \/ \E tok \in Token, h \in Handler : Handle(t, tok, h)
          \/ CallClone(t)
          \/ CallParse(t)
    BY <1>1 DEF Call
  <2>2. QED
    BY <2>1, CallsKeep, HandleKeeps, CallCloneKeeps
<1>2. CASE Continue
  BY <1>2, ReturnsKeep, GroupNewKeeps, CloneSubtreeKeeps, ParseKeeps DEF Continue
<1>3. CASE UNCHANGED vars
  <2>1. \A n : Grouped(n)' = Grouped(n) /\ Handled(n)' = Handled(n)
    BY <1>3 DEF vars, Grouped, Handled
  <2>2. TypeOK'
    BY <1>3 DEF vars, TreeInv, TypeOK
  <2>3. /\ RootsAreNamed' /\ NodesHaveParents' /\ PlacesAreUnique'
        /\ SubtreesBelongToTheirParent' /\ NoTokenIsBoth'
    BY <1>3, <2>1 DEF vars, TreeInv, RootsAreNamed, NodesHaveParents,
       PlacesAreUnique, SubtreesBelongToTheirParent, NoTokenIsBoth
  <2>4. KeysListTokens'
    BY <1>3, <2>1 DEF vars, TreeInv, KeysListTokens, Valid
  <2>5. CloneInProgress'
    BY <1>3, <2>1 DEF vars, TreeInv, CloneInProgress
  <2>6. QED
    BY <2>2, <2>3, <2>4, <2>5 DEF TreeInv
<1>4. QED
  BY <1>1, <1>2, <1>3 DEF Next

\* The inductive invariant holds in every reachable state.
LEMMA TreeInvariant == Spec => []TreeInv
<1>1. QED
  BY InitTree, NextTree, PTL DEF Spec

\* The variables have their types: no method follows a nil subtree.
THEOREM TypeCorrect == Spec => []TypeOK
<1>1. TreeInv => TypeOK
  BY DEF TreeInv
<1>2. QED
  BY <1>1, TreeInvariant, PTL

\* The trees share no node and have no cycle: whatever the calls of Group,
\* Handle and Clone, a subtree is in the tree of its parent, below it.
THEOREM TreesAreDisjoint == Spec => []SubtreesBelongToTheirParent
<1>1. TreeInv => SubtreesBelongToTheirParent
  BY DEF TreeInv
<1>2. QED
  BY <1>1, TreeInvariant, PTL

\* A token leads to a subtree or to a handler: Group and Handle refuse a
\* conflict and Clone makes none, so Parse hides no handler.
THEOREM TokensAreUnambiguous == Spec => []NoTokenIsBoth
<1>1. TreeInv => NoTokenIsBoth
  BY DEF TreeInv
<1>2. QED
  BY <1>1, TreeInvariant, PTL

\* Keys lists tokens of the node, each once, and all of them where the tree is
\* not a clone.
THEOREM KeysAreTokens == Spec => []KeysListTokens
<1>1. TreeInv => KeysListTokens
  BY DEF TreeInv
<1>2. QED
  BY <1>1, TreeInvariant, PTL

\* A tree has one node for each path: Group finds the subtree it made before.
THEOREM OneNodePerPath == Spec => []PlacesAreUnique
<1>1. TreeInv => PlacesAreUnique
  BY DEF TreeInv
<1>2. QED
  BY <1>1, TreeInvariant, PTL
=============================================================================
