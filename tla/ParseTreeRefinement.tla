------------------------ MODULE ParseTreeRefinement -------------------------
(***************************************************************************)
(* The parse trees implement the table of statements (CommandTable), for   *)
(* any tokens and handlers and any sequence of calls.                      *)
(*                                                                         *)
(* A node's path leads to it and to no other node, and every token on the  *)
(* way has a subtree: that makes a table prefix-free, and Parse finds what *)
(* the table has.  Clone needs the relation of the copy to the original    *)
(* while it is being made: what it has is there, and what is not there yet *)
(* lies below one of the subtrees it still has to copy.                    *)
(***************************************************************************)
EXTENDS ParseTreeProofs

----------------------------------------------------------------------------
(* Paths.                                                                  *)

Leads(p, q) == Commands!IsPrefixOf(p, q)

\* A path leads to another exactly when they agree as far as the first goes.
LEMMA LeadsElementwise ==
  ASSUME NEW p \in Seq(Token), NEW q \in Seq(Token)
  PROVE  Leads(p, q) <=> /\ Len(p) <= Len(q)
                         /\ \A k \in 1 .. Len(p) : q[k] = p[k]
<1> DEFINE s == SubSeq(q, 1, Len(p))
<1>1. Len(p) \in Nat /\ Len(q) \in Nat
  OBVIOUS
<1>2. ASSUME Len(p) <= Len(q)
      PROVE  /\ s \in Seq(Token) /\ Len(s) = Len(p)
             /\ \A k \in 1 .. Len(p) : s[k] = q[k]
  <2>1. \A k \in 1 .. Len(p) : q[k] \in Token
    BY <1>1, <1>2
  <2>2. /\ s \in Seq(Token)
        /\ Len(s) = IF 1 <= Len(p) THEN Len(p) - 1 + 1 ELSE 0
        /\ \A k \in 1 .. Len(p) - 1 + 1 : s[k] = q[1 + k - 1]
    BY <1>1, <2>1, SubSeqProperties
  <2>3. QED
    BY <1>1, <2>2
<1>3. ASSUME Len(p) <= Len(q), \A k \in 1 .. Len(p) : q[k] = p[k]
      PROVE  s = p
  BY <1>2, <1>3, SeqEqual
<1>4. ASSUME Len(p) <= Len(q), s = p, NEW k \in 1 .. Len(p)
      PROVE  q[k] = p[k]
  BY <1>2, <1>4
<1>5. QED
  BY <1>3, <1>4 DEF Leads, Commands!IsPrefixOf

\* A path that leads to another is that other one, or leads on with a token.
LEMMA LeadsOn ==
  ASSUME NEW p \in Seq(Token), NEW q \in Seq(Token), Leads(p, q), p # q
  PROVE  /\ Len(p) < Len(q)
         /\ q[Len(p) + 1] \in Token
         /\ SubSeq(q, 1, Len(p)) = p
         /\ Leads(Append(p, q[Len(p) + 1]), q)
<1>1. /\ Len(p) \in Nat /\ Len(q) \in Nat /\ Len(p) <= Len(q)
      /\ \A k \in 1 .. Len(p) : q[k] = p[k]
  BY LeadsElementwise
<1>2. Len(p) # Len(q)
  BY <1>1, SeqEqual
<1>3. Len(p) < Len(q) /\ q[Len(p) + 1] \in Token
  BY <1>1, <1>2
<1>4. PICK a \in Token : a = q[Len(p) + 1]
  BY <1>3
<1>5. PICK pa \in Seq(Token) : pa = Append(p, a)
  BY AppendProperties
<1>6. /\ Len(pa) = Len(p) + 1 /\ pa[Len(p) + 1] = a
      /\ \A k \in 1 .. Len(p) : pa[k] = p[k]
  BY <1>5, AppendProperties
<1>7. \A k \in 1 .. Len(p) + 1 : q[k] = pa[k]
  BY <1>1, <1>4, <1>6
<1>8. Leads(pa, q)
  BY <1>1, <1>3, <1>6, <1>7, LeadsElementwise
<1>9. QED
  BY <1>3, <1>4, <1>5, <1>8 DEF Leads, Commands!IsPrefixOf

\* A path that leads to one with a token more leads to it, or is that one.
LEMMA LeadsToAppend ==
  ASSUME NEW p \in Seq(Token), NEW q \in Seq(Token), NEW a \in Token
  PROVE  Leads(p, Append(q, a)) <=> Leads(p, q) \/ p = Append(q, a)
<1>1. PICK qa \in Seq(Token) : qa = Append(q, a)
  BY AppendProperties
<1>2. /\ Len(qa) = Len(q) + 1 /\ qa[Len(q) + 1] = a
      /\ \A k \in 1 .. Len(q) : qa[k] = q[k]
      /\ Len(p) \in Nat /\ Len(q) \in Nat
  BY <1>1, AppendProperties
<1>3. CASE Len(p) <= Len(q)
  <2>1. p # qa /\ Len(p) <= Len(qa)
    BY <1>2, <1>3
  <2>2. \A k \in 1 .. Len(p) : qa[k] = q[k]
    BY <1>2, <1>3
  <2>3. Leads(p, qa) <=> Leads(p, q)
    BY <1>3, <2>1, <2>2, LeadsElementwise
  <2>4. QED
    BY <1>1, <2>1, <2>3
<1>4. CASE Len(p) > Len(q)
  <2>1. ~ Leads(p, q)
    BY <1>2, <1>4, LeadsElementwise
  <2>2. ASSUME Leads(p, qa) PROVE p = qa
    <3>1. Len(p) <= Len(qa) /\ \A k \in 1 .. Len(p) : qa[k] = p[k]
      BY <2>2, LeadsElementwise
    <3>2. Len(p) = Len(qa)
      BY <1>2, <1>4, <3>1
    <3>3. QED
      BY <3>1, <3>2, SeqEqual
  <2>3. ASSUME p = qa PROVE Leads(p, qa)
    BY <1>2, <2>3, LeadsElementwise
  <2>4. QED
    BY <1>1, <2>1, <2>2, <2>3
<1>5. QED
  BY <1>2, <1>3, <1>4

\* A path leads to itself and to what follows it.
LEMMA LeadsToConcat ==
  ASSUME NEW p \in Seq(Token), NEW q \in Seq(Token)
  PROVE  /\ p \o q \in Seq(Token)
         /\ Leads(p, p) /\ Leads(p, p \o q)
         /\ SubSeq(p \o q, Len(p) + 1, Len(p \o q)) = q
<1>1. PICK pq : pq = p \o q
  OBVIOUS
<1>2. /\ pq \in Seq(Token) /\ Len(pq) = Len(p) + Len(q)
      /\ \A k \in 1 .. Len(p) + Len(q) :
           pq[k] = IF k <= Len(p) THEN p[k] ELSE q[k - Len(p)]
  <2>1. /\ p \o q \in Seq(Token) /\ Len(p \o q) = Len(p) + Len(q)
        /\ \A k \in 1 .. Len(p) + Len(q) :
             (p \o q)[k] = IF k <= Len(p) THEN p[k] ELSE q[k - Len(p)]
    BY ConcatProperties, Zenon
  <2>2. QED
    BY <1>1, <2>1, Zenon
<1>3. PICK m \in Nat, n \in Nat : m = Len(p) /\ n = Len(q)
  OBVIOUS
<1>4. PICK s : s = SubSeq(pq, m + 1, m + n)
  OBVIOUS
<1>5. /\ s \in Seq(Token) /\ Len(s) = n
      /\ \A k \in 1 .. n : s[k] = pq[m + k]
  <2>1. \A k \in m + 1 .. m + n : pq[k] \in Token
    BY <1>2, <1>3
  <2>2. /\ s \in Seq(Token)
        /\ Len(s) = IF m + 1 <= m + n THEN (m + n) - (m + 1) + 1 ELSE 0
        /\ \A k \in 1 .. (m + n) - (m + 1) + 1 : s[k] = pq[(m + 1) + k - 1]
    BY <1>4, <2>1, SubSeqProperties
  <2>3. /\ (m + n) - (m + 1) + 1 = n
        /\ (IF m + 1 <= m + n THEN n ELSE 0) = n
        /\ \A k \in 1 .. n : (m + 1) + k - 1 = m + k
    OBVIOUS
  <2>4. QED
    BY <2>2, <2>3
<1>6. ASSUME NEW k \in 1 .. n PROVE s[k] = q[k]
  <2>1. m + k \in 1 .. m + n /\ ~ (m + k <= m) /\ (m + k) - m = k
    OBVIOUS
  <2>2. pq[m + k] = q[k]
    BY <1>2, <1>3, <2>1
  <2>3. QED
    BY <1>5, <2>2
<1>7. s = q
  BY <1>3, <1>5, <1>6, SeqEqual
<1>8. /\ Len(p) <= Len(p) /\ Len(p) <= Len(pq)
      /\ \A k \in 1 .. Len(p) : p[k] = p[k] /\ pq[k] = p[k]
  BY <1>2, <1>3
<1>9. Leads(p, p) /\ Leads(p, pq)
  BY <1>2, <1>8, LeadsElementwise
<1>10. QED
  BY <1>1, <1>2, <1>3, <1>4, <1>7, <1>9

\* What is below a path is that path and more.
LEMMA LeadsIsConcat ==
  ASSUME NEW p \in Seq(Token), NEW q \in Seq(Token), Leads(p, q)
  PROVE  \E s \in Seq(Token) : q = p \o s
<1>1. Len(p) \in Nat /\ Len(q) \in Nat /\ Len(p) <= Len(q)
  BY LeadsElementwise
<1>2. SubSeq(q, 1, Len(p)) = p
  BY DEF Leads, Commands!IsPrefixOf
<1>3. SubSeq(q, 1, Len(p)) \o SubSeq(q, Len(p) + 1, Len(q)) = SubSeq(q, 1, Len(q))
  <2>1. PICK m \in 1 .. Len(q) + 1 : m = 1
    BY <1>1
  <2>2. Len(p) \in m - 1 .. Len(q) /\ Len(q) \in Len(p) .. Len(q)
    BY <1>1, <2>1
  <2>3. QED
    BY <2>1, <2>2, ConcatAdjacentSubSeq
<1>4. SubSeq(q, 1, Len(q)) = q
  BY SubSeqFull
<1>5. SubSeq(q, Len(p) + 1, Len(q)) \in Seq(Token)
  <2>1. \A k \in Len(p) + 1 .. Len(q) : q[k] \in Token
    BY <1>1
  <2>2. Len(p) + 1 \in Int /\ Len(q) \in Int
    BY <1>1
  <2>3. QED
    BY <2>1, <2>2, SubSeqProperties
<1>6. QED
  BY <1>2, <1>3, <1>4, <1>5

\* A token more, before or after putting two paths together.
LEMMA ConcatAppend ==
  ASSUME NEW p \in Seq(Token), NEW q \in Seq(Token), NEW a \in Token
  PROVE  p \o Append(q, a) = Append(p \o q, a)
<1>1. <<a>> \in Seq(Token) /\ p \o q \in Seq(Token)
  BY ConcatProperties
<1>2. Append(q, a) = q \o <<a>> /\ Append(p \o q, a) = (p \o q) \o <<a>>
  BY <1>1, AppendIsConcat
<1>3. QED
  BY <1>1, <1>2, ConcatAssociative

----------------------------------------------------------------------------
(* The inductive invariant.                                                *)

\* Every prefix of a node's path is the path of a node of its tree, which has
\* a subtree for the next token.
PrefixesExist ==
  \A n \in DOMAIN heap : \A k \in 0 .. Len(heap[n].path) - 1 :
    \E m \in DOMAIN heap :
      /\ heap[m].root = heap[n].root
      /\ heap[m].path = SubSeq(heap[n].path, 1, k)
      /\ heap[n].path[k + 1] \in Grouped(m)

\* What the program holds, and what a method works on, is in a finished tree;
\* the clone being made is not.  A method takes the last result away.
TreesAreReached ==
  /\ \A n \in held : heap[n].root \in trees
  /\ pc = "group" => heap[at].root \in trees
  /\ pc \in {"clone", "parse"} => heap[start].root \in trees /\ out = NoResult
  /\ pc = "clone" => at \notin trees

\* Parse is at the node that the tokens it has read lead to.
ParseFollowsThePath ==
  pc = "parse" => /\ heap[at].root = heap[start].root
                  /\ heap[at].path = heap[start].path \o read

\* c stands in the clone where o stands below the node that is cloned.
Original(o, c) ==
  /\ heap[o].root = heap[start].root
  /\ heap[o].path = heap[start].path \o heap[c].path
  /\ heap[o].handlers = heap[c].handlers

\* Every node of the clone has its original, and every node below the one that
\* is cloned has its copy, or is in a subtree that is still to be copied.
CloneCopiesTheTree ==
  pc = "clone" =>
    /\ \A c \in DOMAIN heap :
         heap[c].root = at => \E o \in DOMAIN heap : Original(o, c)
    /\ \A w \in todo : Original(w[1], w[2])
    /\ \A o \in DOMAIN heap :
         heap[o].root = heap[start].root /\ Leads(heap[start].path, heap[o].path) =>
           \/ \E c \in DOMAIN heap : heap[c].root = at /\ Original(o, c)
           \/ \E w \in todo : Leads(Append(heap[w[1]].path, w[3]), heap[o].path)

TableInv ==
  /\ TreeInv
  /\ PrefixesExist
  /\ TreesAreReached
  /\ ParseFollowsThePath
  /\ CloneCopiesTheTree

----------------------------------------------------------------------------
(* What paths say of nodes.                                                *)

\* The types of a node's fields.
LEMMA Fields ==
  ASSUME TypeOK, NEW n \in DOMAIN heap
  PROVE  /\ heap[n] \in Node /\ heap[n].root \in Nat /\ heap[n].path \in Seq(Token)
         /\ heap[n].handlers \in [Token -> Handler \cup {None}]
         /\ n \in Nat
<1>1. heap \in Seq(Node)
  BY DEF TypeOK
<1>2. heap[n] \in Node /\ n \in Nat
  BY <1>1
<1>3. QED
  BY <1>2 DEF Node

\* From a node to one further down there is a subtree on the way.
LEMMA Descends ==
  ASSUME TypeOK, PlacesAreUnique, PrefixesExist,
         NEW n \in DOMAIN heap, NEW o \in DOMAIN heap,
         heap[o].root = heap[n].root,
         Leads(heap[n].path, heap[o].path), heap[n].path # heap[o].path
  PROVE  /\ heap[o].path[Len(heap[n].path) + 1] \in Grouped(n)
         /\ Leads(Append(heap[n].path, heap[o].path[Len(heap[n].path) + 1]),
                  heap[o].path)
<1>1. PICK p \in Seq(Token), q \in Seq(Token) : p = heap[n].path /\ q = heap[o].path
  BY Fields
<1>2. /\ Len(p) < Len(q) /\ SubSeq(q, 1, Len(p)) = p
      /\ Leads(Append(p, q[Len(p) + 1]), q)
  BY <1>1, LeadsOn
<1>3. Len(p) \in 0 .. Len(q) - 1
  BY <1>2
<1>4. PICK m \in DOMAIN heap :
        /\ heap[m].root = heap[o].root
        /\ heap[m].path = SubSeq(q, 1, Len(p))
        /\ q[Len(p) + 1] \in Grouped(m)
  BY <1>1, <1>3 DEF PrefixesExist
<1>5. m = n
  BY <1>1, <1>2, <1>4 DEF PlacesAreUnique
<1>6. QED
  BY <1>1, <1>2, <1>4, <1>5

\* A token that has no subtree leads to no node.
LEMMA LeavesLeadNowhere ==
  ASSUME TypeOK, PlacesAreUnique, PrefixesExist,
         NEW n \in DOMAIN heap, NEW o \in DOMAIN heap,
         heap[o].root = heap[n].root,
         NEW tok \in Token, tok \notin Grouped(n)
  PROVE  ~ Leads(Append(heap[n].path, tok), heap[o].path)
<1> SUFFICES ASSUME Leads(Append(heap[n].path, tok), heap[o].path) PROVE FALSE
  OBVIOUS
<1>1. PICK p \in Seq(Token), q \in Seq(Token) : p = heap[n].path /\ q = heap[o].path
  BY Fields
<1>2. PICK pt \in Seq(Token) : pt = Append(p, tok)
  BY AppendProperties
<1>3. /\ Len(pt) = Len(p) + 1 /\ pt[Len(p) + 1] = tok
      /\ \A k \in 1 .. Len(p) : pt[k] = p[k]
  BY <1>2, AppendProperties
<1>4. Len(pt) <= Len(q) /\ \A k \in 1 .. Len(pt) : q[k] = pt[k]
  BY <1>1, <1>2, LeadsElementwise
<1>5. /\ Len(p) \in Nat /\ Len(q) \in Nat /\ Len(p) < Len(q)
      /\ q[Len(p) + 1] = tok /\ \A k \in 1 .. Len(p) : q[k] = p[k]
  BY <1>3, <1>4
<1>6. Leads(p, q) /\ p # q
  BY <1>5, LeadsElementwise
<1>7. q[Len(p) + 1] \in Grouped(n)
  BY <1>1, <1>6, Descends
<1>8. QED
  BY <1>5, <1>7
----------------------------------------------------------------------------
(* Prefixes have nodes, whatever is added.                                 *)

\* Nodes that stay where they are, and lose no subtree, keep their prefixes.
LEMMA PrefixesStay ==
  ASSUME PrefixesExist, DOMAIN heap \subseteq DOMAIN heap',
         \A n \in DOMAIN heap :
           /\ heap'[n].root = heap[n].root /\ heap'[n].path = heap[n].path
           /\ Grouped(n) \subseteq Grouped(n)'
  PROVE  \A n \in DOMAIN heap : \A k \in 0 .. Len(heap'[n].path) - 1 :
           \E m \in DOMAIN heap' :
             /\ heap'[m].root = heap'[n].root
             /\ heap'[m].path = SubSeq(heap'[n].path, 1, k)
             /\ heap'[n].path[k + 1] \in Grouped(m)'
<1> TAKE n \in DOMAIN heap
<1> TAKE k \in 0 .. Len(heap'[n].path) - 1
<1>1. heap'[n].root = heap[n].root /\ heap'[n].path = heap[n].path
  OBVIOUS
<1>2. k \in 0 .. Len(heap[n].path) - 1
  BY <1>1
<1>3. PICK m \in DOMAIN heap :
        /\ heap[m].root = heap[n].root
        /\ heap[m].path = SubSeq(heap[n].path, 1, k)
        /\ heap[n].path[k + 1] \in Grouped(m)
  BY <1>2 DEF PrefixesExist
<1>4. /\ m \in DOMAIN heap'
      /\ heap'[m].root = heap[m].root /\ heap'[m].path = heap[m].path
      /\ Grouped(m) \subseteq Grouped(m)'
  OBVIOUS
<1>5. QED
  BY <1>1, <1>3, <1>4

\* A new subtree hangs from a node whose prefixes have nodes.
LEMMA SubtreeKeepsPrefixes ==
  ASSUME TypeOK, PrefixesExist,
         NEW p \in DOMAIN heap, NEW tok \in Token, NEW node \in Node, NEW keys,
         Extended(p, tok, node, keys),
         node.root = heap[p].root, node.path = Append(heap[p].path, tok)
  PROVE  PrefixesExist'
<1>1. /\ DOMAIN heap' = DOMAIN heap \cup {Fresh} /\ heap'[Fresh] = node
      /\ \A n \in DOMAIN heap :
           heap'[n].root = heap[n].root /\ heap'[n].path = heap[n].path
  BY DEF Extended, Changed
<1>2. /\ \A n \in DOMAIN heap : Grouped(n) \subseteq Grouped(n)'
      /\ tok \in Grouped(p)'
  <2>1. \A n \in DOMAIN heap :
          Grouped(n)' = IF n = p THEN Grouped(n) \cup {tok} ELSE Grouped(n)
    BY ExtendedTokens
  <2>2. QED
    BY <2>1
<1>3. \A n \in DOMAIN heap : \A k \in 0 .. Len(heap'[n].path) - 1 :
        \E m \in DOMAIN heap' :
          /\ heap'[m].root = heap'[n].root
          /\ heap'[m].path = SubSeq(heap'[n].path, 1, k)
          /\ heap'[n].path[k + 1] \in Grouped(m)'
  BY <1>1, <1>2, PrefixesStay
<1>4. PICK q \in Seq(Token), r \in Seq(Token) : q = heap[p].path /\ r = node.path
  BY Fields DEF Node
<1>5. /\ Len(r) = Len(q) + 1 /\ r[Len(q) + 1] = tok
      /\ \A i \in 1 .. Len(q) : r[i] = q[i]
      /\ Len(q) \in Nat
  BY <1>4, AppendProperties
<1>6. ASSUME NEW k \in 0 .. Len(r) - 1
      PROVE  \E m \in DOMAIN heap' :
               /\ heap'[m].root = node.root
               /\ heap'[m].path = SubSeq(r, 1, k)
               /\ r[k + 1] \in Grouped(m)'
  <2>1. CASE k = Len(q)
    <3>1. Leads(q, r)
      BY <1>5, LeadsElementwise
    <3>2. SubSeq(r, 1, k) = q
      BY <2>1, <3>1 DEF Leads, Commands!IsPrefixOf
    <3>3. QED
      BY <1>1, <1>2, <1>4, <1>5, <2>1, <3>2
  <2>2. CASE k # Len(q)
    <3>1. k \in 0 .. Len(q) - 1 /\ k \in Nat /\ k + 1 \in 1 .. Len(q)
      BY <1>5, <2>2
    <3>2. PICK m \in DOMAIN heap' :
            /\ heap'[m].root = heap'[p].root
            /\ heap'[m].path = SubSeq(heap'[p].path, 1, k)
            /\ heap'[p].path[k + 1] \in Grouped(m)'
      BY <1>1, <1>3, <1>4, <3>1
    <3>3. SubSeq(q, 1, k) = SubSeq(r, 1, k)
      <4>1. Len(SubSeq(q, 1, k)) = k /\ SubSeq(q, 1, k) \in Seq(Token)
        BY <3>1
      <4>2. Len(SubSeq(r, 1, k)) = k /\ SubSeq(r, 1, k) \in Seq(Token)
        BY <3>1, <1>5
      <4>3. \A i \in 1 .. k : SubSeq(q, 1, k)[i] = q[i] /\ SubSeq(r, 1, k)[i] = r[i]
        BY <3>1, <1>5
      <4>4. \A i \in 1 .. k : SubSeq(q, 1, k)[i] = SubSeq(r, 1, k)[i]
        BY <1>5, <3>1, <4>3
      <4>5. QED
        BY <4>1, <4>2, <4>4, SeqEqual
    <3>4. r[k + 1] = q[k + 1]
      BY <1>5, <3>1
    <3>5. QED
      BY <1>1, <1>4, <3>2, <3>3, <3>4
  <2>3. QED
    BY <2>1, <2>2
<1>7. ASSUME NEW n \in DOMAIN heap', NEW k \in 0 .. Len(heap'[n].path) - 1
      PROVE  \E m \in DOMAIN heap' :
               /\ heap'[m].root = heap'[n].root
               /\ heap'[m].path = SubSeq(heap'[n].path, 1, k)
               /\ heap'[n].path[k + 1] \in Grouped(m)'
  <2>1. CASE n = Fresh
    BY <2>1, <1>1, <1>4, <1>6
  <2>2. CASE n \in DOMAIN heap
    BY <2>2, <1>3
  <2>3. QED
    BY <2>1, <2>2, <1>1
<1>8. QED
  BY <1>7 DEF PrefixesExist
\* Every step keeps the prefixes.
LEMMA PrefixesKeep ==
  ASSUME TreeInv, PrefixesExist, [Next]_vars
  PROVE  PrefixesExist'
<1>1. TypeOK
  BY DEF TreeInv
<1>2. CASE heap' = heap
  <2>1. \A n : Grouped(n)' = Grouped(n)
    BY <1>2 DEF Grouped
  <2>2. QED
    BY <1>2, <2>1 DEF PrefixesExist
<1>3. CASE GroupNew
  <2>1. PICK tok, node, keys :
          /\ tok = Head(rest)
          /\ node = NewNode(heap[at].root, Append(heap[at].path, tok))
          /\ keys = Append(heap[at].keys, tok)
    OBVIOUS
  <2>2. /\ at \in DOMAIN heap /\ tok \in Token /\ node \in Node
        /\ Extended(at, tok, node, keys)
    BY <1>3, <2>1, GroupNewExtends
  <2>3. node.root = heap[at].root /\ node.path = Append(heap[at].path, tok)
    BY <2>1 DEF NewNode
  <2>4. QED
    BY <1>1, <2>2, <2>3, SubtreeKeepsPrefixes
<1>4. CASE CloneSubtree
  <2>1. PICK w \in todo : \E p, tok, child, node : Copied(w, p, tok, child, node)
    BY <1>4, CloneSubtreeExtends
  <2>2. PICK p, tok, child, node : Copied(w, p, tok, child, node)
    BY <2>1
  <2>3. /\ p \in DOMAIN heap /\ tok \in Token /\ node \in Node
        /\ Extended(p, tok, node, heap[p].keys)
        /\ node.root = heap[p].root /\ node.path = Append(heap[p].path, tok)
    BY <2>2 DEF Copied
  <2>4. QED
    BY <1>1, <2>3, SubtreeKeepsPrefixes
<1>5. ASSUME NEW t \in held, CallClone(t)
      PROVE  PrefixesExist'
  <2>1. PICK f : f = Fresh
    OBVIOUS
  <2>2. /\ DOMAIN heap' = DOMAIN heap \cup {f} /\ heap'[f].path = <<>>
        /\ \A n \in DOMAIN heap : heap'[n] = heap[n] /\ Grouped(n)' = Grouped(n)
    BY <1>5, <2>1, CallCloneRoots
  <2>3. \A n \in DOMAIN heap : \A k \in 0 .. Len(heap'[n].path) - 1 :
          \E m \in DOMAIN heap' :
            /\ heap'[m].root = heap'[n].root
            /\ heap'[m].path = SubSeq(heap'[n].path, 1, k)
            /\ heap'[n].path[k + 1] \in Grouped(m)'
    BY <2>2, PrefixesStay
  <2>4. Len(heap'[f].path) = 0
    BY <2>2
  <2>5. QED
    BY <2>2, <2>3, <2>4 DEF PrefixesExist
<1>6. ASSUME NEW t \in held, NEW tok \in Token, NEW h \in Handler, Handle(t, tok, h),
             heap' # heap
      PROVE  PrefixesExist'
  <2>1. tok \notin Valid(t)
    BY <1>6 DEF Handle
  <2>2. /\ DOMAIN heap' = DOMAIN heap
        /\ \A n \in DOMAIN heap :
             /\ heap'[n].root = heap[n].root /\ heap'[n].path = heap[n].path
             /\ Grouped(n)' = Grouped(n)
    BY <1>6, <2>1, HandlerIsAdded
  <2>3. QED
    BY <2>2, PrefixesStay DEF PrefixesExist
<1>7. CASE Call
  BY <1>2, <1>5, <1>6, <1>7 DEF Call, CallGroup, CallParse
<1>8. CASE Continue
  BY <1>2, <1>3, <1>4, <1>8
     DEF Continue, GroupDescend, GroupConflict, GroupReturn, Recover, CloneReturn,
         ParseDescend, ParseHandler, ParseError
<1>9. QED
  BY <1>2, <1>7, <1>8 DEF Next, vars
----------------------------------------------------------------------------
(* Trees, and the place of Parse.                                          *)

\* The heap grows by one node, and no handler is added to the others.
Grown(f) ==
  /\ f \notin DOMAIN heap /\ DOMAIN heap' = DOMAIN heap \cup {f}
  /\ \A n \in DOMAIN heap :
       /\ heap'[n].root = heap[n].root /\ heap'[n].path = heap[n].path
       /\ heap'[n].handlers = heap[n].handlers

\* Group adds a node without handlers to the tree it works on.
LEMMA GroupNewGrows ==
  ASSUME TreeInv, GroupNew, NEW f, f = Fresh
  PROVE  /\ Grown(f) /\ at \in DOMAIN heap
         /\ heap'[f].root = heap[at].root
         /\ \A u \in Token : heap'[f].handlers[u] = None
<1>1. PICK tok, node, keys :
        /\ tok = Head(rest)
        /\ node = NewNode(heap[at].root, Append(heap[at].path, tok))
        /\ keys = Append(heap[at].keys, tok)
  OBVIOUS
<1>2. at \in DOMAIN heap /\ Extended(at, tok, node, keys)
  BY <1>1, GroupNewExtends
<1>3. node.root = heap[at].root /\ \A u \in Token : node.handlers[u] = None
  BY <1>1 DEF NewNode
<1>4. Grown(f) /\ heap'[f] = node
  BY <1>2 DEF Extended, Changed, Grown
<1>5. QED
  BY <1>2, <1>3, <1>4

\* Clone adds a node to the clone.
LEMMA CloneSubtreeGrows ==
  ASSUME TreeInv, CloneSubtree, NEW f, f = Fresh
  PROVE  Grown(f) /\ heap'[f].root = at
<1>1. PICK w \in todo : \E p, tok, child, node : Copied(w, p, tok, child, node)
  BY CloneSubtreeExtends
<1>2. PICK p, tok, child, node : Copied(w, p, tok, child, node)
  BY <1>1
<1>3. Extended(p, tok, node, heap[p].keys) /\ node.root = at
  BY <1>2 DEF Copied
<1>4. Grown(f) /\ heap'[f] = node
  BY <1>3 DEF Extended, Changed, Grown
<1>5. QED
  BY <1>3, <1>4

\* A call of Clone adds the root of the clone.
LEMMA CallCloneGrows ==
  ASSUME TreeInv, NEW t \in held, CallClone(t), NEW f, f = Fresh
  PROVE  Grown(f) /\ heap'[f].root = f /\ at' = f
<1>1. /\ f \notin DOMAIN heap /\ DOMAIN heap' = DOMAIN heap \cup {f}
      /\ \A n \in DOMAIN heap : heap'[n] = heap[n]
      /\ heap'[f].root = f /\ at' = f
  BY CallCloneRoots
<1>2. QED
  BY <1>1 DEF Grown

\* Handle moves no node.
LEMMA HandleMovesNothing ==
  ASSUME TreeInv, NEW t \in held, NEW tok \in Token, NEW h \in Handler,
         Handle(t, tok, h)
  PROVE  /\ DOMAIN heap' = DOMAIN heap
         /\ \A n \in DOMAIN heap :
              heap'[n].root = heap[n].root /\ heap'[n].path = heap[n].path
<1>1. CASE tok \in Valid(t)
  BY <1>1 DEF Handle
<1>2. CASE tok \notin Valid(t)
  BY <1>2, HandlerIsAdded
<1>3. QED
  BY <1>1, <1>2

\* No node ever leaves its place.
LEMMA NodesStay ==
  ASSUME TreeInv, [Next]_vars
  PROVE  /\ DOMAIN heap \subseteq DOMAIN heap'
         /\ \A n \in DOMAIN heap :
              heap'[n].root = heap[n].root /\ heap'[n].path = heap[n].path
<1>1. CASE heap' = heap
  BY <1>1
<1>2. PICK f : f = Fresh
  OBVIOUS
<1>3. CASE Call
  <2>1. CASE \E t \in held : CallClone(t)
    BY <2>1, <1>2, CallCloneGrows DEF Grown
  <2>2. CASE \E t \in held : \E tok \in Token, h \in Handler : Handle(t, tok, h)
    BY <2>2, HandleMovesNothing
  <2>3. QED
    BY <1>1, <1>3, <2>1, <2>2 DEF Call, CallGroup, CallParse
<1>4. CASE GroupNew
  BY <1>2, <1>4, GroupNewGrows DEF Grown
<1>5. CASE CloneSubtree
  BY <1>2, <1>5, CloneSubtreeGrows DEF Grown
<1>6. CASE Continue
  BY <1>1, <1>4, <1>5, <1>6
     DEF Continue, GroupDescend, GroupConflict, GroupReturn, Recover, CloneReturn,
         ParseDescend, ParseHandler, ParseError
<1>7. QED
  BY <1>1, <1>3, <1>6 DEF Next, vars

\* What is held and worked on stays in a tree that is finished.
LEMMA ReachedKeep ==
  ASSUME TreeInv, TreesAreReached, [Next]_vars
  PROVE  TreesAreReached'
<1>1. /\ held \subseteq DOMAIN heap /\ trees \subseteq DOMAIN heap
      /\ at \in DOMAIN heap /\ start \in DOMAIN heap
  BY DEF TreeInv, TypeOK
<1>2. \A n \in DOMAIN heap : heap'[n].root = heap[n].root
  BY NodesStay
<1>3. \A n \in held : heap[n].root \in trees /\ heap'[n].root \in trees
  BY <1>1, <1>2 DEF TreesAreReached
<1>4. ASSUME held' = held, trees' = trees, pc' \in {"idle", "panic"}
      PROVE  TreesAreReached'
  BY <1>3, <1>4 DEF TreesAreReached
<1>5. CASE Call
  <2>1. PICK t \in held :
          \/ \E n \in 0 .. MaxPath : \E toks \in [1 .. n -> Token] : CallGroup(t, toks)
          \/ \E tok \in Token, h \in Handler : Handle(t, tok, h)
          \/ CallClone(t)
          \/ CallParse(t)
    BY <1>5 DEF Call
  <2>2. heap'[t].root \in trees
    BY <1>3
  <2>3. CASE \E n \in 0 .. MaxPath : \E toks \in [1 .. n -> Token] : CallGroup(t, toks)
    BY <2>2, <2>3, <1>3 DEF CallGroup, TreesAreReached
  <2>4. CASE \E tok \in Token, h \in Handler : Handle(t, tok, h)
    BY <2>4, <1>4 DEF Handle
  <2>5. CASE CallClone(t)
    <3>1. at' = Fresh /\ Fresh \notin DOMAIN heap
      BY <2>5, CallCloneGrows DEF Grown
    <3>2. at' \notin trees
      BY <1>1, <3>1
    <3>3. QED
      BY <2>2, <2>5, <1>3, <3>2 DEF CallClone, Called, TreesAreReached
  <2>6. CASE CallParse(t)
    BY <2>2, <2>6, <1>3 DEF CallParse, Called, TreesAreReached
  <2>7. QED
    BY <2>1, <2>3, <2>4, <2>5, <2>6
<1>6. CASE GroupDescend
  <2>1. heap[at].tokens[Head(rest)] \in DOMAIN heap
        /\ heap[heap[at].tokens[Head(rest)]].root = heap[at].root
    BY <1>1, <1>6 DEF GroupDescend, TreeInv, SubtreesBelongToTheirParent
  <2>2. QED
    BY <1>3, <1>6, <2>1 DEF GroupDescend, TreesAreReached
<1>7. CASE GroupNew
  <2>1. PICK f : f = Fresh
    OBVIOUS
  <2>2. heap'[f].root = heap[at].root /\ at' = f
    BY <1>7, <2>1, GroupNewGrows DEF GroupNew
  <2>3. pc = "group" /\ pc' = "group" /\ held' = held /\ trees' = trees
    BY <1>7 DEF GroupNew
  <2>4. heap[at].root \in trees
    BY <2>3 DEF TreesAreReached
  <2>5. QED
    BY <1>3, <2>2, <2>3, <2>4 DEF TreesAreReached
<1>8. CASE GroupReturn
  <2>1. heap'[at].root \in trees
    BY <1>1, <1>2, <1>8 DEF GroupReturn, TreesAreReached
  <2>2. QED
    BY <1>3, <1>8, <2>1 DEF GroupReturn, Return, TreesAreReached
<1>9. CASE CloneSubtree
  BY <1>1, <1>2, <1>3, <1>9 DEF CloneSubtree, TreesAreReached
<1>10. CASE CloneReturn
  <2>1. heap'[at].root = at
    BY <1>1, <1>2, <1>10 DEF CloneReturn, TreeInv, CloneInProgress
  <2>2. QED
    BY <1>3, <1>10, <2>1 DEF CloneReturn, Return, TreesAreReached
<1>11. CASE GroupConflict \/ Recover
  BY <1>4, <1>11 DEF GroupConflict, Recover, Return
<1>12. ASSUME NEW tok \in Token, ParseDescend(tok) \/ ParseHandler(tok) \/ ParseError(tok)
       PROVE  TreesAreReached'
  <2>1. CASE ParseDescend(tok)
    BY <1>3, <2>1 DEF ParseDescend, TreesAreReached
  <2>2. CASE ParseHandler(tok) \/ ParseError(tok)
    BY <1>4, <2>2 DEF ParseHandler, ParseError, Return
  <2>3. QED
    BY <1>12, <2>1, <2>2
<1>13. CASE UNCHANGED vars
  BY <1>13 DEF vars, TreesAreReached
<1>14. QED
  BY <1>5, <1>6, <1>7, <1>8, <1>9, <1>10, <1>11, <1>12, <1>13 DEF Next, Continue

\* Parse stays on the path of the tokens it reads.
LEMMA ParseFollows ==
  ASSUME TreeInv, ParseFollowsThePath, [Next]_vars
  PROVE  ParseFollowsThePath'
<1>1. CASE pc' # "parse"
  BY <1>1 DEF ParseFollowsThePath
<1>2. ASSUME NEW t \in held, CallParse(t)
      PROVE  ParseFollowsThePath'
  <2>1. t \in DOMAIN heap
    BY DEF TreeInv, TypeOK
  <2>2. heap[t].path \in Seq(Token)
    BY <2>1, Fields DEF TreeInv
  <2>3. heap[t].path \o <<>> = heap[t].path
    BY <2>2, ConcatEmptySeq
  <2>4. QED
    BY <1>2, <2>3 DEF CallParse, Called, ParseFollowsThePath
<1>3. ASSUME NEW tok \in Token, ParseDescend(tok)
      PROVE  ParseFollowsThePath'
  <2>1. PICK c : c = heap[at].tokens[tok]
    OBVIOUS
  <2>2. /\ at \in DOMAIN heap /\ start \in DOMAIN heap /\ read \in Seq(Token)
        /\ heap[c].root = heap[at].root
        /\ heap[c].path = Append(heap[at].path, tok)
    BY <1>3, <2>1 DEF ParseDescend, TreeInv, TypeOK, SubtreesBelongToTheirParent
  <2>3. heap[start].path \in Seq(Token)
    BY <2>2, Fields DEF TreeInv
  <2>4. heap[start].path \o Append(read, tok) = Append(heap[start].path \o read, tok)
    BY <2>2, <2>3, ConcatAppend
  <2>5. QED
    BY <1>3, <2>1, <2>2, <2>4 DEF ParseDescend, ParseFollowsThePath
<1>4. CASE UNCHANGED vars
  BY <1>4 DEF vars, ParseFollowsThePath
<1>5. CASE Call
  BY <1>1, <1>2, <1>5 DEF Call, CallGroup, Handle, CallClone
<1>6. CASE Continue
  BY <1>1, <1>3, <1>6
     DEF Continue, GroupDescend, GroupConflict, GroupNew, GroupReturn, Recover,
         CloneSubtree, CloneReturn, ParseHandler, ParseError, Return
<1>7. QED
  BY <1>4, <1>5, <1>6 DEF Next
----------------------------------------------------------------------------
(* The clone and its original.                                             *)

\* A subtree that is copied: its copy stands where it stands, and what is below
\* it is still to be copied.
LEMMA CopiesGrow ==
  ASSUME TreeInv, PrefixesExist, TreesAreReached, CloneCopiesTheTree, CloneSubtree
  PROVE  CloneCopiesTheTree'
<1>1. PICK w \in todo : \E p, tok, child, node : Copied(w, p, tok, child, node)
  BY CloneSubtreeExtends
<1>2. PICK p, tok, child, node : Copied(w, p, tok, child, node)
  BY <1>1
<1>3. PICK f : f = Fresh
  OBVIOUS
<1>4. /\ pc = "clone" /\ start' = start /\ at' = at
      /\ start \in DOMAIN heap /\ heap[start].root # at
      /\ todo \subseteq (DOMAIN heap) \X (DOMAIN heap) \X Token
  <2>1. pc = "clone" /\ start' = start /\ at' = at
    BY DEF CloneSubtree
  <2>2. heap[start].root # at
    BY <2>1 DEF TreesAreReached
  <2>3. QED
    BY <2>1, <2>2 DEF TreeInv, TypeOK
<1>5. /\ Grown(f) /\ heap'[f].root = at
      /\ heap'[f].path = Append(heap[p].path, tok)
      /\ heap'[f].handlers = heap[child].handlers
  <2>1. Grown(f) /\ heap'[f].root = at
    BY <1>3, CloneSubtreeGrows
  <2>2. heap'[f] = node
    BY <1>2, <1>3 DEF Copied, Extended
  <2>3. QED
    BY <2>1, <2>2, <1>2 DEF Copied
<1>6. /\ w[1] \in DOMAIN heap /\ p \in DOMAIN heap /\ tok \in Token
      /\ w[2] = p /\ w[3] = tok
      /\ child \in DOMAIN heap /\ heap[child].root = heap[w[1]].root
      /\ heap[child].path = Append(heap[w[1]].path, tok)
      /\ todo' = (todo \ {w}) \cup Subtrees(child, f)
  BY <1>2, <1>3 DEF Copied
<1>7. /\ \A n \in DOMAIN heap :
           /\ heap'[n].root = heap[n].root /\ heap'[n].path = heap[n].path
           /\ heap'[n].handlers = heap[n].handlers
      /\ f \notin DOMAIN heap /\ DOMAIN heap' = DOMAIN heap \cup {f}
  BY <1>5 DEF Grown
<1>8. \A o, c \in DOMAIN heap : Original(o, c)' <=> Original(o, c)
  BY <1>4, <1>7 DEF Original
<1>9. Original(child, f)'
  <2>1. Original(w[1], p)
    BY <1>4, <1>6 DEF CloneCopiesTheTree
  <2>2. heap[start].path \in Seq(Token) /\ heap[p].path \in Seq(Token)
    BY <1>4, <1>6, Fields DEF TreeInv
  <2>3. heap[start].path \o Append(heap[p].path, tok)
          = Append(heap[start].path \o heap[p].path, tok)
    BY <1>6, <2>2, ConcatAppend
  <2>4. heap[child].path = heap[start].path \o Append(heap[p].path, tok)
    BY <1>6, <2>1, <2>3 DEF Original
  <2>5. QED
    BY <1>4, <1>5, <1>6, <1>7, <2>1, <2>4 DEF Original
<1>10. /\ \A c \in DOMAIN heap :
            heap[c].root = at => \E o \in DOMAIN heap : Original(o, c)
       /\ \A v \in todo : Original(v[1], v[2])
       /\ \A o \in DOMAIN heap :
            heap[o].root = heap[start].root /\ Leads(heap[start].path, heap[o].path) =>
              \/ \E c \in DOMAIN heap : heap[c].root = at /\ Original(o, c)
              \/ \E v \in todo : Leads(Append(heap[v[1]].path, v[3]), heap[o].path)
  BY <1>4 DEF CloneCopiesTheTree
<1>11. \A c \in DOMAIN heap' :
         heap'[c].root = at => \E o \in DOMAIN heap' : Original(o, c)'
  BY <1>6, <1>7, <1>8, <1>9, <1>10
<1>12. ASSUME NEW v \in todo' PROVE Original(v[1], v[2])'
  <2>1. CASE v \in todo
    <3>1. v[1] \in DOMAIN heap /\ v[2] \in DOMAIN heap
      BY <1>4, <2>1
    <3>2. QED
      BY <1>8, <1>10, <2>1, <3>1
  <2>2. CASE v \in Subtrees(child, f)
    <3>1. v[1] = child /\ v[2] = f
      BY <2>2 DEF Subtrees
    <3>2. QED
      BY <1>9, <3>1
  <2>3. QED
    BY <1>6, <2>1, <2>2
<1>13. ASSUME NEW o \in DOMAIN heap', heap'[o].root = heap'[start].root,
              Leads(heap'[start].path, heap'[o].path)
       PROVE  \/ \E c \in DOMAIN heap' : heap'[c].root = at /\ Original(o, c)'
              \/ \E v \in todo' : Leads(Append(heap'[v[1]].path, v[3]), heap'[o].path)
  <2>1. /\ o \in DOMAIN heap /\ heap[o].root = heap[start].root
        /\ Leads(heap[start].path, heap[o].path)
        /\ heap'[o].path = heap[o].path
    BY <1>4, <1>5, <1>7, <1>13
  <2>2. CASE \E c \in DOMAIN heap : heap[c].root = at /\ Original(o, c)
    BY <1>7, <1>8, <2>1, <2>2
  <2>3. ASSUME NEW v \in todo, v # w, Leads(Append(heap[v[1]].path, v[3]), heap[o].path)
        PROVE  \E x \in todo' : Leads(Append(heap'[x[1]].path, x[3]), heap'[o].path)
    <3>1. v \in todo' /\ v[1] \in DOMAIN heap
      BY <1>4, <1>6, <2>3
    <3>2. Leads(Append(heap'[v[1]].path, v[3]), heap'[o].path)
      BY <1>7, <2>1, <2>3, <3>1
    <3>3. QED
      BY <3>1, <3>2
  <2>4. CASE Leads(heap[child].path, heap[o].path)
    <3>1. heap[o].root = heap[child].root
      <4>1. heap[w[1]].root = heap[start].root
        BY <1>10 DEF Original
      <4>2. QED
        BY <1>6, <2>1, <4>1
    <3>2. CASE heap[child].path = heap[o].path
      <4>1. o = child
        BY <1>6, <2>1, <3>1, <3>2 DEF TreeInv, PlacesAreUnique
      <4>2. QED
        BY <1>5, <1>7, <1>9, <4>1
    <3>3. CASE heap[child].path # heap[o].path
      <4>1. PICK u : u = heap[o].path[Len(heap[child].path) + 1]
        OBVIOUS
      <4>2. /\ u \in Grouped(child)
            /\ Leads(Append(heap[child].path, u), heap[o].path)
        BY <1>6, <2>1, <2>4, <3>1, <3>3, <4>1, Descends DEF TreeInv
      <4>3. PICK x : x = <<child, f, u>>
        OBVIOUS
      <4>4. x \in todo' /\ x[1] = child /\ x[3] = u
        BY <1>6, <4>2, <4>3 DEF Subtrees
      <4>5. Leads(Append(heap'[x[1]].path, x[3]), heap'[o].path)
        BY <1>6, <1>7, <2>1, <4>2, <4>4
      <4>6. QED
        BY <4>4, <4>5
    <3>4. QED
      BY <3>2, <3>3
  <2>5. QED
    BY <1>6, <1>10, <2>1, <2>2, <2>3, <2>4
<1>14. QED
  BY <1>4, <1>11, <1>12, <1>13 DEF CloneCopiesTheTree

\* A clone that starts: the root is copied, and what is below it is not.
LEMMA CopiesStart ==
  ASSUME TreeInv, PrefixesExist, NEW t \in held, CallClone(t)
  PROVE  CloneCopiesTheTree'
<1>1. PICK f : f = Fresh
  OBVIOUS
<1>2. /\ t \in DOMAIN heap /\ todo' = Subtrees(t, f)
      /\ f \notin DOMAIN heap /\ DOMAIN heap' = DOMAIN heap \cup {f}
      /\ \A n \in DOMAIN heap : heap'[n] = heap[n] /\ n \in Nat \ {0} /\ n < f
      /\ f \in Nat /\ at' = f
      /\ heap'[f].root = f /\ heap'[f].path = <<>>
      /\ heap'[f].handlers = heap[t].handlers
  BY <1>1, CallCloneRoots
<1>3. start' = t
  BY DEF CallClone
<1>4. \A n \in DOMAIN heap : heap[n].root # f
  BY <1>2 DEF TreeInv, RootsAreNamed
<1>5. Original(t, f)'
  <2>1. heap[t].path \in Seq(Token)
    BY <1>2, Fields DEF TreeInv
  <2>2. heap[t].path = heap[t].path \o <<>>
    BY <2>1, ConcatEmptySeq
  <2>3. QED
    BY <1>2, <1>3, <2>2 DEF Original
<1>6. \A c \in DOMAIN heap' :
        heap'[c].root = at' => \E o \in DOMAIN heap' : Original(o, c)'
  BY <1>2, <1>4, <1>5
<1>7. \A v \in todo' : Original(v[1], v[2])'
  <2>1. \A v \in todo' : v[1] = t /\ v[2] = f
    BY <1>2 DEF Subtrees
  <2>2. QED
    BY <1>5, <2>1
<1>8. ASSUME NEW o \in DOMAIN heap', heap'[o].root = heap'[t].root,
             Leads(heap'[t].path, heap'[o].path)
      PROVE  \/ \E c \in DOMAIN heap' : heap'[c].root = at' /\ Original(o, c)'
             \/ \E v \in todo' : Leads(Append(heap'[v[1]].path, v[3]), heap'[o].path)
  <2>1. /\ o \in DOMAIN heap /\ heap[o].root = heap[t].root
        /\ Leads(heap[t].path, heap[o].path)
    BY <1>2, <1>4, <1>8
  <2>2. CASE heap[t].path = heap[o].path
    <3>1. o = t
      BY <1>2, <2>1, <2>2 DEF TreeInv, PlacesAreUnique
    <3>2. QED
      BY <1>2, <1>5, <3>1
  <2>3. CASE heap[t].path # heap[o].path
    <3>1. PICK u : u = heap[o].path[Len(heap[t].path) + 1]
      OBVIOUS
    <3>2. u \in Grouped(t) /\ Leads(Append(heap[t].path, u), heap[o].path)
      BY <1>2, <2>1, <2>3, <3>1, Descends DEF TreeInv
    <3>3. PICK x : x = <<t, f, u>>
      OBVIOUS
    <3>4. x \in todo' /\ x[1] = t /\ x[3] = u
      BY <1>2, <3>2, <3>3 DEF Subtrees
    <3>5. Leads(Append(heap'[x[1]].path, x[3]), heap'[o].path)
      BY <1>2, <2>1, <3>2, <3>4
    <3>6. QED
      BY <3>4, <3>5
  <2>4. QED
    BY <2>2, <2>3
<1>9. QED
  BY <1>3, <1>6, <1>7, <1>8 DEF CloneCopiesTheTree
\* Every step keeps the relation of the clone to its original.
LEMMA CopiesKeep ==
  ASSUME TreeInv, PrefixesExist, TreesAreReached, CloneCopiesTheTree, [Next]_vars
  PROVE  CloneCopiesTheTree'
<1>1. CASE pc' # "clone"
  BY <1>1 DEF CloneCopiesTheTree
<1>2. CASE Call
  BY <1>1, <1>2, CopiesStart DEF Call, CallGroup, Handle, CallParse
<1>3. CASE Continue
  BY <1>1, <1>3, CopiesGrow
     DEF Continue, GroupDescend, GroupConflict, GroupNew, GroupReturn, Recover,
         CloneReturn, ParseDescend, ParseHandler, ParseError, Return
<1>4. CASE UNCHANGED vars
  BY <1>4 DEF vars, CloneCopiesTheTree, Original
<1>5. QED
  BY <1>2, <1>3, <1>4 DEF Next

\* The invariant holds at the start.
LEMMA InitTable == Init => TableInv
<1> SUFFICES ASSUME Init PROVE TableInv
  OBVIOUS
<1>1. TreeInv
  BY InitTree
<1>2. /\ DOMAIN heap = {Language} /\ heap[Language].path = <<>>
      /\ heap[Language].root = Language
  <2>1. heap = <<NewNode(Language, <<>>)>>
    BY DEF Init
  <2>2. DOMAIN heap = {1} /\ heap[1] = NewNode(Language, <<>>)
    BY <2>1
  <2>3. QED
    BY <2>2 DEF NewNode, Language
<1>3. PrefixesExist
  BY <1>2 DEF PrefixesExist
<1>4. TreesAreReached /\ ParseFollowsThePath /\ CloneCopiesTheTree
  BY <1>2 DEF Init, TreesAreReached, ParseFollowsThePath, CloneCopiesTheTree
<1>5. QED
  BY <1>1, <1>3, <1>4 DEF TableInv

\* Every step keeps the invariant.
LEMMA NextTable == TableInv /\ [Next]_vars => TableInv'
BY NextTree, PrefixesKeep, ReachedKeep, ParseFollows, CopiesKeep DEF TableInv

\* The inductive invariant holds in every reachable state.
LEMMA TableInvariant == Spec => []TableInv
<1>1. QED
  BY InitTable, NextTable, PTL DEF Spec

----------------------------------------------------------------------------
(* The table that the trees are.                                           *)

Table == [t \in trees |-> EntriesOf(t)]

Found == IF out.kind = "handler" THEN out.handler ELSE None

\* An entry is a handler of a node of the tree.
LEMMA EntryOf ==
  ASSUME NEW t, NEW e
  PROVE  e \in EntriesOf(t) <=>
           \E n \in DOMAIN heap, tok \in Token :
             /\ tok \in Handled(n)
             /\ heap[n].root = t
             /\ e = [path |-> Append(heap[n].path, tok),
                     handler |-> heap[n].handlers[tok]]
BY DEF EntriesOf, Handled

\* The same after a step.
LEMMA EntryOfNext ==
  ASSUME NEW t, NEW e
  PROVE  e \in EntriesOf(t)' <=>
           \E n \in DOMAIN heap', tok \in Token :
             /\ tok \in Handled(n)'
             /\ heap'[n].root = t
             /\ e = [path |-> Append(heap'[n].path, tok),
                     handler |-> heap'[n].handlers[tok]]
BY DEF EntriesOf, Handled

\* A tree that gets no handler keeps its entries.
LEMMA EntriesStay ==
  ASSUME NEW t, NEW f, Grown(f),
         heap'[f].root = t => \A u \in Token : heap'[f].handlers[u] = None
  PROVE  EntriesOf(t)' = EntriesOf(t)
<1>1. /\ DOMAIN heap' = DOMAIN heap \cup {f} /\ f \notin DOMAIN heap
      /\ \A n \in DOMAIN heap :
           /\ heap'[n].root = heap[n].root /\ heap'[n].path = heap[n].path
           /\ heap'[n].handlers = heap[n].handlers
           /\ Handled(n)' = Handled(n)
  BY DEF Grown, Handled
<1>2. heap'[f].root = t => Handled(f)' = {}
  BY DEF Handled
<1>3. ASSUME NEW e PROVE e \in EntriesOf(t)' <=> e \in EntriesOf(t)
  <2>1. ASSUME e \in EntriesOf(t) PROVE e \in EntriesOf(t)'
    <3>1. PICK n \in DOMAIN heap, tok \in Token :
            /\ tok \in Handled(n)
            /\ heap[n].root = t
            /\ e = [path |-> Append(heap[n].path, tok),
                    handler |-> heap[n].handlers[tok]]
      BY <2>1, EntryOf
    <3>2. /\ n \in DOMAIN heap' /\ tok \in Handled(n)' /\ heap'[n].root = t
          /\ e = [path |-> Append(heap'[n].path, tok),
                  handler |-> heap'[n].handlers[tok]]
      BY <1>1, <3>1
    <3>3. QED
      BY <3>2, EntryOfNext
  <2>2. ASSUME e \in EntriesOf(t)' PROVE e \in EntriesOf(t)
    <3>1. PICK n \in DOMAIN heap', tok \in Token :
            /\ tok \in Handled(n)'
            /\ heap'[n].root = t
            /\ e = [path |-> Append(heap'[n].path, tok),
                    handler |-> heap'[n].handlers[tok]]
      BY <2>2, EntryOfNext
    <3>2. n \in DOMAIN heap
      BY <1>1, <1>2, <3>1
    <3>3. /\ tok \in Handled(n) /\ heap[n].root = t
          /\ e = [path |-> Append(heap[n].path, tok),
                  handler |-> heap[n].handlers[tok]]
      BY <1>1, <3>1, <3>2
    <3>4. QED
      BY <3>2, <3>3, EntryOf
  <2>3. QED
    BY <2>1, <2>2
<1>4. QED
  BY <1>3

\* A heap that does not change keeps the entries of every tree.
LEMMA SameEntries ==
  ASSUME heap' = heap, NEW t
  PROVE  EntriesOf(t)' = EntriesOf(t)
BY DEF EntriesOf, Handled

\* The steps that change no table: the result of Parse is taken, or stays.
LEMMA TableTakes ==
  ASSUME trees' = trees, \A t \in trees : EntriesOf(t)' = EntriesOf(t),
         out' = NoResult, pc = "idle"
  PROVE  TableStep
<1>1. Table' = Table
  BY DEF Table
<1>2. Found' = None
  BY DEF Found, NoResult
<1>3. QED
  BY <1>1, <1>2 DEF TableStep, Commands!Take, Table, Found

\* A method that has not returned changes no table.
LEMMA TableStutters ==
  ASSUME trees' = trees, \A t \in trees : EntriesOf(t)' = EntriesOf(t), out' = out
  PROVE  UNCHANGED Commands!tvars
<1>1. Table' = Table
  BY DEF Table
<1>2. Found' = Found
  BY DEF Found
<1>3. QED
  BY <1>1, <1>2 DEF Commands!tvars, Table, Found
----------------------------------------------------------------------------
(* Handle registers an entry.                                              *)

\* The entry of a handler that is added is prefix-free with all that its tree
\* has.
LEMMA NewEntryIsFree ==
  ASSUME TableInv, NEW t \in DOMAIN heap, NEW tok \in Token, tok \notin Valid(t),
         NEW e \in EntriesOf(heap[t].root)
  PROVE  /\ ~ Leads(e.path, Append(heap[t].path, tok))
         /\ ~ Leads(Append(heap[t].path, tok), e.path)
<1>1. PICK n \in DOMAIN heap, u \in Token :
        /\ u \in Handled(n)
        /\ heap[n].root = heap[t].root
        /\ e = [path |-> Append(heap[n].path, u), handler |-> heap[n].handlers[u]]
  BY EntryOf
<1>2. u \in Token /\ u \notin Grouped(n) /\ tok \notin Grouped(t) /\ tok \notin Handled(t)
  BY <1>1 DEF TableInv, TreeInv, NoTokenIsBoth, Valid
<1>3. PICK p \in Seq(Token), q \in Seq(Token) : p = heap[n].path /\ q = heap[t].path
  BY Fields DEF TableInv, TreeInv
<1>4. PICK pu \in Seq(Token), qt \in Seq(Token) : pu = Append(p, u) /\ qt = Append(q, tok)
  BY <1>2, AppendProperties
<1>5. e.path = pu
  BY <1>1, <1>3, <1>4
<1>6. pu # qt
  <2> SUFFICES ASSUME pu = qt PROVE FALSE
    OBVIOUS
  <2>1. Append(p, u) = Append(q, tok)
    BY <1>4
  <2>2. p = q /\ u = tok
    BY <1>2, <2>1, AppendInjective
  <2>3. n = t
    BY <1>1, <1>3, <2>2 DEF TableInv, TreeInv, PlacesAreUnique
  <2>4. QED
    BY <1>1, <1>2, <2>2, <2>3
<1>7. ~ Leads(pu, q)
  BY <1>1, <1>2, <1>3, <1>4, LeavesLeadNowhere DEF TableInv, TreeInv
<1>8. ~ Leads(qt, p)
  BY <1>1, <1>2, <1>3, <1>4, LeavesLeadNowhere DEF TableInv, TreeInv
<1>9. ~ Leads(pu, qt)
  BY <1>2, <1>4, <1>6, <1>7, LeadsToAppend
<1>10. ~ Leads(qt, pu)
  BY <1>2, <1>4, <1>6, <1>8, LeadsToAppend
<1>11. QED
  BY <1>3, <1>4, <1>5, <1>9, <1>10

\* The entries after Handle: one more, in the tree of its node.
LEMMA HandleAddsAnEntry ==
  ASSUME TableInv, NEW t \in held, NEW tok \in Token, NEW h \in Handler,
         Handle(t, tok, h), tok \notin Valid(t), NEW r
  PROVE  EntriesOf(r)' = IF r = heap[t].root
                           THEN EntriesOf(r) \cup
                                  {[path |-> Append(heap[t].path, tok), handler |-> h]}
                           ELSE EntriesOf(r)
<1> DEFINE new == [path |-> Append(heap[t].path, tok), handler |-> h]
<1>1. /\ t \in DOMAIN heap /\ DOMAIN heap' = DOMAIN heap
      /\ \A n \in DOMAIN heap :
           /\ n # t => heap'[n] = heap[n]
           /\ heap'[n].root = heap[n].root /\ heap'[n].path = heap[n].path
      /\ \A u \in Token :
           heap'[t].handlers[u] = IF u = tok THEN h ELSE heap[t].handlers[u]
      /\ \A n \in DOMAIN heap :
           Handled(n)' = IF n = t THEN Handled(n) \cup {tok} ELSE Handled(n)
  BY HandlerIsAdded DEF TableInv
<1>2. tok \notin Handled(t) /\ \A n : Handled(n) \subseteq Token
  BY DEF Valid, Handled
<1>3. ASSUME NEW e
      PROVE  e \in EntriesOf(r)' <=>
               \/ e \in EntriesOf(r)
               \/ (r = heap[t].root /\ e = new)
  <2>1. ASSUME e \in EntriesOf(r)' PROVE e \in EntriesOf(r) \/ (r = heap[t].root /\ e = new)
    <3>1. PICK n \in DOMAIN heap', u \in Token :
            /\ u \in Handled(n)'
            /\ heap'[n].root = r
            /\ e = [path |-> Append(heap'[n].path, u), handler |-> heap'[n].handlers[u]]
      BY <2>1, EntryOfNext
    <3>2. CASE n = t /\ u = tok
      BY <3>1, <3>2, <1>1
    <3>3. CASE ~ (n = t /\ u = tok)
      <4>1. /\ n \in DOMAIN heap /\ u \in Handled(n) /\ heap[n].root = r
            /\ heap'[n].handlers[u] = heap[n].handlers[u]
        BY <3>1, <3>3, <1>1, <1>2
      <4>2. e = [path |-> Append(heap[n].path, u), handler |-> heap[n].handlers[u]]
        BY <3>1, <4>1, <1>1
      <4>3. QED
        BY <4>1, <4>2, EntryOf
    <3>4. QED
      BY <3>2, <3>3
  <2>2. ASSUME e \in EntriesOf(r) PROVE e \in EntriesOf(r)'
    <3>1. PICK n \in DOMAIN heap, u \in Token :
            /\ u \in Handled(n)
            /\ heap[n].root = r
            /\ e = [path |-> Append(heap[n].path, u), handler |-> heap[n].handlers[u]]
      BY <2>2, EntryOf
    <3>2. /\ n \in DOMAIN heap' /\ u \in Handled(n)' /\ heap'[n].root = r
          /\ heap'[n].handlers[u] = heap[n].handlers[u]
      BY <3>1, <1>1, <1>2
    <3>3. e = [path |-> Append(heap'[n].path, u), handler |-> heap'[n].handlers[u]]
      BY <3>1, <3>2, <1>1
    <3>4. QED
      BY <3>2, <3>3, EntryOfNext
  <2>3. ASSUME r = heap[t].root PROVE new \in EntriesOf(r)'
    <3>1. /\ t \in DOMAIN heap' /\ tok \in Handled(t)' /\ heap'[t].root = r
          /\ new = [path |-> Append(heap'[t].path, tok),
                    handler |-> heap'[t].handlers[tok]]
      BY <2>3, <1>1
    <3>2. QED
      BY <3>1, EntryOfNext
  <2>4. QED
    BY <2>1, <2>2, <2>3
<1>4. QED
  BY <1>3

\* A call of Handle is a step of the table.
LEMMA HandleRegisters ==
  ASSUME TableInv, NEW t \in held, NEW tok \in Token, NEW h \in Handler,
         Handle(t, tok, h)
  PROVE  TableStep
<1>1. t \in DOMAIN heap /\ heap[t].root \in trees
  BY DEF TableInv, TreeInv, TypeOK, TreesAreReached
<1>2. pc = "idle" /\ trees' = trees /\ out' = NoResult
  BY DEF Handle, Called
<1>3. CASE tok \in Valid(t)
  <2>1. heap' = heap
    BY <1>3 DEF Handle
  <2>2. QED
    BY <1>2, <2>1, SameEntries, TableTakes
<1>4. CASE tok \notin Valid(t)
  <2>1. PICK r, p : r = heap[t].root /\ p = Append(heap[t].path, tok)
    OBVIOUS
  <2>2. \A e \in Table[r] : ~ Leads(e.path, p) /\ ~ Leads(p, e.path)
    BY <1>1, <1>4, <2>1, NewEntryIsFree DEF Table
  <2>3. \A d \in trees :
          EntriesOf(d)' = IF d = r THEN EntriesOf(d) \cup {[path |-> p, handler |-> h]}
                          ELSE EntriesOf(d)
    BY <1>4, <2>1, HandleAddsAnEntry
  <2>4. Table' = [Table EXCEPT ![r] = @ \cup {[path |-> p, handler |-> h]}]
    BY <1>1, <1>2, <2>1, <2>3 DEF Table
  <2>5. Found' = None
    BY <1>2 DEF Found, NoResult
  <2>6. r \in DOMAIN Table
    BY <1>1, <2>1 DEF Table
  <2>7. Commands!Register(r, p, h)
    BY <2>2, <2>4, <2>5, <2>6 DEF Commands!Register, Leads, Table, Found
  <2>8. QED
    BY <1>2, <2>1, <2>7 DEF TableStep
<1>5. QED
  BY <1>3, <1>4

----------------------------------------------------------------------------
(* Parse finds the entry of the tokens it read.                            *)

\* A node's handler is the entry of its path and token, and no other entry of
\* the tree has that path.
LEMMA EntriesAreUnique ==
  ASSUME TableInv, NEW n \in DOMAIN heap, NEW tok \in Token,
         NEW e \in EntriesOf(heap[n].root), e.path = Append(heap[n].path, tok)
  PROVE  tok \in Handled(n) /\ e.handler = heap[n].handlers[tok]
<1>1. PICK m \in DOMAIN heap, u \in Token :
        /\ u \in Handled(m)
        /\ heap[m].root = heap[n].root
        /\ e = [path |-> Append(heap[m].path, u), handler |-> heap[m].handlers[u]]
  BY EntryOf
<1>2. PICK p \in Seq(Token), q \in Seq(Token) : p = heap[m].path /\ q = heap[n].path
  BY Fields DEF TableInv, TreeInv
<1>3. u \in Token
  BY DEF Handled
<1>4. Append(p, u) = Append(q, tok)
  BY <1>1, <1>2
<1>5. p = q /\ u = tok
  BY <1>3, <1>4, AppendInjective
<1>6. m = n
  BY <1>1, <1>2, <1>5 DEF TableInv, TreeInv, PlacesAreUnique
<1>7. QED
  BY <1>1, <1>5, <1>6

\* A Parse that returns is a lookup in the table.
LEMMA ParseFinds ==
  ASSUME TableInv, NEW tok \in Token, ParseHandler(tok) \/ ParseError(tok)
  PROVE  TableStep
<1>1. /\ pc = "parse" /\ heap' = heap /\ trees' = trees /\ read' = Append(read, tok)
  BY DEF ParseHandler, ParseError
<1>2. /\ at \in DOMAIN heap /\ start \in DOMAIN heap /\ read \in Seq(Token)
      /\ heap[at].root = heap[start].root /\ heap[start].root \in trees
      /\ heap[at].path = heap[start].path \o read
  BY <1>1 DEF TableInv, TreeInv, TypeOK, ParseFollowsThePath, TreesAreReached
<1>3. PICK r, p : r = heap[start].root /\ p = heap[start].path \o read'
  OBVIOUS
<1>4. p = Append(heap[at].path, tok)
  <2>1. heap[start].path \in Seq(Token)
    BY <1>2, Fields DEF TableInv, TreeInv
  <2>2. QED
    BY <1>1, <1>2, <1>3, <2>1, ConcatAppend
<1>5. \A e \in EntriesOf(r) :
        e.path = p => tok \in Handled(at) /\ e.handler = heap[at].handlers[tok]
  BY <1>2, <1>3, <1>4, EntriesAreUnique
<1>6. Found' = IF \E e \in Table[r] : e.path = p
                 THEN (CHOOSE e \in Table[r] : e.path = p).handler
                 ELSE None
  <2>1. Table[r] = EntriesOf(r)
    BY <1>2, <1>3 DEF Table
  <2>2. CASE ParseHandler(tok)
    <3>1. tok \in Handled(at) /\ Found' = heap[at].handlers[tok]
      BY <2>2 DEF ParseHandler, Found
    <3>2. \E e \in EntriesOf(r) : e.path = p
      <4>1. PICK e : e = [path |-> p, handler |-> heap[at].handlers[tok]]
        OBVIOUS
      <4>2. e \in EntriesOf(r)
        BY <1>2, <1>3, <1>4, <3>1, <4>1, EntryOf
      <4>3. QED
        BY <4>1, <4>2
    <3>3. PICK x : x = CHOOSE e \in EntriesOf(r) : e.path = p
      OBVIOUS
    <3>4. x \in EntriesOf(r) /\ x.path = p
      BY <3>2, <3>3
    <3>5. x.handler = heap[at].handlers[tok]
      BY <1>5, <3>4
    <3>6. QED
      BY <2>1, <3>1, <3>2, <3>3, <3>5
  <2>3. CASE ParseError(tok)
    <3>1. tok \notin Handled(at) /\ Found' = None
      BY <2>3 DEF ParseError, Valid, Found
    <3>2. ~ \E e \in EntriesOf(r) : e.path = p
      BY <1>5, <3>1
    <3>3. QED
      BY <2>1, <3>1, <3>2
  <2>4. QED
    BY <2>2, <2>3
<1>7. Table' = Table
  BY <1>1, SameEntries DEF Table
<1>8. r \in DOMAIN Table
  BY <1>2, <1>3 DEF Table
<1>9. Commands!Find(r, p)
  BY <1>6, <1>7, <1>8 DEF Commands!Find, Table, Found
<1>10. QED
  BY <1>1, <1>3, <1>9 DEF TableStep
----------------------------------------------------------------------------
(* A Clone that returns has copied the entries below its node.             *)

\* An entry below the node p, seen from it.
Shortened(e, p) ==
  [path |-> SubSeq(e.path, Len(p) + 1, Len(e.path)), handler |-> e.handler]

\* The path of a node of the clone with a token, and that of its original.
LEMMA ShortenedPath ==
  ASSUME TableInv, NEW o \in DOMAIN heap, NEW c \in DOMAIN heap, NEW u \in Token,
         Original(o, c),
         NEW e, e = [path |-> Append(heap[o].path, u), handler |-> heap[o].handlers[u]]
  PROVE  /\ Leads(heap[start].path, e.path)
         /\ Shortened(e, heap[start].path)
              = [path |-> Append(heap[c].path, u), handler |-> heap[o].handlers[u]]
<1>1. PICK p \in Seq(Token), q \in Seq(Token) :
        p = heap[start].path /\ q = heap[c].path
  BY Fields DEF TableInv, TreeInv, TypeOK
<1>2. PICK qu \in Seq(Token) : qu = Append(q, u)
  BY AppendProperties
<1>3. e.path = p \o qu
  <2>1. e.path = Append(p \o q, u)
    BY <1>1 DEF Original
  <2>2. p \o Append(q, u) = Append(p \o q, u)
    BY ConcatAppend
  <2>3. QED
    BY <1>2, <2>1, <2>2
<1>4. Leads(p, p \o qu) /\ SubSeq(p \o qu, Len(p) + 1, Len(p \o qu)) = qu
  BY LeadsToConcat
<1>5. e.handler = heap[o].handlers[u]
  OBVIOUS
<1>6. QED
  BY <1>1, <1>2, <1>3, <1>4, <1>5 DEF Shortened

\* The entries of a clone that is complete.
LEMMA CloneHasTheEntries ==
  ASSUME TableInv, pc = "clone", todo = {}
  PROVE  EntriesOf(at) =
           {Shortened(e, heap[start].path) :
              e \in {g \in EntriesOf(heap[start].root) : Leads(heap[start].path, g.path)}}
<1> DEFINE Copies ==
             {Shortened(e, heap[start].path) :
                e \in {g \in EntriesOf(heap[start].root) : Leads(heap[start].path, g.path)}}
<1>1. /\ \A c \in DOMAIN heap :
           heap[c].root = at => \E o \in DOMAIN heap : Original(o, c)
      /\ \A o \in DOMAIN heap :
           heap[o].root = heap[start].root /\ Leads(heap[start].path, heap[o].path) =>
             \E c \in DOMAIN heap : heap[c].root = at /\ Original(o, c)
  BY DEF TableInv, CloneCopiesTheTree
<1>2. \A n : Handled(n) \subseteq Token
  BY DEF Handled
<1>3. start \in DOMAIN heap /\ heap[start].path \in Seq(Token)
  BY Fields DEF TableInv, TreeInv, TypeOK
<1>4. ASSUME NEW x \in EntriesOf(at) PROVE x \in Copies
  <2>1. PICK c \in DOMAIN heap, u \in Token :
          /\ u \in Handled(c)
          /\ heap[c].root = at
          /\ x = [path |-> Append(heap[c].path, u), handler |-> heap[c].handlers[u]]
    BY EntryOf
  <2>2. PICK o \in DOMAIN heap : Original(o, c)
    BY <1>1, <2>1
  <2>3. u \in Handled(o) /\ heap[o].root = heap[start].root
    BY <2>1, <2>2 DEF Original, Handled
  <2>4. PICK e : e = [path |-> Append(heap[o].path, u), handler |-> heap[o].handlers[u]]
    OBVIOUS
  <2>5. e \in EntriesOf(heap[start].root)
    BY <2>3, <2>4, EntryOf
  <2>6. /\ Leads(heap[start].path, e.path)
        /\ Shortened(e, heap[start].path)
             = [path |-> Append(heap[c].path, u), handler |-> heap[o].handlers[u]]
    BY <2>2, <2>4, ShortenedPath
  <2>7. heap[o].handlers = heap[c].handlers
    BY <2>2 DEF Original
  <2>8. QED
    BY <2>1, <2>5, <2>6, <2>7
<1>5. ASSUME NEW x \in Copies PROVE x \in EntriesOf(at)
  <2>1. PICK e \in EntriesOf(heap[start].root) :
          Leads(heap[start].path, e.path) /\ x = Shortened(e, heap[start].path)
    OBVIOUS
  <2>2. PICK o \in DOMAIN heap, u \in Token :
          /\ u \in Handled(o)
          /\ heap[o].root = heap[start].root
          /\ e = [path |-> Append(heap[o].path, u), handler |-> heap[o].handlers[u]]
    BY EntryOf
  <2>3. u \in Token /\ u \notin Grouped(o) /\ heap[o].path \in Seq(Token)
    BY <2>2, Fields DEF TableInv, TreeInv, NoTokenIsBoth
  <2>4. heap[start].path # Append(heap[o].path, u)
    <3>1. ~ Leads(Append(heap[o].path, u), heap[start].path)
      BY <1>3, <2>2, <2>3, LeavesLeadNowhere DEF TableInv, TreeInv
    <3>2. Leads(heap[start].path, heap[start].path)
      BY <1>3, LeadsToConcat
    <3>3. QED
      BY <3>1, <3>2
  <2>5. Leads(heap[start].path, heap[o].path)
    BY <1>3, <2>1, <2>2, <2>3, <2>4, LeadsToAppend
  <2>6. PICK c \in DOMAIN heap : heap[c].root = at /\ Original(o, c)
    BY <1>1, <2>2, <2>5
  <2>7. x = [path |-> Append(heap[c].path, u), handler |-> heap[c].handlers[u]]
    <3>1. /\ Original(o, c)
          /\ e = [path |-> Append(heap[o].path, u), handler |-> heap[o].handlers[u]]
      BY <2>2, <2>6
    <3>2. Shortened(e, heap[start].path)
             = [path |-> Append(heap[c].path, u), handler |-> heap[o].handlers[u]]
      BY <3>1, ShortenedPath, Zenon
    <3>3. heap[o].handlers = heap[c].handlers
      BY <2>6 DEF Original
    <3>4. QED
      BY <2>1, <3>2, <3>3
  <2>8. u \in Handled(c)
    BY <2>2, <2>6 DEF Original, Handled
  <2>9. QED
    BY <2>6, <2>7, <2>8, EntryOf
<1>6. QED
  BY <1>4, <1>5

\* A Clone that returns is a step of the table.
LEMMA CloneReturnCopies ==
  ASSUME TableInv, CloneReturn
  PROVE  TableStep
<1>1. /\ pc = "clone" /\ todo = {} /\ heap' = heap /\ trees' = trees \cup {at}
      /\ out' = out
  BY DEF CloneReturn
<1>2. /\ heap[start].root \in trees /\ at \notin trees /\ out = NoResult
  BY <1>1 DEF TableInv, TreesAreReached
<1>3. PICK r, p, a : r = heap[start].root /\ p = heap[start].path /\ a = at
  OBVIOUS
<1>4. EntriesOf(a) = {Shortened(e, p) : e \in {g \in EntriesOf(r) : Leads(p, g.path)}}
  BY <1>1, <1>3, CloneHasTheEntries
<1>5. \A d : EntriesOf(d)' = EntriesOf(d)
  BY <1>1, SameEntries
<1>6. r \in DOMAIN Table /\ a \notin DOMAIN Table /\ DOMAIN Table = trees
      /\ \A d \in trees : Table[d] = EntriesOf(d)
  BY <1>2, <1>3 DEF Table
<1>7. Table' = [d \in DOMAIN Table \cup {a} |->
                  IF d # a THEN Table[d]
                  ELSE {Shortened(e, p) : e \in {g \in Table[r] : Leads(p, g.path)}}]
  <2>1. Table' = [d \in trees \cup {a} |-> EntriesOf(d)]
    BY <1>1, <1>3, <1>5 DEF Table
  <2>2. \A d \in trees \cup {a} :
          EntriesOf(d) = IF d # a THEN Table[d]
                         ELSE {Shortened(e, p) : e \in {g \in Table[r] : Leads(p, g.path)}}
    BY <1>4, <1>6
  <2>3. QED
    BY <1>6, <2>1, <2>2
<1>8. Found' = None
  BY <1>1, <1>2 DEF Found, NoResult
<1>9. Commands!Copy(r, p, a)
  BY <1>6, <1>7, <1>8 DEF Commands!Copy, Leads, Shortened, Table, Found
<1>10. QED
  BY <1>1, <1>3, <1>9 DEF TableStep

----------------------------------------------------------------------------
(* The theorem.                                                            *)

\* Every step of the trees is a step of the table, or changes nothing in it.
LEMMA StepsImplement ==
  ASSUME TableInv, [Next]_vars
  PROVE  [TableStep]_(Commands!tvars)
<1>1. TreeInv
  BY DEF TableInv
<1>2. ASSUME heap' = heap, trees' = trees, out' = out
      PROVE  UNCHANGED Commands!tvars
  BY <1>2, SameEntries, TableStutters
<1>3. ASSUME NEW t \in held, CallGroup(t, rest') \/ CallParse(t)
      PROVE  TableStep
  <2>1. heap' = heap /\ trees' = trees /\ out' = NoResult /\ pc = "idle"
    BY <1>3 DEF CallGroup, CallParse, Called
  <2>2. QED
    BY <2>1, SameEntries, TableTakes
<1>4. ASSUME NEW t \in held, CallClone(t)
      PROVE  TableStep
  <2>1. PICK f : f = Fresh
    OBVIOUS
  <2>2. Grown(f) /\ heap'[f].root = f
    BY <1>1, <1>4, <2>1, CallCloneGrows
  <2>3. f \notin trees
    BY <1>1, <2>2 DEF Grown, TreeInv, TypeOK
  <2>4. \A d \in trees : EntriesOf(d)' = EntriesOf(d)
    BY <2>2, <2>3, EntriesStay
  <2>5. QED
    BY <1>4, <2>4, TableTakes DEF CallClone, Called
<1>5. CASE GroupNew
  <2>1. PICK f : f = Fresh
    OBVIOUS
  <2>2. Grown(f) /\ \A u \in Token : heap'[f].handlers[u] = None
    BY <1>1, <1>5, <2>1, GroupNewGrows
  <2>3. \A d \in trees : EntriesOf(d)' = EntriesOf(d)
    BY <2>2, EntriesStay
  <2>4. QED
    BY <1>5, <2>3, TableStutters DEF GroupNew
<1>6. CASE CloneSubtree
  <2>1. PICK f : f = Fresh
    OBVIOUS
  <2>2. Grown(f) /\ heap'[f].root = at
    BY <1>1, <1>6, <2>1, CloneSubtreeGrows
  <2>3. at \notin trees
    BY <1>6 DEF CloneSubtree, TableInv, TreesAreReached
  <2>4. \A d \in trees : EntriesOf(d)' = EntriesOf(d)
    BY <2>2, <2>3, EntriesStay
  <2>5. QED
    BY <1>6, <2>4, TableStutters DEF CloneSubtree
<1>7. CASE Call
  <2>1. PICK t \in held :
          \/ \E n \in 0 .. MaxPath : \E toks \in [1 .. n -> Token] : CallGroup(t, toks)
          \/ \E tok \in Token, h \in Handler : Handle(t, tok, h)
          \/ CallClone(t)
          \/ CallParse(t)
    BY <1>7 DEF Call
  <2>2. CASE \E n \in 0 .. MaxPath : \E toks \in [1 .. n -> Token] : CallGroup(t, toks)
    BY <2>2, <1>3 DEF CallGroup
  <2>3. CASE \E tok \in Token, h \in Handler : Handle(t, tok, h)
    BY <2>3, HandleRegisters
  <2>4. QED
    BY <2>1, <2>2, <2>3, <1>3, <1>4
<1>8. CASE Continue
  BY <1>2, <1>5, <1>6, <1>8, CloneReturnCopies, ParseFinds
     DEF Continue, GroupDescend, GroupConflict, GroupReturn, Recover, ParseDescend
<1>9. CASE UNCHANGED vars
  BY <1>2, <1>9 DEF vars
<1>10. QED
  BY <1>7, <1>8, <1>9 DEF Next

\* At the start the language has no statement, and nothing was found.
LEMMA InitImplements == Init => Commands!TInit
<1> SUFFICES ASSUME Init PROVE Commands!TInit
  OBVIOUS
<1>1. heap = <<NewNode(Language, <<>>)>> /\ trees = {Language} /\ out = NoResult
  BY DEF Init
<1>2. DOMAIN heap = {1} /\ heap[1] = NewNode(Language, <<>>)
  BY <1>1
<1>3. Handled(1) = {}
  BY <1>2 DEF Handled, NewNode
<1>4. EntriesOf(Language) = {}
  <2>1. \A e : e \notin EntriesOf(Language)
    BY <1>2, <1>3, EntryOf
  <2>2. QED
    BY <2>1
<1>5. Table = [t \in {Language} |-> {}]
  BY <1>1, <1>4 DEF Table
<1>6. Found = None
  BY <1>1 DEF Found, NoResult
<1>7. QED
  BY <1>5, <1>6 DEF Commands!TInit, Table, Found

\* Group, Handle, Clone and Parse implement the table of statements: Handle
\* registers a statement that is prefix-free with the others, a Clone that
\* returns has the statements below its node, and Parse finds the handler of the
\* tokens it read exactly when the table has it.
THEOREM TreesImplementTheTable == Spec => ImplementsTheTable
<1>1. Init => Commands!TInit
  BY InitImplements
<1>2. TableInv /\ [Next]_vars => [TableStep]_(Commands!tvars)
  BY StepsImplement
<1>3. QED
  BY <1>1, <1>2, TableInvariant, PTL DEF Spec, ImplementsTheTable
=============================================================================
