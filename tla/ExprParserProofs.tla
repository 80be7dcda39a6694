-------------------------- MODULE ExprParserProofs --------------------------
(***************************************************************************)
(* Proofs about ParseExpr, for every alphabet, word size and scale and for *)
(* texts of every length.                                                  *)
(*                                                                         *)
(* BoundByPrecedence is not inductive: the loop changes the right-hand     *)
(* side of a node it has descended to.  What keeps the order is that every *)
(* node on the way binds less than the operator in hand, that the operand  *)
(* that is placed is never an operator the loop made, and that the only    *)
(* other binary nodes, the multiplications for a sign, stop the descent.   *)
(*                                                                         *)
(* That the tree reads the text in order has an invariant of its own: each *)
(* node stands for an interval of tokens, the operators that end together  *)
(* form a chain from the root to the right, and every open call begins     *)
(* behind what the ones around it have read.  A split gives the operators  *)
(* below the new one a later end, and leaves the intervals of all others.  *)
(***************************************************************************)
EXTENDS ExprParser, OperatorProofs

----------------------------------------------------------------------------
(* The inductive invariant.                                                *)

\* The operators of the heap h are binary nodes with operands; every other
\* binary node is a multiplication.
TreeOK(h, ops) ==
  /\ ops \subseteq DOMAIN h
  /\ \A i \in ops : /\ h[i].kind = "bin" /\ h[i].op \in Op
                    /\ h[i].lhs \in DOMAIN h /\ h[i].rhs \in DOMAIN h
                    /\ h[i].rhs \in ops => Precedence(h[h[i].rhs].op) > Precedence(h[i].op)
                    /\ h[i].lhs \in ops => Precedence(h[h[i].lhs].op) >= Precedence(h[i].op)
  /\ \A i \in DOMAIN h : h[i].kind = "bin" /\ i \notin ops => h[i].op = "MUL"

\* The k-th frame: its root is a dummy, with an operand below it as soon as
\* an operator was read.
FrameOK(f, h, k) ==
  /\ f \in Frame
  /\ f.root \in DOMAIN h /\ h[f.root].kind = "root"
  /\ f.op # "none" => h[f.root].rhs \in DOMAIN h
  /\ f.kind = "top" <=> k = 1

FramesOK ==
  /\ frames \in Seq(Frame) /\ frames # <<>>
  /\ \A k \in DOMAIN frames : FrameOK(frames[k], nodes, k)

\* The operand and the place of the descent.
PlaceOK ==
  /\ pc = "place" => /\ operand \in DOMAIN nodes \ operators
                     /\ Top.op # "none" =>
                          \/ node = Top.root
                          \/ /\ node \in operators
                             /\ Precedence(nodes[node].op) < Precedence(Top.op)
  /\ pc = "operator" => nodes[Top.root].rhs \in DOMAIN nodes
  /\ pc \in {"argument", "arguments"} => Top.kind = "call"

\* The sum of ParseDuration is the exact one up to multiples of 2^64.
DurationOK == pc = "duration" => Congruent(exact, dur.d)

Inv == TypeOK /\ TreeOK(nodes, operators) /\ FramesOK /\ PlaceOK /\ DurationOK

----------------------------------------------------------------------------
(* Nodes and frames.                                                       *)

LEMMA PrecedenceBound ==
  ASSUME NEW op \in Op
  PROVE  Precedence(op) \in Nat /\ Precedence(op) <= Precedence("MUL")
BY DEF Precedence, Comparison, Additive, Multiplicative, RegexOp, Op

LEMMA NoneIsNoOperator == "none" \notin Op /\ "MUL" \in Op
BY DEF Op, Comparison, Additive, Multiplicative, RegexOp

LEMMA NilLeaf == Nil \in Leaf
BY NameAssumption DEF Nil, Named, Leaf, Type

LEMMA NodeTypes ==
  /\ Root \in Node /\ Root.kind = "root"
  /\ \A leaf \in Leaf : LeafNode(leaf) \in Node /\ LeafNode(leaf).kind = "leaf"
  /\ \A x \in Nat : Paren(x) \in Node /\ Paren(x).kind = "paren"
  /\ \A leaf \in Leaf, args \in Seq(Nat) :
        CallNode(leaf, args) \in Node /\ CallNode(leaf, args).kind = "call"
  /\ \A op \in Op, l \in Nat, r \in Nat :
        Bin(op, l, r) \in Node /\ Bin(op, l, r).kind = "bin" /\ Bin(op, l, r).op = op
<1>1. Nil \in Leaf /\ <<>> \in Seq(Nat) /\ "none" \in Op \cup {"none"}
  BY NilLeaf
<1>2. Root \in Node /\ Root.kind = "root"
  BY <1>1 DEF Root, Node
<1>3. \A leaf \in Leaf : LeafNode(leaf) \in Node /\ LeafNode(leaf).kind = "leaf"
  BY <1>1 DEF LeafNode, Node
<1>4. \A x \in Nat : Paren(x) \in Node /\ Paren(x).kind = "paren"
  BY <1>1 DEF Paren, Node
<1>5. \A leaf \in Leaf, args \in Seq(Nat) :
        CallNode(leaf, args) \in Node /\ CallNode(leaf, args).kind = "call"
  BY <1>1 DEF CallNode, Node
<1>6. \A op \in Op, l \in Nat, r \in Nat :
        Bin(op, l, r) \in Node /\ Bin(op, l, r).kind = "bin" /\ Bin(op, l, r).op = op
  BY <1>1 DEF Bin, Node
<1> QED
  BY <1>2, <1>3, <1>4, <1>5, <1>6

\* A literal behind a minus sign is a literal.
LEMMA NegatedLeaf ==
  ASSUME NEW leaf \in Leaf, Negated(leaf) # <<>>
  PROVE  Negated(leaf)[1] \in Leaf
<1>1. leaf.v \in Int /\ leaf.type \in Type /\ leaf.name \in Name /\ leaf.den \in Nat \ {0}
  BY DEF Leaf
<1>2. CASE leaf.type \in {"int", "duration"}
  <2>1. Wrap(-leaf.v) \in Int
    <3>1. -leaf.v \in Int
      BY <1>1
    <3>2. Wrap(-leaf.v) \in Int64
      BY <3>1, WrapWord
    <3> QED
      BY <3>2, WordTypes DEF Int64
  <2>2. Negated(leaf) = <<Lit(leaf.type, Wrap(-leaf.v))>>
    BY <1>2 DEF Negated
  <2>3. Lit(leaf.type, Wrap(-leaf.v)) \in Leaf
    BY <1>1, <2>1, NameAssumption DEF Lit, Leaf
  <2> QED
    BY <2>2, <2>3
<1>3. CASE leaf.type = "float"
  <2>1. Negated(leaf) = <<[leaf EXCEPT !.v = -leaf.v]>>
    BY <1>3 DEF Negated
  <2>2. [leaf EXCEPT !.v = -leaf.v] \in Leaf
    BY <1>1 DEF Leaf
  <2> QED
    BY <2>1, <2>2
<1>4. CASE leaf.type = "uint" /\ leaf.v = MaxInt + 1
  <2>1. Negated(leaf) = <<Lit("int", MinInt)>>
    BY <1>4 DEF Negated
  <2>2. Lit("int", MinInt) \in Leaf
    BY WordTypes, NameAssumption DEF Lit, Leaf, Type
  <2> QED
    BY <2>1, <2>2
<1>5. CASE leaf.type \notin {"int", "duration", "float"} /\ ~(leaf.type = "uint" /\ leaf.v = MaxInt + 1)
  BY <1>5 DEF Negated
<1> QED
  BY <1>2, <1>3, <1>4, <1>5

\* An operand, with or without its sign, adds nodes to the heap of which
\* the only binary one is a multiplication, and the last is the operand.
LEMMA SignedNodes ==
  ASSUME nodes \in Seq(Node), NEW n \in Node, n.kind # "bin",
         NEW sign \in {"none", "ADD", "SUB"}, Signed(sign, n) # <<>>
  PROVE  LET s == Signed(sign, n)
         IN /\ s \in Seq(Node) /\ s # <<>>
            /\ \A i \in DOMAIN s : s[i].kind = "bin" => s[i].op = "MUL"
<1> DEFINE one == IF sign = "SUB" THEN -1 ELSE 1
           k == Len(nodes)
<1>1. n.leaf \in Leaf /\ k \in Nat
  BY DEF Node
<1>2. LeafNode(Lit("int", one)) \in Node /\ LeafNode(Lit("int", one)).kind = "leaf"
  <2>1. Lit("int", one) \in Leaf
    BY NameAssumption DEF Lit, Leaf, Type
  <2> QED
    BY <2>1, NodeTypes
<1>3. Bin("MUL", k + 2, k + 1) \in Node /\ Bin("MUL", k + 2, k + 1).op = "MUL"
  BY <1>1, NodeTypes, NoneIsNoOperator
<1>4. CASE Signed(sign, n) = <<n>>
  BY <1>4
<1>5. CASE Signed(sign, n) = <<n, LeafNode(Lit("int", one)), Bin("MUL", k + 2, k + 1)>>
  <2> DEFINE a == LeafNode(Lit("int", one))
             b == Bin("MUL", k + 2, k + 1)
  <2>1. a \in Node /\ a.kind = "leaf" /\ b \in Node /\ b.op = "MUL"
    BY <1>2, <1>3
  <2>2. Signed(sign, n) = <<n, a, b>>
    BY <1>5
  <2> HIDE DEF a, b
  <2> QED
    BY <2>1, <2>2
<1>6. CASE Negated(n.leaf) # <<>> /\ Signed(sign, n) = <<LeafNode(Negated(n.leaf)[1])>>
  <2>1. LeafNode(Negated(n.leaf)[1]) \in Node /\ LeafNode(Negated(n.leaf)[1]).kind = "leaf"
    BY <1>1, <1>6, NegatedLeaf, NodeTypes
  <2> QED
    BY <1>6, <2>1
<1>7. \/ Signed(sign, n) = <<n>>
      \/ Signed(sign, n) = <<n, LeafNode(Lit("int", one)), Bin("MUL", k + 2, k + 1)>>
      \/ Negated(n.leaf) # <<>> /\ Signed(sign, n) = <<LeafNode(Negated(n.leaf)[1])>>
  <2>1. CASE sign = "none"
    BY <2>1 DEF Signed
  <2>2. CASE sign # "none" /\ (n.kind # "leaf" \/ n.leaf.type = "var")
    BY <2>2 DEF Signed
  <2>3. CASE sign = "ADD" /\ ~(n.kind # "leaf" \/ n.leaf.type = "var")
    BY <2>3 DEF Signed
  <2>4. CASE sign = "SUB" /\ ~(n.kind # "leaf" \/ n.leaf.type = "var") /\ Negated(n.leaf) = <<>>
    BY <2>4 DEF Signed
  <2>5. CASE sign = "SUB" /\ ~(n.kind # "leaf" \/ n.leaf.type = "var") /\ Negated(n.leaf) # <<>>
    BY <2>5 DEF Signed
  <2> QED
    BY <2>1, <2>2, <2>3, <2>4, <2>5
<1> QED
  BY <1>4, <1>5, <1>6, <1>7

\* Adding nodes to the heap keeps the tree and the frames.
LEMMA Grown ==
  ASSUME NEW h \in Seq(Node), NEW s \in Seq(Node), NEW ops,
         TreeOK(h, ops),
         \A i \in DOMAIN s : s[i].kind = "bin" => s[i].op = "MUL"
  PROVE  /\ h \o s \in Seq(Node) /\ Len(h \o s) = Len(h) + Len(s)
         /\ DOMAIN h \subseteq DOMAIN (h \o s)
         /\ \A i \in DOMAIN h : (h \o s)[i] = h[i]
         /\ \A i \in DOMAIN (h \o s) \ DOMAIN h : i \notin ops /\ (h \o s)[i] \in Range(s)
         /\ TreeOK(h \o s, ops)
<1> DEFINE g == h \o s
<1>1. /\ g \in Seq(Node) /\ Len(g) = Len(h) + Len(s)
      /\ \A i \in 1 .. Len(g) : g[i] = IF i <= Len(h) THEN h[i] ELSE s[i - Len(h)]
  OBVIOUS
<1>2. /\ DOMAIN h = 1 .. Len(h) /\ DOMAIN s = 1 .. Len(s) /\ DOMAIN g = 1 .. Len(g)
      /\ Len(h) \in Nat /\ Len(s) \in Nat
  BY <1>1
<1> HIDE DEF g
<1>3. DOMAIN h \subseteq DOMAIN g /\ \A i \in DOMAIN h : g[i] = h[i]
  BY <1>1, <1>2
<1>4. \A i \in DOMAIN g \ DOMAIN h :
        i \notin ops /\ i - Len(h) \in DOMAIN s /\ g[i] = s[i - Len(h)]
  BY <1>1, <1>2 DEF TreeOK
<1>5. TreeOK(g, ops)
  <2>1. \A i \in ops : g[i] = h[i] /\ h[i].lhs \in DOMAIN h /\ h[i].rhs \in DOMAIN h
    BY <1>3 DEF TreeOK
  <2>2. \A i \in DOMAIN g : g[i].kind = "bin" /\ i \notin ops => g[i].op = "MUL"
    BY <1>3, <1>4 DEF TreeOK
  <2> QED
    BY <1>3, <2>1, <2>2 DEF TreeOK
<1> QED
  BY <1>1, <1>3, <1>4, <1>5 DEF g, Range

\* A frame is as good in a heap that has kept its root and its nodes.
LEMMA FrameKept ==
  ASSUME NEW f, NEW k, NEW h, NEW g, FrameOK(f, h, k), DOMAIN h \subseteq DOMAIN g,
         \A i \in DOMAIN h : g[i].kind = h[i].kind,
         \A i \in DOMAIN h : g[i].rhs = h[i].rhs \/ g[i].rhs \in DOMAIN g
  PROVE  FrameOK(f, g, k)
BY DEF FrameOK

----------------------------------------------------------------------------
(* Steps on the heap and on the stack.                                     *)

LEMMA TopFrame ==
  ASSUME Inv
  PROVE  /\ Len(frames) \in DOMAIN frames /\ Len(frames) \in Nat /\ Len(frames) >= 1
         /\ DOMAIN frames = 1 .. Len(frames)
         /\ Top = frames[Len(frames)] /\ Top \in Frame
         /\ FrameOK(Top, nodes, Len(frames))
         /\ nodes \in Seq(Node) /\ DOMAIN nodes = 1 .. Len(nodes) /\ Len(nodes) \in Nat
         /\ Len(nodes) >= 1
BY DEF Inv, FramesOK, Top, Last, TypeOK

\* The next token, when there is one.
LEMMA NextToken ==
  ASSUME Inv, at < Len(text)
  PROVE  Next1 \in Token /\ at + 1 \in Nat /\ at + 1 <= Len(text) /\ Len(text) <= at + 1 + 1
BY DEF Inv, TypeOK, Next1

\* Replacing the innermost frame.
LEMMA TopSet ==
  ASSUME Inv, NEW f, FrameOK(f, nodes', Len(frames)),
         \A k \in DOMAIN frames : FrameOK(frames[k], nodes', k),
         frames' = SetTop(f)
  PROVE  FramesOK' /\ Top' = f
<1>1. f \in Frame
  BY DEF FrameOK
<1>2. /\ frames' \in Seq(Frame) /\ Len(frames') = Len(frames)
      /\ \A k \in DOMAIN frames : frames'[k] = IF k = Len(frames) THEN f ELSE frames[k]
  BY <1>1, TopFrame DEF SetTop, Inv, FramesOK
<1>3. frames' # <<>> /\ DOMAIN frames' = DOMAIN frames
  BY <1>2, TopFrame
<1>4. \A k \in DOMAIN frames' : FrameOK(frames'[k], nodes', k)
  BY <1>2, <1>3
<1>5. Top' = f
  BY <1>2, TopFrame DEF Top, Last
<1> QED
  BY <1>2, <1>3, <1>4, <1>5 DEF FramesOK

\* Opening a frame.
LEMMA TopPushed ==
  ASSUME Inv, NEW f, FrameOK(f, nodes', Len(frames) + 1),
         \A k \in DOMAIN frames : FrameOK(frames[k], nodes', k),
         frames' = Append(frames, f)
  PROVE  FramesOK' /\ Top' = f
<1>1. f \in Frame
  BY DEF FrameOK
<1>2. /\ frames' \in Seq(Frame) /\ Len(frames') = Len(frames) + 1
      /\ \A k \in DOMAIN frames : frames'[k] = frames[k]
      /\ frames'[Len(frames) + 1] = f
      /\ DOMAIN frames' = 1 .. Len(frames) + 1
  BY <1>1, TopFrame DEF Inv, FramesOK
<1>3. \A k \in DOMAIN frames' : FrameOK(frames'[k], nodes', k)
  BY <1>2, TopFrame
<1>4. Top' = f /\ frames' # <<>>
  BY <1>2, TopFrame DEF Top, Last
<1> QED
  BY <1>2, <1>3, <1>4 DEF FramesOK

\* Closing a frame that is not the outermost.
LEMMA TopPopped ==
  ASSUME Inv, Top.kind # "top",
         \A k \in DOMAIN frames : FrameOK(frames[k], nodes', k),
         frames' = Front(frames)
  PROVE  /\ FramesOK' /\ Top' = frames[Len(frames) - 1]
         /\ Len(frames) - 1 \in DOMAIN frames
<1>1. Len(frames) > 1
  BY TopFrame DEF FrameOK
<1>2. Front(frames) = SubSeq(frames, 1, Len(frames) - 1)
  BY DEF Front
<1>3. /\ frames' \in Seq(Frame) /\ Len(frames') = Len(frames) - 1
      /\ \A k \in 1 .. Len(frames) - 1 : frames'[k] = frames[k]
      /\ DOMAIN frames' = 1 .. Len(frames) - 1
  BY <1>1, <1>2, TopFrame DEF Inv, FramesOK
<1>4. \A k \in DOMAIN frames' : FrameOK(frames'[k], nodes', k)
  BY <1>3, TopFrame
<1>5. Top' = frames[Len(frames) - 1] /\ frames' # <<>>
  BY <1>1, <1>3, TopFrame DEF Top, Last
<1> QED
  BY <1>1, <1>3, <1>4, <1>5, TopFrame DEF FramesOK

\* The heap grows.
LEMMA HeapGrows ==
  ASSUME Inv, NEW s \in Seq(Node),
         \A i \in DOMAIN s : s[i].kind = "bin" => s[i].op = "MUL",
         nodes' = nodes \o s, operators' = operators
  PROVE  /\ nodes' \in Seq(Node) /\ nodes' # <<>> /\ Len(nodes') = Len(nodes) + Len(s)
         /\ DOMAIN nodes' = 1 .. Len(nodes') /\ Len(nodes') \in Nat
         /\ DOMAIN nodes \subseteq DOMAIN nodes'
         /\ \A i \in DOMAIN nodes : nodes'[i] = nodes[i]
         /\ operators' \subseteq DOMAIN nodes'
         /\ TreeOK(nodes', operators')
         /\ \A k \in DOMAIN frames : FrameOK(frames[k], nodes', k)
<1>1. nodes \in Seq(Node) /\ nodes # <<>> /\ TreeOK(nodes, operators)
  BY DEF Inv, TypeOK
<1>2. /\ nodes' \in Seq(Node) /\ Len(nodes') = Len(nodes) + Len(s)
      /\ DOMAIN nodes \subseteq DOMAIN nodes'
      /\ \A i \in DOMAIN nodes : nodes'[i] = nodes[i]
      /\ TreeOK(nodes', operators)
  BY <1>1, Grown
<1>3. \A k \in DOMAIN frames : FrameOK(frames[k], nodes', k)
  BY <1>2, FrameKept DEF Inv, FramesOK
<1>4. nodes' # <<>> /\ DOMAIN nodes' = 1 .. Len(nodes') /\ Len(nodes') \in Nat
  BY <1>1, <1>2
<1>5. operators' \subseteq DOMAIN nodes'
  BY <1>2 DEF TreeOK
<1> QED
  BY <1>2, <1>3, <1>4, <1>5

\* The heap grows by one node.
LEMMA HeapAppends ==
  ASSUME Inv, NEW n \in Node, n.kind # "bin",
         nodes' = Append(nodes, n), operators' = operators
  PROVE  /\ nodes' \in Seq(Node) /\ nodes' # <<>> /\ Len(nodes') = Len(nodes) + 1
         /\ DOMAIN nodes' = 1 .. Len(nodes') /\ Len(nodes') \in Nat
         /\ DOMAIN nodes \subseteq DOMAIN nodes'
         /\ \A i \in DOMAIN nodes : nodes'[i] = nodes[i]
         /\ nodes'[Len(nodes')] = n
         /\ operators' \subseteq DOMAIN nodes'
         /\ TreeOK(nodes', operators')
         /\ \A k \in DOMAIN frames : FrameOK(frames[k], nodes', k)
<1>1. <<n>> \in Seq(Node) /\ Len(<<n>>) = 1 /\ \A i \in DOMAIN <<n>> : <<n>>[i].kind # "bin"
  OBVIOUS
<1>2. nodes' = nodes \o <<n>> /\ nodes'[Len(nodes) + 1] = n
  BY TopFrame
<1>3. /\ nodes' \in Seq(Node) /\ nodes' # <<>> /\ Len(nodes') = Len(nodes) + Len(<<n>>)
      /\ DOMAIN nodes' = 1 .. Len(nodes') /\ Len(nodes') \in Nat
      /\ DOMAIN nodes \subseteq DOMAIN nodes'
      /\ \A i \in DOMAIN nodes : nodes'[i] = nodes[i]
      /\ operators' \subseteq DOMAIN nodes'
      /\ TreeOK(nodes', operators')
      /\ \A k \in DOMAIN frames : FrameOK(frames[k], nodes', k)
  BY <1>1, <1>2, HeapGrows
<1> QED
  BY <1>1, <1>2, <1>3

\* An operand is returned: it is a node of its own, and the frames stay good.
LEMMA OperandReturned ==
  ASSUME Inv, NEW n \in Node, n.kind # "bin", NEW sign \in {"none", "ADD", "SUB"},
         Signed(sign, n) # <<>>,
         nodes' = nodes \o Signed(sign, n), operand' = Len(nodes'), operators' = operators
  PROVE  /\ nodes' \in Seq(Node) /\ nodes' # <<>>
         /\ DOMAIN nodes \subseteq DOMAIN nodes' /\ DOMAIN nodes' = 1 .. Len(nodes')
         /\ Len(nodes') \in Nat /\ Len(nodes) <= Len(nodes')
         /\ operators' \subseteq DOMAIN nodes'
         /\ TreeOK(nodes', operators')
         /\ \A k \in DOMAIN frames : FrameOK(frames[k], nodes', k)
         /\ operand' \in DOMAIN nodes' \ operators'
<1> DEFINE s == Signed(sign, n)
<1>1. s \in Seq(Node) /\ s # <<>> /\ \A i \in DOMAIN s : s[i].kind = "bin" => s[i].op = "MUL"
  BY SignedNodes DEF Inv, TypeOK
<1> HIDE DEF s
<1>2. nodes' = nodes \o s
  BY DEF s
<1>3. /\ nodes' \in Seq(Node) /\ nodes' # <<>> /\ Len(nodes') = Len(nodes) + Len(s)
      /\ DOMAIN nodes' = 1 .. Len(nodes') /\ Len(nodes') \in Nat
      /\ DOMAIN nodes \subseteq DOMAIN nodes'
      /\ operators' \subseteq DOMAIN nodes'
      /\ TreeOK(nodes', operators')
      /\ \A k \in DOMAIN frames : FrameOK(frames[k], nodes', k)
  BY <1>1, <1>2, HeapGrows
<1>4. Len(s) \in Nat /\ Len(s) > 0
  BY <1>1
<1>5. operators \subseteq 1 .. Len(nodes)
  BY TopFrame DEF Inv, TypeOK
<1>6. operand' \in DOMAIN nodes' \ operators' /\ Len(nodes) <= Len(nodes')
  BY <1>3, <1>4, <1>5, TopFrame
<1> QED
  BY <1>3, <1>6

----------------------------------------------------------------------------
(* The initial state.                                                      *)

LEMMA EmptyText == T("EOF") \in Token
<1>1. Named("nil", NoName) \in Leaf
  BY NilLeaf DEF Nil
<1>2. "EOF" \in TokenName /\ <<>> \in Seq(Part)
  BY DEF TokenName
<1> QED
  BY <1>1, <1>2 DEF T, Nil, Token

LEMMA OpenedFrame ==
  ASSUME NEW kind \in {"top", "paren", "call"}, NEW root \in Nat, NEW name \in Leaf
  PROVE  /\ Opened(kind, root, name) \in Frame
         /\ Opened(kind, root, name).op = "none" /\ Opened(kind, root, name).sign = "none"
         /\ Opened(kind, root, name).kind = kind /\ Opened(kind, root, name).root = root
<1>1. <<>> \in Seq(Nat) /\ "none" \in Op \cup {"none"} /\ "none" \in {"none", "ADD", "SUB"}
  OBVIOUS
<1> QED
  BY <1>1 DEF Opened, Frame

LEMMA InitInv == Init => Inv
<1> SUFFICES ASSUME Init PROVE Inv
  OBVIOUS
<1>1. nodes = <<Root>> /\ nodes \in Seq(Node) /\ DOMAIN nodes = {1} /\ nodes[1].kind = "root"
  BY NodeTypes DEF Init
<1>2. LET f == Opened("top", 1, Nil)
      IN f \in Frame /\ f.op = "none" /\ f.kind = "top" /\ f.root = 1
  BY OpenedFrame, NilLeaf
<1> DEFINE f == Opened("top", 1, Nil)
<1>3. frames = <<f>> /\ f \in Frame /\ f.op = "none" /\ f.kind = "top" /\ f.root = 1
  BY <1>2 DEF Init
<1> HIDE DEF f
<1>4. frames \in Seq(Frame) /\ frames # <<>> /\ DOMAIN frames = {1} /\ frames[1] = f
  BY <1>3
<1>5. FramesOK
  BY <1>1, <1>3, <1>4 DEF FramesOK, FrameOK
<1>6. operators = {} /\ pc = "unary" /\ alphabet \in Alphabets
  BY DEF Init
<1>7. TreeOK(nodes, operators) /\ PlaceOK /\ DurationOK
  BY <1>1, <1>6 DEF TreeOK, PlaceOK, DurationOK
<1>8. text \in Seq(Token) /\ at \in Nat /\ at <= Len(text) /\ Len(text) <= at + 1
  BY DEF Init
<1>9. dur \in [parts : Seq(Part), i : Nat \ {0}, d : Int64] /\ exact \in Nat
  <2>1. 0 \in Int64 /\ <<>> \in Seq(Part) /\ 1 \in Nat \ {0}
    BY WordTypes DEF Int64
  <2>2. dur = [parts |-> <<>>, i |-> 1, d |-> 0] /\ exact = 0
    BY DEF Init
  <2> QED
    BY <2>1, <2>2
<1>10. operand \in 0 .. Len(nodes) /\ node \in 0 .. Len(nodes)
  BY <1>1 DEF Init
<1> QED
  BY <1>1, <1>4, <1>5, <1>6, <1>7, <1>8, <1>9, <1>10 DEF Inv, TypeOK

----------------------------------------------------------------------------
(* Steps that leave the heap and the stack alone.                          *)

\* Nothing but the text, the position in it and the counter changes, and
\* nothing is placed next.
LEMMA StepQuiet ==
  ASSUME Inv,
         UNCHANGED <<alphabet, tree, frames, operand, node, timing>>,
         text' \in Seq(Token), at' \in Nat, at' <= Len(text'), Len(text') <= at' + 1,
         pc' \in {"unary", "done", "error"} \/ pc' = pc
  PROVE  Inv'
<1>1. TypeOK'
  BY DEF Inv, TypeOK, tree, timing
<1>2. TreeOK(nodes, operators)'
  BY DEF Inv, tree, TreeOK
<1>3. FramesOK'
  BY DEF Inv, tree, FramesOK, FrameOK
<1>4. PlaceOK' /\ DurationOK'
  BY DEF Inv, tree, timing, PlaceOK, DurationOK, Top, Congruent
<1> QED
  BY <1>1, <1>2, <1>3, <1>4 DEF Inv

LEMMA StepScan ==
  ASSUME Inv, Scan
  PROVE  Inv'
<1>1. PICK t \in alphabet \cup {T("EOF")} : text' = Append(text, t)
  <2>1. \E t \in IF Len(text) < MaxTokens[alphabet] THEN alphabet \cup {T("EOF")} ELSE {T("EOF")} :
           text' = Append(text, t)
    BY DEF Scan
  <2> QED
    BY <2>1
<1>2. t \in Token
  BY EmptyText, AlphabetAssumption DEF Inv, TypeOK
<1>3. text' \in Seq(Token) /\ Len(text') = Len(text) + 1 /\ at' = at /\ at = Len(text) /\ at \in Nat
  BY <1>1, <1>2 DEF Scan, Inv, TypeOK
<1> QED
  BY <1>3, StepQuiet DEF Scan

LEMMA StepFail ==
  ASSUME Inv, Fail
  PROVE  Inv'
BY StepQuiet DEF Fail, Inv, TypeOK, reading

\* The expression ends, or a call turns out to have another argument.
LEMMA StepEnds ==
  ASSUME Inv, End \/ ExprArgument
  PROVE  Inv'
BY StepQuiet DEF End, ExprArgument, Inv, TypeOK, reading

----------------------------------------------------------------------------
(* Operands.                                                               *)

\* The literal of a token is a literal.
LEMMA LeafOfToken ==
  ASSUME NEW t \in Token, LeafOf(t) # <<>>
  PROVE  LeafOf(t)[1] \in Leaf
<1>1. t.leaf \in Leaf /\ t.leaf.v \in Int
  BY DEF Token, Leaf
<1>2. Lit("int", t.leaf.v) \in Leaf /\ Lit("uint", t.leaf.v) \in Leaf
  BY <1>1, NameAssumption DEF Lit, Leaf, Type
<1>3. CASE t.tok = "INTEGER"
  BY <1>2, <1>3 DEF LeafOf, IntegerValue
<1>4. CASE t.tok # "INTEGER"
  BY <1>1, <1>4 DEF LeafOf
<1> QED
  BY <1>3, <1>4

\* Whatever returns an operand and goes on to place it.
LEMMA StepReturns ==
  ASSUME Inv, NEW n \in Node, n.kind # "bin", Returns(n), Placing,
         UNCHANGED <<reading, frames, timing>>,
         at' \in Nat, at' <= Len(text), Len(text) <= at' + 1
  PROVE  Inv'
<1>1. Top.sign \in {"none", "ADD", "SUB"}
  BY TopFrame DEF Frame
<1>2. /\ Signed(Top.sign, n) # <<>>
      /\ nodes' = nodes \o Signed(Top.sign, n)
      /\ operand' = Len(nodes') /\ operators' = operators
  BY DEF Returns, Refuses
<1>3. /\ nodes' \in Seq(Node) /\ nodes' # <<>>
      /\ DOMAIN nodes \subseteq DOMAIN nodes' /\ DOMAIN nodes' = 1 .. Len(nodes')
      /\ Len(nodes') \in Nat /\ Len(nodes) <= Len(nodes')
      /\ operators' \subseteq DOMAIN nodes'
      /\ TreeOK(nodes', operators')
      /\ \A k \in DOMAIN frames : FrameOK(frames[k], nodes', k)
      /\ operand' \in DOMAIN nodes' \ operators'
  BY <1>1, <1>2, OperandReturned
<1>4. Top' = Top /\ frames' = frames /\ pc' = "place" /\ node' = Top.root
  BY DEF Placing, Top
<1>5. FramesOK'
  BY <1>3, <1>4 DEF Inv, FramesOK
<1>6. PlaceOK' /\ DurationOK'
  BY <1>3, <1>4 DEF PlaceOK, DurationOK
<1>7. operand' \in 0 .. Len(nodes') /\ node' \in 0 .. Len(nodes')
  BY <1>3, <1>4, TopFrame DEF FrameOK
<1>8. TypeOK'
  BY <1>3, <1>4, <1>5, <1>7 DEF Inv, TypeOK, FramesOK, reading, timing
<1> QED
  BY <1>3, <1>5, <1>6, <1>8 DEF Inv

LEMMA StepLeaf ==
  ASSUME Inv, ReadLeaf \/ ReadWildcard \/ ReadRegex
  PROVE  Inv'
<1>1. at < Len(text)
  BY DEF ReadLeaf, ReadWildcard, ReadRegex, Sees
<1>2. Next1 \in Token /\ at' = at + 1 /\ at' \in Nat /\ at' <= Len(text) /\ Len(text) <= at' + 1
  BY <1>1, NextToken DEF ReadLeaf, ReadWildcard, ReadRegex
<1>3. CASE ReadLeaf
  <2>1. LeafNode(LeafOf(Next1)[1]) \in Node /\ LeafNode(LeafOf(Next1)[1]).kind # "bin"
    BY <1>2, <1>3, LeafOfToken, NodeTypes DEF ReadLeaf
  <2> QED
    BY <1>2, <1>3, <2>1, StepReturns DEF ReadLeaf
<1>4. CASE ReadWildcard
  <2>1. Named("wildcard", NoName) \in Leaf
    BY NameAssumption DEF Named, Leaf, Type
  <2>2. LeafNode(Named("wildcard", NoName)) \in Node /\ LeafNode(Named("wildcard", NoName)).kind # "bin"
    BY <2>1, NodeTypes
  <2> QED
    BY <1>2, <1>4, <2>2, StepReturns DEF ReadWildcard
<1>5. CASE ReadRegex
  <2>1. Next1.leaf \in Leaf
    BY <1>2 DEF Token
  <2>2. LeafNode(Next1.leaf) \in Node /\ LeafNode(Next1.leaf).kind # "bin"
    BY <2>1, NodeTypes
  <2> QED
    BY <1>2, <1>5, <2>2, StepReturns DEF ReadRegex
<1> QED
  BY <1>3, <1>4, <1>5

\* A sign is kept in the frame.
LEMMA StepSign ==
  ASSUME Inv, ReadSign
  PROVE  Inv'
<1> DEFINE f == [Top EXCEPT !.sign = Next1.tok]
<1>1. at < Len(text) /\ Next1.tok \in {"ADD", "SUB"} /\ frames' = SetTop(f)
  BY DEF ReadSign, Sees
<1>2. at' = at + 1 /\ at' \in Nat /\ at' <= Len(text) /\ Len(text) <= at' + 1
  BY <1>1, NextToken DEF ReadSign
<1>3. FrameOK(f, nodes, Len(frames))
  BY <1>1, TopFrame DEF FrameOK, Frame
<1> HIDE DEF f
<1>4. nodes' = nodes /\ operators' = operators /\ pc' = "unary" /\ pc = "unary"
  BY DEF ReadSign, AtOperand, tree
<1>5. \A k \in DOMAIN frames : FrameOK(frames[k], nodes, k)
  BY DEF Inv, FramesOK
<1>6. FramesOK'
  BY <1>1, <1>3, <1>4, <1>5, TopSet
<1>7. TreeOK(nodes, operators)' /\ PlaceOK' /\ DurationOK'
  BY <1>4 DEF Inv, PlaceOK, DurationOK, TreeOK
<1>8. TypeOK'
  BY <1>2, <1>4, <1>6 DEF Inv, TypeOK, FramesOK, ReadSign, reading, timing
<1> QED
  BY <1>6, <1>7, <1>8 DEF Inv

----------------------------------------------------------------------------
(* Durations.                                                              *)

LEMMA StepReadDuration ==
  ASSUME Inv, ReadDuration
  PROVE  Inv'
<1>1. at < Len(text)
  BY DEF ReadDuration, Sees
<1>2. Next1 \in Token /\ at' = at + 1 /\ at' \in Nat /\ at' <= Len(text) /\ Len(text) <= at' + 1
  BY <1>1, NextToken DEF ReadDuration
<1>3. dur' = [parts |-> Next1.parts, i |-> 1, d |-> 0] /\ exact' = 0 /\ pc' = "duration"
  BY DEF ReadDuration
<1>4. dur' \in [parts : Seq(Part), i : Nat \ {0}, d : Int64] /\ dur'.d = 0
  <2>1. Next1.parts \in Seq(Part) /\ 0 \in Int64
    BY <1>2, WordTypes DEF Token, Int64
  <2> QED
    BY <1>3, <2>1
<1>5. DurationOK'
  <2>1. 0 = 0 + 0 * Words
    BY WordTypes
  <2>2. Congruent(0, 0)
    BY <2>1 DEF Congruent
  <2>3. exact' = 0 /\ dur'.d = 0
    BY <1>3, <1>4
  <2>4. Congruent(exact, dur.d)'
    BY <2>2, <2>3 DEF Congruent, Words, MaxUint
  <2> QED
    BY <2>4 DEF DurationOK
<1>6. TypeOK'
  BY <1>2, <1>3, <1>4 DEF Inv, TypeOK, ReadDuration, reading, tree
<1>7. TreeOK(nodes, operators)' /\ FramesOK' /\ PlaceOK'
  BY <1>3 DEF Inv, ReadDuration, tree, TreeOK, FramesOK, FrameOK, PlaceOK
<1> QED
  BY <1>5, <1>6, <1>7 DEF Inv

LEMMA StepParsePart ==
  ASSUME Inv, ParsePart
  PROVE  Inv'
<1> DEFINE p == dur.parts[dur.i]
<1>1. CASE p.n > MaxInt /\ Fail
  BY <1>1, StepFail
<1>2. CASE /\ p.n <= MaxInt
           /\ dur' = [dur EXCEPT !.i = @ + 1, !.d = Wrap(@ + PartValue(p))]
           /\ exact' = exact + p.n * Scale[p.unit]
           /\ UNCHANGED <<reading, at, tree, frames, operand, node, pc>>
  <2>1. /\ dur \in [parts : Seq(Part), i : Nat \ {0}, d : Int64] /\ exact \in Nat
        /\ pc = "duration" /\ dur.i <= Len(dur.parts)
    BY DEF Inv, TypeOK, ParsePart
  <2>2. p \in Part
    BY <2>1
  <2>3. p.n \in Nat /\ Scale[p.unit] \in Nat
    BY <2>2, ScaleAssumption DEF Part
  <2> DEFINE x == p.n * Scale[p.unit]
             v == PartValue(p)
             d == dur.d
  <2>4. x \in Nat /\ v = Wrap(x) /\ d \in Int64 /\ d \in Int /\ Congruent(exact, d)
    <3>1. \A a, b \in Nat : a * b \in Nat
      OBVIOUS
    <3>2. x \in Nat
      BY <2>3, <3>1
    <3>3. v = Wrap(x)
      BY DEF PartValue
    <3>4. d \in Int64 /\ d \in Int
      BY <2>1, WordTypes DEF Int64
    <3>5. Congruent(exact, d)
      BY <2>1 DEF Inv, DurationOK
    <3> QED
      BY <3>2, <3>3, <3>4, <3>5
  <2> HIDE DEF x, v, d
  <2>5. v \in Int64 /\ v \in Int /\ Congruent(x, v)
    BY <2>4, WrapWord, WordTypes DEF Int64
  <2>6. Congruent(exact + x, d + v)
    BY <2>1, <2>4, <2>5, CongruentSum
  <2>7. Wrap(d + v) \in Int64 /\ Wrap(d + v) \in Int /\ Congruent(d + v, Wrap(d + v))
    <3>1. d + v \in Int
      BY <2>4, <2>5
    <3> QED
      BY <3>1, WrapWord, WordTypes DEF Int64
  <2>8. Congruent(exact + x, Wrap(d + v))
    BY <2>1, <2>4, <2>5, <2>6, <2>7, CongruentTransitive
  <2>9. /\ dur' \in [parts : Seq(Part), i : Nat \ {0}, d : Int64] /\ dur'.d = Wrap(d + v)
        /\ exact' = exact + x /\ exact' \in Nat
    <3>1. exact' = exact + x
      BY <1>2 DEF x
    <3>2. dur' = [dur EXCEPT !.i = dur.i + 1, !.d = Wrap(d + v)]
      BY <1>2 DEF d, v
    <3>3. dur' \in [parts : Seq(Part), i : Nat \ {0}, d : Int64] /\ dur'.d = Wrap(d + v)
      <4>1. dur.i + 1 \in Nat \ {0}
        BY <2>1
      <4>2. \A j \in Nat \ {0}, w \in Int64 :
               /\ [dur EXCEPT !.i = j, !.d = w] \in [parts : Seq(Part), i : Nat \ {0}, d : Int64]
               /\ [dur EXCEPT !.i = j, !.d = w].d = w
        BY <2>1
      <4> QED
        BY <2>7, <3>2, <4>1, <4>2
    <3> QED
      BY <2>1, <2>4, <3>1, <3>3
  <2>10. DurationOK'
    BY <2>8, <2>9 DEF DurationOK, Congruent, Words, MaxUint
  <2>11. TypeOK'
    BY <1>2, <2>9 DEF Inv, TypeOK, reading, tree
  <2>12. TreeOK(nodes, operators)' /\ FramesOK' /\ PlaceOK'
    BY <1>2, <2>1 DEF Inv, tree, TreeOK, FramesOK, FrameOK, PlaceOK
  <2> QED
    BY <2>10, <2>11, <2>12 DEF Inv
<1> QED
  BY <1>1, <1>2 DEF ParsePart

LEMMA StepEndDuration ==
  ASSUME Inv, EndDuration
  PROVE  Inv'
<1>1. CASE Overflowed(dur.d) /\ Fail
  BY <1>1, StepFail
<1>2. CASE /\ Returns(LeafNode(Lit("duration", dur.d)))
           /\ Placing
           /\ UNCHANGED <<reading, at, frames, timing>>
  <2>1. dur.d \in Int
    BY WordTypes DEF Inv, TypeOK, Int64
  <2>2. Lit("duration", dur.d) \in Leaf
    BY <2>1, NameAssumption DEF Lit, Leaf, Type
  <2>3. LET n == LeafNode(Lit("duration", dur.d)) IN n \in Node /\ n.kind # "bin"
    BY <2>2, NodeTypes
  <2>4. at' \in Nat /\ at' <= Len(text) /\ Len(text) <= at' + 1
    BY <1>2 DEF Inv, TypeOK
  <2> QED
    BY <1>2, <2>3, <2>4, StepReturns
<1> QED
  BY <1>1, <1>2 DEF EndDuration

----------------------------------------------------------------------------
(* Parentheses and calls.                                                  *)

LEMMA StepOpen ==
  ASSUME Inv, NEW kind \in {"paren", "call"}, NEW name \in Leaf, Open(kind, name),
         at < Len(text), pc' = "unary" \/ (pc' = "argument" /\ kind = "call")
  PROVE  Inv'
<1> DEFINE f == Opened(kind, Len(nodes'), name)
<1>1. nodes' = Append(nodes, Root) /\ operators' = operators /\ frames' = Append(frames, f)
  BY DEF Open
<1>2. /\ nodes' \in Seq(Node) /\ nodes' # <<>> /\ Len(nodes') = Len(nodes) + 1
      /\ DOMAIN nodes' = 1 .. Len(nodes') /\ Len(nodes') \in Nat
      /\ nodes'[Len(nodes')] = Root
      /\ operators' \subseteq DOMAIN nodes'
      /\ TreeOK(nodes', operators')
      /\ \A k \in DOMAIN frames : FrameOK(frames[k], nodes', k)
  BY <1>1, HeapAppends, NodeTypes
<1>3. f \in Frame /\ f.op = "none" /\ f.kind = kind /\ f.root = Len(nodes')
  BY <1>2, OpenedFrame
<1> HIDE DEF f
<1>4. FrameOK(f, nodes', Len(frames) + 1)
  BY <1>2, <1>3, NodeTypes, TopFrame DEF FrameOK
<1>5. FramesOK' /\ Top' = f
  BY <1>1, <1>2, <1>4, TopPushed
<1>6. PlaceOK' /\ DurationOK'
  BY <1>3, <1>5 DEF PlaceOK, DurationOK
<1>7. at' = at + 1 /\ at' \in Nat /\ at' <= Len(text) /\ Len(text) <= at' + 1
  BY NextToken DEF Open
<1>8. operand' \in 0 .. Len(nodes') /\ node' \in 0 .. Len(nodes')
  BY <1>2, TopFrame DEF Open, Inv, TypeOK
<1>9. TypeOK'
  BY <1>2, <1>5, <1>7, <1>8 DEF Inv, TypeOK, FramesOK, Open, reading, timing
<1> QED
  BY <1>2, <1>5, <1>6, <1>9 DEF Inv

LEMMA StepOpens ==
  ASSUME Inv, OpenParen \/ OpenCall
  PROVE  Inv'
<1>1. at < Len(text)
  BY DEF OpenParen, OpenCall, Sees
<1>2. CASE OpenParen
  BY <1>1, <1>2, NilLeaf, StepOpen DEF OpenParen
<1>3. CASE OpenCall
  <2>1. Next1.leaf \in Leaf
    BY <1>1, NextToken DEF Token
  <2> QED
    BY <1>1, <1>3, <2>1, StepOpen DEF OpenCall
<1> QED
  BY <1>2, <1>3

LEMMA StepRegexArgument ==
  ASSUME Inv, RegexArgument
  PROVE  Inv'
<1> DEFINE f == [Top EXCEPT !.args = Append(@, Len(nodes'))]
           n == LeafNode(Next1.leaf)
<1>1. at < Len(text)
  BY DEF RegexArgument, Sees
<1>2. Next1 \in Token /\ at' = at + 1 /\ at' \in Nat /\ at' <= Len(text) /\ Len(text) <= at' + 1
  BY <1>1, NextToken DEF RegexArgument
<1>3. n \in Node /\ n.kind # "bin"
  BY <1>2, NodeTypes DEF Token
<1>4. nodes' = Append(nodes, n) /\ operators' = operators /\ frames' = SetTop(f)
  BY DEF RegexArgument
<1>5. /\ nodes' \in Seq(Node) /\ nodes' # <<>> /\ Len(nodes') = Len(nodes) + 1
      /\ DOMAIN nodes' = 1 .. Len(nodes') /\ Len(nodes') \in Nat
      /\ operators' \subseteq DOMAIN nodes'
      /\ TreeOK(nodes', operators')
      /\ \A k \in DOMAIN frames : FrameOK(frames[k], nodes', k)
  BY <1>3, <1>4, HeapAppends
<1>6. f \in Frame /\ f.root = Top.root /\ f.kind = Top.kind /\ f.op = Top.op
  <2>1. Append(Top.args, Len(nodes')) \in Seq(Nat)
    BY <1>5, TopFrame DEF Frame
  <2> QED
    BY <2>1, TopFrame DEF Frame
<1>7. FrameOK(Top, nodes', Len(frames))
  BY <1>5, TopFrame
<1> HIDE DEF f, n
<1>8. FrameOK(f, nodes', Len(frames))
  BY <1>6, <1>7 DEF FrameOK
<1>9. FramesOK' /\ Top' = f
  BY <1>4, <1>5, <1>8, TopSet
<1>10. PlaceOK' /\ DurationOK'
  BY <1>6, <1>9 DEF PlaceOK, DurationOK, RegexArgument, Inv
<1>11. operand' \in 0 .. Len(nodes') /\ node' \in 0 .. Len(nodes')
  BY <1>5, TopFrame DEF RegexArgument, Inv, TypeOK
<1>12. TypeOK'
  BY <1>2, <1>5, <1>9, <1>11 DEF Inv, TypeOK, FramesOK, RegexArgument, reading, timing
<1> QED
  BY <1>5, <1>9, <1>10, <1>12 DEF Inv

LEMMA StepComma ==
  ASSUME Inv, Comma
  PROVE  Inv'
<1>1. at < Len(text)
  BY DEF Comma, Sees
<1>2. at' = at + 1 /\ at' \in Nat /\ at' <= Len(text) /\ Len(text) <= at' + 1
  BY <1>1, NextToken DEF Comma
<1>3. nodes' = Append(nodes, Root) /\ operators' = operators
  BY DEF Comma
<1>4. /\ nodes' \in Seq(Node) /\ nodes' # <<>> /\ Len(nodes') = Len(nodes) + 1
      /\ DOMAIN nodes' = 1 .. Len(nodes') /\ Len(nodes') \in Nat
      /\ nodes'[Len(nodes')] = Root
      /\ operators' \subseteq DOMAIN nodes'
      /\ TreeOK(nodes', operators')
      /\ \A k \in DOMAIN frames : FrameOK(frames[k], nodes', k)
  BY <1>3, HeapAppends, NodeTypes
<1> DEFINE o == Opened("call", Len(nodes) + 1, Top.name)
<1>5. \E args \in Seq(Nat) : frames' = SetTop([o EXCEPT !.args = args])
  <2>1. Top.args \in Seq(Nat)
    BY TopFrame DEF Frame
  <2>2. CASE pc = "operator"
    <3>1. nodes[Top.root].rhs \in Nat
      BY <2>2, TopFrame DEF Inv, PlaceOK
    <3>2. Append(Top.args, nodes[Top.root].rhs) \in Seq(Nat)
      BY <2>1, <3>1
    <3> QED
      BY <2>2, <3>2 DEF Comma
  <2>3. CASE pc # "operator"
    BY <2>1, <2>3 DEF Comma
  <2> QED
    BY <2>2, <2>3
<1>6. PICK args \in Seq(Nat) : frames' = SetTop([o EXCEPT !.args = args])
  BY <1>5
<1>7. o \in Frame /\ o.op = "none" /\ o.kind = "call" /\ o.root = Len(nodes) + 1
  BY OpenedFrame, TopFrame DEF Frame
<1>8. Top.kind = "call"
  BY DEF Comma, Inv, PlaceOK
<1> DEFINE f == [o EXCEPT !.args = args]
<1>9. f \in Frame /\ f.op = "none" /\ f.kind = "call" /\ f.root = Len(nodes')
  BY <1>4, <1>7 DEF Frame
<1> HIDE DEF o, f
<1>10. FrameOK(f, nodes', Len(frames))
  BY <1>4, <1>8, <1>9, NodeTypes, TopFrame DEF FrameOK
<1>11. FramesOK' /\ Top' = f
  BY <1>4, <1>6, <1>10, TopSet DEF f
<1>12. PlaceOK' /\ DurationOK'
  BY <1>9, <1>11 DEF PlaceOK, DurationOK, Comma
<1>13. operand' \in 0 .. Len(nodes') /\ node' \in 0 .. Len(nodes')
  BY <1>4, TopFrame, SMTT(30) DEF Comma, Inv, TypeOK
<1>14. TypeOK'
  BY <1>2, <1>4, <1>11, <1>13 DEF Inv, TypeOK, FramesOK, Comma, reading, timing
<1> QED
  BY <1>4, <1>11, <1>12, <1>14 DEF Inv

\* A sign before parentheses and calls is never refused.
LEMMA SignedAlways ==
  ASSUME nodes \in Seq(Node), NEW n \in Node, n.kind # "leaf",
         NEW sign \in {"none", "ADD", "SUB"}
  PROVE  Signed(sign, n) # <<>>
<1>1. CASE sign = "none"
  <2>1. Signed(sign, n) = <<n>>
    BY <1>1 DEF Signed
  <2> QED
    BY <2>1
<1>2. CASE sign # "none"
  BY <1>2 DEF Signed
<1> QED
  BY <1>1, <1>2

\* A frame is closed, and its expression is an operand of the one below.
LEMMA StepClose ==
  ASSUME Inv, NEW n \in Node, n.kind \in {"paren", "call"}, Top.kind # "top", Close(n),
         at' \in Nat, at' <= Len(text), Len(text) <= at' + 1
  PROVE  Inv'
<1> DEFINE outer == frames[Len(frames) - 1]
<1>1. Len(frames) - 1 \in DOMAIN frames
  BY TopFrame DEF FrameOK
<1>2. outer \in Frame /\ FrameOK(outer, nodes, Len(frames) - 1)
  BY <1>1 DEF Inv, FramesOK, FrameOK
<1>3. outer.sign \in {"none", "ADD", "SUB"} /\ outer.root \in DOMAIN nodes
  BY <1>2 DEF FrameOK, Frame
<1>4. Signed(outer.sign, n) # <<>>
  BY <1>3, SignedAlways DEF Inv, TypeOK
<1>5. /\ nodes' = nodes \o Signed(outer.sign, n)
      /\ operand' = Len(nodes') /\ operators' = operators
      /\ node' = outer.root /\ frames' = Front(frames) /\ pc' = "place"
  BY DEF Close
<1> HIDE DEF outer
<1>6. /\ nodes' \in Seq(Node) /\ nodes' # <<>>
      /\ DOMAIN nodes \subseteq DOMAIN nodes' /\ DOMAIN nodes' = 1 .. Len(nodes')
      /\ Len(nodes') \in Nat /\ Len(nodes) <= Len(nodes')
      /\ operators' \subseteq DOMAIN nodes'
      /\ TreeOK(nodes', operators')
      /\ \A k \in DOMAIN frames : FrameOK(frames[k], nodes', k)
      /\ operand' \in DOMAIN nodes' \ operators'
  BY <1>3, <1>4, <1>5, OperandReturned
<1>7. FramesOK' /\ Top' = outer
  BY <1>5, <1>6, TopPopped DEF outer
<1>8. PlaceOK' /\ DurationOK'
  BY <1>5, <1>6, <1>7 DEF PlaceOK, DurationOK
<1>9. operand' \in 0 .. Len(nodes') /\ node' \in 0 .. Len(nodes')
  BY <1>3, <1>5, <1>6
<1>10. TypeOK'
  BY <1>5, <1>6, <1>7, <1>9 DEF Inv, TypeOK, FramesOK, Close, reading, timing
<1> QED
  BY <1>6, <1>7, <1>8, <1>10 DEF Inv

LEMMA StepCloses ==
  ASSUME Inv, CloseParen \/ CloseCall
  PROVE  Inv'
<1>1. at < Len(text)
  BY DEF CloseParen, CloseCall, Sees
<1>2. at' = at + 1 /\ at' \in Nat /\ at' <= Len(text) /\ Len(text) <= at' + 1
  BY <1>1, NextToken DEF CloseParen, CloseCall
<1>3. Top.args \in Seq(Nat) /\ Top.name \in Leaf
  BY TopFrame DEF Frame
<1>4. pc = "operator" => nodes[Top.root].rhs \in Nat
  BY TopFrame DEF Inv, PlaceOK
<1>5. CASE CloseParen
  <2>1. LET n == Paren(nodes[Top.root].rhs) IN n \in Node /\ n.kind = "paren"
    BY <1>4, <1>5, NodeTypes DEF CloseParen
  <2>2. Top.kind # "top" /\ Close(Paren(nodes[Top.root].rhs))
    BY <1>5 DEF CloseParen
  <2> QED
    BY <1>2, <2>1, <2>2, StepClose
<1>6. CASE CloseCall
  <2> DEFINE args == IF pc = "operator" THEN Append(Top.args, nodes[Top.root].rhs) ELSE Top.args
  <2>1. args \in Seq(Nat)
    BY <1>3, <1>4
  <2>2. Top.kind # "top"
    BY <1>6 DEF CloseCall, Inv, PlaceOK
  <2>3. Close(CallNode(Top.name, args))
    BY <1>6 DEF CloseCall
  <2> HIDE DEF args
  <2>4. CallNode(Top.name, args) \in Node /\ CallNode(Top.name, args).kind = "call"
    BY <1>3, <2>1, NodeTypes
  <2> QED
    BY <1>2, <2>2, <2>3, <2>4, StepClose
<1> QED
  BY <1>5, <1>6

----------------------------------------------------------------------------
(* The loop of ParseExpr.                                                  *)

\* The first operand hangs from the root.
LEMMA StepPlaceFirst ==
  ASSUME Inv, PlaceFirst
  PROVE  Inv'
<1> DEFINE f == [Top EXCEPT !.sign = "none"]
           r == Top.root
<1>1. /\ pc = "place" /\ pc' = "operator" /\ Top.op = "none"
      /\ nodes' = [nodes EXCEPT ![r].rhs = operand]
      /\ frames' = SetTop(f) /\ operators' = operators
  BY DEF PlaceFirst
<1>2. r \in DOMAIN nodes /\ nodes[r].kind = "root" /\ operand \in DOMAIN nodes
  BY <1>1, TopFrame DEF FrameOK, Inv, PlaceOK
<1> DEFINE n == [nodes[r] EXCEPT !.rhs = operand]
<1>3. n \in Node /\ n.kind = "root" /\ n.rhs = operand
  <2>1. nodes[r] \in Node /\ operand \in Nat
    BY <1>2, TopFrame
  <2> QED
    BY <1>2, <2>1 DEF Node
<1>4. nodes' = [nodes EXCEPT ![r] = n]
  BY <1>1
<1> HIDE DEF n
<1>5. /\ nodes' \in Seq(Node) /\ nodes' # <<>> /\ Len(nodes') = Len(nodes)
      /\ DOMAIN nodes' = DOMAIN nodes
      /\ nodes'[r] = n /\ \A i \in DOMAIN nodes \ {r} : nodes'[i] = nodes[i]
  BY <1>2, <1>3, <1>4, TopFrame
<1>6. r \notin operators
  BY <1>2 DEF Inv, TreeOK
<1>7. TreeOK(nodes', operators')
  <2>1. \A i \in operators : i \in DOMAIN nodes /\ nodes'[i] = nodes[i]
    BY <1>5, <1>6 DEF Inv, TreeOK
  <2>2. TreeOK(nodes, operators)
    BY DEF Inv
  <2>3. \A i \in DOMAIN nodes : nodes'[i].kind = "bin" => nodes'[i] = nodes[i]
    BY <1>3, <1>5
  <2> HIDE DEF f, r
  <2>4. TreeOK(nodes', operators)
    BY <1>5, <2>1, <2>2, <2>3 DEF TreeOK
  <2> QED
    BY <1>1, <2>4
<1>8. \A k \in DOMAIN frames : FrameOK(frames[k], nodes', k)
  <2>1. \A i \in DOMAIN nodes : nodes'[i].kind = nodes[i].kind
    BY <1>2, <1>3, <1>5
  <2>2. \A i \in DOMAIN nodes : nodes'[i].rhs = nodes[i].rhs \/ nodes'[i].rhs \in DOMAIN nodes'
    BY <1>2, <1>3, <1>5
  <2> QED
    BY <1>5, <2>1, <2>2, FrameKept DEF Inv, FramesOK
<1>9. f \in Frame /\ f.root = r /\ f.kind = Top.kind /\ f.op = "none"
  BY <1>1, TopFrame DEF Frame
<1>10. FrameOK(Top, nodes', Len(frames))
  BY <1>8, TopFrame
<1> HIDE DEF f
<1>11. FrameOK(f, nodes', Len(frames))
  BY <1>9, <1>10 DEF FrameOK
<1>12. FramesOK' /\ Top' = f
  BY <1>1, <1>8, <1>11, TopSet
<1>13. PlaceOK' /\ DurationOK'
  BY <1>1, <1>2, <1>3, <1>5, <1>9, <1>12 DEF PlaceOK, DurationOK
<1>14. TypeOK'
  BY <1>1, <1>5, <1>12 DEF Inv, TypeOK, FramesOK, PlaceFirst, reading, timing
<1> QED
  BY <1>7, <1>12, <1>13, <1>14 DEF Inv

\* A node that does not stop the descent is an operator that binds less.
LEMMA Passed ==
  ASSUME Inv, pc = "place", Top.op # "none", ~Stops(nodes[node].rhs, Top.op),
         node \in DOMAIN nodes, nodes[node].rhs \in DOMAIN nodes
  PROVE  LET r == nodes[node].rhs
         IN r \in operators /\ Precedence(nodes[r].op) < Precedence(Top.op)
<1> DEFINE r == nodes[node].rhs
<1>1. nodes[r].kind = "bin" /\ ~(Precedence(nodes[r].op) >= Precedence(Top.op))
  BY DEF Stops
<1>2. Top.op \in Op
  BY TopFrame DEF Frame
<1>3. Precedence(Top.op) \in Nat /\ Precedence(Top.op) <= Precedence("MUL")
  BY <1>2, PrecedenceBound
<1>4. r \in operators
  <2>1. SUFFICES ASSUME r \notin operators PROVE FALSE
    OBVIOUS
  <2>2. nodes[r].op = "MUL"
    BY <1>1, <2>1 DEF Inv, TreeOK
  <2> QED
    BY <1>1, <1>3, <2>2, PrecedenceBound, NoneIsNoOperator
<1>5. Precedence(nodes[r].op) \in Nat
  BY <1>4, PrecedenceBound DEF Inv, TreeOK
<1> QED
  BY <1>1, <1>3, <1>4, <1>5

\* Where the descent is, there is something at the right.
LEMMA PlaceHasRight ==
  ASSUME Inv, pc = "place", Top.op # "none"
  PROVE  node \in DOMAIN nodes /\ nodes[node].rhs \in DOMAIN nodes
<1>1. CASE node = Top.root
  BY <1>1, TopFrame DEF FrameOK
<1>2. CASE node \in operators
  BY <1>2 DEF Inv, TreeOK
<1> QED
  BY <1>1, <1>2 DEF Inv, PlaceOK

LEMMA StepDescend ==
  ASSUME Inv, Descend
  PROVE  Inv'
<1>1. /\ pc = "place" /\ Top.op # "none" /\ ~Stops(nodes[node].rhs, Top.op)
      /\ node' = nodes[node].rhs
      /\ UNCHANGED <<reading, at, tree, frames, operand, timing, pc>>
  BY DEF Descend, Below
<1>2. node \in DOMAIN nodes /\ node' \in DOMAIN nodes
  BY <1>1, PlaceHasRight
<1>3. node' \in operators /\ Precedence(nodes[node'].op) < Precedence(Top.op)
  BY <1>1, <1>2, Passed
<1>4. Top' = Top /\ nodes' = nodes /\ operators' = operators /\ operand' = operand /\ pc' = pc
  BY <1>1 DEF Top, tree
<1>5. PlaceOK'
  BY <1>1, <1>3, <1>4 DEF Inv, PlaceOK
<1>6. TreeOK(nodes, operators)' /\ FramesOK' /\ DurationOK'
  BY <1>1, <1>4 DEF Inv, TreeOK, FramesOK, FrameOK, DurationOK, timing
<1>7. node' \in 0 .. Len(nodes)
  BY <1>2, TopFrame
<1>8. TypeOK'
  BY <1>1, <1>4, <1>7 DEF Inv, TypeOK, reading, timing
<1> QED
  BY <1>5, <1>6, <1>8 DEF Inv

LEMMA StepReadOperator ==
  ASSUME Inv, ReadOperator
  PROVE  Inv'
<1> DEFINE f == [Top EXCEPT !.op = Next1.tok]
<1>1. at < Len(text) /\ Next1.tok \in Op /\ frames' = SetTop(f) /\ pc = "operator" /\ pc' = "unary"
  BY DEF ReadOperator, Sees
<1>2. at' = at + 1 /\ at' \in Nat /\ at' <= Len(text) /\ Len(text) <= at' + 1
  BY <1>1, NextToken DEF ReadOperator
<1>3. f \in Frame /\ f.root = Top.root /\ f.kind = Top.kind
  BY <1>1, TopFrame DEF Frame
<1>4. nodes[Top.root].rhs \in DOMAIN nodes
  BY <1>1 DEF Inv, PlaceOK
<1> HIDE DEF f
<1>5. FrameOK(f, nodes, Len(frames))
  BY <1>3, <1>4, TopFrame DEF FrameOK
<1>6. nodes' = nodes /\ operators' = operators
  BY DEF ReadOperator, tree
<1>7. \A k \in DOMAIN frames : FrameOK(frames[k], nodes, k)
  BY DEF Inv, FramesOK
<1>8. FramesOK'
  BY <1>1, <1>5, <1>6, <1>7, TopSet
<1>9. TreeOK(nodes, operators)' /\ PlaceOK' /\ DurationOK'
  BY <1>1, <1>6 DEF Inv, PlaceOK, DurationOK, TreeOK
<1>10. TypeOK'
  BY <1>1, <1>2, <1>6, <1>8 DEF Inv, TypeOK, FramesOK, ReadOperator, reading, timing
<1> QED
  BY <1>8, <1>9, <1>10 DEF Inv

\* A new operator takes the place of the right-hand side of a node.
LEMMA StepInsert ==
  ASSUME Inv, Insert
  PROVE  Inv'
<1> DEFINE f == [Top EXCEPT !.op = "none", !.sign = "none"]
           right == nodes[node].rhs
           new == Len(nodes) + 1
           m == [nodes[node] EXCEPT !.rhs = new]
           b == Bin(Top.op, right, operand)
<1>1. /\ pc = "place" /\ pc' = "operator" /\ Top.op # "none" /\ Stops(right, Top.op)
      /\ nodes' = Append([nodes EXCEPT ![node].rhs = new], b)
      /\ operators' = operators \cup {new}
      /\ frames' = SetTop(f)
  BY DEF Insert
<1>2. node \in DOMAIN nodes /\ right \in DOMAIN nodes /\ operand \in DOMAIN nodes \ operators
  BY <1>1, PlaceHasRight DEF Inv, PlaceOK
<1>3. Top.op \in Op
  BY <1>1, TopFrame DEF Frame
<1>4. b \in Node /\ b.kind = "bin" /\ b.op = Top.op /\ b.lhs = right /\ b.rhs = operand
  <2>1. right \in Nat /\ operand \in Nat
    BY <1>2, TopFrame
  <2> QED
    BY <1>3, <2>1, NodeTypes DEF Bin
<1>5. /\ m \in Node /\ m.kind = nodes[node].kind /\ m.op = nodes[node].op
      /\ m.lhs = nodes[node].lhs /\ m.rhs = new
  <2>1. nodes[node] \in Node /\ new \in Nat
    BY <1>2, TopFrame
  <2> QED
    BY <2>1 DEF Node
<1>6. nodes' = Append([nodes EXCEPT ![node] = m], b)
  BY <1>1
<1> HIDE DEF f, m, b
<1>7. /\ nodes' \in Seq(Node) /\ nodes' # <<>> /\ Len(nodes') = new
      /\ DOMAIN nodes' = 1 .. new /\ new \notin DOMAIN nodes
      /\ nodes'[new] = b /\ nodes'[node] = m
      /\ \A i \in DOMAIN nodes \ {node} : nodes'[i] = nodes[i]
  BY <1>2, <1>4, <1>5, <1>6, TopFrame
<1>8. DOMAIN nodes \subseteq DOMAIN nodes' /\ new \in DOMAIN nodes'
  BY <1>7, TopFrame
<1>9. \A i \in DOMAIN nodes : /\ nodes'[i].kind = nodes[i].kind /\ nodes'[i].op = nodes[i].op
                              /\ nodes'[i].lhs = nodes[i].lhs
                              /\ nodes'[i].rhs = IF i = node THEN new ELSE nodes[i].rhs
  BY <1>2, <1>5, <1>7
<1>10. operators \subseteq DOMAIN nodes
  BY DEF Inv, TypeOK
<1> HIDE DEF new, right
<1>11. TreeOK(nodes', operators')
  <2>1. operators' \subseteq DOMAIN nodes'
    BY <1>1, <1>8, <1>10
  <2>2. ASSUME NEW i \in DOMAIN nodes', nodes'[i].kind = "bin", i \notin operators'
        PROVE  nodes'[i].op = "MUL"
    <3>1. i # new /\ i \in DOMAIN nodes
      BY <1>1, <1>7, <2>2, TopFrame DEF new
    <3> QED
      BY <1>1, <1>9, <2>2, <3>1 DEF Inv, TreeOK
  <2>3. ASSUME NEW i \in operators'
        PROVE  /\ nodes'[i].kind = "bin" /\ nodes'[i].op \in Op
               /\ nodes'[i].lhs \in DOMAIN nodes' /\ nodes'[i].rhs \in DOMAIN nodes'
               /\ nodes'[i].rhs \in operators' =>
                    Precedence(nodes'[nodes'[i].rhs].op) > Precedence(nodes'[i].op)
               /\ nodes'[i].lhs \in operators' =>
                    Precedence(nodes'[nodes'[i].lhs].op) >= Precedence(nodes'[i].op)
    <3>1. CASE i = new
      <4>1. operand \notin operators'
        BY <1>1, <1>2, <1>7
      <4>2. right \in operators' => right \in operators /\ Precedence(nodes[right].op) >= Precedence(Top.op)
        BY <1>1, <1>2, <1>7 DEF Stops, Inv, TreeOK
      <4>3. nodes'[right].op = nodes[right].op
        BY <1>2, <1>9
      <4> QED
        BY <1>2, <1>3, <1>4, <1>7, <1>8, <3>1, <4>1, <4>2, <4>3
    <3>2. CASE i \in operators
      <4>1. /\ i \in DOMAIN nodes /\ nodes[i].kind = "bin" /\ nodes[i].op \in Op
            /\ nodes[i].lhs \in DOMAIN nodes /\ nodes[i].rhs \in DOMAIN nodes
            /\ nodes[i].rhs \in operators => Precedence(nodes[nodes[i].rhs].op) > Precedence(nodes[i].op)
            /\ nodes[i].lhs \in operators => Precedence(nodes[nodes[i].lhs].op) >= Precedence(nodes[i].op)
        BY <1>10, <3>2 DEF Inv, TreeOK
      <4>2. nodes'[i].lhs \in operators' =>
              Precedence(nodes'[nodes'[i].lhs].op) >= Precedence(nodes'[i].op)
        BY <1>1, <1>7, <1>9, <4>1
      <4>3. CASE i # node
        <5>1. nodes'[i].rhs \in operators' =>
                Precedence(nodes'[nodes'[i].rhs].op) > Precedence(nodes'[i].op)
          BY <1>1, <1>7, <1>9, <4>1, <4>3
        <5> QED
          BY <1>8, <1>9, <4>1, <4>2, <4>3, <5>1
      <4>4. CASE i = node
        <5>1. Precedence(nodes[node].op) < Precedence(Top.op)
          <6>1. node # Top.root
            BY <4>1, <4>4, TopFrame DEF FrameOK
          <6> QED
            BY <1>1, <6>1 DEF Inv, PlaceOK
        <5>2. nodes'[i].rhs = new /\ nodes'[new].op = Top.op /\ nodes'[i].op = nodes[node].op
          BY <1>4, <1>7, <1>9, <4>1, <4>4
        <5>3. Precedence(nodes[node].op) \in Nat /\ Precedence(Top.op) \in Nat
          BY <1>3, <4>1, <4>4, PrecedenceBound
        <5>4. Precedence(nodes'[nodes'[i].rhs].op) > Precedence(nodes'[i].op)
          BY <5>1, <5>2, <5>3
        <5> QED
          BY <1>8, <1>9, <4>1, <4>2, <5>2, <5>4
      <4> QED
        BY <4>3, <4>4
    <3> QED
      BY <1>1, <3>1, <3>2
  <2> QED
    BY <2>1, <2>2, <2>3 DEF TreeOK
<1>12. \A k \in DOMAIN frames : FrameOK(frames[k], nodes', k)
  <2>1. \A i \in DOMAIN nodes : nodes'[i].kind = nodes[i].kind
    BY <1>9
  <2>2. \A i \in DOMAIN nodes : nodes'[i].rhs = nodes[i].rhs \/ nodes'[i].rhs \in DOMAIN nodes'
    BY <1>8, <1>9
  <2> QED
    BY <1>8, <2>1, <2>2, FrameKept DEF Inv, FramesOK
<1>13. f \in Frame /\ f.root = Top.root /\ f.kind = Top.kind /\ f.op = "none"
  BY TopFrame DEF f, Frame
<1>14. FrameOK(Top, nodes', Len(frames))
  BY <1>12, TopFrame
<1>15. FrameOK(f, nodes', Len(frames))
  BY <1>13, <1>14 DEF FrameOK
<1>16. FramesOK' /\ Top' = f
  BY <1>1, <1>12, <1>15, TopSet
<1>17. PlaceOK' /\ DurationOK'
  <2>1. Top.root \in DOMAIN nodes /\ nodes[Top.root].rhs \in DOMAIN nodes
    BY <1>1, TopFrame DEF FrameOK
  <2>2. nodes'[Top.root].rhs \in DOMAIN nodes'
    BY <1>8, <1>9, <2>1
  <2> QED
    BY <1>1, <1>13, <1>16, <2>2 DEF PlaceOK, DurationOK
<1>18. operators' \subseteq DOMAIN nodes' /\ operand' \in 0 .. Len(nodes') /\ node' \in 0 .. Len(nodes')
  BY <1>1, <1>2, <1>7, <1>8, <1>10, TopFrame DEF Insert, new
<1>19. TypeOK'
  BY <1>1, <1>7, <1>16, <1>18 DEF Inv, TypeOK, FramesOK, Insert, reading, timing
<1> QED
  BY <1>11, <1>16, <1>17, <1>19 DEF Inv

----------------------------------------------------------------------------
(* The tree and the text.  A node stands for the tokens first[i] to        *)
(* last[i] of the text; roots and the ones that signs stand for have no    *)
(* tokens: first[i] = 0.                                                   *)

Reads(t, x, tok) == x \in 1 .. Len(t) /\ t[x].tok = tok

\* The literal that the token u stands for.  What a duration is worth is the
\* matter of DurationOverflow.
Means(u, l) ==
  \/ u.tok \in LeafTok /\ LeafOf(u) = <<l>>
  \/ u.tok = "MUL" /\ l = Named("wildcard", NoName)
  \/ u.tok = "REGEX" /\ l = u.leaf
  \/ u.tok = "DURATIONVAL" /\ l.type = "duration"

LiteralAt(t, x, l) == x \in 1 .. Len(t) /\ Means(t[x], l)

\* A literal is one token, or one token behind a sign.
LeafStands(t, l, a, b) ==
  \/ a = b /\ LiteralAt(t, b, l)
  \/ a + 1 = b /\ Reads(t, a, "ADD") /\ LiteralAt(t, b, l)
  \/ a + 1 = b /\ Reads(t, a, "SUB") /\ \E m \in Leaf : LiteralAt(t, b, m) /\ Negated(m) = <<l>>

\* What the loop made: the left operand, the operator, the right operand.
OperatorStands(t, h, first, last, i) ==
  /\ h[i].lhs \in DOMAIN h /\ h[i].rhs \in DOMAIN h
  /\ first[h[i].lhs] = first[i]
  /\ Reads(t, last[h[i].lhs] + 1, h[i].op)
  /\ first[h[i].rhs] = last[h[i].lhs] + 2 /\ last[h[i].rhs] = last[i]

\* The one or the minus one that a sign stands for.
One(sign) == LeafNode(Lit("int", IF sign = "SUB" THEN -1 ELSE 1))

\* A sign and what is multiplied for it.
SignStands(t, h, first, last, i) ==
  /\ h[i].op = "MUL"
  /\ h[i].lhs \in DOMAIN h /\ h[i].rhs \in DOMAIN h
  /\ \E sign \in {"ADD", "SUB"} : Reads(t, first[i], sign) /\ h[h[i].lhs] = One(sign)
  /\ first[h[i].rhs] = first[i] + 1 /\ last[h[i].rhs] = last[i]
  /\ h[h[i].rhs].kind # "bin"

ParenStands(t, h, first, last, i) ==
  /\ h[i].rhs \in DOMAIN h
  /\ Reads(t, first[i], "LPAREN") /\ first[h[i].rhs] = first[i] + 1
  /\ Reads(t, last[i], "RPAREN") /\ last[i] = last[h[i].rhs] + 1

\* Arguments from behind token s on, a comma between two of them.
ArgsStand(t, h, first, last, args, s) ==
  \A j \in DOMAIN args :
    /\ args[j] \in DOMAIN h /\ first[args[j]] > s
    /\ j = 1 => first[args[j]] = s + 1
    /\ j > 1 => /\ Reads(t, last[args[j - 1]] + 1, "COMMA")
                /\ first[args[j]] = last[args[j - 1]] + 2

\* The token before the one that ends the arguments.
EndOf(last, args, s) == IF args = <<>> THEN s ELSE last[args[Len(args)]]

CallStands(t, h, first, last, i) ==
  /\ Reads(t, first[i], "CALL") /\ t[first[i]].leaf = h[i].leaf
  /\ ArgsStand(t, h, first, last, h[i].args, first[i])
  /\ \A j \in DOMAIN h[i].args : last[h[i].args[j]] < last[i]
  /\ Reads(t, last[i], "RPAREN") /\ last[i] = EndOf(last, h[i].args, first[i]) + 1

Stands(t, h, ops, first, last, i) ==
  /\ first[i] <= last[i]
  /\ \/ h[i].kind = "leaf" /\ LeafStands(t, h[i].leaf, first[i], last[i])
     \/ i \in ops /\ OperatorStands(t, h, first, last, i)
     \/ h[i].kind = "bin" /\ i \notin ops /\ SignStands(t, h, first, last, i)
     \/ h[i].kind = "paren" /\ ParenStands(t, h, first, last, i)
     \/ h[i].kind = "call" /\ CallStands(t, h, first, last, i)

----------------------------------------------------------------------------
(* The invariant: what the tree and the stack say of the text read so far. *)
(* While a call of ParseExpr is open, its marks are the token that opened  *)
(* it, the one before its first operand, and, while an operator waits for  *)
(* its right operand, the one before that operator.                        *)

Marks == [start : Nat, arg : Nat, end : Nat]

Binds(h, i) == Precedence(h[i].op)

\* Of two operators that end together, one is at the right of the other.
Chained(h, ops, i, j) ==
  /\ Binds(h, i) < Binds(h, j)
  /\ h[i].rhs \in ops /\ Binds(h, h[i].rhs) <= Binds(h, j)

Chain(h, ops, last) ==
  \A i, j \in ops : last[i] = last[j] => i = j \/ Chained(h, ops, i, j) \/ Chained(h, ops, j, i)

\* The operator r is the outermost of those that end at e.
Heads(h, ops, last, r, e) ==
  \A i \in ops : last[i] = e => r \in ops /\ Binds(h, r) <= Binds(h, i)

\* No node has the token behind e.
Cut(first, last, e) == \A i \in DOMAIN first : last[i] <= e \/ first[i] >= e + 2

\* The left operand of the operator that waits is complete.
Waits(t, h, ops, first, last, r, op, m) ==
  /\ m.arg < m.end /\ Reads(t, m.end + 1, op)
  /\ first[r] = m.arg + 1 /\ last[r] = m.end
  /\ Heads(h, ops, last, r, m.end)
  /\ Cut(first, last, m.end)

\* The token before the operand that is due, without and with its sign.
Due(f, m) == IF f.op = "none" THEN m.arg ELSE m.end + 1

Pending(f, m) == IF f.sign = "none" THEN Due(f, m) ELSE Due(f, m) + 1

FrameStands(t, h, ops, first, last, f, m) ==
  /\ first[f.root] = 0
  /\ m.start <= m.arg
  /\ f.kind = "top" => f.root = 1 /\ m.start = 0 /\ m.arg = 0
  /\ f.kind = "paren" => Reads(t, m.start, "LPAREN") /\ m.arg = m.start
  /\ f.kind = "call" => /\ Reads(t, m.start, "CALL") /\ t[m.start].leaf = f.name
                        /\ ArgsStand(t, h, first, last, f.args, m.start)
  /\ f.op # "none" => Waits(t, h, ops, first, last, h[f.root].rhs, f.op, m)
  /\ f.sign # "none" => Reads(t, Due(f, m) + 1, f.sign)

\* The arguments read so far end before the one that is read now.
ArgsEnd(t, last, f, m) ==
  f.kind = "call" =>
    /\ \A j \in DOMAIN f.args : last[f.args[j]] < m.arg
    /\ f.args = <<>> => m.arg = m.start
    /\ f.args # <<>> => Reads(t, m.arg, "COMMA") /\ m.arg = last[f.args[Len(f.args)]] + 1

\* The open calls, outermost first: each begins behind what the ones around it
\* have read.
StackStands(t, h, ops, first, last, fs, marks) ==
  /\ marks \in [DOMAIN fs -> Marks]
  /\ \A k \in DOMAIN fs : FrameStands(t, h, ops, first, last, fs[k], marks[k])
  /\ \A k \in DOMAIN fs : k < Len(fs) => ArgsEnd(t, last, fs[k], marks[k])
  /\ \A k, l \in DOMAIN fs :
       k < l => fs[k].root < fs[l].root /\ Pending(fs[k], marks[k]) < marks[l].start
  /\ \A k, l \in DOMAIN fs : l = k + 1 => marks[l].start = Pending(fs[k], marks[k]) + 1

\* Everything in the heap stands for tokens up to e.
HeapStands(t, h, ops, first, last, e) ==
  /\ first \in [DOMAIN h -> Nat] /\ last \in [DOMAIN h -> Nat]
  /\ \A i \in DOMAIN h : last[i] <= e /\ (first[i] = 0 \/ Stands(t, h, ops, first, last, i))
  /\ \A i \in ops : first[i] > 0
  /\ Chain(h, ops, last)

\* What the innermost call has read, in each of its states.
TopStands(first, last, m) ==
  /\ pc = "unary" => at = Pending(Top, m)
  /\ pc = "duration" => /\ at = Pending(Top, m) + 1 /\ Reads(text, at, "DURATIONVAL")
                        /\ \A i \in operators : last[i] < at
  /\ pc = "place" => /\ first[operand] = Due(Top, m) + 1 /\ last[operand] = at
                     /\ \A i \in operators : last[i] < at
                     /\ Top.op # "none" => node = Top.root \/ (node \in operators /\ last[node] = m.end)
  /\ pc \in {"operator", "argument", "arguments"} => Top.op = "none" /\ Top.sign = "none"
  /\ pc = "operator" => LET r == nodes[Top.root].rhs
                        IN /\ first[r] = m.arg + 1 /\ last[r] = at
                           /\ Heads(nodes, operators, last, r, at)
  /\ pc = "argument" => at = m.arg
  /\ pc = "arguments" => /\ Top.args # <<>> /\ first[Last(Top.args)] = m.arg + 1
                         /\ last[Last(Top.args)] = at
  /\ pc # "arguments" => ArgsEnd(text, last, Top, m)

Spans(first, last, marks) ==
  /\ HeapStands(text, nodes, operators, first, last, at)
  /\ pc # "error" => /\ StackStands(text, nodes, operators, first, last, frames, marks)
                     /\ pc = "done" \/ TopStands(first, last, marks[Len(frames)])

\* Every node of the tree that was returned stands for tokens of the text, and
\* the tree for all that were consumed.
ReadsTheText ==
  pc = "done" =>
    \E first, last \in [DOMAIN nodes -> Nat] :
      LET r == nodes[1].rhs
      IN  /\ r \in DOMAIN nodes /\ first[r] = 1 /\ last[r] = at
          /\ \A i \in DOMAIN nodes :
               first[i] > 0 => Stands(text, nodes, operators, first, last, i)

----------------------------------------------------------------------------
(* What stands in a text and in a heap still does when they grow.          *)

Extends(t, u) == Len(t) \in Nat /\ Len(u) \in Nat /\ Len(t) <= Len(u) /\ \A x \in 1 .. Len(t) : u[x] = t[x]

\* The heap g has kept the nodes of h and their tokens; the operand of a root
\* may have changed.
Kept(h, g, first, last, first2, last2) ==
  /\ DOMAIN h \subseteq DOMAIN g
  /\ \A i \in DOMAIN h : /\ first2[i] = first[i] /\ last2[i] = last[i]
                         /\ g[i].kind = h[i].kind /\ (h[i].kind # "root" => g[i] = h[i])

LEMMA ReadsMore ==
  ASSUME NEW t, NEW u, Extends(t, u), NEW x, NEW tok, Reads(t, x, tok)
  PROVE  Reads(u, x, tok) /\ u[x] = t[x]
BY DEF Reads, Extends

LEMMA LiteralMore ==
  ASSUME NEW t, NEW u, Extends(t, u), NEW x, NEW l, LiteralAt(t, x, l)
  PROVE  LiteralAt(u, x, l)
<1>1. x \in 1 .. Len(u) /\ u[x] = t[x] /\ Means(t[x], l)
  BY DEF LiteralAt, Extends
<1> QED
  BY <1>1 DEF LiteralAt

LEMMA LeafStandsMore ==
  ASSUME NEW t, NEW u, Extends(t, u), NEW l, NEW a, NEW b, LeafStands(t, l, a, b)
  PROVE  LeafStands(u, l, a, b)
<1>1. \A m : LiteralAt(t, b, m) => LiteralAt(u, b, m)
  BY LiteralMore
<1>2. \A tok : Reads(t, a, tok) => Reads(u, a, tok)
  BY ReadsMore
<1> QED
  BY <1>1, <1>2 DEF LeafStands

LEMMA ArgsMore ==
  ASSUME NEW t, NEW u, Extends(t, u),
         NEW h, NEW g, NEW first, NEW last, NEW first2, NEW last2,
         Kept(h, g, first, last, first2, last2),
         NEW args \in Seq(Nat), NEW s, ArgsStand(t, h, first, last, args, s)
  PROVE  /\ ArgsStand(u, g, first2, last2, args, s)
         /\ \A j \in DOMAIN args : args[j] \in DOMAIN h /\ last2[args[j]] = last[args[j]]
         /\ EndOf(last2, args, s) = EndOf(last, args, s)
<1>1. \A j \in DOMAIN args : args[j] \in DOMAIN h /\ last2[args[j]] = last[args[j]]
  BY DEF ArgsStand, Kept
<1>2. ASSUME NEW j \in DOMAIN args
      PROVE  /\ args[j] \in DOMAIN g /\ first2[args[j]] > s
             /\ j = 1 => first2[args[j]] = s + 1
             /\ j > 1 => /\ Reads(u, last2[args[j - 1]] + 1, "COMMA")
                         /\ first2[args[j]] = last2[args[j - 1]] + 2
  <2>1. args[j] \in DOMAIN g /\ first2[args[j]] = first[args[j]]
    BY DEF ArgsStand, Kept
  <2>2. ASSUME j > 1
        PROVE  Reads(u, last2[args[j - 1]] + 1, "COMMA") /\ first2[args[j]] = last2[args[j - 1]] + 2
    <3>1. j - 1 \in DOMAIN args
      BY <2>2
    <3>2. last2[args[j - 1]] = last[args[j - 1]]
      BY <1>1, <3>1
    <3>3. Reads(t, last[args[j - 1]] + 1, "COMMA") /\ first[args[j]] = last[args[j - 1]] + 2
      BY <2>2 DEF ArgsStand
    <3>4. Reads(u, last[args[j - 1]] + 1, "COMMA")
      BY <3>3, ReadsMore
    <3> QED
      BY <2>1, <3>2, <3>3, <3>4
  <2>3. first[args[j]] > s /\ (j = 1 => first[args[j]] = s + 1)
    BY DEF ArgsStand
  <2> QED
    BY <2>1, <2>2, <2>3
<1>3. EndOf(last2, args, s) = EndOf(last, args, s)
  <2>1. CASE args = <<>>
    BY <2>1 DEF EndOf
  <2>2. CASE args # <<>>
    <3>1. Len(args) \in DOMAIN args
      BY <2>2
    <3>2. last2[args[Len(args)]] = last[args[Len(args)]]
      BY <1>1, <3>1
    <3> QED
      BY <3>2, <2>2 DEF EndOf
  <2> QED
    BY <2>1, <2>2
<1>4. ArgsStand(u, g, first2, last2, args, s)
  BY <1>2 DEF ArgsStand
<1> QED
  BY <1>1, <1>3, <1>4

\* A node of the heap that stands for tokens goes on to do so.
LEMMA StandsKept ==
  ASSUME NEW t, NEW u, Extends(t, u),
         NEW h \in Seq(Node), NEW g, NEW ops, TreeOK(h, ops),
         NEW first, NEW last, NEW first2, NEW last2,
         Kept(h, g, first, last, first2, last2),
         NEW ops2, \A i \in DOMAIN h : i \in ops2 <=> i \in ops,
         NEW i \in DOMAIN h, Stands(t, h, ops, first, last, i)
  PROVE  Stands(u, g, ops2, first2, last2, i)
<1>1. first2[i] = first[i] /\ last2[i] = last[i] /\ first[i] <= last[i]
  BY DEF Kept, Stands
<1>2. i \in ops => h[i].kind = "bin"
  BY DEF TreeOK
<1>3. CASE h[i].kind = "leaf" /\ LeafStands(t, h[i].leaf, first[i], last[i])
  <2>1. g[i] = h[i]
    BY <1>3 DEF Kept
  <2>2. LeafStands(u, h[i].leaf, first[i], last[i])
    BY <1>3, LeafStandsMore
  <2> QED
    BY <1>1, <1>3, <2>1, <2>2 DEF Stands
<1>4. CASE i \in ops /\ OperatorStands(t, h, first, last, i)
  <2>1. g[i] = h[i] /\ i \in ops2
    BY <1>2, <1>4 DEF Kept
  <2>2. OperatorStands(u, g, first2, last2, i)
    <3>1. /\ h[i].lhs \in DOMAIN h /\ h[i].rhs \in DOMAIN h
          /\ first[h[i].lhs] = first[i]
          /\ Reads(t, last[h[i].lhs] + 1, h[i].op)
          /\ first[h[i].rhs] = last[h[i].lhs] + 2 /\ last[h[i].rhs] = last[i]
      BY <1>4 DEF OperatorStands
    <3>2. Reads(u, last[h[i].lhs] + 1, h[i].op)
      BY <3>1, ReadsMore
    <3>3. /\ h[i].lhs \in DOMAIN g /\ h[i].rhs \in DOMAIN g
          /\ first2[h[i].lhs] = first[h[i].lhs] /\ last2[h[i].lhs] = last[h[i].lhs]
          /\ first2[h[i].rhs] = first[h[i].rhs] /\ last2[h[i].rhs] = last[h[i].rhs]
      BY <3>1 DEF Kept
    <3> QED
      BY <1>1, <2>1, <3>1, <3>2, <3>3 DEF OperatorStands
  <2> QED
    BY <1>1, <2>1, <2>2 DEF Stands
<1>5. CASE h[i].kind = "bin" /\ i \notin ops /\ SignStands(t, h, first, last, i)
  <2>1. g[i] = h[i] /\ i \notin ops2
    BY <1>5 DEF Kept
  <2>2. SignStands(u, g, first2, last2, i)
    <3>1. PICK sign \in {"ADD", "SUB"} : Reads(t, first[i], sign) /\ h[h[i].lhs] = One(sign)
      BY <1>5 DEF SignStands
    <3>2. /\ h[i].op = "MUL"
          /\ h[i].lhs \in DOMAIN h /\ h[i].rhs \in DOMAIN h
          /\ first[h[i].rhs] = first[i] + 1 /\ last[h[i].rhs] = last[i]
          /\ h[h[i].rhs].kind # "bin"
      BY <1>5 DEF SignStands
    <3>3. h[h[i].lhs].kind = "leaf"
      BY <3>1 DEF One, LeafNode
    <3>4. /\ h[i].lhs \in DOMAIN g /\ h[i].rhs \in DOMAIN g
          /\ g[h[i].lhs] = h[h[i].lhs]
          /\ first2[h[i].rhs] = first[h[i].rhs] /\ last2[h[i].rhs] = last[h[i].rhs]
          /\ g[h[i].rhs].kind = h[h[i].rhs].kind
      BY <3>2, <3>3 DEF Kept
    <3>5. Reads(u, first[i], sign)
      BY <3>1, ReadsMore
    <3> QED
      BY <1>1, <2>1, <3>1, <3>2, <3>4, <3>5 DEF SignStands
  <2> QED
    BY <1>1, <1>5, <2>1, <2>2 DEF Stands
<1>6. CASE h[i].kind = "paren" /\ ParenStands(t, h, first, last, i)
  <2>1. g[i] = h[i]
    BY <1>6 DEF Kept
  <2>2. ParenStands(u, g, first2, last2, i)
    <3>1. /\ h[i].rhs \in DOMAIN h
          /\ Reads(t, first[i], "LPAREN") /\ first[h[i].rhs] = first[i] + 1
          /\ Reads(t, last[i], "RPAREN") /\ last[i] = last[h[i].rhs] + 1
      BY <1>6 DEF ParenStands
    <3>2. Reads(u, first[i], "LPAREN") /\ Reads(u, last[i], "RPAREN")
      BY <3>1, ReadsMore
    <3>3. /\ h[i].rhs \in DOMAIN g
          /\ first2[h[i].rhs] = first[h[i].rhs] /\ last2[h[i].rhs] = last[h[i].rhs]
      BY <3>1 DEF Kept
    <3> QED
      BY <1>1, <2>1, <3>1, <3>2, <3>3 DEF ParenStands
  <2> QED
    BY <1>1, <1>6, <2>1, <2>2 DEF Stands
<1>7. CASE h[i].kind = "call" /\ CallStands(t, h, first, last, i)
  <2>1. g[i] = h[i] /\ h[i].args \in Seq(Nat)
    <3>1. h[i] \in Node
      OBVIOUS
    <3>2. h[i].args \in Seq(Nat)
      BY <3>1 DEF Node
    <3> QED
      BY <1>7, <3>2 DEF Kept
  <2>2. CallStands(u, g, first2, last2, i)
    <3>1. /\ Reads(t, first[i], "CALL") /\ t[first[i]].leaf = h[i].leaf
          /\ ArgsStand(t, h, first, last, h[i].args, first[i])
          /\ \A j \in DOMAIN h[i].args : last[h[i].args[j]] < last[i]
          /\ Reads(t, last[i], "RPAREN") /\ last[i] = EndOf(last, h[i].args, first[i]) + 1
      BY <1>7 DEF CallStands
    <3>2. /\ Reads(u, first[i], "CALL") /\ u[first[i]] = t[first[i]] /\ Reads(u, last[i], "RPAREN")
      BY <3>1, ReadsMore
    <3>3. /\ ArgsStand(u, g, first2, last2, h[i].args, first[i])
          /\ \A j \in DOMAIN h[i].args : last2[h[i].args[j]] = last[h[i].args[j]]
          /\ EndOf(last2, h[i].args, first[i]) = EndOf(last, h[i].args, first[i])
      BY <2>1, <3>1, ArgsMore
    <3> QED
      BY <1>1, <2>1, <3>1, <3>2, <3>3 DEF CallStands
  <2> QED
    BY <1>1, <1>7, <2>1, <2>2 DEF Stands
<1> QED
  BY <1>3, <1>4, <1>5, <1>6, <1>7 DEF Stands

LEMMA OperatorsKept ==
  ASSUME NEW h, NEW g, NEW ops, TreeOK(h, ops),
         NEW first, NEW last, NEW first2, NEW last2, Kept(h, g, first, last, first2, last2)
  PROVE  \A i \in ops : i \in DOMAIN h /\ g[i] = h[i] /\ first2[i] = first[i] /\ last2[i] = last[i]
<1>1. \A i \in ops : i \in DOMAIN h /\ h[i].kind = "bin"
  BY DEF TreeOK
<1> QED
  BY <1>1 DEF Kept

LEMMA HeadsKept ==
  ASSUME NEW h, NEW g, NEW ops, TreeOK(h, ops),
         NEW first, NEW last, NEW first2, NEW last2, Kept(h, g, first, last, first2, last2),
         NEW r, NEW e, Heads(h, ops, last, r, e)
  PROVE  Heads(g, ops, last2, r, e)
<1>1. \A i \in ops : g[i] = h[i] /\ last2[i] = last[i]
  BY OperatorsKept
<1> QED
  BY <1>1 DEF Heads, Binds

\* All that is in the heap goes on to stand for its tokens.
LEMMA HeapKept ==
  ASSUME NEW t, NEW u, Extends(t, u),
         NEW h \in Seq(Node), NEW g, NEW ops, TreeOK(h, ops),
         NEW first, NEW last, NEW first2 \in [DOMAIN g -> Nat], NEW last2 \in [DOMAIN g -> Nat],
         Kept(h, g, first, last, first2, last2),
         NEW e \in Nat, NEW e2 \in Nat, e <= e2,
         HeapStands(t, h, ops, first, last, e),
         \A j \in DOMAIN g \ DOMAIN h :
            last2[j] <= e2 /\ (first2[j] = 0 \/ Stands(u, g, ops, first2, last2, j))
  PROVE  HeapStands(u, g, ops, first2, last2, e2)
<1>1. \A i \in ops : i \in DOMAIN h /\ g[i] = h[i] /\ first2[i] = first[i] /\ last2[i] = last[i]
  BY OperatorsKept
<1>2. ASSUME NEW i \in DOMAIN h
      PROVE  last2[i] <= e2 /\ (first2[i] = 0 \/ Stands(u, g, ops, first2, last2, i))
  <2>1. i \in DOMAIN g /\ first2[i] = first[i] /\ last2[i] = last[i]
    BY DEF Kept
  <2>2. last[i] <= e /\ (first[i] = 0 \/ Stands(t, h, ops, first, last, i))
    BY DEF HeapStands
  <2>3. last2[i] <= e2
    BY <2>1, <2>2
  <2>4. Stands(t, h, ops, first, last, i) => Stands(u, g, ops, first2, last2, i)
    BY StandsKept
  <2> QED
    BY <2>1, <2>2, <2>3, <2>4
<1>3. \A i \in ops : first2[i] > 0
  BY <1>1 DEF HeapStands
<1>4. Chain(g, ops, last2)
  <2>1. Chain(h, ops, last)
    BY DEF HeapStands
  <2>2. \A i \in ops : Binds(g, i) = Binds(h, i)
    BY <1>1 DEF Binds
  <2>3. ASSUME NEW i \in ops, NEW j \in ops, Chained(h, ops, i, j)
        PROVE  Chained(g, ops, i, j)
    BY <1>1, <2>2, <2>3 DEF Chained
  <2>4. ASSUME NEW i \in ops, NEW j \in ops, last2[i] = last2[j], i # j
        PROVE  Chained(g, ops, i, j) \/ Chained(g, ops, j, i)
    <3>1. last[i] = last[j]
      BY <1>1, <2>4
    <3>2. Chained(h, ops, i, j) \/ Chained(h, ops, j, i)
      BY <2>1, <2>4, <3>1 DEF Chain
    <3> QED
      BY <2>3, <3>2
  <2> QED
    BY <2>4 DEF Chain
<1> QED
  BY <1>2, <1>3, <1>4 DEF HeapStands

LEMMA FrameStandsKept ==
  ASSUME NEW t, NEW u, Extends(t, u),
         NEW h, NEW g, NEW ops, TreeOK(h, ops),
         NEW first, NEW last, NEW first2, NEW last2,
         DOMAIN first = DOMAIN h, DOMAIN first2 = DOMAIN g,
         Kept(h, g, first, last, first2, last2),
         NEW f \in Frame, NEW m, f.root \in DOMAIN h,
         FrameStands(t, h, ops, first, last, f, m),
         f.op # "none" => /\ h[f.root].rhs \in DOMAIN h
                          /\ g[f.root] = h[f.root]
                          /\ \A j \in DOMAIN g \ DOMAIN h : last2[j] <= m.end \/ first2[j] >= m.end + 2
  PROVE  FrameStands(u, g, ops, first2, last2, f, m)
<1>1. first2[f.root] = 0 /\ m.start <= m.arg
  BY DEF FrameStands, Kept
<1>2. /\ f.kind = "top" => f.root = 1 /\ m.start = 0 /\ m.arg = 0
      /\ f.kind = "paren" => Reads(u, m.start, "LPAREN") /\ m.arg = m.start
      /\ f.sign # "none" => Reads(u, Due(f, m) + 1, f.sign)
  BY ReadsMore DEF FrameStands
<1>3. ASSUME f.kind = "call"
      PROVE  /\ Reads(u, m.start, "CALL") /\ u[m.start].leaf = f.name
             /\ ArgsStand(u, g, first2, last2, f.args, m.start)
  <2>1. /\ Reads(t, m.start, "CALL") /\ t[m.start].leaf = f.name
        /\ ArgsStand(t, h, first, last, f.args, m.start)
    BY <1>3 DEF FrameStands
  <2>2. f.args \in Seq(Nat)
    BY DEF Frame
  <2>3. Reads(u, m.start, "CALL") /\ u[m.start] = t[m.start]
    BY <2>1, ReadsMore
  <2>4. ArgsStand(u, g, first2, last2, f.args, m.start)
    BY <2>1, <2>2, ArgsMore
  <2> QED
    BY <2>1, <2>3, <2>4
<1>4. ASSUME f.op # "none"
      PROVE  Waits(u, g, ops, first2, last2, g[f.root].rhs, f.op, m)
  <2> DEFINE r == h[f.root].rhs
  <2>1. Waits(t, h, ops, first, last, r, f.op, m)
    BY <1>4 DEF FrameStands
  <2>2. r \in DOMAIN h /\ g[f.root].rhs = r
    BY <1>4
  <2> HIDE DEF r
  <2>3. first2[r] = first[r] /\ last2[r] = last[r]
    BY <2>2 DEF Kept
  <2>4. Heads(g, ops, last2, r, m.end)
    BY <2>1, HeadsKept DEF Waits
  <2>5. Cut(first2, last2, m.end)
    <3>1. Cut(first, last, m.end)
      BY <2>1 DEF Waits
    <3>2. \A j \in DOMAIN h : last2[j] <= m.end \/ first2[j] >= m.end + 2
      BY <3>1 DEF Cut, Kept
    <3> QED
      BY <1>4, <3>2 DEF Cut
  <2>6. Reads(u, m.end + 1, f.op)
    BY <2>1, ReadsMore DEF Waits
  <2> QED
    BY <2>1, <2>2, <2>3, <2>4, <2>5, <2>6 DEF Waits
<1> QED
  BY <1>1, <1>2, <1>3, <1>4 DEF FrameStands

LEMMA ArgsEndKept ==
  ASSUME NEW t, NEW u, Extends(t, u),
         NEW h, NEW g, NEW ops, NEW first, NEW last, NEW first2, NEW last2,
         Kept(h, g, first, last, first2, last2),
         NEW f \in Frame, NEW m, FrameStands(t, h, ops, first, last, f, m), ArgsEnd(t, last, f, m)
  PROVE  ArgsEnd(u, last2, f, m)
<1> SUFFICES ASSUME f.kind = "call"
             PROVE  /\ \A j \in DOMAIN f.args : last2[f.args[j]] < m.arg
                    /\ f.args = <<>> => m.arg = m.start
                    /\ f.args # <<>> => Reads(u, m.arg, "COMMA") /\ m.arg = last2[f.args[Len(f.args)]] + 1
  BY DEF ArgsEnd
<1>1. f.args \in Seq(Nat)
  BY DEF Frame
<1>2. \A j \in DOMAIN f.args : last2[f.args[j]] = last[f.args[j]]
  BY DEF FrameStands, ArgsStand, Kept
<1>3. /\ \A j \in DOMAIN f.args : last[f.args[j]] < m.arg
      /\ f.args = <<>> => m.arg = m.start
      /\ f.args # <<>> => Reads(t, m.arg, "COMMA") /\ m.arg = last[f.args[Len(f.args)]] + 1
  BY DEF ArgsEnd
<1>4. f.args # <<>> => Len(f.args) \in DOMAIN f.args
  BY <1>1
<1>5. f.args # <<>> => Reads(u, m.arg, "COMMA")
  BY <1>3, ReadsMore
<1> QED
  BY <1>2, <1>3, <1>4, <1>5

----------------------------------------------------------------------------
(* Marks of the stack.                                                     *)

LEMMA MarkTypes ==
  ASSUME NEW f \in Frame, NEW m \in Marks
  PROVE  /\ m.start \in Nat /\ m.arg \in Nat /\ m.end \in Nat
         /\ Due(f, m) \in Nat /\ Pending(f, m) \in Nat
         /\ Due(f, m) <= Pending(f, m) /\ Pending(f, m) <= Due(f, m) + 1
BY DEF Marks, Due, Pending

\* An operator that waits, in whatever call, is before the operand that is due.
LEMMA WaitsBefore ==
  ASSUME NEW t, NEW h, NEW ops, NEW first, NEW last, NEW fs \in Seq(Frame), NEW marks,
         StackStands(t, h, ops, first, last, fs, marks),
         NEW k \in DOMAIN fs, NEW n \in DOMAIN fs, k <= n, fs[k].op # "none"
  PROVE  marks[k].end + 1 <= Due(fs[n], marks[n])
<1>1. fs[k] \in Frame /\ fs[n] \in Frame
  OBVIOUS
<1>2. marks[k] \in Marks /\ marks[n] \in Marks
  BY DEF StackStands
<1>3. Due(fs[k], marks[k]) = marks[k].end + 1
  BY DEF Due
<1>4. CASE k = n
  BY <1>1, <1>2, <1>3, <1>4, MarkTypes
<1>5. CASE k < n
  <2>1. Pending(fs[k], marks[k]) < marks[n].start
    BY <1>5 DEF StackStands
  <2>2. marks[n].start <= marks[n].arg
    BY DEF StackStands, FrameStands
  <2>3. fs[n].op # "none" => marks[n].arg < marks[n].end
    BY DEF StackStands, FrameStands, Waits
  <2>4. /\ marks[n].start \in Nat /\ marks[n].arg \in Nat /\ marks[n].end \in Nat
        /\ Due(fs[n], marks[n]) \in Nat
    BY <1>1, <1>2, MarkTypes
  <2>5. marks[n].arg <= Due(fs[n], marks[n])
    <3>1. CASE fs[n].op = "none"
      BY <2>4, <3>1 DEF Due
    <3>2. CASE fs[n].op # "none"
      BY <2>3, <2>4, <3>2 DEF Due
    <3> QED
      BY <3>1, <3>2
  <2>6. /\ marks[k].end \in Nat /\ Pending(fs[k], marks[k]) \in Nat
        /\ Due(fs[k], marks[k]) <= Pending(fs[k], marks[k])
    BY <1>1, <1>2, MarkTypes
  <2> DEFINE e == marks[k].end
             p == Pending(fs[k], marks[k])
             s == marks[n].start
             a == marks[n].arg
             d == Due(fs[n], marks[n])
  <2>7. e \in Nat /\ p \in Nat /\ s \in Nat /\ a \in Nat /\ d \in Nat
    BY <2>4, <2>6
  <2>8. e + 1 <= p /\ p < s /\ s <= a /\ a <= d
    BY <1>3, <2>1, <2>2, <2>5, <2>6
  <2> HIDE DEF e, p, s, a, d
  <2>9. e + 1 <= d
    BY <2>7, <2>8
  <2> QED
    BY <2>9 DEF e, d
<1>6. k < n \/ k = n
  OBVIOUS
<1> QED
  BY <1>4, <1>5, <1>6

\* Nodes behind the token that is due do not disturb the stack.
LEMMA StackKept ==
  ASSUME NEW t, NEW u, Extends(t, u),
         NEW h, NEW g, NEW ops, TreeOK(h, ops),
         NEW first, NEW last, NEW first2 \in [DOMAIN g -> Nat], NEW last2 \in [DOMAIN g -> Nat],
         DOMAIN first = DOMAIN h,
         Kept(h, g, first, last, first2, last2),
         NEW fs \in Seq(Frame), fs # <<>>, NEW marks,
         StackStands(t, h, ops, first, last, fs, marks),
         \A k \in DOMAIN fs : FrameOK(fs[k], h, k),
         \A k \in DOMAIN fs : fs[k].op # "none" => g[fs[k].root] = h[fs[k].root],
         \A j \in DOMAIN g \ DOMAIN h :
            last2[j] = 0 \/ first2[j] > Due(fs[Len(fs)], marks[Len(fs)])
  PROVE  StackStands(u, g, ops, first2, last2, fs, marks)
<1>1. Len(fs) \in DOMAIN fs /\ \A k \in DOMAIN fs : k <= Len(fs) /\ fs[k] \in Frame
  OBVIOUS
<1>2. marks \in [DOMAIN fs -> Marks]
  BY DEF StackStands
<1>3. ASSUME NEW k \in DOMAIN fs
      PROVE  FrameStands(u, g, ops, first2, last2, fs[k], marks[k])
  <2>1. FrameStands(t, h, ops, first, last, fs[k], marks[k])
    BY DEF StackStands
  <2>2. fs[k].root \in DOMAIN h /\ (fs[k].op # "none" => h[fs[k].root].rhs \in DOMAIN h)
    BY DEF FrameOK
  <2>3. ASSUME fs[k].op # "none", NEW j \in DOMAIN g \ DOMAIN h
        PROVE  last2[j] <= marks[k].end \/ first2[j] >= marks[k].end + 2
    <3> DEFINE d == Due(fs[Len(fs)], marks[Len(fs)])
               e == marks[k].end
    <3>1. e + 1 <= d
      BY <1>1, <2>3, WaitsBefore
    <3>2. d \in Nat /\ e \in Nat
      BY <1>1, <1>2, MarkTypes
    <3>3. first2[j] \in Nat /\ last2[j] \in Nat
      BY <2>3
    <3>4. last2[j] = 0 \/ first2[j] > d
      BY <2>3
    <3> HIDE DEF d, e
    <3>5. last2[j] <= e \/ first2[j] >= e + 2
      BY <3>1, <3>2, <3>3, <3>4
    <3> QED
      BY <3>5 DEF e
  <2> QED
    BY <1>1, <2>1, <2>2, <2>3, FrameStandsKept
<1>4. ASSUME NEW k \in DOMAIN fs, k < Len(fs)
      PROVE  ArgsEnd(u, last2, fs[k], marks[k])
  <2>1. FrameStands(t, h, ops, first, last, fs[k], marks[k]) /\ ArgsEnd(t, last, fs[k], marks[k])
    BY <1>4 DEF StackStands
  <2> QED
    BY <1>1, <2>1, ArgsEndKept
<1> QED
  BY <1>2, <1>3, <1>4 DEF StackStands

LEMMA StartBeforeDue ==
  ASSUME NEW t, NEW h, NEW ops, NEW first, NEW last,
         NEW f \in Frame, NEW m \in Marks, FrameStands(t, h, ops, first, last, f, m)
  PROVE  m.start <= Due(f, m)
<1>1. m.start \in Nat /\ m.arg \in Nat /\ m.end \in Nat
  BY MarkTypes
<1>2. m.start <= m.arg /\ (f.op # "none" => m.arg < m.end)
  BY DEF FrameStands, Waits
<1>3. CASE f.op = "none"
  BY <1>2, <1>3 DEF Due
<1>4. CASE f.op # "none"
  BY <1>1, <1>2, <1>4 DEF Due
<1> QED
  BY <1>3, <1>4

\* Calls of ParseExpr further in go on further behind.
LEMMA PendingGrows ==
  ASSUME NEW t, NEW h, NEW ops, NEW first, NEW last, NEW fs \in Seq(Frame), NEW marks,
         StackStands(t, h, ops, first, last, fs, marks),
         NEW k \in DOMAIN fs, NEW n \in DOMAIN fs, k <= n
  PROVE  Pending(fs[k], marks[k]) <= Pending(fs[n], marks[n])
<1>1. fs[k] \in Frame /\ fs[n] \in Frame /\ marks[k] \in Marks /\ marks[n] \in Marks
  BY DEF StackStands
<1> DEFINE p == Pending(fs[k], marks[k])
           q == Pending(fs[n], marks[n])
           d == Due(fs[n], marks[n])
           s == marks[n].start
<1>2. p \in Nat /\ q \in Nat /\ d \in Nat /\ s \in Nat /\ d <= q
  BY <1>1, MarkTypes
<1>3. s <= d
  BY <1>1, StartBeforeDue DEF StackStands
<1>4. k < n => p < s
  BY DEF StackStands
<1>5. k = n => p = q
  OBVIOUS
<1> HIDE DEF p, q, d, s
<1>6. k < n \/ k = n
  OBVIOUS
<1>7. p <= q
  BY <1>2, <1>3, <1>4, <1>5, <1>6
<1> QED
  BY <1>7 DEF p, q

\* The call that is opened inside of the innermost one.
LEMMA StackPushed ==
  ASSUME NEW t, NEW h, NEW ops, NEW first, NEW last, NEW fs \in Seq(Frame), fs # <<>>, NEW marks,
         StackStands(t, h, ops, first, last, fs, marks),
         ArgsEnd(t, last, fs[Len(fs)], marks[Len(fs)]),
         NEW f \in Frame, NEW m \in Marks, FrameStands(t, h, ops, first, last, f, m),
         \A k \in DOMAIN fs : fs[k].root < f.root,
         m.start = Pending(fs[Len(fs)], marks[Len(fs)]) + 1,
         NEW marks2, marks2 = [k \in 1 .. Len(fs) + 1 |-> IF k = Len(fs) + 1 THEN m ELSE marks[k]]
  PROVE  StackStands(t, h, ops, first, last, Append(fs, f), marks2)
<1> DEFINE n == Len(fs)
           gs == Append(fs, f)
<1>1. /\ n \in Nat /\ n >= 1 /\ DOMAIN fs = 1 .. n /\ n \in DOMAIN fs
      /\ Len(gs) = n + 1 /\ DOMAIN gs = 1 .. n + 1 /\ gs[n + 1] = f
      /\ \A k \in 1 .. n : gs[k] = fs[k] /\ fs[k] \in Frame
  OBVIOUS
<1>2. marks \in [1 .. n -> Marks]
  BY <1>1 DEF StackStands
<1>3. /\ marks2 \in [1 .. n + 1 -> Marks] /\ marks2[n + 1] = m
      /\ \A k \in 1 .. n : marks2[k] = marks[k]
  BY <1>1, <1>2
<1>10. n = Len(fs)
  OBVIOUS
<1> HIDE DEF n, gs
<1>4. \A k \in 1 .. n + 1 : k = n + 1 \/ k \in 1 .. n
  BY <1>1
<1>5. \A k \in DOMAIN gs : FrameStands(t, h, ops, first, last, gs[k], marks2[k])
  BY <1>1, <1>3, <1>4 DEF StackStands
<1>6. \A k \in DOMAIN gs : k < Len(gs) => ArgsEnd(t, last, gs[k], marks2[k])
  <2> SUFFICES ASSUME NEW k \in 1 .. n PROVE ArgsEnd(t, last, fs[k], marks[k])
    BY <1>1, <1>3, <1>4
  <2>1. k = n \/ k < n
    BY <1>1
  <2>2. ArgsEnd(t, last, fs[n], marks[n])
    BY <1>10
  <2>3. k < n => ArgsEnd(t, last, fs[k], marks[k])
    BY <1>1, <1>10 DEF StackStands
  <2> QED
    BY <2>1, <2>2, <2>3
<1>7. ASSUME NEW k \in DOMAIN gs, NEW l \in DOMAIN gs, k < l
      PROVE  gs[k].root < gs[l].root /\ Pending(gs[k], marks2[k]) < marks2[l].start
  <2>1. k \in 1 .. n /\ gs[k] = fs[k] /\ marks2[k] = marks[k]
    BY <1>1, <1>3, <1>7
  <2>2. CASE l \in 1 .. n
    <3>1. k \in DOMAIN fs /\ l \in DOMAIN fs /\ gs[l] = fs[l] /\ marks2[l] = marks[l]
      BY <1>1, <1>3, <2>1, <2>2
    <3> QED
      BY <1>7, <2>1, <3>1 DEF StackStands
  <2>3. CASE l = n + 1
    <3>1. Pending(fs[k], marks[k]) <= Pending(fs[n], marks[n])
      BY <1>1, <2>1, PendingGrows
    <3>2. Pending(fs[k], marks[k]) \in Nat /\ Pending(fs[n], marks[n]) \in Nat
      BY <1>1, <1>2, <2>1, MarkTypes
    <3>3. m.start = Pending(fs[n], marks[n]) + 1
      BY DEF n
    <3>4. Pending(fs[k], marks[k]) < m.start
      BY <3>1, <3>2, <3>3
    <3> QED
      BY <1>1, <1>3, <2>1, <2>3, <3>4
  <2> QED
    BY <1>1, <1>4, <2>2, <2>3
<1>8. ASSUME NEW k \in DOMAIN gs, NEW l \in DOMAIN gs, l = k + 1
      PROVE  marks2[l].start = Pending(gs[k], marks2[k]) + 1
  <2>1. k \in 1 .. n /\ gs[k] = fs[k] /\ marks2[k] = marks[k]
    BY <1>1, <1>3, <1>8
  <2>2. CASE l \in 1 .. n
    <3>1. k \in DOMAIN fs /\ l \in DOMAIN fs /\ marks2[l] = marks[l]
      BY <1>1, <1>3, <2>1, <2>2
    <3> QED
      BY <1>8, <2>1, <3>1 DEF StackStands
  <2>3. CASE l = n + 1
    <3>1. k = n
      BY <1>1, <1>8, <2>1, <2>3
    <3> QED
      BY <1>3, <2>1, <2>3, <3>1 DEF n
  <2> QED
    BY <1>1, <1>4, <2>2, <2>3
<1>9. StackStands(t, h, ops, first, last, gs, marks2)
  BY <1>1, <1>3, <1>5, <1>6, <1>7, <1>8 DEF StackStands
<1> QED
  BY <1>9 DEF gs

\* The stack without its innermost call.
Popped(fs, marks, gs, marks2) ==
  /\ gs \in Seq(Frame) /\ Len(fs) > 1 /\ Len(gs) = Len(fs) - 1
  /\ \A k \in 1 .. Len(fs) - 1 : gs[k] = fs[k]
  /\ marks2 = [k \in 1 .. Len(fs) - 1 |-> marks[k]]

\* The innermost call returns.
LEMMA StackPopped ==
  ASSUME NEW t, NEW h, NEW ops, NEW first, NEW last, NEW fs \in Seq(Frame), NEW marks,
         StackStands(t, h, ops, first, last, fs, marks),
         NEW gs, NEW marks2, Popped(fs, marks, gs, marks2)
  PROVE  /\ StackStands(t, h, ops, first, last, gs, marks2)
         /\ ArgsEnd(t, last, gs[Len(gs)], marks2[Len(gs)])
         /\ marks[Len(fs)].start = Pending(gs[Len(gs)], marks2[Len(gs)]) + 1
<1>0. /\ gs \in Seq(Frame) /\ Len(fs) > 1 /\ Len(gs) = Len(fs) - 1
      /\ \A k \in 1 .. Len(fs) - 1 : gs[k] = fs[k]
      /\ marks2 = [k \in 1 .. Len(fs) - 1 |-> marks[k]]
  BY DEF Popped
<1> DEFINE n == Len(gs)
<1>1. /\ n \in Nat /\ n >= 1 /\ Len(fs) = n + 1 /\ DOMAIN fs = 1 .. n + 1 /\ DOMAIN gs = 1 .. n
      /\ n \in DOMAIN fs /\ n + 1 \in DOMAIN fs /\ n < Len(fs) /\ n \in DOMAIN gs
      /\ 1 .. n \subseteq 1 .. n + 1 /\ Len(gs) = n
  BY <1>0
<1>2. marks \in [1 .. n + 1 -> Marks]
  BY <1>1 DEF StackStands
<1>3. marks2 \in [1 .. n -> Marks] /\ \A k \in 1 .. n : marks2[k] = marks[k] /\ gs[k] = fs[k]
  BY <1>0, <1>1, <1>2
<1> HIDE DEF n
<1>4. \A k \in 1 .. n : k \in DOMAIN fs /\ k < Len(fs) /\ (k < n => k < Len(fs))
  BY <1>1
<1>5. StackStands(t, h, ops, first, last, gs, marks2)
  <2>1. /\ marks2 \in [DOMAIN gs -> Marks]
        /\ \A k \in DOMAIN gs : gs[k] = fs[k] /\ marks2[k] = marks[k] /\ k \in DOMAIN fs
        /\ \A k \in DOMAIN gs : k < Len(gs) => k < Len(fs)
    BY <1>1, <1>3, <1>4
  <2>2. \A k \in DOMAIN gs : FrameStands(t, h, ops, first, last, gs[k], marks2[k])
    BY <2>1 DEF StackStands
  <2>3. \A k \in DOMAIN gs : k < Len(gs) => ArgsEnd(t, last, gs[k], marks2[k])
    BY <2>1 DEF StackStands
  <2>4. \A k, l \in DOMAIN gs :
          k < l => gs[k].root < gs[l].root /\ Pending(gs[k], marks2[k]) < marks2[l].start
    BY <2>1 DEF StackStands
  <2>5. \A k, l \in DOMAIN gs : l = k + 1 => marks2[l].start = Pending(gs[k], marks2[k]) + 1
    BY <2>1 DEF StackStands
  <2> QED
    BY <2>1, <2>2, <2>3, <2>4, <2>5 DEF StackStands
<1>6. ArgsEnd(t, last, gs[n], marks2[n])
  BY <1>1, <1>3, <1>4 DEF StackStands
<1>7. marks[n + 1].start = Pending(gs[n], marks2[n]) + 1
  BY <1>1, <1>3 DEF StackStands
<1> QED
  BY <1>1, <1>5, <1>6, <1>7 DEF n

\* The innermost call goes on.
LEMMA StackSet ==
  ASSUME NEW t, NEW h, NEW ops, NEW first, NEW last, NEW fs \in Seq(Frame), fs # <<>>, NEW marks,
         StackStands(t, h, ops, first, last, fs, marks),
         NEW f \in Frame, NEW m \in Marks, FrameStands(t, h, ops, first, last, f, m),
         f.root \in Nat, fs[Len(fs)].root \in Nat, f.root >= fs[Len(fs)].root,
         \A k \in DOMAIN fs : fs[k].root \in Nat,
         m.start = marks[Len(fs)].start,
         NEW marks2, marks2 = [marks EXCEPT ![Len(fs)] = m]
  PROVE  StackStands(t, h, ops, first, last, [fs EXCEPT ![Len(fs)] = f], marks2)
<1> DEFINE n == Len(fs)
           gs == [fs EXCEPT ![Len(fs)] = f]
<1>1. /\ n \in Nat /\ n >= 1 /\ DOMAIN fs = 1 .. n /\ n \in DOMAIN fs
      /\ Len(gs) = n /\ DOMAIN gs = 1 .. n /\ gs[n] = f
      /\ \A k \in 1 .. n : k # n => gs[k] = fs[k]
  OBVIOUS
<1>2. marks \in [1 .. n -> Marks]
  BY <1>1 DEF StackStands
<1>3. /\ marks2 \in [1 .. n -> Marks] /\ marks2[n] = m
      /\ \A k \in 1 .. n : k # n => marks2[k] = marks[k]
  BY <1>1, <1>2
<1>4. m.start = marks[n].start /\ f.root >= fs[n].root /\ n = Len(fs)
  OBVIOUS
<1> HIDE DEF n, gs
<1>5. \A k \in DOMAIN gs : FrameStands(t, h, ops, first, last, gs[k], marks2[k])
  BY <1>1, <1>3 DEF StackStands
<1>6. \A k \in DOMAIN gs : k < Len(gs) => ArgsEnd(t, last, gs[k], marks2[k])
  <2> SUFFICES ASSUME NEW k \in DOMAIN gs, k < Len(gs) PROVE ArgsEnd(t, last, gs[k], marks2[k])
    OBVIOUS
  <2>1. k \in DOMAIN fs /\ k < Len(fs) /\ k # n /\ k \in 1 .. n
    BY <1>1, <1>4
  <2> QED
    BY <1>1, <1>3, <2>1 DEF StackStands
<1>7. ASSUME NEW k \in DOMAIN gs, NEW l \in DOMAIN gs, k < l
      PROVE  gs[k].root < gs[l].root /\ Pending(gs[k], marks2[k]) < marks2[l].start
  <2>1. k # n /\ k \in 1 .. n /\ l \in 1 .. n /\ gs[k] = fs[k] /\ marks2[k] = marks[k]
    BY <1>1, <1>3, <1>7
  <2>2. fs[k].root < fs[l].root /\ Pending(fs[k], marks[k]) < marks[l].start
    BY <1>1, <1>7, <2>1 DEF StackStands
  <2>3. marks2[l].start = marks[l].start
    BY <1>3, <1>4, <2>1
  <2>4. fs[k].root < gs[l].root
    <3>1. CASE l = n
      <4> DEFINE x == fs[k].root
                 y == fs[n].root
                 z == f.root
      <4>1. x \in Nat /\ y \in Nat /\ z \in Nat
        BY <1>1, <2>1
      <4>2. x < y /\ y <= z
        BY <1>4, <2>2, <3>1
      <4>3. gs[l].root = z
        BY <1>1, <3>1
      <4> HIDE DEF x, y, z
      <4>4. x < z
        BY <4>1, <4>2
      <4> QED
        BY <4>3, <4>4 DEF x, z
    <3>2. CASE l # n
      BY <1>1, <2>1, <2>2, <3>2
    <3> QED
      BY <3>1, <3>2
  <2> QED
    BY <2>1, <2>2, <2>3, <2>4
<1>8. ASSUME NEW k \in DOMAIN gs, NEW l \in DOMAIN gs, l = k + 1
      PROVE  marks2[l].start = Pending(gs[k], marks2[k]) + 1
  <2>1. k # n /\ k \in 1 .. n /\ l \in 1 .. n /\ gs[k] = fs[k] /\ marks2[k] = marks[k]
    BY <1>1, <1>3, <1>8
  <2>2. marks[l].start = Pending(fs[k], marks[k]) + 1
    BY <1>1, <1>8, <2>1 DEF StackStands
  <2>3. marks2[l].start = marks[l].start
    BY <1>3, <1>4, <2>1
  <2> QED
    BY <2>1, <2>2, <2>3
<1>9. StackStands(t, h, ops, first, last, gs, marks2)
  BY <1>1, <1>3, <1>5, <1>6, <1>7, <1>8 DEF StackStands
<1> QED
  BY <1>9 DEF gs

----------------------------------------------------------------------------
(* An operand is added to the heap.                                        *)

\* A node that stands for the tokens a to b wherever it is put in the heap.
Alone(t, h, ops, first, last, n, a, b) ==
  \A g, first2, last2, i :
    /\ Kept(h, g, first, last, first2, last2)
    /\ g[i] = n /\ first2[i] = a /\ last2[i] = b
    => Stands(t, g, ops, first2, last2, i)

LEMMA LeafAlone ==
  ASSUME NEW t, NEW h, NEW ops, NEW first, NEW last, NEW n, NEW a, NEW b,
         n.kind = "leaf", a <= b, LeafStands(t, n.leaf, a, b)
  PROVE  Alone(t, h, ops, first, last, n, a, b)
BY DEF Alone, Stands

LEMMA ParenAlone ==
  ASSUME NEW t, NEW h, NEW ops, NEW first, NEW last, NEW x \in DOMAIN h, NEW a, NEW b,
         a <= b, Reads(t, a, "LPAREN"), first[x] = a + 1, Reads(t, b, "RPAREN"), b = last[x] + 1
  PROVE  Alone(t, h, ops, first, last, Paren(x), a, b)
<1> SUFFICES ASSUME NEW g, NEW first2, NEW last2, NEW i,
                    Kept(h, g, first, last, first2, last2),
                    g[i] = Paren(x), first2[i] = a, last2[i] = b
             PROVE  Stands(t, g, ops, first2, last2, i)
  BY DEF Alone
<1>1. g[i].kind = "paren" /\ g[i].rhs = x
  BY DEF Paren
<1>2. x \in DOMAIN g /\ first2[x] = first[x] /\ last2[x] = last[x]
  BY DEF Kept
<1>3. ParenStands(t, g, first2, last2, i)
  BY <1>1, <1>2 DEF ParenStands
<1> QED
  BY <1>1, <1>3 DEF Stands

LEMMA CallAlone ==
  ASSUME NEW t, Extends(t, t), NEW h, NEW ops, NEW first, NEW last,
         NEW leaf, NEW args \in Seq(Nat), NEW a, NEW b,
         a <= b, Reads(t, a, "CALL"), t[a].leaf = leaf,
         ArgsStand(t, h, first, last, args, a), \A j \in DOMAIN args : last[args[j]] < b,
         Reads(t, b, "RPAREN"), b = EndOf(last, args, a) + 1
  PROVE  Alone(t, h, ops, first, last, CallNode(leaf, args), a, b)
<1> SUFFICES ASSUME NEW g, NEW first2, NEW last2, NEW i,
                    Kept(h, g, first, last, first2, last2),
                    g[i] = CallNode(leaf, args), first2[i] = a, last2[i] = b
             PROVE  Stands(t, g, ops, first2, last2, i)
  BY DEF Alone
<1>1. g[i].kind = "call" /\ g[i].args = args /\ g[i].leaf = leaf
  BY DEF CallNode
<1>2. /\ ArgsStand(t, g, first2, last2, args, a)
      /\ \A j \in DOMAIN args : last2[args[j]] = last[args[j]]
      /\ EndOf(last2, args, a) = EndOf(last, args, a)
  BY ArgsMore
<1>3. CallStands(t, g, first2, last2, i)
  BY <1>1, <1>2 DEF CallStands
<1> QED
  BY <1>1, <1>3 DEF Stands

\* New nodes behind the token that is due: the heap and the stack stand.
Joined(t, h, g, ops, first, last, first2, last2, fs, marks, e) ==
  /\ Kept(h, g, first, last, first2, last2)
  /\ HeapStands(t, g, ops, first2, last2, e)
  /\ StackStands(t, g, ops, first2, last2, fs, marks)

\* The last of the new nodes stands for the tokens a to b.
JoinsAs(t, h, g, ops, first, last, fs, marks, e, a, b) ==
  \E first2, last2 :
    /\ Joined(t, h, g, ops, first, last, first2, last2, fs, marks, e)
    /\ first2[Len(g)] = a /\ last2[Len(g)] = b

LEMMA Joins ==
  ASSUME NEW t, Extends(t, t), NEW h \in Seq(Node), NEW g, NEW ops, TreeOK(h, ops),
         NEW first, NEW last, NEW first2 \in [DOMAIN g -> Nat], NEW last2 \in [DOMAIN g -> Nat],
         DOMAIN h \subseteq DOMAIN g,
         \A i \in DOMAIN h : g[i] = h[i] /\ first2[i] = first[i] /\ last2[i] = last[i],
         NEW e \in Nat, NEW e2 \in Nat, e <= e2, HeapStands(t, h, ops, first, last, e),
         NEW fs \in Seq(Frame), fs # <<>>, NEW marks, StackStands(t, h, ops, first, last, fs, marks),
         \A k \in DOMAIN fs : FrameOK(fs[k], h, k),
         \A j \in DOMAIN g \ DOMAIN h :
            /\ last2[j] <= e2 /\ (first2[j] = 0 \/ Stands(t, g, ops, first2, last2, j))
            /\ last2[j] = 0 \/ first2[j] > Due(fs[Len(fs)], marks[Len(fs)])
  PROVE  Joined(t, h, g, ops, first, last, first2, last2, fs, marks, e2)
<1>1. Kept(h, g, first, last, first2, last2)
  BY DEF Kept
<1>2. HeapStands(t, g, ops, first2, last2, e2)
  BY <1>1, HeapKept
<1>3. DOMAIN first = DOMAIN h
  BY DEF HeapStands
<1>4. \A k \in DOMAIN fs : fs[k].op # "none" => g[fs[k].root] = h[fs[k].root]
  BY DEF FrameOK
<1>5. StackStands(t, g, ops, first2, last2, fs, marks)
  BY <1>1, <1>3, <1>4, StackKept, SMTT(60)
<1> QED
  BY <1>1, <1>2, <1>5 DEF Joined

\* One node more, for the tokens a to b, or for none.
LEMMA OneJoins ==
  ASSUME NEW t, Extends(t, t), NEW h \in Seq(Node), NEW ops, TreeOK(h, ops),
         NEW first, NEW last, NEW e \in Nat, HeapStands(t, h, ops, first, last, e),
         NEW fs \in Seq(Frame), fs # <<>>, NEW marks, StackStands(t, h, ops, first, last, fs, marks),
         \A k \in DOMAIN fs : FrameOK(fs[k], h, k),
         NEW n \in Node, NEW a \in Nat, NEW b \in Nat, NEW e2 \in Nat, e <= e2, b <= e2,
         \/ a = 0 /\ b = 0
         \/ Alone(t, h, ops, first, last, n, a, b) /\ a > Due(fs[Len(fs)], marks[Len(fs)]),
         NEW g, g = Append(h, n)
  PROVE  JoinsAs(t, h, g, ops, first, last, fs, marks, e2, a, b)
<1> DEFINE k == Len(h) + 1
<1>1. /\ g \in Seq(Node) /\ Len(g) = k /\ DOMAIN g = 1 .. k /\ k \in DOMAIN g /\ g[k] = n
      /\ DOMAIN h \subseteq DOMAIN g /\ DOMAIN g \ DOMAIN h = {k}
      /\ \A i \in DOMAIN h : g[i] = h[i] /\ i # k
  OBVIOUS
<1>2. first \in [DOMAIN h -> Nat] /\ last \in [DOMAIN h -> Nat]
  BY DEF HeapStands
<1> HIDE DEF k
<1>3. PICK first2, last2 : /\ first2 = [i \in DOMAIN g |-> IF i = k THEN a ELSE first[i]]
                           /\ last2 = [i \in DOMAIN g |-> IF i = k THEN b ELSE last[i]]
  OBVIOUS
<1>4. \A i \in DOMAIN g : i = k \/ i \in DOMAIN h
  BY <1>1
<1>5. /\ first2 \in [DOMAIN g -> Nat] /\ last2 \in [DOMAIN g -> Nat]
      /\ first2[k] = a /\ last2[k] = b
      /\ \A i \in DOMAIN h : first2[i] = first[i] /\ last2[i] = last[i]
  BY <1>1, <1>2, <1>3, <1>4
<1>6. Kept(h, g, first, last, first2, last2)
  BY <1>1, <1>5 DEF Kept
<1>7. /\ last2[k] <= e2 /\ (first2[k] = 0 \/ Stands(t, g, ops, first2, last2, k))
      /\ last2[k] = 0 \/ first2[k] > Due(fs[Len(fs)], marks[Len(fs)])
  BY <1>1, <1>5, <1>6 DEF Alone
<1>8. Joined(t, h, g, ops, first, last, first2, last2, fs, marks, e2)
  BY <1>1, <1>5, <1>7, Joins
<1> QED
  BY <1>1, <1>5, <1>8 DEF JoinsAs

\* An operand behind a sign: its node, the one, and their product.
LEMMA ThreeJoin ==
  ASSUME NEW t, Extends(t, t), NEW h \in Seq(Node), NEW ops, TreeOK(h, ops),
         NEW first, NEW last, NEW e \in Nat, HeapStands(t, h, ops, first, last, e),
         NEW fs \in Seq(Frame), fs # <<>>, NEW marks, StackStands(t, h, ops, first, last, fs, marks),
         \A k \in DOMAIN fs : FrameOK(fs[k], h, k),
         NEW n \in Node, n.kind # "bin", NEW a \in Nat, NEW b \in Nat, e <= b, a + 1 <= b,
         Alone(t, h, ops, first, last, n, a + 1, b), a > Due(fs[Len(fs)], marks[Len(fs)]),
         NEW sign \in {"ADD", "SUB"}, Reads(t, a, sign), One(sign) \in Node,
         NEW g, g = h \o <<n, One(sign), Bin("MUL", Len(h) + 2, Len(h) + 1)>>
  PROVE  JoinsAs(t, h, g, ops, first, last, fs, marks, b, a, b)
<1> DEFINE k == Len(h) + 1
           p == Bin("MUL", k + 1, k)
<1>1. /\ p.kind = "bin" /\ p.op = "MUL" /\ p.lhs = k + 1 /\ p.rhs = k /\ p \in Node
      /\ One(sign).kind = "leaf" /\ k \in Nat
  <2>1. k \in Nat /\ k + 1 \in Nat
    OBVIOUS
  <2>2. p.kind = "bin" /\ p.op = "MUL" /\ p.lhs = k + 1 /\ p.rhs = k
    BY DEF Bin
  <2>3. p \in Node
    BY <2>1, NodeTypes, NoneIsNoOperator
  <2>4. One(sign).kind = "leaf"
    BY DEF One, LeafNode
  <2> QED
    BY <2>1, <2>2, <2>3, <2>4
<1>2. g = h \o <<n, One(sign), p>>
  OBVIOUS
<1> HIDE DEF p
<1>3. /\ DOMAIN g = 1 .. k + 2 /\ g[k] = n /\ g[k + 1] = One(sign) /\ g[k + 2] = p /\ Len(g) = k + 2
      /\ DOMAIN h = 1 .. k - 1 /\ \A i \in DOMAIN h : g[i] = h[i]
  <2> DEFINE o == One(sign)
             s == <<n, o, p>>
  <2>1. s \in Seq(Node) /\ Len(s) = 3 /\ s[1] = n /\ s[2] = o /\ s[3] = p
    BY <1>1
  <2>2. g = h \o s
    BY <1>2
  <2> HIDE DEF s
  <2>3. /\ Len(g) = Len(h) + 3 /\ \A i \in 1 .. Len(h) : g[i] = h[i]
        /\ g[Len(h) + 1] = s[1] /\ g[Len(h) + 2] = s[2] /\ g[Len(h) + 3] = s[3]
        /\ DOMAIN g = 1 .. Len(h) + 3
    BY <2>1, <2>2
  <2> QED
    BY <2>1, <2>3
<1>4. first \in [DOMAIN h -> Nat] /\ last \in [DOMAIN h -> Nat]
  BY DEF HeapStands
<1> HIDE DEF k
<1> DEFINE f0 == [i \in DOMAIN g |-> IF i = k THEN a + 1 ELSE IF i = k + 1 THEN 0
                                     ELSE IF i = k + 2 THEN a ELSE first[i]]
           l0 == [i \in DOMAIN g |-> IF i = k THEN b ELSE IF i = k + 1 THEN 0
                                     ELSE IF i = k + 2 THEN b ELSE last[i]]
<1>5. /\ k \in DOMAIN g /\ k + 1 \in DOMAIN g /\ k + 2 \in DOMAIN g
      /\ DOMAIN h \subseteq DOMAIN g /\ k # k + 1 /\ k # k + 2 /\ k + 1 # k + 2
      /\ \A i \in DOMAIN h : i # k /\ i # k + 1 /\ i # k + 2
      /\ \A i \in DOMAIN g : i \in DOMAIN h \/ i = k \/ i = k + 1 \/ i = k + 2
  <2>1. k >= 1 /\ k \in Nat
    BY DEF k
  <2>2. k \in 1 .. k + 2 /\ k + 1 \in 1 .. k + 2 /\ k + 2 \in 1 .. k + 2 /\ 1 .. k - 1 \subseteq 1 .. k + 2
    BY <2>1
  <2>3. k # k + 1 /\ k # k + 2 /\ k + 1 # k + 2 /\ \A i \in 1 .. k - 1 : i # k /\ i # k + 1 /\ i # k + 2
    BY <2>1
  <2>4. \A i \in 1 .. k + 2 : i \in 1 .. k - 1 \/ i = k \/ i = k + 1 \/ i = k + 2
    BY <2>1
  <2> QED
    BY <1>3, <2>2, <2>3, <2>4
<1>6. PICK first2, last2 : first2 = f0 /\ last2 = l0
  OBVIOUS
<1>7. /\ first2 \in [DOMAIN g -> Nat] /\ last2 \in [DOMAIN g -> Nat]
      /\ first2[k] = a + 1 /\ first2[k + 1] = 0 /\ first2[k + 2] = a
      /\ last2[k] = b /\ last2[k + 1] = 0 /\ last2[k + 2] = b
      /\ \A i \in DOMAIN h : first2[i] = first[i] /\ last2[i] = last[i]
  <2>1. /\ first2 \in [DOMAIN g -> Nat]
        /\ first2[k] = a + 1 /\ first2[k + 1] = 0 /\ first2[k + 2] = a
        /\ \A i \in DOMAIN h : first2[i] = first[i]
    <3>1. a + 1 \in Nat
      OBVIOUS
    <3> QED
      BY <1>4, <1>5, <1>6, <3>1, SMTT(30)
  <2>2. /\ last2 \in [DOMAIN g -> Nat]
        /\ last2[k] = b /\ last2[k + 1] = 0 /\ last2[k + 2] = b
        /\ \A i \in DOMAIN h : last2[i] = last[i]
    BY <1>4, <1>5, <1>6, SMTT(30)
  <2> QED
    BY <2>1, <2>2
<1> HIDE DEF f0, l0
<1>8. Kept(h, g, first, last, first2, last2)
  BY <1>3, <1>5, <1>7 DEF Kept
<1>9. Stands(t, g, ops, first2, last2, k)
  BY <1>3, <1>7, <1>8 DEF Alone
<1>10. Stands(t, g, ops, first2, last2, k + 2)
  <2>1. k + 2 \notin ops
    BY <1>5 DEF TreeOK
  <2>2. SignStands(t, g, first2, last2, k + 2)
    <3>1. g[k + 2].op = "MUL" /\ g[k + 2].lhs = k + 1 /\ g[k + 2].rhs = k
      BY <1>1, <1>3
    <3>2. g[g[k + 2].lhs] = One(sign) /\ g[g[k + 2].rhs].kind # "bin"
      BY <1>3, <3>1
    <3>3. /\ Reads(t, first2[k + 2], sign)
          /\ first2[g[k + 2].rhs] = first2[k + 2] + 1 /\ last2[g[k + 2].rhs] = last2[k + 2]
      BY <1>7, <3>1
    <3>4. \E s \in {"ADD", "SUB"} : Reads(t, first2[k + 2], s) /\ g[g[k + 2].lhs] = One(s)
      BY <3>2, <3>3
    <3> QED
      BY <1>5, <3>1, <3>2, <3>3, <3>4 DEF SignStands
  <2>3. a <= b
    OBVIOUS
  <2> QED
    BY <1>1, <1>3, <1>7, <2>1, <2>2, <2>3 DEF Stands
<1>11. \A j \in DOMAIN g \ DOMAIN h :
         /\ last2[j] <= b /\ (first2[j] = 0 \/ Stands(t, g, ops, first2, last2, j))
         /\ last2[j] = 0 \/ first2[j] > Due(fs[Len(fs)], marks[Len(fs)])
  <2>1. a + 1 > Due(fs[Len(fs)], marks[Len(fs)])
    <3>1. Len(fs) \in DOMAIN fs /\ fs[Len(fs)] \in Frame
      OBVIOUS
    <3>2. marks[Len(fs)] \in Marks
      BY <3>1 DEF StackStands
    <3>3. Due(fs[Len(fs)], marks[Len(fs)]) \in Nat
      BY <3>1, <3>2, MarkTypes
    <3> QED
      BY <3>3
  <2>2. b <= b /\ 0 <= b
    OBVIOUS
  <2>3. ASSUME NEW j \in DOMAIN g \ DOMAIN h
        PROVE  /\ last2[j] <= b /\ (first2[j] = 0 \/ Stands(t, g, ops, first2, last2, j))
               /\ last2[j] = 0 \/ first2[j] > Due(fs[Len(fs)], marks[Len(fs)])
    <3>1. CASE j = k
      BY <1>7, <1>9, <2>1, <2>2, <3>1
    <3>2. CASE j = k + 1
      BY <1>7, <2>2, <3>2
    <3>3. CASE j = k + 2
      BY <1>7, <1>10, <2>2, <3>3
    <3> QED
      BY <1>5, <3>1, <3>2, <3>3
  <2> QED
    BY <2>3
<1>12. Joined(t, h, g, ops, first, last, first2, last2, fs, marks, b)
  BY <1>3, <1>5, <1>7, <1>11, Joins
<1> QED
  BY <1>3, <1>7, <1>12 DEF JoinsAs

\* The sign before an operand becomes part of what is read.
LEMMA OperandJoins ==
  ASSUME NEW t, Extends(t, t), nodes \in Seq(Node), NEW ops, TreeOK(nodes, ops),
         NEW first, NEW last, NEW e \in Nat, HeapStands(t, nodes, ops, first, last, e),
         NEW fs \in Seq(Frame), fs # <<>>, NEW marks,
         StackStands(t, nodes, ops, first, last, fs, marks),
         \A k \in DOMAIN fs : FrameOK(fs[k], nodes, k),
         NEW f, f = fs[Len(fs)], NEW m, m = marks[Len(fs)],
         NEW n \in Node, n.kind # "bin",
         NEW a \in Nat, NEW b \in Nat, a = Pending(f, m) + 1, a <= b, e <= b,
         Alone(t, nodes, ops, first, last, n, a, b),
         n.kind = "leaf" => a = b /\ LiteralAt(t, b, n.leaf),
         Signed(f.sign, n) # <<>>,
         NEW g, g = nodes \o Signed(f.sign, n)
  PROVE  JoinsAs(t, nodes, g, ops, first, last, fs, marks, b, Due(f, m) + 1, b)
<1> DEFINE d == Due(f, m) + 1
<1>1. Len(fs) \in DOMAIN fs /\ f \in Frame
  OBVIOUS
<1>2. m \in Marks
  BY <1>1 DEF StackStands
<1>3. f.sign \in {"none", "ADD", "SUB"} /\ (f.sign # "none" => Reads(t, d, f.sign))
  BY <1>1 DEF StackStands, FrameStands, Frame
<1>4. d \in Nat /\ d > Due(f, m) /\ Due(f, m) = Due(fs[Len(fs)], marks[Len(fs)]) /\ b <= b
  BY <1>1, <1>2, MarkTypes
<1>5. (f.sign = "none" => a = d) /\ (f.sign # "none" => a = d + 1)
  BY <1>1, <1>2, MarkTypes DEF Pending
<1>6. ASSUME NEW x \in Node, g = Append(nodes, x), Alone(t, nodes, ops, first, last, x, d, b)
      PROVE  JoinsAs(t, nodes, g, ops, first, last, fs, marks, b, d, b)
  <2>1. d > Due(fs[Len(fs)], marks[Len(fs)])
    BY <1>4
  <2> HIDE DEF d
  <2> QED
    BY <1>4, <1>6, <2>1, OneJoins
<1>7. CASE f.sign = "none"
  <2>1. Signed(f.sign, n) = <<n>>
    BY <1>7 DEF Signed
  <2>2. g = Append(nodes, n)
    BY <2>1
  <2> QED
    BY <1>5, <1>6, <1>7, <2>2
<1>8. CASE f.sign # "none" /\ (n.kind # "leaf" \/ n.leaf.type = "var")
  <2> DEFINE sign == f.sign
  <2>1. Signed(sign, n) = <<n, One(sign), Bin("MUL", Len(nodes) + 2, Len(nodes) + 1)>>
    BY <1>8 DEF Signed, One
  <2>2. sign \in {"ADD", "SUB"} /\ Reads(t, d, sign) /\ a = d + 1
    BY <1>3, <1>5, <1>8
  <2>3. g = nodes \o <<n, One(sign), Bin("MUL", Len(nodes) + 2, Len(nodes) + 1)>>
    BY <2>1
  <2>4. One(sign) \in Node
    <3>1. \A v \in Int : Lit("int", v) \in Leaf
      BY NameAssumption DEF Lit, Leaf, Type
    <3> QED
      BY <3>1, NodeTypes DEF One
  <2> HIDE DEF sign, d
  <2>5. d > Due(fs[Len(fs)], marks[Len(fs)]) /\ d + 1 <= b
    BY <1>4, <2>2
  <2>6. Alone(t, nodes, ops, first, last, n, d + 1, b)
    BY <2>2
  <2>7. d \in Nat
    BY <1>4
  <2>8. JoinsAs(t, nodes, g, ops, first, last, fs, marks, b, d, b)
    BY <2>2, <2>3, <2>4, <2>5, <2>6, <2>7, ThreeJoin
  <2> QED
    BY <2>8 DEF d
<1>9. CASE f.sign = "ADD" /\ ~(n.kind # "leaf" \/ n.leaf.type = "var")
  <2>1. Signed(f.sign, n) = <<n>>
    BY <1>9 DEF Signed
  <2>2. g = Append(nodes, n)
    BY <2>1
  <2>3. LeafStands(t, n.leaf, d, b) /\ d <= b
    BY <1>3, <1>4, <1>5, <1>9 DEF LeafStands
  <2>4. Alone(t, nodes, ops, first, last, n, d, b)
    BY <1>9, <2>3, LeafAlone
  <2> QED
    BY <1>6, <2>2, <2>4
<1>10. CASE f.sign = "SUB" /\ ~(n.kind # "leaf" \/ n.leaf.type = "var")
  <2> DEFINE neg == Negated(n.leaf)
             x == LeafNode(neg[1])
  <2>1. neg # <<>> /\ Signed(f.sign, n) = <<x>>
    BY <1>10 DEF Signed
  <2>2. n.leaf \in Leaf /\ neg = <<neg[1]>>
    <3>1. n.leaf \in Leaf
      BY DEF Node
    <3>2. neg = <<neg[1]>>
      BY <2>1 DEF Negated
    <3> QED
      BY <3>1, <3>2
  <2>3. x \in Node /\ x.kind = "leaf" /\ x.leaf = neg[1]
    <3>1. neg[1] \in Leaf
      BY <2>1, <2>2, NegatedLeaf
    <3> QED
      BY <3>1, NodeTypes DEF LeafNode
  <2>4. g = Append(nodes, x)
    BY <2>1
  <2>5. LeafStands(t, neg[1], d, b)
    <3>1. d + 1 = b /\ Reads(t, d, "SUB") /\ LiteralAt(t, b, n.leaf)
      BY <1>3, <1>5, <1>10
    <3>2. \E l \in Leaf : LiteralAt(t, b, l) /\ Negated(l) = <<neg[1]>>
      BY <2>2, <3>1
    <3> QED
      BY <3>1, <3>2 DEF LeafStands
  <2>6. d <= b
    BY <1>4, <1>5, <1>10
  <2>7. Alone(t, nodes, ops, first, last, x, d, b)
    BY <2>3, <2>5, <2>6, LeafAlone
  <2> QED
    BY <1>6, <2>3, <2>4, <2>7
<1> QED
  BY <1>3, <1>7, <1>8, <1>9, <1>10

----------------------------------------------------------------------------
(* Steps that read, and leave the tree and the stack as they are.          *)

Spanned == \E first, last, marks : Spans(first, last, marks)

\* What the invariant says while ParseExpr runs.
LEMMA Standing ==
  ASSUME Inv, NEW first, NEW last, NEW marks, Spans(first, last, marks), pc \notin {"error", "done"}
  PROVE  /\ Extends(text, text) /\ at \in Nat /\ nodes \in Seq(Node) /\ TreeOK(nodes, operators)
         /\ HeapStands(text, nodes, operators, first, last, at)
         /\ StackStands(text, nodes, operators, first, last, frames, marks)
         /\ TopStands(first, last, marks[Len(frames)])
         /\ frames \in Seq(Frame) /\ frames # <<>>
         /\ \A k \in DOMAIN frames : FrameOK(frames[k], nodes, k)
         /\ Len(frames) \in DOMAIN frames /\ Top = frames[Len(frames)] /\ Top \in Frame
         /\ marks[Len(frames)] \in Marks
         /\ FrameStands(text, nodes, operators, first, last, Top, marks[Len(frames)])
<1>1. text \in Seq(Token) /\ at \in Nat /\ nodes \in Seq(Node) /\ TreeOK(nodes, operators)
  BY DEF Inv, TypeOK
<1>2. Extends(text, text)
  BY <1>1 DEF Extends
<1>3. /\ HeapStands(text, nodes, operators, first, last, at)
      /\ StackStands(text, nodes, operators, first, last, frames, marks)
      /\ TopStands(first, last, marks[Len(frames)])
  BY DEF Spans
<1>4. frames \in Seq(Frame) /\ frames # <<>> /\ \A k \in DOMAIN frames : FrameOK(frames[k], nodes, k)
  BY DEF Inv, FramesOK
<1>5. Len(frames) \in DOMAIN frames /\ Top = frames[Len(frames)] /\ Top \in Frame
  BY TopFrame
<1>6. /\ marks[Len(frames)] \in Marks
      /\ FrameStands(text, nodes, operators, first, last, Top, marks[Len(frames)])
  BY <1>3, <1>5 DEF StackStands
<1> QED
  BY <1>1, <1>2, <1>3, <1>4, <1>5, <1>6

LEMMA SpannedAgain ==
  ASSUME NEW first2, NEW last2, NEW marks2,
         HeapStands(text', nodes', operators', first2, last2, at'),
         pc' # "error" => StackStands(text', nodes', operators', first2, last2, frames', marks2),
         pc' \notin {"error", "done"} => TopStands(first2, last2, marks2[Len(frames)])'
  PROVE  Spanned'
<1>1. Spans(first2, last2, marks2)'
  BY DEF Spans
<1> QED
  BY <1>1 DEF Spanned

LEMMA Unchanged ==
  ASSUME NEW h, NEW first, NEW last
  PROVE  Kept(h, h, first, last, first, last)
BY DEF Kept

LEMMA QuietSpanned ==
  ASSUME Inv, NEW first, NEW last, NEW marks, Spans(first, last, marks), pc \notin {"error", "done"},
         nodes' = nodes, operators' = operators, frames' = frames,
         Extends(text, text'), at' \in Nat, at <= at',
         pc' \notin {"error", "done"} => TopStands(first, last, marks[Len(frames)])'
  PROVE  Spanned'
<1>1. Kept(nodes, nodes, first, last, first, last)
  BY Unchanged
<1>2. first \in [DOMAIN nodes -> Nat] /\ last \in [DOMAIN nodes -> Nat] /\ DOMAIN first = DOMAIN nodes
  BY Standing DEF HeapStands
<1>3. HeapStands(text', nodes, operators, first, last, at')
  BY <1>1, <1>2, Standing, HeapKept
<1>4. StackStands(text', nodes, operators, first, last, frames, marks)
  BY <1>1, <1>2, Standing, StackKept
<1> QED
  BY <1>3, <1>4, SpannedAgain

LEMMA ScanSpanned ==
  ASSUME Inv, NEW first, NEW last, NEW marks, Spans(first, last, marks), Scan
  PROVE  Spanned'
<1> DEFINE m == marks[Len(frames)]
<1>1. /\ pc \in {"unary", "argument", "arguments", "operator"} /\ pc' = pc
      /\ nodes' = nodes /\ operators' = operators /\ frames' = frames /\ at' = at
      /\ \E u : text' = Append(text, u)
  BY DEF Scan, tree
<1>2. text \in Seq(Token)
  BY DEF Inv, TypeOK
<1>3. Extends(text, text')
  BY <1>1, <1>2 DEF Extends
<1>4. TopStands(first, last, m) /\ Top' = Top /\ Top \in Frame
  BY <1>1, Standing DEF Top
<1>5. pc # "arguments" => ArgsEnd(text', last, Top, m)
  <2>1. SUFFICES ASSUME pc # "arguments" PROVE ArgsEnd(text', last, Top, m)
    OBVIOUS
  <2>2. ArgsEnd(text, last, Top, m)
    BY <1>4, <2>1 DEF TopStands
  <2>3. Kept(nodes, nodes, first, last, first, last)
    BY Unchanged
  <2>4. FrameStands(text, nodes, operators, first, last, Top, m)
    BY <1>1, Standing
  <2> QED
    BY <1>3, <1>4, <2>2, <2>3, <2>4, ArgsEndKept
<1>6. TopStands(first, last, marks[Len(frames)])'
  BY <1>1, <1>4, <1>5 DEF TopStands
<1> QED
  BY <1>1, <1>3, <1>6, Standing, QuietSpanned

LEMMA FailSpanned ==
  ASSUME Inv, NEW first, NEW last, NEW marks, Spans(first, last, marks), pc \notin {"error", "done"},
         Fail
  PROVE  Spanned'
<1>1. /\ pc' = "error" /\ nodes' = nodes /\ operators' = operators /\ frames' = frames
      /\ at' = at /\ text' = text
  BY DEF Fail, tree, reading
<1> QED
  BY <1>1, Standing, QuietSpanned

LEMMA ReadDurationSpanned ==
  ASSUME Inv, NEW first, NEW last, NEW marks, Spans(first, last, marks), ReadDuration
  PROVE  Spanned'
<1> DEFINE m == marks[Len(frames)]
<1>1. /\ pc = "unary" /\ pc' = "duration" /\ at' = at + 1 /\ at < Len(text)
      /\ text[at + 1].tok = "DURATIONVAL"
      /\ nodes' = nodes /\ operators' = operators /\ frames' = frames /\ text' = text
  BY DEF ReadDuration, AtOperand, Sees, Next1, tree, reading
<1>2. TopStands(first, last, m) /\ Top' = Top /\ at \in Nat
  BY <1>1, Standing DEF Top
<1>3. at = Pending(Top, m) /\ ArgsEnd(text, last, Top, m)
  BY <1>1, <1>2 DEF TopStands
<1>4. Reads(text, at + 1, "DURATIONVAL")
  BY <1>1, <1>2 DEF Reads
<1>5. \A i \in operators : last[i] < at + 1
  <2>1. ASSUME NEW i \in operators PROVE last[i] < at + 1
    <3>1. i \in DOMAIN nodes
      BY <1>1, Standing DEF TreeOK
    <3>2. last[i] \in Nat /\ last[i] <= at
      BY <1>1, <3>1, Standing DEF HeapStands
    <3> QED
      BY <1>2, <3>2
  <2> QED
    BY <2>1
<1>6. TopStands(first, last, marks[Len(frames)])'
  BY <1>1, <1>2, <1>3, <1>4, <1>5 DEF TopStands
<1>7. at' \in Nat /\ at <= at'
  BY <1>1, <1>2
<1> QED
  BY <1>1, <1>6, <1>7, Standing, QuietSpanned

LEMMA ParsePartSpanned ==
  ASSUME Inv, NEW first, NEW last, NEW marks, Spans(first, last, marks), ParsePart
  PROVE  Spanned'
<1>1. CASE Fail
  BY <1>1, FailSpanned DEF ParsePart
<1>2. CASE UNCHANGED <<reading, at, tree, frames, operand, node, pc>>
  <2>1. /\ pc' = pc /\ nodes' = nodes /\ operators' = operators /\ frames' = frames
        /\ at' = at /\ text' = text /\ pc = "duration"
    BY <1>2 DEF ParsePart, tree, reading
  <2>2. TopStands(first, last, marks[Len(frames)]) /\ Top' = Top
    BY <2>1, Standing DEF Top
  <2>3. TopStands(first, last, marks[Len(frames)])'
    BY <2>1, <2>2 DEF TopStands
  <2> QED
    BY <2>1, <2>3, Standing, QuietSpanned
<1> QED
  BY <1>1, <1>2 DEF ParsePart

LEMMA ExprArgumentSpanned ==
  ASSUME Inv, NEW first, NEW last, NEW marks, Spans(first, last, marks), ExprArgument
  PROVE  Spanned'
<1> DEFINE m == marks[Len(frames)]
<1>1. /\ pc = "argument" /\ pc' = "unary" /\ at' = at /\ text' = text
      /\ nodes' = nodes /\ operators' = operators /\ frames' = frames
  BY DEF ExprArgument, tree, reading
<1>2. TopStands(first, last, m) /\ Top' = Top
  BY <1>1, Standing DEF Top
<1>3. at = m.arg /\ Top.op = "none" /\ Top.sign = "none" /\ ArgsEnd(text, last, Top, m)
  BY <1>1, <1>2 DEF TopStands
<1>4. at = Pending(Top, m)
  BY <1>3 DEF Pending, Due
<1>5. TopStands(first, last, marks[Len(frames)])'
  BY <1>1, <1>2, <1>3, <1>4 DEF TopStands
<1> QED
  BY <1>1, <1>5, Standing, QuietSpanned

\* The tokens of an operator and of its operands.
Ordered(h, first, last, i) ==
  /\ i \in DOMAIN h /\ h[i].lhs \in DOMAIN h /\ h[i].rhs \in DOMAIN h
  /\ first[i] > 0 /\ first[i] \in Nat /\ last[i] \in Nat /\ last[h[i].lhs] \in Nat
  /\ first[h[i].lhs] = first[i] /\ first[i] <= last[h[i].lhs]
  /\ first[h[i].rhs] = last[h[i].lhs] + 2 /\ last[h[i].rhs] = last[i]
  /\ first[h[i].rhs] <= last[i]

\* An operator of the heap stands between its two operands.
LEMMA OperatorAt ==
  ASSUME NEW t, NEW h, NEW ops, TreeOK(h, ops), NEW first, NEW last, NEW e,
         HeapStands(t, h, ops, first, last, e), NEW i \in ops
  PROVE  OperatorStands(t, h, first, last, i) /\ Ordered(h, first, last, i)
<1>1. i \in DOMAIN h /\ h[i].kind = "bin"
  BY DEF TreeOK
<1>2. first[i] > 0 /\ first[i] \in Nat /\ last[i] \in Nat
  BY <1>1 DEF HeapStands
<1>3. Stands(t, h, ops, first, last, i)
  BY <1>1, <1>2 DEF HeapStands
<1>4. OperatorStands(t, h, first, last, i)
  BY <1>1, <1>3 DEF Stands
<1> DEFINE l == h[i].lhs
           r == h[i].rhs
<1>5. l \in DOMAIN h /\ r \in DOMAIN h /\ first[l] = first[i] /\ first[r] = last[l] + 2 /\ last[r] = last[i]
  BY <1>4 DEF OperatorStands
<1> HIDE DEF l, r
<1>6. first[l] \in Nat /\ last[l] \in Nat /\ first[r] \in Nat /\ last[r] \in Nat
  BY <1>5 DEF HeapStands
<1>7. first[l] # 0 /\ first[r] # 0
  BY <1>2, <1>5, <1>6
<1>8. first[l] <= last[l] /\ first[r] <= last[r]
  BY <1>5, <1>7 DEF HeapStands, Stands
<1> QED
  BY <1>1, <1>2, <1>4, <1>5, <1>6, <1>8 DEF l, r, Ordered

LEMMA DescendSpanned ==
  ASSUME Inv, NEW first, NEW last, NEW marks, Spans(first, last, marks), Descend
  PROVE  Spanned'
<1> DEFINE m == marks[Len(frames)]
<1>1. /\ pc = "place" /\ pc' = "place" /\ at' = at /\ text' = text /\ Top.op # "none"
      /\ nodes' = nodes /\ operators' = operators /\ frames' = frames
      /\ node' = nodes[node].rhs /\ operand' = operand /\ ~Stops(nodes[node].rhs, Top.op)
  BY DEF Descend, Below, tree, reading
<1>2. TopStands(first, last, m) /\ Top' = Top
  BY <1>1, Standing DEF Top
<1>3. node' \in operators
  BY <1>1, PlaceHasRight, Passed
<1>4. last[node'] = m.end
  <2>1. CASE node = Top.root
    BY <1>1, <2>1, Standing DEF FrameStands, Waits
  <2>2. CASE node \in operators /\ last[node] = m.end
    <3>1. TreeOK(nodes, operators) /\ HeapStands(text, nodes, operators, first, last, at)
      BY <1>1, Standing
    <3>2. OperatorStands(text, nodes, first, last, node)
      BY <2>2, <3>1, OperatorAt
    <3>3. last[nodes[node].rhs] = last[node]
      BY <3>2 DEF OperatorStands
    <3> QED
      BY <1>1, <2>2, <3>3
  <2> QED
    BY <1>1, <1>2, <2>1, <2>2 DEF TopStands
<1>5. TopStands(first, last, marks[Len(frames)])'
  BY <1>1, <1>2, <1>3, <1>4 DEF TopStands
<1> QED
  BY <1>1, <1>5, Standing, QuietSpanned

LEMMA EndSpanned ==
  ASSUME Inv, NEW first, NEW last, NEW marks, Spans(first, last, marks), End
  PROVE  Spanned' /\ ReadsTheText'
<1> DEFINE m == marks[Len(frames)]
           r == nodes[1].rhs
<1>1. /\ pc = "operator" /\ pc' = "done" /\ at' = at /\ text' = text /\ Top.kind = "top"
      /\ nodes' = nodes /\ operators' = operators /\ frames' = frames
  BY DEF End, tree, reading
<1>2. Spanned'
  BY <1>1, Standing, QuietSpanned
<1>3. Top.root = 1 /\ m.arg = 0
  BY <1>1, Standing DEF FrameStands
<1>4. r \in DOMAIN nodes
  BY <1>1, <1>3 DEF Inv, PlaceOK
<1>5. first[r] = 1 /\ last[r] = at
  BY <1>1, <1>3, Standing DEF TopStands
<1>6. /\ first \in [DOMAIN nodes -> Nat] /\ last \in [DOMAIN nodes -> Nat]
      /\ \A i \in DOMAIN nodes : first[i] > 0 => Stands(text, nodes, operators, first, last, i)
  BY <1>1, Standing DEF HeapStands
<1>7. ReadsTheText'
  BY <1>1, <1>4, <1>5, <1>6 DEF ReadsTheText
<1> QED
  BY <1>2, <1>7

----------------------------------------------------------------------------
(* Steps that read an operand.                                             *)

\* The operand is in the heap, and the innermost call is about to place it.
LEMMA PlacedSpanned ==
  ASSUME Inv, NEW first, NEW last, Extends(text, text),
         HeapStands(text, nodes, operators, first, last, at),
         NEW fs \in Seq(Frame), fs # <<>>, NEW marks,
         StackStands(text, nodes, operators, first, last, fs, marks),
         \A k \in DOMAIN fs : FrameOK(fs[k], nodes, k),
         NEW f, f = fs[Len(fs)], NEW m, m = marks[Len(fs)], ArgsEnd(text, last, f, m),
         NEW n \in Node, n.kind # "bin",
         NEW a \in Nat, NEW b \in Nat, a = Pending(f, m) + 1, a <= b, at <= b,
         \A i \in operators : last[i] < b,
         Alone(text, nodes, operators, first, last, n, a, b),
         n.kind = "leaf" => a = b /\ LiteralAt(text, b, n.leaf),
         Signed(f.sign, n) # <<>>, nodes' = nodes \o Signed(f.sign, n), operators' = operators,
         frames' = fs, text' = text, at' = b,
         operand' = Len(nodes'), node' = f.root, pc' = "place"
  PROVE  Spanned'
<1>1. nodes \in Seq(Node) /\ TreeOK(nodes, operators) /\ at \in Nat
  BY DEF Inv, TypeOK
<1>2. JoinsAs(text, nodes, nodes', operators, first, last, fs, marks, b, Due(f, m) + 1, b)
  BY <1>1, OperandJoins
<1>3. PICK first2, last2 :
        /\ Joined(text, nodes, nodes', operators, first, last, first2, last2, fs, marks, b)
        /\ first2[Len(nodes')] = Due(f, m) + 1 /\ last2[Len(nodes')] = b
  BY <1>2 DEF JoinsAs
<1>4. /\ Kept(nodes, nodes', first, last, first2, last2)
      /\ HeapStands(text, nodes', operators, first2, last2, b)
      /\ StackStands(text, nodes', operators, first2, last2, fs, marks)
  BY <1>3 DEF Joined
<1>5. \A i \in operators : last2[i] < b
  <2>1. \A i \in operators : last2[i] = last[i]
    BY <1>1, <1>4 DEF Kept, TreeOK
  <2> QED
    BY <2>1
<1>6. ArgsEnd(text, last2, f, m)
  <2>1. f \in Frame /\ FrameStands(text, nodes, operators, first, last, f, m)
    BY DEF StackStands
  <2> QED
    BY <1>4, <2>1, ArgsEndKept
<1>7. Top' = f
  BY DEF Top, Last
<1>8. TopStands(first2, last2, marks[Len(frames)])'
  BY <1>3, <1>5, <1>6, <1>7 DEF TopStands
<1> QED
  BY <1>4, <1>8, SpannedAgain

\* The operand n, for the tokens a to b, is added for the innermost of the calls fs.
Places(first, last, fs, marks, f, m, n, a, b) ==
  /\ HeapStands(text, nodes, operators, first, last, at)
  /\ fs \in Seq(Frame) /\ fs # <<>>
  /\ StackStands(text, nodes, operators, first, last, fs, marks)
  /\ \A k \in DOMAIN fs : FrameOK(fs[k], nodes, k)
  /\ f = fs[Len(fs)] /\ m = marks[Len(fs)] /\ ArgsEnd(text, last, f, m)
  /\ n \in Node /\ n.kind # "bin"
  /\ a \in Nat /\ b \in Nat /\ a = Pending(f, m) + 1 /\ a <= b /\ at <= b
  /\ \A i \in operators : last[i] < b
  /\ Alone(text, nodes, operators, first, last, n, a, b)
  /\ n.kind = "leaf" => a = b /\ LiteralAt(text, b, n.leaf)
  /\ Signed(f.sign, n) # <<>> /\ nodes' = nodes \o Signed(f.sign, n) /\ operators' = operators
  /\ frames' = fs /\ text' = text /\ at' = b
  /\ operand' = Len(nodes') /\ node' = f.root /\ pc' = "place"

LEMMA PlacesSpanned ==
  ASSUME Inv, Extends(text, text), NEW first, NEW last, NEW fs, NEW marks, NEW f, NEW m, NEW n,
         NEW a, NEW b, Places(first, last, fs, marks, f, m, n, a, b)
  PROVE  Spanned'
BY PlacedSpanned DEF Places

\* A literal is read.
LEMMA LiteralSpanned ==
  ASSUME Inv, NEW first, NEW last, NEW marks, Spans(first, last, marks),
         pc \in {"unary", "duration"}, NEW leaf \in Leaf,
         at' \in Nat, at <= at', at' = Pending(Top, marks[Len(frames)]) + 1,
         \A i \in operators : last[i] < at', LiteralAt(text, at', leaf),
         Returns(LeafNode(leaf)), Placing, text' = text, frames' = frames
  PROVE  Spanned'
<1> DEFINE m == marks[Len(frames)]
           n == LeafNode(leaf)
<1>1. /\ Signed(Top.sign, n) # <<>> /\ nodes' = nodes \o Signed(Top.sign, n)
      /\ operand' = Len(nodes') /\ operators' = operators /\ pc' = "place" /\ node' = Top.root
  BY DEF Returns, Refuses, Placing
<1>2. n \in Node /\ n.kind = "leaf" /\ n.leaf = leaf
  BY NodeTypes DEF LeafNode
<1> HIDE DEF n
<1>3. LeafStands(text, n.leaf, at', at') /\ at' <= at'
  BY <1>2 DEF LeafStands
<1>4. Alone(text, nodes, operators, first, last, n, at', at')
  BY <1>2, <1>3, LeafAlone
<1>5. ArgsEnd(text, last, Top, m)
  BY Standing DEF TopStands
<1> QED
  <2>1. Places(first, last, frames, marks, Top, m, n, at', at')
    BY <1>1, <1>2, <1>3, <1>4, <1>5, Standing DEF Places
  <2> QED
    BY <2>1, Standing, PlacesSpanned

\* Before an operand is read, all operators end before it.
LEMMA OperandNext ==
  ASSUME Inv, NEW first, NEW last, NEW marks, Spans(first, last, marks), pc = "unary"
  PROVE  /\ at \in Nat /\ at = Pending(Top, marks[Len(frames)])
         /\ \A i \in operators : last[i] < at + 1
<1>1. at \in Nat /\ at = Pending(Top, marks[Len(frames)])
  BY Standing DEF TopStands
<1>2. ASSUME NEW i \in operators PROVE last[i] < at + 1
  <2>1. i \in DOMAIN nodes
    BY Standing DEF TreeOK
  <2>2. last[i] \in Nat /\ last[i] <= at
    BY <2>1, Standing DEF HeapStands
  <2> QED
    BY <1>1, <2>2
<1> QED
  BY <1>1, <1>2

LEMMA ReadLeafSpanned ==
  ASSUME Inv, NEW first, NEW last, NEW marks, Spans(first, last, marks),
         ReadLeaf \/ ReadWildcard \/ ReadRegex \/ EndDuration
  PROVE  Spanned'
<1>1. CASE ReadLeaf
  <2> DEFINE leaf == LeafOf(Next1)[1]
  <2>1. /\ pc = "unary" /\ at' = at + 1 /\ at < Len(text) /\ Next1.tok \in LeafTok
        /\ LeafOf(Next1) # <<>> /\ Returns(LeafNode(leaf)) /\ Placing /\ text' = text /\ frames' = frames
    BY <1>1 DEF ReadLeaf, AtOperand, Sees, reading
  <2>2. Next1 = text[at + 1] /\ at + 1 \in 1 .. Len(text)
    BY <2>1, Standing, OperandNext DEF Next1, Extends
  <2>3. leaf \in Leaf /\ LeafOf(Next1) = <<leaf>>
    <3>1. leaf \in Leaf
      BY <2>1, NextToken, LeafOfToken
    <3>2. LeafOf(Next1) = <<leaf>>
      BY <2>1 DEF LeafOf, IntegerValue
    <3> QED
      BY <3>1, <3>2
  <2>4. LiteralAt(text, at + 1, leaf)
    BY <2>1, <2>2, <2>3 DEF LiteralAt, Means
  <2> HIDE DEF leaf
  <2> QED
    BY <2>1, <2>3, <2>4, OperandNext, LiteralSpanned
<1>2. CASE ReadWildcard
  <2> DEFINE leaf == Named("wildcard", NoName)
  <2>1. /\ pc = "unary" /\ at' = at + 1 /\ at < Len(text) /\ Next1.tok = "MUL"
        /\ Returns(LeafNode(leaf)) /\ Placing /\ text' = text /\ frames' = frames
    BY <1>2 DEF ReadWildcard, AtOperand, Sees, reading
  <2>2. Next1 = text[at + 1] /\ at + 1 \in 1 .. Len(text)
    BY <2>1, Standing, OperandNext DEF Next1, Extends
  <2>3. leaf \in Leaf
    BY NameAssumption DEF Named, Leaf, Type
  <2>4. LiteralAt(text, at + 1, leaf)
    BY <2>1, <2>2 DEF LiteralAt, Means
  <2> HIDE DEF leaf
  <2> QED
    BY <2>1, <2>3, <2>4, OperandNext, LiteralSpanned
<1>3. CASE ReadRegex
  <2> DEFINE leaf == Next1.leaf
  <2>1. /\ pc = "unary" /\ at' = at + 1 /\ at < Len(text) /\ Next1.tok = "REGEX"
        /\ Returns(LeafNode(leaf)) /\ Placing /\ text' = text /\ frames' = frames
    BY <1>3 DEF ReadRegex, Sees, reading
  <2>2. Next1 = text[at + 1] /\ at + 1 \in 1 .. Len(text)
    BY <2>1, Standing, OperandNext DEF Next1, Extends
  <2>3. leaf \in Leaf
    BY <2>1, NextToken DEF Token
  <2>4. LiteralAt(text, at + 1, leaf)
    BY <2>1, <2>2 DEF LiteralAt, Means
  <2> HIDE DEF leaf
  <2> QED
    BY <2>1, <2>3, <2>4, OperandNext, LiteralSpanned
<1>4. CASE EndDuration
  <2>1. CASE Fail
    BY <1>4, <2>1, FailSpanned DEF EndDuration
  <2>2. CASE ~Fail
    <3> DEFINE leaf == Lit("duration", dur.d)
    <3>1. /\ pc = "duration" /\ at' = at /\ text' = text /\ frames' = frames
          /\ Returns(LeafNode(leaf)) /\ Placing
      BY <1>4, <2>2 DEF EndDuration, reading
    <3>2. /\ at = Pending(Top, marks[Len(frames)]) + 1 /\ Reads(text, at, "DURATIONVAL")
          /\ \A i \in operators : last[i] < at
      BY <3>1, Standing DEF TopStands
    <3>3. leaf \in Leaf /\ leaf.type = "duration"
      <4>1. dur.d \in Int
        BY WordTypes DEF Inv, TypeOK, Int64
      <4> QED
        BY <4>1, NameAssumption DEF Lit, Leaf, Type
    <3>4. LiteralAt(text, at, leaf)
      BY <3>2, <3>3 DEF LiteralAt, Means, Reads
    <3>5. at \in Nat /\ at <= at
      BY <3>1, Standing
    <3> HIDE DEF leaf
    <3> QED
      BY <3>1, <3>2, <3>3, <3>4, <3>5, LiteralSpanned
  <2> QED
    BY <2>1, <2>2
<1> QED
  BY <1>1, <1>2, <1>3, <1>4

----------------------------------------------------------------------------
(* Steps on the stack: signs, operators, parentheses, calls.               *)

\* The innermost call goes on.
LEMMA TopSetAgain ==
  ASSUME Inv, NEW first, NEW last, NEW marks,
         HeapStands(text', nodes', operators', first, last, at'),
         StackStands(text', nodes', operators', first, last, frames, marks),
         NEW f \in Frame, f.root \in Nat, f.root >= Top.root,
         NEW m \in Marks, m.start = marks[Len(frames)].start,
         FrameStands(text', nodes', operators', first, last, f, m), frames' = SetTop(f),
         NEW marks2, marks2 = [marks EXCEPT ![Len(frames)] = m],
         TopStands(first, last, marks2[Len(frames)])'
  PROVE  Spanned'
<1>1. /\ frames \in Seq(Frame) /\ frames # <<>> /\ Top = frames[Len(frames)]
      /\ \A k \in DOMAIN frames : frames[k].root \in Nat
  <2>1. /\ frames \in Seq(Frame) /\ frames # <<>>
        /\ \A k \in DOMAIN frames : frames[k] \in Frame
    BY DEF Inv, FramesOK
  <2> QED
    BY <2>1, TopFrame DEF Frame
<1>2. frames' = [frames EXCEPT ![Len(frames)] = f]
  BY DEF SetTop
<1>3. f.root >= frames[Len(frames)].root /\ frames[Len(frames)].root \in Nat
  BY <1>1, TopFrame
<1>4. StackStands(text', nodes', operators', first, last, [frames EXCEPT ![Len(frames)] = f], marks2)
  BY <1>1, <1>3, StackSet
<1> QED
  BY <1>2, <1>4, SpannedAgain

\* The innermost call goes on, in the same tree.
LEMMA TopSetSpanned ==
  ASSUME Inv, NEW first, NEW last, NEW marks, Spans(first, last, marks), pc \notin {"error", "done"},
         NEW f \in Frame, f.root = Top.root, NEW m \in Marks, m.start = marks[Len(frames)].start,
         FrameStands(text, nodes, operators, first, last, f, m),
         nodes' = nodes, operators' = operators, text' = text, frames' = SetTop(f),
         at' \in Nat, at <= at',
         NEW marks2, marks2 = [marks EXCEPT ![Len(frames)] = m],
         TopStands(first, last, marks2[Len(frames)])'
  PROVE  Spanned'
<1>1. Top.root \in Nat /\ Top.root >= Top.root
  BY Standing DEF Frame
<1>2. StackStands(text, nodes, operators, first, last, frames, marks)
  BY Standing
<1>3. HeapStands(text, nodes, operators, first, last, at')
  <2>1. Kept(nodes, nodes, first, last, first, last)
    BY Unchanged
  <2>2. first \in [DOMAIN nodes -> Nat] /\ last \in [DOMAIN nodes -> Nat]
    BY Standing DEF HeapStands
  <2> QED
    BY <2>1, <2>2, Standing, HeapKept
<1> QED
  BY <1>1, <1>2, <1>3, TopSetAgain

\* The innermost frame and its mark afterwards.
LEMMA TopAfterSet ==
  ASSUME Inv, NEW f, frames' = SetTop(f), NEW marks, NEW m, marks \in [DOMAIN frames -> Marks]
  PROVE  Top' = f /\ Len(frames') = Len(frames) /\ [marks EXCEPT ![Len(frames)] = m][Len(frames)] = m
<1>1. frames' = [frames EXCEPT ![Len(frames)] = f] /\ frames \in Seq(Frame) /\ Len(frames) \in DOMAIN frames
  BY TopFrame DEF SetTop, Inv, FramesOK
<1>2. Len(frames') = Len(frames) /\ frames'[Len(frames)] = f
  BY <1>1
<1> QED
  BY <1>1, <1>2 DEF Top, Last

LEMMA ReadSignSpanned ==
  ASSUME Inv, NEW first, NEW last, NEW marks, Spans(first, last, marks), ReadSign
  PROVE  Spanned'
<1> DEFINE f == [Top EXCEPT !.sign = Next1.tok]
           m == marks[Len(frames)]
<1>1. /\ pc = "unary" /\ pc' = "unary" /\ at' = at + 1 /\ at < Len(text) /\ Top.sign = "none"
      /\ Next1.tok \in {"ADD", "SUB"} /\ frames' = SetTop(f)
      /\ nodes' = nodes /\ operators' = operators /\ text' = text
  BY DEF ReadSign, AtOperand, Sees, tree, reading
<1>2. /\ f \in Frame /\ f.root = Top.root /\ f.kind = Top.kind /\ f.op = Top.op
      /\ f.sign = Next1.tok /\ f.name = Top.name /\ f.args = Top.args
  BY <1>1, Standing DEF Frame
<1> HIDE DEF f
<1>3. /\ TopStands(first, last, m) /\ at \in Nat /\ m \in Marks
      /\ FrameStands(text, nodes, operators, first, last, Top, m)
  BY <1>1, Standing
<1>4. at = Due(Top, m) /\ ArgsEnd(text, last, Top, m)
  BY <1>1, <1>3 DEF TopStands, Pending
<1>5. Due(f, m) = at /\ Pending(f, m) = at + 1
  BY <1>1, <1>2, <1>4 DEF Due, Pending
<1>6. Reads(text, at + 1, Next1.tok)
  BY <1>1, Standing DEF Reads, Next1, Extends
<1>7. FrameStands(text, nodes, operators, first, last, f, m)
  BY <1>2, <1>3, <1>5, <1>6 DEF FrameStands
<1>8. ArgsEnd(text, last, f, m)
  BY <1>2, <1>4 DEF ArgsEnd
<1>9. PICK marks2 : marks2 = [marks EXCEPT ![Len(frames)] = m]
  OBVIOUS
<1>10. Top' = f /\ marks2[Len(frames')] = m
  BY <1>1, <1>9, Standing, TopAfterSet DEF StackStands
<1>11. TopStands(first, last, marks2[Len(frames)])'
  BY <1>1, <1>5, <1>8, <1>10 DEF TopStands
<1>12. at' \in Nat /\ at <= at'
  BY <1>1, <1>3
<1> HIDE DEF m
<1> QED
  BY <1>1, <1>2, <1>3, <1>7, <1>9, <1>11, <1>12, TopSetSpanned DEF m

LEMMA ReadOperatorSpanned ==
  ASSUME Inv, NEW first, NEW last, NEW marks, Spans(first, last, marks), ReadOperator
  PROVE  Spanned'
<1> DEFINE f == [Top EXCEPT !.op = Next1.tok]
           c == marks[Len(frames)]
           m == [c EXCEPT !.end = at]
           r == nodes[Top.root].rhs
<1>1. /\ pc = "operator" /\ pc' = "unary" /\ at' = at + 1 /\ at < Len(text)
      /\ Next1.tok \in Op /\ frames' = SetTop(f)
      /\ nodes' = nodes /\ operators' = operators /\ text' = text
  BY DEF ReadOperator, Sees, tree, reading
<1>2. /\ f \in Frame /\ f.root = Top.root /\ f.kind = Top.kind /\ f.op = Next1.tok
      /\ f.sign = Top.sign /\ f.name = Top.name /\ f.args = Top.args
  BY <1>1, Standing DEF Frame
<1> HIDE DEF f
<1>3. /\ TopStands(first, last, c) /\ at \in Nat /\ c \in Marks
      /\ FrameStands(text, nodes, operators, first, last, Top, c)
      /\ HeapStands(text, nodes, operators, first, last, at)
  BY <1>1, Standing
<1>4. m \in Marks /\ m.start = c.start /\ m.arg = c.arg /\ m.end = at
  BY <1>3 DEF Marks
<1> HIDE DEF m, c
<1>5. /\ Top.op = "none" /\ Top.sign = "none" /\ ArgsEnd(text, last, Top, c)
      /\ first[r] = c.arg + 1 /\ last[r] = at /\ Heads(nodes, operators, last, r, at)
  BY <1>1, <1>3 DEF TopStands
<1>6. Reads(text, at + 1, Next1.tok)
  BY <1>1, Standing DEF Reads, Next1, Extends
<1>7. Cut(first, last, at)
  BY <1>3 DEF Cut, HeapStands
<1>8. c.arg < at
  <2>1. r \in DOMAIN nodes
    BY <1>1 DEF Inv, PlaceOK
  <2>2. c.arg \in Nat
    BY <1>3 DEF Marks
  <2>3. first[r] # 0
    BY <1>5, <2>2
  <2>4. first[r] <= last[r]
    BY <1>3, <2>1, <2>3 DEF HeapStands, Stands
  <2> HIDE DEF r
  <2> QED
    BY <1>3, <1>5, <2>2, <2>4
<1>9. Waits(text, nodes, operators, first, last, nodes[f.root].rhs, f.op, m)
  BY <1>2, <1>4, <1>5, <1>6, <1>7, <1>8 DEF Waits
<1>10. FrameStands(text, nodes, operators, first, last, f, m)
  BY <1>2, <1>3, <1>4, <1>5, <1>9 DEF FrameStands
<1>11. ArgsEnd(text, last, f, m)
  BY <1>2, <1>4, <1>5 DEF ArgsEnd
<1>12. Pending(f, m) = at + 1
  <2>1. f.op # "none"
    BY <1>1, <1>2, NoneIsNoOperator
  <2> QED
    BY <1>2, <1>4, <1>5, <2>1 DEF Pending, Due
<1>13. PICK marks2 : marks2 = [marks EXCEPT ![Len(frames)] = m]
  OBVIOUS
<1>14. Top' = f /\ marks2[Len(frames')] = m
  BY <1>1, <1>13, Standing, TopAfterSet DEF StackStands
<1>15. TopStands(first, last, marks2[Len(frames)])'
  BY <1>1, <1>11, <1>12, <1>14 DEF TopStands
<1>16. at' \in Nat /\ at <= at'
  BY <1>1, <1>3
<1>17. m.start = marks[Len(frames)].start
  BY <1>4 DEF c
<1> QED
  BY <1>1, <1>2, <1>4, <1>10, <1>13, <1>15, <1>16, <1>17, TopSetSpanned

\* A root joins the heap: it has no tokens.
LEMMA RootJoins ==
  ASSUME Inv, NEW first, NEW last, NEW marks, Spans(first, last, marks), pc \notin {"error", "done"},
         NEW g, g = Append(nodes, Root)
  PROVE  JoinsAs(text, nodes, g, operators, first, last, frames, marks, at + 1, 0, 0)
<1>1. Root \in Node /\ at \in Nat /\ at + 1 \in Nat /\ at <= at + 1 /\ 0 <= at + 1 /\ 0 \in Nat
  BY NodeTypes, Standing
<1> QED
  BY <1>1, Standing, OneJoins

\* A parenthesis or a call is opened.
LEMMA OpenSpanned ==
  ASSUME Inv, NEW first, NEW last, NEW marks, Spans(first, last, marks), OpenParen \/ OpenCall
  PROVE  Spanned'
<1> DEFINE kind == IF OpenParen THEN "paren" ELSE "call"
           name == IF OpenParen THEN Nil ELSE Next1.leaf
           f == Opened(kind, Len(nodes'), name)
           m == [start |-> at + 1, arg |-> at + 1, end |-> 0]
           c == marks[Len(frames)]
<1>1. /\ pc = "unary" /\ at' = at + 1 /\ at < Len(text)
      /\ nodes' = Append(nodes, Root) /\ frames' = Append(frames, f)
      /\ operators' = operators /\ text' = text
  BY DEF OpenParen, OpenCall, Open, AtOperand, Sees, reading
<1>2. /\ kind = "paren" => Next1.tok = "LPAREN" /\ pc' = "unary"
      /\ kind = "call" => Next1.tok = "CALL" /\ pc' = "argument" /\ name = Next1.leaf
      /\ kind \in {"paren", "call"}
  BY DEF OpenParen, OpenCall, Sees
<1>3. name \in Leaf /\ Next1 = text[at + 1] /\ at + 1 \in 1 .. Len(text)
  BY <1>1, NilLeaf, NextToken, Standing DEF Next1, Token, Extends
<1>4. Len(nodes') = Len(nodes) + 1 /\ Len(nodes') \in Nat /\ Len(nodes) \in Nat
  BY <1>1, TopFrame
<1>5. /\ f \in Frame /\ f.kind = kind /\ f.root = Len(nodes') /\ f.op = "none" /\ f.sign = "none"
      /\ f.name = name /\ f.args = <<>>
  <2>1. <<>> \in Seq(Nat) /\ "none" \in Op \cup {"none"} /\ "none" \in {"none", "ADD", "SUB"}
    OBVIOUS
  <2> HIDE DEF name, kind
  <2> QED
    BY <1>2, <1>3, <1>4, <2>1 DEF Opened, Frame
<1> HIDE DEF f, name, kind
<1>6. JoinsAs(text, nodes, nodes', operators, first, last, frames, marks, at + 1, 0, 0)
  BY <1>1, RootJoins
<1>7. PICK first2, last2 :
        /\ Joined(text, nodes, nodes', operators, first, last, first2, last2, frames, marks, at + 1)
        /\ first2[Len(nodes')] = 0
  BY <1>6 DEF JoinsAs
<1>8. /\ Kept(nodes, nodes', first, last, first2, last2)
      /\ HeapStands(text, nodes', operators, first2, last2, at + 1)
      /\ StackStands(text, nodes', operators, first2, last2, frames, marks)
  BY <1>7 DEF Joined
<1>9. /\ at = Pending(Top, c) /\ at \in Nat /\ ArgsEnd(text, last, Top, c)
  BY <1>1, Standing DEF TopStands
<1>10. ArgsEnd(text, last2, Top, c)
  BY <1>1, <1>8, <1>9, Standing, ArgsEndKept
<1>11. m \in Marks /\ m.start = at + 1 /\ m.arg = at + 1
  BY <1>9 DEF Marks
<1> HIDE DEF m
<1>12. FrameStands(text, nodes', operators, first2, last2, f, m)
  <2>1. kind = "paren" => Reads(text, m.start, "LPAREN") /\ m.arg = m.start
    BY <1>2, <1>3, <1>11 DEF Reads
  <2>2. kind = "call" => Reads(text, m.start, "CALL") /\ text[m.start].leaf = f.name
    BY <1>2, <1>3, <1>5, <1>11 DEF Reads
  <2>3. ArgsStand(text, nodes', first2, last2, f.args, m.start)
    BY <1>5 DEF ArgsStand
  <2>4. first2[f.root] = 0 /\ m.start <= m.arg
    BY <1>5, <1>7, <1>9, <1>11
  <2> QED
    BY <1>2, <1>5, <2>1, <2>2, <2>3, <2>4 DEF FrameStands
<1>13. \A k \in DOMAIN frames : frames[k].root < f.root
  <2>1. ASSUME NEW k \in DOMAIN frames PROVE frames[k].root < f.root
    <3>1. frames[k].root \in DOMAIN nodes
      BY <1>1, Standing DEF FrameOK
    <3>2. frames[k].root <= Len(nodes) /\ frames[k].root \in Nat
      BY <3>1, TopFrame
    <3> QED
      BY <1>4, <1>5, <3>2
  <2> QED
    BY <2>1
<1>14. PICK marks2 : marks2 = [k \in 1 .. Len(frames) + 1 |-> IF k = Len(frames) + 1 THEN m ELSE marks[k]]
  OBVIOUS
<1>15. StackStands(text, nodes', operators, first2, last2, frames', marks2)
  <2>1. /\ frames \in Seq(Frame) /\ frames # <<>> /\ Top = frames[Len(frames)]
        /\ m.start = Pending(frames[Len(frames)], marks[Len(frames)]) + 1
        /\ ArgsEnd(text, last2, frames[Len(frames)], marks[Len(frames)])
    BY <1>1, <1>9, <1>10, <1>11, Standing
  <2>2. StackStands(text, nodes', operators, first2, last2, Append(frames, f), marks2)
    BY <1>5, <1>8, <1>11, <1>12, <1>13, <1>14, <2>1, StackPushed
  <2> QED
    BY <1>1, <2>2
<1>16. Top' = f /\ marks2[Len(frames')] = m
  <2>1. frames \in Seq(Frame) /\ Len(frames) \in Nat
    BY TopFrame DEF Inv, FramesOK
  <2>2. Len(frames') = Len(frames) + 1 /\ frames'[Len(frames) + 1] = f
    BY <1>1, <1>5, <2>1
  <2> QED
    BY <1>14, <2>1, <2>2 DEF Top, Last
<1>17. ArgsEnd(text, last2, f, m) /\ Pending(f, m) = m.arg
  BY <1>5, <1>11 DEF ArgsEnd, Pending, Due
<1>18. TopStands(first2, last2, marks2[Len(frames)])'
  BY <1>1, <1>2, <1>5, <1>11, <1>16, <1>17 DEF TopStands
<1> QED
  BY <1>1, <1>8, <1>15, <1>18, SpannedAgain

\* One more argument.
LEMMA ArgsAppended ==
  ASSUME NEW t, NEW h, NEW first, NEW last, NEW args \in Seq(Nat), NEW s \in Nat, NEW e \in Nat,
         NEW x \in DOMAIN h, first[x] = e + 1, s <= e, ArgsStand(t, h, first, last, args, s),
         args = <<>> => e = s,
         args # <<>> => Reads(t, e, "COMMA") /\ e = last[args[Len(args)]] + 1,
         \A i \in DOMAIN h : last[i] \in Nat
  PROVE  ArgsStand(t, h, first, last, Append(args, x), s)
<1> DEFINE k == Len(args) + 1
           more == Append(args, x)
<1>1. /\ DOMAIN more = 1 .. k /\ more[k] = x /\ \A j \in 1 .. Len(args) : more[j] = args[j]
      /\ DOMAIN args = 1 .. Len(args) /\ Len(args) \in Nat
  OBVIOUS
<1> HIDE DEF more
<1>2. ASSUME NEW j \in DOMAIN more
      PROVE  /\ more[j] \in DOMAIN h /\ first[more[j]] > s
             /\ j = 1 => first[more[j]] = s + 1
             /\ j > 1 => /\ Reads(t, last[more[j - 1]] + 1, "COMMA")
                         /\ first[more[j]] = last[more[j - 1]] + 2
  <2>1. CASE j \in 1 .. Len(args)
    <3>1. more[j] = args[j] /\ (j > 1 => j - 1 \in 1 .. Len(args) /\ more[j - 1] = args[j - 1])
      BY <1>1, <2>1
    <3> QED
      BY <1>1, <2>1, <3>1 DEF ArgsStand
  <2>2. CASE j = k
    <3>1. more[j] = x /\ first[x] = e + 1 /\ first[x] > s
      BY <1>1, <2>2
    <3>2. j = 1 => e = s
      <4>1. j = 1 => args = <<>>
        BY <2>2
      <4> QED
        BY <4>1
    <3>3. ASSUME j > 1
          PROVE  Reads(t, last[more[j - 1]] + 1, "COMMA") /\ first[more[j]] = last[more[j - 1]] + 2
      <4>1. args # <<>> /\ j - 1 = Len(args) /\ Len(args) \in 1 .. Len(args)
        BY <1>1, <2>2, <3>3
      <4>2. more[j - 1] = args[Len(args)] /\ Reads(t, e, "COMMA") /\ e = last[args[Len(args)]] + 1
        BY <1>1, <4>1
      <4>3. last[args[Len(args)]] \in Nat
        BY <1>1, <4>1 DEF ArgsStand
      <4> QED
        BY <3>1, <4>2, <4>3
    <3> QED
      BY <3>1, <3>2, <3>3
  <2> QED
    BY <1>1, <2>1, <2>2
<1> QED
  BY <1>2 DEF ArgsStand, more

LEMMA RegexArgumentSpanned ==
  ASSUME Inv, NEW first, NEW last, NEW marks, Spans(first, last, marks), RegexArgument
  PROVE  Spanned'
<1> DEFINE n == LeafNode(Next1.leaf)
           k == Len(nodes')
           f == [Top EXCEPT !.args = Append(@, k)]
           m == marks[Len(frames)]
           b == at + 1
<1>1. /\ pc = "argument" /\ pc' = "arguments" /\ at' = b /\ at < Len(text) /\ Next1.tok = "REGEX"
      /\ nodes' = Append(nodes, n) /\ frames' = SetTop(f)
      /\ operators' = operators /\ text' = text
  BY DEF RegexArgument, Sees, reading
<1>2. Next1.leaf \in Leaf /\ Next1 = text[b] /\ b \in 1 .. Len(text) /\ at \in Nat
  BY <1>1, NextToken, Standing DEF Next1, Token, Extends
<1>3. n \in Node /\ n.kind = "leaf" /\ n.leaf = Next1.leaf
  BY <1>2, NodeTypes DEF LeafNode
<1>4. k = Len(nodes) + 1 /\ k \in Nat /\ nodes'[k] = n /\ k \in DOMAIN nodes'
  BY <1>1, <1>3, TopFrame
<1>5. /\ f \in Frame /\ f.root = Top.root /\ f.kind = Top.kind /\ f.op = Top.op /\ f.sign = Top.sign
      /\ f.name = Top.name /\ f.args = Append(Top.args, k) /\ Top.args \in Seq(Nat)
  <2> DEFINE args == Append(Top.args, k)
  <2>1. Top \in Frame
    BY <1>1, Standing
  <2>2. Top.args \in Seq(Nat) /\ args \in Seq(Nat) /\ f = [Top EXCEPT !.args = args]
    BY <1>4, <2>1 DEF Frame
  <2> HIDE DEF args, f
  <2>3. /\ f \in Frame /\ f.root = Top.root /\ f.kind = Top.kind /\ f.op = Top.op
        /\ f.sign = Top.sign /\ f.name = Top.name /\ f.args = args
    BY <2>1, <2>2 DEF Frame
  <2> QED
    BY <2>2, <2>3 DEF args
<1>6. /\ at = m.arg /\ Top.op = "none" /\ Top.sign = "none" /\ ArgsEnd(text, last, Top, m)
      /\ Top.kind = "call" /\ m \in Marks
      /\ FrameStands(text, nodes, operators, first, last, Top, m)
  BY <1>1, Standing DEF TopStands, Inv, PlaceOK
<1> HIDE DEF n, f
<1>7. JoinsAs(text, nodes, nodes', operators, first, last, frames, marks, b, b, b)
  <2>1. LeafStands(text, n.leaf, b, b)
    BY <1>1, <1>2, <1>3 DEF LeafStands, LiteralAt, Means
  <2>2. b <= b /\ at <= b /\ b \in Nat
    BY <1>2
  <2>3. Alone(text, nodes, operators, first, last, n, b, b)
    BY <1>3, <2>1, <2>2, LeafAlone
  <2>4. b > Due(frames[Len(frames)], marks[Len(frames)])
    BY <1>1, <1>2, <1>6, Standing DEF Due
  <2> HIDE DEF b
  <2> QED
    BY <1>1, <1>3, <2>2, <2>3, <2>4, Standing, OneJoins
<1>8. PICK first2, last2 :
        /\ Joined(text, nodes, nodes', operators, first, last, first2, last2, frames, marks, b)
        /\ first2[k] = b /\ last2[k] = b
  BY <1>7 DEF JoinsAs
<1>9. /\ Kept(nodes, nodes', first, last, first2, last2)
      /\ HeapStands(text, nodes', operators, first2, last2, b)
      /\ StackStands(text, nodes', operators, first2, last2, frames, marks)
  BY <1>8 DEF Joined
<1>10. FrameStands(text, nodes', operators, first2, last2, Top, m) /\ ArgsEnd(text, last2, Top, m)
  <2>1. FrameStands(text, nodes', operators, first2, last2, Top, m)
    BY <1>1, <1>9, Standing DEF StackStands
  <2> QED
    BY <1>1, <1>6, <1>9, <2>1, Standing, ArgsEndKept
<1>11. ArgsStand(text, nodes', first2, last2, f.args, m.start)
  <2>1. /\ ArgsStand(text, nodes', first2, last2, Top.args, m.start)
        /\ Top.args = <<>> => m.arg = m.start
        /\ Top.args # <<>> => Reads(text, m.arg, "COMMA") /\ m.arg = last2[Top.args[Len(Top.args)]] + 1
        /\ m.start <= m.arg
    BY <1>6, <1>10 DEF FrameStands, ArgsEnd
  <2>2. \A i \in DOMAIN nodes' : last2[i] \in Nat
    BY <1>9 DEF HeapStands
  <2>3. m.start \in Nat /\ m.arg \in Nat /\ first2[k] = m.arg + 1
    BY <1>6, <1>8 DEF Marks
  <2> HIDE DEF m
  <2> QED
    BY <1>4, <1>5, <2>1, <2>2, <2>3, ArgsAppended
<1>12. FrameStands(text, nodes', operators, first2, last2, f, m)
  BY <1>5, <1>6, <1>10, <1>11 DEF FrameStands
<1>13. PICK marks2 : marks2 = [marks EXCEPT ![Len(frames)] = m]
  OBVIOUS
<1>14. Top' = f /\ marks2[Len(frames')] = m
  BY <1>1, <1>13, Standing, TopAfterSet DEF StackStands
<1>15. TopStands(first2, last2, marks2[Len(frames)])'
  <2>1. f.args # <<>> /\ Last(f.args) = k
    BY <1>4, <1>5 DEF Last
  <2> QED
    BY <1>1, <1>5, <1>6, <1>8, <1>14, <2>1 DEF TopStands
<1>16. f.root \in Nat /\ f.root >= Top.root
  BY <1>5, Standing DEF Frame
<1>17. m.start = marks[Len(frames)].start
  OBVIOUS
<1> HIDE DEF m, b
<1> QED
  BY <1>1, <1>5, <1>6, <1>9, <1>12, <1>13, <1>15, <1>16, <1>17, TopSetAgain

\* The arguments of the innermost call end where the parser is.
ArgsAre(first, last, args, m) ==
  /\ args \in Seq(Nat) /\ args # <<>> /\ last[args[Len(args)]] = at
  /\ ArgsStand(text, nodes, first, last, args, m.start)
  /\ \A j \in DOMAIN args : last[args[j]] <= at
  /\ m.arg <= at /\ Top.kind = "call" /\ Top.op = "none" /\ Top.sign = "none"

\* The arguments of a call when one of them has been read.
LEMMA ArgsRead ==
  ASSUME Inv, NEW first, NEW last, NEW marks, Spans(first, last, marks),
         \/ pc = "operator" /\ Top.kind = "call"
         \/ pc = "arguments",
         NEW args, args = IF pc = "operator" THEN Append(Top.args, nodes[Top.root].rhs) ELSE Top.args,
         NEW m, m = marks[Len(frames)]
  PROVE  ArgsAre(first, last, args, m)
<1>1. /\ Top.op = "none" /\ Top.sign = "none" /\ Top.kind = "call"
      /\ m \in Marks /\ Top.args \in Seq(Nat) /\ at \in Nat
      /\ ArgsStand(text, nodes, first, last, Top.args, m.start) /\ m.start <= m.arg
  <2>1. /\ TopStands(first, last, m) /\ m \in Marks /\ Top \in Frame /\ at \in Nat
        /\ FrameStands(text, nodes, operators, first, last, Top, m)
    BY Standing
  <2>2. Top.op = "none" /\ Top.sign = "none" /\ Top.kind = "call"
    BY <2>1 DEF TopStands, Inv, PlaceOK
  <2> QED
    BY <2>1, <2>2 DEF FrameStands, Frame
<1>2. /\ \A i \in DOMAIN nodes : last[i] \in Nat /\ first[i] \in Nat /\ last[i] <= at
      /\ \A i \in DOMAIN nodes : first[i] # 0 => first[i] <= last[i]
  BY Standing DEF HeapStands, Stands
<1>3. CASE pc = "operator"
  <2> DEFINE r == nodes[Top.root].rhs
  <2>1. r \in DOMAIN nodes
    BY <1>3 DEF Inv, PlaceOK
  <2>2. TopStands(first, last, m)
    BY <1>3, Standing
  <2>3. first[r] = m.arg + 1 /\ last[r] = at /\ ArgsEnd(text, last, Top, m)
    BY <1>3, <2>2 DEF TopStands
  <2>4. args = Append(Top.args, r) /\ r \in Nat
    BY <1>3, <2>1, TopFrame
  <2> HIDE DEF r
  <2>5. ArgsStand(text, nodes, first, last, args, m.start)
    <3>1. m.start \in Nat /\ m.arg \in Nat
      BY <1>1 DEF Marks
    <3>2. /\ Top.args = <<>> => m.arg = m.start
          /\ Top.args # <<>> => Reads(text, m.arg, "COMMA") /\ m.arg = last[Top.args[Len(Top.args)]] + 1
      BY <1>1, <2>3 DEF ArgsEnd
    <3>3. \A i \in DOMAIN nodes : last[i] \in Nat
      BY <1>2
    <3>4. ArgsStand(text, nodes, first, last, Append(Top.args, r), m.start)
      BY <1>1, <2>1, <2>3, <3>1, <3>2, <3>3, ArgsAppended
    <3> QED
      BY <2>4, <3>4
  <2>6. args \in Seq(Nat) /\ args # <<>> /\ args[Len(args)] = r
    BY <1>1, <2>4
  <2>7. m.arg <= at
    <3>1. m.arg \in Nat
      BY <1>1 DEF Marks
    <3>2. first[r] # 0
      BY <2>3, <3>1
    <3>3. first[r] <= last[r]
      BY <1>2, <2>1, <3>2
    <3> QED
      BY <1>1, <2>3, <3>1, <3>3
  <2>8. \A j \in DOMAIN args : last[args[j]] <= at
    BY <1>2, <2>5 DEF ArgsStand
  <2> QED
    BY <1>1, <2>3, <2>5, <2>6, <2>7, <2>8 DEF ArgsAre
<1>4. CASE pc = "arguments"
  <2> DEFINE r == Top.args[Len(Top.args)]
  <2>1. args = Top.args
    BY <1>4
  <2>2. Top.args # <<>> /\ first[r] = m.arg + 1 /\ last[r] = at
    BY <1>4, Standing DEF TopStands, Last
  <2>3. \A j \in DOMAIN args : args[j] \in DOMAIN nodes
    BY <1>1, <2>1 DEF ArgsStand
  <2>4. r \in DOMAIN nodes
    BY <1>1, <2>1, <2>2, <2>3
  <2>5. m.arg <= at
    <3>1. m.arg \in Nat
      BY <1>1 DEF Marks
    <3> HIDE DEF r
    <3>2. first[r] # 0
      BY <2>2, <3>1
    <3>3. first[r] <= last[r]
      BY <1>2, <2>4, <3>2
    <3> QED
      BY <1>1, <2>2, <3>1, <3>3
  <2>6. \A j \in DOMAIN args : last[args[j]] <= at
    BY <1>2, <2>3
  <2> QED
    BY <1>1, <2>1, <2>2, <2>5, <2>6 DEF ArgsAre
<1> QED
  BY <1>3, <1>4

LEMMA CommaSpanned ==
  ASSUME Inv, NEW first, NEW last, NEW marks, Spans(first, last, marks), Comma
  PROVE  Spanned'
<1> DEFINE args == IF pc = "operator" THEN Append(Top.args, nodes[Top.root].rhs) ELSE Top.args
           k == Len(nodes')
           f == [Opened("call", k, Top.name) EXCEPT !.args = args]
           c == marks[Len(frames)]
           m == [c EXCEPT !.arg = at + 1]
<1>1. /\ \/ pc = "operator" /\ Top.kind = "call"
         \/ pc = "arguments"
      /\ pc' = "argument" /\ at' = at + 1 /\ at < Len(text) /\ Next1.tok = "COMMA"
      /\ nodes' = Append(nodes, Root) /\ operators' = operators /\ text' = text
  BY DEF Comma, Sees, reading
<1>2. k = Len(nodes) + 1 /\ k \in Nat /\ Len(nodes) \in Nat
  BY <1>1, TopFrame
<1>3. frames' = SetTop(f)
  BY <1>2 DEF Comma
<1>4. /\ args \in Seq(Nat) /\ args # <<>> /\ last[args[Len(args)]] = at
      /\ ArgsStand(text, nodes, first, last, args, c.start)
      /\ \A j \in DOMAIN args : last[args[j]] <= at
      /\ c.arg <= at /\ Top.kind = "call"
  <2>1. args = IF pc = "operator" THEN Append(Top.args, nodes[Top.root].rhs) ELSE Top.args
    OBVIOUS
  <2> HIDE DEF args
  <2>2. ArgsAre(first, last, args, c)
    BY <1>1, <2>1, ArgsRead
  <2> QED
    BY <2>2 DEF ArgsAre
<1> HIDE DEF args
<1>5. at \in Nat /\ c \in Marks /\ FrameStands(text, nodes, operators, first, last, Top, c) /\ Top \in Frame
  BY <1>1, Standing
<1>6. /\ f \in Frame /\ f.kind = "call" /\ f.root = k /\ f.op = "none" /\ f.sign = "none"
      /\ f.name = Top.name /\ f.args = args
  <2> DEFINE o == Opened("call", k, Top.name)
  <2>1. o \in Frame /\ o.kind = "call" /\ o.root = k /\ o.op = "none" /\ o.sign = "none" /\ o.name = Top.name
    BY <1>2, <1>5 DEF Opened, Frame
  <2>2. f = [o EXCEPT !.args = args]
    OBVIOUS
  <2> HIDE DEF o, f
  <2> QED
    BY <1>4, <2>1, <2>2 DEF Frame
<1>7. m \in Marks /\ m.start = c.start /\ m.arg = at + 1 /\ m.start <= m.arg
  <2>1. m \in Marks /\ m.start = c.start /\ m.arg = at + 1
    BY <1>5 DEF Marks
  <2>2. c.start <= c.arg /\ c.start \in Nat /\ c.arg \in Nat
    BY <1>5 DEF Marks, FrameStands
  <2> HIDE DEF m, c
  <2> QED
    BY <1>4, <1>5, <2>1, <2>2
<1> HIDE DEF f, m
<1>8. JoinsAs(text, nodes, nodes', operators, first, last, frames, marks, at + 1, 0, 0)
  BY <1>1, RootJoins
<1>9. PICK first2, last2 :
        /\ Joined(text, nodes, nodes', operators, first, last, first2, last2, frames, marks, at + 1)
        /\ first2[k] = 0
  BY <1>8 DEF JoinsAs
<1>10. /\ Kept(nodes, nodes', first, last, first2, last2)
       /\ HeapStands(text, nodes', operators, first2, last2, at + 1)
       /\ StackStands(text, nodes', operators, first2, last2, frames, marks)
  BY <1>9 DEF Joined
<1>11. /\ ArgsStand(text, nodes', first2, last2, args, c.start)
       /\ \A j \in DOMAIN args : last2[args[j]] = last[args[j]]
  BY <1>1, <1>4, <1>10, Standing, ArgsMore
<1>12. FrameStands(text, nodes', operators, first2, last2, f, m)
  BY <1>4, <1>5, <1>6, <1>7, <1>9, <1>11 DEF FrameStands
<1>13. ArgsEnd(text, last2, f, m)
  <2>1. Reads(text, at + 1, "COMMA")
    BY <1>1, Standing DEF Reads, Next1, Extends
  <2>2. Len(args) \in DOMAIN args
    BY <1>4
  <2>3. last2[args[Len(args)]] = at
    BY <1>4, <1>11, <2>2
  <2>4. \A j \in DOMAIN args : last2[args[j]] < at + 1
    <3>1. ASSUME NEW j \in DOMAIN args PROVE last2[args[j]] < at + 1
      <4>1. args[j] \in DOMAIN nodes /\ last2[args[j]] = last[args[j]] /\ last[args[j]] <= at
        BY <1>4, <1>11 DEF ArgsStand
      <4>2. last[args[j]] \in Nat
        BY <1>1, <4>1, Standing DEF HeapStands
      <4> QED
        BY <1>5, <4>1, <4>2
    <3> QED
      BY <3>1
  <2> QED
    BY <1>4, <1>6, <1>7, <2>1, <2>3, <2>4 DEF ArgsEnd
<1>14. PICK marks2 : marks2 = [marks EXCEPT ![Len(frames)] = m]
  OBVIOUS
<1>15. Top' = f /\ marks2[Len(frames')] = m
  BY <1>1, <1>3, <1>14, Standing, TopAfterSet DEF StackStands
<1>16. TopStands(first2, last2, marks2[Len(frames)])'
  BY <1>1, <1>6, <1>7, <1>13, <1>15 DEF TopStands
<1>17. f.root \in Nat /\ f.root >= Top.root
  <2>1. Top.root \in DOMAIN nodes
    BY TopFrame DEF FrameOK
  <2>2. Top.root \in Nat /\ Top.root <= Len(nodes)
    BY <2>1, TopFrame
  <2> QED
    BY <1>2, <1>6, <2>2
<1> QED
  BY <1>1, <1>3, <1>6, <1>7, <1>10, <1>12, <1>14, <1>16, <1>17, TopSetAgain

\* A call of ParseExpr returns to the one around it, with the operand n.
LEMMA CloseSpanned ==
  ASSUME Inv, NEW first, NEW last, NEW marks, Spans(first, last, marks),
         pc \notin {"error", "done"}, Top.kind # "top",
         NEW n \in Node, n.kind \in {"paren", "call"}, Close(n), at' = at + 1,
         NEW a, a = marks[Len(frames)].start, a <= at + 1,
         Alone(text, nodes, operators, first, last, n, a, at + 1)
  PROVE  Spanned'
<1> DEFINE gs == Front(frames)
           marks2 == [k \in 1 .. Len(frames) - 1 |-> marks[k]]
           f == gs[Len(gs)]
<1>1. /\ nodes' = nodes \o Signed(frames[Len(frames) - 1].sign, n)
      /\ operand' = Len(nodes') /\ node' = frames[Len(frames) - 1].root
      /\ frames' = gs /\ pc' = "place" /\ operators' = operators /\ text' = text
  BY DEF Close, reading
<1>2. frames \in Seq(Frame) /\ Len(frames) > 1 /\ Len(frames) \in Nat
  BY TopFrame DEF FrameOK, Inv, FramesOK
<1>3. /\ gs \in Seq(Frame) /\ Len(gs) = Len(frames) - 1 /\ gs # <<>>
      /\ \A k \in 1 .. Len(frames) - 1 : gs[k] = frames[k]
      /\ DOMAIN gs = 1 .. Len(frames) - 1 /\ DOMAIN gs \subseteq DOMAIN frames
      /\ Len(gs) \in DOMAIN gs /\ f = frames[Len(frames) - 1] /\ f = gs[Len(gs)]
  <2>1. gs = SubSeq(frames, 1, Len(frames) - 1)
    BY DEF Front
  <2> HIDE DEF gs
  <2>2. /\ gs \in Seq(Frame) /\ Len(gs) = Len(frames) - 1
        /\ \A k \in 1 .. Len(frames) - 1 : gs[k] = frames[k]
    BY <1>2, <2>1
  <2> QED
    BY <1>2, <2>2
<1> HIDE DEF gs
<1>4. PICK ms : ms = marks2
  OBVIOUS
<1> HIDE DEF f
<1>5. /\ StackStands(text, nodes, operators, first, last, gs, ms)
      /\ ArgsEnd(text, last, gs[Len(gs)], ms[Len(gs)])
      /\ marks[Len(frames)].start = Pending(gs[Len(gs)], ms[Len(gs)]) + 1
  <2>1. StackStands(text, nodes, operators, first, last, frames, marks)
    BY Standing
  <2>2. Popped(frames, marks, gs, ms)
    BY <1>2, <1>3, <1>4 DEF Popped
  <2> QED
    BY <1>2, <2>1, <2>2, StackPopped
<1>6. \A k \in DOMAIN gs : FrameOK(gs[k], nodes, k)
  BY <1>3, Standing
<1>7. Signed(f.sign, n) # <<>> /\ n.kind # "bin" /\ n.kind # "leaf"
  BY DEF Signed
<1>8. a \in Nat /\ a = Pending(gs[Len(gs)], ms[Len(gs)]) + 1
  BY <1>5, Standing DEF Marks
<1>9. /\ at + 1 \in Nat /\ at <= at + 1
      /\ \A i \in operators : last[i] < at + 1
  <2>1. at \in Nat
    BY Standing
  <2>2. ASSUME NEW i \in operators PROVE last[i] < at + 1
    <3>1. i \in DOMAIN nodes
      BY Standing DEF TreeOK
    <3>2. last[i] \in Nat /\ last[i] <= at
      BY <3>1, Standing DEF HeapStands
    <3> QED
      BY <2>1, <3>2
  <2> QED
    BY <2>1, <2>2
<1>10. /\ nodes' = nodes \o Signed(f.sign, n) /\ node' = f.root
  BY <1>1, <1>3
<1>11. HeapStands(text, nodes, operators, first, last, at) /\ Extends(text, text)
  BY Standing
<1> HIDE DEF marks2
<1>12. PICK m : m = ms[Len(gs)]
  OBVIOUS
<1>13. Places(first, last, gs, ms, f, m, n, a, at + 1)
  <2>1. /\ HeapStands(text, nodes, operators, first, last, at)
        /\ gs \in Seq(Frame) /\ gs # <<>>
        /\ StackStands(text, nodes, operators, first, last, gs, ms)
        /\ \A k \in DOMAIN gs : FrameOK(gs[k], nodes, k)
        /\ f = gs[Len(gs)] /\ ArgsEnd(text, last, f, m)
    BY <1>3, <1>5, <1>6, <1>11, <1>12
  <2>2. a = Pending(f, m) + 1
    BY <1>8, <1>12, <2>1
  <2> QED
    BY <1>1, <1>7, <1>8, <1>9, <1>10, <1>12, <2>1, <2>2 DEF Places
<1> QED
  BY <1>11, <1>13, PlacesSpanned

LEMMA CloseParenSpanned ==
  ASSUME Inv, NEW first, NEW last, NEW marks, Spans(first, last, marks), CloseParen
  PROVE  Spanned'
<1> DEFINE r == nodes[Top.root].rhs
           m == marks[Len(frames)]
           a == m.start
<1>1. /\ pc = "operator" /\ Top.kind = "paren" /\ at < Len(text) /\ Next1.tok = "RPAREN"
      /\ at' = at + 1 /\ Close(Paren(r))
  BY DEF CloseParen, Sees
<1>2. r \in DOMAIN nodes /\ r \in Nat
  BY <1>1, TopFrame DEF Inv, PlaceOK
<1>3. first[r] = m.arg + 1 /\ last[r] = at
  BY <1>1, Standing DEF TopStands
<1>4. Reads(text, a, "LPAREN") /\ m.arg = a
  BY <1>1, Standing DEF FrameStands
<1>5. Reads(text, at + 1, "RPAREN")
  BY <1>1, Standing DEF Reads, Next1, Extends
<1>6. a \in Nat /\ at \in Nat
  BY <1>1, Standing DEF Marks
<1>7. a <= at + 1
  <2>1. first[r] # 0
    BY <1>3, <1>4, <1>6
  <2>2. first[r] <= last[r]
    BY <1>1, <1>2, <2>1, Standing DEF HeapStands, Stands
  <2> HIDE DEF r, a, m
  <2> QED
    BY <1>3, <1>4, <1>6, <2>2
<1>8. Paren(r) \in Node /\ Paren(r).kind = "paren"
  BY <1>2, NodeTypes
<1>9. Alone(text, nodes, operators, first, last, Paren(r), a, at + 1)
  <2>1. first[r] = a + 1 /\ at + 1 = last[r] + 1
    BY <1>3, <1>4
  <2> HIDE DEF r, a
  <2> QED
    BY <1>2, <1>4, <1>5, <1>7, <2>1, ParenAlone
<1> HIDE DEF r
<1> QED
  BY <1>1, <1>7, <1>8, <1>9, CloseSpanned

LEMMA CloseCallSpanned ==
  ASSUME Inv, NEW first, NEW last, NEW marks, Spans(first, last, marks), CloseCall
  PROVE  Spanned'
<1> DEFINE args == IF pc = "operator" THEN Append(Top.args, nodes[Top.root].rhs) ELSE Top.args
           n == CallNode(Top.name, args)
           m == marks[Len(frames)]
           a == m.start
<1>1. /\ at < Len(text) /\ Next1.tok = "RPAREN" /\ at' = at + 1 /\ Close(n)
      /\ \/ pc = "operator" /\ Top.kind = "call"
         \/ pc = "arguments"
         \/ pc = "argument" /\ Top.args = <<>>
  BY DEF CloseCall, Sees
<1>2. pc \notin {"error", "done"} /\ Top.kind = "call"
  BY <1>1 DEF Inv, PlaceOK
<1>3. /\ at \in Nat /\ m \in Marks /\ a \in Nat /\ m.arg \in Nat /\ Top \in Frame
      /\ FrameStands(text, nodes, operators, first, last, Top, m)
  BY <1>2, Standing DEF Marks
<1>4. Reads(text, a, "CALL") /\ text[a].leaf = Top.name /\ a <= m.arg
  BY <1>2, <1>3 DEF FrameStands
<1>5. Reads(text, at + 1, "RPAREN")
  BY <1>1, <1>2, Standing DEF Reads, Next1, Extends
<1>6. /\ args \in Seq(Nat) /\ ArgsStand(text, nodes, first, last, args, a)
      /\ \A j \in DOMAIN args : last[args[j]] <= at
      /\ EndOf(last, args, a) = at /\ m.arg <= at
  <2>1. CASE pc = "argument"
    <3>1. args = <<>> /\ args \in Seq(Nat)
      <4>1. args = Top.args
        BY <2>1
      <4>2. Top.args = <<>>
        BY <1>1, <2>1
      <4> HIDE DEF args
      <4> QED
        BY <4>1, <4>2
    <3>2. at = m.arg /\ m.arg = a
      BY <1>1, <1>2, <2>1, Standing DEF TopStands, ArgsEnd
    <3> HIDE DEF args
    <3> QED
      BY <1>3, <3>1, <3>2 DEF ArgsStand, EndOf
  <2>2. CASE pc # "argument"
    <3>1. /\ args \in Seq(Nat) /\ args # <<>> /\ last[args[Len(args)]] = at
          /\ ArgsStand(text, nodes, first, last, args, a)
          /\ \A j \in DOMAIN args : last[args[j]] <= at
          /\ m.arg <= at
      <4>1. args = IF pc = "operator" THEN Append(Top.args, nodes[Top.root].rhs) ELSE Top.args
        OBVIOUS
      <4> HIDE DEF args
      <4>2. ArgsAre(first, last, args, m)
        BY <1>1, <2>2, <4>1, ArgsRead
      <4> QED
        BY <4>2 DEF ArgsAre
    <3> QED
      BY <3>1 DEF EndOf
  <2> QED
    BY <2>1, <2>2
<1> HIDE DEF args
<1>7. a <= at + 1
  BY <1>3, <1>4, <1>6
<1>8. \A j \in DOMAIN args : last[args[j]] < at + 1
  <2>1. ASSUME NEW j \in DOMAIN args PROVE last[args[j]] < at + 1
    <3>1. args[j] \in DOMAIN nodes /\ last[args[j]] <= at
      BY <1>6 DEF ArgsStand
    <3>2. last[args[j]] \in Nat
      BY <1>2, <3>1, Standing DEF HeapStands
    <3> QED
      BY <1>3, <3>1, <3>2
  <2> QED
    BY <2>1
<1>9. n \in Node /\ n.kind = "call"
  <2>1. Top.name \in Leaf
    BY <1>3 DEF Frame
  <2> QED
    BY <1>6, <2>1, NodeTypes
<1>10. Alone(text, nodes, operators, first, last, n, a, at + 1)
  <2>1. Extends(text, text) /\ at + 1 = EndOf(last, args, a) + 1
    BY <1>2, <1>6, Standing
  <2> HIDE DEF a
  <2> QED
    BY <1>4, <1>5, <1>6, <1>7, <1>8, <2>1, CallAlone
<1> HIDE DEF n
<1> QED
  BY <1>1, <1>2, <1>7, <1>9, <1>10, CloseSpanned

LEMMA PlaceFirstSpanned ==
  ASSUME Inv, NEW first, NEW last, NEW marks, Spans(first, last, marks), PlaceFirst
  PROVE  Spanned'
<1> DEFINE f == [Top EXCEPT !.sign = "none"]
           m == marks[Len(frames)]
           r == Top.root
<1>1. /\ pc = "place" /\ pc' = "operator" /\ Top.op = "none" /\ at' = at /\ text' = text
      /\ nodes' = [nodes EXCEPT ![r].rhs = operand] /\ frames' = SetTop(f)
      /\ operators' = operators
  BY DEF PlaceFirst, reading
<1>2. r \in DOMAIN nodes /\ nodes[r].kind = "root" /\ operand \in DOMAIN nodes /\ operand \in Nat
  BY <1>1, TopFrame DEF FrameOK, Inv, PlaceOK
<1>3. /\ f \in Frame /\ f.root = Top.root /\ f.kind = Top.kind /\ f.op = "none"
      /\ f.sign = "none" /\ f.name = Top.name /\ f.args = Top.args
  BY <1>1, Standing DEF Frame
<1> HIDE DEF f
<1>4. /\ DOMAIN nodes' = DOMAIN nodes /\ nodes'[r].rhs = operand
      /\ nodes'[r].kind = "root"
      /\ \A i \in DOMAIN nodes : i # r => nodes'[i] = nodes[i]
  <2> DEFINE n == [nodes[r] EXCEPT !.rhs = operand]
  <2>1. nodes[r] \in Node
    BY <1>2, TopFrame
  <2>2. n.rhs = operand /\ n.kind = "root"
    BY <1>2, <2>1 DEF Node
  <2>3. nodes' = [nodes EXCEPT ![r] = n]
    BY <1>1
  <2> HIDE DEF n
  <2> QED
    BY <1>2, <2>2, <2>3, TopFrame
<1>5. Kept(nodes, nodes', first, last, first, last)
  BY <1>2, <1>4 DEF Kept
<1>6. /\ TopStands(first, last, m) /\ m \in Marks /\ at \in Nat /\ at <= at
      /\ HeapStands(text, nodes, operators, first, last, at)
      /\ StackStands(text, nodes, operators, first, last, frames, marks)
      /\ frames \in Seq(Frame) /\ Top = frames[Len(frames)] /\ Len(frames) \in DOMAIN frames
  BY <1>1, Standing
<1>7. first \in [DOMAIN nodes' -> Nat] /\ last \in [DOMAIN nodes' -> Nat] /\ DOMAIN first = DOMAIN nodes
  BY <1>4, <1>6 DEF HeapStands
<1>8. HeapStands(text, nodes', operators, first, last, at)
  <2>1. Extends(text, text) /\ nodes \in Seq(Node) /\ TreeOK(nodes, operators)
    BY <1>1, Standing
  <2>2. DOMAIN nodes' \ DOMAIN nodes = {}
    BY <1>4
  <2> QED
    BY <1>5, <1>6, <1>7, <2>1, <2>2, HeapKept
<1>9. \A k \in DOMAIN frames : frames[k].op # "none" => nodes'[frames[k].root] = nodes[frames[k].root]
  <2>1. ASSUME NEW k \in DOMAIN frames, frames[k].op # "none" PROVE frames[k].root \in DOMAIN nodes \ {r}
    <3>1. frames[k].root \in DOMAIN nodes
      BY <1>1, Standing DEF FrameOK
    <3>2. k < Len(frames)
      <4>1. k # Len(frames)
        BY <1>1, <1>6, <2>1
      <4> QED
        BY <1>6, <4>1
    <3>3. frames[k].root < r
      BY <1>6, <3>2 DEF StackStands
    <3>4. r \in Nat
      BY <1>2, TopFrame
    <3> HIDE DEF r
    <3> QED
      BY <3>1, <3>3, <3>4
  <2> QED
    BY <1>4, <2>1
<1>10. StackStands(text, nodes', operators, first, last, frames, marks)
  <2>1. /\ Extends(text, text) /\ TreeOK(nodes, operators) /\ frames # <<>>
        /\ \A k \in DOMAIN frames : FrameOK(frames[k], nodes, k)
    BY <1>1, Standing
  <2>2. DOMAIN nodes' \ DOMAIN nodes = {}
    BY <1>4
  <2> QED
    BY <1>5, <1>6, <1>7, <1>9, <2>1, <2>2, StackKept
<1>11. FrameStands(text, nodes', operators, first, last, f, m)
  <2>1. FrameStands(text, nodes', operators, first, last, Top, m)
    BY <1>6, <1>10 DEF StackStands
  <2> QED
    BY <1>3, <2>1 DEF FrameStands
<1>12. PICK marks2 : marks2 = [marks EXCEPT ![Len(frames)] = m]
  OBVIOUS
<1>13. Top' = f /\ marks2[Len(frames')] = m
  BY <1>1, <1>12, Standing, TopAfterSet DEF StackStands
<1>14. /\ first[operand] = m.arg + 1 /\ last[operand] = at /\ ArgsEnd(text, last, Top, m)
       /\ \A i \in operators : last[i] < at
  BY <1>1, <1>6 DEF TopStands, Due
<1>15. Heads(nodes', operators, last, operand, at)
  <2>1. ASSUME NEW i \in operators PROVE last[i] # at
    <3>1. i \in DOMAIN nodes
      BY <1>1, Standing DEF TreeOK
    <3>2. last[i] \in Nat /\ last[i] < at
      BY <1>6, <1>14, <3>1 DEF HeapStands
    <3> QED
      BY <1>6, <3>2
  <2> QED
    BY <2>1 DEF Heads
<1>16. ArgsEnd(text, last, f, m)
  BY <1>3, <1>14 DEF ArgsEnd
<1>17. TopStands(first, last, marks2[Len(frames)])'
  BY <1>1, <1>3, <1>4, <1>13, <1>14, <1>15, <1>16 DEF TopStands
<1>18. f.root \in Nat /\ f.root >= Top.root
  BY <1>2, <1>3, TopFrame
<1>19. m.start = marks[Len(frames)].start
  OBVIOUS
<1> HIDE DEF m
<1> QED
  BY <1>1, <1>3, <1>6, <1>8, <1>10, <1>11, <1>12, <1>17, <1>18, <1>19, TopSetAgain

----------------------------------------------------------------------------
(* A new operator takes the place of a right operand.  The operators that  *)
(* ended there and bind less go on to its end.                             *)

Moved(h, ops, last, o, e) == {i \in ops : last[i] = e /\ Binds(h, i) < Precedence(o)}

\* Below nd, the operator o of the token e + 1 finds its place.
Splits(t, h, ops, first, last, nd, o, x, e, a) ==
  /\ h \in Seq(Node) /\ TreeOK(h, ops) /\ HeapStands(t, h, ops, first, last, a)
  /\ a \in Nat /\ e \in Nat /\ o \in Op /\ Reads(t, e + 1, o)
  /\ x \in DOMAIN h \ ops /\ first[x] = e + 2 /\ last[x] = a
  /\ Cut(first, last, e) /\ \A i \in ops : last[i] < a
  /\ nd \in DOMAIN h /\ h[nd].rhs \in DOMAIN h
  /\ last[h[nd].rhs] = e /\ first[h[nd].rhs] > 0
  /\ h[h[nd].rhs].kind = "bin" => Precedence(h[h[nd].rhs].op) >= Precedence(o)
  /\ IF nd \in ops
     THEN last[nd] = e /\ Binds(h, nd) < Precedence(o)
     ELSE h[nd].kind = "root" /\ Moved(h, ops, last, o, e) = {}

\* The heap with the new operator, and its tokens.
Spliced(h, g, ops, first, last, first2, last2, nd, new, o, x, e, a) ==
  /\ new \notin DOMAIN h /\ DOMAIN g = DOMAIN h \cup {new}
  /\ g[new].kind = "bin" /\ g[new].op = o /\ g[new].lhs = h[nd].rhs /\ g[new].rhs = x
  /\ \A i \in DOMAIN h : i # nd => g[i] = h[i]
  /\ g[nd].kind = h[nd].kind /\ g[nd].op = h[nd].op /\ g[nd].lhs = h[nd].lhs /\ g[nd].rhs = new
  /\ first2 \in [DOMAIN g -> Nat] /\ last2 \in [DOMAIN g -> Nat]
  /\ first2[new] = first[h[nd].rhs] /\ last2[new] = a
  /\ \A i \in DOMAIN h : first2[i] = first[i]
  /\ \A i \in DOMAIN h : last2[i] = IF i \in Moved(h, ops, last, o, e) THEN a ELSE last[i]

\* Which operators go on: those above the place of the new one.
LEMMA MovedOnes ==
  ASSUME NEW t, NEW h, NEW ops, NEW first, NEW last, NEW nd, NEW o, NEW x, NEW e, NEW a,
         Splits(t, h, ops, first, last, nd, o, x, e, a),
         NEW X, X = Moved(h, ops, last, o, e)
  PROVE  /\ X \subseteq ops /\ h[nd].rhs \notin X /\ (nd \in ops <=> nd \in X)
         /\ \A i \in ops : h[i].lhs \notin X
         /\ \A i \in ops : i \notin X => h[i].rhs \notin X
         /\ \A i \in X : i # nd => h[i].rhs \in X
<1>1. /\ TreeOK(h, ops) /\ HeapStands(t, h, ops, first, last, a) /\ a \in Nat /\ e \in Nat /\ o \in Op
      /\ Cut(first, last, e)
  BY DEF Splits
<1>2. /\ X \subseteq ops
      /\ \A i \in X : last[i] = e /\ Binds(h, i) < Precedence(o)
      /\ \A i \in ops : last[i] = e /\ Binds(h, i) < Precedence(o) => i \in X
  BY DEF Moved
<1>3. Precedence(o) \in Nat /\ \A i \in ops : Binds(h, i) \in Nat
  BY <1>1, PrecedenceBound DEF TreeOK, Binds
<1>4. h[nd].rhs \in ops => Binds(h, h[nd].rhs) >= Precedence(o)
  BY <1>1 DEF Splits, TreeOK, Binds
<1>5. h[nd].rhs \notin X
  <2>1. SUFFICES ASSUME h[nd].rhs \in X PROVE FALSE
    OBVIOUS
  <2> DEFINE r == h[nd].rhs
  <2>2. r \in ops /\ Binds(h, r) < Precedence(o) /\ Binds(h, r) >= Precedence(o)
    BY <1>2, <1>4, <2>1
  <2>3. Binds(h, r) \in Nat
    BY <1>3, <2>2
  <2> HIDE DEF r
  <2> QED
    BY <1>3, <2>2, <2>3
<1>6. nd \in ops <=> nd \in X
  BY <1>2 DEF Splits
<1>7. ASSUME NEW i \in ops, h[i].lhs \in X PROVE FALSE
  <2> DEFINE l == h[i].lhs
             r == h[i].rhs
  <2>1. /\ i \in DOMAIN h /\ first[i] \in Nat /\ last[i] \in Nat /\ first[i] <= last[l]
        /\ first[r] = last[l] + 2 /\ first[r] <= last[i]
    <3>1. Ordered(h, first, last, i)
      BY <1>1, OperatorAt
    <3> QED
      BY <3>1 DEF Ordered
  <2>2. last[l] = e
    BY <1>2, <1>7
  <2>3. last[i] <= e \/ first[i] >= e + 2
    BY <1>1, <2>1 DEF Cut, HeapStands
  <2> HIDE DEF l, r
  <2> QED
    BY <1>1, <2>1, <2>2, <2>3
<1>8. ASSUME NEW i \in ops, i \notin X, h[i].rhs \in X PROVE FALSE
  <2> DEFINE r == h[i].rhs
  <2>1. last[r] = last[i]
    <3>1. Ordered(h, first, last, i)
      BY <1>1, OperatorAt
    <3> QED
      BY <3>1 DEF Ordered
  <2>2. r \in ops /\ last[r] = e /\ Binds(h, r) < Precedence(o)
    BY <1>2, <1>8
  <2>3. Binds(h, r) > Binds(h, i)
    BY <1>1, <2>2 DEF TreeOK, Binds
  <2>4. ~(Binds(h, i) < Precedence(o))
    BY <1>2, <1>8, <2>1, <2>2
  <2>5. Binds(h, r) \in Nat /\ Binds(h, i) \in Nat
    BY <1>3, <2>2
  <2> HIDE DEF r
  <2> QED
    BY <1>3, <2>2, <2>3, <2>4, <2>5
<1>9. ASSUME NEW i \in X, i # nd PROVE h[i].rhs \in X
  <2>1. nd \in ops /\ nd \in X
    BY <1>6, <1>9 DEF Splits
  <2>2. i \in ops /\ last[i] = last[nd] /\ last[i] = e
    BY <1>2, <2>1
  <2>3. Chained(h, ops, i, nd) \/ Chained(h, ops, nd, i)
    BY <1>1, <1>9, <2>1, <2>2 DEF HeapStands, Chain
  <2>4. ~Chained(h, ops, nd, i)
    <3>1. SUFFICES ASSUME Chained(h, ops, nd, i) PROVE FALSE
      OBVIOUS
    <3> DEFINE r == h[nd].rhs
    <3>2. r \in ops /\ Binds(h, r) <= Binds(h, i) /\ Binds(h, r) >= Precedence(o)
      BY <1>4, <3>1 DEF Chained
    <3>3. Binds(h, i) < Precedence(o)
      BY <1>2
    <3>4. Binds(h, r) \in Nat /\ Binds(h, i) \in Nat
      BY <1>3, <2>2, <3>2
    <3> HIDE DEF r
    <3> QED
      BY <1>3, <3>2, <3>3, <3>4
  <2> DEFINE r == h[i].rhs
  <2>5. r \in ops /\ Binds(h, r) <= Binds(h, nd)
    BY <2>3, <2>4 DEF Chained
  <2>6. last[r] = e
    <3>1. Ordered(h, first, last, i)
      BY <1>1, <2>2, OperatorAt
    <3> QED
      BY <2>2, <3>1 DEF Ordered
  <2>7. Binds(h, r) < Precedence(o)
    <3>1. Binds(h, nd) < Precedence(o) /\ Binds(h, nd) \in Nat /\ Binds(h, r) \in Nat
      BY <1>2, <1>3, <2>1, <2>5
    <3> HIDE DEF r
    <3> QED
      BY <1>3, <2>5, <3>1
  <2> QED
    BY <1>2, <2>5, <2>6, <2>7
<1> QED
  BY <1>2, <1>5, <1>6, <1>7, <1>8, <1>9

SameTokens(g, first, last, first2, last2, args) ==
  \A k \in DOMAIN args : /\ args[k] \in DOMAIN g /\ first2[args[k]] = first[args[k]]
                         /\ last2[args[k]] = last[args[k]]

\* Arguments whose tokens have not changed.
LEMMA ArgsSame ==
  ASSUME NEW t, NEW h, NEW g, NEW first, NEW last, NEW first2, NEW last2,
         NEW args \in Seq(Nat), NEW s, ArgsStand(t, h, first, last, args, s),
         SameTokens(g, first, last, first2, last2, args)
  PROVE  ArgsStand(t, g, first2, last2, args, s)
<1>1. \A k \in DOMAIN args : k > 1 => k - 1 \in DOMAIN args
  OBVIOUS
<1> QED
  BY <1>1 DEF ArgsStand, SameTokens

\* What ends before the end of what it is a part of stays where it is.
LEMMA PartsStay ==
  ASSUME NEW h, NEW first, NEW last, NEW ops, NEW o, NEW e \in Nat, Cut(first, last, e),
         first \in [DOMAIN h -> Nat], last \in [DOMAIN h -> Nat],
         NEW j \in DOMAIN h, NEW c \in DOMAIN h,
         first[j] <= first[c], first[c] <= last[c], last[c] < last[j]
  PROVE  c \notin Moved(h, ops, last, o, e)
<1>1. SUFFICES ASSUME last[c] = e PROVE FALSE
  BY DEF Moved
<1>2. last[j] <= e \/ first[j] >= e + 2
  BY DEF Cut
<1>3. first[j] \in Nat /\ first[c] \in Nat /\ last[j] \in Nat /\ last[c] \in Nat
  OBVIOUS
<1> QED
  BY <1>1, <1>2, <1>3

\* The nodes that were there stand for their tokens, and those that moved for more.
LEMMA SplicedOld ==
  ASSUME NEW t, NEW h, NEW ops, NEW first, NEW last, NEW nd, NEW o, NEW x, NEW e, NEW a,
         Splits(t, h, ops, first, last, nd, o, x, e, a),
         NEW g, NEW first2, NEW last2, NEW new,
         Spliced(h, g, ops, first, last, first2, last2, nd, new, o, x, e, a),
         NEW ops2, ops2 = ops \cup {new}, NEW j \in DOMAIN h, first[j] > 0
  PROVE  Stands(t, g, ops2, first2, last2, j)
<1> DEFINE X == Moved(h, ops, last, o, e)
<1>1. /\ h \in Seq(Node) /\ TreeOK(h, ops) /\ HeapStands(t, h, ops, first, last, a)
      /\ a \in Nat /\ e \in Nat /\ Cut(first, last, e)
      /\ first \in [DOMAIN h -> Nat] /\ last \in [DOMAIN h -> Nat]
  BY DEF Splits, HeapStands
<1>2. /\ X \subseteq ops /\ h[nd].rhs \notin X /\ (nd \in ops <=> nd \in X)
      /\ \A i \in ops : h[i].lhs \notin X
      /\ \A i \in ops : i \notin X => h[i].rhs \notin X
      /\ \A i \in X : i # nd => h[i].rhs \in X
  BY MovedOnes
<1>3. /\ \A i \in DOMAIN h : /\ first2[i] = first[i] /\ i \in DOMAIN g /\ (i \in ops2 <=> i \in ops)
                             /\ g[i].kind = h[i].kind /\ (i # nd => g[i] = h[i])
      /\ \A i \in DOMAIN h : i \in X => last2[i] = a
      /\ \A i \in DOMAIN h : i \notin X => last2[i] = last[i]
  BY DEF Spliced
<1>4. X \subseteq DOMAIN h /\ \A i \in X : h[i].kind = "bin" /\ last[i] = e
  BY <1>1, <1>2 DEF TreeOK, Moved
<1> HIDE DEF X
<1>5. first[j] <= last[j] /\ Stands(t, h, ops, first, last, j) /\ first[j] # 0
  BY <1>1 DEF HeapStands, Stands
<1>6. first2[j] <= last2[j]
  <2>1. CASE j \in X
    <3>1. last[j] = e /\ last2[j] = a /\ last[j] <= a
      BY <1>1, <1>3, <1>4, <2>1 DEF HeapStands
    <3>2. first[j] \in Nat /\ last[j] \in Nat
      BY <1>1
    <3> QED
      BY <1>1, <1>3, <1>5, <3>1, <3>2
  <2>2. CASE j \notin X
    BY <1>3, <1>5, <2>2
  <2> QED
    BY <2>1, <2>2
<1>7. nd \notin ops => h[nd].kind = "root"
  BY DEF Splits
<1>8. CASE h[j].kind = "leaf" /\ LeafStands(t, h[j].leaf, first[j], last[j])
  <2>1. j \notin X /\ j # nd
    <3>1. j \notin ops
      BY <1>1, <1>8 DEF TreeOK
    <3> QED
      BY <1>2, <1>7, <1>8, <3>1
  <2> QED
    BY <1>3, <1>6, <1>8, <2>1 DEF Stands
<1>9. CASE j \in ops /\ OperatorStands(t, h, first, last, j)
  <2> DEFINE l == h[j].lhs
             r == h[j].rhs
  <2>1. /\ l \in DOMAIN h /\ r \in DOMAIN h /\ first[l] = first[j]
        /\ Reads(t, last[l] + 1, h[j].op) /\ first[r] = last[l] + 2 /\ last[r] = last[j]
    BY <1>9 DEF OperatorStands
  <2>2. l \notin X /\ last2[l] = last[l] /\ first2[l] = first[l]
    BY <1>2, <1>3, <1>9, <2>1
  <2>3. g[j].lhs = l /\ g[j].op = h[j].op /\ (j # nd => g[j].rhs = r) /\ (j = nd => g[j].rhs = new)
    BY DEF Spliced
  <2>4. ASSUME j # nd
        PROVE  first2[r] = last[l] + 2 /\ last2[r] = last2[j]
    <3>1. r \in X <=> j \in X
      BY <1>2, <1>9, <2>4
    <3> QED
      BY <1>3, <2>1, <3>1
  <2>5. ASSUME j = nd
        PROVE  first2[new] = last[l] + 2 /\ last2[new] = last2[j] /\ new \in DOMAIN g
    <3>1. first2[new] = first[r] /\ last2[new] = a /\ new \in DOMAIN g
      BY <2>5 DEF Spliced
    <3>2. last2[j] = a
      BY <1>2, <1>3, <1>9, <2>5
    <3> QED
      BY <2>1, <3>1, <3>2
  <2> HIDE DEF l, r
  <2>6. OperatorStands(t, g, first2, last2, j)
    BY <1>3, <2>1, <2>2, <2>3, <2>4, <2>5 DEF OperatorStands
  <2> QED
    BY <1>3, <1>6, <1>9, <2>6 DEF Stands
<1>10. CASE h[j].kind = "bin" /\ j \notin ops /\ SignStands(t, h, first, last, j)
  <2> DEFINE l == h[j].lhs
             r == h[j].rhs
  <2>1. /\ h[j].op = "MUL" /\ l \in DOMAIN h /\ r \in DOMAIN h
        /\ first[r] = first[j] + 1 /\ last[r] = last[j] /\ h[r].kind # "bin"
        /\ \E sign \in {"ADD", "SUB"} : Reads(t, first[j], sign) /\ h[l] = One(sign)
    BY <1>10 DEF SignStands
  <2>2. j \notin X /\ j # nd /\ g[j] = h[j]
    BY <1>2, <1>3, <1>7, <1>10
  <2>3. h[l].kind = "leaf"
    BY <2>1 DEF One, LeafNode
  <2>4. l # nd /\ g[l] = h[l]
    <3>1. l \notin ops
      BY <1>1, <2>3 DEF TreeOK
    <3> QED
      BY <1>3, <1>7, <2>1, <2>3, <3>1
  <2>5. r \notin X
    BY <1>4, <2>1
  <2>6. first2[r] = first[r] /\ last2[r] = last[r] /\ g[r].kind = h[r].kind /\ last2[j] = last[j]
    BY <1>3, <2>1, <2>2, <2>5
  <2>7. g[j].lhs = l /\ g[j].rhs = r /\ g[j].op = "MUL"
    BY <2>1, <2>2
  <2> HIDE DEF l, r
  <2>8. SignStands(t, g, first2, last2, j)
    BY <1>3, <2>1, <2>4, <2>6, <2>7 DEF SignStands
  <2> QED
    BY <1>3, <1>6, <1>10, <2>8 DEF Stands
<1>11. CASE h[j].kind = "paren" /\ ParenStands(t, h, first, last, j)
  <2> DEFINE r == h[j].rhs
  <2>1. /\ r \in DOMAIN h /\ Reads(t, first[j], "LPAREN") /\ first[r] = first[j] + 1
        /\ Reads(t, last[j], "RPAREN") /\ last[j] = last[r] + 1
    BY <1>11 DEF ParenStands
  <2>2. j \notin X /\ j # nd /\ g[j] = h[j]
    <3>1. j \notin ops
      BY <1>1, <1>11 DEF TreeOK
    <3> QED
      BY <1>2, <1>3, <1>7, <1>11, <3>1
  <2>3. r \notin X
    <3>1. first[r] \in Nat /\ last[r] \in Nat /\ first[j] \in Nat /\ first[r] # 0
      BY <1>1, <2>1
    <3>2. first[r] <= last[r]
      BY <1>1, <2>1, <3>1 DEF HeapStands, Stands
    <3> HIDE DEF r
    <3>3. first[j] <= first[r] /\ last[r] < last[j]
      BY <2>1, <3>1
    <3> QED
      BY <1>1, <2>1, <3>2, <3>3, PartsStay DEF X
  <2>4. first2[r] = first[r] /\ last2[r] = last[r] /\ last2[j] = last[j] /\ g[j].rhs = r
    BY <1>3, <2>1, <2>2, <2>3
  <2> HIDE DEF r
  <2>5. ParenStands(t, g, first2, last2, j)
    BY <1>3, <2>1, <2>4 DEF ParenStands
  <2> QED
    BY <1>3, <1>6, <1>11, <2>5 DEF Stands
<1>12. CASE h[j].kind = "call" /\ CallStands(t, h, first, last, j)
  <2> DEFINE args == h[j].args
  <2>1. /\ Reads(t, first[j], "CALL") /\ t[first[j]].leaf = h[j].leaf
        /\ ArgsStand(t, h, first, last, args, first[j])
        /\ \A k \in DOMAIN args : last[args[k]] < last[j]
        /\ Reads(t, last[j], "RPAREN") /\ last[j] = EndOf(last, args, first[j]) + 1
    BY <1>12 DEF CallStands
  <2>2. j \notin X /\ j # nd /\ g[j] = h[j]
    <3>1. j \notin ops
      BY <1>1, <1>12 DEF TreeOK
    <3> QED
      BY <1>2, <1>3, <1>7, <1>12, <3>1
  <2>3. args \in Seq(Nat)
    <3>1. h[j] \in Node
      BY <1>1
    <3> QED
      BY <3>1 DEF Node
  <2> HIDE DEF args
  <2>4. ASSUME NEW k \in DOMAIN args PROVE args[k] \in DOMAIN h \ X
    <3> DEFINE r == args[k]
    <3>1. r \in DOMAIN h /\ first[r] > first[j] /\ last[r] < last[j]
      BY <2>1 DEF ArgsStand
    <3> HIDE DEF r
    <3>2. first[r] \in Nat /\ last[r] \in Nat /\ first[j] \in Nat
      BY <1>1, <3>1
    <3>3. first[r] # 0 /\ first[j] <= first[r]
      BY <3>1, <3>2
    <3>4. first[r] <= last[r]
      BY <1>1, <3>1, <3>3 DEF HeapStands, Stands
    <3>5. r \notin X
      BY <1>1, <3>1, <3>3, <3>4, PartsStay DEF X
    <3> QED
      BY <3>1, <3>5 DEF r
  <2>5. /\ ArgsStand(t, g, first2, last2, args, first[j])
        /\ \A k \in DOMAIN args : last2[args[k]] = last[args[k]]
        /\ EndOf(last2, args, first[j]) = EndOf(last, args, first[j])
    <3>1. SameTokens(g, first, last, first2, last2, args)
      BY <1>3, <2>4 DEF SameTokens
    <3>2. ArgsStand(t, h, first, last, args, first[j])
      BY <2>1
    <3>3. ArgsStand(t, g, first2, last2, args, first[j])
      BY <2>3, <3>1, <3>2, ArgsSame
    <3>4. EndOf(last2, args, first[j]) = EndOf(last, args, first[j])
      <4>1. args # <<>> => Len(args) \in DOMAIN args
        BY <2>3
      <4> QED
        BY <3>1, <4>1 DEF EndOf, SameTokens
    <3> QED
      BY <3>1, <3>3, <3>4 DEF SameTokens
  <2>6. g[j].args = args /\ g[j].leaf = h[j].leaf /\ last2[j] = last[j] /\ first2[j] = first[j]
    BY <1>3, <2>2 DEF args
  <2>7. CallStands(t, g, first2, last2, j)
    BY <2>1, <2>5, <2>6 DEF CallStands
  <2> QED
    BY <1>3, <1>6, <1>12, <2>7 DEF Stands
<1> QED
  BY <1>5, <1>8, <1>9, <1>10, <1>11, <1>12 DEF Stands

\* The new operator stands between what it took the place of and its operand.
LEMMA SplicedNew ==
  ASSUME NEW t, NEW h, NEW ops, NEW first, NEW last, NEW nd, NEW o, NEW x, NEW e, NEW a,
         Splits(t, h, ops, first, last, nd, o, x, e, a),
         NEW g, NEW first2, NEW last2, NEW new,
         Spliced(h, g, ops, first, last, first2, last2, nd, new, o, x, e, a),
         NEW ops2, ops2 = ops \cup {new}
  PROVE  Stands(t, g, ops2, first2, last2, new) /\ first2[new] > 0
<1> DEFINE r == h[nd].rhs
<1>1. /\ HeapStands(t, h, ops, first, last, a) /\ a \in Nat /\ e \in Nat /\ Reads(t, e + 1, o)
      /\ x \in DOMAIN h /\ x \notin ops /\ first[x] = e + 2 /\ last[x] = a
      /\ r \in DOMAIN h /\ last[r] = e /\ first[r] > 0
  BY DEF Splits
<1>2. r \notin Moved(h, ops, last, o, e) /\ x \notin Moved(h, ops, last, o, e)
  <2>1. r \notin Moved(h, ops, last, o, e)
    BY MovedOnes
  <2>2. Moved(h, ops, last, o, e) \subseteq ops
    BY DEF Moved
  <2> QED
    BY <1>1, <2>1, <2>2
<1>3. /\ g[new].op = o /\ g[new].lhs = r /\ g[new].rhs = x /\ g[new].kind = "bin"
      /\ first2[new] = first[r] /\ last2[new] = a
      /\ first2[r] = first[r] /\ last2[r] = e /\ first2[x] = e + 2 /\ last2[x] = a
      /\ r \in DOMAIN g /\ x \in DOMAIN g
  BY <1>1, <1>2 DEF Spliced
<1> HIDE DEF r
<1>4. OperatorStands(t, g, first2, last2, new)
  BY <1>1, <1>3 DEF OperatorStands
<1>5. first2[new] <= last2[new]
  <2>1. first[r] \in Nat /\ last[r] \in Nat /\ last[r] <= a /\ first[r] # 0
    BY <1>1 DEF HeapStands
  <2>2. first[r] <= last[r]
    BY <1>1, <2>1 DEF HeapStands, Stands
  <2> QED
    BY <1>1, <1>3, <2>1, <2>2
<1> QED
  BY <1>1, <1>3, <1>4, <1>5 DEF Stands

\* Who ends where afterwards: the new operator and those that moved at a, the
\* others before it and where they did.
LEMMA SplicedEnds ==
  ASSUME NEW t, NEW h, NEW ops, NEW first, NEW last, NEW nd, NEW o, NEW x, NEW e, NEW a,
         Splits(t, h, ops, first, last, nd, o, x, e, a),
         NEW g, NEW first2, NEW last2, NEW new,
         Spliced(h, g, ops, first, last, first2, last2, nd, new, o, x, e, a),
         NEW X, X = Moved(h, ops, last, o, e)
  PROVE  /\ new \notin ops /\ ops \subseteq DOMAIN h /\ X \subseteq ops
         /\ \A i \in X : last[i] = e /\ last2[i] = a /\ Binds(h, i) < Precedence(o)
         /\ \A i \in ops : i \notin X => last2[i] = last[i] /\ last2[i] # a
         /\ last2[new] = a
         /\ \A i \in ops : Binds(g, i) = Binds(h, i) /\ Binds(h, i) \in Nat
         /\ Binds(g, new) = Precedence(o) /\ Precedence(o) \in Nat
         /\ \A i \in ops : i # nd => g[i].rhs = h[i].rhs
         /\ g[nd].rhs = new
<1>1. ops \subseteq DOMAIN h /\ o \in Op /\ TreeOK(h, ops) /\ HeapStands(t, h, ops, first, last, a)
  BY DEF Splits, TreeOK
<1>2. /\ new \notin ops /\ last2[new] = a /\ g[nd].rhs = new /\ g[new].op = o
      /\ \A i \in ops : g[i].op = h[i].op /\ (i # nd => g[i] = h[i])
  BY <1>1 DEF Spliced
<1>3. X \subseteq ops /\ \A i \in X : last[i] = e /\ Binds(h, i) < Precedence(o)
  BY DEF Moved
<1>4. \A i \in DOMAIN h : last2[i] = IF i \in X THEN a ELSE last[i]
  BY DEF Spliced
<1>5. \A i \in ops : last[i] # a
  <2>1. ASSUME NEW i \in ops PROVE last[i] # a
    <3>1. last[i] \in Nat /\ a \in Nat /\ last[i] < a
      BY <1>1 DEF HeapStands, Splits
    <3> QED
      BY <3>1
  <2> QED
    BY <2>1
<1>6. Precedence(o) \in Nat /\ \A i \in ops : Binds(h, i) \in Nat
  BY <1>1, PrecedenceBound DEF TreeOK, Binds
<1>7. /\ \A i \in ops : Binds(g, i) = Binds(h, i)
      /\ Binds(g, new) = Precedence(o)
  BY <1>2 DEF Binds
<1> QED
  BY <1>1, <1>2, <1>3, <1>4, <1>5, <1>6, <1>7

\* Of two operators that end together, one is still at the right of the other.
LEMMA SplicedChain ==
  ASSUME NEW t, NEW h, NEW ops, NEW first, NEW last, NEW nd, NEW o, NEW x, NEW e, NEW a,
         Splits(t, h, ops, first, last, nd, o, x, e, a),
         NEW g, NEW first2, NEW last2, NEW new,
         Spliced(h, g, ops, first, last, first2, last2, nd, new, o, x, e, a),
         NEW ops2, ops2 = ops \cup {new}
  PROVE  Chain(g, ops2, last2)
<1> DEFINE X == Moved(h, ops, last, o, e)
           P == Precedence(o)
<1>1. /\ new \notin ops /\ ops \subseteq DOMAIN h /\ X \subseteq ops
      /\ \A i \in X : last[i] = e /\ last2[i] = a /\ Binds(h, i) < P
      /\ \A i \in ops : i \notin X => last2[i] = last[i] /\ last2[i] # a
      /\ last2[new] = a
      /\ \A i \in ops : Binds(g, i) = Binds(h, i) /\ Binds(h, i) \in Nat
      /\ Binds(g, new) = P /\ P \in Nat
      /\ \A i \in ops : i # nd => g[i].rhs = h[i].rhs
      /\ g[nd].rhs = new
  BY SplicedEnds
<1>2. /\ nd \in ops <=> nd \in X
      /\ \A i \in X : i # nd => h[i].rhs \in X
  BY MovedOnes
<1>3. Chain(h, ops, last)
  BY DEF Splits, HeapStands
<1> HIDE DEF X, P
<1>4. ASSUME NEW i \in ops, NEW j \in ops, i # nd, Chained(h, ops, i, j)
      PROVE  Chained(g, ops2, i, j)
  BY <1>1, <1>4 DEF Chained
<1>5. ASSUME NEW j \in X, Chained(h, ops, nd, j) PROVE FALSE
  <2> DEFINE r == h[nd].rhs
  <2>1. r \in ops /\ Binds(h, r) <= Binds(h, j)
    BY <1>5 DEF Chained
  <2>2. Binds(h, r) >= P
    BY <2>1 DEF Splits, TreeOK, Binds, P
  <2>3. Binds(h, j) < P /\ Binds(h, j) \in Nat /\ Binds(h, r) \in Nat
    BY <1>1, <2>1
  <2> HIDE DEF r
  <2> QED
    BY <1>1, <2>1, <2>2, <2>3
<1>6. ASSUME NEW i \in X PROVE Chained(g, ops2, i, new)
  <2>1. Binds(g, i) < Binds(g, new)
    BY <1>1
  <2>2. CASE i = nd
    <3>1. g[i].rhs = new /\ new \in ops2 /\ Binds(g, new) <= Binds(g, new)
      BY <1>1, <2>2
    <3> QED
      BY <2>1, <3>1 DEF Chained
  <2>3. CASE i # nd
    <3>1. g[i].rhs = h[i].rhs /\ h[i].rhs \in X
      BY <1>1, <1>2, <2>3
    <3>2. Binds(g, h[i].rhs) <= Binds(g, new) /\ h[i].rhs \in ops2
      BY <1>1, <3>1
    <3> QED
      BY <2>1, <3>1, <3>2 DEF Chained
  <2> QED
    BY <2>2, <2>3
<1>7. ASSUME NEW i \in ops2, NEW j \in ops2, last2[i] = last2[j], i # j
      PROVE  Chained(g, ops2, i, j) \/ Chained(g, ops2, j, i)
  <2>1. CASE i = new \/ j = new
    <3>1. \A k \in ops : last2[k] = a => k \in X
      BY <1>1
    <3>2. \/ i = new /\ j \in X
          \/ j = new /\ i \in X
      BY <1>1, <1>7, <2>1, <3>1
    <3> QED
      BY <1>6, <3>2
  <2>2. CASE i # new /\ j # new
    <3>1. i \in ops /\ j \in ops
      BY <2>2
    <3>2. last[i] = last[j] /\ (i \in X <=> j \in X)
      BY <1>1, <1>7, <3>1
    <3>3. Chained(h, ops, i, j) \/ Chained(h, ops, j, i)
      BY <1>3, <1>7, <3>1, <3>2 DEF Chain
    <3>4. CASE Chained(h, ops, i, j)
      <4>1. i # nd
        BY <1>2, <1>5, <3>1, <3>2, <3>4
      <4> QED
        BY <1>4, <3>1, <3>4, <4>1
    <3>5. CASE Chained(h, ops, j, i)
      <4>1. j # nd
        BY <1>2, <1>5, <3>1, <3>2, <3>5
      <4> QED
        BY <1>4, <3>1, <3>5, <4>1
    <3> QED
      BY <3>3, <3>4, <3>5
  <2> QED
    BY <2>1, <2>2
<1> QED
  BY <1>7 DEF Chain

LEMMA SplicedHeap ==
  ASSUME NEW t, NEW h, NEW ops, NEW first, NEW last, NEW nd, NEW o, NEW x, NEW e, NEW a,
         Splits(t, h, ops, first, last, nd, o, x, e, a),
         NEW g, NEW first2, NEW last2, NEW new,
         Spliced(h, g, ops, first, last, first2, last2, nd, new, o, x, e, a),
         NEW ops2, ops2 = ops \cup {new}
  PROVE  HeapStands(t, g, ops2, first2, last2, a)
<1>1. /\ HeapStands(t, h, ops, first, last, a) /\ a \in Nat /\ ops \subseteq DOMAIN h
  BY DEF Splits, TreeOK
<1>2. /\ DOMAIN g = DOMAIN h \cup {new}
      /\ first2 \in [DOMAIN g -> Nat] /\ last2 \in [DOMAIN g -> Nat]
      /\ \A i \in DOMAIN h : first2[i] = first[i] /\ (last2[i] = a \/ last2[i] = last[i])
      /\ last2[new] = a
  BY DEF Spliced
<1>3. ASSUME NEW i \in DOMAIN g
      PROVE  last2[i] <= a /\ (first2[i] = 0 \/ Stands(t, g, ops2, first2, last2, i))
  <2>1. CASE i = new
    BY <1>1, <1>2, <2>1, SplicedNew
  <2>2. CASE i \in DOMAIN h
    <3>1. last2[i] <= a
      BY <1>1, <1>2, <2>2 DEF HeapStands
    <3>2. first[i] \in Nat
      BY <1>1, <2>2 DEF HeapStands
    <3>3. first2[i] # 0 => first[i] > 0
      BY <1>2, <2>2, <3>2
    <3>4. first[i] > 0 => Stands(t, g, ops2, first2, last2, i)
      BY <2>2, SplicedOld
    <3> QED
      BY <3>1, <3>3, <3>4
  <2> QED
    BY <1>2, <2>1, <2>2
<1>4. ASSUME NEW i \in ops2 PROVE first2[i] > 0
  <2>1. CASE i = new
    BY <2>1, SplicedNew
  <2>2. CASE i \in ops
    BY <1>1, <1>2, <2>2 DEF HeapStands
  <2> QED
    BY <2>1, <2>2
<1>5. Chain(g, ops2, last2)
  BY SplicedChain
<1> QED
  BY <1>2, <1>3, <1>4, <1>5 DEF HeapStands

\* The open calls that began before stay as they are.
LEMMA SplicedFrame ==
  ASSUME NEW t, NEW h, NEW ops, NEW first, NEW last, NEW nd, NEW o, NEW x, NEW e, NEW a,
         Splits(t, h, ops, first, last, nd, o, x, e, a),
         NEW g, NEW first2, NEW last2, NEW new,
         Spliced(h, g, ops, first, last, first2, last2, nd, new, o, x, e, a),
         NEW ops2, ops2 = ops \cup {new},
         NEW f \in Frame, NEW m \in Marks, f.root \in DOMAIN h,
         FrameStands(t, h, ops, first, last, f, m), ArgsEnd(t, last, f, m), m.arg < e,
         f.op # "none" => m.end < e /\ f.root # nd /\ h[f.root].rhs \in DOMAIN h
  PROVE  FrameStands(t, g, ops2, first2, last2, f, m) /\ ArgsEnd(t, last2, f, m)
<1> DEFINE X == Moved(h, ops, last, o, e)
<1>1. /\ a \in Nat /\ e \in Nat /\ HeapStands(t, h, ops, first, last, a)
      /\ first \in [DOMAIN h -> Nat] /\ last \in [DOMAIN h -> Nat]
  BY DEF Splits, HeapStands
<1>2. /\ new \notin ops /\ ops \subseteq DOMAIN h /\ X \subseteq ops
      /\ \A i \in X : last[i] = e /\ last2[i] = a
      /\ \A i \in ops : i \notin X => last2[i] = last[i] /\ last2[i] # a
      /\ last2[new] = a
      /\ \A i \in ops : Binds(g, i) = Binds(h, i)
  BY SplicedEnds
<1>3. /\ \A i \in DOMAIN h : first2[i] = first[i] /\ i \in DOMAIN g
      /\ \A i \in DOMAIN h : i \notin X => last2[i] = last[i]
      /\ \A i \in DOMAIN h : i \in X => last2[i] = a
  BY DEF Spliced
<1>4. e <= a
  <2>1. h[nd].rhs \in DOMAIN h /\ last[h[nd].rhs] = e
    BY DEF Splits
  <2> QED
    BY <1>1, <2>1 DEF HeapStands
<1> HIDE DEF X
<1>5. m.start \in Nat /\ m.arg \in Nat /\ m.end \in Nat
  BY DEF Marks
<1>6. ASSUME NEW i \in DOMAIN h, last[i] < e PROVE i \in DOMAIN g /\ last2[i] = last[i] /\ first2[i] = first[i]
  <2>1. last[i] # e
    BY <1>1, <1>6
  <2> QED
    BY <1>2, <1>3, <2>1
<1>7. ASSUME f.kind = "call"
      PROVE  /\ ArgsStand(t, g, first2, last2, f.args, m.start)
             /\ \A j \in DOMAIN f.args : last2[f.args[j]] = last[f.args[j]]
  <2> DEFINE args == f.args
  <2>1. args \in Seq(Nat) /\ ArgsStand(t, h, first, last, args, m.start)
    BY <1>7 DEF FrameStands, Frame
  <2>2. ASSUME NEW j \in DOMAIN args PROVE args[j] \in DOMAIN h /\ last[args[j]] < e
    <3>1. args[j] \in DOMAIN h /\ last[args[j]] < m.arg
      BY <1>7, <2>1 DEF ArgsEnd, ArgsStand
    <3>2. last[args[j]] \in Nat
      BY <1>1, <3>1
    <3> HIDE DEF args
    <3> QED
      BY <1>1, <1>5, <3>1, <3>2
  <2> HIDE DEF args
  <2>3. SameTokens(g, first, last, first2, last2, args)
    BY <1>6, <2>2 DEF SameTokens
  <2>4. ArgsStand(t, g, first2, last2, args, m.start)
    BY <2>1, <2>3, ArgsSame
  <2> QED
    BY <2>3, <2>4 DEF SameTokens, args
<1>8. ArgsEnd(t, last2, f, m)
  <2>1. SUFFICES ASSUME f.kind = "call" PROVE ArgsEnd(t, last2, f, m)
    BY DEF ArgsEnd
  <2>2. f.args \in Seq(Nat) /\ \A j \in DOMAIN f.args : last2[f.args[j]] = last[f.args[j]]
    BY <1>7, <2>1 DEF Frame
  <2>3. f.args # <<>> => Len(f.args) \in DOMAIN f.args
    BY <2>2
  <2> QED
    BY <2>2, <2>3 DEF ArgsEnd
<1>9. ASSUME f.op # "none"
      PROVE  Waits(t, g, ops2, first2, last2, g[f.root].rhs, f.op, m)
  <2> DEFINE r == h[f.root].rhs
             z == m.end
  <2>1. /\ m.arg < z /\ Reads(t, z + 1, f.op) /\ first[r] = m.arg + 1 /\ last[r] = z
        /\ Heads(h, ops, last, r, z) /\ Cut(first, last, z) /\ z < e /\ r \in DOMAIN h
    BY <1>9 DEF FrameStands, Waits
  <2>2. g[f.root].rhs = r
    BY <1>9 DEF Spliced
  <2>3. z \in Nat
    BY <1>5
  <2> HIDE DEF r, z
  <2>4. first2[r] = first[r] /\ last2[r] = last[r]
    BY <1>6, <2>1
  <2>5. Heads(g, ops2, last2, r, z)
    <3>1. ASSUME NEW i \in ops2, last2[i] = z PROVE i \in ops /\ last[i] = z
      <4>1. z # a
        BY <1>1, <1>4, <2>1, <2>3
      <4>2. i \in ops /\ i \notin X
        BY <1>2, <3>1, <4>1
      <4> QED
        BY <1>2, <3>1, <4>2
    <3> QED
      BY <1>2, <2>1, <3>1 DEF Heads
  <2>6. Cut(first2, last2, z)
    <3>1. ASSUME NEW i \in DOMAIN h PROVE last2[i] <= z \/ first2[i] >= z + 2
      <4>1. last[i] <= z \/ first[i] >= z + 2
        BY <1>1, <2>1 DEF Cut
      <4>2. CASE last[i] <= z
        <5>1. last[i] < e
          BY <1>1, <2>1, <2>3, <4>2
        <5> QED
          BY <1>6, <4>2, <5>1
      <4>3. CASE first[i] >= z + 2
        BY <1>3, <4>3
      <4> QED
        BY <4>1, <4>2, <4>3
    <3>2. first2[new] >= z + 2
      <4> DEFINE q == h[nd].rhs
      <4>1. q \in DOMAIN h /\ last[q] = e /\ first2[new] = first[q]
        BY DEF Splits, Spliced
      <4> HIDE DEF q
      <4>2. last[q] <= z \/ first[q] >= z + 2
        BY <1>1, <2>1, <4>1 DEF Cut
      <4>3. ~(last[q] <= z)
        BY <1>1, <2>1, <2>3, <4>1
      <4> QED
        BY <4>1, <4>2, <4>3
    <3>3. DOMAIN first2 = DOMAIN h \cup {new}
      BY DEF Spliced
    <3> QED
      BY <3>1, <3>2, <3>3 DEF Cut
  <2>7. Waits(t, g, ops2, first2, last2, r, f.op, m)
    BY <2>1, <2>4, <2>5, <2>6 DEF Waits, z
  <2> QED
    BY <2>2, <2>7
<1>10. first2[f.root] = 0
  BY <1>3 DEF FrameStands
<1>11. FrameStands(t, g, ops2, first2, last2, f, m)
  BY <1>7, <1>9, <1>10 DEF FrameStands
<1> QED
  BY <1>8, <1>11

\* All calls but the innermost wait before what it has read.
LEMMA OuterBefore ==
  ASSUME NEW t, NEW h, NEW ops, NEW first, NEW last, NEW fs \in Seq(Frame), NEW marks,
         StackStands(t, h, ops, first, last, fs, marks),
         NEW k \in DOMAIN fs, k < Len(fs)
  PROVE  /\ marks[k].arg < marks[Len(fs)].arg
         /\ fs[k].op # "none" => marks[k].end < marks[Len(fs)].arg
<1> DEFINE n == Len(fs)
           d == Due(fs[k], marks[k])
           p == Pending(fs[k], marks[k])
           s == marks[n].start
           b == marks[n].arg
           ka == marks[k].arg
           ke == marks[k].end
<1>1. n \in DOMAIN fs /\ fs[n] \in Frame /\ fs[k] \in Frame /\ marks[n] \in Marks /\ marks[k] \in Marks
  BY DEF StackStands
<1>2. /\ d \in Nat /\ p \in Nat /\ d <= p /\ s \in Nat /\ b \in Nat /\ ka \in Nat /\ ke \in Nat
  BY <1>1, MarkTypes
<1>3. p < s /\ s <= b
  BY <1>1 DEF StackStands, FrameStands
<1>4. fs[k].op = "none" => d = ka
  BY DEF Due
<1>5. fs[k].op # "none" => d = ke + 1 /\ ka < ke
  BY <1>1 DEF StackStands, FrameStands, Waits, Due
<1> HIDE DEF d, p, s, b, ka, ke
<1>6. ka < b /\ (fs[k].op # "none" => ke < b)
  BY <1>2, <1>3, <1>4, <1>5
<1> QED
  BY <1>6 DEF ka, ke, b

\* The stack afterwards: the innermost call waits for nothing any more.
LEMMA SplicedStack ==
  ASSUME NEW t, NEW h, NEW ops, NEW first, NEW last, NEW nd, NEW o, NEW x, NEW e, NEW a,
         Splits(t, h, ops, first, last, nd, o, x, e, a),
         NEW g, NEW first2, NEW last2, NEW new,
         Spliced(h, g, ops, first, last, first2, last2, nd, new, o, x, e, a),
         NEW ops2, ops2 = ops \cup {new},
         NEW fs \in Seq(Frame), fs # <<>>, NEW marks,
         StackStands(t, h, ops, first, last, fs, marks),
         ArgsEnd(t, last, fs[Len(fs)], marks[Len(fs)]),
         \A k \in DOMAIN fs : FrameOK(fs[k], h, k),
         fs[Len(fs)].op = "none", marks[Len(fs)].arg < e,
         nd \in ops \/ nd = fs[Len(fs)].root
  PROVE  /\ StackStands(t, g, ops2, first2, last2, fs, marks)
         /\ ArgsEnd(t, last2, fs[Len(fs)], marks[Len(fs)])
<1> DEFINE n == Len(fs)
<1>1. /\ n \in DOMAIN fs /\ n \in Nat /\ DOMAIN fs = 1 .. n
      /\ marks \in [DOMAIN fs -> Marks] /\ e \in Nat /\ TreeOK(h, ops)
      /\ DOMAIN h = 1 .. Len(h) /\ Len(h) \in Nat
  BY DEF StackStands, Splits
<1>2. ASSUME NEW k \in DOMAIN fs
      PROVE  FrameStands(t, g, ops2, first2, last2, fs[k], marks[k]) /\ ArgsEnd(t, last2, fs[k], marks[k])
  <2>1. /\ fs[k] \in Frame /\ marks[k] \in Marks /\ fs[k].root \in DOMAIN h
        /\ h[fs[k].root].kind = "root"
        /\ fs[k].op # "none" => h[fs[k].root].rhs \in DOMAIN h
    BY <1>1 DEF FrameOK
  <2>2. FrameStands(t, h, ops, first, last, fs[k], marks[k])
    BY DEF StackStands
  <2>3. k = n \/ k < n
    BY <1>1
  <2>4. ArgsEnd(t, last, fs[k], marks[k])
    BY <2>3 DEF StackStands
  <2>5. ASSUME k < n
        PROVE  /\ marks[k].arg < e /\ (fs[k].op # "none" => marks[k].end < e)
               /\ fs[k].root # nd
    <3> DEFINE b == marks[n].arg
               ka == marks[k].arg
               ke == marks[k].end
    <3>1. /\ ka \in Nat /\ ke \in Nat /\ b \in Nat
      BY <1>1 DEF Marks
    <3>2. ka < b /\ (fs[k].op # "none" => ke < b)
      BY <2>5, OuterBefore
    <3>3. b < e
      OBVIOUS
    <3> HIDE DEF ka, ke, b
    <3>4. ka < e /\ (fs[k].op # "none" => ke < e)
      BY <1>1, <3>1, <3>2, <3>3
    <3>5. fs[k].root < fs[n].root
      BY <1>1, <2>5 DEF StackStands
    <3>6. fs[k].root \in Nat /\ fs[n].root \in Nat
      <4>1. fs[n] \in Frame
        BY <1>1
      <4> QED
        BY <2>1, <4>1 DEF Frame
    <3>7. fs[k].root # fs[n].root
      BY <3>5, <3>6
    <3>8. nd \in ops => fs[k].root # nd
      BY <1>1, <2>1 DEF TreeOK
    <3> QED
      BY <3>4, <3>7, <3>8 DEF ka, ke
  <2>6. /\ marks[k].arg < e
        /\ fs[k].op # "none" => marks[k].end < e /\ fs[k].root # nd /\ h[fs[k].root].rhs \in DOMAIN h
    BY <2>1, <2>3, <2>5
  <2>7. FrameStands(t, g, ops2, first2, last2, fs[k], marks[k])
    BY <2>1, <2>2, <2>4, <2>6, SplicedFrame
  <2>8. ArgsEnd(t, last2, fs[k], marks[k])
    BY <2>1, <2>2, <2>4, <2>6, <2>7, SplicedFrame
  <2> QED
    BY <2>7, <2>8
<1>3. StackStands(t, g, ops2, first2, last2, fs, marks)
  BY <1>1, <1>2 DEF StackStands
<1> QED
  BY <1>1, <1>2, <1>3

\* What is known when a new operator is put in its place.
LEMMA InsertSplits ==
  ASSUME Inv, NEW first, NEW last, NEW marks, Spans(first, last, marks), Insert,
         NEW e, e = marks[Len(frames)].end
  PROVE  Splits(text, nodes, operators, first, last, node, Top.op, operand, e, at)
<1> DEFINE m == marks[Len(frames)]
           r == nodes[node].rhs
           q == nodes[Top.root].rhs
           P == Precedence(Top.op)
<1>1. pc = "place" /\ Top.op # "none" /\ Stops(r, Top.op)
  BY DEF Insert
<1>2. node \in DOMAIN nodes /\ r \in DOMAIN nodes /\ operand \in DOMAIN nodes \ operators
  BY <1>1, PlaceHasRight DEF Inv, PlaceOK
<1>3. /\ TopStands(first, last, m) /\ m \in Marks /\ at \in Nat /\ Top \in Frame
      /\ HeapStands(text, nodes, operators, first, last, at)
      /\ TreeOK(nodes, operators) /\ nodes \in Seq(Node)
      /\ FrameStands(text, nodes, operators, first, last, Top, m)
  BY <1>1, Standing
<1>4. Waits(text, nodes, operators, first, last, q, Top.op, m)
  BY <1>1, <1>3 DEF FrameStands
<1>5. /\ m.arg \in Nat /\ e \in Nat /\ m.end = e /\ Top.op \in Op
  BY <1>1, <1>3 DEF Marks, Frame
<1>6. /\ Reads(text, e + 1, Top.op) /\ Cut(first, last, e) /\ Heads(nodes, operators, last, q, e)
      /\ first[q] = m.arg + 1 /\ last[q] = e
  BY <1>4, <1>5 DEF Waits
<1>7. /\ first[operand] = e + 2 /\ last[operand] = at
      /\ \A i \in operators : last[i] < at
      /\ node = Top.root \/ (node \in operators /\ last[node] = e)
  <2>1. first[operand] = Due(Top, m) + 1 /\ Due(Top, m) = e + 1
    BY <1>1, <1>3, <1>5 DEF TopStands, Due
  <2>2. first[operand] = e + 2
    BY <1>5, <2>1
  <2> QED
    BY <1>1, <1>3, <1>5, <2>2 DEF TopStands
<1>8. nodes[r].kind = "bin" => Precedence(nodes[r].op) >= P
  BY <1>1 DEF Stops
<1>9. P \in Nat /\ \A i \in operators : Binds(nodes, i) \in Nat /\ nodes[i].kind = "bin"
  BY <1>3, <1>5, PrecedenceBound DEF TreeOK, Binds
<1>10. CASE node \in operators
  <2>1. node # Top.root
    BY <1>9, <1>10, TopFrame DEF FrameOK
  <2>2. last[node] = e /\ Binds(nodes, node) < P
    BY <1>1, <1>7, <2>1 DEF Inv, PlaceOK, Binds
  <2>3. Ordered(nodes, first, last, node)
    BY <1>3, <1>10, OperatorAt
  <2>4. last[r] = e /\ first[r] = last[nodes[node].lhs] + 2 /\ last[nodes[node].lhs] \in Nat
    BY <2>2, <2>3 DEF Ordered
  <2>5. first[r] > 0
    BY <2>4
  <2> HIDE DEF r, P
  <2> QED
    BY <1>2, <1>3, <1>5, <1>6, <1>7, <1>8, <1>10, <2>2, <2>4, <2>5 DEF Splits, r, P
<1>11. CASE node \notin operators
  <2>1. node = Top.root /\ nodes[node].kind = "root" /\ r = q
    BY <1>7, <1>11, TopFrame DEF FrameOK
  <2>2. Moved(nodes, operators, last, Top.op, e) = {}
    <3>1. SUFFICES ASSUME NEW i \in Moved(nodes, operators, last, Top.op, e) PROVE FALSE
      OBVIOUS
    <3>2. i \in operators /\ last[i] = e /\ Binds(nodes, i) < P
      BY DEF Moved
    <3>3. q \in operators /\ Binds(nodes, q) <= Binds(nodes, i)
      BY <1>6, <3>2 DEF Heads
    <3>4. Binds(nodes, q) >= P
      BY <1>8, <1>9, <2>1, <3>3 DEF Binds
    <3>5. Binds(nodes, q) \in Nat /\ Binds(nodes, i) \in Nat
      BY <1>9, <3>2, <3>3
    <3> HIDE DEF q, P
    <3> QED
      BY <1>9, <3>2, <3>3, <3>4, <3>5
  <2>3. last[r] = e /\ first[r] > 0
    BY <1>5, <1>6, <2>1
  <2> HIDE DEF r, P, q
  <2> QED
    BY <1>2, <1>3, <1>5, <1>6, <1>7, <1>8, <1>11, <2>1, <2>2, <2>3 DEF Splits, r, P
<1> QED
  BY <1>10, <1>11

LEMMA InsertSpanned ==
  ASSUME Inv, NEW first, NEW last, NEW marks, Spans(first, last, marks), Insert
  PROVE  Spanned'
<1> DEFINE f == [Top EXCEPT !.op = "none", !.sign = "none"]
           K == Len(frames)
           mk == marks[K]
           right == nodes[node].rhs
           k == Len(nodes) + 1
           n == [nodes[node] EXCEPT !.rhs = k]
           b == Bin(Top.op, right, operand)
           q == nodes[Top.root].rhs
<1>1. /\ pc = "place" /\ pc' = "operator" /\ Top.op # "none"
      /\ nodes' = Append([nodes EXCEPT ![node].rhs = k], b)
      /\ operators' = operators \cup {k}
      /\ frames' = SetTop(f) /\ at' = at /\ text' = text
  BY DEF Insert, reading
<1>2. node \in DOMAIN nodes /\ right \in DOMAIN nodes /\ operand \in DOMAIN nodes \ operators
  BY <1>1, PlaceHasRight DEF Inv, PlaceOK
<1>3. /\ TopStands(first, last, mk) /\ mk \in Marks /\ at \in Nat /\ Top \in Frame
      /\ HeapStands(text, nodes, operators, first, last, at)
      /\ StackStands(text, nodes, operators, first, last, frames, marks)
      /\ FrameStands(text, nodes, operators, first, last, Top, mk)
      /\ frames \in Seq(Frame) /\ frames # <<>> /\ K \in DOMAIN frames /\ Top = frames[K]
      /\ \A j \in DOMAIN frames : FrameOK(frames[j], nodes, j)
  BY <1>1, Standing
<1>4. PICK e, m, new : e = mk.end /\ m = mk /\ new = k
  OBVIOUS
<1>5. Splits(text, nodes, operators, first, last, node, Top.op, operand, e, at)
  BY <1>4, InsertSplits
<1>6. Waits(text, nodes, operators, first, last, q, Top.op, m) /\ m.end = e
  BY <1>1, <1>3, <1>4 DEF FrameStands
<1>7. /\ DOMAIN nodes' = DOMAIN nodes \cup {new} /\ new \notin DOMAIN nodes
      /\ nodes'[new] = b /\ nodes'[node] = n
      /\ \A i \in DOMAIN nodes : i # node => nodes'[i] = nodes[i]
  <2>1. n \in Node /\ b \in Node
    <3>1. nodes[node] \in Node /\ k \in Nat /\ right \in Nat /\ operand \in Nat
      BY <1>2, TopFrame
    <3>2. Top.op \in Op
      BY <1>1, <1>3 DEF Frame
    <3>3. n \in Node
      BY <3>1 DEF Node
    <3> QED
      BY <3>1, <3>2, <3>3, NodeTypes
  <2>2. nodes' = Append([nodes EXCEPT ![node] = n], b)
    BY <1>1
  <2> HIDE DEF n, b
  <2> QED
    BY <1>2, <1>4, <2>1, <2>2, TopFrame
<1>8. /\ n.kind = nodes[node].kind /\ n.op = nodes[node].op /\ n.lhs = nodes[node].lhs /\ n.rhs = new
      /\ b.kind = "bin" /\ b.op = Top.op /\ b.lhs = right /\ b.rhs = operand
  <2>1. nodes[node] \in Node
    BY <1>2, TopFrame
  <2> QED
    BY <1>4, <2>1 DEF Node, Bin
<1> HIDE DEF n, b, k
<1>9. PICK X : X = Moved(nodes, operators, last, Top.op, e)
  OBVIOUS
<1>10. PICK first2, last2 :
         /\ first2 = [i \in DOMAIN nodes \cup {new} |-> IF i = new THEN first[right] ELSE first[i]]
         /\ last2 = [i \in DOMAIN nodes \cup {new} |-> IF i = new \/ i \in X THEN at ELSE last[i]]
  OBVIOUS
<1>11. Spliced(nodes, nodes', operators, first, last, first2, last2, node, new, Top.op, operand, e, at)
  <2>1. first \in [DOMAIN nodes -> Nat] /\ last \in [DOMAIN nodes -> Nat]
    BY <1>3 DEF HeapStands
  <2>2. /\ first2 \in [DOMAIN nodes' -> Nat] /\ last2 \in [DOMAIN nodes' -> Nat]
        /\ first2[new] = first[right] /\ last2[new] = at
        /\ \A i \in DOMAIN nodes : first2[i] = first[i]
        /\ \A i \in DOMAIN nodes : last2[i] = IF i \in X THEN at ELSE last[i]
    BY <1>2, <1>3, <1>7, <1>10, <2>1
  <2> QED
    BY <1>7, <1>8, <1>9, <2>2 DEF Spliced
<1>12. operators' = operators \cup {new}
  BY <1>1, <1>4 DEF k
<1>13. HeapStands(text, nodes', operators', first2, last2, at)
  BY <1>5, <1>11, <1>12, SplicedHeap
<1>14. /\ f \in Frame /\ f.root = Top.root /\ f.kind = Top.kind /\ f.op = "none"
       /\ f.sign = "none" /\ f.name = Top.name /\ f.args = Top.args
  BY <1>3 DEF Frame
<1> HIDE DEF f
<1>15. FrameStands(text, nodes, operators, first, last, f, m) /\ ArgsEnd(text, last, f, m)
  <2>1. ArgsEnd(text, last, Top, m)
    BY <1>1, <1>3, <1>4 DEF TopStands
  <2> QED
    BY <1>3, <1>4, <1>14, <2>1 DEF FrameStands, ArgsEnd
<1>16. PICK gs, ms : gs = [frames EXCEPT ![K] = f] /\ ms = [marks EXCEPT ![K] = m]
  OBVIOUS
<1>17. /\ gs \in Seq(Frame) /\ gs # <<>> /\ Len(gs) = K /\ gs[K] = f /\ ms[K] = m
       /\ \A j \in DOMAIN gs : FrameOK(gs[j], nodes, j)
  <2>1. marks \in [DOMAIN frames -> Marks]
    BY <1>3 DEF StackStands
  <2>2. /\ gs \in Seq(Frame) /\ gs # <<>> /\ Len(gs) = K /\ gs[K] = f /\ ms[K] = m
        /\ DOMAIN gs = DOMAIN frames /\ \A j \in DOMAIN frames : j # K => gs[j] = frames[j]
    BY <1>3, <1>14, <1>16, <2>1
  <2>3. FrameOK(f, nodes, K)
    <3>1. FrameOK(Top, nodes, K)
      BY <1>3
    <3> QED
      BY <1>14, <3>1 DEF FrameOK
  <2> QED
    BY <1>3, <2>2, <2>3
<1>18. StackStands(text, nodes, operators, first, last, gs, ms)
  <2>1. /\ \A j \in DOMAIN frames : frames[j].root \in Nat
        /\ f.root \in Nat /\ f.root >= frames[K].root /\ frames[K].root \in Nat
        /\ m.start = marks[K].start /\ m \in Marks
    <3>1. \A j \in DOMAIN frames : frames[j].root \in Nat
      <4>1. \A j \in DOMAIN frames : frames[j] \in Frame
        BY <1>3
      <4> QED
        BY <4>1 DEF Frame
    <3> QED
      BY <1>3, <1>4, <1>14, <3>1
  <2>2. StackStands(text, nodes, operators, first, last, [frames EXCEPT ![K] = f], ms)
    BY <1>3, <1>14, <1>15, <1>16, <2>1, StackSet
  <2> QED
    BY <1>16, <2>2
<1>19. m.arg < e
  BY <1>6 DEF Waits
<1>20. /\ StackStands(text, nodes', operators', first2, last2, gs, ms)
       /\ ArgsEnd(text, last2, f, m)
  <2>1. node \in operators \/ node = gs[Len(gs)].root
    BY <1>1, <1>14, <1>17 DEF Inv, PlaceOK
  <2>2. /\ ArgsEnd(text, last, gs[Len(gs)], ms[Len(gs)]) /\ gs[Len(gs)].op = "none"
        /\ ms[Len(gs)].arg < e
    BY <1>14, <1>15, <1>17, <1>19
  <2>3. /\ StackStands(text, nodes', operators', first2, last2, gs, ms)
        /\ ArgsEnd(text, last2, gs[Len(gs)], ms[Len(gs)])
    BY <1>5, <1>11, <1>12, <1>17, <1>18, <2>1, <2>2, SplicedStack
  <2> QED
    BY <1>17, <2>3
<1>21. frames' = gs /\ Top' = f /\ ms[Len(frames')] = m
  BY <1>1, <1>16, <1>17 DEF SetTop, Top, Last
<1>22. LET r == nodes'[f.root].rhs
       IN /\ first2[r] = m.arg + 1 /\ last2[r] = at
          /\ Heads(nodes', operators', last2, r, at)
  <2>1. /\ new \notin operators /\ operators \subseteq DOMAIN nodes /\ X \subseteq operators
        /\ \A i \in X : last[i] = e /\ last2[i] = at /\ Binds(nodes, i) < Precedence(Top.op)
        /\ \A i \in operators : i \notin X => last2[i] = last[i] /\ last2[i] # at
        /\ last2[new] = at
        /\ \A i \in operators : Binds(nodes', i) = Binds(nodes, i) /\ Binds(nodes, i) \in Nat
        /\ Binds(nodes', new) = Precedence(Top.op) /\ Precedence(Top.op) \in Nat
        /\ nodes'[node].rhs = new
    BY <1>5, <1>9, <1>11, SplicedEnds
  <2>2. /\ first[q] = m.arg + 1 /\ last[q] = e
        /\ Heads(nodes, operators, last, q, e)
    BY <1>6 DEF Waits
  <2>3. \A i \in operators' : last2[i] = at => i = new \/ i \in X
    BY <1>12, <2>1
  <2>4. CASE node \notin operators
    <3>1. node = Top.root /\ X = {}
      BY <1>1, <1>5, <1>9, <2>4 DEF Splits, Inv, PlaceOK
    <3>2. nodes'[f.root].rhs = new /\ first2[new] = m.arg + 1
      BY <1>11, <1>14, <2>1, <2>2, <3>1 DEF Spliced
    <3>3. Heads(nodes', operators', last2, new, at)
      <4>1. \A i \in operators' : last2[i] = at => i = new
        BY <2>3, <3>1
      <4> QED
        BY <1>12, <2>1, <4>1 DEF Heads
    <3> QED
      BY <2>1, <3>2, <3>3
  <2>5. CASE node \in operators
    <3>1. node \in X
      BY <1>5, <1>9, <2>5, MovedOnes
    <3>2. q \in operators /\ \A i \in X : Binds(nodes, q) <= Binds(nodes, i)
      BY <2>1, <2>2, <3>1 DEF Heads
    <3>3. q \in X
      <4>1. Binds(nodes, q) <= Binds(nodes, node) /\ Binds(nodes, node) < Precedence(Top.op)
        BY <2>1, <3>1, <3>2
      <4>2. Binds(nodes, q) < Precedence(Top.op)
        BY <2>1, <2>5, <3>2, <4>1
      <4> QED
        BY <1>9, <2>2, <3>2, <4>2 DEF Moved
    <3>4. nodes'[f.root].rhs = q
      <4>1. nodes[node].kind = "bin"
        BY <2>5 DEF Inv, TreeOK
      <4>2. Top.root \in DOMAIN nodes /\ Top.root # node
        BY <4>1, TopFrame DEF FrameOK
      <4> QED
        BY <1>7, <1>14, <4>2
    <3>5. first2[q] = m.arg + 1 /\ last2[q] = at
      BY <1>11, <2>1, <2>2, <3>2, <3>3 DEF Spliced
    <3>6. Heads(nodes', operators', last2, q, at)
      <4>1. ASSUME NEW i \in operators', last2[i] = at
            PROVE  q \in operators' /\ Binds(nodes', q) <= Binds(nodes', i)
        <5>1. i = new \/ i \in X
          BY <2>3, <4>1
        <5>2. q \in operators' /\ Binds(nodes', q) = Binds(nodes, q)
          BY <1>12, <2>1, <3>2
        <5>3. CASE i = new
          BY <2>1, <3>2, <3>3, <5>2, <5>3
        <5>4. CASE i \in X
          BY <2>1, <3>2, <5>2, <5>4
        <5> QED
          BY <5>1, <5>3, <5>4
      <4> QED
        BY <4>1 DEF Heads
    <3> HIDE DEF q
    <3> QED
      BY <3>4, <3>5, <3>6
  <2> QED
    BY <2>4, <2>5
<1>23. TopStands(first2, last2, ms[Len(frames)])'
  BY <1>1, <1>14, <1>20, <1>21, <1>22 DEF TopStands
<1> QED
  BY <1>1, <1>13, <1>20, <1>21, <1>23, SpannedAgain

----------------------------------------------------------------------------
(* Every state of ParseExpr.                                               *)

LEMMA InitSpanned ==
  ASSUME Init
  PROVE  Spanned /\ ReadsTheText
<1> DEFINE zero == [i \in {1} |-> 0]
           m == [start |-> 0, arg |-> 0, end |-> 0]
           marks == [i \in {1} |-> m]
<1>1. /\ text = <<>> /\ at = 0 /\ nodes = <<Root>> /\ operators = {} /\ pc = "unary"
      /\ frames = <<Opened("top", 1, Nil)>>
  BY DEF Init
<1>2. /\ DOMAIN nodes = {1} /\ DOMAIN frames = {1} /\ Len(frames) = 1
      /\ Top = Opened("top", 1, Nil) /\ frames[1] = Top
  BY <1>1 DEF Top, Last
<1>3. /\ Top.kind = "top" /\ Top.root = 1 /\ Top.op = "none" /\ Top.sign = "none" /\ Top.args = <<>>
  BY <1>2 DEF Opened
<1>4. m \in Marks /\ m.start = 0 /\ m.arg = 0 /\ marks[1] = m /\ DOMAIN marks = {1}
  BY DEF Marks
<1>5. zero \in [DOMAIN nodes -> Nat] /\ zero[1] = 0
  BY <1>2
<1>6. marks \in [DOMAIN frames -> Marks]
  BY <1>2, <1>4
<1> HIDE DEF zero, m, marks
<1>7. HeapStands(text, nodes, operators, zero, zero, at)
  BY <1>1, <1>2, <1>5 DEF HeapStands, Chain
<1>8. FrameStands(text, nodes, operators, zero, zero, Top, m)
  BY <1>3, <1>4, <1>5 DEF FrameStands
<1>9. StackStands(text, nodes, operators, zero, zero, frames, marks)
  BY <1>2, <1>4, <1>6, <1>8 DEF StackStands
<1>10. TopStands(zero, zero, marks[Len(frames)])
  <2>1. ArgsEnd(text, zero, Top, m)
    BY <1>3 DEF ArgsEnd
  <2>2. Pending(Top, m) = 0
    BY <1>3, <1>4 DEF Pending, Due
  <2> QED
    BY <1>1, <1>2, <1>4, <2>1, <2>2 DEF TopStands
<1>11. Spans(zero, zero, marks)
  BY <1>7, <1>9, <1>10 DEF Spans
<1> QED
  BY <1>1, <1>11 DEF Spanned, ReadsTheText

LEMMA SpannedSame ==
  ASSUME Spanned, ReadsTheText, UNCHANGED vars
  PROVE  Spanned' /\ ReadsTheText'
<1>1. /\ text' = text /\ at' = at /\ nodes' = nodes /\ operators' = operators /\ frames' = frames
      /\ operand' = operand /\ node' = node /\ pc' = pc
  BY DEF vars
<1>2. Top' = Top
  BY <1>1 DEF Top
<1>3. PICK first, last, marks : Spans(first, last, marks)
  BY DEF Spanned
<1>4. pc \notin {"error", "done"} => TopStands(first, last, marks[Len(frames)])'
  BY <1>1, <1>2, <1>3 DEF Spans, TopStands
<1>5. Spanned'
  <2>1. HeapStands(text', nodes', operators', first, last, at')
    BY <1>1, <1>3 DEF Spans
  <2>2. pc' # "error" => StackStands(text', nodes', operators', first, last, frames', marks)
    BY <1>1, <1>3 DEF Spans
  <2> QED
    BY <1>1, <1>4, <2>1, <2>2, SpannedAgain
<1>6. ReadsTheText'
  BY <1>1 DEF ReadsTheText
<1> QED
  BY <1>5, <1>6

\* Everything but End leaves the text unread or refuses it.
LEMMA SpannedNext ==
  ASSUME Inv, Spanned, ReadsTheText, [Next]_vars
  PROVE  Spanned' /\ ReadsTheText'
<1>1. PICK first, last, marks : Spans(first, last, marks)
  BY DEF Spanned
<1>2. CASE UNCHANGED vars
  BY <1>2, SpannedSame
<1>3. CASE End
  BY <1>1, <1>3, EndSpanned
<1>4. CASE Next /\ ~End
  <2>1. pc' # "done"
    <3>1. CASE Scan
      BY <3>1 DEF Scan
    <3>2. CASE Unary
      <4>1. CASE ReadSign \/ BadLeaf \/ BadOperand \/ ReadDuration \/ ExprArgument
        BY <4>1 DEF ReadSign, BadLeaf, BadOperand, ReadDuration, ExprArgument, AtOperand, Fail
      <4>2. CASE ReadLeaf \/ ReadWildcard \/ ReadRegex
        BY <4>2 DEF ReadLeaf, ReadWildcard, ReadRegex, Placing
      <4>3. CASE ParsePart
        BY <4>3 DEF ParsePart, Fail
      <4>4. CASE EndDuration
        BY <4>4 DEF EndDuration, Placing, Fail
      <4>5. CASE OpenParen \/ OpenCall \/ RegexArgument
        BY <4>5 DEF OpenParen, OpenCall, RegexArgument
      <4> QED
        BY <3>2, <4>1, <4>2, <4>3, <4>4, <4>5 DEF Unary
    <3>3. CASE Loop
      BY <1>4, <3>3 DEF Loop, PlaceFirst, Descend, Insert, ReadOperator, CloseParen, CloseCall,
                        Comma, BadEnd, Close, Fail
    <3> QED
      BY <1>4, <3>1, <3>2, <3>3 DEF Next
  <2>2. ReadsTheText'
    BY <2>1 DEF ReadsTheText
  <2>3. Spanned'
    <3>1. CASE Scan
      BY <1>1, <3>1, ScanSpanned
    <3>2. CASE BadLeaf \/ BadOperand \/ BadEnd
      <4>1. pc \notin {"error", "done"} /\ Fail
        BY <3>2 DEF BadLeaf, BadOperand, BadEnd, AtOperand
      <4> QED
        BY <1>1, <4>1, FailSpanned
    <3>3. CASE ReadSign
      BY <1>1, <3>3, ReadSignSpanned
    <3>4. CASE ReadLeaf \/ ReadWildcard \/ ReadRegex \/ EndDuration
      BY <1>1, <3>4, ReadLeafSpanned
    <3>5. CASE ReadDuration
      BY <1>1, <3>5, ReadDurationSpanned
    <3>6. CASE ParsePart
      BY <1>1, <3>6, ParsePartSpanned
    <3>7. CASE OpenParen \/ OpenCall
      BY <1>1, <3>7, OpenSpanned
    <3>8. CASE RegexArgument
      BY <1>1, <3>8, RegexArgumentSpanned
    <3>9. CASE ExprArgument
      BY <1>1, <3>9, ExprArgumentSpanned
    <3>10. CASE PlaceFirst
      BY <1>1, <3>10, PlaceFirstSpanned
    <3>11. CASE Descend
      BY <1>1, <3>11, DescendSpanned
    <3>12. CASE Insert
      BY <1>1, <3>12, InsertSpanned
    <3>13. CASE ReadOperator
      BY <1>1, <3>13, ReadOperatorSpanned
    <3>14. CASE CloseParen
      BY <1>1, <3>14, CloseParenSpanned
    <3>15. CASE CloseCall
      BY <1>1, <3>15, CloseCallSpanned
    <3>16. CASE Comma
      BY <1>1, <3>16, CommaSpanned
    <3> QED
      BY <1>4, <3>1, <3>2, <3>3, <3>4, <3>5, <3>6, <3>7, <3>8, <3>9, <3>10, <3>11, <3>12, <3>13,
         <3>14, <3>15, <3>16 DEF Next, Unary, Loop
  <2> QED
    BY <2>2, <2>3
<1> QED
  BY <1>2, <1>3, <1>4

----------------------------------------------------------------------------
(* The theorems.                                                           *)

LEMMA InvNext == Inv /\ [Next]_vars => Inv'
<1> SUFFICES ASSUME Inv, [Next]_vars PROVE Inv'
  OBVIOUS
<1>1. CASE Unary
  BY <1>1, StepSign, StepLeaf, StepFail, StepReadDuration, StepParsePart, StepEndDuration,
     StepOpens, StepRegexArgument, StepEnds DEF Unary, BadLeaf, BadOperand
<1>2. CASE Loop
  BY <1>2, StepPlaceFirst, StepDescend, StepInsert, StepReadOperator, StepEnds, StepCloses,
     StepComma, StepFail DEF Loop, BadEnd
<1>3. CASE UNCHANGED vars
  <2>1. UNCHANGED <<alphabet, text, at, nodes, operators, frames, operand, node, dur, exact, pc>>
    BY <1>3 DEF vars
  <2> QED
    BY <2>1, StepQuiet DEF tree, timing, Inv, TypeOK
<1> QED
  BY <1>1, <1>2, <1>3, StepScan DEF Next

LEMMA InvAlways == Spec => []Inv
<1>1. Init => Inv
  BY InitInv
<1>2. Inv /\ [Next]_vars => Inv'
  BY InvNext
<1> QED
  BY <1>1, <1>2, PTL DEF Spec

\* Every text of every alphabet keeps the variables of ParseExpr in their
\* types: the descent never leaves the tree, and no sign, argument or
\* parenthesis is lost from the stack.
THEOREM TypeCorrect == Spec => []TypeOK
<1>1. Inv => TypeOK
  BY DEF Inv
<1> QED
  BY <1>1, InvAlways, PTL

\* ParseExpr binds by precedence and to the left, whatever it reads.
THEOREM OperatorsBound == Spec => []BoundByPrecedence
<1>1. Inv => BoundByPrecedence
  BY DEF Inv, TreeOK, BoundByPrecedence
<1> QED
  BY <1>1, InvAlways, PTL

\* ParseDuration refuses what does not fit a word, for every size of the
\* word and every scale, as long as the exact value stays below 2^64.
THEOREM DurationsChecked == Spec => []DurationOverflow
<1>1. Inv => DurationOverflow
  <2> SUFFICES ASSUME Inv, pc = "duration", exact <= MaxUint
               PROVE  /\ Overflowed(dur.d) <=> exact > MaxInt
                      /\ ~Overflowed(dur.d) => dur.d = exact
    BY DEF DurationOverflow
  <2>1. exact \in Nat /\ dur.d \in Int64
    BY DEF Inv, TypeOK
  <2> DEFINE d == dur.d
  <2>2. Congruent(exact, d) /\ d \in Int /\ MinInt <= d /\ d <= MaxInt
    BY <2>1, WordTypes DEF Inv, DurationOK, Int64
  <2> HIDE DEF d
  <2>3. CASE exact <= MaxInt
    <3>1. exact = d
      BY <2>1, <2>2, <2>3, CongruentNear, WordTypes
    <3>2. dur.d = exact /\ ~(dur.d < 0) /\ ~(exact > MaxInt)
      BY <2>1, <2>3, <3>1, WordTypes DEF d
    <3> QED
      BY <3>2 DEF Overflowed
  <2>4. CASE exact > MaxInt
    <3>1. Congruent(exact - Words, exact)
      <4>1. exact - Words = exact + (-1) * Words /\ -1 \in Int
        BY <2>1, WordTypes
      <4> QED
        BY <4>1 DEF Congruent
    <3>2. Congruent(exact - Words, d) /\ exact - Words \in Int
      BY <2>1, <2>2, <3>1, CongruentTransitive, WordTypes
    <3>3. exact - Words <= -1 /\ exact - Words >= MinInt
      BY <2>1, <2>4, WordTypes DEF MaxUint
    <3>4. exact - Words = d
      BY <2>2, <3>2, <3>3, CongruentNear, WordTypes
    <3> QED
      BY <2>1, <2>2, <2>4, <3>3, <3>4, WordTypes DEF Overflowed, d
  <2> QED
    BY <2>1, <2>3, <2>4, WordTypes
<1> QED
  BY <1>1, InvAlways, PTL

\* The tree that ParseExpr returns is the text it consumed, read from left to
\* right: although the loop splits operators it placed long before, every
\* operator has its tokens between those of its operands, every parenthesis
\* and call ends at its own closing token, every comma stands between two
\* arguments, and no token is lost, used twice or moved.
THEOREM ReturnedTreeReadsTheText == Spec => []ReadsTheText
<1>1. Init => Spanned /\ ReadsTheText
  BY InitSpanned
<1>2. Inv /\ (Spanned /\ ReadsTheText) /\ [Next]_vars => (Spanned /\ ReadsTheText)'
  BY SpannedNext
<1> QED
  BY <1>1, <1>2, InvAlways, PTL DEF Spec
=============================================================================
