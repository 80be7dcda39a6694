----------------------------- MODULE ExprParser -----------------------------
(***************************************************************************)
(* ParseExpr of parser.go.  Nodes live in a heap, because the loop that    *)
(* adds an operator changes a node that is already part of the tree.  The  *)
(* recursion through parentheses and calls is a stack of frames.  A token  *)
(* is a whole lexical unit: white space is left out, CALL is a name with   *)
(* the parenthesis next to it.                                             *)
(***************************************************************************)
EXTENDS ExprTokens

CONSTANTS
  Alphabets,   \* sets of tokens; a text is written in one of them
  MaxTokens    \* the longest text in each of them

VARIABLES
  alphabet,    \* the alphabet of this text
  text,        \* the tokens scanned so far
  at,          \* how many of them are consumed; one at most is unread
  nodes,       \* the heap
  operators,   \* history: the nodes the loop of ParseExpr made
  frames,      \* the calls of ParseExpr that are open, the innermost last
  operand,     \* the expression parseUnaryExpr returned
  node,        \* where the descent of the right-hand sides is
  dur,         \* ParseDuration: the parts, the next one, the sum
  exact,       \* history: the sum without the limits of a word
  pc

vars == <<alphabet, text, at, nodes, operators, frames, operand, node, dur, exact, pc>>

reading == <<alphabet, text>>
tree    == <<nodes, operators>>
timing  == <<dur, exact>>

----------------------------------------------------------------------------
ASSUME AlphabetAssumption == Alphabets \subseteq SUBSET Token

ASSUME MaxTokensAssumption == MaxTokens \in [Alphabets -> Nat]

----------------------------------------------------------------------------
(* Nodes.                                                                  *)

Node == [kind : {"leaf", "bin", "paren", "call", "root"}, op : Op \cup {"none"},
         lhs : Nat, rhs : Nat, args : Seq(Nat), leaf : Leaf]

LeafNode(leaf) ==
  [kind |-> "leaf", op |-> "none", lhs |-> 0, rhs |-> 0, args |-> <<>>, leaf |-> leaf]

Bin(op, l, r) ==
  [kind |-> "bin", op |-> op, lhs |-> l, rhs |-> r, args |-> <<>>, leaf |-> Nil]

Paren(x) ==
  [kind |-> "paren", op |-> "none", lhs |-> 0, rhs |-> x, args |-> <<>>, leaf |-> Nil]

CallNode(leaf, args) ==
  [kind |-> "call", op |-> "none", lhs |-> 0, rhs |-> 0, args |-> args, leaf |-> leaf]

Root == [kind |-> "root", op |-> "none", lhs |-> 0, rhs |-> 0, args |-> <<>>, leaf |-> Nil]

----------------------------------------------------------------------------
(* Frames: what ends the expression, its dummy root, the operator whose    *)
(* right operand is read, the sign before that operand, and for a call its *)
(* name and the arguments read so far.                                     *)

Frame == [kind : {"top", "paren", "call"}, root : Nat, op : Op \cup {"none"},
          sign : {"none", "ADD", "SUB"}, name : Leaf, args : Seq(Nat)]

Opened(kind, root, name) ==
  [kind |-> kind, root |-> root, op |-> "none", sign |-> "none", name |-> name, args |-> <<>>]

Top == Last(frames)

SetTop(f) == [frames EXCEPT ![Len(frames)] = f]

Next1 == text[at + 1]

Sees(toks) == at < Len(text) /\ Next1.tok \in toks

\* parseRegex is asked before the first rune of the next token is scanned.
RegexWanted ==
  \/ pc = "unary" /\ Top.op \in RegexOp
  \/ pc = "argument"

Init ==
  /\ alphabet \in Alphabets
  /\ text = <<>> /\ at = 0
  /\ nodes = <<Root>> /\ operators = {}
  /\ frames = <<Opened("top", 1, Nil)>>
  /\ operand = 0 /\ node = 0
  /\ dur = [parts |-> <<>>, i |-> 1, d |-> 0] /\ exact = 0
  /\ pc = "unary"

\* The scanner delivers a token; a slash is a regular expression exactly
\* where the parser asks for one.
Scan ==
  /\ pc \in {"unary", "argument", "arguments", "operator"}
  /\ at = Len(text)
  /\ \E t \in IF Len(text) < MaxTokens[alphabet] THEN alphabet \cup {T("EOF")} ELSE {T("EOF")} :
        /\ t.tok = "REGEX" => RegexWanted
        /\ t.tok = "DIV" => ~RegexWanted
        /\ text' = Append(text, t)
  /\ UNCHANGED <<alphabet, at, tree, frames, operand, node, timing, pc>>

Fail ==
  /\ pc' = "error"
  /\ UNCHANGED <<reading, at, tree, frames, operand, node, timing>>

----------------------------------------------------------------------------
(* parseUnaryExpr.                                                         *)

\* Operands are read here; a regular expression is due after =~ and !~ only.
AtOperand == pc = "unary" /\ Top.op \notin RegexOp

ReadSign ==
  /\ AtOperand /\ Top.sign = "none"
  /\ Sees({"ADD", "SUB"})
  /\ at' = at + 1
  /\ frames' = SetTop([Top EXCEPT !.sign = Next1.tok])
  /\ UNCHANGED <<reading, tree, operand, node, timing, pc>>

\* Mutant: the sign of a variable is forgotten.
Signed_LiteralsOnly(sign, n) ==
  IF n.kind = "leaf" /\ sign = "SUB" /\ n.leaf.type # "var"
  THEN IF Negated(n.leaf) = <<>> THEN <<>> ELSE <<LeafNode(Negated(n.leaf)[1])>>
  ELSE <<n>>

\* The nodes that an operand n behind a sign becomes: a literal changes in
\* place or is refused, anything else is multiplied by one or by minus one.
Signed(sign, n) ==
  LET k == Len(nodes)
      neg == Negated(n.leaf)
      one == IF sign = "SUB" THEN -1 ELSE 1
  IN IF sign = "none" THEN <<n>>
     ELSE IF n.kind # "leaf" \/ n.leaf.type = "var" THEN
       <<n, LeafNode(Lit("int", one)), Bin("MUL", k + 2, k + 1)>>
     ELSE IF sign = "ADD" THEN <<n>>
     ELSE IF neg = <<>> THEN <<>>
     ELSE <<LeafNode(neg[1])>>

Refuses(n) == Signed(Top.sign, n) = <<>>

\* The operand n is complete: its nodes are added to the heap.
Returns(n) ==
  /\ ~Refuses(n)
  /\ nodes' = nodes \o Signed(Top.sign, n)
  /\ operand' = Len(nodes')
  /\ operators' = operators

\* From here the operand is put at its place in the tree.
Placing == pc' = "place" /\ node' = Top.root

\* The literal that a token stands for, or nothing.
LeafOf(t) == IF t.tok = "INTEGER" THEN IntegerValue(t.leaf.v) ELSE <<t.leaf>>

ReadLeaf ==
  /\ AtOperand
  /\ Sees(IF Top.sign = "none" THEN LeafTok ELSE LeafTok \cap Signable)
  /\ LeafOf(Next1) # <<>>
  /\ at' = at + 1
  /\ Returns(LeafNode(LeafOf(Next1)[1]))
  /\ Placing
  /\ UNCHANGED <<reading, frames, timing>>

BadLeaf ==
  /\ AtOperand
  /\ Sees(IF Top.sign = "none" THEN LeafTok ELSE LeafTok \cap Signable)
  /\ LeafOf(Next1) # <<>> => Refuses(LeafNode(LeafOf(Next1)[1]))
  /\ Fail

\* An asterisk where an operand is due.
ReadWildcard ==
  /\ AtOperand /\ Top.sign = "none"
  /\ Sees({"MUL"})
  /\ at' = at + 1
  /\ Returns(LeafNode(Named("wildcard", NoName)))
  /\ Placing
  /\ UNCHANGED <<reading, frames, timing>>

ReadRegex ==
  /\ pc = "unary" /\ Top.op \in RegexOp
  /\ Sees({"REGEX"})
  /\ at' = at + 1
  /\ Returns(LeafNode(Next1.leaf))
  /\ Placing
  /\ UNCHANGED <<reading, frames, timing>>

BadOperand ==
  /\ pc = "unary"
  /\ at < Len(text)
  /\ Next1.tok \notin
       CASE Top.op \in RegexOp -> {"REGEX"}
         [] Top.sign # "none" -> Signable
         [] OTHER -> LeafTok \cup {"DURATIONVAL", "LPAREN", "CALL", "MUL", "ADD", "SUB"}
  /\ Fail

----------------------------------------------------------------------------
(* ParseDuration.                                                          *)

ReadDuration ==
  /\ AtOperand
  /\ Sees({"DURATIONVAL"})
  /\ at' = at + 1
  /\ dur' = [parts |-> Next1.parts, i |-> 1, d |-> 0] /\ exact' = 0
  /\ pc' = "duration"
  /\ UNCHANGED <<reading, tree, frames, operand, node>>

\* One number with its unit; a number that fits no word is an error.
ParsePart ==
  /\ pc = "duration" /\ dur.i <= Len(dur.parts)
  /\ LET p == dur.parts[dur.i]
     IN \/ /\ p.n <= MaxInt
           /\ dur' = [dur EXCEPT !.i = @ + 1, !.d = Wrap(@ + PartValue(p))]
           /\ exact' = exact + p.n * Scale[p.unit]
           /\ UNCHANGED <<reading, at, tree, frames, operand, node, pc>>
        \/ p.n > MaxInt /\ Fail

EndDuration ==
  /\ pc = "duration" /\ dur.i > Len(dur.parts)
  /\ \/ /\ ~Overflowed(dur.d)
        /\ Returns(LeafNode(Lit("duration", dur.d)))
        /\ Placing
        /\ UNCHANGED <<reading, at, frames, timing>>
     \/ Overflowed(dur.d) /\ Fail

----------------------------------------------------------------------------
(* Parentheses and calls.                                                  *)

Open(kind, name) ==
  /\ at' = at + 1
  /\ nodes' = Append(nodes, Root)
  /\ frames' = Append(frames, Opened(kind, Len(nodes'), name))
  /\ UNCHANGED <<reading, operators, operand, node, timing>>

OpenParen ==
  /\ AtOperand
  /\ Sees({"LPAREN"})
  /\ Open("paren", Nil)
  /\ pc' = "unary"

OpenCall ==
  /\ AtOperand
  /\ Sees({"CALL"})
  /\ Open("call", Next1.leaf)
  /\ pc' = "argument"

\* An argument that is a regular expression is not parsed by ParseExpr.
RegexArgument ==
  /\ pc = "argument"
  /\ Sees({"REGEX"})
  /\ at' = at + 1
  /\ nodes' = Append(nodes, LeafNode(Next1.leaf))
  /\ frames' = SetTop([Top EXCEPT !.args = Append(@, Len(nodes'))])
  /\ pc' = "arguments"
  /\ UNCHANGED <<reading, operators, operand, node, timing>>

\* Any other argument; () is accepted without one.
ExprArgument ==
  /\ pc = "argument" /\ at < Len(text)
  /\ Next1.tok # "REGEX"
  /\ ~(Top.args = <<>> /\ Next1.tok = "RPAREN")
  /\ pc' = "unary"
  /\ UNCHANGED <<reading, at, tree, frames, operand, node, timing>>

----------------------------------------------------------------------------
(* The loop of ParseExpr.                                                  *)

\* The first operand hangs from the root, the others are put in the tree.
PlaceFirst ==
  /\ pc = "place" /\ Top.op = "none"
  /\ nodes' = [nodes EXCEPT ![Top.root].rhs = operand]
  /\ frames' = SetTop([Top EXCEPT !.sign = "none"])
  /\ pc' = "operator"
  /\ UNCHANGED <<reading, at, operators, operand, node, timing>>

\* Mutant: an operator of the same precedence is passed.
Stops_Right(r, op) == nodes[r].kind # "bin" \/ Precedence(nodes[r].op) > Precedence(op)

\* The new operator takes the place of r.
Stops(r, op) == nodes[r].kind # "bin" \/ Precedence(nodes[r].op) >= Precedence(op)

\* Mutant: the descent stays where it is.
Below_Same(n) == n

Below(n) == nodes[n].rhs

Descend ==
  /\ pc = "place" /\ Top.op # "none"
  /\ ~Stops(nodes[node].rhs, Top.op)
  /\ node' = Below(node)
  /\ UNCHANGED <<reading, at, tree, frames, operand, timing, pc>>

Insert ==
  /\ pc = "place" /\ Top.op # "none"
  /\ Stops(nodes[node].rhs, Top.op)
  /\ LET new == Len(nodes) + 1
     IN /\ nodes' = Append([nodes EXCEPT ![node].rhs = new],
                           Bin(Top.op, nodes[node].rhs, operand))
        /\ operators' = operators \cup {new}
  /\ frames' = SetTop([Top EXCEPT !.op = "none", !.sign = "none"])
  /\ pc' = "operator"
  /\ UNCHANGED <<reading, at, operand, node, timing>>

ReadOperator ==
  /\ pc = "operator"
  /\ Sees(Op)
  /\ at' = at + 1
  /\ frames' = SetTop([Top EXCEPT !.op = Next1.tok])
  /\ pc' = "unary"
  /\ UNCHANGED <<reading, tree, operand, node, timing>>

\* The outermost expression ends before whatever is not an operator.
End ==
  /\ pc = "operator" /\ Top.kind = "top"
  /\ at < Len(text) /\ ~Sees(Op)
  /\ pc' = "done"
  /\ UNCHANGED <<reading, at, tree, frames, operand, node, timing>>

\* The frame below the top: the operand that it waits for is n.
Close(n) ==
  LET outer == frames[Len(frames) - 1]
  IN /\ nodes' = nodes \o Signed(outer.sign, n)
     /\ operand' = Len(nodes')
     /\ node' = outer.root
     /\ frames' = Front(frames)
     /\ pc' = "place"
     /\ UNCHANGED <<reading, operators, timing>>

CloseParen ==
  /\ pc = "operator" /\ Top.kind = "paren"
  /\ Sees({"RPAREN"})
  /\ at' = at + 1
  /\ Close(Paren(nodes[Top.root].rhs))

\* The arguments end with the one in hand, with a regular expression, or
\* before there is any.
CloseCall ==
  /\ Sees({"RPAREN"})
  /\ \/ pc = "operator" /\ Top.kind = "call"
     \/ pc = "arguments"
     \/ pc = "argument" /\ Top.args = <<>>
  /\ at' = at + 1
  /\ Close(CallNode(Top.name,
             IF pc = "operator" THEN Append(Top.args, nodes[Top.root].rhs) ELSE Top.args))

\* The next argument is read by a ParseExpr of its own.
Comma ==
  /\ Sees({"COMMA"})
  /\ \/ /\ pc = "operator" /\ Top.kind = "call"
        /\ frames' = SetTop([Opened("call", Len(nodes) + 1, Top.name) EXCEPT
                               !.args = Append(Top.args, nodes[Top.root].rhs)])
     \/ /\ pc = "arguments"
        /\ frames' = SetTop([Opened("call", Len(nodes) + 1, Top.name) EXCEPT !.args = Top.args])
  /\ at' = at + 1
  /\ nodes' = Append(nodes, Root)
  /\ pc' = "argument"
  /\ UNCHANGED <<reading, operators, operand, node, timing>>

\* Something else inside of parentheses or of a call.
BadEnd ==
  /\ at < Len(text)
  /\ \/ pc = "operator" /\ Top.kind = "paren" /\ Next1.tok \notin Op \cup {"RPAREN"}
     \/ pc = "operator" /\ Top.kind = "call" /\ Next1.tok \notin Op \cup {"RPAREN", "COMMA"}
     \/ pc = "arguments" /\ Next1.tok \notin {"RPAREN", "COMMA"}
  /\ Fail

----------------------------------------------------------------------------
Unary ==
  \/ ReadSign \/ ReadLeaf \/ BadLeaf \/ ReadWildcard \/ ReadRegex \/ BadOperand
  \/ ReadDuration \/ ParsePart \/ EndDuration
  \/ OpenParen \/ OpenCall \/ RegexArgument \/ ExprArgument

Loop ==
  \/ PlaceFirst \/ Descend \/ Insert \/ ReadOperator
  \/ End \/ CloseParen \/ CloseCall \/ Comma \/ BadEnd

Next == Scan \/ Unary \/ Loop

Spec == Init /\ [][Next]_vars /\ WF_vars(Next)

----------------------------------------------------------------------------
(* Properties.                                                             *)

\* The variables keep their types, and one token at most is unread.
TypeOK ==
  /\ alphabet \in Alphabets
  /\ text \in Seq(Token) /\ at \in Nat /\ at <= Len(text) /\ Len(text) <= at + 1
  /\ nodes \in Seq(Node) /\ nodes # <<>>
  /\ operators \subseteq DOMAIN nodes
  /\ frames \in Seq(Frame) /\ frames # <<>>
  /\ operand \in 0 .. Len(nodes) /\ node \in 0 .. Len(nodes)
  /\ dur \in [parts : Seq(Part), i : Nat \ {0}, d : Int64]
  /\ exact \in Nat
  /\ pc \in {"unary", "argument", "arguments", "duration", "place", "operator", "done", "error"}

\* Whatever was read so far, an operator that the loop of ParseExpr put into
\* the tree holds at its right only operators that bind more strongly, and
\* at its left only ones that bind at least as strongly, although the loop
\* changes the right-hand side of nodes it placed long before.
BoundByPrecedence ==
  \A i \in operators :
     LET n == nodes[i]
     IN /\ n.rhs \in operators => Precedence(nodes[n.rhs].op) > Precedence(n.op)
        /\ n.lhs \in operators => Precedence(nodes[n.lhs].op) >= Precedence(n.op)

\* A duration below 2^64 nanoseconds is refused exactly when it does not fit
\* a word, whatever its parts are and in spite of products and sums that
\* wrap; from there on the sign no longer tells (ParseDuration).
DurationOverflow ==
  pc = "duration" /\ dur.i > Len(dur.parts) /\ exact <= MaxUint =>
    /\ Overflowed(dur.d) <=> exact > MaxInt
    /\ ~Overflowed(dur.d) => dur.d = exact

\* ParseExpr returns: the descent and the loops end (no call of it is left
\* waiting for more than the next token).
ParseExprReturns == <>(pc \in {"done", "error"})
=============================================================================
