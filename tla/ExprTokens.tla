----------------------------- MODULE ExprTokens -----------------------------
(***************************************************************************)
(* The tokens of expressions and the precedence of operators.              *)
(***************************************************************************)
EXTENDS Literals, SequencesExt

Additive       == {"ADD", "SUB", "BITWISE_OR", "BITWISE_XOR"}
Multiplicative == {"MUL", "DIV", "MOD", "BITWISE_AND"}
RegexOp        == {"EQREGEX", "NEQREGEX"}
Comparison     == {"EQ", "NEQ", "LT", "LTE", "GT", "GTE"} \cup RegexOp

Op == {"OR", "AND"} \cup Comparison \cup Additive \cup Multiplicative

Precedence(op) ==
  CASE op = "OR" -> 1
    [] op = "AND" -> 2
    [] op \in Comparison -> 3
    [] op \in Additive -> 4
    [] OTHER -> 5

LeafTok == {"IDENT", "STRING", "NUMBER", "INTEGER", "TRUE", "FALSE", "DISTINCT"}

TokenName == Op \cup LeafTok \cup {"DURATIONVAL", "REGEX", "LPAREN", "RPAREN", "COMMA", "CALL", "EOF"}

Token == [tok : TokenName, leaf : Leaf, parts : Seq(Part)]

Nil == Named("nil", NoName)

T(tok)        == [tok |-> tok, leaf |-> Nil, parts |-> <<>>]
TL(tok, leaf) == [tok |-> tok, leaf |-> leaf, parts |-> <<>>]

\* What may follow a sign.
Signable == {"NUMBER", "INTEGER", "DURATIONVAL", "LPAREN", "IDENT", "CALL"}
=============================================================================
