--------------------------- MODULE ScannerTokens ----------------------------
(***************************************************************************)
(* Proofs about the tokens the scanner returns, for every text: each ends  *)
(* where it must (MunchInv), has the literal of the text it was read from  *)
(* (LitInv of the literal that is being collected, and ToldInv of every    *)
(* token), and the position of its first rune (PosInv of the reader,       *)
(* PartPos of the token that is being read, and TokensPlaced of the rest). *)
(* Each of them is inductive with ReaderInv, PlaceInv and TokensTyped of   *)
(* module ScannerProofs.                                                   *)
(***************************************************************************)
EXTENDS ScannerProofs

----------------------------------------------------------------------------
(* A token ends only where it must.                                        *)

\* The runes that would have continued a token of the kind, were it unquoted.
Follow(t) ==
  CASE t = "WS"                                 -> Blank \cup {LF}
    [] t = "INTEGER"                            -> Letter \cup Digit \cup {Micro, "."}
    [] t = "DURATIONVAL"                        -> Letter \cup Digit \cup {Micro}
    [] t = "NUMBER"                             -> Digit
    [] t \in {"KEYWORD", "IDENT", "BOUNDPARAM"} -> Letter \cup Digit \cup {"_", "\""}
    [] t = "EQ"                                 -> {"~"}
    [] t = "GT"                                 -> {"="}
    [] t = "LT"                                 -> {"=", ">"}
    [] t = "COLON"                              -> {":"}
    [] t = "SUB"                                -> {"-"}
    [] t = "DIV"                                -> {"*"}
    [] t = "DOT"                                -> Digit
    [] OTHER                                    -> {}

\* The token holds a rune at least, and ends where it must.
Munched(t) ==
  /\ t.from \in Nat /\ t.to \in Nat /\ t.from < t.to /\ t.to <= Len(seen)
  /\ \/ seen[t.to] = NUL
     \/ Continues(t) = {}
     \/ t.to < Len(seen) /\ seen[t.to + 1] \notin Continues(t)

MunchInv == \A m \in DOMAIN toks : Munched(toks[m])

\* A token of the kind t that ends here ends where it must.
MayEnd(t) ==
  \/ seen[Consumed] = NUL
  \/ Follow(t) = {}
  \/ t \in {"IDENT", "BOUNDPARAM"} /\ HasRead("\"")
  \/ Consumed < Len(seen) /\ seen[Consumed + 1] \notin Follow(t)

\* What continues a token is what continues its kind.
AsItsKind(t) ==
  /\ Continues(t) \subseteq Follow(t.tok)
  /\ t.tok \in {"IDENT", "BOUNDPARAM"} /\ ~ Without(t, "\"") => Continues(t) = {}

KindsContinue == \A t : AsItsKind(t)

\* Every token is continued as its kind is, if at all.
LEMMA ContinuesAsItsKind == KindsContinue
<1> SUFFICES ASSUME NEW t PROVE AsItsKind(t)
  BY DEF KindsContinue
<1> USE DEF AsItsKind
<1>1. CASE t.tok \in {"WS", "INTEGER", "DURATIONVAL", "NUMBER", "KEYWORD"}
  BY <1>1 DEF Continues, Follow, Unquoted
<1>2. CASE t.tok \in {"IDENT", "BOUNDPARAM"}
  BY <1>2 DEF Continues, Follow, Unquoted
<1>3. CASE t.tok \in {"EQ", "GT", "LT", "COLON", "SUB", "DIV", "DOT"}
  BY <1>3 DEF Continues, Follow, Unquoted
<1>4. CASE t.tok \notin {"WS", "INTEGER", "DURATIONVAL", "NUMBER", "KEYWORD", "IDENT",
                         "BOUNDPARAM", "EQ", "GT", "LT", "COLON", "SUB", "DIV", "DOT"}
  BY <1>4 DEF Continues, Follow, Unquoted
<1>5. QED
  BY <1>1, <1>2, <1>3, <1>4

\* A token is returned where it must end, or none is.
Grown == toks' = toks \/ \E r : toks' = Append(toks, r) /\ Munched(r)'

\* A token that is returned where it may end.
LEMMA TokenMunched ==
  ASSUME ReaderInv, [Next]_vars, from' \in Nat, from' < Consumed',
         NEW t, NEW p, NEW l, Return(t, p, l), MayEnd(t)'
  PROVE  Grown
<1>1. PICK r : r = [tok |-> t, pos |-> p, lit |-> l, from |-> from', to |-> Consumed']
  OBVIOUS
<1>2. toks' = Append(toks, r)
  BY <1>1 DEF Return, Consumed
<1>3. r.from = from' /\ r.to = Consumed' /\ r.tok = t
  BY <1>1
<1>4. Consumed' \in Nat /\ Consumed' <= Len(seen')
  BY NextReaderInv DEF ReaderInv, Reader, UnreadBound, Consumed
<1>5. AsItsKind(r)'
  <2>1. KindsContinue'
    BY ContinuesAsItsKind, PTL
  <2>2. QED
    BY <2>1 DEF KindsContinue
<1>6. Continues(r)' \subseteq Follow(t)
  BY <1>3, <1>5 DEF AsItsKind
<1>7. t \in {"IDENT", "BOUNDPARAM"} /\ HasRead("\"")' => Continues(r)' = {}
  <2> SUFFICES ASSUME t \in {"IDENT", "BOUNDPARAM"}, HasRead("\"")' PROVE Continues(r)' = {}
    OBVIOUS
  <2>1. ~ Without(r, "\"")'
    BY <1>3 DEF HasRead, Without
  <2>2. QED
    BY <1>3, <1>5, <2>1 DEF AsItsKind
<1>8. \/ seen'[r.to] = NUL \/ Continues(r)' = {}
      \/ r.to < Len(seen') /\ seen'[r.to + 1] \notin Continues(r)'
  BY <1>3, <1>6, <1>7 DEF MayEnd
<1>9. Munched(r)'
  BY <1>3, <1>4, <1>8 DEF Munched
<1>10. QED
  BY <1>2, <1>9 DEF Grown

\* The first rune of a token is all of it only when nothing can continue it.
LEMMA ScanMunched ==
  ASSUME ReaderInv, Scan
  PROVE  Grown
<1>1. [Next]_vars
  BY DEF Next
<1>2. ASSUME NEW p, Goto(p) PROVE Grown
  BY <1>2 DEF Goto, Grown
<1>3. CASE ScanWhitespace \/ ScanIdent \/ ScanParam \/ ScanQuoted \/ ScanNumber \/ ScanOperator
  BY <1>2, <1>3 DEF ScanWhitespace, ScanIdent, ScanParam, ScanQuoted, ScanNumber, ScanOperator
<1>4. CASE ScanSingle \/ ScanEOF \/ ScanIllegal
  <2>1. Take(0) /\ from' = Consumed
    BY <1>4 DEF ScanSingle, ScanEOF, ScanIllegal, StartAt
  <2>2. from' \in Nat /\ from' < Consumed'
    <3>1. PICK C \in Nat, D \in Nat : C = Consumed /\ D = Consumed'
      BY <1>1, StepReads
    <3>2. D = C + 1
      BY <1>1, <2>1, <3>1, StepReads
    <3>3. QED
      BY <2>1, <3>1, <3>2
  <2>3. PICK t, p, l : Return(t, p, l) /\ Follow(t) = {}
    <3>1. CASE ScanSingle
      <4>1. PICK c \in DOMAIN Operator1 \ TwoRune : Return(Operator1[c], Next1.pos, <<>>)
        BY <3>1 DEF ScanSingle
      <4>2. Operator1[c] \in {"ADD", "MUL", "MOD", "BITWISE_AND", "BITWISE_OR",
                              "BITWISE_XOR", "LPAREN", "RPAREN", "COMMA", "SEMICOLON"}
        BY DEF Operator1, TwoRune
      <4>3. Follow(Operator1[c]) = {}
        BY <4>2 DEF Follow
      <4>4. QED
        BY <4>1, <4>3
    <3>2. CASE ScanEOF
      <4>1. Return("EOF", Next1.pos, <<>>) /\ Follow("EOF") = {}
        BY <3>2 DEF ScanEOF, Follow
      <4>2. QED
        BY <4>1
    <3>3. CASE ScanIllegal
      <4>1. Return("ILLEGAL", Next1.pos, <<Next1.ch>>) /\ Follow("ILLEGAL") = {}
        BY <3>3 DEF ScanIllegal, Follow
      <4>2. QED
        BY <4>1
    <3>4. QED
      BY <1>4, <3>1, <3>2, <3>3
  <2>4. MayEnd(t)'
    BY <2>3 DEF MayEnd
  <2>5. QED
    BY <1>1, <2>2, <2>3, <2>4, TokenMunched
<1>5. QED
  BY <1>3, <1>4 DEF Scan

\* Nothing continues an operator of two runes, nor one whose second rune is none.
LEMMA OperatorsEnd ==
  /\ \A p \in DOMAIN Operator2 : Follow(Operator2[p]) = {}
  /\ \A f \in TwoRune \ {"!"} : \A c :
       <<f, c>> \notin DOMAIN Operator2 \cup {<<"-", "-">>, <<"/", "*">>} =>
         c \notin Follow(Operator1[f])
<1>1. ASSUME NEW p \in DOMAIN Operator2 PROVE Follow(Operator2[p]) = {}
  <2>1. Operator2[p] \in {"EQREGEX", "NEQ", "NEQREGEX", "GTE", "LTE", "DOUBLECOLON"}
    BY DEF Operator2
  <2>2. QED
    BY <2>1 DEF Follow
<1>2. ASSUME NEW f \in TwoRune \ {"!"}, NEW c,
             <<f, c>> \notin DOMAIN Operator2 \cup {<<"-", "-">>, <<"/", "*">>}
      PROVE  c \notin Follow(Operator1[f])
  <2>1. CASE f = "-"
    BY <1>2, <2>1 DEF Operator1, Operator2, Follow
  <2>2. CASE f = "/"
    BY <1>2, <2>2 DEF Operator1, Operator2, Follow
  <2>3. CASE f = "="
    BY <1>2, <2>3 DEF Operator1, Operator2, Follow
  <2>4. CASE f = ">"
    BY <1>2, <2>4 DEF Operator1, Operator2, Follow
  <2>5. CASE f = "<"
    BY <1>2, <2>5 DEF Operator1, Operator2, Follow
  <2>6. CASE f = ":"
    BY <1>2, <2>6 DEF Operator1, Operator2, Follow
  <2>7. QED
    BY <2>1, <2>2, <2>3, <2>4, <2>5, <2>6 DEF TwoRune
<1>3. QED
  BY <1>1, <1>2

\* Every further rune of a token is looked at before the token is returned.
LEMMA ContinueMunched ==
  ASSUME ReaderInv, PlaceInv, Continue
  PROVE  Grown
<1>1. [Next]_vars
  BY DEF Next
<1>2. PICK C \in Nat, D \in Nat : C = Consumed /\ D = Consumed'
  BY <1>1, StepReads
<1>3. PICK c : c = Next1.ch
  OBVIOUS
<1>4. /\ Len(seen) \in Nat /\ Len(seen') \in Nat /\ C <= Len(seen)
      /\ \A j \in 1 .. Len(seen) : seen'[j] = seen[j]
      /\ Take(0) \/ Take(1) => c \in Rune /\ C < Len(seen') /\ seen'[C + 1] = c
      /\ Take(0) => D = C + 1
      /\ Take(1) => D = C
  BY <1>1, <1>2, <1>3, StepReads
<1>5. /\ from \in Nat
      /\ pc \notin {"idle", "done"} => from <= C
      /\ pc \in Inside => from < C
  BY <1>2 DEF PlaceInv
<1>6. ASSUME toks' = toks PROVE Grown
  BY <1>6 DEF Grown
<1>7. ASSUME NEW p, Goto(p) PROVE Grown
  BY <1>6, <1>7 DEF Goto
<1>8. ASSUME NEW p, NEW x, Collect(p, x) PROVE Grown
  BY <1>7, <1>8 DEF Collect
<1>9. ASSUME NEW t, NEW p, NEW l, Return(t, p, l), from' = from, from < D, Follow(t) = {}
      PROVE  Grown
  <2>1. MayEnd(t)'
    BY <1>9 DEF MayEnd
  <2>2. QED
    BY <2>1, <1>1, <1>2, <1>5, <1>9, TokenMunched
<1>10. ASSUME NEW t, NEW p, NEW l, Return(t, p, l), from' = from, Take(1), from < C,
              c \notin Follow(t)
       PROVE  Grown
  <2>1. MayEnd(t)'
    <3>1. D < Len(seen') /\ seen'[D + 1] = c
      BY <1>4, <1>10
    <3>2. QED
      BY <3>1, <1>2, <1>10 DEF MayEnd
  <2>2. QED
    BY <2>1, <1>1, <1>2, <1>4, <1>5, <1>10, TokenMunched
<1>11. ASSUME NEW t, NEW p, NEW l, Return(t, p, l), from' = from, Take(0), from <= C,
              c = NUL
       PROVE  Grown
  <2>1. from < D
    BY <1>4, <1>5, <1>11
  <2>2. MayEnd(t)'
    <3>1. seen'[D] = NUL
      BY <1>4, <1>11
    <3>2. QED
      BY <3>1, <1>2 DEF MayEnd
  <2>3. QED
    BY <2>1, <2>2, <1>1, <1>2, <1>5, <1>11, TokenMunched
<1>12. CASE Dot
  <2>1. pc = "dot" /\ from' = from /\ from < C
    BY <1>5, <1>12 DEF Dot, token, Inside
  <2>2. \/ Goto("digits")
        \/ Take(1) /\ Return("DOT", pos, <<>>) /\ c \notin Follow("DOT")
    BY <1>3, <1>12 DEF Dot, Follow, IsDigit
  <2>3. QED
    BY <2>1, <2>2, <1>7, <1>10
<1>13. CASE Second
  <2>1. pc = "second" /\ from' = from /\ from < C /\ first \in TwoRune
    BY <1>5, <1>13 DEF Second, token, Inside, PlaceInv
  <2>2. \/ Goto("line") \/ Goto("block")
        \/ <<first, c>> \in DOMAIN Operator2 /\ Take(0) /\ Return(Operator2[<<first, c>>], pos, <<>>)
        \/ first = "!" /\ Take(1) /\ Return("ILLEGAL", pos, <<"!">>)
        \/ /\ first # "!" /\ Take(1) /\ Return(Operator1[first], pos, <<>>)
           /\ <<first, c>> \notin DOMAIN Operator2 \cup {<<"-", "-">>, <<"/", "*">>}
    BY <1>3, <1>13 DEF Second
  <2>3. CASE <<first, c>> \in DOMAIN Operator2 /\ Take(0) /\ Return(Operator2[<<first, c>>], pos, <<>>)
    <3>1. from < D
      BY <2>1, <2>3, <1>4, <1>5
    <3>2. QED
      BY <2>1, <2>3, <3>1, <1>9, OperatorsEnd
  <2>4. CASE first = "!" /\ Take(1) /\ Return("ILLEGAL", pos, <<"!">>)
    <3>1. Follow("ILLEGAL") = {}
      BY DEF Follow
    <3>2. QED
      BY <2>1, <2>4, <3>1, <1>10
  <2>5. CASE /\ first # "!" /\ Take(1) /\ Return(Operator1[first], pos, <<>>)
             /\ <<first, c>> \notin DOMAIN Operator2 \cup {<<"-", "-">>, <<"/", "*">>}
    <3>1. c \notin Follow(Operator1[first])
      BY <2>1, <2>5, OperatorsEnd
    <3>2. QED
      BY <2>1, <2>5, <3>1, <1>10
  <2>6. QED
    BY <2>2, <2>3, <2>4, <2>5, <1>7
<1>14. CASE SkipUntilNewline \/ SkipUntilEndComment \/ Star
  <2>1. pc \in {"line", "block", "star"} /\ from' = from /\ Take(0)
    BY <1>14 DEF SkipUntilNewline, SkipUntilEndComment, Star, token
  <2>2. from < D
    BY <2>1, <1>4, <1>5 DEF Inside
  <2>3. \/ Goto("line") \/ Goto("block") \/ Goto("star")
        \/ Return("COMMENT", pos, <<>>) \/ Return("ILLEGAL", pos, <<>>)
    BY <1>14 DEF SkipUntilNewline, SkipUntilEndComment, Star
  <2>4. Follow("COMMENT") = {} /\ Follow("ILLEGAL") = {}
    BY DEF Follow
  <2>5. QED
    BY <2>1, <2>2, <2>3, <2>4, <1>7, <1>9
<1>15. CASE Whitespace
  <2>1. pc = "ws" /\ from' = from /\ from < C
    BY <1>5, <1>15 DEF Whitespace, Inside
  <2>2. \/ Collect("ws", c)
        \/ Take(0) /\ c = NUL /\ Return("WS", pos, lit)
        \/ Take(1) /\ c \notin Follow("WS") /\ Return("WS", pos, lit)
    BY <1>3, <1>15 DEF Whitespace, IsWhitespace, Follow
  <2>3. QED
    BY <2>1, <2>2, <1>5, <1>8, <1>10, <1>11
<1>16. CASE IdentPos \/ Bare \/ Quote \/ Point \/ Units
  BY <1>7, <1>8, <1>16 DEF IdentPos, Bare, Quote, Point, Units
<1>17. CASE Ident
  <2>1. pc = "ident" /\ from' = from /\ from <= C
    BY <1>5, <1>17 DEF Ident
  <2>2. \/ Goto("quote") \/ Goto("bare")
        \/ /\ c # "\"" /\ ~ IsIdentChar(c) /\ EndIdent
           /\ \/ c = NUL /\ Take(0)
              \/ Take(1)
    BY <1>3, <1>17 DEF Ident
  <2>3. CASE /\ c # "\"" /\ ~ IsIdentChar(c) /\ EndIdent
             /\ \/ c = NUL /\ Take(0)
                \/ Take(1)
    <3>1. PICK t \in {"BOUNDPARAM", "KEYWORD", "IDENT"} : \E l : Return(t, pos, l)
      BY <2>3 DEF EndIdent
    <3>2. c \notin Follow(t)
      <4>1. Follow(t) = Letter \cup Digit \cup {"_", "\""}
        BY DEF Follow
      <4>2. QED
        BY <2>3, <4>1 DEF IsIdentChar, IsLetter, IsDigit
    <3>3. CASE c = NUL /\ Take(0)
      BY <2>1, <3>1, <3>3, <1>11
    <3>4. CASE Take(1)
      <4>1. C # from
        <5> SUFFICES ASSUME C = from PROVE FALSE
          OBVIOUS
        <5>1. Pushed(Letter \cup {"_", "\""})
          BY <2>1, <1>2 DEF PlaceInv, IdentPlace
        <5>2. C < Len(seen) /\ seen[C + 1] \in Letter \cup {"_", "\""}
          BY <5>1, <1>2 DEF Pushed
        <5>3. C < Len(seen)
          BY <5>2
        <5>4. C + 1 \in 1 .. Len(seen)
          BY <5>3, <1>4
        <5>5. seen[C + 1] = c
          <6>1. seen'[C + 1] = c
            BY <3>4, <1>4
          <6>2. QED
            BY <5>4, <6>1, <1>4
        <5>6. QED
          BY <2>3, <5>2, <5>5 DEF IsIdentChar, IsLetter, IsDigit
      <4>2. from < C
        BY <2>1, <4>1, <1>5
      <4>3. QED
        BY <2>1, <3>1, <3>2, <3>4, <4>2, <1>10
    <3>5. QED
      BY <2>3, <3>3, <3>4
  <2>4. QED
    BY <2>2, <2>3, <1>7
<1>18. CASE String \/ Escape
  <2>1. /\ pc \in {"string", "escape"} /\ from' = from /\ caller' = caller
        /\ Take(0)
    BY <1>18 DEF String, Escape, Collect
  <2>2. C < D /\ from < D
    BY <2>1, <1>4, <1>5 DEF Inside
  <2>3. caller # "scan" => HasRead("\"")'
    <3>1. caller # "scan" => HasRead("\"")
      BY <2>1 DEF PlaceInv, StringPlace
    <3>2. Consumed <= Consumed'
      BY <2>2, <1>2
    <3>3. QED
      BY <2>1, <3>1, <3>2, <1>1, <1>5, StillRead
  <2>4. ASSUME NEW t \in {"STRING", "BADSTRING", "BADESCAPE"}, NEW p, NEW l, EndString(t, p, l)
        PROVE  Grown
    <3>1. Follow(t) = {}
      BY <2>4 DEF Follow
    <3>2. CASE Return(t, p, l) \/ (\E k : Return(t, pos, k))
      BY <2>1, <2>2, <3>1, <3>2, <1>9
    <3>3. CASE caller # "scan" /\ \E s \in {"IDENT", "BOUNDPARAM"} : \E k : Return(s, pos, k)
      <4>1. PICK s \in {"IDENT", "BOUNDPARAM"} : \E k : Return(s, pos, k)
        BY <3>3
      <4>2. MayEnd(s)'
        BY <2>3, <3>3, <4>1 DEF MayEnd
      <4>3. QED
        BY <2>1, <2>2, <4>1, <4>2, <1>1, <1>2, <1>5, TokenMunched
    <3>4. QED
      BY <2>4, <3>2, <3>3 DEF EndString
  <2>5. CASE String
    BY <2>4, <2>5, <1>7, <1>8 DEF String
  <2>6. CASE Escape
    BY <2>4, <2>6, <1>8 DEF Escape
  <2>7. QED
    BY <1>18, <2>5, <2>6
<1>19. CASE Digits
  <2>1. from' = from /\ (pc = "fraction" => from < C)
    BY <1>5, <1>19 DEF Digits, Inside
  <2>2. \/ Collect(pc, c) \/ Goto("point")
        \/ pc = "fraction" /\ Take(1) /\ Return("NUMBER", pos, lit) /\ c \notin Follow("NUMBER")
    BY <1>3, <1>19 DEF Digits, IsDigit, Follow
  <2>3. QED
    BY <2>1, <2>2, <1>7, <1>8, <1>10
<1>20. CASE Tenths
  <2>1. pc = "tenths" /\ from' = from /\ from < C
    BY <1>5, <1>20 DEF Tenths, Inside
  <2>2. \/ Goto("fraction")
        \/ Take(1) /\ Return("NUMBER", pos, lit) /\ c \notin Follow("NUMBER")
    BY <1>3, <1>20 DEF Tenths, IsDigit, Follow
  <2>3. QED
    BY <2>1, <2>2, <1>7, <1>10
<1>21. CASE Unit
  <2>1. pc = "unit" /\ from' = from /\ from < C
    BY <1>5, <1>21 DEF Unit, Inside
  <2>2. \/ Collect("units", c)
        \/ Take(1) /\ Return("INTEGER", pos, lit) /\ ~ IsUnit(c)
    BY <1>3, <1>21 DEF Unit
  <2>3. CASE Take(1) /\ Return("INTEGER", pos, lit) /\ ~ IsUnit(c)
    <3>1. c \notin Digit \cup {"."}
      <4>1. Pushed(Rune \ (Digit \cup {"."}))
        BY <2>1 DEF PlaceInv, NumberPlace
      <4>2. C < Len(seen) /\ seen[C + 1] \notin Digit \cup {"."}
        BY <4>1, <1>2 DEF Pushed
      <4>3. C < Len(seen)
        BY <4>2
      <4>4. C + 1 \in 1 .. Len(seen)
        BY <4>3, <1>4
      <4>5. seen'[C + 1] = c
        BY <2>3, <1>4
      <4>6. seen[C + 1] = c
        BY <4>4, <4>5, <1>4
      <4>7. QED
        BY <4>2, <4>6
    <3>2. c \notin Follow("INTEGER")
      BY <2>3, <3>1 DEF IsUnit, IsLetter, Follow
    <3>3. QED
      BY <2>1, <2>3, <3>2, <1>10
  <2>4. QED
    BY <2>2, <2>3, <1>8
<1>22. CASE Mixed
  <2>1. pc = "mixed" /\ from' = from /\ from < C
    BY <1>5, <1>22 DEF Mixed, Inside
  <2>2. \/ Collect("mixed", c)
        \/ /\ Take(1) /\ Return("DURATIONVAL", pos, lit)
           /\ c \notin Follow("DURATIONVAL")
    BY <1>3, <1>22 DEF Mixed, IsUnit, IsDigit, IsLetter, Follow
  <2>3. QED
    BY <2>1, <2>2, <1>8, <1>10
<1>23. CASE Regex \/ RegexEscape
  <2>1. pc \in {"regex", "regexEscape"} /\ from' = from /\ from < C
    BY <1>5, <1>23 DEF Regex, RegexEscape, Inside
  <2>2. \/ Goto("regex") \/ Goto("regexEscape") \/ (\E x : Collect("regex", x))
        \/ Take(0) /\ \/ Return("REGEX", pos, lit)
                      \/ Return("BADREGEX", pos, <<>>)
    BY <1>23 DEF Regex, RegexEscape
  <2>3. Follow("REGEX") = {} /\ Follow("BADREGEX") = {}
    BY DEF Follow
  <2>4. Take(0) => from < D
    BY <2>1, <1>4, <1>5
  <2>5. QED
    BY <2>1, <2>2, <2>3, <2>4, <1>7, <1>8, <1>9
<1>24. QED
  BY <1>12, <1>13, <1>14, <1>15, <1>16, <1>17, <1>18, <1>19, <1>20, <1>21, <1>22,
     <1>23 DEF Continue

\* What continues a token lies behind its end: later runes do not change it.
LEMMA MunchedStays ==
  ASSUME ReaderInv, [Next]_vars, NEW t, Munched(t)
  PROVE  Munched(t)'
<1>1. /\ Len(seen) \in Nat /\ Len(seen') \in Nat /\ Len(seen) <= Len(seen')
      /\ \A j \in 1 .. Len(seen) : seen'[j] = seen[j]
  BY StepReads
<1>2. t.from \in Nat /\ t.to \in Nat /\ t.from < t.to /\ t.to <= Len(seen)
  BY DEF Munched
<1>3. \A x : Without(t, x)' <=> Without(t, x)
  <2>1. \A j \in t.from + 1 .. t.to : j \in 1 .. Len(seen)
    BY <1>1, <1>2
  <2>2. \A j \in t.from + 1 .. t.to : seen'[j] = seen[j]
    BY <1>1, <2>1
  <2>3. QED
    BY <2>2 DEF Without
<1>4. Continues(t)' = Continues(t)
  BY <1>3 DEF Continues, Unquoted
<1>5. seen'[t.to] = seen[t.to]
  <2>1. t.to \in 1 .. Len(seen)
    BY <1>1, <1>2
  <2>2. QED
    BY <1>1, <2>1
<1>6. t.to < Len(seen) => t.to < Len(seen') /\ seen'[t.to + 1] = seen[t.to + 1]
  <2> SUFFICES ASSUME t.to < Len(seen)
               PROVE  t.to < Len(seen') /\ seen'[t.to + 1] = seen[t.to + 1]
    OBVIOUS
  <2>1. t.to + 1 \in 1 .. Len(seen)
    BY <1>1, <1>2
  <2>2. QED
    BY <1>1, <1>2, <2>1
<1>7. t.to <= Len(seen')
  BY <1>1, <1>2
<1>8. QED
  BY <1>2, <1>4, <1>5, <1>6, <1>7 DEF Munched

\* Every token that has been returned, and the one that is, ends where it must.
LEMMA NextMunch ==
  ASSUME ReaderInv, PlaceInv, TokensTyped, MunchInv, [Next]_vars
  PROVE  MunchInv'
<1>1. Grown
  <2>1. CASE Peek \/ ScanRegex \/ UNCHANGED vars
    BY <2>1 DEF Peek, ScanRegex, Goto, vars, Grown
  <2>2. QED
    BY <2>1, ScanMunched, ContinueMunched DEF Next, Finished
<1>2. ASSUME NEW m \in DOMAIN toks, NEW t, t = toks[m] PROVE Munched(t)'
  <2>1. Munched(t)
    BY <1>2 DEF MunchInv
  <2>2. QED
    BY <2>1, MunchedStays
<1>3. CASE toks' = toks
  <2>1. ASSUME NEW m \in DOMAIN toks', NEW t, t = toks'[m] PROVE Munched(t)'
    BY <1>2, <1>3, <2>1
  <2>2. QED
    BY <2>1 DEF MunchInv
<1>4. CASE \E r : toks' = Append(toks, r) /\ Munched(r)'
  <2>1. PICK r : toks' = Append(toks, r) /\ Munched(r)'
    BY <1>4
  <2>2. toks \in Seq(TokenRecord)
    BY DEF TokensTyped
  <2>3. ASSUME NEW m \in DOMAIN toks', NEW t, t = toks'[m] PROVE Munched(t)'
    <3>1. (m \in DOMAIN toks /\ t = toks[m]) \/ t = r
      BY <2>1, <2>2, <2>3
    <3>2. QED
      BY <3>1, <2>1, <1>2
  <2>4. QED
    BY <2>3 DEF MunchInv
<1>5. QED
  BY <1>1, <1>3, <1>4 DEF Grown

\* A token ends only where it must, whatever the text: the rune after it would
\* not have continued it, however the scanner read and pushed back the runes
\* that decide it (up to two for a number that starts with a stop).
THEOREM ScannerMaximalMunch == Spec => []MaximalMunch
<1>1. Init => MunchInv
  <2>1. ASSUME Init PROVE toks = <<>>
    BY <2>1 DEF Init
  <2>2. QED
    BY <2>1 DEF MunchInv
<1>2. ReaderInv /\ PlaceInv /\ TokensTyped /\ MunchInv /\ [Next]_vars => MunchInv'
  BY NextMunch
<1>3. MunchInv => MaximalMunch
  BY DEF MunchInv, MaximalMunch, Munched
<1>4. QED
  BY <1>1, <1>2, <1>3, ReaderInvariant, PlaceInvariant, TokensInvariant, PTL DEF Spec

----------------------------------------------------------------------------
(* The literal of a token is the text it was read from.                    *)

Shown(s) == {j \in Nat : s[j] # NUL}

\* l is the runes of s from the a-th to the b-th, but for the marks of the end.
SpelledIn(s, l, a, b) ==
  /\ Len(l) = Tally(Shown(s), a, b)
  /\ \A j \in a .. b : s[j] # NUL => l[Tally(Shown(s), a, j)] = s[j]

\* The model's Spells says so of the runes fetched.
LEMMA CountedIsATally ==
  ASSUME NEW a \in Nat, NEW b
  PROVE  /\ Counted(a, b) = Tally(Shown(seen), a, b)
         /\ Counted(a, b)' = Tally(Shown(seen'), a, b)
<1>1. {j \in a .. b : seen[j] # NUL} = {j \in a .. b : j \in Shown(seen)}
  BY DEF Shown
<1>2. {j \in a .. b : seen'[j] # NUL} = {j \in a .. b : j \in Shown(seen')}
  BY DEF Shown
<1>3. Counted(a, b) = Tally(Shown(seen), a, b)
  BY <1>1 DEF Counted, Tally
<1>4. Counted(a, b)' = Tally(Shown(seen'), a, b)
  BY <1>2 DEF Counted, Tally
<1>5. QED
  BY <1>3, <1>4

\* The model's Spells says so of the runes fetched.
LEMMA SpellsIsSpelledIn ==
  ASSUME NEW l, NEW a \in Nat, NEW b, SpelledIn(seen, l, a, b)
  PROVE  Spells(l, a, b)
BY CountedIsATally DEF Spells, SpelledIn

\* Nothing spells nothing.
LEMMA SpelledNone ==
  ASSUME NEW s, NEW a \in Nat, NEW b \in Nat, a = b + 1
  PROVE  SpelledIn(s, <<>>, a, b)
<1>1. Tally(Shown(s), a, b) = 0
  <2>1. a \in Int /\ b \in Int /\ a > b
    OBVIOUS
  <2>2. QED
    BY <2>1, TallyEmpty
<1>2. Len(<<>>) = 0 /\ \A j \in a .. b : FALSE
  OBVIOUS
<1>3. QED
  BY <1>1, <1>2 DEF SpelledIn

\* The marks of the end before a rune that is shown leave it its place.
LEMMA TallyOfShown ==
  ASSUME NEW s, NEW a \in Nat, NEW b \in Nat, NEW j \in a .. b, s[j] # NUL
  PROVE  Tally(Shown(s), a, j) \in 1 .. Tally(Shown(s), a, b)
<1>1. j \in Nat /\ j - 1 \in Int /\ a \in Int /\ b \in Int /\ a <= (j - 1) + 1
      /\ (j - 1) + 1 = j /\ j <= b
  OBVIOUS
<1>2. Tally(Shown(s), a, (j - 1) + 1) =
        IF (j - 1) + 1 \in Shown(s) THEN Tally(Shown(s), a, j - 1) + 1
                                    ELSE Tally(Shown(s), a, j - 1)
  BY <1>1, TallyNext
<1>3. j \in Shown(s)
  BY <1>1 DEF Shown
<1>4. /\ Tally(Shown(s), a, j - 1) \in Nat /\ Tally(Shown(s), a, j) \in Nat
      /\ Tally(Shown(s), a, b) \in Nat
  <2>1. Tally(Shown(s), a, j - 1) \in Nat
    <3>1. PICK i \in Int : i = j - 1
      BY <1>1
    <3>2. Tally(Shown(s), a, i) \in Nat
      BY TallyType
    <3>3. QED
      BY <3>1, <3>2
  <2>2. Tally(Shown(s), a, j) \in Nat
    BY <1>1, TallyType
  <2>3. Tally(Shown(s), a, b) \in Nat
    BY <1>1, TallyType
  <2>4. QED
    BY <2>1, <2>2, <2>3
<1>5. Tally(Shown(s), a, j) <= Tally(Shown(s), a, b)
  BY <1>1, TallyGrows
<1>6. Tally(Shown(s), a, j) = Tally(Shown(s), a, j - 1) + 1
  BY <1>1, <1>2, <1>3
<1>7. QED
  BY <1>4, <1>5, <1>6

\* One rune more, and one mark of the end more.
LEMMA SpelledMore ==
  ASSUME NEW s, NEW l \in Seq(Rune), NEW a \in Nat, NEW b \in Nat, a <= b + 1,
         SpelledIn(s, l, a, b), s[b + 1] \in Rune
  PROVE  /\ s[b + 1] # NUL => SpelledIn(s, Append(l, s[b + 1]), a, b + 1)
         /\ s[b + 1] = NUL => SpelledIn(s, l, a, b + 1)
<1> DEFINE T(j) == Tally(Shown(s), a, j)
<1>1. T(b + 1) = IF b + 1 \in Shown(s) THEN T(b) + 1 ELSE T(b)
  BY TallyNext
<1>2. b + 1 \in Shown(s) <=> s[b + 1] # NUL
  BY DEF Shown
<1>3. T(b) \in Nat /\ Len(l) = T(b)
  BY TallyType DEF SpelledIn
<1>4. \A j \in a .. b : s[j] # NUL => T(j) \in 1 .. Len(l) /\ l[T(j)] = s[j]
  BY <1>3, TallyOfShown DEF SpelledIn
<1> HIDE DEF T
<1>5. ASSUME s[b + 1] # NUL PROVE SpelledIn(s, Append(l, s[b + 1]), a, b + 1)
  <2>1. PICK e \in Rune : e = s[b + 1]
    OBVIOUS
  <2>2. Len(Append(l, e)) = Len(l) + 1 /\ Append(l, e)[Len(l) + 1] = e
    BY <1>3
  <2>3. Len(Append(l, e)) = T(b + 1)
    BY <2>2, <1>1, <1>2, <1>3, <1>5
  <2>4. ASSUME NEW j \in a .. b + 1, s[j] # NUL PROVE Append(l, e)[T(j)] = s[j]
    <3>1. CASE j \in a .. b
      <4>1. T(j) \in 1 .. Len(l) /\ l[T(j)] = s[j]
        BY <3>1, <2>4, <1>4
      <4>2. \A i \in 1 .. Len(l) : Append(l, e)[i] = l[i]
        BY AppendProperties
      <4>3. QED
        BY <4>1, <4>2
    <3>2. CASE j = b + 1
      <4>1. T(j) = Len(l) + 1
        BY <3>2, <1>1, <1>2, <1>3, <1>5
      <4>2. QED
        BY <3>2, <4>1, <2>1, <2>2
    <3>3. j \in a .. b \/ j = b + 1
      BY <2>4
    <3>4. QED
      BY <3>1, <3>2, <3>3
  <2>5. QED
    BY <2>1, <2>3, <2>4 DEF SpelledIn, T
<1>6. ASSUME s[b + 1] = NUL PROVE SpelledIn(s, l, a, b + 1)
  <2>1. Len(l) = T(b + 1)
    BY <1>1, <1>2, <1>3, <1>6
  <2>2. ASSUME NEW j \in a .. b + 1, s[j] # NUL PROVE l[T(j)] = s[j]
    <3>1. j \in a .. b
      BY <2>2, <1>6
    <3>2. QED
      BY <3>1, <2>2, <1>4
  <2>3. QED
    BY <2>1, <2>2 DEF SpelledIn, T
<1>7. QED
  BY <1>5, <1>6

\* Runes elsewhere do not matter.
LEMMA SpelledSame ==
  ASSUME NEW s, NEW u, NEW l, NEW a \in Nat, NEW b \in Nat, SpelledIn(s, l, a, b),
         \A j \in a .. b : u[j] = s[j]
  PROVE  SpelledIn(u, l, a, b)
<1>1. \A j \in a .. b : j \in Shown(s) <=> j \in Shown(u)
  BY DEF Shown
<1>2. ASSUME NEW j \in a .. b PROVE Tally(Shown(u), a, j) = Tally(Shown(s), a, j)
  <2>1. \A i \in a .. j : i \in a .. b
    OBVIOUS
  <2>2. \A i \in a .. j : i \in Shown(u) <=> i \in Shown(s)
    BY <2>1, <1>1
  <2>3. QED
    BY <2>2, TallySame
<1>3. Tally(Shown(u), a, b) = Tally(Shown(s), a, b)
  BY <1>1, TallySame
<1>4. QED
  BY <1>2, <1>3 DEF SpelledIn

Idents == {"identPos", "ident", "bare"}

\* What has been collected of a token, and what the scanner will put before it,
\* is what has been read of it.  A string is spelled while it has no escapes.
LitInv ==
  /\ pc \in {"ws", "digits", "fraction", "point", "unit", "units", "mixed"} =>
       SpelledIn(seen, lit, from + 1, Consumed)
  /\ pc \in Idents /\ caller = "ident" => SpelledIn(seen, lit, from + 1, Consumed)
  /\ pc \in Idents /\ caller = "param" =>
       SpelledIn(seen, <<"$">> \o lit, from + 1, Consumed)
  /\ pc = "tenths" => SpelledIn(seen, Append(lit, "."), from + 1, Consumed)
  /\ pc \in {"dot", "quote"} => lit = <<>> \/ caller # "scan"
  /\ pc = "dot" => lit = <<>>
  /\ pc \in {"string", "escape"} /\ caller = "scan" /\ ~ HasRead("\\") =>
       SpelledIn(seen, <<"'">> \o lit, from + 1, Consumed)
  /\ pc = "escape" => HasRead("\\")

\* What LiteralIsTheText says of one token.
Told(t) ==
  /\ t.from \in Nat /\ t.to \in Nat /\ t.to <= Len(seen)
  /\ t.tok \in {"WS", "INTEGER", "DURATIONVAL"} \/ Unquoted(t) =>
       SpelledIn(seen, t.lit, t.from + 1, t.to)
  /\ t.tok = "NUMBER" => \/ SpelledIn(seen, t.lit, t.from + 1, t.to)
                         \/ SpelledIn(seen, Append(t.lit, "."), t.from + 1, t.to)
  /\ t.tok = "STRING" /\ Without(t, "\\") =>
       SpelledIn(seen, Append(<<"'">> \o t.lit, "'"), t.from + 1, t.to)

\* What has been spelled so far goes on with the rune that is read.
LEMMA ReadSpells ==
  ASSUME ReaderInv, [Next]_vars, from \in Nat, from <= Consumed,
         NEW l \in Seq(Rune), SpelledIn(seen, l, from + 1, Consumed)
  PROVE  /\ Take(0) /\ Next1.ch # NUL =>
              SpelledIn(seen', Append(l, Next1.ch), from + 1, Consumed')
         /\ Take(0) /\ Next1.ch = NUL => SpelledIn(seen', l, from + 1, Consumed')
         /\ Take(1) => SpelledIn(seen', l, from + 1, Consumed')
<1>1. PICK C \in Nat, a \in Nat : C = Consumed /\ a = from + 1
  BY StepReads
<1> PICK c : c = Next1.ch
  OBVIOUS
<1>2. /\ Len(seen) \in Nat /\ C <= Len(seen)
      /\ \A j \in 1 .. Len(seen) : seen'[j] = seen[j]
      /\ Take(0) => c \in Rune /\ seen'[C + 1] = c
      /\ Take(0) => Consumed' = C + 1
      /\ Take(1) => Consumed' = C
  BY <1>1, StepReads
<1>3. a <= C + 1 /\ \A j \in a .. C : j \in 1 .. Len(seen)
  BY <1>1, <1>2
<1>4. SpelledIn(seen', l, a, C)
  <2>1. \A j \in a .. C : seen'[j] = seen[j]
    BY <1>2, <1>3
  <2>2. SpelledIn(seen, l, a, C)
    BY <1>1
  <2>3. QED
    BY <2>1, <2>2, SpelledSame
<1>5. ASSUME Take(0)
      PROVE  /\ c # NUL => SpelledIn(seen', Append(l, c), a, C + 1)
             /\ c = NUL => SpelledIn(seen', l, a, C + 1)
  <2>1. seen'[C + 1] \in Rune /\ seen'[C + 1] = c
    BY <1>2, <1>5
  <2>2. QED
    BY <1>3, <1>4, <2>1, SpelledMore
<1>6. QED
  BY <1>1, <1>2, <1>4, <1>5

\* The first rune of a token is the first of its literal, or will be.
LEMMA ScanLit ==
  ASSUME ReaderInv, Scan
  PROVE  LitInv'
<1>1. [Next]_vars
  BY DEF Next
<1>2. PICK C \in Nat : C = Consumed
  BY <1>1, StepReads
<1> PICK c : c = Next1.ch
  OBVIOUS
<1>3. /\ Take(0) => c \in Rune /\ seen'[C + 1] = c /\ Consumed' = C + 1
      /\ Take(1) => Consumed' = C
  BY <1>1, <1>2, StepReads
<1>4. SpelledIn(seen', <<>>, C + 1, C)
  <2>1. PICK a \in Nat : a = C + 1
    OBVIOUS
  <2>2. SpelledIn(seen', <<>>, a, C)
    BY <2>1, SpelledNone
  <2>3. QED
    BY <2>1, <2>2
<1>5. ASSUME Take(0), c # NUL PROVE SpelledIn(seen', <<c>>, C + 1, C + 1)
  <2>1. <<>> \in Seq(Rune) /\ C + 1 \in Nat /\ C + 1 <= C + 1
    OBVIOUS
  <2>2. seen'[C + 1] = c /\ seen'[C + 1] \in Rune
    BY <1>3, <1>5
  <2>3. SpelledIn(seen', Append(<<>>, seen'[C + 1]), C + 1, C + 1)
    BY <1>4, <1>5, <2>1, <2>2, SpelledMore
  <2>4. Append(<<>>, c) = <<c>>
    OBVIOUS
  <2>5. QED
    BY <2>2, <2>3, <2>4
<1>6. ASSUME NEW p, StartAt(p) PROVE from' = C
  BY <1>2, <1>6 DEF StartAt
<1>7. ASSUME NEW p, Goto(p) PROVE pc' = p
  BY <1>7 DEF Goto
<1>8. CASE ScanWhitespace
  <2>1. /\ pc' = "ws" /\ from' = C /\ Take(0) /\ lit' = <<c>>
        /\ c \in Blank \cup {LF}
    BY <1>2, <1>6, <1>7, <1>8 DEF ScanWhitespace, IsWhitespace
  <2>2. c # NUL
    BY <2>1, NotTheEnd
  <2>3. SpelledIn(seen', lit', from' + 1, Consumed')
    BY <2>1, <2>2, <1>3, <1>5
  <2>4. QED
    BY <2>1, <2>3 DEF LitInv, Idents
<1>9. CASE ScanIdent
  <2>1. /\ pc' = "identPos" /\ from' = C /\ Take(1) /\ caller' = "ident" /\ lit' = <<>>
    BY <1>2, <1>6, <1>7, <1>9 DEF ScanIdent
  <2>2. SpelledIn(seen', lit', from' + 1, Consumed')
    BY <2>1, <1>3, <1>4
  <2>3. QED
    BY <2>1, <2>2 DEF LitInv, Idents
<1>10. CASE ScanParam
  <2>1. /\ pc' = "identPos" /\ from' = C /\ Take(0) /\ caller' = "param" /\ lit' = <<>>
        /\ c = "$"
    BY <1>2, <1>6, <1>7, <1>10 DEF ScanParam
  <2>2. c # NUL
    BY <2>1, NotTheEnd
  <2>3. <<"$">> \o lit' = <<c>>
    BY <2>1
  <2>4. SpelledIn(seen', <<"$">> \o lit', from' + 1, Consumed')
    BY <2>1, <2>2, <2>3, <1>3, <1>5
  <2>5. QED
    BY <2>1, <2>4 DEF LitInv, Idents
<1>11. CASE ScanQuoted
  <2>1. pc' = "quote" /\ lit' = <<>>
    BY <1>7, <1>11 DEF ScanQuoted
  <2>2. QED
    BY <2>1 DEF LitInv, Idents
<1>12. CASE ScanNumber
  <2>1. /\ pc' = "digits" /\ from' = C /\ Take(1) /\ lit' = <<>>
    BY <1>2, <1>6, <1>7, <1>12 DEF ScanNumber
  <2>2. SpelledIn(seen', lit', from' + 1, Consumed')
    BY <2>1, <1>3, <1>4
  <2>3. QED
    BY <2>1, <2>2 DEF LitInv, Idents
<1>13. CASE ScanOperator
  <2>1. pc' \in {"dot", "second"} /\ lit' = <<>>
    BY <1>7, <1>13 DEF ScanOperator
  <2>2. QED
    BY <2>1 DEF LitInv, Idents
<1>14. CASE ScanSingle \/ ScanEOF \/ ScanIllegal
  <2>1. pc' \in {"idle", "done"}
    BY <1>14, AfterReturn DEF ScanSingle, ScanEOF, ScanIllegal
  <2>2. QED
    BY <2>1 DEF LitInv, Idents
<1>15. QED
  BY <1>8, <1>9, <1>10, <1>11, <1>12, <1>13, <1>14 DEF Scan

\* Between tokens, and in those that are not looked at, nothing is claimed.
LEMMA LitBetween ==
  ASSUME pc' \in {"idle", "done", "second", "line", "block", "star", "regex", "regexEscape"}
  PROVE  LitInv'
BY DEF LitInv, Idents

\* A token that is returned with the text it was read from.
GrownLit == toks' = toks \/ \E r : toks' = Append(toks, r) /\ Told(r)'

\* The literal l is the text that was read of a token of the kind t.
IsText(t, l) ==
  /\ t \in {"WS", "INTEGER", "DURATIONVAL"} => SpelledIn(seen', l, from' + 1, Consumed')
  /\ t \in {"IDENT", "BOUNDPARAM"} /\ ~ HasRead("\"")' =>
       SpelledIn(seen', l, from' + 1, Consumed')
  /\ t = "NUMBER" => \/ SpelledIn(seen', l, from' + 1, Consumed')
                     \/ SpelledIn(seen', Append(l, "."), from' + 1, Consumed')
  /\ t = "STRING" /\ ~ HasRead("\\")' =>
       SpelledIn(seen', Append(<<"'">> \o l, "'"), from' + 1, Consumed')

\* A token that is returned with its text.
LEMMA TokenTold ==
  ASSUME ReaderInv, [Next]_vars, from' \in Nat, NEW t, NEW p, NEW l, Return(t, p, l),
         IsText(t, l)
  PROVE  GrownLit
<1>1. PICK r : r = [tok |-> t, pos |-> p, lit |-> l, from |-> from', to |-> Consumed']
  OBVIOUS
<1>2. toks' = Append(toks, r)
  BY <1>1 DEF Return, Consumed
<1>3. r.from = from' /\ r.to = Consumed' /\ r.tok = t /\ r.lit = l
  BY <1>1
<1>4. Consumed' \in Nat /\ Consumed' <= Len(seen')
  BY NextReaderInv DEF ReaderInv, Reader, UnreadBound, Consumed
<1>5. \A x : Without(r, x)' <=> ~ HasRead(x)'
  BY <1>3 DEF Without, HasRead
<1>6. Unquoted(r)' => t \in {"IDENT", "BOUNDPARAM"} /\ ~ HasRead("\"")'
  BY <1>3, <1>5 DEF Unquoted
<1>7. Told(r)'
  <2>1. r.from \in Nat /\ r.to \in Nat /\ r.to <= Len(seen')
    BY <1>3, <1>4
  <2>2. r.tok \in {"WS", "INTEGER", "DURATIONVAL"} \/ Unquoted(r)' =>
          SpelledIn(seen', r.lit, r.from + 1, r.to)
    <3>1. CASE t \in {"WS", "INTEGER", "DURATIONVAL"}
      BY <3>1, <1>3 DEF IsText
    <3>2. CASE Unquoted(r)'
      BY <3>2, <1>3, <1>6 DEF IsText
    <3>3. QED
      BY <3>1, <3>2, <1>3
  <2>3. r.tok = "NUMBER" => \/ SpelledIn(seen', r.lit, r.from + 1, r.to)
                            \/ SpelledIn(seen', Append(r.lit, "."), r.from + 1, r.to)
    BY <1>3 DEF IsText
  <2>4. r.tok = "STRING" /\ Without(r, "\\")' =>
          SpelledIn(seen', Append(<<"'">> \o r.lit, "'"), r.from + 1, r.to)
    BY <1>3, <1>5 DEF IsText
  <2>5. QED
    BY <2>1, <2>2, <2>3, <2>4 DEF Told
<1>8. QED
  BY <1>2, <1>7 DEF GrownLit

\* The first rune of a token.
LEMMA ScanTold ==
  ASSUME ReaderInv, Scan
  PROVE  GrownLit
<1>1. [Next]_vars
  BY DEF Next
<1>2. CASE ScanWhitespace \/ ScanIdent \/ ScanParam \/ ScanQuoted \/ ScanNumber \/ ScanOperator
  BY <1>2 DEF ScanWhitespace, ScanIdent, ScanParam, ScanQuoted, ScanNumber, ScanOperator,
              Goto, GrownLit
<1>3. CASE ScanSingle \/ ScanEOF \/ ScanIllegal
  <2>1. from' \in Nat
    BY <1>1, <1>3, StepReads DEF ScanSingle, ScanEOF, ScanIllegal, StartAt
  <2>2. PICK t, p, l : /\ Return(t, p, l)
                       /\ t \notin {"WS", "INTEGER", "DURATIONVAL", "IDENT", "BOUNDPARAM",
                                    "NUMBER", "STRING"}
    <3>1. CASE ScanSingle
      <4>1. PICK c \in DOMAIN Operator1 : Return(Operator1[c], Next1.pos, <<>>)
        BY <3>1 DEF ScanSingle
      <4>2. Operator1[c] \notin {"WS", "INTEGER", "DURATIONVAL", "IDENT", "BOUNDPARAM",
                                 "NUMBER", "STRING"}
        BY DEF Operator1
      <4>3. QED
        BY <4>1, <4>2
    <3>2. CASE ScanEOF
      <4>1. Return("EOF", Next1.pos, <<>>)
        BY <3>2 DEF ScanEOF
      <4>2. QED
        BY <4>1
    <3>3. CASE ScanIllegal
      <4>1. Return("ILLEGAL", Next1.pos, <<Next1.ch>>)
        BY <3>3 DEF ScanIllegal
      <4>2. QED
        BY <4>1
    <3>4. QED
      BY <1>3, <3>1, <3>2, <3>3
  <2>3. QED
    BY <1>1, <2>1, <2>2, TokenTold DEF IsText
<1>4. QED
  BY <1>2, <1>3 DEF Scan

\* Every further rune of a token is collected, and returned with it.
LEMMA ContinueTold ==
  ASSUME ReaderInv, PlaceInv, TokensTyped, LitInv, Continue
  PROVE  LitInv' /\ GrownLit
<1>1. [Next]_vars
  BY DEF Next
<1>2. PICK c : c = Next1.ch
  OBVIOUS
<1>3. PICK x \in Seq(Rune) : x = lit
  BY DEF TokensTyped, PartsTyped
<1>4. /\ from \in Nat
      /\ pc \notin {"idle", "done"} => from <= Consumed
      /\ Consumed \in Nat /\ Consumed' \in Nat
      /\ Take(0) => Consumed' = Consumed + 1
      /\ Take(1) => Consumed' = Consumed
      /\ Take(0) \/ Take(1) => c \in Rune
  BY <1>1, <1>2, StepReads DEF PlaceInv
<1>5. ASSUME NEW l \in Seq(Rune), SpelledIn(seen, l, from + 1, Consumed),
             pc \notin {"idle", "done"}
      PROVE  /\ Take(0) /\ c # NUL => SpelledIn(seen', Append(l, c), from + 1, Consumed')
             /\ Take(0) /\ c = NUL => SpelledIn(seen', l, from + 1, Consumed')
             /\ Take(1) => SpelledIn(seen', l, from + 1, Consumed')
  BY <1>1, <1>2, <1>4, <1>5, ReadSpells
<1>6. ASSUME NEW p, Goto(p) PROVE pc' = p /\ GrownLit
  BY <1>6 DEF Goto, GrownLit
<1>7. ASSUME NEW p, NEW y, Collect(p, y)
      PROVE  pc' = p /\ GrownLit /\ Take(0) /\ lit' = Append(x, y)
  BY <1>3, <1>6, <1>7 DEF Collect
<1>8. ASSUME NEW t, NEW p, NEW l, Return(t, p, l), from' = from,
             t \notin {"WS", "INTEGER", "DURATIONVAL", "IDENT", "BOUNDPARAM", "NUMBER",
                       "STRING"}
      PROVE  LitInv' /\ GrownLit
  <2>1. IsText(t, l)
    BY <1>8 DEF IsText
  <2>2. QED
    BY <2>1, <1>1, <1>4, <1>8, AfterReturn, LitBetween, TokenTold
<1>9. ASSUME NEW t, NEW p, NEW l, Return(t, p, l), from' = from, t # "STRING",
             SpelledIn(seen', l, from + 1, Consumed')
      PROVE  LitInv' /\ GrownLit
  <2>1. IsText(t, l)
    BY <1>9 DEF IsText
  <2>2. QED
    BY <2>1, <1>1, <1>4, <1>9, AfterReturn, LitBetween, TokenTold
<1>10. CASE Dot
  <2>1. pc = "dot" /\ from' = from /\ x = <<>> /\ lit' = <<>>
    BY <1>3, <1>10 DEF Dot, token, LitInv
  <2>2. CASE Return("DOT", pos, <<>>)
    BY <2>1, <2>2, <1>8
  <2>3. CASE Take(2) /\ Goto("digits")
    <3>1. pc' = "digits" /\ GrownLit
      BY <2>3, <1>6
    <3>2. Consumed = from + 1 /\ Consumed' = Consumed - 1
      BY <2>1, <2>3, <1>1, StepReads DEF PlaceInv, NumberPlace
    <3>3. PICK a \in Nat, b \in Nat : a = from + 1 /\ b = Consumed' /\ a = b + 1
      BY <3>2, <1>4
    <3>4. SpelledIn(seen', <<>>, a, b)
      BY <3>3, SpelledNone
    <3>5. SpelledIn(seen', lit', from' + 1, Consumed')
      BY <2>1, <3>3, <3>4
    <3>6. QED
      BY <3>1, <3>5 DEF LitInv, Idents
  <2>4. QED
    BY <1>10, <2>2, <2>3 DEF Dot
<1>11. CASE Second
  <2>1. from' = from /\ first \in TwoRune
    BY <1>11 DEF Second, token, PlaceInv
  <2>2. \/ Goto("line") \/ Goto("block")
        \/ <<first, c>> \in DOMAIN Operator2 /\ Return(Operator2[<<first, c>>], pos, <<>>)
        \/ first = "!" /\ Return("ILLEGAL", pos, <<"!">>)
        \/ first # "!" /\ Return(Operator1[first], pos, <<>>)
    BY <1>2, <1>11 DEF Second
  <2>3. /\ \A q \in DOMAIN Operator1 :
             Operator1[q] \notin {"WS", "INTEGER", "DURATIONVAL", "IDENT", "BOUNDPARAM",
                                  "NUMBER", "STRING"}
        /\ \A q \in DOMAIN Operator2 :
             Operator2[q] \notin {"WS", "INTEGER", "DURATIONVAL", "IDENT", "BOUNDPARAM",
                                  "NUMBER", "STRING"}
    BY DEF Operator1, Operator2
  <2>4. first # "!" => first \in DOMAIN Operator1
    BY <2>1, OperatorTokens
  <2>5. CASE Goto("line") \/ Goto("block")
    BY <2>5, <1>6, LitBetween
  <2>6. CASE <<first, c>> \in DOMAIN Operator2 /\ Return(Operator2[<<first, c>>], pos, <<>>)
    BY <2>1, <2>3, <2>6, <1>8
  <2>7. CASE first = "!" /\ Return("ILLEGAL", pos, <<"!">>)
    BY <2>1, <2>7, <1>8
  <2>8. CASE first # "!" /\ Return(Operator1[first], pos, <<>>)
    BY <2>1, <2>3, <2>4, <2>8, <1>8
  <2>9. QED
    BY <2>2, <2>5, <2>6, <2>7, <2>8
<1>12. CASE SkipUntilNewline \/ SkipUntilEndComment \/ Star
  <2>1. from' = from
    BY <1>12 DEF SkipUntilNewline, SkipUntilEndComment, Star, token
  <2>2. \/ Goto("line") \/ Goto("block") \/ Goto("star")
        \/ Return("COMMENT", pos, <<>>) \/ Return("ILLEGAL", pos, <<>>)
    BY <1>12 DEF SkipUntilNewline, SkipUntilEndComment, Star
  <2>3. QED
    BY <2>1, <2>2, <1>6, <1>8, LitBetween
<1>13. CASE Whitespace
  <2>1. pc = "ws" /\ from' = from /\ SpelledIn(seen, x, from + 1, Consumed)
    BY <1>3, <1>13 DEF Whitespace, LitInv
  <2>2. CASE c \in Blank \cup {LF}
    <3>1. Collect("ws", c)
      BY <1>2, <1>13, <2>2 DEF Whitespace, IsWhitespace
    <3>2. c # NUL
      BY <2>2, NotTheEnd
    <3>3. pc' = "ws" /\ GrownLit /\ SpelledIn(seen', lit', from' + 1, Consumed')
      BY <2>1, <3>1, <3>2, <1>5, <1>7
    <3>4. QED
      BY <3>3 DEF LitInv, Idents
  <2>3. CASE c \notin Blank \cup {LF}
    <3>1. Return("WS", pos, x) /\ ((c = NUL /\ Take(0)) \/ Take(1))
      BY <1>2, <1>3, <1>13, <2>3 DEF Whitespace, IsWhitespace
    <3>2. SpelledIn(seen', x, from + 1, Consumed')
      BY <2>1, <3>1, <1>5
    <3>3. QED
      BY <2>1, <3>1, <3>2, <1>9
  <2>4. QED
    BY <2>2, <2>3
<1>14. CASE IdentPos \/ Ident \/ Bare
  <2>1. PICK y \in Seq(Rune) : y = IF caller = "param" THEN <<"$">> \o x ELSE x
    <3>1. <<"$">> \in Seq(Rune)
      BY NamedRunes
    <3>2. <<"$">> \o x \in Seq(Rune)
      BY <3>1
    <3>3. QED
      BY <3>2
  <2>2. /\ pc \in Idents /\ from' = from /\ caller' = caller
        /\ caller \in {"ident", "param"}
    BY <1>14 DEF IdentPos, Ident, Bare, Idents, PlaceInv, IdentPlace
  <2>3. SpelledIn(seen, y, from + 1, Consumed) /\ pc \notin {"idle", "done"}
    BY <2>1, <2>2, <1>3 DEF LitInv, Idents
  <2>4. ASSUME lit' = lit, pc' \in Idents, (Take(0) /\ c = NUL) \/ Take(1)
        PROVE  LitInv'
    <3>1. SpelledIn(seen', y, from' + 1, Consumed')
      BY <2>2, <2>3, <2>4, <1>5
    <3>2. CASE caller = "param"
      <4>1. SpelledIn(seen', <<"$">> \o lit', from' + 1, Consumed')
        BY <2>1, <2>4, <3>1, <3>2, <1>3
      <4>2. QED
        BY <2>2, <2>4, <3>2, <4>1 DEF LitInv, Idents
    <3>3. CASE caller = "ident"
      <4>1. SpelledIn(seen', lit', from' + 1, Consumed')
        BY <2>1, <2>4, <3>1, <3>3, <1>3
      <4>2. QED
        BY <2>2, <2>4, <3>3, <4>1 DEF LitInv, Idents
    <3>4. QED
      BY <2>2, <3>2, <3>3
  <2>5. CASE IdentPos
    <3>1. pc' = "ident" /\ lit' = lit /\ Take(1) /\ GrownLit
      BY <2>5, <1>6 DEF IdentPos
    <3>2. QED
      BY <3>1, <2>4 DEF Idents
  <2>6. CASE Bare /\ IsIdentChar(c)
    <3>1. Collect("bare", c)
      BY <1>2, <2>6 DEF Bare
    <3>2. c # NUL
      BY <2>6, NotTheEnd DEF IsIdentChar, IsLetter, IsDigit
    <3>3. pc' = "bare" /\ GrownLit /\ Take(0) /\ lit' = Append(x, c)
      BY <3>1, <1>7
    <3>4. SpelledIn(seen', Append(y, c), from' + 1, Consumed')
      BY <2>2, <2>3, <3>2, <3>3, <1>5
    <3>5. CASE caller = "param"
      <4>1. Append(<<"$">> \o x, c) = <<"$">> \o Append(x, c)
        <5>1. "$" \in Rune /\ c \in Rune
          BY <3>3, <1>4, NamedRunes
        <5>2. QED
          BY <5>1
      <4>2. SpelledIn(seen', <<"$">> \o lit', from' + 1, Consumed')
        BY <2>1, <3>3, <3>4, <3>5, <4>1
      <4>3. QED
        BY <2>2, <3>3, <3>5, <4>2 DEF LitInv, Idents
    <3>6. CASE caller = "ident"
      <4>1. SpelledIn(seen', lit', from' + 1, Consumed')
        BY <2>1, <3>3, <3>4, <3>6
      <4>2. QED
        BY <2>2, <3>3, <3>6, <4>1 DEF LitInv, Idents
    <3>7. QED
      BY <2>2, <3>3, <3>5, <3>6
  <2>7. CASE Bare /\ ~ IsIdentChar(c)
    <3>1. /\ pc' = "ident" /\ lit' = lit /\ GrownLit
          /\ (Take(0) /\ c = NUL) \/ Take(1)
      BY <1>2, <2>7, <1>6 DEF Bare
    <3>2. QED
      BY <3>1, <2>4 DEF Idents
  <2>8. CASE Ident /\ c = "\""
    <3>1. Goto("quote") /\ lit' = <<>>
      <4>1. ~ IsIdentChar(c)
        BY <2>8, TextAssumption DEF IsIdentChar, IsLetter, IsDigit
      <4>2. QED
        BY <1>2, <2>8, <4>1 DEF Ident
    <3>2. pc' = "quote" /\ GrownLit
      BY <3>1, <1>6
    <3>3. QED
      BY <3>1, <3>2 DEF LitInv, Idents
  <2>9. CASE Ident /\ c # "\"" /\ IsIdentChar(c)
    <3>1. pc' = "bare" /\ lit' = lit /\ Take(1) /\ GrownLit
      BY <1>2, <2>9, <1>6 DEF Ident
    <3>2. QED
      BY <3>1, <2>4 DEF Idents
  <2>10. CASE Ident /\ c # "\"" /\ ~ IsIdentChar(c)
    <3>1. EndIdent /\ ((Take(0) /\ c = NUL) \/ Take(1))
      BY <1>2, <2>10 DEF Ident
    <3>2. SpelledIn(seen', y, from + 1, Consumed')
      BY <2>3, <3>1, <1>5
    <3>3. CASE Return("KEYWORD", pos, <<>>)
      BY <2>2, <3>3, <1>8
    <3>4. CASE Return("BOUNDPARAM", pos, y) \/ Return("IDENT", pos, y)
      BY <2>2, <3>2, <3>4, <1>9
    <3>5. QED
      BY <2>1, <3>1, <3>3, <3>4, <1>3 DEF EndIdent
  <2>11. QED
    BY <1>14, <2>5, <2>6, <2>7, <2>8, <2>9, <2>10
<1>15. CASE Quote
  <2>1. /\ pc = "quote" /\ pc' = "string" /\ from' = from /\ caller' = caller
        /\ lit' = lit /\ Take(0) /\ GrownLit
    BY <1>15, <1>6 DEF Quote
  <2>2. caller = "scan" => SpelledIn(seen', <<"'">> \o lit', from' + 1, Consumed')
    <3> SUFFICES ASSUME caller = "scan"
                 PROVE  SpelledIn(seen', <<"'">> \o lit', from' + 1, Consumed')
      OBVIOUS
    <3>1. Consumed = from /\ Pushed({"'"}) /\ x = <<>>
      BY <2>1, <1>3 DEF PlaceInv, StringPlace, LitInv
    <3>2. c = "'"
      <4>1. PICK C \in Nat : C = Consumed
        BY <1>4
      <4>2. C < Len(seen) /\ seen[C + 1] = "'"
        BY <3>1, <4>1 DEF Pushed
      <4>3. C < Len(seen)
        BY <4>2
      <4>4. Len(seen) \in Nat /\ seen'[C + 1] = c /\ \A j \in 1 .. Len(seen) : seen'[j] = seen[j]
        BY <1>1, <1>2, <2>1, <4>1, StepReads
      <4>5. C + 1 \in 1 .. Len(seen)
        BY <4>1, <4>3, <4>4
      <4>6. QED
        BY <4>2, <4>4, <4>5
    <3>3. c # NUL
      BY <3>2, NotTheEnd
    <3>4. SpelledIn(seen, <<>>, from + 1, Consumed)
      <4>1. PICK a \in Nat, b \in Nat : a = from + 1 /\ b = Consumed /\ a = b + 1
        BY <3>1, <1>4
      <4>2. SpelledIn(seen, <<>>, a, b)
        BY <4>1, SpelledNone
      <4>3. QED
        BY <4>1, <4>2
    <3>5. SpelledIn(seen', Append(<<>>, c), from + 1, Consumed')
      <4>1. <<>> \in Seq(Rune) /\ pc \notin {"idle", "done"}
        BY <2>1
      <4>2. QED
        BY <2>1, <3>3, <3>4, <4>1, <1>5
    <3>6. Append(<<>>, c) = <<"'">> \o lit'
      BY <2>1, <3>1, <3>2, <1>3
    <3>7. QED
      BY <2>1, <3>5, <3>6
  <2>3. QED
    BY <2>1, <2>2 DEF LitInv, Idents
<1>16. CASE String \/ Escape
  <2>1. /\ pc \in {"string", "escape"} /\ from' = from /\ caller' = caller /\ Take(0)
        /\ first' = first
    BY <1>16 DEF String, Escape, Collect
  <2>2. ~ HasRead("\\")' => ~ HasRead("\\") /\ c # "\\"
    <3>1. Consumed <= Consumed'
      BY <2>1, <1>4
    <3>2. HasRead("\\") => HasRead("\\")'
      BY <2>1, <3>1, <1>1, <1>4, StillRead
    <3>3. c = "\\" => HasRead("\\")'
      <4>1. seen'[Consumed + 1] = c /\ Consumed' = Consumed + 1
        BY <2>1, <1>1, <1>2, StepReads
      <4>2. Consumed' \in from' + 1 .. Consumed'
        BY <2>1, <4>1, <1>4
      <4>3. QED
        BY <4>1, <4>2 DEF HasRead
    <3>4. QED
      BY <3>2, <3>3
  <2>3. caller = "scan" => first = "'"
    BY <2>1 DEF PlaceInv, StringPlace
  <2>4. ASSUME caller = "scan", ~ HasRead("\\")'
        PROVE  /\ <<"'">> \o x \in Seq(Rune)
               /\ SpelledIn(seen, <<"'">> \o x, from + 1, Consumed)
    <3>1. "'" \in Rune
      BY <2>3, <2>4 DEF TokensTyped, PartsTyped
    <3>2. <<"'">> \o x \in Seq(Rune)
      BY <3>1
    <3>3. SpelledIn(seen, <<"'">> \o lit, from + 1, Consumed)
      BY <2>1, <2>2, <2>4 DEF LitInv
    <3>4. QED
      BY <3>2, <3>3, <1>3
  <2>5. ASSUME caller = "scan", ~ HasRead("\\")', c # NUL
        PROVE  SpelledIn(seen', Append(<<"'">> \o x, c), from' + 1, Consumed')
    <3>1. PICK y \in Seq(Rune) : y = <<"'">> \o x /\ SpelledIn(seen, y, from + 1, Consumed)
      BY <2>4, <2>5
    <3>2. SpelledIn(seen', Append(y, c), from + 1, Consumed')
      BY <2>1, <2>5, <3>1, <1>5
    <3>3. QED
      BY <2>1, <3>1, <3>2
  <2>6. ASSUME NEW t \in {"BADSTRING", "BADESCAPE"}, NEW p, NEW l, EndString(t, p, l)
        PROVE  LitInv' /\ GrownLit
    <3>1. Return(t, p, l) \/ \E k : Return(t, pos, k)
      BY <2>6, <2>1 DEF EndString, PlaceInv
    <3>2. QED
      BY <2>1, <2>6, <3>1, <1>8
  <2>7. CASE String /\ Next1.ch = first /\ EndString("STRING", quotePos, lit)
    <3>1. CASE caller = "scan"
      <4>1. Return("STRING", quotePos, x)
        BY <2>7, <3>1, <1>3 DEF EndString
      <4>2. c = "'" /\ c # NUL
        BY <2>3, <2>7, <3>1, <1>2, NotTheEnd
      <4>3. ~ HasRead("\\")' => SpelledIn(seen', Append(<<"'">> \o x, "'"), from' + 1, Consumed')
        BY <2>5, <3>1, <4>2
      <4>4. LitInv'
        BY <4>1, AfterReturn, LitBetween
      <4>5. from' \in Nat
        BY <2>1, <1>4
      <4>6. GrownLit
        BY <1>1, <4>1, <4>3, <4>5, TokenTold DEF IsText
      <4>7. QED
        BY <4>4, <4>6
    <3>2. CASE caller # "scan"
      <4>1. PICK t \in {"IDENT", "BOUNDPARAM"} : \E l : Return(t, pos, l)
        BY <2>7, <3>2 DEF EndString
      <4>2. HasRead("\"")'
        <5>1. HasRead("\"")
          BY <2>1, <3>2 DEF PlaceInv, StringPlace
        <5>2. Consumed <= Consumed'
          BY <2>1, <1>4
        <5>3. QED
          BY <2>1, <5>1, <5>2, <1>1, <1>4, StillRead
      <4>3. LitInv'
        BY <4>1, AfterReturn, LitBetween
      <4>4. from' \in Nat
        BY <2>1, <1>4
      <4>5. GrownLit
        BY <1>1, <4>1, <4>2, <4>4, TokenTold DEF IsText
      <4>6. QED
        BY <4>3, <4>5
    <3>3. QED
      BY <3>1, <3>2
  <2>8. CASE String /\ Goto("escape") /\ c = "\\"
    <3>1. pc' = "escape" /\ GrownLit /\ HasRead("\\")'
      BY <2>2, <2>8, <1>6
    <3>2. QED
      BY <3>1 DEF LitInv, Idents
  <2>9. CASE String /\ Next1.ch \notin {first, LF, NUL, "\\"} /\ Collect("string", Next1.ch)
    <3>1. pc' = "string" /\ GrownLit /\ lit' = Append(x, c) /\ c # NUL /\ c \in Rune
      BY <2>1, <2>9, <1>2, <1>4, <1>7
    <3>2. ASSUME caller = "scan", ~ HasRead("\\")'
          PROVE  SpelledIn(seen', <<"'">> \o lit', from' + 1, Consumed')
      <4>1. Append(<<"'">> \o x, c) = <<"'">> \o Append(x, c)
        <5>1. "'" \in Rune
          BY <2>3, <3>2 DEF TokensTyped, PartsTyped
        <5>2. QED
          BY <3>1, <5>1
      <4>2. QED
        BY <2>5, <3>1, <3>2, <4>1
    <3>3. QED
      BY <2>1, <3>1, <3>2 DEF LitInv, Idents
  <2>10. CASE String
    <3>1. \/ Next1.ch = first /\ EndString("STRING", quotePos, lit)
          \/ EndString("BADSTRING", quotePos, lit)
          \/ Goto("escape") /\ c = "\\"
          \/ Next1.ch \notin {first, LF, NUL, "\\"} /\ Collect("string", Next1.ch)
      BY <2>10, <1>2 DEF String
    <3>2. QED
      BY <2>6, <2>7, <2>8, <2>9, <2>10, <3>1
  <2>11. CASE Escape
    <3>1. pc = "escape" /\ HasRead("\\")
      BY <2>11 DEF Escape, LitInv
    <3>2. HasRead("\\")'
      BY <2>2, <3>1
    <3>3. CASE \E z : Collect("string", z)
      <4>1. pc' = "string" /\ GrownLit
        BY <3>3, <1>7
      <4>2. QED
        BY <3>2, <4>1 DEF LitInv, Idents
    <3>4. CASE \E p, l : EndString("BADESCAPE", p, l)
      BY <2>6, <3>4
    <3>5. QED
      BY <2>11, <3>3, <3>4 DEF Escape
  <2>12. QED
    BY <1>16, <2>10, <2>11
<1>17. CASE Digits
  <2>1. /\ pc \in {"digits", "fraction"} /\ from' = from
        /\ SpelledIn(seen, x, from + 1, Consumed)
    BY <1>3, <1>17 DEF Digits, LitInv
  <2>2. CASE c \in Digit
    <3>1. Collect(pc, c)
      BY <1>2, <1>17, <2>2 DEF Digits, IsDigit
    <3>2. c # NUL
      BY <2>2, NotTheEnd
    <3>3. pc' = pc /\ GrownLit /\ SpelledIn(seen', lit', from' + 1, Consumed')
      BY <2>1, <3>1, <3>2, <1>5, <1>7
    <3>4. QED
      BY <2>1, <3>3 DEF LitInv, Idents
  <2>3. CASE c \notin Digit
    <3>1. /\ Take(1) /\ lit' = x
          /\ IF pc = "digits" THEN Goto("point") ELSE Return("NUMBER", pos, x)
      BY <1>2, <1>3, <1>17, <2>3 DEF Digits, IsDigit
    <3>2. SpelledIn(seen', x, from + 1, Consumed')
      BY <2>1, <3>1, <1>5
    <3>3. CASE Goto("point")
      <4>1. pc' = "point" /\ GrownLit
        BY <3>3, <1>6
      <4>2. QED
        BY <2>1, <3>1, <3>2, <4>1 DEF LitInv, Idents
    <3>4. CASE Return("NUMBER", pos, x)
      BY <2>1, <3>2, <3>4, <1>9
    <3>5. QED
      BY <3>1, <3>3, <3>4
  <2>4. QED
    BY <2>2, <2>3
<1>18. CASE Point
  <2>1. /\ pc = "point" /\ from' = from /\ lit' = x
        /\ SpelledIn(seen, x, from + 1, Consumed)
    BY <1>3, <1>18 DEF Point, token, LitInv
  <2>2. CASE c = "."
    <3>1. pc' = "tenths" /\ Take(0) /\ GrownLit /\ c # NUL
      BY <1>2, <1>18, <2>2, <1>6, NotTheEnd DEF Point
    <3>2. SpelledIn(seen', Append(lit', "."), from' + 1, Consumed')
      BY <2>1, <2>2, <3>1, <1>5
    <3>3. QED
      BY <3>1, <3>2 DEF LitInv, Idents
  <2>3. CASE c # "."
    <3>1. pc' = "unit" /\ Take(1) /\ GrownLit
      BY <1>2, <1>18, <2>3, <1>6 DEF Point
    <3>2. SpelledIn(seen', lit', from' + 1, Consumed')
      BY <2>1, <3>1, <1>5
    <3>3. QED
      BY <3>1, <3>2 DEF LitInv, Idents
  <2>4. QED
    BY <2>2, <2>3
<1>19. CASE Tenths
  <2>1. PICK y \in Seq(Rune) : y = Append(x, ".")
    <3>1. "." \in Rune
      BY NamedRunes
    <3>2. Append(x, ".") \in Seq(Rune)
      BY <3>1
    <3>3. QED
      BY <3>2
  <2>2. pc = "tenths" /\ from' = from /\ SpelledIn(seen, y, from + 1, Consumed)
    BY <2>1, <1>3, <1>19 DEF Tenths, LitInv
  <2>3. CASE c \in Digit
    <3>1. Take(0) /\ lit' = x \o <<".", c>> /\ Goto("fraction")
      BY <1>2, <1>3, <1>19, <2>3 DEF Tenths, IsDigit
    <3>2. c # NUL /\ c \in Rune /\ pc' = "fraction" /\ GrownLit
      BY <2>3, <3>1, <1>4, <1>6, NotTheEnd
    <3>3. lit' = Append(y, c)
      <4>1. "." \in Rune
        BY NamedRunes
      <4>2. QED
        BY <2>1, <3>1, <3>2, <4>1
    <3>4. SpelledIn(seen', lit', from' + 1, Consumed')
      BY <2>2, <3>1, <3>2, <3>3, <1>5
    <3>5. QED
      BY <3>2, <3>4 DEF LitInv, Idents
  <2>4. CASE c \notin Digit
    <3>1. Take(1) /\ Return("NUMBER", pos, x)
      BY <1>2, <1>3, <1>19, <2>4 DEF Tenths, IsDigit
    <3>2. SpelledIn(seen', Append(x, "."), from' + 1, Consumed')
      BY <2>1, <2>2, <3>1, <1>5
    <3>3. LitInv'
      BY <3>1, AfterReturn, LitBetween
    <3>4. from' \in Nat
      BY <2>2, <1>4
    <3>5. GrownLit
      BY <3>1, <3>2, <3>4, <1>1, TokenTold DEF IsText
    <3>6. QED
      BY <3>3, <3>5
  <2>5. QED
    BY <2>3, <2>4
<1>20. CASE Unit \/ Units \/ Mixed
  <2>1. /\ pc \in {"unit", "units", "mixed"} /\ from' = from
        /\ SpelledIn(seen, x, from + 1, Consumed)
    BY <1>3, <1>20 DEF Unit, Units, Mixed, LitInv
  <2>2. \/ /\ Collect("units", c) \/ Collect("mixed", c)
           /\ c \in Letter \cup Digit \cup {Micro}
        \/ Take(1) /\ lit' = x /\ \/ Goto("mixed") \/ Return("INTEGER", pos, x)
                                  \/ Return("DURATIONVAL", pos, x)
    <3>1. CASE Unit
      BY <3>1, <1>2, <1>3 DEF Unit, IsUnit, IsLetter
    <3>2. CASE Units
      BY <3>2, <1>2, <1>3 DEF Units, IsUnit, IsLetter
    <3>3. CASE Mixed
      BY <3>3, <1>2, <1>3 DEF Mixed, IsUnit, IsLetter, IsDigit
    <3>4. QED
      BY <1>20, <3>1, <3>2, <3>3
  <2>3. CASE /\ Collect("units", c) \/ Collect("mixed", c)
             /\ c \in Letter \cup Digit \cup {Micro}
    <3>1. c # NUL
      BY <2>3, NotTheEnd
    <3>2. /\ pc' \in {"units", "mixed"} /\ GrownLit
          /\ SpelledIn(seen', lit', from' + 1, Consumed')
      BY <2>1, <2>3, <3>1, <1>5, <1>7
    <3>3. QED
      BY <3>2 DEF LitInv, Idents
  <2>4. CASE Take(1) /\ lit' = x /\ \/ Goto("mixed") \/ Return("INTEGER", pos, x)
                                    \/ Return("DURATIONVAL", pos, x)
    <3>1. SpelledIn(seen', x, from + 1, Consumed')
      BY <2>1, <2>4, <1>5
    <3>2. CASE Goto("mixed")
      <4>1. pc' = "mixed" /\ GrownLit
        BY <3>2, <1>6
      <4>2. QED
        BY <2>1, <2>4, <3>1, <4>1 DEF LitInv, Idents
    <3>3. CASE Return("INTEGER", pos, x) \/ Return("DURATIONVAL", pos, x)
      BY <2>1, <3>1, <3>3, <1>9
    <3>4. QED
      BY <2>4, <3>2, <3>3
  <2>5. QED
    BY <2>2, <2>3, <2>4
<1>21. CASE Regex \/ RegexEscape
  <2>1. from' = from
    BY <1>21 DEF Regex, RegexEscape
  <2>2. \/ Goto("regex") \/ Goto("regexEscape") \/ (\E z : Collect("regex", z))
        \/ Return("REGEX", pos, lit) \/ Return("BADREGEX", pos, <<>>)
    BY <1>21 DEF Regex, RegexEscape
  <2>3. QED
    BY <2>1, <2>2, <1>6, <1>7, <1>8, LitBetween
<1>22. QED
  BY <1>10, <1>11, <1>12, <1>13, <1>14, <1>15, <1>16, <1>17, <1>18, <1>19, <1>20, <1>21
     DEF Continue

\* What has been read of a token that was returned is not read again.
LEMMA ToldStays ==
  ASSUME ReaderInv, [Next]_vars, NEW t, Told(t)
  PROVE  Told(t)'
<1>1. /\ Len(seen) \in Nat /\ Len(seen') \in Nat /\ Len(seen) <= Len(seen')
      /\ \A j \in 1 .. Len(seen) : seen'[j] = seen[j]
  BY StepReads
<1>2. PICK a \in Nat, b \in Nat : a = t.from + 1 /\ b = t.to /\ b <= Len(seen) /\ 0 < a
  <2>1. t.from \in Nat /\ t.to \in Nat /\ t.to <= Len(seen)
    BY DEF Told
  <2>2. t.from + 1 \in Nat /\ 0 < t.from + 1
    BY <2>1
  <2>3. QED
    BY <2>1, <2>2
<1>3. \A j \in a .. b : j \in 1 .. Len(seen)
  BY <1>1, <1>2
<1>4. \A j \in a .. b : seen'[j] = seen[j]
  BY <1>1, <1>3
<1>5. \A x : Without(t, x)' <=> Without(t, x)
  BY <1>2, <1>4 DEF Without
<1>6. Unquoted(t)' <=> Unquoted(t)
  BY <1>5 DEF Unquoted
<1>7. ASSUME NEW l, SpelledIn(seen, l, t.from + 1, t.to)
      PROVE  SpelledIn(seen', l, t.from + 1, t.to)
  <2>1. SpelledIn(seen, l, a, b)
    BY <1>2, <1>7
  <2>2. SpelledIn(seen', l, a, b)
    BY <2>1, <1>4, SpelledSame
  <2>3. QED
    BY <2>2, <1>2
<1>8. t.to <= Len(seen')
  BY <1>1, <1>2
<1>9. QED
  BY <1>5, <1>6, <1>7, <1>8 DEF Told

ToldInv == \A m \in DOMAIN toks : Told(toks[m])

\* Every step keeps the literal that is being collected, and those returned.
LEMMA NextTold ==
  ASSUME ReaderInv, PlaceInv, TokensTyped, LitInv, ToldInv, [Next]_vars
  PROVE  LitInv' /\ ToldInv'
<1>1. LitInv' /\ GrownLit
  <2>1. CASE Peek
    <3>1. pc' = "idle" /\ toks' = toks
      BY <2>1 DEF Peek
    <3>2. QED
      BY <3>1, LitBetween DEF GrownLit
  <2>2. CASE ScanRegex
    <3>1. pc' = "regex" /\ toks' = toks
      BY <2>2 DEF ScanRegex, Goto
    <3>2. QED
      BY <3>1, LitBetween DEF GrownLit
  <2>3. CASE UNCHANGED vars
    <3>1. /\ pc' = pc /\ caller' = caller /\ lit' = lit /\ from' = from /\ seen' = seen
          /\ toks' = toks /\ Consumed' = Consumed
      BY <2>3 DEF vars, Consumed
    <3>2. HasRead("\\")' <=> HasRead("\\")
      BY <3>1 DEF HasRead
    <3>3. QED
      BY <3>1, <3>2 DEF LitInv, GrownLit
  <2>4. CASE Scan
    BY <2>4, ScanLit, ScanTold
  <2>5. CASE Continue
    BY <2>5, ContinueTold
  <2>6. QED
    BY <2>1, <2>2, <2>3, <2>4, <2>5 DEF Next, Finished
<1>2. ASSUME NEW m \in DOMAIN toks, NEW t, t = toks[m] PROVE Told(t)'
  <2>1. Told(t)
    BY <1>2 DEF ToldInv
  <2>2. QED
    BY <2>1, ToldStays
<1>3. CASE toks' = toks
  <2>1. ASSUME NEW m \in DOMAIN toks', NEW t, t = toks'[m] PROVE Told(t)'
    BY <1>2, <1>3, <2>1
  <2>2. QED
    BY <1>1, <2>1 DEF ToldInv
<1>4. CASE \E r : toks' = Append(toks, r) /\ Told(r)'
  <2>1. PICK r : toks' = Append(toks, r) /\ Told(r)'
    BY <1>4
  <2>2. toks \in Seq(TokenRecord)
    BY DEF TokensTyped
  <2>3. ASSUME NEW m \in DOMAIN toks', NEW t, t = toks'[m] PROVE Told(t)'
    <3>1. (m \in DOMAIN toks /\ t = toks[m]) \/ t = r
      BY <2>1, <2>2, <2>3
    <3>2. QED
      BY <3>1, <2>1, <1>2
  <2>4. QED
    BY <1>1, <2>3 DEF ToldInv
<1>5. QED
  BY <1>1, <1>3, <1>4 DEF GrownLit

\* The literal of a token is the text it was read from, whatever its length and
\* wherever its runes were pushed back and read again: none is lost, and none is
\* there twice.
THEOREM ScannerLiteralIsTheText == Spec => []LiteralIsTheText
<1>1. Init => LitInv /\ ToldInv
  <2> SUFFICES ASSUME Init PROVE LitInv /\ ToldInv
    OBVIOUS
  <2>1. pc = "idle" /\ toks = <<>>
    BY DEF Init
  <2>2. LitInv
    BY <2>1 DEF LitInv, Idents
  <2>3. QED
    BY <2>1, <2>2 DEF ToldInv
<1>2. ReaderInv /\ PlaceInv /\ TokensTyped /\ LitInv /\ ToldInv /\ [Next]_vars => LitInv' /\ ToldInv'
  BY NextTold
<1>3. ToldInv => LiteralIsTheText
  <2> SUFFICES ASSUME ToldInv, NEW m \in DOMAIN toks, NEW t, t = toks[m]
               PROVE  /\ t.tok \in {"WS", "INTEGER", "DURATIONVAL"} \/ Unquoted(t) =>
                           Spells(t.lit, t.from + 1, t.to)
                      /\ t.tok = "NUMBER" =>
                           \/ Spells(t.lit, t.from + 1, t.to)
                           \/ Spells(Append(t.lit, "."), t.from + 1, t.to)
                      /\ t.tok = "STRING" /\ Without(t, "\\") =>
                           Spells(Append(<<"'">> \o t.lit, "'"), t.from + 1, t.to)
    BY DEF LiteralIsTheText
  <2>1. Told(t)
    BY DEF ToldInv
  <2>2. PICK a \in Nat : a = t.from + 1
    BY <2>1 DEF Told
  <2>3. ASSUME NEW l, SpelledIn(seen, l, t.from + 1, t.to)
        PROVE  Spells(l, t.from + 1, t.to)
    BY <2>2, <2>3, SpellsIsSpelledIn
  <2>4. QED
    BY <2>1, <2>3 DEF Told
<1>4. QED
  BY <1>1, <1>2, <1>3, ReaderInvariant, PlaceInvariant, TokensInvariant, PTL DEF Spec

----------------------------------------------------------------------------
(* Positions.                                                              *)

Feeds(s, m) == {j \in 1 .. m - 1 : s[j] = LF}

\* The runes with no mark of the end before them are counted.
Unended(s) == {j \in Nat : \A e \in 1 .. j - 1 : s[e] # NUL}

\* j is the last line feed before the m-th rune, or the start of the text.
IsStart(s, m, j) == j \in Feeds(s, m) \cup {0} /\ \A f \in Feeds(s, m) : f <= j

LineStart(s, m) == CHOOSE j \in Feeds(s, m) \cup {0} : \A f \in Feeds(s, m) : f <= j

\* The position of the m-th rune of s.
PositionIn(s, m) ==
  [line |-> Cardinality(Feeds(s, m)),
   char |-> Tally(Unended(s), LineStart(s, m) + 1, m - 1)]

\* The model's PositionAt says so of the runes fetched.
LEMMA PositionAtIsIn ==
  ASSUME NEW m \in Nat, NEW j, IsStart(seen, m, j)
  PROVE  PositionAt(m) = PositionIn(seen, m)
<1> DEFINE feeds == {i \in 1 .. m - 1 : seen[i] = LF}
           start == CHOOSE i \in feeds \cup {0} : \A f \in feeds : f <= i
           counted(i) == \A e \in 1 .. i - 1 : seen[e] # NUL
<1>1. feeds = Feeds(seen, m) /\ start = LineStart(seen, m)
  BY DEF Feeds, LineStart
<1>2. start \in Nat
  <2>1. \E i \in feeds \cup {0} : \A f \in feeds : f <= i
    BY <1>1 DEF IsStart
  <2>2. start \in feeds \cup {0}
    BY <2>1
  <2>3. feeds \cup {0} \subseteq Nat
    OBVIOUS
  <2>4. QED
    BY <2>2, <2>3
<1>3. {i \in start + 1 .. m - 1 : counted(i)} = {i \in start + 1 .. m - 1 : i \in Unended(seen)}
  <2>1. \A i \in start + 1 .. m - 1 : i \in Nat
    BY <1>2
  <2>2. \A i \in start + 1 .. m - 1 : counted(i) <=> i \in Unended(seen)
    BY <2>1 DEF Unended
  <2>3. QED
    BY <2>2
<1>4. PositionAt(m) = [line |-> Cardinality(feeds),
                       char |-> Cardinality({i \in start + 1 .. m - 1 : counted(i)})]
  BY DEF PositionAt
<1>5. QED
  BY <1>1, <1>3, <1>4 DEF PositionIn, Tally

\* There is one start.
LEMMA StartIs ==
  ASSUME NEW s, NEW m \in Nat, NEW j, IsStart(s, m, j)
  PROVE  j \in Nat /\ j <= m /\ LineStart(s, m) = j
<1>1. Feeds(s, m) \subseteq Nat \ {0} /\ \A f \in Feeds(s, m) : f <= m
  BY DEF Feeds
<1>2. PICK i : i = LineStart(s, m)
  OBVIOUS
<1>3. IsStart(s, m, i)
  BY <1>2 DEF IsStart, LineStart
<1>4. QED
  BY <1>1, <1>2, <1>3 DEF IsStart

\* A position depends on the runes before it.
LEMMA PositionSame ==
  ASSUME NEW s, NEW u, NEW m \in Nat, \A j \in 1 .. m - 1 : u[j] = s[j],
         NEW i, IsStart(s, m, i)
  PROVE  PositionIn(u, m) = PositionIn(s, m) /\ IsStart(u, m, i)
<1>1. Feeds(u, m) = Feeds(s, m)
  BY DEF Feeds
<1>2. IsStart(u, m, i)
  BY <1>1 DEF IsStart
<1>3. LineStart(u, m) = i /\ LineStart(s, m) = i /\ i \in Nat
  BY <1>2, StartIs
<1>4. \A j \in i + 1 .. m - 1 : j \in Unended(u) <=> j \in Unended(s)
  <2> SUFFICES ASSUME NEW j \in i + 1 .. m - 1 PROVE j \in Unended(u) <=> j \in Unended(s)
    OBVIOUS
  <2>1. \A e \in 1 .. j - 1 : e \in 1 .. m - 1
    BY <1>3
  <2>2. \A e \in 1 .. j - 1 : u[e] = s[e]
    BY <2>1
  <2>3. QED
    BY <2>2 DEF Unended
<1>5. Tally(Unended(u), i + 1, m - 1) = Tally(Unended(s), i + 1, m - 1)
  BY <1>4, TallySame
<1>6. QED
  BY <1>1, <1>2, <1>3, <1>5 DEF PositionIn

\* One number more, from the one after j on.
LEMMA TallyUpTo ==
  ASSUME NEW S, NEW j \in Nat, NEW n \in Nat, j <= n
  PROVE  Tally(S, j + 1, n + 1) =
           IF n + 1 \in S THEN Tally(S, j + 1, n) + 1 ELSE Tally(S, j + 1, n)
<1>1. PICK a \in Int : a = j + 1
  OBVIOUS
<1>2. a <= n + 1
  BY <1>1
<1>3. Tally(S, a, n + 1) = IF n + 1 \in S THEN Tally(S, a, n) + 1 ELSE Tally(S, a, n)
  BY <1>2, TallyNext
<1>4. QED
  BY <1>1, <1>3

\* Advance counts the next rune.
LEMMA PositionNext ==
  ASSUME NEW s \in Seq(Rune), NEW c \in Rune, NEW n \in Nat, n = Len(s),
         NEW u, u = Append(s, c), NEW j, IsStart(s, n + 1, j),
         NEW eof \in BOOLEAN, eof <=> \E e \in 1 .. n : s[e] = NUL
  PROVE  /\ PositionIn(u, n + 2) = Advance(PositionIn(s, n + 1), c, eof)
         /\ \E i : IsStart(u, n + 2, i)
<1>1. u[n + 1] = c /\ \A i \in 1 .. n : u[i] = s[i]
  OBVIOUS
<1>2. (n + 2) - 1 = n + 1 /\ (n + 1) - 1 = n /\ n + 1 \in Nat /\ n + 2 \in Nat
  OBVIOUS
<1>3. Feeds(s, n + 1) = {i \in 1 .. n : s[i] = LF}
  BY <1>2 DEF Feeds
<1>4. j \in Nat /\ j <= n /\ LineStart(s, n + 1) = j
  <2>1. j \in 0 .. n
    BY <1>3 DEF IsStart
  <2>2. LineStart(s, n + 1) = j
    BY <1>2, StartIs
  <2>3. QED
    BY <2>1, <2>2
<1>5. CASE c = LF
  <2>1. Feeds(u, n + 2) = Feeds(s, n + 1) \cup {n + 1} /\ n + 1 \notin Feeds(s, n + 1)
    <3>1. Feeds(u, n + 2) = {i \in 1 .. n + 1 : u[i] = LF}
      BY <1>2 DEF Feeds
    <3>2. QED
      BY <3>1, <1>1, <1>3, <1>5
  <2>2. IsFiniteSet(Feeds(s, n + 1))
    <3>1. IsFiniteSet(1 .. n) /\ Feeds(s, n + 1) \in SUBSET (1 .. n)
      BY <1>3, FS_Interval
    <3>2. QED
      BY <3>1, FS_Subset
  <2>3. Cardinality(Feeds(u, n + 2)) = Cardinality(Feeds(s, n + 1)) + 1
    BY <2>1, <2>2, FS_AddElement
  <2>4. IsStart(u, n + 2, n + 1)
    BY <2>1, <1>3 DEF IsStart
  <2>5. LineStart(u, n + 2) = n + 1
    BY <2>4, <1>2, StartIs
  <2>6. Tally(Unended(u), n + 1 + 1, n + 1) = 0
    <3>1. n + 1 + 1 \in Int /\ n + 1 \in Int /\ n + 1 + 1 > n + 1
      OBVIOUS
    <3>2. QED
      BY <3>1, TallyEmpty
  <2>7. PositionIn(u, n + 2) = [line |-> Cardinality(Feeds(s, n + 1)) + 1, char |-> 0]
    BY <2>3, <2>5, <2>6, <1>2 DEF PositionIn
  <2>8. QED
    BY <2>4, <2>7, <1>5 DEF Advance, PositionIn
<1>6. CASE c # LF
  <2>1. Feeds(u, n + 2) = Feeds(s, n + 1)
    <3>1. Feeds(u, n + 2) = {i \in 1 .. n + 1 : u[i] = LF}
      BY <1>2 DEF Feeds
    <3>2. \A i \in 1 .. n + 1 : u[i] = LF => i \in 1 .. n /\ s[i] = LF
      <4> SUFFICES ASSUME NEW i \in 1 .. n + 1, u[i] = LF PROVE i \in 1 .. n /\ s[i] = LF
        OBVIOUS
      <4>1. i # n + 1
        BY <1>1, <1>6
      <4>2. i \in 1 .. n
        BY <4>1
      <4>3. QED
        BY <4>2, <1>1
    <3>3. \A i \in 1 .. n : i \in 1 .. n + 1 /\ u[i] = s[i]
      BY <1>1
    <3>4. QED
      BY <3>1, <3>2, <3>3, <1>3
  <2>2. IsStart(u, n + 2, j)
    BY <2>1 DEF IsStart
  <2>3. LineStart(u, n + 2) = j
    BY <2>2, <1>2, StartIs
  <2>4. Tally(Unended(u), j + 1, n) = Tally(Unended(s), j + 1, n)
    <3>1. \A i \in j + 1 .. n : i \in Unended(u) <=> i \in Unended(s)
      <4> SUFFICES ASSUME NEW i \in j + 1 .. n PROVE i \in Unended(u) <=> i \in Unended(s)
        OBVIOUS
      <4>1. \A e \in 1 .. i - 1 : e \in 1 .. n
        BY <1>4
      <4>2. \A e \in 1 .. i - 1 : u[e] = s[e]
        BY <4>1, <1>1
      <4>3. QED
        BY <4>2 DEF Unended
    <3>2. QED
      BY <3>1, TallySame
  <2>5. n + 1 \in Unended(u) <=> ~ eof
    <3>1. n + 1 \in Unended(u) <=> \A e \in 1 .. n : u[e] # NUL
      BY <1>2 DEF Unended
    <3>2. QED
      BY <3>1, <1>1
  <2>6. Tally(Unended(u), j + 1, n + 1) =
          IF n + 1 \in Unended(u) THEN Tally(Unended(u), j + 1, n) + 1
                                  ELSE Tally(Unended(u), j + 1, n)
    BY <1>4, TallyUpTo
  <2>7. /\ PositionIn(u, n + 2) = [line |-> Cardinality(Feeds(s, n + 1)),
                                   char |-> Tally(Unended(u), j + 1, n + 1)]
        /\ PositionIn(s, n + 1) = [line |-> Cardinality(Feeds(s, n + 1)),
                                   char |-> Tally(Unended(s), j + 1, n)]
    BY <2>1, <2>3, <1>2, <1>4 DEF PositionIn
  <2>8. CASE eof
    <3>1. PositionIn(u, n + 2) = PositionIn(s, n + 1)
      BY <2>4, <2>5, <2>6, <2>7, <2>8
    <3>2. QED
      BY <2>2, <2>8, <3>1, <1>6 DEF Advance
  <2>9. CASE ~ eof
    <3>1. Tally(Unended(u), j + 1, n + 1) = Tally(Unended(s), j + 1, n) + 1
      BY <2>4, <2>5, <2>6, <2>9
    <3>2. PositionIn(u, n + 2) = [PositionIn(s, n + 1) EXCEPT !.char = @ + 1]
      BY <2>7, <3>1
    <3>3. QED
      BY <2>2, <2>9, <3>2, <1>6 DEF Advance
  <2>10. QED
    BY <2>8, <2>9
<1>7. QED
  BY <1>5, <1>6

\* The position of the m-th rune, or that of a new reader when there is none.
PosOf(s, m) == IF m <= 0 THEN PosZero ELSE PositionIn(s, m)

\* The reader knows the position of the next rune of the text, and its ring the
\* positions of the last ones; the slots of a new ring hold the first position.
PosInv ==
  /\ rd.pos = PositionIn(seen, Len(seen) + 1)
  /\ rd.eof <=> \E e \in 1 .. Len(seen) : seen[e] = NUL
  /\ \A m \in 1 .. Len(seen) + 1 : \E j : IsStart(seen, m, j)
  /\ \A k \in 0 .. 2 : rd.buf[(rd.i - k + 3) % 3].pos = PosOf(seen, Len(seen) - k)

\* Positions do not change when runes are read behind them.
LEMMA PosOfStays ==
  ASSUME ReaderInv, PosInv, [Next]_vars, NEW m \in Nat, m <= Len(seen) + 1
  PROVE  PosOf(seen', m) = PosOf(seen, m)
<1>1. CASE m = 0
  BY <1>1 DEF PosOf
<1>2. CASE m > 0
  <2>1. /\ Len(seen) \in Nat /\ Len(seen) <= Len(seen')
        /\ \A j \in 1 .. Len(seen) : seen'[j] = seen[j]
    BY StepReads
  <2>2. PICK j : IsStart(seen, m, j)
    <3>1. m \in 1 .. Len(seen) + 1
      BY <1>2, <2>1
    <3>2. QED
      BY <3>1 DEF PosInv
  <2>3. \A i \in 1 .. m - 1 : i \in 1 .. Len(seen)
    BY <2>1
  <2>4. \A i \in 1 .. m - 1 : seen'[i] = seen[i]
    BY <2>1, <2>3
  <2>5. PositionIn(seen', m) = PositionIn(seen, m)
    BY <2>2, <2>4, PositionSame
  <2>6. QED
    BY <1>2, <2>5 DEF PosOf
<1>3. QED
  BY <1>1, <1>2

\* Curr is the rune consumed last, whose slot is still in the ring.
CurrIsConsumed == ReaderInv /\ PosInv => Curr(rd).pos = PosOf(seen, Consumed)

\* Its position is the one that was counted for it.
LEMMA CurrPosition == CurrIsConsumed
<1> SUFFICES ASSUME ReaderInv, PosInv PROVE Curr(rd).pos = PosOf(seen, Consumed)
  BY DEF CurrIsConsumed
<1>1. PICK n \in 0 .. 2 : n = rd.n
  BY DEF ReaderInv, UnreadBound, Reader, BufLen
<1>2. rd.buf[(rd.i - n + 3) % 3].pos = PosOf(seen, Len(seen) - n)
  BY DEF PosInv
<1>3. QED
  BY <1>1, <1>2 DEF Curr, Consumed, BufLen

HasStart(s, m) == \E j : IsStart(s, m, j)

HasEnded(s, n) == \E e \in 1 .. n : s[e] = NUL

\* The same, of the position alone.
LEMMA PositionAdvances ==
  ASSUME NEW s \in Seq(Rune), NEW c \in Rune, NEW n, n = Len(s), HasStart(s, n + 1),
         NEW eof \in BOOLEAN, eof <=> HasEnded(s, n)
  PROVE  PositionIn(Append(s, c), n + 2) = Advance(PositionIn(s, n + 1), c, eof)
<1>1. PICK j : IsStart(s, n + 1, j)
  BY DEF HasStart
<1>2. eof <=> \E e \in 1 .. n : s[e] = NUL
  BY DEF HasEnded
<1>3. PICK u : u = Append(s, c)
  OBVIOUS
<1>4. n \in Nat
  OBVIOUS
<1>5. PositionIn(u, n + 2) = Advance(PositionIn(s, n + 1), c, eof)
  BY <1>1, <1>2, <1>3, <1>4, PositionNext
<1>6. QED
  BY <1>3, <1>5

\* The reader counts the runes as it fetches them.
LEMMA FetchPosition ==
  ASSUME ReaderInv, PosInv, [Next]_vars, NEW k \in 0 .. 2, Take(k), rd.n = 0
  PROVE  PosInv'
<1>1. PICK c : c = Delivered(rd)
  OBVIOUS
<1>2. PICK n \in Nat : n = Len(seen)
  BY DEF ReaderInv
<1>3. /\ seen \in Seq(Rune) /\ c \in Rune /\ rd \in Reader /\ rd.i \in 0 .. 2
      /\ rd.eof \in BOOLEAN
  BY <1>1, SourceType DEF ReaderInv, Reader, BufLen
<1>4. /\ seen' = Append(seen, c)
      /\ rd'.pos = Advance(rd.pos, c, rd.eof)
      /\ rd'.eof = (rd.eof \/ c = NUL)
      /\ rd'.i = Fetch(rd).i /\ rd'.buf = Fetch(rd).buf
  BY <1>1, TakeFetches
<1>5. Len(seen') = n + 1 /\ seen'[n + 1] = c /\ \A i \in 1 .. n : seen'[i] = seen[i]
  BY <1>2, <1>3, <1>4
<1>6. /\ rd.pos = PositionIn(seen, n + 1)
      /\ rd.eof <=> \E e \in 1 .. n : seen[e] = NUL
      /\ \A m \in 1 .. n + 1 : \E j : IsStart(seen, m, j)
      /\ \A m \in 0 .. 2 : rd.buf[(rd.i - m + 3) % 3].pos = PosOf(seen, n - m)
  BY <1>2 DEF PosInv
<1>7. PositionIn(seen', n + 2) = Advance(PositionIn(seen, n + 1), c, rd.eof)
      /\ \E i : IsStart(seen', n + 2, i)
  <2>1. PICK j : IsStart(seen, n + 1, j)
    BY <1>6
  <2>2. PICK eof \in BOOLEAN : eof = rd.eof
    BY <1>3
  <2>3. eof <=> \E e \in 1 .. n : seen[e] = NUL
    BY <1>6, <2>2
  <2>4. PICK u : u = seen' /\ u = Append(seen, c)
    BY <1>4
  <2>5. PICK s \in Seq(Rune) : s = seen /\ n = Len(s)
    BY <1>2, <1>3
  <2>6. u = Append(s, c) /\ IsStart(s, n + 1, j) /\ (eof <=> \E e \in 1 .. n : s[e] = NUL) /\ c \in Rune
    BY <1>3, <2>1, <2>3, <2>4, <2>5
  <2>7. PositionIn(u, n + 2) = Advance(PositionIn(s, n + 1), c, eof)
    <3>1. HasStart(s, n + 1) /\ (eof <=> HasEnded(s, n)) /\ c \in Rune /\ u = Append(s, c)
      BY <2>6 DEF HasStart, HasEnded
    <3>2. QED
      BY <3>1, <2>5, PositionAdvances
  <2>8. \E i : IsStart(u, n + 2, i)
    BY <2>5, <2>6, PositionNext
  <2>9. QED
    BY <2>2, <2>4, <2>5, <2>7, <2>8
<1>8. rd'.pos = PositionIn(seen', Len(seen') + 1)
  <2>1. Len(seen') + 1 = n + 2
    BY <1>5
  <2>2. QED
    BY <2>1, <1>4, <1>6, <1>7
<1>9. rd'.eof <=> \E e \in 1 .. Len(seen') : seen'[e] = NUL
  <2>1. (\E e \in 1 .. n + 1 : seen'[e] = NUL) <=> (\E e \in 1 .. n : seen[e] = NUL) \/ c = NUL
    BY <1>5
  <2>2. QED
    BY <2>1, <1>3, <1>4, <1>5, <1>6
<1>10. \A m \in 1 .. Len(seen') + 1 : \E j : IsStart(seen', m, j)
  <2> SUFFICES ASSUME NEW m \in 1 .. n + 2 PROVE \E j : IsStart(seen', m, j)
    BY <1>5
  <2>1. CASE m = n + 2
    BY <1>7, <2>1
  <2>2. CASE m # n + 2
    <3>1. m \in 1 .. n + 1 /\ m \in Nat
      BY <2>2
    <3>2. PICK j : IsStart(seen, m, j)
      BY <3>1, <1>6
    <3>3. \A i \in 1 .. m - 1 : i \in 1 .. n
      BY <3>1
    <3>4. \A i \in 1 .. m - 1 : seen'[i] = seen[i]
      BY <1>5, <3>3
    <3>5. IsStart(seen', m, j)
      BY <3>1, <3>2, <3>4, PositionSame
    <3>6. QED
      BY <3>5
  <2>3. QED
    BY <2>1, <2>2
<1>11. ASSUME NEW m \in 0 .. 2
       PROVE  rd'.buf[(rd'.i - m + 3) % 3].pos = PosOf(seen', Len(seen') - m)
  <2>1. /\ rd'.i = (rd.i + 1) % 3
        /\ rd'.buf[(rd.i + 1) % 3].pos = rd.pos
        /\ \A j \in 0 .. 2 : j # (rd.i + 1) % 3 => rd'.buf[j] = rd.buf[j]
    BY <1>3, <1>4, FetchType DEF BufLen
  <2>2. PosOf(seen', n + 1 - m) = PosOf(seen, n + 1 - m)
    <3>1. CASE n + 1 - m <= 0
      BY <3>1 DEF PosOf
    <3>2. CASE n + 1 - m > 0
      <4>1. PICK p \in Nat : p = n + 1 - m
        BY <3>2
      <4>2. p <= Len(seen) + 1
        BY <4>1, <1>2
      <4>3. PosOf(seen', p) = PosOf(seen, p)
        BY <4>2, PosOfStays
      <4>4. QED
        BY <4>1, <4>3
    <3>3. QED
      BY <3>1, <3>2
  <2>3. CASE m = 0
    <3>1. (rd'.i - m + 3) % 3 = (rd.i + 1) % 3
      BY <2>1, <2>3, <1>3
    <3>2. PosOf(seen, n + 1) = PositionIn(seen, n + 1)
      BY DEF PosOf
    <3>3. QED
      BY <2>1, <2>2, <2>3, <3>1, <3>2, <1>5, <1>6
  <2>4. CASE m > 0
    <3>1. (rd'.i - m + 3) % 3 = (rd.i - (m - 1) + 3) % 3
      BY <2>1, <2>4, <1>3
    <3>2. /\ (rd.i - (m - 1) + 3) % 3 # (rd.i + 1) % 3
          /\ (rd.i - (m - 1) + 3) % 3 \in 0 .. 2
      <4>1. PICK i \in 0 .. 2 : i = rd.i
        BY <1>3
      <4>2. m \in 1 .. 2
        BY <2>4
      <4>3. (i - (m - 1) + 3) % 3 # (i + 1) % 3 /\ (i - (m - 1) + 3) % 3 \in 0 .. 2
        BY <4>2
      <4>4. QED
        BY <4>1, <4>3
    <3>3. rd'.buf[(rd'.i - m + 3) % 3] = rd.buf[(rd.i - (m - 1) + 3) % 3]
      BY <2>1, <3>1, <3>2
    <3>4. PICK o \in 0 .. 2 : o = m - 1
      BY <2>4
    <3>5. rd.buf[(rd.i - o + 3) % 3].pos = PosOf(seen, n - o)
      BY <1>6
    <3>6. n - o = n + 1 - m /\ Len(seen') - m = n + 1 - m
      BY <3>4, <1>5
    <3>7. QED
      BY <2>2, <3>3, <3>4, <3>5, <3>6
  <2>5. QED
    BY <2>3, <2>4
<1>12. QED
  BY <1>8, <1>9, <1>10, <1>11 DEF PosInv

\* Every step keeps the positions.
LEMMA NextPosition ==
  ASSUME ReaderInv, PosInv, [Next]_vars
  PROVE  PosInv'
<1>1. CASE UNCHANGED vars
  BY <1>1 DEF vars, PosInv
<1>2. CASE \E k \in 0 .. 2 : Take(k)
  <2>1. PICK k \in 0 .. 2 : Take(k)
    BY <1>2
  <2>2. rd.n \in Nat
    BY DEF ReaderInv, Reader
  <2>3. CASE rd.n > 0
    <3>1. rd'.pos = rd.pos /\ rd'.eof = rd.eof /\ rd'.buf = rd.buf /\ rd'.i = rd.i /\ seen' = seen
      BY <2>1, <2>3, TakeFetches
    <3>2. QED
      BY <3>1 DEF PosInv
  <2>4. QED
    BY <2>1, <2>2, <2>3, FetchPosition
<1>3. QED
  BY <1>1, <1>2, OneRead

\* What a read() returns is the next rune's position.
LEMMA ReadPosition ==
  ASSUME ReaderInv, PosInv, [Next]_vars, NEW k \in 0 .. 2, Take(k)
  PROVE  Next1.pos = PositionIn(seen', Consumed + 1)
<1>1. PICK n \in 0 .. 2, s \in Nat : n = rd.n /\ s = Len(seen) /\ n <= s
  BY DEF ReaderInv, UnreadBound, Reader, BufLen
<1>2. rd \in Reader /\ rd.i \in 0 .. 2
  BY DEF ReaderInv, Reader, BufLen
<1>3. PICK m \in Nat : m = Consumed + 1 /\ m = s - n + 1
  BY <1>1 DEF Consumed
<1>4. PosOf(seen', m) = PosOf(seen, m)
  <2>1. m <= Len(seen) + 1
    BY <1>1, <1>3
  <2>2. QED
    BY <2>1, PosOfStays
<1>5. CASE n > 0
  <2>1. Read(rd) = [rd EXCEPT !.n = rd.n - 1]
    BY <1>1, <1>5 DEF Read
  <2>2. PICK o \in 0 .. 2 : o = n - 1
    BY <1>5
  <2>3. Next1 = rd.buf[(rd.i - o + 3) % 3]
    BY <1>1, <1>2, <2>1, <2>2 DEF Next1, Curr, BufLen, Reader
  <2>4. rd.buf[(rd.i - o + 3) % 3].pos = PosOf(seen, s - o)
    BY <1>1 DEF PosInv
  <2>5. s - o = m
    BY <1>3, <2>2
  <2>6. m > 0
    BY <1>3, <1>1
  <2>7. PosOf(seen, m) = PositionIn(seen, m) /\ PosOf(seen', m) = PositionIn(seen', m)
    BY <2>6 DEF PosOf
  <2>8. QED
    BY <1>3, <1>4, <2>3, <2>4, <2>5, <2>7
<1>6. CASE n = 0
  <2>1. Next1 = Fetch(rd).buf[Fetch(rd).i]
    BY <1>1, <1>6, TakeFetches
  <2>2. Next1.pos = rd.pos
    BY <1>2, <2>1, FetchType
  <2>3. rd.pos = PositionIn(seen, s + 1)
    BY <1>1 DEF PosInv
  <2>4. m = s + 1 /\ m > 0
    BY <1>3, <1>6
  <2>5. PosOf(seen, m) = PositionIn(seen, m) /\ PosOf(seen', m) = PositionIn(seen', m)
    BY <2>4 DEF PosOf
  <2>6. QED
    BY <1>3, <1>4, <2>2, <2>3, <2>4, <2>5
<1>7. QED
  BY <1>5, <1>6

\* A new reader stands at the first position.
LEMMA InitPosition == Init => PosInv
<1> SUFFICES ASSUME Init PROVE PosInv
  OBVIOUS
<1>1. PICK input \in Input : rd = NewReader(input)
  BY DEF Init
<1>2. /\ rd.pos = PosZero /\ rd.eof = FALSE /\ rd.i = 0
      /\ \A k \in 0 .. 2 : rd.buf[k].pos = PosZero
  BY <1>1 DEF NewReader, BufLen
<1>3. seen = <<>>
  BY DEF Init
<1>4. Feeds(seen, 1) = {}
  BY DEF Feeds
<1>5. IsStart(seen, 1, 0)
  BY <1>4 DEF IsStart
<1>6. PositionIn(seen, 1) = PosZero
  <2>1. LineStart(seen, 1) = 0
    BY <1>5, StartIs
  <2>2. Tally(Unended(seen), 1, 0) = 0
    BY TallyEmpty
  <2>3. QED
    BY <2>1, <2>2, <1>4, FS_EmptySet DEF PositionIn, PosZero
<1>7. \A k \in 0 .. 2 : PosOf(seen, 0 - k) = PosZero
  BY DEF PosOf
<1>8. \A k \in 0 .. 2 : (rd.i - k + 3) % 3 \in 0 .. 2
  BY <1>2
<1>9. QED
  BY <1>2, <1>3, <1>5, <1>6, <1>7, <1>8 DEF PosInv

\* What is inside quotes, and what has a position of its own.
Delimited == {"regex", "regexEscape"}

InString == {"quote", "string", "escape"}

Misread == {"BADSTRING", "BADESCAPE"}

\* The positions the token that is being read may be returned with.
PartPos ==
  /\ pc \notin {"idle", "done"} \cup Delimited => pos = PositionIn(seen, from + 1)
  /\ pc \in Delimited => pos = PosOf(seen, from)
  /\ pc \in InString /\ caller = "scan" => quotePos = PosOf(seen, from)
  /\ pc \in InString => \E j \in from .. Consumed : quotePos = PosOf(seen, j)

\* p is the position of a token of the kind t that was read from the runes
\* behind the a-th, up to the b-th.
PlacedIn(s, t, p, a, b) ==
  /\ t \in Quoted => p = PosOf(s, a)
  /\ t \in Misread => \E j \in a .. b : p = PosOf(s, j)
  /\ t \notin Quoted \cup Misread => p = PositionIn(s, a + 1)

Placed(t) ==
  /\ t.from \in Nat /\ t.to \in Nat /\ t.from <= t.to /\ t.to <= Len(seen)
  /\ PlacedIn(seen, t.tok, t.pos, t.from, t.to)

TokensPlaced == \A m \in DOMAIN toks : Placed(toks[m])

GrownPos == toks' = toks \/ \E r : toks' = Append(toks, r) /\ Placed(r)'

\* A token that is returned with its position.
LEMMA TokenPlaced ==
  ASSUME ReaderInv, [Next]_vars, from' \in Nat, from' <= Consumed',
         NEW t, NEW p, NEW l, Return(t, p, l), PlacedIn(seen', t, p, from', Consumed')
  PROVE  GrownPos
<1>1. PICK r : r = [tok |-> t, pos |-> p, lit |-> l, from |-> from', to |-> Consumed']
  OBVIOUS
<1>2. toks' = Append(toks, r)
  BY <1>1 DEF Return, Consumed
<1>3. r.from = from' /\ r.to = Consumed' /\ r.tok = t /\ r.pos = p
  BY <1>1
<1>4. Consumed' \in Nat /\ Consumed' <= Len(seen')
  BY NextReaderInv DEF ReaderInv, Reader, UnreadBound, Consumed
<1>5. Placed(r)'
  BY <1>3, <1>4 DEF Placed
<1>6. QED
  BY <1>2, <1>5 DEF GrownPos

\* Positions inside the runes that have been fetched do not change.
LEMMA PlacesStay ==
  ASSUME ReaderInv, PosInv, [Next]_vars, NEW a \in Nat, NEW b \in Nat, a <= b, b <= Len(seen)
  PROVE  /\ PosOf(seen', a) = PosOf(seen, a)
         /\ PositionIn(seen', a + 1) = PositionIn(seen, a + 1)
         /\ \A j \in a .. b : PosOf(seen', j) = PosOf(seen, j)
<1>1. Len(seen) \in Nat
  BY DEF ReaderInv
<1>2. ASSUME NEW j \in a .. b PROVE PosOf(seen', j) = PosOf(seen, j)
  <2>1. j \in Nat /\ j <= Len(seen) + 1
    BY <1>1
  <2>2. QED
    BY <2>1, PosOfStays
<1>3. PosOf(seen', a) = PosOf(seen, a)
  BY <1>2
<1>4. PositionIn(seen', a + 1) = PositionIn(seen, a + 1)
  <2>1. PICK m \in Nat : m = a + 1
    OBVIOUS
  <2>2. m <= Len(seen) + 1 /\ ~ (m <= 0)
    BY <1>1, <2>1
  <2>3. PosOf(seen', m) = PosOf(seen, m)
    BY <2>2, PosOfStays
  <2>4. QED
    BY <2>1, <2>2, <2>3 DEF PosOf
<1>5. QED
  BY <1>2, <1>3, <1>4

\* So a token that has been returned keeps its position.
LEMMA PlacedStays ==
  ASSUME ReaderInv, PosInv, [Next]_vars, NEW t, Placed(t)
  PROVE  Placed(t)'
<1>1. PICK a \in Nat, b \in Nat : a = t.from /\ b = t.to /\ a <= b /\ b <= Len(seen)
  BY DEF Placed
<1>2. PlacedIn(seen, t.tok, t.pos, a, b)
  BY <1>1 DEF Placed
<1>3. /\ PosOf(seen', a) = PosOf(seen, a)
      /\ PositionIn(seen', a + 1) = PositionIn(seen, a + 1)
      /\ \A j \in a .. b : PosOf(seen', j) = PosOf(seen, j)
  BY <1>1, PlacesStay
<1>4. PlacedIn(seen', t.tok, t.pos, a, b)
  BY <1>2, <1>3 DEF PlacedIn
<1>5. b <= Len(seen')
  <2>1. Len(seen) \in Nat /\ Len(seen') \in Nat /\ Len(seen) <= Len(seen')
    BY StepReads
  <2>2. QED
    BY <2>1, <1>1
<1>6. QED
  BY <1>1, <1>4, <1>5 DEF Placed

\* The tokens of operators are neither quoted nor misread.
LEMMA OperatorsPlain ==
  /\ \A c \in DOMAIN Operator1 : Operator1[c] \notin Quoted \cup Misread
  /\ \A p \in DOMAIN Operator2 : Operator2[p] \notin Quoted \cup Misread
<1>1. ASSUME NEW c \in DOMAIN Operator1 PROVE Operator1[c] \notin Quoted \cup Misread
  BY DEF Operator1, Quoted, Misread
<1>2. ASSUME NEW p \in DOMAIN Operator2 PROVE Operator2[p] \notin Quoted \cup Misread
  BY DEF Operator2, Quoted, Misread
<1>3. QED
  BY <1>1, <1>2

\* The position of the first rune of a token.
LEMMA ScanPlaced ==
  ASSUME ReaderInv, PosInv, Scan
  PROVE  PartPos' /\ GrownPos
<1>1. [Next]_vars
  BY DEF Next
<1>2. PICK C \in Nat, D \in Nat : C = Consumed /\ D = Consumed'
  BY <1>1, StepReads
<1>3. PICK q : q = Next1.pos
  OBVIOUS
<1>4. Take(0) \/ Take(1) => q = PositionIn(seen', C + 1)
  <2>1. ASSUME NEW k \in 0 .. 2, Take(k) PROVE q = PositionIn(seen', C + 1)
    BY <1>1, <1>2, <1>3, <2>1, ReadPosition
  <2>2. QED
    BY <2>1
<1>5. ASSUME NEW p, Goto(p) PROVE pc' = p /\ GrownPos
  BY <1>5 DEF Goto, GrownPos
<1>6. ASSUME NEW p, StartAt(p) PROVE from' = C /\ pos' = p
  BY <1>2, <1>6 DEF StartAt
<1>7. CASE ScanWhitespace \/ ScanIdent \/ ScanParam \/ ScanNumber \/ ScanOperator
  <2>1. /\ pc' \in {"ws", "identPos", "digits", "dot", "second"} /\ GrownPos
        /\ from' = C /\ pos' = q
    BY <1>3, <1>5, <1>6, <1>7 DEF ScanWhitespace, ScanIdent, ScanParam, ScanNumber, ScanOperator
  <2>2. Take(0) \/ Take(1)
    BY <1>7 DEF ScanWhitespace, ScanIdent, ScanParam, ScanNumber, ScanOperator
  <2>3. QED
    BY <2>1, <2>2, <1>4 DEF PartPos, Delimited, InString
<1>8. CASE ScanQuoted
  <2>1. /\ pc' = "quote" /\ GrownPos /\ from' = C /\ pos' = q /\ Take(1)
        /\ quotePos' = Curr(rd').pos
    BY <1>3, <1>5, <1>6, <1>8 DEF ScanQuoted
  <2>2. D = C
    BY <1>1, <1>2, <2>1, StepReads
  <2>3. Curr(rd').pos = PosOf(seen', D)
    <3>1. ReaderInv' /\ PosInv'
      BY <1>1, NextReaderInv, NextPosition
    <3>2. CurrIsConsumed'
      BY CurrPosition, PTL
    <3>3. QED
      BY <3>1, <3>2, <1>2 DEF CurrIsConsumed
  <2>4. C \in C .. D
    BY <2>2
  <2>5. QED
    BY <2>1, <2>2, <2>3, <2>4, <1>2, <1>4 DEF PartPos, Delimited, InString
<1>9. CASE ScanSingle \/ ScanEOF \/ ScanIllegal
  <2>1. Take(0) /\ from' = C
    BY <1>6, <1>9 DEF ScanSingle, ScanEOF, ScanIllegal
  <2>2. D = C + 1
    BY <1>1, <1>2, <2>1, StepReads
  <2>3. PICK t, l : Return(t, q, l) /\ t \notin Quoted \cup Misread
    <3>1. CASE ScanSingle
      BY <1>3, <3>1, OperatorsPlain DEF ScanSingle
    <3>2. CASE ScanEOF
      <4>1. "EOF" \notin Quoted \cup Misread
        BY DEF Quoted, Misread
      <4>2. QED
        BY <1>3, <3>2, <4>1 DEF ScanEOF
    <3>3. CASE ScanIllegal
      <4>1. "ILLEGAL" \notin Quoted \cup Misread
        BY DEF Quoted, Misread
      <4>2. QED
        BY <1>3, <3>3, <4>1 DEF ScanIllegal
    <3>4. QED
      BY <1>9, <3>1, <3>2, <3>3
  <2>4. PlacedIn(seen', t, q, from', Consumed')
    BY <2>1, <2>3, <1>4 DEF PlacedIn
  <2>5. GrownPos
    BY <1>1, <1>2, <2>1, <2>2, <2>3, <2>4, TokenPlaced
  <2>6. pc' \in {"idle", "done"}
    BY <2>3, AfterReturn
  <2>7. QED
    BY <2>5, <2>6 DEF PartPos, Delimited, InString
<1>10. QED
  BY <1>7, <1>8, <1>9 DEF Scan

\* A step inside a token.
LEMMA ContinueReads ==
  ASSUME ReaderInv, PlaceInv, Continue
  PROVE  /\ from \in Nat /\ from' = from /\ from <= Consumed /\ Consumed <= Len(seen)
         /\ Consumed \in Nat /\ Consumed' \in Nat /\ from <= Consumed'
         /\ pc \notin {"idle", "done"}
<1>1. [Next]_vars
  BY DEF Next
<1>2. PICK C \in Nat, D \in Nat : C = Consumed /\ D = Consumed' /\ C <= Len(seen)
  BY <1>1, StepReads
<1>3. pc \notin {"idle", "done"} /\ from' = from
  BY DEF Continue, Dot, Second, SkipUntilNewline, SkipUntilEndComment, Star, Whitespace,
         IdentPos, Ident, Bare, Quote, String, Escape, Digits, Point, Tenths, Unit, Units,
         Mixed, Regex, RegexEscape, token
<1>4. /\ from \in Nat /\ from <= C
      /\ pc = "dot" => from < C
  BY <1>2, <1>3 DEF PlaceInv, Inside
<1>5. from <= D
  <2>1. CASE UNCHANGED vars
    <3>1. Consumed' = Consumed
      BY <2>1 DEF vars, Consumed
    <3>2. QED
      BY <3>1, <1>2, <1>4
  <2>2. CASE \E k \in 0 .. 2 : Take(k) /\ (k = 2 => pc = "dot")
    <3>1. PICK k \in 0 .. 2 : Take(k) /\ (k = 2 => pc = "dot")
      BY <2>2
    <3>2. D = C + 1 - k
      BY <1>2, <3>1, TakeReads
    <3>3. QED
      BY <3>1, <3>2, <1>4
  <2>3. QED
    BY <2>1, <2>2, OneRead DEF Next
<1>6. QED
  BY <1>2, <1>3, <1>4, <1>5

\* Where the text of a token goes on, its position is kept.
LEMMA GoesOn ==
  ASSUME ReaderInv, PlaceInv, PosInv, PartPos, Continue, pos' = pos,
         pc \notin Delimited, pc' \notin Delimited \cup InString
  PROVE  PartPos'
<1>1. [Next]_vars
  BY DEF Next
<1>2. /\ from \in Nat /\ from' = from /\ from <= Consumed /\ Consumed <= Len(seen)
      /\ Consumed \in Nat /\ pc \notin {"idle", "done"}
  BY ContinueReads
<1>3. PositionIn(seen', from + 1) = PositionIn(seen, from + 1)
  BY <1>1, <1>2, PlacesStay
<1>4. QED
  BY <1>2, <1>3 DEF PartPos

\* A token that has no quotes is returned with the position of its first rune.
LEMMA PlainPlaced ==
  ASSUME ReaderInv, PlaceInv, PosInv, PartPos, Continue, pc \notin Delimited,
         NEW t, NEW l, Return(t, pos, l), t \notin Quoted \cup Misread
  PROVE  GrownPos
<1>1. [Next]_vars
  BY DEF Next
<1>2. /\ from \in Nat /\ from' = from /\ from <= Consumed /\ Consumed <= Len(seen)
      /\ Consumed \in Nat /\ from' <= Consumed' /\ pc \notin {"idle", "done"}
  BY ContinueReads
<1>3. PositionIn(seen', from + 1) = PositionIn(seen, from + 1)
  BY <1>1, <1>2, PlacesStay
<1>4. PlacedIn(seen', t, pos, from', Consumed')
  BY <1>2, <1>3 DEF PlacedIn, PartPos
<1>5. QED
  BY <1>1, <1>2, <1>4, TokenPlaced

\* The rest of the tokens without quotes.
LEMMA PlainContinues ==
  ASSUME ReaderInv, PlaceInv, PosInv, PartPos, Continue, pos' = pos,
         pc \notin Delimited,
         \/ \E p : Goto(p) /\ p \notin Delimited \cup InString
         \/ \E t, l : Return(t, pos, l) /\ t \notin Quoted \cup Misread
  PROVE  PartPos' /\ GrownPos
<1>1. CASE \E p : Goto(p) /\ p \notin Delimited \cup InString
  <2>1. pc' \notin Delimited \cup InString /\ GrownPos
    BY <1>1 DEF Goto, GrownPos
  <2>2. QED
    BY <2>1, GoesOn
<1>2. CASE \E t, l : Return(t, pos, l) /\ t \notin Quoted \cup Misread
  <2>1. pc' \notin Delimited \cup InString
    BY <1>2, AfterReturn DEF Delimited, InString
  <2>2. QED
    BY <1>2, <2>1, GoesOn, PlainPlaced
<1>3. QED
  BY <1>1, <1>2

\* Which steps these are.
LEMMA PlainSteps ==
  ASSUME PlaceInv,
         \/ Dot \/ Second \/ SkipUntilNewline \/ SkipUntilEndComment \/ Star
         \/ Whitespace \/ Bare \/ Digits \/ Point \/ Tenths \/ Unit \/ Units \/ Mixed
  PROVE  /\ pos' = pos /\ pc \notin Delimited
         /\ \/ \E p : Goto(p) /\ p \notin Delimited \cup InString
            \/ \E t, l : Return(t, pos, l) /\ t \notin Quoted \cup Misread
<1> USE DEF Delimited, InString
<1>1. \A t \in {"DOT", "ILLEGAL", "COMMENT", "WS", "NUMBER", "INTEGER", "DURATIONVAL"} :
        t \notin Quoted \cup Misread
  BY DEF Quoted, Misread
<1>2. CASE Dot
  BY <1>1, <1>2 DEF Dot, token
<1>3. CASE Second
  <2>1. pc = "second" /\ pos' = pos /\ first \in TwoRune
    BY <1>3 DEF Second, token, PlaceInv
  <2>2. ASSUME first # "!" PROVE Operator1[first] \notin Quoted \cup Misread
    BY <2>1, <2>2, OperatorTokens, OperatorsPlain
  <2>3. QED
    BY <1>1, <1>3, <2>1, <2>2, OperatorsPlain DEF Second
<1>4. CASE SkipUntilNewline \/ SkipUntilEndComment \/ Star
  <2>1. pc \in {"line", "block", "star"} /\ pos' = pos
    BY <1>4 DEF SkipUntilNewline, SkipUntilEndComment, Star, token
  <2>2. QED
    BY <1>1, <1>4, <2>1 DEF SkipUntilNewline, SkipUntilEndComment, Star
<1>5. CASE Whitespace
  BY <1>1, <1>5 DEF Whitespace, Collect
<1>6. CASE Bare
  BY <1>6 DEF Bare, Collect
<1>7. CASE Digits
  BY <1>1, <1>7 DEF Digits, Collect
<1>8. CASE Point
  BY <1>8 DEF Point, token
<1>9. CASE Tenths
  BY <1>1, <1>9 DEF Tenths
<1>10. CASE Unit \/ Units \/ Mixed
  BY <1>1, <1>10 DEF Unit, Units, Mixed, Collect
<1>11. QED
  BY <1>2, <1>3, <1>4, <1>5, <1>6, <1>7, <1>8, <1>9, <1>10

\* A string ends, or is found to be bad, whoever asked for it.
LEMMA StringPlaced ==
  ASSUME ReaderInv, PlaceInv, PosInv, PartPos, Continue, pc \in {"string", "escape"},
         Consumed <= Consumed',
         NEW t \in {"STRING", "BADSTRING", "BADESCAPE"}, NEW p, NEW l, EndString(t, p, l),
         t # "BADESCAPE" => p = quotePos,
         t = "BADESCAPE" => \E j \in from .. Consumed' : p = PosOf(seen', j)
  PROVE  GrownPos
<1>1. [Next]_vars
  BY DEF Next
<1>2. PICK C \in Nat, D \in Nat : C = Consumed /\ D = Consumed'
  BY ContinueReads
<1>3. from \in Nat /\ from' = from /\ from < C /\ C <= Len(seen) /\ C <= D
  BY <1>2, ContinueReads DEF PlaceInv, Inside
<1>4. /\ PosOf(seen', from) = PosOf(seen, from)
      /\ PositionIn(seen', from + 1) = PositionIn(seen, from + 1)
      /\ \A j \in from .. C : PosOf(seen', j) = PosOf(seen, j)
  BY <1>1, <1>3, PlacesStay
<1>5. /\ pos = PositionIn(seen', from + 1)
      /\ caller = "scan" => quotePos = PosOf(seen', from)
      /\ \E j \in from .. C : quotePos = PosOf(seen, j)
  <2>1. pc \in InString /\ pc \notin {"idle", "done"} \cup Delimited
    BY DEF InString, Delimited
  <2>2. QED
    BY <2>1, <1>2, <1>4 DEF PartPos
<1>6. \E j \in from .. D : quotePos = PosOf(seen', j)
  <2>1. PICK j \in from .. C : quotePos = PosOf(seen, j)
    BY <1>5
  <2>2. j \in from .. D
    BY <1>3
  <2>3. quotePos = PosOf(seen', j)
    BY <2>1, <1>4
  <2>4. QED
    BY <2>2, <2>3
<1>7. \E j \in from .. D : pos = PosOf(seen', j)
  <2>1. PICK m \in Nat : m = from + 1 /\ m > 0
    BY <1>3
  <2>2. PosOf(seen', m) = PositionIn(seen', m)
    BY <2>1 DEF PosOf
  <2>3. m \in from .. D
    BY <2>1, <1>3
  <2>4. QED
    BY <2>1, <2>2, <2>3, <1>5
<1>8. t \in Misread => \E j \in from .. D : p = PosOf(seen', j)
  BY <1>2, <1>6 DEF Misread
<1>9. /\ t # "STRING" => t \in Misread /\ t \notin Quoted
      /\ "STRING" \in Quoted /\ "STRING" \notin Misread
      /\ "IDENT" \notin Quoted \cup Misread /\ "BOUNDPARAM" \notin Quoted \cup Misread
  BY DEF Quoted, Misread
<1>10. PICK u, q, m : Return(u, q, m) /\ PlacedIn(seen', u, q, from, D)
  <2>1. CASE caller = "scan"
    <3>1. Return(t, p, l)
      BY <2>1 DEF EndString
    <3>2. t = "STRING" => p = PosOf(seen', from)
      BY <2>1, <1>5
    <3>3. PlacedIn(seen', t, p, from, D)
      BY <3>2, <1>8, <1>9 DEF PlacedIn
    <3>4. QED
      BY <3>1, <3>3
  <2>2. CASE caller = "param"
    <3>1. PICK u, m : Return(u, pos, m) /\ u = IF t = "STRING" THEN "BOUNDPARAM" ELSE t
      BY <2>2 DEF EndString
    <3>2. PlacedIn(seen', u, pos, from, D)
      BY <3>1, <1>5, <1>7, <1>9 DEF PlacedIn
    <3>3. QED
      BY <3>1, <3>2
  <2>3. CASE caller \notin {"scan", "param"} /\ t = "STRING"
    <3>1. Return("IDENT", pos, l)
      BY <2>3 DEF EndString
    <3>2. PlacedIn(seen', "IDENT", pos, from, D)
      BY <1>5, <1>9 DEF PlacedIn
    <3>3. QED
      BY <3>1, <3>2
  <2>4. CASE caller \notin {"scan", "param"} /\ t # "STRING"
    <3>1. Return(t, p, l)
      BY <2>4 DEF EndString
    <3>2. PlacedIn(seen', t, p, from, D)
      BY <2>4, <1>8, <1>9 DEF PlacedIn
    <3>3. QED
      BY <3>1, <3>2
  <2>5. QED
    BY <2>1, <2>2, <2>3, <2>4
<1>11. QED
  <2>1. from' \in Nat /\ from' <= Consumed' /\ PlacedIn(seen', u, q, from', Consumed')
    BY <1>2, <1>3, <1>10
  <2>2. QED
    BY <2>1, <1>1, <1>10, TokenPlaced

\* Identifiers, strings and regular expressions.
LEMMA QuotedContinues ==
  ASSUME ReaderInv, PlaceInv, PosInv, PartPos, Continue,
         IdentPos \/ Ident \/ Quote \/ String \/ Escape \/ Regex \/ RegexEscape
  PROVE  PartPos' /\ GrownPos
<1> USE DEF Delimited, InString
<1>1. [Next]_vars
  BY DEF Next
<1>2. PICK C \in Nat, D \in Nat : C = Consumed /\ D = Consumed'
  BY ContinueReads
<1>3. /\ from \in Nat /\ from' = from /\ from <= C /\ C <= Len(seen) /\ from <= D
      /\ Take(0) => D = C + 1
      /\ Take(1) => D = C
  BY <1>1, <1>2, ContinueReads, StepReads
<1>4. /\ PosOf(seen', from) = PosOf(seen, from)
      /\ PositionIn(seen', from + 1) = PositionIn(seen, from + 1)
      /\ \A j \in from .. C : PosOf(seen', j) = PosOf(seen, j)
  BY <1>1, <1>3, PlacesStay
<1>5. ASSUME NEW p, Goto(p) PROVE pc' = p /\ GrownPos
  BY <1>5 DEF Goto, GrownPos
<1>6. Take(0) \/ Take(1) => Next1.pos = PositionIn(seen', C + 1)
  <2>1. ASSUME NEW k \in 0 .. 2, Take(k) PROVE Next1.pos = PositionIn(seen', C + 1)
    BY <1>1, <1>2, <2>1, ReadPosition
  <2>2. QED
    BY <2>1
<1>7. CASE IdentPos
  <2>1. /\ pc = "identPos" /\ pc' = "ident" /\ GrownPos /\ Take(1)
        /\ pos' = IF caller = "ident" THEN Next1.pos ELSE pos
    BY <1>5, <1>7 DEF IdentPos
  <2>2. caller = "ident" => C = from
    BY <2>1, <1>2 DEF PlaceInv, IdentPlace
  <2>3. pos = PositionIn(seen, from + 1)
    BY <2>1 DEF PartPos
  <2>4. pos' = PositionIn(seen', from + 1)
    BY <2>1, <2>2, <2>3, <1>4, <1>6
  <2>5. QED
    BY <2>1, <2>4, <1>3 DEF PartPos
<1>8. CASE Ident
  <2>1. pc = "ident" /\ pos' = pos /\ caller' = caller
    BY <1>8 DEF Ident
  <2>2. CASE Take(1) /\ quotePos' = Curr(rd').pos /\ Goto("quote")
    <3>1. pc' = "quote" /\ GrownPos /\ D = C
      BY <2>2, <1>3, <1>5
    <3>2. caller' # "scan"
      BY <2>1 DEF PlaceInv, IdentPlace
    <3>3. quotePos' = PosOf(seen', D)
      <4>1. ReaderInv' /\ PosInv'
        BY <1>1, NextReaderInv, NextPosition
      <4>2. CurrIsConsumed'
        BY CurrPosition, PTL
      <4>3. QED
        BY <2>2, <4>1, <4>2, <1>2 DEF CurrIsConsumed
    <3>4. D \in from .. D
      BY <1>3
    <3>5. pos = PositionIn(seen, from + 1)
      BY <2>1 DEF PartPos
    <3>6. QED
      BY <2>1, <3>1, <3>2, <3>3, <3>4, <3>5, <1>2, <1>3, <1>4 DEF PartPos
  <2>3. CASE Goto("bare")
    BY <2>1, <2>3, PlainContinues
  <2>4. CASE EndIdent
    <3>1. \A t \in {"BOUNDPARAM", "KEYWORD", "IDENT"} : t \notin Quoted \cup Misread
      BY DEF Quoted, Misread
    <3>2. \E t, l : Return(t, pos, l) /\ t \notin Quoted \cup Misread
      BY <2>4, <3>1 DEF EndIdent
    <3>3. QED
      BY <2>1, <3>2, PlainContinues
  <2>5. QED
    BY <1>8, <2>2, <2>3, <2>4 DEF Ident
<1>9. CASE pc \in InString /\ pc' \in InString /\ Take(0) /\ pos' = pos /\ quotePos' = quotePos
           /\ caller' = caller /\ toks' = toks
  <2>1. /\ pos = PositionIn(seen, from + 1)
        /\ caller = "scan" => quotePos = PosOf(seen, from)
        /\ \E j \in from .. C : quotePos = PosOf(seen, j)
    BY <1>2, <1>9 DEF PartPos
  <2>2. \E j \in from .. D : quotePos = PosOf(seen', j)
    <3>1. PICK j \in from .. C : quotePos = PosOf(seen, j)
      BY <2>1
    <3>2. j \in from .. D
      BY <1>3, <1>9
    <3>3. quotePos = PosOf(seen', j)
      BY <3>1, <1>4
    <3>4. QED
      BY <3>2, <3>3
  <2>3. PartPos'
    BY <2>1, <2>2, <1>2, <1>3, <1>4, <1>9 DEF PartPos
  <2>4. QED
    BY <2>3, <1>9 DEF GrownPos
<1>10. CASE Quote
  <2>1. pc \in InString /\ pc' \in InString /\ Take(0) /\ pos' = pos /\ quotePos' = quotePos
        /\ caller' = caller /\ toks' = toks
    BY <1>10 DEF Quote, Goto
  <2>2. QED
    BY <2>1, <1>9
<1>11. CASE String \/ Escape
  <2>1. /\ pc \in {"string", "escape"} /\ pos' = pos /\ quotePos' = quotePos
        /\ caller' = caller /\ Take(0)
    BY <1>11 DEF String, Escape, Collect
  <2>2. CASE Goto("string") \/ Goto("escape")
    BY <2>1, <2>2, <1>9 DEF Goto
  <2>3. ASSUME NEW t \in {"STRING", "BADSTRING", "BADESCAPE"}, NEW p, NEW l,
               EndString(t, p, l), t # "BADESCAPE" => p = quotePos,
               t = "BADESCAPE" => p = Next1.pos
        PROVE  PartPos' /\ GrownPos
    <3>1. t = "BADESCAPE" => \E j \in from .. Consumed' : p = PosOf(seen', j)
      <4>1. PICK m \in Nat : m = C + 1 /\ m = D /\ m > 0
        BY <2>1, <1>3
      <4>2. PosOf(seen', m) = PositionIn(seen', m)
        BY <4>1 DEF PosOf
      <4>3. m \in from .. D
        BY <4>1, <1>3
      <4>4. QED
        BY <2>1, <2>3, <4>1, <4>2, <4>3, <1>2, <1>6
    <3>2. Consumed <= Consumed'
      BY <2>1, <1>2, <1>3
    <3>3. GrownPos
      BY <2>1, <2>3, <3>1, <3>2, StringPlaced
    <3>4. pc' \in {"idle", "done"}
      BY <2>3, AfterReturn DEF EndString
    <3>5. QED
      BY <3>3, <3>4 DEF PartPos
  <2>4. CASE EndString("STRING", quotePos, lit) \/ EndString("BADSTRING", quotePos, lit)
    BY <2>3, <2>4
  <2>5. CASE EndString("BADESCAPE", Next1.pos, <<"\\", Next1.ch>>)
    BY <2>3, <2>5
  <2>6. QED
    BY <1>11, <2>2, <2>4, <2>5 DEF String, Escape, Collect
<1>12. CASE Regex \/ RegexEscape
  <2>1. pc \in Delimited /\ pos' = pos
    BY <1>12 DEF Regex, RegexEscape
  <2>2. pos = PosOf(seen', from)
    BY <2>1, <1>4 DEF PartPos
  <2>3. CASE Goto("regex") \/ Goto("regexEscape")
    <3>1. pc' \in Delimited /\ GrownPos
      BY <2>3, <1>5
    <3>2. QED
      BY <2>1, <2>2, <3>1, <1>3 DEF PartPos
  <2>4. CASE \E t \in {"REGEX", "BADREGEX"}, l \in {lit, <<>>} : Return(t, pos, l)
    <3>1. PICK t \in {"REGEX", "BADREGEX"}, l \in {lit, <<>>} : Return(t, pos, l)
      BY <2>4
    <3>2. t \in Quoted /\ t \notin Misread
      BY DEF Quoted, Misread
    <3>3. PlacedIn(seen', t, pos, from', Consumed')
      BY <2>2, <3>2, <1>3 DEF PlacedIn
    <3>4. GrownPos
      BY <3>1, <3>3, <1>1, <1>2, <1>3, TokenPlaced
    <3>5. pc' \in {"idle", "done"}
      BY <3>1, AfterReturn
    <3>6. QED
      BY <3>4, <3>5 DEF PartPos
  <2>5. QED
    BY <1>12, <2>3, <2>4 DEF Regex, RegexEscape, Collect
<1>13. QED
  BY <1>7, <1>8, <1>10, <1>11, <1>12

\* The position of a regular expression is that of the rune before it.
LEMMA RegexPlaced ==
  ASSUME ReaderInv, PosInv, ScanRegex
  PROVE  PartPos' /\ GrownPos
<1>1. [Next]_vars
  BY DEF Next
<1>2. /\ pc' = "regex" /\ toks' = toks /\ from' = Consumed /\ pos' = Curr(rd).pos
  BY DEF ScanRegex, StartAt, Goto
<1>3. PICK C \in Nat : C = Consumed /\ C <= Len(seen)
  BY <1>1, StepReads
<1>4. Curr(rd).pos = PosOf(seen, C)
  BY <1>3, CurrPosition DEF CurrIsConsumed
<1>5. PosOf(seen', C) = PosOf(seen, C)
  BY <1>1, <1>3, PlacesStay
<1>6. PartPos'
  BY <1>2, <1>3, <1>4, <1>5 DEF PartPos, Delimited, InString
<1>7. QED
  BY <1>2, <1>6 DEF GrownPos

\* Every step keeps the position of the token that is being read, and returns
\* a token with its position.
LEMMA StepPlaced ==
  ASSUME ReaderInv, PlaceInv, PosInv, PartPos, [Next]_vars
  PROVE  PartPos' /\ GrownPos
<1>1. CASE UNCHANGED vars
  BY <1>1 DEF vars, PartPos, GrownPos, Consumed
<1>2. CASE Scan
  BY <1>2, ScanPlaced
<1>3. CASE Continue
  <2>1. CASE \/ Dot \/ Second \/ SkipUntilNewline \/ SkipUntilEndComment \/ Star
             \/ Whitespace \/ Bare \/ Digits \/ Point \/ Tenths \/ Unit \/ Units \/ Mixed
    BY <1>3, <2>1, PlainSteps, PlainContinues
  <2>2. QED
    BY <1>3, <2>1, QuotedContinues DEF Continue
<1>4. CASE Peek
  <2>1. pc \in {"idle"} /\ pc' = pc /\ toks' = toks
    BY <1>4 DEF Peek
  <2>2. QED
    BY <2>1 DEF PartPos, Delimited, InString, GrownPos
<1>5. CASE ScanRegex
  BY <1>5, RegexPlaced
<1>6. QED
  BY <1>1, <1>2, <1>3, <1>4, <1>5 DEF Next, Finished

\* The tokens that have been returned keep their positions.
LEMMA NextPlaced ==
  ASSUME ReaderInv, PlaceInv, TokensTyped, PosInv, PartPos, TokensPlaced, [Next]_vars
  PROVE  PosInv' /\ PartPos' /\ TokensPlaced'
<1>1. PartPos' /\ GrownPos
  BY StepPlaced
<1>2. ASSUME NEW m \in DOMAIN toks, NEW t, t = toks[m] PROVE Placed(t)'
  <2>1. Placed(t)
    BY <1>2 DEF TokensPlaced
  <2>2. QED
    BY <2>1, PlacedStays
<1>3. CASE toks' = toks
  <2>1. ASSUME NEW m \in DOMAIN toks', NEW t, t = toks'[m] PROVE Placed(t)'
    BY <1>2, <1>3, <2>1
  <2>2. QED
    BY <2>1, <1>1, NextPosition DEF TokensPlaced
<1>4. CASE \E r : toks' = Append(toks, r) /\ Placed(r)'
  <2>1. PICK r : toks' = Append(toks, r) /\ Placed(r)'
    BY <1>4
  <2>2. toks \in Seq(TokenRecord)
    BY DEF TokensTyped
  <2>3. ASSUME NEW m \in DOMAIN toks', NEW t, t = toks'[m] PROVE Placed(t)'
    <3>1. (m \in DOMAIN toks /\ t = toks[m]) \/ t = r
      BY <2>1, <2>2, <2>3
    <3>2. QED
      BY <3>1, <2>1, <1>2
  <2>4. QED
    BY <2>3, <1>1, NextPosition DEF TokensPlaced
<1>5. QED
  BY <1>1, <1>3, <1>4 DEF GrownPos

\* The position the reader computed is the one that TokenPositions counts.
LEMMA PlacedIsPositioned ==
  ASSUME ReaderInv, PosInv, TokensPlaced
  PROVE  TokenPositions
<1>1. Len(seen) \in Nat
  BY DEF ReaderInv
<1>2. ASSUME NEW m \in Nat, m > 0, m <= Len(seen) + 1 PROVE PosOf(seen, m) = PositionAt(m)
  <2>1. m \in 1 .. Len(seen) + 1
    BY <1>1, <1>2
  <2>2. PICK j : IsStart(seen, m, j)
    BY <2>1 DEF PosInv
  <2>3. PositionAt(m) = PositionIn(seen, m)
    BY <2>2, PositionAtIsIn
  <2>4. QED
    BY <2>3, <1>2 DEF PosOf
<1> DEFINE Right(t) ==
      CASE t.tok \in Quoted ->
             t.pos = IF t.from = 0 THEN PosZero ELSE PositionAt(t.from)
        [] t.tok \in {"BADSTRING", "BADESCAPE"} ->
             \/ t.from = 0 /\ t.pos = PosZero
             \/ \E j \in t.from .. t.to : j > 0 /\ t.pos = PositionAt(j)
        [] OTHER -> t.pos = PositionAt(t.from + 1)
<1> HIDE DEF Right
<1>3. SUFFICES ASSUME NEW k \in DOMAIN toks, NEW t, t = toks[k] PROVE Right(t)
  BY DEF TokenPositions, Right
<1>4. Placed(t)
  BY <1>3 DEF TokensPlaced
<1>5. PICK a \in Nat, b \in Nat : a = t.from /\ b = t.to /\ a <= b /\ b <= Len(seen)
  BY <1>4 DEF Placed
<1>6. PlacedIn(seen, t.tok, t.pos, a, b)
  BY <1>4, <1>5 DEF Placed
<1>7. PosOf(seen, a) = IF a = 0 THEN PosZero ELSE PositionAt(a)
  <2>1. CASE a = 0
    BY <2>1 DEF PosOf
  <2>2. CASE a # 0
    <3>1. a > 0 /\ a <= Len(seen) + 1
      BY <1>1, <1>5, <2>2
    <3>2. QED
      BY <2>2, <3>1, <1>2
  <2>3. QED
    BY <2>1, <2>2
<1>8. ASSUME NEW j \in a .. b
      PROVE  \/ a = 0 /\ PosOf(seen, j) = PosZero
             \/ j > 0 /\ PosOf(seen, j) = PositionAt(j)
  <2>1. CASE j = 0
    BY <2>1, <1>5, <1>8 DEF PosOf
  <2>2. CASE j # 0
    <3>1. j \in Nat /\ j > 0 /\ j <= Len(seen) + 1
      BY <1>1, <1>5, <1>8, <2>2
    <3>2. QED
      BY <3>1, <1>2
  <2>3. QED
    BY <2>1, <2>2
<1>9. PositionIn(seen, a + 1) = PositionAt(a + 1)
  <2>1. PICK m \in Nat : m = a + 1 /\ m > 0 /\ m <= Len(seen) + 1
    BY <1>1, <1>5
  <2>2. PosOf(seen, m) = PositionAt(m) /\ PosOf(seen, m) = PositionIn(seen, m)
    BY <2>1, <1>2 DEF PosOf
  <2>3. QED
    BY <2>1, <2>2
<1>10. t.tok \in Misread =>
         \/ t.from = 0 /\ t.pos = PosZero
         \/ \E j \in t.from .. t.to : j > 0 /\ t.pos = PositionAt(j)
  BY <1>5, <1>6, <1>8 DEF PlacedIn
<1>11. \A x \in Quoted : x \notin Misread
  BY DEF Quoted, Misread
<1>12. CASE t.tok \in Quoted
  <2>1. t.pos = IF t.from = 0 THEN PosZero ELSE PositionAt(t.from)
    BY <1>5, <1>6, <1>7, <1>12 DEF PlacedIn
  <2>2. QED
    BY <2>1, <1>11, <1>12 DEF Right, Misread
<1>13. CASE t.tok \in Misread
  BY <1>10, <1>11, <1>13 DEF Right, Misread
<1>14. CASE t.tok \notin Quoted \cup Misread
  <2>1. t.pos = PositionAt(t.from + 1)
    BY <1>5, <1>6, <1>9, <1>14 DEF PlacedIn
  <2>2. QED
    BY <2>1, <1>14 DEF Right, Misread
<1>15. QED
  BY <1>12, <1>13, <1>14

\* Every token is returned with the position of its first rune, whatever the
\* text and its line ends, with the exceptions the code makes: a string and a
\* regular expression with that of the rune before their first, and a bad
\* string or escape with that of a rune inside it or just before it.  No run of
\* reads, peeks and push-backs makes the ring answer with another rune's.
THEOREM ScannerTokenPositions == Spec => []TokenPositions
<1>1. Init => PosInv /\ PartPos /\ TokensPlaced
  <2> SUFFICES ASSUME Init PROVE PosInv /\ PartPos /\ TokensPlaced
    OBVIOUS
  <2>1. pc = "idle" /\ toks = <<>>
    BY DEF Init
  <2>2. PartPos /\ TokensPlaced
    BY <2>1 DEF PartPos, TokensPlaced, Delimited, InString
  <2>3. QED
    BY <2>2, InitPosition
<1>2. /\ ReaderInv /\ PlaceInv /\ TokensTyped /\ PosInv /\ PartPos /\ TokensPlaced
      /\ [Next]_vars
      => (PosInv /\ PartPos /\ TokensPlaced)'
  BY NextPlaced
<1>3. ReaderInv /\ PosInv /\ TokensPlaced => TokenPositions
  BY PlacedIsPositioned
<1>4. QED
  BY <1>1, <1>2, <1>3, ReaderInvariant, PlaceInvariant, TokensInvariant, PTL DEF Spec
=============================================================================
