------------------------------ MODULE Scanner -------------------------------
(***************************************************************************)
(* The lexical scanner of scanner.go, as the step machine its methods form *)
(* over the rune reader.  pc names the call of read() the scanner is about *)
(* to make; a step is that call, with the unread() calls that follow it    *)
(* and the choice of the next read() or of the token to return.            *)
(*                                                                         *)
(* Between two tokens (pc = "idle") the parser decides what comes next: it *)
(* may peek at the next rune (Parser.peekRune), and it asks for a token,   *)
(* or, when it has seen a slash, for a regular expression.                 *)
(***************************************************************************)
EXTENDS RuneReader, FiniteSets

CONSTANTS
  Letter, Digit,  \* the runes isLetter and isDigit accept
  Blank,          \* space and tab
  Micro,          \* the micro sign, a unit of durations
  Keyword,        \* the literals that token.go's Lookup maps to a keyword
  Input           \* the texts scanned

ASSUME TextAssumption ==
  /\ {".", "$", "!", "\\"} \subseteq Rune /\ Input \subseteq Seq(Rune)
  /\ NUL \notin Letter \cup Digit \cup Blank \cup {Micro, LF, "_", ".", "$", "'", "\""}
  /\ "\"" \notin Letter \cup Digit

VARIABLES
  rd,      \* the reader
  pc,      \* the read() about to be made
  caller,  \* who asked for a string or an identifier
  first,   \* the rune the token started with, or the quote of a string
  pos,     \* the position the token will be returned with
  lit,     \* the literal collected so far
  quotePos,\* scanString's own pos
  from,    \* how many runes had been consumed when the token started
  peeked,  \* the parser has peeked since the last token
  toks,    \* the tokens returned
  seen,    \* every rune the reader has fetched
  ch       \* the rune returned by the last read()

vars == <<rd, pc, caller, first, pos, lit, quotePos, from, peeked, toks, seen, ch>>

token == <<caller, first, pos, lit, quotePos, from>>

----------------------------------------------------------------------------
(* Classes of runes and the tokens of operators.                           *)

IsWhitespace(c) == c \in Blank \cup {LF}
IsLetter(c) == c \in Letter
IsDigit(c) == c \in Digit
IsIdentChar(c) == IsLetter(c) \/ IsDigit(c) \/ c = "_"
IsIdentFirstChar(c) == IsLetter(c) \/ c = "_"
IsUnit(c) == IsLetter(c) \/ c = Micro

\* Runes that may be followed by a second one that belongs to the token.
TwoRune == {"-", "/", "=", "!", ">", "<", ":"}

\* A lone "!" is no token, and is returned as the rune it is.
Operator1 ==
  [c \in {"+", "-", "*", "/", "%", "&", "|", "^", "=", ">", "<",
          "(", ")", ",", ";", ":"} |->
     CASE c = "+" -> "ADD"         [] c = "-" -> "SUB"
       [] c = "*" -> "MUL"         [] c = "/" -> "DIV"
       [] c = "%" -> "MOD"         [] c = "&" -> "BITWISE_AND"
       [] c = "|" -> "BITWISE_OR"  [] c = "^" -> "BITWISE_XOR"
       [] c = "=" -> "EQ"          [] c = ">" -> "GT"
       [] c = "<" -> "LT"          [] c = "(" -> "LPAREN"
       [] c = ")" -> "RPAREN"      [] c = "," -> "COMMA"
       [] c = ";" -> "SEMICOLON"   [] c = ":" -> "COLON"]

Operator2 ==
  [p \in {<<"=", "~">>, <<"!", "=">>, <<"!", "~">>, <<">", "=">>,
          <<"<", "=">>, <<"<", ">">>, <<":", ":">>} |->
     CASE p = <<"=", "~">> -> "EQREGEX"  [] p = <<"!", "=">> -> "NEQ"
       [] p = <<"!", "~">> -> "NEQREGEX" [] p = <<">", "=">> -> "GTE"
       [] p = <<"<", "=">> -> "LTE"      [] p = <<"<", ">">> -> "NEQ"
       [] p = <<":", ":">> -> "DOUBLECOLON"]

Escapable == {"n", "\\", "\"", "'"}

Unescaped(c) == IF c = "n" THEN LF ELSE c

----------------------------------------------------------------------------
(* Steps over the reader.                                                  *)

Consumed == Len(seen) - rd.n

Next1 == Curr(Read(rd))

\* One read() followed by k unread()s.
Take(k) ==
  /\ rd' = Unread(Read(rd), k)
  /\ ch' = Next1.ch
  /\ seen' = IF rd.n > 0 THEN seen ELSE Append(seen, Next1.ch)

\* Scan returns: EOF ends the scan.
Return(t, p, l) ==
  /\ toks' = Append(toks, [tok |-> t, pos |-> p, lit |-> l,
                           from |-> from', to |-> Len(seen') - rd'.n])
  /\ pc' = IF t = "EOF" THEN "done" ELSE "idle"
  /\ peeked' = FALSE

Goto(p) == pc' = p /\ UNCHANGED <<toks, peeked>>

Collect(p, c) == Take(0) /\ lit' = Append(lit, c) /\ Goto(p)

----------------------------------------------------------------------------
(* Scan: the first rune decides.                                           *)

StartAt(p) == from' = Consumed /\ pos' = p

ScanWhitespace ==
  /\ pc = "idle" /\ IsWhitespace(Next1.ch)
  /\ Take(0) /\ StartAt(Next1.pos)
  /\ lit' = <<Next1.ch>>
  /\ Goto("ws") /\ UNCHANGED <<caller, first, quotePos>>

ScanIdent ==
  /\ pc = "idle" /\ (IsIdentFirstChar(Next1.ch) \/ Next1.ch = "\"")
  /\ Take(1) /\ StartAt(Next1.pos)
  /\ caller' = "ident" /\ lit' = <<>>
  /\ Goto("identPos") /\ UNCHANGED <<first, quotePos>>

ScanParam ==
  /\ pc = "idle" /\ Next1.ch = "$"
  /\ Take(0) /\ StartAt(Next1.pos)
  /\ caller' = "param" /\ lit' = <<>>
  /\ Goto("identPos") /\ UNCHANGED <<first, quotePos>>

ScanQuoted ==
  /\ pc = "idle" /\ Next1.ch = "'"
  /\ Take(1) /\ StartAt(Next1.pos)
  /\ caller' = "scan" /\ quotePos' = Curr(rd').pos /\ lit' = <<>>
  /\ Goto("quote") /\ UNCHANGED first

ScanNumber ==
  /\ pc = "idle" /\ IsDigit(Next1.ch)
  /\ Take(1) /\ StartAt(Next1.pos)
  /\ lit' = <<>>
  /\ Goto("digits") /\ UNCHANGED <<caller, first, quotePos>>

ScanOperator ==
  /\ pc = "idle" /\ Next1.ch \in TwoRune \cup {"."}
  /\ Take(0) /\ StartAt(Next1.pos)
  /\ first' = Next1.ch /\ lit' = <<>>
  /\ Goto(IF Next1.ch = "." THEN "dot" ELSE "second")
  /\ UNCHANGED <<caller, quotePos>>

ScanSingle ==
  /\ pc = "idle" /\ Next1.ch \in DOMAIN Operator1 \ TwoRune
  /\ Take(0) /\ StartAt(Next1.pos)
  /\ Return(Operator1[Next1.ch], Next1.pos, <<>>)
  /\ UNCHANGED <<caller, first, lit, quotePos>>

ScanEOF ==
  /\ pc = "idle" /\ Next1.ch = NUL
  /\ Take(0) /\ StartAt(Next1.pos)
  /\ Return("EOF", Next1.pos, <<>>)
  /\ UNCHANGED <<caller, first, lit, quotePos>>

ScanIllegal ==
  /\ pc = "idle"
  /\ Next1.ch \notin Blank \cup Letter \cup Digit \cup TwoRune \cup DOMAIN Operator1
                       \cup {LF, NUL, "_", "\"", "'", ".", "$"}
  /\ Take(0) /\ StartAt(Next1.pos)
  /\ Return("ILLEGAL", Next1.pos, <<Next1.ch>>)
  /\ UNCHANGED <<caller, first, lit, quotePos>>

----------------------------------------------------------------------------
(* The rest of operators and comments.                                     *)

Dot ==
  /\ pc = "dot" /\ UNCHANGED token
  /\ \/ /\ IsDigit(Next1.ch)     \* the stop is read again, by scanDigits
        /\ Take(2) /\ Goto("digits")
     \/ /\ ~ IsDigit(Next1.ch)
        /\ Take(1) /\ Return("DOT", pos, <<>>)

Second ==
  /\ pc = "second" /\ UNCHANGED token
  /\ LET two == <<first, Next1.ch>> IN
     \/ two = <<"-", "-">> /\ Take(0) /\ Goto("line")
     \/ two = <<"/", "*">> /\ Take(0) /\ Goto("block")
     \/ two \in DOMAIN Operator2 /\ Take(0) /\ Return(Operator2[two], pos, <<>>)
     \/ /\ two \notin DOMAIN Operator2 \cup {<<"-", "-">>, <<"/", "*">>}
        /\ Take(1)
        /\ IF first = "!" THEN Return("ILLEGAL", pos, <<"!">>)
                          ELSE Return(Operator1[first], pos, <<>>)

SkipUntilNewline ==
  /\ pc = "line" /\ UNCHANGED token
  /\ Take(0)
  /\ IF Next1.ch \in {LF, NUL} THEN Return("COMMENT", pos, <<>>)
                               ELSE Goto("line")

SkipUntilEndComment ==
  /\ pc = "block" /\ UNCHANGED token
  /\ Take(0)
  /\ CASE Next1.ch = NUL -> Return("ILLEGAL", pos, <<>>)
       [] Next1.ch = "*" -> Goto("star")
       [] OTHER          -> Goto("block")

Star ==
  /\ pc = "star" /\ UNCHANGED token
  /\ Take(0)
  /\ CASE Next1.ch = NUL -> Return("ILLEGAL", pos, <<>>)
       [] Next1.ch = "/" -> Return("COMMENT", pos, <<>>)
       [] Next1.ch = "*" -> Goto("star")
       [] OTHER          -> Goto("block")

Whitespace ==
  /\ pc = "ws" /\ UNCHANGED <<caller, first, pos, quotePos, from>>
  /\ \/ IsWhitespace(Next1.ch) /\ Collect("ws", Next1.ch)
     \/ /\ ~ IsWhitespace(Next1.ch)
        /\ Take(IF Next1.ch = NUL THEN 0 ELSE 1)
        /\ Return("WS", pos, lit) /\ UNCHANGED lit

----------------------------------------------------------------------------
(* Identifiers, keywords, bound parameters and strings.                    *)

\* scanIdent is done: Lookup applies only when it was not called for a "$".
EndIdent ==
  IF caller = "param" THEN Return("BOUNDPARAM", pos, <<"$">> \o lit)
  ELSE IF lit \in Keyword THEN Return("KEYWORD", pos, <<>>)
  ELSE Return("IDENT", pos, lit)

IdentPos ==
  /\ pc = "identPos" /\ Take(1)
  /\ pos' = IF caller = "ident" THEN Next1.pos ELSE pos
  /\ Goto("ident") /\ UNCHANGED <<caller, first, lit, quotePos, from>>

Ident ==
  /\ pc = "ident" /\ UNCHANGED <<caller, first, pos, from>>
  /\ \/ /\ Next1.ch = "\""
        /\ Take(1) /\ quotePos' = Curr(rd').pos
        /\ lit' = <<>> /\ Goto("quote")
     \/ /\ IsIdentChar(Next1.ch)
        /\ Take(1) /\ Goto("bare") /\ UNCHANGED <<lit, quotePos>>
     \/ /\ Next1.ch # "\"" /\ ~ IsIdentChar(Next1.ch)
        /\ Take(IF Next1.ch = NUL THEN 0 ELSE 1)
        /\ EndIdent /\ UNCHANGED <<lit, quotePos>>

\* Mutant: a bare identifier is read with the test for its first rune.
Bare_FirstCharTest ==
  /\ pc = "bare" /\ UNCHANGED <<caller, first, pos, quotePos, from>>
  /\ \/ IsIdentFirstChar(Next1.ch) /\ Collect("bare", Next1.ch)
     \/ /\ ~ IsIdentFirstChar(Next1.ch)
        /\ Take(IF Next1.ch = NUL THEN 0 ELSE 1)
        /\ Goto("ident") /\ UNCHANGED lit

\* ScanBareIdent
Bare ==
  /\ pc = "bare" /\ UNCHANGED <<caller, first, pos, quotePos, from>>
  /\ \/ IsIdentChar(Next1.ch) /\ Collect("bare", Next1.ch)
     \/ /\ ~ IsIdentChar(Next1.ch)
        /\ Take(IF Next1.ch = NUL THEN 0 ELSE 1)
        /\ Goto("ident") /\ UNCHANGED lit

\* scanString is done; what scanIdent and Scan then return.
EndString(t, p, l) ==
  IF caller = "scan" THEN Return(t, p, l)
  ELSE IF caller = "param"
    THEN Return(IF t = "STRING" THEN "BOUNDPARAM" ELSE t, pos, <<"$">> \o l)
  ELSE IF t = "STRING" THEN Return("IDENT", pos, l)
  ELSE Return(t, p, l)

\* ScanString's first read: the quote just pushed back.
Quote ==
  /\ pc = "quote" /\ Take(0)
  /\ first' = Next1.ch
  /\ Goto("string") /\ UNCHANGED <<caller, pos, lit, quotePos, from>>

String ==
  /\ pc = "string" /\ UNCHANGED <<caller, first, pos, quotePos, from>>
  /\ \/ /\ Next1.ch = first
        /\ Take(0) /\ EndString("STRING", quotePos, lit) /\ UNCHANGED lit
     \/ /\ Next1.ch \in {LF, NUL}
        /\ Take(0) /\ EndString("BADSTRING", quotePos, lit) /\ UNCHANGED lit
     \/ Next1.ch = "\\" /\ Take(0) /\ Goto("escape") /\ UNCHANGED lit
     \/ Next1.ch \notin {first, LF, NUL, "\\"} /\ Collect("string", Next1.ch)

Escape ==
  /\ pc = "escape" /\ UNCHANGED <<caller, first, pos, quotePos, from>>
  /\ \/ Next1.ch \in Escapable /\ Collect("string", Unescaped(Next1.ch))
     \/ /\ Next1.ch \notin Escapable
        /\ Take(0) /\ EndString("BADESCAPE", Next1.pos, <<"\\", Next1.ch>>)
        /\ UNCHANGED lit

----------------------------------------------------------------------------
(* Numbers and durations.                                                  *)

Digits ==
  /\ pc \in {"digits", "fraction"} /\ UNCHANGED <<caller, first, pos, quotePos, from>>
  /\ \/ IsDigit(Next1.ch) /\ Collect(pc, Next1.ch)
     \/ /\ ~ IsDigit(Next1.ch)
        /\ Take(1) /\ UNCHANGED lit
        /\ IF pc = "digits" THEN Goto("point") ELSE Return("NUMBER", pos, lit)

Point ==
  /\ pc = "point" /\ UNCHANGED token
  /\ IF Next1.ch = "." THEN Take(0) /\ Goto("tenths")
                       ELSE Take(1) /\ Goto("unit")

\* A stop with no digit after it is consumed, and is not in the literal.
Tenths ==
  /\ pc = "tenths" /\ UNCHANGED <<caller, first, pos, quotePos, from>>
  /\ \/ /\ IsDigit(Next1.ch) /\ Take(0)
        /\ lit' = lit \o <<".", Next1.ch>> /\ Goto("fraction")
     \/ /\ ~ IsDigit(Next1.ch) /\ Take(1)
        /\ Return("NUMBER", pos, lit) /\ UNCHANGED lit

\* Mutant: the rune after an integer is not pushed back.
Unit_NoUnread ==
  /\ pc = "unit" /\ UNCHANGED <<caller, first, pos, quotePos, from>>
  /\ \/ IsUnit(Next1.ch) /\ Collect("units", Next1.ch)
     \/ /\ ~ IsUnit(Next1.ch) /\ Take(0)
        /\ Return("INTEGER", pos, lit) /\ UNCHANGED lit

Unit ==
  /\ pc = "unit" /\ UNCHANGED <<caller, first, pos, quotePos, from>>
  /\ \/ IsUnit(Next1.ch) /\ Collect("units", Next1.ch)
     \/ /\ ~ IsUnit(Next1.ch) /\ Take(1)
        /\ Return("INTEGER", pos, lit) /\ UNCHANGED lit

\* Mutant: a duration ends with its first unit.
Units_OneUnit ==
  /\ pc = "units" /\ UNCHANGED <<caller, first, pos, quotePos, from>>
  /\ \/ IsUnit(Next1.ch) /\ Collect("units", Next1.ch)
     \/ /\ ~ IsUnit(Next1.ch) /\ Take(1)
        /\ Return("DURATIONVAL", pos, lit) /\ UNCHANGED lit

Units ==
  /\ pc = "units" /\ UNCHANGED <<caller, first, pos, quotePos, from>>
  /\ \/ IsUnit(Next1.ch) /\ Collect("units", Next1.ch)
     \/ ~ IsUnit(Next1.ch) /\ Take(1) /\ Goto("mixed") /\ UNCHANGED lit

Mixed ==
  /\ pc = "mixed" /\ UNCHANGED <<caller, first, pos, quotePos, from>>
  /\ \/ /\ IsUnit(Next1.ch) \/ IsDigit(Next1.ch)
        /\ Collect("mixed", Next1.ch)
     \/ /\ ~ (IsUnit(Next1.ch) \/ IsDigit(Next1.ch)) /\ Take(1)
        /\ Return("DURATIONVAL", pos, lit) /\ UNCHANGED lit
----------------------------------------------------------------------------
(* The parser's peek, and the regular expression it may ask for.           *)

\* Parser.peekRune reads a rune and pushes it back, unless it is the end.
\* At most one peek is modelled between two tokens.
Peek ==
  /\ pc = "idle" /\ ~ peeked
  /\ Take(IF Next1.ch = NUL THEN 0 ELSE 1)
  /\ peeked' = TRUE
  /\ UNCHANGED <<pc, toks>> /\ UNCHANGED token

\* ScanRegex is called when the rune peeked at is a slash (parseRegex), so
\* the first rune ScanDelimited reads is its start delimiter.
ScanRegex ==
  /\ pc = "idle" /\ peeked /\ ch = "/"
  /\ StartAt(Curr(rd).pos)
  /\ Take(0) /\ lit' = <<>>
  /\ Goto("regex") /\ UNCHANGED <<caller, first, quotePos>>

\* ScanDelimited, which passes escapes other than that of the slash through.
Regex ==
  /\ pc = "regex" /\ UNCHANGED <<caller, first, pos, quotePos, from>>
  /\ \/ /\ Next1.ch \in {"/", LF, NUL}
        /\ Take(0) /\ UNCHANGED lit
        /\ IF Next1.ch = "/" THEN Return("REGEX", pos, lit)
                             ELSE Return("BADREGEX", pos, <<>>)
     \/ Next1.ch = "\\" /\ Take(0) /\ Goto("regexEscape") /\ UNCHANGED lit
     \/ Next1.ch \notin {"/", LF, NUL, "\\"} /\ Collect("regex", Next1.ch)

RegexEscape ==
  /\ pc = "regexEscape" /\ UNCHANGED <<caller, first, pos, quotePos, from>>
  /\ \/ /\ Next1.ch = NUL
        /\ Take(0) /\ Return("BADREGEX", pos, <<>>) /\ UNCHANGED lit
     \/ Next1.ch = "/" /\ Collect("regex", "/")
     \/ /\ Next1.ch \notin {NUL, "/"} /\ Take(1)
        /\ lit' = Append(lit, "\\") /\ Goto("regex")

----------------------------------------------------------------------------
Init ==
  /\ \E input \in Input : rd = NewReader(input)
  /\ pc = "idle" /\ caller = "scan" /\ first = NUL /\ lit = <<>>
  /\ pos = PosZero /\ quotePos = PosZero /\ from = 0
  /\ peeked = FALSE /\ toks = <<>> /\ seen = <<>> /\ ch = NUL

\* Scan, called between two tokens.
Scan ==
  \/ ScanWhitespace \/ ScanIdent \/ ScanParam \/ ScanQuoted \/ ScanNumber
  \/ ScanOperator \/ ScanSingle \/ ScanEOF \/ ScanIllegal

\* Every other read() of a call that has begun.
Continue ==
  \/ Dot \/ Second \/ SkipUntilNewline \/ SkipUntilEndComment \/ Star
  \/ Whitespace \/ IdentPos \/ Ident \/ Bare \/ Quote \/ String \/ Escape
  \/ Digits \/ Point \/ Tenths \/ Unit \/ Units \/ Mixed \/ Regex \/ RegexEscape

\* The parser asks for nothing after the end of the input.
Finished == pc = "done" /\ UNCHANGED vars

Next == Scan \/ Continue \/ Peek \/ ScanRegex \/ Finished

\* A call of the scanner runs to its end, and the parser calls again.
Spec == Init /\ [][Next]_vars /\ WF_vars(Scan \/ Continue)

Termination == <>(pc = "done")

----------------------------------------------------------------------------
(* Properties.                                                             *)

Tokens ==
  {"EOF", "WS", "COMMENT", "ILLEGAL", "IDENT", "KEYWORD", "BOUNDPARAM",
   "STRING", "BADSTRING", "BADESCAPE", "REGEX", "BADREGEX", "INTEGER",
   "NUMBER", "DURATIONVAL", "DOT"}
  \cup {Operator1[c] : c \in DOMAIN Operator1}
  \cup {Operator2[p] : p \in DOMAIN Operator2}

TypeOK ==
  /\ rd \in Reader
  /\ pc \in {"idle", "dot", "second", "line", "block", "star", "ws", "identPos",
             "ident", "bare", "quote", "string", "escape", "digits", "fraction",
             "point", "tenths", "unit", "units", "mixed", "regex",
             "regexEscape", "done"}
  /\ caller \in {"scan", "ident", "param"}
  /\ {first, ch} \subseteq Rune
  /\ {pos, quotePos} \subseteq Position
  /\ {lit, seen} \subseteq Seq(Rune)
  /\ from \in Nat
  /\ peeked \in BOOLEAN
  /\ toks \in Seq([tok : Tokens, pos : Position, lit : Seq(Rune),
                   from : Nat, to : Nat])

\* The scanner never pushes back more than two runes, nor more than it read:
\* with three slots, the rune curr() returns is then always still in the ring.
UnreadBound == rd.n <= BufLen - 1 /\ rd.n <= Len(seen)

\* The slots of the ring hold the last runes fetched, the latest one in slot i.
RingHoldsTheLastRunes ==
  \A k \in 0 .. BufLen - 1 :
    k < Len(seen) =>
      rd.buf[(rd.i - k + BufLen) % BufLen].ch = seen[Len(seen) - k]

\* Whatever read(), unread() and curr() calls the scanner makes, the runes it
\* gets are those of the text in order, each pushed-back rune once more.
Promise == INSTANCE Pushback WITH
             Item <- Rune, Depth <- BufLen - 1, cur <- Consumed, got <- ch
ReadsInOrder == Promise!PSpec

\* The runes of the text that are delivered: all but a line feed that directly
\* follows a carriage return, and how many of them there are up to the j-th.
Kept(j) == ~ (rd.in[j] = LF /\ j > 1 /\ rd.in[j - 1] = CR)

KeptUpTo(j) == Cardinality({k \in 1 .. j : Kept(k)})

\* What read() has delivered is the text up to where the underlying reader
\* stands, with a line feed for every line end, and then, for good, the rune
\* that marks the end.
DeliversTheText ==
  /\ KeptUpTo(rd.at - 1) <= Len(seen)
  /\ \A j \in 1 .. rd.at - 1 :
       Kept(j) => seen[KeptUpTo(j)] = IF rd.in[j] = CR THEN LF ELSE rd.in[j]
  /\ \A m \in KeptUpTo(rd.at - 1) + 1 .. Len(seen) : seen[m] = NUL

\* The position of the m-th rune: its line is the number of line feeds before
\* it, its character the number of runes since the last of them.  Only the
\* first rune that reads as the end is counted.
PositionAt(m) ==
  LET feeds == {j \in 1 .. m - 1 : seen[j] = LF}
      start == CHOOSE j \in feeds \cup {0} : \A f \in feeds : f <= j
      counted(j) == \A e \in 1 .. j - 1 : seen[e] # NUL
  IN  [line |-> Cardinality(feeds),
       char |-> Cardinality({j \in start + 1 .. m - 1 : counted(j)})]

Quoted == {"STRING", "REGEX", "BADREGEX"}

\* A token's position is that of its first rune (token.go's Pos).  A string's
\* and a regular expression's is that of the rune before it, and a bad string
\* or escape is reported inside the token, or on the rune before its quote.
TokenPositions ==
  \A m \in DOMAIN toks :
    LET t == toks[m] IN
    CASE t.tok \in Quoted ->
           t.pos = IF t.from = 0 THEN PosZero ELSE PositionAt(t.from)
      [] t.tok \in {"BADSTRING", "BADESCAPE"} ->
           \/ t.from = 0 /\ t.pos = PosZero
           \/ \E j \in t.from .. t.to : j > 0 /\ t.pos = PositionAt(j)
      [] OTHER -> t.pos = PositionAt(t.from + 1)

\* How many of the runes from the a-th to the b-th are not a mark of the end,
\* and the text that they are: tokens may consume marks, and never show them.
Counted(a, b) == Cardinality({j \in a .. b : seen[j] # NUL})

Spells(l, a, b) ==
  /\ Len(l) = Counted(a, b)
  /\ \A j \in a .. b : seen[j] # NUL => l[Counted(a, j)] = seen[j]

\* The token was read without a rune c.
Without(t, c) == \A j \in t.from + 1 .. t.to : seen[j] # c

\* An identifier or a parameter that was not given in quotes.
Unquoted(t) == t.tok \in {"IDENT", "BOUNDPARAM"} /\ Without(t, "\"")

\* The literal of a token is the text it was read from: white space, integers,
\* durations and bare identifiers exactly, strings without escapes between
\* their quotes; a number may lose the stop it ends with.
LiteralIsTheText ==
  \A m \in DOMAIN toks :
    LET t == toks[m]
        IsRead(l) == Spells(l, t.from + 1, t.to)
    IN  /\ t.tok \in {"WS", "INTEGER", "DURATIONVAL"} \/ Unquoted(t) => IsRead(t.lit)
        /\ t.tok = "NUMBER" => IsRead(t.lit) \/ IsRead(Append(t.lit, "."))
        /\ t.tok = "STRING" /\ Without(t, "\\") =>
             IsRead(Append(<<"'">> \o t.lit, "'"))

\* The runes that would have continued a token.
Continues(t) ==
  CASE t.tok = "WS"                      -> Blank \cup {LF}
    [] t.tok = "INTEGER"                 -> Letter \cup Digit \cup {Micro, "."}
    [] t.tok = "DURATIONVAL"             -> Letter \cup Digit \cup {Micro}
    [] t.tok = "NUMBER"                  -> Digit
    [] t.tok = "KEYWORD" \/ Unquoted(t)  -> Letter \cup Digit \cup {"_", "\""}
    [] t.tok = "EQ"                      -> {"~"}
    [] t.tok = "GT"                      -> {"="}
    [] t.tok = "LT"                      -> {"=", ">"}
    [] t.tok = "COLON"                   -> {":"}
    [] t.tok = "SUB"                     -> {"-"}
    [] t.tok = "DIV"                     -> {"*"}
    [] t.tok = "DOT"                     -> Digit
    [] OTHER                             -> {}

\* A token ends only where it must: the rune after it is none that would have
\* been part of it, however the two were read and pushed back.  (White space
\* and identifiers consume the mark of the end, and end there.)
MaximalMunch ==
  \A m \in DOMAIN toks :
    LET t == toks[m] IN
    t.to < Len(seen) /\ seen[t.to] # NUL => seen[t.to + 1] \notin Continues(t)

\* Scan returns EOF only after the whole text, or at a NUL rune in it.
EndIsTheEnd ==
  pc = "done" => rd.at > Len(rd.in) \/ \E j \in DOMAIN rd.in : rd.in[j] = NUL

\* The comment on Pos in token.go: "the line and character position of a
\* token", that is, where its first rune is.
TokenStartsAtItsFirstRune ==
  \A m \in DOMAIN toks :
    toks[m].tok \notin {"BADSTRING", "BADESCAPE"} =>
      toks[m].pos = PositionAt(toks[m].from + 1)
=============================================================================
