------------------------------- MODULE Parser -------------------------------
(***************************************************************************)
(* The parser of parser.go over its token buffer: one step for every token *)
(* that is read and for every rune that is peeked at, as the rules of its  *)
(* functions say (see modules Instructions and Grammar).                   *)
(*                                                                         *)
(* The text is not fixed in advance.  In the first round each token is     *)
(* chosen, from an alphabet, when the scanner delivers it; the parser then *)
(* reads a second text made of the first one: the statements as they are   *)
(* printed, or the same text with comments in the place of the blanks.     *)
(***************************************************************************)
EXTENDS TokenBuffer, FiniteSets, Functions, TLC

CONSTANTS
  Rules,             \* name |-> sequence of instructions
  Start,             \* the rule ParseQuery is
  Lent,              \* name |-> place |-> the tokens a rule is lent (see Settles)
  Holds(_, _, _, _), \* a condition the parser tests
  Store(_, _, _),    \* a statement with a field set
  Printed(_),        \* the text of a sequence of statements
  Params,            \* the bound parameters: name |-> lexeme
  Alphabets,         \* name |-> lexemes: a text is written in one of them
  Follows(_, _, _),  \* in an alphabet: a lexeme can follow another in a text
  MaxTokens          \* name |-> the longest text, blanks not counted

VARIABLES
  alphabet,  \* the alphabet of the first text
  round,     \* "source", or how the second text was made: "printed", "commented"
  given,     \* the second text
  seen,      \* the tokens the scanner has delivered in this round
  ring,      \* bufScanner
  ahead,     \* the class of the scanner's next rune, once it was peeked at
  got,       \* the token read last
  calls,     \* the functions that have not returned, the innermost first
  opened,    \* the fields whose tokens are being read, the innermost first
  ast,       \* the statement being parsed
  stmts,     \* the statements parsed
  first,     \* the statements of the first round
  result     \* "running", "ok" or "error"

\* The text and its round; what was read of it; what was made of it.
text == <<alphabet, round, given, first>>
tokens == <<seen, ring, ahead, got>>
tree == <<opened, ast, stmts>>

vars == <<alphabet, round, given, seen, ring, ahead, got, calls, opened, ast, stmts, first, result>>

Token(tok) == [tok |-> tok, lit |-> ""]

EOF == Token("EOF")

\* Mutant: comments are not ignored.
Blanks_WithoutComments == {"WS"}

Blanks == {"WS", "COMMENT"}

NoBlanks(s) == SelectSeq(s, LAMBDA l : l.tok \notin Blanks)

NoStatement == "kind" :> "none"

----------------------------------------------------------------------------
(* The scanner, as the parser sees it.                                     *)

\* Any class of rune that no one asks for is "other".
Class(l) ==
  CASE l.tok \in {"REGEX", "COMMENT", "DIV", "BADREGEX"} -> "/"
    [] l.tok = "BOUNDPARAM"             -> "$"
    [] l.tok = "DOT"                    -> "."
    [] l.tok \in {"COLON", "DOUBLECOLON"} -> ":"
    [] l.tok = "WS"                     -> " "
    [] OTHER                            -> "other"

\* How the scanner delivers a piece of the text: only ScanRegex makes a regular
\* expression of what stands between slashes, and it takes any slash for one.
Delivered(l, fn) ==
  IF fn = "ScanRegex"
  THEN IF l.tok \in {"COMMENT", "DIV"} THEN Token("BADREGEX") ELSE l
  ELSE IF l.tok = "REGEX" THEN Token("DIV") ELSE l

Written == IF seen = <<>> THEN Alphabets[alphabet]
           ELSE {l \in Alphabets[alphabet] : Follows(alphabet, seen[Len(seen)], l)}

\* What the first text can go on with.
Upcoming ==
  IF seen # <<>> /\ seen[Len(seen)] = EOF THEN {EOF}
  ELSE IF Len(NoBlanks(seen)) < MaxTokens[alphabet] THEN Written \cup {EOF}
  ELSE {l \in Written : l.tok = "WS"} \cup {EOF}

\* What no token is spelled like is scanned as ILLEGAL.
Unread ==
  IF ~ Len(seen) < Len(given) THEN EOF
  ELSE LET l == given[Len(seen) + 1] IN IF l \in Lexeme THEN l ELSE Token("ILLEGAL")

\* The pieces of the text that can be under the scanner's cursor.
UnderCursor ==
  IF round # "source" THEN {Unread}
  ELSE IF ahead = "any" THEN Upcoming
  ELSE {l \in Upcoming : Class(l) = ahead}

\* What the next call of a scan function delivers.
Scanned(fn) ==
  IF ring.n > 0 THEN {Curr(ScanFunc(ring, EOF))}
  ELSE {Delivered(l, fn) : l \in UnderCursor}

\* Parser.scan: a parameter that is bound stands for its value.
Bound(l) ==
  IF l.tok = "BOUNDPARAM" /\ l.lit \in DOMAIN Params THEN Params[l.lit] ELSE l

\* Token x is read with fn, and k tokens are pushed back.
Read(x, k) ==
  /\ ring' = Unscan(ScanFunc(ring, x), k)
  /\ got' = x
  /\ IF ring.n > 0 THEN UNCHANGED <<seen, ahead>>
     ELSE seen' = Append(seen, x) /\ ahead' = "any"

----------------------------------------------------------------------------
(* The parser.                                                             *)

Consumed == Len(seen) - ring.n

\* A call is the place of the next instruction of a rule; stage is the place in
\* parseRegex, when that is the instruction.
Now == Rules[calls[1].rule][calls[1].at]

Running == result = "running" /\ calls # <<>>

Enter(rule, rest) ==
  IF Rules[rule] = <<>> THEN rest
  ELSE <<[rule |-> rule, at |-> 1, stage |-> "blank"]>> \o rest

\* The calls when the instruction has been run.
Advanced ==
  IF calls[1].at < Len(Rules[calls[1].rule])
  THEN <<[rule |-> calls[1].rule, at |-> calls[1].at + 1, stage |-> "blank"]>> \o Tail(calls)
  ELSE Tail(calls)

\* The rule named comes next; "fail" returns an error.
Goto(rule) ==
  IF rule = "fail" THEN result' = "error" /\ calls' = <<>>
  ELSE result' = result /\ calls' = Enter(rule, Advanced)

Rest == result' = result /\ calls' = Advanced

\* The tokens consumed since a field was opened, as the parser sees them.
Since(at) ==
  LET s == NoBlanks(SubSeq(seen, at + 1, Consumed))
  IN  [k \in DOMAIN s |-> Bound(s[k])]

Inner == IF opened = <<>> THEN <<>> ELSE Since(opened[1].at)

\* Only the outermost field is kept: what it is made of is part of it.
Set(a, field, v) == IF field = "" \/ opened # <<>> THEN a ELSE Store(a, field, v)

\* ScanIgnoreWhitespace goes on after a blank.
ScanBlank ==
  /\ Running /\ Now.op = "scan" /\ Now.skip
  /\ \E x \in Scanned("Scan") : Bound(x).tok \in Blanks /\ Read(x, 0)
  /\ UNCHANGED <<text, tree, calls, result>>

ScanHit ==
  /\ Running /\ Now.op = "scan"
  /\ \E x \in Scanned("Scan") :
       /\ Now.skip => Bound(x).tok \notin Blanks
       /\ Bound(x).tok \in DOMAIN Now.on
       /\ Read(x, Now.hit)
       /\ ast' = Set(ast, Now.field, <<Bound(x)>>)
       /\ Goto(Now.on[Bound(x).tok])
  /\ UNCHANGED <<text, opened, stmts>>

ScanMiss ==
  /\ Running /\ Now.op = "scan"
  /\ \E x \in Scanned("Scan") :
       /\ Now.skip => Bound(x).tok \notin Blanks
       /\ Bound(x).tok \notin DOMAIN Now.on
       /\ Read(x, Now.miss)
       /\ Goto(Now.other)
  /\ UNCHANGED <<text, tree>>

\* peekRune: the rune under the scanner's cursor, whatever is pushed back.
Peeks(c) == c \in {Class(l) : l \in UnderCursor} /\ ahead' = c

Classes == {"/", "$", ".", ":", " ", "other"}

Peek ==
  /\ Running /\ Now.op = "peek"
  /\ \E c \in Classes :
       Peeks(c) /\ Goto(IF c \in DOMAIN Now.on THEN Now.on[c] ELSE Now.other)
  /\ UNCHANGED <<text, tree, seen, ring, got>>

----------------------------------------------------------------------------
(* parseRegex.                                                             *)

AtStage(stage) == Running /\ Now.op = "regex" /\ calls[1].stage = stage

Stage(stage) == result' = result /\ calls' = [calls EXCEPT ![1].stage = stage]

\* A blank rune is next: the token read is a blank if none is pushed back.
RegexBlank ==
  /\ AtStage("blank")
  /\ \E c \in Classes : Peeks(c) /\ Stage(IF c = " " THEN "consume" ELSE "start")
  /\ UNCHANGED <<text, tree, seen, ring, got>>

RegexConsume ==
  /\ AtStage("consume")
  /\ \E x \in Scanned("Scan") : Read(x, IF Bound(x).tok = "WS" THEN 0 ELSE 1)
  /\ Stage("start")
  /\ UNCHANGED <<text, tree>>

RegexStart ==
  /\ AtStage("start")
  /\ \E c \in Classes :
       /\ Peeks(c)
       /\ \/ c = "$" /\ Stage("param")
          \/ c = "/" /\ Stage("read")
          \/ c \notin {"$", "/"} /\ Goto(Now.no)
  /\ UNCHANGED <<text, tree, seen, ring, got>>

RegexParam ==
  /\ AtStage("param")
  /\ \E x \in Scanned("Scan") :
       /\ Read(x, 1)
       /\ IF Bound(x).tok = "REGEX" THEN Stage("read") ELSE Goto(Now.no)
  /\ UNCHANGED <<text, tree>>

RegexRead ==
  /\ AtStage("read")
  /\ \E x \in Scanned("ScanRegex") :
       Read(x, 0) /\ Goto(IF Bound(x).tok = "REGEX" THEN Now.yes ELSE "fail")
  /\ UNCHANGED <<text, tree>>

----------------------------------------------------------------------------
(* What the functions do between two reads.                                *)

CallRule ==
  /\ Running /\ Now.op = "call"
  /\ Goto(Now.rule)
  /\ UNCHANGED <<text, tokens, tree>>

Branch ==
  /\ Running /\ Now.op = "if"
  /\ Goto(IF Holds(Now.cond, ast, Inner, Bound(got)) THEN Now.yes ELSE Now.no)
  /\ UNCHANGED <<text, tokens, tree>>

PushBack ==
  /\ Running /\ Now.op = "unscan"
  /\ ring' = Unscan(ring, Now.k)
  /\ Rest
  /\ UNCHANGED <<text, tree, seen, ahead, got>>

SetKind ==
  /\ Running /\ Now.op = "kind"
  /\ ast' = "kind" :> Now.name @@ ast
  /\ Rest
  /\ UNCHANGED <<text, tokens, opened, stmts>>

SetFlag ==
  /\ Running /\ Now.op = "mark"
  /\ ast' = Set(ast, Now.field, <<>>)
  /\ Rest
  /\ UNCHANGED <<text, tokens, opened, stmts>>

OpenField ==
  /\ Running /\ Now.op = "open"
  /\ opened' = <<[field |-> Now.field, at |-> Consumed]>> \o opened
  /\ Rest
  /\ UNCHANGED <<text, tokens, ast, stmts>>

CloseField ==
  /\ Running /\ Now.op = "close"
  /\ opened' = Tail(opened)
  /\ ast' = IF Len(opened) = 1 THEN Store(ast, opened[1].field, Inner) ELSE ast
  /\ Rest
  /\ UNCHANGED <<text, tokens, stmts>>

EndStmt ==
  /\ Running /\ Now.op = "end"
  /\ stmts' = Append(stmts, ast)
  /\ ast' = NoStatement
  /\ Rest
  /\ UNCHANGED <<text, tokens, opened>>

Succeed ==
  /\ result = "running" /\ calls = <<>>
  /\ result' = "ok"
  /\ UNCHANGED <<text, tokens, tree, calls>>

----------------------------------------------------------------------------
(* A new parser reads the second text.                                     *)

Reparse(how, t) ==
  /\ round = "source" /\ result = "ok"
  /\ round' = how
  /\ given' = t
  /\ first' = stmts
  /\ seen' = <<>> /\ ring' = NewBuffer /\ ahead' = "any" /\ got' = EOF
  /\ calls' = Enter(Start, <<>>) /\ opened' = <<>> /\ ast' = NoStatement /\ stmts' = <<>>
  /\ result' = "running"
  /\ UNCHANGED alphabet

ReparsePrinted == Reparse("printed", Printed(stmts))

\* Every blank becomes a comment.  A text with a division is left out: after a
\* comment, its slash could be taken for the start of a regular expression.
Commented(s) == [k \in DOMAIN s |-> IF s[k].tok = "WS" THEN Token("COMMENT") ELSE s[k]]

ReparseCommented ==
  /\ \A k \in DOMAIN seen : seen[k].tok # "DIV"
  /\ Reparse("commented", Commented(seen))

Ended ==
  \/ result = "error"
  \/ result = "ok" /\ round # "source"

Finished == Ended /\ UNCHANGED vars

Init ==
  /\ alphabet \in DOMAIN Alphabets
  /\ round = "source" /\ given = <<>> /\ first = <<>>
  /\ seen = <<>> /\ ring = NewBuffer /\ ahead = "any" /\ got = EOF
  /\ calls = Enter(Start, <<>>) /\ opened = <<>> /\ ast = NoStatement /\ stmts = <<>>
  /\ result = "running"

ParseRegex == RegexBlank \/ RegexConsume \/ RegexStart \/ RegexParam \/ RegexRead

\* ParseQuery: a single goroutine, which nothing makes wait.
ParseQuery ==
  \/ ScanBlank \/ ScanHit \/ ScanMiss \/ Peek \/ ParseRegex
  \/ CallRule \/ Branch \/ PushBack \/ SetKind \/ SetFlag \/ OpenField \/ CloseField
  \/ EndStmt \/ Succeed

Next == ParseQuery \/ ReparsePrinted \/ ReparseCommented \/ Finished

Spec == Init /\ [][Next]_vars /\ WF_vars(ParseQuery)

----------------------------------------------------------------------------
(* What the parser relies on in its grammar.                               *)

Instruction == UNION {Range(Rules[r]) : r \in DOMAIN Rules}

RuleName == DOMAIN Rules \cup {"fail"}

\* After k tokens more than usual were pushed back, a scan that pushes none back
\* comes next; after two more, a scan that only reads the token to report.
Stops(i, k) ==
  /\ i.op = "scan" /\ i.hit = 0 /\ i.miss = 0 /\ i.other = "fail"
  /\ k = 2 => DOMAIN i.on = {}

WellFormed(i) ==
  /\ i.op = "scan" =>
       /\ i.hit \in 0 .. 1 /\ i.miss \in 0 .. 2
       /\ i.other \in RuleName /\ \A t \in DOMAIN i.on : i.on[t] \in RuleName
       /\ i.miss = 2 => /\ i.other \in DOMAIN Rules
                        /\ Rules[i.other] # <<>> /\ Stops(Rules[i.other][1], 1)
  /\ i.op = "peek"   => i.other \in RuleName /\ \A c \in DOMAIN i.on : i.on[c] \in RuleName
  /\ i.op = "regex"  => i.yes \in RuleName /\ i.no \in RuleName
  /\ i.op = "if"     => i.yes \in RuleName /\ i.no \in RuleName
  /\ i.op = "call"   => i.rule \in DOMAIN Rules
  /\ i.op = "unscan" => i.k \in 1 .. 2

Linked(s) ==
  \A j \in DOMAIN s :
    /\ WellFormed(s[j])
    /\ s[j].op = "unscan" => j < Len(s) /\ Stops(s[j + 1], s[j].k)

ASSUME GrammarAssumption ==
  /\ Start \in DOMAIN Rules
  /\ "fail" \notin DOMAIN Rules
  /\ \A r \in DOMAIN Rules : Rules[r] \in Seq(Instruction)
  /\ \A r \in DOMAIN Rules : Linked(Rules[r])

\* Before its place p, rule r has been lent Lent[r][p] tokens: it may push back so
\* many that were read earlier, by itself or by its callers, once all it reads from
\* there on has been pushed back.  When it goes on at its next place, with n tokens
\* more consumed, what it was lent covers what is lent there, and what is lent to
\* the rule that comes next.
Settles(r, p, n) == Lent[r][p] + n >= Lent[r][p + 1]

Lends(r, p, n, next) ==
  next = "fail" \/ Lent[r][p] + n >= Lent[r][p + 1] + Lent[next][1]

Balanced(r, p) ==
  LET i == Rules[r][p]
  IN  /\ i.op = "scan" =>
           /\ Lends(r, p, 1 - i.miss, i.other)
           /\ \A t \in DOMAIN i.on : Lends(r, p, 1 - i.hit, i.on[t])
      /\ i.op = "peek" => Lends(r, p, 0, i.other) /\ \A c \in DOMAIN i.on : Lends(r, p, 0, i.on[c])
      /\ i.op = "regex" => Lends(r, p, 1, i.yes) /\ Lends(r, p, 0, i.no)
      /\ i.op = "if" => Lends(r, p, 0, i.yes) /\ Lends(r, p, 0, i.no)
      /\ i.op = "call" => Lends(r, p, 0, i.rule)
      /\ i.op = "unscan" => Settles(r, p, 0 - i.k)
      /\ i.op \notin {"scan", "peek", "regex", "if", "call", "unscan"} => Settles(r, p, 0)

\* No function pushes back a token that was not read; ParseQuery is lent none.
ASSUME BalanceAssumption ==
  /\ \A r \in DOMAIN Rules :
       /\ Lent[r] \in [1 .. Len(Rules[r]) + 1 -> Nat] /\ Lent[r][Len(Rules[r]) + 1] = 0
       /\ \A p \in DOMAIN Rules[r] : Balanced(r, p)
  /\ Lent[Start][1] = 0

ASSUME TextAssumption ==
  /\ \A name \in DOMAIN Alphabets : Alphabets[name] \subseteq Lexeme
  /\ \A tok \in {"EOF", "DIV", "BADREGEX", "COMMENT"} : Token(tok) \in Lexeme
  /\ \A p \in DOMAIN Params : Params[p] \in Lexeme

----------------------------------------------------------------------------
(* Properties.                                                             *)

TypeOK ==
  /\ alphabet \in DOMAIN Alphabets
  /\ round \in {"source", "printed", "commented"}
  /\ seen \in Seq(Lexeme)
  /\ ring \in Buffer
  /\ ahead \in Classes \cup {"any"}
  /\ got \in Lexeme
  /\ \A j \in DOMAIN calls : calls[j].rule \in DOMAIN Rules /\ calls[j].at \in DOMAIN Rules[calls[j].rule]
  /\ result \in {"running", "ok", "error"}

\* No function pushes back more tokens than the ring of bufScanner holds: curr()
\* never looks at a slot that a newer token has taken, or at a negative index.
UnscanBound == ring.n <= BufLen

\* The ring holds the tokens read last, in order, so what is read again after
\* Unscan is what was read the first time.
RingHoldsTheLastTokens ==
  \A k \in 0 .. BufLen - 1 :
    k < Len(seen) => ring.buf[(ring.i - k + BufLen) % BufLen] = seen[Len(seen) - k]

\* bufScanner keeps the promise of a read-back buffer: in one parse no token is
\* lost, repeated or reordered, however Scan, ScanRegex and Unscan alternate, and
\* no token is pushed back that was not read.
PB == INSTANCE Pushback WITH Item <- Lexeme, Depth <- BufLen, cur <- Consumed

ReadsInOrder == [][round' = round => PB!PNext]_(PB!pvars)

\* After its first n tokens no statement of the text s is open: behind every token
\* of a statement comes a semicolon.
Clear(s, n) ==
  \A j \in 1 .. n : s[j].tok \notin Blanks \cup {"SEMICOLON"} =>
                      \E i \in j + 1 .. n : s[i].tok = "SEMICOLON"

\* The first token of a piece of the text between semicolons that is not blank.
Begins(s, k) == s[k].tok \notin Blanks \cup {"SEMICOLON", "EOF"} /\ Clear(s, k - 1)

Begun(s, n) == {k \in 1 .. n : Begins(s, k)}

\* ParseQuery has read the whole text, and returns a statement for every piece of
\* it between semicolons that is not blank.
StatementsAreSeparated ==
  result = "ok" =>
    /\ ring.n = 0 /\ seen # <<>> /\ seen[Len(seen)].tok = "EOF"
    /\ Len(stmts) = Cardinality(Begun(seen, Len(seen)))

\* No clause of a statement replaces what an earlier clause of it has set.
NoClauseIsOverwritten ==
  [][\A f \in DOMAIN ast \ {"kind"} : stmts' = stmts /\ round' = round => ast'[f] = ast[f]]_ast

ReadAgain(how, Claimed(_)) ==
  round = how /\ Ended /\ (\A k \in DOMAIN first : Claimed(first[k])) =>
    result = "ok" /\ stmts = first

\* ParseQuery comes to an end on every text.
Termination == (result = "running") ~> (result # "running")
=============================================================================
