---------------------------- MODULE Instructions ----------------------------
(***************************************************************************)
(* The vocabulary in which module Grammar writes the functions of          *)
(* parser.go, and which module Parser runs.                                *)
(*                                                                         *)
(* The parser is recursive descent: between two calls of Scan a function   *)
(* only tests the token it got, stores it, calls another function, or      *)
(* pushes the token back.  A function is therefore a rule: a sequence of   *)
(* instructions.  A branch names the rule to go on with before the rest of *)
(* the sequence; "done" is the empty rule, and "fail" returns the error.   *)
(***************************************************************************)
EXTENDS Naturals, Sequences

\* ScanIgnoreWhitespace (skip) or Scan: the token picks a rule; any other
\* token is pushed back, with miss - 1 tokens before it, and other follows.
\* hit is 1 when a token that is recognised is pushed back as well.
ScanFor(skip, on, hit, field, other, miss) ==
  [op |-> "scan", skip |-> skip, on |-> on, hit |-> hit, field |-> field,
   other |-> other, miss |-> miss]

To(T, rule) == [t \in T |-> rule]

\* A required token, kept in a field of the statement ("" keeps nothing).
OneOf(T, field)     == ScanFor(TRUE, To(T, "done"), 0, field, "fail", 0)
OneOfHere(T, field) == ScanFor(FALSE, To(T, "done"), 0, field, "fail", 0)
Need(tok)           == OneOf({tok}, "")
NeedHere(tok)       == OneOfHere({tok}, "")
Ident(field)        == OneOf({"IDENT"}, field)

\* An optional token, and the rule that follows it.
Maybe(tok, rule)     == ScanFor(TRUE, To({tok}, rule), 0, "", "done", 1)
MaybeHere(tok, rule) == ScanFor(FALSE, To({tok}, rule), 0, "", "done", 1)
Flag(tok, field)     == ScanFor(TRUE, To({tok}, "done"), 0, field, "done", 1)

\* One of several tokens; no other may follow.
Switch(on) == ScanFor(TRUE, on, 0, "", "fail", 0)

\* A token that is read only to be shown in the error, or to be looked at.
Refuse         == ScanFor(TRUE, To({}, "done"), 0, "", "fail", 0)
Look(T, rule)  == ScanFor(TRUE, To(T, rule), 1, "", "done", 1)
Glance         == Look({}, "done")

\* parseTokens.
NeedAll(toks) == [k \in DOMAIN toks |-> Need(toks[k])]

\* consumeWhitespace.
ConsumeWhitespace == MaybeHere("WS", "done")

\* peekRune: the class of the next rune of the underlying scanner.
PeekFor(on, other) == [op |-> "peek", on |-> on, other |-> other]

\* parseRegex, from its first line; yes and no are what follows a regular
\* expression and a nil.
Regex(yes, no) == [op |-> "regex", yes |-> yes, no |-> no]

\* No token is read.  mark sets a flag of the statement; open and close
\* delimit the tokens a field is made of.
Kind(name)         == [op |-> "kind", name |-> name]
Mark(field)        == [op |-> "mark", field |-> field]
Open(field)        == [op |-> "open", field |-> field]
Close              == [op |-> "close"]
If(cond, yes, no)  == [op |-> "if", cond |-> cond, yes |-> yes, no |-> no]
Check(cond)        == If(cond, "done", "fail")
Call(rule)         == [op |-> "call", rule |-> rule]
Unscans(k)         == [op |-> "unscan", k |-> k]
EndStatement       == [op |-> "end"]
=============================================================================
