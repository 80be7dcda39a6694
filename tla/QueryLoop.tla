------------------------------ MODULE QueryLoop ------------------------------
(***************************************************************************)
(* What ParseQuery relies on in the functions that parse statements: none  *)
(* of them takes a semicolon or the end of the text, or goes back to where *)
(* its statement began.                                                    *)
(***************************************************************************)
EXTENDS Parser

\* The rules of ParseQuery: its loop, a statement, ParseStatement, and its loop
\* when only a semicolon or the end may come.
Statement == Rules[Start][1].other

Language == Rules[Statement][1].rule

AfterStatement == Rules[Statement][3].rule

Outer == {Start, Statement, Language, AfterStatement}

Separators == {"SEMICOLON", "EOF"}

\* A semicolon goes round the loop, the end of the text leaves it.
Separates(i) ==
  /\ i.op = "scan" /\ i.skip /\ i.hit = 0 /\ i.field = ""
  /\ DOMAIN i.on = Separators /\ i.on["SEMICOLON"] = Start
  /\ i.on["EOF"] \in DOMAIN Rules /\ Rules[i.on["EOF"]] = <<>>

\* The rules that an instruction goes on with.
Followers(i) ==
  CASE i.op \in {"scan", "peek"} -> {i.other} \cup {i.on[t] : t \in DOMAIN i.on}
    [] i.op \in {"regex", "if"}  -> {i.yes, i.no}
    [] i.op = "call"             -> {i.rule}
    [] OTHER                     -> {}

\* An instruction that stays within a statement: it takes no separator, and
\* what it does not recognise it pushes back or refuses.
Within(i) ==
  /\ i.op # "end" /\ Followers(i) \cap Outer = {}
  /\ i.op = "scan" => /\ i.hit = 0 => DOMAIN i.on \cap Separators = {}
                      /\ i.miss = 0 => i.other = "fail"

ASSUME QueryAssumption ==
  /\ Outer \subseteq DOMAIN Rules
  /\ Statement # Start /\ Language \notin {Start, Statement}
  /\ AfterStatement \notin {Start, Statement, Language}
  /\ Len(Rules[Start]) = 1 /\ Separates(Rules[Start][1]) /\ Rules[Start][1].miss = 1
  /\ Len(Rules[AfterStatement]) = 1 /\ Separates(Rules[AfterStatement][1])
  /\ Rules[AfterStatement][1].other = "fail"
  /\ Len(Rules[Statement]) = 3
  /\ Rules[Statement][1].op = "call" /\ Rules[Statement][2].op = "end" /\ Rules[Statement][3].op = "call"
  /\ Len(Rules[Language]) = 1 /\ Within(Rules[Language][1])
  /\ LET i == Rules[Language][1]
     IN  /\ i.op = "scan" /\ i.skip /\ i.hit = 0 /\ i.other = "fail"
         /\ \A t \in DOMAIN i.on : Lent[i.on[t]][1] = 0
  /\ \A r \in DOMAIN Rules \ Outer : \A p \in DOMAIN Rules[r] : Within(Rules[r][p])
  /\ Lent[Statement][2] = 0
  /\ \A p \in DOMAIN Params : Params[p].tok \notin Blanks \cup Separators
=============================================================================
