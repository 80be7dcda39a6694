------------------------------ MODULE MCParser ------------------------------
EXTENDS Parser, Printer

K(toks) == {Lex(tok, "") : tok \in toks}

Name(lits) == {Lex("IDENT", lit) : lit \in lits}

Number(lits) == {Lex("INTEGER", lit) : lit \in lits}

Time(lits) == {Lex("DURATIONVAL", lit) : lit \in lits}

Param(lits) == {Lex("BOUNDPARAM", lit) : lit \in lits}

Text == {Lex("STRING", "UTC")}

Databases ==
  K({"CREATE", "DATABASE", "WITH", "DURATION", "INF", "SHARD", "FUTURE", "LIMIT", "NAME", "SEMICOLON",
     "WS"})
  \cup Name({"a"}) \cup Time({"0s", "1m", "1500ms"})

Policies ==
  K({"ALTER", "CREATE", "RETENTION", "POLICY", "ON", "DURATION", "REPLICATION", "SHARD", "DEFAULT", "WS"})
  \cup Name({"a"}) \cup Time({"1m"}) \cup Number({"0", "1"})

Users ==
  K({"GRANT", "REVOKE", "CREATE", "USER", "ALL", "PRIVILEGES", "READ", "ON", "TO", "FROM", "WITH",
     "PASSWORD", "SEMICOLON", "WS"})
  \cup Name({"a"}) \cup Text \cup Param({"a"})

Subscriptions ==
  K({"CREATE", "DROP", "SUBSCRIPTION", "ON", "DOT", "DESTINATIONS", "ANY", "COMMA", "WS"})
  \cup Name({"a"}) \cup Text

Sources ==
  K({"DELETE", "FROM", "DOT", "COMMA", "REGEX", "WS"}) \cup Name({"a"}) \cup Param({"r"})

SelectFields ==
  K({"SELECT", "FROM", "COMMA", "REGEX", "AS", "WS"})
  \cup Name({"a"})

Targets ==
  K({"SELECT", "INTO", "FROM", "DOT", "COLON", "MEASUREMENT", "WS"}) \cup Name({"a"})

Clauses ==
  K({"SELECT", "FROM", "GROUP", "BY", "LPAREN", "RPAREN", "ORDER", "DESC", "LIMIT", "WS"})
  \cup Name({"time", "fill", "none"}) \cup Time({"1m"}) \cup Number({"0"})

Continuous ==
  K({"CREATE", "CONTINUOUS", "QUERY", "ON", "RESAMPLE", "FOR", "BEGIN", "SELECT", "LPAREN", "RPAREN", "INTO",
     "FROM", "GROUP", "BY", "END", "WS"})
  \cup Name({"time", "mean"}) \cup Time({"1m", "2m"})

Show ==
  K({"SHOW", "TAG", "KEYS", "VALUES", "SERIES", "MEASUREMENTS", "CARDINALITY", "EXACT", "WITH", "KEY",
     "EQ", "FROM", "ON", "WS"})
  \cup Name({"a", "key"})

Server ==
  K({"KILL", "SHOW", "DROP", "QUERY", "QUERIES", "SHARD", "SHARDS", "GROUPS", "STATS", "FOR", "ON",
     "SEMICOLON", "WS"})
  \cup Name({"a"}) \cup Number({"1"}) \cup Text

Subqueries ==
  K({"EXPLAIN", "ANALYZE", "SELECT", "FROM", "LPAREN", "RPAREN", "WS"}) \cup Name({"a"})

Expressions ==
  K({"DELETE", "WHERE", "EQ", "EQREGEX", "SUB", "MUL", "LPAREN", "RPAREN", "DOT", "DOUBLECOLON",
     "FIELD", "REGEX", "WS"})
  \cup Name({"a"}) \cup Number({"1"})

MCParams == "r" :> Lex("REGEX", "") @@ "a" :> Lex("IDENT", "a")

MCAlphabets == [
  databases |-> Databases, policies |-> Policies, users |-> Users, subscriptions |-> Subscriptions,
  server |-> Server, show |-> Show, sources |-> Sources, fields |-> SelectFields,
  targets |-> Targets, subqueries |-> Subqueries, clauses |-> Clauses, continuous |-> Continuous,
  expressions |-> Expressions]

MCMaxTokens == [
  databases |-> 13, policies |-> 12, users |-> 9, subscriptions |-> 11, server |-> 7, show |-> 9,
  sources |-> 7, fields |-> 6, targets |-> 10, subqueries |-> 10, clauses |-> 14,
  continuous |-> 25, expressions |-> 7]

AllLexemes == UNION Range(MCAlphabets)

\* With what the printer makes of them.
AllKinds ==
  {l.tok : l \in AllLexemes} \cup {"EOF", "ILLEGAL", "DIV", "BADREGEX", "COMMENT", "IN", "ASC", "INTEGER", "MUL",
                                   "NUMBER"}

AllLiterals == {l.lit : l \in AllLexemes} \cup {"1", "1.5", "s", "default", "a.a", "a..a", "a.a.a", "a.", "a.."}

MCLexeme == [tok : AllKinds, lit : AllLiterals]

\* Two words run together without a blank; two symbols can make another one.
Symbols == ({"DOT", "COMMA", "LPAREN", "RPAREN", "SEMICOLON", "COLON", "DOUBLECOLON", "REGEX",
             "STRING", "WS"} \cup Operator) \ {"AND", "OR"}

Fused == {<<"WS", "WS">>, <<"COLON", "COLON">>, <<"COLON", "DOUBLECOLON">>, <<"DIV", "REGEX">>,
          <<"EQ", "EQ">>, <<"EQ", "EQREGEX">>, <<"SUB", "SUB">>,
          <<"DIV", "MUL">>, <<"DIV", "DIV">>, <<"WS", "SEMICOLON">>}

\* The alphabets whose texts have blanks anywhere; the others, between words only.
Loose == {"subscriptions", "sources", "fields", "targets"}

\* The alphabets where a parenthesis only stands after the name of a function.
Functions == {"clauses", "continuous"}

MCFollows(alph, l, r) ==
  /\ l.tok \notin Symbols => r.tok \in Symbols
  /\ <<l.tok, r.tok>> \notin Fused
  /\ alph \notin Loose =>
       /\ r.tok = "WS" => l.tok \notin Symbols \/ l.tok = "RPAREN"
       /\ l.tok = "WS" => r.tok \notin Symbols \/ r.tok = "LPAREN"
       /\ l.tok = "RPAREN" => r.tok \in Symbols
  /\ alph \in Functions =>
       /\ r.tok = "LPAREN" => l.lit \in {"time", "fill", "mean"}
       /\ l.lit \in {"fill", "mean"} => r.tok = "LPAREN"
       /\ l.lit = "none" => r.tok = "RPAREN"
       /\ alph = "clauses" /\ r.tok = "DURATIONVAL" => l.tok = "LPAREN"
       /\ l.tok = "LPAREN" => r.lit \notin {"time", "fill", "mean", "2m"}

\* Of all definitions, TLC evaluates those of this module only once.
MCRules == GrammarRules

\* Three rules begin by pushing back what their caller read; the second of them,
\* after CREATE CONTINUOUS QUERY ... BEGIN SELECT and the fields.
MCLent == [r \in DOMAIN MCRules |-> [p \in 1 .. Len(MCRules[r]) + 1 |->
  CASE p = 1 /\ r \in {"ident", "timeSort"} -> 1
    [] p = 1 /\ r = "noInterval" -> RewindLength
    [] r = "createContinuousQuery" /\ p \in Len(MCRules[r]) - 1 .. Len(MCRules[r]) -> RewindLength
    [] r = "createContinuousQuery" /\ p = Len(MCRules[r]) - 2 -> RewindLength - 1
    [] OTHER -> 0]]

\* SHOW TAG KEYS WITH KEY = a.
OnlyTagKeys == [show |-> K({"SHOW", "TAG", "KEYS", "WITH", "KEY", "EQ", "WS"}) \cup Name({"a"})]

OnlySources == [name \in {"sources"} |-> MCAlphabets[name]]

\* Where only the end of the parse matters: the alphabets with lists, names and
\* expressions, and the fields of a statement as they are written.
Recursive == [name \in {"policies", "users", "show", "sources", "targets", "subqueries", "expressions"} |->
              MCAlphabets[name]]

AsWritten(a, field, v) == field :> v @@ a

NoText(s) == <<>>

----------------------------------------------------------------------------
(* The second text.                                                        *)

ZeroLimit(a) ==
  \E f \in {"FutureWriteLimit", "PastWriteLimit"} : Has(a, f) /\ IsZero(a[f])

\* What is known to get lost when a statement is printed: a password; WITH KEY of
\* SHOW TAG KEYS; a write limit of zero; the only option of CREATE DATABASE when it
\* is zero; its durations with a fraction in Go's text, such as 1.5s, which is no
\* duration to the parser; and the quotes around a name, where String leaves them
\* out.
Lossy(a) ==
  \/ a["kind"] \in {"CreateUserStatement", "SetPasswordUserStatement"}
  \/ a["kind"] = "ShowTagKeysStatement" /\ Has(a, "TagKeyExpr")
  \/ a["kind"] = "ShowMeasurementsStatement" /\ \E f \in {"Database", "RetentionPolicy"} :
       Has(a, f) /\ Unquoted(a[f][1]) # a[f][1]
  \/ a["kind"] \in {"CreateDatabaseStatement", "AlterRetentionPolicyStatement"} /\ ZeroLimit(a)
  \/ a["kind"] = "CreateDatabaseStatement" /\ \E f \in {"Duration", "ShardGroupDuration"} :
       Has(a, f) /\ GoString(a[f]) # a[f]
  \/ a["kind"] = "CreateDatabaseStatement" /\ DOMAIN a = {"kind", "Name", "RetentionPolicyCreate"}
  \/ \E f \in DOMAIN a \ {"kind"} : PrintedValue(a[f]) # a[f]

Faithful(a) == ~ Lossy(a)

\* A statement that is printed and parsed again is the same statement.
RoundTrip == ReadAgain("printed", Faithful)

\* Where parseRegex is tried, it peeks at the rune behind a blank.
MayPeek == {"Sources", "Source", "Fields", "Dimensions", "Condition", "TagKeyExpr"}

PeeksAtNothing(a) == DOMAIN a \cap MayPeek = {}

\* A comment in the place of a blank changes nothing, in statements without
\* clauses that may hold a regular expression.
CommentsAreWhitespace == ReadAgain("commented", PeeksAtNothing)

\* Any statement without a password is the same when it is printed and parsed again.
WithoutPassword(a) == a["kind"] \notin {"CreateUserStatement", "SetPasswordUserStatement"}

EveryStatementRoundTrips == ReadAgain("printed", WithoutPassword)

\* A comment in the place of a blank never changes anything.
AnyStatement(a) == TRUE

EveryCommentIsWhitespace == ReadAgain("commented", AnyStatement)
=============================================================================
