------------------------------- MODULE Printer ------------------------------
(***************************************************************************)
(* The String methods of the statements of ast.go.  A statement is printed *)
(* by a template: words that are always printed, and fields that are       *)
(* printed, with the words before them, when the statement has them.       *)
(***************************************************************************)
EXTENDS Grammar

Part(before, field, style) == [before |-> before, field |-> field, style |-> style]

Words(before)           == Part(before, "", "always")
Field(before, field)    == Part(before, field, "value")
Value(field)            == Field(<<>>, field)
Positive(before, field) == Part(before, field, "positive")

\* An identifier that is printed without quotes.
Bare(before, field)     == Part(before, field, "bare")

\* A duration that is printed by Go and not by FormatDuration.
ByGo(before, field)     == Part(before, field, "go")

\* A measurement after the operator that it calls for.
Compared(before, field) == Part(before, field, "compared")

----------------------------------------------------------------------------
(* The templates.                                                          *)

OnClause    == <<Field(<<"ON">>, "Database")>>
FromClause  == <<Field(<<"FROM">>, "Sources")>>
WhereClause == <<Field(<<"WHERE">>, "Condition")>>
GroupClause == <<Field(<<"GROUP", "BY">>, "Dimensions")>>
OrderClause == <<Field(<<"ORDER", "BY">>, "SortFields")>>
LimitClause == <<Field(<<"LIMIT">>, "Limit"), Field(<<"OFFSET">>, "Offset")>>
SLimitClause == <<Field(<<"SLIMIT">>, "SLimit"), Field(<<"SOFFSET">>, "SOffset")>>

CreateDatabaseTemplate == <<
  Field(<<"CREATE", "DATABASE">>, "Name"), Field(<<"WITH">>, "RetentionPolicyCreate"),
  ByGo(<<"DURATION">>, "Duration"), Field(<<"REPLICATION">>, "Replication"),
  ByGo(<<"SHARD", "DURATION">>, "ShardGroupDuration"),
  Positive(<<"FUTURE", "LIMIT">>, "FutureWriteLimit"),
  Positive(<<"PAST", "LIMIT">>, "PastWriteLimit"), Field(<<"NAME">>, "RetentionPolicyName")>>

CreatePolicyTemplate == <<
  Field(<<"CREATE", "RETENTION", "POLICY">>, "Name"), Field(<<"ON">>, "Database"),
  Field(<<"DURATION">>, "Duration"), Field(<<"REPLICATION">>, "Replication"),
  Positive(<<"SHARD", "DURATION">>, "ShardGroupDuration"), Field(<<"DEFAULT">>, "Default"),
  Positive(<<"FUTURE", "LIMIT">>, "FutureWriteLimit"),
  Positive(<<"PAST", "LIMIT">>, "PastWriteLimit")>>

\* Mutant: the replication factor is not printed.
AlterPolicyTemplate_WithoutReplication == <<
  Field(<<"ALTER", "RETENTION", "POLICY">>, "Name"), Field(<<"ON">>, "Database"),
  Field(<<"DURATION">>, "Duration"),
  Field(<<"SHARD", "DURATION">>, "ShardGroupDuration"), Field(<<"DEFAULT">>, "Default"),
  Positive(<<"FUTURE", "LIMIT">>, "FutureWriteLimit"),
  Positive(<<"PAST", "LIMIT">>, "PastWriteLimit")>>

AlterPolicyTemplate == <<
  Field(<<"ALTER", "RETENTION", "POLICY">>, "Name"), Field(<<"ON">>, "Database"),
  Field(<<"DURATION">>, "Duration"), Field(<<"REPLICATION">>, "Replication"),
  Field(<<"SHARD", "DURATION">>, "ShardGroupDuration"), Field(<<"DEFAULT">>, "Default"),
  Positive(<<"FUTURE", "LIMIT">>, "FutureWriteLimit"),
  Positive(<<"PAST", "LIMIT">>, "PastWriteLimit")>>

\* A password is printed as [REDACTED], which no parser reads back.
Redacted == <<Words(<<"ILLEGAL">>)>>

\* The statements, in the order of ast.go.
DatabaseTemplates == [
  CreateDatabaseStatement |-> CreateDatabaseTemplate,
  DropDatabaseStatement |-> <<Field(<<"DROP", "DATABASE">>, "Name")>>,
  DropRetentionPolicyStatement |-> <<Field(<<"DROP", "RETENTION", "POLICY">>, "Name")>> \o OnClause]

UserTemplates == [
  CreateUserStatement |-> <<Field(<<"CREATE", "USER">>, "Name"), Words(<<"WITH", "PASSWORD">>)>>
    \o Redacted \o <<Field(<<"WITH", "ALL", "PRIVILEGES">>, "Admin")>>,
  DropUserStatement |-> <<Field(<<"DROP", "USER">>, "Name")>>,
  GrantStatement |-> <<Field(<<"GRANT">>, "Privilege"), Field(<<"ON">>, "On"), Field(<<"TO">>, "User")>>,
  GrantAdminStatement |-> <<Field(<<"GRANT">>, "Privilege"), Field(<<"TO">>, "User")>>]

RevokeTemplates == [
  KillQueryStatement |-> <<Field(<<"KILL", "QUERY">>, "QueryID"), Field(<<"ON">>, "Host")>>,
  SetPasswordUserStatement |-> <<Field(<<"SET", "PASSWORD", "FOR">>, "Name"), Words(<<"EQ">>)>> \o Redacted,
  RevokeStatement |-> <<Field(<<"REVOKE">>, "Privilege"), Field(<<"ON">>, "On"), Field(<<"FROM">>, "User")>>,
  RevokeAdminStatement |-> <<Field(<<"REVOKE">>, "Privilege"), Field(<<"FROM">>, "User")>>]

PolicyTemplates == [
  CreateRetentionPolicyStatement |-> CreatePolicyTemplate,
  AlterRetentionPolicyStatement |-> AlterPolicyTemplate]

SelectTemplate ==
  <<Field(<<"SELECT">>, "Fields"), Field(<<"INTO">>, "Target")>>
  \o FromClause \o WhereClause \o GroupClause \o <<Value("Fill")>> \o OrderClause
  \o LimitClause \o SLimitClause \o <<Value("Location")>>

SelectTemplates == [
  SelectStatement |-> SelectTemplate,
  ExplainStatement |-> <<Words(<<"EXPLAIN">>), Field(<<"ANALYZE">>, "Analyze"),
                         Field(<<"VERBOSE">>, "Verbose")>> \o SelectTemplate]

SeriesTemplates == [
  ShowSeriesStatement |-> <<Words(<<"SHOW", "SERIES">>)>> \o OnClause \o FromClause
    \o WhereClause \o OrderClause \o LimitClause,
  DropSeriesStatement |-> <<Words(<<"DROP", "SERIES">>)>> \o FromClause \o WhereClause,
  DeleteSeriesStatement |-> <<Words(<<"DELETE">>)>> \o FromClause \o WhereClause,
  DropShardStatement |-> <<Field(<<"DROP", "SHARD">>, "ID")>>]

CardinalityTemplate(words) ==
  <<Words(<<"SHOW">> \o words), Field(<<"EXACT">>, "Exact"), Words(<<"CARDINALITY">>)>>
  \o OnClause \o FromClause \o WhereClause \o GroupClause \o LimitClause

ContinuousQueryTemplates == [
  ShowContinuousQueriesStatement |-> <<Words(<<"SHOW", "CONTINUOUS", "QUERIES">>)>>,
  ShowGrantsForUserStatement |-> <<Field(<<"SHOW", "GRANTS", "FOR">>, "Name")>>,
  ShowDatabasesStatement |-> <<Words(<<"SHOW", "DATABASES">>)>>,
  CreateContinuousQueryStatement |->
    <<Field(<<"CREATE", "CONTINUOUS", "QUERY">>, "Name"), Field(<<"ON">>, "Database"),
      Field(<<"RESAMPLE">>, "Resampled"), Field(<<"EVERY">>, "ResampleEvery"),
      Field(<<"FOR">>, "ResampleFor"), Words(<<"BEGIN">>)>>
    \o SelectTemplate \o <<Words(<<"END">>)>>,
  DropContinuousQueryStatement |-> <<Field(<<"DROP", "CONTINUOUS", "QUERY">>, "Name")>> \o OnClause]

MeasurementTemplates == [
  ShowMeasurementsStatement |->
    <<Words(<<"SHOW", "MEASUREMENTS">>), Bare(<<"ON">>, "Database"),
      Bare(<<"DOT">>, "RetentionPolicy"), Compared(<<"WITH", "MEASUREMENT">>, "Source")>>
    \o WhereClause \o OrderClause \o LimitClause,
  DropMeasurementStatement |-> <<Field(<<"DROP", "MEASUREMENT">>, "Name")>>,
  ShowQueriesStatement |-> <<Words(<<"SHOW", "QUERIES">>)>>,
  ShowRetentionPoliciesStatement |-> <<Words(<<"SHOW", "RETENTION", "POLICIES">>)>> \o OnClause,
  ShowStatsStatement |-> <<Words(<<"SHOW", "STATS">>), Field(<<"FOR">>, "Module")>>]

ServerTemplates == [
  ShowShardGroupsStatement |-> <<Words(<<"SHOW", "SHARD", "GROUPS">>)>>,
  ShowShardsStatement |-> <<Words(<<"SHOW", "SHARDS">>)>>,
  ShowDiagnosticsStatement |-> <<Words(<<"SHOW", "DIAGNOSTICS">>), Field(<<"FOR">>, "Module")>>,
  CreateSubscriptionStatement |-> <<Field(<<"CREATE", "SUBSCRIPTION">>, "Name")>> \o OnClause
    \o <<Field(<<"DOT">>, "RetentionPolicy"), Field(<<"DESTINATIONS">>, "Mode"), Value("Destinations")>>,
  DropSubscriptionStatement |-> <<Field(<<"DROP", "SUBSCRIPTION">>, "Name")>> \o OnClause
    \o <<Field(<<"DOT">>, "RetentionPolicy")>>,
  ShowSubscriptionsStatement |-> <<Words(<<"SHOW", "SUBSCRIPTIONS">>)>>]

\* The WITH KEY clause of SHOW TAG KEYS is not printed.
TagKeyTemplates == [
  ShowTagKeysStatement |-> <<Words(<<"SHOW", "TAG", "KEYS">>)>> \o OnClause \o FromClause
    \o WhereClause \o OrderClause \o LimitClause \o SLimitClause]

TagValueTemplates == [
  ShowTagValuesStatement |-> <<Words(<<"SHOW", "TAG", "VALUES">>)>> \o OnClause \o FromClause
    \o <<Field(<<"WITH", "KEY">>, "TagKeyExpr")>> \o WhereClause \o OrderClause \o LimitClause,
  ShowTagValuesCardinalityStatement |->
    <<Words(<<"SHOW", "TAG", "VALUES">>), Field(<<"EXACT">>, "Exact"), Words(<<"CARDINALITY">>)>>
    \o OnClause \o FromClause \o <<Field(<<"WITH", "KEY">>, "TagKeyExpr")>>
    \o WhereClause \o GroupClause \o LimitClause]

FieldKeyTemplates == [
  ShowUsersStatement |-> <<Words(<<"SHOW", "USERS">>)>>,
  ShowFieldKeysStatement |-> <<Words(<<"SHOW", "FIELD", "KEYS">>)>> \o OnClause \o FromClause
    \o OrderClause \o LimitClause]

\* Four statements, printed in the same way.
CardinalityTemplates == [
  ShowSeriesCardinalityStatement |-> CardinalityTemplate(<<"SERIES">>),
  ShowMeasurementCardinalityStatement |-> CardinalityTemplate(<<"MEASUREMENT">>),
  ShowTagKeyCardinalityStatement |-> CardinalityTemplate(<<"TAG", "KEY">>),
  ShowFieldKeyCardinalityStatement |-> CardinalityTemplate(<<"FIELD", "KEY">>)]

Templates ==
  DatabaseTemplates @@ UserTemplates @@ RevokeTemplates @@ PolicyTemplates @@ SelectTemplates
  @@ SeriesTemplates @@ ContinuousQueryTemplates @@ MeasurementTemplates @@ ServerTemplates
  @@ TagKeyTemplates @@ TagValueTemplates @@ FieldKeyTemplates @@ CardinalityTemplates

----------------------------------------------------------------------------
(* The text.                                                               *)

\* The keywords among the names of the model: QuoteIdent puts them in quotes.
Keyword == "key" :> "KEY"

Unquoted(l) == IF l.tok = "IDENT" /\ l.lit \in DOMAIN Keyword THEN Lex(Keyword[l.lit], "") ELSE l

\* The name of a function is printed without quotes.
PrintedValue(v) ==
  [k \in DOMAIN v |-> IF k < Len(v) /\ v[k + 1].tok = "LPAREN" THEN Unquoted(v[k]) ELSE v[k]]

\* The durations of the model that Duration.String of Go prints with a fraction.
\* The others it prints in other words than FormatDuration, with the same value:
\* their literal stands for the value.
Fraction == "1500ms" :> <<Lex("NUMBER", "1.5"), Lex("IDENT", "s")>>

GoString(v) == IF v[1].lit \in DOMAIN Fraction THEN Fraction[v[1].lit] ELSE v

PrintedWords(toks) == [k \in DOMAIN toks |-> Lex(toks[k], "")]

ComparedBy(v) == IF v[Len(v)].tok = "REGEX" THEN "EQREGEX" ELSE "EQ"

PrintedPart(a, part) ==
  IF part.style = "always" THEN PrintedWords(part.before)
  ELSE IF ~ Has(a, part.field) \/ (part.style = "positive" /\ IsZero(a[part.field])) THEN <<>>
  ELSE PrintedWords(part.before)
       \o CASE part.style = "bare"     -> [k \in DOMAIN a[part.field] |-> Unquoted(a[part.field][k])]
            [] part.style = "go"       -> GoString(a[part.field])
            [] part.style = "compared" -> PrintedWords(<<ComparedBy(a[part.field])>>) \o a[part.field]
            [] OTHER                   -> PrintedValue(a[part.field])

PrintedStatement(a) ==
  FlattenSeq([k \in DOMAIN Templates[a["kind"]] |-> PrintedPart(a, Templates[a["kind"]][k])])

\* Statements.String puts a semicolon and a line feed between two statements.
PrintedTokens(s) ==
  FlattenSeq([k \in DOMAIN s |->
    (IF k = 1 THEN <<>> ELSE <<Lex("SEMICOLON", "")>>) \o PrintedStatement(s[k])])

Joint(l, r) ==
  \/ l.tok \in {"DOT", "COLON", "DOUBLECOLON", "LPAREN"}
  \/ r.tok \in {"DOT", "COLON", "DOUBLECOLON", "COMMA", "RPAREN", "SEMICOLON"}
  \/ l.tok \in {"IDENT", "DISTINCT", "KEY"} /\ r.tok = "LPAREN"
  \/ l.tok = "NUMBER" /\ r.tok = "IDENT"

Spaced(s) ==
  FlattenSeq([k \in DOMAIN s |->
    IF k = 1 \/ Joint(s[k - 1], s[k]) THEN <<s[k]>> ELSE <<Lex("WS", ""), s[k]>>])

\* The text that Query.String makes of the statements s.
PrintedQuery(s) == Spaced(PrintedTokens(s))
=============================================================================
