------------------------------ MODULE Grammar -------------------------------
(***************************************************************************)
(* The functions of parser.go as rules (see module Instructions), and the  *)
(* tree of statements that parse_tree.go registers.  A rule is named for   *)
(* the function it stands for, without "parse" and "Statement".            *)
(***************************************************************************)
EXTENDS Instructions, Integers, FiniteSets, SequencesExt

----------------------------------------------------------------------------
(* ParseQuery, and the statements registered in Language.                  *)

\* Mutant: the semicolon between two statements is optional.
QueryRules_SemiForgotten == [
  query |-> <<ScanFor(TRUE, "EOF" :> "done" @@ "SEMICOLON" :> "query", 0, "", "statement", 1)>>,
  statement |-> <<Call("language"), EndStatement, Call("query")>>,
  afterStatement |-> <<>>]

\* query is the loop with semi, afterStatement the loop without it.
QueryRules == [
  query |-> <<ScanFor(TRUE, "EOF" :> "done" @@ "SEMICOLON" :> "query", 0, "", "statement", 1)>>,
  statement |-> <<Call("language"), EndStatement, Call("afterStatement")>>,
  afterStatement |-> <<Switch("EOF" :> "done" @@ "SEMICOLON" :> "query")>>]

LanguageRules == [
  language |-> <<Switch([
    SELECT |-> "select", DELETE |-> "delete", SHOW |-> "show", CREATE |-> "create",
    DROP |-> "drop", EXPLAIN |-> "explain", GRANT |-> "grant", REVOKE |-> "revoke",
    ALTER |-> "alter", SET |-> "set", KILL |-> "kill"])>>,
  show |-> <<Switch([
    CONTINUOUS |-> "showContinuous", DATABASES |-> "showDatabases",
    DIAGNOSTICS |-> "showDiagnostics", FIELD |-> "showField", GRANTS |-> "showGrants",
    MEASUREMENT |-> "showMeasurement", MEASUREMENTS |-> "showMeasurements",
    QUERIES |-> "showQueries", RETENTION |-> "showRetention", SERIES |-> "showSeries",
    SHARD |-> "showShard", SHARDS |-> "showShards", STATS |-> "showStats",
    SUBSCRIPTIONS |-> "showSubscriptions", TAG |-> "showTag", USERS |-> "showUsers"])>>,
  showContinuous |-> <<Switch([QUERIES |-> "showContinuousQueries"])>>,
  showField |-> <<Switch([KEY |-> "showFieldKeyCardinality", KEYS |-> "showFieldKeys"])>>,
  showGrants |-> <<Switch([FOR |-> "grantsForUser"])>>,
  showMeasurement |-> <<Switch([EXACT |-> "exactMeasurementCardinality",
                                CARDINALITY |-> "measurementCardinality"])>>,
  showRetention |-> <<Switch([POLICIES |-> "showRetentionPolicies"])>>,
  showShard |-> <<Switch([GROUPS |-> "showShardGroups"])>>,
  showTag |-> <<Switch([KEY |-> "showTagKeyCardinality", KEYS |-> "showTagKeys",
                        VALUES |-> "showTagValues"])>>,
  create |-> <<Switch([
    CONTINUOUS |-> "createContinuous", DATABASE |-> "createDatabase", USER |-> "createUser",
    RETENTION |-> "createRetention", SUBSCRIPTION |-> "createSubscription"])>>,
  createContinuous |-> <<Switch([QUERY |-> "createContinuousQuery"])>>,
  createRetention |-> <<Switch([POLICY |-> "createRetentionPolicy"])>>,
  drop |-> <<Switch([
    CONTINUOUS |-> "dropContinuous", DATABASE |-> "dropDatabase",
    MEASUREMENT |-> "dropMeasurement", RETENTION |-> "dropRetention",
    SERIES |-> "dropSeries", SHARD |-> "dropShard", SUBSCRIPTION |-> "dropSubscription",
    USER |-> "dropUser"])>>,
  dropContinuous |-> <<Switch([QUERY |-> "dropContinuousQuery"])>>,
  dropRetention |-> <<Switch([POLICY |-> "dropRetentionPolicy"])>>,
  alter |-> <<Switch([RETENTION |-> "alterRetention"])>>,
  alterRetention |-> <<Switch([POLICY |-> "alterRetentionPolicy"])>>,
  set |-> <<Switch([PASSWORD |-> "setPassword"])>>,
  setPassword |-> <<Switch([FOR |-> "setPasswordUser"])>>,
  kill |-> <<Switch([QUERY |-> "killQuery"])>>]

----------------------------------------------------------------------------
(* Names, lists, durations and limits.                                     *)

Duration(field) == OneOf({"DURATIONVAL", "INF"}, field)

OnDatabase == Maybe("ON", "database")

ValueRules == [
  done |-> <<>>,
  database |-> <<Ident("Database")>>,
  replication |-> <<OneOf({"INTEGER"}, "Replication"), Check(<<"positive">>)>>]

IdentListRules == [
  identList |-> <<Ident(""), Maybe("COMMA", "identList")>>]

StringListRules == [
  stringList |-> <<OneOf({"STRING"}, ""), Maybe("COMMA", "stringList")>>]

\* Mutant: the rune is peeked at again before the next DOT is read.
SegmentRules_DotNotRead == [
  segments |-> <<Open("segments"), Call("moreSegments"), Check(<<"segments", 3>>), Close>>,
  moreSegments |-> <<MaybeHere("DOT", "segment")>>,
  segment |-> <<PeekFor("/" :> "done" @@ ":" :> "done" @@ "." :> "segment", "nextSegment")>>,
  nextSegment |-> <<Ident(""), Call("moreSegments")>>]

\* The caller has read the first identifier, and opened a field before it if
\* it wants to count the segments.
SegmentRules == [
  segments |-> <<Open("segments"), Call("moreSegments"), Check(<<"segments", 3>>), Close>>,
  moreSegments |-> <<MaybeHere("DOT", "segment")>>,
  segment |-> <<PeekFor("/" :> "done" @@ ":" :> "done" @@ "." :> "moreSegments", "nextSegment")>>,
  nextSegment |-> <<Ident(""), Call("moreSegments")>>]

LimitRules == [
  limit |-> <<OneOf({"INTEGER"}, "Limit")>>,
  offset |-> <<OneOf({"INTEGER"}, "Offset")>>,
  slimit |-> <<OneOf({"INTEGER"}, "SLimit")>>,
  soffset |-> <<OneOf({"INTEGER"}, "SOffset")>>]

LimitOffset == <<Maybe("LIMIT", "limit"), Maybe("OFFSET", "offset")>>

SLimitSOffset == <<Maybe("SLIMIT", "slimit"), Maybe("SOFFSET", "soffset")>>

WriteLimitRules == [
  future |-> <<Need("LIMIT"), Duration("FutureWriteLimit")>>,
  past |-> <<Need("LIMIT"), Duration("PastWriteLimit")>>]

----------------------------------------------------------------------------
(* Users and privileges.                                                   *)

SetPasswordRules == [
  setPasswordUser |-> <<Kind("SetPasswordUserStatement"), Ident("Name"), Need("EQ"),
                        OneOf({"STRING"}, "Password")>>]

UserRules == [
  createUser |-> <<Kind("CreateUserStatement"), Ident("Name")>>
                 \o NeedAll(<<"WITH", "PASSWORD">>)
                 \o <<OneOf({"STRING"}, "Password"), Maybe("WITH", "admin")>>,
  admin |-> NeedAll(<<"ALL", "PRIVILEGES">>) \o <<Mark("Admin")>>,
  dropUser |-> <<Kind("DropUserStatement"), Ident("Name")>>]

\* The last statements that read nothing more, or a name.
ShowNameRules == [
  grantsForUser |-> <<Kind("ShowGrantsForUserStatement"), Ident("Name")>>,
  showDatabases |-> <<Kind("ShowDatabasesStatement")>>]

PrivilegeRules == [
  privilege |-> <<OneOf({"READ", "WRITE", "ALL"}, "Privilege"),
                  If(<<"all">>, "privileges", "done")>>,
  privileges |-> <<Maybe("PRIVILEGES", "done")>>]

GrantRules == [
  grant |-> <<Call("privilege"), Switch([ON |-> "grantOn", TO |-> "grantTo"])>>,
  grantOn |-> <<Kind("GrantStatement"), Ident("On"), Need("TO"), Ident("User")>>,
  grantTo |-> <<Check(<<"all">>), Kind("GrantAdminStatement"), Ident("User")>>]

RevokeRules == [
  revoke |-> <<Call("privilege"), Switch([ON |-> "revokeOn", FROM |-> "revokeFrom"])>>,
  revokeOn |-> <<Kind("RevokeStatement"), Ident("On"), Need("FROM"), Ident("User")>>,
  revokeFrom |-> <<Check(<<"all">>), Kind("RevokeAdminStatement"), Ident("User")>>]

----------------------------------------------------------------------------
(* Databases, retention policies and subscriptions.                        *)

DatabaseRules == [
  createDatabase |-> <<Kind("CreateDatabaseStatement"), Ident("Name"), Maybe("WITH", "policy")>>,
  policy |-> <<
    Mark("RetentionPolicyCreate"),
    ScanFor(TRUE, To({"DURATION", "NAME", "REPLICATION", "SHARD", "FUTURE", "PAST"}, "done"),
            1, "", "fail", 0),
    Maybe("DURATION", "policyDuration"), Maybe("REPLICATION", "replication"),
    Maybe("SHARD", "policyShard"), Maybe("FUTURE", "future"), Maybe("PAST", "past"),
    Maybe("NAME", "policyName")>>,
  policyDuration |-> <<Duration("Duration")>>,
  policyShard |-> <<Need("DURATION"), Duration("ShardGroupDuration")>>,
  policyName |-> <<Ident("RetentionPolicyName")>>,
  dropDatabase |-> <<Kind("DropDatabaseStatement"), Ident("Name")>>]

\* shard is the part of CREATE and ALTER RETENTION POLICY after SHARD.
ShardDurationRules == [
  shard |-> <<Need("DURATION"), ScanFor(TRUE, To({"INF"}, "fail"), 0, "", "done", 1),
              Duration("ShardGroupDuration")>>]

CreatePolicyRules == [
  createRetentionPolicy |-> <<Kind("CreateRetentionPolicyStatement"),
    Ident("Name"), Need("ON"), Ident("Database"), Need("DURATION"), Duration("Duration"),
    Need("REPLICATION"), Call("replication"), Maybe("SHARD", "shard"),
    Flag("DEFAULT", "Default"), Maybe("FUTURE", "future"), Maybe("PAST", "past")>>]

DropPolicyRules == [
  dropRetentionPolicy |-> <<Kind("DropRetentionPolicyStatement"),
    Ident("Name"), Need("ON"), Ident("Database")>>]

ShowPolicyRules == [
  showQueries |-> <<Kind("ShowQueriesStatement")>>,
  showRetentionPolicies |-> <<Kind("ShowRetentionPoliciesStatement"), OnDatabase>>]

\* Mutant: an option may be given again.
Fresh_Always(field) == Check(<<"true">>)

\* An option that was found before is an error.
Fresh(field) == Check(<<"without", field>>)

AlterOption(other, miss) ==
  ScanFor(TRUE, [DURATION |-> "alterDuration", REPLICATION |-> "alterReplication",
                 SHARD |-> "alterShard", DEFAULT |-> "alterDefault",
                 FUTURE |-> "alterFuture", PAST |-> "alterPast"], 0, "", other, miss)

AlterPolicyRules == [
  alterRetentionPolicy |-> <<Kind("AlterRetentionPolicyStatement"),
    OneOf({"DEFAULT", "IDENT"}, "Name"), Need("ON"), Ident("Database"), AlterOption("fail", 0)>>,
  alterOptions |-> <<AlterOption("done", 1)>>,
  alterDuration |-> <<Fresh("Duration"), Duration("Duration"), Call("alterOptions")>>,
  alterReplication |-> <<Fresh("Replication"), Call("replication"), Call("alterOptions")>>,
  alterShard |-> <<Fresh("ShardGroupDuration"), Call("shard"), Call("alterOptions")>>,
  alterDefault |-> <<Fresh("Default"), Mark("Default"), Call("alterOptions")>>,
  alterFuture |-> <<Fresh("FutureWriteLimit"), Call("future"), Call("alterOptions")>>,
  alterPast |-> <<Fresh("PastWriteLimit"), Call("past"), Call("alterOptions")>>]

CreateSubscriptionRules == [
  createSubscription |-> <<Kind("CreateSubscriptionStatement"),
    Ident("Name"), Need("ON"), Ident("Database"), NeedHere("DOT"), Ident("RetentionPolicy"),
    Need("DESTINATIONS"), OneOf({"ALL", "ANY"}, "Mode"),
    Open("Destinations"), Call("stringList"), Close>>]

DropSubscriptionRules == [
  dropSubscription |-> <<Kind("DropSubscriptionStatement"),
    Ident("Name"), Need("ON"), Ident("Database"), NeedHere("DOT"), Ident("RetentionPolicy")>>]

ShowUserRules == [
  showUsers |-> <<Kind("ShowUsersStatement")>>,
  showSubscriptions |-> <<Kind("ShowSubscriptionsStatement")>>]

----------------------------------------------------------------------------
(* The server.                                                             *)

KillQueryRules == [
  killQuery |-> <<Kind("KillQueryStatement"), OneOf({"INTEGER"}, "QueryID"), Maybe("ON", "host")>>,
  host |-> <<Ident("Host")>>]

ShardRules == [
  dropShard |-> <<Kind("DropShardStatement"), OneOf({"INTEGER"}, "ID")>>,
  showContinuousQueries |-> <<Kind("ShowContinuousQueriesStatement")>>]

ServerRules == [
  showShardGroups |-> <<Kind("ShowShardGroupsStatement")>>,
  showShards |-> <<Kind("ShowShardsStatement")>>,
  showStats |-> <<Kind("ShowStatsStatement"), Maybe("FOR", "module")>>,
  showDiagnostics |-> <<Kind("ShowDiagnosticsStatement"), Maybe("FOR", "module")>>,
  module |-> <<OneOf({"STRING"}, "Module")>>]

----------------------------------------------------------------------------
(* Expressions.                                                            *)

Comparison == {"EQ", "NEQ", "EQREGEX", "NEQREGEX", "LT", "LTE", "GT", "GTE"}

RegexOperator == {"EQREGEX", "NEQREGEX"}

Arithmetic ==
  {"ADD", "SUB", "MUL", "DIV", "MOD", "BITWISE_AND", "BITWISE_OR", "BITWISE_XOR"}

Operator == Comparison \cup Arithmetic \cup {"AND", "OR"}

ExprRules == [
  expr |-> <<Call("unary"), Call("moreOperands")>>,
  moreOperands |-> <<ScanFor(TRUE, To(RegexOperator, "regexOperand")
                                   @@ To(Operator \ RegexOperator, "operand"),
                             0, "", "done", 1)>>,
  operand |-> <<Call("unary"), Call("moreOperands")>>,
  regexOperand |-> <<Regex("moreOperands", "refuse")>>,
  refuse |-> <<Refuse>>]

UnaryRules == [
  unary |-> <<ScanFor(TRUE, To({"LPAREN"}, "paren"), 0, "", "operandToken", 1)>>,
  paren |-> <<Call("expr"), Need("RPAREN")>>,
  operandToken |-> <<Switch(
    [IDENT |-> "ident", DISTINCT |-> "distinct", MUL |-> "wildcard"]
    @@ To({"ADD", "SUB"}, "signed")
    @@ To({"STRING", "NUMBER", "INTEGER", "TRUE", "FALSE", "DURATIONVAL", "REGEX"}, "done"))>>,
  ident |-> <<ScanFor(FALSE, To({"LPAREN"}, "call"), 0, "", "varRef", 2)>>,
  distinct |-> <<ScanFor(FALSE, [LPAREN |-> "call", WS |-> "distinctIdent"], 0, "", "fail", 0)>>,
  distinctIdent |-> <<Ident("")>>,
  wildcard |-> <<MaybeHere("DOUBLECOLON", "fieldOrTag")>>,
  fieldOrTag |-> <<OneOfHere({"FIELD", "TAG"}, "")>>,
  signed |-> <<ScanFor(TRUE, To({"NUMBER", "INTEGER", "DURATIONVAL", "LPAREN", "IDENT"}, "unary"),
                       1, "", "fail", 0)>>]

VarRefRules == [
  varRef |-> <<Ident(""), Call("segments"), MaybeHere("DOUBLECOLON", "type")>>,
  type |-> <<ScanFor(FALSE, To({"FIELD", "TAG"}, "done") @@ To({"IDENT"}, "typeName"),
                     0, "", "fail", 0)>>,
  typeName |-> <<Check(<<"named", {"float", "integer", "unsigned", "string", "boolean"}>>)>>]

CallRules == [
  call |-> <<Regex("moreArgs", "firstArg")>>,
  firstArg |-> <<ScanFor(FALSE, To({"RPAREN"}, "done"), 0, "", "exprArg", 1)>>,
  exprArg |-> <<Call("expr"), Call("moreArgs")>>,
  moreArgs |-> <<ScanFor(TRUE, To({"COMMA"}, "arg"), 0, "", "endArgs", 1)>>,
  arg |-> <<Regex("moreArgs", "exprArg")>>,
  endArgs |-> <<NeedHere("RPAREN")>>]

----------------------------------------------------------------------------
(* Sources, conditions and the other clauses.                              *)

From    == Maybe("FROM", "from")
Where   == Maybe("WHERE", "where")
GroupBy == Maybe("GROUP", "groupBy")
OrderBy == Maybe("ORDER", "orderBy")

SourceRules == [
  from |-> <<Open("Sources"), Call("sources"), Close>>,
  sources |-> <<Call("source"), Maybe("COMMA", "sources")>>,
  source |-> <<Regex("done", "measurement")>>,
  selectSources |-> <<Call("selectSource"), Maybe("COMMA", "selectSources")>>,
  selectSource |-> <<Regex("done", "subquery")>>,
  subquery |-> <<ScanFor(TRUE, To({"LPAREN"}, "subSelect"), 0, "", "measurement", 1)>>,
  subSelect |-> <<Need("SELECT"), Call("selectStatement"), Need("RPAREN")>>,
  measurement |-> <<Open("measurement"), Ident(""), Call("segments"),
                    If(<<"segments", 2>>, "measurementRegex", "done"), Close>>,
  measurementRegex |-> <<Regex("done", "done")>>]

ClauseRules == [
  where |-> <<Open("Condition"), Call("expr"), Close>>,
  groupBy |-> <<Need("BY"), Open("Dimensions"), Call("dimensions"), Close>>,
  dimensions |-> <<Call("dimension"), MaybeHere("COMMA", "dimensions")>>,
  dimension |-> <<Regex("done", "dimensionExpr")>>,
  dimensionExpr |-> <<Call("expr"), ConsumeWhitespace>>]

OrderByRules == [
  orderBy |-> <<Need("BY"), Open("SortFields"), Call("sortFields"), Check(<<"oneSort">>), Close>>,
  sortFields |-> <<Switch([ASC |-> "moreSorts", DESC |-> "moreSorts", IDENT |-> "timeSort"])>>,
  timeSort |-> <<Unscans(1), Ident(""), Call("direction"), Check(<<"byTime">>), Call("moreSorts")>>,
  moreSorts |-> <<Maybe("COMMA", "sort")>>,
  sort |-> <<Ident(""), Call("direction"), Call("moreSorts")>>,
  direction |-> <<ScanFor(TRUE, To({"ASC", "DESC"}, "done"), 0, "", "done", 1)>>]

\* The call is looked for by its name; its shape is tested when it is read.
CallClauseRules == [
  fill |-> <<Look({"IDENT"}, "isFill")>>,
  isFill |-> <<If(<<"named", {"fill"}>>, "fillCall", "done")>>,
  fillCall |-> <<Open("Fill"), Call("expr"), Check(<<"fill">>), Close>>,
  location |-> <<Look({"IDENT"}, "isTz")>>,
  isTz |-> <<If(<<"named", {"tz"}>>, "tzCall", "done")>>,
  tzCall |-> <<Open("Location"), Call("expr"), Check(<<"tz">>), Close>>]

----------------------------------------------------------------------------
(* SELECT, and what is made of it.                                         *)

FieldRules == [
  fields |-> <<Call("field"), MaybeHere("COMMA", "fields")>>,
  field |-> <<Regex("done", "fieldExpr"), Maybe("AS", "alias"), ConsumeWhitespace>>,
  fieldExpr |-> <<Glance, Open("field"), Call("expr"), Check(<<"noComparison">>), Close>>,
  alias |-> <<Ident("")>>]

TargetRules == [
  target |-> <<Open("Target"), Ident(""), Call("segments"),
               If(<<"segments", 2>>, "targetEnd", "done"), Close>>,
  targetEnd |-> <<PeekFor(":" :> "backReference", "done")>>,
  backReference |-> NeedAll(<<"COLON", "MEASUREMENT">>)]

Fields == <<Open("Fields"), Call("fields"), Close>>

\* selectInto requires a target, selectStatement does not.
SelectRules == [
  selectStatement |-> Fields \o <<Maybe("INTO", "target"), Call("selectFrom")>>,
  selectInto |-> Fields \o <<Need("INTO"), Call("target"), Call("selectFrom")>>,
  selectFrom |-> <<Need("FROM"), Open("Sources"), Call("selectSources"), Close,
                   Where, GroupBy, Call("fill"), OrderBy>>
                 \o LimitOffset \o SLimitSOffset \o <<Call("location")>>,
  select |-> <<Kind("SelectStatement"), Call("selectStatement")>>]

ExplainRules == [
  explain |-> <<Kind("ExplainStatement"), Flag("ANALYZE", "Analyze"), Flag("VERBOSE", "Verbose"),
                Need("SELECT"), Call("selectStatement")>>]

ResampleRules == [
  resample |-> <<Mark("Resampled"), Maybe("EVERY", "every"), Maybe("FOR", "for"),
                 If(<<"resampled">>, "done", "refuse")>>,
  every |-> <<OneOf({"DURATIONVAL"}, "ResampleEvery")>>,
  for |-> <<OneOf({"DURATIONVAL"}, "ResampleFor")>>]

\* How many tokens are pushed back to show where GROUP BY time was expected.
RewindLength == 2

ContinuousQueryRules == [
  createContinuousQuery |-> <<Kind("CreateContinuousQueryStatement"),
      Ident("Name"), Need("ON"), Ident("Database"), Maybe("RESAMPLE", "resample")>>
    \o NeedAll(<<"BEGIN", "SELECT">>)
    \o <<Call("selectInto"), If(<<"interval">>, "endQuery", "noInterval")>>,
  noInterval |-> <<Unscans(RewindLength), Refuse>>,
  endQuery |-> <<Need("END"), Check(<<"resampleFor">>)>>]

DropContinuousQueryRules == [
  dropContinuousQuery |-> <<Kind("DropContinuousQueryStatement"),
                            Ident("Name"), Need("ON"), Ident("Database")>>]

----------------------------------------------------------------------------
(* Statements about series, measurements, tags and fields.                 *)

DeleteRules == [
  delete |-> <<Kind("DeleteSeriesStatement"), From, Check(<<"noDatabase">>), Where,
               Check(<<"restricted">>)>>]

DropSeriesRules == [
  dropSeries |-> <<Kind("DropSeriesStatement"), From, Check(<<"noPolicy">>), Where,
                   Check(<<"restricted">>)>>,
  dropMeasurement |-> <<Kind("DropMeasurementStatement"), Ident("Name")>>]

\* The clauses that every statement about a cardinality ends with.
CardinalityClauses == <<OnDatabase, From, Where, GroupBy>> \o LimitOffset

\* SHOW SERIES EXACT without CARDINALITY is read as SHOW SERIES.
ShowSeriesRules == [
  showSeries |-> <<ScanFor(TRUE, [EXACT |-> "exactSeries"], 0, "", "anySeries", 1)>>,
  exactSeries |-> <<ScanFor(TRUE, [CARDINALITY |-> "exactSeriesCardinality"], 0, "", "series", 1)>>,
  anySeries |-> <<ScanFor(TRUE, [CARDINALITY |-> "seriesCardinality"], 0, "", "series", 1)>>,
  series |-> <<Kind("ShowSeriesStatement"), OnDatabase, From, Where, OrderBy>> \o LimitOffset,
  exactSeriesCardinality |-> <<Mark("Exact"), Call("seriesCardinality")>>,
  seriesCardinality |-> <<Kind("ShowSeriesCardinalityStatement")>> \o CardinalityClauses]

ShowMeasurementRules == [
  exactMeasurementCardinality |-> <<Mark("Exact"), Need("CARDINALITY"), Call("measurementCardinality")>>,
  measurementCardinality |-> <<Kind("ShowMeasurementCardinalityStatement")>> \o CardinalityClauses,
  showMeasurements |-> <<Kind("ShowMeasurementsStatement"), Maybe("ON", "onNames"),
                         Maybe("WITH", "withMeasurement"), Where, OrderBy>> \o LimitOffset,
  onNames |-> <<OneOf({"IDENT", "MUL"}, "Database"), Maybe("DOT", "policyNames")>>,
  policyNames |-> <<OneOf({"IDENT", "MUL"}, "RetentionPolicy")>>,
  withMeasurement |-> <<Need("MEASUREMENT"), OneOf({"EQ", "EQREGEX"}, ""),
                        Open("Source"), Call("source"), Close>>]

TagKeyRules == [
  withKey |-> NeedAll(<<"WITH", "KEY">>) \o
    <<Open("TagKeyExpr"),
      Switch([NEQ |-> "tagKey", EQ |-> "tagKey"] @@ To({"IN"}, "tagKeys")
             @@ To(RegexOperator, "tagKeyRegex")),
      Close>>,
  tagKeys |-> <<Need("LPAREN"), Call("identList"), Need("RPAREN")>>,
  tagKey |-> <<Ident("")>>,
  tagKeyRegex |-> <<Regex("done", "refuse")>>]

TagKeyCardinalityRules == [
  showTagKeyCardinality |-> <<Kind("ShowTagKeyCardinalityStatement"), Flag("EXACT", "Exact"),
                              Need("CARDINALITY")>> \o CardinalityClauses]

ShowTagKeysRules == [
  showTagKeys |-> <<Kind("ShowTagKeysStatement"), OnDatabase, From, Look({"WITH"}, "withKey"),
                    Where, OrderBy>> \o LimitOffset \o SLimitSOffset]

ShowTagValuesRules == [
  showTagValues |-> <<ScanFor(TRUE, [EXACT |-> "exactTagValues", CARDINALITY |-> "tagValuesCardinality"],
                              0, "", "tagValues", 1)>>,
  exactTagValues |-> <<Mark("Exact"), Need("CARDINALITY"), Call("tagValuesCardinality")>>,
  tagValuesCardinality |-> <<Kind("ShowTagValuesCardinalityStatement"), OnDatabase, From,
                             Call("withKey"), Where, GroupBy>> \o LimitOffset,
  tagValues |-> <<Kind("ShowTagValuesStatement"), OnDatabase, From, Call("withKey"),
                  Where, OrderBy>> \o LimitOffset]

ShowFieldRules == [
  showFieldKeyCardinality |-> <<Kind("ShowFieldKeyCardinalityStatement"), Flag("EXACT", "Exact"),
                                Need("CARDINALITY")>> \o CardinalityClauses,
  showFieldKeys |-> <<Kind("ShowFieldKeysStatement"), OnDatabase, From, OrderBy>> \o LimitOffset]

GrammarRules ==
  QueryRules @@ LanguageRules @@ ValueRules @@ IdentListRules @@ StringListRules
  @@ SegmentRules @@ LimitRules @@ WriteLimitRules @@ SetPasswordRules @@ UserRules
  @@ ShowNameRules @@ ShowUserRules @@ PrivilegeRules @@ GrantRules @@ RevokeRules
  @@ DatabaseRules @@ ShardDurationRules @@ CreatePolicyRules @@ AlterPolicyRules
  @@ DropPolicyRules @@ ShowPolicyRules @@ CreateSubscriptionRules @@ DropSubscriptionRules
  @@ KillQueryRules @@ ShardRules @@ ServerRules @@ ExprRules @@ UnaryRules @@ VarRefRules
  @@ CallRules @@ SourceRules @@ ClauseRules @@ OrderByRules @@ CallClauseRules @@ FieldRules
  @@ TargetRules @@ SelectRules @@ ExplainRules @@ ResampleRules @@ ContinuousQueryRules
  @@ DropContinuousQueryRules @@ DeleteRules @@ DropSeriesRules @@ ShowSeriesRules
  @@ ShowMeasurementRules @@ TagKeyRules @@ TagKeyCardinalityRules @@ ShowTagKeysRules
  @@ ShowTagValuesRules @@ ShowFieldRules

GrammarStart == "query"

----------------------------------------------------------------------------
(* What the parser tests besides the token it reads: a is the statement so *)
(* far, s the tokens of the field or the part last opened, g the token     *)
(* read last.                                                              *)

Count(s, T) == Cardinality({k \in DOMAIN s : s[k].tok \in T})

\* The segments of a name: a DOT at the end is followed by none.
SegmentCount(s) ==
  1 + Count(s, {"DOT"}) - (IF s # <<>> /\ s[Len(s)].tok = "DOT" THEN 1 ELSE 0)

Has(a, field) == field \in DOMAIN a

\* Where the dimensions start, and where the call at i ends.
Depth(s, i) == Count(SubSeq(s, 1, i - 1), {"LPAREN"}) - Count(SubSeq(s, 1, i - 1), {"RPAREN"})

Starts(s) == {i \in DOMAIN s : Depth(s, i) = 0 /\ (i = 1 \/ s[i - 1].tok = "COMMA")}

EndOfCall(s, i) == CHOOSE j \in i + 1 .. Len(s) :
  Depth(s, j + 1) = 0 /\ \A k \in i + 1 .. j - 1 : Depth(s, k + 1) > 0

\* A dimension that is a call of time, and no more.
TimeCalls(s) ==
  {i \in Starts(s) :
     /\ s[i].lit = "time" /\ i < Len(s) /\ s[i + 1].tok = "LPAREN"
     /\ EndOfCall(s, i) = Len(s) \/ s[EndOfCall(s, i) + 1].tok = "COMMA"}

\* The durations of the model, in minutes.
Minutes == "0s" :> 0 @@ "1m" :> 1 @@ "2m" :> 2

Error == -1

\* GroupByInterval: 0 without time(), Error when its arguments are wrong.
Interval(s) ==
  IF TimeCalls(s) = {} THEN 0
  ELSE LET i    == CHOOSE i \in TimeCalls(s) : \A j \in TimeCalls(s) : i <= j
           args == SubSeq(s, i + 2, EndOfCall(s, i) - 1)
       IN  IF /\ args # <<>> /\ args[1].tok = "DURATIONVAL"
              /\ Len(args) > 1 => args[2].tok = "COMMA"
              /\ Cardinality(Starts(args)) <= 2
           THEN Minutes[args[1].lit] ELSE Error

GroupByInterval(a) == IF Has(a, "Dimensions") THEN Interval(a["Dimensions"]) ELSE 0

IsRawQuery(a) ==
  \A k \in 1 .. Len(a["Fields"]) - 1 :
    ~ (a["Fields"][k].tok \in {"IDENT", "DISTINCT"} /\ a["Fields"][k + 1].tok = "LPAREN")

ResampleInterval(a) ==
  IF Has(a, "ResampleEvery") /\ Minutes[a["ResampleEvery"][1].lit] > GroupByInterval(a)
  THEN Minutes[a["ResampleEvery"][1].lit] ELSE GroupByInterval(a)

\* validate() of CreateContinuousQueryStatement.
ResampleForValid(a) ==
  /\ GroupByInterval(a) # Error
  /\ Has(a, "ResampleFor") => ResampleInterval(a) <= Minutes[a["ResampleFor"][1].lit]

\* The names of sources, without subqueries: Database # "" for one of them.
NamesDatabase(s) ==
  \E i, j \in DOMAIN s :
    i < j /\ s[i].tok = "DOT" /\ s[j].tok = "DOT" /\ Count(SubSeq(s, i, j), {"COMMA"}) = 0

FillOptions == {"null", "none", "previous", "linear"}

FillValid(s) ==
  /\ Len(s) \in 4 .. 5 /\ s[2].tok = "LPAREN" /\ s[Len(s)].tok = "RPAREN"
  /\ \/ /\ s[Len(s) - 1].tok \in {"INTEGER", "NUMBER"}
        /\ Len(s) = 5 => s[3].tok \in {"ADD", "SUB"}
     \/ Len(s) = 4 /\ s[3].tok = "IDENT" /\ s[3].lit \in FillOptions

TimeZones == {"UTC"}

TzValid(s) ==
  Len(s) = 4 /\ s[2].tok = "LPAREN" /\ s[3].tok = "STRING" /\ s[3].lit \in TimeZones

GrammarHolds(c, a, s, g) ==
  CASE c[1] = "named"        -> g.lit \in c[2]
    [] c[1] = "positive"     -> g.lit # "0"
    [] c[1] = "true"         -> TRUE
    [] c[1] = "all"          -> a["Privilege"][1].tok = "ALL"
    [] c[1] = "without"      -> ~ Has(a, c[2])
    [] c[1] = "segments"     -> SegmentCount(s) <= c[2]
    [] c[1] = "noComparison" -> Count(s, Comparison \cup {"AND", "OR"}) = 0
    [] c[1] = "fill"         -> FillValid(s)
    [] c[1] = "tz"           -> TzValid(s)
    [] c[1] = "byTime"       -> s[1].lit = "time"
    [] c[1] = "oneSort"      -> Count(s, {"COMMA"}) = 0
    [] c[1] = "noDatabase"   -> Has(a, "Sources") => ~ NamesDatabase(a["Sources"])
    [] c[1] = "noPolicy"     -> Has(a, "Sources") => Count(a["Sources"], {"DOT"}) = 0
    [] c[1] = "restricted"   -> Has(a, "Sources") \/ Has(a, "Condition")
    [] c[1] = "interval"     -> IsRawQuery(a) \/ GroupByInterval(a) > 0
    [] c[1] = "resampled"    -> Has(a, "ResampleEvery") \/ Has(a, "ResampleFor")
    [] c[1] = "resampleFor"  -> ResampleForValid(a)

----------------------------------------------------------------------------
(* The statement that is returned: zero values are not told from absent    *)
(* ones, and what has two spellings has one value.                         *)

Lex(tok, lit) == [tok |-> tok, lit |-> lit]

ZeroIsAbsent(kind) ==
  {"Limit", "Offset", "SLimit", "SOffset", "ResampleEvery", "ResampleFor"}
  \cup (IF kind \in {"CreateDatabaseStatement", "CreateRetentionPolicyStatement"}
        THEN {"ShardGroupDuration"} ELSE {})
  \cup (IF kind = "CreateRetentionPolicyStatement"
        THEN {"FutureWriteLimit", "PastWriteLimit"} ELSE {})

IsZero(v) == v[1].tok = "INF" \/ v[1].lit \in {"0", "0s"}

NullFill(v) == Len(v) = 4 /\ v[3].lit = "null"

Absent(a, field, v) ==
  \/ field \in ZeroIsAbsent(a["kind"]) /\ IsZero(v)
  \/ field = "Fill" /\ NullFill(v)

WithoutLastDot(v) == IF v[Len(v)].tok = "DOT" THEN SubSeq(v, 1, Len(v) - 1) ELSE v

\* A target that takes its name from the source has a DOT before the COLON.
NormalTarget(v) ==
  IF Count(v, {"COLON"}) = 0 THEN WithoutLastDot(v)
  ELSE WithoutLastDot(SubSeq(v, 1, Len(v) - 2))
       \o <<Lex("DOT", ""), Lex("COLON", ""), Lex("MEASUREMENT", "")>>

NormalSort(v) ==
  IF v[Len(v)].tok = "IDENT" THEN Append(v, Lex("ASC", "")) ELSE v

\* A variable keeps its segments in one name; a DOT that ends them is not of it.
Dots == <<".", "..", "...">>

NameEnded(n) ==
  IF n.dots < 2 THEN n.s
  ELSE [n.s EXCEPT ![Len(n.s)].lit = n.s[Len(n.s)].lit \o Dots[n.dots - 1]]

AddToName(n, l) ==
  IF l.tok = "DOT" THEN [n EXCEPT !.dots = n.dots + 1]
  ELSE [dots |-> 0,
        s |-> IF l.tok = "IDENT" /\ n.dots > 0
              THEN [n.s EXCEPT ![Len(n.s)].lit = n.s[Len(n.s)].lit \o Dots[n.dots] \o l.lit]
              ELSE Append(NameEnded(n), l)]

Joined(v) == NameEnded(FoldLeft(AddToName, [dots |-> 0, s |-> <<>>], v))

\* The operand of a sign: a literal takes it, anything else is multiplied by 1 or -1.
Signed(sign, l) ==
  IF l.tok \in {"IDENT", "LPAREN"}
  THEN (IF sign = "SUB" THEN <<Lex("SUB", "")>> ELSE <<>>)
       \o <<Lex("INTEGER", "1"), Lex("MUL", ""), l>>
  ELSE IF sign = "ADD" \/ l.lit \in {"0", "0s"} THEN <<l>> ELSE <<Lex("SUB", ""), l>>

\* e.operand: an operand comes next; MUL is a wildcard there, ADD and SUB are signs.
AddToExpr(e, l) ==
  IF e.operand /\ l.tok \in {"ADD", "SUB"} THEN [e EXCEPT !.sign = l.tok]
  ELSE [operand |-> l.tok \in {"LPAREN", "COMMA", "DISTINCT", "AS"}
                    \/ (l.tok \in Operator /\ ~ e.operand),
        sign |-> "",
        s |-> e.s \o (IF e.sign = "" THEN <<l>> ELSE Signed(e.sign, l))]

NormalExpr(v) == FoldLeft(AddToExpr, [operand |-> TRUE, sign |-> "", s |-> <<>>], Joined(v)).s

Flags == {"Admin", "Analyze", "Default", "Exact", "Resampled", "RetentionPolicyCreate", "Verbose"}

Normal(field, v) ==
  CASE field \in Flags                           -> <<>>
    [] v # <<>> /\ v[1].tok = "INF"              -> <<Lex("DURATIONVAL", "0s")>>
    [] field = "Name" /\ v[1].tok = "DEFAULT"    -> <<Lex("IDENT", "default")>>
    [] field = "Privilege" /\ v[1].tok = "ALL"   -> Append(v, Lex("PRIVILEGES", ""))
    [] field = "Target"                          -> NormalTarget(v)
    [] field = "SortFields"                      -> NormalSort(v)
    [] field \in {"Fields", "Condition", "Dimensions", "Fill"} -> NormalExpr(v)
    [] OTHER                                     -> v

\* The statement a, with a field set.
GrammarStore(a, field, v) ==
  IF Absent(a, field, v) THEN a ELSE field :> Normal(field, v) @@ a
=============================================================================
