# A TLA+ model of the InfluxQL parser

This directory models `zhiwangdu/influxql`, a Go library that scans, parses,
prints, rewrites and evaluates InfluxQL queries. The modules are checked with
TLC on small instances, and the theorems with TLAPS for every value of the
constants. `PROJECT.json` lists the components, the runs, the source lines every
definition stands for, the hazards and the theorems.

## The system

The library is sequential: a caller runs `ParseQuery`, gets statements back, and
rewrites, evaluates or prints them. What is hard in the parser is not
concurrency but *look-ahead*. Two layers each keep a
ring of three slots and give back what was read, a third path (`peekRune`) looks
under both, and about ninety parse functions rely on how many tokens the others
have pushed back. The second hard part is the round trip: a statement is stored
and sent as printed text, so `String` and the parser must agree. The third is
*rewriting*: many functions replace an expression or a condition by another that
must mean the same (`Reduce`, `RewriteRegexConditions`, `ConditionExpr`,
`PartitionExpr`, `SetTimeRange`), some of them in place, and a program calls them
in any order.

| Component | State | Operations | Modules |
|---|---|---|---|
| rune reader (`scanner.go`) | ring of 3 runes, push-back count, position, end | `read`, `unread`, `curr` | `RuneReader`, `Pushback` |
| scanner (`scanner.go`) | the reader | `Scan`, `ScanRegex`, the scan functions | `Scanner` |
| token buffer (`bufScanner`) | ring of 3 tokens, push-back count | `Scan`, `ScanRegex`, `Unscan` | `TokenBuffer` |
| parser (`parser.go`) | the token buffer, the bound parameters | `ParseQuery` and a function per statement, clause and expression | `Instructions`, `Grammar`, `Parser` |
| parse tree (`parse_tree.go`) | a tree of maps from token to subtree or handler | `Group`, `Handle`, `Clone`, `Parse` | `ParseTree`, `CommandTable` |
| printer (`String` methods of `ast.go`) | none | `String` of every statement | `Printer` |
| bound parameters (`params.go`) | a map | `BindValue`, substitution in `scan` | `Parser` (the substitution) |
| durations and numbers (`parser.go`) | none | `ParseDuration`, `FormatDuration`, the range of integers | `Literals`, `ExprParser` |
| expressions (`parser.go`, `ast.go`, `token.go`, `utils.go`) | the tree, a heap of nodes | `ParseExpr`, precedence, `String`, `CloneExpr`, `RewriteExpr`, `PartitionExpr` | `ExprTokens`, `ExprParser`, `ExprTree`, `ExprReference` |
| evaluation (`ast.go`) | none | `Eval`, `Reduce`, valuers | `Evaluation` |
| data types (`ast.go`) | none | `LessThan`, `EvalType`, `FieldDimensions` | `DataTypes`, `Fields` |
| time conditions (`ast.go`) | none | `ConditionExpr`, `getTimeRange`, `TimeRange` | `TimeRange`, `Conditions` |
| SELECT rewriting (`ast.go`) | a statement | `RewriteFields`, `RewriteRegexConditions`, `RewriteDistinct`, `RewriteTimeFields`, `Reduce`, `SetTimeRange`, `ColumnNames` | `SelectStatement`, `Wildcards`, `Conditions`, `ColumnNames` |
| privileges, `Sanitize`, protobuf | none | pure functions, generated code | not modelled |

The parser asks the token buffer for a token; the buffer asks the scanner, with
`Scan` or `ScanRegex`, when nothing is pushed back; the scanner asks the rune
reader; `peekRune` asks the rune reader directly. `Language`, a parse tree, picks
the function that parses a statement by its first tokens. `Statements.String`
prints what the parser returns.

What makes each part correct:

- **rune reader**: what is read again is what was read; the text is delivered
  in order with its line ends normalised; a position is the rune's own; the end
  stays the end.
- **scanner**: it ends; it never pushes back more than the ring holds; a token's
  literal and position are those of the text, and it is as long as it can be.
- **token buffer and parser**: no function pushes back more than three tokens;
  tokens are consumed once and in order; the statements are those between the
  semicolons; no clause overwrites another; comments are blanks; it ends.
- **parse tree**: trees never share nodes; a token is never both a subtree and a
  handler; every lookup finds the handler of exactly the tokens read.
- **printer**: what it prints is parsed back as the same statement, but for the
  losses that are listed below.
- **expressions**: a text gives the tree its operators' precedence means, and a
  tree is printed as a text that gives it back, but for two known forms; a clone
  shares nothing.
- **durations**: what does not fit a word is refused, what is printed reads back.
- **evaluation**: reducing with a part of the values and evaluating the rest gives
  the value of the whole.
- **conditions**: every rewriting is satisfied by the same rows; a range that is
  set is the range that is found.
- **SELECT**: `*` is every field once and every tag as a column or as a dimension, in
  whatever order sources and maps are visited (a tag that a subquery selects and
  groups by is there twice); no two columns share a name.

## The modules

`Pushback` is the abstract promise of a buffer with push-back: items come in
order, and those given back come again, at most `Depth` of them. `Scanner` is
shown to implement it for runes (run `scanner`, theorem `ScannerReadsInOrder`),
`Parser` for tokens (run `parser`, theorem `ParserReadsInOrder`).

`RuneReader` holds the reader's methods as functions of its record. `Scanner`
is the step machine they make: `pc` names the call of `read()` about to be made,
and a step is that call with the `unread()`s behind it. Between two tokens the
environment, in the parser's place, may peek, and picks `Scan` or `ScanRegex`.

`ParseTree` runs arbitrary programs of `Group`, `Handle`, `Clone` and `Parse`
calls on a heap of nodes, a step per iteration. It implements `CommandTable`, a
table from token paths to handlers with register, copy and find.

`TokenBuffer` is `bufScanner`. `Instructions` is the vocabulary in which
`Grammar` writes the functions of `parser.go`: since between two calls of `Scan`
a function only tests, stores, calls or pushes back, it is a *rule*, a sequence
of instructions such as `Need("ON")`, `Maybe("WHERE", "where")` or
`Unscans(2)`. Each rule carries the function's name. An instruction says whether
blanks are skipped and how many tokens each outcome pushes back, so the code's
`Scan`/`ScanIgnoreWhitespace` and `Unscan` choices are kept one by one. `Parser`
runs the rules: a step per token read, per rune peeked at, per stage of
`parseRegex`, per call, branch or field stored. `calls` is Go's call stack.

The text is not an input chosen at the start: each token is chosen when the
scanner delivers it, from a small alphabet and subject to `Follows`, so only
texts on which the parser's behaviour differs are told apart. `ahead` remembers
what a peek has revealed. A regular expression is one lexeme, `REGEX`:
`ScanRegex` delivers it, `Scan` sees its slash as `DIV`. When the first text has
been parsed, `Parser` may start a *second round* with a new parser, on
the printed statements (`ReparsePrinted`) or on the same text with every blank
made a comment (`ReparseCommented`); `first` keeps the statements to compare.
`QueryLoop` names the four rules of `ParseQuery` and `ParseStatement` and states, as
an assumption, what they rely on in the functions that parse statements.

A field of a statement is kept as the tokens it was read from, normalised where
the code does not tell two texts apart (`Normal`: `INF` is `0s`, `ALL` is `ALL
PRIVILEGES`, a sign before a variable is a product, a zero limit is none).
`Printer` turns a statement into tokens by a template per `String` method.

`Literals` has the machine words, the literals and the durations: an int64 is an
integer between `MinInt` and `MaxInt`, a constant, and arithmetic wraps. A
literal is a record of a type and an integer, a float an exact fraction.
`ExprParser` is `ParseExpr`, `parseUnaryExpr`, `parseCall` and `ParseDuration` on
a heap of nodes: a step reads a token, takes a step down the right spine, or
multiplies one part of a duration; `stack` holds the calls that wait for a
parenthesis. As in `Parser`, a token is chosen when it is read. `ExprTree` reads
a heap as a tree, prints, clones and rewrites it; `ExprReference` says what a text
means by splitting it at the operator that binds least and stands last,
knowing nothing of spines. `Evaluation` is `Eval` and `Reduce`, on trees.

`SelectStatement` is a statement and the calls a program makes on it, in any
order: the next statement is what the method returns, or leaves behind when it
fails. It is composed of `Conditions` (`ConditionExpr` with `TimeRange`,
`SetTimeRange`, which prints the old condition, adds the new range and parses the
whole with the meaning of `ExprReference`, and the regular expressions, which
are trees of `regexp/syntax`), `Wildcards` over `Fields` and `DataTypes`
(`RewriteFields`, subqueries first, then types, then expansion), and
`ColumnNames`, whose loop is a machine of its own so that its theorem can be
stated for every list of columns. Methods that rewrite in place and methods that
return a clone are told apart where the difference is visible
(`LeftInPlace`).

`MCScanner`, `MCParseTree`, `MCParser`, `MCExpressions` and `MCSelect` give the
constants their values, and `MCParserEnds` is `MCParser` with the assumption of
`QueryLoop` evaluated; the modules named `...Proofs`, `ScannerTokens` and
`ParseTreeRefinement` hold the proofs.

## The runs

| Run | Shows | Bounds |
|---|---|---|
| `scanner` | types, `UnreadBound`, ring contents, text, positions, literals, longest match, end, order, termination | every text of up to 3 to 5 runes over six alphabets, one per family of tokens |
| `token_position` | *violation*: `token.go` says a position is the token's; that of a string or a regular expression is the rune before | one text: a blank and the string `'a'`, both reported at the place of the blank |
| `parse_tree` | types, no sharing, no ambiguity, keys, refinement of `CommandTable`, every call returns | 4 nodes, 2 tokens, 2 handlers, paths of 2 |
| `clone_keys` | *violation*: "Return the valid tokens in the order they were added"; a clone's error lists none | the same |
| `parser` | types, `UnscanBound`, ring contents, order, statements, clauses, both round trips | thirteen alphabets, texts of 6 to 25 tokens |
| `parser_ends` | termination; evaluates `QueryAssumption` | the seven alphabets with loops and recursion, texts of 6 to 12 tokens |
| `printed_statements` | *violation*: "reparse the statement as a string and confirm it parses the same"; `SHOW TAG KEYS WITH KEY = a` loses its last clause | the tokens of that statement |
| `comments` | *violation*: "A comment is treated the same as whitespace by the parser"; not where `parseRegex` peeks | the alphabet of sources |
| `expressions` | types, precedence, the meaning of the text, printing, `Reduce` against `Eval`, conjunctions, clones, durations, termination | every text over thirteen alphabets: seven tokens where few tokens nest, five where there are many kinds |
| `signed_operands` | *violation*: "reparse the expr as a string and confirm it parses the same"; `x / -y` does not | the five alphabets of `expressions` in which few tokens nest |
| `select_statement` | what a condition means through `ConditionExpr`, `SetTimeRange`, `RewriteRegexConditions`, `Reduce` and `RewriteFields`; names of columns; expansion of wildcards | all sequences of calls on about a thousand statements |
| `set_time_range` | *violation*: "sets the start and end time of the select statement to [start, end)"; `Time = '...'` is neither removed nor overridden | the same |

Why the bounds are enough. The scanner's decisions look at most two runes ahead
and three runes fill its ring; five runes hold a token that pushes back two, and
the one that reads them again. Four nodes hold a tree with a branch and its
clone. In the parser an alphabet has the words of one family of statements and
the bound lets its longest statement, and where there is a semicolon two short
ones, be complete; a longer text repeats the same functions with the same tokens
pushed back. `CREATE CONTINUOUS QUERY ... GROUP BY time(...)`, which pushes back
three tokens when its interval is missing, takes 25. Blanks do not count. The
alphabets in `Loose` have blanks wherever they can stand, the others only
between words: that is where the parser tells `Scan` from
`ScanIgnoreWhitespace`.

`MaxInt` is 1023, so that a week (128) times a small number leaves the word and
twice the word, and every sign, bound and wrap of `Literals` is met. Seven tokens
hold three operators, between which a descent of the spine can go wrong in every
way, or two with a parenthesis or a sign; eight alphabets have a group of words
each for one of the kinds of value. For `select_statement` no number of calls is
fixed: the statements that the methods make of one are finitely many, and TLC
visits them all. Conditions have up to three comparisons, joined and grouped in
every way, of a time (on the left, on the right, in the other case, as a
string, an integer, an offset from now; the last and the first instant of a
literal, in a strict comparison), a tag, a field and a constant; the regular
expressions have one of every node and products, lists and alternatives that
reach or pass the limit, which is three (`MaxLiterals`, 100 in the code). Two
measurements share a field of two types and a name that is a field in one and a
tag in the other; one subquery groups and renames, one has
wildcards, and one selects the tag it groups by. Three columns are enough for a
name, its numbered form as an alias, and its numbered form as a field.

What the expression properties leave out: a sign in front of what is not a
literal, at the right of an operator that binds as a product (`SignOnTheRight`,
the finding of `signed_operands`); calls and `DISTINCT` with a name that needs
quotes (`LosesQuotes`): `Call.String` and `Distinct.String` do not call
`QuoteIdent`, so that `DISTINCT "a b"` and `"my f"(x)` are printed as texts that mean
something else or nothing; `PrintedTextReadsBack` says of these that they do not
read back; what `Reduce` prints like a value of another
type (times are strings, small unsigned are integers); operands that do not go
together, and the remainder of floats, for `ReducedEvaluatesTheSame`, whose rows
always have a value for the boolean: a missing one is nil alone but false next to
an operator, so that `b OR false`, which is false, would reduce to `b`, which is nil.
`ConditionMeansTheSame` leaves out times below an OR: the comment of
`ConditionExpr` says they are refused, the code intersects the ranges of both
sides. `SetTimeRangeHolds` also leaves out the comparisons that
`rewriteWithoutTimeDimensions` does not recognise (the time on the right, or in
another case: the finding of `set_time_range`) and constants under an OR. The range
is joined to the printed condition without parentheses, so that it becomes part of
the OR's right operand: `true OR (x AND time)` is reduced to true, without the
range, and `x OR (true AND time)` to `x OR time`. `WildcardsExpand`
leaves out tags under `GROUP BY /regex/`: as with `GROUP BY *` no tag is selected,
but only those that match become dimensions. `NamesAreDistinct` is about the
columns of fields: aliases that the query repeats and the column `time` are not
in the map that `ColumnNames` keeps.

`RoundTrip` leaves out what is known to get lost (`Lossy` in `MCParser`):
passwords, which are redacted on purpose; `WITH KEY` of `SHOW TAG KEYS`; `SHOW
MEASUREMENTS ON` a name that needs quotes; a write limit of zero, which is
stored but not printed; `CREATE DATABASE ... WITH` a zero as its only option,
which prints a bare `WITH`; its `DURATION` and `SHARD DURATION`, which it alone
prints with Go's `Duration.String`, when that has a fraction (`1500ms` is printed as
`1.5s`, which the parser refuses; `1w`, printed as `168h0m0s`, has the same value); a
function named by a keyword, whose quotes are not
printed. `CommentsAreWhitespace` leaves out the statements with a clause that
may hold a regular expression, and texts with a division.

Fairness. The specifications with a liveness property assume weak fairness of the program's own
steps (`Scan \/ Continue` of the scanner, which the parser keeps calling until
EOF; `Continue`, the rest of a call, in the trees; `ParseQuery` in the parser;
`Next` of `ExprParser`, which is one call of `ParseExpr`) and of nothing else: one goroutine runs them, and none waits for anything. Whether a
second round starts, which call a program makes next, or which rune or token the
text goes on with is not under fairness.

Deadlock is checked in every run but those of `MCExpressions`, where a call that
has returned has no next step; where a behaviour of the scanner or the parser
ends, `Finished` stutters.

## The theorems

- `ScannerProofs`: for every set of runes and every text. `ReaderInvariant`,
  `UnreadBounded`, `RingFaithful`, and that the scanner implements `Pushback`
  (`ScannerReadsInOrder`): every step is one `read()` and at most two
  `unread()`s (lemma `OneRead`), so the invariant `ReaderInv` is proved of that
  alone. It is `UnreadBound` strengthened by "behind a full stop at most one rune is
  pushed back", the only place from which two more are. On it rest
  `ScannerTypeCorrect`, `ScannerEndIsTheEnd` and `ScannerDeliversTheText`. Their
  invariants say where in a token each `pc` is: what was read since the token
  began (`PlaceInv`), which token that can become (`TokensTyped`), that the
  end is delivered only when the text has ended (`EndInv`), and that what was delivered is the
  text with its line ends normalised up to the place of the input (`TextInv`).
- `ScannerTokens`: the tokens themselves. `ScannerMaximalMunch` (`MunchInv`: a
  token ends at the end of the text, where nothing continues it, or before a rune
  that does not), `ScannerLiteralIsTheText` (`LitInv` of the literal being
  collected, which lags behind the text by the quotes and backslashes left out;
  `ToldInv` of every token) and `ScannerTokenPositions`. The last needs the positions
  in the ring (`PosInv`: the slots have the positions of the last three runes, and
  every rune is on a line that starts somewhere), the position of the token that is
  being read (`PartPos`), and the tokens returned before (`TokensPlaced`).
- `ParseTreeProofs`: for every number of tokens, handlers and nodes, the type
  invariant (no method follows a nil tree), disjoint trees, no ambiguous token,
  keys, and one node per path. The conjuncts are proved together: that a copied
  node is fresh needs the types, and that `Clone` meets a subtree once needs
  what is still to do (`todo`) to be consistent with the heap.
- `ParseTreeRefinement`: `TreesImplementTheTable`, step by step: any sequence of
  calls is one of `CommandTable`, the table read off the heap as the paths that
  lead from a root to a handler. The invariant `TableInv` adds to the one of
  `ParseTreeProofs` that the nodes above a node lie at the prefixes of its path
  (`PrefixesExist`), each with a subtree for the next token, so that a table is
  prefix-free; that what the program holds lies in finished trees and the clone being
  made does not (`TreesAreReached`); that a `Parse` under way is at the node of the tokens it has read
  (`ParseFollowsThePath`); and that a `Clone` under way has copied all but what
  lies below the subtrees in `todo` (`CloneCopiesTheTree`). TLC has checked
  these conjuncts as invariants of the instance of run `parse_tree`, with five nodes.
- `ParserProofs`: for every grammar, alphabet, parameter and text.
  `StaysInTheRing` and `RingIsFaithful`: the bound of three is not inductive, since a
  function may push back two tokens, and one more may already be there. The
  invariant `DepthOK` says where that happens: with two tokens pushed back the
  next instruction is a scan that pushes none back and, on a miss, ends the
  parse; with three it also has no token to hit (`Stops`). That every rule is
  written so is `GrammarAssumption`. `ParserTypeCorrect` and `ParserReadsInOrder`,
  that the token buffer implements `Pushback`: here nothing may be pushed back
  that was not read. `parseVarRef`, the sort fields and the rewind of CREATE
  CONTINUOUS QUERY push back what their caller has read, so the invariant (`Funded`)
  is about the whole stack of calls: there are levels, one per call, between which
  lie at least as many consumed tokens as the call is lent. What a rule is lent at
  each of its places is the constant `Lent`; that the books balance in every rule is
  `BalanceAssumption`. TLC evaluates both assumptions for the rules of `parser.go`
  in every run of `MCParser`. `QueryIsSplit`: a text is accepted only at its end, with
  nothing pushed back, and gives one statement for each piece between semicolons that
  is not blank. What the parser *has read* is not what it has consumed, so the
  invariant (`Counted`) says that the end is the last token of the text and is consumed
  only to return (`EndOnce`), and where in the loop the parser is (`Progress`): between
  statements every statement begun is stored; inside one, exactly one more is begun,
  at a token b. From there on the account of what the calls are lent begins anew at
  b (`Parsing`, `Inside`): the calls have consumed b and all they are lent lies behind
  it, so b is never pushed back, and since no rule of a statement takes a separator
  no other statement begins before this one is stored. That the rules are so is
  `QueryAssumption`, with that no bound parameter stands for a separator (`BindValue`
  makes none); the balance of every rule is used again for the levels above b.
- `OperatorProofs`: pure operators. For every word size, every integer and every
  duration that is printed reads back as itself, the smallest integer, whose magnitude
  is read as unsigned, included (`IntegerReadsBack`, `DurationReadsBack`). The range
  of a comparison holds exactly the times in that relation to the instant, strict
  bounds included, if the instant is one a time literal may have (`BoundsAreExact`;
  integers and durations at the very end of the word are not tested by the code,
  and a strict bound would wrap), and the intersection of ranges is the conjunction
  (`IntersectionIsConjunction`). The precedence of data types is a total order
  although Unsigned was added out of place (`TypesAreOrdered`), so a field that
  several sources share has a type that does not depend on their order
  (`OrderOfSources`).
- `ExprParserProofs`: for every alphabet, word size and length of text, the types
  (`TypeCorrect`), that no operator is above one that binds less, or at its right
  above one that binds the same (`OperatorsBound`), and that a duration below 2^64
  is refused exactly when it does not fit (`DurationsChecked`). `BoundByPrecedence`
  is about the right spine while the heap is a forest under construction: the
  invariant adds that the node the descent is at is the root of the innermost call
  or an operator that binds less than the one in hand, that the operand to be
  placed is never an operator the loop made, that the only other binary nodes
  are multiplications for a sign, which stop the descent, and that every call on
  the stack has its own root. For durations the
  invariant relates the sum in the word to the sum without bounds.
  `ReturnedTreeReadsTheText`: the tree that is returned is the text that was
  consumed, left to right, each node an interval of tokens; no token is lost, used
  twice or moved. Its invariant (`Spanned`) says there are such intervals for the heap
  under construction: the operators that end together form a chain down the
  right-hand sides, in the order they bind (`Chain`), so that those a new
  operator is put below are the ones that go on to its end; the one
  that ends the left operand is the outermost of them (`Heads`); no node
  has the token of the operator in hand (`Cut`); and each open call begins behind
  what the ones around it have read (`StackStands`). The steps come from one lemma
  each, the split of the tree from `SplicedHeap` and `SplicedStack`. TLC has checked
  the invariant, with the intervals as variables, on the instance of run
  `expressions`. Of a duration it says only that it is one: its value is the
  matter of `DurationsChecked`.
- `ColumnNamesProofs`: `DistinctNames`, for every list of columns and every number of
  calls, also when the numbering of names is not injective. The invariant says
  that every name in use is in the map; a name is given only if it is not.

The assumptions are the named `ASSUME`s: `RuneAssumption` and `TextAssumption` of
`Scanner` (the runes the scanner names exist; the end, rune 0, is none of those that
tokens are made of; the double quote is no letter or digit), `BoundAssumption`,
`LexemeAssumption`, `GrammarAssumption` and `BalanceAssumption`, `TextAssumption`
of `Parser` (the alphabets are sets of lexemes), `QueryAssumption` of `QueryLoop`, and in `Literals` and
`ExprParser` that a word holds at least the number 1, that a nanosecond is one, and
that alphabets are sets of tokens. Nothing is assumed of what the printer prints:
what is no lexeme is read as ILLEGAL.

Only model-checked: termination (liveness is not within the prover's reach);
`NoClauseIsOverwritten`, which is about the rules of `parser.go` themselves and not
about any grammar; and all that compares
statements, expressions or what conditions mean, since it rests on folds and
recursive definitions over sequences and trees. `ExprTree`, `ExprReference`,
`Evaluation`, `Conditions`, `Fields` and `Wildcards` declare RECURSIVE operators and
hold no theorem.

## What is left out

- In `Grammar` and `Printer` expressions are sequences of tokens: their trees are
  built in `ExprParser` only.
- The statements of a subquery: its tokens are part of the field `Sources`.
- The values of numbers in `Grammar`, among them the limits that
  `ParseOptionalTokenAndInt` cuts without an error; the wording of errors. Any
  error ends the parse.
- Digits: a number is an integer or a fraction, not a text. Floats are exact: no
  rounding, NaN or remainder. Characters of a regular expression: its syntax tree
  and what it matches are constants.
- Parsing and time zones of the strings that look like times: such a string is a
  value that stands for an instant. `(?m)`, which lets `^` and `$` match at line ends.
- Errors of the mappers in `EvalType`; `MultiTypeMapper`, `MultiValuer`.
- The fields of a statement that no method of `SelectStatement` reads (limits, fill,
  sort fields); `Target` is only whether there is one. `GroupByOffset`,
  `TimeAscending`, `Dimensions.Normalize`.
- `RequiredPrivileges`, `Sanitize`, `BindValue` and the protobuf encoding: constants
  per statement, two regular expressions over a text, a conversion per Go type, and
  generated code; none keeps state or has steps.
- Token positions above the scanner.
- `REGEX` as `Scan` sees it is one `DIV`, not a `DIV` with tokens behind it: after
  it the parser has failed in every rule but an expression's, which the
  alphabet `expressions` treats as a division.

## Plan

Done, in this order: the readers (`Pushback`, `RuneReader`, `Scanner`), the tree
(`CommandTable`, `ParseTree`), the parser (`TokenBuffer`, `Instructions`,
`Grammar`, `Parser`, `Printer`), expressions (`Literals`, `ExprTokens`,
`ExprParser`, `ExprTree`, `ExprReference`, `Evaluation`), and SELECT (`TimeRange`,
`DataTypes`, `Conditions`, `Fields`, `Wildcards`, `ColumnNames`,
`SelectStatement`).

Left:

1. `GroupByOffset` and the cache of `GroupByInterval` as methods of
   `SelectStatement`, with dimensions that a rewriting changes.
2. Values for the numbers of `Grammar`: limits, replication, shard durations.
