---------------------------- MODULE MCParserEnds ----------------------------
(***************************************************************************)
(* The instance of MCParser, with the assumption of QueryLoop evaluated    *)
(* for the rules of parser.go.                                             *)
(***************************************************************************)
EXTENDS MCParser, QueryLoop

\* Expressions and subqueries go round their loops and into themselves in
\* shorter texts already.
EndsMaxTokens == [MCMaxTokens EXCEPT !.expressions = 6, !.subqueries = 9]
=============================================================================
