---------------------------- MODULE MCParseTree -----------------------------
(***************************************************************************)
(* Parse trees over two tokens and two handlers, small enough to try every *)
(* program of calls.                                                       *)
(***************************************************************************)
EXTENDS ParseTree

CONSTANTS a, b, h1, h2

MCToken == {a, b}
MCHandler == {h1, h2}

=============================================================================
