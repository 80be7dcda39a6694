---------------------------- MODULE TokenBuffer -----------------------------
(***************************************************************************)
(* bufScanner of scanner.go: a ring of three tokens between the scanner    *)
(* and the parser.  Scan and ScanRegex fetch a token only when no token is *)
(* pushed back: a token that was read with one of them and pushed back is  *)
(* read again, as it is, by the other.                                     *)
(*                                                                         *)
(* A lexeme is a token with its literal; its position is left out.         *)
(***************************************************************************)
EXTENDS Integers, Sequences

CONSTANT Lexeme    \* the tokens with their literals

ASSUME LexemeAssumption == [tok |-> "ILLEGAL", lit |-> ""] \in Lexeme

\* Mutant: two slots are enough.
BufLen_2 == 2

BufLen == 3

Buffer ==
  [i : 0 .. BufLen - 1, n : Nat, buf : [0 .. BufLen - 1 -> Lexeme]]

\* The slots hold the zero value of Go until a token is stored in them.
NewBuffer ==
  [i |-> 0, n |-> 0, buf |-> [k \in 0 .. BufLen - 1 |-> [tok |-> "ILLEGAL", lit |-> ""]]]

\* Mutant: the slots are told apart by the token that was read, not by its place.
Curr_IgnoresTheCount(b) == b.buf[b.i]

Curr(b) == b.buf[(b.i - b.n + BufLen) % BufLen]

\* Mutant: a token read while others are pushed back is fetched all the same.
ScanFunc_AlwaysFetches(b, x) ==
  LET i == (b.i + 1) % BufLen IN [b EXCEPT !.i = i, !.buf[i] = x]

\* Mutant: the index runs over the end of the ring.
ScanFunc_Unwrapped(b, x) ==
  IF b.n > 0 THEN [b EXCEPT !.n = b.n - 1]
  ELSE [b EXCEPT !.i = b.i + 1, !.buf = [b.buf EXCEPT ![b.i] = x]]

\* scanFunc(scan), when scan would return x.
ScanFunc(b, x) ==
  IF b.n > 0 THEN [b EXCEPT !.n = b.n - 1]
  ELSE LET i == (b.i + 1) % BufLen
       IN  [b EXCEPT !.i = i, !.buf = [b.buf EXCEPT ![i] = x]]

Unscan(b, k) == [b EXCEPT !.n = b.n + k]
=============================================================================
