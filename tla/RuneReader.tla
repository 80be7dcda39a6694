----------------------------- MODULE RuneReader -----------------------------
(***************************************************************************)
(* The rune reader of scanner.go: a ring of three slots over the input     *)
(* that can be read back, turns a carriage return (with the line feed that *)
(* may follow it) into one line feed, and counts lines and characters.     *)
(*                                                                         *)
(* A reader is a value, and its methods are operators on it: one step of   *)
(* the scanner calls several of them.  Any error of the underlying reader, *)
(* the end of the input included, reads as the rune NUL.                   *)
(***************************************************************************)
EXTENDS Integers, Sequences

CONSTANTS
  Rune,          \* the runes of the input
  LF, CR, NUL    \* line feed, carriage return, and rune(0), which marks the end

ASSUME RuneAssumption == {LF, CR, NUL} \subseteq Rune /\ CR # LF /\ NUL # CR

BufLen == 3

PosZero == [line |-> 0, char |-> 0]

Position == [line : Nat, char : Nat]

Slot == [ch : Rune, pos : Position]

Reader ==
  [in : Seq(Rune), at : Nat \ {0}, i : 0 .. BufLen - 1, n : Nat,
   pos : Position, buf : [0 .. BufLen - 1 -> Slot], eof : BOOLEAN]

\* at is the index in the input of the next rune of the underlying reader.
NewReader(input) ==
  [in |-> input, at |-> 1, i |-> 0, n |-> 0, pos |-> PosZero,
   buf |-> [k \in 0 .. BufLen - 1 |-> [ch |-> NUL, pos |-> PosZero]],
   eof |-> FALSE]

----------------------------------------------------------------------------
(* The underlying io.RuneScanner, with the translation of line ends.       *)

\* Mutant: the last rune of the input is taken for its end.
Exhausted_TooEarly(r) == r.at >= Len(r.in)

Exhausted(r) == r.at > Len(r.in)

Pending(r) == IF Exhausted(r) THEN NUL ELSE r.in[r.at]

\* Mutant: a line feed after a carriage return is a line end of its own.
Width_CountsEveryLineFeed(r) == IF Exhausted(r) THEN 0 ELSE 1

\* How many runes of the input the next rune stands for.
Width(r) ==
  IF Exhausted(r) THEN 0
  ELSE IF r.in[r.at] = CR /\ r.at < Len(r.in) /\ r.in[r.at + 1] = LF THEN 2
  ELSE 1

Delivered(r) == IF Pending(r) = CR THEN LF ELSE Pending(r)

----------------------------------------------------------------------------
(* The ring.                                                               *)

\* Mutant: every end of input is counted.
Advance_CountsEveryEnd(pos, ch, eofSeen) ==
  IF ch = LF THEN [line |-> pos.line + 1, char |-> 0]
  ELSE [pos EXCEPT !.char = @ + 1]

\* Only the first end of input is counted.
Advance(pos, ch, eofSeen) ==
  IF ch = LF THEN [line |-> pos.line + 1, char |-> 0]
  ELSE IF eofSeen THEN pos
  ELSE [pos EXCEPT !.char = @ + 1]

\* Mutant: the rune is stored before the buffer index moves.
Fetch_StoresBeforeMoving(r) ==
  [r EXCEPT !.at  = r.at + Width(r),
            !.i   = (r.i + 1) % BufLen,
            !.buf = [r.buf EXCEPT ![r.i] = [ch |-> Delivered(r), pos |-> r.pos]],
            !.pos = Advance(r.pos, Delivered(r), r.eof),
            !.eof = r.eof \/ Delivered(r) = NUL]

Fetch(r) ==
  LET ch == Delivered(r)
      i  == (r.i + 1) % BufLen
  IN  [r EXCEPT !.at  = r.at + Width(r),
                !.i   = i,
                !.buf = [r.buf EXCEPT ![i] = [ch |-> ch, pos |-> r.pos]],
                !.pos = Advance(r.pos, ch, r.eof),
                !.eof = r.eof \/ ch = NUL]

\* Mutant: a rune read back stays pushed back.
Read_KeepsTheCount(r) == IF r.n > 0 THEN r ELSE Fetch(r)

Read(r) == IF r.n > 0 THEN [r EXCEPT !.n = r.n - 1] ELSE Fetch(r)

\* Mutant: unread() counts the wrong way.
Unread_CountsDown(r, k) == [r EXCEPT !.n = r.n - k]

Unread(r, k) == [r EXCEPT !.n = r.n + k]

\* Mutant: the runes pushed back are looked for on the wrong side.
Curr_LooksForward(r) == r.buf[(r.i + r.n) % BufLen]

Curr(r) == r.buf[(r.i - r.n + BufLen) % BufLen]
=============================================================================
