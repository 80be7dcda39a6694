----------------------------- MODULE DataTypes -----------------------------
(***************************************************************************)
(* DataType of ast.go: the types of fields and tags and their precedence.  *)
(***************************************************************************)
EXTENDS Integers

Unknown  == 0
Float    == 1
Integer  == 2
String   == 3
Boolean  == 4
Time     == 5
Duration == 6
Tag      == 7
AnyField == 8
Unsigned == 9

DataType == Unknown .. Unsigned

\* The other type takes precedence.  Unsigned is between Integer and String,
\* although its number is the highest.
LessThan(d, other) ==
  IF d = Unknown THEN TRUE
  ELSE IF d = Unsigned THEN other # Unknown /\ other <= Integer
  ELSE IF other = Unsigned THEN d >= String
  ELSE other # Unknown /\ other < d

\* What two sources make of a field they share.
Higher(d, other) == IF LessThan(d, other) THEN other ELSE d
=============================================================================
