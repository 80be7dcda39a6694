------------------------------ MODULE Literals ------------------------------
(***************************************************************************)
(* The numbers of parser.go: integers and durations in machine words, how  *)
(* they are read from text and how they are printed.                       *)
(***************************************************************************)
EXTENDS Integers, Sequences

CONSTANTS
  MaxInt,   \* math.MaxInt64
  Scale,    \* the nanoseconds of every unit
  Name,     \* the names and texts that literals hold
  NoName    \* the one that stands where there is none

\* The units, in the order in which FormatDuration tries them.
Units == <<"w", "d", "h", "m", "s", "ms", "u", "ns">>

Unit == {Units[k] : k \in DOMAIN Units}

ASSUME WordAssumption == MaxInt \in Nat \ {0}

ASSUME ScaleAssumption == Scale \in [Unit -> Nat \ {0}] /\ Scale["ns"] = 1

ASSUME NameAssumption == NoName \in Name

----------------------------------------------------------------------------
(* Words.                                                                  *)

MinInt  == -MaxInt - 1
MaxUint == 2 * MaxInt + 1

Int64  == MinInt .. MaxInt
Uint64 == 0 .. MaxUint

\* Mutant: a sum is kept in a wider word.
Wrap_Wide(x) == x

\* The int64 that a result of arithmetic is kept as.
Wrap(x) == ((x - MinInt) % (MaxUint + 1)) + MinInt

\* The conversion to uint64, and arithmetic on it.
WrapUint(x) == x % (MaxUint + 1)

----------------------------------------------------------------------------
(* Literals.  A literal has a type and an integer; a float is a fraction.  *)

Type == {"int", "uint", "float", "bool", "string", "regex", "duration", "time", "nil",
         "wildcard", "var", "distinct", "panic"}

Leaf == [type : Type, name : Name, v : Int, den : Nat \ {0}]

Lit(type, v) == [type |-> type, name |-> NoName, v |-> v, den |-> 1]

Named(type, name) == [type |-> type, name |-> name, v |-> 0, den |-> 1]

\* The integer n of a text: unsigned when it does not fit an int64.
IntegerValue(n) ==
  IF n <= MaxInt THEN <<Lit("int", n)>>
  ELSE IF n <= MaxUint THEN <<Lit("uint", n)>>
  ELSE <<>>

\* A literal behind a minus sign.
Negated(lit) ==
  CASE lit.type \in {"int", "duration"} -> <<Lit(lit.type, Wrap(-lit.v))>>
    [] lit.type = "float" -> <<[lit EXCEPT !.v = -lit.v]>>
    [] lit.type = "uint" /\ lit.v = MaxInt + 1 -> <<Lit("int", MinInt)>>
    [] OTHER -> <<>>

----------------------------------------------------------------------------
(* Durations.                                                              *)

Part == [n : Nat, unit : Unit]

\* Mutant: the product is not kept in a word.
PartValue_Saturated(p) == IF p.n * Scale[p.unit] > MaxInt THEN MaxInt ELSE p.n * Scale[p.unit]

\* One number and its unit.
PartValue(p) == Wrap(p.n * Scale[p.unit])

Overflowed(d) == d < 0

\* The largest unit that divides d.
UnitIndex(d) ==
  CHOOSE k \in DOMAIN Units :
    /\ d % Scale[Units[k]] = 0
    /\ \A j \in 1 .. k - 1 : d % Scale[Units[j]] # 0

FormatUnit(d) == IF d = 0 THEN "s" ELSE Units[UnitIndex(d)]

\* The number that is printed before the unit, a minus sign with it.
FormatNumber(d) == d \div Scale[FormatUnit(d)]
=============================================================================
