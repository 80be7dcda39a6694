--------------------------- MODULE OperatorProofs ---------------------------
(***************************************************************************)
(* Proofs about the pure operators of the expressions, for every word size *)
(* and every scale of units.  Words and literals: what arithmetic keeps,   *)
(* and that a number that was printed reads back as itself.  Time ranges:  *)
(* the range of a comparison holds the times that satisfy it and no other, *)
(* and the range of a conjunction is the intersection.  Data types: their  *)
(* precedence.                                                             *)
(***************************************************************************)
EXTENDS TimeRange, DataTypes, TLAPS


----------------------------------------------------------------------------
(* Words.                                                                  *)

\* How many values a word has.
Words == MaxUint + 1

\* What the size of a word is made of is typed.
LEMMA WordTypes == /\ MaxInt \in Nat /\ MaxInt > 0
                   /\ Words \in Nat /\ Words = 2 * MaxInt + 2
                   /\ MinInt \in Int /\ MinInt = -MaxInt - 1
                   /\ MaxUint \in Nat
BY WordAssumption DEF Words, MaxUint, MinInt

\* Division with a remainder.
LEMMA DivMod ==
  ASSUME NEW a \in Int, NEW b \in Nat, b > 0
  PROVE  a = b * (a \div b) + (a % b) /\ a % b \in 0 .. b - 1 /\ a \div b \in Int
<1>1. a = b * (a \div b) + (a % b)
  OBVIOUS
<1>2. a % b \in 0 .. b - 1 /\ a \div b \in Int
  OBVIOUS
<1> QED
  BY <1>1, <1>2

\* Two numbers are congruent when they differ by a multiple of Words.
Congruent(x, y) == \E k \in Int : x = y + k * Words

\* Wrap keeps a number up to congruence, and gives a word.
LEMMA WrapWord ==
  ASSUME NEW x \in Int
  PROVE  Wrap(x) \in Int64 /\ Congruent(x, Wrap(x))
<1> DEFINE y == x - MinInt
<1>1. y \in Int /\ Words \in Nat /\ Words > 0
  BY WordTypes
<1>2. y = Words * (y \div Words) + (y % Words) /\ y % Words \in 0 .. Words - 1 /\ y \div Words \in Int
  <2> HIDE DEF y
  <2> QED BY <1>1, DivMod
<1>3. Wrap(x) = (y % Words) + MinInt
  BY DEF Wrap, Words
<1>4. Wrap(x) \in Int64
  BY <1>2, <1>3, WordTypes DEF Int64
<1>5. x = Wrap(x) + (y \div Words) * Words
  BY <1>2, <1>3, WordTypes
<1> QED
  BY <1>2, <1>4, <1>5 DEF Congruent

\* Sums of congruent numbers are congruent.
LEMMA CongruentSum ==
  ASSUME NEW a \in Int, NEW b \in Int, NEW c \in Int, NEW d \in Int,
         Congruent(a, b), Congruent(c, d)
  PROVE  Congruent(a + c, b + d)
<1>1. PICK j \in Int : a = b + j * Words
  BY DEF Congruent
<1>2. PICK k \in Int : c = d + k * Words
  BY DEF Congruent
<1>3. (j + k) * Words = j * Words + k * Words
  BY WordTypes
<1>4. a + c = (b + d) + (j + k) * Words /\ j + k \in Int
  BY <1>1, <1>2, <1>3, WordTypes
<1> QED
  BY <1>4 DEF Congruent

\* Congruence is transitive.
LEMMA CongruentTransitive ==
  ASSUME NEW a \in Int, NEW b \in Int, NEW c \in Int, Congruent(a, b), Congruent(b, c)
  PROVE  Congruent(a, c)
<1>1. PICK j \in Int : a = b + j * Words
  BY DEF Congruent
<1>2. PICK k \in Int : b = c + k * Words
  BY DEF Congruent
<1>3. (j + k) * Words = j * Words + k * Words
  BY WordTypes
<1>4. a = c + (j + k) * Words /\ j + k \in Int
  BY <1>1, <1>2, <1>3, WordTypes
<1> QED
  BY <1>4 DEF Congruent

\* Congruent numbers that are less than Words apart are equal.
LEMMA CongruentNear ==
  ASSUME NEW a \in Int, NEW b \in Int, Congruent(a, b), a - b < Words, b - a < Words
  PROVE  a = b
<1>1. PICK k \in Int : a = b + k * Words
  BY DEF Congruent
<1>2. CASE k >= 1
  <2>1. k * Words >= Words
    BY <1>2, WordTypes
  <2> QED
    BY <1>1, <2>1, WordTypes
<1>3. CASE k <= -1
  <2>1. k * Words <= -Words
    BY <1>3, WordTypes
  <2> QED
    BY <1>1, <2>1, WordTypes
<1>4. CASE k = 0
  BY <1>1, <1>4, WordTypes
<1> QED
  BY <1>2, <1>3, <1>4

\* A word is kept as it is.
LEMMA WrapOfWord ==
  ASSUME NEW x \in Int64
  PROVE  Wrap(x) = x
<1>1. x \in Int /\ Wrap(x) \in Int64 /\ Congruent(x, Wrap(x))
  BY WrapWord, WordTypes DEF Int64
<1> QED
  BY <1>1, CongruentNear, WordTypes DEF Int64

\* The least integer is its own negation.
LEMMA WrapNegated ==
  ASSUME NEW x \in Int64
  PROVE  Wrap(-x) = IF x = MinInt THEN MinInt ELSE -x
<1>1. CASE x = MinInt
  <2>1. Wrap(-x) \in Int64 /\ Congruent(-x, Wrap(-x)) /\ -x \in Int
    BY WrapWord, WordTypes DEF Int64
  <2>2. Congruent(-x, MinInt)
    <3>1. -x = MinInt + 1 * Words
      BY <1>1, WordTypes
    <3> QED
      BY <3>1 DEF Congruent
  <2>3. PICK j \in Int : -x = Wrap(-x) + j * Words
    BY <2>1 DEF Congruent
  <2>4. -x = MinInt + Words
    BY <1>1, WordTypes
  <2>5. Wrap(-x) = MinInt + (1 - j) * Words
    <3>1. (1 - j) * Words = Words - j * Words
      BY WordTypes
    <3> QED
      BY <2>1, <2>3, <2>4, <3>1, WordTypes DEF Int64
  <2>6. Congruent(Wrap(-x), MinInt)
    BY <2>5 DEF Congruent
  <2> QED
    BY <1>1, <2>1, <2>6, CongruentNear, WordTypes DEF Int64
<1>2. CASE x # MinInt
  <2>1. -x \in Int64
    BY <1>2, WordTypes DEF Int64
  <2> QED
    BY <1>2, <2>1, WrapOfWord
<1> QED
  BY <1>1, <1>2

----------------------------------------------------------------------------
(* Integers.                                                               *)

\* Every integer literal reads back: its text is a number, behind a minus
\* sign when it is negative, and the least one, whose number fits no int64,
\* is read as an unsigned literal and turned into itself by the sign
\* (IntegerLiteral.String, the INTEGER and SUB cases of parseUnaryExpr).
THEOREM IntegerReadsBack ==
  ASSUME NEW v \in Int64
  PROVE  /\ v >= 0 => IntegerValue(v) = <<Lit("int", v)>>
         /\ v < 0 => /\ IntegerValue(-v) # <<>>
                     /\ Negated(IntegerValue(-v)[1]) = <<Lit("int", v)>>
<1>1. v \in Int /\ v <= MaxInt /\ -v <= MaxInt + 1
  BY WordTypes DEF Int64
<1>2. v >= 0 => IntegerValue(v) = <<Lit("int", v)>>
  BY <1>1 DEF IntegerValue
<1>3. ASSUME v < 0, -v <= MaxInt
      PROVE  /\ IntegerValue(-v) # <<>>
             /\ Negated(IntegerValue(-v)[1]) = <<Lit("int", v)>>
  <2>1. IntegerValue(-v) = <<Lit("int", -v)>>
    BY <1>3 DEF IntegerValue
  <2>2. Negated(Lit("int", -v)) = <<Lit("int", Wrap(v))>>
    <3>1. -(-v) = v
      BY <1>1
    <3> QED
      BY <3>1 DEF Negated, Lit
  <2>3. Wrap(v) = v
    BY WrapOfWord
  <2> QED
    BY <2>1, <2>2, <2>3
<1>4. ASSUME v < 0, -v > MaxInt
      PROVE  /\ IntegerValue(-v) # <<>>
             /\ Negated(IntegerValue(-v)[1]) = <<Lit("int", v)>>
  <2>1. v = MinInt /\ -v = MaxInt + 1 /\ -v <= MaxUint
    BY <1>1, <1>4, WordTypes DEF MaxUint
  <2>2. IntegerValue(-v) = <<Lit("uint", MaxInt + 1)>>
    BY <1>1, <1>4, <2>1, WordTypes DEF IntegerValue
  <2>3. Negated(Lit("uint", MaxInt + 1)) = <<Lit("int", MinInt)>>
    BY WordTypes DEF Negated, Lit
  <2> QED
    BY <2>1, <2>2, <2>3
<1> QED
  BY <1>1, <1>2, <1>3, <1>4, WordTypes

----------------------------------------------------------------------------
(* Durations.                                                              *)

\* The largest unit that divides a duration is well defined.
LEMMA UnitOfDuration ==
  ASSUME NEW d \in Int
  PROVE  UnitIndex(d) \in DOMAIN Units /\ d % Scale[Units[UnitIndex(d)]] = 0
<1> DEFINE Divides(k) == d % Scale[Units[k]] = 0
           Least(k) == Divides(k) /\ \A j \in 1 .. k - 1 : ~Divides(j)
<1>1. DOMAIN Units = 1 .. 8
  BY DEF Units
<1>2. Divides(8)
  <2>1. Units[8] = "ns"
    BY DEF Units
  <2> QED
    BY <2>1, ScaleAssumption
<1> HIDE DEF Divides
<1>3. \E k \in 1 .. 8 : Least(k)
  <2>1. CASE Divides(1)
    BY <2>1
  <2>2. CASE ~Divides(1) /\ Divides(2)
    BY <2>2
  <2>3. CASE ~Divides(1) /\ ~Divides(2) /\ Divides(3)
    BY <2>3
  <2>4. CASE ~Divides(1) /\ ~Divides(2) /\ ~Divides(3) /\ Divides(4)
    BY <2>4
  <2>5. CASE ~Divides(1) /\ ~Divides(2) /\ ~Divides(3) /\ ~Divides(4) /\ Divides(5)
    BY <2>5
  <2>6. CASE ~Divides(1) /\ ~Divides(2) /\ ~Divides(3) /\ ~Divides(4) /\ ~Divides(5)
             /\ Divides(6)
    BY <2>6
  <2>7. CASE ~Divides(1) /\ ~Divides(2) /\ ~Divides(3) /\ ~Divides(4) /\ ~Divides(5)
             /\ ~Divides(6) /\ Divides(7)
    BY <2>7
  <2>8. CASE ~Divides(1) /\ ~Divides(2) /\ ~Divides(3) /\ ~Divides(4) /\ ~Divides(5)
             /\ ~Divides(6) /\ ~Divides(7)
    BY <1>2, <2>8
  <2> QED
    BY <2>1, <2>2, <2>3, <2>4, <2>5, <2>6, <2>7, <2>8
<1>4. UnitIndex(d) = CHOOSE k \in 1 .. 8 : Least(k)
  BY <1>1 DEF UnitIndex, Divides
<1>5. UnitIndex(d) \in 1 .. 8 /\ Least(UnitIndex(d))
  BY <1>3, <1>4
<1> QED
  BY <1>1, <1>5 DEF Divides

\* Every duration but the least reads back: FormatDuration prints its
\* magnitude as one number and a unit, that number fits a word, the product
\* is the magnitude again without overflow, and the sign restores the
\* duration (FormatDuration, ParseDuration, the SUB case of parseUnaryExpr).
THEOREM DurationReadsBack ==
  ASSUME NEW d \in 0 .. MaxInt
  PROVE  LET part == [n |-> FormatNumber(d), unit |-> FormatUnit(d)]
         IN /\ part \in Part /\ part.n <= MaxInt
            /\ PartValue(part) = d /\ ~Overflowed(PartValue(part))
            /\ Negated(Lit("duration", d)) = <<Lit("duration", -d)>>
<1> DEFINE u == FormatUnit(d)
           n == FormatNumber(d)
           s == Scale[u]
<1>1. d \in Int64 /\ d \in Nat /\ d <= MaxInt
  BY WordTypes DEF Int64
<1>2. u \in Unit /\ d % Scale[u] = 0
  <2>1. CASE d = 0
    <3>1. u = "s" /\ Units[5] = "s" /\ 5 \in DOMAIN Units
      BY <2>1 DEF FormatUnit, Units
    <3>2. u \in Unit
      BY <3>1 DEF Unit
    <3>3. Scale[u] \in Nat \ {0}
      BY <3>2, ScaleAssumption
    <3> QED
      BY <2>1, <3>2, <3>3
  <2>2. CASE d # 0
    BY <1>1, <2>2, UnitOfDuration DEF FormatUnit, Unit
  <2> QED
    BY <2>1, <2>2
<1>3. s \in Nat /\ s > 0 /\ d % s = 0
  BY <1>2, ScaleAssumption
<1>4. n = d \div s
  BY DEF FormatNumber
<1> HIDE DEF u, n, s
<1>5. d = s * n /\ n \in Int
  <2>1. d = s * (d \div s) + (d % s) /\ d \div s \in Int
    BY <1>1, <1>3, DivMod
  <2> QED
    BY <1>2, <1>3, <1>4, <2>1
<1>6. n >= 0 /\ n <= d
  <2>1. ~(n <= -1)
    <3>1. ASSUME n <= -1 PROVE s * n <= -s
      BY <1>3, <1>5, <3>1
    <3> QED
      BY <1>1, <1>3, <1>5, <3>1
  <2>2. ASSUME n >= 0 PROVE s * n >= n
    BY <1>3, <1>5, <2>2
  <2> QED
    BY <1>1, <1>5, <2>1, <2>2
<1>7. n * s = d
  BY <1>3, <1>5
<1>8. PartValue([n |-> n, unit |-> u]) = d
  BY <1>1, <1>7, WrapOfWord DEF PartValue, s
<1>9. Negated(Lit("duration", d)) = <<Lit("duration", -d)>>
  <2>1. Wrap(-d) = -d
    BY <1>1, WrapNegated, WordTypes
  <2>2. Negated(Lit("duration", d)) = <<Lit("duration", Wrap(-d))>>
    BY DEF Negated, Lit
  <2> QED
    BY <2>1, <2>2
<1>10. [n |-> n, unit |-> u] \in Part /\ n <= MaxInt
  <2>1. n \in Nat /\ n <= MaxInt
    BY <1>1, <1>5, <1>6, WordTypes
  <2> QED
    BY <1>2, <2>1 DEF Part
<1>11. ~Overflowed(d)
  BY <1>1 DEF Overflowed
<1> QED
  BY <1>8, <1>9, <1>10, <1>11 DEF u, n


----------------------------------------------------------------------------
(* Time ranges.                                                            *)

\* A comparison with an instant that a time literal may have, or with any
\* int64 when it is not strict, is satisfied by exactly the times of its
\* range (getTimeRange): adding or taking off a nanosecond never leaves the
\* word.
THEOREM BoundsAreExact ==
  ASSUME NEW op \in TimeOp, NEW v \in Int64, NEW t \in MinTime .. MaxTime,
         op \in {"GT", "LT"} => v \in LiteralTime
  PROVE  Within(Compared(op, v), t) <=> InRelation(op, t, v)
<1> DEFINE r == Compared(op, v)
<1>1. /\ MinTime \in Int /\ MaxTime \in Int /\ v \in Int /\ t \in Int
      /\ MinTime <= t /\ t <= MaxTime
  BY WordAssumption DEF Int64, MinTime, MaxTime, MinInt
<1>2. CASE op = "GT"
  <2>1. v + 1 \in Int64
    BY <1>2, WordAssumption DEF LiteralTime, MinTime, MaxTime, MinInt, Int64
  <2>2. r.min = <<v + 1>> /\ r.max = <<>>
    BY <1>2 DEF Compared, Everywhere
  <2>3. MinTimeNano(r) = v + 1 /\ MaxTimeNano(r) = MaxTime
    BY <2>1, <2>2, WrapOfWord DEF MinTimeNano, MaxTimeNano
  <2>4. InRelation(op, t, v) <=> t > v
    BY <1>2 DEF InRelation
  <2> QED
    BY <1>1, <2>3, <2>4 DEF Within
<1>3. CASE op = "LT"
  <2>1. v - 1 \in Int64
    BY <1>3, WordAssumption DEF LiteralTime, MinTime, MaxTime, MinInt, Int64
  <2>2. r.min = <<>> /\ r.max = <<v - 1>>
    BY <1>3 DEF Compared, Everywhere
  <2>3. MinTimeNano(r) = MinTime /\ MaxTimeNano(r) = v - 1
    BY <2>1, <2>2, WrapOfWord DEF MinTimeNano, MaxTimeNano
  <2>4. InRelation(op, t, v) <=> t < v
    BY <1>3 DEF InRelation
  <2> QED
    BY <1>1, <2>3, <2>4 DEF Within
<1>4. CASE op = "GTE"
  <2>1. r.min = <<v>> /\ r.max = <<>>
    BY <1>4 DEF Compared, Everywhere
  <2>2. MinTimeNano(r) = v /\ MaxTimeNano(r) = MaxTime
    BY <2>1, WrapOfWord DEF MinTimeNano, MaxTimeNano
  <2>3. InRelation(op, t, v) <=> t >= v
    BY <1>4 DEF InRelation
  <2> QED
    BY <1>1, <2>2, <2>3 DEF Within
<1>5. CASE op = "LTE"
  <2>1. r.min = <<>> /\ r.max = <<v>>
    BY <1>5 DEF Compared, Everywhere
  <2>2. MinTimeNano(r) = MinTime /\ MaxTimeNano(r) = v
    BY <2>1, WrapOfWord DEF MinTimeNano, MaxTimeNano
  <2>3. InRelation(op, t, v) <=> t <= v
    BY <1>5 DEF InRelation
  <2> QED
    BY <1>1, <2>2, <2>3 DEF Within
<1>6. CASE op = "EQ"
  <2>1. r.min = <<v>> /\ r.max = <<v>>
    BY <1>6 DEF Compared
  <2>2. MinTimeNano(r) = v /\ MaxTimeNano(r) = v
    BY <2>1, WrapOfWord DEF MinTimeNano, MaxTimeNano
  <2>3. InRelation(op, t, v) <=> t = v
    BY <1>6 DEF InRelation
  <2> QED
    BY <1>1, <2>2, <2>3 DEF Within
<1> QED
  BY <1>2, <1>3, <1>4, <1>5, <1>6 DEF TimeOp

WordRange ==
  {r \in Ranges : (r.min # <<>> => r.min[1] \in Int64) /\ (r.max # <<>> => r.max[1] \in Int64)}

\* The bounds of a range in the word are read without wrapping.
LEMMA Unwrapped ==
  ASSUME NEW r \in WordRange
  PROVE  /\ MinTimeNano(r) = IF r.min = <<>> THEN MinTime ELSE r.min[1]
         /\ MaxTimeNano(r) = IF r.max = <<>> THEN MaxTime ELSE r.max[1]
<1>1. (r.min # <<>> => r.min[1] \in Int64) /\ (r.max # <<>> => r.max[1] \in Int64)
  BY DEF WordRange
<1>2. (r.min # <<>> => Wrap(r.min[1]) = r.min[1]) /\ (r.max # <<>> => Wrap(r.max[1]) = r.max[1])
  BY <1>1, WrapOfWord
<1> QED
  BY <1>2 DEF MinTimeNano, MaxTimeNano

\* The later of two lower bounds is a bound for the times behind both.
LEMMA LaterIsBoth ==
  ASSUME NEW a \in Bound, NEW b \in Bound, NEW t \in Int, NEW least \in Int, least <= t
  PROVE  (IF Later(a, b) = <<>> THEN least ELSE Later(a, b)[1]) <= t
         <=> /\ (IF a = <<>> THEN least ELSE a[1]) <= t
             /\ (IF b = <<>> THEN least ELSE b[1]) <= t
<1>1. (a = <<>> \/ (a # <<>> /\ a[1] \in Int)) /\ (b = <<>> \/ (b # <<>> /\ b[1] \in Int))
  BY DEF Bound
<1> QED
  BY <1>1 DEF Later

\* The earlier of two upper bounds is one for the times before both.
LEMMA EarlierIsBoth ==
  ASSUME NEW a \in Bound, NEW b \in Bound, NEW t \in Int, NEW most \in Int, t <= most
  PROVE  t <= (IF Earlier(a, b) = <<>> THEN most ELSE Earlier(a, b)[1])
         <=> /\ t <= (IF a = <<>> THEN most ELSE a[1])
             /\ t <= (IF b = <<>> THEN most ELSE b[1])
<1>1. (a = <<>> \/ (a # <<>> /\ a[1] \in Int)) /\ (b = <<>> \/ (b # <<>> /\ b[1] \in Int))
  BY DEF Bound
<1> QED
  BY <1>1 DEF Earlier

\* A time is in the intersection of two ranges whose bounds are int64 when
\* it is in both (TimeRange.Intersect, in which a bound may be unset).
THEOREM IntersectionIsConjunction ==
  ASSUME NEW p \in WordRange, NEW q \in WordRange, NEW t \in MinTime .. MaxTime
  PROVE  Within(Intersect(p, q), t) <=> Within(p, t) /\ Within(q, t)
<1>1. p.min \in Bound /\ q.min \in Bound /\ p.max \in Bound /\ q.max \in Bound
  BY DEF WordRange, Ranges
<1>2. Intersect(p, q) \in WordRange
  <2>1. Later(p.min, q.min) \in {p.min, q.min} /\ Earlier(p.max, q.max) \in {p.max, q.max}
    BY DEF Later, Earlier
  <2>2. \A r \in {p, q} : (r.min # <<>> => r.min[1] \in Int64) /\ (r.max # <<>> => r.max[1] \in Int64)
    BY DEF WordRange
  <2>3. Intersect(p, q) \in Ranges
    BY <1>1, <2>1 DEF Intersect, Ranges
  <2>4. Intersect(p, q).min = Later(p.min, q.min) /\ Intersect(p, q).max = Earlier(p.max, q.max)
    BY DEF Intersect
  <2> QED
    BY <2>1, <2>2, <2>3, <2>4 DEF WordRange
<1>3. MinTime \in Int /\ MaxTime \in Int /\ t \in Int /\ MinTime <= t /\ t <= MaxTime
  BY WordAssumption DEF MinTime, MaxTime, MinInt
<1> DEFINE i == Intersect(p, q)
<1>4. i.min = Later(p.min, q.min) /\ i.max = Earlier(p.max, q.max)
  BY DEF Intersect
<1>5. MinTimeNano(i) <= t <=> MinTimeNano(p) <= t /\ MinTimeNano(q) <= t
  <2>1. MinTimeNano(i) = IF Later(p.min, q.min) = <<>> THEN MinTime ELSE Later(p.min, q.min)[1]
    BY <1>2, <1>4, Unwrapped
  <2>2. /\ MinTimeNano(p) = IF p.min = <<>> THEN MinTime ELSE p.min[1]
        /\ MinTimeNano(q) = IF q.min = <<>> THEN MinTime ELSE q.min[1]
    BY Unwrapped
  <2>3. (IF Later(p.min, q.min) = <<>> THEN MinTime ELSE Later(p.min, q.min)[1]) <= t
        <=> /\ (IF p.min = <<>> THEN MinTime ELSE p.min[1]) <= t
            /\ (IF q.min = <<>> THEN MinTime ELSE q.min[1]) <= t
    BY <1>1, <1>3, LaterIsBoth
  <2> QED
    BY <2>1, <2>2, <2>3
<1>6. t <= MaxTimeNano(i) <=> t <= MaxTimeNano(p) /\ t <= MaxTimeNano(q)
  <2>1. MaxTimeNano(i) = IF Earlier(p.max, q.max) = <<>> THEN MaxTime ELSE Earlier(p.max, q.max)[1]
    BY <1>2, <1>4, Unwrapped
  <2>2. /\ MaxTimeNano(p) = IF p.max = <<>> THEN MaxTime ELSE p.max[1]
        /\ MaxTimeNano(q) = IF q.max = <<>> THEN MaxTime ELSE q.max[1]
    BY Unwrapped
  <2>3. t <= (IF Earlier(p.max, q.max) = <<>> THEN MaxTime ELSE Earlier(p.max, q.max)[1])
        <=> /\ t <= (IF p.max = <<>> THEN MaxTime ELSE p.max[1])
            /\ t <= (IF q.max = <<>> THEN MaxTime ELSE q.max[1])
    BY <1>1, <1>3, EarlierIsBoth
  <2> QED
    BY <2>1, <2>2, <2>3
<1> QED
  BY <1>5, <1>6 DEF Within

----------------------------------------------------------------------------
(* The precedence of data types.                                           *)

\* DataType.LessThan is a strict total order of the known types, with
\* Unknown below all of them.
THEOREM TypesAreOrdered ==
  ASSUME NEW a \in DataType \ {Unknown}, NEW b \in DataType \ {Unknown}, NEW c \in DataType \ {Unknown}
  PROVE  /\ LessThan(Unknown, a) /\ ~LessThan(a, Unknown)
         /\ ~(LessThan(a, b) /\ LessThan(b, a))
         /\ a # b => LessThan(a, b) \/ LessThan(b, a)
         /\ LessThan(a, b) /\ LessThan(b, c) => LessThan(a, c)
BY DEF LessThan, DataType, Unknown, Integer, String, Unsigned

\* The type of a field that several sources have does not depend on the
\* order of the sources (FieldDimensions, evalVarRefExprType).
THEOREM OrderOfSources ==
  ASSUME NEW a \in DataType, NEW b \in DataType, NEW c \in DataType
  PROVE  /\ Higher(a, b) = Higher(b, a)
         /\ Higher(Higher(a, b), c) = Higher(a, Higher(b, c))
BY DEF Higher, LessThan, DataType, Unknown, Integer, String, Unsigned
=============================================================================
