--------------------------- MODULE ScannerProofs ----------------------------
(***************************************************************************)
(* Proofs about what the scanner reads, for every text over every set of   *)
(* runes that keeps the assumptions of module Scanner.                     *)
(*                                                                         *)
(* The reader: its methods are type correct, the scanner never pushes back *)
(* more than the ring can hold, the ring holds the last runes fetched, and *)
(* so the scanner keeps the promise of module Pushback.  Every step of the *)
(* scanner is one read() followed by at most two unread()s; lemma OneRead  *)
(* states it once, and the invariant of the reader, ReaderInv, is then     *)
(* proved of Take(k) alone.                                                *)
(*                                                                         *)
(* The scanner: PlaceInv says where in a token every pc is, and which rune *)
(* has been pushed back there; with it TokensTyped types every token.      *)
(*                                                                         *)
(* The text: TextInv says that the runes fetched are the text up to where  *)
(* the underlying reader stands, and EndInv that its end is not invented.  *)
(***************************************************************************)
EXTENDS Scanner, TLAPS, FiniteSetTheorems, SequenceTheorems


----------------------------------------------------------------------------
(* The reader's methods.                                                   *)

\* The underlying reader delivers a rune of Rune, and moves forward.
LEMMA SourceType ==
  ASSUME NEW r \in Reader
  PROVE  Delivered(r) \in Rune /\ Width(r) \in Nat
BY RuneAssumption DEF Delivered, Pending, Width, Exhausted, Reader

\* fetch() keeps the reader well formed, and puts the rune in the next slot.
LEMMA FetchType ==
  ASSUME NEW r \in Reader
  PROVE  /\ Fetch(r) \in Reader
         /\ Fetch(r).n = r.n
         /\ Fetch(r).i = (r.i + 1) % BufLen
         /\ Fetch(r).buf[(r.i + 1) % BufLen].ch = Delivered(r)
         /\ Fetch(r).buf[(r.i + 1) % BufLen].pos = r.pos
         /\ \A j \in 0 .. BufLen - 1 :
              j # (r.i + 1) % BufLen => Fetch(r).buf[j] = r.buf[j]
<1> DEFINE i == (r.i + 1) % BufLen
           s == [ch |-> Delivered(r), pos |-> r.pos]
<1>1. i \in 0 .. BufLen - 1 /\ s \in Slot
  BY SourceType DEF Slot, BufLen, Reader
<1>2. [r.buf EXCEPT ![i] = s] \in [0 .. BufLen - 1 -> Slot]
  BY <1>1 DEF Reader
<1>3. Advance(r.pos, Delivered(r), r.eof) \in Position
  BY DEF Advance, Position, Reader
<1>4. r.at + Width(r) \in Nat \ {0}
  BY SourceType DEF Reader
<1>5. (r.eof \/ Delivered(r) = NUL) \in BOOLEAN
  OBVIOUS
<1>6. QED
  BY <1>1, <1>2, <1>3, <1>4, <1>5 DEF Fetch, Reader, BufLen

\* read() and unread() keep the reader well formed.
LEMMA ReadType ==
  ASSUME NEW r \in Reader
  PROVE  /\ Read(r) \in Reader
         /\ Read(r).n = IF r.n > 0 THEN r.n - 1 ELSE 0
BY FetchType DEF Read, Reader

\* unread() changes the count of runes pushed back and nothing else.
LEMMA UnreadType ==
  ASSUME NEW r \in Reader, NEW k \in Nat
  PROVE  /\ Unread(r, k) \in Reader
         /\ Unread(r, k).n = r.n + k
         /\ Unread(r, k).i = r.i
         /\ Unread(r, k).buf = r.buf
BY DEF Unread, Reader

\* curr() returns a rune and a position.
LEMMA CurrType ==
  ASSUME NEW r \in Reader
  PROVE  Curr(r) \in Slot
<1>1. (r.i - r.n + BufLen) % BufLen \in 0 .. BufLen - 1
  BY DEF BufLen, Reader
<1>2. QED
  BY <1>1 DEF Curr, Reader

----------------------------------------------------------------------------
(* Every step of the scanner is one read().                                *)

\* Besides the bound, the full stop that starts a token is known to be behind
\* the reader: after it two runes are pushed back, by scanNumber.
ReaderInv ==
  /\ rd \in Reader
  /\ seen \in Seq(Rune)
  /\ ch \in Rune
  /\ UnreadBound
  /\ RingHoldsTheLastRunes
  /\ pc = "dot" => rd.n <= 1 /\ rd.n < Len(seen)

\* A token has been returned: the scanner is not behind a full stop.
LEMMA AfterReturn ==
  ASSUME NEW t, NEW p, NEW l, Return(t, p, l)
  PROVE  pc' \in {"idle", "done"}
BY DEF Return

\* A step is one read() and at most two unread()s, two only after a full stop.
LEMMA OneRead ==
  ASSUME Next
  PROVE  \/ UNCHANGED vars
         \/ \E k \in 0 .. 2 :
              Take(k) /\ (k = 2 => pc = "dot") /\ (pc' = "dot" => k = 0)
<1> USE AfterReturn DEF Goto, Collect
<1>1. CASE Scan
  <2>1. CASE ScanWhitespace
    <3>1. Take(0)
      BY <2>1 DEF ScanWhitespace
    <3>2. QED
      BY <3>1
  <2>2. CASE ScanIdent
    <3>1. Take(1) /\ pc' = "identPos"
      BY <2>2 DEF ScanIdent
    <3>2. QED
      BY <3>1
  <2>3. CASE ScanParam
    <3>1. Take(0)
      BY <2>3 DEF ScanParam
    <3>2. QED
      BY <3>1
  <2>4. CASE ScanQuoted
    <3>1. Take(1) /\ pc' = "quote"
      BY <2>4 DEF ScanQuoted
    <3>2. QED
      BY <3>1
  <2>5. CASE ScanNumber
    <3>1. Take(1) /\ pc' = "digits"
      BY <2>5 DEF ScanNumber
    <3>2. QED
      BY <3>1
  <2>6. CASE ScanOperator
    <3>1. Take(0)
      BY <2>6 DEF ScanOperator
    <3>2. QED
      BY <3>1
  <2>7. CASE ScanSingle
    <3>1. Take(0)
      BY <2>7 DEF ScanSingle
    <3>2. QED
      BY <3>1
  <2>8. CASE ScanEOF
    <3>1. Take(0)
      BY <2>8 DEF ScanEOF
    <3>2. QED
      BY <3>1
  <2>9. CASE ScanIllegal
    <3>1. Take(0)
      BY <2>9 DEF ScanIllegal
    <3>2. QED
      BY <3>1
  <2>10. QED
    BY <1>1, <2>1, <2>2, <2>3, <2>4, <2>5, <2>6, <2>7, <2>8, <2>9 DEF Scan
<1>2. CASE Continue
  <2>1. CASE Dot
    <3>1. pc = "dot" /\ pc' # "dot" /\ \E k \in 1 .. 2 : Take(k)
      BY <2>1 DEF Dot
    <3>2. QED
      BY <3>1
  <2>2. CASE Second
    <3>1. pc' # "dot" /\ \E k \in 0 .. 1 : Take(k)
      BY <2>2 DEF Second
    <3>2. QED
      BY <3>1
  <2>3. CASE SkipUntilNewline \/ SkipUntilEndComment \/ Star
    <3>1. Take(0) /\ pc' # "dot"
      BY <2>3 DEF SkipUntilNewline, SkipUntilEndComment, Star
    <3>2. QED
      BY <3>1
  <2>4. CASE Whitespace \/ IdentPos \/ Ident \/ Bare \/ Quote
    <3>1. pc' # "dot" /\ \E k \in 0 .. 1 : Take(k)
      <4>1. CASE Whitespace
        BY <4>1 DEF Whitespace
      <4>2. CASE IdentPos
        BY <4>2 DEF IdentPos
      <4>3. CASE Ident
        <5>1. CASE IsIdentChar(Next1.ch) \/ Next1.ch = "\""
          <6>1. pc' # "dot" /\ (Take(0) \/ Take(1))
            BY <4>3, <5>1 DEF Ident
          <6>2. QED
            BY <6>1
        <5>2. CASE ~ IsIdentChar(Next1.ch) /\ Next1.ch # "\""
          <6>1. Take(IF Next1.ch = NUL THEN 0 ELSE 1) /\ EndIdent
            BY <4>3, <5>2 DEF Ident
          <6>2. pc' # "dot"
            BY <6>1 DEF EndIdent
          <6>3. Take(0) \/ Take(1)
            BY <6>1
          <6>4. QED
            BY <6>2, <6>3
        <5>3. QED
          BY <5>1, <5>2
      <4>4. CASE Bare
        BY <4>4 DEF Bare
      <4>5. CASE Quote
        BY <4>5 DEF Quote
      <4>6. QED
        BY <2>4, <4>1, <4>2, <4>3, <4>4, <4>5
    <3>2. QED
      BY <3>1
  <2>5. CASE String \/ Escape
    <3>1. Take(0) /\ pc' # "dot"
      BY <2>5 DEF String, Escape, EndString
    <3>2. QED
      BY <3>1
  <2>6. CASE Digits \/ Point \/ Tenths \/ Unit \/ Units \/ Mixed
    <3>1. pc' # "dot" /\ \E k \in 0 .. 1 : Take(k)
      BY <2>6 DEF Digits, Point, Tenths, Unit, Units, Mixed
    <3>2. QED
      BY <3>1
  <2>7. CASE Regex \/ RegexEscape
    <3>1. pc' # "dot" /\ \E k \in 0 .. 1 : Take(k)
      BY <2>7 DEF Regex, RegexEscape
    <3>2. QED
      BY <3>1
  <2>8. QED
    BY <1>2, <2>1, <2>2, <2>3, <2>4, <2>5, <2>6, <2>7 DEF Continue
<1>3. CASE Peek
  BY <1>3 DEF Peek
<1>4. CASE ScanRegex
  BY <1>4 DEF ScanRegex
<1>5. CASE Finished
  BY <1>5 DEF Finished
<1>6. QED
  BY <1>1, <1>2, <1>3, <1>4, <1>5 DEF Next

\* One read() and k unread()s keep the bound and the ring.
LEMMA TakeKeepsReaderInv ==
  ASSUME ReaderInv, NEW k \in 0 .. 2, Take(k),
         k = 2 => pc = "dot", pc' = "dot" => k = 0
  PROVE  ReaderInv'
<1> DEFINE r == Read(rd)
<1>1. /\ rd \in Reader /\ rd.n \in 0 .. 2 /\ rd.n <= Len(seen)
      /\ rd.i \in 0 .. 2 /\ seen \in Seq(Rune) /\ Len(seen) \in Nat
  BY DEF ReaderInv, UnreadBound, Reader, BufLen
<1>2. /\ r \in Reader /\ r.n = IF rd.n > 0 THEN rd.n - 1 ELSE 0
  BY <1>1, ReadType
<1>3. /\ rd' \in Reader /\ rd'.n = r.n + k /\ rd'.i = r.i /\ rd'.buf = r.buf
  <2>1. k \in Nat /\ rd' = Unread(r, k)
    BY DEF Take
  <2>2. QED
    BY <2>1, <1>2, UnreadType
<1>4. Curr(r) \in Slot
  BY <1>2, CurrType
<1>5. ch' \in Rune /\ seen' \in Seq(Rune)
  BY <1>1, <1>4 DEF Take, Next1, Slot
<1>6. Len(seen') = IF rd.n > 0 THEN Len(seen) ELSE Len(seen) + 1
  BY <1>1, <1>4 DEF Take, Next1, Slot
<1>7. UnreadBound' /\ (pc' = "dot" => rd'.n <= 1 /\ rd'.n < Len(seen'))
  BY <1>1, <1>2, <1>3, <1>6 DEF UnreadBound, ReaderInv, BufLen
<1>8. RingHoldsTheLastRunes'
  <2>1. CASE rd.n > 0
    <3>1. rd'.buf = rd.buf /\ rd'.i = rd.i /\ seen' = seen
      BY <2>1, <1>1, <1>3 DEF Read, Reader, Take
    <3>2. QED
      BY <3>1 DEF ReaderInv, RingHoldsTheLastRunes
  <2>2. CASE rd.n = 0
    <3>1. r = Fetch(rd)
      BY <2>2 DEF Read
    <3>2. /\ r.n = 0 /\ r.i = (rd.i + 1) % 3
          /\ r.buf[(rd.i + 1) % 3].ch = Delivered(rd)
          /\ \A j \in 0 .. 2 : j # (rd.i + 1) % 3 => r.buf[j] = rd.buf[j]
      BY <3>1, <2>2, <1>1, FetchType DEF BufLen
    <3>3. Curr(r).ch = Delivered(rd)
      BY <3>2, <1>1 DEF Curr, BufLen
    <3>4. seen' = Append(seen, Delivered(rd))
      BY <2>2, <3>3 DEF Take, Next1
    <3>5. ASSUME NEW m \in 0 .. 2, m < Len(seen')
          PROVE  rd'.buf[(rd'.i - m + 3) % 3].ch = seen'[Len(seen') - m]
      <4>1. CASE m = 0
        BY <4>1, <3>2, <3>4, <1>1, <1>3 
      <4>2. CASE m > 0
        <5>1. (rd'.i - m + 3) % 3 = (rd.i - (m - 1) + 3) % 3
          BY <4>2, <1>1, <1>3, <3>2
        <5>2. /\ (rd.i - (m - 1) + 3) % 3 # (rd.i + 1) % 3
              /\ (rd.i - (m - 1) + 3) % 3 \in 0 .. 2
          BY <4>2, <1>1
        <5>3. rd'.buf[(rd'.i - m + 3) % 3] = rd.buf[(rd.i - (m - 1) + 3) % 3]
          BY <5>1, <5>2, <3>2, <1>3
        <5>4. /\ m - 1 \in 0 .. 2 /\ m - 1 < Len(seen)
              /\ Len(seen') - m = Len(seen) - (m - 1)
          BY <4>2, <3>5, <1>1, <1>6, <2>2
        <5>5. rd.buf[(rd.i - (m - 1) + 3) % 3].ch = seen[Len(seen) - (m - 1)]
          BY <5>4 DEF ReaderInv, RingHoldsTheLastRunes, BufLen
        <5>6. seen'[Len(seen) - (m - 1)] = seen[Len(seen) - (m - 1)]
          BY <5>4, <3>4, <1>1, <4>2
        <5>7. QED
          BY <5>3, <5>4, <5>5, <5>6
      <4>3. QED
        BY <4>1, <4>2
    <3>6. QED
      BY <3>5 DEF RingHoldsTheLastRunes, BufLen
  <2>3. QED
    BY <2>1, <2>2, <1>1
<1>9. QED
  BY <1>3, <1>5, <1>7, <1>8 DEF ReaderInv

----------------------------------------------------------------------------
(* The invariant of the reader under the scanner.                          *)

\* A new reader is well formed, and nothing has been fetched.
LEMMA InitReaderInv ==
  ASSUME Init
  PROVE  ReaderInv
<1>1. PICK input \in Input : rd = NewReader(input)
  BY DEF Init
<1>2. input \in Seq(Rune) /\ NUL \in Rune /\ PosZero \in Position
  BY RuneAssumption, TextAssumption DEF PosZero, Position
<1>3. rd \in Reader /\ rd.n = 0
  BY <1>1, <1>2 DEF NewReader, Reader, Slot, BufLen
<1>4. seen = <<>> /\ ch \in Rune /\ pc = "idle"
  BY <1>2 DEF Init
<1>5. QED
  BY <1>3, <1>4 DEF ReaderInv, UnreadBound, RingHoldsTheLastRunes, BufLen

\* Every step keeps the invariant of the reader.
LEMMA NextReaderInv ==
  ASSUME ReaderInv, [Next]_vars
  PROVE  ReaderInv'
<1>1. CASE UNCHANGED vars
  BY <1>1 DEF vars, ReaderInv, UnreadBound, RingHoldsTheLastRunes
<1>2. CASE \E k \in 0 .. 2 :
             Take(k) /\ (k = 2 => pc = "dot") /\ (pc' = "dot" => k = 0)
  BY <1>2, TakeKeepsReaderInv
<1>3. QED
  BY <1>1, <1>2, OneRead

\* The invariant of the reader holds in every behaviour of the scanner.
THEOREM ReaderInvariant == Spec => []ReaderInv
<1>1. Init => ReaderInv
  BY InitReaderInv
<1>2. ReaderInv /\ [Next]_vars => ReaderInv'
  BY NextReaderInv
<1>3. QED
  BY <1>1, <1>2, PTL DEF Spec

\* Whatever the text, the scanner pushes back two runes at most: the ring of
\* three slots is large enough for every path through scanner.go.
THEOREM UnreadBounded == Spec => []UnreadBound
<1>1. ReaderInv => UnreadBound
  BY DEF ReaderInv
<1>2. QED
  BY <1>1, ReaderInvariant, PTL

\* Whatever the text, the ring holds the last three runes that were fetched.
THEOREM RingFaithful == Spec => []RingHoldsTheLastRunes
<1>1. ReaderInv => RingHoldsTheLastRunes
  BY DEF ReaderInv
<1>2. QED
  BY <1>1, ReaderInvariant, PTL

----------------------------------------------------------------------------
(* The scanner keeps the promise of Pushback.                              *)

\* What one read() gets, and where it leaves the reader: the rune after those
\* consumed, which is a new one only when no rune had been pushed back.
LEMMA TakeReads ==
  ASSUME ReaderInv, NEW k \in 0 .. 2, Take(k)
  PROVE  /\ Next1.ch \in Rune /\ ch' = Next1.ch
         /\ Consumed \in Nat /\ Consumed <= Len(seen) /\ Consumed < Len(seen')
         /\ Consumed' = Consumed + 1 - k
         /\ seen' \in Seq(Rune) /\ Len(seen') \in Nat /\ Len(seen) <= Len(seen')
         /\ \A j \in 1 .. Len(seen) : seen'[j] = seen[j]
         /\ seen'[Consumed + 1] = Next1.ch
         /\ rd.n > 0 => seen' = seen /\ Consumed < Len(seen)
         /\ rd.n = 0 => seen' = Append(seen, Next1.ch) /\ Consumed = Len(seen)
<1> DEFINE r == Read(rd)
           c == Next1.ch
<1>1. /\ rd \in Reader /\ rd.n \in 0 .. 2 /\ rd.n <= Len(seen)
      /\ rd.i \in 0 .. 2 /\ seen \in Seq(Rune) /\ Len(seen) \in Nat
  BY DEF ReaderInv, UnreadBound, Reader, BufLen
<1>2. /\ r \in Reader /\ r.n = IF rd.n > 0 THEN rd.n - 1 ELSE 0
  BY <1>1, ReadType
<1>3. c \in Rune /\ ch' = c
  BY <1>2, CurrType DEF Next1, Slot, Take
<1>4. rd'.n = r.n + k
  <2>1. k \in Nat /\ rd' = Unread(r, k)
    BY DEF Take
  <2>2. QED
    BY <2>1, <1>2, UnreadType
<1>5. CASE rd.n > 0
  <2>1. seen' = seen
    BY <1>5 DEF Take
  <2>2. c = seen[Consumed + 1]
    <3>1. c = rd.buf[(rd.i - (rd.n - 1) + 3) % 3].ch
      BY <1>5, <1>1 DEF Read, Curr, Next1, BufLen, Reader
    <3>2. rd.n - 1 \in 0 .. 2 /\ rd.n - 1 < Len(seen)
      BY <1>5, <1>1
    <3>3. c = seen[Len(seen) - (rd.n - 1)]
      <4>1. \A m \in 0 .. 2 : m < Len(seen) =>
              rd.buf[(rd.i - m + 3) % 3].ch = seen[Len(seen) - m]
        BY DEF ReaderInv, RingHoldsTheLastRunes, BufLen
      <4>2. QED
        BY <3>1, <3>2, <4>1
    <3>4. QED
      BY <3>3, <1>1 DEF Consumed
  <2>3. /\ Consumed \in Nat /\ Consumed < Len(seen) /\ Consumed' = Consumed + 1 - k
    BY <2>1, <1>1, <1>2, <1>4, <1>5 DEF Consumed
  <2>4. QED
    BY <2>1, <2>2, <2>3, <1>1, <1>3, <1>5
<1>6. CASE rd.n = 0
  <2>1. seen' = Append(seen, c)
    BY <1>6 DEF Take
  <2>2. /\ Len(seen') = Len(seen) + 1 /\ seen' \in Seq(Rune)
        /\ seen'[Len(seen) + 1] = c
        /\ \A j \in 1 .. Len(seen) : seen'[j] = seen[j]
    BY <2>1, <1>1, <1>3
  <2>3. Consumed = Len(seen) /\ Consumed' = Consumed + 1 - k
    BY <2>2, <1>1, <1>2, <1>4, <1>6 DEF Consumed
  <2>4. QED
    BY <2>1, <2>2, <2>3, <1>1, <1>3, <1>6
<1>7. QED
  BY <1>1, <1>5, <1>6

\* One read() and its unread()s are one step of the abstract buffer.
LEMMA TakeConsumes ==
  ASSUME ReaderInv, ReaderInv', NEW k \in 0 .. 2, Take(k)
  PROVE  Promise!PNext
<1>1. /\ Next1.ch \in Rune /\ ch' = Next1.ch
      /\ Consumed \in Nat /\ Consumed' = Consumed + 1 - k
      /\ seen \in Seq(Rune) /\ seen'[Consumed + 1] = Next1.ch
      /\ rd.n > 0 => seen' = seen /\ Consumed < Len(seen)
      /\ rd.n = 0 => seen' = Append(seen, Next1.ch) /\ Consumed = Len(seen)
  BY TakeReads DEF ReaderInv
<1>2. k <= Consumed + 1 /\ Len(seen') - Consumed' <= BufLen - 1 /\ rd.n \in Nat
  <2>1. /\ rd'.n \in 0 .. 2 /\ rd'.n <= Len(seen') /\ Len(seen') \in Nat
        /\ rd.n \in Nat
    BY DEF ReaderInv, UnreadBound, Reader, BufLen
  <2>2. Consumed' = Len(seen') - rd'.n
    BY DEF Consumed
  <2>3. Len(seen') - Consumed' <= 2 /\ Consumed' >= 0
    BY <2>1, <2>2
  <2>4. QED
    BY <2>1, <2>3, <1>1 DEF BufLen
<1>3. Promise!Consume(k)
  BY <1>1, <1>2 DEF Promise!Consume
<1>4. CASE rd.n > 0
  <2>1. Promise!Again(k)
    BY <1>1, <1>3, <1>4 DEF Promise!Again
  <2>2. QED
    BY <2>1 DEF Promise!PNext, BufLen
<1>5. CASE rd.n = 0
  <2>1. Promise!Fresh(k)
    BY <1>1, <1>3, <1>5 DEF Promise!Fresh
  <2>2. QED
    BY <2>1 DEF Promise!PNext, BufLen
<1>6. QED
  BY <1>2, <1>4, <1>5

\* The scanner implements the read-back buffer: for every text, the runes its
\* calls of read() get are those of the text, in order, each rune that was
\* pushed back exactly once more.
THEOREM ScannerReadsInOrder == Spec => ReadsInOrder
<1>1. Init => Promise!PInit
  <2>1. ASSUME Init PROVE seen = <<>> /\ Consumed = 0
    BY <2>1 DEF Init, NewReader, Consumed
  <2>2. QED
    BY <2>1 DEF Promise!PInit
<1>2. ReaderInv /\ ReaderInv' /\ [Next]_vars => [Promise!PNext]_(Promise!pvars)
  <2> SUFFICES ASSUME ReaderInv, ReaderInv', [Next]_vars
               PROVE  [Promise!PNext]_(Promise!pvars)
    OBVIOUS
  <2>1. CASE UNCHANGED vars
    BY <2>1 DEF vars, Promise!pvars, Consumed
  <2>2. CASE \E k \in 0 .. 2 : Take(k)
    BY <2>2, TakeConsumes
  <2>3. QED
    BY <2>1, <2>2, OneRead
<1>3. QED
  BY <1>1, <1>2, ReaderInvariant, PTL DEF Spec, ReadsInOrder, Promise!PSpec

----------------------------------------------------------------------------
(* The runes the code names.                                               *)

\* They are runes, and rune(0) is none of them.
LEMMA NamedRunes ==
  /\ "." \in Rune /\ "$" \in Rune /\ "!" \in Rune /\ "\\" \in Rune
  /\ LF \in Rune /\ NUL \in Rune /\ Input \subseteq Seq(Rune)
BY RuneAssumption, TextAssumption, Zenon

\* No rune that is part of a token is rune(0).
LEMMA NotTheEnd ==
  /\ NUL \notin Letter /\ NUL \notin Digit /\ NUL \notin Blank
  /\ NUL # Micro /\ NUL # LF /\ NUL # "_" /\ NUL # "." /\ NUL # "$"
  /\ NUL # "'" /\ NUL # "\""
BY TextAssumption, Zenon

----------------------------------------------------------------------------
(* Where the scanner is in a token.                                        *)

\* The next rune has been pushed back, and is one of S.
Pushed(S) == Consumed < Len(seen) /\ seen[Consumed + 1] \in S

\* A rune of the token that is being read is c.
HasRead(c) == \E j \in from + 1 .. Consumed : seen[j] = c

Inside == {"dot", "second", "line", "block", "star", "ws", "string", "escape",
           "fraction", "tenths", "unit", "units", "mixed", "regex", "regexEscape"}

IdentPlace ==
  pc \in {"identPos", "ident", "bare"} =>
    /\ caller \in {"ident", "param"}
    /\ Consumed = from =>
         Pushed(IF pc = "bare" THEN Letter \cup Digit \cup {"_"}
                               ELSE Letter \cup {"_", "\""})
    /\ pc = "identPos" /\ caller = "ident" => Consumed = from

NumberPlace ==
  /\ pc = "dot" => Consumed = from + 1 /\ seen[Consumed] = "."
  /\ pc = "digits" /\ Consumed = from => Pushed(Digit \cup {"."})
  /\ pc = "point" => Pushed(Rune \ Digit)
  /\ pc = "point" /\ Consumed = from => Pushed({"."})
  /\ pc = "unit" => Pushed(Rune \ (Digit \cup {"."}))

StringPlace ==
  /\ pc = "quote" /\ caller = "scan" => Consumed = from /\ Pushed({"'"})
  /\ pc = "quote" /\ caller # "scan" => Pushed({"\""})
  /\ pc \in {"string", "escape"} /\ caller = "scan" =>
       seen[from + 1] = "'" /\ first = "'"
  /\ pc \in {"string", "escape"} /\ caller # "scan" => HasRead("\"")

PlaceInv ==
  /\ from \in Nat
  /\ pc \notin {"idle", "done"} => from <= Consumed
  /\ pc \in Inside => from < Consumed
  /\ pc = "second" => first \in TwoRune
  /\ caller \in {"scan", "ident", "param"}
  /\ IdentPlace /\ NumberPlace /\ StringPlace

\* What every step knows of the runes it reads.
LEMMA StepReads ==
  ASSUME ReaderInv, [Next]_vars
  PROVE  /\ Consumed \in Nat /\ Consumed' \in Nat /\ Len(seen) \in Nat /\ Len(seen') \in Nat
         /\ seen \in Seq(Rune) /\ seen' \in Seq(Rune)
         /\ Consumed <= Len(seen) /\ Len(seen) <= Len(seen')
         /\ \A j \in 1 .. Len(seen) : seen'[j] = seen[j]
         /\ Take(0) \/ Take(1) \/ Take(2) =>
              /\ Next1.ch \in Rune /\ Consumed < Len(seen')
              /\ seen'[Consumed + 1] = Next1.ch
         /\ Take(0) => Consumed' = Consumed + 1
         /\ Take(1) => Consumed' = Consumed
         /\ Take(2) => Consumed' = Consumed - 1
<1>1. /\ Consumed \in Nat /\ Len(seen) \in Nat /\ seen \in Seq(Rune)
      /\ Consumed <= Len(seen) /\ Consumed' \in Nat
  <2>1. ReaderInv'
    BY NextReaderInv
  <2>2. QED
    BY <2>1 DEF ReaderInv, UnreadBound, Reader, Consumed
<1>2. CASE UNCHANGED vars
  <2>1. seen' = seen
    BY <1>2 DEF vars
  <2>2. QED
    BY <1>1, <2>1, TakeReads
<1>3. CASE \E k \in 0 .. 2 : Take(k)
  BY <1>1, <1>3, TakeReads
<1>4. QED
  BY <1>2, <1>3, OneRead

\* The place after the first rune of a token.
LEMMA ScanPlace ==
  ASSUME ReaderInv, PlaceInv, Scan
  PROVE  PlaceInv'
<1>1. [Next]_vars
  BY DEF Next
<1>2. PICK C \in Nat, D \in Nat : C = Consumed /\ D = Consumed'
  BY <1>1, StepReads
<1>3. PICK c : c = Next1.ch
  OBVIOUS
<1>4. /\ Len(seen) \in Nat /\ Len(seen') \in Nat
      /\ C <= Len(seen) /\ Len(seen) <= Len(seen')
      /\ Take(0) \/ Take(1) => c \in Rune /\ C < Len(seen') /\ seen'[C + 1] = c
      /\ Take(0) => D = C + 1
      /\ Take(1) => D = C
  BY <1>1, <1>2, <1>3, StepReads
<1>5. ASSUME NEW p, StartAt(p) PROVE from' = C
  BY <1>2, <1>5 DEF StartAt
<1>6. ASSUME NEW p, Goto(p) PROVE pc' = p
  BY <1>6 DEF Goto
<1>7. caller \in {"scan", "ident", "param"}
  BY DEF PlaceInv
<1>8. CASE ScanWhitespace
  <2>1. pc' = "ws" /\ from' = C /\ Take(0) /\ caller' = caller
    BY <1>8, <1>5, <1>6 DEF ScanWhitespace
  <2>2. D = C + 1
    BY <2>1, <1>4
  <2>3. IdentPlace' /\ NumberPlace' /\ StringPlace'
    BY <2>1 DEF IdentPlace, NumberPlace, StringPlace
  <2>4. QED
    BY <2>1, <2>2, <2>3, <1>2, <1>7 DEF PlaceInv, Inside
<1>9. CASE ScanIdent
  <2>1. pc' = "identPos" /\ from' = C /\ Take(1) /\ caller' = "ident"
    BY <1>9, <1>5, <1>6 DEF ScanIdent
  <2>2. D = C /\ D < Len(seen') /\ seen'[D + 1] = c
    BY <2>1, <1>4, <1>2
  <2>3. Pushed(Letter \cup {"_", "\""})'
    <3>1. c \in Letter \cup {"_", "\""}
      BY <1>3, <1>9 DEF ScanIdent, IsIdentFirstChar, IsLetter
    <3>2. QED
      BY <3>1, <2>2, <1>2 DEF Pushed
  <2>4. IdentPlace'
    BY <2>1, <2>2, <2>3, <1>2 DEF IdentPlace
  <2>5. NumberPlace' /\ StringPlace'
    BY <2>1 DEF NumberPlace, StringPlace
  <2>6. QED
    BY <2>1, <2>2, <2>4, <2>5, <1>2 DEF PlaceInv, Inside
<1>10. CASE ScanParam
  <2>1. pc' = "identPos" /\ from' = C /\ Take(0) /\ caller' = "param"
    BY <1>10, <1>5, <1>6 DEF ScanParam
  <2>2. D = C + 1
    BY <2>1, <1>4
  <2>3. IdentPlace'
    <3>1. Consumed' # from' /\ caller' = "param"
      BY <2>1, <2>2, <1>2
    <3>2. QED
      BY <2>1, <3>1 DEF IdentPlace
  <2>4. NumberPlace' /\ StringPlace'
    BY <2>1 DEF NumberPlace, StringPlace
  <2>5. QED
    BY <2>1, <2>2, <2>3, <2>4, <1>2 DEF PlaceInv, Inside
<1>11. CASE ScanQuoted
  <2>1. pc' = "quote" /\ from' = C /\ Take(1) /\ caller' = "scan" /\ c = "'"
    BY <1>3, <1>11, <1>5, <1>6 DEF ScanQuoted
  <2>2. D = C /\ D < Len(seen') /\ seen'[D + 1] = c
    BY <2>1, <1>4, <1>2
  <2>3. Pushed({"'"})'
    BY <2>1, <2>2, <1>2 DEF Pushed
  <2>4. IdentPlace' /\ NumberPlace' /\ StringPlace'
    BY <2>1, <2>2, <2>3, <1>2 DEF IdentPlace, NumberPlace, StringPlace
  <2>5. QED
    BY <2>1, <2>2, <2>4, <1>2 DEF PlaceInv, Inside
<1>12. CASE ScanNumber
  <2>1. pc' = "digits" /\ from' = C /\ Take(1) /\ caller' = caller /\ c \in Digit
    BY <1>3, <1>12, <1>5, <1>6 DEF ScanNumber, IsDigit
  <2>2. D = C /\ D < Len(seen') /\ seen'[D + 1] = c
    BY <2>1, <1>4, <1>2
  <2>3. Pushed(Digit \cup {"."})'
    BY <2>1, <2>2, <1>2 DEF Pushed
  <2>4. IdentPlace' /\ NumberPlace' /\ StringPlace'
    BY <2>1, <2>2, <2>3, <1>2 DEF IdentPlace, NumberPlace, StringPlace
  <2>5. QED
    BY <2>1, <2>2, <2>4, <1>2, <1>7 DEF PlaceInv, Inside
<1>13. CASE ScanOperator
  <2>1. /\ pc' = (IF c = "." THEN "dot" ELSE "second") /\ from' = C /\ Take(0)
        /\ caller' = caller /\ first' = c /\ c \in TwoRune \cup {"."}
    BY <1>3, <1>13, <1>5, <1>6 DEF ScanOperator
  <2>2. D = C + 1 /\ seen'[D] = c
    BY <2>1, <1>4, <1>2
  <2>3. IdentPlace' /\ NumberPlace' /\ StringPlace'
    BY <2>1, <2>2, <1>2 DEF IdentPlace, NumberPlace, StringPlace
  <2>4. pc' = "second" => first' \in TwoRune
    BY <2>1
  <2>5. QED
    BY <2>1, <2>2, <2>3, <2>4, <1>2, <1>7 DEF PlaceInv, Inside
<1>14. CASE ScanSingle \/ ScanEOF \/ ScanIllegal
  <2>1. pc' \in {"idle", "done"} /\ from' = C /\ caller' = caller
    BY <1>14, <1>5, AfterReturn DEF ScanSingle, ScanEOF, ScanIllegal
  <2>2. IdentPlace' /\ NumberPlace' /\ StringPlace'
    BY <2>1 DEF IdentPlace, NumberPlace, StringPlace
  <2>3. QED
    BY <2>1, <2>2, <1>2, <1>7 DEF PlaceInv, Inside
<1>15. QED
  BY <1>8, <1>9, <1>10, <1>11, <1>12, <1>13, <1>14 DEF Scan

\* Between tokens nothing is claimed of the place.
LEMMA PlaceBetween ==
  ASSUME PlaceInv, pc' \in {"idle", "done"}, from' \in Nat, caller' = caller
  PROVE  PlaceInv'
<1>1. IdentPlace' /\ NumberPlace' /\ StringPlace'
  BY DEF IdentPlace, NumberPlace, StringPlace
<1>2. QED
  BY <1>1 DEF PlaceInv, Inside

\* In most places a rune of the token has been read, and that is all.
LEMMA PlaceInside ==
  ASSUME PlaceInv, pc' \in Inside \ {"dot", "second", "string", "escape", "unit"},
         from' = from, caller' = caller, Consumed' \in Nat, from < Consumed'
  PROVE  PlaceInv'
<1>1. IdentPlace' /\ NumberPlace' /\ StringPlace'
  BY DEF IdentPlace, NumberPlace, StringPlace, Inside
<1>2. from \in Nat /\ caller \in {"scan", "ident", "param"}
  BY DEF PlaceInv
<1>3. pc' \in Inside /\ pc' \notin {"idle", "done"} /\ pc' # "second"
  BY DEF Inside
<1>4. from' <= Consumed'
  BY <1>2
<1>5. QED
  BY <1>1, <1>2, <1>3, <1>4 DEF PlaceInv

\* What has been read stays read.
LEMMA StillRead ==
  ASSUME ReaderInv, [Next]_vars, from \in Nat, from' = from, Consumed <= Consumed',
         NEW x, HasRead(x)
  PROVE  HasRead(x)'
<1>1. PICK C \in Nat, D \in Nat : C = Consumed /\ D = Consumed'
  BY StepReads
<1>2. PICK j \in from + 1 .. C : seen[j] = x
  BY <1>1 DEF HasRead
<1>3. j \in 1 .. Len(seen) /\ seen'[j] = x
  BY <1>1, <1>2, StepReads
<1>4. j \in from' + 1 .. Consumed'
  BY <1>1, <1>2
<1>5. QED
  BY <1>3, <1>4 DEF HasRead

\* A rune that has been pushed back is the next one until it is consumed.
LEMMA PushedStays ==
  ASSUME ReaderInv, [Next]_vars, Consumed' = Consumed, NEW S, Pushed(S)
  PROVE  Pushed(S)'
<1>1. PICK C \in Nat : C = Consumed /\ C = Consumed'
  BY StepReads
<1>2. C < Len(seen) /\ seen[C + 1] \in S
  BY <1>1 DEF Pushed
<1>3. /\ Len(seen) \in Nat /\ Len(seen') \in Nat /\ Len(seen) <= Len(seen')
      /\ \A j \in 1 .. Len(seen) : seen'[j] = seen[j]
  BY StepReads
<1>4. C < Len(seen') /\ seen'[C + 1] = seen[C + 1]
  BY <1>2, <1>3
<1>5. QED
  BY <1>1, <1>2, <1>4 DEF Pushed

\* The place after every further rune of a token.
LEMMA ContinuePlace ==
  ASSUME ReaderInv, PlaceInv, Continue
  PROVE  PlaceInv'
<1>1. [Next]_vars
  BY DEF Next
<1>2. PICK C \in Nat, D \in Nat : C = Consumed /\ D = Consumed'
  BY <1>1, StepReads
<1>3. PICK c : c = Next1.ch
  OBVIOUS
<1>4. /\ Len(seen) \in Nat /\ Len(seen') \in Nat
      /\ C <= Len(seen) /\ Len(seen) <= Len(seen')
      /\ \A j \in 1 .. Len(seen) : seen'[j] = seen[j]
      /\ Take(0) \/ Take(1) => c \in Rune /\ C < Len(seen') /\ seen'[C + 1] = c
      /\ Take(0) => D = C + 1
      /\ Take(1) => D = C
      /\ Take(2) => D = C - 1 /\ C < Len(seen')
  BY <1>1, <1>2, <1>3, StepReads
<1>5. /\ from \in Nat /\ caller \in {"scan", "ident", "param"}
      /\ pc \notin {"idle", "done"} => from <= C
      /\ pc \in Inside => from < C
  BY <1>2 DEF PlaceInv
<1>6. ASSUME NEW p, Goto(p) PROVE pc' = p
  BY <1>6 DEF Goto
<1>7. ASSUME NEW p, NEW x, Collect(p, x) PROVE pc' = p /\ Take(0)
  BY <1>7 DEF Goto, Collect
<1>8. ASSUME pc' \in {"idle", "done"}, from' = from, caller' = caller
      PROVE  PlaceInv'
  BY <1>5, <1>8, PlaceBetween
<1>9. ASSUME pc' \in Inside \ {"dot", "second", "string", "escape", "unit"},
             from' = from, caller' = caller, from < D
      PROVE  PlaceInv'
  BY <1>2, <1>9, PlaceInside
<1>10. ASSUME NEW x, Pushed({x}), Take(0) \/ Take(1) PROVE c = x
  BY <1>2, <1>4, <1>10 DEF Pushed
<1>11. CASE Dot
  <2>1. pc = "dot" /\ from' = from /\ caller' = caller
    BY <1>11 DEF Dot, token
  <2>2. C = from + 1 /\ seen[C] = "."
    BY <2>1, <1>2 DEF PlaceInv, NumberPlace
  <2>3. CASE Take(2) /\ Goto("digits")
    <3>1. pc' = "digits" /\ D = from /\ D < Len(seen') /\ seen'[D + 1] = "."
      BY <2>2, <2>3, <1>4, <1>5, <1>6
    <3>2. Pushed(Digit \cup {"."})'
      BY <3>1, <1>2 DEF Pushed
    <3>3. IdentPlace' /\ NumberPlace' /\ StringPlace'
      BY <3>1, <3>2 DEF IdentPlace, NumberPlace, StringPlace
    <3>4. QED
      BY <2>1, <3>1, <3>3, <1>2, <1>5 DEF PlaceInv, Inside
  <2>4. CASE Return("DOT", pos, <<>>)
    BY <2>1, <2>4, <1>8, AfterReturn
  <2>5. QED
    BY <1>11, <2>3, <2>4 DEF Dot
<1>12. CASE Second
  <2>1. pc = "second" /\ from' = from /\ caller' = caller
    BY <1>12 DEF Second, token
  <2>2. CASE Take(0) /\ (Goto("line") \/ Goto("block"))
    <3>1. pc' \in {"line", "block"} /\ from < D
      BY <2>1, <2>2, <1>4, <1>5, <1>6 DEF Inside
    <3>2. QED
      BY <2>1, <3>1, <1>9 DEF Inside
  <2>3. CASE \E t, p, l : Return(t, p, l)
    BY <2>1, <2>3, <1>8, AfterReturn
  <2>4. QED
    BY <1>12, <2>2, <2>3 DEF Second
<1>13. CASE SkipUntilNewline \/ SkipUntilEndComment \/ Star
  <2>1. pc \in {"line", "block", "star"} /\ from' = from /\ caller' = caller /\ Take(0)
    BY <1>13 DEF SkipUntilNewline, SkipUntilEndComment, Star, token
  <2>2. from < D
    BY <2>1, <1>4, <1>5 DEF Inside
  <2>3. pc' \in {"line", "block", "star", "idle", "done"}
    BY <1>13, <1>6, AfterReturn DEF SkipUntilNewline, SkipUntilEndComment, Star
  <2>4. QED
    BY <2>1, <2>2, <2>3, <1>8, <1>9 DEF Inside
<1>14. CASE Whitespace
  <2>1. pc = "ws" /\ from' = from /\ caller' = caller
    BY <1>14 DEF Whitespace
  <2>2. CASE Collect("ws", Next1.ch)
    <3>1. pc' = "ws" /\ from < D
      BY <2>1, <2>2, <1>4, <1>5, <1>7 DEF Inside
    <3>2. QED
      BY <2>1, <3>1, <1>9 DEF Inside
  <2>3. CASE Return("WS", pos, lit)
    BY <2>1, <2>3, <1>8, AfterReturn
  <2>4. QED
    BY <1>14, <2>2, <2>3 DEF Whitespace
<1>15. CASE IdentPos
  <2>1. /\ pc = "identPos" /\ pc' = "ident" /\ from' = from /\ caller' = caller
        /\ Take(1)
    BY <1>15, <1>6 DEF IdentPos
  <2>2. D = C
    BY <2>1, <1>4
  <2>3. ASSUME D = from PROVE Pushed(Letter \cup {"_", "\""})'
    <3>1. Pushed(Letter \cup {"_", "\""})
      BY <2>1, <2>2, <2>3, <1>2 DEF PlaceInv, IdentPlace
    <3>2. QED
      BY <3>1, <2>2, <1>1, <1>2, PushedStays
  <2>4. IdentPlace'
    <3>1. caller \in {"ident", "param"}
      BY <2>1 DEF PlaceInv, IdentPlace
    <3>2. QED
      BY <2>1, <2>3, <3>1, <1>2 DEF IdentPlace
  <2>5. NumberPlace' /\ StringPlace'
    BY <2>1 DEF NumberPlace, StringPlace
  <2>6. QED
    BY <2>1, <2>2, <2>4, <2>5, <1>2, <1>5 DEF PlaceInv, Inside
<1>16. CASE Ident
  <2>1. pc = "ident" /\ from' = from /\ caller' = caller
    BY <1>16 DEF Ident
  <2>2. caller \in {"ident", "param"}
    BY <2>1 DEF PlaceInv, IdentPlace
  <2>3. CASE c = "\""
    <3>1. Take(1) /\ pc' = "quote"
      <4>1. ~ IsIdentChar(c)
        BY <2>3, TextAssumption DEF IsIdentChar, IsLetter, IsDigit
      <4>2. QED
        BY <1>3, <1>16, <2>3, <4>1, <1>6 DEF Ident
    <3>2. D = C /\ D < Len(seen') /\ seen'[D + 1] = "\""
      BY <3>1, <2>3, <1>4
    <3>3. Pushed({"\""})'
      BY <3>2, <1>2 DEF Pushed
    <3>4. IdentPlace' /\ NumberPlace' /\ StringPlace'
      BY <3>1, <3>3, <2>1, <2>2 DEF IdentPlace, NumberPlace, StringPlace
    <3>5. QED
      BY <2>1, <3>1, <3>2, <3>4, <1>2, <1>5 DEF PlaceInv, Inside
  <2>4. CASE c # "\"" /\ IsIdentChar(c)
    <3>1. Take(1) /\ pc' = "bare"
      BY <1>3, <1>16, <2>4, <1>6 DEF Ident
    <3>2. D = C /\ D < Len(seen') /\ seen'[D + 1] = c
      BY <3>1, <1>4
    <3>3. Pushed(Letter \cup Digit \cup {"_"})'
      <4>1. c \in Letter \cup Digit \cup {"_"}
        BY <2>4 DEF IsIdentChar, IsLetter, IsDigit
      <4>2. QED
        BY <3>2, <4>1, <1>2 DEF Pushed
    <3>4. IdentPlace'
      BY <3>1, <3>3, <2>1, <2>2 DEF IdentPlace
    <3>5. NumberPlace' /\ StringPlace'
      BY <3>1 DEF NumberPlace, StringPlace
    <3>6. QED
      BY <2>1, <3>1, <3>2, <3>4, <3>5, <1>2, <1>5 DEF PlaceInv, Inside
  <2>5. CASE EndIdent
    <3>1. pc' \in {"idle", "done"}
      BY <2>5, AfterReturn DEF EndIdent
    <3>2. QED
      BY <2>1, <3>1, <1>8
  <2>6. QED
    BY <1>3, <1>16, <2>3, <2>4, <2>5 DEF Ident
<1>17. CASE Bare
  <2>1. pc = "bare" /\ from' = from /\ caller' = caller
    BY <1>17 DEF Bare
  <2>2. /\ caller \in {"ident", "param"}
        /\ C = from => Pushed(Letter \cup Digit \cup {"_"})
    BY <2>1, <1>2 DEF PlaceInv, IdentPlace
  <2>3. /\ Take(0) \/ Take(1)
        /\ \/ pc' = "bare" /\ D = C + 1
           \/ pc' = "ident" /\ ~ IsIdentChar(c)
    <3>1. CASE IsIdentChar(c)
      <4>1. Collect("bare", c)
        BY <1>3, <1>17, <3>1 DEF Bare
      <4>2. pc' = "bare" /\ Take(0)
        BY <4>1, <1>7
      <4>3. QED
        BY <4>2, <1>4
    <3>2. CASE ~ IsIdentChar(c)
      BY <1>3, <1>6, <1>17, <3>2 DEF Bare
    <3>3. QED
      BY <3>1, <3>2
  <2>4. C = from => IsIdentChar(c)
    <3> SUFFICES ASSUME C = from PROVE IsIdentChar(c)
      OBVIOUS
    <3>1. C < Len(seen) /\ seen[C + 1] \in Letter \cup Digit \cup {"_"}
      BY <2>2, <1>2 DEF Pushed
    <3>2. C + 1 \in 1 .. Len(seen)
      <4>1. C < Len(seen)
        BY <3>1
      <4>2. QED
        BY <4>1, <1>4
    <3>3. c = seen[C + 1]
      <4>1. seen'[C + 1] = c
        BY <2>3, <1>4
      <4>2. QED
        BY <3>2, <4>1, <1>4
    <3>4. QED
      BY <3>1, <3>3 DEF IsIdentChar, IsLetter, IsDigit
  <2>5. from < D
    <3>1. D = C \/ D = C + 1
      BY <2>3, <1>4
    <3>2. CASE pc' = "bare"
      BY <2>1, <2>3, <3>2, <1>5
    <3>3. CASE pc' = "ident"
      BY <2>1, <2>3, <2>4, <3>1, <3>3, <1>5
    <3>4. QED
      BY <2>3, <3>2, <3>3
  <2>6. IdentPlace'
    <3>1. Consumed' # from'
      BY <2>1, <2>5, <1>2, <1>5
    <3>2. QED
      BY <2>1, <2>2, <2>3, <3>1 DEF IdentPlace
  <2>7. NumberPlace' /\ StringPlace'
    BY <2>3 DEF NumberPlace, StringPlace
  <2>8. QED
    BY <2>1, <2>3, <2>5, <2>6, <2>7, <1>2, <1>5 DEF PlaceInv, Inside
<1>18. CASE Quote
  <2>1. /\ pc = "quote" /\ pc' = "string" /\ from' = from /\ caller' = caller
        /\ Take(0) /\ first' = c
    BY <1>3, <1>18, <1>6 DEF Quote
  <2>2. D = C + 1 /\ seen'[C + 1] = c /\ from <= C
    BY <2>1, <1>4, <1>5
  <2>3. caller = "scan" => C = from /\ c = "'"
    <3>1. caller = "scan" => C = from /\ Pushed({"'"})
      BY <2>1, <1>2 DEF PlaceInv, StringPlace
    <3>2. QED
      BY <2>1, <3>1, <1>10
  <2>4. caller # "scan" => HasRead("\"")'
    <3>1. ASSUME caller # "scan" PROVE c = "\""
      <4>1. Pushed({"\""})
        BY <2>1, <3>1 DEF PlaceInv, StringPlace
      <4>2. QED
        BY <2>1, <4>1, <1>10
    <3>2. D \in from' + 1 .. Consumed' /\ seen'[D] = c
      BY <2>1, <2>2, <1>2, <1>5
    <3>3. QED
      BY <3>1, <3>2 DEF HasRead
  <2>5. StringPlace'
    BY <2>1, <2>2, <2>3, <2>4 DEF StringPlace
  <2>6. IdentPlace' /\ NumberPlace'
    BY <2>1 DEF IdentPlace, NumberPlace
  <2>7. from' < Consumed'
    BY <2>1, <2>2, <1>2, <1>5
  <2>8. QED
    BY <2>1, <2>5, <2>6, <2>7, <1>2, <1>5 DEF PlaceInv, Inside
<1>19. CASE String \/ Escape
  <2>1. /\ pc \in {"string", "escape"} /\ from' = from /\ caller' = caller
        /\ first' = first /\ Take(0)
    BY <1>19, <1>7 DEF String, Escape
  <2>2. pc' \in {"string", "escape", "idle", "done"}
    <3>1. CASE String
      BY <3>1, <1>6, <1>7, AfterReturn DEF String, EndString
    <3>2. CASE Escape
      BY <3>2, <1>6, <1>7, AfterReturn DEF Escape, EndString
    <3>3. QED
      BY <1>19, <3>1, <3>2
  <2>3. D = C + 1 /\ from < C
    BY <2>1, <1>4, <1>5 DEF Inside
  <2>4. caller = "scan" => seen[from + 1] = "'" /\ first = "'"
    BY <2>1 DEF PlaceInv, StringPlace
  <2>5. caller = "scan" => seen'[from' + 1] = "'" /\ first' = "'"
    <3>1. from + 1 \in 1 .. Len(seen)
      BY <2>3, <1>4, <1>5
    <3>2. QED
      BY <2>1, <2>4, <3>1, <1>4
  <2>6. caller # "scan" => HasRead("\"")'
    <3>1. caller # "scan" => HasRead("\"")
      BY <2>1 DEF PlaceInv, StringPlace
    <3>2. Consumed <= Consumed'
      BY <2>3, <1>2
    <3>3. QED
      BY <2>1, <3>1, <3>2, <1>1, <1>5, StillRead
  <2>7. CASE pc' \in {"string", "escape"}
    <3>1. StringPlace'
      BY <2>1, <2>5, <2>6, <2>7 DEF StringPlace
    <3>2. IdentPlace' /\ NumberPlace'
      BY <2>7 DEF IdentPlace, NumberPlace
    <3>3. from' < Consumed'
      BY <2>1, <2>3, <1>2, <1>5
    <3>4. QED
      BY <2>1, <2>7, <3>1, <3>2, <3>3, <1>2, <1>5 DEF PlaceInv, Inside
  <2>8. QED
    BY <2>1, <2>2, <2>7, <1>8
<1>20. CASE Digits
  <2>1. pc \in {"digits", "fraction"} /\ from' = from /\ caller' = caller /\ from <= C
    BY <1>20, <1>5 DEF Digits
  <2>2. CASE IsDigit(c)
    <3>1. pc' = pc /\ Take(0)
      BY <1>3, <1>20, <2>2, <1>7 DEF Digits
    <3>2. D = C + 1 /\ from < D
      BY <2>1, <3>1, <1>4, <1>5
    <3>3. CASE pc = "fraction"
      BY <2>1, <3>1, <3>2, <3>3, <1>9 DEF Inside
    <3>4. CASE pc = "digits"
      <4>1. Consumed' # from'
        BY <2>1, <3>2, <1>2, <1>5
      <4>2. IdentPlace' /\ NumberPlace' /\ StringPlace'
        BY <3>1, <3>4, <4>1 DEF IdentPlace, NumberPlace, StringPlace
      <4>3. QED
        BY <2>1, <3>1, <3>2, <3>4, <4>2, <1>2, <1>5 DEF PlaceInv, Inside
    <3>5. QED
      BY <2>1, <3>3, <3>4
  <2>3. CASE ~ IsDigit(c) /\ pc = "fraction"
    <3>1. Return("NUMBER", pos, lit)
      BY <1>3, <1>20, <2>3 DEF Digits
    <3>2. QED
      BY <2>1, <3>1, <1>8, AfterReturn
  <2>4. CASE ~ IsDigit(c) /\ pc = "digits"
    <3>1. pc' = "point" /\ Take(1)
      BY <1>3, <1>20, <2>4, <1>6 DEF Digits
    <3>2. D = C /\ D < Len(seen') /\ seen'[D + 1] = c /\ c \in Rune
      BY <3>1, <1>4
    <3>3. Pushed(Rune \ Digit)'
      BY <2>4, <3>2, <1>2 DEF Pushed, IsDigit
    <3>4. ASSUME C = from PROVE Pushed({"."})'
      <4>1. Pushed(Digit \cup {"."})
        BY <2>4, <3>4, <1>2 DEF PlaceInv, NumberPlace
      <4>2. C < Len(seen) /\ seen[C + 1] \in Digit \cup {"."}
        BY <4>1, <1>2 DEF Pushed
      <4>3. seen[C + 1] = c
        BY <4>2, <3>2, <1>4
      <4>4. c = "."
        BY <2>4, <4>2, <4>3 DEF IsDigit
      <4>5. QED
        BY <3>2, <4>4, <1>2 DEF Pushed
    <3>5. NumberPlace'
      BY <2>1, <3>1, <3>2, <3>3, <3>4, <1>2 DEF NumberPlace
    <3>6. IdentPlace' /\ StringPlace'
      BY <3>1 DEF IdentPlace, StringPlace
    <3>7. QED
      BY <2>1, <3>1, <3>2, <3>5, <3>6, <1>2, <1>5 DEF PlaceInv, Inside
  <2>5. QED
    BY <2>1, <2>2, <2>3, <2>4
<1>21. CASE Point
  <2>1. pc = "point" /\ from' = from /\ caller' = caller /\ from <= C
    BY <1>21, <1>5 DEF Point, token
  <2>2. CASE c = "."
    <3>1. pc' = "tenths" /\ Take(0)
      BY <1>3, <1>21, <2>2, <1>6 DEF Point
    <3>2. from < D
      BY <2>1, <3>1, <1>4, <1>5
    <3>3. QED
      BY <2>1, <3>1, <3>2, <1>9 DEF Inside
  <2>3. CASE c # "."
    <3>1. pc' = "unit" /\ Take(1)
      BY <1>3, <1>21, <2>3, <1>6 DEF Point
    <3>2. D = C /\ D < Len(seen') /\ seen'[D + 1] = c /\ c \in Rune
      BY <3>1, <1>4
    <3>3. c \notin Digit
      <4>1. C < Len(seen) /\ seen[C + 1] \in Rune \ Digit
        BY <2>1, <1>2 DEF PlaceInv, NumberPlace, Pushed
      <4>2. QED
        BY <4>1, <3>2, <1>4
    <3>4. Pushed(Rune \ (Digit \cup {"."}))'
      BY <2>3, <3>2, <3>3, <1>2 DEF Pushed
    <3>5. C # from
      <4>1. C = from => Pushed({"."})
        BY <2>1, <1>2 DEF PlaceInv, NumberPlace
      <4>2. QED
        BY <2>3, <3>1, <4>1, <1>10
    <3>6. from' < Consumed'
      BY <2>1, <3>2, <3>5, <1>2, <1>5
    <3>7. IdentPlace' /\ NumberPlace' /\ StringPlace'
      BY <3>1, <3>4 DEF IdentPlace, NumberPlace, StringPlace
    <3>8. QED
      BY <2>1, <3>1, <3>6, <3>7, <1>2, <1>5 DEF PlaceInv, Inside
  <2>4. QED
    BY <2>2, <2>3
<1>22. CASE Tenths
  <2>1. pc = "tenths" /\ from' = from /\ caller' = caller
    BY <1>22 DEF Tenths
  <2>2. CASE Take(0) /\ Goto("fraction")
    <3>1. pc' = "fraction" /\ from < D
      BY <2>1, <2>2, <1>4, <1>5, <1>6 DEF Inside
    <3>2. QED
      BY <2>1, <3>1, <1>9 DEF Inside
  <2>3. CASE Return("NUMBER", pos, lit)
    BY <2>1, <2>3, <1>8, AfterReturn
  <2>4. QED
    BY <1>22, <2>2, <2>3 DEF Tenths
<1>23. CASE Unit \/ Units \/ Mixed
  <2>1. pc \in {"unit", "units", "mixed"} /\ from' = from /\ caller' = caller
    BY <1>23 DEF Unit, Units, Mixed
  <2>2. \/ pc' \in {"units", "mixed"} /\ (Take(0) \/ Take(1))
        \/ pc' \in {"idle", "done"}
    <3>1. CASE Unit
      BY <3>1, <1>7, AfterReturn DEF Unit
    <3>2. CASE Units
      BY <3>2, <1>6, <1>7 DEF Units
    <3>3. CASE Mixed
      BY <3>3, <1>7, AfterReturn DEF Mixed
    <3>4. QED
      BY <1>23, <3>1, <3>2, <3>3
  <2>3. CASE pc' \in {"units", "mixed"} /\ (Take(0) \/ Take(1))
    <3>1. from < D
      BY <2>1, <2>3, <1>4, <1>5 DEF Inside
    <3>2. QED
      BY <2>1, <2>3, <3>1, <1>9 DEF Inside
  <2>4. QED
    BY <2>1, <2>2, <2>3, <1>8
<1>24. CASE Regex \/ RegexEscape
  <2>1. pc \in {"regex", "regexEscape"} /\ from' = from /\ caller' = caller
    BY <1>24 DEF Regex, RegexEscape
  <2>2. \/ pc' \in {"regex", "regexEscape"} /\ (Take(0) \/ Take(1))
        \/ pc' \in {"idle", "done"}
    <3>1. CASE Regex
      BY <3>1, <1>6, <1>7, AfterReturn DEF Regex
    <3>2. CASE RegexEscape
      BY <3>2, <1>6, <1>7, AfterReturn DEF RegexEscape
    <3>3. QED
      BY <1>24, <3>1, <3>2
  <2>3. CASE pc' \in {"regex", "regexEscape"} /\ (Take(0) \/ Take(1))
    <3>1. from < D
      BY <2>1, <2>3, <1>4, <1>5 DEF Inside
    <3>2. QED
      BY <2>1, <2>3, <3>1, <1>9 DEF Inside
  <2>4. QED
    BY <2>1, <2>2, <2>3, <1>8
<1>25. QED
  BY <1>11, <1>12, <1>13, <1>14, <1>15, <1>16, <1>17, <1>18, <1>19, <1>20, <1>21,
     <1>22, <1>23, <1>24 DEF Continue

\* At the start nothing is claimed.
LEMMA InitPlace == Init => PlaceInv
<1> SUFFICES ASSUME Init PROVE PlaceInv
  OBVIOUS
<1>1. pc = "idle" /\ caller = "scan" /\ from = 0
  BY DEF Init
<1>2. IdentPlace /\ NumberPlace /\ StringPlace
  BY <1>1 DEF IdentPlace, NumberPlace, StringPlace
<1>3. QED
  BY <1>1, <1>2 DEF PlaceInv, Inside

\* Every step keeps the place.
LEMMA NextPlace ==
  ASSUME ReaderInv, PlaceInv, [Next]_vars
  PROVE  PlaceInv'
<1>1. from \in Nat /\ caller \in {"scan", "ident", "param"}
  BY DEF PlaceInv
<1>2. CASE Peek
  <2>1. pc' = "idle" /\ from' = from /\ caller' = caller
    BY <1>2 DEF Peek, token
  <2>2. QED
    BY <2>1, <1>1, PlaceBetween
<1>3. CASE ScanRegex
  <2>1. pc' = "regex" /\ caller' = caller /\ from' = Consumed /\ Take(0)
    BY <1>3 DEF ScanRegex, Goto, StartAt
  <2>2. Consumed \in Nat /\ Consumed' = Consumed + 1
    BY <2>1, StepReads
  <2>3. IdentPlace' /\ NumberPlace' /\ StringPlace'
    BY <2>1 DEF IdentPlace, NumberPlace, StringPlace
  <2>4. from' \in Nat /\ from' < Consumed' /\ from' <= Consumed'
    BY <2>1, <2>2
  <2>5. QED
    BY <2>1, <2>3, <2>4, <1>1 DEF PlaceInv
<1>4. CASE UNCHANGED vars
  <2>1. Consumed' = Consumed /\ seen' = seen /\ pc' = pc /\ caller' = caller
        /\ from' = from /\ first' = first
    BY <1>4 DEF vars, Consumed
  <2>2. \A S : Pushed(S)' <=> Pushed(S)
    BY <2>1 DEF Pushed
  <2>3. \A x : HasRead(x)' <=> HasRead(x)
    BY <2>1 DEF HasRead
  <2>4. IdentPlace'
    BY <2>1, <2>2 DEF PlaceInv, IdentPlace
  <2>5. NumberPlace'
    BY <2>1, <2>2 DEF PlaceInv, NumberPlace
  <2>6. StringPlace'
    BY <2>1, <2>2, <2>3 DEF PlaceInv, StringPlace
  <2>7. QED
    BY <2>1, <2>4, <2>5, <2>6 DEF PlaceInv
<1>5. QED
  BY <1>2, <1>3, <1>4, ScanPlace, ContinuePlace DEF Next, Finished

\* The place is what PlaceInv says in every behaviour of the scanner.
LEMMA PlaceInvariant == Spec => []PlaceInv
<1>1. ReaderInv /\ PlaceInv /\ [Next]_vars => PlaceInv'
  BY NextPlace
<1>2. QED
  BY <1>1, InitPlace, ReaderInvariant, PTL DEF Spec

----------------------------------------------------------------------------
(* Types.                                                                  *)

Places == {"idle", "dot", "second", "line", "block", "star", "ws", "identPos",
           "ident", "bare", "quote", "string", "escape", "digits", "fraction",
           "point", "tenths", "unit", "units", "mixed", "regex", "regexEscape"}

\* Every token but the last one.
Kinds == Tokens \ {"EOF"}

\* The types of what a token is put together from.
PartsTyped ==
  first \in Rune /\ lit \in Seq(Rune) /\ pos \in Position /\ quotePos \in Position

\* How a step ends, with types.
Ends(T) ==
  \/ \E p \in Places : Goto(p)
  \/ \E t \in T, p \in Position, l \in Seq(Rune) : Return(t, p, l)

\* The tokens of operators are none of the end.
LEMMA OperatorTokens ==
  /\ \A c \in DOMAIN Operator1 : Operator1[c] \in Kinds
  /\ \A p \in DOMAIN Operator2 : Operator2[p] \in Kinds
  /\ TwoRune \ {"!"} \subseteq DOMAIN Operator1
<1>1. TwoRune \ {"!"} \subseteq DOMAIN Operator1
  BY DEF TwoRune, Operator1
<1>2. ASSUME NEW c \in DOMAIN Operator1 PROVE Operator1[c] \in Kinds
  <2>1. Operator1[c] # "EOF"
    BY DEF Operator1
  <2>2. QED
    BY <2>1 DEF Tokens, Kinds
<1>3. ASSUME NEW p \in DOMAIN Operator2 PROVE Operator2[p] \in Kinds
  <2>1. Operator2[p] # "EOF"
    BY DEF Operator2
  <2>2. QED
    BY <2>1 DEF Tokens, Kinds
<1>4. QED
  BY <1>1, <1>2, <1>3

\* What the reader returns is typed.
LEMMA StepTypes ==
  ASSUME ReaderInv, [Next]_vars
  PROVE  Next1.ch \in Rune /\ Next1.pos \in Position /\ Curr(rd).pos \in Position
         /\ Curr(rd').pos \in Position
<1>1. rd \in Reader /\ rd' \in Reader
  BY NextReaderInv DEF ReaderInv
<1>2. Next1 \in Slot /\ Curr(rd) \in Slot /\ Curr(rd') \in Slot
  BY <1>1, ReadType, CurrType DEF Next1
<1>3. QED
  BY <1>2 DEF Slot

\* The first rune of a token.
LEMMA ScanTypes ==
  ASSUME ReaderInv, PlaceInv, PartsTyped, Scan
  PROVE  PartsTyped' /\ Ends(Tokens)
<1>1. [Next]_vars
  BY DEF Next
<1>2. PICK c, q : c = Next1.ch /\ q = Next1.pos
  OBVIOUS
<1>3. c \in Rune /\ q \in Position /\ Curr(rd').pos \in Position
  BY <1>1, <1>2, StepTypes
<1>4. first \in Rune /\ lit \in Seq(Rune) /\ pos \in Position /\ quotePos \in Position
  BY DEF PartsTyped
<1>5. <<>> \in Seq(Rune) /\ \A x \in Rune : <<x>> \in Seq(Rune)
  OBVIOUS
<1>6. ASSUME NEW p, StartAt(p) PROVE pos' = p
  BY <1>6 DEF StartAt
<1>7. CASE ScanWhitespace
  <2>1. pos' = q /\ lit' = <<c>> /\ first' = first /\ quotePos' = quotePos /\ Goto("ws")
    BY <1>2, <1>6, <1>7 DEF ScanWhitespace
  <2>2. QED
    BY <2>1, <1>3, <1>4, <1>5 DEF PartsTyped, Ends, Places
<1>8. CASE ScanIdent \/ ScanParam
  <2>1. /\ pos' = q /\ lit' = <<>> /\ first' = first /\ quotePos' = quotePos
        /\ Goto("identPos")
    BY <1>2, <1>6, <1>8 DEF ScanIdent, ScanParam
  <2>2. QED
    BY <2>1, <1>3, <1>4, <1>5 DEF PartsTyped, Ends, Places
<1>9. CASE ScanQuoted
  <2>1. /\ pos' = q /\ lit' = <<>> /\ first' = first /\ quotePos' = Curr(rd').pos
        /\ Goto("quote")
    BY <1>2, <1>6, <1>9 DEF ScanQuoted
  <2>2. QED
    BY <2>1, <1>3, <1>4, <1>5 DEF PartsTyped, Ends, Places
<1>10. CASE ScanNumber
  <2>1. /\ pos' = q /\ lit' = <<>> /\ first' = first /\ quotePos' = quotePos
        /\ Goto("digits")
    BY <1>2, <1>6, <1>10 DEF ScanNumber
  <2>2. QED
    BY <2>1, <1>3, <1>4, <1>5 DEF PartsTyped, Ends, Places
<1>11. CASE ScanOperator
  <2>1. /\ pos' = q /\ lit' = <<>> /\ first' = c /\ quotePos' = quotePos
        /\ Goto("dot") \/ Goto("second")
    BY <1>2, <1>6, <1>11 DEF ScanOperator
  <2>2. QED
    BY <2>1, <1>3, <1>4, <1>5 DEF PartsTyped, Ends, Places
<1>12. CASE ScanSingle \/ ScanEOF \/ ScanIllegal
  <2>1. pos' = q /\ lit' = lit /\ first' = first /\ quotePos' = quotePos
    BY <1>2, <1>6, <1>12 DEF ScanSingle, ScanEOF, ScanIllegal
  <2>2. Ends(Tokens)
    <3>1. CASE ScanSingle
      <4>1. Operator1[c] \in Tokens /\ Return(Operator1[c], q, <<>>)
        BY <1>2, <3>1, OperatorTokens DEF ScanSingle, Kinds
      <4>2. QED
        BY <4>1, <1>3, <1>5 DEF Ends
    <3>2. CASE ScanEOF
      <4>1. "EOF" \in Tokens /\ Return("EOF", q, <<>>)
        BY <1>2, <3>2 DEF ScanEOF, Tokens
      <4>2. QED
        BY <4>1, <1>3, <1>5 DEF Ends
    <3>3. CASE ScanIllegal
      <4>1. "ILLEGAL" \in Tokens /\ Return("ILLEGAL", q, <<c>>)
        BY <1>2, <3>3 DEF ScanIllegal, Tokens
      <4>2. QED
        BY <4>1, <1>3, <1>5 DEF Ends
    <3>4. QED
      BY <1>12, <3>1, <3>2, <3>3
  <2>3. QED
    BY <2>1, <2>2, <1>3, <1>4 DEF PartsTyped
<1>13. QED
  BY <1>7, <1>8, <1>9, <1>10, <1>11, <1>12 DEF Scan

\* The end of an identifier, a keyword or a bound parameter.
LEMMA EndIdentTypes ==
  ASSUME PartsTyped, EndIdent
  PROVE  Ends(Kinds)
<1>1. lit \in Seq(Rune) /\ pos \in Position /\ <<>> \in Seq(Rune)
  BY DEF PartsTyped
<1>2. <<"$">> \o lit \in Seq(Rune)
  <2>1. <<"$">> \in Seq(Rune)
    BY NamedRunes
  <2>2. QED
    BY <1>1, <2>1
<1>3. {"BOUNDPARAM", "KEYWORD", "IDENT"} \subseteq Kinds
  BY DEF Tokens, Kinds
<1>4. \/ Return("BOUNDPARAM", pos, <<"$">> \o lit)
      \/ Return("KEYWORD", pos, <<>>)
      \/ Return("IDENT", pos, lit)
  BY DEF EndIdent
<1>5. QED
  BY <1>1, <1>2, <1>3, <1>4 DEF Ends

\* The end of a string, and of what scanIdent makes of it.
LEMMA EndStringTypes ==
  ASSUME PartsTyped, NEW t \in {"STRING", "BADSTRING", "BADESCAPE"},
         NEW p \in Position, NEW l \in Seq(Rune), EndString(t, p, l)
  PROVE  Ends(Kinds)
<1>1. pos \in Position
  BY DEF PartsTyped
<1>2. <<"$">> \o l \in Seq(Rune)
  <2>1. <<"$">> \in Seq(Rune)
    BY NamedRunes
  <2>2. QED
    BY <2>1
<1>3. {"BOUNDPARAM", "IDENT", "STRING", "BADSTRING", "BADESCAPE"} \subseteq Kinds
  BY DEF Tokens, Kinds
<1>4. \/ Return(t, p, l)
      \/ Return("BOUNDPARAM", pos, <<"$">> \o l)
      \/ Return(t, pos, <<"$">> \o l)
      \/ Return("IDENT", pos, l)
  BY DEF EndString
<1>5. t \in Kinds
  BY <1>3
<1>6. QED
  BY <1>1, <1>2, <1>3, <1>4, <1>5 DEF Ends

\* Every further rune of a token.
LEMMA ContinueTypes ==
  ASSUME ReaderInv, PlaceInv, PartsTyped, Continue
  PROVE  PartsTyped' /\ Ends(Kinds)
<1>1. [Next]_vars
  BY DEF Next
<1>2. PICK c, q : c = Next1.ch /\ q = Next1.pos
  OBVIOUS
<1>3. c \in Rune /\ q \in Position /\ Curr(rd').pos \in Position
  BY <1>1, <1>2, StepTypes
<1>4. first \in Rune /\ lit \in Seq(Rune) /\ pos \in Position /\ quotePos \in Position
  BY DEF PartsTyped
<1>5. <<>> \in Seq(Rune) /\ \A x \in Rune : <<x>> \in Seq(Rune)
  OBVIOUS
<1>6. ASSUME UNCHANGED token PROVE PartsTyped'
  BY <1>4, <1>6 DEF PartsTyped, token
<1>7. ASSUME NEW p \in Places, NEW x \in Rune, Collect(p, x),
             first' = first, pos' = pos, quotePos' = quotePos
      PROVE  PartsTyped' /\ Ends(Kinds)
  <2>1. lit' = Append(lit, x) /\ Goto(p)
    BY <1>7 DEF Collect
  <2>2. lit' \in Seq(Rune)
    BY <2>1, <1>4
  <2>3. QED
    BY <1>4, <1>7, <2>1, <2>2 DEF PartsTyped, Ends
<1>8. ASSUME lit' = lit, first' = first, pos' = pos, quotePos' = quotePos
      PROVE  PartsTyped'
  BY <1>4, <1>8 DEF PartsTyped
<1>9. ASSUME NEW p \in Places, Goto(p) PROVE Ends(Kinds)
  BY <1>9 DEF Ends
<1>10. ASSUME NEW t \in Kinds, NEW p \in Position, NEW l \in Seq(Rune), Return(t, p, l)
       PROVE  Ends(Kinds)
  BY <1>10 DEF Ends
<1>11. CASE Dot
  <2>1. UNCHANGED token /\ (Goto("digits") \/ Return("DOT", pos, <<>>))
    BY <1>11 DEF Dot
  <2>2. "digits" \in Places /\ "DOT" \in Kinds
    BY DEF Places, Tokens, Kinds
  <2>3. QED
    BY <2>1, <2>2, <1>4, <1>5, <1>6, <1>9, <1>10
<1>12. CASE Second
  <2>1. UNCHANGED token /\ first \in TwoRune
    BY <1>12 DEF Second, PlaceInv
  <2>2. PICK d : d = Next1.ch
    OBVIOUS
  <2>3. \/ Goto("line") \/ Goto("block")
        \/ <<first, d>> \in DOMAIN Operator2 /\ Return(Operator2[<<first, d>>], pos, <<>>)
        \/ first = "!" /\ Return("ILLEGAL", pos, <<"!">>)
        \/ first # "!" /\ Return(Operator1[first], pos, <<>>)
    BY <2>2, <1>12 DEF Second
  <2>4. /\ {"line", "block"} \subseteq Places /\ "ILLEGAL" \in Kinds
        /\ <<"!">> \in Seq(Rune)
    BY NamedRunes DEF Places, Tokens, Kinds
  <2>5. first # "!" => Operator1[first] \in Kinds
    BY <2>1, OperatorTokens
  <2>6. PartsTyped'
    BY <2>1, <1>6
  <2>7. CASE Goto("line") \/ Goto("block")
    BY <2>4, <2>6, <2>7, <1>9
  <2>8. CASE <<first, d>> \in DOMAIN Operator2 /\ Return(Operator2[<<first, d>>], pos, <<>>)
    BY <2>6, <2>8, <1>4, <1>5, <1>10, OperatorTokens
  <2>9. CASE first = "!" /\ Return("ILLEGAL", pos, <<"!">>)
    BY <2>4, <2>6, <2>9, <1>4, <1>10
  <2>10. CASE first # "!" /\ Return(Operator1[first], pos, <<>>)
    BY <2>5, <2>6, <2>10, <1>4, <1>5, <1>10
  <2>11. QED
    BY <2>3, <2>7, <2>8, <2>9, <2>10
<1>13. CASE SkipUntilNewline \/ SkipUntilEndComment \/ Star
  <2>1. UNCHANGED token
    BY <1>13 DEF SkipUntilNewline, SkipUntilEndComment, Star
  <2>2. \/ Goto("line") \/ Goto("block") \/ Goto("star")
        \/ Return("COMMENT", pos, <<>>) \/ Return("ILLEGAL", pos, <<>>)
    BY <1>13 DEF SkipUntilNewline, SkipUntilEndComment, Star
  <2>3. {"line", "block", "star"} \subseteq Places /\ {"COMMENT", "ILLEGAL"} \subseteq Kinds
    BY DEF Places, Tokens, Kinds
  <2>4. QED
    BY <2>1, <2>2, <2>3, <1>4, <1>5, <1>6, <1>9, <1>10
<1>14. CASE Whitespace
  <2>1. /\ first' = first /\ pos' = pos /\ quotePos' = quotePos
        /\ Collect("ws", c) \/ (Return("WS", pos, lit) /\ lit' = lit)
    BY <1>2, <1>14 DEF Whitespace
  <2>2. "ws" \in Places /\ "WS" \in Kinds
    BY DEF Places, Tokens, Kinds
  <2>3. QED
    BY <2>1, <2>2, <1>3, <1>4, <1>7, <1>8, <1>10
<1>15. CASE IdentPos
  <2>1. /\ first' = first /\ lit' = lit /\ quotePos' = quotePos /\ Goto("ident")
        /\ pos' = q \/ pos' = pos
    BY <1>2, <1>15 DEF IdentPos
  <2>2. QED
    BY <2>1, <1>3, <1>4 DEF PartsTyped, Ends, Places
<1>16. CASE Ident
  <2>1. first' = first /\ pos' = pos
    BY <1>16 DEF Ident
  <2>2. \/ lit' = <<>> /\ quotePos' = Curr(rd').pos /\ Goto("quote")
        \/ lit' = lit /\ quotePos' = quotePos /\ (Goto("bare") \/ EndIdent)
    BY <1>16 DEF Ident
  <2>3. PartsTyped'
    BY <2>1, <2>2, <1>3, <1>4, <1>5 DEF PartsTyped
  <2>4. {"quote", "bare"} \subseteq Places
    BY DEF Places
  <2>5. QED
    BY <2>2, <2>3, <2>4, <1>9, EndIdentTypes
<1>17. CASE Bare
  <2>1. /\ first' = first /\ pos' = pos /\ quotePos' = quotePos
        /\ Collect("bare", c) \/ (Goto("ident") /\ lit' = lit)
    BY <1>2, <1>17 DEF Bare
  <2>2. {"bare", "ident"} \subseteq Places
    BY DEF Places
  <2>3. QED
    BY <2>1, <2>2, <1>3, <1>7, <1>8, <1>9
<1>18. CASE Quote
  <2>1. /\ first' = c /\ pos' = pos /\ quotePos' = quotePos /\ lit' = lit
        /\ Goto("string")
    BY <1>2, <1>18 DEF Quote
  <2>2. QED
    BY <2>1, <1>3, <1>4 DEF PartsTyped, Ends, Places
<1>19. CASE String
  <2>1. first' = first /\ pos' = pos /\ quotePos' = quotePos
    BY <1>19 DEF String
  <2>2. \/ lit' = lit /\ EndString("STRING", quotePos, lit)
        \/ lit' = lit /\ EndString("BADSTRING", quotePos, lit)
        \/ lit' = lit /\ Goto("escape")
        \/ Collect("string", c)
    BY <1>2, <1>19 DEF String
  <2>3. {"escape", "string"} \subseteq Places
    BY DEF Places
  <2>4. CASE lit' = lit /\ (EndString("STRING", quotePos, lit) \/ EndString("BADSTRING", quotePos, lit))
    BY <2>1, <2>4, <1>4, <1>8, EndStringTypes
  <2>5. CASE lit' = lit /\ Goto("escape")
    BY <2>1, <2>3, <2>5, <1>8, <1>9
  <2>6. CASE Collect("string", c)
    BY <2>1, <2>3, <2>6, <1>3, <1>7
  <2>7. QED
    BY <2>2, <2>4, <2>5, <2>6
<1>20. CASE Escape
  <2>1. first' = first /\ pos' = pos /\ quotePos' = quotePos
    BY <1>20 DEF Escape
  <2>2. \/ Collect("string", Unescaped(c))
        \/ lit' = lit /\ EndString("BADESCAPE", q, <<"\\", c>>)
    BY <1>2, <1>20 DEF Escape
  <2>3. "string" \in Places /\ Unescaped(c) \in Rune /\ <<"\\", c>> \in Seq(Rune)
    BY <1>3, NamedRunes DEF Places, Unescaped
  <2>4. QED
    BY <2>1, <2>2, <2>3, <1>3, <1>7, <1>8, EndStringTypes
<1>21. CASE Digits
  <2>1. first' = first /\ pos' = pos /\ quotePos' = quotePos
    BY <1>21 DEF Digits
  <2>2. \/ Collect("digits", c) \/ Collect("fraction", c)
        \/ lit' = lit /\ (Goto("point") \/ Return("NUMBER", pos, lit))
    BY <1>2, <1>21 DEF Digits
  <2>3. {"digits", "fraction", "point"} \subseteq Places /\ "NUMBER" \in Kinds
    BY DEF Places, Tokens, Kinds
  <2>4. QED
    BY <2>1, <2>2, <2>3, <1>3, <1>4, <1>7, <1>8, <1>9, <1>10
<1>22. CASE Point
  <2>1. UNCHANGED token /\ (Goto("tenths") \/ Goto("unit"))
    BY <1>22 DEF Point
  <2>2. QED
    BY <2>1, <1>6 DEF Ends, Places
<1>23. CASE Tenths
  <2>1. first' = first /\ pos' = pos /\ quotePos' = quotePos
    BY <1>23 DEF Tenths
  <2>2. \/ lit' = lit \o <<".", c>> /\ Goto("fraction")
        \/ lit' = lit /\ Return("NUMBER", pos, lit)
    BY <1>2, <1>23 DEF Tenths
  <2>3. lit \o <<".", c>> \in Seq(Rune)
    <3>1. <<".", c>> \in Seq(Rune)
      BY <1>3, NamedRunes
    <3>2. QED
      BY <3>1, <1>4
  <2>4. PartsTyped'
    BY <2>1, <2>2, <2>3, <1>4 DEF PartsTyped
  <2>5. "fraction" \in Places /\ "NUMBER" \in Kinds
    BY DEF Places, Tokens, Kinds
  <2>6. QED
    BY <2>2, <2>4, <2>5, <1>4, <1>9, <1>10
<1>24. CASE Unit \/ Units \/ Mixed
  <2>1. first' = first /\ pos' = pos /\ quotePos' = quotePos
    BY <1>24 DEF Unit, Units, Mixed
  <2>2. \/ Collect("units", c) \/ Collect("mixed", c)
        \/ lit' = lit /\ \/ Goto("mixed") \/ Return("INTEGER", pos, lit)
                         \/ Return("DURATIONVAL", pos, lit)
    BY <1>2, <1>24 DEF Unit, Units, Mixed
  <2>3. {"units", "mixed"} \subseteq Places /\ {"INTEGER", "DURATIONVAL"} \subseteq Kinds
    BY DEF Places, Tokens, Kinds
  <2>4. QED
    BY <2>1, <2>2, <2>3, <1>3, <1>4, <1>7, <1>8, <1>9, <1>10
<1>25. CASE Regex
  <2>1. first' = first /\ pos' = pos /\ quotePos' = quotePos
    BY <1>25 DEF Regex
  <2>2. \/ Collect("regex", c)
        \/ lit' = lit /\ \/ Goto("regexEscape") \/ Return("REGEX", pos, lit)
                         \/ Return("BADREGEX", pos, <<>>)
    BY <1>2, <1>25 DEF Regex
  <2>3. {"regex", "regexEscape"} \subseteq Places /\ {"REGEX", "BADREGEX"} \subseteq Kinds
    BY DEF Places, Tokens, Kinds
  <2>4. QED
    BY <2>1, <2>2, <2>3, <1>3, <1>4, <1>5, <1>7, <1>8, <1>9, <1>10
<1>26. CASE RegexEscape
  <2>1. first' = first /\ pos' = pos /\ quotePos' = quotePos
    BY <1>26 DEF RegexEscape
  <2>2. \/ Collect("regex", c)
        \/ lit' = lit /\ Return("BADREGEX", pos, <<>>)
        \/ lit' = Append(lit, "\\") /\ Goto("regex")
    BY <1>2, <1>26 DEF RegexEscape
  <2>3. "regex" \in Places /\ "BADREGEX" \in Kinds
    BY DEF Places, Tokens, Kinds
  <2>4. CASE lit' = Append(lit, "\\") /\ Goto("regex")
    <3>1. lit' \in Seq(Rune)
      BY <2>4, <1>4, NamedRunes
    <3>2. QED
      BY <2>1, <2>3, <2>4, <3>1, <1>4, <1>9 DEF PartsTyped
  <2>5. QED
    BY <2>1, <2>2, <2>3, <2>4, <1>3, <1>4, <1>5, <1>7, <1>8, <1>10
<1>27. QED
  BY <1>11, <1>12, <1>13, <1>14, <1>15, <1>16, <1>17, <1>18, <1>19, <1>20, <1>21,
     <1>22, <1>23, <1>24, <1>25, <1>26 DEF Continue

TokenRecord ==
  [tok : Tokens, pos : Position, lit : Seq(Rune), from : Nat, to : Nat]

TokensTyped ==
  pc \in Places \cup {"done"} /\ peeked \in BOOLEAN /\ PartsTyped /\ toks \in Seq(TokenRecord)

\* Every step keeps the types.
LEMMA NextTypes ==
  ASSUME ReaderInv, PlaceInv, TokensTyped, [Next]_vars
  PROVE  TokensTyped'
<1>1. PartsTyped /\ pc \in Places \cup {"done"} /\ toks \in Seq(TokenRecord) /\ peeked \in BOOLEAN
  BY DEF TokensTyped
<1>2. Consumed' \in Nat /\ from' \in Nat
  BY StepReads, NextPlace DEF PlaceInv
<1>3. ASSUME PartsTyped', Ends(Tokens) PROVE TokensTyped'
  <2>1. ASSUME NEW p \in Places, Goto(p) PROVE TokensTyped'
    <3>1. pc' = p /\ toks' = toks /\ peeked' = peeked
      BY <2>1 DEF Goto
    <3>2. QED
      BY <1>1, <1>3, <2>1, <3>1 DEF TokensTyped
  <2>2. ASSUME NEW t \in Tokens, NEW p \in Position, NEW l \in Seq(Rune), Return(t, p, l)
        PROVE  TokensTyped'
    <3>1. PICK r : r = [tok |-> t, pos |-> p, lit |-> l, from |-> from', to |-> Consumed']
      OBVIOUS
    <3>2. r \in TokenRecord
      BY <3>1, <1>2 DEF TokenRecord
    <3>3. toks' = Append(toks, r) /\ pc' \in {"idle", "done"} /\ peeked' = FALSE
      BY <2>2, <3>1 DEF Return, Consumed
    <3>4. toks' \in Seq(TokenRecord)
      BY <1>1, <3>2, <3>3
    <3>5. pc' \in Places \cup {"done"} /\ peeked' \in BOOLEAN
      BY <3>3 DEF Places
    <3>6. QED
      BY <1>3, <3>4, <3>5 DEF TokensTyped
  <2>3. QED
    BY <1>3, <2>1, <2>2 DEF Ends
<1>4. CASE Scan
  BY <1>1, <1>3, <1>4, ScanTypes
<1>5. CASE Continue
  <2>1. PartsTyped' /\ Ends(Kinds)
    BY <1>1, <1>5, ContinueTypes
  <2>2. QED
    BY <2>1, <1>3 DEF Ends, Kinds
<1>6. CASE Peek
  <2>1. UNCHANGED token /\ pc' = pc /\ toks' = toks /\ peeked' = TRUE
    BY <1>6 DEF Peek
  <2>2. PartsTyped'
    BY <2>1, <1>1 DEF PartsTyped, token
  <2>3. QED
    BY <2>1, <2>2, <1>1 DEF TokensTyped
<1>7. CASE ScanRegex
  <2>1. /\ pos' = Curr(rd).pos /\ lit' = <<>> /\ first' = first
        /\ quotePos' = quotePos /\ Goto("regex")
    BY <1>7 DEF ScanRegex, StartAt
  <2>2. PartsTyped'
    BY <2>1, <1>1, StepTypes DEF PartsTyped
  <2>3. QED
    BY <2>1, <2>2, <1>3 DEF Ends, Places
<1>8. CASE UNCHANGED vars
  BY <1>1, <1>8 DEF vars, TokensTyped, PartsTyped
<1>9. QED
  BY <1>4, <1>5, <1>6, <1>7, <1>8 DEF Next, Finished

\* The types are right at the start.
LEMMA InitTypes == Init => TokensTyped
<1>1. NUL \in Rune /\ PosZero \in Position
  BY RuneAssumption DEF PosZero, Position
<1>2. ASSUME Init PROVE TokensTyped
  <2>1. /\ pc = "idle" /\ first = NUL /\ lit = <<>> /\ pos = PosZero
        /\ quotePos = PosZero /\ peeked = FALSE /\ toks = <<>>
    BY <1>2 DEF Init
  <2>2. PartsTyped
    BY <1>1, <2>1 DEF PartsTyped
  <2>3. toks \in Seq(TokenRecord)
    BY <2>1
  <2>4. peeked \in BOOLEAN
    BY <2>1
  <2>5. QED
    BY <2>1, <2>2, <2>3, <2>4 DEF TokensTyped, Places
<1>3. QED
  BY <1>2

\* The tokens are typed in every behaviour of the scanner.
LEMMA TokensInvariant == Spec => []TokensTyped
<1>1. ReaderInv /\ PlaceInv /\ TokensTyped /\ [Next]_vars => TokensTyped'
  BY NextTypes
<1>2. QED
  BY <1>1, InitTypes, ReaderInvariant, PlaceInvariant, PTL DEF Spec

\* Scan, ScanRegex and the reader keep every variable in its type: every token
\* returned is one of token.go's, with the position and the literal of one.
THEOREM ScannerTypeCorrect == Spec => []TypeOK
<1>1. ReaderInv /\ PlaceInv /\ TokensTyped => TypeOK
  BY DEF ReaderInv, PlaceInv, TokensTyped, PartsTyped, TypeOK, Places, TokenRecord
<1>2. QED
  BY <1>1, ReaderInvariant, PlaceInvariant, TokensInvariant, PTL

----------------------------------------------------------------------------
(* The end of the text.                                                    *)

\* The scanner is done only when it has read rune(0) at the start of a token.
LEMMA DoneAtTheEnd ==
  ASSUME ReaderInv, PlaceInv, TokensTyped, Next, pc' = "done"
  PROVE  UNCHANGED vars \/ (Take(0) /\ Next1.ch = NUL)
<1>1. ASSUME NEW t \in Kinds, NEW p, NEW l, Return(t, p, l) PROVE FALSE
  BY <1>1 DEF Return, Kinds
<1>2. ASSUME NEW p, p # "done", Goto(p) PROVE FALSE
  BY <1>2 DEF Goto
<1>3. "done" \notin Places
  BY DEF Places
<1>4. CASE Scan
  <2>1. CASE ScanWhitespace \/ ScanIdent \/ ScanParam \/ ScanQuoted \/ ScanNumber \/ ScanOperator
    BY <1>2, <2>1 DEF ScanWhitespace, ScanIdent, ScanParam, ScanQuoted, ScanNumber,
                      ScanOperator
  <2>2. CASE ScanSingle
    BY <1>1, <2>2, OperatorTokens DEF ScanSingle
  <2>3. CASE ScanIllegal
    <3>1. "ILLEGAL" \in Kinds
      BY DEF Kinds, Tokens
    <3>2. QED
      BY <1>1, <2>3, <3>1 DEF ScanIllegal
  <2>4. CASE ScanEOF
    BY <2>4 DEF ScanEOF
  <2>5. QED
    BY <1>4, <2>1, <2>2, <2>3, <2>4 DEF Scan
<1>5. CASE Continue
  <2>1. Ends(Kinds)
    BY <1>5, ContinueTypes DEF TokensTyped
  <2>2. QED
    BY <1>1, <1>2, <1>3, <2>1 DEF Ends
<1>6. CASE Peek
  BY <1>6 DEF Peek
<1>7. CASE ScanRegex
  BY <1>2, <1>7 DEF ScanRegex
<1>8. QED
  BY <1>4, <1>5, <1>6, <1>7 DEF Next, Finished

\* The text has been read to its end, or to a NUL rune in it.
Ended == rd.at > Len(rd.in) \/ \E j \in DOMAIN rd.in : rd.in[j] = NUL

\* The reader gives rune(0) only then.
EndInv ==
  /\ (\E m \in 1 .. Len(seen) : seen[m] = NUL) => Ended
  /\ pc = "done" => \E m \in 1 .. Len(seen) : seen[m] = NUL

\* A read() takes the pushed-back runes first, and then those of the text.
LEMMA TakeFetches ==
  ASSUME ReaderInv, NEW k \in 0 .. 2, Take(k)
  PROVE  /\ rd'.in = rd.in /\ rd'.n \in Nat
         /\ rd.n > 0 => rd'.at = rd.at /\ rd'.pos = rd.pos /\ rd'.eof = rd.eof
                        /\ rd'.buf = rd.buf /\ rd'.i = rd.i /\ seen' = seen
         /\ rd.n = 0 =>
              /\ rd'.at = rd.at + Width(rd)
              /\ seen' = Append(seen, Delivered(rd))
              /\ rd'.pos = Advance(rd.pos, Delivered(rd), rd.eof)
              /\ rd'.eof = (rd.eof \/ Delivered(rd) = NUL)
              /\ rd'.i = Fetch(rd).i /\ rd'.buf = Fetch(rd).buf
              /\ Next1 = Fetch(rd).buf[Fetch(rd).i]
<1>1. rd \in Reader /\ rd.n \in Nat /\ k \in Nat
  BY DEF ReaderInv, Reader
<1>2. /\ Read(rd) \in Reader
      /\ rd' = [Read(rd) EXCEPT !.n = Read(rd).n + k]
  BY <1>1, ReadType DEF Take, Unread
<1>3. CASE rd.n > 0
  <2>1. Read(rd) = [rd EXCEPT !.n = rd.n - 1]
    BY <1>3 DEF Read
  <2>2. rd' = [rd EXCEPT !.n = rd.n - 1 + k]
    BY <1>1, <1>2, <2>1 DEF Reader
  <2>3. seen' = seen
    BY <1>3 DEF Take
  <2>4. QED
    BY <1>1, <1>3, <2>2, <2>3 DEF Reader
<1>4. CASE rd.n = 0
  <2>1. Read(rd) = Fetch(rd) /\ Fetch(rd).n = 0
    BY <1>1, <1>4, FetchType DEF Read
  <2>2. rd' = [Fetch(rd) EXCEPT !.n = k]
    BY <1>1, <1>2, <2>1
  <2>3. Next1 = Fetch(rd).buf[Fetch(rd).i] /\ Next1.ch = Delivered(rd)
    <3>1. rd.i \in 0 .. 2
      BY <1>1 DEF BufLen, Reader
    <3>2. /\ Fetch(rd).i = (rd.i + 1) % BufLen
          /\ Fetch(rd).buf[(rd.i + 1) % BufLen].ch = Delivered(rd)
      BY <1>1, FetchType
    <3>3. (Fetch(rd).i - 0 + BufLen) % BufLen = Fetch(rd).i
      <4>1. PICK i \in 0 .. 2 : i = Fetch(rd).i
        BY <3>1, <3>2 DEF BufLen
      <4>2. (i - 0 + 3) % 3 = i
        OBVIOUS
      <4>3. QED
        BY <4>1, <4>2 DEF BufLen
    <3>4. Next1 = Fetch(rd).buf[Fetch(rd).i]
      BY <2>1, <3>3 DEF Next1, Curr
    <3>5. QED
      BY <3>2, <3>4
  <2>4. /\ Fetch(rd).in = rd.in /\ Fetch(rd).at = rd.at + Width(rd)
        /\ Fetch(rd).pos = Advance(rd.pos, Delivered(rd), rd.eof)
        /\ Fetch(rd).eof = (rd.eof \/ Delivered(rd) = NUL)
    BY <1>1 DEF Fetch, Reader
  <2>5. /\ rd'.in = Fetch(rd).in /\ rd'.at = Fetch(rd).at /\ rd'.pos = Fetch(rd).pos
        /\ rd'.eof = Fetch(rd).eof /\ rd'.n = k /\ rd'.i = Fetch(rd).i
        /\ rd'.buf = Fetch(rd).buf
    <3>1. Fetch(rd) \in Reader
      BY <1>1, FetchType
    <3>2. QED
      BY <2>2, <3>1 DEF Reader
  <2>6. seen' = Append(seen, Next1.ch)
    BY <1>4 DEF Take
  <2>7. QED
    BY <1>1, <1>4, <2>3, <2>4, <2>5, <2>6
<1>5. QED
  BY <1>1, <1>3, <1>4

\* Rune(0) is given at the end of the text, or for a NUL rune in it.
LEMMA EndIsDelivered ==
  ASSUME ReaderInv, Delivered(rd) = NUL
  PROVE  Ended
<1>1. rd.at \in Nat \ {0} /\ rd.in \in Seq(Rune)
  BY DEF ReaderInv, Reader
<1>2. Pending(rd) = NUL
  BY NotTheEnd DEF Delivered
<1>3. CASE rd.at > Len(rd.in)
  BY <1>3 DEF Ended
<1>4. CASE ~ (rd.at > Len(rd.in))
  <2>1. rd.in[rd.at] = NUL
    BY <1>2, <1>4 DEF Pending, Exhausted
  <2>2. rd.at \in DOMAIN rd.in
    BY <1>1, <1>4
  <2>3. QED
    BY <2>1, <2>2 DEF Ended
<1>5. QED
  BY <1>3, <1>4

\* Every step keeps it.
LEMMA NextEnd ==
  ASSUME ReaderInv, PlaceInv, TokensTyped, EndInv, [Next]_vars
  PROVE  EndInv'
<1>1. CASE UNCHANGED vars
  BY <1>1 DEF vars, EndInv, Ended
<1>2. CASE Next /\ \E k \in 0 .. 2 : Take(k)
  <2>1. PICK k \in 0 .. 2 : Take(k)
    BY <1>2
  <2>2. /\ rd'.in = rd.in
        /\ rd.n > 0 => rd'.at = rd.at /\ seen' = seen
        /\ rd.n = 0 => rd'.at = rd.at + Width(rd) /\ seen' = Append(seen, Delivered(rd))
    BY <2>1, TakeFetches
  <2>3. rd \in Reader /\ rd.n \in Nat /\ rd.at \in Nat /\ rd.in \in Seq(Rune) /\ Width(rd) \in Nat
        /\ seen \in Seq(Rune) /\ Delivered(rd) \in Rune
    BY SourceType DEF ReaderInv, Reader
  <2>4. Ended => Ended'
    <3>1. rd'.at >= rd.at
      BY <2>2, <2>3
    <3>2. Len(rd.in) \in Nat /\ rd'.at \in Nat
      BY <2>2, <2>3
    <3>3. CASE rd.at > Len(rd.in)
      <4>1. rd'.at > Len(rd'.in)
        BY <2>2, <2>3, <3>1, <3>2, <3>3
      <4>2. QED
        BY <4>1 DEF Ended
    <3>4. QED
      BY <2>2, <3>3 DEF Ended
  <2>5. (\E m \in 1 .. Len(seen') : seen'[m] = NUL) => Ended'
    <3>1. CASE rd.n > 0
      BY <2>2, <2>4, <3>1 DEF EndInv
    <3>2. CASE rd.n = 0
      <4> SUFFICES ASSUME NEW m \in 1 .. Len(seen'), seen'[m] = NUL PROVE Ended
        BY <2>4
      <4>1. (m \in 1 .. Len(seen) /\ seen[m] = NUL) \/ Delivered(rd) = NUL
        BY <2>2, <2>3, <3>2
      <4>2. QED
        BY <4>1, EndIsDelivered DEF EndInv
    <3>3. QED
      BY <2>3, <3>1, <3>2
  <2>6. pc' = "done" => \E m \in 1 .. Len(seen') : seen'[m] = NUL
    <3> SUFFICES ASSUME pc' = "done" PROVE \E m \in 1 .. Len(seen') : seen'[m] = NUL
      OBVIOUS
    <3>1. CASE UNCHANGED vars
      BY <3>1 DEF vars, EndInv
    <3>2. CASE Take(0) /\ Next1.ch = NUL
      <4>1. /\ Consumed \in Nat /\ Consumed < Len(seen') /\ seen'[Consumed + 1] = NUL
            /\ Len(seen') \in Nat
        BY <3>2, StepReads
      <4>2. Consumed + 1 \in 1 .. Len(seen')
        BY <4>1
      <4>3. QED
        BY <4>1, <4>2
    <3>3. QED
      BY <1>2, <3>1, <3>2, DoneAtTheEnd
  <2>7. QED
    BY <2>5, <2>6 DEF EndInv
<1>3. QED
  BY <1>1, <1>2, OneRead

\* Scan returns EOF only when the whole text has been read, or at a NUL rune in
\* it: no text is cut short by a rune the scanner cannot read.
THEOREM ScannerEndIsTheEnd == Spec => []EndIsTheEnd
<1>1. Init => EndInv
  <2>1. ASSUME Init PROVE pc = "idle" /\ seen = <<>>
    BY <2>1 DEF Init
  <2>2. QED
    BY <2>1 DEF EndInv
<1>2. ReaderInv /\ PlaceInv /\ TokensTyped /\ EndInv /\ [Next]_vars => EndInv'
  BY NextEnd
<1>3. EndInv => EndIsTheEnd
  BY DEF EndInv, EndIsTheEnd, Ended
<1>4. QED
  BY <1>1, <1>2, <1>3, ReaderInvariant, PlaceInvariant, TokensInvariant, PTL DEF Spec

----------------------------------------------------------------------------
(* Counting.                                                               *)

\* How many of the numbers from a to b are in S.
Tally(S, a, b) == Cardinality({j \in a .. b : j \in S})

\* The numbers counted are finitely many.
LEMMA TallyFinite ==
  ASSUME NEW S, NEW a \in Int, NEW b \in Int
  PROVE  IsFiniteSet({j \in a .. b : j \in S})
<1>1. IsFiniteSet(a .. b)
  BY FS_Interval
<1>2. {j \in a .. b : j \in S} \in SUBSET (a .. b)
  OBVIOUS
<1>3. QED
  BY <1>1, <1>2, FS_Subset

\* So their count is a number.
LEMMA TallyType ==
  ASSUME NEW S, NEW a \in Int, NEW b \in Int
  PROVE  Tally(S, a, b) \in Nat
BY TallyFinite, FS_CardinalityType DEF Tally

\* No numbers.
LEMMA TallyEmpty ==
  ASSUME NEW S, NEW a \in Int, NEW b \in Int, a > b
  PROVE  Tally(S, a, b) = 0
<1>1. {j \in a .. b : j \in S} = {}
  OBVIOUS
<1>2. QED
  BY <1>1, FS_EmptySet DEF Tally

\* One number more.
LEMMA TallyNext ==
  ASSUME NEW S, NEW a \in Int, NEW b \in Int, a <= b + 1
  PROVE  Tally(S, a, b + 1) = IF b + 1 \in S THEN Tally(S, a, b) + 1 ELSE Tally(S, a, b)
<1> DEFINE T == {j \in a .. b : j \in S}
           U == {j \in a .. b + 1 : j \in S}
<1>1. IsFiniteSet(T)
  BY TallyFinite
<1>2. CASE b + 1 \in S
  <2>1. U = T \cup {b + 1}
    BY <1>2
  <2>2. b + 1 \notin T
    OBVIOUS
  <2>3. Cardinality(T \cup {b + 1}) = Cardinality(T) + 1
    BY <1>1, <2>2, FS_AddElement
  <2>4. QED
    BY <1>2, <2>1, <2>3 DEF Tally
<1>3. CASE b + 1 \notin S
  <2>1. U = T
    BY <1>3
  <2>2. QED
    BY <1>3, <2>1 DEF Tally
<1>4. QED
  BY <1>2, <1>3

\* More numbers are not fewer.
LEMMA TallyGrows ==
  ASSUME NEW S, NEW a \in Int, NEW b \in Int, NEW c \in Int, b <= c
  PROVE  Tally(S, a, b) <= Tally(S, a, c)
<1>1. {j \in a .. b : j \in S} \in SUBSET {j \in a .. c : j \in S}
  OBVIOUS
<1>2. IsFiniteSet({j \in a .. c : j \in S})
  BY TallyFinite
<1>3. QED
  BY <1>1, <1>2, FS_Subset DEF Tally

\* Only the numbers from a to b matter.
LEMMA TallySame ==
  ASSUME NEW S, NEW T, NEW a, NEW b, \A j \in a .. b : j \in S <=> j \in T
  PROVE  Tally(S, a, b) = Tally(T, a, b)
<1>1. {j \in a .. b : j \in S} = {j \in a .. b : j \in T}
  OBVIOUS
<1>2. QED
  BY <1>1 DEF Tally

----------------------------------------------------------------------------
(* What read() has delivered is the text.                                  *)

\* The numbers of the runes of the text that are kept.
KeptOnes == {j \in Nat : Kept(j)}

\* The runes of the text that are delivered are counted so.
LEMMA KeptIsATally ==
  ASSUME NEW j \in Nat
  PROVE  KeptUpTo(j) = Tally(KeptOnes, 1, j)
<1>1. {k \in 1 .. j : Kept(k)} = {k \in 1 .. j : k \in KeptOnes}
  BY DEF KeptOnes
<1>2. QED
  BY <1>1 DEF KeptUpTo, Tally

\* As long as there is text, every rune that is kept has been delivered, and
\* the next one will be kept.
TextInv ==
  /\ DeliversTheText
  /\ rd.at <= Len(rd.in) + 1
  /\ rd.at <= Len(rd.in) => Kept(rd.at) /\ KeptUpTo(rd.at - 1) = Len(seen)

\* One more rune is kept, or none.
LEMMA KeptNext ==
  ASSUME NEW j \in Nat
  PROVE  /\ KeptUpTo(j) \in Nat /\ KeptUpTo(0) = 0
         /\ KeptUpTo(j + 1) = IF Kept(j + 1) THEN KeptUpTo(j) + 1 ELSE KeptUpTo(j)
         /\ \A i \in 0 .. j : KeptUpTo(i) <= KeptUpTo(j)
<1>1. KeptUpTo(j) \in Nat /\ KeptUpTo(0) = 0
  <2>1. Tally(KeptOnes, 1, j) \in Nat /\ Tally(KeptOnes, 1, 0) = 0
    <3>1. 1 \in Int /\ 0 \in Int /\ j \in Int /\ 1 > 0
      OBVIOUS
    <3>2. QED
      BY <3>1, TallyType, TallyEmpty
  <2>2. KeptUpTo(j) = Tally(KeptOnes, 1, j) /\ KeptUpTo(0) = Tally(KeptOnes, 1, 0)
    BY KeptIsATally
  <2>3. QED
    BY <2>1, <2>2
<1>2. KeptUpTo(j + 1) = IF Kept(j + 1) THEN KeptUpTo(j) + 1 ELSE KeptUpTo(j)
  <2>1. Tally(KeptOnes, 1, j + 1) =
          IF j + 1 \in KeptOnes THEN Tally(KeptOnes, 1, j) + 1 ELSE Tally(KeptOnes, 1, j)
    BY TallyNext
  <2>2. j + 1 \in KeptOnes <=> Kept(j + 1)
    BY DEF KeptOnes
  <2>3. KeptUpTo(j + 1) = Tally(KeptOnes, 1, j + 1) /\ KeptUpTo(j) = Tally(KeptOnes, 1, j)
    BY KeptIsATally
  <2>4. QED
    BY <2>1, <2>2, <2>3
<1>3. ASSUME NEW i \in 0 .. j PROVE KeptUpTo(i) <= KeptUpTo(j)
  <2>1. Tally(KeptOnes, 1, i) <= Tally(KeptOnes, 1, j)
    BY TallyGrows
  <2>2. QED
    BY <2>1, KeptIsATally
<1>4. QED
  BY <1>1, <1>2, <1>3

\* What is kept depends on the text alone.
LEMMA KeptStays ==
  ASSUME rd'.in = rd.in
  PROVE  /\ \A j : Kept(j)' = Kept(j)
         /\ \A j : KeptUpTo(j)' = KeptUpTo(j)
<1>1. ASSUME NEW j PROVE Kept(j)' = Kept(j)
  BY DEF Kept
<1>2. ASSUME NEW j PROVE KeptUpTo(j)' = KeptUpTo(j)
  <2>1. {k \in 1 .. j : Kept(k)}' = {k \in 1 .. j : Kept(k)}
    BY DEF Kept
  <2>2. QED
    BY <2>1 DEF KeptUpTo
<1>3. QED
  BY <1>1, <1>2

\* A read() that takes runes of the text.
LEMMA NextOfTheText ==
  ASSUME rd \in Reader, rd' \in Reader, seen \in Seq(Rune), TextInv, rd'.in = rd.in,
         rd.at <= Len(rd.in), rd'.at = rd.at + Width(rd), seen' = Append(seen, Delivered(rd))
  PROVE  TextInv'
<1>1. PICK i, a, w : i = rd.in /\ a = rd.at /\ w = Width(rd)
  OBVIOUS
<1>2. /\ i \in Seq(Rune) /\ a \in Nat \ {0} /\ Len(i) \in Nat /\ a <= Len(i)
      /\ Delivered(rd) \in Rune
  BY <1>1, SourceType DEF Reader
<1>3. w = IF i[a] = CR /\ a < Len(i) /\ i[a + 1] = LF THEN 2 ELSE 1
  BY <1>1, <1>2 DEF Width, Exhausted
<1>4. Delivered(rd) = IF i[a] = CR THEN LF ELSE i[a]
  BY <1>1, <1>2 DEF Delivered, Pending, Exhausted
<1>5. PICK n : n = Len(seen)
  OBVIOUS
<1>6. /\ n \in Nat /\ Len(seen') = n + 1 /\ seen'[n + 1] = Delivered(rd)
      /\ \A m \in 1 .. n : seen'[m] = seen[m]
  BY <1>2, <1>5
<1>7. /\ Kept(a) /\ KeptUpTo(a - 1) = n
      /\ \A j \in 1 .. a - 1 : Kept(j) => seen[KeptUpTo(j)] = IF i[j] = CR THEN LF ELSE i[j]
  BY <1>1, <1>2, <1>5 DEF TextInv, DeliversTheText
<1>8. KeptUpTo(a) = n + 1
  <2>1. a - 1 \in Nat /\ (a - 1) + 1 = a
    BY <1>2
  <2>2. KeptUpTo((a - 1) + 1) = IF Kept((a - 1) + 1) THEN KeptUpTo(a - 1) + 1 ELSE KeptUpTo(a - 1)
    BY <2>1, KeptNext
  <2>3. QED
    BY <2>1, <2>2, <1>7
<1>9. ASSUME w = 2 PROVE ~ Kept(a + 1)
  <2>1. i[a + 1] = LF /\ i[a] = CR /\ a + 1 > 1 /\ (a + 1) - 1 = a
    BY <1>2, <1>3, <1>9
  <2>2. QED
    BY <2>1, <1>1 DEF Kept
<1>10. KeptUpTo(a + w - 1) = n + 1
  <2>1. CASE w = 1
    BY <2>1, <1>2, <1>8
  <2>2. CASE w = 2
    <3>1. KeptUpTo(a + 1) = IF Kept(a + 1) THEN KeptUpTo(a) + 1 ELSE KeptUpTo(a)
      BY <1>2, KeptNext
    <3>2. a + w - 1 = a + 1
      BY <2>2, <1>2
    <3>3. QED
      BY <2>2, <3>1, <3>2, <1>8, <1>9
  <2>3. QED
    BY <1>3, <2>1, <2>2
<1>11. a + w <= Len(i) + 1
  BY <1>2, <1>3
<1>12. ASSUME NEW j \in 1 .. a + w - 1, Kept(j)
       PROVE  seen'[KeptUpTo(j)] = IF i[j] = CR THEN LF ELSE i[j]
  <2>1. CASE j < a
    <3>1. j \in 1 .. a - 1 /\ j - 1 \in Nat /\ (j - 1) + 1 = j /\ a - 1 \in Nat
          /\ j \in 0 .. a - 1
      BY <2>1, <1>2
    <3>2. KeptUpTo((j - 1) + 1) = KeptUpTo(j - 1) + 1 /\ KeptUpTo(j - 1) \in Nat
      BY <3>1, <1>12, KeptNext
    <3>3. KeptUpTo(j) <= n
      BY <3>1, <1>7, KeptNext
    <3>4. KeptUpTo(j) \in 1 .. n
      BY <3>1, <3>2, <3>3, <1>6
    <3>5. seen'[KeptUpTo(j)] = seen[KeptUpTo(j)]
      BY <3>4, <1>6
    <3>6. QED
      BY <3>1, <3>5, <1>7, <1>12
  <2>2. CASE j = a
    BY <2>2, <1>4, <1>6, <1>8
  <2>3. CASE j > a
    <3>1. w = 2 /\ j = a + 1
      BY <2>3, <1>2, <1>3
    <3>2. QED
      BY <3>1, <1>9, <1>12
  <2>4. j < a \/ j = a \/ j > a
    BY <1>2
  <2>5. QED
    BY <2>1, <2>2, <2>3, <2>4
<1>13. ASSUME a + w <= Len(i) PROVE Kept(a + w)
  <2>1. CASE w = 1
    <3>1. a + w = a + 1 /\ (a + 1) - 1 = a /\ a < Len(i)
      BY <2>1, <1>2, <1>13
    <3>2. ~ (i[a + 1] = LF /\ i[a] = CR)
      BY <2>1, <3>1, <1>3
    <3>3. QED
      BY <3>1, <3>2, <1>1 DEF Kept
  <2>2. CASE w = 2
    <3>1. a + w = a + 2 /\ (a + 2) - 1 = a + 1 /\ i[a + 1] = LF
      BY <2>2, <1>2, <1>3
    <3>2. LF # CR
      BY RuneAssumption
    <3>3. QED
      BY <3>1, <3>2, <1>1 DEF Kept
  <2>3. QED
    BY <1>3, <2>1, <2>2
<1>14. /\ rd'.in = i /\ rd'.at = a + w
       /\ \A j : Kept(j)' = Kept(j)
       /\ \A j : KeptUpTo(j)' = KeptUpTo(j)
  BY <1>1, KeptStays
<1>15. (a + w) - 1 = a + w - 1
  BY <1>2, <1>3
<1>16. DeliversTheText'
  <2>1. KeptUpTo(rd.at - 1)' = n + 1
    BY <1>10, <1>14, <1>15
  <2>2. \A m \in n + 1 + 1 .. n + 1 : FALSE
    BY <1>6
  <2>3. n + 1 <= n + 1
    BY <1>6
  <2>4. \A j \in 1 .. rd'.at - 1 :
          Kept(j)' => seen'[KeptUpTo(j)'] = IF rd'.in[j] = CR THEN LF ELSE rd'.in[j]
    BY <1>12, <1>14, <1>15
  <2>5. QED
    BY <2>1, <2>2, <2>3, <2>4, <1>6 DEF DeliversTheText
<1>17. rd'.at <= Len(rd'.in) => Kept(rd.at)' /\ KeptUpTo(rd.at - 1)' = Len(seen')
  BY <1>6, <1>10, <1>13, <1>14, <1>15
<1>18. QED
  BY <1>11, <1>14, <1>16, <1>17 DEF TextInv

\* A read() behind the end of the text.
LEMMA NextBehindTheText ==
  ASSUME rd \in Reader, rd' \in Reader, seen \in Seq(Rune), TextInv, rd'.in = rd.in,
         rd.at > Len(rd.in), rd'.at = rd.at + Width(rd), seen' = Append(seen, Delivered(rd))
  PROVE  TextInv'
<1>1. PICK a, n, k : a = rd.at /\ n = Len(seen) /\ k = KeptUpTo(rd.at - 1)
  OBVIOUS
<1>2. /\ rd.in \in Seq(Rune) /\ a \in Nat \ {0} /\ Len(rd.in) \in Nat /\ n \in Nat
      /\ a - 1 \in Nat
  BY <1>1 DEF Reader
<1>3. rd'.at = a
  <2>1. Width(rd) = 0
    BY DEF Width, Exhausted
  <2>2. QED
    BY <2>1, <1>1, <1>2
<1>4. Delivered(rd) = NUL /\ NUL \in Rune
  BY RuneAssumption DEF Delivered, Pending, Exhausted
<1>5. /\ Len(seen') = n + 1 /\ seen'[n + 1] = NUL
      /\ \A m \in 1 .. n : seen'[m] = seen[m]
  BY <1>1, <1>4
<1>6. /\ \A j : Kept(j)' = Kept(j)
      /\ \A j : KeptUpTo(j)' = KeptUpTo(j)
  BY KeptStays
<1>7. k \in Nat /\ k <= n
  BY <1>1, <1>2, KeptNext DEF TextInv, DeliversTheText
<1>8. ASSUME NEW j \in 1 .. a - 1, Kept(j)
      PROVE  seen'[KeptUpTo(j)] = IF rd.in[j] = CR THEN LF ELSE rd.in[j]
  <2>1. j - 1 \in Nat /\ (j - 1) + 1 = j /\ j \in 0 .. a - 1
    BY <1>2
  <2>2. KeptUpTo((j - 1) + 1) = KeptUpTo(j - 1) + 1 /\ KeptUpTo(j - 1) \in Nat
    BY <2>1, <1>8, KeptNext
  <2>3. KeptUpTo(j) <= k
    BY <2>1, <1>1, <1>2, KeptNext
  <2>4. KeptUpTo(j) \in 1 .. n
    BY <2>1, <2>2, <2>3, <1>2, <1>7
  <2>5. seen[KeptUpTo(j)] = IF rd.in[j] = CR THEN LF ELSE rd.in[j]
    BY <1>1, <1>8 DEF TextInv, DeliversTheText
  <2>6. QED
    BY <2>4, <2>5, <1>5
<1>9. ASSUME NEW m \in k + 1 .. n + 1 PROVE seen'[m] = NUL
  <2>1. CASE m = n + 1
    BY <2>1, <1>5
  <2>2. CASE m \in k + 1 .. n
    <3>1. seen[m] = NUL
      BY <2>2, <1>1 DEF TextInv, DeliversTheText
    <3>2. m \in 1 .. n
      BY <2>2, <1>2, <1>7
    <3>3. QED
      BY <3>1, <3>2, <1>5
  <2>3. m = n + 1 \/ m \in k + 1 .. n
    BY <1>2, <1>7
  <2>4. QED
    BY <2>1, <2>2, <2>3
<1>10. k <= n + 1
  BY <1>2, <1>7
<1>11. DeliversTheText'
  <2>1. KeptUpTo(rd.at - 1)' = k
    BY <1>1, <1>3, <1>6
  <2>2. \A j \in 1 .. rd'.at - 1 :
          Kept(j)' => seen'[KeptUpTo(j)'] = IF rd'.in[j] = CR THEN LF ELSE rd'.in[j]
    BY <1>3, <1>6, <1>8
  <2>3. QED
    BY <2>1, <2>2, <1>5, <1>9, <1>10 DEF DeliversTheText
<1>12. rd'.at = rd.at /\ ~ (rd.at <= Len(rd.in))
  BY <1>1, <1>2, <1>3
<1>13. QED
  BY <1>11, <1>12 DEF TextInv

\* Every step keeps what has been delivered, and delivers the rune that is next.
LEMMA NextText ==
  ASSUME ReaderInv, TextInv, [Next]_vars
  PROVE  TextInv'
<1>1. ASSUME rd'.in = rd.in, rd'.at = rd.at, seen' = seen PROVE TextInv'
  <2>1. /\ \A j : Kept(j)' = Kept(j)
        /\ \A j : KeptUpTo(j)' = KeptUpTo(j)
    BY <1>1, KeptStays
  <2>2. KeptUpTo(rd.at - 1)' = KeptUpTo(rd.at - 1)
    BY <1>1, <2>1
  <2>3. DeliversTheText'
    BY <1>1, <2>1, <2>2 DEF TextInv, DeliversTheText
  <2>4. Kept(rd.at)' = Kept(rd.at)
    BY <1>1, <2>1
  <2>5. QED
    BY <1>1, <2>2, <2>3, <2>4 DEF TextInv
<1>2. CASE UNCHANGED vars
  BY <1>1, <1>2 DEF vars
<1>3. CASE \E k \in 0 .. 2 : Take(k)
  <2>1. PICK k \in 0 .. 2 : Take(k)
    BY <1>3
  <2>2. /\ rd'.in = rd.in
        /\ rd.n > 0 => rd'.at = rd.at /\ seen' = seen
        /\ rd.n = 0 => rd'.at = rd.at + Width(rd) /\ seen' = Append(seen, Delivered(rd))
    BY <2>1, TakeFetches
  <2>3. rd \in Reader /\ rd' \in Reader /\ seen \in Seq(Rune) /\ rd.n \in Nat
        /\ rd.at \in Nat /\ Len(rd.in) \in Nat
    BY NextReaderInv DEF ReaderInv, Reader
  <2>4. CASE rd.n > 0
    BY <2>2, <2>4, <1>1
  <2>5. CASE rd.n = 0 /\ rd.at <= Len(rd.in)
    BY <2>2, <2>3, <2>5, NextOfTheText
  <2>6. CASE rd.n = 0 /\ rd.at > Len(rd.in)
    BY <2>2, <2>3, <2>6, NextBehindTheText
  <2>7. QED
    BY <2>3, <2>4, <2>5, <2>6
<1>4. QED
  BY <1>2, <1>3, OneRead

\* Nothing has been delivered at the start.
LEMMA InitText == Init => TextInv
<1> SUFFICES ASSUME Init PROVE TextInv
  OBVIOUS
<1>1. rd.at = 1 /\ seen = <<>> /\ rd.in \in Seq(Rune)
  <2>1. PICK input \in Input : rd = NewReader(input)
    BY DEF Init
  <2>2. input \in Seq(Rune)
    BY NamedRunes
  <2>3. QED
    BY <2>1, <2>2 DEF Init, NewReader
<1>2. KeptUpTo(0) = 0
  BY KeptNext
<1>3. Kept(1)
  BY DEF Kept
<1>4. KeptUpTo(rd.at - 1) = 0 /\ Len(seen) = 0 /\ Len(rd.in) \in Nat
  BY <1>1, <1>2
<1>5. DeliversTheText
  BY <1>1, <1>4 DEF DeliversTheText
<1>6. QED
  BY <1>1, <1>3, <1>4, <1>5 DEF TextInv

\* The runes the scanner gets are those of the text, one for every line end,
\* and none but the mark of the end after them: however long the text, no rune
\* is lost, added or taken twice at the border of the ring.
THEOREM ScannerDeliversTheText == Spec => []DeliversTheText
<1>1. ReaderInv /\ TextInv /\ [Next]_vars => TextInv'
  BY NextText
<1>2. TextInv => DeliversTheText
  BY DEF TextInv
<1>3. QED
  BY <1>1, <1>2, InitText, ReaderInvariant, PTL DEF Spec
=============================================================================
