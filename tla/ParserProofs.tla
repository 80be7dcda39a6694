---------------------------- MODULE ParserProofs ----------------------------
(***************************************************************************)
(* Proofs about the parser and its token buffer, for every grammar that is *)
(* linked and balanced as GrammarAssumption and BalanceAssumption say,     *)
(* every alphabet and every text: no sequence of Unscans pushes back more  *)
(* than the ring holds, the ring always holds the tokens read last, and    *)
(* the buffer keeps the promise of Pushback.                               *)
(*                                                                         *)
(* The bound is not inductive: parseUnaryExpr and the rewind of            *)
(* parseCreateContinuousQueryStatement do push back two and three tokens.  *)
(* What makes it hold is where they do it: the next instruction is then a  *)
(* scan that pushes nothing back and, on a miss, ends the parse (Stops).   *)
(*                                                                         *)
(* That nothing is pushed back that was not read needs the whole stack of  *)
(* calls: a rule may push back what its caller read, so every call is lent *)
(* a number of tokens, and all that is lent is covered by the tokens that  *)
(* are consumed (Funded).                                                  *)
(*                                                                         *)
(* The same account, begun anew where a statement begins, shows that its   *)
(* functions never push back its first token, so that ParseQuery returns   *)
(* a statement for each that was begun (Counted).                          *)
(***************************************************************************)
EXTENDS QueryLoop, FiniteSetTheorems, TLAPS

----------------------------------------------------------------------------
(* The inductive invariant.                                                *)

Frame ==
  {f \in [rule : DOMAIN Rules, at : Nat, stage : {"blank", "consume", "start", "param", "read"}] :
     f.at \in 1 .. Len(Rules[f.rule])}

CallsOK == calls \in Seq(Frame)

IsSeq(s) == \E S : s \in Seq(S)

RingOK ==
  /\ ring = [i |-> ring.i, n |-> ring.n, buf |-> ring.buf]
  /\ ring.i \in 0 .. BufLen - 1
  /\ ring.n \in Nat
  /\ ring.buf = [k \in 0 .. BufLen - 1 |-> ring.buf[k]]

\* Two tokens are pushed back only before an instruction that stops, or when
\* nothing is left to do; three only before one that reads to report an error.
DepthOK ==
  \/ ring.n <= 1
  \/ ring.n <= 2 /\ calls = <<>>
  \/ ring.n <= 2 /\ calls # <<>> /\ Stops(Now, 1)
  \/ ring.n <= 3 /\ calls # <<>> /\ Stops(Now, 2)

Inv == CallsOK /\ RingOK /\ DepthOK /\ IsSeq(seen) /\ RingHoldsTheLastTokens

----------------------------------------------------------------------------
(* The calls.                                                              *)

\* A rule is a sequence of instructions.
LEMMA RuleIsSeq ==
  ASSUME NEW r \in DOMAIN Rules
  PROVE  Rules[r] \in Seq(Instruction) /\ Len(Rules[r]) \in Nat
BY GrammarAssumption

\* The next instruction is one of a linked rule.
LEMMA NowGood ==
  ASSUME CallsOK, calls # <<>>
  PROVE  /\ calls[1] \in Frame
         /\ WellFormed(Now)
         /\ Now.op = "unscan" =>
              /\ calls[1].at < Len(Rules[calls[1].rule])
              /\ Stops(Rules[calls[1].rule][calls[1].at + 1], Now.k)
<1>1. calls[1] \in Frame
  BY DEF CallsOK
<1> DEFINE r == calls[1].rule
           j == calls[1].at
<1>2. r \in DOMAIN Rules /\ j \in 1 .. Len(Rules[r])
  BY <1>1 DEF Frame
<1>3. Linked(Rules[r]) /\ j \in DOMAIN Rules[r]
  BY <1>2, RuleIsSeq, GrammarAssumption
<1>4. QED
  BY <1>1, <1>3 DEF Linked, Now

\* The calls that are left when an instruction has been run.
LEMMA AdvancedOK ==
  ASSUME CallsOK, calls # <<>>
  PROVE  Advanced \in Seq(Frame)
<1>1. calls[1] \in Frame /\ Tail(calls) \in Seq(Frame)
  BY DEF CallsOK
<1>2. CASE calls[1].at < Len(Rules[calls[1].rule])
  <2> DEFINE f == [rule |-> calls[1].rule, at |-> calls[1].at + 1, stage |-> "blank"]
  <2>1. f \in Frame
    BY <1>1, <1>2, RuleIsSeq DEF Frame
  <2>2. <<f>> \in Seq(Frame)
    BY <2>1
  <2>3. <<f>> \o Tail(calls) \in Seq(Frame)
    BY <1>1, <2>2
  <2>4. QED
    BY <1>2, <2>3 DEF Advanced
<1>3. CASE ~ calls[1].at < Len(Rules[calls[1].rule])
  BY <1>1, <1>3 DEF Advanced
<1>4. QED
  BY <1>2, <1>3

\* A rule that is entered starts at its first instruction.
LEMMA EnterOK ==
  ASSUME NEW r \in DOMAIN Rules, NEW rest \in Seq(Frame)
  PROVE  /\ Enter(r, rest) \in Seq(Frame)
         /\ Rules[r] # <<>> =>
              /\ Enter(r, rest) # <<>>
              /\ Enter(r, rest)[1].rule = r
              /\ Enter(r, rest)[1].at = 1
<1>1. CASE Rules[r] = <<>>
  BY <1>1 DEF Enter
<1>2. CASE Rules[r] # <<>>
  <2> DEFINE f == [rule |-> r, at |-> 1, stage |-> "blank"]
  <2>1. Len(Rules[r]) \in Nat \ {0}
    BY <1>2, RuleIsSeq
  <2>2. f \in Frame
    BY <2>1 DEF Frame
  <2>3. <<f>> \in Seq(Frame) /\ Len(<<f>>) = 1 /\ <<f>>[1] = f
    BY <2>2
  <2>4. /\ <<f>> \o rest \in Seq(Frame)
        /\ Len(<<f>> \o rest) >= 1
        /\ (<<f>> \o rest)[1] = f
    BY <2>3
  <2>5. QED
    BY <1>2, <2>4 DEF Enter
<1>3. QED
  BY <1>1, <1>2

\* A branch ends the parse, or goes on with the rule it names.
LEMMA GotoOK ==
  ASSUME CallsOK, calls # <<>>, NEW r \in RuleName, Goto(r)
  PROVE  /\ CallsOK'
         /\ r = "fail" => calls' = <<>>
         /\ (r # "fail" /\ Rules[r] # <<>>) =>
              calls' # <<>> /\ calls'[1].rule = r /\ calls'[1].at = 1
<1>1. CASE r = "fail"
  BY <1>1 DEF Goto, CallsOK
<1>2. CASE r # "fail"
  <2>1. r \in DOMAIN Rules
    BY <1>2 DEF RuleName
  <2>2. calls' = Enter(r, Advanced)
    BY <1>2 DEF Goto
  <2>3. QED
    BY <1>2, <2>1, <2>2, AdvancedOK, EnterOK DEF CallsOK
<1>3. QED
  BY <1>1, <1>2

\* Going on with the next instruction.
LEMMA RestOK ==
  ASSUME CallsOK, calls # <<>>, Rest
  PROVE  CallsOK'
BY AdvancedOK DEF Rest, CallsOK

\* Going on with the next stage of parseRegex.
LEMMA StageOK ==
  ASSUME CallsOK, calls # <<>>, NEW stage \in {"blank", "consume", "start", "param", "read"},
         Stage(stage)
  PROVE  CallsOK'
<1>1. calls[1] \in Frame
  BY DEF CallsOK
<1>2. [calls[1] EXCEPT !.stage = stage] \in Frame
  BY <1>1 DEF Frame
<1>3. calls' = [calls EXCEPT ![1] = [calls[1] EXCEPT !.stage = stage]]
  BY DEF Stage
<1>4. QED
  BY <1>2, <1>3 DEF CallsOK

----------------------------------------------------------------------------
(* The ring.                                                               *)

\* A token is read and k are pushed back: what the ring holds is still the
\* tokens read last.
LEMMA ReadOK ==
  ASSUME RingOK, IsSeq(seen), RingHoldsTheLastTokens,
         NEW x, NEW k \in Nat, Read(x, k)
  PROVE  /\ RingOK' /\ IsSeq(seen)' /\ RingHoldsTheLastTokens'
         /\ ring'.n = (IF ring.n > 0 THEN ring.n - 1 ELSE 0) + k
<1>1. CASE ring.n > 0
  <2>1. /\ ring'.i = ring.i /\ ring'.buf = ring.buf /\ ring'.n = ring.n - 1 + k
        /\ ring' = [i |-> ring'.i, n |-> ring'.n, buf |-> ring'.buf]
    BY <1>1 DEF Read, Unscan, ScanFunc, RingOK
  <2>2. seen' = seen
    BY <1>1 DEF Read
  <2>3. RingOK'
    BY <2>1, <1>1 DEF RingOK
  <2>4. QED
    BY <1>1, <2>1, <2>2, <2>3 DEF RingHoldsTheLastTokens, IsSeq, RingOK
<1>2. CASE ~ ring.n > 0
  <2> DEFINE i == (ring.i + 1) % BufLen
  <2>1. ring.n = 0 /\ i \in 0 .. BufLen - 1
    BY <1>2 DEF RingOK, BufLen
  <2> DEFINE b == [ring.buf EXCEPT ![i] = x]
  <2>2a. ring = [i |-> ring.i, n |-> ring.n, buf |-> ring.buf]
    BY DEF RingOK
  <2>2b. ScanFunc(ring, x) = [i |-> i, n |-> 0, buf |-> b]
    BY <1>2, <2>1, <2>2a, Zenon DEF ScanFunc
  <2>2c. ring' = [i |-> i, n |-> 0 + k, buf |-> b]
    BY <2>2b DEF Read, Unscan
  <2>2. /\ ring'.i = i /\ ring'.n = k /\ ring'.buf = [ring.buf EXCEPT ![i] = x]
        /\ ring' = [i |-> ring'.i, n |-> ring'.n, buf |-> ring'.buf]
    BY <2>2c
  <2>3. ring.buf = [j \in 0 .. BufLen - 1 |-> ring.buf[j]]
    BY DEF RingOK
  <2>4. /\ ring'.buf = [j \in 0 .. BufLen - 1 |-> IF j = i THEN x ELSE ring.buf[j]]
        /\ ring'.buf = [j \in 0 .. BufLen - 1 |-> ring'.buf[j]]
    BY <2>2, <2>3
  <2>5. RingOK'
    BY <2>1, <2>2, <2>4 DEF RingOK
  <2>6. PICK S : seen \in Seq(S)
    BY DEF IsSeq
  <2>7. seen' = Append(seen, x)
    BY <1>2 DEF Read
  <2>8. seen \in Seq(S \cup {x})
    BY <2>6
  <2>9. /\ seen' \in Seq(S \cup {x})
        /\ Len(seen) \in Nat
        /\ Len(seen') = Len(seen) + 1
        /\ seen'[Len(seen) + 1] = x
        /\ \A j \in 1 .. Len(seen) : seen'[j] = seen[j]
    BY <2>7, <2>8
  <2>10. IsSeq(seen)'
    BY <2>9 DEF IsSeq
  <2>11. RingHoldsTheLastTokens'
    <3> SUFFICES ASSUME NEW j \in 0 .. BufLen - 1, j < Len(seen')
                 PROVE  ring'.buf[(ring'.i - j + BufLen) % BufLen] = seen'[Len(seen') - j]
      BY DEF RingHoldsTheLastTokens
    <3>1. ring.i \in 0 .. 2 /\ j \in 0 .. 2 /\ BufLen = 3
      BY DEF RingOK, BufLen
    <3>2. CASE j = 0
      <4>1. (ring'.i - j + BufLen) % BufLen = i
        BY <2>1, <2>2, <3>1, <3>2
      <4>2. QED
        BY <2>1, <2>4, <2>9, <3>2, <4>1
    <3>3. CASE j # 0
      <4> DEFINE slot == (ring.i - (j - 1) + BufLen) % BufLen
      <4>1. /\ (ring'.i - j + BufLen) % BufLen = slot
            /\ slot # i /\ slot \in 0 .. BufLen - 1
        BY <2>2, <3>1, <3>3
      <4>2. ring'.buf[slot] = ring.buf[slot]
        BY <2>4, <4>1
      <4>3. j - 1 \in 0 .. BufLen - 1 /\ j - 1 < Len(seen)
        BY <2>9, <3>1, <3>3
      <4>4. ring.buf[slot] = seen[Len(seen) - (j - 1)]
        BY <4>3 DEF RingHoldsTheLastTokens
      <4>5. /\ Len(seen') - j = Len(seen) - (j - 1)
            /\ Len(seen) - (j - 1) \in 1 .. Len(seen)
        BY <2>9, <3>1, <3>3, <4>3
      <4>6. QED
        BY <2>9, <4>1, <4>2, <4>4, <4>5
    <3>4. QED
      BY <3>2, <3>3
  <2>12. QED
    BY <2>1, <2>2, <2>5, <2>10, <2>11
<1>3. QED
  BY <1>1, <1>2

\* Before anything but a scan, at most one token is pushed back.
LEMMA AtMostOne ==
  ASSUME RingOK, DepthOK, calls # <<>>, Now.op # "scan"
  PROVE  ring.n \in 0 .. 1
BY DEF DepthOK, RingOK, Stops

\* A step that reads nothing leaves the ring's part of the invariant alone.
LEMMA RingUnchanged ==
  ASSUME Inv, CallsOK', ring.n <= 1, UNCHANGED <<ring, seen>>
  PROVE  Inv'
BY DEF Inv, RingOK, DepthOK, IsSeq, RingHoldsTheLastTokens

----------------------------------------------------------------------------
(* The steps.                                                              *)

\* A blank is skipped: one token less is pushed back before the same scan.
LEMMA ScanBlankOK ==
  ASSUME Inv, ScanBlank
  PROVE  Inv'
<1>1. calls # <<>> /\ Now.op = "scan" /\ UNCHANGED <<calls, result>>
  BY DEF ScanBlank, Running
<1>2. PICK x : Read(x, 0)
  BY DEF ScanBlank
<1>3. /\ RingOK' /\ IsSeq(seen)' /\ RingHoldsTheLastTokens'
      /\ ring'.n = IF ring.n > 0 THEN ring.n - 1 ELSE 0
  BY <1>2, ReadOK DEF Inv, RingOK
<1>4. CallsOK' /\ Now' = Now
  BY <1>1 DEF Inv, CallsOK, Now
<1>5. Stops(Now, 2) => Stops(Now, 1)
  BY DEF Stops
<1>6. Stops(Now, 1) => Stops(Now', 1)
  BY <1>4 DEF Stops
<1>7. ring.n \in Nat /\ DepthOK
  BY DEF Inv, RingOK
<1>8. DepthOK'
  <2>1. CASE ring.n <= 2
    BY <1>3, <1>7, <2>1 DEF DepthOK
  <2>2. CASE ring.n > 2
    <3>1. Stops(Now, 1) /\ ring.n = 3
      BY <1>1, <1>5, <1>7, <2>2 DEF DepthOK
    <3>2. QED
      BY <1>1, <1>3, <1>6, <3>1 DEF DepthOK
  <2>3. QED
    BY <1>7, <2>1, <2>2
<1>9. QED
  BY <1>3, <1>4, <1>8 DEF Inv

\* The token is one the instruction names: at most one token stays pushed back.
LEMMA ScanHitOK ==
  ASSUME Inv, ScanHit
  PROVE  Inv'
<1>1. calls # <<>> /\ Now.op = "scan" /\ CallsOK
  BY DEF ScanHit, Running, Inv
<1>2. PICK x : Bound(x).tok \in DOMAIN Now.on /\ Read(x, Now.hit) /\ Goto(Now.on[Bound(x).tok])
  BY DEF ScanHit
<1>3. Now.hit \in 0 .. 1 /\ Now.on[Bound(x).tok] \in RuleName
  BY <1>1, <1>2, NowGood DEF WellFormed
<1>4. CallsOK'
  BY <1>1, <1>2, <1>3, GotoOK
<1>5. /\ RingOK' /\ IsSeq(seen)' /\ RingHoldsTheLastTokens'
      /\ ring'.n = (IF ring.n > 0 THEN ring.n - 1 ELSE 0) + Now.hit
  BY <1>2, <1>3, ReadOK DEF Inv
<1>6. ring.n <= 1 \/ (ring.n <= 2 /\ Now.hit = 0)
  BY <1>1, <1>2 DEF Inv, DepthOK, Stops
<1>7. ring'.n <= 1
  BY <1>3, <1>5, <1>6 DEF Inv, RingOK
<1>8. QED
  BY <1>4, <1>5, <1>7 DEF Inv, DepthOK

\* The token is another one: two tokens are pushed back only if what follows
\* stops, and none before the end of the parse.
LEMMA ScanMissOK ==
  ASSUME Inv, ScanMiss
  PROVE  Inv'
<1>1. calls # <<>> /\ Now.op = "scan" /\ CallsOK
  BY DEF ScanMiss, Running, Inv
<1>2. PICK x : Read(x, Now.miss) /\ Goto(Now.other)
  BY DEF ScanMiss
<1>3. /\ Now.miss \in 0 .. 2 /\ Now.other \in RuleName
      /\ Now.miss = 2 => /\ Now.other \in DOMAIN Rules
                         /\ Rules[Now.other] # <<>> /\ Stops(Rules[Now.other][1], 1)
  BY <1>1, NowGood DEF WellFormed
<1>4. CallsOK'
  BY <1>1, <1>2, <1>3, GotoOK
<1>5. /\ RingOK' /\ IsSeq(seen)' /\ RingHoldsTheLastTokens'
      /\ ring'.n = (IF ring.n > 0 THEN ring.n - 1 ELSE 0) + Now.miss
  BY <1>2, <1>3, ReadOK DEF Inv
<1>6. ring.n \in Nat
  BY DEF Inv, RingOK
<1>7. CASE ring.n <= 1
  <2>1. CASE Now.miss <= 1
    BY <1>3, <1>4, <1>5, <1>6, <1>7, <2>1 DEF Inv, DepthOK
  <2>2. CASE Now.miss = 2
    <3>1. Now.other # "fail"
      BY <1>3, <2>2, GrammarAssumption
    <3>2. calls' # <<>> /\ calls'[1].rule = Now.other /\ calls'[1].at = 1
      BY <1>1, <1>2, <1>3, <2>2, <3>1, GotoOK
    <3>3. Now' = Rules[Now.other][1]
      BY <3>2 DEF Now
    <3>4. Stops(Now', 1)
      BY <1>3, <2>2, <3>3
    <3>5. ring'.n <= 2
      BY <1>5, <1>6, <1>7, <2>2
    <3>6. Stops(Now, 1)'
      BY <3>4 DEF Stops
    <3>7. DepthOK'
      BY <3>2, <3>5, <3>6 DEF DepthOK
    <3>8. QED
      BY <1>4, <1>5, <3>7 DEF Inv
  <2>3. QED
    BY <1>3, <2>1, <2>2
<1>8. CASE ring.n > 1
  <2>1. Now.miss = 0 /\ Now.other = "fail" /\ ring.n <= 3
    BY <1>1, <1>6, <1>8 DEF Inv, DepthOK, Stops
  <2>2. calls' = <<>>
    BY <1>1, <1>2, <1>3, <2>1, GotoOK
  <2>3. ring'.n <= 2
    BY <1>5, <1>6, <1>8, <2>1
  <2>4. QED
    BY <1>4, <1>5, <2>2, <2>3 DEF Inv, DepthOK
<1>9. QED
  BY <1>6, <1>7, <1>8

\* peekRune reads no token.
LEMMA PeekOK ==
  ASSUME Inv, Peek
  PROVE  Inv'
<1>1. calls # <<>> /\ Now.op = "peek" /\ UNCHANGED <<ring, seen>>
  BY DEF Peek, Running
<1>2. PICK c \in Classes : Goto(IF c \in DOMAIN Now.on THEN Now.on[c] ELSE Now.other)
  BY DEF Peek
<1>3. (IF c \in DOMAIN Now.on THEN Now.on[c] ELSE Now.other) \in RuleName
  BY <1>1, NowGood DEF WellFormed, Inv
<1>4. CallsOK'
  BY <1>1, <1>2, <1>3, GotoOK DEF Inv
<1>5. QED
  BY <1>1, <1>4, AtMostOne, RingUnchanged DEF Inv

\* parseRegex pushes back at most the token it has just read.
LEMMA ParseRegexOK ==
  ASSUME Inv, ParseRegex
  PROVE  Inv'
<1>1. calls # <<>> /\ Now.op = "regex" /\ CallsOK
  BY DEF ParseRegex, RegexBlank, RegexConsume, RegexStart, RegexParam, RegexRead, AtStage, Running, Inv
<1>2. ring.n \in 0 .. 1
  BY <1>1, AtMostOne DEF Inv
<1>3. Now.yes \in RuleName /\ Now.no \in RuleName /\ "fail" \in RuleName
  BY <1>1, NowGood DEF WellFormed, RuleName
<1>4. ASSUME UNCHANGED <<ring, seen>>, CallsOK'
      PROVE  Inv'
  BY <1>2, <1>4, RingUnchanged
<1>5. ASSUME NEW x, NEW k \in 0 .. 1, Read(x, k), CallsOK'
      PROVE  Inv'
  <2>1. /\ RingOK' /\ IsSeq(seen)' /\ RingHoldsTheLastTokens'
        /\ ring'.n = (IF ring.n > 0 THEN ring.n - 1 ELSE 0) + k
    BY <1>5, ReadOK DEF Inv
  <2>2. ring'.n <= 1
    BY <1>2, <2>1
  <2>3. QED
    BY <1>5, <2>1, <2>2 DEF Inv, DepthOK
<1>6. CASE RegexBlank
  <2>1. CallsOK'
    BY <1>1, <1>6, StageOK DEF RegexBlank
  <2>2. QED
    BY <1>4, <1>6, <2>1 DEF RegexBlank
<1>7. CASE RegexConsume
  <2>1. CallsOK'
    BY <1>1, <1>7, StageOK DEF RegexConsume
  <2>2. PICK x : Read(x, IF Bound(x).tok = "WS" THEN 0 ELSE 1)
    BY <1>7 DEF RegexConsume
  <2>3. QED
    BY <1>5, <2>1, <2>2
<1>8. CASE RegexStart
  <2>1. CallsOK'
    BY <1>1, <1>3, <1>8, StageOK, GotoOK DEF RegexStart
  <2>2. QED
    BY <1>4, <1>8, <2>1 DEF RegexStart
<1>9. CASE RegexParam
  <2>1. PICK x : Read(x, 1) /\ IF Bound(x).tok = "REGEX" THEN Stage("read") ELSE Goto(Now.no)
    BY <1>9 DEF RegexParam
  <2>2. CallsOK'
    BY <1>1, <1>3, <2>1, StageOK, GotoOK
  <2>3. QED
    BY <1>5, <2>1, <2>2
<1>10. CASE RegexRead
  <2>1. PICK x : Read(x, 0) /\ Goto(IF Bound(x).tok = "REGEX" THEN Now.yes ELSE "fail")
    BY <1>10 DEF RegexRead
  <2>2. (IF Bound(x).tok = "REGEX" THEN Now.yes ELSE "fail") \in RuleName
    BY <1>3
  <2>3. CallsOK'
    BY <1>1, <2>1, <2>2, GotoOK
  <2>4. QED
    BY <1>5, <2>1, <2>3
<1>11. QED
  BY <1>6, <1>7, <1>8, <1>9, <1>10 DEF ParseRegex

\* A call or a branch of a function reads no token.
LEMMA ControlOK ==
  ASSUME Inv, CallRule \/ Branch
  PROVE  Inv'
<1>1. calls # <<>> /\ Now.op \in {"call", "if"} /\ CallsOK /\ UNCHANGED <<ring, seen>>
  BY DEF CallRule, Branch, Running, Inv, tokens
<1>2. PICK r \in RuleName : Goto(r)
  <2>1. CASE CallRule
    BY <1>1, <2>1, NowGood DEF CallRule, WellFormed, RuleName
  <2>2. CASE Branch
    <3>1. (IF Holds(Now.cond, ast, Inner, Bound(got)) THEN Now.yes ELSE Now.no) \in RuleName
      BY <1>1, <2>2, NowGood DEF Branch, WellFormed
    <3>2. QED
      BY <2>2, <3>1 DEF Branch
  <2>3. QED
    BY <2>1, <2>2
<1>3. CallsOK'
  BY <1>1, <1>2, GotoOK
<1>4. ring.n <= 1
  BY <1>1, AtMostOne DEF Inv
<1>5. QED
  BY <1>1, <1>3, <1>4, RingUnchanged

\* Unscan: the next instruction is one that stops.
LEMMA PushBackOK ==
  ASSUME Inv, PushBack
  PROVE  Inv'
<1>1. calls # <<>> /\ Now.op = "unscan" /\ CallsOK /\ Rest /\ seen' = seen
  BY DEF PushBack, Running, Inv
<1>2. ring.n \in 0 .. 1
  BY <1>1, AtMostOne DEF Inv
<1> DEFINE r == calls[1].rule
           j == calls[1].at
<1>3. /\ Now.k \in 1 .. 2
      /\ j < Len(Rules[r]) /\ Stops(Rules[r][j + 1], Now.k)
  BY <1>1, NowGood DEF WellFormed
<1>4. CallsOK'
  BY <1>1, RestOK
<1>5. calls' # <<>> /\ calls'[1].rule = r /\ calls'[1].at = j + 1
  <2> DEFINE f == [rule |-> r, at |-> j + 1, stage |-> "blank"]
  <2>1. Tail(calls) \in Seq(Frame) /\ calls' = <<f>> \o Tail(calls)
    BY <1>1, <1>3 DEF Rest, Advanced, CallsOK
  <2>2. Tail(calls) \in Seq(Frame \cup {f}) /\ <<f>> \in Seq(Frame \cup {f}) /\ Len(<<f>>) = 1
    BY <2>1
  <2>3. Len(calls') >= 1 /\ calls'[1] = f
    BY <2>1, <2>2
  <2>4. QED
    BY <2>3
<1>6. Now' = Rules[r][j + 1]
  BY <1>5 DEF Now
<1>7. /\ ring' = [i |-> ring.i, n |-> ring.n + Now.k, buf |-> ring.buf]
      /\ ring'.n = ring.n + Now.k /\ ring'.i = ring.i /\ ring'.buf = ring.buf
  BY DEF PushBack, Unscan, Inv, RingOK
<1>8. RingOK' /\ IsSeq(seen)' /\ RingHoldsTheLastTokens'
  BY <1>1, <1>2, <1>3, <1>7 DEF Inv, RingOK, IsSeq, RingHoldsTheLastTokens
<1>9. CASE Now.k = 1
  <2>1. Stops(Now, 1)'
    BY <1>3, <1>6, <1>9 DEF Stops
  <2>2. DepthOK'
    BY <1>2, <1>5, <1>7, <1>9, <2>1 DEF DepthOK
  <2>3. QED
    BY <1>4, <1>8, <2>2 DEF Inv
<1>10. CASE Now.k = 2
  <2>1. Stops(Now, 2)'
    BY <1>3, <1>6, <1>10 DEF Stops
  <2>2. DepthOK'
    BY <1>2, <1>5, <1>7, <1>10, <2>1 DEF DepthOK
  <2>3. QED
    BY <1>4, <1>8, <2>2 DEF Inv
<1>11. QED
  BY <1>3, <1>9, <1>10

\* What is stored in the statement leaves the token buffer alone.
LEMMA StoreOK ==
  ASSUME Inv, SetKind \/ SetFlag \/ OpenField \/ CloseField \/ EndStmt
  PROVE  Inv'
<1>1. calls # <<>> /\ Now.op # "scan" /\ CallsOK /\ Rest /\ UNCHANGED <<ring, seen>>
  BY DEF SetKind, SetFlag, OpenField, CloseField, EndStmt, Running, Inv, tokens
<1>2. CallsOK' /\ ring.n <= 1
  BY <1>1, RestOK, AtMostOne DEF Inv
<1>3. QED
  BY <1>1, <1>2, RingUnchanged

\* The buffer of a new parser.
LEMMA EmptyRing ==
  /\ NewBuffer = [i |-> NewBuffer.i, n |-> NewBuffer.n, buf |-> NewBuffer.buf]
  /\ NewBuffer.i \in 0 .. BufLen - 1
  /\ NewBuffer.n = 0
  /\ NewBuffer.buf = [k \in 0 .. BufLen - 1 |-> NewBuffer.buf[k]]
<1> DEFINE b == [k \in 0 .. BufLen - 1 |-> [tok |-> "ILLEGAL", lit |-> ""]]
<1>1. b = [k \in 0 .. BufLen - 1 |-> b[k]]
  BY Zenon
<1>2. NewBuffer = [i |-> 0, n |-> 0, buf |-> b]
  BY DEF NewBuffer
<1> HIDE DEF b
<1>3. QED
  BY <1>1, <1>2 DEF BufLen

\* A new parser has an empty buffer.
LEMMA NewParserOK ==
  ASSUME CallsOK, seen = <<>>, ring = NewBuffer
  PROVE  Inv
<1>1. RingOK /\ ring.n = 0
  BY EmptyRing DEF RingOK
<1>2. Len(seen) = 0 /\ seen \in Seq({})
  OBVIOUS
<1>3. QED
  BY <1>1, <1>2 DEF Inv, DepthOK, IsSeq, RingHoldsTheLastTokens

\* A new parser is at the first instruction of ParseQuery.
LEMMA StartOK == Enter(Start, <<>>) \in Seq(Frame)
<1>1. <<>> \in Seq(Frame)
  OBVIOUS
<1>2. QED
  BY <1>1, EnterOK, GrammarAssumption

\* The invariant holds before the first token is read.
LEMMA InitOK == Init => Inv
BY StartOK, NewParserOK DEF Init, CallsOK

\* The second text is read by a new parser.
LEMMA ReparseOK ==
  ASSUME Inv, ReparsePrinted \/ ReparseCommented
  PROVE  Inv'
<1>1. calls' = Enter(Start, <<>>) /\ seen' = <<>> /\ ring' = NewBuffer
  BY DEF ReparsePrinted, ReparseCommented, Reparse
<1>2. CallsOK'
  BY <1>1, StartOK DEF CallsOK
<1>3. RingOK' /\ ring'.n = 0
  BY <1>1, EmptyRing DEF RingOK
<1>4. Len(seen') = 0 /\ seen' \in Seq({})
  BY <1>1
<1>5. QED
  BY <1>2, <1>3, <1>4 DEF Inv, DepthOK, IsSeq, RingHoldsTheLastTokens

\* Succeed, the end and stuttering leave the calls and the buffer alone.
LEMMA SameOK ==
  ASSUME Inv, UNCHANGED <<calls, ring, seen>>
  PROVE  Inv'
BY DEF Inv, CallsOK, RingOK, DepthOK, Stops, Now, IsSeq, RingHoldsTheLastTokens

\* Every step preserves the invariant.
LEMMA NextOK == Inv /\ [Next]_vars => Inv'
<1> SUFFICES ASSUME Inv, [Next]_vars
             PROVE  Inv'
  OBVIOUS
<1>1. CASE ParseQuery
  <2>1. CASE Succeed
    <3>1. UNCHANGED <<calls, ring, seen>>
      BY <2>1 DEF Succeed, tokens
    <3>2. QED
      BY <3>1, SameOK
  <2>2. CASE ~ Succeed
    BY <1>1, <2>2, ScanBlankOK, ScanHitOK, ScanMissOK, PeekOK, ParseRegexOK, ControlOK,
       PushBackOK, StoreOK DEF ParseQuery
  <2>3. QED
    BY <2>1, <2>2
<1>2. CASE ReparsePrinted \/ ReparseCommented
  BY <1>2, ReparseOK
<1>3. CASE Finished \/ UNCHANGED vars
  <2>1. UNCHANGED <<calls, ring, seen>>
    BY <1>3 DEF Finished, vars
  <2>2. QED
    BY <2>1, SameOK
<1>4. QED
  BY <1>1, <1>2, <1>3 DEF Next

\* The calls, the ring and its count stay as the invariant says.
THEOREM Invariance == Spec => []Inv
<1>1. QED
  BY InitOK, NextOK, PTL DEF Spec


----------------------------------------------------------------------------
(* What the rules are lent.                                                *)

LentAt(f) == Lent[f.rule][f.at]

\* What is left when n tokens more are consumed.
LEMMA Account ==
  ASSUME NEW c \in Nat, NEW d \in Nat, NEW w \in Nat, NEW w1 \in Nat, NEW w2 \in Nat, NEW n \in Int,
         c >= d + w, w + n >= w1 + w2
  PROVE  c + n \in Nat /\ c + n >= (d + w1) + w2
OBVIOUS

\* The calls s can be returned from when c tokens are consumed: level[j] of them
\* are not touched by the j innermost calls, which are lent what lies between.
Paid(s, c) ==
  \E level \in [0 .. Len(s) -> Nat] :
    /\ level[0] = c
    /\ \A j \in 1 .. Len(s) : level[j - 1] >= level[j] + LentAt(s[j])

\* No call pushes back more tokens than there are.
Funded == Paid(calls, Consumed)

\* What is lent at a place and at the next one.
LEMMA LentOK ==
  ASSUME NEW r \in DOMAIN Rules, NEW p \in 1 .. Len(Rules[r])
  PROVE  Lent[r][p] \in Nat /\ Lent[r][p + 1] \in Nat
<1>1. Lent[r] \in [1 .. Len(Rules[r]) + 1 -> Nat]
  BY BalanceAssumption
<1>2. p \in 1 .. Len(Rules[r]) + 1 /\ p + 1 \in 1 .. Len(Rules[r]) + 1
  BY RuleIsSeq
<1>3. QED
  BY <1>1, <1>2

\* The place of a call.
LEMMA FrameOK ==
  ASSUME NEW f \in Frame
  PROVE  /\ f.rule \in DOMAIN Rules /\ f.at \in 1 .. Len(Rules[f.rule])
         /\ LentAt(f) \in Nat
<1>1. f.rule \in DOMAIN Rules /\ f.at \in 1 .. Len(Rules[f.rule])
  BY DEF Frame
<1>2. QED
  BY <1>1, LentOK DEF LentAt

\* Nothing is lent to no call.
LEMMA PaidEmpty ==
  ASSUME NEW c \in Nat
  PROVE  Paid(<<>>, c)
<1> DEFINE level == [j \in 0 .. 0 |-> c]
<1>1. level \in [0 .. Len(<<>>) -> Nat] /\ level[0] = c
  OBVIOUS
<1>2. \A j \in 1 .. Len(<<>>) : level[j - 1] >= level[j] + LentAt(<<>>[j])
  OBVIOUS
<1>3. QED
  BY <1>1, <1>2 DEF Paid

\* More tokens are consumed.
LEMMA PaidMore ==
  ASSUME NEW s \in Seq(Frame), NEW c \in Nat, NEW d \in Nat, d >= c, Paid(s, c)
  PROVE  Paid(s, d)
<1>1. PICK level \in [0 .. Len(s) -> Nat] :
        level[0] = c /\ \A j \in 1 .. Len(s) : level[j - 1] >= level[j] + LentAt(s[j])
  BY DEF Paid
<1> DEFINE m == [j \in 0 .. Len(s) |-> IF j = 0 THEN d ELSE level[j]]
<1>2. m \in [0 .. Len(s) -> Nat] /\ m[0] = d
  OBVIOUS
<1>3. ASSUME NEW j \in 1 .. Len(s)
      PROVE  m[j - 1] >= m[j] + LentAt(s[j])
  <2>1. /\ level[j - 1] >= level[j] + LentAt(s[j])
        /\ j - 1 \in 0 .. Len(s) /\ j \in 0 .. Len(s) /\ j # 0
    BY <1>1
  <2>2. LentAt(s[j]) \in Nat /\ level[j - 1] \in Nat /\ level[j] \in Nat
    BY <2>1, FrameOK
  <2>3. m[j] = level[j] /\ m[j - 1] >= level[j - 1]
    BY <1>1, <2>1, <2>2
  <2>4. m[j - 1] \in Nat
    BY <1>2, <2>1
  <2>5. QED
    BY <2>1, <2>2, <2>3, <2>4
<1>4. QED
  BY <1>2, <1>3 DEF Paid

\* A call is made: it is lent tokens that are consumed.
LEMMA PaidPush ==
  ASSUME NEW s \in Seq(Frame), NEW f \in Frame, NEW c \in Nat, Paid(s, c)
  PROVE  Paid(<<f>> \o s, c + LentAt(f))
<1>1. PICK level \in [0 .. Len(s) -> Nat] :
        level[0] = c /\ \A j \in 1 .. Len(s) : level[j - 1] >= level[j] + LentAt(s[j])
  BY DEF Paid
<1> DEFINE t == <<f>> \o s
<1>2. <<f>> \in Seq(Frame) /\ Len(<<f>>) = 1 /\ <<f>>[1] = f
  OBVIOUS
<1>3. /\ Len(t) = Len(s) + 1 /\ t[1] = f
      /\ \A j \in 2 .. Len(t) : t[j] = s[j - 1]
  BY <1>2
<1>4. LentAt(f) \in Nat /\ Len(s) \in Nat
  BY FrameOK
<1> DEFINE m == [j \in 0 .. Len(t) |-> IF j = 0 THEN c + LentAt(f) ELSE level[j - 1]]
<1> HIDE DEF t
<1>5. m \in [0 .. Len(t) -> Nat] /\ m[0] = c + LentAt(f)
  BY <1>3, <1>4
<1>6. ASSUME NEW j \in 1 .. Len(t)
      PROVE  m[j - 1] >= m[j] + LentAt(t[j])
  <2>1. CASE j = 1
    BY <1>1, <1>3, <1>4, <2>1
  <2>2. CASE j # 1
    <3>1. j - 1 \in 1 .. Len(s) /\ j \in 2 .. Len(t) /\ j - 1 \in 0 .. Len(t) /\ j - 1 # 0 /\ (j - 1) - 1 = j - 2
      BY <1>3, <1>4, <2>2
    <3>2. level[(j - 1) - 1] >= level[j - 1] + LentAt(s[j - 1])
      BY <1>1, <3>1
    <3>3. m[j - 1] = level[(j - 1) - 1] /\ m[j] = level[j - 1]
      BY <3>1
    <3>4. QED
      BY <1>3, <3>1, <3>2, <3>3
  <2>3. QED
    BY <2>1, <2>2
<1>7. QED
  BY <1>5, <1>6 DEF Paid, t

\* The innermost call returns: it has left what it was not lent.
LEMMA PaidPop ==
  ASSUME NEW s \in Seq(Frame), s # <<>>, NEW c \in Nat, Paid(s, c)
  PROVE  \E d \in Nat : c >= d + LentAt(s[1]) /\ Paid(Tail(s), d)
<1>1. PICK level \in [0 .. Len(s) -> Nat] :
        level[0] = c /\ \A j \in 1 .. Len(s) : level[j - 1] >= level[j] + LentAt(s[j])
  BY DEF Paid
<1> DEFINE t == Tail(s)
<1>2. /\ Len(s) \in Nat /\ Len(s) >= 1 /\ Len(t) = Len(s) - 1
      /\ \A j \in 1 .. Len(t) : t[j] = s[j + 1]
  OBVIOUS
<1> HIDE DEF t
<1> DEFINE m == [j \in 0 .. Len(t) |-> level[j + 1]]
<1>3. m \in [0 .. Len(t) -> Nat] /\ m[0] = level[1] /\ level[1] \in Nat
  BY <1>2
<1>4. ASSUME NEW j \in 1 .. Len(t)
      PROVE  m[j - 1] >= m[j] + LentAt(t[j])
  <2>1. j + 1 \in 1 .. Len(s) /\ (j + 1) - 1 = j /\ (j - 1) + 1 = j /\ j - 1 \in 0 .. Len(t) /\ j \in 0 .. Len(t)
    BY <1>2
  <2>2. level[j] >= level[j + 1] + LentAt(s[j + 1])
    BY <1>1, <2>1
  <2>3. m[j - 1] = level[j] /\ m[j] = level[j + 1]
    BY <2>1
  <2>4. QED
    BY <1>2, <2>2, <2>3
<1>5. Paid(t, level[1])
  BY <1>3, <1>4 DEF Paid
<1>6. c >= level[1] + LentAt(s[1])
  <2>1. 1 \in 1 .. Len(s) /\ 1 - 1 = 0
    BY <1>2
  <2>2. QED
    BY <1>1, <2>1
<1>7. QED
  BY <1>3, <1>5, <1>6 DEF t

\* What is left of the calls when an instruction has been run.
LEMMA AdvancedPaid ==
  ASSUME CallsOK, calls # <<>>, NEW c \in Nat, Paid(calls, c)
  PROVE  \E d \in Nat :
           /\ c >= d + LentAt(calls[1])
           /\ Paid(Advanced, d + Lent[calls[1].rule][calls[1].at + 1])
<1>1. calls \in Seq(Frame) /\ calls[1] \in Frame /\ Tail(calls) \in Seq(Frame)
  BY DEF CallsOK
<1>2. PICK d \in Nat : c >= d + LentAt(calls[1]) /\ Paid(Tail(calls), d)
  BY <1>1, PaidPop
<1> DEFINE r == calls[1].rule
           p == calls[1].at
<1>3. r \in DOMAIN Rules /\ p \in 1 .. Len(Rules[r]) /\ Len(Rules[r]) \in Nat
  BY <1>1, FrameOK, RuleIsSeq
<1>4. CASE p < Len(Rules[r])
  <2> DEFINE f == [rule |-> r, at |-> p + 1, stage |-> "blank"]
  <2>1. f \in Frame /\ LentAt(f) = Lent[r][p + 1]
    BY <1>3, <1>4 DEF Frame, LentAt
  <2>2. Advanced = <<f>> \o Tail(calls)
    BY <1>4 DEF Advanced
  <2>3. Paid(<<f>> \o Tail(calls), d + LentAt(f))
    BY <1>1, <1>2, <2>1, PaidPush
  <2>4. QED
    BY <1>2, <2>1, <2>2, <2>3
<1>5. CASE ~ p < Len(Rules[r])
  <2>1. p + 1 = Len(Rules[r]) + 1
    BY <1>3, <1>5
  <2>2. Lent[r][p + 1] = 0
    BY <1>3, <2>1, BalanceAssumption
  <2>3. Advanced = Tail(calls)
    BY <1>5 DEF Advanced
  <2>4. QED
    BY <1>2, <2>2, <2>3
<1>6. QED
  BY <1>4, <1>5

\* A rule that is entered is lent what its first place says.
LEMMA EnterPaid ==
  ASSUME NEW r \in DOMAIN Rules, NEW s \in Seq(Frame), NEW c \in Nat, Paid(s, c)
  PROVE  Paid(Enter(r, s), c + Lent[r][1]) /\ Lent[r][1] \in Nat
<1>0. Lent[r] \in [1 .. Len(Rules[r]) + 1 -> Nat] /\ Lent[r][Len(Rules[r]) + 1] = 0 /\ Len(Rules[r]) \in Nat
  BY BalanceAssumption, RuleIsSeq
<1>1. Lent[r][1] \in Nat
  BY <1>0
<1>2. CASE Rules[r] = <<>>
  <2>1. Lent[r][1] = 0 /\ Enter(r, s) = s
    BY <1>0, <1>2 DEF Enter
  <2>2. QED
    BY <2>1
<1>3. CASE Rules[r] # <<>>
  <2> DEFINE f == [rule |-> r, at |-> 1, stage |-> "blank"]
  <2>1. Len(Rules[r]) \in Nat \ {0}
    BY <1>3, RuleIsSeq
  <2>2. f \in Frame /\ LentAt(f) = Lent[r][1]
    BY <2>1 DEF Frame, LentAt
  <2>3. Paid(<<f>> \o s, c + LentAt(f))
    BY <2>2, PaidPush
  <2>4. Enter(r, s) = <<f>> \o s
    BY <1>3 DEF Enter
  <2>5. QED
    BY <1>1, <2>2, <2>3, <2>4
<1>4. QED
  BY <1>2, <1>3

\* A branch, with n tokens more consumed.
LEMMA GotoPaid ==
  ASSUME CallsOK, calls # <<>>, NEW c \in Nat, Paid(calls, c),
         NEW next \in RuleName, Goto(next),
         NEW n \in Int, next = "fail" => c + n \in Nat,
         Lends(calls[1].rule, calls[1].at, n, next)
  PROVE  c + n \in Nat /\ Paid(calls', c + n)
<1>1. CASE next = "fail"
  BY <1>1, PaidEmpty DEF Goto
<1>2. CASE next # "fail"
  <2> DEFINE r == calls[1].rule
             p == calls[1].at
  <2>1. next \in DOMAIN Rules /\ calls' = Enter(next, Advanced)
    BY <1>2 DEF RuleName, Goto
  <2>2. PICK d \in Nat : c >= d + LentAt(calls[1]) /\ Paid(Advanced, d + Lent[r][p + 1])
    BY AdvancedPaid
  <2>3. calls[1] \in Frame
    BY DEF CallsOK
  <2>4. r \in DOMAIN Rules /\ p \in 1 .. Len(Rules[r]) /\ LentAt(calls[1]) = Lent[r][p]
    BY <2>3, FrameOK DEF LentAt
  <2>5. Lent[r][p] \in Nat /\ Lent[r][p + 1] \in Nat
    BY <2>4, LentOK
  <2> DEFINE e == d + Lent[r][p + 1]
  <2>6. e \in Nat /\ Advanced \in Seq(Frame)
    BY <2>5, AdvancedOK
  <2>7. Paid(Enter(next, Advanced), e + Lent[next][1]) /\ Lent[next][1] \in Nat
    BY <2>1, <2>2, <2>6, EnterPaid
  <2>8. Lent[r][p] + n >= Lent[r][p + 1] + Lent[next][1]
    BY <1>2 DEF Lends
  <2>9. c + n >= e + Lent[next][1] /\ c + n \in Nat /\ e + Lent[next][1] \in Nat
    <3>1. Lent[next][1] \in Nat /\ c >= d + Lent[r][p]
      BY <2>2, <2>4, <2>7
    <3>2. c + n \in Nat /\ c + n >= e + Lent[next][1]
      BY <2>2, <2>5, <2>8, <3>1, Account
    <3>3. QED
      BY <2>6, <3>1, <3>2
  <2>10. Enter(next, Advanced) \in Seq(Frame)
    BY <2>1, <2>6, EnterOK
  <2>11. Paid(Enter(next, Advanced), c + n)
    BY <2>7, <2>9, <2>10, PaidMore
  <2>12. QED
    BY <2>1, <2>9, <2>11
<1>3. QED
  BY <1>1, <1>2

\* The next instruction, with n tokens more consumed.
LEMMA RestPaid ==
  ASSUME CallsOK, calls # <<>>, NEW c \in Nat, Paid(calls, c), Rest,
         NEW n \in Int, Settles(calls[1].rule, calls[1].at, n)
  PROVE  c + n \in Nat /\ Paid(calls', c + n)
<1> DEFINE r == calls[1].rule
           p == calls[1].at
<1>1. PICK d \in Nat : c >= d + LentAt(calls[1]) /\ Paid(Advanced, d + Lent[r][p + 1])
  BY AdvancedPaid
<1>2. calls[1] \in Frame
  BY DEF CallsOK
<1>3. r \in DOMAIN Rules /\ p \in 1 .. Len(Rules[r]) /\ LentAt(calls[1]) = Lent[r][p]
  BY <1>2, FrameOK DEF LentAt
<1>4. Lent[r][p] \in Nat /\ Lent[r][p + 1] \in Nat
  BY <1>3, LentOK
<1>5. Lent[r][p] + n >= Lent[r][p + 1]
  BY DEF Settles
<1> DEFINE e == d + Lent[r][p + 1]
<1>6. e \in Nat /\ c + n >= e /\ c + n \in Nat /\ Advanced \in Seq(Frame)
  <2>1. c >= d + Lent[r][p] /\ Lent[r][p] + n >= Lent[r][p + 1] + 0
    BY <1>1, <1>3, <1>4, <1>5
  <2>2. c + n \in Nat /\ c + n >= e + 0
    BY <1>1, <1>4, <2>1, Account
  <2>3. QED
    BY <1>1, <1>4, <2>2, AdvancedOK
<1>7. Paid(Advanced, c + n)
  BY <1>1, <1>6, PaidMore
<1>8. QED
  BY <1>6, <1>7 DEF Rest

\* The next stage of parseRegex.
LEMMA StagePaid ==
  ASSUME CallsOK, calls # <<>>, NEW c \in Nat, NEW d \in Nat, d >= c, Paid(calls, c),
         NEW stage \in {"blank", "consume", "start", "param", "read"}, Stage(stage)
  PROVE  Paid(calls', d)
<1>1. calls[1] \in Frame /\ calls \in Seq(Frame)
  BY DEF CallsOK
<1> DEFINE f == [calls[1] EXCEPT !.stage = stage]
<1>2. f \in Frame /\ f.rule = calls[1].rule /\ f.at = calls[1].at
  BY <1>1 DEF Frame
<1> HIDE DEF f
<1>3. calls' = [calls EXCEPT ![1] = f]
  BY DEF Stage, f
<1>4. /\ Len(calls') = Len(calls) /\ Len(calls) \in Nat
      /\ \A j \in 1 .. Len(calls) : calls'[j] = IF j = 1 THEN f ELSE calls[j]
  BY <1>1, <1>3
<1>5. \A j \in 1 .. Len(calls) : LentAt(calls'[j]) = LentAt(calls[j])
  BY <1>2, <1>4 DEF LentAt
<1>6. Paid(calls, d)
  BY <1>1, PaidMore
<1>7. PICK level \in [0 .. Len(calls) -> Nat] :
        level[0] = d /\ \A j \in 1 .. Len(calls) : level[j - 1] >= level[j] + LentAt(calls[j])
  BY <1>6 DEF Paid
<1>8. \A j \in 1 .. Len(calls') : level[j - 1] >= level[j] + LentAt(calls'[j])
  BY <1>4, <1>5, <1>7
<1>9. QED
  BY <1>4, <1>7, <1>8 DEF Paid

\* The instruction that comes next is balanced.
LEMMA NowBalanced ==
  ASSUME CallsOK, calls # <<>>
  PROVE  /\ Balanced(calls[1].rule, calls[1].at)
         /\ Now = Rules[calls[1].rule][calls[1].at]
<1>1. calls[1] \in Frame
  BY DEF CallsOK
<1>2. calls[1].rule \in DOMAIN Rules /\ calls[1].at \in DOMAIN Rules[calls[1].rule]
  BY <1>1, FrameOK, RuleIsSeq
<1>3. QED
  BY <1>2, BalanceAssumption DEF Now

----------------------------------------------------------------------------
(* What is read is a lexeme.                                               *)

Typed ==
  /\ alphabet \in DOMAIN Alphabets
  /\ round \in {"source", "printed", "commented"}
  /\ seen \in Seq(Lexeme)
  /\ ring \in Buffer
  /\ ahead \in Classes \cup {"any"}
  /\ got \in Lexeme
  /\ result \in {"running", "ok", "error"}

\* The text goes on with lexemes, and ends with EOF.
LEMMA UpcomingTyped ==
  ASSUME Typed
  PROVE  Upcoming \subseteq Lexeme
<1>1. Written \subseteq Lexeme
  BY TextAssumption DEF Typed, Written
<1>2. EOF \in Lexeme
  BY TextAssumption DEF EOF
<1>3. QED
  BY <1>1, <1>2 DEF Upcoming

\* What is under the scanner's cursor is a lexeme, also in a text that is printed.
LEMMA CursorTyped ==
  ASSUME Typed
  PROVE  UnderCursor \subseteq Lexeme
<1>1. Unread \in Lexeme
  BY TextAssumption, LexemeAssumption DEF Unread, EOF, Token
<1>2. QED
  BY <1>1, UpcomingTyped DEF UnderCursor

\* Delivered as another token, it is still a lexeme.
LEMMA DeliveredTyped ==
  ASSUME NEW l \in Lexeme, NEW fn
  PROVE  Delivered(l, fn) \in Lexeme
BY TextAssumption DEF Delivered

\* The slot of a token that is pushed back is the one of its place in the text.
LEMMA CurrIsSeen ==
  ASSUME Inv, Typed, ring.n > 0, Consumed \in Nat
  PROVE  /\ Curr(ScanFunc(ring, EOF)) = seen[Consumed + 1]
         /\ Consumed + 1 \in 1 .. Len(seen)
<1>1. ring.n \in 1 .. 3 /\ ring.i \in 0 .. 2 /\ BufLen = 3 /\ Len(seen) \in Nat
  BY DEF Inv, RingOK, DepthOK, Typed, BufLen
<1>2. Consumed = Len(seen) - ring.n
  BY DEF Consumed
<1>3. ScanFunc(ring, EOF) = [i |-> ring.i, n |-> ring.n - 1, buf |-> ring.buf]
  BY DEF ScanFunc, Inv, RingOK
<1>4. Curr(ScanFunc(ring, EOF)) = ring.buf[(ring.i - (ring.n - 1) + BufLen) % BufLen]
  BY <1>3 DEF Curr
<1> DEFINE k == ring.n - 1
<1>5. k \in 0 .. BufLen - 1 /\ k < Len(seen) /\ Len(seen) - k = Consumed + 1
  BY <1>1, <1>2
<1>6. ring.buf[(ring.i - k + BufLen) % BufLen] = seen[Len(seen) - k]
  BY <1>5 DEF Inv, RingHoldsTheLastTokens
<1>7. Consumed + 1 \in 1 .. Len(seen)
  BY <1>1, <1>2
<1>8. QED
  BY <1>4, <1>5, <1>6, <1>7

\* The token that is read is the one under the cursor if it was pushed back.
LEMMA ScannedTyped ==
  ASSUME Inv, Typed, Consumed \in Nat, NEW fn, NEW x \in Scanned(fn)
  PROVE  x \in Lexeme /\ (ring.n > 0 => x = seen[Consumed + 1])
<1>1. CASE ring.n > 0
  <2>1. x = seen[Consumed + 1] /\ Consumed + 1 \in 1 .. Len(seen)
    BY <1>1, CurrIsSeen DEF Scanned
  <2>2. QED
    BY <2>1 DEF Typed
<1>2. CASE ~ ring.n > 0
  BY <1>2, CursorTyped, DeliveredTyped DEF Scanned
<1>3. QED
  BY <1>1, <1>2

\* A token is read, and k tokens are pushed back: a step of Pushback if there are
\* so many.
LEMMA ReadMoves ==
  ASSUME Inv, Typed, Consumed \in Nat, NEW fn, NEW x \in Scanned(fn), NEW k \in 0 .. 2, Read(x, k)
  PROVE  /\ Consumed' = Consumed + (1 - k)
         /\ seen' \in Seq(Lexeme) /\ ring' \in Buffer /\ got' \in Lexeme
         /\ ahead' \in Classes \cup {"any"}
         /\ (Consumed' \in Nat /\ ring'.n <= BufLen) => PB!PNext
<1>1. x \in Lexeme /\ (ring.n > 0 => x = seen[Consumed + 1])
  BY ScannedTyped
<1>2. /\ RingOK' /\ RingHoldsTheLastTokens'
      /\ ring'.n = (IF ring.n > 0 THEN ring.n - 1 ELSE 0) + k
  BY ReadOK DEF Inv
<1>3. seen \in Seq(Lexeme) /\ Len(seen) \in Nat /\ ring.n \in Nat /\ ring \in Buffer
  BY DEF Typed, Inv, RingOK
<1>4. got' = x
  BY DEF Read
<1>5. CASE ring.n > 0
  <2>1. seen' = seen /\ ahead' = ahead /\ ring' = [i |-> ring.i, n |-> ring.n - 1 + k, buf |-> ring.buf]
    BY <1>5 DEF Read, Unscan, ScanFunc, Inv, RingOK
  <2>2. Consumed' = Consumed + (1 - k)
    BY <1>2, <1>3, <1>5, <2>1 DEF Consumed
  <2>3. ring' \in Buffer
    BY <1>3, <1>5, <2>1 DEF Buffer
  <2>4. ASSUME Consumed' \in Nat, ring'.n <= BufLen
        PROVE  PB!PNext
    <3>1. Consumed < Len(seen) /\ got' = seen'[Consumed + 1]
      BY <1>1, <1>3, <1>4, <1>5, <2>1 DEF Consumed
    <3>2. k <= Consumed + 1 /\ Consumed' = Consumed + 1 - k
      BY <2>2, <2>4
    <3>3. Len(seen') - Consumed' <= BufLen
      <4>1. Consumed' = Len(seen') - ring'.n /\ Len(seen') \in Nat /\ ring'.n \in Nat
        BY <1>2, <1>3, <2>1 DEF Consumed, RingOK
      <4>2. QED
        BY <2>4, <4>1
    <3>4. PB!Consume(k)
      BY <3>1, <3>2, <3>3 DEF PB!Consume
    <3>5. PB!Again(k) /\ k \in 0 .. BufLen
      BY <2>1, <3>1, <3>4 DEF PB!Again, BufLen
    <3>6. QED
      BY <3>5 DEF PB!PNext
  <2>5. QED
    BY <1>1, <1>3, <1>4, <2>1, <2>2, <2>3, <2>4 DEF Typed
<1>6. CASE ~ ring.n > 0
  <2>1. ring.n = 0 /\ seen' = Append(seen, x) /\ ahead' = "any"
    BY <1>3, <1>6 DEF Read
  <2>2. /\ Len(seen') = Len(seen) + 1 /\ seen'[Len(seen) + 1] = x /\ seen' \in Seq(Lexeme)
    BY <1>1, <1>3, <2>1
  <2>3. Consumed = Len(seen) /\ Consumed' = Consumed + (1 - k)
    BY <1>2, <1>3, <2>1, <2>2 DEF Consumed
  <2> DEFINE i == (ring.i + 1) % BufLen
  <2>4. ring' = [i |-> i, n |-> 0 + k, buf |-> [ring.buf EXCEPT ![i] = x]]
    <3>1. ring = [i |-> ring.i, n |-> ring.n, buf |-> ring.buf] /\ ~ ring.n > 0
      BY <1>6 DEF Inv, RingOK
    <3>2. ScanFunc(ring, x) = [i |-> i, n |-> 0, buf |-> [ring.buf EXCEPT ![i] = x]]
      BY <2>1, <3>1, Zenon DEF ScanFunc
    <3>3. QED
      BY <3>2 DEF Read, Unscan
  <2>5. ring.i \in 0 .. BufLen - 1 /\ ring.buf \in [0 .. BufLen - 1 -> Lexeme] /\ i \in 0 .. BufLen - 1
    BY <1>3 DEF Buffer, BufLen
  <2>6. ring' \in Buffer
    BY <1>1, <2>4, <2>5 DEF Buffer
  <2>7. ASSUME Consumed' \in Nat, ring'.n <= BufLen
        PROVE  PB!PNext
    <3>1. seen'[Consumed + 1] = x
      BY <2>2, <2>3
    <3>2. k <= Consumed + 1 /\ Consumed' = Consumed + 1 - k
      BY <2>3, <2>7
    <3>3. Len(seen') - Consumed' <= BufLen
      BY <1>2, <1>3, <2>2, <2>3, <2>7 DEF Consumed, BufLen
    <3>4. PB!Consume(k)
      BY <1>4, <3>1, <3>2, <3>3 DEF PB!Consume
    <3>5. PB!Fresh(k) /\ k \in 0 .. BufLen
      BY <1>1, <2>1, <2>2, <2>3, <3>1, <3>4 DEF PB!Fresh, BufLen
    <3>6. QED
      BY <3>5 DEF PB!PNext
  <2>8. QED
    BY <1>1, <1>4, <2>1, <2>2, <2>3, <2>6, <2>7
<1>7. QED
  BY <1>5, <1>6

----------------------------------------------------------------------------
(* The steps, once more: what is lent is enough, and tokens come in order. *)

Full == Inv /\ Typed /\ Funded

\* A step keeps the types and what is lent, and is one of Pushback.
InOrder == Typed' /\ Funded' /\ (PB!PNext \/ UNCHANGED PB!pvars)

Results == {"running", "ok", "error"}

\* No more tokens are pushed back than were read.
LEMMA ConsumedNat ==
  ASSUME Full
  PROVE  Consumed \in Nat
<1>1. Len(calls) \in Nat
  BY DEF Full, Inv, CallsOK
<1>2. QED
  BY <1>1 DEF Full, Funded, Paid

\* A step that reads a token.
LEMMA ReadInOrder ==
  ASSUME Full, Inv', NEW fn, NEW x \in Scanned(fn), NEW k \in 0 .. 2, Read(x, k),
         UNCHANGED text, result' \in Results,
         Consumed + (1 - k) \in Nat, Paid(calls', Consumed + (1 - k))
  PROVE  InOrder
<1>1. /\ Consumed' = Consumed + (1 - k)
      /\ seen' \in Seq(Lexeme) /\ ring' \in Buffer /\ got' \in Lexeme
      /\ ahead' \in Classes \cup {"any"}
      /\ (Consumed' \in Nat /\ ring'.n <= BufLen) => PB!PNext
  BY ReadMoves, ConsumedNat DEF Full
<1>2. ring'.n <= BufLen
  BY DEF Inv, DepthOK, RingOK, BufLen
<1>3. PB!PNext
  BY <1>1, <1>2
<1>4. Typed'
  BY <1>1 DEF Full, Typed, text, Results
<1>5. Funded'
  BY <1>1 DEF Funded
<1>6. QED
  BY <1>3, <1>4, <1>5 DEF InOrder

\* A step that reads none.
LEMMA StillInOrder ==
  ASSUME Full, UNCHANGED <<seen, ring, got>>, UNCHANGED text, result' \in Results,
         ahead' \in Classes \cup {"any"}, Paid(calls', Consumed)
  PROVE  InOrder
<1>1. Consumed' = Consumed
  BY DEF Consumed
<1>2. UNCHANGED PB!pvars
  BY <1>1 DEF PB!pvars
<1>3. Typed'
  BY DEF Full, Typed, text, Results
<1>4. Funded'
  BY <1>1 DEF Funded
<1>5. QED
  BY <1>2, <1>3, <1>4 DEF InOrder

\* The result of a step of ParseQuery.
LEMMA ResultOK ==
  ASSUME Typed, Rest \/ (\E r : Goto(r)) \/ (\E s : Stage(s)) \/ result' = result
  PROVE  result' \in Results
BY DEF Typed, Rest, Goto, Stage, Results

\* A branch, with n tokens more consumed.
LEMMA BranchPaid ==
  ASSUME Full, calls # <<>>, NEW next \in RuleName, Goto(next),
         NEW n \in Int, next = "fail" => n >= 0,
         Lends(calls[1].rule, calls[1].at, n, next)
  PROVE  Consumed + n \in Nat /\ Paid(calls', Consumed + n)
<1>1. Consumed \in Nat /\ CallsOK /\ Paid(calls, Consumed)
  BY ConsumedNat DEF Full, Inv, Funded
<1>2. next = "fail" => Consumed + n \in Nat
  BY <1>1
<1>3. QED
  BY <1>1, <1>2, GotoPaid

\* A blank is skipped.
LEMMA ScanBlankInOrder ==
  ASSUME Full, Inv', ScanBlank
  PROVE  InOrder
<1>1. PICK x \in Scanned("Scan") : Read(x, 0)
  BY DEF ScanBlank
<1>2. calls' = calls /\ result' = result /\ UNCHANGED text
  BY DEF ScanBlank
<1>3. Consumed \in Nat /\ Paid(calls, Consumed) /\ calls \in Seq(Frame)
  BY ConsumedNat DEF Full, Inv, CallsOK, Funded
<1>4. Paid(calls, Consumed + 1)
  BY <1>3, PaidMore
<1>5. Consumed + (1 - 0) = Consumed + 1 /\ Consumed + 1 \in Nat
  BY <1>3
<1>6. Consumed + (1 - 0) \in Nat /\ Paid(calls', Consumed + (1 - 0)) /\ result' \in Results
  BY <1>2, <1>4, <1>5, ResultOK DEF Full
<1>7. QED
  BY <1>1, <1>2, <1>6, ReadInOrder

\* A token that the instruction names.
LEMMA ScanHitInOrder ==
  ASSUME Full, Inv', ScanHit
  PROVE  InOrder
<1>1. calls # <<>> /\ Now.op = "scan" /\ CallsOK /\ UNCHANGED text
  BY DEF ScanHit, Running, Full, Inv
<1>2. PICK x \in Scanned("Scan") :
        Bound(x).tok \in DOMAIN Now.on /\ Read(x, Now.hit) /\ Goto(Now.on[Bound(x).tok])
  BY DEF ScanHit
<1> DEFINE next == Now.on[Bound(x).tok]
           k == Now.hit
<1>3. k \in 0 .. 1 /\ next \in RuleName
  BY <1>1, <1>2, NowGood DEF WellFormed
<1>4. Lends(calls[1].rule, calls[1].at, 1 - k, next)
  BY <1>1, <1>2, NowBalanced DEF Balanced
<1> HIDE DEF next, k
<1>5. 1 - k \in Int /\ 1 - k >= 0 /\ k \in 0 .. 2 /\ Goto(next) /\ Read(x, k)
  BY <1>2, <1>3 DEF next, k
<1>6. Consumed + (1 - k) \in Nat /\ Paid(calls', Consumed + (1 - k))
  BY <1>1, <1>3, <1>4, <1>5, BranchPaid
<1>7. result' \in Results
  BY <1>5, ResultOK DEF Full
<1>8. QED
  BY <1>1, <1>5, <1>6, <1>7, ReadInOrder

\* Another token: the one before it is pushed back too only if it was lent.
LEMMA ScanMissInOrder ==
  ASSUME Full, Inv', ScanMiss
  PROVE  InOrder
<1>1. calls # <<>> /\ Now.op = "scan" /\ CallsOK /\ UNCHANGED text
  BY DEF ScanMiss, Running, Full, Inv
<1>2. PICK x \in Scanned("Scan") : Read(x, Now.miss) /\ Goto(Now.other)
  BY DEF ScanMiss
<1> DEFINE next == Now.other
           k == Now.miss
<1>3. k \in 0 .. 2 /\ next \in RuleName /\ (k = 2 => next \in DOMAIN Rules)
  BY <1>1, NowGood DEF WellFormed
<1>4. Lends(calls[1].rule, calls[1].at, 1 - k, next)
  BY <1>1, NowBalanced DEF Balanced
<1> HIDE DEF next, k
<1>5. 1 - k \in Int /\ Goto(next) /\ Read(x, k)
  BY <1>2, <1>3 DEF next, k
<1>6. next = "fail" => 1 - k >= 0
  BY <1>3, GrammarAssumption
<1>7. Consumed + (1 - k) \in Nat /\ Paid(calls', Consumed + (1 - k))
  BY <1>1, <1>3, <1>4, <1>5, <1>6, BranchPaid
<1>8. result' \in Results
  BY <1>5, ResultOK DEF Full
<1>9. QED
  BY <1>1, <1>3, <1>5, <1>7, <1>8, ReadInOrder

\* peekRune moves no token.
LEMMA PeekInOrder ==
  ASSUME Full, Inv', Peek
  PROVE  InOrder
<1>1. calls # <<>> /\ Now.op = "peek" /\ CallsOK /\ UNCHANGED text /\ UNCHANGED <<seen, ring, got>>
  BY DEF Peek, Running, Full, Inv
<1>2. PICK c \in Classes : Peeks(c) /\ Goto(IF c \in DOMAIN Now.on THEN Now.on[c] ELSE Now.other)
  BY DEF Peek
<1> DEFINE next == IF c \in DOMAIN Now.on THEN Now.on[c] ELSE Now.other
<1>3. next \in RuleName
  BY <1>1, NowGood DEF WellFormed
<1>4. Lends(calls[1].rule, calls[1].at, 0, next)
  BY <1>1, NowBalanced DEF Balanced
<1> HIDE DEF next
<1>5. Goto(next) /\ ahead' \in Classes \cup {"any"}
  BY <1>2 DEF Peeks, next
<1>6. Paid(calls', Consumed + 0) /\ Consumed + 0 = Consumed
  BY <1>1, <1>3, <1>4, <1>5, BranchPaid, ConsumedNat
<1>7. result' \in Results
  BY <1>5, ResultOK DEF Full
<1>8. QED
  BY <1>1, <1>5, <1>6, <1>7, StillInOrder

\* A call or a branch of a function moves no token.
LEMMA ControlInOrder ==
  ASSUME Full, Inv', CallRule \/ Branch
  PROVE  InOrder
<1>1. /\ calls # <<>> /\ CallsOK /\ UNCHANGED text /\ UNCHANGED <<seen, ring, got, ahead>>
      /\ Now.op \in {"call", "if"}
  BY DEF CallRule, Branch, Running, Full, Inv, tokens
<1>2. PICK next \in RuleName : Goto(next) /\ Lends(calls[1].rule, calls[1].at, 0, next)
  <2>1. CASE CallRule
    <3>1. Now.op = "call" /\ Goto(Now.rule)
      BY <2>1 DEF CallRule
    <3>2. Now.rule \in RuleName
      BY <1>1, <3>1, NowGood DEF WellFormed, RuleName
    <3>3. Lends(calls[1].rule, calls[1].at, 0, Now.rule)
      BY <1>1, <3>1, NowBalanced DEF Balanced
    <3>4. QED
      BY <3>1, <3>2, <3>3
  <2>2. CASE Branch
    <3>1. Now.op = "if" /\ (Goto(Now.yes) \/ Goto(Now.no))
      BY <2>2 DEF Branch
    <3>2. Now.yes \in RuleName /\ Now.no \in RuleName
      BY <1>1, <3>1, NowGood DEF WellFormed
    <3>3. Lends(calls[1].rule, calls[1].at, 0, Now.yes) /\ Lends(calls[1].rule, calls[1].at, 0, Now.no)
      BY <1>1, <3>1, NowBalanced DEF Balanced
    <3>4. QED
      BY <3>1, <3>2, <3>3
  <2>3. QED
    BY <2>1, <2>2
<1>3. Paid(calls', Consumed + 0) /\ Consumed + 0 = Consumed
  BY <1>1, <1>2, BranchPaid, ConsumedNat
<1>4. result' \in Results /\ ahead' \in Classes \cup {"any"}
  BY <1>1, <1>2, ResultOK DEF Full, Typed
<1>5. QED
  BY <1>1, <1>3, <1>4, StillInOrder

\* parseRegex pushes back what it has read, or reads a regular expression.
LEMMA ParseRegexInOrder ==
  ASSUME Full, Inv', ParseRegex
  PROVE  InOrder
<1>1. calls # <<>> /\ Now.op = "regex" /\ CallsOK /\ UNCHANGED text /\ Typed
  BY DEF ParseRegex, RegexBlank, RegexConsume, RegexStart, RegexParam, RegexRead, AtStage, Running, Full, Inv
<1>2. Consumed \in Nat /\ Paid(calls, Consumed)
  BY ConsumedNat DEF Full, Funded
<1>3. /\ Now.yes \in RuleName /\ Now.no \in RuleName /\ "fail" \in RuleName
      /\ Lends(calls[1].rule, calls[1].at, 1, Now.yes)
      /\ Lends(calls[1].rule, calls[1].at, 0, Now.no)
  BY <1>1, NowGood, NowBalanced DEF WellFormed, RuleName, Balanced
<1>4. ASSUME NEW s \in {"blank", "consume", "start", "param", "read"}, Stage(s),
             NEW n \in 0 .. 1
      PROVE  Consumed + n \in Nat /\ Paid(calls', Consumed + n)
  <2>1. Consumed + n \in Nat /\ Consumed + n >= Consumed
    BY <1>2
  <2>2. QED
    BY <1>1, <1>2, <1>4, <2>1, StagePaid
<1>5. ASSUME Goto(Now.no)
      PROVE  Consumed + 0 \in Nat /\ Paid(calls', Consumed + 0)
  BY <1>1, <1>3, <1>5, BranchPaid
<1>6. result' \in Results
  BY <1>1, ResultOK DEF ParseRegex, RegexBlank, RegexConsume, RegexStart, RegexParam, RegexRead
<1>7. CASE RegexBlank
  <2>1. PICK c \in Classes : Peeks(c) /\ Stage(IF c = " " THEN "consume" ELSE "start")
    BY <1>7 DEF RegexBlank
  <2>2. ahead' \in Classes \cup {"any"}
    BY <2>1 DEF Peeks
  <2>1a. Stage("consume") \/ Stage("start")
    BY <2>1
  <2>3. Paid(calls', Consumed + 0) /\ Consumed + 0 = Consumed
    BY <1>2, <1>4, <2>1a
  <2>4. UNCHANGED <<seen, ring, got>>
    BY <1>7 DEF RegexBlank
  <2>5. QED
    BY <1>1, <1>6, <2>2, <2>3, <2>4, StillInOrder
<1>8. CASE RegexConsume
  <2>1. PICK x \in Scanned("Scan"), k \in 0 .. 1 : Read(x, k)
    BY <1>8 DEF RegexConsume
  <2>2. Stage("start")
    BY <1>8 DEF RegexConsume
  <2>3. 1 - k \in 0 .. 1 /\ k \in 0 .. 2
    OBVIOUS
  <2>4. Consumed + (1 - k) \in Nat /\ Paid(calls', Consumed + (1 - k))
    BY <1>4, <2>2, <2>3
  <2>5. QED
    BY <1>1, <1>6, <2>1, <2>3, <2>4, ReadInOrder
<1>9. CASE RegexStart
  <2>1. PICK c \in Classes : Peeks(c) /\ (Stage("param") \/ Stage("read") \/ Goto(Now.no))
    BY <1>9 DEF RegexStart
  <2>2. ahead' \in Classes \cup {"any"}
    BY <2>1 DEF Peeks
  <2>3. Paid(calls', Consumed + 0) /\ Consumed + 0 = Consumed
    BY <1>2, <1>4, <1>5, <2>1
  <2>4. UNCHANGED <<seen, ring, got>>
    BY <1>9 DEF RegexStart
  <2>5. QED
    BY <1>1, <1>6, <2>2, <2>3, <2>4, StillInOrder
<1>10. CASE RegexParam
  <2>1. PICK x \in Scanned("Scan") : Read(x, 1) /\ (Stage("read") \/ Goto(Now.no))
    BY <1>10 DEF RegexParam
  <2>2. Consumed + 0 \in Nat /\ Paid(calls', Consumed + 0) /\ 1 - 1 = 0
    BY <1>4, <1>5, <2>1
  <2>3. Consumed + (1 - 1) \in Nat /\ Paid(calls', Consumed + (1 - 1))
    BY <2>2
  <2>4. QED
    BY <1>1, <1>6, <2>1, <2>3, ReadInOrder
<1>11. CASE RegexRead
  <2>1. PICK x \in Scanned("ScanRegex") : Read(x, 0) /\ (Goto(Now.yes) \/ Goto("fail"))
    BY <1>11 DEF RegexRead
  <2>2. Lends(calls[1].rule, calls[1].at, 1, "fail")
    BY DEF Lends
  <2>3. Consumed + 1 \in Nat /\ Paid(calls', Consumed + 1) /\ 1 - 0 = 1
    BY <1>1, <1>3, <2>1, <2>2, BranchPaid
  <2>4. Consumed + (1 - 0) \in Nat /\ Paid(calls', Consumed + (1 - 0))
    BY <2>3
  <2>5. QED
    BY <1>1, <1>6, <2>1, <2>4, ReadInOrder
<1>12. QED
  BY <1>7, <1>8, <1>9, <1>10, <1>11 DEF ParseRegex

\* Unscan: the tokens were lent.
LEMMA PushBackInOrder ==
  ASSUME Full, Inv', PushBack
  PROVE  InOrder
<1>1. calls # <<>> /\ Now.op = "unscan" /\ CallsOK /\ Rest /\ UNCHANGED text /\ UNCHANGED <<seen, ahead, got>>
  BY DEF PushBack, Running, Full, Inv
<1> DEFINE k == Now.k
<1>2. k \in 1 .. 2 /\ Settles(calls[1].rule, calls[1].at, 0 - k)
  BY <1>1, NowGood, NowBalanced DEF WellFormed, Balanced
<1>3. ring' = Unscan(ring, k) /\ result' \in Results
  BY <1>1, ResultOK DEF PushBack, Full
<1> HIDE DEF k
<1>4. Consumed \in Nat /\ Paid(calls, Consumed) /\ 0 - k \in Int
  BY <1>2, ConsumedNat DEF Full, Funded
<1>5. Consumed + (0 - k) \in Nat /\ Paid(calls', Consumed + (0 - k))
  BY <1>1, <1>2, <1>4, RestPaid
<1>6. /\ ring = [i |-> ring.i, n |-> ring.n, buf |-> ring.buf] /\ ring \in Buffer
      /\ ring.n \in Nat /\ Len(seen) \in Nat
  BY DEF Full, Inv, RingOK, Typed, Buffer
<1>7. ring' = [i |-> ring.i, n |-> ring.n + k, buf |-> ring.buf]
  BY <1>3, <1>6 DEF Unscan
<1>8. ring' \in Buffer /\ ring'.n = ring.n + k
  BY <1>2, <1>6, <1>7 DEF Buffer
<1>9. Consumed' = Consumed + (0 - k) /\ Len(seen) - Consumed' = ring'.n
  BY <1>1, <1>2, <1>6, <1>8 DEF Consumed
<1>10. ring'.n <= BufLen
  BY DEF Inv, DepthOK, RingOK, BufLen
<1>11. PB!Back(k) /\ k \in 0 .. BufLen
  BY <1>1, <1>2, <1>4, <1>5, <1>9, <1>10 DEF PB!Back, BufLen
<1>12. PB!PNext
  BY <1>11 DEF PB!PNext
<1>13. Typed'
  BY <1>1, <1>3, <1>8 DEF Full, Typed, text, Results
<1>14. Funded'
  BY <1>5, <1>9 DEF Funded
<1>15. QED
  BY <1>12, <1>13, <1>14 DEF InOrder

\* What is stored moves no token.
LEMMA StoreInOrder ==
  ASSUME Full, Inv', SetKind \/ SetFlag \/ OpenField \/ CloseField \/ EndStmt
  PROVE  InOrder
<1>1. /\ calls # <<>> /\ Now.op \in {"kind", "mark", "open", "close", "end"} /\ CallsOK /\ Rest
      /\ UNCHANGED text /\ UNCHANGED <<seen, ring, got, ahead>>
  BY DEF SetKind, SetFlag, OpenField, CloseField, EndStmt, Running, Full, Inv, tokens
<1>2. Settles(calls[1].rule, calls[1].at, 0)
  BY <1>1, NowBalanced DEF Balanced
<1>3. Consumed \in Nat /\ Paid(calls, Consumed)
  BY ConsumedNat DEF Full, Funded
<1>4. Paid(calls', Consumed + 0) /\ Consumed + 0 = Consumed
  BY <1>1, <1>2, <1>3, RestPaid
<1>5. result' \in Results /\ ahead' \in Classes \cup {"any"}
  BY <1>1, ResultOK DEF Full, Typed
<1>6. QED
  BY <1>1, <1>4, <1>5, StillInOrder

\* Succeed, the end and stuttering move no token.
LEMMA SameInOrder ==
  ASSUME Full, Succeed \/ Finished \/ UNCHANGED vars
  PROVE  InOrder
<1>1. UNCHANGED text /\ UNCHANGED <<seen, ring, got, ahead, calls>>
  BY DEF Succeed, Finished, vars, text, tokens
<1>2. result' \in Results /\ ahead' \in Classes \cup {"any"}
  BY <1>1 DEF Succeed, Finished, vars, Full, Typed, Results
<1>3. Paid(calls', Consumed)
  BY <1>1 DEF Full, Funded
<1>4. QED
  BY <1>1, <1>2, <1>3, StillInOrder

\* The zero value of the ring.
LEMMA NewBufferTyped == NewBuffer \in Buffer /\ NewBuffer.n = 0
<1> DEFINE b == [k \in 0 .. BufLen - 1 |-> [tok |-> "ILLEGAL", lit |-> ""]]
<1>1. b \in [0 .. BufLen - 1 -> Lexeme]
  BY LexemeAssumption
<1>2. NewBuffer = [i |-> 0, n |-> 0, buf |-> b] /\ 0 \in 0 .. BufLen - 1
  BY DEF NewBuffer, BufLen
<1> HIDE DEF b
<1>3. QED
  BY <1>1, <1>2 DEF Buffer

\* A new parser is lent nothing.
LEMMA StartPaid == Paid(Enter(Start, <<>>), 0)
<1>1. <<>> \in Seq(Frame) /\ Paid(<<>>, 0) /\ Start \in DOMAIN Rules
  BY PaidEmpty, GrammarAssumption
<1>2. Paid(Enter(Start, <<>>), 0 + Lent[Start][1])
  BY <1>1, EnterPaid
<1>3. QED
  BY <1>2, BalanceAssumption

\* Before the first token is read.
LEMMA InitFull == Init => Full
<1> SUFFICES ASSUME Init
             PROVE  Full
  OBVIOUS
<1>1. Typed
  BY NewBufferTyped, TextAssumption DEF Init, Typed, EOF
<1>2. Consumed = 0
  BY NewBufferTyped DEF Init, Consumed
<1>3. Funded
  BY <1>2, StartPaid DEF Init, Funded
<1>4. QED
  BY <1>1, <1>3, InitOK DEF Full

\* The second text.
LEMMA ReparseFull ==
  ASSUME Full, Inv', ReparsePrinted \/ ReparseCommented
  PROVE  Full' /\ round' # round
<1>1. /\ round = "source" /\ round' \in {"printed", "commented"} /\ alphabet' = alphabet
      /\ seen' = <<>> /\ ring' = NewBuffer /\ ahead' = "any" /\ got' = EOF
      /\ calls' = Enter(Start, <<>>) /\ result' = "running"
  BY DEF ReparsePrinted, ReparseCommented, Reparse
<1>2. Typed'
  BY <1>1, NewBufferTyped, TextAssumption DEF Full, Typed, EOF
<1>3. Consumed' = 0
  BY <1>1, NewBufferTyped DEF Consumed
<1>4. Funded'
  BY <1>1, <1>3, StartPaid DEF Funded
<1>5. QED
  BY <1>1, <1>2, <1>4 DEF Full

\* Every step keeps the invariant, and within a parse it is one of Pushback.
LEMMA NextFull ==
  ASSUME Full, [Next]_vars
  PROVE  Full' /\ (round' = round => PB!PNext \/ UNCHANGED PB!pvars)
<1>1. Inv'
  BY NextOK DEF Full
<1>2. ASSUME InOrder
      PROVE  Full' /\ (PB!PNext \/ UNCHANGED PB!pvars)
  BY <1>1, <1>2 DEF InOrder, Full
<1>3. CASE ParseQuery
  BY <1>1, <1>2, <1>3, ScanBlankInOrder, ScanHitInOrder, ScanMissInOrder, PeekInOrder,
     ParseRegexInOrder, ControlInOrder, PushBackInOrder, StoreInOrder, SameInOrder DEF ParseQuery
<1>4. CASE ReparsePrinted \/ ReparseCommented
  BY <1>1, <1>4, ReparseFull
<1>5. CASE Finished \/ UNCHANGED vars
  BY <1>2, <1>5, SameInOrder
<1>6. QED
  BY <1>3, <1>4, <1>5 DEF Next

----------------------------------------------------------------------------
(* The pieces of a text.                                                   *)

\* The texts s and t begin with the same n tokens.
Same(s, t, n) == \A j \in 1 .. n : t[j] = s[j]

\* What is said of the first n tokens of a text is said of no other token.
LEMMA PiecesKept ==
  ASSUME NEW s, NEW t, NEW n \in Nat, Same(s, t, n)
  PROVE  /\ Clear(t, n) <=> Clear(s, n)
         /\ \A k \in 1 .. n : Begins(t, k) <=> Begins(s, k)
         /\ Begun(t, n) = Begun(s, n)
<1>1. ASSUME NEW m \in 0 .. n
      PROVE  Clear(t, m) <=> Clear(s, m)
  <2>1. \A j \in 1 .. m : t[j] = s[j]
    BY DEF Same
  <2>2. \A j \in 1 .. m : \A i \in j + 1 .. m : i \in 1 .. m
    OBVIOUS
  <2>3. QED
    BY <2>1, <2>2 DEF Clear
<1>2. ASSUME NEW k \in 1 .. n
      PROVE  Begins(t, k) <=> Begins(s, k)
  <2>1. k - 1 \in 0 .. n /\ t[k] = s[k]
    BY DEF Same
  <2>2. QED
    BY <1>1, <2>1 DEF Begins
<1>3. Begun(t, n) = Begun(s, n)
  BY <1>2 DEF Begun
<1>4. QED
  BY <1>1, <1>2, <1>3

\* A semicolon leaves no statement open, and a blank opens none.
LEMMA ClearNext ==
  ASSUME NEW s, NEW n \in Nat,
         s[n + 1].tok = "SEMICOLON" \/ (Clear(s, n) /\ s[n + 1].tok \in Blanks)
  PROVE  Clear(s, n + 1)
<1> SUFFICES ASSUME NEW j \in 1 .. n + 1, s[j].tok \notin Blanks \cup {"SEMICOLON"}
             PROVE  \E i \in j + 1 .. n + 1 : s[i].tok = "SEMICOLON"
  BY DEF Clear
<1>1. j # n + 1
  OBVIOUS
<1>2. j \in 1 .. n
  BY <1>1
<1>3. CASE s[n + 1].tok = "SEMICOLON"
  <2>1. n + 1 \in j + 1 .. n + 1
    BY <1>2
  <2>2. QED
    BY <1>3, <2>1
<1>4. CASE Clear(s, n)
  <2>1. PICK i \in j + 1 .. n : s[i].tok = "SEMICOLON"
    BY <1>2, <1>4 DEF Clear
  <2>2. i \in j + 1 .. n + 1
    BY <1>2
  <2>3. QED
    BY <2>1, <2>2
<1>5. QED
  BY <1>3, <1>4

\* A token more.
LEMMA BegunNext ==
  ASSUME NEW s, NEW n \in Nat
  PROVE  Begun(s, n + 1) = IF Begins(s, n + 1) THEN Begun(s, n) \cup {n + 1} ELSE Begun(s, n)
<1>1. 1 .. n + 1 = (1 .. n) \cup {n + 1}
  OBVIOUS
<1>2. QED
  BY <1>1 DEF Begun

\* The statement that a token begins is one more.
LEMMA BegunMore ==
  ASSUME NEW s, NEW n \in Nat, Begins(s, n + 1)
  PROVE  Cardinality(Begun(s, n + 1)) = Cardinality(Begun(s, n)) + 1
<1>1. IsFiniteSet(Begun(s, n))
  <2>1. IsFiniteSet(1 .. n)
    BY FS_Interval
  <2>2. Begun(s, n) \in SUBSET (1 .. n)
    BY DEF Begun
  <2>3. QED
    BY <2>1, <2>2, FS_Subset
<1>2. n + 1 \notin Begun(s, n)
  BY DEF Begun
<1>3. Begun(s, n + 1) = Begun(s, n) \cup {n + 1}
  BY BegunNext
<1>4. QED
  BY <1>1, <1>2, <1>3, FS_AddElement

\* The token b begins a statement, which is still open at n.
Held(s, b, n) ==
  b \in 1 .. n /\ Begins(s, b) /\ \A k \in b + 1 .. n : s[k].tok \notin Separators

\* No statement begins in a statement, or with the token behind it.
LEMMA HeldBegun ==
  ASSUME NEW s, NEW n \in Nat, NEW b, Held(s, b, n)
  PROVE  Begun(s, n + 1) = Begun(s, b)
<1>1. b \in 1 .. n /\ Begins(s, b) /\ \A k \in b + 1 .. n : s[k].tok \notin Separators
  BY DEF Held
<1>2. ASSUME NEW k \in b + 1 .. n + 1, Begins(s, k)
      PROVE  FALSE
  <2>1. Clear(s, k - 1) /\ b \in 1 .. k - 1 /\ s[b].tok \notin Blanks \cup {"SEMICOLON"}
    BY <1>1, <1>2 DEF Begins
  <2>2. PICK i \in b + 1 .. k - 1 : s[i].tok = "SEMICOLON"
    BY <2>1 DEF Clear
  <2>3. i \in b + 1 .. n
    BY <1>1
  <2>4. QED
    BY <1>1, <2>2, <2>3 DEF Separators
<1>3. 1 .. n + 1 = (1 .. b) \cup (b + 1 .. n + 1)
  BY <1>1
<1>4. QED
  BY <1>2, <1>3 DEF Begun

\* A statement stays open over what is no separator, and when tokens behind its
\* first one are pushed back.
LEMMA HeldKept ==
  ASSUME NEW s, NEW t, NEW n \in Nat, NEW b, Held(s, b, n), Same(s, t, n)
  PROVE  /\ b \in 1 .. n /\ Begun(t, b) = Begun(s, b)
         /\ \A m \in b .. n : Held(t, b, m)
         /\ t[n + 1].tok \notin Separators => Held(t, b, n + 1)
<1>1. b \in 1 .. n /\ Begins(s, b) /\ \A k \in b + 1 .. n : s[k].tok \notin Separators
  BY DEF Held
<1>2. Same(s, t, b)
  BY <1>1 DEF Same
<1>3. Begins(t, b) /\ Begun(t, b) = Begun(s, b)
  BY <1>1, <1>2, PiecesKept
<1>4. \A k \in b + 1 .. n : t[k].tok \notin Separators
  BY <1>1 DEF Same
<1>5. ASSUME NEW m \in b .. n
      PROVE  Held(t, b, m)
  <2>1. b \in 1 .. m /\ \A k \in b + 1 .. m : k \in b + 1 .. n
    BY <1>1
  <2>2. QED
    BY <1>3, <1>4, <2>1 DEF Held
<1>6. ASSUME t[n + 1].tok \notin Separators
      PROVE  Held(t, b, n + 1)
  <2>1. b \in 1 .. n + 1 /\ \A k \in b + 1 .. n + 1 : k \in b + 1 .. n \/ k = n + 1
    BY <1>1
  <2>2. QED
    BY <1>3, <1>4, <1>6, <2>1 DEF Held
<1>7. QED
  BY <1>1, <1>3, <1>5, <1>6

----------------------------------------------------------------------------
(* What ParseQuery has read and parsed: the inductive invariant.           *)

\* The end of the text is the last token, and once it is consumed all functions
\* have returned.
EndOnce ==
  \A k \in 1 .. Len(seen) : seen[k].tok = "EOF" => k = Len(seen) /\ (calls = <<>> \/ Consumed < k)

\* Between statements, each one that was begun has been parsed.
Idle ==
  /\ result = "running" /\ Clear(seen, Consumed)
  /\ Len(stmts) = Cardinality(Begun(seen, Consumed))

OneCall(r, p) == Len(calls) = 1 /\ calls[1].rule = r /\ calls[1].at = p

TwoCalls ==
  /\ Len(calls) = 2 /\ calls[1].rule = Language /\ calls[1].at = 1
  /\ calls[2].rule = Statement /\ calls[2].at = 2

\* The outermost call waits for a statement, and the others parse it.
Inside(s) ==
  /\ s # <<>> /\ s[Len(s)].rule = Statement /\ s[Len(s)].at = 2
  /\ \A j \in 1 .. Len(s) - 1 : s[j].rule \notin Outer

\* Token b began the statement: the calls are lent tokens behind it.
Parsing(b) ==
  /\ Held(seen, b, Consumed) /\ Len(stmts) + 1 = Cardinality(Begun(seen, b))
  /\ Paid(calls, Consumed - b)

Parsed(b) == Held(seen, b, Consumed) /\ Len(stmts) = Cardinality(Begun(seen, b))

AtStart == Idle /\ OneCall(Start, 1)

AtStatement == Idle /\ OneCall(Statement, 1)

AtLanguage == Idle /\ TwoCalls

InStatement == result = "running" /\ Inside(calls) /\ \E b \in Nat : Parsing(b)

AfterOne ==
  /\ result = "running" /\ (OneCall(Statement, 3) \/ OneCall(AfterStatement, 1))
  /\ \E b \in Nat : Parsed(b)

AtEnd ==
  /\ result \in {"running", "ok"} /\ calls = <<>>
  /\ Consumed = Len(seen) /\ seen # <<>> /\ seen[Len(seen)].tok = "EOF"
  /\ Len(stmts) = Cardinality(Begun(seen, Len(seen)))

Progress ==
  \/ result = "error"
  \/ AtStart \/ AtStatement \/ AtLanguage \/ InStatement \/ AfterOne \/ AtEnd

Counted == EndOnce /\ IsSeq(stmts) /\ Progress

Fails == result' = "error" /\ calls' = <<>>

----------------------------------------------------------------------------
(* The tokens.                                                             *)

\* A parameter stands for no blank and no separator.
LEMMA BoundSame ==
  ASSUME NEW l, NEW t \in Blanks \cup Separators
  PROVE  Bound(l).tok = t <=> l.tok = t
<1>1. CASE l.tok = "BOUNDPARAM" /\ l.lit \in DOMAIN Params
  <2> DEFINE p == Params[l.lit]
  <2>0. p.tok \notin Blanks \cup Separators
    BY <1>1, QueryAssumption, Zenon
  <2>1. Bound(l) = p /\ p.tok \notin Blanks \cup Separators
    BY <1>1, <2>0 DEF Bound
  <2>2. t # "BOUNDPARAM"
    BY DEF Blanks, Separators
  <2>3. Bound(l).tok # t
    BY <2>1, Zenon
  <2>4. QED
    BY <1>1, <2>2, <2>3
<1>2. CASE ~ (l.tok = "BOUNDPARAM" /\ l.lit \in DOMAIN Params)
  BY <1>2 DEF Bound
<1>3. QED
  BY <1>1, <1>2

\* A token is read: the next one that was not consumed.
LEMMA TokenRead ==
  ASSUME Full, NEW fn, NEW x \in Scanned(fn), NEW k \in 0 .. 2, Read(x, k)
  PROVE  /\ Consumed \in Nat /\ Len(seen) \in Nat /\ Len(seen') \in Nat
         /\ Consumed' = Consumed + (1 - k) /\ Consumed + 1 <= Len(seen')
         /\ seen'[Consumed + 1] = x /\ Same(seen, seen', Consumed)
         /\ \/ seen' = seen
            \/ Consumed = Len(seen) /\ Len(seen') = Len(seen) + 1
<1>1. Consumed \in Nat /\ Inv /\ Typed
  BY ConsumedNat DEF Full
<1>2. Consumed' = Consumed + (1 - k) /\ (ring.n > 0 => x = seen[Consumed + 1])
  BY <1>1, ReadMoves, ScannedTyped
<1>3. seen \in Seq(Lexeme) /\ Len(seen) \in Nat /\ ring.n \in Nat /\ Consumed = Len(seen) - ring.n
  BY <1>1 DEF Typed, Inv, RingOK, Consumed
<1>4. CASE ring.n > 0
  <2>1. seen' = seen
    BY <1>4 DEF Read
  <2>2. Consumed + 1 <= Len(seen)
    BY <1>3, <1>4
  <2>3. QED
    BY <1>1, <1>2, <1>3, <1>4, <2>1, <2>2 DEF Same
<1>5. CASE ~ ring.n > 0
  <2>1. seen' = Append(seen, x) /\ Consumed = Len(seen)
    BY <1>3, <1>5 DEF Read
  <2>2. /\ Len(seen') = Len(seen) + 1 /\ seen'[Len(seen) + 1] = x
        /\ \A j \in 1 .. Len(seen) : seen'[j] = seen[j]
    BY <1>3, <2>1
  <2>3. Same(seen, seen', Consumed) /\ seen'[Consumed + 1] = x
    BY <2>1, <2>2 DEF Same
  <2>4. Consumed + 1 <= Len(seen') /\ Len(seen') \in Nat
    BY <1>3, <2>1, <2>2
  <2>5. QED
    BY <1>1, <1>2, <1>3, <2>1, <2>2, <2>3, <2>4
<1>6. QED
  BY <1>4, <1>5

\* The end of the text is read once, and consumed only to return.
LEMMA EndRead ==
  ASSUME Full, EndOnce, calls # <<>>, NEW fn, NEW x \in Scanned(fn), NEW k \in 0 .. 2, Read(x, k),
         k = 0 /\ x.tok = "EOF" => calls' = <<>>
  PROVE  EndOnce'
<1> SUFFICES ASSUME NEW j \in 1 .. Len(seen'), seen'[j].tok = "EOF"
             PROVE  j = Len(seen') /\ (calls' = <<>> \/ Consumed' < j)
  BY DEF EndOnce
<1>1. /\ Consumed \in Nat /\ Len(seen) \in Nat /\ Len(seen') \in Nat
      /\ Consumed' = Consumed + (1 - k) /\ Consumed + 1 <= Len(seen')
      /\ seen'[Consumed + 1] = x /\ Same(seen, seen', Consumed)
      /\ \/ seen' = seen
         \/ Consumed = Len(seen) /\ Len(seen') = Len(seen) + 1
  BY TokenRead
<1>2. j >= Consumed + 1
  <2>1. CASE seen' = seen
    <3>1. Consumed < j
      BY <2>1 DEF EndOnce
    <3>2. QED
      BY <1>1, <3>1
  <2>2. CASE Consumed = Len(seen)
    <3>1. ASSUME j <= Consumed
          PROVE  FALSE
      <4>1. j \in 1 .. Len(seen) /\ j \in 1 .. Consumed
        BY <1>1, <2>2, <3>1
      <4>2. seen[j].tok = "EOF"
        BY <1>1, <4>1 DEF Same
      <4>3. Consumed < j
        BY <4>1, <4>2 DEF EndOnce
      <4>4. QED
        BY <1>1, <3>1, <4>3
    <3>2. QED
      BY <1>1, <3>1
  <2>3. QED
    BY <1>1, <2>1, <2>2
<1>3. j = Len(seen')
  <2>1. CASE seen' = seen
    BY <2>1 DEF EndOnce
  <2>2. CASE Consumed = Len(seen) /\ Len(seen') = Len(seen) + 1
    BY <1>1, <1>2, <2>2
  <2>3. QED
    BY <1>1, <2>1, <2>2
<1>4. CASE Consumed' < j
  BY <1>3, <1>4
<1>5. CASE ~ Consumed' < j
  <2>1. k = 0 /\ j = Consumed + 1
    BY <1>1, <1>2, <1>5
  <2>2. QED
    BY <1>1, <1>3, <2>1
<1>6. QED
  BY <1>4, <1>5

\* Nothing is read.
LEMMA EndKept ==
  ASSUME EndOnce, calls # <<>> \/ calls' = <<>>, seen' = seen, Len(seen) \in Nat,
         Consumed \in Int, Consumed' \in Int, Consumed' <= Consumed
  PROVE  EndOnce'
BY DEF EndOnce

\* A token is read to return an error.
LEMMA FailedRead ==
  ASSUME Full, Counted, calls # <<>>, NEW fn, NEW x \in Scanned(fn), NEW k \in 0 .. 2, Read(x, k),
         Fails, stmts' = stmts
  PROVE  Counted'
<1>1. EndOnce'
  BY EndRead DEF Counted, Fails
<1>2. QED
  BY <1>1 DEF Counted, Fails, IsSeq, Progress

\* An error is returned when nothing was read.
LEMMA FailedKept ==
  ASSUME Full, Counted, calls # <<>>, seen' = seen, ring' = ring, Fails, stmts' = stmts
  PROVE  Counted'
<1>1. Consumed \in Nat /\ Consumed' = Consumed /\ Len(seen) \in Nat
  BY ConsumedNat DEF Consumed, Full, Typed
<1>2. EndOnce'
  BY <1>1, EndKept DEF Counted
<1>3. QED
  BY <1>2 DEF Counted, Fails, IsSeq, Progress

\* Between statements, a token is read and consumed that begins none.
LEMMA IdleRead ==
  ASSUME Full, Idle, NEW fn, NEW x \in Scanned(fn), Read(x, 0), stmts' = stmts, result' = result,
         x.tok \in Blanks \cup {"SEMICOLON"}
  PROVE  Idle'
<1>1. /\ Consumed \in Nat /\ Consumed' = Consumed + 1
      /\ seen'[Consumed + 1] = x /\ Same(seen, seen', Consumed)
  BY TokenRead
<1>2. Clear(seen', Consumed) /\ Begun(seen', Consumed) = Begun(seen, Consumed)
  BY <1>1, PiecesKept DEF Idle
<1>3. Clear(seen', Consumed + 1)
  <2> DEFINE t == seen'
             c == Consumed
  <2>1. c \in Nat /\ t[c + 1] = x /\ Clear(t, c)
    BY <1>1, <1>2
  <2> HIDE DEF t, c
  <2>2. t[c + 1].tok = "SEMICOLON" \/ (Clear(t, c) /\ t[c + 1].tok \in Blanks)
    BY <2>1
  <2>3. Clear(t, c + 1)
    BY <2>1, <2>2, ClearNext
  <2>4. QED
    BY <2>3 DEF t, c
<1>4. Begun(seen', Consumed + 1) = Begun(seen', Consumed)
  <2>1. ~ Begins(seen', Consumed + 1)
    BY <1>1 DEF Begins
  <2>2. QED
    BY <1>1, <2>1, BegunNext
<1>5. QED
  BY <1>1, <1>2, <1>3, <1>4 DEF Idle

\* Between statements, a token is read and pushed back.
LEMMA IdlePeek ==
  ASSUME Full, Idle, NEW fn, NEW x \in Scanned(fn), Read(x, 1), stmts' = stmts, result' = result
  PROVE  Idle'
<1>1. /\ Consumed \in Nat /\ Consumed' = Consumed + (1 - 1) /\ Same(seen, seen', Consumed)
  BY TokenRead
<1>2. Clear(seen', Consumed) /\ Begun(seen', Consumed) = Begun(seen, Consumed) /\ Consumed' = Consumed
  BY <1>1, PiecesKept DEF Idle
<1>3. QED
  BY <1>2 DEF Idle

----------------------------------------------------------------------------
(* The loop of ParseQuery.                                                 *)

\* A sequence with one element.
LEMMA OneLong ==
  ASSUME NEW S, NEW s \in Seq(S), Len(s) = 1
  PROVE  s # <<>> /\ s[1] \in S /\ Tail(s) = <<>>
<1>1. s # <<>> /\ s[1] \in S
  OBVIOUS
<1>2. Tail(s) \in Seq(S) /\ Len(Tail(s)) = 0
  BY <1>1
<1>3. \A t \in Seq(S) : Len(t) = 0 => t = <<>>
  OBVIOUS
<1>4. QED
  BY <1>1, <1>2, <1>3

\* The only call returns.
LEMMA LastCall ==
  ASSUME CallsOK, Len(calls) = 1, calls[1].at = Len(Rules[calls[1].rule])
  PROVE  calls # <<>> /\ Advanced = <<>>
<1>1. calls # <<>> /\ calls[1] \in Frame /\ Tail(calls) = <<>>
  <2>1. calls \in Seq(Frame)
    BY DEF CallsOK
  <2>2. QED
    BY <2>1, OneLong
<1>2. calls[1].at \in Nat
  BY <1>1 DEF Frame
<1>3. ~ calls[1].at < Len(Rules[calls[1].rule])
  BY <1>2
<1>4. QED
  BY <1>1, <1>3 DEF Advanced

\* The only call goes on with a rule.
LEMMA LastGoto ==
  ASSUME CallsOK, Len(calls) = 1, calls[1].at = Len(Rules[calls[1].rule]),
         NEW r \in DOMAIN Rules, Goto(r)
  PROVE  /\ result' = result
         /\ Rules[r] = <<>> => calls' = <<>>
         /\ Rules[r] # <<>> => OneCall(r, 1)'
<1>1. Advanced = <<>> /\ r # "fail"
  BY LastCall, GrammarAssumption
<1>2. result' = result /\ calls' = Enter(r, <<>>)
  BY <1>1 DEF Goto
<1>3. CASE Rules[r] = <<>>
  BY <1>2, <1>3 DEF Enter
<1>4. CASE Rules[r] # <<>>
  <2> DEFINE f == [rule |-> r, at |-> 1, stage |-> "blank"]
  <2>1. calls' = <<f>> \o <<>>
    BY <1>2, <1>4 DEF Enter
  <2>2. Len(<<f>> \o <<>>) = 1 /\ (<<f>> \o <<>>)[1] = f
    OBVIOUS
  <2>3. QED
    BY <1>2, <1>4, <2>1, <2>2 DEF OneCall
<1>5. QED
  BY <1>3, <1>4

\* What the instruction that comes next does.
LEMMA StepOfOp ==
  ASSUME calls # <<>>, ParseQuery
  PROVE  /\ Now.op = "scan" => ScanBlank \/ ScanHit \/ ScanMiss
         /\ Now.op = "call" => CallRule
         /\ Now.op = "end" => EndStmt
BY DEF ParseQuery, ParseRegex, ScanBlank, ScanHit, ScanMiss, Peek, RegexBlank, RegexConsume, RegexStart,
       RegexParam, RegexRead, AtStage, CallRule, Branch, PushBack, SetKind, SetFlag, OpenField, CloseField,
       EndStmt, Succeed

----------------------------------------------------------------------------
(* The steps of ParseQuery's loop and of ParseStatement.                   *)

\* A scan that skips blanks reads one.
LEMMA BlankRead ==
  ASSUME Full, ScanBlank
  PROVE  /\ calls # <<>> /\ UNCHANGED <<calls, result, stmts>>
         /\ \E x \in Scanned("Scan") : x.tok \in Blanks /\ Read(x, 0)
<1>1. PICK x \in Scanned("Scan") : Bound(x).tok \in Blanks /\ Read(x, 0)
  BY DEF ScanBlank
<1>2. x.tok \in Blanks
  <2>1. Bound(x).tok \in Blanks \cup Separators
    BY <1>1
  <2>2. x.tok = Bound(x).tok
    BY <2>1, BoundSame
  <2>3. QED
    BY <1>1, <2>2
<1>3. QED
  BY <1>1, <1>2 DEF ScanBlank, Running, tree

\* The token of a hit is one that the instruction names.
LEMMA HitRead ==
  ASSUME Full, ScanHit
  PROVE  /\ calls # <<>> /\ stmts' = stmts /\ Now.op = "scan"
         /\ \E x \in Scanned("Scan") :
              /\ Now.skip => x.tok \notin Blanks
              /\ Bound(x).tok \in DOMAIN Now.on
              /\ \A t \in Separators : Bound(x).tok = t <=> x.tok = t
              /\ Read(x, Now.hit) /\ Goto(Now.on[Bound(x).tok])
<1>1. PICK x \in Scanned("Scan") :
        /\ Now.skip => Bound(x).tok \notin Blanks
        /\ Bound(x).tok \in DOMAIN Now.on
        /\ Read(x, Now.hit) /\ Goto(Now.on[Bound(x).tok])
  BY DEF ScanHit
<1>2. \A t \in Blanks \cup Separators : Bound(x).tok = t <=> x.tok = t
  BY BoundSame
<1>3. Now.skip => x.tok \notin Blanks
  BY <1>1, <1>2
<1>4. QED
  BY <1>1, <1>2, <1>3 DEF ScanHit, Running

\* The token of a miss is none that the instruction names.
LEMMA MissRead ==
  ASSUME Full, ScanMiss
  PROVE  /\ calls # <<>> /\ stmts' = stmts /\ Now.op = "scan"
         /\ \E x \in Scanned("Scan") :
              /\ Now.skip => x.tok \notin Blanks
              /\ \A t \in Separators \cap DOMAIN Now.on : x.tok # t
              /\ Read(x, Now.miss) /\ Goto(Now.other)
<1>1. PICK x \in Scanned("Scan") :
        /\ Now.skip => Bound(x).tok \notin Blanks
        /\ Bound(x).tok \notin DOMAIN Now.on
        /\ Read(x, Now.miss) /\ Goto(Now.other)
  BY DEF ScanMiss
<1>2. \A t \in Blanks \cup Separators : Bound(x).tok = t <=> x.tok = t
  BY BoundSame
<1>3. (Now.skip => x.tok \notin Blanks) /\ \A t \in Separators \cap DOMAIN Now.on : x.tok # t
  BY <1>1, <1>2
<1>4. QED
  BY <1>1, <1>3 DEF ScanMiss, Running, tree

\* A separator leaves no statement open, or ends the parse.
LEMMA AtSeparator ==
  ASSUME Full, Counted, NEW r, OneCall(r, 1), Len(Rules[r]) = 1, Now = Rules[r][1], Separates(Now),
         ScanHit, result = "running",
         \A t : Same(seen, t, Consumed) /\ t[Consumed + 1].tok \in Separators =>
                  Len(stmts) = Cardinality(Begun(t, Consumed + 1))
  PROVE  Counted'
<1>1. PICK x \in Scanned("Scan") :
        /\ Bound(x).tok \in DOMAIN Now.on
        /\ \A t \in Separators : Bound(x).tok = t <=> x.tok = t
        /\ Read(x, Now.hit) /\ Goto(Now.on[Bound(x).tok])
  BY HitRead
<1>2. /\ Now.hit = 0 /\ DOMAIN Now.on = Separators /\ Now.on["SEMICOLON"] = Start
      /\ Now.on["EOF"] \in DOMAIN Rules /\ Rules[Now.on["EOF"]] = <<>>
  BY DEF Separates
<1>3. x.tok \in Separators /\ Bound(x).tok = x.tok
  BY <1>1, <1>2
<1>4. Read(x, 0) /\ Goto(Now.on[x.tok])
  BY <1>1, <1>2, <1>3
<1>5. /\ CallsOK /\ calls # <<>> /\ Len(calls) = 1 /\ calls[1].at = Len(Rules[calls[1].rule])
      /\ stmts' = stmts
  BY HitRead DEF OneCall, Full, Inv
<1>6. Start \in DOMAIN Rules /\ Rules[Start] # <<>>
  BY GrammarAssumption, QueryAssumption
<1>7. /\ Consumed \in Nat /\ Consumed' = Consumed + (1 - 0) /\ Len(seen') \in Nat
      /\ Consumed + 1 <= Len(seen')
      /\ seen'[Consumed + 1] = x /\ Same(seen, seen', Consumed)
  BY <1>4, TokenRead
<1>8. Len(stmts) = Cardinality(Begun(seen', Consumed + 1))
  BY <1>3, <1>7
<1>9. IsSeq(stmts)'
  BY <1>5 DEF Counted, IsSeq
<1>10. CASE x.tok = "SEMICOLON"
  <2>1. Goto(Start)
    BY <1>2, <1>4, <1>10
  <2>2. result' = result /\ OneCall(Start, 1)'
    BY <1>5, <1>6, <2>1, LastGoto
  <2>3. EndOnce'
    BY <1>4, <1>5, <1>10, EndRead DEF Counted
  <2>4. Clear(seen', Consumed + 1)
    <3> DEFINE t == seen'
    <3>1. t[Consumed + 1].tok = "SEMICOLON"
      BY <1>7, <1>10
    <3> HIDE DEF t
    <3>2. Clear(t, Consumed + 1)
      BY <1>7, <3>1, ClearNext
    <3>3. QED
      BY <3>2 DEF t
  <2>5. Consumed' = Consumed + 1
    BY <1>7
  <2>6. AtStart'
    BY <1>5, <1>8, <2>2, <2>4, <2>5 DEF AtStart, Idle
  <2>7. QED
    BY <1>9, <2>3, <2>6 DEF Counted, Progress
<1>11. CASE x.tok = "EOF"
  <2>1. Goto(Now.on["EOF"])
    BY <1>4, <1>11
  <2>2. result' = result /\ calls' = <<>>
    BY <1>2, <1>5, <2>1, LastGoto
  <2>3. EndOnce'
    BY <1>4, <1>5, <2>2, EndRead DEF Counted
  <2>4. Consumed' = Consumed + 1 /\ Consumed + 1 \in 1 .. Len(seen')
    BY <1>7
  <2>5. seen'[Consumed + 1].tok = "EOF"
    BY <1>7, <1>11
  <2>6. Consumed + 1 = Len(seen')
    BY <2>3, <2>4, <2>5 DEF EndOnce
  <2>7. seen' # <<>>
    BY <1>7, <2>6
  <2>8. AtEnd'
    BY <1>5, <1>8, <2>2, <2>4, <2>5, <2>6, <2>7 DEF AtEnd
  <2>9. QED
    BY <1>9, <2>3, <2>8 DEF Counted, Progress
<1>12. QED
  BY <1>3, <1>10, <1>11 DEF Separators

\* A blank between statements.
LEMMA IdleBlank ==
  ASSUME Full, Counted, Idle, ScanBlank, NEW r, NEW p, OneCall(r, p) \/ TwoCalls
  PROVE  EndOnce' /\ IsSeq(stmts)' /\ Idle' /\ (OneCall(r, p) => OneCall(r, p)') /\ (TwoCalls => TwoCalls')
<1>1. calls # <<>> /\ UNCHANGED <<calls, result, stmts>>
  BY BlankRead
<1>2. PICK x \in Scanned("Scan") : x.tok \in Blanks /\ Read(x, 0)
  BY BlankRead
<1>3. x.tok # "EOF"
  BY <1>2 DEF Blanks
<1>4. EndOnce'
  BY <1>1, <1>2, <1>3, EndRead DEF Counted
<1>5. Idle'
  BY <1>1, <1>2, IdleRead
<1>6. QED
  BY <1>1, <1>4, <1>5 DEF Counted, IsSeq, OneCall, TwoCalls

\* No statement begins with a separator.
LEMMA IdleSeparator ==
  ASSUME Full, Idle, NEW t, Same(seen, t, Consumed), t[Consumed + 1].tok \in Separators
  PROVE  Len(stmts) = Cardinality(Begun(t, Consumed + 1))
<1>1. Consumed \in Nat
  BY ConsumedNat
<1>2. Begun(t, Consumed) = Begun(seen, Consumed)
  BY <1>1, PiecesKept
<1>3. ~ Begins(t, Consumed + 1)
  BY DEF Begins, Separators
<1>4. QED
  BY <1>1, <1>2, <1>3, BegunNext DEF Idle

\* The loop: a separator, or the first token of a statement, which is pushed back.
LEMMA AtStartOK ==
  ASSUME Full, Counted, AtStart, ParseQuery
  PROVE  Counted'
<1>1. /\ Idle /\ OneCall(Start, 1) /\ CallsOK /\ result = "running"
      /\ calls # <<>> /\ Len(calls) = 1 /\ calls[1].rule = Start /\ calls[1].at = 1
  <2>1. Idle /\ OneCall(Start, 1) /\ CallsOK
    BY DEF AtStart, Full, Inv
  <2>2. Len(calls) = 1 /\ calls[1].rule = Start /\ calls[1].at = 1 /\ result = "running"
    BY <2>1 DEF OneCall, Idle
  <2>3. calls # <<>>
    BY <2>1, <2>2, OneLong DEF CallsOK
  <2>4. QED
    BY <2>1, <2>2, <2>3
<1>2. /\ Len(Rules[Start]) = 1 /\ Separates(Rules[Start][1]) /\ Rules[Start][1].miss = 1
      /\ Now = Rules[Start][1]
  BY <1>1, QueryAssumption DEF Now
<1>3. Statement \in DOMAIN Rules /\ Rules[Statement] # <<>> /\ Now.other = Statement
  BY <1>2, QueryAssumption DEF Outer, Statement
<1>4. ScanBlank \/ ScanHit \/ ScanMiss
  BY <1>1, <1>2, StepOfOp DEF Separates
<1>5. CASE ScanBlank
  BY <1>1, <1>5, IdleBlank DEF Counted, Progress, AtStart
<1>6. CASE ScanHit
  BY <1>1, <1>2, <1>6, IdleSeparator, AtSeparator
<1>7. CASE ScanMiss
  <2>1. PICK x \in Scanned("Scan") : Read(x, Now.miss) /\ Goto(Now.other)
    BY <1>7, MissRead
  <2>2. Read(x, 1) /\ Goto(Statement) /\ stmts' = stmts
    BY <1>2, <1>3, <1>7, <2>1, MissRead
  <2>3. result' = result /\ OneCall(Statement, 1)'
    BY <1>1, <1>2, <1>3, <2>2, LastGoto
  <2>4. EndOnce'
    BY <1>1, <2>2, EndRead DEF Counted
  <2>5. Idle'
    BY <1>1, <2>2, <2>3, IdlePeek
  <2>6. QED
    BY <2>2, <2>3, <2>4, <2>5 DEF Counted, IsSeq, Progress, AtStatement
<1>8. QED
  BY <1>4, <1>5, <1>6, <1>7

\* ParseStatement is called.
LEMMA AtStatementOK ==
  ASSUME Full, Counted, AtStatement, ParseQuery
  PROVE  Counted'
<1>1. /\ Idle /\ CallsOK /\ calls # <<>> /\ Len(calls) = 1 /\ calls[1].rule = Statement /\ calls[1].at = 1
  <2>1. Idle /\ OneCall(Statement, 1) /\ CallsOK
    BY DEF AtStatement, Full, Inv
  <2>2. Len(calls) = 1 /\ calls[1].rule = Statement /\ calls[1].at = 1
    BY <2>1 DEF OneCall
  <2>3. calls # <<>>
    BY <2>1, <2>2, OneLong DEF CallsOK
  <2>4. QED
    BY <2>1, <2>2, <2>3
<1>2. Len(Rules[Statement]) = 3 /\ Now.op = "call" /\ Now.rule = Language
  BY <1>1, QueryAssumption DEF Now, Language
<1>3. CallRule
  BY <1>1, <1>2, StepOfOp
<1>4. Goto(Language) /\ UNCHANGED <<seen, ring, stmts>>
  BY <1>2, <1>3 DEF CallRule, tokens, tree
<1>5. Language \in DOMAIN Rules /\ Rules[Language] # <<>>
  BY QueryAssumption DEF Outer
<1>6. result' = result /\ calls' = Enter(Language, Advanced)
  BY <1>4, <1>5, GrammarAssumption DEF Goto
<1>7. Tail(calls) = <<>>
  BY <1>1, OneLong DEF CallsOK
<1> DEFINE f == [rule |-> Statement, at |-> 2, stage |-> "blank"]
           g == [rule |-> Language, at |-> 1, stage |-> "blank"]
<1>8. Advanced = <<f>> \o <<>>
  <2>1. calls[1].at < Len(Rules[calls[1].rule]) /\ calls[1].at + 1 = 2
    BY <1>1, <1>2
  <2>2. Advanced = <<[rule |-> calls[1].rule, at |-> calls[1].at + 1, stage |-> "blank"]>> \o Tail(calls)
    BY <2>1, Zenon DEF Advanced
  <2>3. QED
    BY <1>1, <1>7, <2>1, <2>2
<1>9. calls' = <<g>> \o (<<f>> \o <<>>)
  BY <1>5, <1>6, <1>8 DEF Enter
<1>10. Len(calls') = 2 /\ calls'[1] = g /\ calls'[2] = f
  BY <1>9
<1>11. TwoCalls'
  BY <1>10 DEF TwoCalls
<1>12. Consumed' = Consumed /\ Consumed \in Nat /\ Len(seen) \in Nat
  BY <1>4, ConsumedNat DEF Consumed, Full, Typed
<1>13. EndOnce'
  BY <1>1, <1>4, <1>12, EndKept DEF Counted
<1>14. Idle'
  BY <1>1, <1>4, <1>6, <1>12 DEF Idle
<1>15. QED
  BY <1>4, <1>11, <1>13, <1>14 DEF Counted, IsSeq, Progress, AtLanguage

\* After a statement: a separator, or an error.
LEMMA AfterOneOK ==
  ASSUME Full, Counted, AfterOne, ParseQuery
  PROVE  Counted'
<1>1. PICK b \in Nat : Parsed(b)
  BY DEF AfterOne
<1>2. Held(seen, b, Consumed) /\ Len(stmts) = Cardinality(Begun(seen, b)) /\ Consumed \in Nat
  BY <1>1, ConsumedNat DEF Parsed
<1>3. result = "running" /\ CallsOK /\ calls # <<>> /\ Len(calls) = 1
  BY DEF AfterOne, OneCall, Full, Inv
<1>4. AfterStatement \in DOMAIN Rules /\ Rules[AfterStatement] # <<>>
  BY QueryAssumption DEF Outer
<1>5. CASE OneCall(Statement, 3)
  <2>1. calls[1].rule = Statement /\ calls[1].at = 3
    BY <1>5 DEF OneCall
  <2>2. Len(Rules[Statement]) = 3 /\ Now.op = "call" /\ Now.rule = AfterStatement
    BY <2>1, QueryAssumption DEF Now, AfterStatement
  <2>3. CallRule
    BY <1>3, <2>2, StepOfOp
  <2>4. Goto(AfterStatement) /\ UNCHANGED <<seen, ring, stmts>>
    BY <2>2, <2>3 DEF CallRule, tokens, tree
  <2>5. result' = result /\ OneCall(AfterStatement, 1)'
    BY <1>3, <1>4, <2>1, <2>2, <2>4, LastGoto
  <2>6. Consumed' = Consumed /\ Len(seen) \in Nat
    BY <2>4 DEF Consumed, Full, Typed
  <2>7. EndOnce'
    BY <1>2, <1>3, <2>4, <2>6, EndKept DEF Counted
  <2>8. Parsed(b)'
    BY <1>2, <2>4, <2>6 DEF Parsed
  <2>9. AfterOne'
    BY <1>3, <2>5, <2>8 DEF AfterOne
  <2>10. QED
    BY <2>4, <2>7, <2>9 DEF Counted, IsSeq, Progress
<1>6. CASE OneCall(AfterStatement, 1)
  <2>1. calls[1].rule = AfterStatement /\ calls[1].at = 1
    BY <1>6 DEF OneCall
  <2>2. /\ Len(Rules[AfterStatement]) = 1 /\ Separates(Rules[AfterStatement][1])
        /\ Rules[AfterStatement][1].other = "fail" /\ Now = Rules[AfterStatement][1]
    BY <2>1, QueryAssumption DEF Now
  <2>3. ScanBlank \/ ScanHit \/ ScanMiss
    BY <1>3, <2>2, StepOfOp DEF Separates
  <2>4. CASE ScanBlank
    <3>1. UNCHANGED <<calls, result, stmts>>
      BY <2>4, BlankRead
    <3>2. PICK x \in Scanned("Scan") : x.tok \in Blanks /\ Read(x, 0)
      BY <2>4, BlankRead
    <3>3. x.tok \notin Separators
      BY <3>2 DEF Blanks, Separators
    <3>4. EndOnce'
      BY <1>3, <3>2, <3>3, EndRead DEF Counted, Separators
    <3>5. Consumed' = Consumed + 1 /\ seen'[Consumed + 1] = x /\ Same(seen, seen', Consumed)
      BY <3>2, TokenRead
    <3>6. Held(seen', b, Consumed + 1) /\ Begun(seen', b) = Begun(seen, b)
      BY <1>2, <3>3, <3>5, HeldKept
    <3>7. Parsed(b)'
      BY <1>2, <3>1, <3>5, <3>6 DEF Parsed
    <3>8. AfterOne'
      BY <1>3, <1>6, <3>1, <3>7 DEF AfterOne, OneCall
    <3>9. QED
      BY <3>1, <3>4, <3>8 DEF Counted, IsSeq, Progress
  <2>5. CASE ScanHit
    <3>1. ASSUME NEW t, Same(seen, t, Consumed)
          PROVE  Len(stmts) = Cardinality(Begun(t, Consumed + 1))
      <4>1. Begun(seen, b) = Begun(t, b) /\ Held(t, b, Consumed)
        BY <1>2, <3>1, HeldKept
      <4>2. Begun(t, Consumed + 1) = Begun(t, b)
        BY <1>2, <4>1, HeldBegun
      <4>3. QED
        BY <1>2, <4>1, <4>2
    <3>2. QED
      BY <1>3, <1>6, <2>2, <2>5, <3>1, AtSeparator
  <2>6. CASE ScanMiss
    <3>1. PICK x \in Scanned("Scan") : Read(x, Now.miss) /\ Goto(Now.other)
      BY <2>6, MissRead
    <3>2. Fails /\ stmts' = stmts
      BY <2>2, <2>6, <3>1, MissRead DEF Goto, Fails
    <3>3. Now.miss \in 0 .. 2
      BY <1>3, <2>2, NowGood DEF WellFormed, Separates
    <3>4. QED
      BY <1>3, <3>1, <3>2, <3>3, FailedRead
  <2>7. QED
    BY <2>3, <2>4, <2>5, <2>6
<1>7. QED
  BY <1>5, <1>6 DEF AfterOne

----------------------------------------------------------------------------
(* The calls that parse a statement.                                       *)

\* A call that is made, or goes on, stays inside the statement.
LEMMA InsidePush ==
  ASSUME NEW s \in Seq(Frame), Inside(s), NEW f \in Frame, f.rule \notin Outer
  PROVE  Inside(<<f>> \o s)
<1> DEFINE t == <<f>> \o s
<1>1. <<f>> \in Seq(Frame) /\ Len(<<f>>) = 1 /\ <<f>>[1] = f
  OBVIOUS
<1>2. /\ Len(s) \in Nat /\ Len(t) = Len(s) + 1 /\ t[1] = f
      /\ \A j \in 2 .. Len(t) : t[j] = s[j - 1]
  BY <1>1
<1> HIDE DEF t
<1>3. Len(s) >= 1
  BY DEF Inside
<1>4. t # <<>> /\ t[Len(t)] = s[Len(s)]
  <2>1. Len(t) \in 2 .. Len(t) /\ Len(t) - 1 = Len(s)
    BY <1>2, <1>3
  <2>2. t # <<>>
    BY <2>1
  <2>3. QED
    BY <1>2, <2>1, <2>2
<1>5. ASSUME NEW j \in 1 .. Len(t) - 1
      PROVE  t[j].rule \notin Outer
  <2>1. CASE j = 1
    BY <1>2, <2>1
  <2>2. CASE j # 1
    <3>1. j \in 2 .. Len(t) /\ j - 1 \in 1 .. Len(s) - 1
      BY <1>2, <2>2
    <3>2. QED
      BY <1>2, <3>1 DEF Inside
  <2>3. QED
    BY <2>1, <2>2
<1>6. Inside(t)
  BY <1>4, <1>5 DEF Inside
<1>7. QED
  BY <1>6 DEF t

\* A call of the statement that returns is not the last of them.
LEMMA InsidePop ==
  ASSUME NEW s \in Seq(Frame), Inside(s), Len(s) > 1
  PROVE  Inside(Tail(s)) /\ Tail(s) \in Seq(Frame)
<1> DEFINE t == Tail(s)
<1>1. /\ Len(s) \in Nat /\ Len(t) = Len(s) - 1 /\ t \in Seq(Frame)
      /\ \A j \in 1 .. Len(t) : t[j] = s[j + 1]
  OBVIOUS
<1> HIDE DEF t
<1>2. t # <<>> /\ t[Len(t)] = s[Len(s)]
  <2>1. Len(t) \in 1 .. Len(t) /\ Len(t) + 1 = Len(s)
    BY <1>1
  <2>2. t # <<>>
    BY <2>1
  <2>3. QED
    BY <1>1, <2>1, <2>2
<1>3. ASSUME NEW j \in 1 .. Len(t) - 1
      PROVE  t[j].rule \notin Outer
  <2>1. j \in 1 .. Len(t) /\ j + 1 \in 1 .. Len(s) - 1
    BY <1>1
  <2>2. QED
    BY <1>1, <2>1 DEF Inside
<1>4. Inside(t) /\ t \in Seq(Frame)
  BY <1>1, <1>2, <1>3 DEF Inside
<1>5. QED
  BY <1>4 DEF t

\* The function that is running, when it is one of the statement's.
LEMMA InsideNow ==
  ASSUME CallsOK, Inside(calls), Len(calls) > 1
  PROVE  calls # <<>> /\ calls[1] \in Frame /\ calls[1].rule \notin Outer /\ Within(Now)
<1>1. calls \in Seq(Frame) /\ calls # <<>> /\ calls[1] \in Frame
  BY DEF CallsOK, Inside
<1>2. 1 \in 1 .. Len(calls) - 1
  BY <1>1
<1>3. calls[1].rule \notin Outer
  BY <1>2 DEF Inside
<1> DEFINE r == calls[1].rule
           p == calls[1].at
<1>4. r \in DOMAIN Rules \ Outer /\ p \in DOMAIN Rules[r]
  BY <1>1, <1>3, FrameOK, RuleIsSeq
<1>5. Within(Rules[r][p])
  BY <1>4, QueryAssumption
<1>6. QED
  BY <1>1, <1>3, <1>5 DEF Now

\* What is left of the calls when an instruction of the statement has been run.
LEMMA InsideAdvanced ==
  ASSUME CallsOK, Inside(calls), Len(calls) > 1
  PROVE  Inside(Advanced)
<1>1. calls \in Seq(Frame) /\ Inside(Tail(calls)) /\ Tail(calls) \in Seq(Frame)
  BY InsidePop DEF CallsOK
<1>2. calls[1] \in Frame /\ calls[1].rule \notin Outer
  BY InsideNow
<1>3. CASE calls[1].at < Len(Rules[calls[1].rule])
  <2> DEFINE f == [rule |-> calls[1].rule, at |-> calls[1].at + 1, stage |-> "blank"]
  <2>1. f \in Frame /\ f.rule \notin Outer
    BY <1>2, <1>3, RuleIsSeq DEF Frame
  <2>2. Advanced = <<f>> \o Tail(calls)
    BY <1>3 DEF Advanced
  <2> HIDE DEF f
  <2>3. QED
    BY <1>1, <2>1, <2>2, InsidePush
<1>4. CASE ~ calls[1].at < Len(Rules[calls[1].rule])
  BY <1>1, <1>4 DEF Advanced
<1>5. QED
  BY <1>3, <1>4

\* The calls when rule r comes next.
LEMMA InsideEnter ==
  ASSUME NEW s \in Seq(Frame), Inside(s), NEW r \in DOMAIN Rules, r \notin Outer
  PROVE  Inside(Enter(r, s))
<1>1. CASE Rules[r] = <<>>
  BY <1>1 DEF Enter
<1>2. CASE Rules[r] # <<>>
  <2> DEFINE f == [rule |-> r, at |-> 1, stage |-> "blank"]
  <2>1. Len(Rules[r]) \in Nat \ {0}
    BY <1>2, RuleIsSeq
  <2>2. f \in Frame /\ f.rule \notin Outer
    BY <2>1 DEF Frame
  <2>3. Enter(r, s) = <<f>> \o s
    BY <1>2 DEF Enter
  <2> HIDE DEF f
  <2>4. QED
    BY <2>2, <2>3, InsidePush
<1>3. QED
  BY <1>1, <1>2

\* n tokens more are consumed, and the statement goes on.
Goes(b, n) ==
  /\ result' = "running" /\ Inside(calls')
  /\ (Consumed - b) + n \in Nat /\ Paid(calls', (Consumed - b) + n)

\* A branch within a statement.
LEMMA InsideGoto ==
  ASSUME CallsOK, Inside(calls), Len(calls) > 1, result = "running",
         NEW b \in Nat, Consumed - b \in Nat, Paid(calls, Consumed - b),
         NEW next \in RuleName, next \notin Outer, Goto(next),
         NEW n \in Int, Lends(calls[1].rule, calls[1].at, n, next)
  PROVE  IF next = "fail" THEN Fails ELSE Goes(b, n)
<1>1. CASE next = "fail"
  BY <1>1 DEF Goto, Fails
<1>2. CASE next # "fail"
  <2>1. next \in DOMAIN Rules /\ result' = "running" /\ calls' = Enter(next, Advanced)
    BY <1>2 DEF RuleName, Goto
  <2>2. calls # <<>> /\ Advanced \in Seq(Frame) /\ Inside(Advanced)
    BY InsideNow, AdvancedOK, InsideAdvanced
  <2>3. Inside(calls')
    BY <2>1, <2>2, InsideEnter
  <2> DEFINE c == Consumed - b
  <2>4. c \in Nat /\ Paid(calls, c)
    OBVIOUS
  <2> HIDE DEF c
  <2>5. c + n \in Nat /\ Paid(calls', c + n)
    BY <1>2, <2>2, <2>4, GotoPaid
  <2>6. QED
    BY <1>2, <2>1, <2>3, <2>5 DEF Goes, c
<1>3. QED
  BY <1>1, <1>2

\* The next instruction of a function within a statement.
LEMMA InsideRest ==
  ASSUME CallsOK, Inside(calls), Len(calls) > 1, result = "running",
         NEW b \in Nat, Consumed - b \in Nat, Paid(calls, Consumed - b), Rest,
         NEW n \in Int, Settles(calls[1].rule, calls[1].at, n)
  PROVE  Goes(b, n)
<1>1. calls # <<>> /\ Inside(Advanced)
  BY InsideNow, InsideAdvanced
<1>2. result' = "running" /\ Inside(calls')
  BY <1>1 DEF Rest
<1> DEFINE c == Consumed - b
<1>3. c \in Nat /\ Paid(calls, c)
  OBVIOUS
<1> HIDE DEF c
<1>4. c + n \in Nat /\ Paid(calls', c + n)
  BY <1>1, <1>3, RestPaid
<1>5. QED
  BY <1>2, <1>4 DEF Goes, c

\* The next stage of parseRegex.
LEMMA InsideStage ==
  ASSUME CallsOK, Inside(calls), Len(calls) > 1, result = "running",
         NEW b \in Nat, Consumed - b \in Nat, Paid(calls, Consumed - b),
         NEW stage \in {"blank", "consume", "start", "param", "read"}, Stage(stage), NEW n \in 0 .. 1
  PROVE  Goes(b, n)
<1>1. calls # <<>> /\ calls \in Seq(Frame) /\ calls[1] \in Frame /\ calls[1].rule \notin Outer
  BY InsideNow DEF CallsOK
<1> DEFINE f == [calls[1] EXCEPT !.stage = stage]
<1>2. f \in Frame /\ f.rule = calls[1].rule
  BY <1>1 DEF Frame
<1> HIDE DEF f
<1>3. result' = "running" /\ calls' = [calls EXCEPT ![1] = f]
  BY DEF Stage, f
<1>4. /\ Len(calls') = Len(calls) /\ Len(calls) \in Nat /\ calls' \in Seq(Frame)
      /\ \A j \in 1 .. Len(calls) : calls'[j] = IF j = 1 THEN f ELSE calls[j]
  BY <1>1, <1>2, <1>3
<1>5. Inside(calls')
  <2>1. calls' # <<>>
    BY <1>4
  <2>2. calls'[Len(calls')] = calls[Len(calls)]
    BY <1>4
  <2>3. ASSUME NEW j \in 1 .. Len(calls') - 1
        PROVE  calls'[j].rule \notin Outer
    <3>1. j \in 1 .. Len(calls) - 1 /\ j \in 1 .. Len(calls)
      BY <1>4
    <3>2. calls[j].rule \notin Outer
      BY <3>1 DEF Inside
    <3>3. QED
      BY <1>1, <1>2, <1>4, <3>1, <3>2
  <2>4. QED
    BY <2>1, <2>2, <2>3 DEF Inside
<1> DEFINE c == Consumed - b
           d == c + n
<1>6. c \in Nat /\ d \in Nat /\ d >= c /\ Paid(calls, c)
  OBVIOUS
<1> HIDE DEF c, d
<1>7. Paid(calls', d)
  BY <1>1, <1>6, StagePaid
<1>8. QED
  BY <1>3, <1>5, <1>6, <1>7 DEF Goes, d, c

\* A token is read within a statement: it is pushed back, or it is no separator.
LEMMA InsideRead ==
  ASSUME Full, Counted, calls # <<>>, NEW b \in Nat, Parsing(b),
         NEW fn, NEW x \in Scanned(fn), NEW k \in 0 .. 2, Read(x, k), stmts' = stmts,
         k = 0 => x.tok \notin Separators,
         Goes(b, 1 - k)
  PROVE  Counted'
<1>1. /\ Consumed \in Nat /\ Consumed' = Consumed + (1 - k)
      /\ seen'[Consumed + 1] = x /\ Same(seen, seen', Consumed)
  BY TokenRead
<1>2. EndOnce'
  BY EndRead DEF Counted, Separators
<1>3. /\ b \in 1 .. Consumed /\ Begun(seen', b) = Begun(seen, b)
      /\ \A m \in b .. Consumed : Held(seen', b, m)
      /\ seen'[Consumed + 1].tok \notin Separators => Held(seen', b, Consumed + 1)
  BY <1>1, HeldKept DEF Parsing
<1>4. (Consumed - b) + (1 - k) = Consumed' - b /\ Consumed' \in b .. Consumed + 1
  <2>1. (Consumed - b) + (1 - k) \in Nat
    BY DEF Goes
  <2>2. QED
    BY <1>1, <1>3, <2>1
<1>5. Held(seen', b, Consumed')
  <2>1. CASE Consumed' \in b .. Consumed
    BY <1>3, <2>1
  <2>2. CASE Consumed' \notin b .. Consumed
    <3>1. Consumed' = Consumed + 1 /\ k = 0
      BY <1>1, <1>3, <1>4, <2>2
    <3>2. seen'[Consumed + 1].tok \notin Separators
      BY <1>1, <3>1
    <3>3. QED
      BY <1>3, <3>1, <3>2
  <2>3. QED
    BY <2>1, <2>2
<1>6. Paid(calls', Consumed' - b)
  BY <1>4 DEF Goes
<1>7. Parsing(b)'
  BY <1>3, <1>5, <1>6 DEF Parsing
<1>8. InStatement'
  BY <1>7 DEF InStatement, Goes
<1>9. QED
  BY <1>2, <1>8 DEF Counted, IsSeq, Progress

\* Tokens are pushed back within a statement, or none.
LEMMA InsideKept ==
  ASSUME Full, Counted, calls # <<>>, NEW b \in Nat, Parsing(b), NEW k \in Nat,
         Consumed' = Consumed + (0 - k), seen' = seen, stmts' = stmts, Goes(b, 0 - k)
  PROVE  Counted'
<1>1. Consumed \in Nat /\ Len(seen) \in Nat
  BY ConsumedNat DEF Full, Typed
<1>2. EndOnce'
  BY <1>1, EndKept DEF Counted
<1>3. b \in 1 .. Consumed /\ \A m \in b .. Consumed : Held(seen, b, m)
  BY <1>1, HeldKept DEF Parsing, Same
<1>4. (Consumed - b) + (0 - k) = Consumed' - b /\ Consumed' \in b .. Consumed
  <2>1. (Consumed - b) + (0 - k) \in Nat
    BY DEF Goes
  <2>2. QED
    BY <1>1, <1>3, <2>1
<1>5. Held(seen, b, Consumed') /\ Paid(calls', Consumed' - b)
  BY <1>3, <1>4 DEF Goes
<1>6. Parsing(b)'
  BY <1>5 DEF Parsing
<1>7. InStatement'
  BY <1>6 DEF InStatement, Goes
<1>8. QED
  BY <1>2, <1>7 DEF Counted, IsSeq, Progress

----------------------------------------------------------------------------
(* The first token of a statement.                                         *)

\* A call that is lent nothing.
LEMMA PaidOne ==
  ASSUME NEW s \in Seq(Frame), Len(s) = 1, LentAt(s[1]) = 0
  PROVE  Paid(s, 0)
<1> DEFINE level == [j \in 0 .. 1 |-> 0]
<1>1. level \in [0 .. Len(s) -> Nat] /\ level[0] = 0
  OBVIOUS
<1>2. ASSUME NEW j \in 1 .. Len(s)
      PROVE  level[j - 1] >= level[j] + LentAt(s[j])
  <2>1. j = 1
    BY <1>2
  <2>2. level[0] = 0 /\ level[1] = 0
    OBVIOUS
  <2>3. QED
    BY <2>1, <2>2
<1>3. QED
  BY <1>1, <1>2 DEF Paid

\* A sequence with two elements.
LEMMA TwoLong ==
  ASSUME NEW S, NEW s \in Seq(S), Len(s) = 2
  PROVE  Tail(s) \in Seq(S) /\ Len(Tail(s)) = 1 /\ Tail(s)[1] = s[2]
<1>1. s # <<>>
  OBVIOUS
<1>2. QED
  BY <1>1

\* The token of a statement's first keyword.
LEMMA FirstToken ==
  ASSUME Full, Counted, AtLanguage, ScanHit
  PROVE  Counted'
<1>1. Idle /\ TwoCalls /\ CallsOK /\ result = "running" /\ calls \in Seq(Frame) /\ Consumed \in Nat
  BY ConsumedNat DEF AtLanguage, Idle, Full, Inv, CallsOK
<1>2. /\ Len(calls) = 2 /\ calls[1].rule = Language /\ calls[1].at = 1
      /\ calls[2].rule = Statement /\ calls[2].at = 2
  BY <1>1 DEF TwoCalls
<1>3. /\ Len(Rules[Language]) = 1 /\ Within(Rules[Language][1]) /\ Now = Rules[Language][1]
      /\ Now.op = "scan" /\ Now.skip /\ Now.hit = 0
      /\ \A t \in DOMAIN Now.on : Lent[Now.on[t]][1] = 0
  BY <1>2, QueryAssumption DEF Now
<1>4. PICK x \in Scanned("Scan") :
        /\ Now.skip => x.tok \notin Blanks
        /\ Bound(x).tok \in DOMAIN Now.on
        /\ \A t \in Separators : Bound(x).tok = t <=> x.tok = t
        /\ Read(x, Now.hit) /\ Goto(Now.on[Bound(x).tok])
  BY HitRead
<1> DEFINE next == Now.on[Bound(x).tok]
<1>5. Read(x, 0) /\ stmts' = stmts /\ calls # <<>>
  BY <1>3, <1>4, HitRead
<1>6. next \in RuleName /\ next \notin Outer /\ Lent[next][1] = 0 /\ Goto(next)
  <2>1. next \in RuleName
    BY <1>1, <1>3, <1>4, <1>5, NowGood DEF WellFormed
  <2>2. next \in Followers(Now) /\ Followers(Now) \cap Outer = {}
    <3>1. next \in {Now.on[t] : t \in DOMAIN Now.on}
      BY <1>4
    <3>2. Followers(Now) = {Now.other} \cup {Now.on[t] : t \in DOMAIN Now.on}
      BY <1>3 DEF Followers
    <3>3. Followers(Now) \cap Outer = {}
      BY <1>3 DEF Within
    <3> HIDE DEF next
    <3>4. QED
      BY <3>1, <3>2, <3>3
  <2>3. QED
    BY <1>3, <1>4, <2>1, <2>2
<1> HIDE DEF next
<1>7. x.tok \notin Blanks \cup Separators
  <2>1. Bound(x).tok \notin Separators
    BY <1>3, <1>4 DEF Within
  <2>2. QED
    BY <1>3, <1>4, <2>1
<1>8. CASE next = "fail"
  <2>1. Fails
    BY <1>6, <1>8 DEF Goto, Fails
  <2>2. QED
    BY <1>5, <2>1, FailedRead
<1>9. CASE next # "fail"
  <2>1. next \in DOMAIN Rules /\ result' = "running" /\ calls' = Enter(next, Advanced)
    BY <1>1, <1>6, <1>9 DEF RuleName, Goto
  <2> DEFINE s == Tail(calls)
  <2>2. s \in Seq(Frame) /\ Len(s) = 1 /\ s[1] = calls[2]
    BY <1>1, <1>2, TwoLong
  <2>3. Advanced = s
    BY <1>2, <1>3 DEF Advanced
  <2> HIDE DEF s
  <2>4. Inside(s)
    <3>1. s # <<>>
      BY <2>2, OneLong
    <3>2. 1 .. Len(s) - 1 = {}
      BY <2>2
    <3>3. QED
      BY <1>2, <2>2, <3>1, <3>2 DEF Inside
  <2>5. LentAt(s[1]) = 0
    BY <1>2, <2>2, QueryAssumption DEF LentAt
  <2>6. Paid(s, 0)
    BY <2>2, <2>5, PaidOne
  <2>7. Inside(calls') /\ Paid(calls', 0)
    <3>1. Paid(Enter(next, s), 0 + Lent[next][1])
      BY <2>1, <2>2, <2>6, EnterPaid
    <3>2. 0 + Lent[next][1] = 0
      BY <1>6
    <3>3. QED
      BY <1>6, <2>1, <2>2, <2>3, <2>4, <3>1, <3>2, InsideEnter
  <2>8. /\ Consumed' = Consumed + (1 - 0) /\ seen'[Consumed + 1] = x /\ Same(seen, seen', Consumed)
    BY <1>5, TokenRead
  <2>9a. PICK b \in Nat : b = Consumed + 1
    BY <1>1
  <2> DEFINE t == seen'
  <2>9. b \in Nat /\ b \in 1 .. b /\ b - 1 = Consumed /\ Consumed' = b /\ b - b = 0
    BY <1>1, <2>8, <2>9a
  <2>10. Clear(t, Consumed) /\ Begun(t, Consumed) = Begun(seen, Consumed)
    BY <1>1, <2>8, PiecesKept DEF Idle
  <2>11. t[b] = x
    BY <2>8, <2>9a
  <2> HIDE DEF t
  <2>12. Begins(t, b)
    BY <1>7, <2>9, <2>10, <2>11 DEF Begins, Separators
  <2>13. Cardinality(Begun(t, b)) = Len(stmts) + 1
    BY <1>1, <2>9a, <2>10, <2>12, BegunMore DEF Idle
  <2>14. Held(t, b, b)
    BY <2>9, <2>12 DEF Held
  <2>15. Parsing(b)'
    BY <1>5, <2>7, <2>9, <2>13, <2>14 DEF Parsing, t
  <2>16. InStatement'
    BY <2>1, <2>7, <2>9, <2>15 DEF InStatement
  <2>17. EndOnce'
    BY <1>5, <1>7, EndRead DEF Counted, Separators
  <2>18. QED
    BY <1>5, <2>16, <2>17 DEF Counted, IsSeq, Progress
<1>10. QED
  BY <1>8, <1>9

\* ParseStatement reads the first token of a statement.
LEMMA AtLanguageOK ==
  ASSUME Full, Counted, AtLanguage, ParseQuery
  PROVE  Counted'
<1>1. Idle /\ TwoCalls /\ CallsOK /\ calls \in Seq(Frame) /\ Len(calls) = 2
  BY DEF AtLanguage, Full, Inv, CallsOK, TwoCalls
<1>2. calls # <<>> /\ calls[1].rule = Language /\ calls[1].at = 1
  <2>1. calls # <<>>
    BY <1>1
  <2>2. QED
    BY <1>1, <2>1 DEF TwoCalls
<1>3. Now = Rules[Language][1] /\ Now.op = "scan" /\ Now.other = "fail"
  BY <1>2, QueryAssumption DEF Now
<1>4. ScanBlank \/ ScanHit \/ ScanMiss
  BY <1>2, <1>3, StepOfOp
<1>5. CASE ScanBlank
  BY <1>1, <1>5, IdleBlank DEF Counted, Progress, AtLanguage
<1>6. CASE ScanHit
  BY <1>6, FirstToken
<1>7. CASE ScanMiss
  <2>1. PICK x \in Scanned("Scan") : Read(x, Now.miss) /\ Goto(Now.other)
    BY <1>7, MissRead
  <2>2. Fails /\ stmts' = stmts
    BY <1>3, <1>7, <2>1, MissRead DEF Goto, Fails
  <2>3. Now.miss \in 0 .. 2
    BY <1>1, <1>2, <1>3, NowGood DEF WellFormed
  <2>4. QED
    BY <1>2, <2>1, <2>2, <2>3, FailedRead
<1>8. QED
  BY <1>4, <1>5, <1>6, <1>7

----------------------------------------------------------------------------
(* The steps within a statement.                                           *)

\* A function of the statement that token b began is running.
Works(b) ==
  /\ Full /\ Counted /\ result = "running" /\ Inside(calls) /\ Len(calls) > 1
  /\ b \in Nat /\ Parsing(b)

\* What a step within a statement relies on.
LEMMA WorksOK ==
  ASSUME NEW b, Works(b)
  PROVE  /\ Full /\ Counted /\ CallsOK /\ calls # <<>> /\ result = "running" /\ Inside(calls)
         /\ Len(calls) > 1 /\ b \in Nat /\ Parsing(b) /\ Consumed \in Nat
         /\ Consumed - b \in Nat /\ Paid(calls, Consumed - b)
         /\ WellFormed(Now) /\ Within(Now) /\ Balanced(calls[1].rule, calls[1].at)
         /\ Now = Rules[calls[1].rule][calls[1].at]
<1>1. Full /\ Counted /\ CallsOK /\ result = "running" /\ Inside(calls) /\ Len(calls) > 1 /\ b \in Nat /\ Parsing(b)
  BY DEF Works, Full, Inv
<1>2. Consumed \in Nat
  BY <1>1, ConsumedNat
<1>3. Consumed - b \in Nat /\ Paid(calls, Consumed - b)
  BY <1>1, <1>2 DEF Parsing, Held
<1>4. calls # <<>> /\ Within(Now)
  BY <1>1, InsideNow
<1>5. WellFormed(Now) /\ Balanced(calls[1].rule, calls[1].at) /\ Now = Rules[calls[1].rule][calls[1].at]
  BY <1>1, <1>4, NowGood, NowBalanced
<1>6. QED
  BY <1>1, <1>2, <1>3, <1>4, <1>5

\* A branch that reads a token.
LEMMA WorksRead ==
  ASSUME NEW b, Works(b), NEW fn, NEW x \in Scanned(fn), NEW k \in 0 .. 2, Read(x, k), stmts' = stmts,
         NEW next \in RuleName, next \notin Outer, Goto(next),
         Lends(calls[1].rule, calls[1].at, 1 - k, next),
         k = 0 => next = "fail" \/ x.tok \notin Separators
  PROVE  Counted'
<1>1. IF next = "fail" THEN Fails ELSE Goes(b, 1 - k)
  <2>1. 1 - k \in Int
    OBVIOUS
  <2>2. QED
    BY <2>1, WorksOK, InsideGoto
<1>2. CASE next = "fail"
  BY <1>1, <1>2, WorksOK, FailedRead
<1>3. CASE next # "fail"
  BY <1>1, <1>3, WorksOK, InsideRead
<1>4. QED
  BY <1>2, <1>3

\* A branch that reads none.
LEMMA WorksKept ==
  ASSUME NEW b, Works(b), UNCHANGED <<seen, ring, stmts>>, NEW next \in RuleName, next \notin Outer, Goto(next),
         Lends(calls[1].rule, calls[1].at, 0, next)
  PROVE  Counted'
<1>1. IF next = "fail" THEN Fails ELSE Goes(b, 0)
  BY WorksOK, InsideGoto
<1>2. Consumed' = Consumed + (0 - 0) /\ 0 - 0 = 0
  BY WorksOK DEF Consumed
<1>3. CASE next = "fail"
  BY <1>1, <1>3, WorksOK, FailedKept
<1>4. CASE next # "fail"
  <2>1. Goes(b, 0 - 0)
    BY <1>1, <1>2, <1>4
  <2>2. QED
    BY <1>2, <2>1, WorksOK, InsideKept
<1>5. QED
  BY <1>3, <1>4

\* A scan.
LEMMA WorksScan ==
  ASSUME NEW b, Works(b), ScanBlank \/ ScanHit \/ ScanMiss
  PROVE  Counted'
<1>1. CASE ScanBlank
  <2>1. UNCHANGED <<calls, result, stmts>>
    BY <1>1, WorksOK, BlankRead
  <2>2. PICK x \in Scanned("Scan") : x.tok \in Blanks /\ Read(x, 0)
    BY <1>1, WorksOK, BlankRead
  <2>3. x.tok \notin Separators
    BY <2>2 DEF Blanks, Separators
  <2>4. Goes(b, 1 - 0)
    <3> DEFINE c == Consumed - b
    <3>1. c \in Nat /\ Paid(calls, c) /\ calls \in Seq(Frame)
      BY WorksOK DEF CallsOK
    <3> HIDE DEF c
    <3>2. c + (1 - 0) \in Nat /\ c + (1 - 0) >= c
      BY <3>1
    <3>3. Paid(calls, c + (1 - 0))
      BY <3>1, <3>2, PaidMore
    <3>4. QED
      BY <2>1, <3>2, <3>3, WorksOK DEF Goes, c
  <2>5. QED
    BY <2>1, <2>2, <2>3, <2>4, WorksOK, InsideRead
<1>2. CASE ScanHit
  <2>1. stmts' = stmts /\ Now.op = "scan"
    BY <1>2, WorksOK, HitRead
  <2>2. PICK x \in Scanned("Scan") :
          /\ Bound(x).tok \in DOMAIN Now.on
          /\ \A t \in Separators : Bound(x).tok = t <=> x.tok = t
          /\ Read(x, Now.hit) /\ Goto(Now.on[Bound(x).tok])
    BY <1>2, WorksOK, HitRead
  <2> DEFINE next == Now.on[Bound(x).tok]
             k == Now.hit
  <2>3. k \in 0 .. 1 /\ next \in RuleName
    BY <2>1, <2>2, WorksOK DEF WellFormed
  <2>4. Lends(calls[1].rule, calls[1].at, 1 - k, next)
    BY <2>1, <2>2, WorksOK DEF Balanced
  <2>5. next \notin Outer
    <3>1. next \in Followers(Now)
      BY <2>1, <2>2 DEF Followers
    <3>2. QED
      BY <3>1, WorksOK DEF Within
  <2>6. k = 0 => x.tok \notin Separators
    BY <2>1, <2>2, WorksOK DEF Within
  <2> HIDE DEF next, k
  <2>7. Read(x, k) /\ Goto(next) /\ k \in 0 .. 2
    BY <2>2, <2>3 DEF next, k
  <2>8. QED
    BY <2>1, <2>3, <2>4, <2>5, <2>6, <2>7, WorksRead
<1>3. CASE ScanMiss
  <2>1. stmts' = stmts /\ Now.op = "scan"
    BY <1>3, WorksOK, MissRead
  <2>2. PICK x \in Scanned("Scan") : Read(x, Now.miss) /\ Goto(Now.other)
    BY <1>3, WorksOK, MissRead
  <2> DEFINE next == Now.other
             k == Now.miss
  <2>3. k \in 0 .. 2 /\ next \in RuleName
    BY <2>1, WorksOK DEF WellFormed
  <2>4. Lends(calls[1].rule, calls[1].at, 1 - k, next)
    BY <2>1, WorksOK DEF Balanced
  <2>5. next \notin Outer
    <3>1. next \in Followers(Now)
      BY <2>1 DEF Followers
    <3>2. QED
      BY <3>1, WorksOK DEF Within
  <2>6. k = 0 => next = "fail"
    BY <2>1, WorksOK DEF Within
  <2> HIDE DEF next, k
  <2>7. Read(x, k) /\ Goto(next)
    BY <2>2 DEF next, k
  <2>8. QED
    BY <2>1, <2>3, <2>4, <2>5, <2>6, <2>7, WorksRead
<1>4. QED
  BY <1>1, <1>2, <1>3

\* peekRune, a call or a branch.
LEMMA WorksControl ==
  ASSUME NEW b, Works(b), Peek \/ CallRule \/ Branch
  PROVE  Counted'
<1>1. UNCHANGED <<seen, ring, stmts>>
  BY DEF Peek, CallRule, Branch, tokens, tree
<1>2. CASE Peek
  <2>1. Now.op = "peek"
    BY <1>2 DEF Peek
  <2>2. PICK c \in Classes : Goto(IF c \in DOMAIN Now.on THEN Now.on[c] ELSE Now.other)
    BY <1>2 DEF Peek
  <2> DEFINE next == IF c \in DOMAIN Now.on THEN Now.on[c] ELSE Now.other
  <2>3. next \in RuleName
    BY <2>1, WorksOK DEF WellFormed
  <2>4. Lends(calls[1].rule, calls[1].at, 0, next)
    BY <2>1, WorksOK DEF Balanced
  <2>5. next \in Followers(Now)
    BY <2>1 DEF Followers
  <2> HIDE DEF next
  <2>6. next \notin Outer
    BY <2>5, WorksOK DEF Within
  <2>7. Goto(next)
    BY <2>2 DEF next
  <2>8. QED
    BY <1>1, <2>3, <2>4, <2>6, <2>7, WorksKept
<1>3. CASE CallRule
  <2>1. Now.op = "call" /\ Goto(Now.rule)
    BY <1>3 DEF CallRule
  <2>2. Now.rule \in RuleName
    BY <2>1, WorksOK DEF WellFormed, RuleName
  <2>3. Lends(calls[1].rule, calls[1].at, 0, Now.rule)
    BY <2>1, WorksOK DEF Balanced
  <2>4. Now.rule \notin Outer
    BY <2>1, WorksOK DEF Within, Followers
  <2>5. QED
    BY <1>1, <2>1, <2>2, <2>3, <2>4, WorksKept
<1>4. CASE Branch
  <2>1. Now.op = "if" /\ (Goto(Now.yes) \/ Goto(Now.no))
    BY <1>4 DEF Branch
  <2>2. Now.yes \in RuleName /\ Now.no \in RuleName
    BY <2>1, WorksOK DEF WellFormed
  <2>3. Lends(calls[1].rule, calls[1].at, 0, Now.yes) /\ Lends(calls[1].rule, calls[1].at, 0, Now.no)
    BY <2>1, WorksOK DEF Balanced
  <2>4. Now.yes \notin Outer /\ Now.no \notin Outer
    BY <2>1, WorksOK DEF Within, Followers
  <2>5. QED
    BY <1>1, <2>1, <2>2, <2>3, <2>4, WorksKept
<1>5. QED
  BY <1>2, <1>3, <1>4

\* What is stored, and what is pushed back.
LEMMA WorksRest ==
  ASSUME NEW b, Works(b), PushBack \/ SetKind \/ SetFlag \/ OpenField \/ CloseField
  PROVE  Counted'
<1>1. Rest /\ seen' = seen /\ stmts' = stmts
  BY DEF PushBack, SetKind, SetFlag, OpenField, CloseField, tokens, tree
<1>2. ring.n \in Nat /\ Len(seen) \in Nat /\ ring = [i |-> ring.i, n |-> ring.n, buf |-> ring.buf]
  <2>1. Full
    BY WorksOK
  <2>2. RingOK /\ seen \in Seq(Lexeme)
    BY <2>1 DEF Full, Inv, Typed
  <2>3. QED
    BY <2>2 DEF RingOK
<1>3. PICK k \in Nat : Settles(calls[1].rule, calls[1].at, 0 - k) /\ Consumed' = Consumed + (0 - k)
  <2>1. CASE PushBack
    <3>1. Now.op = "unscan" /\ ring' = Unscan(ring, Now.k)
      BY <2>1 DEF PushBack
    <3>2. Now.k \in Nat /\ Settles(calls[1].rule, calls[1].at, 0 - Now.k)
      <4>1. Now.k \in 1 .. 2
        BY <3>1, WorksOK DEF WellFormed
      <4>2. Settles(calls[1].rule, calls[1].at, 0 - Now.k)
        BY <3>1, WorksOK DEF Balanced
      <4>3. QED
        BY <4>1, <4>2
    <3>3. ring'.n = ring.n + Now.k
      BY <1>2, <3>1 DEF Unscan
    <3>4. Consumed' = Consumed + (0 - Now.k)
      BY <1>1, <1>2, <3>2, <3>3 DEF Consumed
    <3>5. QED
      BY <3>2, <3>4
  <2>2. CASE SetKind \/ SetFlag \/ OpenField \/ CloseField
    <3>1. ring' = ring /\ Now.op \in {"kind", "mark", "open", "close"}
      BY <2>2 DEF SetKind, SetFlag, OpenField, CloseField, tokens
    <3>2. Settles(calls[1].rule, calls[1].at, 0)
      BY <3>1, WorksOK DEF Balanced
    <3>3. Consumed' = Consumed + (0 - 0) /\ 0 - 0 = 0
      BY <1>1, <1>2, <3>1 DEF Consumed
    <3>4. QED
      BY <3>2, <3>3
  <2>3. QED
    BY <2>1, <2>2
<1>4. Goes(b, 0 - k)
  BY <1>1, <1>3, WorksOK, InsideRest
<1>5. QED
  BY <1>1, <1>3, <1>4, WorksOK, InsideKept

\* parseRegex.
LEMMA WorksRegex ==
  ASSUME NEW b, Works(b), ParseRegex
  PROVE  Counted'
<1>1. Now.op = "regex" /\ stmts' = stmts
  BY DEF ParseRegex, RegexBlank, RegexConsume, RegexStart, RegexParam, RegexRead, AtStage, tree
<1>2. /\ Now.yes \in RuleName /\ Now.no \in RuleName /\ "fail" \in RuleName
      /\ Lends(calls[1].rule, calls[1].at, 1, Now.yes) /\ Lends(calls[1].rule, calls[1].at, 0, Now.no)
  BY <1>1, WorksOK DEF WellFormed, RuleName, Balanced
<1>3. Now.yes \notin Outer /\ Now.no \notin Outer /\ "fail" \notin Outer
  <2>1. Now.yes \notin Outer /\ Now.no \notin Outer
    BY <1>1, WorksOK DEF Within, Followers
  <2>2. "fail" \notin Outer
    BY GrammarAssumption, QueryAssumption
  <2>3. QED
    BY <2>1, <2>2
<1>4. ASSUME NEW s \in {"blank", "consume", "start", "param", "read"}, Stage(s), NEW n \in 0 .. 1
      PROVE  Goes(b, n)
  BY <1>4, WorksOK, InsideStage
<1>5. ASSUME UNCHANGED <<seen, ring>>, Goes(b, 0)
      PROVE  Counted'
  <2>1. Consumed' = Consumed + (0 - 0) /\ 0 - 0 = 0
    BY <1>5, WorksOK DEF Consumed
  <2>2. Goes(b, 0 - 0)
    BY <1>5, <2>1
  <2>3. QED
    BY <1>1, <1>5, <2>1, <2>2, WorksOK, InsideKept
<1>6. CASE RegexBlank
  <2>1. Stage("consume") \/ Stage("start")
    BY <1>6 DEF RegexBlank
  <2>2. UNCHANGED <<seen, ring>>
    BY <1>6 DEF RegexBlank
  <2>3. QED
    BY <1>4, <1>5, <2>1, <2>2
<1>7. CASE RegexStart
  <2>1. UNCHANGED <<seen, ring, stmts>> /\ (Stage("param") \/ Stage("read") \/ Goto(Now.no))
    BY <1>1, <1>7 DEF RegexStart
  <2>2. CASE Stage("param") \/ Stage("read")
    BY <1>4, <1>5, <2>1, <2>2
  <2>3. CASE Goto(Now.no)
    BY <1>2, <1>3, <2>1, <2>3, WorksKept
  <2>4. QED
    BY <2>1, <2>2, <2>3
<1>8. CASE RegexConsume
  <2>1. PICK x \in Scanned("Scan") : Read(x, IF Bound(x).tok = "WS" THEN 0 ELSE 1)
    BY <1>8 DEF RegexConsume
  <2> DEFINE k == IF Bound(x).tok = "WS" THEN 0 ELSE 1
  <2>2. k \in 0 .. 2 /\ 1 - k \in 0 .. 1
    OBVIOUS
  <2>3. k = 0 => x.tok \notin Separators
    <3>1. "WS" \in Blanks \cup Separators /\ "WS" \notin Separators
      BY DEF Blanks, Separators
    <3>2. Bound(x).tok = "WS" => x.tok = "WS"
      BY <3>1, BoundSame
    <3>3. QED
      BY <3>1, <3>2
  <2> HIDE DEF k
  <2>4. Read(x, k) /\ Stage("start")
    BY <1>8, <2>1 DEF RegexConsume, k
  <2>5. Goes(b, 1 - k)
    BY <1>4, <2>2, <2>4
  <2>6. QED
    BY <1>1, <2>2, <2>3, <2>4, <2>5, WorksOK, InsideRead
<1>9. CASE RegexParam
  <2>1. PICK x \in Scanned("Scan") : Read(x, 1) /\ (Stage("read") \/ Goto(Now.no))
    BY <1>9 DEF RegexParam
  <2>2. CASE Stage("read")
    <3>1. Goes(b, 1 - 1)
      BY <1>4, <2>2
    <3>2. QED
      BY <1>1, <2>1, <3>1, WorksOK, InsideRead
  <2>3. CASE Goto(Now.no)
    <3>1. Lends(calls[1].rule, calls[1].at, 1 - 1, Now.no)
      BY <1>2
    <3>2. QED
      BY <1>1, <1>2, <1>3, <2>1, <2>3, <3>1, WorksRead
  <2>4. QED
    BY <2>1, <2>2, <2>3
<1>10. CASE RegexRead
  <2>1. PICK x \in Scanned("ScanRegex") :
          Read(x, 0) /\ Goto(IF Bound(x).tok = "REGEX" THEN Now.yes ELSE "fail")
    BY <1>10 DEF RegexRead
  <2> DEFINE next == IF Bound(x).tok = "REGEX" THEN Now.yes ELSE "fail"
  <2>2. next \in RuleName /\ next \notin Outer
    BY <1>2, <1>3
  <2>3. Lends(calls[1].rule, calls[1].at, 1 - 0, next)
    BY <1>2 DEF Lends
  <2>4. next = "fail" \/ x.tok \notin Separators
    <3>1. "REGEX" \notin Separators
      BY DEF Separators
    <3>2. Bound(x).tok = "REGEX" => x.tok \notin Separators
      BY <3>1, BoundSame
    <3>3. QED
      BY <3>2
  <2> HIDE DEF next
  <2>5. Read(x, 0) /\ Goto(next)
    BY <2>1 DEF next
  <2>6. QED
    BY <1>1, <2>2, <2>3, <2>4, <2>5, WorksRead
<1>11. QED
  BY <1>6, <1>7, <1>8, <1>9, <1>10 DEF ParseRegex

\* The statement is parsed: it is one more.
LEMMA EndStmtOK ==
  ASSUME Full, Counted, CallsOK', InStatement, Len(calls) = 1, ParseQuery
  PROVE  Counted'
<1>1. PICK b \in Nat : Parsing(b)
  BY DEF InStatement
<1>2. result = "running" /\ calls \in Seq(Frame) /\ calls # <<>>
  BY OneLong DEF InStatement, Full, Inv, CallsOK
<1>3. calls[1].rule = Statement /\ calls[1].at = 2
  BY <1>2 DEF InStatement, Inside
<1>4. Len(Rules[Statement]) = 3 /\ Now.op = "end"
  BY <1>3, QueryAssumption DEF Now
<1>5. EndStmt
  BY <1>2, <1>4, StepOfOp
<1>6. Rest /\ stmts' = Append(stmts, ast) /\ UNCHANGED <<seen, ring>>
  BY <1>5 DEF EndStmt, tokens
<1> DEFINE f == [rule |-> Statement, at |-> 3, stage |-> "blank"]
<1>7. calls' = <<f>> \o <<>>
  <2>1. Tail(calls) = <<>>
    BY <1>2, OneLong
  <2>2. calls[1].at < Len(Rules[calls[1].rule]) /\ calls[1].at + 1 = 3
    BY <1>3, <1>4
  <2>3. Advanced = <<[rule |-> calls[1].rule, at |-> calls[1].at + 1, stage |-> "blank"]>> \o Tail(calls)
    BY <2>2, Zenon DEF Advanced
  <2>4. QED
    BY <1>3, <1>6, <2>1, <2>2, <2>3 DEF Rest
<1>8. OneCall(Statement, 3)'
  <2>1. Len(<<f>> \o <<>>) = 1 /\ (<<f>> \o <<>>)[1] = f
    OBVIOUS
  <2>2. QED
    BY <1>7, <2>1 DEF OneCall
<1>9. Consumed' = Consumed /\ Consumed \in Nat /\ Len(seen) \in Nat
  BY <1>6, ConsumedNat DEF Consumed, Full, Typed
<1>10. EndOnce'
  BY <1>2, <1>6, <1>9, EndKept DEF Counted
<1>11. IsSeq(stmts)' /\ Len(stmts') = Len(stmts) + 1
  <2>1. PICK S : stmts \in Seq(S)
    BY DEF Counted, IsSeq
  <2>2. stmts \in Seq(S \cup {ast})
    BY <2>1
  <2>3. stmts' \in Seq(S \cup {ast}) /\ Len(stmts') = Len(stmts) + 1
    BY <1>6, <2>2
  <2>4. QED
    BY <2>3 DEF IsSeq
<1>12. Parsed(b)'
  BY <1>1, <1>6, <1>9, <1>11 DEF Parsing, Parsed
<1>13. result' = "running"
  BY <1>2, <1>6 DEF Rest
<1>14. AfterOne'
  BY <1>8, <1>12, <1>13 DEF AfterOne
<1>15. QED
  BY <1>10, <1>11, <1>14 DEF Counted, Progress

\* A sequence with elements.
LEMMA SomeLong ==
  ASSUME NEW S, NEW s \in Seq(S), s # <<>>
  PROVE  Len(s) = 1 \/ Len(s) > 1
<1>1. \A t \in Seq(S) : Len(t) = 0 => t = <<>>
  OBVIOUS
<1>2. Len(s) \in Nat /\ Len(s) # 0
  BY <1>1
<1>3. \A n \in Nat : n = 0 \/ n = 1 \/ n > 1
  OBVIOUS
<1>4. QED
  BY <1>2, <1>3

\* Within a statement, or at its end.
LEMMA InStatementOK ==
  ASSUME Full, Counted, CallsOK', InStatement, ParseQuery
  PROVE  Counted'
<1>1. calls \in Seq(Frame) /\ calls # <<>> /\ Len(calls) \in Nat
  BY DEF InStatement, Inside, Full, Inv, CallsOK
<1>2. CASE Len(calls) = 1
  BY <1>2, EndStmtOK
<1>3. CASE Len(calls) > 1
  <2>1. PICK b \in Nat : Works(b)
    BY <1>3 DEF InStatement, Works
  <2>2. Now.op # "end"
    BY <2>1, WorksOK DEF Within
  <2>3. ~ EndStmt /\ ~ Succeed
    BY <1>1, <2>2 DEF EndStmt, Succeed
  <2>4. QED
    BY <2>1, <2>3, WorksScan, WorksControl, WorksRest, WorksRegex DEF ParseQuery
<1>4. Len(calls) = 1 \/ Len(calls) > 1
  BY <1>1, SomeLong
<1>5. QED
  BY <1>2, <1>3, <1>4

\* A new parser has read nothing.
NewParser ==
  seen = <<>> /\ ring = NewBuffer /\ calls = Enter(Start, <<>>) /\ stmts = <<>> /\ result = "running"

\* It is about to read its first statement.
LEMMA StartCounted == NewParser => Counted
<1> SUFFICES ASSUME NewParser
             PROVE  Counted
  OBVIOUS
<1>0. seen = <<>> /\ ring = NewBuffer /\ calls = Enter(Start, <<>>) /\ stmts = <<>> /\ result = "running"
  BY DEF NewParser
<1>1. Consumed = 0 /\ Len(seen) = 0
  BY <1>0, NewBufferTyped DEF Consumed
<1>2. EndOnce
  BY <1>1 DEF EndOnce
<1>3. IsSeq(stmts)
  BY <1>0 DEF IsSeq
<1>4. Clear(seen, Consumed) /\ Begun(seen, Consumed) = {}
  BY <1>1 DEF Clear, Begun
<1>5. Len(stmts) = 0 /\ Cardinality({}) = 0
  BY <1>0, FS_EmptySet
<1>6. Idle
  BY <1>0, <1>1, <1>4, <1>5 DEF Idle
<1>7. OneCall(Start, 1)
  <2> DEFINE f == [rule |-> Start, at |-> 1, stage |-> "blank"]
  <2>1. Rules[Start] # <<>>
    BY QueryAssumption
  <2>2. calls = <<f>> \o <<>>
    BY <1>0, <2>1 DEF Enter
  <2>3. Len(<<f>> \o <<>>) = 1 /\ (<<f>> \o <<>>)[1] = f
    OBVIOUS
  <2>4. QED
    BY <2>2, <2>3 DEF OneCall
<1>8. QED
  BY <1>2, <1>3, <1>6, <1>7 DEF Counted, Progress, AtStart

\* ParseQuery returns.
LEMMA AtEndOK ==
  ASSUME Full, Counted, AtEnd, ParseQuery
  PROVE  Counted'
<1>1. calls = <<>>
  BY DEF AtEnd
<1>2. Succeed
  BY <1>1 DEF ParseQuery, ParseRegex, ScanBlank, ScanHit, ScanMiss, Peek, RegexBlank, RegexConsume,
     RegexStart, RegexParam, RegexRead, AtStage, Running, CallRule, Branch, PushBack, SetKind, SetFlag,
     OpenField, CloseField, EndStmt
<1>3. result' = "ok" /\ UNCHANGED <<seen, ring, calls, stmts>>
  BY <1>2 DEF Succeed, tokens, tree
<1>4. Consumed' = Consumed
  BY <1>3 DEF Consumed
<1>5. AtEnd'
  BY <1>3, <1>4 DEF AtEnd
<1>6. QED
  BY <1>3, <1>4, <1>5 DEF Counted, EndOnce, IsSeq, Progress

\* Every step keeps the count.
LEMMA NextCounted ==
  ASSUME Full, Full', Counted, [Next]_vars
  PROVE  Counted'
<1>1. CASE ParseQuery
  <2>1. CASE result = "error"
    BY <1>1, <2>1 DEF ParseQuery, ParseRegex, ScanBlank, ScanHit, ScanMiss, Peek, RegexBlank, RegexConsume,
       RegexStart, RegexParam, RegexRead, AtStage, Running, CallRule, Branch, PushBack, SetKind, SetFlag,
       OpenField, CloseField, EndStmt, Succeed
  <2>2. CASE result # "error"
    <3>1. CallsOK'
      BY DEF Full, Inv
    <3>2. AtStart \/ AtStatement \/ AtLanguage \/ InStatement \/ AfterOne \/ AtEnd
      BY <2>2 DEF Counted, Progress
    <3>3. QED
      BY <1>1, <3>1, <3>2, AtStartOK, AtStatementOK, AtLanguageOK, InStatementOK, AfterOneOK, AtEndOK
  <2>3. QED
    BY <2>1, <2>2
<1>2. CASE ReparsePrinted \/ ReparseCommented
  <2>1. NewParser'
    BY <1>2 DEF ReparsePrinted, ReparseCommented, Reparse, NewParser
  <2>2. QED
    BY <2>1, StartCounted, PTL
<1>3. CASE Finished \/ UNCHANGED vars
  <2>1. UNCHANGED <<seen, ring, calls, stmts, result>>
    BY <1>3 DEF Finished, vars
  <2>2. Consumed' = Consumed
    BY <2>1 DEF Consumed
  <2>3. QED
    BY <2>1, <2>2 DEF Counted, EndOnce, IsSeq, Progress, AtStart, AtStatement, AtLanguage, InStatement,
       AfterOne, AtEnd, Idle, OneCall, TwoCalls, Parsing, Parsed
<1>4. QED
  BY <1>1, <1>2, <1>3 DEF Next

----------------------------------------------------------------------------
(* The theorems.                                                           *)

\* No function of the parser pushes back more tokens than bufScanner holds: the
\* index of curr() is never negative and its slot never overwritten.
THEOREM StaysInTheRing == Spec => []UnscanBound
<1>1. Inv => UnscanBound
  BY DEF Inv, DepthOK, RingOK, UnscanBound, BufLen
<1>2. QED
  BY <1>1, Invariance, PTL

\* What is read again after Unscan is what was read the first time.
THEOREM RingIsFaithful == Spec => []RingHoldsTheLastTokens
<1>1. Inv => RingHoldsTheLastTokens
  BY DEF Inv
<1>2. QED
  BY <1>1, Invariance, PTL

\* The parser's types: every token it reads is a lexeme, in a printed text too, and
\* every call is at an instruction of its rule.
THEOREM ParserTypeCorrect == Spec => []TypeOK
<1>1. Full => TypeOK
  <2> SUFFICES ASSUME Full
               PROVE  TypeOK
    OBVIOUS
  <2>1. ASSUME NEW j \in DOMAIN calls
        PROVE  calls[j].rule \in DOMAIN Rules /\ calls[j].at \in DOMAIN Rules[calls[j].rule]
    <3>1. calls[j] \in Frame
      BY DEF Full, Inv, CallsOK
    <3>2. QED
      BY <3>1, FrameOK, RuleIsSeq
  <2>2. QED
    BY <2>1 DEF Full, Typed, TypeOK
<1>2. Full /\ [Next]_vars => Full'
  BY NextFull
<1>3. QED
  BY InitFull, <1>1, <1>2, PTL DEF Spec

\* bufScanner implements Pushback as parser.go uses it: in one parse no token is
\* lost, repeated or reordered, and none is pushed back that was not read.
THEOREM ParserReadsInOrder == Spec => ReadsInOrder
<1>1. Full /\ [Next]_vars => Full'
  BY NextFull
<1>2. Full /\ [Next]_vars => [round' = round => PB!PNext]_(PB!pvars)
  BY NextFull
<1>3. QED
  BY InitFull, <1>1, <1>2, PTL DEF Spec, ReadsInOrder

\* ParseQuery returns a statement for every piece of the text between semicolons
\* that is not blank, and only when it has read the whole text.
THEOREM QueryIsSplit == Spec => []StatementsAreSeparated
<1>1. Counted /\ Full => StatementsAreSeparated
  <2> SUFFICES ASSUME Counted, Full, result = "ok"
               PROVE  /\ ring.n = 0 /\ seen # <<>> /\ seen[Len(seen)].tok = "EOF"
                      /\ Len(stmts) = Cardinality(Begun(seen, Len(seen)))
    BY DEF StatementsAreSeparated
  <2>1. AtEnd
    BY DEF Counted, Progress, AtStart, AtStatement, AtLanguage, InStatement, AfterOne, Idle
  <2>2. ring.n \in Nat /\ Len(seen) \in Nat /\ Len(seen) - ring.n = Len(seen)
    BY <2>1 DEF AtEnd, Consumed, Full, Inv, RingOK, Typed
  <2>3. QED
    BY <2>1, <2>2 DEF AtEnd
<1>2. Init => Full /\ Counted
  BY InitFull, StartCounted DEF Init, NewParser
<1>3. Full /\ Counted /\ [Next]_vars => Full' /\ Counted'
  BY NextFull, NextCounted
<1>4. QED
  BY <1>1, <1>2, <1>3, PTL DEF Spec
=============================================================================
