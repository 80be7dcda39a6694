SPECIFICATION Spec
CONSTANTS
  LF = "LF"
  CR = "CR"
  NUL = "NUL"
  Rune <- MCRune
  Letter <- MCLetter
  Digit <- MCDigit
  Blank <- MCBlank
  Micro <- MCMicro
  Keyword <- MCKeyword
  Input <- MCInput
  QuoteLen = 4
  IdentLen = 3
  NumberLen = 5
  CommentLen = 4
  OperatorLen = 3
  RegexLen = 4
INVARIANTS
  TypeOK
  UnreadBound
  RingHoldsTheLastRunes
  DeliversTheText
  TokenPositions
  LiteralIsTheText
  MaximalMunch
  EndIsTheEnd
PROPERTIES
  ReadsInOrder
  Termination
