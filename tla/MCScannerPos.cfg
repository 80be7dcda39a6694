SPECIFICATION Spec
CONSTANTS
  LF = "LF"
  CR = "CR"
  NUL = "NUL"
  Rune <- MCRune
  Letter <- MCLetter
  Digit <- MCDigit
  Blank <- MCBlank
  Micro <- MCMicro
  Keyword <- MCKeyword
  Input <- StringBehindBlank
  QuoteLen = 3
  IdentLen = 3
  NumberLen = 3
  CommentLen = 3
  OperatorLen = 2
  RegexLen = 3
INVARIANTS
  TokenStartsAtItsFirstRune
