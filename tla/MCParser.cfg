SPECIFICATION Spec
CONSTANTS
  Lexeme <- MCLexeme
  Rules <- MCRules
  Start <- GrammarStart
  Lent <- MCLent
  Holds <- GrammarHolds
  Store <- GrammarStore
  Printed <- PrintedQuery
  Params <- MCParams
  Alphabets <- MCAlphabets
  Follows <- MCFollows
  MaxTokens <- MCMaxTokens
INVARIANTS
  TypeOK
  UnscanBound
  RingHoldsTheLastTokens
  StatementsAreSeparated
  RoundTrip
  CommentsAreWhitespace
PROPERTIES
  ReadsInOrder
  NoClauseIsOverwritten
