SPECIFICATION Spec
CONSTANTS
  Lexeme <- MCLexeme
  Rules <- MCRules
  Start <- GrammarStart
  Lent <- MCLent
  Holds <- GrammarHolds
  Store <- GrammarStore
  Printed <- PrintedQuery
  Params <- MCParams
  Alphabets <- OnlyTagKeys
  Follows <- MCFollows
  MaxTokens <- MCMaxTokens
INVARIANTS
  EveryStatementRoundTrips
