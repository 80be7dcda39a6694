SPECIFICATION Spec
CONSTANTS
  Lexeme <- MCLexeme
  Rules <- MCRules
  Start <- GrammarStart
  Lent <- MCLent
  Holds <- GrammarHolds
  Store <- GrammarStore
  Printed <- PrintedQuery
  Params <- MCParams
  Alphabets <- OnlySources
  Follows <- MCFollows
  MaxTokens <- MCMaxTokens
INVARIANTS
  EveryCommentIsWhitespace
