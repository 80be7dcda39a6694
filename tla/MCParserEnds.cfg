SPECIFICATION Spec
CONSTANTS
  Lexeme <- MCLexeme
  Rules <- MCRules
  Start <- GrammarStart
  Lent <- MCLent
  Holds <- GrammarHolds
  Store <- AsWritten
  Printed <- NoText
  Params <- MCParams
  Alphabets <- Recursive
  Follows <- MCFollows
  MaxTokens <- EndsMaxTokens
PROPERTIES
  Termination
