SPECIFICATION Spec
CONSTANTS
  a = a
  b = b
  h1 = h1
  h2 = h2
  Token <- MCToken
  Handler <- MCHandler
  None = None
  MaxNodes = 4
  MaxPath = 2
  MaxHandled = 2
INVARIANTS
  ErrorListsTheValidTokens
