CONSTANTS
  MaxInt = 1023
  Scale <- MCScale
  Matches <- MCMatches
  NoName = ""
  Spelled <- MCSpelled
  Name = {"", "x", "b", "s", "r", "f", "y", "t", "a b", "my f"}
  Alphabets <- Nested
  MaxTokens <- NestedMaxTokens
SPECIFICATION Spec
CHECK_DEADLOCK FALSE
INVARIANT ReparsedTheSame
