CONSTANTS
  MaxInt = 1023
  Scale <- MCScale
  Matches <- MCMatches
  NoName = ""
  Spelled <- MCSpelled
  Name = {"", "x", "b", "s", "r", "f", "y", "t", "a b", "my f"}
  Alphabets <- MCAlphabets
  MaxTokens <- MCMaxTokens
SPECIFICATION Spec
CHECK_DEADLOCK FALSE
INVARIANTS
  ReturnsTheMeaning
  PrintedTextReadsBack
  ReducedEvaluatesTheSame
  PartitionKeepsTheCondition
  RewritesTheCloneOnly
  TypeOK
  BoundByPrecedence
  DurationOverflow
PROPERTY
  ParseExprReturns
