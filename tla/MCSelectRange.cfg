CONSTANTS
  MaxInt = 1023
  Scale <- MCScale
  Matches <- MCMatches
  NoName = ""
  Spelled <- MCSpelled
  Name = {""}
  Syntax <- MCSyntax
  MaxLiterals = 3
  FieldTypes <- MCFieldTypes
  TagKeys <- MCTagKeys
  CallType <- MCCallType
  Alphabetical <- MCAlphabetical
  ColumnName = {""}
  Blank = ""
  Numbered <- MCNumbered
  Statements <- MCStatements
  Spans <- MCSpans
  Now <- MCNow
SPECIFICATION Spec
PROPERTY SetsTheTimeRange
