SPECIFICATION Spec
CONSTANTS
  Letters <- MCLetters
  Digits <- MCDigits
  Keywords <- MCKeywords
  MaxNodes = 6
  TextLength = 4
  TailLength = 3
INVARIANTS
  SyntaxTypeOK
  TokensCoverText
  LocationsExact
  NullIsReported
  TreeKeepsOperands
  PrecedenceShapesTree
PROPERTY ParserEnds
