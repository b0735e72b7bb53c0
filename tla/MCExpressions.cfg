SPECIFICATION Spec
CONSTANTS
  Bits <- MCBits
  StackThreshold = 9
  Symbols <- MCSymbols
  Functions <- MCFunctions
  Statements <- MCStatements
  Memories <- MCMemories
INVARIANTS
  TypeOK
  ValuesKept
  CallsKept
  MixedOnlyFails
CHECK_DEADLOCK FALSE
