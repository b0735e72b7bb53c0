SPECIFICATION Spec
CONSTANTS
  Bodies <- MCBodies
  MaxIterations = 2
  MaxNodes = 7
  ReturnInLoops = FALSE
INVARIANTS TypeOK
PROPERTY ImplementsSource
CHECK_DEADLOCK FALSE
