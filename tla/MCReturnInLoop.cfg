SPECIFICATION Spec
CONSTANTS
  Bodies <- MCBodies
  MaxIterations = 2
  MaxNodes = 5
  ReturnInLoops = TRUE
INVARIANT ReturnEndsBody
CHECK_DEADLOCK FALSE
