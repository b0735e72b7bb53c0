SPECIFICATION Spec
CONSTANTS
  VectorWidth = 4
  WarpSize = 32
  Levels = {5, 6, 7, 8}
  Overrides <- MCOverrides
  Problems <- MCProblems
INVARIANT EveryShapeLegal
CHECK_DEADLOCK FALSE
