SPECIFICATION Spec
CONSTANTS
  VectorWidth = 4
  WarpSize = 32
  Levels = {2, 3, 4, 5, 6, 7, 8}
  Overrides <- MCOverrides
  Problems <- MCProblems
INVARIANTS
  CellsOwnedOnce
  TilesCovered
CHECK_DEADLOCK FALSE
