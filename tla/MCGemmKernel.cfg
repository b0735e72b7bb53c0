SPECIFICATION FairSpec
CONSTANTS
  VectorWidth = 2
  WarpSize = 2
  Shapes <- MCShapes
INVARIANTS
  TypeOK
  ReadsCurrentTile
  ResultCorrect
PROPERTY Termination
