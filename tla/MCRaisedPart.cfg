SPECIFICATION Spec
CONSTANTS
  Extent = 3
  Part = 2
  TileSize = 2
  CommandLines <- MCCommandLines
  Stem <- MCStem
  Compilations <- MCRaisedPart
  Optimizations = {}
INVARIANT MeaningKept
CHECK_DEADLOCK FALSE
