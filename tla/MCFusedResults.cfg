SPECIFICATION Spec
CONSTANTS
  Extent = 3
  Part = 2
  TileSize = 2
  CommandLines <- MCCommandLines
  Stem <- MCStem
  Compilations <- MCFusedResults
  Optimizations = {}
INVARIANT Scoped
CHECK_DEADLOCK FALSE
