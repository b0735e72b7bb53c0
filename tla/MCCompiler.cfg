SPECIFICATION Spec
CONSTANTS
  Extent = 3
  Part = 2
  TileSize = 2
  CommandLines <- MCCommandLines
  Stem <- MCStem
  Compilations <- MCCompilations
  Optimizations <- MCOptimizations
INVARIANTS
  TypeOK
  ExitTellsProduct
  NoTempLeft
  MeaningKept
PROPERTIES
  HoistedFully
  ProductsRaised
  GeneratedKept
  CompilationEnds
CHECK_DEADLOCK FALSE
