SPECIFICATION Spec
CONSTANTS
  Programs <- MCPrograms
  IndexThreshold = 1
  Spellings <- MCSpellings
  x = x
  y = y
  f = f
  main = main
  Callees = {f}
INVARIANTS TypeOK BindsInnermost AcceptedIsGenerated AssignsDeclaredMut UntypedIsDiagnosed
CHECK_DEADLOCK FALSE
