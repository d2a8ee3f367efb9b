SPECIFICATION Spec
CONSTANTS
  Proc = {p1, p2, p3}
  Path <- TwoChannels
  Depth = 2
  Incarnations = 1
  RemoveUnder = "parent"
  ContextsEnd = TRUE
SYMMETRY ProcSymmetry
INVARIANTS NoRacingAccess NoCircularWait
PROPERTIES ImplementsPathLock
