SPECIFICATION Spec
CONSTANTS
  Chan = {c1}
  Absent = Absent
  Word = 100
  Window = 2
  MaxLives = 2
  MaxVersion = 2
  MaxInFlight = 3
  MaxFailures = 1
CHECK_DEADLOCK FALSE
INVARIANTS StoreNeverAhead
PROPERTIES StoreNeverBack CatchesUp
