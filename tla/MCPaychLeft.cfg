SPECIFICATION MonSpec
CONSTANTS
  Call = {q1, q2, q3}
  Outbound = FALSE
  Offers = {1}
  RenewBy = 1
  RenewWindow = 50
  NoTime = NoTime
  NoControl = NoControl
  Unstored = Unstored
  MaxTime = 2
  MaxPending = 2
SYMMETRY CallSymmetry
INVARIANTS ActiveIsTracked
CHECK_DEADLOCK FALSE
