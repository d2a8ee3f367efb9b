SPECIFICATION MonSpec
CONSTANTS
  Call = {q1, q2}
  Outbound = FALSE
  Offers = {1}
  RenewBy = 1
  RenewWindow = 50
  NoTime = NoTime
  NoControl = NoControl
  Unstored = Unstored
  MaxTime = 3
  MaxPending = 2
INVARIANTS SendersAreHeard
PROPERTIES TrackedRetires
CHECK_DEADLOCK FALSE
