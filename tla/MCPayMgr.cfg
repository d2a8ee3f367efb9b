SPECIFICATION Spec
CONSTANTS
  Chan = {c1}
  Caller = {t1, t2}
  Offers <- FreeOffer
  Expiry = 0
  Inactivity = 0
  NoRes = NoRes
  NoVoucher = NoVoucher
  RouteStoreFails = TRUE
  MaxPetty = 2
  Funds = {1, 2}
  MaxNonce = 2
  MaxRes = 2
  MaxAdding = 1
  MaxTime = 1
SYMMETRY CallerSymmetry
CHECK_DEADLOCK FALSE
INVARIANTS ReservedIsSum NoOverbooking VouchersCovered LossQuarantine PendingIsFresh
PROPERTIES PaidFromReservation StateMovesForward
