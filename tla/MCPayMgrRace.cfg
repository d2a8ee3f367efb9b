SPECIFICATION Spec
CONSTANTS
  Chan = {c1, c2}
  Caller = {t1}
  Offers <- FreeOffer
  Expiry = 0
  Inactivity = 0
  NoRes = NoRes
  NoVoucher = NoVoucher
  RouteStoreFails = FALSE
  MaxPetty = 1
  Funds = {1}
  MaxNonce = 2
  MaxRes = 2
  MaxAdding = 2
  MaxTime = 1
CHECK_DEADLOCK FALSE
INVARIANTS OneReservationPerRequest LinkFollowsChannels
PROPERTIES ExpiredReleased
