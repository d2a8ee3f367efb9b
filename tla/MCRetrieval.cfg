SPECIFICATION Spec
CONSTANTS
  o1 = o1
  o2 = o2
  c1 = c1
  c2 = c2
  Offer = {o1, o2}
  Call = {c1, c2}
  Requests <- MCRequests
  PPB <- MCPPB
  Size <- MCSize
  NoState = NoState
  NoCredit = NoCredit
INVARIANTS CreditIsKept OneBlockAhead FileIsWhole NoMutualWait
CHECK_DEADLOCK FALSE
