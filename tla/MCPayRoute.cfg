SPECIFICATION Spec
CONSTANTS
    Own = own
    Chan = {1, 2}
    Stream = {s1, s2, own}
    Route <- SharedRoute
    Terms <- ProxyTerms
    Request = {q1, q2, q3}
    Wants <- AnyStream
    NoLeg = NoLeg
    NoVoucher = NoVoucher
    MaxPetty = 2
SYMMETRY SharedSymmetry
INVARIANTS LossIsCurrent ProxyMatches NothingForNothing PaidIsCredited
PROPERTIES ImplementsLedger
CHECK_DEADLOCK FALSE
