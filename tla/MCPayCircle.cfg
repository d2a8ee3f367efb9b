SPECIFICATION Spec
CONSTANTS
    Own = 0
    Chan = {1, 2, 3}
    Stream = {1, 2, 3}
    Route <- CircleRoute
    Terms <- ProxyTerms
    Request = {1, 2, 3}
    Wants <- OwnStream
    NoLeg = NoLeg
    NoVoucher = NoVoucher
    MaxPetty = 1
PROPERTIES ChannelsComeFree
CHECK_DEADLOCK FALSE
