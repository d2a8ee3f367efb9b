SPECIFICATION Spec
CONSTANTS
  Hops = 4
  MaxAmt = 6
  Serves <- AnyServes
CHECK_DEADLOCK FALSE
INVARIANTS Agreement NoRefusal NoProxyLoss SplitInvariant CompleteTogether
