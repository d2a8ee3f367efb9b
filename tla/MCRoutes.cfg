SPECIFICATION RoutesSpec
CONSTANTS
  a = a
  b = b
  c = c
  d = d
  Node = {a, b, c, d}
  Edge <- MCEdge
  Watched <- MCWatched
  MaxHop = 3
  Expiry = 1
  Limit = 2
  LongGone = 3
  AtOnce = 1
INVARIANTS RoutesUsable RoutesRunOut
