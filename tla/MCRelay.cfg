SPECIFICATION RelaySpec
CONSTANTS
  Clients = {"c1", "c2"}
  Tokens = {"t1", "t2"}
  Sessions = {"s1", "s2"}
  BoundTo <- MCBoundTo
  MaxDials = 2
  MayExpire = {"t2"}
CHECK_DEADLOCK FALSE
INVARIANTS
  TokenOnce
  ToldOfLoss
