SPECIFICATION FairSpec
CONSTANTS
  x1 = x1
  x2 = x2
  r1 = r1
  r2 = r2
  p1 = p1
  p2 = p2
  c1 = c1
  c2 = c2
  No = No
  Extensions = {x1, x2}
  Requests = {r1, r2}
  Profiles = {p1, p2}
  Conns = {c1, c2}
  Seeds = {"revoked"}
  MaxCommands = 4
  MaxFaults = 1
CHECK_DEADLOCK FALSE
PROPERTIES PromotionIsJoint ActsAtOnce EveryCommandEnds
