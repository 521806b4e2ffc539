SPECIFICATION FairSpec
CONSTANTS
  e1 = e1
  e2 = e2
  c1 = c1
  Emitters <- MCEmitters
  Conns <- MCConns
  RingCap = 2
  BcastCap = 1
  OutCap = 1
  MaxSeq = 3
CHECK_DEADLOCK FALSE
INVARIANTS
  RingWindow
  LiveAccounted
  NoSilentGap
PROPERTIES
  EmitterProgress
