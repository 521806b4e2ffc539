SPECIFICATION FairSpec
CONSTANTS
  Packets = {p1}
  People = {alice, bob}
  Authors = {alice}
  Policies = {TRUE}
  Needs = {2}
  Conns = {c1, c2}
  Agents = {"acp", "line"}
  MaxExec = 2
  MaxHead = 1
  MaxProgress = 1
  EvCap = 1
CHECK_DEADLOCK FALSE
INVARIANTS
  ApprovalIsJoint
  OutcomeFollowsDispatch
  RefusedIsClosed
PROPERTIES
  CrashEndsPacket
