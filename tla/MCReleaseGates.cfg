SPECIFICATION Spec
CONSTANTS
  Conns = {c1, c2}
  Principals = {alice, bob}
  Gates = {"DevComplete", "ReadyToDeploy", "MutationAuditClean", "ReadyToPublish"}
  Targets = {"prod"}
  Terms = {1}
  Wired = TRUE
  MaxNow = 1
  MaxCommit = 2
  MaxCmds = 4
  MaxFaults = 1
SYMMETRY Symmetry
CHECK_DEADLOCK FALSE
INVARIANTS
  LogFollowsState
  PassIsSigned
PROPERTIES
  ReleaseNeedsEvidence
