SPECIFICATION WSpec
CONSTANTS
  Conns = {"c1", "c2"}
  Installed <- MCInstalled
  Added = {"a1"}
  Edits <- MCEdits
  Trees = {"p1", "bad"}
  Sids = {"s1"}
  Claim <- MCClaim
  Profiles <- MCProfiles
  Cases <- MCCases
CHECK_DEADLOCK FALSE
INVARIANTS
  BoundToSpawner
  ResumeMatrix
  AgentsFileLoads
  EditOnce
