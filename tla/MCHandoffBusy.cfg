SPECIFICATION Spec
CONSTANTS
  Packets = {p1, p2}
  People = {alice, bob}
  Authors = {alice}
  Policies = {TRUE}
  Needs = {2}
  Conns = {c1, c2}
  Agents = {"acp"}
  MaxExec = 2
  MaxHead = 0
  MaxProgress = 0
  EvCap = 1
SYMMETRY Symmetry
CHECK_DEADLOCK FALSE
INVARIANTS
  OneExecuting
