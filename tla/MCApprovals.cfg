SPECIFICATION MCSpec
CONSTANTS
  r1 = r1
  r2 = r2
  c1 = c1
  c2 = c2
  a = a
  b = b
  t1 = t1
  t2 = t2
  h1 = h1
  h2 = h2
  No = No
  Requests <- MCRequests
  Clients <- MCClients
  Ids <- MCIds
  OptionLists <- MCOptionLists
  Calls <- MCCalls
  Activities <- MCActivities
  MaxActivity = 1
CHECK_DEADLOCK FALSE
INVARIANTS
  DecidedOnce
  ToldTruth
  LabelsTrue
PROPERTIES
  OneDecision
  EveryRequestAnswered
