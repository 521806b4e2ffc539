SPECIFICATION ActivitySpec
CONSTANTS
  Calls = {"prompt", "set_mode"}
  Prompts = {"prompt"}
  Terminals = {"t1"}
  MaxReqs = 3
  Loads <- MCLoads
  MaxOut = 1
  Frames <- MCFrames
  Subs = {"sub"}
  UpdCap = 1
  MaxDepth = 2
CHECK_DEADLOCK FALSE
INVARIANTS
  PendingIsWaiting
  NestingIsTrue
PROPERTIES
  CallsEnd
  RequestsAnswered
  TerminalsEnd
