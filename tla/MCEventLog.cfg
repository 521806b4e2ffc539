CONSTANTS
    Sessions = {s1}
    Tasks = {r1, w1}
    Sweeps = {w1}
    Others = {}
    Kinds <- MCKinds
    MaxEvents = 3
    MaxSinks = 2
    MaxFaults = 2
SPECIFICATION IndexSpec
INVARIANTS
    LossNeedsTear
    NumbersAreFresh
    ListedWasLogged
PROPERTY
    HistoryKept
CHECK_DEADLOCK FALSE
