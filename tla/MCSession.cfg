SPECIFICATION LifeFairSpec
CONSTANTS
    Conns = {c1, c2, c3}
    MaxInc = 2
    MaxFaults = 2
    Natives = {TRUE, FALSE}
INVARIANT StampRestored
PROPERTIES DeadIsReaped EndReachesDisk
CHECK_DEADLOCK FALSE
