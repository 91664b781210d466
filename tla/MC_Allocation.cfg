CONSTANTS
    r1 = r1  r2 = r2  r3 = r3
    k1 = k1  k2 = k2
    Reqs <- MCReqs2
    Keys <- MCKeys
    None = None
    W = 8
    QueueCap = 1
    DataShards = 2
    ParityShards = 1
    MaxInits = 1
    MapRaceAborts = FALSE
SPECIFICATION Spec
CHECK_DEADLOCK FALSE
INVARIANT TypeOK
PROPERTY AsyncRefinement
