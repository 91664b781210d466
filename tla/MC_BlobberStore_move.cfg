CONSTANTS
    W = 8
    DataShards = 2
    ParityShards = 1
    Src = Src
    Dst = Dst
SPECIFICATION Spec
INVARIANT FailedMoveLeavesNoCopy
