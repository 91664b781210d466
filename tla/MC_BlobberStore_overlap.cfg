CONSTANTS
    W = 8
    DataShards = 1
    ParityShards = 2
    Src = Src
    Dst = Dst
SPECIFICATION Spec
INVARIANT SuccessfulOpsVisible
