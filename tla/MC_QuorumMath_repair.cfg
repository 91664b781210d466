CONSTANTS
    W = 8
    MaxData = 4
    MaxParity = 3
SPECIFICATION Spec
INVARIANT RepairAllAckedReachesConsensus
