CONSTANTS
    W = 4
    MaxBlobbers = 6
SPECIFICATION Spec
INVARIANT NoRepairRequiredOnlyWhenComplete
