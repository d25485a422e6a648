CONSTANTS
    Modes = {"gated"}
    N = 1
    DependsOn <- InOrder
    Skeleton = 0
    MaxParallelSlices = 1
    ReviewRetryBudget = 1
    Fuel = 2
    MaxMishaps = 2
    CrashAnywhere = TRUE
SPECIFICATION Spec
INVARIANT CheckpointIsCurrent
INVARIANT GateMatchesStatus
INVARIANT UndeliveredHintsAreKept
CHECK_DEADLOCK FALSE
