CONSTANTS
    Modes = {"gated"}
    N = 2
    DependsOn <- Independent
    Skeleton = 0
    MaxParallelSlices = 2
    ReviewRetryBudget = 0
    Fuel = 2
    MaxMishaps = 1
    CrashAnywhere = TRUE
SPECIFICATION Spec
INVARIANT UndeliveredHintsAreKept
INVARIANT NothingUnbuiltIsReviewed
CHECK_DEADLOCK FALSE
