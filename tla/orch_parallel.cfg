CONSTANTS
    Modes = {"auto"}
    N = 3
    DependsOn <- OnSkeleton
    Skeleton = 1
    MaxParallelSlices = 2
    ReviewRetryBudget = 1
    Fuel = 6
    MaxMishaps = 1
    CrashAnywhere = FALSE
SPECIFICATION Spec
INVARIANT BuildsAfterItsDependencies
CHECK_DEADLOCK FALSE
