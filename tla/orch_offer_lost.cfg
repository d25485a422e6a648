CONSTANTS
    Modes = {"auto"}
    N = 1
    DependsOn <- InOrder
    Skeleton = 0
    MaxParallelSlices = 1
    ReviewRetryBudget = 1
    Fuel = 4
    MaxMishaps = 1
    CrashAnywhere = FALSE
SPECIFICATION Spec
PROPERTY FailedRunIsOffered
CHECK_DEADLOCK FALSE
