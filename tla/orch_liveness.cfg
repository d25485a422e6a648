CONSTANTS
    Modes = {"gated", "auto"}
    N = 1
    DependsOn <- InOrder
    Skeleton = 0
    MaxParallelSlices = 1
    ReviewRetryBudget = 1
    Fuel = 3
    MaxMishaps = 0
    CrashAnywhere = FALSE
SPECIFICATION Spec
PROPERTY AdvanceEnds
PROPERTY StoppedRunIsOffered
PROPERTY AbortStopsWork
CHECK_DEADLOCK FALSE
