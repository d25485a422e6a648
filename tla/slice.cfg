CONSTANTS
    Sides = {"backend", "frontend"}
    Failures = {f1, f2}
    RetryBudget = 1
    Events = {"crash", "peer"}
    MaxEvents = 2
SPECIFICATION Spec
INVARIANTS
    TestedOnLastCommit
    CompletedStepsAreKept
    NeverTestsTheSameCode
PROPERTY
    NoFailureIsSentBackTwice
SYMMETRY Symmetry
CHECK_DEADLOCK FALSE
