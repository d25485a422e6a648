CONSTANTS
    Sides = {"backend", "frontend"}
    Failures = {f1}
    RetryBudget = 2
    Events = {"crash", "fault", "hint", "abort", "peer", "tokens"}
    MaxEvents = 1
SPECIFICATION Spec
INVARIANTS
    RetryBudgetIsKept
PROPERTIES
    CallEnds
CHECK_DEADLOCK FALSE
