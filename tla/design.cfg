\* Gated and auto Runs whose process may die between any two transactions.
SPECIFICATION Spec
CONSTANTS
    Modes = {"gated", "auto"}
    MaxMishaps = 4
INVARIANTS
    BuildsOnWhatWasJudged
    NothingAskedIsSkipped
    CommentsAreKept
    RevisionsAreOwed
    DesignIsWholeUnlessTorn
PROPERTY KeepsAgreement
\* A Run that was aborted, that failed or that is done stops.
CHECK_DEADLOCK FALSE
