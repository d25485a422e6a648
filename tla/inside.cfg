\* Each part under bounds of its own; the README says why they are enough.
SPECIFICATION Spec
CONSTANTS
    Features = {"list"}
    MaxSubmits = 4
    MaxParallel = 2
    Entries = {dependency, script}
    MaxLines = 1
    MaxCalls = 2
    MaxChecks = 2
    MaxTestFailures = 2
    MaxCodingIssues = 1
    TokenBudget = 1
    MaxRecorded = 1
    MaxSubmitted = 2
    MaxFacts = 3
    MaxReports = 1
    MaxAnswer = 2
    MaxMessage = 1
    MaxBudget = 4
SYMMETRY Symmetry
INVARIANTS
    DesignHandedOverIsWhole
    MergedManifestIsWhole
    NoFailureIsForgotten
    BlocksOnWhatIsReal
    BriefIsWithinItsMeans
\* Each part comes to its end.
CHECK_DEADLOCK FALSE
