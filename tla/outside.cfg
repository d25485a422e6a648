\* Each part under bounds of its own; the README says why they are enough.
SPECIFICATION Spec
CONSTANTS
    Kept = 3
    MaxEvents = 5
    MaxReads = 2
    MaxFaults = 2
    MaxPublished = 6
    MaxRereads = 2
    MaxDeaths = 1
    MaxQuestions = 4
    MaxMeddling = 1
    Screens = {list, form}
    MaxDesigns = 3
    MaxAttempts = 2
    MaxTrouble = 4
    Runs = {t, u}
    MaxImages = 2
    MaxUploads = 5
    MaxRequestFailures = 1
    MaxExpiries = 3
    LastSlice = 2
    InOrder = TRUE
    MaxCommits = 3
    MaxDeliveryFaults = 2
INVARIANTS
    PageKeepsUp
    TerminalFollowsAsLongAsNeeded
    AnswersAreOnWhatWasRead
    DrawnIsWhatIsThere
    SharedFilesAreThere
    PullRequestShowsTheBranch
PROPERTIES
    StatusNeverGoesBack
    LatestTickCounts
\* The bounds end each part.
CHECK_DEADLOCK FALSE
