CONSTANTS
    Loops = {a, b}
    Checked = {a}
    Problems = {p, q}
    MaxIterations = 4
    MaxApiAttempts = 2
    TokenBudget = 5
    LargestCall = 2
    NoteTokens = 1
SPECIFICATION FairSpec
INVARIANTS
    OverdraftIsBounded
    AnswersAreNotLost
PROPERTY
    StepEnds
CHECK_DEADLOCK FALSE
