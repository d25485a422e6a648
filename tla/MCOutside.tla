------------------------------ MODULE MCOutside ------------------------------
\* What a Run meets outside its process: the page and the terminal that follow it,
\* the person who answers, the tab that draws, the sandbox and the code host.
\* They are model-checked one at a time in a single run of TLC: the first state
\* chooses the part that runs, the state of the others stands still.
EXTENDS Naturals, FiniteSets

CONSTANTS
    Kept, MaxEvents, MaxReads, MaxFaults,                          \* LiveRun
    MaxPublished, MaxRereads, MaxDeaths,                           \* Terminal
    MaxQuestions, MaxMeddling,                                     \* Answers
    Screens, MaxDesigns, MaxAttempts, MaxTrouble,                  \* UiDesign
    Runs, MaxImages, MaxUploads, MaxRequestFailures, MaxExpiries,  \* TestRuns
    LastSlice, InOrder, MaxCommits, MaxDeliveryFaults              \* Delivery

\* The plan is a list, the bounds are numbers, no run is the build, screens are few.
ASSUME ConstantsAssumption ==
    /\ LastSlice \in Nat /\ MaxUploads \in Nat /\ Kept \in Nat
    /\ "build" \notin Runs /\ IsFiniteSet(Screens)

VARIABLES
    part,  \* the part that runs
    status, question, brief, stepRunning, up, loop, again, briefOwed, seq,
    kept, conn, wire, seen, lost, detail, moves, tokens, due, asks, answers,
    faults, moved, told,
    runMode, runStatus, hasPr, advancing, inReview, events, alive, deaths, at,
    shown, sent, asked, rereads, decided, stoppedOn,
    questions, open, version, documentsInReview, redo, page, draft, dialog,
    aside, requests, responses, meddled, misread,
    design, wanted, todo, drawn, call, callId, tab, pageMade, boards,
    connection, connections, closing, closed, trouble,
    saved, old, images, cache, sends, gone, place, attempt, image, file,
    outcome, failures, expiries, foundGone,
    mode, runState, slice, commits, sha, askedFor, answered, pullRequest,
    base, pushed, pulls, delivering, reason, text, deliveryFaults, ticked, halfAborted

liveState == <<
    status, question, brief, stepRunning, up, loop, again, briefOwed, seq,
    kept, conn, wire, seen, lost, detail, moves, tokens, due, asks, answers,
    faults, moved, told>>
terminalState == <<
    runMode, runStatus, hasPr, advancing, inReview, events, alive, deaths, at,
    shown, sent, asked, rereads, decided, stoppedOn>>
answersState == <<
    questions, open, version, documentsInReview, redo, page, draft, dialog,
    aside, requests, responses, meddled, misread>>
uiDesignState == <<
    design, wanted, todo, drawn, call, callId, tab, pageMade, boards,
    connection, connections, closing, closed, trouble>>
testRunsState == <<
    saved, old, images, cache, sends, gone, place, attempt, image, file,
    outcome, failures, expiries, foundGone>>
deliveryState == <<
    mode, runState, slice, commits, sha, askedFor, answered, pullRequest,
    base, pushed, pulls, delivering, reason, text, deliveryFaults, ticked,
    halfAborted>>

vars == <<
    part, liveState, terminalState, answersState, uiDesignState,
    testRunsState, deliveryState>>

Page == INSTANCE LiveRun
Cli == INSTANCE Terminal
Dialogs == INSTANCE Answers WITH
    inReview <- documentsInReview
UiDesignAgent == INSTANCE UiDesign WITH
    result <- drawn, attempt <- call, open <- connections
Sandbox == INSTANCE TestRuns WITH
    MaxFailures <- MaxRequestFailures
RunDelivery == INSTANCE Delivery WITH
    status <- runState, asked <- askedFor, at <- delivering, faults <-
    deliveryFaults, MaxFaults <- MaxDeliveryFaults

\* What the state of a part that does not run is.
Idle == 0

PageIdle ==
    /\ status = Idle /\ question = Idle /\ brief = Idle /\ stepRunning = Idle
    /\ up = Idle /\ loop = Idle /\ again = Idle /\ briefOwed = Idle
    /\ seq = Idle /\ kept = Idle /\ conn = Idle /\ wire = Idle /\ seen = Idle
    /\ lost = Idle /\ detail = Idle /\ moves = Idle /\ tokens = Idle
    /\ due = Idle /\ asks = Idle /\ answers = Idle /\ faults = Idle
    /\ moved = Idle /\ told = Idle
CliIdle ==
    /\ runMode = Idle /\ runStatus = Idle /\ hasPr = Idle /\ advancing = Idle
    /\ inReview = Idle /\ events = Idle /\ alive = Idle /\ deaths = Idle
    /\ at = Idle /\ shown = Idle /\ sent = Idle /\ asked = Idle
    /\ rereads = Idle /\ decided = Idle /\ stoppedOn = Idle
DialogsIdle ==
    /\ questions = Idle /\ open = Idle /\ version = Idle
    /\ documentsInReview = Idle /\ redo = Idle /\ page = Idle /\ draft = Idle
    /\ dialog = Idle /\ aside = Idle /\ requests = Idle /\ responses = Idle
    /\ meddled = Idle /\ misread = Idle
UiDesignAgentIdle ==
    /\ design = Idle /\ wanted = Idle /\ todo = Idle /\ drawn = Idle
    /\ call = Idle /\ callId = Idle /\ tab = Idle /\ pageMade = Idle
    /\ boards = Idle /\ connection = Idle /\ connections = Idle
    /\ closing = Idle /\ closed = Idle /\ trouble = Idle
SandboxIdle ==
    /\ saved = Idle /\ old = Idle /\ images = Idle /\ cache = Idle
    /\ sends = Idle /\ gone = Idle /\ place = Idle /\ attempt = Idle
    /\ image = Idle /\ file = Idle /\ outcome = Idle /\ failures = Idle
    /\ expiries = Idle /\ foundGone = Idle
RunDeliveryIdle ==
    /\ mode = Idle /\ runState = Idle /\ slice = Idle /\ commits = Idle
    /\ sha = Idle /\ askedFor = Idle /\ answered = Idle /\ pullRequest = Idle
    /\ base = Idle /\ pushed = Idle /\ pulls = Idle /\ delivering = Idle
    /\ reason = Idle /\ text = Idle /\ deliveryFaults = Idle /\ ticked = Idle
    /\ halfAborted = Idle

Init ==
    \/ /\ part = "live" /\ Page!Init
       /\ CliIdle /\ DialogsIdle /\ UiDesignAgentIdle /\ SandboxIdle
       /\ RunDeliveryIdle
    \/ /\ part = "terminal" /\ Cli!Init
       /\ PageIdle /\ DialogsIdle /\ UiDesignAgentIdle /\ SandboxIdle
       /\ RunDeliveryIdle
    \/ /\ part = "answers" /\ Dialogs!Init
       /\ PageIdle /\ CliIdle /\ UiDesignAgentIdle /\ SandboxIdle
       /\ RunDeliveryIdle
    \/ /\ part = "uiDesign" /\ UiDesignAgent!Init
       /\ PageIdle /\ CliIdle /\ DialogsIdle /\ SandboxIdle
       /\ RunDeliveryIdle
    \/ /\ part = "testRuns" /\ Sandbox!Init
       /\ PageIdle /\ CliIdle /\ DialogsIdle /\ UiDesignAgentIdle
       /\ RunDeliveryIdle
    \/ /\ part = "delivery" /\ RunDelivery!Init
       /\ PageIdle /\ CliIdle /\ DialogsIdle /\ UiDesignAgentIdle
       /\ SandboxIdle

\* The server publishes, the page of the Run follows its events.
PageStep ==
    /\ part = "live" /\ Page!Next
    /\ UNCHANGED <<
        part, terminalState, answersState, uiDesignState, testRunsState,
        deliveryState>>

\* A terminal follows the Run until it stops.
CliStep ==
    /\ part = "terminal" /\ Cli!Next
    /\ UNCHANGED <<
        part, liveState, answersState, uiDesignState, testRunsState,
        deliveryState>>

\* A person answers what the Run asks, on a page that may be stale.
DialogsStep ==
    /\ part = "answers" /\ Dialogs!Next
    /\ UNCHANGED <<
        part, liveState, terminalState, uiDesignState, testRunsState,
        deliveryState>>

\* The screens are drawn through the plugin of a Penpot tab.
UiDesignAgentStep ==
    /\ part = "uiDesign" /\ UiDesignAgent!Next
    /\ UNCHANGED <<
        part, liveState, terminalState, answersState, testRunsState,
        deliveryState>>

\* Test Runs share a base snapshot and uploads.
SandboxStep ==
    /\ part = "testRuns" /\ Sandbox!Next
    /\ UNCHANGED <<
        part, liveState, terminalState, answersState, uiDesignState,
        deliveryState>>

\* The run branch is pushed, a pull request opened or a draft one.
RunDeliveryStep ==
    /\ part = "delivery" /\ RunDelivery!Next
    /\ UNCHANGED <<
        part, liveState, terminalState, answersState, uiDesignState,
        testRunsState>>

Next ==
    \/ PageStep
    \/ CliStep
    \/ DialogsStep
    \/ UiDesignAgentStep
    \/ SandboxStep
    \/ RunDeliveryStep

Spec == Init /\ [][Next]_vars

------------------------------------------------------------------------------

\* A Run that has work to do and that no loop advances has told its followers that
\* it stopped: a decision taken while a loop was ending is not just lost
\* (runtimeRunService.ts).  And whatever was lost on the way, a page whose stream is
\* open and drained shows the Run's status while the server keeps the event of the
\* last move (eventLog.ts, runs.controller.ts, useRun.ts).
PageKeepsUp == part = "live" => Page!IdleRunHasSaidWhy /\ Page!StatusReachesThePage

\* The status a page shows never goes back to an earlier one, over reads that
\* answer out of order, reconnects and restarts of the server (useRun.ts).
StatusNeverGoesBack == [][part = "live" => Page!ShowsNothingOlder]_vars

\* A terminal that has read all there will be is not left following, but for a Run
\* aborted with its pull request open; and one that stopped, knowing every decision
\* taken, did not stop before the Draft PR that a failed or aborted Run was still
\* delivering (follow, reread, OWES_DELIVERY of cli.ts).
TerminalFollowsAsLongAsNeeded ==
    part = "terminal" => Cli!FollowerIsLetGo /\ Cli!DeliveryIsWaitedFor

\* What a person answers is what they had read: a Verdict is on the version they
\* saw and a resolution on the Escalation they saw, unless somebody answered
\* elsewhere, the response to an earlier answer was lost, or a form was opened anew
\* while its answer was on its way.
AnswersAreOnWhatWasRead ==
    part = "answers" =>
        Dialogs!VerdictsAreOnWhatWasRead /\ Dialogs!ResolutionsAreForWhatWasRead

\* A design that was drawn is what the page in Penpot holds, whatever calls of this
\* design or an earlier one were lost, ran twice or ran late (penpotRender.ts); and
\* once the canvas is closed no connection stays open (lazyCanvas.ts).
DrawnIsWhatIsThere ==
    part = "uiDesign" =>
        UiDesignAgent!DrawnIsWhatIsThere /\ UiDesignAgent!NothingOpensAfterClose

\* A Test Run that starts over names no image and no file that was gone when it
\* did, whatever other runs put back meanwhile; and an upload that failed is not
\* handed to the next one that needs it (runTests, runLinters, upload).
SharedFilesAreThere ==
    part = "testRuns" => Sandbox!RetryIsFresh /\ Sandbox!NoFailedUploadIsShared

\* What a person judges at the PR Gate is every Slice Commit of the Run, pushed as
\* it stands, also after the Gate sent work back; a Draft PR that says a Slice is not
\* included holds no commit of it; and no second pull request is asked for while one
\* is open, also when the answer that it was opened was lost (runDelivery.ts).
PullRequestShowsTheBranch ==
    part = "delivery" =>
        /\ RunDelivery!GateShowsTheBranch
        /\ RunDelivery!NotIncludedMeansAbsent
        /\ RunDelivery!OpenIsNeverRefused

\* Whether a Draft PR is opened is what the person said last, wherever they said
\* it: at the Escalation, in the abort, or in the abort asked again after a
\* delivery failed.  Only the tick of an abort that its process died in stands
\* above one given later at an Escalation.
LatestTickCounts == [][part = "delivery" => RunDelivery!CountsLatestTick]_vars
==============================================================================
