------------------------------- MODULE MCInside -------------------------------
\* What the agents of a Run and the code around them decide: five parts, model-
\* checked one at a time in a single run of TLC.  The first state chooses the part
\* that runs, the state of the others stands still.  They share no state while
\* they work: what passes between them goes through the database and the run
\* branch, from one invocation to the next.
EXTENDS Naturals, TLC

CONSTANTS
    Features, MaxSubmits, MaxParallel,                       \* SystemDesign
    Entries, MaxLines, MaxCalls, MaxChecks,                  \* CodingStep
    MaxTestFailures, MaxCodingIssues, TokenBudget,           \* IssueRouting
    MaxRecorded, MaxSubmitted,                               \* RunReview
    MaxFacts, MaxReports, MaxAnswer, MaxMessage, MaxBudget   \* EscalationBrief

ASSUME ConstantsAssumption ==
    /\ MaxChecks \in Nat /\ MaxTestFailures \in Nat /\ MaxCodingIssues \in Nat
    /\ MaxRecorded \in Nat /\ MaxSubmitted \in Nat
    /\ MaxFacts \in Nat \ {0} /\ MaxReports \in Nat
    /\ MaxAnswer \in Nat /\ MaxMessage \in Nat /\ MaxBudget \in Nat

VARIABLES
    part,  \* the part that runs
    drafts, accepted, uiSpec, designStage, built, submits, ran, early,
    before, manifest, tree, changes, calls, sentBack, sentFor, stage, merged, deleted,
    documents, builds, failed, issues, decisions, left, route, told, hintTo,
    standard, diff, fromLinters, lintersBroken, submitted, reported, refused,
    result,
    escalation, found, budget, spent, pace, writing, facts, message, brief,
    allowed

systemDesignState == <<
    drafts, accepted, uiSpec, designStage, built, submits, ran, early>>
codingState == <<
    before, manifest, tree, changes, calls, sentBack, sentFor, stage, merged, deleted>>
routingState == <<
    documents, builds, failed, issues, decisions, left, route, told, hintTo>>
reviewState == <<
    standard, diff, fromLinters, lintersBroken, submitted, reported, refused,
    result>>
briefState == <<
    escalation, found, budget, spent, pace, writing, facts, message, brief,
    allowed>>

vars == <<
    part, systemDesignState, codingState, routingState, reviewState,
    briefState>>

\* The code files of the Stack Profile's template.
TemplateFiles == <<"a", "b">>

SystemDesignAgent == INSTANCE SystemDesign WITH
    stage <- designStage
CodingAgents == INSTANCE CodingStep
Routing == INSTANCE IssueRouting WITH
    MaxFailures <- MaxTestFailures
Review == INSTANCE RunReview
Brief == INSTANCE EscalationBrief

\* What the state of a part that does not run is.
Idle == 0

SystemDesignAgentIdle ==
    /\ drafts = Idle /\ accepted = Idle /\ uiSpec = Idle /\ designStage = Idle
    /\ built = Idle /\ submits = Idle /\ ran = Idle /\ early = Idle
CodingAgentsIdle ==
    /\ before = Idle /\ manifest = Idle /\ tree = Idle /\ changes = Idle
    /\ calls = Idle /\ sentBack = Idle /\ sentFor = Idle /\ stage = Idle /\ merged = Idle
    /\ deleted = Idle
RoutingIdle ==
    /\ documents = Idle /\ builds = Idle /\ failed = Idle /\ issues = Idle
    /\ decisions = Idle /\ left = Idle /\ route = Idle /\ told = Idle
    /\ hintTo = Idle
ReviewIdle ==
    /\ standard = Idle /\ diff = Idle /\ fromLinters = Idle
    /\ lintersBroken = Idle /\ submitted = Idle /\ reported = Idle
    /\ refused = Idle /\ result = Idle
BriefIdle ==
    /\ escalation = Idle /\ found = Idle /\ budget = Idle /\ spent = Idle
    /\ pace = Idle /\ writing = Idle /\ facts = Idle /\ message = Idle
    /\ brief = Idle /\ allowed = Idle

Init ==
    \/ /\ part = "systemDesign" /\ SystemDesignAgent!Init
       /\ CodingAgentsIdle /\ RoutingIdle /\ ReviewIdle /\ BriefIdle
    \/ /\ part = "coding" /\ CodingAgents!Init
       /\ SystemDesignAgentIdle /\ RoutingIdle /\ ReviewIdle /\ BriefIdle
    \/ /\ part = "routing" /\ Routing!Init
       /\ SystemDesignAgentIdle /\ CodingAgentsIdle /\ ReviewIdle /\ BriefIdle
    \/ /\ part = "review" /\ Review!Init
       /\ SystemDesignAgentIdle /\ CodingAgentsIdle /\ RoutingIdle /\ BriefIdle
    \/ /\ part = "brief" /\ Brief!Init
       /\ SystemDesignAgentIdle /\ CodingAgentsIdle /\ RoutingIdle /\ ReviewIdle

\* The System Design and the UI Spec are handed over, the Slices built.
SystemDesignAgentStep ==
    /\ part = "systemDesign" /\ SystemDesignAgent!Next
    /\ UNCHANGED <<
        part, codingState, routingState, reviewState, briefState>>

\* The Coding Agents of both sides write, and what they wrote is merged.
CodingAgentsStep ==
    /\ part = "coding" /\ CodingAgents!Next
    /\ UNCHANGED <<
        part, systemDesignState, routingState, reviewState, briefState>>

\* A Test Run failed: its Issue Reports are judged and routed.
RoutingStep ==
    /\ part = "routing" /\ Routing!Next
    /\ UNCHANGED <<
        part, systemDesignState, codingState, reviewState, briefState>>

\* The review of the Run collects and caps its Findings.
ReviewStep ==
    /\ part = "review" /\ Review!Next
    /\ UNCHANGED <<
        part, systemDesignState, codingState, routingState, briefState>>

\* An Escalation opened: its brief is written.
BriefStep ==
    /\ part = "brief" /\ Brief!Next
    /\ UNCHANGED <<
        part, systemDesignState, codingState, routingState, reviewState>>

Next ==
    \/ SystemDesignAgentStep
    \/ CodingAgentsStep
    \/ RoutingStep
    \/ ReviewStep
    \/ BriefStep

Spec == Init /\ [][Next]_vars

\* No part tells one entry of package.json from another.
Symmetry == Permutations(Entries)

------------------------------------------------------------------------------

\* The design handed over is of each part what the last call that was run sent, each
\* right on its own and with the others; no Slice is built before one it depends on; every
\* operation of the contract is built by one Slice and called by a screen
\* (systemDesignAgent.ts, uiDesignAgent.ts, nextBatch).
DesignHandedOverIsWhole ==
    part = "systemDesign" =>
        /\ SystemDesignAgent!HandsOverWhatRanLast
        /\ SystemDesignAgent!NothingIsBuiltEarly
        /\ SystemDesignAgent!EveryOperationIsReached

\* package.json after both sides are merged keeps what the template and earlier
\* Slices rely on, and each change either side made (manifestGuard.ts,
\* packageJsonMerge.ts); a Step that answers with a turn left delivers lines the cheap
\* checks forbid only when it was sent back for just those, or as often as it may be
\* (agentLoop.ts, selfCheck.ts).
MergedManifestIsWhole ==
    part = "coding" =>
        /\ CodingAgents!MergedManifestKeeps
        /\ CodingAgents!MergeLosesNoChange
        /\ CodingAgents!ForbiddenLinesWereSentBack

\* Every failure of a Test Run reaches a Coding Agent when coding is retried, in
\* its issues or in the list of the rest; owners follow the rules of the judge;
\* a person's hint goes to one side only if every failure is that side's.
NoFailureIsForgotten ==
    part = "routing" =>
        /\ Routing!NoFailureIsForgotten
        /\ Routing!OwnersFollowTheRules
        /\ Routing!HintReachesWhoMustFix

\* Code is sent back exactly for a blocking Finding its diff bears out or a linter
\* complains of, however many others were recorded before; a person is told of
\* every Finding submitted (codeReviewAgent.ts).
BlocksOnWhatIsReal ==
    part = "review" => Review!BlocksOnWhatIsReal /\ Review!EveryFindingIsToldOf

\* Writing the brief of an Escalation takes the Run past no Token Budget, advises
\* only what the dialog then offers, with a warning beside a hint that asks for
\* what the template forbids, and shows a line of a report only after all that the
\* code found (escalationBrief.ts).
BriefIsWithinItsMeans ==
    part = "brief" =>
        /\ Brief!LookStaysInBudget
        /\ Brief!AdviceCanBeFollowed
        /\ Brief!FoundFactsComeFirst
==============================================================================
