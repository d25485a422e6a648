------------------------------ MODULE Delivery ------------------------------
(***************************************************************************)
(* Delivering a Run's work as a pull request                               *)
(* (packages/core/src/delivery): the calls one delivery makes to GitHub,   *)
(* each of which may fail or lose its answer, over the moves of the Run    *)
(* that owe one (orchestrator/runOrchestrator.ts): the review that ends,   *)
(* the PR Gate, the Escalation, the abort that is asked again.             *)
(*                                                                         *)
(* `at` is the await a delivery is at.  A Slice is its place in the plan,  *)
(* a Slice Commit the Slice it holds, a pull request's text what it says   *)
(* of the Slices.  A death of the process is a call that fails: nothing a  *)
(* delivery reads is kept in memory.                                       *)
(***************************************************************************)
EXTENDS Integers, Sequences, FiniteSets, FiniteSetsExt, SequencesExt

LC == INSTANCE RunLifecycle

CONSTANTS
    LastSlice,   \* the Slices of the plan are 1..LastSlice
    InOrder,     \* one Slice at a time is built (maxParallelSlices = 1)
    MaxCommits,  \* bound: Slice Commits on the run branch
    MaxFaults    \* bound: calls that fail

VARIABLES
    mode, status,   \* of the Run
    slice,          \* Slice -> SliceStatus
    commits,        \* the run branch: the Slice of each Slice Commit
    sha,            \* Slice -> the place of its commitSha in commits, or 0
    asked,          \* run.openDraftPrOnAbort, or "null"
    answered,       \* openDraftPrOnAbort of the Escalation answered "abort", or "null"
    pullRequest,    \* run.pullRequest: its number, or 0
    base,           \* the base branch in the Target Repo
    pushed,         \* how many of the commits the run branch holds there
    pulls,          \* the pull requests of the run branch there
    at, reason, text,   \* the delivery under way
    faults,
    \* History, read by properties only.
    ticked,         \* what the person last said of a Draft PR, or "null"
    halfAborted     \* a process died between writing an abort's tick and aborting the Run

said == <<ticked, halfAborted>>
run == <<mode, status, slice, commits, sha, asked, answered, pullRequest, said>>
remote == <<base, pushed, pulls>>
vars == <<run, remote, at, reason, text, faults>>

-----------------------------------------------------------------------------
Slices == 1..LastSlice

Tick == {"open", "decline"}

NoText == [ended |-> "none", passed |-> {}, unfinished |-> 0, pushedCommits |-> 0]

NoReason == [ended |-> "none", openDraftPr |-> "open"]

Unfinished == {s \in Slices : slice[s] \notin {"passed", "skipped"}}

PassedSlices == {s \in Slices : slice[s] = "passed"}

\* The Slice a limit, a skip or an abort is about: the first unfinished, or 0.
currentSlice == IF Unfinished = {} THEN 0 ELSE Min(Unfinished)

StoppedEarly == reason.ended # "complete"

Goes(event, to) == <<status, event, to>> \in LC!RunArrow(mode) /\ status' = to

-----------------------------------------------------------------------------
(* What the pull request says.                                             *)

\* Mutant: every Slice that ever earned a commit counts as finished.
LastFinishedOfAll == Max({sha[s] : s \in Slices} \cup {0})

\* The place of the last commit a passed Slice earned, or 0.
LastFinished == Max({sha[s] : s \in PassedSlices} \cup {0})

PullRequestContent ==
    IF ~StoppedEarly
    THEN [NoText EXCEPT !.ended = "complete", !.passed = PassedSlices]
    ELSE [ended |-> reason.ended, passed |-> PassedSlices, unfinished |-> currentSlice,
          pushedCommits |-> IF currentSlice = 0 THEN 0 ELSE Len(commits) - LastFinished]

\* unfinishedSlice, stoppedNote: "(not included)", "nothing of it is".
SaysNotIncluded(t) == t.ended \in {"aborted", "failed"} /\ t.unfinished # 0 /\ t.pushedCommits = 0

\* stoppedNote: "Only Slices that finished are included".
SaysOnlyFinished(t) == t.ended \in {"aborted", "failed"} /\ t.pushedCommits = 0

-----------------------------------------------------------------------------
Init ==
    /\ mode \in LC!RunMode /\ status = "building"
    /\ slice = [s \in Slices |-> "pending"] /\ sha = [s \in Slices |-> 0] /\ commits = <<>>
    /\ asked = "null" /\ answered = "null" /\ ticked = "null" /\ halfAborted = FALSE /\ pullRequest = 0
    /\ base \in {"exists", "empty", "missing"} /\ pushed = 0 /\ pulls = <<>>
    /\ at = "idle" /\ reason = NoReason /\ text = NoText /\ faults = 0

\* #reopenLastSlice: its commitSha stays until a new attempt earns its own.
ReopenLastSlice ==
    slice' = IF PassedSlices = {} THEN slice ELSE [slice EXCEPT ![Max(PassedSlices)] = "building"]

\* Which Slice the Run builds next; several when they are independent.
MayBuild(s) == s \in Unfinished /\ (InOrder => s = currentSlice)

\* A Slice Commit goes on the run branch; the process may die before the Slice is passed.
SlicePasses(s) ==
    /\ status = "building" /\ at = "idle" /\ MayBuild(s) /\ Len(commits) < MaxCommits
    /\ commits' = Append(commits, s)
    /\ \/ /\ slice' = [slice EXCEPT ![s] = "passed"] /\ sha' = [sha EXCEPT ![s] = Len(commits) + 1]
          /\ UNCHANGED faults
       \/ /\ faults < MaxFaults /\ faults' = faults + 1
          /\ slice' = [slice EXCEPT ![s] = "building"] /\ UNCHANGED sha
    /\ UNCHANGED <<mode, status, asked, answered, pullRequest, said, remote, at, reason, text>>

AllSlicesCommitted ==
    /\ at = "idle" /\ Unfinished = {} /\ Goes("allSlicesCommitted", "reviewing")
    /\ UNCHANGED <<mode, slice, commits, sha, asked, answered, pullRequest, said, remote,
                   at, reason, text, faults>>

\* #limit, of the build or of the review: Escalated, or Failed with nobody to ask.
Limit ==
    /\ at = "idle" /\ (status = "building" => Unfinished # {})
    /\ \E to \in {"escalated", "failed"} : Goes("retryBudget", to)
    /\ UNCHANGED <<mode, slice, commits, sha, asked, answered, pullRequest, said, remote,
                   at, reason, text, faults>>

\* #sendBack: blocking Findings build the last Slice again.
SendBack ==
    /\ at = "idle" /\ Goes("blockingFindings", "building") /\ ReopenLastSlice
    /\ UNCHANGED <<mode, commits, sha, asked, answered, pullRequest, said, remote,
                   at, reason, text, faults>>

decidePullRequest(choice) ==
    /\ at = "idle"
    /\ \/ choice = "approve" /\ Goes("prApproved", "done") /\ UNCHANGED slice
       \/ choice = "requestChanges" /\ Goes("prChangesRequested", "building") /\ ReopenLastSlice
    /\ UNCHANGED <<mode, commits, sha, asked, answered, pullRequest, said, remote,
                   at, reason, text, faults>>

\* The choices of an Escalation that matter here; editing documents is DesignPhase's.
resolveEscalation(choice, tick) ==
    /\ status = "escalated" /\ at = "idle" /\ Goes(choice, LC!EscalationTarget[choice])
    /\ \/ choice = "retryWithHint" /\ UNCHANGED <<slice, answered, ticked>>
       \/ /\ choice = "skipSlice" /\ UNCHANGED <<answered, ticked>>
          /\ slice' = IF currentSlice = 0 THEN slice
                      ELSE [slice EXCEPT ![currentSlice] = "skipped"]
       \/ choice = "abort" /\ answered' = tick /\ ticked' = tick /\ UNCHANGED slice
    /\ UNCHANGED <<mode, commits, sha, asked, pullRequest, halfAborted, remote, at, reason, text,
                   faults>>

\* abort, of a Run that is going, waits at a Gate, or was aborted and has no pull request.
\* It is a request of its own: a delivery may be under way.
abort(tick) ==
    /\ \/ Goes("aborted", "aborted")
       \/ status = "aborted" /\ pullRequest = 0 /\ UNCHANGED status
    /\ asked' = tick /\ ticked' = tick
    /\ UNCHANGED <<mode, slice, commits, sha, answered, pullRequest, halfAborted, remote, at, reason,
                   text, faults>>

-----------------------------------------------------------------------------
(* One delivery.                                                           *)

Deliver(why) == at' = "count" /\ reason' = why /\ UNCHANGED <<run, remote, text, faults>>

\* #review: no blocking Findings, and the review was answered.
ReviewPassed ==
    /\ status = "reviewing" /\ at = "idle"
    /\ Deliver([ended |-> "complete", openDraftPr |-> "open"])

\* Mutant: what the Escalation recorded wins over what the person said last.
AbortedAtEscalation == IF answered # "null" THEN answered ELSE IF asked # "null" THEN asked ELSE "open"

\* #abortedWithDraftPr: what the person ticked; the default is to open one.
AbortedWithDraftPr == IF asked # "null" THEN asked ELSE IF answered # "null" THEN answered ELSE "open"

deliverIfOwed ==
    /\ status \in {"failed", "aborted"} /\ pullRequest = 0 /\ at = "idle"
    /\ Deliver([ended |-> status,
                openDraftPr |-> IF status = "failed" THEN "open" ELSE AbortedWithDraftPr])

Step(to) == at' = to /\ UNCHANGED <<run, reason, faults>>

Ended == at' = "idle" /\ reason' = NoReason /\ text' = NoText

\* The move #review makes with the outcome; it throws when the Run was aborted meanwhile.
Outcome(event) ==
    IF StoppedEarly \/ status # "reviewing" THEN UNCHANGED status
    ELSE \E to \in LC!RunStatus : Goes(event, to)

\* discardUnfinished and sliceCommits: nothing to push, or the text is composed.
KeptLocal ==
    /\ at = "count" /\ (commits = <<>> \/ (StoppedEarly /\ reason.openDraftPr = "decline"))
    /\ Ended /\ Outcome("nothingToDeliver")
    /\ UNCHANGED <<mode, slice, commits, sha, asked, answered, pullRequest, said, remote, faults>>

Composed ==
    /\ at = "count" /\ commits # <<>> /\ (StoppedEarly => reason.openDraftPr = "open")
    /\ text' = PullRequestContent /\ Step("base") /\ UNCHANGED remote

\* #beginBaseIfMissing asks for the base branch.
HasBase == at = "base" /\ base \in {"exists", "template"} /\ Step("push") /\ UNCHANGED <<remote, text>>

EmptyRepository == at = "base" /\ base = "empty" /\ Step("beginBase") /\ UNCHANGED <<remote, text>>

\* A repository with commits and no such branch is a mistake to report.
NoSuchBranch ==
    /\ at = "base" /\ base = "missing" /\ Ended /\ UNCHANGED <<run, remote, faults>>

\* A call that changes the Target Repo may do so and its answer be lost.
BeginBase == base' = "template" /\ UNCHANGED <<pushed, pulls>>

\* Mutant: a branch that is there is not pushed again.
PushOnce == pushed' = (IF pushed = 0 THEN Len(commits) ELSE pushed) /\ UNCHANGED <<base, pulls>>

Push == pushed' = Len(commits) /\ UNCHANGED <<base, pulls>>

OpenPullRequest ==
    /\ pulls' = Append(pulls, [open |-> TRUE, draft |-> StoppedEarly, text |-> text,
                               holds |-> SubSeq(commits, 1, pushed)])
    /\ UNCHANGED <<base, pushed>>

BaseBegun == at = "beginBase" /\ BeginBase /\ Step("push") /\ UNCHANGED text

Pushed == at = "push" /\ Push /\ Step("find") /\ UNCHANGED text

Existing == {n \in DOMAIN pulls : pulls[n].open}

\* Recorded(n): setPullRequest, and what #review does next.
Recorded(n) ==
    /\ pullRequest' = n /\ Ended /\ Outcome("prOpened")
    /\ UNCHANGED <<mode, slice, commits, sha, asked, answered, said, faults>>

Found == at = "find" /\ \E n \in Existing : Recorded(n) /\ UNCHANGED remote

\* Mutant: the branch's pull request is recorded, so nobody looks for one.
NotFoundAsRecorded == at = "find" /\ pullRequest = 0 /\ Step("open") /\ UNCHANGED <<remote, text>>

NotFound == at = "find" /\ Existing = {} /\ Step("open") /\ UNCHANGED <<remote, text>>

Opened == at = "open" /\ OpenPullRequest /\ Recorded(Len(pulls) + 1)

\* A fault ends the delivery; the call it was at may have been carried out.
CutShort ==
    /\ faults < MaxFaults /\ faults' = faults + 1
    /\ Ended
    /\ \/ UNCHANGED remote
       \/ at = "beginBase" /\ BeginBase
       \/ at = "push" /\ Push
       \/ at = "open" /\ OpenPullRequest

\* GitHub or the network refuses, an answer is lost, or the process dies.
CallFails == at \notin {"idle", "count"} /\ CutShort /\ UNCHANGED run

\* abort writes the tick and moves the Run in two transactions: the process may die
\* between them, and its delivery with it.  The tick stays on the Run.
abortDies(tick) ==
    /\ <<status, "aborted", "aborted">> \in LC!RunArrow(mode) /\ CutShort
    /\ asked' = tick /\ ticked' = tick /\ halfAborted' = TRUE
    /\ UNCHANGED <<mode, status, slice, commits, sha, answered, pullRequest>>

\* Somebody closes the pull request on GitHub; bound: once.
ClosedOnGitHub ==
    /\ Len(pulls) = 1 /\ pulls[1].open
    /\ pulls' = [pulls EXCEPT ![1].open = FALSE]
    /\ UNCHANGED <<run, base, pushed, at, reason, text, faults>>

-----------------------------------------------------------------------------
Next ==
    \/ \E s \in Slices : SlicePasses(s)
    \/ AllSlicesCommitted \/ Limit \/ SendBack
    \/ \E choice \in {"approve", "requestChanges"} : decidePullRequest(choice)
    \/ \E choice \in {"retryWithHint", "skipSlice", "abort"}, tick \in Tick :
          resolveEscalation(choice, tick)
    \/ \E tick \in Tick : abort(tick) \/ abortDies(tick)
    \/ ReviewPassed \/ deliverIfOwed \/ KeptLocal \/ Composed
    \/ HasBase \/ EmptyRepository \/ NoSuchBranch \/ BaseBegun
    \/ Pushed \/ Found \/ NotFound \/ Opened \/ CallFails \/ ClosedOnGitHub

Spec == Init /\ [][Next]_vars

-----------------------------------------------------------------------------
\* GitHub refuses a second pull request for a branch (runDelivery.ts:154-158):
\* none is asked for while one is open, also when the answer that it was opened
\* was lost, when it was opened for a Run that has since been aborted, and when
\* a person closed the first.
OpenIsNeverRefused == at = "open" => Existing = {}

\* A person at the PR Gate judges every Slice Commit of the Run: what waits there
\* was pushed as it stands, also after the Gate sent work back.
GateShowsTheBranch ==
    status = "awaitingPrGate" => pushed = Len(commits) /\ pullRequest \in DOMAIN pulls

CountsLatestTick ==
    reason'.ended = "aborted" /\ reason.ended = "none" =>
       \/ reason'.openDraftPr = ticked
       \/ halfAborted /\ reason'.openDraftPr = asked /\ answered = ticked

\* Whether a Draft PR is opened is what the person said last, wherever they said
\* it: at the Escalation, in the abort, or in the abort asked again after a
\* delivery failed.  Only the tick of an abort that its process died in stands
\* above one given later at an Escalation.
LatestTickCounts == [][CountsLatestTick]_vars

\* With Slices built one at a time, a Draft PR that says nothing of the
\* unfinished Slice is included holds no commit of it (runDelivery.ts:11-14).
NotIncludedMeansAbsent ==
    \A n \in DOMAIN pulls : SaysNotIncluded(pulls[n].text) =>
        ~Contains(pulls[n].holds, pulls[n].text.unfinished)

\* Said by the code and not so: "Only Slices that finished are included"
\* (pullRequestText.ts:126); a skipped Slice's commit stays on the run branch.
OnlyFinishedAreIncluded ==
    \A n \in DOMAIN pulls : SaysOnlyFinished(pulls[n].text) =>
        ToSet(pulls[n].holds) \subseteq pulls[n].text.passed

=============================================================================
