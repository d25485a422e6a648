# A TLA+ model of sdlc-code

sdlc-code turns a Project Request into a pull request: agents design, a person
judges the design at a Gate, agents build the Slices of the plan, another agent
reviews them, and a person judges the pull request.  The agents' texts are not
what is hard to get right here.  What is hard is that one *Run* goes on for hours
in a server process that may die at any `await` (or between two database
transactions), while a person answers, aborts and edits, and while several Slices
are built at the same time.  This directory holds a model of that control, the
model-checking runs and the proofs about it.

Paths below are relative to `src/`; `core/` is `packages/core/src/`.

## 1. The system

| Part | State it keeps | Operations | Talks to |
|---|---|---|---|
| Lifecycles (`core/domain`) | none: pure functions | next status of a Run, a document, a Slice; what a change makes Stale | everything that moves a status |
| Run Orchestrator (`core/orchestrator/runOrchestrator.ts`, `runCheckpoint.ts`, `sliceBatch.ts`, `resumeRun.ts`) | run row, Slices, Gates, Escalations, Checkpoint in SQLite; per Run in memory: revisions, hints, histories, review retries | `advance`, `decideDesign`, `retryDesign`, `resolveEscalation`, `decidePullRequest`, `abort` | Design Phase, Slice Runner, review, delivery, brief |
| Design Phase and Gate (`designPhase.ts`, `designGate.ts`, `documentStore.ts`) | five documents with versions and statuses, the Design Gate, its Verdicts | write or revise, save, plan Slices, open, decide, documentChanged | two design agents, the orchestrator's revisions |
| Slice Runner (`sliceRunner.ts`, `retryPolicy.ts`) | two Tasks per Slice, a history of failures | code both sides, test, retry, escalate, commit | Coding and Testing Agents, workspaces, Checkpoint |
| Issue reports and owners (`agents/testing/issueReports.ts`, `ownerResolution.ts`, `ownerJudge.ts`, `issueRouting.ts`) | Issue Reports of a Test Run | report, merge by signature, find an Owner, route, tell the sides | Approved Documents, a model as judge, the Token Budget |
| Workspaces (`core/workspaces`, `mutex.ts`) | git branches and worktrees per Run, Slice and side | open, save, merge, commit a Slice, reset unsaved work | git; one mutex per Run |
| Run review (`runReview.ts`, `agents/codeReview`) | saved reviews | submit, cap and record Findings, with the linters' | Code Review Agent, linters |
| Escalation brief (`escalationBrief.ts`, `#writeBrief`) | the brief on the Escalation's row | gather facts, look, save | Issue Reports, merged code, a model, the Token Budget |
| Test runs (`core/testRuns`) | a Base Snapshot per Stack Profile, uploads by content | test, lint, build, upload, start over, discard | the sandbox, which drops what it held |
| Delivery (`core/delivery`) | the pull request on the run row | push, open or reuse a pull request | GitHub client |
| Run Service (`apps/server/src/runs/runtimeRunService.ts`) | the table of Runs being advanced, and of those to advance again | start, decide, abort, resume after a restart | orchestrator, event log |
| Agent loop (`core/agentLoop`) | messages, counts, a Token Budget | turns, tool calls, checks, working memory | model client, Step records |
| Event log and followers (`eventLog.ts`, `runs.controller.ts`, `useRun.ts`, `cli.ts`) | last events per Run, numbered | publish, follow after a number; the page's reducer; `follow` in a terminal | server to web and CLI |
| The person's forms (`DesignGate.tsx`, `gates.ts`, `EscalationDialog.tsx`) | drafts of Verdicts and of a resolution | choose, submit, set aside | the server's decisions |
| System Design Agent (`agents/systemDesign`) | the parts sent so far | submit a part, finish | checks of the parts against each other |
| Coding Agents (`agents/coding`) | the files of a Workspace | file tools, self-check | the manifest guard, the merge of `package.json` |
| UI Design Agent (`agents/uiDesign`, `penpotClient.ts`, `lazyCanvas.ts`) | the Run's page in Penpot, one connection | draw, sweep; connect, close | a browser tab that sleeps |
| Persistence (`core/persistence`) | SQLite | one transaction per store operation | all of the above |
| Clients, Stack Profiles, wiring, layout of web and CLI | none, or constant data | | |

How they interact.  The Run Service starts at most one `advance` per Run; `advance`
looks at the Run's status, performs the step it asks for (a `Looks` action of the
model, then an await of agents or GitHub) and looks again, until the Run waits
for a person or is finished.  A person's decision is a synchronous call into the
same process, after which the service advances the Run again.  An abort may come
at any await.  On start the server resumes every unfinished Run from its
Checkpoint.

What is hard: (1) a decision is several transactions, and the process may die
between them; (2) a status read before an await is used after it; (3) parallel
Slices end in any order and only one of them can drive the Run; (4) memory and
Checkpoint must agree; (5) a Run must never rest where nobody is asked.
`PROJECT.json` lists each hazard at its line, with the properties about it.

What makes each part correct:

- Orchestrator: every status a person must answer has its Gate or Escalation; what
  was decided survives a restart; feedback reaches the agent it is for; no Slice is
  built beside one it depends on, no Run reviewed before it is built; an abort
  lets nothing new begin; `advance` ends.
- Design Phase: code is built on agreed documents only, that fit each other; what was
  asked of a document is done before code is built on it; the phase can always go on.
- Slice Runner: no more attempts than the Retry Budget, also across restarts; a
  failure that comes back is a loop; a commit only after a passed Test Run on it.
- Workspaces: the run branch moves by Slice Commits only, each tested as committed.
- Run Service: one advance per Run; a request to advance is never lost.
- Delivery: at most one pull request; what was owed is offered.
- Agent loop: every Step ends; an answer sent back is not lost; the Token Budget is overdrawn by at most the calls under way.
- Issue routing: each failure reaches somebody; Owners follow the rules; a hint reaches the side that must change.
- Agents' submissions: what is handed over was sent last and checked as a whole; a merge of two sides loses no change.
- Review: code is sent back exactly for blocking Findings its diff bears out; no Finding disappears.
- Escalation brief: its look stays in the Token Budget and its advice can be followed.
- Test runs and drawing: what is shared between callers is there when used; what counts as drawn is what the page holds.
- Followers: a page never goes back to an older state and reaches the newest; a terminal stops when, and only when, nothing
  is owed any more; an answer is taken for what the person read.

## 2. Modules

| Module | Models |
|---|---|
| `RunLifecycle` | `core/domain`: the arrows of a Run, a document and a Slice as sets |
| `RunOrchestrator` | the orchestrator and its stores, with the Run Service's advance loop for one Run |
| `MCRunOrchestrator` | dependency graphs for TLC |
| `RunOrchestratorProofs` | theorems about `RunOrchestrator` |
| `AgreedDesign` | abstract: what the Design Gate promises about Approved Documents |
| `DesignPhase` | the five documents, the phase and the Gate, one transaction at a time |
| `DesignPhaseProofs` | theorems about `DesignPhase`, among them that it implements `AgreedDesign` |
| `DesignReworkProofs` | theorems about `DesignPhase`: what was asked is done, and the documents fit each other |
| `SliceRunner` | one Slice, call after call of `runSlice`, with its Workspaces, Steps, Tasks and the turn at the run branch |
| `MCSliceRunner` | the symmetry of failures for TLC |
| `SliceRunnerProofs` | theorems about `SliceRunner` |
| `AgentLoop`, `AgentLoopProofs` | agents that work at the same time on one Token Budget; theorems about them |
| `Workspaces`, `MCWorkspaces`, `WorkspacesProofs` | git under the Slices, one git command at a time; two Slices for TLC; theorems |
| `SystemDesign` | the parts a System Design Agent sends, the UI Spec, the batches they lead to |
| `CodingStep` | the Coding Agents' file tools, their guards, the self-check, the merge of `package.json` |
| `IssueRouting` | from a failed Test Run to who is told what |
| `RunReview` | the Findings of a review |
| `EscalationBrief` | one brief, from its facts to the row it is saved in |
| `UiDesign` | drawing through a tab, over a lazy connection |
| `TestRuns` | Base Snapshots and uploads that several runs share |
| `Delivery` | the pull request of a Run, over all the moves that owe one |
| `LiveRun` | the advance loop, its events, and a page that follows them |
| `Terminal` | `follow` of the CLI |
| `Answers` | a person's forms against the questions they are about |
| `Filtering` | external: what JavaScript's `filter` makes of an array, without recursion |
| `MCInside`, `MCOutside` | harnesses: each checks several of the modules above in one run |
| `InsideProofs`, `OutsideProofs` | theorems about the parts the harnesses run |

### RunOrchestrator

The database is `mode, status, failure` and the other columns of the run row,
the Slices, the open Gates and Escalations, and the latest Checkpoint.  The process
is `memory` (the orchestrator's `RunMemory`), `loop` (the await an advance is at), `at`
(the transaction that a synchronous stretch commits next), `job` (what each
Slice run is doing) and `called` (the service will advance again).  A stretch between two
awaits is cut at its transactions, because a process may die there: `ReviewStops`
moves the Run and `OpenEscalation` opens its Escalation, as `#limit` does.  Because JavaScript
runs a stretch without interruption, other actors act only when `at = "free"`;
only `Crash` may come in between, and only if `CrashAnywhere`.  A Slice Commit is an await of its own: the Run is looked at
before it (`SliceCommits`), and git makes it (`CommitIsMade`) whether or not the Run was aborted meanwhile.  A review that
refuses code of a Run that was aborted while it read counts its retry and then throws (`RefusedTooLate`).  The documents are one
status here; `DesignPhase` opens them up.

Agents are nondeterministic: a Slice run may pass, fail and retry, be cut short,
escalate with each trigger, blame a design document or throw; a review may be
clean, find blocking Findings or stop.  `Fuel` bounds these and the person's
decisions, `MaxMishaps` bounds crashes and faults.  Properties read history variables that no guard reads: `owedHint` is the
Slices with feedback that a Checkpoint kept and no agent has had, `unheard` those of them whose run stopped before anyone coded,
`telling` the Slice whose feedback a stretch is about to keep.

### DesignPhase

Each document has its latest version's status, or is absent.  A document's text is
represented by what can be said of it: it was judged as it is (`judged`), the UI was drawn from the
Slice Plan and API Contract as they are (`drawn`), the Slices follow the plan as it is
(`sliced`), a change was asked and not made (`asked`).  A process may die between any two transactions; `torn`
records that one died inside a synchronous stretch, because what the code promises is less then.  `#save` is three actions
(came out the same; back to drafting; text replaced), each a transaction;
`gate.open`, `gate.decide` and `documentChanged` are one each.  `loop = "threw"` is an error that is not a
`DesignPhaseError`: the advance stops, and the next one meets it again.

### AgreedDesign

Four phases and the set of agreed documents: designing, judging, building, stopped.
The refinement maps statuses to phases and `agreed` to the documents that are
approved.  It forbids building on fewer than all documents, approving anything outside
the Gate when there is a person, and changing an agreed document while code is built on it.

### SliceRunner

`RunOrchestrator` has several Slices and of each only its outcome; `SliceRunner` has one Slice and opens
up how it is built.  The two are not composed: what a peer Slice does to this one is two actions
(`PeerTakesTurn`, `PeerCommits`), and what the orchestrator and a person do between two calls is the
group of actions around `KeepOutcome` and `RetryWithHint`.

- The database: the Slice's `status`, each Task's `retries`, which sides have a completed (`built`) or a `running`
  Step, and `kept`, the Slice's history and hint in the Checkpoint.
- Git: each side's Workspace is absent, clean or has saved code (`work`); `behind` are those opened before the last
  Slice Commit (`isBehind`), and `onHead` says that the merge under test is onto it.
- The process: `pc` is the await `runSlice` is at.  An attempt goes `top` (open the Workspaces) → `coding` (a Step per
  side in `coders`, each of which ends in its own time; `ended`) → `waiting` (the mutex) → `merging` →
  `testing` → `committing` → `committed` → `cleared` → `returned`, or from a failed Test Run to `routing`,
  and from there back to `top` with a retry counted, or out with an Escalation or a design issue.
- A failure is a signature, because the loop check only compares failures; who owns it is chosen at each Test Run, so
  every answer of the documents and of the judge is covered.

The Retry Budget is measured from a baseline in the history, as in the code; `asked`, `routed`, `fate`, `unrun`,
`untested` and `lapsed` are history variables that only properties read.  `Events` and `MaxEvents` say which things may happen
from outside, and how often in all: a crash, a fault of an await, a hint (at an Escalation, or from the
review or the PR Gate), an abort, a peer's turn, a spent Token Budget.

### AgentLoop

`pc` is the await each loop is at: a turn that begins (`turn`), its model call (`call`), the pause before a refused call is
tried again (`wait`), the check of an answer (`check`), and the same for the Working Memory note (`note`, `noteCall`, `noteWait`) until it is
`over`.  Several loops spend one `used`: each looks at the budget before a call and adds to it after, which is why it
can be overdrawn at all.  What a message says is left out.  An answer is the number of the turn it came in, so that
"the answer that stands" can be compared with "the last answer the model gave"; what a check found is one of
`Problems`, because the loop only asks whether it found the same as last time.  A person may stop the Run at any await.

### Workspaces

Code is the set of saves it is made of, so a merge is a union and "this commit holds that Step's work" is an inclusion.
Each Workspace has a `branch` (where it started, what it holds), a `folder` (a worktree, a stray folder a dead process
left, or none), what is `unsaved` in it, and a `step`; a Slice has its place `at` in `runSlice` and the `merged` outcome it
holds; `turn` is `#integration`.  Every action is one git command or one transaction, and `Crash` may come between any
two; `LoseFolder` is a disk that lost a worktree while the process was down; `resumeRun` discards running Steps and
resets what is unsaved.  A save that took in what an interrupted Step had written is numbered 0, which is how
`NothingCutIsCommitted` recognises it.  `SliceRunner` has the control of one Slice with git abstract; `Workspaces` has git in
full with that control reduced to the order of calls.

### SystemDesign, CodingStep

`SystemDesign`: `drafts` are the parts saved and right on their own, `accepted` what `finish_design` took, `ran` (history) what the
last call of each part that was run sent.  A call whose arguments fail their schema, or that was cut at the output limit, is
answered without being run (`NotRun`), so what was saved before it stays.  The values a part may take are chosen so that each check has something to refuse:
a Slice that depends on a later or an unknown one, an operation no Slice builds or two do, an endpoint that is not in the contract, a
screen that calls none of its operations, an operation no screen calls.  After both agents have ended, `Build` takes
batches as `nextBatch` does.

`CodingStep`: each side's `manifest` and source files (`tree`), `changes` (what the Step reports), and how its Step ended.  Paths are one
of each kind the tools tell apart (outside the Workspace, hidden, secret, not a source file, the other side's, its own,
`package.json`).  Entries of `package.json` have values rather than texts; a side may also write what is not JSON at
all, or delete the file.  `mergeSides` is the three-way merge per entry.  An answer is sent back (`AnswerSentBack`) for the lines the cheap
checks find, which `sentFor` keeps, unless there is nothing, it was as often as allowed, or they are the lines of last time; then it
stands (`AnswerStands`).  It also stands, unchecked, in the last turn (`AnswerOutOfTurns`) and when the files cannot be read
(`AnswerUnread`).

### IssueRouting, RunReview, EscalationBrief

`IssueRouting`: the failures of one Test Run, the operations each Approved Document lists, the judges' answers (any, in
any order, or none), the Token Budget they share, then the one route for all of them and what each side is `told`, cut at
`MAX_CODING_ISSUES`.  Operations are a method with path segments, because `sameOperation` matches parameters.

`RunReview`: the Review Standard with an AGENTS.md layered on it, one hunk of one file, the linters' Findings (or a linter that
broke), and Findings submitted one by one with every reason to refuse one: unknown file, a quote that is not where it says,
a full list.  The full list refuses what is not blocking.

`EscalationBrief`: the facts in their order and their cut at `MAX_FACTS`, the estimate of a look (`lookTokens`), the look with its answer, the
checks of that answer, and the row.  `pace` is how many tokens the text is really worth for each reckoned one.
The person may decide and the process may die at each await.

`Filtering`, which these three use, is the `filter` of an array.  `SelectSeq` of the standard library says the same by recursion, of which
nothing can be proved here; `Filter` says it by the places of what passes, in ascending order.

### UiDesign, TestRuns

`UiDesign`: the calls of a design still `todo`, the attempt at the first of them, and the `tab`, a queue of calls that reached it.  The
tab runs a call late, loses it, or runs it and loses the answer; `Silence` is the client's timeout.  Boards hold
the number of the design that drew them.  The canvas holds a connection that is made on first use, shared while it is made,
replaced when it failed, and closed with the process.

`TestRuns`: each Test Run or lint run, and the build of a Base Snapshot, is a caller at an await; images and
uploads are numbered; the sandbox may drop any of them (`Expires`), which a caller meets as a 404 or 410 and starts
over once, discarding what it used.  `foundGone` remembers what had gone when it started over.

### Delivery

The Run's moves that owe a pull request (review, PR Gate, Escalation, abort, abort asked again) are one action each, with the
calls of a delivery (`at`): is there a base branch, begin one, push, find, open or update, each of which may fail,
and each that writes may do so with its answer lost (`CutShort`).  An abort is two transactions, the person's tick on a Draft PR and then the
move; the process may die between them (`abortDies`), which leaves the tick.  `pulls` is what GitHub has, with `holds` (the commits it shows) and its text
as what it claims of the Slices.

### LiveRun, Terminal, Answers

Three views of the same Run from outside, each with as much of the server as it needs.

`LiveRun`: the Run Service's loop with `#again` and its catch, a start of the server that resumes a Run (`Restart`) or cannot
(`CannotResume`: a line in the log and no event), the event log (`seq`, `kept` of at most `Kept`), the connection and what
is on the wire, the page's reducer, and its reads, which travel on another connection and answer in any order.
A restart begins its numbers above the old ones, as the code derives them from the time.

`Terminal`: `follow` with its reads, its stop conditions (`RESTING`, `OWES_DELIVERY`) and reconnects, beside a loop that
ends, other people who decide, and a server that dies.

`Answers`: questions have an identity that requests lack.  The page's forms are keyed and reset as in the components, and a form
that is put aside and opened again is a new one that knows nothing of the answer it sent (`Reopens`, `ReturnsToGate`); several
requests may be on their way, a request takes its time, its response may be lost, and somebody else may answer first.  `misread` (history) collects answers that were
taken for another question or version than the person saw.

### MCInside, MCOutside

These modules are the model-checking harnesses of, respectively, `SystemDesign`, `CodingStep`, `IssueRouting`, `RunReview`, `EscalationBrief` and
`LiveRun`, `Terminal`, `Answers`, `UiDesign`, `TestRuns`, `Delivery`.  Each instantiates its modules over disjoint variables; the
first state chooses the `part` that runs and the others stand still at `Idle`.  The state space is the sum, not the
product, of the parts: they share nothing while they work (what passes between them goes through the database and the run branch
from one invocation to the next), so interleaving them would show nothing more.
`MCInside` takes the entries of `package.json` as interchangeable (`Symmetry`): no definition tells them apart.
A property of a harness names what one part promises, usually as a conjunction of the part's own properties.
Because only the part that was chosen takes steps, a theorem about one part is a theorem about the harness: it is stated of `Spec` of
the harness, and its invariant says nothing of the other parts.

## 3. Runs

`orch_*` use `MCRunOrchestrator`, `design` uses `DesignPhase`, `slice` and `slice_ends` use `MCSliceRunner` and `SliceRunner`; the
others use the module of their name.  `CHECK_DEADLOCK` is off throughout because a Run, a Step or a brief that is over stops.

| Run | Bounds | Properties | Shows |
|---|---|---|---|
| `orch_two_slices` | gated, 2 independent Slices at the same time, 1 mishap, anywhere | `UndeliveredHintsAreKept`, `NothingUnbuiltIsReviewed` | neither of two Slices that stop together loses feedback it is owed; none is unbuilt at review |
| `orch_crash` | gated, 1 Slice, 2 mishaps, anywhere | `CheckpointIsCurrent`, `GateMatchesStatus`, `UndeliveredHintsAreKept` | Checkpoint, Gates and the feedback of reviews and people stay in step with the Run |
| `orch_parallel` | auto, 3 Slices, 2 at a time, 1 mishap | `BuildsAfterItsDependencies` | dependencies first, also when Slices are reopened |
| `orch_liveness` | gated and auto, 1 Slice, no mishap | `AdvanceEnds`, `StoppedRunIsOffered`, `AbortStopsWork` | advance ends; a stopped Run is offered; nothing begins after an abort |
| `design` | gated and auto, 4 mishaps, anywhere | `BuildsOnWhatWasJudged`, `NothingAskedIsSkipped`, `CommentsAreKept`, `RevisionsAreOwed`, `DesignIsWholeUnlessTorn`, `KeepsAgreement` | code on agreed documents that fit each other; refinement of `AgreedDesign`; what was asked is done first and comments wait; as long as no process died inside a stretch, the documents fit, the Gate asks about something and the phase never throws |
| `slice` | 2 sides, 2 failures, budget 1, 2 crashes or peers in all | `TestedOnLastCommit`, `CompletedStepsAreKept`, `NeverTestsTheSameCode`, `NoFailureIsSentBackTwice` | what is tested stands on the last Slice Commit; saved code survives a restart; a Loop stays a Loop |
| `slice_ends` | 2 sides, 1 failure, budget 2, any one event | `RetryBudgetIsKept`, `CallEnds` | every call ends, whatever single thing happens to it; the budget is kept across calls |
| `agent` | 2 loops, 1 with checks, 4 turns, 2 tries, budget 5, calls of up to 2 | `OverdraftIsBounded`, `AnswersAreNotLost`, `StepEnds` | an overdraft of less than a call of each; an answer sent back still counts; every Step ends |
| `workspaces` | 2 Slices (2 sides and 1), 2 saves, 2 commits, 1 death | `CommittedIsKept`, `SavedStepsAreCommitted`, `NothingCutIsCommitted` | the run branch only grows, by all that was completed and nothing that was cut |
| `inside` | see below | `DesignHandedOverIsWhole`, `MergedManifestIsWhole`, `NoFailureIsForgotten`, `BlocksOnWhatIsReal`, `BriefIsWithinItsMeans` | one promise of each part |
| `outside` | see below | `PageKeepsUp`, `TerminalFollowsAsLongAsNeeded`, `AnswersAreOnWhatWasRead`, `DrawnIsWhatIsThere`, `SharedFilesAreThere`, `PullRequestShowsTheBranch`, `StatusNeverGoesBack`, `LatestTickCounts` | one or two promises of each part, under lost, late and repeated messages |
| `orch_offer_lost` | as small as the counterexample | `FailedRunIsOffered` | refuted: a disagreement of section 5 |

The type invariants (`TypeOK`) of the modules with proofs hold by theorem, and so do `EscalationMatchesStatus`, `EscalationLeavesNoRetry` and `NoStepIsLeftRunning`; no
run repeats them.

Why these bounds are enough for what they show: two Slices at the same time are needed for two to stop together and for one to be reopened
while another is unbuilt (`orch_two_slices`, which does without a review retry: `orch_crash` has one), three for two to be built beside each other with a third
that depends on them; a crash, a restart and a second crash on the recovery path need two mishaps;
a failed build, a failed design and a crash need three, and the two deaths of section 5 that leave a stale UI approved need four, with what they interrupt (`design`).  `Fuel` is large enough for a Slice to be sent
back and to fail again, and for a person to decide at each place at least once in some
behaviour; TLC's coverage shows every action taken, and every property is refuted by
a mutated definition (`PROJECT.json`, "mutants") under the same bounds.
For `slice`, a conflict between sides needs both; two failures are needed for one to come back after the other;
and two events for a peer to commit between a crash and the attempt that follows it, or twice in a row.
`slice_ends` trades the second failure for a second retry and for every kind of event: a failure that comes back
is a Loop, so one failure per side is enough to use up and to overstep a budget when Steps stop too.

`agent`: two loops overdraw together and only one has checks, so both ways to end are there; four turns are an answer sent
back twice (`MAX_CHECKS`) and one more turn after it; a budget of five with calls of two runs out in the middle of either loop's
call.  `workspaces`: one Slice has two sides to merge; two saves and two commits let each Slice's commit
meet the other's; one death suffices to leave something at each place, because `resumeRun` leads back to where
any process begins.

`inside`.  Four submissions are three parts and one of them again (before or after `finish_design`), or three parts and a UI Spec.  Two entries of
`package.json` are one each side changes; two calls change a file and change it back or something else; two answers sent back tell
"sent back for just these lines" from "as often as allowed" and from "never".  Two failures with a cap of one leave one in the rest; a budget of one lets one judge
answer and not the next.  One recorded Finding with two submitted makes the second meet a full list.  Three facts of
up to five make a cut; an answer of two and budgets up to four are enough for the look to fit and to miss by one.

`outside`.  Five events over a log of three overflow it, so a page comes back too late for some; two reads overtake each
other; two faults are a lost connection and a restart.  Six published events lead a Run through the PR Gate, back to
building and to an abort in review.  Four questions are a Gate, a redesign with its Gate, an Escalation and one more; one meddling
person, lost response or form opened anew with its answer on its way is the exception the property makes.  Three designs on two screens leave boards of each
earlier one, four troubles exhaust both attempts of two calls.  Two runs share an image and an upload, and three expiries
drop what a run that started over names again.  Two Slices and three commits hold a Slice built
twice, two failed calls one after another hit a delivery and the one after it.

Fairness.  `RunOrchestrator`'s `Spec` gives weak fairness to the process's own steps: the
event loop runs what is ready, and every agent and service call either answers or
fails (the clients have timeouts).  A person is never fair: a Run may
wait at a Gate for ever.  Neither is a crash.  The liveness run allows no mishap, because a fault
leaves a Run at rest until a restart or another decision.  `SliceRunner` gives weak fairness to the steps of a call
(`Call`) and to a peer giving its turn back (`PeerCommits`; the mutex is released in a `finally`), and to nothing else: not to the
orchestrator calling again, a hint, a restart or any other event.  A peer that waits for the mutex may take it first;
`MaxEvents` bounds how often, as the queue of the mutex does in the code.  `AgentLoop`'s `FairSpec` gives weak fairness to each
loop's own `Step`: a model call answers or fails (the client has a timeout) and a pause ends; a person who stops the Run is not fair.
The other modules have no fairness: their properties are about safety.

## 4. Proofs

TLC checks the small instances above; TLAPS proves for every number of Slices, every dependency
relation on earlier Slices, every set of failures, Retry Budget and bound.

`RunOrchestratorProofs`.  None of the properties is inductive, because while a stretch
is under way Run, Gates and memory disagree.  The inductive invariant `RunInv` is `TypeOK` with
parts that say exactly how far they may (theorems `TypeCorrect` and `Inductive`):

- `LoopFitsStatus`, `StretchFitsStatus`, `StretchAsksAdvance`: which statuses a Run can have at each await
  and before each transaction (an abort may have come in between), and that a decision's stretch
  ends by advancing;
- `GatesFitStatus`, `PrGateIsAnswerable`: the Gates that are open, and that a Run at the PR Gate without one
  will have one opened;
- `EscalationsFitStatus`, `BuiltFitsStatus`: Escalations open only where the Run is, or was just,
  escalated; nothing unbuilt once all Slices were seen to be committed;
- `SavedFits`: outside a stretch the Checkpoint is the memory, up to the one retry a review counts for a Run that was aborted meanwhile;
- `JobsFit`: a Slice run belongs to a building Run and to a Slice not passed, and its dependencies are done.

Each group of actions has a lemma that it preserves these (`LooksFits`, `SynchronousFits`, ...).  From
`RunInv` follow `GatesAnswerable`, `ReviewedWhenBuilt`, `NothingDecidedIsForgotten` and
`DependenciesFirst`.  `EscalationAnswerable` needs the assumption that a process dies only where it
waits; without it TLC finds a counterexample (section 5).  Two more theorems go beyond `RunInv`, with no such assumption:

- `HintsAreDelivered` (`FeedbackInv`, with an invariant of its own): feedback nobody was told waits in the Checkpoint, and in the
  memory while there is one (`HintsFit`); what a stretch is about to keep is in the memory, or the last Slice is about to be reopened with
  it (`TellingFits`); a Slice run that came as far as to commit has told it, and one that stopped before anyone coded is known to
  have (`ToldFits`);
- `AbortStops` (an action property, `AbortStopsWork`): no step of an aborted Run begins a Test Run or a Slice Commit or
  leads the loop on, whatever was under way and wherever the process dies; only a commit git was making already is made.

The only other assumption on the
constants is `ConstantsAssumption`: positive bounds, and that a Slice depends on earlier Slices only, which
`validateDesign.ts` checks of every plan.

`DesignPhaseProofs`.  `DesignInv` is `TypeOK` with `StagesFitStatus` (documents are written only while the Run is designing,
or was aborted meanwhile), `ApprovedWasJudged`, and `DocumentsFitStatus` (an open Gate
leaves no document out; all are approved once code is built) (theorems `DesignTypeCorrect`,
`DesignInductive`).  It gives `BuiltOnWhatWasJudged`, and with it
each action is shown to be a step of `AgreedDesign` or a stutter: `ImplementsAgreement`.  Both hold
wherever a process dies.

`DesignReworkProofs`.  What the Run owes its documents needs more than `DesignInv`.  `ReworkInv` adds `Fits`, which no death disturbs (which
stretch an agent's answer or a list of documents leads to; a document is in review only at the Gate; what an agent was through with is
written), and `Whole`, which holds until a process is `torn`: `RevisionsFit` (between stretches the Checkpoint holds the revisions; none
is owed once the Gate is open; what was asked is owed, or about to be), `AskedFits` (an agent's own part of it is done document by
document), `UiIsRedone` (whatever sends a Run back to designing leaves a document of the UI to be redone, because a change of
the System Design makes an approved UI Stale), `DrawnFits`, `SlicedFits` and `PhaseGoesOn`.  `UiIsRedone` is the heart of it: it is why a System Design that was
rewritten is never built on under the old UI.  From it follow `AskedIsReworked`, `CommentsWait`, `RevisionsEnd` and `DesignStaysWhole`, for
any number of mishaps.

`SliceRunnerProofs`.  `SliceInv` is `Typed` (the type of each group of variables) with `Fits`, one part for each thing a call
relies on and no single line states:

- `TurnFits`: from merging to clearing the call holds the turn, and then the merge is onto the last Slice
  Commit, because nobody else can commit (`TestsWhatItCommits`);
- `OutcomeFits`, `RunningFits`: the Slice has passed exactly when its call says so, and a running Step belongs to
  a side that codes, or to a call that threw or died (`StepsAreCleared`);
- `CompletedStepsAreKept`, itself inductive (`CompletedStepsSurvive`);
- `UnrunFits`: retries are counted and not begun only at `top`, for sides about to code and with
  tokens left for it (`EscalatesBeforeCounting`);
- `UntestedFits`: after a failed Test Run, a Step that counts as a change has left something untested, so a call
  that goes on to merge has something new to test, or escalates as a loop (`TestsSomethingNew`);
- `BudgetFits`: unless retries were lost, every baseline, of the call under way and of the Checkpoint, is at most the retries
  when somebody last asked, and a call that begins a new baseline knows of every retry (`RetriesAreBounded`);
- `RoutedFits`: what a side was sent back for is in the history of the call, or of the Checkpoint, until
  the Slice passes (`LoopsAreLoops`, an action property).

`TypeCorrect` and `Inductive` prove `[]TypeOK` and `[]SliceInv`; there is one lemma per action that it keeps `SliceInv`, and three
for what several actions share (an Escalation, a throw, a retry).  Assumptions: `ConstantsAssumption` only (the sides
are coding sides, the failures are finitely many, budget and bound are naturals).

`AgentLoopProofs`, for any set of loops and any budgets.  `IInv` is `TypeOK` with `TurnInv` (a call under way has a turn
left, a check under way a check left), `AnswerInv` (at each await, what the loop holds of the answers it was given: the
standing one is the latest, and a Step out of turns still has what was sent back) and `BudgetInv`.  The overdraft is not
inductive by itself: `BudgetInv` says that what was used, plus a `LargestCall` for each call under way, is less than the
budget plus a `LargestCall` for each loop; it holds because a call begins only with budget left (`BegunWithBudget`), and a call that ends
leaves the calls under way (`CallEndsInBudget`).  From these follow `LoopTypeCorrect`, `BudgetIsShared` and `SentBackAnswerStands`.

`WorkspacesProofs`, for any Slices, roles and bounds.  `Inv` follows a save from the Step that made it to the commit that
delivers it: `BranchesAreThere` (a side that is open has a branch until its Slice is discarded), `OwedIsHeld` (what a completed
Step saved is on a branch of its Slice), `MergeHolds` (a merge holds what it was merged onto and each branch of its
Slice, which do not change until it is committed), `StepsAreTheirs`, `CutIsDown` (writes are left behind only by a process that is down, and in a
worktree) and `NothingCutIsSaved`.  One lemma per part; from them follow `WorkspaceTypeCorrect`, `RunBranchGrows`, `CompletedStepsAreCommitted`
and `InterruptedStepsAreNot`.

`OutsideProofs`, about each part of `MCOutside` in turn.  Assumption on the constants: `ConstantsAssumption` (the plan is a list, the
log and the uploads are bounded by numbers, no run is called as the build is, Screens are finitely many).

- Delivery (`DeliveryInv`).  `TickFits` says which tick a delivery finds, also after an abort its process died in, and `PushFits` what
  it relies on at each call.  That an open pull request shows
  what its text says needs an order: `BuiltInOrder` says that Slices built one at a time pass in order and so do their commits, and
  `TextFits` that a text which calls a Slice not included is true of the branch, which stands still while it is delivered.  So
  `PullRequestIsTheBranch` assumes `InOrder` (one Slice at a time); `LastWordCounts` does not.
- Test Runs (`SandboxInv`).  `FreshFits` is the part that matters: since a run started over, neither what is shared nor what it holds
  is of what was gone then; it needs that uploads are numbered in order (`SendsFit`) and that what is gone stays gone (`GoneFits`).  `RetriesAreFresh`.
- Drawing (`DrawingInv`).  The tab runs calls in the order of their numbers, so once a call is answered only copies of the next one
  can still run (`TabFits`); hence a screen that is not left to draw is drawn (`TodoFits`, `DrawnFits`).  `CanvasFits` does the same for connections.
  `DrawnIsThere`.
- Answers (`AnsweringInv`).  The page can show a question that is no longer open only while its own answer is still to come (`AnswersFit`),
  so a request on its way is about the question that is open, as it was read (`RequestFits`).  All of this holds
  while nobody answers elsewhere, no response is lost and no form is opened anew with its answer on its way
  (`meddled = 0`), which is the exception in the property.  Without these a request on its way is the only one.  `AnswersFitTheirQuestion`.
- Terminal (`FollowingInv`).  `StopsFit`: a stop event, or a read that found no loop, is right unless a decision or a start of the
  server came after it.  `EndIsHeard`: when no loop is under way, what tells so is among the events to come or a read is on its way.  `TerminalFollows`.
- Live page (`LiveInv`).  `NumbersFit`, `MovesFit` and `ReadsKnow` make numbers of events stand for knowledge: a read knows every move
  up to its number, whichever connection it came by, and the page with it (`PageKnows`).  `StreamFits`: a move that is kept was seen or is on the
  wire.  From these follow `PageKeepsUpWithTheRun` and the action property `StatusOnlyMovesOn`; that no Run with work to do is left without a
  word, except one a start could not resume, is inductive by itself.

`InsideProofs`, about each part of `MCInside`.  Assumption on the constants: `ConstantsAssumption` (bounds are naturals, a brief
has room for one fact).

- Design (`DesignInv`).  A part that is saved is what the last call that was run sent and has no problem of its own (`DraftsFit`); what `finish_design`
  accepted is what is saved still, because a part sent after it withdraws it (`AcceptedFits`).  `WholeDesignIsHandedOver`.
- Coding (`CodingInv`).  A side that did not delete `package.json` has all that was there (`ManifestsKeep`); what is merged are the manifests as
  both Steps left them (`MergeFits`); a Step that delivers what its check has seen has nothing found in its files, was sent back as often
  as it may be, or was sent back for just what is found (`ChecksFit`).  The lemma `MergedEntries` says what the merge does with each entry.  `MergedManifestsAreWhole`.
- Brief (`BriefInv`).  What is told is a beginning of all the facts in their order (`StartsAs`), with the warning after it exactly where the
  hint asks for what is forbidden (`BriefShows`); a look is begun only where its longest answer fits (`LookFits`).  `BriefsAreWithinTheirMeans`.
- Routing (`RoutingInv`).  Each failure has a report with its signature (`ReportsFit`), and failures with one signature suspect the
  same side (`SameFailure`), so that merging forgets nobody; each report is owned by whom its rule allows once
  every judge has answered (`DecisionsFit`).  What the cap cuts is still counted among the rest, and so told of.  `FailuresReachWhoMustFix`.
- Review (`ReviewInv`).  What was submitted is recorded or was refused for a reason; what blocks and is shown is recorded, however full the list
  is (`SubmittedFits`).  That the lines shown are the lines of the new file rests on `PlaceIsCount`: the place
  of a line among those that pass a filter is the number of those up to it.  `ReviewsBlockOnWhatIsReal`.

The lemmas under these are about filtering and order: every finite set of numbers can be put in ascending order (`AscendingExists`, by a
smallest counterexample), and what is filtered has exactly the elements at its places (`FilteredAt`).

Only model-checked: the liveness properties `AdvanceEnds`, `StoppedRunIsOffered`, `CallEnds` and `StepEnds`, which are
beyond the prover (fairness and ENABLED).  Every other property of a passing run is a theorem.  Two
theorems have assumptions on the constants beyond those named: `EscalationAnswerable` (a process dies only where it waits; no run
checks its property) and `PullRequestIsTheBranch` (one Slice at a time, which the value in `outside.cfg` meets).

## 5. Where the code and its documentation disagree

TLC refutes each of the following.  The first has a run, `orch_offer_lost`, with the line it contradicts quoted in `PROJECT.json`; the others
are refuted by giving the named property to TLC as an invariant of its module, and some are the reason for an
exception in a checked property.

- A failed Run whose process died before its Draft PR is not offered after a restart (`FailedRunIsOffered`).
- A process dies between moving a Run to escalated and opening the Escalation: nobody is asked
  (`EscalationMatchesStatus` with a death anywhere; `runOrchestrator.ts:805`).
- After a failed Test Run one side changes its code and the other stops; if the other, redone, answers without a change, the
  Slice is escalated as a Loop with the fix untested (`LoopMeansNothingNew`; `sliceRunner.ts:300`).
- A peer's commit makes the runner throw both Workspaces away; if a limit is met then, and the hint that answers the
  Escalation names one side, only that side codes, and the Slice is tested without the other's code
  (`NothingLostIsTested`; `sliceRunner.ts:322`).

More came out while the properties were written:

- Orchestrator.  A hint given at an Escalation of the review is kept for no Slice, since all have passed
  (`runOrchestrator.ts:387`, against 348).  A Slice that passed, was reopened and is then skipped stays in the pull request
  (`runOrchestrator.ts:397`, against 497).
  Of two Slices that stop together only the first drives the Run; a design issue of the second is remembered as sent back to
  the documents although nothing is revised for it (`runOrchestrator.ts:718`).  If the process dies between `#sendBack`'s move and
  `#reopenLastSlice` (`runOrchestrator.ts:530-534`, `439-450`) the feedback is lost before any Checkpoint kept it, so
  `UndeliveredHintsAreKept` speaks of feedback that one did keep.  A Slice that stops on a spent Token Budget before anyone codes
  (`sliceRunner.ts:240-248`) drops the hint, Findings or changes it was to be told (`runOrchestrator.ts:706`, against "the hint is kept
  until the Slice's first retry", `ROADMAP.md:87`); the property excepts it by name (`unheard`).  A review that refuses the code of a Run
  aborted meanwhile counts a retry in the memory and throws before any Checkpoint (`runOrchestrator.ts:529-530`), the exception of
  `CheckpointIsCurrent`.  A Slice Commit that git was making when the Run was aborted is made and the Slice passes
  (`sliceRunner.ts:382-383`), the exception of `AbortStopsWork`.
- Design Phase.  A process that dies while a first design is half written leaves a Run whose every advance throws
  (`designPhase.ts:123`, against `resumeRun.ts:39`).  One that dies between resolving an Escalation and reopening the documents
  loses the person's edits (`runOrchestrator.ts:404`, against 413).  Verdicts are stored before their comments
  (`runOrchestrator.ts:333-335`), and the Gate opens before the revisions that led to it are cleared
  (`runOrchestrator.ts:629-633`).  Two of these deaths in one Run, the second after the Escalation's edits
  (`runOrchestrator.ts:404`), rewrite the API Contract from a revision that was made already, under a UI that stays approved: code is built on
  a UI that was not drawn from it.  It takes four mishaps, and was found while proving that it cannot happen.  Hence the properties stated for processes that are not `torn`.
- Slice Runner.  A Step whose turns ran out counts as a change even when it wrote its files as they were and nothing was
  saved (`sliceRunner.ts:577-587`), so the same code may be tested again after all; `NeverTestsTheSameCode` says so.
  A side that was sent back with Issue Reports and then stops is redone knowing only that it stopped
  (`sliceRunner.ts:274-283`).  A process that dies, or a call that throws, before the first "retrying" Checkpoint forgets where the Retry Budget
  began and refills it (`lapsed` in `RetryBudgetIsKept`).  A process that dies between the Slice Commit and the status
  `passed` builds the Slice again on top of its own commit; one that dies between a peer conflict's discarding
  (`sliceRunner.ts:322`) and its Checkpoint (351) loses a side in the same way.
- Workspaces.  A process that dies between the Slice Commit and the status `passed` commits the Slice twice (`OneCommitPerSlice`, against "One
  commit per Slice", `workspaceManager.ts:4`).  A merge that conflicts leaves its branch half merged, and the Escalation's brief reads
  that (`MergedFilesWereTested`, against `workspaceManager.ts:131-134`).
- Agent loop.  An answer that was sent back counts when the turns run out, and does not when the turn after it ends in an empty answer, an API
  error or a spent budget: the Step then has a problem it would not have had unchecked (`CheckIsNeverWorse`, against "A check is never
  worse than none", `agentLoop.ts:211`).
- System Design.  A part that is sent again in a call that does not run (arguments its schema refuses, `tools.ts:105-121`; a reply cut at
  the output limit, `agentLoop.ts:325-331`) leaves the older part saved, and accepted if it was, so an older part than the agent last wrote may be handed over.
- Coding.  An answer with lines the cheap checks forbid stands unchecked in the last turn (`agentLoop.ts:274-275`), when the
  turns run out after it was sent back (213-216), and when it comes back with the same lines (283-284): the exceptions of
  `ForbiddenLinesWereSentBack`.  `delete_file` is not guarded as writing is, so a side may delete `package.json` and write another
  (`ManifestKeepsWhatItHad`, `manifestGuard.ts:9-10`).
- Issue routing.  A judge may answer that documents contradict each other on an operation all of them list
  (`ContradictionsAreReal`, `ownerJudge.ts:115-121`).  The judges of one Test Run are asked at the same time and all see the budget none of them
  has spent yet (`sliceRunner.ts:402-410`).
- Escalation brief.  Facts that only code can find are cut when there are more than fit (`FoundFactsAreNeverCut`,
  `escalationBrief.ts:248`).  A look at dense or non-Latin text costs more than was reckoned (`NeverPushedPast`,
  `escalationBrief.ts:217`; `LookStaysInBudget` says for which text it holds).  A brief owed by a process that dies is
  never written.
- Delivery.  A process that dies between the two transactions of an abort (`runOrchestrator.ts:268-269`) leaves a tick on a Run that is not
  aborted; it counts before the one a person gives at a later Escalation (`runOrchestrator.ts:783-791`), the exception of
  `LatestTickCounts`.  The commit of a Slice that passed, was reopened and is skipped stays on the run branch of a pull request that says only
  finished Slices are included (`OnlyFinishedAreIncluded`, `pullRequestText.ts:126`).
- Live page.  A Run that a start of the server cannot resume is neither advanced nor announced, only logged
  (`runtimeRunService.ts:196-204`, `runs.module.ts:120-121`): the exception of `PageKeepsUp`.  A question that was asked while the page's last read was on its way is shown only after the next event, so the page
  may rest without it (`WhatIsAskedIsShown`; `README.md:99` "It stays live while the server runs.", `useRun.ts:48-50`).
- Terminal.  A Run sent back from the PR Gate keeps its pull request; aborted in its next review nothing more is
  published, and `follow` waits for ever (`NobodyFollowsARunNothingMoves`; `cli.ts:254`, against 238).
- Answers.  A Verdict names a document and no version, a resolution no Escalation: if somebody answers elsewhere or a response is lost, an answer may be
  taken for a question its author never read.  One person is enough: a dialog put aside while its answer is on its way and opened
  again by "Decide..." (`RunPage.tsx:118`, `EscalationDialog.tsx:82`), or a Gate whose tab is left and come back to (`RunPage.tsx:155`,
  `DesignGate.tsx:44`), lets them answer again, and the second answer may reach the next question.

## 6. What is abstracted, and what is not modelled

- Texts, prompts and diffs: present only as what they lead to, or as one good and one bad value where a check reads them
  (OpenAPI, Mermaid, a hunk).
- Task statuses and Step events, screenshots, the sizes of messages (trimming changes what is sent, not what is decided).
- The order of transactions of different Runs: Runs share no state except the process, so one Run is modelled.
- In `RunOrchestrator` a re-plan after building began keeps the positions of Slices: a plan in which an unstarted Slice
  comes before a started one, or that drops or adds some, is not represented.
- In `SliceRunner`: what each side is told and how an Owner is found (`IssueRouting`; here any answer is possible); a skipped Slice (the calls
  end there); how many tokens are left (some or none).  The transactions that end a passed Slice (status, Tasks, Checkpoint)
  are one action, and so are the addRetry calls and the Checkpoint of one retry.  A fault between saving and completing a Step, other than
  the process's death, is not represented, nor is the Checkpoint a peer writes between this Slice's outcome and its being kept.
- In `Workspaces`: which lines conflict (that git refuses a merge is a choice), cloning the Target Repo, the template's copy.
- In `LiveRun`, `Terminal`, `Answers` and `Delivery` the work between two moves of the Run is abstract; `RunOrchestrator` is its model.
- In `TestRuns`: reading a test report.  In `UiDesign`: what a board looks like.  In `RunReview`: more than one file, the limit on a diff's size, and the cut at 8 of the Findings that were not recorded
  where they are shown to a person (`codeReviewAgent.ts:166-175`); that they are not lost before that is what is checked.
- The PR Gate's form and the terminal's own answers (`approve`, `resolve`): their requests are those of `Answers`.
- SQLite is taken to commit or not to commit a transaction; a lost or torn database is outside the model.
- Not modelled at all: wiring of the runtime, access tokens and static files of the server, layout of web and CLI, configuration and Stack Profiles
  (no state, pure I/O or constant data; the parts of profiles the code depends on are CONSTANTS).

## 7. Plan

Done: every component that keeps state of a Run has a module, and every safety property the runs check is a theorem.  Left, in this order:

1. An abstract `RunBranch` (a growing sequence of tested trees) implemented by `Workspaces` and by `SliceRunner`'s steps.
2. The order of a re-plan after building began, as state of `RunOrchestrator`.
3. Proofs: that the abstract branch of 1 is implemented, and the type of each variable of `SystemDesign`, `CodingStep` and `RunReview` where its
   invariant does without.
4. Fairness for `LiveRun` and `Terminal`: a page and a terminal that come back reach the newest state.
