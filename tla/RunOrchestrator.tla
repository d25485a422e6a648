-------------------------- MODULE RunOrchestrator --------------------------
(***************************************************************************)
(* One Run as the orchestrator drives it (packages/core/src/orchestrator/   *)
(* runOrchestrator.ts), between a person who may decide or abort at any     *)
(* moment and a process that may die at any moment.                         *)
(*                                                                         *)
(* The code is JavaScript: `advance` is one loop that gives way only at an  *)
(* await, and a person's decision is a synchronous call that runs between   *)
(* two awaits.  Every store operation is a transaction of its own, so a     *)
(* synchronous stretch of code cannot be interleaved but can be cut short   *)
(* by the death of the process.  `loop` says at which await the loop is;    *)
(* `at` says which transaction a synchronous stretch commits next, and is   *)
(* "free" when none is under way.                                           *)
(*                                                                         *)
(* The design phase, a Slice's run, the review and the delivery appear here *)
(* by what they return; the documents appear as one status for all of them. *)
(***************************************************************************)
EXTENDS RunLifecycle, Naturals, FiniteSets

CONSTANTS
    Modes,              \* the modes a Run may be started in
    N,                  \* the Slices of the plan are 1..N, in plan order
    DependsOn,          \* the Slices each Slice needs; one that says nothing needs all before it
    Skeleton,           \* the Walking Skeleton, or 0 if the plan has none
    MaxParallelSlices,  \* SDLC_MAX_PARALLEL_SLICES
    ReviewRetryBudget,  \* how often blocking Findings may send the code back
    Fuel,               \* bound: agent invocations the Token Budget pays for
    MaxMishaps,         \* bound: crashes and faults of outside services, together
    CrashAnywhere       \* may a process die inside a synchronous stretch too?

Slice == 1..N

ASSUME ConstantsAssumption ==
    /\ Modes \subseteq RunMode
    /\ N \in Nat
    /\ DependsOn \in [Slice -> SUBSET Slice]
    /\ \A s \in Slice : DependsOn[s] \subseteq 1..(s - 1)
    /\ Skeleton \in 0..N
    /\ MaxParallelSlices \in Nat \ {0}
    /\ ReviewRetryBudget \in Nat
    /\ Fuel \in Nat
    /\ MaxMishaps \in Nat
    /\ CrashAnywhere \in BOOLEAN

VARIABLES
    \* The run row, in the database.
    mode, status,
    failure,        \* "none", or what recordFailure wrote: "design" or "limit"
    pr,             \* the pull request on the row: "none", "draft" or "ready"
    draftOnAbort,   \* what the person ticked when aborting: "unset", "yes" or "no"
    \* The rest of the database.
    slice,          \* Slice -> its status, or "absent" while the plan has not named it
    planned,        \* the Slices the approved Slice Plan names
    commits,        \* the Slices with a Slice Commit on the run branch (in git, not the database)
    design,         \* "missing", "redo" (a document is not finished), "inReview" or "approved"
    gates,          \* the kinds of the Gates that are open
    escalations,    \* the open Escalations, each as the Slice it is about (0 for none)
    saved,          \* the payload of the latest Checkpoint
    openStep,       \* a Step row left running by a process that died
    tokens,         \* what the Token Budget still pays for
    \* The process.
    memory,         \* #memory: what the Run carries from one step to the next
    briefOwed,      \* #briefsOwed
    loop,           \* where the advance loop is: an await, "look", "off", or "down" (no process)
    job,            \* Slice -> "none", or how far its Slice run in this batch has come
    at,             \* the transaction the synchronous stretch commits next
    about,          \* the Slice that stretch is about (0 for none)
    called,         \* advance was asked for and has not begun
    \* History, read by properties only.
    telling,        \* the Slice whose feedback the synchronous stretch is about to keep
    owedHint,       \* Slices whose feedback was kept and that no coding attempt has had
    unheard,        \* of these, the ones that stopped on a spent Token Budget before anyone coded
    offered,        \* the delivery of a Run that stopped early has run its course
    mishaps

runRow == <<mode, status, failure, pr, draftOnAbort>>
store  == <<slice, planned, commits, design, gates, escalations, openStep, tokens>>
proc   == <<memory, briefOwed, job, about, called>>
ghosts == <<telling, owedHint, unheard, offered, mishaps>>
vars   == <<runRow, store, saved, proc, loop, at, ghosts>>

-----------------------------------------------------------------------------
\* RunMemoryState: the feedback waiting for a Slice's next attempt, the Slices
\* with a history, whether revisions wait for the design agents, and the review's
\* retries.
Memory == [hints : SUBSET Slice, histories : SUBSET Slice, revisions : BOOLEAN,
           reviewRetries : 0..ReviewRetryBudget]

EmptyMemory == [hints |-> {}, histories |-> {}, revisions |-> FALSE, reviewRetries |-> 0]

Move(event) == \E next \in RunStatus :
                  <<status, event, next>> \in RunArrow(mode) /\ status' = next

\* Mutant: an abort is noticed only between two Slices.
GoesOnRegardless == TRUE

\* #stopIfAborted: what is about to begin does not, once the Run is aborted.
GoesOn == status # "aborted"

\* Mutant: a failed design is tried again at once.
NeverWaitsForDesignRetry == FALSE

\* A failed design is tried again when a person asks, and never by itself.
WaitsForDesignRetry == status = "designing" /\ mode = "gated" /\ failure = "design"

\* Mutant: a Slice whose Test Run was cut short is taken for finished.
UnfinishedUnlessTesting(s) == slice[s] \in {"pending", "building"}

Unfinished(s) == slice[s] \in {"pending", "building", "testing"}

Passed == {s \in Slice : slice[s] = "passed"}

\* The first Slice that has not passed or been skipped; 0 when all have.
CurrentSlice == IF \E s \in Slice : Unfinished(s)
                THEN CHOOSE s \in Slice : Unfinished(s) /\ \A t \in Slice : Unfinished(t) => s <= t
                ELSE 0

\* The last Slice, in plan order, that passed; 0 when none has.
LastPassed == IF Passed # {} THEN CHOOSE s \in Passed : \A t \in Passed : t <= s ELSE 0

\* Mutant: what is being built counts as built, and the Walking Skeleton is like any other.
JoinableTooEarly == {s \in planned \ {CurrentSlice} :
                       Unfinished(s) /\ DependsOn[s] \subseteq Passed \cup {CurrentSlice}}

\* The Slices that join the first unfinished one: the plan names them, and
\* everything they depend on has passed; the earliest of them while there is room.
Joinable == IF \E s \in Slice : s = Skeleton /\ slice[s] \notin {"absent", "passed"}
            THEN {}
            ELSE {s \in planned \ {CurrentSlice} : Unfinished(s) /\ DependsOn[s] \subseteq Passed}

NextBatch == {CurrentSlice} \cup
             {s \in Joinable : Cardinality({t \in Joinable : t < s}) < MaxParallelSlices - 1}

Free(l) == at = "free" /\ loop = l

\* The loop ends with an error. The service publishes it and forgets that
\* advance was asked for again.
Throw == loop' = "off" /\ called' = FALSE

\* The loop meets an abort: settleStopped discards the running Steps, and the
\* loop looks at the Run again.
Swallow == loop' = "look" /\ openStep' = FALSE

-----------------------------------------------------------------------------
Init ==
    /\ mode \in Modes
    /\ status = "designing" /\ failure = "none" /\ pr = "none" /\ draftOnAbort = "unset"
    /\ slice = [s \in Slice |-> "absent"] /\ planned = {} /\ commits = {}
    /\ design = "missing"
    /\ gates = {} /\ escalations = {} /\ openStep = FALSE /\ tokens = Fuel
    /\ saved = EmptyMemory /\ memory = EmptyMemory
    /\ briefOwed = FALSE /\ loop = "off" /\ job = [s \in Slice |-> "none"]
    /\ at = "free" /\ about = 0 /\ called = TRUE
    /\ telling = {} /\ owedHint = {} /\ unheard = {} /\ offered = FALSE /\ mishaps = 0

StartAdvance ==
    /\ Free("off") /\ called
    /\ loop' = "look" /\ called' = FALSE
    /\ UNCHANGED <<runRow, store, saved, memory, briefOwed, job, about, at, ghosts>>

\* Synchronous stretches end by writing a Checkpoint: from here on the feedback they
\* kept is owed.
Checkpoint ==
    /\ at = "checkpoint"
    /\ saved' = memory /\ at' = "free"
    /\ telling' = {} /\ owedHint' = owedHint \cup telling /\ unheard' = unheard \ telling
    /\ UNCHANGED <<runRow, store, proc, loop, offered, mishaps>>

-----------------------------------------------------------------------------
\* #next: what the loop does when it looks at the Run.

WaitForPerson ==
    /\ Free("look")
    /\ \/ WaitsForDesignRetry
       \/ status = "awaitingDesignGate"
       \/ status = "escalated" /\ escalations # {} /\ ~briefOwed
       \/ status = "done"
       \/ status \in {"failed", "aborted"} /\ pr # "none"
    /\ openStep' = (openStep /\ status # "aborted")
    /\ loop' = "off"
    /\ UNCHANGED <<runRow, slice, planned, commits, design, gates, escalations, tokens,
                   saved, proc, at, ghosts>>

\* Mutant: a Gate that is missing stays missing.
GateStaysClosed == gates

\* A Gate the last process closed, or never opened, is opened again.
ReopenedGate == IF gates = {} THEN {"pr"} ELSE gates

WaitAtPrGate ==
    /\ Free("look") /\ status = "awaitingPrGate"
    /\ gates' = ReopenedGate
    /\ loop' = "off"
    /\ UNCHANGED <<runRow, slice, planned, commits, design, escalations, openStep, tokens,
                   saved, proc, at, ghosts>>

\* "Run is escalated but has no open Escalation."
EscalationMissing ==
    /\ Free("look") /\ status = "escalated" /\ escalations = {}
    /\ Throw
    /\ UNCHANGED <<runRow, store, saved, memory, briefOwed, job, about, at, ghosts>>

StartBrief ==
    /\ Free("look") /\ status = "escalated" /\ escalations # {} /\ briefOwed
    /\ briefOwed' = FALSE /\ loop' = "brief"
    /\ UNCHANGED <<runRow, store, saved, memory, job, about, called, at, ghosts>>

\* Written or not, the Escalation stands, and the loop looks again.
EndBrief ==
    /\ Free("brief")
    /\ loop' = "look"
    /\ openStep' = (openStep /\ status # "aborted")
    /\ UNCHANGED <<runRow, slice, planned, commits, design, gates, escalations, tokens,
                   saved, proc, at, ghosts>>

\* #deliverIfOwed: what the person ticked is read before the push begins.
StartOwedDelivery ==
    /\ Free("look") /\ status \in {"failed", "aborted"} /\ pr = "none"
    /\ openStep' = (openStep /\ status # "aborted")
    /\ IF status = "aborted" /\ draftOnAbort = "no"
       THEN loop' = "off" /\ offered' = TRUE
       ELSE loop' = "owed" /\ UNCHANGED offered
    /\ UNCHANGED <<runRow, slice, planned, commits, design, gates, escalations, tokens,
                   saved, proc, at, telling, owedHint, unheard, mishaps>>

\* Without a Slice Commit, or without a place to push to, the code is kept local.
EndOwedDelivery ==
    /\ Free("owed")
    /\ \/ commits # {} /\ pr' = "draft"
       \/ UNCHANGED pr
    /\ loop' = "off" /\ offered' = TRUE
    /\ UNCHANGED <<mode, status, failure, draftOnAbort, store, saved, proc, at,
                   telling, owedHint, unheard, mishaps>>

-----------------------------------------------------------------------------
\* #limit: with a person the Run is escalated, with nobody it fails.

Limit(triggers, s) ==
    /\ \E t \in triggers : Move(t)
    /\ about' = s
    /\ at' = IF mode = "gated" THEN "openEscalation" ELSE "limitFailed"
    /\ loop' = "look"

OpenEscalation ==
    /\ at = "openEscalation"
    /\ escalations' = escalations \cup {about} /\ briefOwed' = TRUE
    /\ at' = "free" /\ about' = 0
    /\ UNCHANGED <<runRow, slice, planned, commits, design, gates, openStep, tokens, saved,
                   memory, job, called, loop, ghosts>>

\* The failure report the Draft PR carries, and the design's.
RecordFailure ==
    /\ at \in {"limitFailed", "designFailed"}
    /\ failure' = IF at = "limitFailed" THEN "limit" ELSE "design"
    /\ at' = "free" /\ about' = 0
    /\ UNCHANGED <<mode, status, pr, draftOnAbort, store, saved, memory, briefOwed,
                   job, called, loop, ghosts>>

-----------------------------------------------------------------------------
\* #design: the System Design Agent, the UI Design Agent, then the Gate.

StartDesign ==
    /\ Free("look") /\ status = "designing"
    /\ ~WaitsForDesignRetry
    /\ loop' = "design"
    /\ UNCHANGED <<runRow, store, saved, proc, at, ghosts>>

Started(s) == slice[s] \notin {"absent", "pending"}

\* #planSlices: once building began, only the Slices not started follow the
\* plan, and they come after those that are.
Plan(titles) ==
    /\ \A s \in titles : ~Started(s) => \A t \in Slice : Started(t) => t < s
    /\ planned' = titles
    /\ slice' = [s \in Slice |-> IF Started(s) THEN slice[s]
                                 ELSE IF s \in titles THEN "pending" ELSE "absent"]

\* Which documents the revisions name decides whether this Agent is needed.
SystemDesigned ==
    /\ Free("design")
    /\ \/ design # "missing" /\ UNCHANGED <<slice, planned, design, tokens>>
       \/ /\ design # "approved" \/ memory.revisions
          /\ tokens > 0 /\ tokens' = tokens - 1
          /\ \E titles \in SUBSET Slice \ {{}} : Plan(titles)
          /\ design' \in {"redo", design} \ {"missing"}
    /\ loop' = "designUi"
    /\ UNCHANGED <<runRow, commits, gates, escalations, openStep, saved, proc, at, ghosts>>

\* Nothing to redo needs no Agent.  What was redone goes to the Gate, unless
\* it was approved and came out the same; with no person it is approved.
DesignReady ==
    /\ Free("designUi") /\ Move("documentsReady")
    /\ \/ design = "approved" /\ ~memory.revisions /\ UNCHANGED <<tokens, design>>
       \/ /\ design # "approved" \/ memory.revisions
          /\ tokens > 0 /\ tokens' = tokens - 1
          /\ design' \in IF mode = "auto" THEN {"approved"} ELSE {"inReview", design} \ {"redo"}
    /\ gates' = IF mode = "auto" THEN gates ELSE gates \cup {"design"}
    /\ memory' = [memory EXCEPT !.revisions = FALSE]
    /\ at' = "checkpoint" /\ loop' = "look"
    /\ UNCHANGED <<mode, failure, pr, draftOnAbort, slice, planned, commits, escalations, openStep,
                   saved, briefOwed, job, about, called, ghosts>>

\* A DesignPhaseError: an Agent produced nothing valid, or had no tokens to.
DesignFails ==
    /\ loop \in {"design", "designUi"} /\ at = "free"
    /\ design # "approved" \/ memory.revisions
    /\ tokens' = IF tokens = 0 THEN 0 ELSE tokens - 1
    /\ \/ /\ mode = "gated" /\ failure' = "design" /\ loop' = "look"
          /\ UNCHANGED <<status, at, openStep>>
       \/ /\ mode = "auto" /\ Move("designFailed")
          /\ at' = "designFailed" /\ loop' = "look"
          /\ UNCHANGED <<failure, openStep>>
       \/ /\ mode = "auto" /\ status = "aborted" /\ Swallow
          /\ UNCHANGED <<failure, status, at>>
    /\ UNCHANGED <<mode, pr, draftOnAbort, slice, planned, commits, design, gates, escalations,
                   saved, proc, ghosts>>

-----------------------------------------------------------------------------
\* #build, from the batch to the Slice runs it starts.

AllSlicesCommitted ==
    /\ Free("look") /\ status = "building" /\ CurrentSlice = 0
    /\ Move("allSlicesCommitted")
    /\ UNCHANGED <<mode, failure, pr, draftOnAbort, store, saved, proc, loop, at, ghosts>>

\* "Slice ... is no longer in the Slice Plan."
SliceNotPlanned ==
    /\ Free("look") /\ status = "building"
    /\ CurrentSlice \in Slice \ planned
    /\ Limit({"undecidableOwner"}, CurrentSlice)
    /\ UNCHANGED <<mode, failure, pr, draftOnAbort, store, saved, memory, briefOwed,
                   job, called, ghosts>>

StartBatch ==
    /\ Free("look") /\ status = "building" /\ CurrentSlice \in planned
    /\ job' = [s \in Slice |-> IF s \in NextBatch THEN "running" ELSE "none"]
    /\ slice' = [s \in Slice |-> IF s \in NextBatch THEN "building" ELSE slice[s]]
    /\ loop' = "build"
    /\ UNCHANGED <<runRow, planned, commits, design, gates, escalations, openStep, tokens, saved,
                   memory, briefOwed, about, called, at, ghosts>>

Running(s) == Free("build") /\ job[s] = "running"

\* A coding attempt: it is paid for, and it reads the Slice's feedback.
Codes(s) == /\ slice[s] = "building" /\ tokens > 0 /\ tokens' = tokens - 1
            /\ owedHint' = owedHint \ {s} /\ unheard' = unheard \ {s}

\* Coded, merged and checkpointed: the Test Run begins.
SliceTests(s) ==
    /\ Running(s) /\ Codes(s) /\ GoesOn
    /\ slice' = [slice EXCEPT ![s] = "testing"]
    /\ at' = "checkpoint"
    /\ UNCHANGED <<runRow, planned, commits, design, gates, escalations, openStep, saved, proc,
                   loop, telling, offered, mishaps>>

\* A Step that had nothing to keep is redone, and no Checkpoint says so.
SliceStepStops(s) ==
    /\ Running(s) /\ Codes(s)
    /\ UNCHANGED <<runRow, slice, planned, commits, design, gates, escalations, openStep, saved,
                   proc, loop, at, telling, offered, mishaps>>

\* A failed Test Run, or code that conflicts with a Slice committed meanwhile:
\* the sides that own it code again, and the Checkpoint says what they failed on.
SliceRetries(s) ==
    /\ Running(s)
    /\ \/ slice[s] = "testing" /\ UNCHANGED <<tokens, owedHint, unheard>>
       \/ Codes(s)
    /\ slice' = [slice EXCEPT ![s] = "building"]
    /\ memory' = [memory EXCEPT !.histories = @ \cup {s}, !.hints = @ \ {s}]
    /\ at' = "checkpoint"
    /\ UNCHANGED <<runRow, planned, commits, design, gates, escalations, openStep, saved, briefOwed,
                   job, about, called, loop, telling, offered, mishaps>>

\* The Test Run passed and nobody had aborted: commitSlice is called.
SliceCommits(s) ==
    /\ Running(s) /\ slice[s] = "testing" /\ GoesOn
    /\ job' = [job EXCEPT ![s] = "committing"]
    /\ UNCHANGED <<runRow, store, saved, memory, briefOwed, about, called, loop, at, ghosts>>

\* Its git commands are awaited, and do not ask again whether the Run was aborted.
CommitIsMade(s) ==
    /\ Free("build") /\ job[s] = "committing"
    /\ job' = [job EXCEPT ![s] = "committed"]
    /\ commits' = commits \cup {s}
    /\ UNCHANGED <<runRow, slice, planned, design, gates, escalations, openStep, tokens, saved,
                   memory, briefOwed, about, called, loop, at, ghosts>>

\* Only then is the Slice's row moved.
SlicePasses(s) ==
    /\ Free("build") /\ job[s] = "committed"
    /\ job' = [job EXCEPT ![s] = "passed"]
    /\ slice' = [slice EXCEPT ![s] = "passed"]
    /\ memory' = [memory EXCEPT !.histories = @ \ {s}]
    /\ at' = "checkpoint"
    /\ UNCHANGED <<runRow, planned, commits, design, gates, escalations, openStep, tokens, saved,
                   briefOwed, about, called, loop, telling, owedHint, unheard, offered, mishaps>>

\* A limit, a Loop, or a failure no one owns.  On a spent Token Budget the
\* Slice stops before anyone codes.
SliceEscalates(s) ==
    /\ Running(s)
    /\ \/ slice[s] = "testing" /\ UNCHANGED <<tokens, owedHint, unheard>>
       \/ /\ slice[s] = "building" /\ tokens = 0
          /\ unheard' = unheard \cup ({s} \cap owedHint)
          /\ UNCHANGED <<tokens, owedHint>>
       \/ Codes(s)
    /\ slice' = [slice EXCEPT ![s] = "building"]
    /\ job' = [job EXCEPT ![s] = "escalated"]
    /\ UNCHANGED <<runRow, planned, commits, design, gates, escalations, openStep, saved, memory,
                   briefOwed, about, called, loop, at, telling, offered, mishaps>>

\* A design agent owns the failure, and the Slice's history does not say that it has
\* been sent this very failure before.
SliceNeedsRedesign(s) ==
    /\ Running(s) /\ slice[s] = "testing"
    /\ slice' = [slice EXCEPT ![s] = "building"]
    /\ job' = [job EXCEPT ![s] = "designIssue"]
    /\ UNCHANGED <<runRow, planned, commits, design, gates, escalations, openStep, tokens, saved,
                   memory, briefOwed, about, called, loop, at, ghosts>>

\* The abort reaches the Slice run, or a service it needs fails; a commit fails, or
\* throwing the Workspaces away after it.
SliceThrows(s) ==
    /\ Free("build")
    /\ \/ job[s] = "running" /\ status = "aborted" /\ UNCHANGED mishaps
       \/ /\ job[s] \in {"running", "committing", "committed"}
          /\ mishaps < MaxMishaps /\ mishaps' = mishaps + 1
    /\ job' = [job EXCEPT ![s] = "rejected"]
    /\ UNCHANGED <<runRow, store, saved, memory, briefOwed, about, called, loop, at,
                   telling, owedHint, unheard, offered>>

-----------------------------------------------------------------------------
\* #build, once every Slice run of the batch has settled.

Came(outcome) == {s \in Slice : job[s] = outcome}

\* The Slices that neither passed nor threw, and the first of them in plan
\* order: the one that stops the Run.
Drivers == Came("escalated") \cup Came("designIssue")

Driver == CHOOSE s \in Drivers : \A t \in Drivers : s <= t

\* Mutant: the feedback of a Slice run that threw is dropped too.
KeptHintsOfOthers == memory.hints \ {s \in Slice : job[s] # "none"}

\* Mutant: the Checkpoint is written before the outcomes are kept.
SavesMemoryTooEarly == saved' = memory

\* What they leave for the next attempt; one that threw leaves its feedback.
KeptHints == memory.hints \ (Came("passed") \cup Drivers)

SavesMemory == saved' = memory'

\* Every outcome is kept, and checkpointed, before any of them is acted on.
KeepOutcomes ==
    /\ Free("build") /\ Came("running") \cup Came("committing") \cup Came("committed") = {}
    /\ memory' = [memory EXCEPT !.hints = KeptHints,
                                !.histories = (@ \ Came("passed")) \cup Drivers]
    /\ SavesMemory
    /\ at' = "settled"
    /\ UNCHANGED <<runRow, store, briefOwed, job, about, called, loop, ghosts>>

BatchDone == job' = [s \in Slice |-> "none"]

BatchThrows ==
    /\ at = "settled" /\ Came("rejected") # {}
    /\ IF status = "aborted" THEN Swallow /\ UNCHANGED called
                             ELSE Throw /\ UNCHANGED openStep
    /\ BatchDone /\ at' = "free"
    /\ UNCHANGED <<runRow, slice, planned, commits, design, gates, escalations, tokens, saved,
                   memory, briefOwed, about, ghosts>>

BatchPasses ==
    /\ at = "settled" /\ Came("rejected") = {} /\ Drivers = {}
    /\ BatchDone /\ loop' = "look" /\ at' = "free"
    /\ UNCHANGED <<runRow, store, saved, memory, briefOwed, about, called, ghosts>>

Stops(outcome) == /\ at = "settled" /\ Came("rejected") = {}
                  /\ Drivers # {} /\ job[Driver] = outcome

BatchEscalates ==
    /\ Stops("escalated")
    /\ Limit(EscalationTrigger, Driver)
    /\ BatchDone
    /\ UNCHANGED <<mode, failure, pr, draftOnAbort, store, saved, memory, briefOwed,
                   called, ghosts>>

\* The limit is refused by a Run that was aborted meanwhile.
BatchEscalatesTooLate ==
    /\ Stops("escalated") /\ status = "aborted"
    /\ Swallow /\ BatchDone /\ at' = "free"
    /\ UNCHANGED <<runRow, slice, planned, commits, design, gates, escalations, tokens, saved,
                   memory, briefOwed, about, called, ghosts>>

\* #reopen: the document goes back to drafting, and a building Run to designing.
BatchNeedsRedesign ==
    /\ Stops("designIssue")
    /\ IF status = "building" THEN Move("issueOwnedByDesignAgent") ELSE UNCHANGED status
    /\ design' = "redo"
    /\ memory' = [memory EXCEPT !.revisions = TRUE]
    /\ BatchDone /\ loop' = "look" /\ at' = "checkpoint"
    /\ UNCHANGED <<mode, failure, pr, draftOnAbort, slice, planned, commits, gates, escalations,
                   openStep, tokens, saved, briefOwed, about, called, telling, owedHint, unheard,
                   offered, mishaps>>

-----------------------------------------------------------------------------
\* #review and #sendBack.

StartReview ==
    /\ Free("look") /\ status = "reviewing"
    /\ loop' = "review"
    /\ UNCHANGED <<runRow, store, saved, proc, at, ghosts>>

\* The linters find without spending; the Code Review Agent spends.
Reviews == tokens' = IF tokens = 0 THEN 0 ELSE tokens - 1

\* Mutant: one attempt more than the budget.
MayRefuseOnceMore == memory.reviewRetries <= ReviewRetryBudget

MayRefuseAgain == memory.reviewRetries < ReviewRetryBudget

\* The changes asked for are told to the last Slice that passed.
OwesLastPassed == telling' = {LastPassed} \cap Slice

\* Blocking Findings are a fix for the last Slice, as often as the budget says.
SendBack ==
    /\ Free("review") /\ Reviews
    /\ MayRefuseAgain
    /\ Move("blockingFindings") /\ OwesLastPassed
    /\ memory' = [memory EXCEPT !.reviewRetries = @ + 1]
    /\ at' = "reopenLast" /\ loop' = "look"
    /\ UNCHANGED <<mode, failure, pr, draftOnAbort, slice, planned, commits, design, gates,
                   escalations, openStep, saved, briefOwed, job, about, called,
                   owedHint, unheard, offered, mishaps>>

\* A review whose last turn ended after the abort: the retry is counted before the
\* event is refused, and no Checkpoint says so.
RefusedTooLate ==
    /\ Free("review") /\ Reviews /\ status = "aborted"
    /\ memory' = IF MayRefuseAgain THEN [memory EXCEPT !.reviewRetries = @ + 1] ELSE memory
    /\ Swallow
    /\ UNCHANGED <<runRow, slice, planned, commits, design, gates, escalations, saved, briefOwed,
                   job, about, called, at, ghosts>>

\* The review still refuses the code, or did not finish reading it.
ReviewStops ==
    /\ Free("review") /\ Reviews
    /\ Limit(ReviewLimit, CurrentSlice)
    /\ UNCHANGED <<mode, failure, pr, draftOnAbort, slice, planned, commits, design, gates,
                   escalations, openStep, saved, memory, briefOwed, job, called, ghosts>>

\* The last turn may have finished after an abort: nothing is opened then.
ReviewIsClean ==
    /\ Free("review") /\ tokens > 0 /\ Reviews /\ GoesOn
    /\ loop' = "deliver"
    /\ UNCHANGED <<runRow, slice, planned, commits, design, gates, escalations, openStep, saved,
                   proc, at, ghosts>>

\* Mutant: the last Slice is built again and told nothing.
TellsLastPassedNothing == UNCHANGED memory

TellsLastPassed == memory' = [memory EXCEPT !.hints = @ \cup {LastPassed}]

\* #reopenLastSlice: the feedback waits for the last Slice that passed.
ReopenLast ==
    /\ at = "reopenLast"
    /\ IF LastPassed = 0
       THEN UNCHANGED <<slice, memory>>
       ELSE /\ slice' = [slice EXCEPT ![LastPassed] = "building"]
            /\ TellsLastPassed
    /\ at' = "checkpoint"
    /\ UNCHANGED <<runRow, planned, commits, design, gates, escalations, openStep, tokens, saved,
                   briefOwed, job, about, called, loop, ghosts>>

\* The ready pull request is on the row before the Run has moved.
Deliver ==
    /\ Free("deliver") /\ commits # {}
    /\ pr' = "ready" /\ at' = "prOpened"
    /\ UNCHANGED <<mode, status, failure, draftOnAbort, store, saved, proc, loop, ghosts>>

PrOpened ==
    /\ at = "prOpened" /\ Move("prOpened")
    /\ at' = IF mode = "gated" THEN "openPrGate" ELSE "free"
    /\ loop' = "look"
    /\ UNCHANGED <<mode, failure, pr, draftOnAbort, store, saved, proc, ghosts>>

PrOpenedTooLate ==
    /\ at = "prOpened" /\ status = "aborted"
    /\ Swallow /\ at' = "free"
    /\ UNCHANGED <<runRow, slice, planned, commits, design, gates, escalations, tokens, saved,
                   proc, ghosts>>

OpenPrGate ==
    /\ at = "openPrGate"
    /\ gates' = gates \cup {"pr"} /\ at' = "free"
    /\ UNCHANGED <<runRow, slice, planned, commits, design, escalations, openStep, tokens, saved,
                   proc, loop, ghosts>>

\* There is no Slice Commit, or there is no place to push to.
NothingToDeliver ==
    /\ Free("deliver") /\ Move("nothingToDeliver")
    /\ loop' = "look"
    /\ UNCHANGED <<mode, failure, pr, draftOnAbort, store, saved, proc, at, ghosts>>

Awaiting == {"design", "designUi", "review", "deliver"}

\* What the loop awaits is cut short by the abort it was given.
AwaitAborted ==
    /\ loop \in Awaiting /\ at = "free" /\ status = "aborted"
    /\ Swallow
    /\ UNCHANGED <<runRow, slice, planned, commits, design, gates, escalations, tokens, saved,
                   proc, at, ghosts>>

\* A service outside fails.
AwaitFails ==
    /\ loop \in Awaiting \cup {"owed"} /\ at = "free"
    /\ status # "aborted" \/ loop = "owed"
    /\ mishaps < MaxMishaps /\ mishaps' = mishaps + 1
    /\ Throw
    /\ UNCHANGED <<runRow, store, saved, memory, briefOwed, job, about, at, telling, owedHint,
                   unheard, offered>>

-----------------------------------------------------------------------------
\* The person, between two awaits.  A decision asks for advance again; an abort
\* does only when no loop is there to notice it.

Decides == at = "free" /\ loop # "down" /\ called' = TRUE

RetryDesign ==
    /\ Decides /\ status = "designing" /\ failure = "design"
    /\ failure' = "none"
    /\ UNCHANGED <<mode, status, pr, draftOnAbort, store, saved, memory, briefOwed, job,
                   about, loop, at, ghosts>>

\* One transaction judges every document in review, closes the Gate and moves
\* the Run; what to revise waits in memory until the Checkpoint after it.
DecideDesign ==
    /\ Decides /\ gates = {"design"}
    /\ \/ /\ Move("designApproved")
          /\ design' = "approved" /\ UNCHANGED memory
       \/ /\ Move("designChangesRequested") /\ design = "inReview"
          /\ design' = "redo" /\ memory' = [memory EXCEPT !.revisions = TRUE]
    /\ gates' = {} /\ at' = "checkpoint"
    /\ UNCHANGED <<mode, failure, pr, draftOnAbort, slice, planned, commits, escalations,
                   openStep, tokens, saved, briefOwed, job, about, loop, ghosts>>

\* The Escalation's Slice while it is unfinished, or else the current one.
SliceOf(e) == IF e # 0 /\ Unfinished(e) THEN e ELSE CurrentSlice

\* Escalations are aborted with the box ticked or not; the Run's own answer,
\* if it has one, is the one that counts.
Ticked(draft) == draftOnAbort' = IF draftOnAbort = "unset" THEN draft ELSE draftOnAbort

\* Mutant: the answered Escalation is never closed.
StaysOpen(e) == escalations

StillOpen(e) == escalations \ {e}

\* Nothing but an abort goes on with a spent Token Budget.
Resolve(e, choice) ==
    /\ escalations' = StillOpen(e)
    /\ \/ choice # "abort" /\ tokens > 0 /\ tokens' = tokens
       \/ choice # "abort" /\ tokens < Fuel /\ tokens' = Fuel
       \/ choice = "abort" /\ tokens' = tokens
    /\ about' = SliceOf(e) /\ at' = choice
    /\ UNCHANGED <<mode, status, failure, pr, slice, planned, commits, design, gates, openStep,
                   saved, memory, briefOwed, job, loop, ghosts>>

ResolveEscalation ==
    /\ Decides
    /\ \E e \in escalations, choice \in EscalationChoice, draft \in {"yes", "no"} :
          /\ Resolve(e, choice)
          /\ IF choice = "abort" THEN Ticked(draft) ELSE UNCHANGED draftOnAbort

ApplyResolution ==
    /\ at \in EscalationChoice /\ Move(at)
    /\ at' = CASE at = "skipSlice" -> "skip"
               [] at = "editDocuments" -> "edit"
               [] OTHER -> "checkpoint"
    /\ IF at = "retryWithHint"
       THEN /\ memory' = [memory EXCEPT !.hints = @ \cup ({about} \cap Slice),
                                        !.reviewRetries = 0]
            /\ telling' = {about} \cap Slice
       ELSE UNCHANGED <<memory, telling>>
    /\ about' = IF at = "skipSlice" THEN about ELSE 0
    /\ UNCHANGED <<mode, failure, pr, draftOnAbort, store, saved, briefOwed, job, called,
                   loop, owedHint, unheard, offered, mishaps>>

SkipSlice ==
    /\ at = "skip"
    /\ slice' = [s \in Slice |-> IF s = about THEN "skipped" ELSE slice[s]]
    /\ about' = 0 /\ at' = "checkpoint"
    /\ UNCHANGED <<runRow, planned, commits, design, gates, escalations, openStep, tokens,
                   saved, memory, briefOwed, job, called, loop, ghosts>>

EditDocuments ==
    /\ at = "edit"
    /\ design' = "redo" /\ memory' = [memory EXCEPT !.revisions = TRUE]
    /\ at' = "checkpoint"
    /\ UNCHANGED <<runRow, slice, planned, commits, gates, escalations, openStep, tokens,
                   saved, briefOwed, job, about, called, loop, ghosts>>

DecidePullRequest ==
    /\ Decides /\ gates = {"pr"} /\ status = "awaitingPrGate"
    /\ gates' = {}
    /\ at' \in {"prApproved", "prChangesRequested"}
    /\ UNCHANGED <<runRow, slice, planned, commits, design, escalations, openStep, tokens,
                   saved, memory, briefOwed, job, about, loop, ghosts>>

ApplyPrDecision ==
    /\ at \in {"prApproved", "prChangesRequested"} /\ Move(at)
    /\ \/ at = "prApproved" /\ at' = "checkpoint" /\ UNCHANGED telling
       \/ at = "prChangesRequested" /\ at' = "reopenLast" /\ OwesLastPassed
    /\ UNCHANGED <<mode, failure, pr, draftOnAbort, store, saved, proc, loop, owedHint, unheard,
                   offered, mishaps>>

\* Mutant: an abort waits for a loop to notice it.
AbortAsksNothing == UNCHANGED called

AbortAsksAdvance == called' = (called \/ loop = "off")

Abort ==
    /\ at = "free" /\ loop # "down" /\ AbortAsksAdvance
    /\ \E draft \in {"yes", "no"} :
          /\ draftOnAbort' = draft
          /\ \/ status \notin Finished \cup {"escalated"} /\ at' = "applyAborted"
             \/ status = "aborted" /\ pr = "none" /\ at' = "free"
    /\ UNCHANGED <<mode, status, failure, pr, store, saved, memory, briefOwed, job, about,
                   loop, ghosts>>

AbortEscalated ==
    /\ at = "free" /\ loop # "down" /\ status = "escalated" /\ AbortAsksAdvance
    /\ \E e \in escalations, draft \in {"yes", "no"} : Resolve(e, "abort") /\ Ticked(draft)

ApplyAborted ==
    /\ at = "applyAborted" /\ Move("aborted")
    /\ at' = "free"
    /\ UNCHANGED <<mode, failure, pr, draftOnAbort, store, saved, proc, loop, ghosts>>

-----------------------------------------------------------------------------
\* The process dies, and another resumes what was unfinished.

\* A Coding Agent may have been in the middle of a Step.  Feedback that the stretch
\* under way was about to keep goes with the process.
Crash ==
    /\ at = "free" \/ CrashAnywhere
    /\ loop # "down" /\ mishaps < MaxMishaps /\ mishaps' = mishaps + 1
    /\ \/ UNCHANGED openStep
       \/ (\E s \in Slice : job[s] = "running" /\ slice[s] = "building") /\ openStep' = TRUE
    /\ memory' = EmptyMemory /\ briefOwed' = FALSE /\ job' = [s \in Slice |-> "none"]
    /\ about' = 0 /\ called' = FALSE /\ loop' = "down" /\ at' = "free"
    /\ telling' = {}
    /\ UNCHANGED <<runRow, slice, planned, commits, design, gates, escalations, tokens, saved,
                   owedHint, unheard, offered>>

\* resumeUnfinished: an unfinished Run is advanced, unless it waits for a person
\* to retry the design; a finished one only if its abort left a Step running.
Restart ==
    /\ loop = "down"
    /\ memory' = saved /\ loop' = "off"
    /\ openStep' = (openStep /\ status \in Finished)
    /\ called' = \/ status \notin Finished /\ ~WaitsForDesignRetry
                 \/ status = "aborted" /\ openStep
    /\ UNCHANGED <<runRow, slice, planned, commits, design, gates, escalations, tokens, saved,
                   briefOwed, job, about, at, ghosts>>

-----------------------------------------------------------------------------
Looks == \/ StartAdvance \/ WaitForPerson \/ WaitAtPrGate \/ EscalationMissing
         \/ StartBrief \/ EndBrief \/ StartOwedDelivery \/ EndOwedDelivery

Synchronous == \/ Checkpoint \/ OpenEscalation \/ RecordFailure \/ ReopenLast \/ OpenPrGate
               \/ ApplyResolution \/ SkipSlice \/ EditDocuments \/ ApplyPrDecision \/ ApplyAborted

Designs == StartDesign \/ SystemDesigned \/ DesignReady \/ DesignFails

SliceRun(s) == \/ SliceTests(s) \/ SliceStepStops(s) \/ SliceRetries(s) \/ SliceCommits(s)
               \/ CommitIsMade(s) \/ SlicePasses(s) \/ SliceEscalates(s) \/ SliceNeedsRedesign(s)
               \/ SliceThrows(s)

Builds == \/ AllSlicesCommitted \/ SliceNotPlanned \/ StartBatch
          \/ \E s \in Slice : SliceRun(s)
          \/ KeepOutcomes \/ BatchThrows \/ BatchPasses \/ BatchEscalates
          \/ BatchEscalatesTooLate \/ BatchNeedsRedesign

Reviewing == \/ StartReview \/ SendBack \/ RefusedTooLate \/ ReviewStops \/ ReviewIsClean
             \/ Deliver \/ PrOpened \/ PrOpenedTooLate \/ NothingToDeliver

\* What the process does by itself, the faults it meets excepted.
Process == Looks \/ Synchronous \/ Designs \/ Builds \/ Reviewing \/ AwaitAborted \/ Restart

Person == \/ RetryDesign \/ DecideDesign \/ ResolveEscalation \/ DecidePullRequest
          \/ Abort \/ AbortEscalated

Next == Process \/ Person \/ AwaitFails \/ Crash

\* The event loop runs what is ready and a service answers or fails, so the
\* process always goes on; a person, a fault and a crash owe nothing.
Spec == Init /\ [][Next]_vars /\ WF_vars(Process)

-----------------------------------------------------------------------------
RowsType ==
    /\ mode \in Modes /\ status \in RunStatus
    /\ failure \in {"none", "design", "limit"} /\ pr \in {"none", "draft", "ready"}
    /\ draftOnAbort \in {"unset", "yes", "no"}
    /\ slice \in [Slice -> SliceStatus \cup {"absent"}]
    /\ planned \in SUBSET Slice /\ commits \in SUBSET Slice
    /\ design \in {"missing", "redo", "inReview", "approved"}
    /\ gates \in SUBSET {"design", "pr"} /\ escalations \in SUBSET (Slice \cup {0})
    /\ tokens \in 0..Fuel

ProcessType ==
    /\ loop \in {"down", "off", "look", "design", "designUi", "build", "review", "deliver",
                 "owed", "brief"}
    /\ job \in [Slice -> {"none", "running", "committing", "committed", "passed", "escalated",
                          "designIssue", "rejected"}]
    /\ at \in {"free", "checkpoint", "openEscalation", "limitFailed", "designFailed",
               "openPrGate", "prOpened", "applyAborted", "skip", "edit", "prApproved",
               "prChangesRequested", "reopenLast", "settled"} \cup EscalationChoice
    /\ about \in Slice \cup {0}
    /\ telling \in SUBSET Slice /\ owedHint \in SUBSET Slice /\ unheard \in SUBSET Slice
    /\ mishaps \in 0..MaxMishaps

MemoryType == memory \in Memory /\ saved \in Memory

FlagsType == openStep \in BOOLEAN /\ briefOwed \in BOOLEAN /\ called \in BOOLEAN /\ offered \in BOOLEAN

TypeOK == RowsType /\ ProcessType /\ MemoryType /\ FlagsType

\* What a restart would read is what the process carries, whenever anything
\* but a synchronous stretch is under way: a process that dies there loses
\* nothing it had decided or been told (saveCheckpoint).  The one thing that may be
\* ahead is the retry a review counts for a Run that was aborted while it read.
CheckpointIsCurrent ==
    at = "free" /\ loop # "down"
      => \/ saved = memory
         \/ status = "aborted" /\ memory = [saved EXCEPT !.reviewRetries = @ + 1]

\* Feedback that a Checkpoint kept and no Coding Agent has had is waiting for its Slice,
\* in the memory and in the Checkpoint, across decisions, peers in the batch, deaths at any
\* transaction and restarts (hints, #sliceCheckpoint).  It is dropped with a Slice that is
\* skipped, and with a Slice run that stops on a spent Token Budget before anyone codes.
UndeliveredHintsAreKept ==
    \A s \in owedHint \ unheard :
       \/ slice[s] = "skipped"
       \/ s \in saved.hints /\ (loop # "down" => s \in memory.hints)

\* The open Gate is the one the Run waits at, so openGate is never refused, and
\* a Run that waits at a Gate has it: a person can always answer.
GateMatchesStatus ==
    /\ at = "free" /\ status # "aborted"
         => gates \subseteq CASE status = "awaitingDesignGate" -> {"design"}
                              [] status = "awaitingPrGate" -> {"pr"}
                              [] OTHER -> {}
    /\ status = "awaitingDesignGate" => gates = {"design"}
    /\ status = "awaitingPrGate" /\ loop = "off" /\ at = "free" /\ ~called => gates = {"pr"}

\* A Run is escalated exactly while one Escalation waits for an answer.
EscalationMatchesStatus ==
    /\ at = "free" => (status = "escalated" <=> escalations # {})
    /\ \A e, f \in escalations : e = f

\* Nothing is reviewed, shown at the PR Gate or called done with a Slice unbuilt.
NothingUnbuiltIsReviewed ==
    at = "free" /\ status \in {"reviewing", "awaitingPrGate", "done"}
      => \A s \in Slice : slice[s] \in {"absent", "passed", "skipped"}

\* No Slice is built beside one it depends on (nextBatch).
BuildsAfterItsDependencies ==
    \A s \in Slice : job[s] = "running" =>
        \A t \in DependsOn[s] : slice[t] \in {"absent", "passed", "skipped"}

\* After an abort no Test Run begins, no Slice begins to be committed, only what was
\* being committed still is, and nothing of the plan goes further than the await it was
\* at, except to deliver (#stopIfAborted).
AbortStopsWork ==
    [][status = "aborted" =>
         /\ \A s \in Slice :
               /\ slice'[s] = "testing" => slice[s] = "testing"
               /\ (job'[s] = "committing" \/ s \in commits' \ commits) => job[s] = "committing"
         /\ loop' \in {loop, "down", "off", "look", "designUi", "owed"}]_vars

\* The loop never works for ever on one status: the Run moves or the loop ends,
\* unless a person keeps asking for a failed design again.
AdvanceEnds ==
    \A st \in {"designing", "building", "reviewing", "escalated"} :
       status = st /\ loop \notin {"off", "down"}
         ~> status # st \/ loop \in {"off", "down"} \/ (st = "designing" /\ called)

\* A Run that stopped early has its Draft PR, or its delivery ran its course.
StoppedRunIsOffered ==
    status \in {"failed", "aborted"} ~> offered \/ pr # "none"

\* A Run that failed offers the Slice Commits it has, also when its process dies
\* or the first push fails.
FailedRunIsOffered == status = "failed" /\ commits # {} ~> offered
=============================================================================
