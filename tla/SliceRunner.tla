----------------------------- MODULE SliceRunner -----------------------------
(***************************************************************************)
(* One Slice through the Slice Runner                                      *)
(* (packages/core/src/orchestrator/sliceRunner.ts), call after call: each  *)
(* side's Coding Agent writes in its own Workspace, the Workspaces are     *)
(* merged, the merge is tested, and becomes a Slice Commit when the Test   *)
(* Run passes.  Around it are what the orchestrator does between two calls *)
(* (runOrchestrator.ts), the git Workspaces (workspaceManager.ts), the     *)
(* death and return of the process (resumeRun.ts), and a Slice built       *)
(* beside this one that takes its turn at the run branch (mutex.ts).       *)
(*                                                                         *)
(* `pc` is the await the call is at; what runs between two awaits is one   *)
(* action.  Code appears as what can be said of it: a side saved some      *)
(* since its Workspace was opened, the Workspace was opened before the     *)
(* last Slice Commit.  A failure of a Test Run is a signature and the      *)
(* Owner it gets.  What a side is told is left out, because nothing here   *)
(* is decided by it.                                                       *)
(***************************************************************************)
EXTENDS Integers, FiniteSets

CONSTANTS
    Sides,          \* codingSides: the sides this Slice builds
    Failures,       \* the signatures a failure may have
    RetryBudget,    \* how often a Task may loop back
    Events,         \* what may happen to the Slice from outside, of Event
    MaxEvents       \* bound: how often any of it does

CodingSide == {"backend", "frontend"}

Event == {"crash", "fault", "hint", "abort", "peer", "tokens"}

ASSUME ConstantsAssumption ==
    /\ Sides \subseteq CodingSide /\ Sides # {}
    /\ IsFiniteSet(Failures)
    /\ RetryBudget \in Nat
    /\ Events \subseteq Event /\ MaxEvents \in Nat

VARIABLES
    \* The database.
    status,         \* the Slice's
    retries,        \* side -> retries of its Task
    built,          \* the sides with a completed Step
    running,        \* the sides with a running Step
    kept,           \* the Slice's part of the Checkpoint: [history, hint]
    \* Git.
    work,           \* side -> its Workspace: "absent", "clean" or "saved"
    behind,         \* the sides whose Workspace was opened before the last Slice Commit
    onHead,         \* the merge is onto the last Slice Commit
    \* The process.
    pc,             \* "down", "out" (no call), or the await the call is at
    coders,         \* the sides coding on this attempt
    ended,          \* side -> how its Step ended on this attempt, or how far it is
    reports,        \* the last Test Run's failures: signature -> Owner
    tested,         \* a Test Run of this call has failed (lastReports)
    history,        \* what the call carries from attempt to attempt
    outcome,        \* what the last call returned, or "none"
    turn,           \* who holds the integration mutex: "free", "mine" or "peer"
    tokens,         \* is anything left of the Token Budget?
    aborted,
    \* History, read by properties only.
    fate,           \* side -> is the code of its completed Steps "none", "kept" or "lost"?
    asked,          \* side -> its retries when somebody last asked for an attempt
    lapsed,         \* a call ended with its retry baseline in no Checkpoint
    unrun,          \* the sides with a retry counted for an attempt that has not begun
    routed,         \* side -> the failures it was sent back for
    untested,       \* what counted as a change since the call's last Test Run, of Change
    events          \* how many of MaxEvents happened

db     == <<status, retries, built, running>>
git    == <<work, behind, onHead>>
call   == <<coders, ended, reports, tested, history>>
world  == <<turn, tokens, aborted>>
ghosts == <<fate, asked, lapsed, unrun, routed, untested>>
vars   == <<db, kept, git, pc, call, outcome, world, ghosts, events>>

-----------------------------------------------------------------------------
Owner == CodingSide \cup {"design", "human"}

\* A Step saved code, or wrote files over as they were.
Change == {"saved", "rewritten"}

NotCoding == [s \in Sides |-> "idle"]

NoReports == [f \in {} |-> "human"]

\* SliceHistory; a side without a retry baseline has -1.
NoHistory == [earlier  |-> [s \in Sides |-> {}], design |-> {},
              baseline |-> [s \in Sides |-> -1], pending |-> {}]

\* The sides whose Step ended so, the failures that are o's, and the sides with some.
How(e) == {s \in coders : ended[s] = e}

Owned(o) == {f \in DOMAIN reports : reports[f] = o}

AtFault == {s \in Sides : Owned(s) # {}}

\* decideRetry: a Loop, a spent Token Budget and a spent Retry Budget escalate.
MayRetry(s, failures) ==
    /\ failures \cap history.earlier[s] = {}
    /\ tokens
    /\ retries[s] - history.baseline[s] < RetryBudget

\* hint.sides: the sides the hint names, or all of them.
Named(hint) == IF hint \cap Sides = {} THEN Sides ELSE hint \cap Sides

\* #firstAttempt: who codes first, by a hint, by the attempt a restart goes on with, or
\* everybody; a side that has built nothing always does.
FirstAttempt ==
    IF kept.hint # {} THEN Named(kept.hint) \cup (Sides \ built)
    ELSE IF kept.history.pending # {} THEN kept.history.pending \cup (Sides \ built)
    ELSE Sides

\* Mutant: a first call does not begin a Retry Budget.
BaselineAsKept == kept.history.baseline

\* Mutant: every call begins a Retry Budget of its own.
BaselineOfCall == retries

\* The Retry Budget is refilled by a hint, and begins with the first call.
Baseline ==
    [s \in Sides |-> IF kept.hint # {} \/ kept.history.baseline[s] = -1
                     THEN retries[s] ELSE kept.history.baseline[s]]

Init ==
    /\ status = "pending" /\ retries = [s \in Sides |-> 0]
    /\ built = {} /\ running = {}
    /\ kept = [history |-> NoHistory, hint |-> {}]
    /\ work = [s \in Sides |-> "absent"] /\ behind = {} /\ onHead = FALSE
    /\ pc = "out" /\ coders = {} /\ ended = NotCoding /\ reports = NoReports
    /\ tested = FALSE /\ history = NoHistory /\ outcome = "none"
    /\ turn = "free" /\ tokens = TRUE /\ aborted = FALSE
    /\ fate = [s \in Sides |-> "none"] /\ asked = [s \in Sides |-> 0]
    /\ lapsed = FALSE /\ unrun = {} /\ routed = [s \in Sides |-> {}]
    /\ untested = {}
    /\ events = 0

Happens(event) == event \in Events /\ events < MaxEvents /\ events' = events + 1

-----------------------------------------------------------------------------
(* How a call ends. *)

EscalationTrigger == {"loop", "tokenBudget", "retryBudget", "undecidableOwner"}

\* Mutant: a retry that is not written on its Task.
RetryUncounted(S) == retries

CountRetry(S) == [s \in Sides |-> IF s \in S THEN retries[s] + 1 ELSE retries[s]]

\* Mutant: the sides that may still retry are counted before one escalates for all.
EscalateAfterCounting(trigger) ==
    LET counted == {s \in AtFault : MayRetry(s, Owned(s))}
    IN  /\ pc' = "returned" /\ outcome' = trigger
        /\ status' = "building"
        /\ history' = [history EXCEPT !.pending = {}]
        /\ coders' = {} /\ ended' = NotCoding /\ reports' = NoReports
        /\ retries' = CountRetry(counted) /\ unrun' = unrun \cup counted
        /\ UNCHANGED <<routed, kept>>

\* #escalate: the Slice waits in building, and no attempt is under way.
Escalate(trigger) ==
    /\ pc' = "returned" /\ outcome' = trigger
    /\ status' = "building"
    /\ history' = [history EXCEPT !.pending = {}]
    /\ coders' = {} /\ ended' = NotCoding /\ reports' = NoReports
    /\ UNCHANGED <<retries, unrun, routed, kept>>

Throw ==
    /\ pc' = "returned" /\ outcome' = "threw"
    /\ coders' = {} /\ ended' = NotCoding /\ reports' = NoReports

\* #stopIfAborted: what is about to begin does not, once the Run is aborted.
ThrowsIfAborted == aborted /\ Throw

\* #retry: each side in S codes again.
Retry(S) ==
    /\ retries' = CountRetry(S)
    /\ coders' = S
    /\ ended' = NotCoding
    /\ unrun' = unrun \cup S
    /\ pc' = "top"

\* Which limit a side met that may not retry.
Limit(s, failures) ==
    IF failures \cap history.earlier[s] # {} THEN "loop"
    ELSE IF ~tokens THEN "tokenBudget" ELSE "retryBudget"

\* The first of the sides that may not retry speaks for all: the backend, if it is one.
FirstOf(S) == IF "backend" \in S THEN "backend" ELSE CHOOSE s \in S : TRUE

-----------------------------------------------------------------------------
(* One call of runSlice. *)

\* The orchestrator builds a Slice that has not passed, while its Run goes on.
StartCall ==
    /\ pc = "out" /\ status # "passed" /\ outcome \in {"none", "designIssue"} /\ ~aborted
    /\ pc' = "top" /\ status' = "building"
    /\ coders' = FirstAttempt /\ ended' = NotCoding /\ tested' = FALSE
    /\ history' = [kept.history EXCEPT !.baseline = Baseline, !.pending = {}]
    /\ outcome' = "none"
    /\ UNCHANGED <<retries, built, running, kept, git, reports, world, ghosts, events>>

BudgetSpent ==
    /\ pc = "top" /\ ~tokens
    /\ Escalate("tokenBudget")
    /\ UNCHANGED <<built, running, git, tested, world, fate, asked, lapsed, untested, events>>

\* Every side's Workspace is opened, a missing one at the last Slice Commit; then
\* each side that codes starts its Step, which a Task with a running Step refuses.
StartAttempt ==
    /\ pc = "top" /\ tokens
    /\ work' = [s \in Sides |-> IF work[s] = "absent" THEN "clean" ELSE work[s]]
    /\ ended' = [s \in Sides |-> IF s \notin coders THEN "idle"
                                 ELSE IF s \in running THEN "threw" ELSE "coding"]
    /\ running' = running \cup coders
    /\ unrun' = unrun \ coders
    /\ pc' = "coding"
    /\ UNCHANGED <<status, retries, built, kept, behind, onHead, coders, reports, tested,
                   history, outcome, world, fate, asked, lapsed, routed, untested, events>>

\* The agent is interrupted, by the abort or a fault, and its Step discarded; a
\* fault in saving what it wrote leaves the Step running.
StepThrows(s) ==
    /\ pc = "coding" /\ ended[s] = "coding"
    /\ \/ aborted /\ running' = running \ {s} /\ UNCHANGED events
       \/ /\ Happens("fault")
          /\ running' \in {running, running \ {s}}
    /\ ended' = [ended EXCEPT ![s] = "threw"]
    /\ UNCHANGED <<status, retries, built, kept, git, pc, coders, reports, tested, history,
                   outcome, world, ghosts>>

\* It stopped with nothing to keep: its Step is discarded.
StepStops(s) ==
    /\ pc = "coding" /\ ended[s] = "coding"
    /\ \E why \in {"stopped"} \cup (IF tokens THEN {} ELSE {"budget"}) :
           ended' = [ended EXCEPT ![s] = why]
    /\ running' = running \ {s}
    /\ UNCHANGED <<status, retries, built, kept, git, pc, coders, reports, tested, history,
                   outcome, world, ghosts, events>>

Completes(s) ==
    /\ built' = built \cup {s} /\ running' = running \ {s}
    /\ fate' = [fate EXCEPT ![s] = IF work[s] = "saved" THEN "kept" ELSE "none"]

\* It answered, and wrote nothing new.
StepChangesNothing(s) ==
    /\ pc = "coding" /\ ended[s] = "coding"
    /\ ended' = [ended EXCEPT ![s] = "unchanged"]
    /\ Completes(s)
    /\ UNCHANGED <<status, retries, kept, git, pc, coders, reports, tested, history, outcome,
                   world, asked, lapsed, unrun, routed, untested, events>>

\* What it wrote is saved first ...
StepSaves(s) ==
    /\ pc = "coding" /\ ended[s] = "coding"
    /\ ended' = [ended EXCEPT ![s] = "saved"]
    /\ work' = [work EXCEPT ![s] = "saved"] /\ untested' = untested \cup {"saved"}
    /\ UNCHANGED <<db, kept, behind, onHead, pc, coders, reports, tested, history,
                   outcome, world, fate, asked, lapsed, unrun, routed, events>>

\* ... and then the Step is complete, even one whose turns ran out.
StepCompletes(s) ==
    /\ pc = "coding" /\ ended[s] = "saved"
    /\ \E how \in {"changed"} \cup (IF tokens THEN {} ELSE {"budget"}) :
           ended' = [ended EXCEPT ![s] = how]
    /\ Completes(s)
    /\ UNCHANGED <<status, retries, kept, git, pc, coders, reports, tested, history, outcome,
                   world, asked, lapsed, unrun, routed, untested, events>>

\* Its turns ran out, and the files it wrote are as they were: nothing is saved, and
\* the Step counts as a change all the same.
StepRewrites(s) ==
    /\ pc = "coding" /\ ended[s] = "coding"
    /\ \E how \in {"changed"} \cup (IF tokens THEN {} ELSE {"budget"}) :
           ended' = [ended EXCEPT ![s] = how]
    /\ untested' = untested \cup {"rewritten"}
    /\ Completes(s)
    /\ UNCHANGED <<status, retries, kept, git, pc, coders, reports, tested, history, outcome,
                   world, asked, lapsed, unrun, routed, events>>

\* Promise.allSettled: every Step ends before anything else happens.
Settled == pc = "coding" /\ \A s \in coders : ended[s] \notin {"coding", "saved"}

AttemptThrows ==
    /\ Settled /\ How("threw") # {}
    /\ Throw
    /\ UNCHANGED <<db, kept, git, tested, history, world, ghosts, events>>

AttemptOverBudget ==
    /\ Settled /\ How("threw") = {} /\ How("budget") # {}
    /\ Escalate("tokenBudget")
    /\ UNCHANGED <<built, running, git, tested, world, fate, asked, lapsed, untested, events>>

\* A side that stopped part-way codes again, and nothing is tested.
RedoStopped ==
    /\ Settled /\ How("threw") \cup How("budget") = {} /\ How("stopped") # {}
    /\ \A s \in How("stopped") : MayRetry(s, {})
    /\ Retry(How("stopped"))
    /\ UNCHANGED <<status, built, running, kept, git, reports, tested, history, outcome, world,
                   fate, asked, lapsed, routed, untested, events>>

StoppedTooOften ==
    /\ Settled /\ How("threw") \cup How("budget") = {}
    /\ LET spent == {s \in How("stopped") : ~MayRetry(s, {})}
       IN  spent # {} /\ Escalate(Limit(FirstOf(spent), {}))
    /\ UNCHANGED <<built, running, git, tested, world, fate, asked, lapsed, untested, events>>

\* Mutant: unchanged code is tested again.
NeverUnchanged == FALSE

\* A Test Run has failed, and no side that coded since changed anything.
Unchanged == tested /\ coders = How("unchanged")

UnchangedEscalates ==
    /\ Settled /\ Unchanged
    /\ Escalate("loop")
    /\ UNCHANGED <<built, running, git, tested, world, fate, asked, lapsed, untested, events>>

AskForTurn ==
    /\ Settled /\ coders = How("changed") \cup How("unchanged") /\ ~Unchanged
    /\ \/ ThrowsIfAborted
       \/ /\ ~aborted /\ pc' = "waiting"
          /\ coders' = {} /\ ended' = NotCoding /\ UNCHANGED <<reports, outcome>>
    /\ UNCHANGED <<db, kept, git, tested, history, world, ghosts, events>>

-----------------------------------------------------------------------------
(* The turn at the run branch: merge, test, commit. *)

TakeTurn ==
    /\ pc = "waiting" /\ turn = "free"
    /\ turn' = "mine" /\ pc' = "merging" /\ onHead' = TRUE
    /\ UNCHANGED <<db, kept, work, behind, call, outcome, tokens, aborted, ghosts, events>>

\* Mutant: the turn is given back before the Test Run.
TurnDuringTest == "free"

TurnOfTest == "mine"

\* The merge is onto the last Slice Commit; nothing is tested after an abort.
Merges ==
    /\ pc = "merging"
    /\ IF aborted
       THEN Throw /\ turn' = "free" /\ UNCHANGED status
       ELSE /\ pc' = "testing" /\ status' = "testing" /\ turn' = TurnOfTest
            /\ UNCHANGED <<coders, ended, reports, outcome>>
    /\ UNCHANGED <<retries, built, running, kept, git, tested, history, tokens, aborted, ghosts,
                   events>>

Saved == {s \in Sides : work[s] = "saved"}

\* The two sides wrote the same lines.
SidesConflict ==
    /\ pc = "merging" /\ behind = {} /\ Cardinality(Saved) > 1
    /\ Escalate("undecidableOwner") /\ turn' = "free"
    /\ UNCHANGED <<built, running, git, tested, tokens, aborted, fate, asked, lapsed, untested,
                   events>>

\* isBehind: a Slice committed beside this one may be what it conflicts with, so
\* its Workspaces are thrown away.
PeerConflict ==
    /\ pc = "merging" /\ behind # {} /\ Saved # {}
    /\ work' = [s \in Sides |-> "absent"] /\ behind' = {}
    /\ fate' = [s \in Sides |-> IF fate[s] = "kept" THEN "lost" ELSE fate[s]]
    /\ pc' = "discarded" /\ untested' = {}
    /\ UNCHANGED <<db, kept, onHead, call, outcome, world, asked, lapsed, unrun, routed, events>>

\* The Slice's part of the Checkpoint when it says "retrying": the hint was for
\* the first attempt, and the history now says who codes.
SaveRetrying(earlier) ==
    /\ history' = [history EXCEPT !.earlier = earlier, !.pending = coders']
    /\ kept' = [history |-> history', hint |-> {}]

\* Every side builds the Slice again on top of its peer's.
StartOver ==
    /\ pc = "discarded" /\ \A s \in Sides : MayRetry(s, {})
    /\ Retry(Sides)
    /\ SaveRetrying(history.earlier)
    /\ turn' = "free"
    /\ UNCHANGED <<status, built, running, git, reports, tested, outcome, tokens, aborted, fate,
                   asked, lapsed, routed, untested, events>>

StartedOverTooOften ==
    /\ pc = "discarded"
    /\ LET spent == {s \in Sides : ~MayRetry(s, {})}
       IN  spent # {} /\ Escalate(Limit(FirstOf(spent), {}))
    /\ turn' = "free"
    /\ UNCHANGED <<built, running, git, tested, tokens, aborted, fate, asked, lapsed, untested,
                   events>>

\* A Slice that passed after the abort is not committed to its Run.
TestPasses ==
    /\ pc = "testing"
    /\ IF aborted
       THEN Throw /\ turn' = "free"
       ELSE pc' = "committing" /\ UNCHANGED <<coders, ended, reports, outcome, turn>>
    /\ untested' = {}
    /\ UNCHANGED <<db, kept, git, tested, history, tokens, aborted, fate, asked, lapsed, unrun,
                   routed, events>>

\* A Test Run that fails has at least one Issue Report.
TestFails ==
    /\ pc = "testing"
    /\ \E failing \in SUBSET Failures \ {{}} : reports' \in [failing -> Owner]
    /\ tested' = TRUE /\ untested' = {} /\ turn' = "free" /\ pc' = "routing"
    /\ UNCHANGED <<db, kept, git, coders, ended, history, outcome, tokens, aborted, fate, asked,
                   lapsed, unrun, routed, events>>

\* commitSlice refuses a merge onto anything but the last Slice Commit.
Commits ==
    /\ pc = "committing"
    /\ IF onHead
       THEN /\ pc' = "committed" /\ behind' = {s \in Sides : work[s] # "absent"}
            /\ UNCHANGED <<coders, ended, reports, outcome, turn>>
       ELSE Throw /\ turn' = "free" /\ UNCHANGED behind
    /\ UNCHANGED <<db, kept, work, onHead, tested, history, tokens, aborted, ghosts, events>>

\* The run branch has moved: the Slice's Workspaces are thrown away.
DiscardCommitted ==
    /\ pc = "committed"
    /\ work' = [s \in Sides |-> "absent"] /\ behind' = {}
    /\ fate' = [s \in Sides |-> "none"]
    /\ pc' = "cleared"
    /\ UNCHANGED <<db, kept, onHead, call, outcome, world, asked, lapsed, unrun, routed,
                   untested, events>>

Passes ==
    /\ pc = "cleared"
    /\ pc' = "returned" /\ outcome' = "passed" /\ status' = "passed"
    /\ kept' = [kept EXCEPT !.history = NoHistory]
    /\ coders' = {} /\ ended' = NotCoding /\ turn' = "free"
    /\ routed' = [s \in Sides |-> {}]
    /\ UNCHANGED <<retries, built, running, git, reports, tested, history, tokens, aborted, fate,
                   asked, lapsed, unrun, untested, events>>

-----------------------------------------------------------------------------
(* After a failed Test Run: routeIssues, in diagram 7's order. *)

\* The failures that go to a design agent: its document is wrong.
ByDocuments == Owned("human") = {} /\ Owned("design") # {}

\* Otherwise the sides with failures of their own code again.
ByCode == Owned("human") \cup Owned("design") = {}

Undecidable ==
    /\ pc = "routing"
    /\ Owned("human") # {} \/ (ByCode /\ \E o \in CodingSide \ Sides : Owned(o) # {})
    /\ Escalate("undecidableOwner")
    /\ UNCHANGED <<built, running, git, tested, world, fate, asked, lapsed, untested, events>>

\* A revision that did not help is a Loop too.
RevisionDidNotHelp ==
    /\ pc = "routing" /\ ByDocuments /\ Owned("design") \cap history.design # {}
    /\ Escalate("loop")
    /\ UNCHANGED <<built, running, git, tested, world, fate, asked, lapsed, untested, events>>

ReviseDocuments ==
    /\ pc = "routing" /\ ByDocuments /\ Owned("design") \cap history.design = {}
    /\ history' = [history EXCEPT !.design = @ \cup Owned("design"), !.pending = {}]
    /\ status' = "building" /\ pc' = "returned" /\ outcome' = "designIssue"
    /\ coders' = {} /\ ended' = NotCoding /\ reports' = NoReports
    /\ UNCHANGED <<retries, built, running, kept, git, tested, world, ghosts, events>>

Routable == pc = "routing" /\ ByCode /\ \A o \in CodingSide \ Sides : Owned(o) = {}

\* Every owning side may retry: what each is sent back for is remembered, and the
\* Checkpoint says so.
RetryCoding ==
    /\ Routable /\ \A s \in AtFault : MayRetry(s, Owned(s))
    /\ Retry(AtFault)
    /\ SaveRetrying([s \in Sides |-> history.earlier[s] \cup Owned(s)])
    /\ routed' = [s \in Sides |-> routed[s] \cup Owned(s)]
    /\ status' = "building" /\ reports' = NoReports
    /\ UNCHANGED <<built, running, git, tested, outcome, world, fate, asked, lapsed, untested,
                   events>>

\* One that may not escalates for all, and no retry is counted.
MayNotRetry ==
    /\ Routable
    /\ LET spent == {s \in AtFault : ~MayRetry(s, Owned(s))}
       IN  spent # {} /\ Escalate(Limit(FirstOf(spent), Owned(FirstOf(spent))))
    /\ UNCHANGED <<built, running, git, tested, world, fate, asked, lapsed, untested, events>>

-----------------------------------------------------------------------------
(* Between two calls: #build keeps the outcome; a person or a review asks for *)
(* another attempt; the process dies and another resumes the Run.           *)

\* Mutant: a Slice that stops leaves no history behind.
HistoryForgotten == NoHistory

HistoryOfOutcome == history

\* Retries the next call would not know of: the call threw, or its process died,
\* before a Checkpoint said how many had been counted when its budget began.
Unwritten ==
    /\ status # "passed"
    /\ \E s \in Sides : /\ kept.hint # {} \/ kept.history.baseline[s] = -1
                        /\ retries[s] > asked[s]

\* Every Slice of the batch has ended, so no peer has the turn.
KeepOutcome ==
    /\ pc = "returned" /\ turn # "peer" /\ pc' = "out"
    /\ kept' = CASE outcome = "threw"  -> kept
                 [] outcome = "passed" -> [kept EXCEPT !.hint = {}]
                 [] OTHER -> [history |-> HistoryOfOutcome, hint |-> {}]
    /\ lapsed' = (lapsed \/ (outcome = "threw" /\ Unwritten))
    /\ history' = NoHistory /\ tested' = FALSE /\ reports' = NoReports
    /\ unrun' = {} /\ untested' = {}
    /\ UNCHANGED <<db, git, coders, ended, outcome, world, fate, asked, routed, events>>

\* A hint at the Escalation, for the sides it names; the Token Budget is raised if need be.
RetryWithHint ==
    /\ pc = "out" /\ outcome \in EscalationTrigger /\ ~aborted /\ Happens("hint")
    /\ \E sides \in SUBSET CodingSide \ {{}} : kept' = [kept EXCEPT !.hint = sides]
    /\ tokens' = TRUE /\ outcome' = "none"
    /\ asked' = retries
    /\ UNCHANGED <<db, git, pc, call, turn, aborted, fate, lapsed, unrun, routed, untested>>

\* Any other way on, for this Slice or the Run's other Slices, brings no hint.
GoOnWithoutHint ==
    /\ pc = "out" /\ outcome \in EscalationTrigger /\ ~aborted
    /\ tokens' = TRUE /\ outcome' = "none"
    /\ UNCHANGED <<db, kept, git, pc, call, turn, aborted, ghosts, events>>

\* #reopenLastSlice: the PR Gate's changes and blocking Findings are for every side.
Reopen ==
    /\ pc = "out" /\ status = "passed" /\ ~aborted /\ Happens("hint")
    /\ status' = "building" /\ kept' = [kept EXCEPT !.hint = CodingSide]
    /\ asked' = retries /\ outcome' = "none"
    /\ UNCHANGED <<retries, built, running, git, pc, call, world, fate, lapsed, unrun, routed,
                   untested>>

Abort == /\ ~aborted /\ aborted' = TRUE /\ Happens("abort")
         /\ UNCHANGED <<db, kept, git, pc, call, outcome, turn, tokens, ghosts>>

\* Other agents of the Run spend the Token Budget too.
SpendTokens ==
    /\ tokens /\ tokens' = FALSE /\ Happens("tokens")
    /\ pc \in {"coding", "waiting", "merging", "testing", "routing"}
    /\ UNCHANGED <<db, kept, git, pc, call, outcome, turn, aborted, ghosts>>

\* git, the sandbox or the judge of Owners fails: the call throws, and gives its turn back.
AwaitFails ==
    /\ pc \in {"top", "merging", "discarded", "testing", "committing", "committed", "cleared",
               "routing"}
    /\ Happens("fault")
    /\ Throw /\ turn' = IF turn = "mine" THEN "free" ELSE turn
    /\ UNCHANGED <<db, kept, git, tested, history, tokens, aborted, ghosts>>

\* A Run that threw rests until the server is started again.
Crash ==
    /\ pc # "down"
    /\ \/ outcome = "threw" /\ pc = "out" /\ UNCHANGED events
       \/ Happens("crash")
    /\ pc' = "down" /\ turn' = "free"
    /\ coders' = {} /\ ended' = NotCoding /\ reports' = NoReports
    /\ tested' = FALSE /\ history' = NoHistory
    /\ outcome' = IF pc = "out" /\ outcome # "threw" THEN outcome ELSE "none"
    /\ lapsed' = (lapsed \/ Unwritten) /\ unrun' = {} /\ untested' = {}
    /\ UNCHANGED <<db, kept, git, tokens, aborted, fate, asked, routed>>

\* Mutant: the Steps that were running are left as they are.
StepsLeftRunning == running

StepsDiscarded == {}

\* Mutant: the Workspaces of unfinished Slices are thrown away.
WorkspacesDiscarded == [s \in Sides |-> "absent"]

WorkspacesReset == work

\* resumeRun: what was in flight is thrown away, and what was saved is kept.
Restart ==
    /\ pc = "down" /\ ~aborted /\ pc' = "out"
    /\ running' = StepsDiscarded /\ work' = WorkspacesReset
    /\ UNCHANGED <<status, retries, built, kept, behind, onHead, call, outcome, world, ghosts,
                   events>>

-----------------------------------------------------------------------------
(* A Slice of the same batch, at its turn at the run branch. *)

\* (One that ends otherwise than by a commit changes nothing here.)
PeerTakesTurn ==
    /\ turn = "free" /\ pc \notin {"out", "down"} /\ Happens("peer")
    /\ turn' = "peer"
    /\ UNCHANGED <<db, kept, git, pc, call, outcome, tokens, aborted, ghosts>>

PeerCommits ==
    /\ turn = "peer" /\ turn' = "free"
    /\ behind' = {s \in Sides : work[s] # "absent"} /\ onHead' = FALSE
    /\ UNCHANGED <<db, kept, work, pc, call, outcome, tokens, aborted, ghosts, events>>

-----------------------------------------------------------------------------
Steps == \/ \E s \in Sides : \/ StepThrows(s) \/ StepStops(s) \/ StepChangesNothing(s)
                             \/ StepSaves(s) \/ StepCompletes(s) \/ StepRewrites(s)
         \/ AttemptThrows \/ AttemptOverBudget \/ RedoStopped \/ StoppedTooOften
         \/ UnchangedEscalates \/ AskForTurn

Turn == \/ TakeTurn \/ Merges \/ SidesConflict \/ PeerConflict \/ StartOver \/ StartedOverTooOften
        \/ TestPasses \/ TestFails \/ Commits \/ DiscardCommitted \/ Passes

Routes == Undecidable \/ RevisionDidNotHelp \/ ReviseDocuments \/ RetryCoding \/ MayNotRetry

Call == BudgetSpent \/ StartAttempt \/ Steps \/ Turn \/ Routes \/ KeepOutcome

Peer == PeerTakesTurn \/ PeerCommits

Others == \/ RetryWithHint \/ GoOnWithoutHint \/ Reopen \/ Abort \/ SpendTokens \/ AwaitFails
          \/ Crash \/ Restart

Next == StartCall \/ Call \/ Peer \/ Others

\* Every await of a call answers or fails, and every Slice gives its turn back;
\* nobody owes a call, a hint or a restart.
Spec == Init /\ [][Next]_vars /\ WF_vars(Call) /\ WF_vars(PeerCommits)

-----------------------------------------------------------------------------
(* What must hold. *)

PC == {"down", "out", "top", "coding", "waiting", "merging", "discarded", "testing", "committing",
       "committed", "cleared", "routing", "returned"}

History == [earlier : [Sides -> SUBSET Failures], design : SUBSET Failures,
            baseline : [Sides -> Nat \cup {-1}], pending : SUBSET Sides]

\* Every variable has its type; a call under way began its Retry Budget at no more
\* retries than the Task has now.
TypeOK ==
    /\ status \in {"pending", "building", "testing", "passed"}
    /\ retries \in [Sides -> Nat] /\ built \subseteq Sides /\ running \subseteq Sides
    /\ kept \in [history : History, hint : SUBSET CodingSide]
    /\ work \in [Sides -> {"absent", "clean", "saved"}] /\ behind \subseteq Sides
    /\ onHead \in BOOLEAN
    /\ pc \in PC
    /\ coders \subseteq Sides
    /\ ended \in [Sides -> {"idle", "coding", "saved", "changed", "unchanged", "stopped",
                            "budget", "threw"}]
    /\ \E failing \in SUBSET Failures : reports \in [failing -> Owner]
    /\ tested \in BOOLEAN /\ history \in History
    /\ outcome \in EscalationTrigger \cup {"none", "passed", "designIssue", "threw"}
    /\ turn \in {"free", "mine", "peer"} /\ tokens \in BOOLEAN /\ aborted \in BOOLEAN
    /\ fate \in [Sides -> {"none", "kept", "lost"}] /\ asked \in [Sides -> Nat]
    /\ lapsed \in BOOLEAN /\ unrun \subseteq Sides /\ routed \in [Sides -> SUBSET Failures]
    /\ untested \subseteq Change
    /\ events \in 0..MaxEvents
    /\ pc \notin {"down", "out", "returned"} =>
           \A s \in Sides : history.baseline[s] \in 0..retries[s]

\* What is tested, and committed when it passes, is a merge onto the last Slice
\* Commit, whatever Slice is committed beside this one (CONTEXT.md "Parallel
\* Slices": every Slice Commit was tested with all before it).  So commitSlice
\* never has to refuse.
TestedOnLastCommit == pc \in {"testing", "committing"} => onHead

\* A Task loops back at most as often as the Retry Budget says since somebody asked
\* for an attempt, over any number of calls of runSlice (CONTEXT.md "Retry Budget");
\* except where retries were forgotten with the process (see Unwritten).
RetryBudgetIsKept ==
    lapsed \/ \A s \in Sides : retries[s] - asked[s] <= RetryBudget

\* A side is never sent back twice for the same failure, not after a hint, a document
\* revision or a restart either (sliceRunner.ts, SliceHistory: "so a Loop is still a Loop").
NoFailureIsSentBackTwice ==
    [][pc = "routing" /\ pc' = "top" =>
           \A f \in DOMAIN reports : f \notin routed[reports[f]]]_vars

\* A call that ends otherwise than by a throw leaves no retry counted for an attempt
\* that never began, whichever of two sides may not retry (runSlice's comment
\* "an Escalation leaves no retry counted for an attempt that never ran").
EscalationLeavesNoRetry == pc = "returned" /\ outcome # "threw" => unrun = {}

\* The code of a completed Step is in its Workspace until it is committed or thrown
\* away on purpose, also after a restart (CONTEXT.md "Step").
CompletedStepsAreKept == \A s \in Sides : fate[s] = "kept" => work[s] = "saved"

\* No Step runs behind the caller's back: when an attempt begins none is running, so
\* startStep never refuses one.
NoStepIsLeftRunning == pc = "top" => running = {}

\* After a Test Run has failed, the next Test Run of the call judges code no Test Run has
\* seen (runSlice: "Testing the same code again would only fail the same way"); except that
\* a Step whose turns ran out counts as a change even where it saved none.
NeverTestsTheSameCode == pc = "testing" /\ tested => untested # {}

\* A call ends: its retries are bounded and every Slice gets its turn.
CallEnds == pc \notin {"out", "down"} ~> pc \in {"out", "down"}

\* A failure stands only when nothing was changed since: the code of a side that
\* changed beside one that stopped has not failed yet.
LoopMeansNothingNew ==
    [][pc = "coding" /\ pc' = "returned" /\ outcome' = "loop" => "saved" \notin untested]_vars

\* What a side had finished is part of what is tested, whoever a hint is for.
NothingLostIsTested == pc = "testing" => \A s \in Sides : fate[s] # "lost"
=============================================================================
