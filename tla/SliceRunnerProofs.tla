------------------------- MODULE SliceRunnerProofs -------------------------
(* The Slice Runner's properties, for any sides, failures and Retry Budget. *)
EXTENDS SliceRunner, TLAPS

\* The type invariant in parts.
RowsType ==
    /\ status \in {"pending", "building", "testing", "passed"}
    /\ retries \in [Sides -> Nat] /\ built \subseteq Sides /\ running \subseteq Sides
    /\ work \in [Sides -> {"absent", "clean", "saved"}] /\ behind \subseteq Sides
    /\ onHead \in BOOLEAN

MemoryType ==
    /\ kept \in [history : History, hint : SUBSET CodingSide] /\ history \in History
    /\ \A s \in Sides : history.baseline[s] <= retries[s] /\ kept.history.baseline[s] <= retries[s]
    /\ pc \notin {"down", "out"} => \A s \in Sides : history.baseline[s] >= 0

CallType ==
    /\ pc \in PC
    /\ coders \subseteq Sides
    /\ ended \in [Sides -> {"idle", "coding", "saved", "changed", "unchanged", "stopped",
                            "budget", "threw"}]
    /\ outcome \in EscalationTrigger \cup {"none", "passed", "designIssue", "threw"}
    /\ turn \in {"free", "mine", "peer"} /\ tokens \in BOOLEAN /\ aborted \in BOOLEAN
    /\ tested \in BOOLEAN

GhostType ==
    /\ fate \in [Sides -> {"none", "kept", "lost"}] /\ asked \in [Sides -> Nat]
    /\ lapsed \in BOOLEAN /\ unrun \subseteq Sides /\ routed \in [Sides -> SUBSET Failures]
    /\ untested \subseteq {"saved", "rewritten"}
    /\ events \in 0..MaxEvents

ReportsType == \E failing \in SUBSET Failures : reports \in [failing -> Owner]

Typed == RowsType /\ MemoryType /\ CallType /\ GhostType /\ ReportsType

-----------------------------------------------------------------------------
(* The inductive invariant: what the call knows about the Slice at each await. *)

MyTurn == {"merging", "discarded", "testing", "committing", "committed", "cleared"}

\* The Slice has the turn while it merges, tests and commits, and what it merges is
\* onto the last Slice Commit.
TurnFits ==
    /\ pc \in MyTurn => turn = "mine"
    /\ pc \in {"merging", "testing", "committing"} => onHead

\* The Slice has passed exactly when its call says so.
OutcomeFits ==
    /\ pc = "returned" /\ outcome = "passed" => status = "passed"
    /\ pc \notin {"down", "out", "returned"} => status # "passed"
    /\ outcome = "threw" => status # "passed"

\* A Step is running only while its side codes, or because its call threw or died.
RunningFits ==
    /\ running # {} => pc \in {"coding", "down"} \/ (pc \in {"returned", "out"} /\ outcome = "threw")
    /\ pc = "coding" => \A s \in running : s \in coders /\ ended[s] \in {"coding", "saved", "threw"}

\* A counted retry is about to begin, with tokens left for it, or its call threw.
UnrunFits ==
    /\ pc = "top" => unrun \subseteq coders /\ (unrun # {} => tokens)
    /\ pc # "top" /\ ~(pc = "returned" /\ outcome = "threw") => unrun = {}

\* A Slice that tests after a failed Test Run has changed something since, or seems to.
UntestedFits ==
    /\ pc = "coding" => \A s \in Sides : ended[s] \in {"saved", "changed"} => untested # {}
    /\ pc \in {"waiting", "merging", "testing"} /\ tested => untested # {}

\* Every Retry Budget under way began when somebody last asked for an attempt, or
\* later, and a call that begins a new one knows of every retry; unless one was lost.
BudgetFits ==
    lapsed \/ /\ \A s \in Sides : /\ kept.history.baseline[s] <= asked[s]
                                  /\ history.baseline[s] <= asked[s]
                                  /\ retries[s] - asked[s] <= RetryBudget
              /\ pc \in {"down", "out"} => ~Unwritten

\* What a side was sent back for is in the history the next call gets.
RoutedFits == \A s \in Sides :
    /\ routed[s] \subseteq kept.history.earlier[s]
    /\ pc \notin {"down", "out"} => routed[s] \subseteq history.earlier[s]

Fits == /\ TurnFits /\ OutcomeFits /\ RunningFits /\ CompletedStepsAreKept
        /\ UnrunFits /\ UntestedFits /\ BudgetFits /\ RoutedFits

SliceInv == Typed /\ Fits

\* The parts say what TypeOK does, and more of the baselines.
LEMMA TypedIsTypeOK == Typed => TypeOK
<1> SUFFICES ASSUME Typed PROVE TypeOK
  OBVIOUS
<1>1. pc \notin {"down", "out", "returned"} => \A s \in Sides : history.baseline[s] \in 0..retries[s]
  BY DEF Typed, RowsType, MemoryType, History
<1> QED BY <1>1 DEF TypeOK, Typed, RowsType, MemoryType, CallType, GhostType, ReportsType, Change

\* A limit is a trigger of an Escalation.
LEMMA LimitType == ASSUME NEW s, NEW fs PROVE Limit(s, fs) \in EscalationTrigger
BY DEF Limit, EscalationTrigger

\* The types of what a call begins and ends with.
LEMMA NoReportsType == {} \in SUBSET Failures /\ NoReports \in [{} -> Owner]
BY DEF NoReports, Owner

\* What an Escalation leaves behind.
LEMMA EscalatedKeeps ==
    ASSUME SliceInv, pc \notin {"down", "out"}, running = {}, unrun = {},
           NEW t \in EscalationTrigger, Escalate(t), turn' \in {turn, "free"},
           UNCHANGED <<built, running, git, tested, tokens, aborted, fate, asked, lapsed,
                       untested, events>>
    PROVE  SliceInv'
<1> USE NoReportsType DEF Escalate, NotCoding, git
<1>1. RowsType' /\ GhostType'
  BY DEF SliceInv, Typed, RowsType, GhostType
<1>2. CallType'
  BY DEF SliceInv, Typed, CallType, PC, EscalationTrigger
<1>3. MemoryType'
  BY DEF SliceInv, Typed, RowsType, MemoryType, History
<1>4. ReportsType'
  BY DEF ReportsType
<1>5. BudgetFits'
  BY DEF SliceInv, Typed, MemoryType, History, Fits, BudgetFits
<1>6. Fits'
  BY <1>5 DEF SliceInv, Typed, MemoryType, History, Fits, TurnFits, MyTurn, OutcomeFits,
     RunningFits, CompletedStepsAreKept, UnrunFits, UntestedFits, RoutedFits, EscalationTrigger
<1> QED BY <1>1, <1>2, <1>3, <1>4, <1>6 DEF SliceInv, Typed

\* What a throw leaves behind.
LEMMA ThrownKeeps ==
    ASSUME SliceInv, pc \notin {"down", "out", "returned"}, Throw, turn' \in {turn, "free"},
           untested' \in {untested, {}}, events' \in 0..MaxEvents,
           UNCHANGED <<db, kept, git, tested, history, tokens, aborted, fate, asked, lapsed,
                       unrun, routed>>
    PROVE  SliceInv'
<1> USE NoReportsType DEF Throw, NotCoding, git, db
<1>1. RowsType' /\ GhostType'
  BY DEF SliceInv, Typed, RowsType, GhostType
<1>2. CallType'
  BY DEF SliceInv, Typed, CallType, PC, EscalationTrigger
<1>3. MemoryType'
  BY DEF SliceInv, Typed, MemoryType
<1>4. ReportsType'
  BY DEF ReportsType
<1>5. BudgetFits'
  BY DEF SliceInv, Typed, MemoryType, History, Fits, BudgetFits
<1>6. Fits'
  BY <1>5 DEF SliceInv, Typed, MemoryType, History, Fits, TurnFits, MyTurn, OutcomeFits,
     RunningFits, CompletedStepsAreKept, UnrunFits, UntestedFits, RoutedFits
<1> QED BY <1>1, <1>2, <1>3, <1>4, <1>6 DEF SliceInv, Typed

\* What a retry of the sides S leaves behind, when each of them may retry.
LEMMA RetriedKeeps ==
    ASSUME SliceInv, pc \notin {"down", "out", "top", "returned"}, running = {},
           NEW S \in SUBSET Sides, Retry(S),
           \A s \in S : tokens /\ retries[s] - history.baseline[s] < RetryBudget,
           NEW E \in [Sides -> SUBSET Failures],
           \A s \in Sides : history.earlier[s] \subseteq E[s] /\ routed'[s] \subseteq E[s],
           routed' \in [Sides -> SUBSET Failures],
           \/ UNCHANGED <<kept, history, routed>>
           \/ SaveRetrying(E),
           status' \in {status, "building"}, turn' \in {turn, "free"},
           reports' \in {reports, NoReports},
           UNCHANGED <<built, running, git, tested, outcome, tokens, aborted, fate, asked, lapsed,
                       untested, events>>
    PROVE  SliceInv'
<1> USE ConstantsAssumption DEF Retry, NotCoding, CountRetry, git
<1>1. RowsType'
  BY DEF SliceInv, Typed, RowsType
<1>2. CallType' /\ GhostType'
  BY DEF SliceInv, Typed, CallType, GhostType, PC
<1>3. /\ history' \in History /\ history'.baseline = history.baseline
      /\ \/ kept' = kept /\ history' = history /\ routed' = routed
         \/ kept'.history = history' /\ history'.earlier = E /\ kept'.hint = {}
      /\ kept' \in [history : History, hint : SUBSET CodingSide]
  <2>1. /\ history \in History 
        /\ kept \in [history : History, hint : SUBSET CodingSide]
    BY DEF SliceInv, Typed, MemoryType
  <2>2. CASE UNCHANGED <<kept, history, routed>>
    BY <2>1, <2>2
  <2>3. CASE SaveRetrying(E)
    <3>1. history' = [history EXCEPT !.earlier = E, !.pending = S]
      BY <2>3 DEF SaveRetrying
    <3>2. history' \in History /\ history'.baseline = history.baseline /\ history'.earlier = E
      BY <2>1, <3>1 DEF History
    <3>3. kept' = [history |-> history', hint |-> {}]
      BY <2>3 DEF SaveRetrying
    <3> QED BY <3>2, <3>3
  <2> QED BY <2>2, <2>3
<1>4. \A s \in Sides : /\ retries'[s] \in Nat /\ retries[s] \in Nat /\ asked'[s] = asked[s] /\ asked[s] \in Nat
                       /\ retries'[s] = retries[s] + (IF s \in S THEN 1 ELSE 0)
                       /\ history.baseline[s] \in Int /\ kept.history.baseline[s] \in Int
                       /\ history.baseline[s] >= 0
  BY DEF SliceInv, Typed, RowsType, MemoryType, GhostType, History
<1>5. MemoryType'
  BY <1>3, <1>4 DEF SliceInv, Typed, MemoryType
<1>6. ReportsType'
  BY NoReportsType DEF SliceInv, Typed, ReportsType
<1>7. BudgetFits'
  <2>1. CASE lapsed
    BY <2>1 DEF BudgetFits
  <2>2. CASE ~lapsed
    <3>1. \A s \in Sides : /\ kept.history.baseline[s] <= asked[s] /\ history.baseline[s] <= asked[s]
                           /\ retries[s] - asked[s] <= RetryBudget
      BY <2>2 DEF SliceInv, Fits, BudgetFits
    <3>2. \A s \in Sides : retries'[s] - asked[s] <= RetryBudget
      BY <3>1, <1>4
    <3>3. \A s \in Sides : kept'.history.baseline[s] <= asked[s] /\ history'.baseline[s] <= asked[s]
      BY <3>1, <1>3
    <3> QED BY <3>2, <3>3, <1>4 DEF BudgetFits
  <2> QED BY <2>1, <2>2
<1>8. RoutedFits'
  BY <1>3 DEF SliceInv, Fits, RoutedFits
<1>9. UnrunFits' /\ TurnFits' /\ OutcomeFits' /\ RunningFits' /\ CompletedStepsAreKept' /\ UntestedFits'
  BY DEF SliceInv, Fits, TurnFits, MyTurn, OutcomeFits, RunningFits, CompletedStepsAreKept,
     UnrunFits, UntestedFits
<1> QED BY <1>1, <1>2, <1>5, <1>6, <1>7, <1>8, <1>9 DEF SliceInv, Typed, Fits

\* Once every Step has ended and none threw, none is running.
LEMMA NoneRunning ==
    ASSUME SliceInv, Settled, How("threw") = {} PROVE running = {} /\ unrun = {} /\ pc = "coding"
BY DEF SliceInv, Typed, RowsType, Fits, RunningFits, UnrunFits, Settled, How

\* Away from the attempt's Steps none is running, and no retry waits for one.
LEMMA AwaitKeeps ==
    ASSUME SliceInv, pc \in PC \ {"coding", "down", "out", "top", "returned"} PROVE running = {} /\ unrun = {}
BY DEF SliceInv, Fits, RunningFits, UnrunFits

\* The nine ways to an Escalation.
LEMMA EscalatingKeeps ==
    ASSUME SliceInv,
           \/ BudgetSpent \/ AttemptOverBudget \/ StoppedTooOften \/ UnchangedEscalates
           \/ SidesConflict \/ StartedOverTooOften \/ Undecidable \/ RevisionDidNotHelp \/ MayNotRetry
    PROVE  SliceInv'
<1> USE LimitType, EscalatedKeeps DEF world
<1>1. CASE BudgetSpent
  <2>1. running = {} /\ unrun = {}
    BY <1>1 DEF BudgetSpent, SliceInv, Fits, RunningFits, UnrunFits
  <2> QED BY <1>1, <2>1 DEF BudgetSpent, EscalationTrigger
<1>2. CASE AttemptOverBudget
  BY <1>2, NoneRunning DEF AttemptOverBudget, EscalationTrigger
<1>3. CASE StoppedTooOften
  BY <1>3, NoneRunning DEF StoppedTooOften, How
<1>4. CASE UnchangedEscalates
  <2>1. How("threw") = {}
    BY <1>4 DEF UnchangedEscalates, Unchanged, How
  <2> QED BY <1>4, <2>1, NoneRunning DEF UnchangedEscalates, EscalationTrigger
<1>5. CASE SidesConflict
  BY <1>5, AwaitKeeps DEF SidesConflict, EscalationTrigger, PC
<1>6. CASE StartedOverTooOften
  BY <1>6, AwaitKeeps DEF StartedOverTooOften, PC
<1>7. CASE Undecidable
  BY <1>7, AwaitKeeps DEF Undecidable, EscalationTrigger, PC
<1>8. CASE RevisionDidNotHelp
  BY <1>8, AwaitKeeps DEF RevisionDidNotHelp, EscalationTrigger, PC
<1>9. CASE MayNotRetry
  BY <1>9, AwaitKeeps DEF MayNotRetry, Routable, PC
<1> QED BY <1>1, <1>2, <1>3, <1>4, <1>5, <1>6, <1>7, <1>8, <1>9

\* The three ways to another attempt.
LEMMA RetryingKeeps ==
    ASSUME SliceInv, RedoStopped \/ StartOver \/ RetryCoding PROVE SliceInv'
<1> USE DEF world
<1>0. /\ history.earlier \in [Sides -> SUBSET Failures] /\ routed \in [Sides -> SUBSET Failures]
      /\ pc \notin {"down", "out"} => \A s \in Sides : routed[s] \subseteq history.earlier[s]
  BY DEF SliceInv, Typed, MemoryType, GhostType, History, Fits, RoutedFits
<1>1. CASE RedoStopped
  <2>1. running = {} /\ pc = "coding"
    BY <1>1, NoneRunning DEF RedoStopped, How
  <2>2. How("stopped") \in SUBSET Sides
    BY DEF How, SliceInv, Typed, CallType
  <2>3. \A s \in How("stopped") : tokens /\ retries[s] - history.baseline[s] < RetryBudget
    BY <1>1 DEF RedoStopped, MayRetry
  <2>4. Retry(How("stopped"))
    BY <1>1 DEF RedoStopped
  <2> HIDE DEF How
  <2> QED BY <1>0, <1>1, <2>1, <2>2, <2>3, <2>4, RetriedKeeps DEF RedoStopped
<1>2. CASE StartOver
  <2>1. running = {} /\ pc = "discarded"
    BY <1>2, AwaitKeeps DEF StartOver, PC
  <2>2. \A s \in Sides : tokens /\ retries[s] - history.baseline[s] < RetryBudget
    BY <1>2 DEF StartOver, MayRetry
  <2> QED BY <1>0, <1>2, <2>1, <2>2, RetriedKeeps DEF StartOver
<1>3. CASE RetryCoding
  <2> DEFINE E == [s \in Sides |-> history.earlier[s] \cup Owned(s)]
  <2>1. running = {} /\ pc = "routing"
    BY <1>3, AwaitKeeps DEF RetryCoding, Routable, PC
  <2>2. AtFault \in SUBSET Sides /\ \A s \in AtFault : tokens /\ retries[s] - history.baseline[s] < RetryBudget
    BY <1>3 DEF RetryCoding, MayRetry, AtFault
  <2>3. \A s \in Sides : Owned(s) \subseteq Failures
    BY DEF Owned, SliceInv, Typed, ReportsType
  <2>4. E \in [Sides -> SUBSET Failures] /\ routed' \in [Sides -> SUBSET Failures]
    BY <1>0, <1>3, <2>3 DEF RetryCoding
  <2>5. \A s \in Sides : history.earlier[s] \subseteq E[s] /\ routed'[s] \subseteq E[s]
    BY <1>0, <1>3, <2>1 DEF RetryCoding
  <2>6. Retry(AtFault) /\ SaveRetrying(E)
    BY <1>3 DEF RetryCoding
  <2> HIDE DEF E
  <2> QED BY <1>3, <2>1, <2>2, <2>4, <2>5, <2>6, RetriedKeeps DEF RetryCoding
<1> QED BY <1>1, <1>2, <1>3

\* What goes on to the turn after a failed Test Run has changed something.
LEMMA AskForTurnKeeps == ASSUME SliceInv, AskForTurn PROVE SliceInv'
<1> USE ConstantsAssumption, NoReportsType DEF db, git, call, world, ghosts
<1>1. How("threw") = {} /\ running = {} /\ pc = "coding"
  <2>1. How("threw") = {}
    BY DEF AskForTurn, How
  <2> QED BY <2>1, NoneRunning DEF AskForTurn
<1>2. CASE ThrowsIfAborted
  <2>1. events \in 0..MaxEvents
    BY DEF SliceInv, Typed, GhostType
  <2> QED BY <1>1, <1>2, <2>1, ThrownKeeps DEF AskForTurn, ThrowsIfAborted
<1>3. CASE pc' = "waiting" /\ coders' = {} /\ ended' = NotCoding /\ UNCHANGED <<reports, outcome>>
  <2>1. tested => untested # {}
    BY <1>1 DEF AskForTurn, Unchanged, How, SliceInv, Typed, CallType, Fits, UntestedFits
  <2>2. Typed'
    BY <1>1, <1>3 DEF AskForTurn, SliceInv, Typed, RowsType, CallType, MemoryType, GhostType,
       ReportsType, PC, NotCoding
  <2>3. BudgetFits'
    BY <1>1, <1>3 DEF AskForTurn, SliceInv, Fits, BudgetFits
  <2>4. Fits'
    BY <1>1, <1>3, <2>1, <2>3 DEF AskForTurn, SliceInv, Fits, TurnFits, MyTurn, OutcomeFits,
       RunningFits, CompletedStepsAreKept, UnrunFits, UntestedFits, RoutedFits
  <2> QED BY <2>2, <2>4 DEF SliceInv
<1> QED BY <1>2, <1>3 DEF AskForTurn

\* A call that throws out of its attempt, or because an await fails.
LEMMA ThrowingKeeps == ASSUME SliceInv, AttemptThrows \/ AwaitFails PROVE SliceInv'
<1> USE DEF world, ghosts
<1>1. events \in 0..MaxEvents /\ MaxEvents \in Nat
  BY ConstantsAssumption DEF SliceInv, Typed, GhostType
<1>2. CASE AttemptThrows
  BY <1>1, <1>2, ThrownKeeps DEF AttemptThrows, Settled
<1>3. CASE AwaitFails
  <2>1. events' \in 0..MaxEvents
    BY <1>1, <1>3 DEF AwaitFails, Happens
  <2> QED BY <1>3, <2>1, ThrownKeeps DEF AwaitFails
<1> QED BY <1>2, <1>3

\* Merging, testing and committing, each of which may throw instead.
LEMMA TestingKeeps ==
    ASSUME SliceInv, Merges \/ TestPasses \/ Commits PROVE SliceInv'
<1> USE DEF db, git, call, world, ghosts
<1>1. events \in 0..MaxEvents
  BY DEF SliceInv, Typed, GhostType
<1>2. CASE Throw
  BY <1>1, <1>2, ThrownKeeps DEF Merges, TestPasses, Commits, Throw, TurnOfTest
<1>3. CASE ~Throw
  <2>1. Typed'
    <3> USE <1>3 DEF SliceInv, Typed, RowsType, CallType, MemoryType, GhostType, ReportsType, PC
    <3>1. CASE Merges
      BY <3>1 DEF Merges, TurnOfTest
    <3>2. CASE TestPasses
      BY <3>2 DEF TestPasses
    <3>3. CASE Commits
      BY <3>3 DEF Commits
    <3> QED BY <3>1, <3>2, <3>3
  <2>3. BudgetFits'
    BY <1>3 DEF Merges, TestPasses, Commits, TurnOfTest, SliceInv, Fits, BudgetFits
  <2>4. Fits'
    BY <1>3, <2>3 DEF Merges, TestPasses, Commits, TurnOfTest, SliceInv, Fits, TurnFits, MyTurn,
       OutcomeFits, RunningFits, CompletedStepsAreKept, UnrunFits, UntestedFits, RoutedFits
  <2> QED BY <2>1, <2>4 DEF SliceInv
<1> QED BY <1>2, <1>3

\* A Slice without a history has no baselines and was sent back for nothing.
LEMMA NoHistoryType ==
    NoHistory \in History /\ \A s \in Sides : NoHistory.baseline[s] = -1 /\ NoHistory.earlier[s] = {}
BY DEF NoHistory, History

\* Keeping the outcome of a call.
LEMMA KeepOutcomeKeeps == ASSUME SliceInv, KeepOutcome PROVE SliceInv'
<1> USE ConstantsAssumption, NoReportsType, NoHistoryType DEF db, git, call, world, ghosts
<1>1. RowsType' /\ GhostType' /\ CallType' /\ ReportsType'
  <2>1. RowsType' /\ CallType' /\ ReportsType'
    BY DEF SliceInv, Typed, RowsType, CallType, PC, ReportsType, KeepOutcome
  <2>2. GhostType'
    BY DEF SliceInv, Typed, GhostType, KeepOutcome
  <2> QED BY <2>1, <2>2
<1>2. /\ \/ outcome = "threw" /\ kept' = kept
         \/ outcome = "passed" /\ kept' = [kept EXCEPT !.hint = {}]
         \/ outcome \notin {"threw", "passed"} /\ kept' = [history |-> history, hint |-> {}]
      /\ history' = NoHistory /\ retries' = retries /\ routed' = routed /\ asked' = asked
      /\ pc = "returned" /\ pc' = "out" /\ status' = status /\ unrun' = {}
      /\ lapsed' = (lapsed \/ (outcome = "threw" /\ Unwritten))
  BY DEF KeepOutcome, HistoryOfOutcome
<1>3. /\ kept \in [history : History, hint : SUBSET CodingSide] /\ history \in History
      /\ kept' \in [history : History, hint : SUBSET CodingSide]
      /\ \/ kept'.history = kept.history
         \/ /\ kept'.history = history /\ kept'.hint = {}
            /\ outcome \notin {"threw", "passed"}
  BY <1>2 DEF SliceInv, Typed, MemoryType
<1>4. \A s \in Sides : /\ retries[s] \in Nat /\ asked[s] \in Nat
                       /\ history.baseline[s] \in 0..retries[s] /\ kept.history.baseline[s] <= retries[s]
                       /\ kept.history.baseline[s] \in Int
  BY <1>2, <1>3 DEF SliceInv, Typed, RowsType, MemoryType, GhostType, History
<1>5. MemoryType'
  BY <1>2, <1>3, <1>4 DEF MemoryType
<1>6. BudgetFits'
  <2>1. CASE lapsed'
    BY <2>1 DEF BudgetFits
  <2>2. CASE ~lapsed'
    <3>1. ~lapsed /\ (outcome = "threw" => ~Unwritten)
      BY <1>2, <2>2 DEF SliceInv, Typed, GhostType
    <3>2. \A s \in Sides : /\ kept.history.baseline[s] <= asked[s] /\ history.baseline[s] <= asked[s]
                           /\ retries[s] - asked[s] <= RetryBudget
      BY <3>1 DEF SliceInv, Fits, BudgetFits
    <3>3. \A s \in Sides : kept'.history.baseline[s] <= asked[s] /\ history'.baseline[s] <= asked[s]
      BY <1>2, <1>3, <1>4, <3>2
    <3>4. ~Unwritten'
      <4>1. CASE outcome = "threw"
        BY <1>2, <3>1, <4>1 DEF Unwritten
      <4>2. CASE outcome = "passed"
        BY <1>2, <4>2 DEF SliceInv, Fits, OutcomeFits, Unwritten
      <4>3. CASE outcome \notin {"threw", "passed"}
        BY <1>2, <1>4, <4>3 DEF Unwritten
      <4> QED BY <4>1, <4>2, <4>3
    <3> QED BY <1>2, <3>2, <3>3, <3>4 DEF BudgetFits
  <2> QED BY <2>1, <2>2
<1>7. RoutedFits'
  BY <1>2, <1>3 DEF SliceInv, Fits, RoutedFits
<1>8. /\ TurnFits' /\ OutcomeFits' /\ RunningFits' /\ CompletedStepsAreKept'
      /\ UnrunFits' /\ UntestedFits'
  BY DEF SliceInv, Fits, TurnFits, MyTurn, OutcomeFits, RunningFits, CompletedStepsAreKept,
     UnrunFits, UntestedFits, KeepOutcome
<1> QED BY <1>1, <1>5, <1>6, <1>7, <1>8 DEF SliceInv, Typed, Fits

\* A call begins with the history kept, and a Retry Budget where it needs one.
LEMMA StartCallKeeps == ASSUME SliceInv, StartCall PROVE SliceInv'
<1> USE ConstantsAssumption DEF db, git, call, world, ghosts
<1>1. /\ kept.history \in History /\ kept.hint \in SUBSET CodingSide /\ running = {} /\ unrun = {}
      /\ pc' = "top" /\ pc = "out"
  BY DEF SliceInv, Typed, MemoryType, StartCall, Fits, RunningFits, UnrunFits
<1>2. coders' \subseteq Sides
  BY <1>1 DEF StartCall, FirstAttempt, Named, History
<1>3. RowsType' /\ GhostType' /\ ReportsType'
  BY DEF SliceInv, Typed, RowsType, GhostType, ReportsType, StartCall
<1>4. CallType'
  BY <1>2 DEF SliceInv, Typed, CallType, PC, StartCall, NotCoding
<1>5. \A s \in Sides : /\ retries[s] \in Nat /\ asked[s] \in Nat /\ kept.history.baseline[s] \in Nat \cup {-1}
                       /\ kept.history.baseline[s] <= retries[s]
  BY <1>1 DEF SliceInv, Typed, RowsType, GhostType, MemoryType, History
<1>6. \A s \in Sides : /\ Baseline[s] \in 0..retries[s]
                       /\ Baseline[s] = kept.history.baseline[s]
                          \/ ((kept.hint # {} \/ kept.history.baseline[s] = -1) /\ Baseline[s] = retries[s])
  BY <1>5 DEF Baseline
<1>7. /\ history' \in History /\ history'.earlier = kept.history.earlier
      /\ \A s \in Sides : history'.baseline[s] = Baseline[s]
  <2>1. Baseline \in [Sides -> Nat \cup {-1}]
    BY <1>5 DEF Baseline
  <2>2. history' = [kept.history EXCEPT !.baseline = Baseline, !.pending = {}]
    BY DEF StartCall
  <2> HIDE DEF Baseline
  <2> QED BY <1>1, <2>1, <2>2 DEF History
<1>8. MemoryType'
  BY <1>1, <1>5, <1>6, <1>7 DEF SliceInv, Typed, MemoryType, StartCall
<1>9. BudgetFits'
  <2>1. CASE lapsed
    BY <2>1 DEF BudgetFits, StartCall
  <2>2. CASE ~lapsed
    <3>1. /\ \A s \in Sides : kept.history.baseline[s] <= asked[s] /\ retries[s] - asked[s] <= RetryBudget
          /\ ~Unwritten /\ status # "passed"
      BY <1>1, <2>2 DEF SliceInv, Fits, BudgetFits, StartCall
    <3>2. \A s \in Sides : Baseline[s] <= asked[s]
      BY <1>5, <1>6, <3>1 DEF Unwritten
    <3> QED BY <1>1, <1>7, <3>1, <3>2 DEF BudgetFits, StartCall
  <2> QED BY <2>1, <2>2
<1>10. RoutedFits'
  BY <1>1, <1>7 DEF SliceInv, Fits, RoutedFits, StartCall
<1>11. /\ TurnFits' /\ OutcomeFits' /\ RunningFits' /\ CompletedStepsAreKept'
       /\ UnrunFits' /\ UntestedFits'
  BY <1>1 DEF SliceInv, Fits, TurnFits, MyTurn, OutcomeFits, RunningFits, CompletedStepsAreKept,
     UnrunFits, UntestedFits, StartCall
<1> QED BY <1>3, <1>4, <1>8, <1>9, <1>10, <1>11 DEF SliceInv, Typed, Fits

\* What another attempt is asked for with: a hint, and the retries counted so far.
LEMMA AskedKeeps ==
    ASSUME SliceInv, RetryWithHint \/ Reopen PROVE SliceInv'
<1> USE ConstantsAssumption DEF db, git, call, world, ghosts
<1>1. /\ pc = "out" /\ pc' = "out" /\ retries' = retries /\ asked' = retries /\ history' = history
      /\ \E sides \in SUBSET CodingSide : kept' = [kept EXCEPT !.hint = sides]
      /\ status' \in {status, "building"} /\ outcome' = "none" /\ tokens' \in {tokens, TRUE}
      /\ routed' = routed /\ outcome # "threw" /\ events' \in 0..MaxEvents
      /\ UNCHANGED <<built, running, git, coders, ended, reports, tested, turn, aborted, fate,
                     lapsed, unrun, untested>>
  <2>1. events \in 0..MaxEvents
    BY DEF SliceInv, Typed, GhostType
  <2>2. outcome # "threw"
    BY DEF SliceInv, Fits, OutcomeFits, RetryWithHint, Reopen, EscalationTrigger
  <2>3. events' \in 0..MaxEvents
    BY <2>1 DEF RetryWithHint, Reopen, Happens
  <2>4. CASE RetryWithHint
    BY <2>2, <2>3, <2>4 DEF RetryWithHint
  <2>5. CASE Reopen
    BY <2>2, <2>3, <2>5 DEF Reopen
  <2> QED BY <2>4, <2>5
<1>2. kept' \in [history : History, hint : SUBSET CodingSide] /\ kept'.history = kept.history
  BY <1>1 DEF SliceInv, Typed, MemoryType
<1>3. RowsType' /\ GhostType' /\ ReportsType'
  BY <1>1 DEF SliceInv, Typed, RowsType, GhostType, ReportsType
<1>4. CallType'
  BY <1>1 DEF SliceInv, Typed, CallType
<1>5. \A s \in Sides : /\ retries[s] \in Nat /\ history.baseline[s] <= retries[s]
                       /\ kept.history.baseline[s] <= retries[s]
  BY DEF SliceInv, Typed, RowsType, MemoryType
<1>6. MemoryType'
  BY <1>1, <1>2, <1>5 DEF SliceInv, Typed, MemoryType
<1>7. BudgetFits'
  BY <1>1, <1>2, <1>5 DEF BudgetFits, Unwritten
<1>8. Fits'
  BY <1>1, <1>2, <1>7 DEF SliceInv, Fits, TurnFits, MyTurn, OutcomeFits, RunningFits,
     CompletedStepsAreKept, UnrunFits, UntestedFits, RoutedFits
<1> QED BY <1>3, <1>4, <1>6, <1>8 DEF SliceInv, Typed

\* A process that dies keeps the database and the Workspaces.
LEMMA CrashKeeps == ASSUME SliceInv, Crash PROVE SliceInv'
<1> USE ConstantsAssumption, NoReportsType, NoHistoryType DEF db, git, call, world, ghosts
<1>1. events' \in 0..MaxEvents
  BY DEF SliceInv, Typed, GhostType, Crash, Happens
<1>2. RowsType' /\ GhostType' /\ ReportsType' /\ CallType'
  <2>1. RowsType' /\ ReportsType' /\ CallType'
    BY DEF SliceInv, Typed, RowsType, ReportsType, CallType, PC, Crash, NotCoding
  <2>2. GhostType'
    BY <1>1 DEF SliceInv, Typed, GhostType, Crash
  <2> QED BY <2>1, <2>2
<1>3. \A s \in Sides : retries[s] \in Nat /\ asked[s] \in Nat
  BY DEF SliceInv, Typed, RowsType, GhostType
<1>4. MemoryType'
  BY <1>3 DEF SliceInv, Typed, MemoryType, Crash
<1>5. BudgetFits'
  <2>1. /\ history' = NoHistory /\ retries' = retries /\ kept' = kept /\ asked' = asked /\ status' = status
        /\ lapsed' = (lapsed \/ Unwritten)
    BY DEF Crash
  <2>2. CASE lapsed \/ Unwritten
    BY <2>1, <2>2 DEF BudgetFits
  <2>3. CASE ~lapsed /\ ~Unwritten
    <3>1. ~Unwritten'
      BY <2>1, <2>3 DEF Unwritten
    <3> QED BY <1>3, <2>1, <2>3, <3>1 DEF SliceInv, Fits, BudgetFits
  <2> QED BY <2>2, <2>3
<1>6. Fits'
  BY <1>5 DEF SliceInv, Fits, TurnFits, MyTurn, OutcomeFits, RunningFits, CompletedStepsAreKept,
     UnrunFits, UntestedFits, RoutedFits, Crash
<1> QED BY <1>2, <1>4, <1>6 DEF SliceInv, Typed

\* A Slice that passes leaves no history.
LEMMA PassesKeeps == ASSUME SliceInv, Passes PROVE SliceInv'
<1> USE ConstantsAssumption, NoHistoryType DEF git
<1>1. running = {} /\ unrun = {} /\ pc = "cleared"
  BY AwaitKeeps DEF Passes, PC
<1>2. RowsType' /\ GhostType' /\ ReportsType' /\ CallType'
  BY DEF SliceInv, Typed, RowsType, GhostType, ReportsType, CallType, PC, Passes, NotCoding
<1>3. /\ kept' \in [history : History, hint : SUBSET CodingSide] /\ kept'.history = NoHistory
      /\ history' = history /\ retries' = retries
  BY DEF SliceInv, Typed, MemoryType, Passes
<1>4. MemoryType'
  BY <1>1, <1>3 DEF SliceInv, Typed, MemoryType, RowsType, Passes
<1>5. BudgetFits'
  BY <1>1, <1>3 DEF SliceInv, Typed, GhostType, Fits, BudgetFits, Passes
<1>6. Fits'
  BY <1>1, <1>3, <1>5 DEF SliceInv, Fits, TurnFits, MyTurn, OutcomeFits, RunningFits,
     CompletedStepsAreKept, UnrunFits, UntestedFits, RoutedFits, Passes
<1> QED BY <1>2, <1>4, <1>6 DEF SliceInv, Typed

\* A document revision remembers its failures, and leaves the baselines alone.
LEMMA ReviseDocumentsKeeps == ASSUME SliceInv, ReviseDocuments PROVE SliceInv'
<1> USE NoReportsType DEF git, world, ghosts
<1>1. running = {} /\ unrun = {} /\ pc = "routing"
  BY AwaitKeeps DEF ReviseDocuments, PC
<1>2. RowsType' /\ GhostType' /\ ReportsType' /\ CallType'
  BY DEF SliceInv, Typed, RowsType, GhostType, ReportsType, CallType, PC, ReviseDocuments,
     NotCoding
<1>3. Owned("design") \subseteq Failures
  BY DEF Owned, SliceInv, Typed, ReportsType
<1>4. history' \in History /\ history'.earlier = history.earlier /\ history'.baseline = history.baseline
  BY <1>3 DEF SliceInv, Typed, MemoryType, History, ReviseDocuments
<1>5. MemoryType'
  BY <1>1, <1>4 DEF SliceInv, Typed, MemoryType, ReviseDocuments
<1>6. BudgetFits'
  BY <1>1, <1>4 DEF SliceInv, Fits, BudgetFits, ReviseDocuments
<1>7. Fits'
  BY <1>1, <1>4, <1>6 DEF SliceInv, Fits, TurnFits, MyTurn, OutcomeFits, RunningFits,
     CompletedStepsAreKept, UnrunFits, UntestedFits, RoutedFits, ReviseDocuments
<1> QED BY <1>2, <1>5, <1>7 DEF SliceInv, Typed

\* One attempt: each side opens its Workspace, codes, and ends its Step.
LEMMA StartAttemptKeeps == ASSUME SliceInv, StartAttempt PROVE SliceInv'
<1> USE ConstantsAssumption DEF world
<1>1. Typed'
  BY DEF SliceInv, Typed, RowsType, CallType, MemoryType, GhostType, ReportsType, PC, StartAttempt
<1>2. BudgetFits'
  BY DEF SliceInv, Fits, BudgetFits, StartAttempt
<1>3. Fits'
  BY <1>2 DEF SliceInv, Typed, CallType, Fits, TurnFits, MyTurn, OutcomeFits, RunningFits,
     CompletedStepsAreKept, UnrunFits, UntestedFits, RoutedFits, StartAttempt
<1> QED BY <1>1, <1>3 DEF SliceInv, Typed

LEMMA StepThrowsKeeps == ASSUME SliceInv, NEW s \in Sides, StepThrows(s) PROVE SliceInv'
<1> USE ConstantsAssumption DEF git, world, ghosts
<1>1. Typed'
  BY DEF SliceInv, Typed, RowsType, CallType, MemoryType, GhostType, ReportsType, PC, StepThrows,
     Happens
<1>2. BudgetFits'
  BY DEF SliceInv, Fits, BudgetFits, StepThrows, Happens
<1>3. Fits'
  BY <1>2 DEF SliceInv, Fits, TurnFits, MyTurn, OutcomeFits, RunningFits, CompletedStepsAreKept,
     UnrunFits, UntestedFits, RoutedFits, StepThrows, Happens
<1> QED BY <1>1, <1>3 DEF SliceInv, Typed

LEMMA StepStopsKeeps == ASSUME SliceInv, NEW s \in Sides, StepStops(s) PROVE SliceInv'
<1> USE ConstantsAssumption DEF git, world, ghosts
<1>1. RowsType' /\ GhostType'
  BY DEF SliceInv, Typed, RowsType, GhostType, StepStops
<1>2. CallType'
  BY DEF SliceInv, Typed, CallType, PC, StepStops
<1>3. MemoryType' /\ ReportsType'
  BY DEF SliceInv, Typed, RowsType, MemoryType, ReportsType, StepStops
<1>4. BudgetFits'
  BY DEF SliceInv, Fits, BudgetFits, StepStops
<1>5. Fits'
  BY <1>4 DEF SliceInv, Typed, CallType, Fits, TurnFits, MyTurn, OutcomeFits, RunningFits,
     CompletedStepsAreKept, UnrunFits, UntestedFits, RoutedFits, StepStops
<1> QED BY <1>1, <1>2, <1>3, <1>5 DEF SliceInv, Typed

LEMMA StepChangesNothingKeeps == ASSUME SliceInv, NEW s \in Sides, StepChangesNothing(s) PROVE SliceInv'
<1> USE ConstantsAssumption DEF git, world
<1>1. Typed'
  BY DEF SliceInv, Typed, RowsType, CallType, MemoryType, GhostType, ReportsType, PC,
     StepChangesNothing, Completes
<1>2. BudgetFits'
  BY DEF SliceInv, Fits, BudgetFits, StepChangesNothing, Completes
<1>3. Fits'
  BY <1>2 DEF SliceInv, Fits, TurnFits, MyTurn, OutcomeFits, RunningFits, CompletedStepsAreKept,
     UnrunFits, UntestedFits, RoutedFits, StepChangesNothing, Completes
<1> QED BY <1>1, <1>3 DEF SliceInv, Typed

LEMMA StepSavesKeeps == ASSUME SliceInv, NEW s \in Sides, StepSaves(s) PROVE SliceInv'
<1> USE ConstantsAssumption DEF db, world
<1>1. Typed'
  BY DEF SliceInv, Typed, RowsType, CallType, MemoryType, GhostType, ReportsType, PC, StepSaves
<1>2. BudgetFits'
  BY DEF SliceInv, Fits, BudgetFits, StepSaves
<1>3. Fits'
  BY <1>2 DEF SliceInv, Fits, TurnFits, MyTurn, OutcomeFits, RunningFits, CompletedStepsAreKept,
     UnrunFits, UntestedFits, RoutedFits, StepSaves
<1> QED BY <1>1, <1>3 DEF SliceInv, Typed

LEMMA StepCompletesKeeps == ASSUME SliceInv, NEW s \in Sides, StepCompletes(s) PROVE SliceInv'
<1> USE ConstantsAssumption DEF git, world
<1>1. RowsType' /\ GhostType'
  BY DEF SliceInv, Typed, RowsType, GhostType, StepCompletes, Completes
<1>2. CallType'
  BY DEF SliceInv, Typed, CallType, PC, StepCompletes, Completes
<1>3. MemoryType' /\ ReportsType'
  BY DEF SliceInv, Typed, RowsType, MemoryType, ReportsType, StepCompletes, Completes
<1>4. BudgetFits'
  BY DEF SliceInv, Fits, BudgetFits, StepCompletes, Completes
<1>5. Fits'
  BY <1>4 DEF SliceInv, Typed, CallType, Fits, TurnFits, MyTurn, OutcomeFits, RunningFits,
     CompletedStepsAreKept, UnrunFits, UntestedFits, RoutedFits, StepCompletes, Completes
<1> QED BY <1>1, <1>2, <1>3, <1>5 DEF SliceInv, Typed

LEMMA StepRewritesKeeps == ASSUME SliceInv, NEW s \in Sides, StepRewrites(s) PROVE SliceInv'
<1> USE ConstantsAssumption DEF git, world
<1>1. RowsType' /\ GhostType'
  BY DEF SliceInv, Typed, RowsType, GhostType, StepRewrites, Completes
<1>2. CallType'
  BY DEF SliceInv, Typed, CallType, PC, StepRewrites, Completes
<1>3. MemoryType' /\ ReportsType'
  BY DEF SliceInv, Typed, RowsType, MemoryType, ReportsType, StepRewrites, Completes
<1>4. BudgetFits'
  BY DEF SliceInv, Fits, BudgetFits, StepRewrites, Completes
<1>5. Fits'
  BY <1>4 DEF SliceInv, Typed, CallType, Fits, TurnFits, MyTurn, OutcomeFits, RunningFits,
     CompletedStepsAreKept, UnrunFits, UntestedFits, RoutedFits, StepRewrites, Completes
<1> QED BY <1>1, <1>2, <1>3, <1>5 DEF SliceInv, Typed

\* The turn at the run branch.
LEMMA TakeTurnKeeps == ASSUME SliceInv, TakeTurn PROVE SliceInv'
<1> USE ConstantsAssumption DEF db, call, ghosts
<1>1. Typed'
  BY DEF SliceInv, Typed, RowsType, CallType, MemoryType, GhostType, ReportsType, PC, TakeTurn
<1>2. BudgetFits'
  BY DEF SliceInv, Fits, BudgetFits, TakeTurn
<1>3. Fits'
  BY <1>2 DEF SliceInv, Fits, TurnFits, MyTurn, OutcomeFits, RunningFits, CompletedStepsAreKept,
     UnrunFits, UntestedFits, RoutedFits, TakeTurn
<1> QED BY <1>1, <1>3 DEF SliceInv, Typed

LEMMA PeerConflictKeeps == ASSUME SliceInv, PeerConflict PROVE SliceInv'
<1> USE ConstantsAssumption DEF db, call, world
<1>1. RowsType' /\ GhostType'
  BY DEF SliceInv, Typed, RowsType, GhostType, PeerConflict
<1>2. CallType'
  BY DEF SliceInv, Typed, CallType, PC, PeerConflict
<1>3. MemoryType' /\ ReportsType'
  BY DEF SliceInv, Typed, RowsType, MemoryType, ReportsType, PeerConflict
<1>4. BudgetFits'
  BY DEF SliceInv, Fits, BudgetFits, PeerConflict
<1>5. Fits'
  BY <1>4 DEF SliceInv, Fits, TurnFits, MyTurn, OutcomeFits, RunningFits, CompletedStepsAreKept,
     UnrunFits, UntestedFits, RoutedFits, PeerConflict
<1> QED BY <1>1, <1>2, <1>3, <1>5 DEF SliceInv, Typed

LEMMA TestFailsKeeps == ASSUME SliceInv, TestFails PROVE SliceInv'
<1> USE ConstantsAssumption DEF db, git
<1>1. Typed'
  BY DEF SliceInv, Typed, RowsType, CallType, MemoryType, GhostType, ReportsType, PC, TestFails
<1>2. BudgetFits'
  BY DEF SliceInv, Fits, BudgetFits, TestFails
<1>3. Fits'
  BY <1>2 DEF SliceInv, Fits, TurnFits, MyTurn, OutcomeFits, RunningFits, CompletedStepsAreKept,
     UnrunFits, UntestedFits, RoutedFits, TestFails
<1> QED BY <1>1, <1>3 DEF SliceInv, Typed

LEMMA DiscardCommittedKeeps == ASSUME SliceInv, DiscardCommitted PROVE SliceInv'
<1> USE ConstantsAssumption DEF db, call, world
<1>1. Typed'
  BY DEF SliceInv, Typed, RowsType, CallType, MemoryType, GhostType, ReportsType, PC,
     DiscardCommitted
<1>2. BudgetFits'
  BY DEF SliceInv, Fits, BudgetFits, DiscardCommitted
<1>3. Fits'
  BY <1>2 DEF SliceInv, Fits, TurnFits, MyTurn, OutcomeFits, RunningFits, CompletedStepsAreKept,
     UnrunFits, UntestedFits, RoutedFits, DiscardCommitted
<1> QED BY <1>1, <1>3 DEF SliceInv, Typed

\* What happens around the calls, and to them.
LEMMA GoOnWithoutHintKeeps == ASSUME SliceInv, GoOnWithoutHint PROVE SliceInv'
<1> USE ConstantsAssumption DEF db, git, call, ghosts
<1>1. Typed'
  BY DEF SliceInv, Typed, RowsType, CallType, MemoryType, GhostType, ReportsType, PC,
     GoOnWithoutHint
<1>2. BudgetFits'
  BY DEF SliceInv, Fits, BudgetFits, Unwritten, GoOnWithoutHint
<1>3. Fits'
  BY <1>2 DEF SliceInv, Typed, CallType, EscalationTrigger, Fits, TurnFits, MyTurn, OutcomeFits,
     RunningFits, CompletedStepsAreKept, UnrunFits, UntestedFits, RoutedFits, GoOnWithoutHint
<1> QED BY <1>1, <1>3 DEF SliceInv, Typed

LEMMA AbortKeeps == ASSUME SliceInv, Abort PROVE SliceInv'
<1> USE ConstantsAssumption DEF db, git, call, ghosts
<1>1. Typed'
  BY DEF SliceInv, Typed, RowsType, CallType, MemoryType, GhostType, ReportsType, PC, Abort,
     Happens
<1>2. BudgetFits'
  BY DEF SliceInv, Fits, BudgetFits, Unwritten, Abort, Happens
<1>3. Fits'
  BY <1>2 DEF SliceInv, Fits, TurnFits, MyTurn, OutcomeFits, RunningFits, CompletedStepsAreKept,
     UnrunFits, UntestedFits, RoutedFits, Abort, Happens
<1> QED BY <1>1, <1>3 DEF SliceInv, Typed

LEMMA SpendTokensKeeps == ASSUME SliceInv, SpendTokens PROVE SliceInv'
<1> USE ConstantsAssumption DEF db, git, call, ghosts
<1>1. RowsType' /\ GhostType'
  BY DEF SliceInv, Typed, RowsType, GhostType, SpendTokens, Happens
<1>2. CallType'
  BY DEF SliceInv, Typed, CallType, PC, SpendTokens, Happens
<1>3. MemoryType' /\ ReportsType'
  BY DEF SliceInv, Typed, RowsType, MemoryType, ReportsType, SpendTokens, Happens
<1>4. BudgetFits'
  BY DEF SliceInv, Fits, BudgetFits, SpendTokens, Happens
<1>5. Fits'
  BY <1>4 DEF SliceInv, Fits, TurnFits, MyTurn, OutcomeFits, RunningFits, CompletedStepsAreKept,
     UnrunFits, UntestedFits, RoutedFits, SpendTokens, Happens
<1> QED BY <1>1, <1>2, <1>3, <1>5 DEF SliceInv, Typed

LEMMA RestartKeeps == ASSUME SliceInv, Restart PROVE SliceInv'
<1> USE ConstantsAssumption DEF call, world, ghosts
<1>1. Typed'
  BY DEF SliceInv, Typed, RowsType, CallType, MemoryType, GhostType, ReportsType, PC, Restart,
     StepsDiscarded, WorkspacesReset
<1>2. BudgetFits'
  BY DEF SliceInv, Fits, BudgetFits, Unwritten, Restart, StepsDiscarded, WorkspacesReset
<1>3. Fits'
  BY <1>2 DEF SliceInv, Fits, TurnFits, MyTurn, OutcomeFits, RunningFits, CompletedStepsAreKept,
     UnrunFits, UntestedFits, RoutedFits, Restart, StepsDiscarded, WorkspacesReset
<1> QED BY <1>1, <1>3 DEF SliceInv, Typed

LEMMA PeerTakesTurnKeeps == ASSUME SliceInv, PeerTakesTurn PROVE SliceInv'
<1> USE ConstantsAssumption DEF db, git, call, ghosts
<1>1. Typed'
  BY DEF SliceInv, Typed, RowsType, CallType, MemoryType, GhostType, ReportsType, PC,
     PeerTakesTurn, Happens
<1>2. BudgetFits'
  BY DEF SliceInv, Fits, BudgetFits, PeerTakesTurn, Happens
<1>3. Fits'
  BY <1>2 DEF SliceInv, Fits, TurnFits, MyTurn, OutcomeFits, RunningFits, CompletedStepsAreKept,
     UnrunFits, UntestedFits, RoutedFits, PeerTakesTurn, Happens
<1> QED BY <1>1, <1>3 DEF SliceInv, Typed

LEMMA PeerCommitsKeeps == ASSUME SliceInv, PeerCommits PROVE SliceInv'
<1> USE ConstantsAssumption DEF db, call, ghosts
<1>1. RowsType' /\ GhostType'
  BY DEF SliceInv, Typed, RowsType, GhostType, PeerCommits
<1>2. CallType'
  BY DEF SliceInv, Typed, CallType, PC, PeerCommits
<1>3. MemoryType' /\ ReportsType'
  BY DEF SliceInv, Typed, RowsType, MemoryType, ReportsType, PeerCommits
<1>4. BudgetFits'
  BY DEF SliceInv, Fits, BudgetFits, Unwritten, PeerCommits
<1>5. Fits'
  BY <1>4 DEF SliceInv, Fits, TurnFits, MyTurn, OutcomeFits, RunningFits, CompletedStepsAreKept,
     UnrunFits, UntestedFits, RoutedFits, PeerCommits
<1> QED BY <1>1, <1>2, <1>3, <1>5 DEF SliceInv, Typed

-----------------------------------------------------------------------------
(* The theorems. *)

\* Every step of the Slice, of a peer, of a person and of the process keeps the invariant.
THEOREM Inductive == Spec => []SliceInv
<1>1. Init => SliceInv
  <2> SUFFICES ASSUME Init PROVE SliceInv
    OBVIOUS
  <2>1. Typed
    <3>1. RowsType /\ CallType
      BY DEF Init, RowsType, CallType, PC, NotCoding
    <3>2. GhostType
      <4>1. lapsed \in BOOLEAN /\ untested \subseteq {"saved", "rewritten"}
        BY DEF Init
      <4>2. unrun \subseteq Sides /\ events \in 0..MaxEvents
        BY ConstantsAssumption DEF Init
      <4>3. /\ fate \in [Sides -> {"none", "kept", "lost"}] /\ asked \in [Sides -> Nat]
            /\ routed \in [Sides -> SUBSET Failures]
        BY DEF Init
      <4> QED BY <4>1, <4>2, <4>3 DEF GhostType
    <3>3. kept.history = NoHistory /\ history = NoHistory /\ retries = [s \in Sides |-> 0]
          /\ kept \in [history : History, hint : SUBSET CodingSide]
      BY NoHistoryType DEF Init
    <3>4. MemoryType
      BY <3>3, NoHistoryType DEF Init, MemoryType
    <3>5. ReportsType
      BY NoReportsType DEF Init, ReportsType
    <3> QED BY <3>1, <3>2, <3>4, <3>5 DEF Typed
  <2>2. BudgetFits
    BY ConstantsAssumption, NoHistoryType DEF Init, BudgetFits, Unwritten
  <2>3. Fits
    BY <2>2 DEF Init, Fits, TurnFits, MyTurn, OutcomeFits, RunningFits, CompletedStepsAreKept,
       UnrunFits, UntestedFits, RoutedFits
  <2> QED BY <2>1, <2>3 DEF SliceInv
<1>2. SliceInv /\ [Next]_vars => SliceInv'
  <2> SUFFICES ASSUME SliceInv, [Next]_vars PROVE SliceInv'
    OBVIOUS
  <2>1. CASE UNCHANGED vars
    <3>1. Typed'
      BY <2>1 DEF vars, db, git, call, world, ghosts, SliceInv, Typed, RowsType, CallType,
         MemoryType, GhostType, ReportsType
    <3>2. Fits'
      BY <2>1 DEF vars, db, git, call, world, ghosts, SliceInv, Fits, TurnFits, OutcomeFits,
         RunningFits, CompletedStepsAreKept, UnrunFits, UntestedFits, BudgetFits, Unwritten,
         RoutedFits
    <3> QED BY <3>1, <3>2 DEF SliceInv
  <2>2. CASE Call
    <3>1. CASE Steps
      BY <3>1, StepThrowsKeeps, StepStopsKeeps, StepChangesNothingKeeps, StepSavesKeeps,
         StepCompletesKeeps, StepRewritesKeeps, ThrowingKeeps, EscalatingKeeps, RetryingKeeps,
         AskForTurnKeeps DEF Steps
    <3>2. CASE Turn
      BY <3>2, TakeTurnKeeps, TestingKeeps, EscalatingKeeps, PeerConflictKeeps, RetryingKeeps,
         TestFailsKeeps, DiscardCommittedKeeps, PassesKeeps DEF Turn
    <3>3. CASE Routes
      BY <3>3, EscalatingKeeps, ReviseDocumentsKeeps, RetryingKeeps DEF Routes
    <3> QED BY <2>2, <3>1, <3>2, <3>3, EscalatingKeeps, StartAttemptKeeps, KeepOutcomeKeeps DEF
              Call
  <2>3. CASE StartCall \/ Peer
    BY <2>3, StartCallKeeps, PeerTakesTurnKeeps, PeerCommitsKeeps DEF Peer
  <2>4. CASE Others
    BY <2>4, AskedKeeps, GoOnWithoutHintKeeps, AbortKeeps, SpendTokensKeeps, ThrowingKeeps,
       CrashKeeps, RestartKeeps DEF Others
  <2> QED BY <2>1, <2>2, <2>3, <2>4 DEF Next
<1> QED BY <1>1, <1>2, PTL DEF Spec

\* Every variable has its type, and every Retry Budget under way a beginning.
THEOREM TypeCorrect == Spec => []TypeOK
<1>1. SliceInv => TypeOK
  BY TypedIsTypeOK DEF SliceInv
<1> QED BY <1>1, Inductive, PTL

\* Whatever Slices are committed beside this one, its Test Run is of a merge onto
\* the last Slice Commit, and so is what it commits.
THEOREM TestsWhatItCommits == Spec => []TestedOnLastCommit
<1>1. SliceInv => TestedOnLastCommit
  BY DEF SliceInv, Fits, TurnFits, TestedOnLastCommit
<1> QED BY <1>1, Inductive, PTL

\* For every Retry Budget, calls, restarts and document revisions between two requests
\* of a person or a review spend no more than one.
THEOREM RetriesAreBounded == Spec => []RetryBudgetIsKept
<1>1. SliceInv => RetryBudgetIsKept
  BY DEF SliceInv, Fits, BudgetFits, RetryBudgetIsKept
<1> QED BY <1>1, Inductive, PTL

\* An Escalation leaves no retry counted for an attempt that never ran.
THEOREM EscalatesBeforeCounting == Spec => []EscalationLeavesNoRetry
<1>1. SliceInv => EscalationLeavesNoRetry
  BY DEF SliceInv, Fits, UnrunFits, EscalationLeavesNoRetry
<1> QED BY <1>1, Inductive, PTL

\* A completed Step's code outlives whatever happens to the process.
THEOREM CompletedStepsSurvive == Spec => []CompletedStepsAreKept
<1>1. SliceInv => CompletedStepsAreKept
  BY DEF SliceInv, Fits
<1> QED BY <1>1, Inductive, PTL

\* startStep refuses no side.
THEOREM StepsAreCleared == Spec => []NoStepIsLeftRunning
<1>1. SliceInv => NoStepIsLeftRunning
  BY DEF SliceInv, Fits, RunningFits, NoStepIsLeftRunning
<1> QED BY <1>1, Inductive, PTL

\* No Test Run of a call is of code that failed in the call.
THEOREM TestsSomethingNew == Spec => []NeverTestsTheSameCode
<1>1. SliceInv => NeverTestsTheSameCode
  BY DEF SliceInv, Fits, UntestedFits, NeverTestsTheSameCode
<1> QED BY <1>1, Inductive, PTL

\* A step to another attempt after a failed Test Run is RetryCoding.
LEMMA RoutedToCode ==
    ASSUME SliceInv, Next, pc = "routing", pc' = "top" PROVE RetryCoding
<1>1. CASE Call
  <2>1. ~BudgetSpent /\ ~StartAttempt /\ ~KeepOutcome
    BY DEF BudgetSpent, StartAttempt, KeepOutcome
  <2>2. ~Steps
    BY DEF Steps, StepThrows, StepStops, StepChangesNothing, StepSaves, StepCompletes, StepRewrites,
       Settled, AttemptThrows, AttemptOverBudget, RedoStopped, StoppedTooOften, UnchangedEscalates,
       AskForTurn
  <2>3. ~Turn
    BY DEF Turn, TakeTurn, Merges, SidesConflict, PeerConflict, StartOver, StartedOverTooOften,
       TestPasses, TestFails, Commits, DiscardCommitted, Passes
  <2>4. ~Undecidable /\ ~RevisionDidNotHelp /\ ~ReviseDocuments /\ ~MayNotRetry
    BY DEF Undecidable, RevisionDidNotHelp, ReviseDocuments, MayNotRetry, Escalate
  <2> QED BY <1>1, <2>1, <2>2, <2>3, <2>4 DEF Call, Routes
<1>2. ~StartCall /\ ~Peer /\ ~Others
  BY DEF StartCall, Peer, PeerTakesTurn, PeerCommits, Others, RetryWithHint, GoOnWithoutHint,
     Reopen, Abort, SpendTokens, AwaitFails, Throw, Crash, Restart
<1> QED BY <1>1, <1>2 DEF Next

\* A Loop is still a Loop after a hint, a document revision or a restart: no side is
\* sent back for a failure it was sent back for before.
THEOREM LoopsAreLoops == Spec => NoFailureIsSentBackTwice
<1> DEFINE SentBack == pc = "routing" /\ pc' = "top" =>
                          \A f \in DOMAIN reports : f \notin routed[reports[f]]
<1>1. SliceInv /\ [Next]_vars => [SentBack]_vars
  <2> SUFFICES ASSUME SliceInv, Next, pc = "routing", pc' = "top", NEW f \in DOMAIN reports
               PROVE  f \notin routed[reports[f]]
    OBVIOUS
  <2>1. RetryCoding
    BY RoutedToCode
  <2>2. reports[f] \in Owner /\ f \in Owned(reports[f])
    BY DEF SliceInv, Typed, ReportsType, Owned
  <2>3. reports[f] \in Sides
    BY <2>1, <2>2 DEF RetryCoding, Routable, ByCode, Owner
  <2>4. MayRetry(reports[f], Owned(reports[f]))
    BY <2>1, <2>2, <2>3 DEF RetryCoding, AtFault
  <2>5. f \notin history.earlier[reports[f]]
    BY <2>2, <2>4 DEF MayRetry
  <2> QED BY <2>3, <2>5 DEF SliceInv, Fits, RoutedFits
<1>2. Spec => [][SentBack]_vars
  BY <1>1, Inductive, PTL DEF Spec
<1> QED BY <1>2 DEF NoFailureIsSentBackTwice
=============================================================================
