--------------------------- MODULE OutsideProofs ---------------------------
(* What holds of a Run outside its process, for any bounds: each part on    *)
(* its own, for only the part that the first state chose takes steps.       *)
EXTENDS MCOutside, Integers, Sequences, FiniteSetTheorems, WellFoundedInduction, TLAPS

\* A set of naturals that is not empty has a least element.
LEMMA LeastNatural ==
    ASSUME NEW T \in SUBSET Nat, T # {}
    PROVE  \E m \in T : \A t \in T : m <= t
<1> DEFINE R == OpToRel(<, Nat)
<1>1. IsWellFoundedOn(R, Nat)
  BY NatLessThanWellFounded
<1>2. PICK m \in T : \A t \in T : ~(<<t, m>> \in R)
  BY <1>1, WFMin
<1>3. \A t \in T : ~(t < m)
  BY <1>2 DEF OpToRel
<1> QED BY <1>3

\* And a greatest one, if it is bounded.
LEMMA GreatestNatural ==
    ASSUME NEW T \in SUBSET Nat, T # {}, NEW b \in Nat, \A t \in T : t <= b
    PROVE  \E m \in T : \A t \in T : t <= m
<1> DEFINE D == {b - t : t \in T}
<1>1. D \in SUBSET Nat /\ D # {}
  <2>1. \A t \in T : b - t \in Nat
    OBVIOUS
  <2> QED BY <2>1
<1>2. PICK d \in D : \A e \in D : d <= e
  BY <1>1, LeastNatural
<1>3. PICK m \in T : d = b - m
  BY <1>2
<1>4. \A t \in T : b - m <= b - t
  BY <1>2, <1>3
<1> QED BY <1>3, <1>4

\* One element of a sequence of one put in its place.
LEMMA OnePutInPlace ==
    ASSUME NEW S, NEW s \in Seq(S), Len(s) = 1, NEW e \in S
    PROVE  [s EXCEPT ![1] = e] \in Seq(S)
<1>1. s \in [1..1 -> S]
  OBVIOUS
<1>2. [s EXCEPT ![1] = e] \in [1..1 -> S]
  BY <1>1
<1> QED BY <1>2

\* The end of a sequence.
LEMMA EndOfSequence ==
    ASSUME NEW S, NEW s \in Seq(S), NEW m \in 1..Len(s) + 1
    PROVE  LET t == SubSeq(s, m, Len(s)) IN
           /\ t \in Seq(S) /\ DOMAIN t = 1..((Len(s) - m) + 1)
           /\ \A i \in DOMAIN t : i + (m - 1) \in DOMAIN s /\ t[i] = s[i + (m - 1)]
           /\ \A k \in DOMAIN s : k >= m => \E i \in DOMAIN t : t[i] = s[k]
<1> DEFINE t == SubSeq(s, m, Len(s))
<1>1. /\ Len(s) \in Nat /\ DOMAIN s = 1..Len(s) /\ m \in Nat /\ m >= 1 /\ m <= Len(s) + 1
  OBVIOUS
<1>2. t \in Seq(S) /\ DOMAIN t = 1..((Len(s) - m) + 1)
  <2>1. \A i \in m..Len(s) : s[i] \in S
    BY <1>1
  <2> QED BY <1>1, <2>1
<1>3. \A i \in 1..((Len(s) - m) + 1) : t[i] = s[(m + i) - 1]
  BY <1>1
<1> HIDE DEF t
<1>4. \A i \in DOMAIN t : i + (m - 1) \in DOMAIN s /\ t[i] = s[i + (m - 1)]
  <2>1. SUFFICES ASSUME NEW i \in DOMAIN t
                 PROVE  i + (m - 1) \in DOMAIN s /\ t[i] = s[i + (m - 1)]
    OBVIOUS
  <2>2. i \in 1..((Len(s) - m) + 1) /\ i + (m - 1) = (m + i) - 1 /\ i + (m - 1) \in DOMAIN s
    BY <1>1, <1>2, <2>1
  <2> QED BY <1>3, <2>2
<1>5. \A k \in DOMAIN s : k >= m => \E i \in DOMAIN t : t[i] = s[k]
  <2>1. SUFFICES ASSUME NEW k \in DOMAIN s, k >= m PROVE \E i \in DOMAIN t : t[i] = s[k]
    OBVIOUS
  <2>2. k \in Nat /\ k >= m /\ k <= Len(s)
    BY <1>1, <2>1
  <2>3. (k - m) + 1 \in 1..((Len(s) - m) + 1)
    BY <1>1, <2>2
  <2>4. ((k - m) + 1) + (m - 1) = k
    BY <1>1, <2>2
  <2>5. (k - m) + 1 \in DOMAIN t
    BY <1>2, <2>3
  <2> QED BY <1>4, <2>4, <2>5
<1> QED BY <1>2, <1>4, <1>5 DEF t

-----------------------------------------------------------------------------
(* Delivery: the moves of a Run that its properties tell apart.             *)

\* Nothing moves an aborted Run, and only these events do the rest.
LEMMA DeliveryMoves ==
    /\ \A to, event : ~(runState = "aborted" /\ RunDelivery!Goes(event, to))
    /\ \A to : RunDelivery!Goes("prOpened", to) =>
                  runState = "reviewing" /\ to \in {"awaitingPrGate", "done"}
    /\ \A to : RunDelivery!Goes("nothingToDeliver", to) => runState = "reviewing" /\ to = "done"
    /\ RunDelivery!Goes("blockingFindings", "building") => runState = "reviewing"
    /\ RunDelivery!Goes("prChangesRequested", "building") => runState = "awaitingPrGate"
    /\ RunDelivery!Goes("allSlicesCommitted", "reviewing") => runState = "building"
    /\ RunDelivery!Goes("prApproved", "done") => runState = "awaitingPrGate"
<1> USE DEF RunDelivery!Goes, RunDelivery!LC!RunArrow, RunDelivery!LC!EscalationTrigger,
            RunDelivery!LC!ReviewLimit, RunDelivery!LC!EscalationChoice,
            RunDelivery!LC!EscalationTarget, RunDelivery!LC!RunStatus, RunDelivery!LC!Finished
<1>1. \A to, event : ~(runState = "aborted" /\ RunDelivery!Goes(event, to))
  OBVIOUS
<1>2. \A to : RunDelivery!Goes("prOpened", to) =>
                 runState = "reviewing" /\ to \in {"awaitingPrGate", "done"}
  OBVIOUS
<1>3. \A to : RunDelivery!Goes("nothingToDeliver", to) => runState = "reviewing" /\ to = "done"
  OBVIOUS
<1>4. RunDelivery!Goes("blockingFindings", "building") => runState = "reviewing"
  OBVIOUS
<1>5. RunDelivery!Goes("prChangesRequested", "building") => runState = "awaitingPrGate"
  OBVIOUS
<1>6. RunDelivery!Goes("allSlicesCommitted", "reviewing") => runState = "building"
  OBVIOUS
<1>7. RunDelivery!Goes("prApproved", "done") => runState = "awaitingPrGate"
  OBVIOUS
<1> QED BY <1>1, <1>2, <1>3, <1>4, <1>5, <1>6, <1>7

Plan == RunDelivery!Slices

Text == [ended : {"none", "complete", "failed", "aborted"}, passed : SUBSET Plan,
         unfinished : Nat, pushedCommits : Int]

PullRequest == [open : BOOLEAN, draft : BOOLEAN, text : Text, holds : Seq(Plan)]

DeliveryTyped ==
    /\ slice \in [Plan -> {"pending", "building", "passed", "skipped"}]
    /\ commits \in Seq(Plan)
    /\ sha \in [Plan -> Nat] /\ \A s \in Plan : sha[s] <= Len(commits)
    /\ reason.ended \in {"none", "complete", "failed", "aborted"} /\ pushed \in 0..Len(commits)
    /\ text \in Text /\ pulls \in Seq(PullRequest)

\* What is recorded of a person's last word on a Draft PR.
TickFits ==
    /\ halfAborted \in BOOLEAN
    /\ IF halfAborted THEN askedFor # "null" /\ ticked \in {askedFor, answered}
       ELSE /\ ticked = IF askedFor # "null" THEN askedFor ELSE answered
            /\ ticked # "null" <=> runState = "aborted"

\* What a delivery has done when it is at its last two calls, and what waits at the Gate.
PushFits ==
    /\ delivering \in {"find", "open"} => pushed = Len(commits)
    /\ RunDelivery!OpenIsNeverRefused
    /\ RunDelivery!GateShowsTheBranch

Passed == {s \in Plan : slice[s] = "passed"}
Unfinished == {s \in Plan : slice[s] \notin {"passed", "skipped"}}

\* Slices built one at a time finish in order, and so do their commits: of those
\* that are not skipped, only the one being built can have a commit that none
\* that passed later overtook.
BuiltInOrder ==
    /\ runState \in {"reviewing", "awaitingPrGate"} => Unfinished = {}
    /\ \A s \in Passed, u \in Unfinished : s < u
    /\ \A i \in DOMAIN commits, u \in Unfinished : commits[i] \in Unfinished => commits[i] <= u
    /\ \A s \in Passed, i \in DOMAIN commits :
          commits[i] > s /\ slice[commits[i]] # "skipped" => sha[s] < i

\* A text that says a Slice is not included is true of the branch it was composed
\* from, and the branch stands still until it is used.
TextFits ==
    delivering \in {"base", "beginBase", "push", "find", "open"} /\ RunDelivery!SaysNotIncluded(text)
        => \A i \in DOMAIN commits : commits[i] # text.unfinished

DeliveryInv ==
    /\ DeliveryTyped /\ TickFits /\ PushFits
    /\ InOrder => BuiltInOrder /\ TextFits /\ RunDelivery!NotIncludedMeansAbsent

\* What a delivery's text says of the branch fits the type of a text.
LEMMA ContentType ==
    ASSUME DeliveryTyped
    PROVE  /\ RunDelivery!currentSlice \in Plan \cup {0}
           /\ RunDelivery!currentSlice = 0 <=> Unfinished = {}
           /\ Unfinished # {} => /\ RunDelivery!currentSlice \in Unfinished
                                /\ \A u \in Unfinished : RunDelivery!currentSlice <= u
           /\ RunDelivery!LastFinished \in 0..Len(commits)
           /\ RunDelivery!LastFinished # 0 => \E s \in Passed : sha[s] = RunDelivery!LastFinished
           /\ RunDelivery!PullRequestContent \in Text
<1>1. Plan \subseteq Nat /\ 0 \notin Plan /\ Len(commits) \in Nat
  BY ConstantsAssumption DEF DeliveryTyped, Plan, RunDelivery!Slices
<1>2. RunDelivery!Unfinished = Unfinished /\ RunDelivery!PassedSlices = Passed
  BY DEF RunDelivery!Unfinished, RunDelivery!PassedSlices, Unfinished, Passed, Plan
<1>3. /\ RunDelivery!currentSlice \in Plan \cup {0}
      /\ RunDelivery!currentSlice = 0 <=> Unfinished = {}
      /\ Unfinished # {} => /\ RunDelivery!currentSlice \in Unfinished
                           /\ \A u \in Unfinished : RunDelivery!currentSlice <= u
  <2>1. CASE Unfinished = {}
    BY <1>2, <2>1 DEF RunDelivery!currentSlice
  <2>2. CASE Unfinished # {}
    <3>1. Unfinished \in SUBSET Nat /\ Unfinished \subseteq Plan
      BY <1>1 DEF Unfinished
    <3>2. \E m \in Unfinished : \A u \in Unfinished : m <= u
      BY <2>2, <3>1, LeastNatural
    <3>3. /\ RunDelivery!currentSlice \in Unfinished
          /\ \A u \in Unfinished : RunDelivery!currentSlice <= u
      BY <1>2, <2>2, <3>2 DEF RunDelivery!currentSlice, RunDelivery!Min
    <3> QED BY <1>1, <2>2, <3>1, <3>3
  <2> QED BY <2>1, <2>2
<1>4. /\ RunDelivery!LastFinished \in 0..Len(commits)
      /\ RunDelivery!LastFinished # 0 => \E s \in Passed : sha[s] = RunDelivery!LastFinished
  <2> DEFINE T == {sha[s] : s \in Passed} \cup {0}
  <2>1. T \in SUBSET Nat /\ T # {} /\ \A t \in T : t <= Len(commits)
    BY <1>1 DEF DeliveryTyped, Passed
  <2>2. \E m \in T : \A t \in T : t <= m
    BY <1>1, <2>1, GreatestNatural
  <2>3. \E m \in T : \A t \in T : m >= t
    BY <2>1, <2>2
  <2>4. RunDelivery!LastFinished \in T
    BY <1>2, <2>3 DEF RunDelivery!LastFinished, RunDelivery!Max
  <2> QED BY <1>1, <2>1, <2>4
<1>5. RunDelivery!PullRequestContent \in Text
  <2>1. Passed \in SUBSET Plan
    BY DEF Passed
  <2>2. Len(commits) - RunDelivery!LastFinished \in Int
    BY <1>1, <1>4
  <2>3. RunDelivery!currentSlice \in Nat
    BY <1>1, <1>3
  <2>4. reason.ended \in {"none", "complete", "failed", "aborted"}
    BY DEF DeliveryTyped
  <2>5. CASE ~RunDelivery!StoppedEarly
    <3>1. RunDelivery!PullRequestContent =
             [ended |-> "complete", passed |-> Passed, unfinished |-> 0, pushedCommits |-> 0]
      BY <1>2, <2>5 DEF RunDelivery!PullRequestContent, RunDelivery!NoText
    <3> QED BY <2>1, <3>1 DEF Text
  <2>6. CASE RunDelivery!StoppedEarly
    BY <1>2, <2>1, <2>2, <2>3, <2>4, <2>6 DEF RunDelivery!PullRequestContent, Text
  <2> QED BY <2>5, <2>6
<1> QED BY <1>3, <1>4, <1>5


\* The actions of a delivery, by name.
LEMMA DeliveryActions ==
    ASSUME RunDelivery!Next
    PROVE  \/ \E s \in Plan : RunDelivery!SlicePasses(s)
           \/ RunDelivery!AllSlicesCommitted \/ RunDelivery!Limit \/ RunDelivery!SendBack
           \/ \E choice \in {"approve", "requestChanges"} : RunDelivery!decidePullRequest(choice)
           \/ \E choice \in {"retryWithHint", "skipSlice", "abort"}, tick \in RunDelivery!Tick :
                 RunDelivery!resolveEscalation(choice, tick)
           \/ \E tick \in RunDelivery!Tick : RunDelivery!abort(tick) \/ RunDelivery!abortDies(tick)
           \/ RunDelivery!ReviewPassed \/ RunDelivery!deliverIfOwed
           \/ RunDelivery!KeptLocal \/ RunDelivery!Composed
           \/ RunDelivery!HasBase \/ RunDelivery!EmptyRepository \/ RunDelivery!NoSuchBranch
           \/ RunDelivery!BaseBegun \/ RunDelivery!Pushed \/ RunDelivery!Found
           \/ RunDelivery!NotFound \/ RunDelivery!Opened \/ RunDelivery!CallFails
           \/ RunDelivery!ClosedOnGitHub
BY DEF RunDelivery!Next, Plan

\* Every step of the delivery keeps what a tick relies on.
LEMMA TickStays ==
    ASSUME TickFits, RunDelivery!Next
    PROVE  TickFits'
<1> USE DEF TickFits, RunDelivery!Tick, RunDelivery!said
<1>1. ASSUME NEW s \in Plan, RunDelivery!SlicePasses(s) PROVE TickFits'
  BY <1>1 DEF RunDelivery!SlicePasses
<1>2. CASE RunDelivery!AllSlicesCommitted
  BY <1>2, DeliveryMoves DEF RunDelivery!AllSlicesCommitted, RunDelivery!Goes
<1>3. CASE RunDelivery!Limit
  BY <1>3, DeliveryMoves DEF RunDelivery!Limit, RunDelivery!Goes
<1>4. CASE RunDelivery!SendBack
  BY <1>4, DeliveryMoves DEF RunDelivery!SendBack, RunDelivery!Goes
<1>5. ASSUME NEW choice \in {"approve", "requestChanges"}, RunDelivery!decidePullRequest(choice)
      PROVE  TickFits'
  BY <1>5, DeliveryMoves DEF RunDelivery!decidePullRequest, RunDelivery!Goes
<1>6. ASSUME NEW choice \in {"retryWithHint", "skipSlice", "abort"}, NEW tick \in RunDelivery!Tick,
             RunDelivery!resolveEscalation(choice, tick)
      PROVE  TickFits'
  <2>1. runState = "escalated" /\ runState' = RunDelivery!LC!EscalationTarget[choice]
    BY <1>6 DEF RunDelivery!resolveEscalation, RunDelivery!Goes
  <2>2. CASE choice = "abort"
    BY <1>6, <2>1, <2>2 DEF RunDelivery!resolveEscalation, RunDelivery!LC!EscalationTarget
  <2>3. CASE choice # "abort"
    BY <1>6, <2>1, <2>3 DEF RunDelivery!resolveEscalation, RunDelivery!LC!EscalationTarget
  <2> QED BY <2>2, <2>3
<1>7. ASSUME NEW tick \in RunDelivery!Tick, RunDelivery!abort(tick) PROVE TickFits'
  BY <1>7 DEF RunDelivery!abort, RunDelivery!Goes
<1>14. ASSUME NEW tick \in RunDelivery!Tick, RunDelivery!abortDies(tick) PROVE TickFits'
  BY <1>14 DEF RunDelivery!abortDies
<1>8. CASE RunDelivery!ReviewPassed \/ RunDelivery!deliverIfOwed
  BY <1>8 DEF RunDelivery!ReviewPassed, RunDelivery!deliverIfOwed, RunDelivery!Deliver,
              RunDelivery!run
<1>9. CASE RunDelivery!Composed \/ RunDelivery!HasBase \/ RunDelivery!EmptyRepository
           \/ RunDelivery!NoSuchBranch \/ RunDelivery!BaseBegun \/ RunDelivery!Pushed
           \/ RunDelivery!NotFound
  BY <1>9 DEF RunDelivery!Composed, RunDelivery!HasBase, RunDelivery!EmptyRepository,
              RunDelivery!NoSuchBranch, RunDelivery!BaseBegun, RunDelivery!Pushed,
              RunDelivery!NotFound, RunDelivery!Step, RunDelivery!run
<1>10. CASE RunDelivery!CallFails \/ RunDelivery!ClosedOnGitHub
  BY <1>10 DEF RunDelivery!CallFails, RunDelivery!ClosedOnGitHub, RunDelivery!run
<1>11. CASE RunDelivery!KeptLocal
  BY <1>11, DeliveryMoves DEF RunDelivery!KeptLocal, RunDelivery!Outcome, RunDelivery!Goes
<1>12. CASE RunDelivery!Found
  <2>1. RunDelivery!Outcome("prOpened") /\ UNCHANGED <<askedFor, answered, ticked, halfAborted>>
    BY <1>12 DEF RunDelivery!Found, RunDelivery!Recorded
  <2>2. runState' = runState \/ "aborted" \notin {runState, runState'}
    BY <2>1, DeliveryMoves DEF RunDelivery!Outcome, RunDelivery!Goes
  <2> QED BY <2>1, <2>2
<1>13. CASE RunDelivery!Opened
  BY <1>13, DeliveryMoves
  DEF RunDelivery!Opened, RunDelivery!Recorded, RunDelivery!Outcome, RunDelivery!Goes
<1> QED
  BY <1>1, <1>2, <1>3, <1>4, <1>5, <1>6, <1>7, <1>8, <1>9, <1>10, <1>11, <1>12, <1>13,
     <1>14, DeliveryActions

\* What stands on the branch, in the Target Repo and on the way fits its type.
LEMMA DeliveryTypedStays ==
    ASSUME DeliveryTyped, RunDelivery!Next
    PROVE  DeliveryTyped'
<1>1. Plan \subseteq Nat /\ Len(commits) \in Nat
  BY ConstantsAssumption DEF DeliveryTyped, Plan, RunDelivery!Slices
<1>2. ASSUME UNCHANGED <<slice, commits, sha, pushed, reason, text, pulls>> PROVE DeliveryTyped'
  BY <1>2 DEF DeliveryTyped
<1>3. ASSUME NEW s \in Plan, RunDelivery!SlicePasses(s) PROVE DeliveryTyped'
  <2>1. /\ commits' = Append(commits, s) /\ UNCHANGED <<pushed, reason, text, pulls>>
        /\ \/ slice' = [slice EXCEPT ![s] = "passed"] /\ sha' = [sha EXCEPT ![s] = Len(commits) + 1]
           \/ slice' = [slice EXCEPT ![s] = "building"] /\ sha' = sha
    BY <1>3 DEF RunDelivery!SlicePasses, RunDelivery!remote
  <2>2. commits' \in Seq(Plan) /\ Len(commits') = Len(commits) + 1
    BY <2>1 DEF DeliveryTyped
  <2>3. slice' \in [Plan -> {"pending", "building", "passed", "skipped"}]
    BY <2>1 DEF DeliveryTyped
  <2>4. sha' \in [Plan -> Nat] /\ \A t \in Plan : sha'[t] <= Len(commits')
    <3>1. CASE sha' = [sha EXCEPT ![s] = Len(commits) + 1]
      BY <1>1, <2>2, <3>1 DEF DeliveryTyped
    <3>2. CASE sha' = sha
      BY <1>1, <2>2, <3>2 DEF DeliveryTyped
    <3> QED BY <2>1, <3>1, <3>2
  <2> QED BY <2>1, <2>2, <2>3, <2>4 DEF DeliveryTyped
<1>4. ASSUME \/ UNCHANGED slice
             \/ RunDelivery!ReopenLastSlice
             \/ slice' = IF RunDelivery!currentSlice = 0 THEN slice
                         ELSE [slice EXCEPT ![RunDelivery!currentSlice] = "skipped"],
             UNCHANGED <<commits, sha, pushed, reason, text, pulls>>
      PROVE  DeliveryTyped'
  BY <1>4 DEF DeliveryTyped, RunDelivery!ReopenLastSlice
<1>5. CASE RunDelivery!AllSlicesCommitted \/ RunDelivery!Limit
  BY <1>2, <1>5 DEF RunDelivery!AllSlicesCommitted, RunDelivery!Limit, RunDelivery!remote
<1>6. CASE RunDelivery!SendBack
  BY <1>4, <1>6 DEF RunDelivery!SendBack, RunDelivery!remote
<1>7. ASSUME NEW choice \in {"approve", "requestChanges"}, RunDelivery!decidePullRequest(choice)
      PROVE  DeliveryTyped'
  BY <1>4, <1>7 DEF RunDelivery!decidePullRequest, RunDelivery!remote
<1>8. ASSUME NEW choice \in {"retryWithHint", "skipSlice", "abort"}, NEW tick \in RunDelivery!Tick,
             RunDelivery!resolveEscalation(choice, tick)
      PROVE  DeliveryTyped'
  BY <1>4, <1>8 DEF RunDelivery!resolveEscalation, RunDelivery!remote
<1>9. ASSUME NEW tick \in RunDelivery!Tick, RunDelivery!abort(tick) PROVE DeliveryTyped'
  BY <1>2, <1>9 DEF RunDelivery!abort, RunDelivery!remote
<1>10. ASSUME reason'.ended \in {"none", "complete", "failed", "aborted"},
              UNCHANGED <<slice, commits, sha, pushed, text, pulls>>
       PROVE  DeliveryTyped'
  BY <1>10 DEF DeliveryTyped
<1>11. CASE RunDelivery!ReviewPassed
  BY <1>10, <1>11
  DEF RunDelivery!ReviewPassed, RunDelivery!Deliver, RunDelivery!run, RunDelivery!remote
<1>12. CASE RunDelivery!deliverIfOwed
  BY <1>10, <1>12
  DEF RunDelivery!deliverIfOwed, RunDelivery!Deliver, RunDelivery!run, RunDelivery!remote
<1>13. CASE RunDelivery!Composed
  <2>1. text' \in Text
    BY <1>13, ContentType DEF RunDelivery!Composed
  <2> QED
    BY <1>13, <2>1
    DEF RunDelivery!Composed, RunDelivery!Step, RunDelivery!run, RunDelivery!remote, DeliveryTyped
<1>14. CASE RunDelivery!HasBase \/ RunDelivery!EmptyRepository \/ RunDelivery!BaseBegun
            \/ RunDelivery!Pushed \/ RunDelivery!NotFound
  BY <1>1, <1>14
  DEF RunDelivery!HasBase, RunDelivery!EmptyRepository, RunDelivery!BaseBegun,
      RunDelivery!Pushed, RunDelivery!NotFound, RunDelivery!Step, RunDelivery!BeginBase,
      RunDelivery!Push, RunDelivery!run, RunDelivery!remote, DeliveryTyped
<1>15. ASSUME RunDelivery!Ended, UNCHANGED <<slice, commits, sha>>,
              pushed' = pushed \/ pushed' = Len(commits),
              pulls' = pulls \/ RunDelivery!OpenPullRequest
       PROVE  DeliveryTyped'
  <2>1. RunDelivery!NoText \in Text
    BY DEF RunDelivery!NoText, Text
  <2>2. RunDelivery!NoReason.ended = "none"
    BY DEF RunDelivery!NoReason
  <2>3. pulls' \in Seq(PullRequest)
    <3>1. CASE pulls' = pulls
      BY <3>1 DEF DeliveryTyped
    <3>2. CASE RunDelivery!OpenPullRequest
      <4>1. SubSeq(commits, 1, pushed) \in Seq(Plan)
        BY <1>1 DEF DeliveryTyped
      <4>2. RunDelivery!StoppedEarly \in BOOLEAN
        BY DEF RunDelivery!StoppedEarly
      <4>3. [open |-> TRUE, draft |-> RunDelivery!StoppedEarly, text |-> text,
             holds |-> SubSeq(commits, 1, pushed)] \in PullRequest
        BY <4>1, <4>2 DEF PullRequest, DeliveryTyped
      <4> QED BY <3>2, <4>3 DEF RunDelivery!OpenPullRequest, DeliveryTyped
    <3> QED BY <1>15, <3>1, <3>2
  <2> QED BY <1>1, <1>15, <2>1, <2>2, <2>3 DEF RunDelivery!Ended, DeliveryTyped
<1>16. CASE RunDelivery!KeptLocal \/ RunDelivery!NoSuchBranch
  BY <1>15, <1>16
  DEF RunDelivery!KeptLocal, RunDelivery!NoSuchBranch, RunDelivery!run, RunDelivery!remote
<1>17. CASE RunDelivery!Found \/ RunDelivery!Opened
  BY <1>15, <1>17
  DEF RunDelivery!Found, RunDelivery!Opened, RunDelivery!Recorded, RunDelivery!OpenPullRequest,
      RunDelivery!remote
<1>18. ASSUME RunDelivery!CutShort, UNCHANGED <<slice, commits, sha>> PROVE DeliveryTyped'
  BY <1>15, <1>18
  DEF RunDelivery!CutShort, RunDelivery!BeginBase, RunDelivery!Push,
      RunDelivery!OpenPullRequest, RunDelivery!remote
<1>20. CASE RunDelivery!CallFails
  BY <1>18, <1>20 DEF RunDelivery!CallFails, RunDelivery!run
<1>21. ASSUME NEW tick \in RunDelivery!Tick, RunDelivery!abortDies(tick) PROVE DeliveryTyped'
  BY <1>18, <1>21 DEF RunDelivery!abortDies
<1>19. CASE RunDelivery!ClosedOnGitHub
  <2>1. pulls' = [pulls EXCEPT ![1].open = FALSE]
    BY <1>19 DEF RunDelivery!ClosedOnGitHub
  <2>2. Len(pulls) = 1 /\ pulls \in Seq(PullRequest)
    BY <1>19 DEF RunDelivery!ClosedOnGitHub, DeliveryTyped
  <2>3. [pulls[1] EXCEPT !.open = FALSE] \in PullRequest
    <3>1. pulls[1] \in PullRequest
      BY <2>2
    <3> QED BY <3>1 DEF PullRequest
  <2>4. pulls' \in Seq(PullRequest)
    <3> DEFINE closed_ == [pulls[1] EXCEPT !.open = FALSE]
    <3>1. pulls' = [pulls EXCEPT ![1] = closed_]
      BY <2>1 DEF closed_
    <3>2. closed_ \in PullRequest
      BY <2>3
    <3> HIDE DEF closed_
    <3> QED BY <2>2, <3>1, <3>2, OnePutInPlace
  <2> QED BY <1>19, <2>4 DEF RunDelivery!ClosedOnGitHub, RunDelivery!run, DeliveryTyped
<1> QED
  BY <1>3, <1>5, <1>6, <1>7, <1>8, <1>9, <1>11, <1>12, <1>13, <1>14, <1>16, <1>17, <1>19,
     <1>20, <1>21, DeliveryActions

\* What waits at the PR Gate was pushed as it stands: the branch is not built on
\* between a push and the Gate, nor at the Gate.
LEMMA PushStays ==
    ASSUME DeliveryTyped, PushFits, RunDelivery!Next
    PROVE  PushFits'
<1> USE DEF PushFits, RunDelivery!OpenIsNeverRefused, RunDelivery!GateShowsTheBranch,
            RunDelivery!Existing
<1>1. ASSUME NEW s \in Plan, RunDelivery!SlicePasses(s) PROVE PushFits'
  BY <1>1 DEF RunDelivery!SlicePasses
<1>2. CASE RunDelivery!AllSlicesCommitted
  BY <1>2 DEF RunDelivery!AllSlicesCommitted, RunDelivery!Goes, RunDelivery!remote
<1>3. CASE RunDelivery!Limit
  BY <1>3 DEF RunDelivery!Limit, RunDelivery!Goes, RunDelivery!remote
<1>4. CASE RunDelivery!SendBack
  BY <1>4 DEF RunDelivery!SendBack, RunDelivery!Goes, RunDelivery!remote
<1>5. ASSUME NEW choice \in {"approve", "requestChanges"}, RunDelivery!decidePullRequest(choice)
      PROVE  PushFits'
  BY <1>5 DEF RunDelivery!decidePullRequest, RunDelivery!Goes, RunDelivery!remote
<1>6. ASSUME NEW choice \in {"retryWithHint", "skipSlice", "abort"}, NEW tick \in RunDelivery!Tick,
             RunDelivery!resolveEscalation(choice, tick)
      PROVE  PushFits'
  BY <1>6
  DEF RunDelivery!resolveEscalation, RunDelivery!Goes, RunDelivery!LC!EscalationTarget,
      RunDelivery!remote
<1>7. ASSUME NEW tick \in RunDelivery!Tick, RunDelivery!abort(tick) PROVE PushFits'
  BY <1>7 DEF RunDelivery!abort, RunDelivery!Goes, RunDelivery!remote
<1>8. CASE RunDelivery!ReviewPassed \/ RunDelivery!deliverIfOwed
  BY <1>8 DEF RunDelivery!ReviewPassed, RunDelivery!deliverIfOwed, RunDelivery!Deliver,
              RunDelivery!run, RunDelivery!remote
<1>9. CASE RunDelivery!Composed \/ RunDelivery!HasBase \/ RunDelivery!EmptyRepository
           \/ RunDelivery!NoSuchBranch \/ RunDelivery!BaseBegun
  BY <1>9 DEF RunDelivery!Composed, RunDelivery!HasBase, RunDelivery!EmptyRepository,
              RunDelivery!NoSuchBranch, RunDelivery!BaseBegun, RunDelivery!BeginBase,
              RunDelivery!Step, RunDelivery!Ended, RunDelivery!run, RunDelivery!remote
<1>10. CASE RunDelivery!Pushed
  BY <1>10 DEF RunDelivery!Pushed, RunDelivery!Push, RunDelivery!Step, RunDelivery!run
<1>11. CASE RunDelivery!NotFound
  BY <1>11 DEF RunDelivery!NotFound, RunDelivery!Step, RunDelivery!run, RunDelivery!remote
<1>12. CASE RunDelivery!KeptLocal
  BY <1>12, DeliveryMoves
  DEF RunDelivery!KeptLocal, RunDelivery!Outcome, RunDelivery!Goes, RunDelivery!Ended,
      RunDelivery!remote
<1>13. CASE RunDelivery!Found
  <2>1. /\ delivering = "find" /\ delivering' = "idle"
        /\ pullRequest' \in DOMAIN pulls /\ UNCHANGED <<pulls, pushed, commits>>
    BY <1>13 DEF RunDelivery!Found, RunDelivery!Recorded, RunDelivery!Ended, RunDelivery!remote
  <2> QED BY <2>1
<1>14. CASE RunDelivery!Opened
  <2>1. /\ delivering = "open" /\ delivering' = "idle" /\ UNCHANGED <<pushed, commits>>
        /\ pullRequest' = Len(pulls) + 1 /\ RunDelivery!OpenPullRequest
    BY <1>14 DEF RunDelivery!Opened, RunDelivery!Recorded, RunDelivery!Ended, RunDelivery!OpenPullRequest
  <2>2. pullRequest' \in DOMAIN pulls'
    BY <2>1 DEF RunDelivery!OpenPullRequest, DeliveryTyped
  <2> QED BY <2>1, <2>2
<1>15. ASSUME RunDelivery!CutShort, UNCHANGED <<commits, runState, pullRequest>> PROVE PushFits'
  <2>1. /\ delivering' = "idle"
        /\ pushed' = pushed \/ pushed' = Len(commits)
        /\ pulls' = pulls \/ RunDelivery!OpenPullRequest
    BY <1>15 DEF RunDelivery!CutShort, RunDelivery!Ended, RunDelivery!remote,
                 RunDelivery!BeginBase, RunDelivery!Push, RunDelivery!OpenPullRequest
  <2>2. DOMAIN pulls \subseteq DOMAIN pulls'
    BY <2>1 DEF RunDelivery!OpenPullRequest, DeliveryTyped
  <2> QED BY <1>15, <2>1, <2>2
<1>17. CASE RunDelivery!CallFails
  BY <1>15, <1>17 DEF RunDelivery!CallFails, RunDelivery!run
<1>18. ASSUME NEW tick \in RunDelivery!Tick, RunDelivery!abortDies(tick) PROVE PushFits'
  BY <1>15, <1>18 DEF RunDelivery!abortDies
<1>16. CASE RunDelivery!ClosedOnGitHub
  <2>1. /\ UNCHANGED <<delivering, runState, commits, pushed, pullRequest>>
        /\ DOMAIN pulls' = DOMAIN pulls
        /\ \A n \in DOMAIN pulls : pulls'[n].open => pulls[n].open
    BY <1>16 DEF RunDelivery!ClosedOnGitHub, RunDelivery!run, DeliveryTyped
  <2> QED BY <2>1
<1> QED
  BY <1>1, <1>2, <1>3, <1>4, <1>5, <1>6, <1>7, <1>8, <1>9, <1>10, <1>11, <1>12, <1>13, <1>14,
     <1>16, <1>17, <1>18, DeliveryActions

\* Slices that are built one at a time stay in order.
LEMMA OrderStays ==
    ASSUME DeliveryTyped, InOrder, BuiltInOrder, RunDelivery!Next
    PROVE  BuiltInOrder'
<1>1. /\ Plan \subseteq Nat /\ 0 \notin Plan /\ Len(commits) \in Nat
      /\ \A i \in DOMAIN commits : i \in 1..Len(commits) /\ commits[i] \in Plan
  BY ConstantsAssumption DEF DeliveryTyped, Plan, RunDelivery!Slices
<1>2. RunDelivery!Unfinished = Unfinished /\ RunDelivery!PassedSlices = Passed
  BY DEF RunDelivery!Unfinished, RunDelivery!PassedSlices, Unfinished, Passed, Plan
<1>3. ASSUME UNCHANGED <<slice, commits, sha>>,
             runState' \in {"reviewing", "awaitingPrGate"} =>
                runState \in {"reviewing", "awaitingPrGate"} \/ Unfinished = {}
      PROVE  BuiltInOrder'
  BY <1>3 DEF BuiltInOrder, Passed, Unfinished
<1>4. ASSUME UNCHANGED <<slice, commits, sha, runState>> PROVE BuiltInOrder'
  BY <1>3, <1>4
<1>5. ASSUME NEW s \in Plan, RunDelivery!SlicePasses(s) PROVE BuiltInOrder'
  <2>1. /\ runState = "building" /\ UNCHANGED runState
        /\ s = RunDelivery!currentSlice /\ s \in Unfinished
        /\ commits' = Append(commits, s)
        /\ \/ slice' = [slice EXCEPT ![s] = "passed"] /\ sha' = [sha EXCEPT ![s] = Len(commits) + 1]
           \/ slice' = [slice EXCEPT ![s] = "building"] /\ sha' = sha
    BY <1>2, <1>5 DEF RunDelivery!SlicePasses, RunDelivery!MayBuild
  <2>2. \A u \in Unfinished : s <= u
    BY <2>1, ContentType
  <2>3. /\ DOMAIN commits' = 1..(Len(commits) + 1)
        /\ commits'[Len(commits) + 1] = s
        /\ \A i \in DOMAIN commits' : i = Len(commits) + 1 \/ (i \in DOMAIN commits /\ commits'[i] = commits[i])
    BY <2>1 DEF DeliveryTyped
  <2>4. CASE slice' = [slice EXCEPT ![s] = "passed"] /\ sha' = [sha EXCEPT ![s] = Len(commits) + 1]
    <3>1. Passed' = Passed \cup {s} /\ Unfinished' = Unfinished \ {s}
      BY <2>1, <2>4 DEF Passed, Unfinished, DeliveryTyped
    <3>2. \A p \in Passed', u \in Unfinished' : p < u
      BY <1>1, <2>2, <3>1 DEF BuiltInOrder, Passed, Unfinished
    <3>3. \A i \in DOMAIN commits, u \in Unfinished : commits[i] \in Unfinished => commits[i] = s
      <4>1. SUFFICES ASSUME NEW i \in DOMAIN commits, commits[i] \in Unfinished
                     PROVE  commits[i] = s
        OBVIOUS
      <4>2. commits[i] <= s /\ s <= commits[i]
        BY <2>1, <2>2, <4>1 DEF BuiltInOrder
      <4>3. commits[i] \in Nat /\ s \in Nat
        BY <1>1
      <4> QED BY <4>2, <4>3
    <3>4. \A i \in DOMAIN commits' : commits'[i] \notin Unfinished'
      BY <2>1, <2>3, <3>1, <3>3
    <3>5. ASSUME NEW p \in Passed', NEW i \in DOMAIN commits', commits'[i] > p,
                 slice'[commits'[i]] # "skipped"
          PROVE  sha'[p] < i
      <4>1. commits'[i] \in Plan
        BY <1>1, <2>3
      <4>2. commits'[i] \in Passed'
        BY <3>4, <3>5, <4>1 DEF Passed, Unfinished
      <4>3. p # s
        <5>1. SUFFICES ASSUME p = s PROVE FALSE
          OBVIOUS
        <5>2. commits'[i] \in Passed
          BY <1>1, <3>1, <3>5, <4>2, <5>1
        <5>3. commits'[i] < s
          BY <2>1, <5>2 DEF BuiltInOrder
        <5>4. commits'[i] > s
          BY <3>5, <5>1
        <5>5. commits'[i] \in Nat /\ s \in Nat
          BY <1>1, <4>1
        <5> QED BY <5>3, <5>4, <5>5
      <4>4. p \in Passed /\ sha'[p] = sha[p]
        BY <2>4, <3>1, <3>5, <4>3 DEF Passed, DeliveryTyped
      <4>5. CASE i = Len(commits) + 1
        BY <1>1, <4>4, <4>5 DEF DeliveryTyped, Passed
      <4>6. CASE i \in DOMAIN commits
        <5>1. commits[i] = commits'[i]
          BY <1>1, <2>3, <4>6
        <5>2. slice[commits[i]] # "skipped"
          BY <1>1, <2>1, <2>4, <3>5, <4>6, <5>1 DEF DeliveryTyped, Unfinished
        <5> QED BY <3>5, <4>4, <4>6, <5>1, <5>2 DEF BuiltInOrder
      <4> QED BY <2>3, <4>5, <4>6
    <3>6. runState' \notin {"reviewing", "awaitingPrGate"}
      BY <2>1
    <3> QED BY <3>2, <3>4, <3>5, <3>6 DEF BuiltInOrder
  <2>5. CASE slice' = [slice EXCEPT ![s] = "building"] /\ sha' = sha
    <3>1. Passed' = Passed /\ Unfinished' = Unfinished
      BY <2>1, <2>5 DEF Passed, Unfinished, DeliveryTyped
    <3>2. \A p \in Passed, u \in Unfinished : p < u
      BY DEF BuiltInOrder
    <3>3. \A i \in DOMAIN commits', u \in Unfinished :
             commits'[i] \in Unfinished => commits'[i] <= u
      BY <2>2, <2>3 DEF BuiltInOrder
    <3>4. ASSUME NEW p \in Passed, NEW i \in DOMAIN commits', commits'[i] > p,
                 slice'[commits'[i]] # "skipped"
          PROVE  sha[p] < i
      <4>1. CASE i = Len(commits) + 1
        BY <1>1, <4>1 DEF DeliveryTyped, Passed
      <4>2. CASE i \in DOMAIN commits
        <5>1. commits[i] = commits'[i]
          BY <1>1, <2>3, <4>2
        <5>2. slice[commits[i]] # "skipped"
          BY <1>1, <2>1, <2>5, <3>4, <4>2, <5>1 DEF DeliveryTyped, Unfinished
        <5> QED BY <3>4, <4>2, <5>1, <5>2 DEF BuiltInOrder
      <4> QED BY <2>3, <4>1, <4>2
    <3>5. runState' \notin {"reviewing", "awaitingPrGate"}
      BY <2>1
    <3> QED BY <2>5, <3>1, <3>2, <3>3, <3>4, <3>5 DEF BuiltInOrder
  <2> QED BY <2>1, <2>4, <2>5
<1>6. ASSUME RunDelivery!ReopenLastSlice, UNCHANGED <<commits, sha>>,
             runState \in {"reviewing", "awaitingPrGate"}, runState' = "building"
      PROVE  BuiltInOrder'
  <2>1. CASE Passed = {}
    BY <1>2, <1>3, <1>6, <2>1 DEF RunDelivery!ReopenLastSlice
  <2>2. CASE Passed # {}
    <3> DEFINE m == RunDelivery!Max(Passed)
    <3>1. Passed \in SUBSET Nat /\ \A p \in Passed : p <= LastSlice
      BY <1>1, ConstantsAssumption DEF Passed, Plan, RunDelivery!Slices
    <3>2. \E q \in Passed : \A p \in Passed : p <= q
      BY <2>2, <3>1, GreatestNatural, ConstantsAssumption
    <3>3. \E q \in Passed : \A p \in Passed : q >= p
      BY <3>1, <3>2
    <3>4. m \in Passed /\ \A p \in Passed : m >= p
      BY <3>3 DEF RunDelivery!Max
    <3>5. slice' = [slice EXCEPT ![m] = "building"]
      BY <1>2, <1>6, <2>2 DEF RunDelivery!ReopenLastSlice
    <3> HIDE DEF m
    <3>6. Unfinished = {}
      BY <1>6 DEF BuiltInOrder
    <3>7. Unfinished' = {m} /\ Passed' = Passed \ {m}
      BY <3>4, <3>5, <3>6 DEF Passed, Unfinished, DeliveryTyped
    <3>8. \A p \in Passed', u \in Unfinished' : p < u
      BY <3>1, <3>4, <3>7
    <3>9. \A i \in DOMAIN commits', u \in Unfinished' :
             commits'[i] \in Unfinished' => commits'[i] <= u
      BY <1>1, <3>1, <3>4, <3>7
    <3>10. \A p \in Passed', i \in DOMAIN commits' :
              commits'[i] > p /\ slice'[commits'[i]] # "skipped" => sha'[p] < i
      <4>1. SUFFICES ASSUME NEW p \in Passed', NEW i \in DOMAIN commits', commits'[i] > p,
                            slice'[commits'[i]] # "skipped"
                     PROVE  sha'[p] < i
        OBVIOUS
      <4>2. p \in Passed /\ commits'[i] = commits[i] /\ sha'[p] = sha[p]
        BY <1>6, <3>7, <4>1
      <4>3. slice[commits[i]] # "skipped"
        BY <1>1, <1>6, <3>4, <3>5, <4>1 DEF Passed, DeliveryTyped
      <4> QED BY <1>6, <4>1, <4>2, <4>3 DEF BuiltInOrder
    <3> QED BY <1>6, <3>8, <3>9, <3>10 DEF BuiltInOrder
  <2> QED BY <2>1, <2>2
<1>7. CASE RunDelivery!AllSlicesCommitted
  BY <1>2, <1>3, <1>7 DEF RunDelivery!AllSlicesCommitted
<1>8. CASE RunDelivery!Limit
  BY <1>3, <1>8 DEF RunDelivery!Limit, RunDelivery!Goes
<1>9. CASE RunDelivery!SendBack
  <2>1. runState = "reviewing" /\ runState' = "building"
    BY <1>9, DeliveryMoves DEF RunDelivery!SendBack, RunDelivery!Goes
  <2> QED BY <1>6, <1>9, <2>1 DEF RunDelivery!SendBack
<1>10. ASSUME NEW choice \in {"approve", "requestChanges"}, RunDelivery!decidePullRequest(choice)
       PROVE  BuiltInOrder'
  <2>1. CASE choice = "approve"
    BY <1>3, <1>10, <2>1 DEF RunDelivery!decidePullRequest, RunDelivery!Goes
  <2>2. CASE choice = "requestChanges"
    <3>1. runState = "awaitingPrGate" /\ runState' = "building" /\ RunDelivery!ReopenLastSlice
      BY <1>10, <2>2, DeliveryMoves DEF RunDelivery!decidePullRequest, RunDelivery!Goes
    <3> QED BY <1>6, <1>10, <3>1 DEF RunDelivery!decidePullRequest
  <2> QED BY <1>10, <2>1, <2>2
<1>11. ASSUME NEW choice \in {"retryWithHint", "skipSlice", "abort"}, NEW tick \in RunDelivery!Tick,
              RunDelivery!resolveEscalation(choice, tick)
       PROVE  BuiltInOrder'
  <2>1. runState' \notin {"reviewing", "awaitingPrGate"} /\ UNCHANGED <<commits, sha>>
    BY <1>11 DEF RunDelivery!resolveEscalation, RunDelivery!Goes, RunDelivery!LC!EscalationTarget
  <2>2. CASE slice' = slice
    BY <1>3, <2>1, <2>2
  <2>3. CASE slice' # slice
    <3> DEFINE k == RunDelivery!currentSlice
    <3>1. k # 0 /\ slice' = [slice EXCEPT ![k] = "skipped"]
      BY <1>11, <2>3 DEF RunDelivery!resolveEscalation
    <3>2. k \in Unfinished /\ \A u \in Unfinished : k <= u
      BY <3>1, ContentType
    <3> HIDE DEF k
    <3>3. Unfinished' = Unfinished \ {k} /\ Passed' = Passed
      BY <3>1, <3>2 DEF Passed, Unfinished, DeliveryTyped
    <3>4. \A i \in DOMAIN commits, u \in Unfinished' : commits[i] \in Unfinished' => commits[i] <= u
      BY <3>3 DEF BuiltInOrder
    <3>5. \A p \in Passed, i \in DOMAIN commits :
             commits[i] > p /\ slice'[commits[i]] # "skipped" => sha[p] < i
      <4>1. \A t \in Plan : slice'[t] # "skipped" => slice[t] # "skipped"
        BY <3>1, <3>2 DEF DeliveryTyped
      <4> QED BY <1>1, <4>1 DEF BuiltInOrder
    <3>6. \A p \in Passed', u \in Unfinished' : p < u
      BY <3>3 DEF BuiltInOrder
    <3> QED BY <2>1, <3>3, <3>4, <3>5, <3>6 DEF BuiltInOrder
  <2> QED BY <2>2, <2>3
<1>12. ASSUME NEW tick \in RunDelivery!Tick, RunDelivery!abort(tick) PROVE BuiltInOrder'
  BY <1>3, <1>12 DEF RunDelivery!abort, RunDelivery!Goes
<1>13. CASE \/ RunDelivery!ReviewPassed \/ RunDelivery!deliverIfOwed \/ RunDelivery!Composed
            \/ RunDelivery!HasBase \/ RunDelivery!EmptyRepository \/ RunDelivery!NoSuchBranch
            \/ RunDelivery!BaseBegun \/ RunDelivery!Pushed \/ RunDelivery!NotFound
            \/ RunDelivery!CallFails \/ RunDelivery!ClosedOnGitHub
  BY <1>4, <1>13
  DEF RunDelivery!ReviewPassed, RunDelivery!deliverIfOwed, RunDelivery!Deliver,
      RunDelivery!Composed, RunDelivery!HasBase, RunDelivery!EmptyRepository,
      RunDelivery!NoSuchBranch, RunDelivery!BaseBegun, RunDelivery!Pushed, RunDelivery!NotFound,
      RunDelivery!Step, RunDelivery!CallFails, RunDelivery!ClosedOnGitHub, RunDelivery!run
<1>16. ASSUME NEW tick \in RunDelivery!Tick, RunDelivery!abortDies(tick) PROVE BuiltInOrder'
  BY <1>4, <1>16 DEF RunDelivery!abortDies
<1>14. ASSUME RunDelivery!Outcome("prOpened") \/ RunDelivery!Outcome("nothingToDeliver"),
              UNCHANGED <<slice, commits, sha>>
       PROVE  BuiltInOrder'
  BY <1>3, <1>14, DeliveryMoves DEF RunDelivery!Outcome, RunDelivery!Goes
<1>15. CASE RunDelivery!KeptLocal \/ RunDelivery!Found \/ RunDelivery!Opened
  BY <1>14, <1>15
  DEF RunDelivery!KeptLocal, RunDelivery!Found, RunDelivery!Opened, RunDelivery!Recorded
<1> QED
  BY <1>5, <1>7, <1>8, <1>9, <1>10, <1>11, <1>12, <1>13, <1>15, <1>16,
     DeliveryActions

\* A text is composed from the branch as it stands, and nothing is built until it is used.
LEMMA TextStays ==
    ASSUME DeliveryTyped, BuiltInOrder, TextFits, RunDelivery!Next
    PROVE  TextFits'
<1>1. ASSUME UNCHANGED <<commits, text, delivering>> PROVE TextFits'
  BY <1>1 DEF TextFits, RunDelivery!SaysNotIncluded
<1>2. ASSUME delivering' \in {"idle", "count"} PROVE TextFits'
  BY <1>2 DEF TextFits
<1>3. ASSUME NEW s \in Plan, RunDelivery!SlicePasses(s) PROVE TextFits'
  BY <1>3 DEF RunDelivery!SlicePasses, TextFits
<1>4. CASE RunDelivery!AllSlicesCommitted \/ RunDelivery!Limit \/ RunDelivery!SendBack
  BY <1>1, <1>4 DEF RunDelivery!AllSlicesCommitted, RunDelivery!Limit, RunDelivery!SendBack
<1>5. ASSUME NEW choice \in {"approve", "requestChanges"}, RunDelivery!decidePullRequest(choice)
      PROVE  TextFits'
  BY <1>1, <1>5 DEF RunDelivery!decidePullRequest
<1>6. ASSUME NEW choice \in {"retryWithHint", "skipSlice", "abort"}, NEW tick \in RunDelivery!Tick,
             RunDelivery!resolveEscalation(choice, tick)
      PROVE  TextFits'
  BY <1>1, <1>6 DEF RunDelivery!resolveEscalation
<1>7. ASSUME NEW tick \in RunDelivery!Tick, RunDelivery!abort(tick) PROVE TextFits'
  BY <1>1, <1>7 DEF RunDelivery!abort
<1>8. CASE RunDelivery!ReviewPassed \/ RunDelivery!deliverIfOwed
  BY <1>2, <1>8 DEF RunDelivery!ReviewPassed, RunDelivery!deliverIfOwed, RunDelivery!Deliver
<1>9. CASE RunDelivery!Composed
  <2>1. commits # <<>> /\ text' = RunDelivery!PullRequestContent /\ UNCHANGED commits
    BY <1>9 DEF RunDelivery!Composed, RunDelivery!Step, RunDelivery!run
  <2>2. SUFFICES ASSUME RunDelivery!SaysNotIncluded(text'),
                        NEW i \in DOMAIN commits, commits[i] = text'.unfinished
                 PROVE  FALSE
    BY <2>1 DEF TextFits, RunDelivery!SaysNotIncluded
  <2> DEFINE k == RunDelivery!currentSlice
             f == RunDelivery!LastFinished
  <2>3. k # 0 /\ text'.unfinished = k /\ Len(commits) - f = 0
    BY <2>1, <2>2
    DEF RunDelivery!PullRequestContent, RunDelivery!NoText, RunDelivery!SaysNotIncluded
  <2>4. k \in Unfinished /\ k \in Plan /\ f \in 0..Len(commits)
    BY <2>3, ContentType
  <2>5. Len(commits) \in Nat \ {0} /\ i \in 1..Len(commits)
    BY <2>1 DEF DeliveryTyped
  <2>6. PICK s \in Passed : sha[s] = f
    BY <2>3, <2>4, <2>5, ContentType
  <2> HIDE DEF k, f
  <2>7. s < k
    BY <2>4 DEF BuiltInOrder
  <2>8. commits[i] > s /\ slice[commits[i]] # "skipped"
    <3>1. s \in Nat /\ k \in Nat
      BY <2>4, ConstantsAssumption DEF Passed, Plan, RunDelivery!Slices
    <3>2. slice[k] # "skipped"
      BY <2>4 DEF Unfinished
    <3> QED BY <2>2, <2>3, <2>7, <3>1, <3>2
  <2>9. sha[s] < i
    BY <2>8 DEF BuiltInOrder
  <2> QED BY <2>3, <2>4, <2>5, <2>6, <2>9
<1>10. CASE RunDelivery!HasBase \/ RunDelivery!EmptyRepository \/ RunDelivery!BaseBegun
            \/ RunDelivery!Pushed \/ RunDelivery!NotFound
  BY <1>10
  DEF RunDelivery!HasBase, RunDelivery!EmptyRepository, RunDelivery!BaseBegun,
      RunDelivery!Pushed, RunDelivery!NotFound, RunDelivery!Step, RunDelivery!run, TextFits,
      RunDelivery!SaysNotIncluded
<1>11. CASE RunDelivery!NoSuchBranch \/ RunDelivery!KeptLocal \/ RunDelivery!Found
            \/ RunDelivery!Opened \/ RunDelivery!CallFails
  BY <1>2, <1>11
  DEF RunDelivery!NoSuchBranch, RunDelivery!KeptLocal, RunDelivery!Found, RunDelivery!Opened,
      RunDelivery!Recorded, RunDelivery!CallFails, RunDelivery!CutShort, RunDelivery!Ended
<1>13. ASSUME NEW tick \in RunDelivery!Tick, RunDelivery!abortDies(tick) PROVE TextFits'
  BY <1>2, <1>13 DEF RunDelivery!abortDies, RunDelivery!CutShort, RunDelivery!Ended
<1>12. CASE RunDelivery!ClosedOnGitHub
  BY <1>1, <1>12 DEF RunDelivery!ClosedOnGitHub, RunDelivery!run
<1> QED
  BY <1>3, <1>4, <1>5, <1>6, <1>7, <1>8, <1>9, <1>10, <1>11, <1>12, <1>13,
     DeliveryActions

\* A pull request keeps what it was opened with.
LEMMA NotIncludedStays ==
    ASSUME DeliveryTyped, PushFits, TextFits, RunDelivery!NotIncludedMeansAbsent,
           RunDelivery!Next
    PROVE  RunDelivery!NotIncludedMeansAbsent'
<1> USE DEF RunDelivery!NotIncludedMeansAbsent
<1>1. ASSUME UNCHANGED pulls PROVE RunDelivery!NotIncludedMeansAbsent'
  BY <1>1 DEF RunDelivery!SaysNotIncluded, RunDelivery!Contains
<1>2. ASSUME delivering = "open", RunDelivery!OpenPullRequest
      PROVE  RunDelivery!NotIncludedMeansAbsent'
  <2> DEFINE opened == [open |-> TRUE, draft |-> RunDelivery!StoppedEarly, text |-> text,
                        holds |-> SubSeq(commits, 1, pushed)]
  <2>1. pulls' = Append(pulls, opened)
    BY <1>2 DEF RunDelivery!OpenPullRequest
  <2>2. opened.holds = commits /\ opened.text = text
    BY <1>2 DEF PushFits, DeliveryTyped
  <2>3. RunDelivery!SaysNotIncluded(opened.text)
           => ~RunDelivery!Contains(opened.holds, opened.text.unfinished)
    BY <1>2, <2>2 DEF TextFits, RunDelivery!Contains, DeliveryTyped
  <2> HIDE DEF opened
  <2>4. \A n \in DOMAIN pulls' : pulls'[n] = opened \/ (n \in DOMAIN pulls /\ pulls'[n] = pulls[n])
    BY <2>1 DEF DeliveryTyped
  <2>5. SUFFICES ASSUME NEW n \in DOMAIN pulls', RunDelivery!SaysNotIncluded(pulls'[n].text)
                 PROVE  ~RunDelivery!Contains(pulls'[n].holds, pulls'[n].text.unfinished)
    BY DEF RunDelivery!SaysNotIncluded, RunDelivery!Contains
  <2> QED BY <2>3, <2>4, <2>5
<1>3. CASE RunDelivery!Opened
  BY <1>2, <1>3 DEF RunDelivery!Opened
<1>4. ASSUME RunDelivery!CutShort PROVE RunDelivery!NotIncludedMeansAbsent'
  BY <1>1, <1>2, <1>4
  DEF RunDelivery!CutShort, RunDelivery!remote, RunDelivery!BeginBase, RunDelivery!Push
<1>12. CASE RunDelivery!CallFails
  BY <1>4, <1>12 DEF RunDelivery!CallFails
<1>13. ASSUME NEW tick \in RunDelivery!Tick, RunDelivery!abortDies(tick)
       PROVE  RunDelivery!NotIncludedMeansAbsent'
  BY <1>4, <1>13 DEF RunDelivery!abortDies
<1>5. CASE RunDelivery!ClosedOnGitHub
  <2>1. /\ DOMAIN pulls' = DOMAIN pulls
        /\ \A n \in DOMAIN pulls : pulls'[n].text = pulls[n].text /\ pulls'[n].holds = pulls[n].holds
    BY <1>5 DEF RunDelivery!ClosedOnGitHub, DeliveryTyped, PullRequest
  <2> QED BY <2>1 DEF RunDelivery!SaysNotIncluded, RunDelivery!Contains
<1>6. ASSUME NEW s \in Plan, RunDelivery!SlicePasses(s) PROVE RunDelivery!NotIncludedMeansAbsent'
  BY <1>1, <1>6 DEF RunDelivery!SlicePasses, RunDelivery!remote
<1>7. ASSUME NEW choice \in {"approve", "requestChanges"}, RunDelivery!decidePullRequest(choice)
      PROVE  RunDelivery!NotIncludedMeansAbsent'
  BY <1>1, <1>7 DEF RunDelivery!decidePullRequest, RunDelivery!remote
<1>8. ASSUME NEW choice \in {"retryWithHint", "skipSlice", "abort"}, NEW tick \in RunDelivery!Tick,
             RunDelivery!resolveEscalation(choice, tick)
      PROVE  RunDelivery!NotIncludedMeansAbsent'
  BY <1>1, <1>8 DEF RunDelivery!resolveEscalation, RunDelivery!remote
<1>9. ASSUME NEW tick \in RunDelivery!Tick, RunDelivery!abort(tick)
      PROVE  RunDelivery!NotIncludedMeansAbsent'
  BY <1>1, <1>9 DEF RunDelivery!abort, RunDelivery!remote
<1>10. CASE \/ RunDelivery!AllSlicesCommitted \/ RunDelivery!Limit \/ RunDelivery!SendBack
            \/ RunDelivery!ReviewPassed \/ RunDelivery!deliverIfOwed \/ RunDelivery!KeptLocal
  BY <1>1, <1>10
  DEF RunDelivery!AllSlicesCommitted, RunDelivery!Limit, RunDelivery!SendBack,
      RunDelivery!ReviewPassed, RunDelivery!deliverIfOwed, RunDelivery!Deliver,
      RunDelivery!KeptLocal, RunDelivery!remote
<1>11. CASE \/ RunDelivery!Composed \/ RunDelivery!HasBase \/ RunDelivery!EmptyRepository
            \/ RunDelivery!NoSuchBranch \/ RunDelivery!BaseBegun \/ RunDelivery!Pushed
            \/ RunDelivery!Found \/ RunDelivery!NotFound
  BY <1>1, <1>11
  DEF RunDelivery!Composed, RunDelivery!HasBase, RunDelivery!EmptyRepository,
      RunDelivery!NoSuchBranch, RunDelivery!BaseBegun, RunDelivery!BeginBase,
      RunDelivery!Pushed, RunDelivery!Push, RunDelivery!Found, RunDelivery!NotFound,
      RunDelivery!remote
<1> QED
  BY <1>3, <1>5, <1>6, <1>7, <1>8, <1>9, <1>10, <1>11, <1>12, <1>13, DeliveryActions

\* A step of the system is one of the delivery, or leaves all of it alone.
LEMMA DeliveryAlone ==
    ASSUME part = "delivery", [Next]_vars
    PROVE  part' = "delivery" /\ (RunDelivery!Next \/ UNCHANGED deliveryState)
BY DEF Next, vars, PageStep, CliStep, DialogsStep, UiDesignAgentStep, SandboxStep, RunDeliveryStep

\* Everything a delivery keeps, for any plan and any faults.
THEOREM DeliveryInductive == Spec => [](part = "delivery" => DeliveryInv)
<1>1. Init => (part = "delivery" => DeliveryInv)
  <2>1. SUFFICES ASSUME RunDelivery!Init PROVE DeliveryInv
    BY DEF Init
  <2>2. Plan \subseteq Nat
    BY ConstantsAssumption DEF Plan, RunDelivery!Slices
  <2>3. DeliveryTyped
    BY <2>1
    DEF RunDelivery!Init, DeliveryTyped, Plan, Text, RunDelivery!NoText, RunDelivery!NoReason
  <2>4. TickFits /\ PushFits
    BY <2>1
    DEF RunDelivery!Init, TickFits, PushFits, RunDelivery!OpenIsNeverRefused,
        RunDelivery!GateShowsTheBranch
  <2>5. BuiltInOrder
    BY <2>1 DEF RunDelivery!Init, BuiltInOrder, Passed, Unfinished, Plan
  <2>6. TextFits /\ RunDelivery!NotIncludedMeansAbsent
    BY <2>1 DEF RunDelivery!Init, TextFits, RunDelivery!NotIncludedMeansAbsent
  <2> QED BY <2>3, <2>4, <2>5, <2>6 DEF DeliveryInv
<1>2. (part = "delivery" => DeliveryInv) /\ [Next]_vars => (part = "delivery" => DeliveryInv)'
  <2>1. SUFFICES ASSUME part = "delivery", DeliveryInv, [Next]_vars PROVE DeliveryInv'
    BY DEF Next, vars, PageStep, CliStep, DialogsStep, UiDesignAgentStep, SandboxStep,
           RunDeliveryStep
  <2>2. CASE RunDelivery!Next
    BY <2>1, <2>2, DeliveryTypedStays, TickStays, PushStays, OrderStays, TextStays,
       NotIncludedStays DEF DeliveryInv
  <2>3. CASE UNCHANGED deliveryState
    BY <2>1, <2>3
    DEF deliveryState, DeliveryInv, DeliveryTyped, TickFits, PushFits, BuiltInOrder, Passed,
        Unfinished, TextFits, RunDelivery!OpenIsNeverRefused, RunDelivery!Existing,
        RunDelivery!GateShowsTheBranch, RunDelivery!NotIncludedMeansAbsent,
        RunDelivery!SaysNotIncluded, RunDelivery!Contains
  <2> QED BY <2>1, <2>2, <2>3, DeliveryAlone
<1> QED BY <1>1, <1>2, PTL DEF Spec

\* What a person judges at the PR Gate is every Slice Commit of the Run, a Draft
\* PR that says a Slice is not included holds no commit of it, and no second pull
\* request is asked for while one is open (runDelivery.ts).
THEOREM PullRequestIsTheBranch ==
    ASSUME InOrder
    PROVE  Spec => []PullRequestShowsTheBranch
<1>1. (part = "delivery" => DeliveryInv) => PullRequestShowsTheBranch
  BY DEF DeliveryInv, PushFits, PullRequestShowsTheBranch
<1> QED BY <1>1, DeliveryInductive, PTL

\* A Draft PR is opened or not as the person said last (#abortedWithDraftPr).
THEOREM LastWordCounts == Spec => LatestTickCounts
<1>1. (part = "delivery" => DeliveryInv) /\ [Next]_vars
         => [part = "delivery" => RunDelivery!CountsLatestTick]_vars
  <2>1. SUFFICES ASSUME part = "delivery", DeliveryInv, RunDelivery!Next,
                        reason'.ended = "aborted", reason.ended = "none"
                 PROVE  \/ reason'.openDraftPr = ticked
                        \/ halfAborted /\ reason'.openDraftPr = askedFor /\ answered = ticked
    BY DeliveryAlone DEF RunDelivery!CountsLatestTick, deliveryState
  <2>2. reason' # reason
    BY <2>1
  <2>3. RunDelivery!deliverIfOwed
    <3>1. ~RunDelivery!ReviewPassed
      BY <2>1 DEF RunDelivery!ReviewPassed, RunDelivery!Deliver
    <3>2. reason' # RunDelivery!NoReason
      BY <2>1 DEF RunDelivery!NoReason
    <3>3. \A s \in Plan : ~RunDelivery!SlicePasses(s)
      BY <2>2 DEF RunDelivery!SlicePasses
    <3>4. ~(RunDelivery!AllSlicesCommitted \/ RunDelivery!Limit \/ RunDelivery!SendBack)
      BY <2>2 DEF RunDelivery!AllSlicesCommitted, RunDelivery!Limit, RunDelivery!SendBack
    <3>5. \A choice, tick : /\ ~RunDelivery!decidePullRequest(choice)
                           /\ ~RunDelivery!resolveEscalation(choice, tick)
                           /\ ~RunDelivery!abort(tick)
      BY <2>2 DEF RunDelivery!decidePullRequest, RunDelivery!resolveEscalation, RunDelivery!abort
    <3>6. ~(RunDelivery!Composed \/ RunDelivery!HasBase \/ RunDelivery!EmptyRepository
            \/ RunDelivery!BaseBegun \/ RunDelivery!Pushed \/ RunDelivery!NotFound
            \/ RunDelivery!ClosedOnGitHub)
      BY <2>2
      DEF RunDelivery!Composed, RunDelivery!HasBase, RunDelivery!EmptyRepository,
          RunDelivery!BaseBegun, RunDelivery!Pushed, RunDelivery!NotFound, RunDelivery!Step,
          RunDelivery!ClosedOnGitHub
    <3>7. ~(RunDelivery!KeptLocal \/ RunDelivery!NoSuchBranch \/ RunDelivery!Found
            \/ RunDelivery!Opened \/ RunDelivery!CallFails
            \/ \E tick \in RunDelivery!Tick : RunDelivery!abortDies(tick))
      BY <3>2
      DEF RunDelivery!KeptLocal, RunDelivery!NoSuchBranch, RunDelivery!Found,
          RunDelivery!Opened, RunDelivery!Recorded, RunDelivery!CallFails, RunDelivery!abortDies,
          RunDelivery!CutShort, RunDelivery!Ended
    <3> QED BY <2>1, <3>1, <3>3, <3>4, <3>5, <3>6, <3>7, DeliveryActions
  <2>4. runState = "aborted" /\ reason'.openDraftPr = RunDelivery!AbortedWithDraftPr
    BY <2>1, <2>3 DEF RunDelivery!deliverIfOwed, RunDelivery!Deliver
  <2> QED BY <2>1, <2>4 DEF DeliveryInv, TickFits, RunDelivery!AbortedWithDraftPr
<1> QED BY <1>1, DeliveryInductive, PTL DEF Spec, LatestTickCounts

-----------------------------------------------------------------------------
(* Test Runs: what they share, and what was gone when one started over.     *)

Callers == Runs \cup {Sandbox!Build}
Uploads == 1..MaxUploads

\* The uploads that were begun are the first ones, and each is of one content.
SendsFit ==
    /\ sends \in [Uploads -> {Sandbox!NoSend} \cup
                             [content : Sandbox!Contents, state : {"sending", "stored", "failed"}]]
    /\ \E n \in 0..MaxUploads : \A u \in Uploads : sends[u] # Sandbox!NoSend <=> u <= n

SandboxTyped ==
    /\ images \in Nat /\ saved \in 0..images
    /\ cache \in [Sandbox!Contents -> 0..MaxUploads]
    /\ attempt \in [Runs -> {1, 2}] /\ image \in [Runs -> 0..images]
    /\ file \in [Callers -> 0..MaxUploads]
    /\ place \in [Callers -> {"idle", "waiting", "uploading", "sending", "running"}]
    /\ foundGone = [c \in Runs |-> foundGone[c]]

\* The cache has an upload of the content it is asked for, and none that failed.
CacheFits ==
    \A content \in Sandbox!Contents : cache[content] # 0 =>
        sends[cache[content]].content = content /\ sends[cache[content]].state # "failed"

\* Only what was there can be gone, and what was gone stays gone.
GoneFits ==
    /\ gone \subseteq {Sandbox!ImageThing(i) : i \in 1..images} \cup
                      {Sandbox!FileThing(u) : u \in {n \in Uploads : sends[n] # Sandbox!NoSend}}
    /\ \A c \in Runs : foundGone[c] \subseteq gone

\* Since a run started over, neither what is shared nor what it holds is of what
\* was gone then.
FreshSince(c) ==
    /\ saved # 0 => Sandbox!ImageThing(saved) \notin foundGone[c]
    /\ \A content \in Sandbox!Contents : cache[content] # 0 =>
          Sandbox!FileThing(cache[content]) \notin foundGone[c]
    /\ place[c] \in {"uploading", "sending", "running"} =>
          Sandbox!ImageThing(image[c]) \notin foundGone[c]
    /\ place[c] \in {"sending", "running"} => Sandbox!FileThing(file[c]) \notin foundGone[c]

FreshFits == \A c \in Runs : attempt[c] = 2 => FreshSince(c)

SandboxInv == SandboxTyped /\ SendsFit /\ CacheFits /\ GoneFits /\ FreshFits

\* The part counts as this module does.
LEMMA CardinalityInRuns == \A S : Sandbox!Cardinality(S) = Cardinality(S)
BY DEF Sandbox!Cardinality, Cardinality

Begun == {u \in DOMAIN sends : sends[u] # Sandbox!NoSend}

\* The next upload is one that was never begun.
LEMMA NextUpload ==
    ASSUME SendsFit
    PROVE  /\ 1 + Cardinality(Begun) \in Nat \ {0}
           /\ 1 + Cardinality(Begun) <= MaxUploads =>
                /\ 1 + Cardinality(Begun) \in Uploads
                /\ sends[1 + Cardinality(Begun)] = Sandbox!NoSend
                /\ \A u \in Uploads : sends[u] # Sandbox!NoSend <=> u < 1 + Cardinality(Begun)
<1>1. PICK n \in 0..MaxUploads : \A u \in Uploads : sends[u] # Sandbox!NoSend <=> u <= n
  BY DEF SendsFit
<1>2. Begun = 1..n
  BY <1>1, ConstantsAssumption DEF SendsFit, Uploads, Begun
<1>3. Cardinality(1..n) = n
  BY <1>1, FS_Interval, ConstantsAssumption
<1>4. n \in Nat /\ \A u \in Uploads : u \in Nat
  BY <1>1, ConstantsAssumption DEF Uploads
<1>5. 1 + Cardinality(Begun) = n + 1
  BY <1>2, <1>3, <1>4
<1>6. n + 1 <= MaxUploads =>
        /\ n + 1 \in Uploads /\ sends[n + 1] = Sandbox!NoSend
        /\ \A u \in Uploads : sends[u] # Sandbox!NoSend <=> u < n + 1
  <2>1. SUFFICES ASSUME n + 1 <= MaxUploads PROVE n + 1 \in Uploads /\ sends[n + 1] = Sandbox!NoSend
                           /\ \A u \in Uploads : sends[u] # Sandbox!NoSend <=> u < n + 1
    OBVIOUS
  <2>2. n + 1 \in Uploads /\ ~(n + 1 <= n)
    BY <1>4, <2>1, ConstantsAssumption DEF Uploads
  <2>3. \A u \in Uploads : u <= n <=> u < n + 1
    BY <1>4
  <2> QED BY <1>1, <2>2, <2>3
<1> QED BY <1>4, <1>5, <1>6

\* A run asks for the saved image, or waits for a new one.
LEMMA AskingForTheImage ==
    ASSUME SandboxInv, NEW c \in Callers, Sandbox!snapshotImage(c)
    PROVE  SandboxInv'
<1>1. /\ c \in Runs /\ c # Sandbox!Build
      /\ UNCHANGED <<saved, images, cache, sends, gone, attempt, file, foundGone>>
  BY ConstantsAssumption
  DEF Sandbox!snapshotImage, Sandbox!store, Sandbox!sandbox, Sandbox!uploaded, Sandbox!Build
<1>2. \/ /\ saved # 0 /\ image' = [image EXCEPT ![c] = saved]
         /\ place' = [place EXCEPT ![c] = "uploading"]
      \/ /\ UNCHANGED image
         /\ \E b \in {"uploading", place[Sandbox!Build]} :
               place' = [place EXCEPT ![c] = "waiting", ![Sandbox!Build] = b]
  BY <1>1 DEF Sandbox!snapshotImage, SandboxInv, SandboxTyped, Callers
<1>3. SendsFit' /\ CacheFits' /\ GoneFits'
  BY <1>1 DEF SandboxInv, SendsFit, CacheFits, GoneFits
<1>4. SandboxTyped'
  BY <1>1, <1>2 DEF SandboxInv, SandboxTyped, Callers
<1>5. ASSUME NEW d \in Runs, attempt'[d] = 2 PROVE FreshSince(d)'
  <2>1. FreshSince(d) /\ d # Sandbox!Build
    BY <1>1, <1>5, ConstantsAssumption DEF SandboxInv, FreshFits, Sandbox!Build
  <2>2. CASE d = c
    BY <1>1, <1>2, <2>1, <2>2 DEF FreshSince, SandboxInv, SandboxTyped, Callers
  <2>3. CASE d # c
    <3>1. place'[d] = place[d] /\ image'[d] = image[d]
      BY <1>1, <1>2, <2>1, <2>3 DEF SandboxInv, SandboxTyped, Callers
    <3> QED BY <1>1, <2>1, <3>1 DEF FreshSince
  <2> QED BY <2>2, <2>3
<1> QED BY <1>3, <1>4, <1>5 DEF SandboxInv, FreshFits

\* What it uploads is in the cache, or is sent now.
LEMMA Uploading ==
    ASSUME SandboxInv, NEW c \in Callers, Sandbox!uploadFiles(c)
    PROVE  SandboxInv'
<1> DEFINE content == Sandbox!ContentOf(c)
           next == 1 + Cardinality(Begun)
           new == [content |-> content, state |-> "sending"]
<1>0. /\ place[c] = "uploading" /\ place' = [place EXCEPT ![c] = "sending"]
      /\ UNCHANGED <<saved, images, gone, attempt, image, foundGone>>
  BY DEF Sandbox!uploadFiles, Sandbox!store, Sandbox!sandbox
<1>1. /\ IF cache[content] # 0
         THEN file' = [file EXCEPT ![c] = cache[content]] /\ UNCHANGED Sandbox!uploaded
         ELSE /\ next <= MaxUploads
              /\ sends' = [sends EXCEPT ![next] = new]
              /\ cache' = [cache EXCEPT ![content] = next]
              /\ file' = [file EXCEPT ![c] = next]
  BY CardinalityInRuns, Zenon DEF Sandbox!uploadFiles, Begun
<1>2. content \in Sandbox!Contents /\ new # Sandbox!NoSend
  BY DEF Sandbox!ContentOf, Sandbox!Contents, Sandbox!NoSend
<1>3. /\ next \in Nat \ {0}
      /\ next <= MaxUploads =>
            /\ next \in Uploads /\ sends[next] = Sandbox!NoSend
            /\ \A u \in Uploads : sends[u] # Sandbox!NoSend <=> u < next
  BY NextUpload DEF SandboxInv
<1>4. CASE cache[content] # 0
  <2>1. SendsFit' /\ CacheFits' /\ GoneFits'
    BY <1>0, <1>1, <1>4 DEF SandboxInv, SendsFit, CacheFits, GoneFits, Sandbox!uploaded
  <2>2. SandboxTyped'
    BY <1>0, <1>1, <1>2, <1>4 DEF SandboxInv, SandboxTyped, Callers, Sandbox!uploaded
  <2>3. FreshFits'
    BY <1>0, <1>1, <1>2, <1>4
    DEF SandboxInv, SandboxTyped, Callers, FreshFits, FreshSince, Sandbox!uploaded
  <2> QED BY <2>1, <2>2, <2>3 DEF SandboxInv
<1>5. CASE cache[content] = 0
  <2> HIDE DEF next, content, new
  <2>1. /\ next \in Uploads /\ sends[next] = Sandbox!NoSend
        /\ \A u \in Uploads : sends[u] # Sandbox!NoSend <=> u < next
        /\ sends' = [sends EXCEPT ![next] = new] /\ cache' = [cache EXCEPT ![content] = next]
        /\ file' = [file EXCEPT ![c] = next]
    BY <1>0, <1>1, <1>3, <1>5
  <2>2. new \in [content : Sandbox!Contents, state : {"sending", "stored", "failed"}]
        /\ new.content = content /\ new.state = "sending"
    BY <1>2 DEF new
  <2>3. SendsFit'
    <3>1. \A u \in Uploads : sends'[u] # Sandbox!NoSend <=> u <= next
      BY <1>2, <2>1, ConstantsAssumption DEF SandboxInv, SendsFit, Uploads
    <3>2. sends' \in [Uploads -> {Sandbox!NoSend} \cup
                             [content : Sandbox!Contents, state : {"sending", "stored", "failed"}]]
      BY <2>1, <2>2 DEF SandboxInv, SendsFit
    <3>3. next \in 0..MaxUploads
      BY <2>1, ConstantsAssumption DEF Uploads
    <3> QED BY <3>1, <3>2, <3>3 DEF SendsFit
  <2>4. SandboxTyped'
    BY <1>0, <1>1, <1>2, <2>1, ConstantsAssumption DEF SandboxInv, SandboxTyped, Callers, Uploads
  <2>5. CacheFits'
    <3>1. ASSUME NEW k \in Sandbox!Contents, cache'[k] # 0
          PROVE  sends'[cache'[k]].content = k /\ sends'[cache'[k]].state # "failed"
      <4>1. CASE k = content
        BY <1>2, <2>1, <2>2, <4>1 DEF SandboxInv, SandboxTyped, SendsFit
      <4>2. CASE k # content
        <5>1. cache'[k] = cache[k] /\ cache[k] \in Uploads
          BY <1>2, <2>1, <3>1, <4>2, ConstantsAssumption DEF SandboxInv, SandboxTyped, Uploads
        <5>2. sends[cache[k]].content = k /\ sends[cache[k]].state # "failed"
          BY <3>1, <5>1 DEF SandboxInv, CacheFits
        <5>3. cache[k] # next
          BY <2>1, <5>2 DEF Sandbox!NoSend, Sandbox!Contents
        <5> QED BY <2>1, <5>1, <5>2, <5>3 DEF SandboxInv, SendsFit
      <4> QED BY <4>1, <4>2
    <3> QED BY <3>1 DEF CacheFits
  <2>6. Sandbox!FileThing(next) \notin gone
    BY <2>1 DEF SandboxInv, GoneFits, Sandbox!FileThing, Sandbox!ImageThing
  <2>7. GoneFits'
    <3>1. \A u \in Uploads : sends[u] # Sandbox!NoSend => sends'[u] # Sandbox!NoSend
      BY <1>2, <2>1 DEF SandboxInv, SendsFit
    <3> QED BY <1>0, <1>1, <3>1 DEF SandboxInv, GoneFits, Sandbox!FileThing, Sandbox!ImageThing
  <2>8. ASSUME NEW d \in Runs, attempt'[d] = 2 PROVE FreshSince(d)'
    <3>1. FreshSince(d) /\ Sandbox!FileThing(next) \notin foundGone[d]
      BY <1>0, <1>1, <2>6, <2>8 DEF SandboxInv, FreshFits, GoneFits
    <3>2. \A k \in Sandbox!Contents : cache'[k] # 0 => Sandbox!FileThing(cache'[k]) \notin foundGone[d]
      BY <1>2, <2>1, <3>1 DEF FreshSince, SandboxInv, SandboxTyped
    <3>3. CASE d = c
      BY <1>0, <1>1, <2>1, <3>1, <3>2, <3>3 DEF FreshSince, SandboxInv, SandboxTyped
    <3>4. CASE d # c
      <4>1. place'[d] = place[d] /\ file'[d] = file[d]
        BY <1>0, <1>1, <2>1, <3>4 DEF SandboxInv, SandboxTyped, Callers
      <4> QED BY <1>0, <1>1, <3>1, <3>2, <4>1 DEF FreshSince
    <3> QED BY <3>3, <3>4
  <2> QED BY <2>3, <2>4, <2>5, <2>7, <2>8 DEF SandboxInv, FreshFits
<1> QED BY <1>4, <1>5

\* An upload is stored, or fails and is forgotten.
LEMMA UploadSettles ==
    ASSUME SandboxInv, NEW u \in DOMAIN sends, Sandbox!UploadStored(u) \/ Sandbox!UploadFailed(u)
    PROVE  SandboxInv'
<1>1. /\ UNCHANGED <<saved, images, gone, attempt, image, file, place, foundGone>>
      /\ sends[u].state = "sending" /\ u \in Uploads
      /\ \E state \in {"stored", "failed"} :
            /\ sends' = [sends EXCEPT ![u].state = state]
            /\ \/ cache' = cache /\ state = "stored"
               \/ cache' = [cache EXCEPT ![sends[u].content] = 0]
  BY DEF Sandbox!UploadStored, Sandbox!UploadFailed, Sandbox!store, Sandbox!sandbox,
         Sandbox!callers, Sandbox!Forgets, SandboxInv, SendsFit
<1>2. PICK state \in {"stored", "failed"} :
         /\ sends' = [sends EXCEPT ![u].state = state]
         /\ \/ cache' = cache /\ state = "stored"
            \/ cache' = [cache EXCEPT ![sends[u].content] = 0]
  BY <1>1
<1>3. /\ sends[u] # Sandbox!NoSend /\ sends[u].content \in Sandbox!Contents
      /\ sends'[u] = [content |-> sends[u].content, state |-> state]
      /\ \A v \in Uploads \ {u} : sends'[v] = sends[v]
      /\ sends' \in [Uploads -> {Sandbox!NoSend} \cup
                                [content : Sandbox!Contents, state : {"sending", "stored", "failed"}]]
  BY <1>1, <1>2 DEF SandboxInv, SendsFit, Sandbox!NoSend
<1>4. \A v \in Uploads : sends'[v] # Sandbox!NoSend <=> sends[v] # Sandbox!NoSend
  BY <1>1, <1>2, <1>3 DEF Sandbox!NoSend
<1>5. SendsFit'
  BY <1>3, <1>4 DEF SandboxInv, SendsFit
<1>6. \A k \in Sandbox!Contents : cache'[k] \in {0, cache[k]}
  BY <1>2, <1>3 DEF SandboxInv, SandboxTyped
<1>7. CacheFits'
  <2>1. SUFFICES ASSUME NEW k \in Sandbox!Contents, cache'[k] # 0
                 PROVE  sends'[cache'[k]].content = k /\ sends'[cache'[k]].state # "failed"
    BY DEF CacheFits
  <2>2. cache'[k] = cache[k] /\ cache[k] \in Uploads
    BY <1>6, <2>1, ConstantsAssumption DEF SandboxInv, SandboxTyped, Uploads
  <2>3. sends[cache[k]].content = k /\ sends[cache[k]].state # "failed"
    BY <2>1, <2>2 DEF SandboxInv, CacheFits
  <2>4. CASE cache[k] = u
    BY <1>2, <1>3, <2>1, <2>2, <2>3, <2>4 DEF SandboxInv, SandboxTyped
  <2>5. CASE cache[k] # u
    BY <1>3, <2>2, <2>3, <2>5
  <2> QED BY <2>4, <2>5
<1>8. SandboxTyped'
  BY <1>1, <1>2, <1>3, ConstantsAssumption DEF SandboxInv, SandboxTyped
<1>9. GoneFits'
  BY <1>1, <1>4 DEF SandboxInv, GoneFits
<1>10. FreshFits'
  BY <1>1, <1>6 DEF SandboxInv, FreshFits, FreshSince
<1> QED BY <1>5, <1>7, <1>8, <1>9, <1>10 DEF SandboxInv

\* A run is spawned with the image and the file it holds, and ends.
LEMMA SpawnsAndEnds ==
    ASSUME SandboxInv, NEW c \in Callers, Sandbox!Spawns(c) \/ Sandbox!RunEnds(c)
    PROVE  SandboxInv'
<1>1. /\ UNCHANGED <<saved, images, cache, sends, gone, attempt, image, file, foundGone>>
      /\ \/ place[c] = "sending" /\ place' = [place EXCEPT ![c] = "running"]
         \/ place' = [place EXCEPT ![c] = "idle"]
  BY DEF Sandbox!Spawns, Sandbox!RunEnds, Sandbox!store, Sandbox!sandbox, Sandbox!uploaded
<1>2. SendsFit' /\ CacheFits' /\ GoneFits'
  BY <1>1 DEF SandboxInv, SendsFit, CacheFits, GoneFits
<1>3. SandboxTyped'
  BY <1>1 DEF SandboxInv, SandboxTyped, Callers
<1>4. FreshFits'
  <2>1. SUFFICES ASSUME NEW d \in Runs, attempt[d] = 2 PROVE FreshSince(d)'
    BY <1>1 DEF FreshFits
  <2>2. FreshSince(d)
    BY <2>1 DEF SandboxInv, FreshFits
  <2>3. \/ place'[d] = place[d] \/ place'[d] = "idle"
        \/ place[d] = "sending" /\ place'[d] = "running"
    BY <1>1 DEF SandboxInv, SandboxTyped, Callers
  <2> QED BY <1>1, <2>2, <2>3 DEF FreshSince
<1> QED BY <1>2, <1>3, <1>4 DEF SandboxInv

\* The runs that start over do so with nothing shared.
LEMMA StartingOver ==
    ASSUME SandboxInv, NEW restarted \in SUBSET Runs,
           UNCHANGED <<images, sends, gone, image, file>>,
           place' \in [Callers -> {"idle", "waiting", "uploading", "sending", "running"}],
           \A d \in Callers : place'[d] \in {place[d], "idle"},
           \A d \in restarted : place'[d] = "idle",
           attempt' \in [Runs -> {1, 2}], foundGone' = [d \in Runs |-> foundGone'[d]],
           \A d \in restarted : attempt'[d] = 2 /\ foundGone'[d] = gone,
           \A d \in Runs \ restarted : attempt'[d] = attempt[d] /\ foundGone'[d] = foundGone[d],
           IF restarted = {} THEN UNCHANGED <<saved, cache>>
           ELSE saved' = 0 /\ cache' = [content \in Sandbox!Contents |-> 0]
    PROVE  SandboxInv'
<1>1. SendsFit'
  BY DEF SandboxInv, SendsFit
<1>2. SandboxTyped'
  BY ConstantsAssumption DEF SandboxInv, SandboxTyped
<1>3. CacheFits'
  BY DEF SandboxInv, CacheFits
<1>4. GoneFits'
  BY DEF SandboxInv, GoneFits
<1>5. FreshFits'
  <2>1. SUFFICES ASSUME NEW d \in Runs, attempt'[d] = 2 PROVE FreshSince(d)'
    BY DEF FreshFits
  <2>2. CASE d \in restarted
    BY <2>2 DEF FreshSince
  <2>3. CASE d \notin restarted
    <3>1. FreshSince(d) /\ foundGone'[d] = foundGone[d] /\ place'[d] \in {place[d], "idle"}
      BY <2>1, <2>3 DEF SandboxInv, FreshFits, Callers
    <3> QED BY <3>1 DEF FreshSince
  <2> QED BY <2>2, <2>3
<1> QED BY <1>1, <1>2, <1>3, <1>4, <1>5 DEF SandboxInv

\* A run that rejects starts over once, for a thing that was gone.
LEMMA RunRejecting ==
    ASSUME SandboxInv, NEW c \in Callers, Sandbox!RunRejects(c)
    PROVE  SandboxInv'
<1>1. c \in Runs /\ UNCHANGED <<images, sends, gone, image, file>>
  BY DEF Sandbox!RunRejects, Sandbox!sandbox
<1>2. PICK isGone \in BOOLEAN : Sandbox!RejectRun(c, isGone)
  BY DEF Sandbox!RunRejects
<1> DEFINE restarted == IF isGone /\ attempt[c] = 1 THEN {c} ELSE {}
<1>3. /\ place' = [place EXCEPT ![c] = "idle"]
      /\ attempt' = [d \in Runs |-> IF d \in restarted THEN 2 ELSE attempt[d]]
      /\ foundGone' = [d \in Runs |-> IF d \in restarted THEN gone ELSE foundGone[d]]
      /\ IF restarted = {} THEN UNCHANGED <<saved, cache>>
         ELSE saved' = 0 /\ cache' = [content \in Sandbox!Contents |-> 0]
  <2>1. /\ foundGone = [d \in Runs |-> foundGone[d]]
        /\ attempt = [d \in Runs |-> attempt[d]]
    BY DEF SandboxInv, SandboxTyped
  <2>2. CASE isGone /\ attempt[c] = 1
    BY <1>1, <1>2, <2>1, <2>2 DEF Sandbox!RejectRun, Sandbox!StartsOver
  <2>3. CASE ~(isGone /\ attempt[c] = 1)
    BY <1>1, <1>2, <2>1, <2>3 DEF Sandbox!RejectRun, Sandbox!store
  <2> QED BY <2>2, <2>3
<1>4. restarted \in SUBSET Runs /\ \A d \in restarted : d = c
  BY <1>1
<1> HIDE DEF restarted
<1>5. /\ place' \in [Callers -> {"idle", "waiting", "uploading", "sending", "running"}]
      /\ \A d \in Callers : place'[d] \in {place[d], "idle"}
      /\ \A d \in restarted : place'[d] = "idle"
      /\ attempt' \in [Runs -> {1, 2}] /\ foundGone' = [d \in Runs |-> foundGone'[d]]
      /\ \A d \in restarted : attempt'[d] = 2 /\ foundGone'[d] = gone
      /\ \A d \in Runs \ restarted : attempt'[d] = attempt[d] /\ foundGone'[d] = foundGone[d]
  BY <1>1, <1>3, <1>4 DEF SandboxInv, SandboxTyped, Callers
<1> QED BY <1>1, <1>3, <1>4, <1>5, StartingOver

\* The build rejects, and the runs that wait for it with it.
LEMMA BuildRejecting ==
    ASSUME SandboxInv, Sandbox!BuildRejects
    PROVE  SandboxInv'
<1>1. PICK isGone \in BOOLEAN :
        LET restarted == {c \in Sandbox!Waiting : isGone /\ attempt[c] = 1} IN
        /\ place' = [c \in Sandbox!Callers |->
                       IF c = Sandbox!Build \/ c \in Sandbox!Waiting THEN "idle" ELSE place[c]]
        /\ attempt' = [c \in Runs |-> IF c \in restarted THEN 2 ELSE attempt[c]]
        /\ foundGone' = [c \in Runs |-> IF c \in restarted THEN gone ELSE foundGone[c]]
        /\ IF restarted = {} THEN UNCHANGED <<Sandbox!store, cache>>
           ELSE saved' = 0 /\ old' = FALSE /\ Sandbox!StartsOver(Sandbox!Build)
        /\ UNCHANGED <<Sandbox!sandbox, sends, image, file>>
  BY DEF Sandbox!BuildRejects
<1> DEFINE restarted == {c \in Sandbox!Waiting : isGone /\ attempt[c] = 1}
<1>2. restarted \in SUBSET Runs /\ restarted \subseteq Sandbox!Waiting
  BY DEF Sandbox!Waiting
<1>3. IF restarted = {} THEN UNCHANGED <<saved, cache>>
      ELSE saved' = 0 /\ cache' = [content \in Sandbox!Contents |-> 0]
  BY <1>1 DEF Sandbox!store, Sandbox!StartsOver
<1>4. /\ attempt' = [c \in Runs |-> IF c \in restarted THEN 2 ELSE attempt[c]]
      /\ foundGone' = [c \in Runs |-> IF c \in restarted THEN gone ELSE foundGone[c]]
      /\ place' = [c \in Callers |->
                     IF c = Sandbox!Build \/ c \in Sandbox!Waiting THEN "idle" ELSE place[c]]
      /\ UNCHANGED <<images, sends, gone, image, file>>
  BY <1>1 DEF Callers, Sandbox!Callers, Sandbox!sandbox
<1> HIDE DEF restarted
<1>5. /\ place' \in [Callers -> {"idle", "waiting", "uploading", "sending", "running"}]
      /\ \A d \in Callers : place'[d] \in {place[d], "idle"}
      /\ \A d \in restarted : place'[d] = "idle"
      /\ attempt' \in [Runs -> {1, 2}] /\ foundGone' = [d \in Runs |-> foundGone'[d]]
      /\ \A d \in restarted : attempt'[d] = 2 /\ foundGone'[d] = gone
      /\ \A d \in Runs \ restarted : attempt'[d] = attempt[d] /\ foundGone'[d] = foundGone[d]
  BY <1>2, <1>4 DEF SandboxInv, SandboxTyped, Callers
<1> QED BY <1>2, <1>3, <1>4, <1>5, StartingOver

\* The image of a build is a new one, whatever was gone before.
LEMMA BuildEnding ==
    ASSUME SandboxInv, Sandbox!BuildEnds
    PROVE  SandboxInv'
<1>1. /\ images' = images + 1 /\ saved' = images + 1
      /\ UNCHANGED <<gone, cache, sends, attempt, file, foundGone>>
      /\ image' = [c \in Runs |-> IF c \in Sandbox!Waiting THEN images + 1 ELSE image[c]]
      /\ place' = [c \in Callers |-> IF c = Sandbox!Build THEN "idle"
                                     ELSE IF c \in Sandbox!Waiting THEN "uploading" ELSE place[c]]
  BY DEF Sandbox!BuildEnds, Sandbox!uploaded, Sandbox!Callers, Callers
<1>2. SendsFit' /\ CacheFits'
  BY <1>1 DEF SandboxInv, SendsFit, CacheFits
<1>3. SandboxTyped'
  BY <1>1 DEF SandboxInv, SandboxTyped, Callers
<1>4. images \in Nat
  BY DEF SandboxInv, SandboxTyped
<1>5. GoneFits'
  BY <1>1, <1>4 DEF SandboxInv, GoneFits
<1>6. Sandbox!ImageThing(images + 1) \notin gone
  BY <1>4 DEF SandboxInv, GoneFits, Sandbox!ImageThing, Sandbox!FileThing
<1>7. ASSUME NEW d \in Runs, attempt[d] = 2 PROVE FreshSince(d)'
  <2>1. FreshSince(d) /\ Sandbox!ImageThing(images + 1) \notin foundGone[d]
    BY <1>6, <1>7 DEF SandboxInv, FreshFits, GoneFits
  <2>2. d \in Callers /\ d # Sandbox!Build
    BY ConstantsAssumption DEF Callers, Sandbox!Build
  <2>3. CASE d \in Sandbox!Waiting
    BY <1>1, <2>1, <2>2, <2>3 DEF FreshSince
  <2>4. CASE d \notin Sandbox!Waiting
    BY <1>1, <2>1, <2>2, <2>4 DEF FreshSince
  <2> QED BY <2>3, <2>4
<1> QED BY <1>1, <1>2, <1>3, <1>5, <1>7 DEF SandboxInv, FreshFits

\* The sandbox drops what it holds, or the saved image gets old.
LEMMA ThingsAge ==
    ASSUME SandboxInv, Sandbox!Expires \/ Sandbox!GetsOld
    PROVE  SandboxInv'
<1>1. UNCHANGED <<saved, images, cache, sends, attempt, image, file, place, foundGone>>
  BY DEF Sandbox!Expires, Sandbox!GetsOld, Sandbox!store, Sandbox!sandbox, Sandbox!uploaded,
         Sandbox!callers
<1>2. gone' = gone \/ \E thing \in Sandbox!Held : gone' = gone \cup {thing}
  BY DEF Sandbox!Expires, Sandbox!GetsOld, Sandbox!sandbox
<1>3. Sandbox!Held \subseteq
        {Sandbox!ImageThing(i) : i \in 1..images} \cup
        {Sandbox!FileThing(u) : u \in {n \in Uploads : sends[n] # Sandbox!NoSend}}
  BY DEF Sandbox!Held, Sandbox!Sent, Sandbox!NoSend, SandboxInv, SendsFit
<1>4. GoneFits'
  BY <1>1, <1>2, <1>3 DEF SandboxInv, GoneFits
<1>5. SendsFit' /\ CacheFits' /\ SandboxTyped' /\ FreshFits'
  BY <1>1 DEF SandboxInv, SendsFit, CacheFits, SandboxTyped, FreshFits, FreshSince
<1> QED BY <1>4, <1>5 DEF SandboxInv

\* When the test runs were chosen, only they take steps.
LEMMA SandboxAlone ==
    ASSUME part = "testRuns", [Next]_vars
    PROVE  part' = "testRuns" /\ (Sandbox!Next \/ UNCHANGED testRunsState)
BY DEF Next, vars, PageStep, CliStep, DialogsStep, UiDesignAgentStep, SandboxStep, RunDeliveryStep

\* What Test Runs share and hold stays as it was said, for any runs and any expiry.
THEOREM SandboxInductive == Spec => [](part = "testRuns" => SandboxInv)
<1>1. Init => (part = "testRuns" => SandboxInv)
  <2>1. SUFFICES ASSUME Sandbox!Init PROVE SandboxInv
    BY DEF Init
  <2>2. SendsFit
    <3>1. sends = [u \in Uploads |-> Sandbox!NoSend]
      BY <2>1 DEF Sandbox!Init, Uploads
    <3>2. 0 \in 0..MaxUploads /\ \A u \in Uploads : ~(u <= 0)
      BY ConstantsAssumption DEF Uploads
    <3> QED BY <3>1, <3>2 DEF SendsFit
  <2>3. SandboxTyped
    BY <2>1, ConstantsAssumption
    DEF Sandbox!Init, SandboxTyped, Callers, Sandbox!Callers
  <2>4. CacheFits /\ GoneFits /\ FreshFits
    BY <2>1 DEF Sandbox!Init, CacheFits, GoneFits, FreshFits
  <2> QED BY <2>2, <2>3, <2>4 DEF SandboxInv
<1>2. (part = "testRuns" => SandboxInv) /\ [Next]_vars => (part = "testRuns" => SandboxInv)'
  <2>1. SUFFICES ASSUME part = "testRuns", SandboxInv, [Next]_vars PROVE SandboxInv'
    BY DEF Next, vars, PageStep, CliStep, DialogsStep, UiDesignAgentStep, SandboxStep,
           RunDeliveryStep
  <2>2. CASE Sandbox!Next
    <3>1. \/ \E c \in Callers : \/ Sandbox!snapshotImage(c) \/ Sandbox!uploadFiles(c)
                                \/ Sandbox!Spawns(c) \/ Sandbox!RunRejects(c) \/ Sandbox!RunEnds(c)
          \/ \E u \in DOMAIN sends : Sandbox!UploadStored(u) \/ Sandbox!UploadFailed(u)
          \/ Sandbox!BuildEnds \/ Sandbox!BuildRejects \/ Sandbox!Expires \/ Sandbox!GetsOld
      BY <2>2 DEF Sandbox!Next, Callers, Sandbox!Callers
    <3> QED
      BY <2>1, <3>1, AskingForTheImage, Uploading, UploadSettles, SpawnsAndEnds, RunRejecting,
         BuildRejecting, BuildEnding, ThingsAge
  <2>3. CASE UNCHANGED testRunsState
    BY <2>1, <2>3
    DEF testRunsState, SandboxInv, SandboxTyped, SendsFit, CacheFits, GoneFits, FreshFits, FreshSince
  <2> QED BY <2>1, <2>2, <2>3, SandboxAlone
<1> QED BY <1>1, <1>2, PTL DEF Spec

\* A Test Run that starts over names nothing that was gone when it did, and no
\* upload that failed is handed to the next one (runTests, runLinters, upload).
THEOREM RetriesAreFresh == Spec => []SharedFilesAreThere
<1>1. (part = "testRuns" => SandboxInv) => SharedFilesAreThere
  <2>1. SUFFICES ASSUME SandboxInv PROVE Sandbox!RetryIsFresh /\ Sandbox!NoFailedUploadIsShared
    BY DEF SharedFilesAreThere
  <2>2. Sandbox!RetryIsFresh
    BY <2>1 DEF Sandbox!RetryIsFresh, Sandbox!Names, SandboxInv, FreshFits, FreshSince
  <2>3. Sandbox!NoFailedUploadIsShared
    BY <2>1 DEF Sandbox!NoFailedUploadIsShared, Sandbox!Sent, SandboxInv, CacheFits
  <2> QED BY <2>2, <2>3
<1> QED BY <1>1, SandboxInductive, PTL

-----------------------------------------------------------------------------
(* Drawing: what is left to call, what is on its way, what the page holds.  *)

Ops == {"page", "draw", "sweep"}

Steps == [op : Ops, screen : Screens \cup {"none"}]
Sent == [id : Nat, design : Nat, wanted : SUBSET Screens, op : Ops, screen : Screens \cup {"none"}]

DrawingTyped ==
    /\ design \in Nat /\ wanted \in SUBSET Screens
    /\ todo \in Seq(Steps) /\ tab \in Seq(Sent)
    /\ callId \in Nat /\ call \in Nat /\ (call > 0 => todo # <<>>)
    /\ boards \in [Screens -> Int]

Left(s) == \E i \in DOMAIN todo : todo[i].op = "draw" /\ todo[i].screen = s

\* The page comes first and once, the sweep last; a screen that is not left is drawn.
TodoFits ==
    /\ todo # <<>> => todo[Len(todo)].op = "sweep"
    /\ \A i \in DOMAIN todo : i > 1 => todo[i].op # "page"
    /\ todo # <<>> /\ Head(todo).op = "page" => \A s \in wanted : Left(s)
    /\ todo # <<>> => \A s \in wanted : Left(s) \/ boards[s] = design

\* `c` is what the client calls now.
IsCurrent(c) ==
    c.op = Head(todo).op /\ c.screen = Head(todo).screen /\ c.design = design /\ c.wanted = wanted

\* The tab runs calls in the order they were numbered: once a call of this design is
\* answered, only copies of the one that follows it can run.
TabFits ==
    /\ \A i \in DOMAIN tab : tab[i].id <= callId
    /\ \A i, j \in DOMAIN tab : i < j => tab[i].id < tab[j].id
    /\ todo # <<>> /\ call > 0 => \A i \in DOMAIN tab : tab[i].id = callId => IsCurrent(tab[i])
    /\ todo # <<>> /\ Head(todo).op # "page" => \A i \in DOMAIN tab : IsCurrent(tab[i])

DrawnFits ==
    /\ drawn = "drawn" => todo = <<>> /\ tab = <<>>
    /\ UiDesignAgent!DrawnIsWhatIsThere

\* The canvas holds the only connection that is open, and none once it is closed.
CanvasFits ==
    /\ connections = IF connection = "open" THEN 1 ELSE 0
    /\ closed => connection = "none"

DrawingInv == DrawingTyped /\ TodoFits /\ TabFits /\ DrawnFits /\ CanvasFits

\* A set as a sequence has all its elements.
LEMMA SetToSeqIsOnto ==
    ASSUME NEW S, IsFiniteSet(S)
    PROVE  /\ UiDesignAgent!Cardinality(S) \in Nat
           /\ UiDesignAgent!SetToSeq(S) \in [1..UiDesignAgent!Cardinality(S) -> S]
           /\ \A s \in S : \E i \in 1..UiDesignAgent!Cardinality(S) : UiDesignAgent!SetToSeq(S)[i] = s
<1> DEFINE n == Cardinality(S)
           f == UiDesignAgent!SetToSeq(S)
<1>1. UiDesignAgent!Cardinality(S) = n
  BY DEF UiDesignAgent!Cardinality, Cardinality
<1>2. n \in Nat /\ ExistsBijection(1..n, S)
  BY FS_CardinalityType
<1>3. PICK g \in [1..n -> S] : UiDesignAgent!IsInjective(g)
  BY <1>2
  DEF ExistsBijection, Bijection, Injection, IsInjective, UiDesignAgent!IsInjective
<1>4. f \in [1..n -> S] /\ UiDesignAgent!IsInjective(f)
  BY <1>1, <1>3 DEF UiDesignAgent!SetToSeq
<1> HIDE DEF f
<1>5. f \in Injection(1..n, S)
  BY <1>4 DEF Injection, IsInjective, UiDesignAgent!IsInjective
<1>6. Cardinality(1..n) = Cardinality(S)
  BY <1>2, FS_Interval
<1>7. f \in Surjection(1..n, S)
  BY <1>5, <1>6, FS_Injection
<1>8. \A s \in S : \E i \in 1..n : f[i] = s
  BY <1>7 DEF Surjection
<1> QED BY <1>1, <1>2, <1>4, <1>8 DEF f

\* The calls of a design: its page, each of its screens, the sweep.
LEMMA CallsOfADesign ==
    ASSUME NEW screens \in SUBSET Screens
    PROVE  LET c == UiDesignAgent!Calls(screens) IN
           /\ c \in Seq(Steps) /\ c # <<>>
           /\ c[Len(c)].op = "sweep" /\ Head(c).op = "page"
           /\ \A i \in DOMAIN c : i > 1 => c[i].op # "page"
           /\ \A s \in screens : \E i \in DOMAIN c : c[i].op = "draw" /\ c[i].screen = s
<1> DEFINE n == UiDesignAgent!Cardinality(screens)
           f == UiDesignAgent!SetToSeq(screens)
           draws == [i \in 1..n |-> UiDesignAgent!Call("draw", f[i])]
           opening == UiDesignAgent!Call("page", "none")
           sweep == UiDesignAgent!Call("sweep", "none")
           c == (<<opening>> \o draws) \o <<sweep>>
<1>1. /\ n \in Nat /\ f \in [1..n -> screens] /\ \A s \in screens : \E i \in 1..n : f[i] = s
  BY SetToSeqIsOnto, FS_Subset, ConstantsAssumption
<1>2. UiDesignAgent!Calls(screens) = c
  BY DEF UiDesignAgent!Calls, UiDesignAgent!CallsWithoutSweep
<1>3. opening \in Steps /\ opening.op = "page" /\ sweep \in Steps /\ sweep.op = "sweep"
  BY DEF UiDesignAgent!Call, Steps, Ops
<1>4. \A i \in 1..n : draws[i] \in Steps /\ draws[i].op = "draw" /\ draws[i].screen = f[i]
  BY <1>1 DEF UiDesignAgent!Call, Steps, Ops
<1> HIDE DEF n, f, opening, sweep
<1>5. draws \in Seq(Steps) /\ Len(draws) = n
  BY <1>1, <1>4
<1> HIDE DEF draws
<1>6. /\ c \in Seq(Steps) /\ Len(c) = n + 2 /\ c[1] = opening /\ c[n + 2] = sweep
      /\ \A i \in 1..n : c[i + 1] = draws[i]
  BY <1>1, <1>3, <1>5
<1> HIDE DEF c
<1>7. \A i \in DOMAIN c : i = 1 \/ i = n + 2 \/ (i - 1 \in 1..n /\ c[i] = draws[i - 1])
  BY <1>1, <1>6
<1>8. \A i \in 1..n : i + 1 \in DOMAIN c
  BY <1>1, <1>6
<1>9. \A i \in DOMAIN c : i > 1 => c[i].op # "page"
  BY <1>1, <1>3, <1>4, <1>6, <1>7
<1>10. \A s \in screens : \E i \in DOMAIN c : c[i].op = "draw" /\ c[i].screen = s
  <2>1. SUFFICES ASSUME NEW s \in screens
                 PROVE  \E i \in DOMAIN c : c[i].op = "draw" /\ c[i].screen = s
    OBVIOUS
  <2>2. PICK i \in 1..n : f[i] = s
    BY <1>1
  <2>3. i + 1 \in DOMAIN c /\ c[i + 1] = draws[i]
    BY <1>6, <1>8
  <2>4. c[i + 1].op = "draw" /\ c[i + 1].screen = s
    BY <1>4, <2>2, <2>3
  <2> QED BY <2>3, <2>4
<1>11. c # <<>> /\ Head(c) = opening /\ c[Len(c)] = sweep
  BY <1>1, <1>6
<1> QED BY <1>2, <1>3, <1>6, <1>9, <1>10, <1>11

canvasState == <<connection, connections, closing, closed>>

\* The calls in the tab's queue are numbered.
LEMMA NumberedCalls ==
    ASSUME DrawingInv
    PROVE  \A i \in DOMAIN tab : tab[i] \in Sent /\ tab[i].id \in Nat
<1>1. \A i \in DOMAIN tab : tab[i] \in Sent
  BY DEF DrawingInv, DrawingTyped
<1>2. \A c \in Sent : c.id \in Nat
  BY DEF Sent
<1> QED BY <1>1, <1>2

\* A call is sent, or sent again, under a number of its own.
LEMMA Sending ==
    ASSUME DrawingInv, todo # <<>>, call' \in Nat \ {0}, callId' = callId + 1,
           tab' = Append(tab, [id |-> callId', design |-> design, wanted |-> wanted,
                               op |-> Head(todo).op, screen |-> Head(todo).screen]),
           UNCHANGED <<design, wanted, todo, drawn, boards, canvasState>>
    PROVE  DrawingInv'
<1> DEFINE sent_ == [id |-> callId', design |-> design, wanted |-> wanted,
                     op |-> Head(todo).op, screen |-> Head(todo).screen]
<1>1. /\ sent_ \in Sent
      /\ sent_.id = callId + 1 /\ IsCurrent(sent_)
  <2>1. Head(todo) \in Steps
    BY DEF DrawingInv, DrawingTyped
  <2> QED BY <2>1 DEF DrawingInv, DrawingTyped, IsCurrent, Steps, Sent
<1>2. tab' = Append(tab, sent_)
  OBVIOUS
<1> HIDE DEF sent_
<1>3. DrawingTyped'
  BY <1>1, <1>2 DEF DrawingInv, DrawingTyped
<1>4. \A i \in DOMAIN tab' : \/ i \in DOMAIN tab /\ i < Len(tab) + 1 /\ tab'[i] = tab[i]
                             \/ i = Len(tab) + 1 /\ tab'[i] = sent_
  BY <1>2 DEF DrawingInv, DrawingTyped
<1>5. \A i \in DOMAIN tab : tab[i].id < callId + 1 /\ tab[i].id # callId + 1
  <2>1. \A i \in DOMAIN tab : tab[i].id \in Nat /\ tab[i].id <= callId
    BY NumberedCalls DEF DrawingInv, TabFits
  <2>2. callId \in Nat
    BY DEF DrawingInv, DrawingTyped
  <2> QED BY <2>1, <2>2
<1>6. \A i \in DOMAIN tab' : tab'[i].id <= callId'
  <2>1. callId \in Nat /\ \A i \in DOMAIN tab : tab[i].id \in Nat
    BY NumberedCalls DEF DrawingInv, DrawingTyped
  <2> QED BY <1>1, <1>4, <1>5, <2>1
<1>7. \A i, j \in DOMAIN tab' : i < j => tab'[i].id < tab'[j].id
  <2>1. SUFFICES ASSUME NEW i \in DOMAIN tab', NEW j \in DOMAIN tab', i < j
                 PROVE  tab'[i].id < tab'[j].id
    OBVIOUS
  <2>2. Len(tab) \in Nat /\ DOMAIN tab = 1..Len(tab)
    BY DEF DrawingInv, DrawingTyped
  <2>3. i \in DOMAIN tab /\ tab'[i] = tab[i]
    BY <1>4, <2>1, <2>2
  <2>4. CASE j \in DOMAIN tab /\ tab'[j] = tab[j]
    BY <2>1, <2>3, <2>4 DEF DrawingInv, TabFits
  <2>5. CASE tab'[j] = sent_
    BY <1>1, <1>5, <2>3, <2>5
  <2> QED BY <1>4, <2>4, <2>5
<1>8. \A i \in DOMAIN tab' : tab'[i].id = callId' => IsCurrent(tab'[i])
  BY <1>1, <1>4, <1>5
<1>9. Head(todo).op # "page" => \A i \in DOMAIN tab' : IsCurrent(tab'[i])
  BY <1>1, <1>4 DEF DrawingInv, TabFits
<1>10. TabFits'
  BY <1>6, <1>7, <1>8, <1>9 DEF TabFits, IsCurrent
<1>11. TodoFits' /\ DrawnFits' /\ CanvasFits'
  BY DEF DrawingInv, TodoFits, Left, DrawnFits, UiDesignAgent!DrawnIsWhatIsThere, CanvasFits,
         canvasState
<1> QED BY <1>3, <1>10, <1>11 DEF DrawingInv

\* What is left in the tab's queue keeps its order.
LEMMA QueueShrinks ==
    ASSUME DrawingInv, tab # <<>>
    PROVE  /\ Head(tab) \in Sent
           /\ Head(tab).id <= callId
           /\ Tail(tab) \in Seq(Sent)
           /\ \A i \in DOMAIN Tail(tab) : /\ i + 1 \in DOMAIN tab /\ Tail(tab)[i] = tab[i + 1]
                                          /\ Head(tab).id < Tail(tab)[i].id
                                          /\ Tail(tab)[i].id <= callId
           /\ \A i, j \in DOMAIN Tail(tab) : i < j => Tail(tab)[i].id < Tail(tab)[j].id
           /\ Head(tab).id = callId => Tail(tab) = <<>>
<1>1. tab \in Seq(Sent) /\ Head(tab) = tab[1] /\ 1 \in DOMAIN tab /\ Head(tab) \in Sent
  BY DEF DrawingInv, DrawingTyped
<1>2. Tail(tab) \in Seq(Sent) /\ \A i \in DOMAIN Tail(tab) :
         i \in Nat /\ 1 < i + 1 /\ i + 1 \in DOMAIN tab /\ Tail(tab)[i] = tab[i + 1]
  BY <1>1
<1>3. Head(tab).id <= callId
  BY <1>1 DEF DrawingInv, TabFits
<1>4. \A i \in DOMAIN Tail(tab) : Head(tab).id < Tail(tab)[i].id /\ Tail(tab)[i].id <= callId
  BY <1>1, <1>2 DEF DrawingInv, TabFits
<1>5. \A i, j \in DOMAIN Tail(tab) : i < j => Tail(tab)[i].id < Tail(tab)[j].id
  <2>1. SUFFICES ASSUME NEW i \in DOMAIN Tail(tab), NEW j \in DOMAIN Tail(tab), i < j
                 PROVE  tab[i + 1].id < tab[j + 1].id
    BY <1>2
  <2>2. i + 1 < j + 1
    BY <1>2, <2>1
  <2> QED BY <1>2, <2>2 DEF DrawingInv, TabFits
<1>6. Head(tab).id = callId => Tail(tab) = <<>>
  <2>1. SUFFICES ASSUME Head(tab).id = callId, Tail(tab) # <<>> PROVE FALSE
    OBVIOUS
  <2>2. 1 \in DOMAIN Tail(tab)
    BY <1>2, <2>1
  <2>3. Tail(tab)[1].id \in Nat /\ callId \in Nat
    BY <1>2, <2>2, NumberedCalls DEF DrawingInv, DrawingTyped
  <2>4. callId < Tail(tab)[1].id /\ Tail(tab)[1].id <= callId
    BY <1>4, <2>1, <2>2
  <2>5. \A m, n \in Nat : ~(m < n /\ n <= m)
    OBVIOUS
  <2> QED BY <2>3, <2>4, <2>5
<1> QED BY <1>1, <1>2, <1>3, <1>4, <1>5, <1>6

\* A design that fails leaves what is in the tab's queue to run late.
LEMMA Stopping ==
    ASSUME DrawingInv, UiDesignAgent!Stopped, UNCHANGED <<design, wanted, callId>>,
           tab' \in {tab, Tail(tab)}, tab' = tab \/ tab # <<>>, boards' \in [Screens -> Int],
           CanvasFits'
    PROVE  DrawingInv'
<1>1. todo' = <<>> /\ call' = 0 /\ drawn' = "failed"
  BY DEF UiDesignAgent!Stopped
<1>2. DrawingTyped'
  <2>1. tab' \in Seq(Sent)
    BY QueueShrinks DEF DrawingInv, DrawingTyped
  <2> QED BY <1>1, <2>1 DEF DrawingInv, DrawingTyped
<1>3. TodoFits' /\ DrawnFits'
  BY <1>1 DEF TodoFits, DrawnFits, UiDesignAgent!DrawnIsWhatIsThere
<1>4. TabFits'
  <2>1. CASE tab' = tab
    BY <1>1, <2>1 DEF DrawingInv, TabFits
  <2>2. CASE tab # <<>> /\ tab' = Tail(tab)
    BY <1>1, <2>2, QueueShrinks DEF TabFits
  <2> QED BY <2>1, <2>2
<1> QED BY <1>2, <1>3, <1>4 DEF DrawingInv

\* What is left to call after the first call.
LEMMA TodoShrinks ==
    ASSUME DrawingInv, todo # <<>>
    PROVE  /\ Head(todo) \in Steps /\ Tail(todo) \in Seq(Steps)
           /\ Tail(todo) = <<>> => Head(todo).op = "sweep"
           /\ Tail(todo) # <<>> => /\ Tail(todo)[Len(Tail(todo))].op = "sweep"
                                   /\ Head(Tail(todo)).op # "page"
           /\ \A i \in DOMAIN Tail(todo) : i > 1 => Tail(todo)[i].op # "page"
           /\ \A s \in wanted : Left(s) =>
                 \/ \E i \in DOMAIN Tail(todo) : Tail(todo)[i].op = "draw" /\ Tail(todo)[i].screen = s
                 \/ Head(todo).op = "draw" /\ Head(todo).screen = s
<1>1. /\ todo \in Seq(Steps) /\ Head(todo) = todo[1] /\ 1 \in DOMAIN todo /\ Head(todo) \in Steps
      /\ Len(todo) \in Nat \ {0} /\ DOMAIN todo = 1..Len(todo)
  BY DEF DrawingInv, DrawingTyped
<1>2. /\ Tail(todo) \in Seq(Steps) /\ Len(Tail(todo)) = Len(todo) - 1
      /\ \A i \in DOMAIN Tail(todo) :
            i \in Nat /\ 1 < i + 1 /\ i + 1 \in DOMAIN todo /\ Tail(todo)[i] = todo[i + 1]
  BY <1>1
<1>3. todo[Len(todo)].op = "sweep" /\ \A i \in DOMAIN todo : i > 1 => todo[i].op # "page"
  BY DEF DrawingInv, TodoFits
<1>4. Tail(todo) = <<>> => Head(todo).op = "sweep"
  BY <1>1, <1>2, <1>3
<1>5. \A i \in DOMAIN Tail(todo) : Tail(todo)[i].op # "page"
  BY <1>2, <1>3
<1>6. ASSUME Tail(todo) # <<>>
      PROVE  Tail(todo)[Len(Tail(todo))].op = "sweep" /\ Head(Tail(todo)).op # "page"
  <2>1. 1 \in DOMAIN Tail(todo) /\ Head(Tail(todo)) = Tail(todo)[1]
    BY <1>2, <1>6
  <2>2. Len(Tail(todo)) \in DOMAIN Tail(todo) /\ Len(Tail(todo)) + 1 = Len(todo)
    BY <1>1, <1>2, <1>6
  <2> QED BY <1>2, <1>3, <1>5, <2>1, <2>2
<1>7. ASSUME NEW s \in wanted, Left(s)
      PROVE  \/ \E i \in DOMAIN Tail(todo) :
                   Tail(todo)[i].op = "draw" /\ Tail(todo)[i].screen = s
             \/ Head(todo).op = "draw" /\ Head(todo).screen = s
  <2>1. PICK i \in DOMAIN todo : todo[i].op = "draw" /\ todo[i].screen = s
    BY <1>7 DEF Left
  <2>2. CASE i = 1
    BY <1>1, <2>1, <2>2
  <2>3. CASE i # 1
    <3>1. i - 1 \in DOMAIN Tail(todo) /\ (i - 1) + 1 = i
      BY <1>1, <1>2, <2>3
    <3> QED BY <1>2, <2>1, <3>1
  <2> QED BY <2>2, <2>3
<1> QED BY <1>1, <1>2, <1>4, <1>5, <1>6, <1>7

\* What the tab runs while a design is drawn leaves every screen drawn or left.
LEMMA RanLate ==
    ASSUME DrawingInv, tab # <<>>, UiDesignAgent!Effect(Head(tab))
    PROVE  /\ boards' \in [Screens -> Int]
           /\ todo # <<>> => \A s \in wanted : Left(s) \/ boards'[s] = design
<1> DEFINE c == Head(tab)
<1>1. c \in Sent /\ boards \in [Screens -> Int] /\ design \in Int
  BY QueueShrinks DEF DrawingInv, DrawingTyped
<1>2. c.op \in Ops /\ c.design \in Int /\ c.wanted \subseteq Screens
  BY <1>1 DEF Sent
<1>3. /\ c.op = "page" => boards' = boards
      /\ c.op = "draw" => boards' = [boards EXCEPT ![c.screen] = c.design]
      /\ c.op = "sweep" => boards' = [s \in Screens |-> IF s \in c.wanted THEN boards[s] ELSE 0]
  BY DEF UiDesignAgent!Effect, UiDesignAgent!Draws, UiDesignAgent!None
<1>4. boards' \in [Screens -> Int]
  <2>1. CASE c.op = "page"
    BY <1>1, <1>3, <2>1
  <2>2. CASE c.op = "draw"
    BY <1>1, <1>2, <1>3, <2>2
  <2>3. CASE c.op = "sweep"
    BY <1>1, <1>2, <1>3, <2>3
  <2> QED BY <1>2, <2>1, <2>2, <2>3 DEF Ops
<1>5. ASSUME todo # <<>>, NEW s \in wanted, ~Left(s) PROVE boards'[s] = design
  <2>1. Head(todo).op # "page" /\ boards[s] = design
    BY <1>5 DEF DrawingInv, TodoFits
  <2>2. 1 \in DOMAIN tab /\ c = tab[1]
    BY DEF DrawingInv, DrawingTyped
  <2>3. IsCurrent(c)
    BY <1>5, <2>1, <2>2 DEF DrawingInv, TabFits
  <2>4. s \in Screens
    BY DEF DrawingInv, DrawingTyped
  <2>5. CASE c.op = "page"
    BY <1>3, <2>1, <2>5
  <2>6. CASE c.op = "draw"
    BY <1>1, <1>3, <2>1, <2>3, <2>4, <2>6 DEF IsCurrent
  <2>7. CASE c.op = "sweep"
    BY <1>3, <2>1, <2>3, <2>4, <2>7 DEF IsCurrent
  <2> QED BY <1>2, <2>5, <2>6, <2>7 DEF Ops
<1> QED BY <1>4, <1>5

\* A call runs in the tab and its answer is lost, or is of a call not waited for.
LEMMA RunsUnheard ==
    ASSUME DrawingInv, tab # <<>>, tab' = Tail(tab), boards' \in [Screens -> Int],
           todo # <<>> => \A s \in wanted : Left(s) \/ boards'[s] = design,
           UNCHANGED <<design, wanted, todo, drawn, call, callId, canvasState>>
    PROVE  DrawingInv'
<1>1. /\ Tail(tab) \in Seq(Sent)
      /\ \A i \in DOMAIN Tail(tab) : /\ i + 1 \in DOMAIN tab /\ Tail(tab)[i] = tab[i + 1]
                                     /\ Tail(tab)[i].id <= callId
      /\ \A i, j \in DOMAIN Tail(tab) : i < j => Tail(tab)[i].id < Tail(tab)[j].id
  BY QueueShrinks
<1>2. DrawingTyped'
  BY <1>1 DEF DrawingInv, DrawingTyped
<1>3. TodoFits'
  BY DEF DrawingInv, TodoFits, Left
<1>4. TabFits'
  <2>1. todo # <<>> /\ call > 0 =>
           \A i \in DOMAIN Tail(tab) : Tail(tab)[i].id = callId => IsCurrent(Tail(tab)[i])
    BY <1>1 DEF DrawingInv, TabFits
  <2>2. todo # <<>> /\ Head(todo).op # "page" => \A i \in DOMAIN Tail(tab) : IsCurrent(Tail(tab)[i])
    BY <1>1 DEF DrawingInv, TabFits
  <2> QED BY <1>1, <2>1, <2>2 DEF TabFits, IsCurrent
<1>5. drawn # "drawn"
  BY DEF DrawingInv, DrawnFits
<1>6. DrawnFits' /\ CanvasFits'
  BY <1>5 DEF DrawingInv, DrawnFits, UiDesignAgent!DrawnIsWhatIsThere, CanvasFits, canvasState
<1> QED BY <1>2, <1>3, <1>4, <1>6 DEF DrawingInv

\* The call waited for runs and answers: the next one is made, or the design is drawn.
LEMMA RunsAnswered ==
    ASSUME DrawingInv, tab # <<>>, UiDesignAgent!Effect(Head(tab)), tab' = Tail(tab),
           Head(tab).id = callId, todo # <<>>, call > 0,
           todo' = Tail(todo), call' = 0,
           drawn' = IF Tail(todo) = <<>> THEN "drawn" ELSE drawn,
           UNCHANGED <<design, wanted, callId, canvasState>>
    PROVE  DrawingInv'
<1>1. tab' = <<>>
  BY QueueShrinks
<1>2. IsCurrent(Head(tab))
  <2>1. 1 \in DOMAIN tab /\ Head(tab) = tab[1]
    BY DEF DrawingInv, DrawingTyped
  <2> QED BY <2>1 DEF DrawingInv, TabFits
<1>3. boards \in [Screens -> Int] /\ design \in Int /\ design \in Nat /\ wanted \in SUBSET Screens
  BY DEF DrawingInv, DrawingTyped
<1>4. boards' \in [Screens -> Int] /\ \A s \in wanted : Left(s) \/ boards'[s] = design
  BY RanLate
<1>5. DrawingTyped'
  <2>1. Tail(todo) \in Seq(Steps)
    BY TodoShrinks
  <2> QED BY <1>1, <1>4, <2>1 DEF DrawingInv, DrawingTyped
<1>6. \A s \in wanted : Left(s)' \/ boards'[s] = design
  <2>1. SUFFICES ASSUME NEW s \in wanted, ~Left(s)' PROVE boards'[s] = design
    OBVIOUS
  <2>2. CASE Left(s)
    <3>1. Head(todo).op = "draw" /\ Head(todo).screen = s
      BY <2>1, <2>2, TodoShrinks DEF Left
    <3>2. boards' = [boards EXCEPT ![s] = design]
      BY <1>2, <3>1 DEF IsCurrent, UiDesignAgent!Effect, UiDesignAgent!Draws
    <3> QED BY <1>3, <3>2
  <2>3. CASE ~Left(s)
    BY <1>4, <2>3
  <2> QED BY <2>2, <2>3
<1>7. TodoFits'
  BY <1>6, TodoShrinks DEF TodoFits, Left
<1>8. TabFits'
  BY <1>1 DEF TabFits
<1>9. DrawnFits'
  <2>1. CASE Tail(todo) # <<>>
    BY <1>1, <2>1 DEF DrawingInv, DrawnFits, UiDesignAgent!DrawnIsWhatIsThere
  <2>2. CASE Tail(todo) = <<>>
    <3>1. Head(tab).op = "sweep" /\ Head(tab).wanted = wanted
      BY <1>2, <2>2, TodoShrinks DEF IsCurrent
    <3>2. boards' = [s \in Screens |-> IF s \in wanted THEN boards[s] ELSE 0]
      BY <3>1 DEF UiDesignAgent!Effect, UiDesignAgent!None
    <3>3. \A s \in wanted : ~Left(s)'
      BY <2>2 DEF Left
    <3>4. \A s \in Screens : boards'[s] = (IF s \in wanted THEN design ELSE 0)
      BY <1>6, <3>2, <3>3
    <3> QED BY <1>1, <2>2, <3>4
        DEF DrawnFits, UiDesignAgent!DrawnIsWhatIsThere, UiDesignAgent!None
  <2> QED BY <2>1, <2>2
<1>10. CanvasFits'
  BY DEF DrawingInv, CanvasFits, canvasState
<1> QED BY <1>5, <1>7, <1>8, <1>9, <1>10 DEF DrawingInv

\* The tab runs the call at the head of its queue, throws at it or forgets the queue.
LEMMA TheTab ==
    ASSUME DrawingInv,
           UiDesignAgent!TabRuns \/ UiDesignAgent!TabThrows \/ UiDesignAgent!TabLoses
    PROVE  DrawingInv'
<1>1. CASE UiDesignAgent!TabRuns
  <2>1. /\ tab # <<>> /\ UiDesignAgent!Effect(Head(tab)) /\ tab' = Tail(tab)
        /\ UNCHANGED <<design, wanted, callId, canvasState>>
        /\ UiDesignAgent!Answered(Head(tab).id) \/ UNCHANGED <<todo, call, drawn>>
    BY <1>1 DEF UiDesignAgent!TabRuns, UiDesignAgent!canvasVars, canvasState
  <2>2. CASE Head(tab).id = callId /\ todo # <<>> /\ call > 0 /\ UiDesignAgent!Answered(Head(tab).id)
    <3>1. /\ todo' = Tail(todo) /\ call' = 0
          /\ drawn' = IF Tail(todo) = <<>> THEN "drawn" ELSE drawn
      BY <2>2 DEF UiDesignAgent!Answered
    <3> QED BY <2>1, <2>2, <3>1, RunsAnswered
  <2>3. CASE UNCHANGED <<todo, call, drawn>>
    <3>1. /\ boards' \in [Screens -> Int]
          /\ todo # <<>> => \A s \in wanted : Left(s) \/ boards'[s] = design
      BY <2>1, RanLate
    <3> QED BY <2>1, <2>3, <3>1, RunsUnheard
  <2> QED BY <2>1, <2>2, <2>3 DEF UiDesignAgent!Answered
<1>2. CASE UiDesignAgent!TabThrows
  <2>1. /\ tab # <<>> /\ tab' = Tail(tab) /\ Head(tab).op = "draw"
        /\ boards' = [boards EXCEPT ![Head(tab).screen] = -1]
        /\ UiDesignAgent!Stopped \/ UNCHANGED <<todo, call, drawn>>
        /\ UNCHANGED <<design, wanted, callId, canvasState>>
    BY <1>2
    DEF UiDesignAgent!TabThrows, UiDesignAgent!Partial, UiDesignAgent!canvasVars, canvasState
  <2>2. boards \in [Screens -> Int]
    BY DEF DrawingInv, DrawingTyped
  <2>3. boards' \in [Screens -> Int]
    <3>1. -1 \in Int
      OBVIOUS
    <3> QED BY <2>1, <2>2, <3>1
  <2>4. CASE UiDesignAgent!Stopped
    <3>1. CanvasFits'
      BY <2>1 DEF DrawingInv, CanvasFits, canvasState
    <3> QED BY <2>1, <2>3, <2>4, <3>1, Stopping
  <2>5. CASE UNCHANGED <<todo, call, drawn>>
    <3>1. ASSUME todo # <<>>, NEW s \in wanted, ~Left(s) PROVE boards'[s] = design
      <4>1. Head(todo).op # "page" /\ boards[s] = design /\ s \in Screens
        BY <3>1 DEF DrawingInv, TodoFits, DrawingTyped
      <4>2. 1 \in DOMAIN tab /\ Head(tab) = tab[1]
        BY <2>1 DEF DrawingInv, DrawingTyped
      <4>3. Head(todo).op = "draw" /\ Head(todo).screen = Head(tab).screen
        BY <2>1, <3>1, <4>1, <4>2 DEF DrawingInv, TabFits, IsCurrent
      <4>4. 1 \in DOMAIN todo /\ Head(todo) = todo[1]
        BY <3>1 DEF DrawingInv, DrawingTyped
      <4>5. Head(tab).screen # s
        BY <3>1, <4>3, <4>4 DEF Left
      <4> QED BY <2>1, <2>2, <4>1, <4>5
    <3> QED BY <2>1, <2>3, <2>5, <3>1, RunsUnheard
  <2> QED BY <2>1, <2>4, <2>5
<1>3. CASE UiDesignAgent!TabLoses
  <2>1. /\ tab' = <<>>
        /\ UNCHANGED <<design, wanted, todo, drawn, call, callId, boards, canvasState>>
    BY <1>3
    DEF UiDesignAgent!TabLoses, UiDesignAgent!designVars, UiDesignAgent!clientVars,
        UiDesignAgent!canvasVars, canvasState
  <2>2. DrawingTyped' /\ TodoFits' /\ CanvasFits'
    BY <2>1 DEF DrawingInv, DrawingTyped, TodoFits, Left, CanvasFits, canvasState
  <2>3. TabFits'
    BY <2>1 DEF TabFits
  <2>4. DrawnFits'
    BY <2>1 DEF DrawingInv, DrawnFits, UiDesignAgent!DrawnIsWhatIsThere
  <2> QED BY <2>2, <2>3, <2>4 DEF DrawingInv
<1> QED BY <1>1, <1>2, <1>3

\* The client: a design is started, a call made, made again or given up.
LEMMA TheClient ==
    ASSUME DrawingInv,
           UiDesignAgent!StartDesign \/ UiDesignAgent!Send \/ UiDesignAgent!Silence
    PROVE  DrawingInv'
<1>1. CASE UiDesignAgent!StartDesign
  <2>1. PICK screens \in SUBSET Screens : wanted' = screens /\ todo' = UiDesignAgent!Calls(screens)
    BY <1>1 DEF UiDesignAgent!StartDesign
  <2>2. /\ design' = design + 1 /\ drawn' = "none" /\ call' = 0
        /\ UNCHANGED <<callId, tab, boards, canvasState>>
    BY <1>1
    DEF UiDesignAgent!StartDesign, UiDesignAgent!tabVars, UiDesignAgent!canvasVars, canvasState
  <2>3. /\ todo' \in Seq(Steps) /\ todo' # <<>>
        /\ todo'[Len(todo')].op = "sweep" /\ Head(todo').op = "page"
        /\ \A i \in DOMAIN todo' : i > 1 => todo'[i].op # "page"
        /\ \A s \in wanted' : Left(s)'
    BY <2>1, CallsOfADesign DEF Left
  <2>4. DrawingTyped'
    BY <2>1, <2>2, <2>3 DEF DrawingInv, DrawingTyped
  <2>5. TodoFits'
    BY <2>3 DEF TodoFits
  <2>6. TabFits'
    BY <2>2, <2>3 DEF DrawingInv, TabFits
  <2>7. DrawnFits' /\ CanvasFits'
    BY <2>2 DEF DrawingInv, DrawnFits, UiDesignAgent!DrawnIsWhatIsThere, CanvasFits, canvasState
  <2> QED BY <2>4, <2>5, <2>6, <2>7 DEF DrawingInv
<1>2. CASE UiDesignAgent!Send
  <2>1. /\ todo # <<>> /\ call' = 1 /\ callId' = callId + 1
        /\ tab' = Append(tab, [id |-> callId', design |-> design, wanted |-> wanted,
                               op |-> Head(todo).op, screen |-> Head(todo).screen])
        /\ UNCHANGED <<design, wanted, todo, drawn, boards, canvasState>>
    BY <1>2
    DEF UiDesignAgent!Send, UiDesignAgent!designVars, UiDesignAgent!canvasVars, canvasState
  <2> QED BY <2>1, Sending
<1>3. CASE UiDesignAgent!Silence
  <2>1. call > 0 /\ call \in Nat /\ todo # <<>> /\ boards \in [Screens -> Int]
    BY <1>3 DEF UiDesignAgent!Silence, DrawingInv, DrawingTyped
  <2>2. UNCHANGED <<boards, canvasState>>
    BY <1>3 DEF UiDesignAgent!Silence, UiDesignAgent!canvasVars, canvasState
  <2>3. CASE call < MaxAttempts
    <3>1. /\ call' = call + 1 /\ callId' = callId + 1
          /\ tab' = Append(tab, [id |-> callId', design |-> design, wanted |-> wanted,
                                 op |-> Head(todo).op, screen |-> Head(todo).screen])
          /\ UNCHANGED <<design, wanted, todo, drawn>>
      BY <1>3, <2>3 DEF UiDesignAgent!Silence, UiDesignAgent!designVars
    <3>2. call' \in Nat \ {0}
      BY <2>1, <3>1
    <3> QED BY <2>1, <2>2, <3>1, <3>2, Sending
  <2>4. CASE ~(call < MaxAttempts)
    <3>1. UiDesignAgent!Stopped /\ UNCHANGED <<design, wanted, callId, tab>>
      BY <1>3, <2>4 DEF UiDesignAgent!Silence
    <3>2. CanvasFits'
      BY <2>2 DEF DrawingInv, CanvasFits, canvasState
    <3> QED BY <2>1, <2>2, <3>1, <3>2, Stopping
  <2> QED BY <2>3, <2>4
<1> QED BY <1>1, <1>2, <1>3

\* The canvas: connections are made, fail, and are closed with the process.
LEMMA TheCanvas ==
    ASSUME DrawingInv,
           \/ UiDesignAgent!Connect \/ UiDesignAgent!Connected \/ UiDesignAgent!ConnectFails
           \/ UiDesignAgent!Close \/ UiDesignAgent!ClosedAtLast
    PROVE  DrawingInv'
<1>1. ASSUME UNCHANGED <<design, wanted, todo, drawn, call, callId, tab, boards>>, CanvasFits'
      PROVE  DrawingInv'
  BY <1>1
  DEF DrawingInv, DrawingTyped, TodoFits, Left, TabFits, IsCurrent, DrawnFits,
      UiDesignAgent!DrawnIsWhatIsThere
<1>2. CASE UiDesignAgent!Close
  <2>1. /\ closed' /\ connection' = "none"
        /\ connections' = IF connection = "open" THEN connections - 1 ELSE connections
        /\ UiDesignAgent!Stopped \/ UNCHANGED <<todo, call, drawn>>
        /\ UNCHANGED <<design, wanted, callId, tab, boards>>
    BY <1>2 DEF UiDesignAgent!Close, UiDesignAgent!tabVars
  <2>2. CanvasFits'
    BY <2>1 DEF DrawingInv, CanvasFits
  <2>3. boards' \in [Screens -> Int]
    BY <2>1 DEF DrawingInv, DrawingTyped
  <2> QED BY <1>1, <2>1, <2>2, <2>3, Stopping
<1>3. CASE UiDesignAgent!Connect \/ UiDesignAgent!Connected \/ UiDesignAgent!ConnectFails
           \/ UiDesignAgent!ClosedAtLast
  <2>1. UNCHANGED <<design, wanted, todo, drawn, call, callId, tab, boards>>
    BY <1>3
    DEF UiDesignAgent!Connect, UiDesignAgent!Connected, UiDesignAgent!ConnectFails,
        UiDesignAgent!ClosedAtLast, UiDesignAgent!designVars, UiDesignAgent!clientVars,
        UiDesignAgent!tabVars
  <2>2. CanvasFits'
    BY <1>3
    DEF UiDesignAgent!Connect, UiDesignAgent!MayConnect, UiDesignAgent!Connected,
        UiDesignAgent!ConnectFails, UiDesignAgent!ClosedAtLast, DrawingInv, CanvasFits
  <2> QED BY <1>1, <2>1, <2>2
<1> QED BY <1>2, <1>3

\* When the drawing was chosen, only it takes steps.
LEMMA DrawingAlone ==
    ASSUME part = "uiDesign", [Next]_vars
    PROVE  part' = "uiDesign" /\ (UiDesignAgent!Next \/ UNCHANGED uiDesignState)
BY DEF Next, vars, PageStep, CliStep, DialogsStep, UiDesignAgentStep, SandboxStep, RunDeliveryStep

\* Calls, the tab's queue, the page and the connection fit together, for any screens,
\* any number of designs and attempts and any trouble.
THEOREM DrawingInductive == Spec => [](part = "uiDesign" => DrawingInv)
<1>1. Init => (part = "uiDesign" => DrawingInv)
  <2>1. SUFFICES ASSUME UiDesignAgent!Init PROVE DrawingInv
    BY DEF Init
  <2>2. DrawingTyped
    BY <2>1 DEF UiDesignAgent!Init, UiDesignAgent!None, DrawingTyped
  <2>3. TodoFits /\ TabFits /\ DrawnFits /\ CanvasFits
    BY <2>1
    DEF UiDesignAgent!Init, TodoFits, TabFits, DrawnFits, UiDesignAgent!DrawnIsWhatIsThere,
        CanvasFits
  <2> QED BY <2>2, <2>3 DEF DrawingInv
<1>2. (part = "uiDesign" => DrawingInv) /\ [Next]_vars => (part = "uiDesign" => DrawingInv)'
  <2>1. SUFFICES ASSUME part = "uiDesign", DrawingInv, [Next]_vars PROVE DrawingInv'
    BY DEF Next, vars, PageStep, CliStep, DialogsStep, UiDesignAgentStep, SandboxStep,
           RunDeliveryStep
  <2>2. CASE UiDesignAgent!Next
    BY <2>1, <2>2, TheTab, TheClient, TheCanvas DEF UiDesignAgent!Next
  <2>3. CASE UNCHANGED uiDesignState
    BY <2>1, <2>3
    DEF uiDesignState, DrawingInv, DrawingTyped, TodoFits, Left, TabFits, IsCurrent, DrawnFits,
        UiDesignAgent!DrawnIsWhatIsThere, CanvasFits
  <2> QED BY <2>1, <2>2, <2>3, DrawingAlone
<1> QED BY <1>1, <1>2, PTL DEF Spec

\* A design that was drawn is what the page in Penpot holds, and a closed canvas
\* stays closed (penpotRender.ts, lazyCanvas.ts).
THEOREM DrawnIsThere == Spec => []DrawnIsWhatIsThere
<1>1. (part = "uiDesign" => DrawingInv) => DrawnIsWhatIsThere
  BY DEF DrawingInv, DrawnFits, CanvasFits, DrawnIsWhatIsThere,
         UiDesignAgent!NothingOpensAfterClose
<1> QED BY <1>1, DrawingInductive, PTL

-----------------------------------------------------------------------------
(* Answers: while nobody answers elsewhere, every response arrives and no   *)
(* form is opened anew with an answer on its way, the page is what answers, *)
(* so it knows what it has answered.                                        *)

Answerable == {"designGate", "escalation"}
DialogForms == [key : Nat, choice : {"none", "skipSlice", "editDocuments"}, seen : Nat]

\* The form that answers what the Run waits for.
FormFor(waiting) == IF waiting.for = "escalation" THEN waiting.id ELSE 0

\* Questions are numbered, on the server and on the page.
QuestionsFit ==
    /\ questions \in Nat /\ documentsInReview \subseteq Dialogs!Kinds /\ redo \subseteq Dialogs!Kinds
    /\ open # Dialogs!NoQuestion => open.for \in Answerable /\ open.id = questions /\ questions > 0
    /\ page.at \in Nat
    /\ page.waiting # Dialogs!NoQuestion =>
          /\ page.waiting.for \in Answerable /\ page.waiting.id \in 1..questions
          /\ page.at = 2 * page.waiting.id

\* What the page shows of a question that is open is what the question is about.
PageFits ==
    open # Dialogs!NoQuestion /\ page.waiting = open =>
        page.version = version /\ page.inReview = documentsInReview

\* A question the page shows and that is not open was answered by the page: it has
\* the answer still to come.
AnswersFit ==
    page.waiting # Dialogs!NoQuestion /\ page.waiting # open =>
        \E r \in responses : r.ok /\ r.form = FormFor(page.waiting) /\ r.run.at > page.at

ResponsesFit ==
    \A r \in responses :
        /\ r.ok \in BOOLEAN
        /\ r.ok => /\ r.run.waiting = Dialogs!NoQuestion /\ r.run.at \in Nat
                   /\ r.run.at < 2 * questions + (IF open = Dialogs!NoQuestion THEN 2 ELSE 0)

DialogFits ==
    /\ dialog \in DialogForms /\ dialog.key = Dialogs!escalationKey(page)
    /\ dialog.choice # "none" => dialog.seen = dialog.key

\* A Verdict being written is on what the page shows, or about to be cleared.
DraftFits ==
    /\ draft = [kind \in Dialogs!Kinds |-> draft[kind]]
    /\ \/ \E r \in responses : r.ok /\ r.form = 0
       \/ \A kind \in Dialogs!Kinds : draft[kind] # Dialogs!Empty =>
             kind \in Dialogs!awaiting(page) /\ draft[kind].seen = page.version[kind]

\* A request on its way is the only one, and answers the question that is open, as
\* it was read.
RequestFits ==
    /\ \A request, other \in requests : request = other
    /\ \A request \in requests :
        /\ open # Dialogs!NoQuestion /\ request.form = FormFor(open)
        /\ open.for = "designGate" =>
              /\ request.choice = "verdicts" /\ DOMAIN request.verdicts = documentsInReview
              /\ \A kind \in documentsInReview : request.verdicts[kind].seen = version[kind]
        /\ open.for = "escalation" => request.choice # "verdicts" /\ request.seen = open.id

Clean ==
    /\ misread = {}
    /\ QuestionsFit /\ PageFits /\ AnswersFit /\ ResponsesFit
    /\ DialogFits /\ DraftFits /\ RequestFits

AnsweringInv == meddled \in Nat /\ (meddled = 0 => Clean)

\* What the forms of the page are about, and what they have sent.
formState == <<page, draft, dialog, aside, requests, responses, misread>>
serverState == <<questions, open, version, documentsInReview, redo>>

\* How requests and forms are numbered: two to a question, in its order.
LEMMA Numbering ==
    /\ Dialogs!NoQuestion.for = "nobody" /\ Dialogs!NoQuestion.id = 0
    /\ "nobody" \notin Answerable
    /\ \A q \in Nat : 2 * q \in Nat /\ 2 * q < 2 * q + 2 /\ 2 * q + 1 < 2 * (q + 1) /\ 2 * q + 0 = 2 * q
    /\ \A p, q \in Nat : p < q => 2 * p < 2 * q /\ 2 * p + 2 <= 2 * q
    /\ \A p, q \in Nat : p <= q => 2 * p < 2 * q + 1 /\ 2 * p <= 2 * q
BY DEF Dialogs!NoQuestion, Answerable

\* The Run asks: nobody has read the question yet.
LEMMA TheRunAsks ==
    ASSUME Clean, Dialogs!Asks
    PROVE  Clean'
<1>1. /\ open = Dialogs!NoQuestion /\ questions' = questions + 1
      /\ open'.for \in Answerable /\ open'.id = questions + 1
      /\ UNCHANGED formState
  BY DEF Dialogs!Asks, Dialogs!forms, formState, Answerable
<1>2. documentsInReview' = redo /\ redo' = {} /\ redo \subseteq Dialogs!Kinds
  BY DEF Dialogs!Asks, Clean, QuestionsFit
<1>3. open' # Dialogs!NoQuestion /\ requests = {}
  BY <1>1, Numbering DEF Clean, RequestFits
<1>4. questions \in Nat
  BY DEF Clean, QuestionsFit
<1>5. page.waiting # open'
  BY <1>1, <1>3, <1>4 DEF Clean, QuestionsFit
<1>6. QuestionsFit'
  BY <1>1, <1>2, <1>4 DEF Clean, QuestionsFit, formState
<1>7. PageFits' /\ AnswersFit'
  BY <1>1, <1>5 DEF Clean, PageFits, AnswersFit, formState
<1>8. ResponsesFit'
  BY <1>1, <1>3, <1>4 DEF Clean, ResponsesFit, formState
<1>9. DialogFits' /\ DraftFits' /\ RequestFits'
  BY <1>1, <1>3
  DEF Clean, DialogFits, DraftFits, RequestFits, formState, Dialogs!escalationKey, Dialogs!awaiting
<1> QED BY <1>1, <1>6, <1>7, <1>8, <1>9 DEF Clean, formState

\* While the question the page shows is the one asked, no answer to it is known.
LEMMA AskedStill ==
    ASSUME Clean, page.waiting # Dialogs!NoQuestion, page.waiting = open
    PROVE  /\ page.version = version /\ page.inReview = documentsInReview
           /\ page.at = 2 * questions
           /\ \A r \in responses : r.ok => r.run.at < page.at
<1>1. open.id = questions /\ questions \in Nat /\ page.at = 2 * page.waiting.id
  BY DEF Clean, QuestionsFit
<1>2. page.at = 2 * questions /\ 2 * questions + 0 = 2 * questions
  BY <1>1
<1>3. \A r \in responses : r.ok => r.run.at < 2 * questions + 0
  BY DEF Clean, ResponsesFit
<1> QED BY <1>2, <1>3 DEF Clean, PageFits

\* Once the answer is no longer on its way to or from the server, what the page
\* shows is asked still.
LEMMA NothingOnItsWay ==
    ASSUME Clean, page.waiting # Dialogs!NoQuestion, ~Dialogs!Sending(FormFor(page.waiting))
    PROVE  page.waiting = open
BY DEF Clean, AnswersFit, Dialogs!Sending

\* The server takes the answer, which is to the question that is open.
LEMMA TheAnswerArrives ==
    ASSUME Clean, Dialogs!Arrives
    PROVE  Clean'
<1>0. PICK request \in requests :
         (Dialogs!Taken(request) \/ Dialogs!Refused(request)) /\ requests' = requests \ {request}
  BY DEF Dialogs!Arrives
<1>1. requests' = {} /\ UNCHANGED <<page, draft, dialog, aside>>
  BY <1>0 DEF Dialogs!Arrives, Dialogs!forms, Clean, RequestFits
<1>2. /\ open # Dialogs!NoQuestion /\ request.form = FormFor(open)
      /\ open.for = "designGate" =>
              /\ request.choice = "verdicts" /\ DOMAIN request.verdicts = documentsInReview
              /\ \A kind \in documentsInReview : request.verdicts[kind].seen = version[kind]
      /\ open.for = "escalation" => request.choice # "verdicts" /\ request.seen = open.id
  BY <1>0 DEF Clean, RequestFits
<1>3. /\ open.for \in Answerable /\ open.id = questions /\ questions \in Nat
      /\ documentsInReview \subseteq Dialogs!Kinds
  BY <1>2 DEF Clean, QuestionsFit
<1>4. Dialogs!Fits(request)
  BY <1>2, <1>3 DEF Dialogs!Fits, Answerable
<1>5. Dialogs!Taken(request)
  BY <1>0, <1>4 DEF Dialogs!Refused
<1>6. misread' = misread
  BY <1>2, <1>3, <1>5 DEF Dialogs!Taken, Answerable
<1>7. open' = Dialogs!NoQuestion /\ documentsInReview' = {} /\ UNCHANGED <<questions, version>>
  BY <1>5 DEF Dialogs!Taken, Dialogs!DecidesDesign, Dialogs!Resolves, Dialogs!Answered
<1>8. redo' \subseteq Dialogs!Kinds
  <2>1. CASE request.choice = "verdicts"
    <3>1. Dialogs!DecidesDesign({kind \in documentsInReview :
                                    request.verdicts[kind].decision = "requestChanges"})
      BY <1>5, <2>1 DEF Dialogs!Taken
    <3> QED BY <1>3, <3>1 DEF Dialogs!DecidesDesign, Dialogs!MakesStale, Dialogs!Kinds
  <2>2. CASE request.choice # "verdicts"
    BY <1>5, <2>2 DEF Dialogs!Taken, Dialogs!Resolves, Dialogs!Kinds
  <2> QED BY <2>1, <2>2
<1> DEFINE answer == [form |-> request.form, ok |-> TRUE, run |-> Dialogs!Detail']
<1>9. responses' = responses \cup {answer}
  BY <1>5 DEF Dialogs!Taken
<1>10. /\ answer.ok = TRUE /\ answer.form = FormFor(open)
       /\ answer.run.waiting = Dialogs!NoQuestion /\ answer.run.at = 2 * questions + 1
  BY <1>2, <1>7 DEF Dialogs!Detail
<1> HIDE DEF answer
<1>11. QuestionsFit' /\ PageFits'
  BY <1>1, <1>3, <1>7, <1>8 DEF Clean, QuestionsFit, PageFits
<1>12. AnswersFit'
  <2>1. SUFFICES ASSUME page.waiting # Dialogs!NoQuestion
                 PROVE  \E r \in responses' : r.ok /\ r.form = FormFor(page.waiting) /\ r.run.at > page.at
    BY <1>1 DEF AnswersFit
  <2>2. CASE page.waiting # open
    BY <1>9, <2>1, <2>2 DEF Clean, AnswersFit
  <2>3. CASE page.waiting = open
    <3>1. page.at = 2 * questions
      BY <2>1, <2>3, AskedStill
    <3>2. answer.run.at > page.at
      BY <1>3, <1>10, <3>1
    <3> QED BY <1>9, <1>10, <2>3, <3>2
  <2> QED BY <2>2, <2>3
<1>13. ResponsesFit'
  <2>1. SUFFICES ASSUME NEW r \in responses'
                 PROVE  /\ r.ok \in BOOLEAN
                        /\ r.ok => /\ r.run.waiting = Dialogs!NoQuestion /\ r.run.at \in Nat
                                   /\ r.run.at < 2 * questions + 2
    BY <1>7 DEF ResponsesFit
  <2>2. CASE r = answer
    <3>1. 2 * questions + 1 \in Nat /\ 2 * questions + 1 < 2 * questions + 2
      BY <1>3
    <3> QED BY <1>10, <2>2, <3>1
  <2>3. CASE r \in responses
    <3>1. /\ r.ok \in BOOLEAN
          /\ r.ok => /\ r.run.waiting = Dialogs!NoQuestion /\ r.run.at \in Nat
                     /\ r.run.at < 2 * questions + 0
      BY <1>2, <2>3 DEF Clean, ResponsesFit
    <3> QED BY <1>3, <3>1
  <2> QED BY <1>9, <2>1, <2>2, <2>3
<1>14. DialogFits'
  BY <1>1 DEF Clean, DialogFits, Dialogs!escalationKey
<1>15. DraftFits'
  BY <1>1, <1>9 DEF Clean, DraftFits, Dialogs!awaiting
<1>16. RequestFits'
  BY <1>1 DEF RequestFits
<1> QED BY <1>6, <1>11, <1>12, <1>13, <1>14, <1>15, <1>16 DEF Clean

\* What is written in a form of the page is about what the page shows.
LEMMA EscalationKeys ==
    ASSUME Clean
    PROVE  Dialogs!escalationKey(page) \in Nat /\ Dialogs!escalationKey(Dialogs!Detail) \in Nat
<1>1. page.waiting.for = "escalation" => page.waiting.id \in Nat
  BY Numbering DEF Clean, QuestionsFit
<1>2. open.for = "escalation" => open.id \in Nat
  BY Numbering DEF Clean, QuestionsFit
<1>3. Dialogs!Detail.waiting = open
  BY DEF Dialogs!Detail
<1> QED BY <1>1, <1>2, <1>3 DEF Dialogs!escalationKey

\* A dialog opened for a Run is about the question that Run shows.
LEMMA NewDialogs ==
    ASSUME NEW run, Dialogs!escalationKey(run) \in Nat, DialogFits
    PROVE  LET new == Dialogs!DialogFor(run) IN
           /\ new \in DialogForms /\ new.key = Dialogs!escalationKey(run)
           /\ new.choice # "none" => new.seen = new.key
<1>1. CASE Dialogs!escalationKey(run) = dialog.key
  BY <1>1 DEF DialogFits, Dialogs!DialogFor
<1>2. CASE Dialogs!escalationKey(run) # dialog.key
  <2>1. Dialogs!DialogFor(run) = [key |-> Dialogs!escalationKey(run), choice |-> "none", seen |-> 0]
    BY <1>2 DEF Dialogs!DialogFor, Dialogs!NoDialog
  <2> QED BY <2>1 DEF DialogForms
<1> QED BY <1>1, <1>2

\* What is written on a question that was answered is about to be cleared.
LEMMA StaleDrafts ==
    ASSUME Clean, page.waiting # open \/ page.waiting = Dialogs!NoQuestion
    PROVE  \/ \E r \in responses : r.ok /\ r.form = 0
           \/ \A kind \in Dialogs!Kinds : draft[kind] = Dialogs!Empty
<1>1. CASE page.waiting.for = "designGate"
  <2>1. page.waiting # Dialogs!NoQuestion /\ page.waiting # open /\ FormFor(page.waiting) = 0
    BY <1>1, Numbering DEF FormFor
  <2> QED BY <2>1 DEF Clean, AnswersFit
<1>2. CASE page.waiting.for # "designGate"
  BY <1>2 DEF Clean, DraftFits, Dialogs!awaiting
<1> QED BY <1>1, <1>2

\* The page reads the Run: its forms are about what it shows now.
LEMMA ThePageReads ==
    ASSUME Clean, Dialogs!Reads
    PROVE  Clean'
<1>1. UNCHANGED <<questions, open, version, documentsInReview, redo, draft, requests, responses, misread>>
  BY DEF Dialogs!Reads, Dialogs!server
<1>2. CASE UNCHANGED <<page, dialog>>
  BY <1>1, <1>2
  DEF Clean, QuestionsFit, PageFits, AnswersFit, ResponsesFit, DialogFits, DraftFits, RequestFits,
      Dialogs!escalationKey, Dialogs!awaiting
<1>3. CASE page' = Dialogs!Detail /\ dialog' = Dialogs!DialogFor(Dialogs!Detail)
  <2>1. /\ page'.waiting = open /\ page'.version = version /\ page'.inReview = documentsInReview
        /\ page'.at = 2 * questions + (IF open = Dialogs!NoQuestion THEN 1 ELSE 0)
    BY <1>3 DEF Dialogs!Detail
  <2>2. questions \in Nat
    BY DEF Clean, QuestionsFit
  <2>3. page'.at \in Nat /\ (open # Dialogs!NoQuestion => page'.at = 2 * questions)
    BY <2>1, <2>2
  <2>4. QuestionsFit'
    BY <1>1, <2>1, <2>2, <2>3 DEF Clean, QuestionsFit
  <2>5. PageFits' /\ AnswersFit'
    BY <1>1, <2>1 DEF PageFits, AnswersFit
  <2>6. DialogFits'
    <3>1. Dialogs!escalationKey(page') = Dialogs!escalationKey(Dialogs!Detail)
      BY <1>3
    <3>2. Dialogs!escalationKey(Dialogs!Detail) \in Nat /\ DialogFits
      BY EscalationKeys DEF Clean
    <3>3. /\ dialog' \in DialogForms /\ dialog'.key = Dialogs!escalationKey(Dialogs!Detail)
          /\ dialog'.choice # "none" => dialog'.seen = dialog'.key
      BY <1>3, <3>2, NewDialogs
    <3>4. Dialogs!escalationKey(page)' = Dialogs!escalationKey(page')
      BY DEF Dialogs!escalationKey
    <3> QED BY <3>1, <3>3, <3>4 DEF DialogFits
  <2>7. DraftFits'
    <3>1. CASE page.waiting # Dialogs!NoQuestion /\ page.waiting = open
      <4>1. Dialogs!awaiting(page)' = Dialogs!awaiting(page) /\ page'.version = page.version
        BY <2>1, <3>1, AskedStill DEF Dialogs!awaiting
      <4> QED BY <1>1, <4>1 DEF Clean, DraftFits
    <3>2. CASE page.waiting # open \/ page.waiting = Dialogs!NoQuestion
      BY <1>1, <3>2, StaleDrafts DEF Clean, DraftFits
    <3> QED BY <3>1, <3>2
  <2> QED BY <1>1, <2>4, <2>5, <2>6, <2>7 DEF Clean, ResponsesFit, RequestFits
<1> QED BY <1>2, <1>3 DEF Dialogs!Reads, Dialogs!Accept

\* The person writes in a form, or puts a dialog aside.
LEMMA ThePersonWrites ==
    ASSUME Clean, Dialogs!ChoosesVerdict \/ Dialogs!Chooses \/ Dialogs!SetsAside
    PROVE  Clean'
<1>1. UNCHANGED <<questions, open, version, documentsInReview, redo, page, requests, responses, misread>>
  BY DEF Dialogs!ChoosesVerdict, Dialogs!Chooses, Dialogs!SetsAside, Dialogs!server
<1>2. QuestionsFit' /\ PageFits' /\ AnswersFit' /\ ResponsesFit' /\ RequestFits'
  BY <1>1 DEF Clean, QuestionsFit, PageFits, AnswersFit, ResponsesFit, RequestFits
<1>3. /\ Dialogs!escalationKey(page)' = Dialogs!escalationKey(page)
      /\ Dialogs!awaiting(page)' = Dialogs!awaiting(page)
  BY <1>1 DEF Dialogs!escalationKey, Dialogs!awaiting
<1>4. CASE Dialogs!ChoosesVerdict
  <2>1. PICK kind \in Dialogs!awaiting(page), decision \in {"approve", "requestChanges"} :
           draft' = [draft EXCEPT ![kind] = [decision |-> decision, seen |-> page.version[kind]]]
    BY <1>4 DEF Dialogs!ChoosesVerdict
  <2>2. draft = [k \in Dialogs!Kinds |-> draft[k]]
    BY DEF Clean, DraftFits
  <2>3. /\ draft' = [k \in Dialogs!Kinds |-> draft'[k]]
        /\ \A k \in Dialogs!Kinds : \/ k # kind /\ draft'[k] = draft[k]
                                    \/ k = kind /\ draft'[k].seen = page.version[k]
    <3> DEFINE verdict == [decision |-> decision, seen |-> page.version[kind]]
    <3>1. verdict.seen = page.version[kind]
      OBVIOUS
    <3>2. draft' = [draft EXCEPT ![kind] = verdict]
      BY <2>1
    <3> HIDE DEF verdict
    <3>3. \A k \in Dialogs!Kinds : draft'[k] = IF k = kind THEN verdict ELSE draft[k]
      BY <2>2, <3>2
    <3>4. draft' = [k \in Dialogs!Kinds |-> draft'[k]]
      BY <2>2, <3>2
    <3> QED BY <3>1, <3>3, <3>4
  <2>4. DraftFits'
    BY <1>1, <1>3, <2>1, <2>3 DEF Clean, DraftFits
  <2>5. DialogFits'
    BY <1>3, <1>4 DEF Dialogs!ChoosesVerdict, Clean, DialogFits
  <2> QED BY <1>1, <1>2, <2>4, <2>5 DEF Clean
<1>5. CASE Dialogs!Chooses \/ Dialogs!SetsAside
  <2>1. draft' = draft
    BY <1>5 DEF Dialogs!Chooses, Dialogs!SetsAside
  <2>2. DraftFits'
    BY <1>1, <1>3, <2>1 DEF Clean, DraftFits
  <2>3. DialogFits'
    <3>1. dialog \in DialogForms /\ dialog.key = Dialogs!escalationKey(page) /\ dialog.key \in Nat
      BY DEF Clean, DialogFits, DialogForms
    <3>2. CASE Dialogs!Chooses
      <4>1. PICK choice \in {"skipSlice", "editDocuments"} :
               dialog' = [dialog EXCEPT !.choice = choice, !.seen = dialog.key]
        BY <3>2 DEF Dialogs!Chooses
      <4>2. dialog' \in DialogForms /\ dialog'.key = dialog.key /\ dialog'.seen = dialog.key
        BY <3>1, <4>1 DEF DialogForms
      <4> QED BY <1>3, <3>1, <4>2 DEF DialogFits
    <3>3. CASE Dialogs!SetsAside
      <4>1. dialog' = [key |-> dialog.key, choice |-> "none", seen |-> 0]
        BY <3>3 DEF Dialogs!SetsAside, Dialogs!NoDialog
      <4>2. dialog' \in DialogForms /\ dialog'.key = dialog.key /\ dialog'.choice = "none"
        BY <3>1, <4>1 DEF DialogForms
      <4> QED BY <1>3, <3>1, <4>2 DEF DialogFits
    <3> QED BY <1>5, <3>2, <3>3
  <2> QED BY <1>1, <1>2, <2>2, <2>3 DEF Clean
<1> QED BY <1>4, <1>5

\* The person answers the question that is open, as the page showed it.
LEMMA ThePersonAnswers ==
    ASSUME Clean, Dialogs!SubmitsVerdicts \/ Dialogs!SubmitsResolution
    PROVE  Clean'
<1>1. UNCHANGED <<questions, open, version, documentsInReview, redo, page, draft, dialog, responses,
                  misread>>
  BY DEF Dialogs!SubmitsVerdicts, Dialogs!SubmitsResolution, Dialogs!server, Dialogs!forms
<1>2. /\ QuestionsFit' /\ PageFits' /\ AnswersFit' /\ ResponsesFit' /\ DialogFits' /\ DraftFits'
  BY <1>1
  DEF Clean, QuestionsFit, PageFits, AnswersFit, ResponsesFit, DialogFits, DraftFits,
      Dialogs!escalationKey, Dialogs!awaiting
<1>5. ASSUME page.waiting # Dialogs!NoQuestion, ~Dialogs!Sending(FormFor(page.waiting))
      PROVE  page.waiting = open /\ requests = {}
  <2>1. page.waiting = open
    BY <1>5, NothingOnItsWay
  <2> QED BY <1>5, <2>1 DEF Clean, RequestFits, Dialogs!Sending
<1>3. CASE Dialogs!SubmitsVerdicts
  <2> DEFINE request == [form |-> 0, choice |-> "verdicts",
                         verdicts |-> [kind \in Dialogs!awaiting(page) |-> draft[kind]]]
  <2>1. /\ requests' = requests \cup {request}
        /\ Dialogs!awaiting(page) # {} /\ ~Dialogs!Sending(0)
        /\ \A kind \in Dialogs!awaiting(page) : draft[kind] # Dialogs!Empty
    BY <1>3 DEF Dialogs!SubmitsVerdicts, Dialogs!verdictProblems
  <2>2. /\ page.waiting.for = "designGate" /\ page.waiting # Dialogs!NoQuestion
        /\ FormFor(page.waiting) = 0 /\ Dialogs!awaiting(page) = page.inReview
    BY <2>1, Numbering DEF Dialogs!awaiting, FormFor
  <2>3. page.waiting = open /\ requests = {}
    BY <1>5, <2>1, <2>2
  <2>4. page.version = version /\ page.inReview = documentsInReview
    BY <2>2, <2>3, AskedStill
  <2>5. \A kind \in documentsInReview : draft[kind].seen = version[kind]
    <3>1. ~ \E r \in responses : r.form = 0
      BY <2>1 DEF Dialogs!Sending
    <3>2. documentsInReview \subseteq Dialogs!Kinds
      BY DEF Clean, QuestionsFit
    <3> QED BY <2>1, <2>2, <2>4, <3>1, <3>2 DEF Clean, DraftFits
  <2>7. /\ request.form = 0 /\ request.choice = "verdicts"
        /\ DOMAIN request.verdicts = Dialogs!awaiting(page)
        /\ \A kind \in Dialogs!awaiting(page) : request.verdicts[kind] = draft[kind]
    OBVIOUS
  <2> HIDE DEF request
  <2>6. RequestFits'
    BY <1>1, <2>1, <2>2, <2>3, <2>4, <2>5, <2>7 DEF RequestFits
  <2> QED BY <1>1, <1>2, <2>6 DEF Clean
<1>4. CASE Dialogs!SubmitsResolution
  <2> DEFINE request == [form |-> dialog.key, choice |-> dialog.choice, seen |-> dialog.seen]
  <2>1. /\ requests' = requests \cup {request}
        /\ dialog.key # 0 /\ dialog.choice # "none" /\ ~Dialogs!Sending(dialog.key)
    BY <1>4 DEF Dialogs!SubmitsResolution
  <2>2. dialog.key = Dialogs!escalationKey(page) /\ dialog.seen = dialog.key /\ dialog.choice # "verdicts"
    BY <2>1 DEF Clean, DialogFits, DialogForms
  <2>3. page.waiting.for = "escalation" /\ page.waiting.id = dialog.key
    BY <2>1, <2>2 DEF Dialogs!escalationKey
  <2>4. page.waiting # Dialogs!NoQuestion /\ FormFor(page.waiting) = dialog.key
    BY <2>3, Numbering DEF FormFor
  <2>5. page.waiting = open /\ requests = {}
    BY <1>5, <2>1, <2>4
  <2>6. RequestFits'
    BY <1>1, <2>1, <2>2, <2>3, <2>4, <2>5 DEF RequestFits
  <2> QED BY <1>1, <1>2, <2>6 DEF Clean
<1> QED BY <1>3, <1>4

\* A form with nothing on its way is opened anew, and empty.
LEMMA TheFormOpens ==
    ASSUME Clean, meddled \in Nat, meddled' = meddled,
           Dialogs!Reopens \/ Dialogs!ReturnsToGate
    PROVE  Clean'
<1>1. UNCHANGED <<requests, responses>>
  <2>1. PICK form : Dialogs!OpensAnew(form)
    BY DEF Dialogs!Reopens, Dialogs!ReturnsToGate
  <2>2. meddled' # meddled + 1
    OBVIOUS
  <2> QED BY <2>1, <2>2 DEF Dialogs!OpensAnew
<1>2. UNCHANGED <<questions, open, version, documentsInReview, redo, page, dialog, misread>>
  BY DEF Dialogs!Reopens, Dialogs!ReturnsToGate, Dialogs!server
<1>3. draft' = draft \/ draft' = Dialogs!NoDraft
  BY DEF Dialogs!Reopens, Dialogs!ReturnsToGate
<1>4. DraftFits'
  <2>1. CASE draft' = draft
    BY <1>1, <1>2, <2>1 DEF Clean, DraftFits, Dialogs!awaiting
  <2>2. CASE draft' = Dialogs!NoDraft
    BY <2>2 DEF DraftFits, Dialogs!NoDraft
  <2> QED BY <1>3, <2>1, <2>2
<1> QED
  BY <1>1, <1>2, <1>4
  DEF Clean, QuestionsFit, PageFits, AnswersFit, ResponsesFit, DialogFits, RequestFits,
      Dialogs!escalationKey

\* A response clears the form it answers, and tells the page what it did.
LEMMA TheResponseComes ==
    ASSUME Clean, Dialogs!Responded
    PROVE  Clean'
<1>1. PICK response \in responses :
         /\ responses' = responses \ {response}
         /\ draft' = Dialogs!DraftAfter(response)
         /\ IF response.ok THEN Dialogs!Accept(response.run) ELSE UNCHANGED <<page, dialog>>
  BY DEF Dialogs!Responded
<1>2. UNCHANGED <<questions, open, version, documentsInReview, redo, requests, misread>>
  BY DEF Dialogs!Responded, Dialogs!server
<1>3. /\ response.ok \in BOOLEAN
      /\ response.ok => response.run.waiting = Dialogs!NoQuestion /\ response.run.at \in Nat
  BY DEF Clean, ResponsesFit
<1>4. ResponsesFit' /\ RequestFits'
  BY <1>1, <1>2 DEF Clean, ResponsesFit, RequestFits
<1>5. \/ response.ok /\ response.form = 0 /\ \A kind \in Dialogs!Kinds : draft'[kind] = Dialogs!Empty
      \/ ~(response.ok /\ response.form = 0) /\ draft' = draft
  BY <1>1, <1>3 DEF Dialogs!DraftAfter, Dialogs!NoDraft
<1>6. draft' = [kind \in Dialogs!Kinds |-> draft'[kind]]
  BY <1>1 DEF Dialogs!DraftAfter, Dialogs!NoDraft, Clean, DraftFits
<1>7. ~(response.ok /\ response.form = 0) /\ (\E r \in responses : r.ok /\ r.form = 0) =>
         \E r \in responses' : r.ok /\ r.form = 0
  BY <1>1
<1>8. CASE UNCHANGED <<page, dialog>> /\ (response.ok => ~(response.run.at >= page.at))
  <2>1. QuestionsFit' /\ PageFits' /\ DialogFits'
    BY <1>2, <1>8
    DEF Clean, QuestionsFit, PageFits, DialogFits, Dialogs!escalationKey
  <2>2. AnswersFit'
    <3>1. SUFFICES ASSUME page.waiting # Dialogs!NoQuestion, page.waiting # open
                   PROVE  \E r \in responses' : r.ok /\ r.form = FormFor(page.waiting) /\ r.run.at > page.at
      BY <1>2, <1>8 DEF AnswersFit
    <3>2. PICK r \in responses : r.ok /\ r.form = FormFor(page.waiting) /\ r.run.at > page.at
      BY <3>1 DEF Clean, AnswersFit
    <3>3. r.run.at \in Nat /\ page.at \in Nat
      BY <3>2 DEF Clean, ResponsesFit, QuestionsFit
    <3>4. r # response
      BY <1>8, <3>2, <3>3
    <3> QED BY <1>1, <3>2, <3>4
  <2>3. Dialogs!awaiting(page)' = Dialogs!awaiting(page)
    BY <1>8 DEF Dialogs!awaiting
  <2>4. DraftFits'
    BY <1>5, <1>6, <1>7, <1>8, <2>3 DEF Clean, DraftFits
  <2> QED BY <1>2, <1>4, <2>1, <2>2, <2>4 DEF Clean
<1>9. CASE /\ response.ok /\ response.run.at >= page.at
           /\ page' = response.run /\ dialog' = Dialogs!DialogFor(response.run)
  <2>1. page'.waiting = Dialogs!NoQuestion /\ page'.at \in Nat
    BY <1>3, <1>9
  <2>2. QuestionsFit' /\ PageFits' /\ AnswersFit'
    BY <1>2, <2>1 DEF Clean, QuestionsFit, PageFits, AnswersFit
  <2>3. DialogFits'
    <3>1. Dialogs!escalationKey(response.run) = 0 /\ Dialogs!escalationKey(page)' = 0
      BY <1>9, <2>1, Numbering DEF Dialogs!escalationKey
    <3>2. Dialogs!escalationKey(response.run) \in Nat /\ DialogFits
      BY <3>1 DEF Clean
    <3>3. /\ dialog' \in DialogForms /\ dialog'.key = Dialogs!escalationKey(response.run)
          /\ dialog'.choice # "none" => dialog'.seen = dialog'.key
      BY <1>9, <3>2, NewDialogs
    <3> QED BY <3>1, <3>3 DEF DialogFits
  <2>4. page.waiting # open \/ page.waiting = Dialogs!NoQuestion
    <3>1. SUFFICES ASSUME page.waiting # Dialogs!NoQuestion, page.waiting = open PROVE FALSE
      OBVIOUS
    <3>2. response.run.at < page.at
      BY <1>9, <3>1, AskedStill
    <3>3. response.run.at \in Nat /\ page.at \in Nat
      BY <1>3, <1>9 DEF Clean, QuestionsFit
    <3>4. \A m, n \in Nat : ~(m < n /\ m >= n)
      OBVIOUS
    <3> QED BY <1>9, <3>2, <3>3, <3>4
  <2>5. \/ \E r \in responses' : r.ok /\ r.form = 0
        \/ \A kind \in Dialogs!Kinds : draft'[kind] = Dialogs!Empty
    BY <1>5, <1>7, <2>4, StaleDrafts
  <2>6. DraftFits'
    BY <1>6, <2>5 DEF DraftFits
  <2> QED BY <1>2, <1>4, <2>2, <2>3, <2>6 DEF Clean
<1> QED BY <1>1, <1>3, <1>8, <1>9 DEF Dialogs!Accept

\* Answers given elsewhere, responses lost and forms opened anew are counted.
LEMMA Meddling ==
    ASSUME meddled \in Nat, Dialogs!Next
    PROVE  /\ meddled' \in Nat /\ (meddled' = 0 => meddled = 0)
           /\ \/ meddled' # 0
              \/ meddled' = meddled /\ (Dialogs!Reopens \/ Dialogs!ReturnsToGate)
              \/ Dialogs!Asks \/ Dialogs!Arrives \/ Dialogs!Reads
              \/ Dialogs!ChoosesVerdict \/ Dialogs!Chooses \/ Dialogs!SetsAside
              \/ Dialogs!SubmitsVerdicts \/ Dialogs!SubmitsResolution \/ Dialogs!Responded
<1>1. CASE Dialogs!AnsweredElsewhere \/ Dialogs!ResponseLost
  <2>1. meddled' = meddled + 1
    BY <1>1 DEF Dialogs!AnsweredElsewhere, Dialogs!ResponseLost
  <2> QED BY <2>1
<1>2. CASE \/ Dialogs!Asks \/ Dialogs!Arrives \/ Dialogs!Reads
           \/ Dialogs!ChoosesVerdict \/ Dialogs!Chooses \/ Dialogs!SetsAside
           \/ Dialogs!SubmitsVerdicts \/ Dialogs!SubmitsResolution \/ Dialogs!Responded
  <2>1. meddled' = meddled
    BY <1>2
    DEF Dialogs!Asks, Dialogs!Arrives, Dialogs!Reads, Dialogs!ChoosesVerdict, Dialogs!Chooses,
        Dialogs!SetsAside, Dialogs!SubmitsVerdicts, Dialogs!SubmitsResolution, Dialogs!Responded
  <2> QED BY <1>2, <2>1
<1>3. CASE Dialogs!Reopens \/ Dialogs!ReturnsToGate
  <2>1. PICK form : Dialogs!OpensAnew(form)
    BY <1>3 DEF Dialogs!Reopens, Dialogs!ReturnsToGate
  <2>2. meddled' = meddled + 1 \/ meddled' = meddled
    BY <2>1 DEF Dialogs!OpensAnew
  <2> QED BY <1>3, <2>2
<1> QED BY <1>1, <1>2, <1>3 DEF Dialogs!Next

\* When the answers were chosen, only they take steps.
LEMMA AnsweringAlone ==
    ASSUME part = "answers", [Next]_vars
    PROVE  part' = "answers" /\ (Dialogs!Next \/ UNCHANGED answersState)
BY DEF Next, vars, PageStep, CliStep, DialogsStep, UiDesignAgentStep, SandboxStep, RunDeliveryStep

\* As long as nobody answers elsewhere, every response arrives and no form is opened
\* anew with an answer on its way, the forms of the page are about what is asked, for
\* any number of questions.
THEOREM AnsweringInductive == Spec => [](part = "answers" => AnsweringInv)
<1>1. Init => (part = "answers" => AnsweringInv)
  <2>1. SUFFICES ASSUME Dialogs!Init PROVE AnsweringInv
    BY DEF Init
  <2>2. /\ meddled = 0 /\ misread = {} /\ questions = 0 /\ open = Dialogs!NoQuestion
        /\ documentsInReview = {} /\ redo = Dialogs!Kinds /\ responses = {}
        /\ requests = {} /\ draft = Dialogs!NoDraft /\ dialog = Dialogs!NoDialog
        /\ page.waiting = Dialogs!NoQuestion /\ page.at = 1
    BY <2>1 DEF Dialogs!Init, Dialogs!Detail
  <2>3. QuestionsFit /\ PageFits /\ AnswersFit /\ ResponsesFit /\ RequestFits
    BY <2>2 DEF QuestionsFit, PageFits, AnswersFit, ResponsesFit, RequestFits
  <2>4. DialogFits /\ DraftFits
    BY <2>2, Numbering
    DEF DialogFits, DialogForms, DraftFits, Dialogs!NoDialog, Dialogs!NoDraft, Dialogs!escalationKey
  <2> QED BY <2>2, <2>3, <2>4 DEF AnsweringInv, Clean
<1>2. (part = "answers" => AnsweringInv) /\ [Next]_vars => (part = "answers" => AnsweringInv)'
  <2>1. SUFFICES ASSUME part = "answers", AnsweringInv, [Next]_vars PROVE AnsweringInv'
    BY DEF Next, vars, PageStep, CliStep, DialogsStep, UiDesignAgentStep, SandboxStep,
           RunDeliveryStep
  <2>2. CASE Dialogs!Next
    BY <2>1, <2>2, Meddling, TheRunAsks, TheAnswerArrives, ThePageReads, ThePersonWrites,
       ThePersonAnswers, TheFormOpens, TheResponseComes DEF AnsweringInv
  <2>3. CASE UNCHANGED answersState
    BY <2>1, <2>3
    DEF answersState, AnsweringInv, Clean, QuestionsFit, PageFits, AnswersFit, ResponsesFit,
        DialogFits, DraftFits, RequestFits, Dialogs!escalationKey, Dialogs!awaiting
  <2> QED BY <2>1, <2>2, <2>3, AnsweringAlone
<1> QED BY <1>1, <1>2, PTL DEF Spec

\* A Verdict is on the version the person saw and a resolution on the Escalation they
\* saw, however late the answer is and whatever the page read meanwhile (DesignGate.tsx,
\* gates.ts, EscalationDialog.tsx, decide of designGate.ts, resolveEscalation).
THEOREM AnswersFitTheirQuestion == Spec => []AnswersAreOnWhatWasRead
<1>1. (part = "answers" => AnsweringInv) => AnswersAreOnWhatWasRead
  BY DEF AnsweringInv, Clean, AnswersAreOnWhatWasRead, Dialogs!VerdictsAreOnWhatWasRead,
         Dialogs!ResolutionsAreForWhatWasRead
<1> QED BY <1>1, AnsweringInductive, PTL

-----------------------------------------------------------------------------
(* Following: what stops a terminal is an event or a read that a decision,  *)
(* or a start of the server, is needed to go past.                          *)

RunStatuses ==
    {"building", "reviewing", "escalated", "awaitingPrGate", "done", "failed", "aborted"}
EventTypes == {"checkpoint", "status", "delivery", "problem", "start"}
Events == [type : EventTypes, status : RunStatuses, seq : Nat]

FollowingTyped ==
    /\ runStatus \in RunStatuses
    /\ hasPr \in BOOLEAN /\ advancing \in BOOLEAN /\ alive \in BOOLEAN
    /\ events \in Seq(Events) /\ sent \in Seq(Events)
    /\ decided \in Nat /\ decided <= Len(events)
    /\ stoppedOn \in Nat /\ stoppedOn <= Len(events)
    /\ shown.lastSeq \in Nat /\ shown.lastSeq <= Len(events)
    /\ asked \in Nat
    /\ \A read \in rereads :
          read.advancing \in BOOLEAN /\ read.lastSeq \in Nat /\ read.lastSeq <= Len(events)

\* Events are numbered as they were published, and sent as they are.
EventsFit ==
    /\ \A i \in DOMAIN events : events[i].seq = i
    /\ \A j \in DOMAIN sent : sent[j].seq \in DOMAIN events /\ sent[j] = events[sent[j].seq]

\* A stop event, or a read that found no loop, that knows every decision is right:
\* only a decision, or a start of the server, makes a loop go on.
StopsFit ==
    /\ \A i \in DOMAIN events : Cli!StopsOn(events[i]) /\ i >= decided => ~advancing
    /\ \A read \in rereads : ~read.advancing /\ read.lastSeq >= decided => ~advancing
    /\ at \in {"last", "ended"} /\ stoppedOn >= decided => ~advancing \/ hasPr
    /\ runStatus \in {"escalated", "awaitingPrGate", "done"} => ~advancing

\* What makes the terminal stop, or look whether it should.
Alerts(event) == Cli!StopsOn(event) \/ Cli!Rereads(event)

Unmoved == ~advancing /\ ~(runStatus = "aborted" /\ hasPr)

\* The end of a loop is on its way to a terminal that follows.
EndIsHeard ==
    /\ at \in {"opening", "following"} => alive
    /\ at = "opening" /\ Unmoved =>
          \E i \in DOMAIN events : i > shown.lastSeq /\ Alerts(events[i])
    /\ at = "following" /\ Unmoved =>
          \/ \E j \in DOMAIN sent : Alerts(sent[j])
          \/ asked > 0
          \/ \E read \in rereads : ~read.advancing

FollowingInv == FollowingTyped /\ EventsFit /\ StopsFit /\ EndIsHeard

\* Events of these types were published, and sent to a terminal that follows.
Published(types) ==
    /\ events' \in Seq(Events) /\ Len(events') > Len(events)
    /\ \A i \in DOMAIN events : i \in DOMAIN events' /\ events'[i] = events[i]
    /\ \A i \in DOMAIN events' :
          \/ i \in DOMAIN events
          \/ /\ i > Len(events) /\ events'[i].seq = i
             /\ events'[i].status = runStatus' /\ events'[i].type \in types
    /\ sent' \in Seq(Events)
    /\ at # "following" => sent' = sent
    /\ at = "following" =>
          /\ \A j \in DOMAIN sent : j \in DOMAIN sent' /\ sent'[j] = sent[j]
          /\ \A j \in DOMAIN sent' :
                \/ j \in DOMAIN sent /\ sent'[j] = sent[j]
                \/ \E i \in DOMAIN events' : sent'[j] = events'[i] /\ events'[i].seq = i
          /\ \E i \in DOMAIN events' : i > Len(events) /\ \E j \in DOMAIN sent' : sent'[j] = events'[i]

\* What is at which place after one sequence is put after another.
LEMMA Appending ==
    ASSUME NEW S, NEW s \in Seq(S), NEW x \in Seq(S)
    PROVE  /\ s \o x \in Seq(S) /\ Len(s \o x) = Len(s) + Len(x)
           /\ \A i \in DOMAIN s : i \in DOMAIN (s \o x) /\ (s \o x)[i] = s[i]
           /\ \A i \in DOMAIN x : Len(s) + i \in DOMAIN (s \o x) /\ (s \o x)[Len(s) + i] = x[i]
           /\ \A i \in DOMAIN (s \o x) :
                 \/ i \in DOMAIN s
                 \/ i > Len(s) /\ i - Len(s) \in DOMAIN x /\ (s \o x)[i] = x[i - Len(s)]
<1>1. /\ s \o x \in Seq(S) /\ Len(s \o x) = Len(s) + Len(x)
      /\ Len(s) \in Nat /\ DOMAIN s = 1..Len(s) /\ Len(x) \in Nat /\ DOMAIN x = 1..Len(x)
      /\ DOMAIN (s \o x) = 1..(Len(s) + Len(x))
  OBVIOUS
<1>2. \A i \in 1..(Len(s) + Len(x)) : (s \o x)[i] = IF i <= Len(s) THEN s[i] ELSE x[i - Len(s)]
  OBVIOUS
<1>3. \A i \in DOMAIN s : i \in DOMAIN (s \o x) /\ (s \o x)[i] = s[i]
  BY <1>1, <1>2
<1>4. \A i \in DOMAIN x : Len(s) + i \in DOMAIN (s \o x) /\ (s \o x)[Len(s) + i] = x[i]
  <2>1. SUFFICES ASSUME NEW i \in DOMAIN x
                 PROVE  Len(s) + i \in DOMAIN (s \o x) /\ (s \o x)[Len(s) + i] = x[i]
    OBVIOUS
  <2>2. Len(s) + i \in 1..(Len(s) + Len(x)) /\ ~(Len(s) + i <= Len(s)) /\ (Len(s) + i) - Len(s) = i
    BY <1>1
  <2> QED BY <1>1, <1>2, <2>2
<1>5. \A i \in DOMAIN (s \o x) :
         \/ i \in DOMAIN s
         \/ i > Len(s) /\ i - Len(s) \in DOMAIN x /\ (s \o x)[i] = x[i - Len(s)]
  BY <1>1, <1>2
<1> QED BY <1>1, <1>3, <1>4, <1>5

\* What Publish does, for the types it is called with.
LEMMA Publishing ==
    ASSUME FollowingTyped, runStatus' \in RunStatuses, NEW types
    PROVE  \A new \in Seq(Events) :
              /\ Len(new) > 0
              /\ \A i \in DOMAIN new : new[i].seq = Len(events) + i
                                       /\ new[i].status = runStatus' /\ new[i].type \in types
              /\ events' = events \o new /\ sent' = (IF at = "following" THEN sent \o new ELSE sent)
              => Published(types)
<1> SUFFICES ASSUME NEW new \in Seq(Events), Len(new) > 0,
                    \A i \in DOMAIN new : new[i].seq = Len(events) + i
                                          /\ new[i].status = runStatus' /\ new[i].type \in types,
                    events' = events \o new,
                    sent' = (IF at = "following" THEN sent \o new ELSE sent)
             PROVE  Published(types)
  OBVIOUS
<1>1. events \in Seq(Events) /\ sent \in Seq(Events) /\ Len(events) \in Nat /\ Len(new) \in Nat
  BY DEF FollowingTyped
<1>2. /\ events' \in Seq(Events) /\ Len(events') = Len(events) + Len(new)
      /\ \A i \in DOMAIN events : i \in DOMAIN events' /\ events'[i] = events[i]
      /\ \A i \in DOMAIN new : Len(events) + i \in DOMAIN events' /\ events'[Len(events) + i] = new[i]
      /\ \A i \in DOMAIN events' :
            \/ i \in DOMAIN events
            \/ i > Len(events) /\ i - Len(events) \in DOMAIN new /\ events'[i] = new[i - Len(events)]
  BY <1>1, Appending
<1>3. Len(events') > Len(events)
  BY <1>1, <1>2
<1>4. \A i \in DOMAIN events' :
          \/ i \in DOMAIN events
          \/ /\ i > Len(events) /\ events'[i].seq = i
             /\ events'[i].status = runStatus' /\ events'[i].type \in types
  <2>1. SUFFICES ASSUME NEW i \in DOMAIN events', i \notin DOMAIN events
                 PROVE  /\ i > Len(events) /\ events'[i].seq = i
                        /\ events'[i].status = runStatus' /\ events'[i].type \in types
    OBVIOUS
  <2>2. i > Len(events) /\ i - Len(events) \in DOMAIN new /\ events'[i] = new[i - Len(events)]
    BY <1>2, <2>1
  <2>3. Len(events) + (i - Len(events)) = i
    BY <1>1, <1>2, <2>1
  <2> QED BY <2>2, <2>3
<1>5. CASE at # "following"
  BY <1>1, <1>2, <1>3, <1>4, <1>5 DEF Published
<1>6. CASE at = "following"
  <2>1. /\ sent' \in Seq(Events)
        /\ \A j \in DOMAIN sent : j \in DOMAIN sent' /\ sent'[j] = sent[j]
        /\ \A j \in DOMAIN new : Len(sent) + j \in DOMAIN sent' /\ sent'[Len(sent) + j] = new[j]
        /\ \A j \in DOMAIN sent' :
              \/ j \in DOMAIN sent
              \/ j > Len(sent) /\ j - Len(sent) \in DOMAIN new /\ sent'[j] = new[j - Len(sent)]
    <3>1. sent' = sent \o new
      BY <1>6
    <3> QED BY <1>1, <3>1, Appending
  <2>2. \A i \in DOMAIN new : \E k \in DOMAIN events' : events'[k] = new[i] /\ events'[k].seq = k
    <3>1. SUFFICES ASSUME NEW i \in DOMAIN new
                   PROVE  \E k \in DOMAIN events' : events'[k] = new[i] /\ events'[k].seq = k
      OBVIOUS
    <3>2. Len(events) + i \in DOMAIN events' /\ events'[Len(events) + i] = new[i]
      BY <1>2, <3>1
    <3>3. new[i].seq = Len(events) + i
      BY <3>1
    <3> QED BY <3>2, <3>3
  <2>3. \A j \in DOMAIN sent' :
           \/ j \in DOMAIN sent /\ sent'[j] = sent[j]
           \/ \E i \in DOMAIN events' : sent'[j] = events'[i] /\ events'[i].seq = i
    <3>1. SUFFICES ASSUME NEW j \in DOMAIN sent', j \notin DOMAIN sent
                   PROVE  \E i \in DOMAIN events' : sent'[j] = events'[i] /\ events'[i].seq = i
      BY <2>1
    <3>2. j - Len(sent) \in DOMAIN new /\ sent'[j] = new[j - Len(sent)]
      BY <2>1, <3>1
    <3>3. PICK k \in DOMAIN events' : events'[k] = new[j - Len(sent)] /\ events'[k].seq = k
      BY <2>2, <3>2
    <3> QED BY <3>2, <3>3
  <2>4. 1 \in DOMAIN new
    BY <1>1
  <2>5. Len(events) + 1 > Len(events)
    BY <1>1
  <2>6. \E i \in DOMAIN events' : i > Len(events) /\ \E j \in DOMAIN sent' : sent'[j] = events'[i]
    <3>1. Len(events) + 1 \in DOMAIN events' /\ events'[Len(events) + 1] = new[1]
      BY <1>2, <2>4
    <3>2. Len(sent) + 1 \in DOMAIN sent' /\ sent'[Len(sent) + 1] = new[1]
      BY <2>1, <2>4
    <3> QED BY <2>5, <3>1, <3>2
  <2> QED BY <1>2, <1>3, <1>4, <1>6, <2>1, <2>3, <2>6 DEF Published
<1> QED BY <1>5, <1>6

\* What one published event adds to the log and to the streams.
LEMMA PublishesOne ==
    ASSUME FollowingTyped, runStatus' \in RunStatuses, NEW type \in EventTypes, Cli!Publish(<<type>>)
    PROVE  Published({type})
<1> DEFINE event == [type |-> type, status |-> runStatus', seq |-> Len(events) + 1]
           new == <<event>>
<1>1. events' = events \o new /\ sent' = IF at = "following" THEN sent \o new ELSE sent
  BY DEF Cli!Publish
<1>2. Len(events) \in Nat
  BY DEF FollowingTyped
<1>3. /\ event \in Events /\ event.seq = Len(events) + 1 /\ event.status = runStatus'
      /\ event.type \in {type}
  BY <1>2 DEF Events
<1> HIDE DEF event
<1>4. new \in Seq(Events) /\ Len(new) = 1 /\ DOMAIN new = {1} /\ new[1] = event
  BY <1>3
<1> HIDE DEF new
<1>5. \A i \in DOMAIN new : new[i].seq = Len(events) + i
                            /\ new[i].status = runStatus' /\ new[i].type \in {type}
  BY <1>3, <1>4
<1>6. Len(new) > 0
  BY <1>4
<1> QED BY <1>1, <1>4, <1>5, <1>6, Publishing

\* What two events published together add.
LEMMA PublishesTwo ==
    ASSUME FollowingTyped, runStatus' \in RunStatuses, NEW first \in EventTypes,
           NEW second \in EventTypes, Cli!Publish(<<first, second>>)
    PROVE  Published({first, second})
<1> DEFINE one == [type |-> first, status |-> runStatus', seq |-> Len(events) + 1]
           two == [type |-> second, status |-> runStatus', seq |-> Len(events) + 2]
           new == <<one, two>>
<1>1. events' = events \o new /\ sent' = IF at = "following" THEN sent \o new ELSE sent
  BY DEF Cli!Publish
<1>2. Len(events) \in Nat
  BY DEF FollowingTyped
<1>3. /\ one \in Events /\ one.seq = Len(events) + 1 /\ one.status = runStatus' /\ one.type = first
      /\ two \in Events /\ two.seq = Len(events) + 2 /\ two.status = runStatus' /\ two.type = second
  BY <1>2 DEF Events
<1> HIDE DEF one, two
<1>4. new \in Seq(Events) /\ Len(new) = 2 /\ DOMAIN new = {1, 2} /\ new[1] = one /\ new[2] = two
  BY <1>3
<1> HIDE DEF new
<1>5. \A i \in DOMAIN new : new[i].seq = Len(events) + i
                            /\ new[i].status = runStatus' /\ new[i].type \in {first, second}
  BY <1>3, <1>4
<1>6. Len(new) > 0
  BY <1>4
<1> QED BY <1>1, <1>4, <1>5, <1>6, Publishing

\* What the server does says so: a loop that ends is heard, and only a decision,
\* or a start, makes a loop go on.
LEMMA TheServerSpeaks ==
    ASSUME FollowingInv, NEW types \in SUBSET EventTypes, Published(types),
           UNCHANGED <<at, shown, asked, rereads, stoppedOn>>,
           alive' \in BOOLEAN, at \in {"opening", "following"} => alive' /\ "start" \notin types,
           runStatus' \in RunStatuses, hasPr' \in BOOLEAN, advancing' \in BOOLEAN, hasPr => hasPr',
           decided' = Len(events') \/ (decided' = decided /\ (advancing' => advancing)),
           runStatus' \in {"escalated", "awaitingPrGate", "done"} => ~advancing',
           advancing' => "delivery" \notin types
    PROVE  FollowingInv'
<1>1. /\ Len(events) \in Nat /\ Len(events') \in Nat /\ Len(events) < Len(events')
      /\ DOMAIN events = 1..Len(events) /\ DOMAIN events' = 1..Len(events')
      /\ events' \in Seq(Events) /\ sent' \in Seq(Events)
  BY DEF FollowingInv, FollowingTyped, Published
<1>2. FollowingTyped'
  BY <1>1 DEF FollowingInv, FollowingTyped
<1>3. EventsFit'
  <2>1. \A i \in DOMAIN events' : events'[i].seq = i
    BY DEF FollowingInv, EventsFit, Published
  <2>2. ASSUME NEW j \in DOMAIN sent'
        PROVE  sent'[j].seq \in DOMAIN events' /\ sent'[j] = events'[sent'[j].seq]
    <3>1. CASE at # "following"
      BY <2>2, <3>1 DEF FollowingInv, EventsFit, Published
    <3>2. CASE at = "following"
      BY <2>2, <3>2 DEF FollowingInv, EventsFit, Published
    <3> QED BY <3>1, <3>2
  <2> QED BY <2>1, <2>2 DEF EventsFit
<1>4. \A i \in DOMAIN events' : i \notin DOMAIN events /\ Cli!StopsOn(events'[i]) => ~advancing'
  BY DEF Published, Cli!StopsOn, Cli!RESTING, Cli!OWES_DELIVERY
<1>5. StopsFit'
  <2>1. CASE decided' = Len(events')
    <3>1. /\ ~(stoppedOn >= decided')
          /\ \A read \in rereads : ~(read.lastSeq >= decided')
      BY <1>1, <2>1 DEF FollowingInv, FollowingTyped
    <3>2. \A i \in DOMAIN events' : i >= decided' => i \notin DOMAIN events
      BY <1>1, <2>1
    <3> QED BY <1>4, <3>1, <3>2 DEF StopsFit
  <2>2. CASE decided' = decided /\ (advancing' => advancing)
    <3>1. \A i \in DOMAIN events : events'[i] = events[i]
      BY DEF Published
    <3>2. \A i \in DOMAIN events' : Cli!StopsOn(events'[i]) /\ i >= decided' => ~advancing'
      BY <1>4, <2>2, <3>1 DEF FollowingInv, StopsFit
    <3> QED BY <2>2, <3>2 DEF FollowingInv, StopsFit
  <2> QED BY <2>1, <2>2
<1>6. EndIsHeard'
  <2>1. ASSUME at \in {"opening", "following"}, NEW i \in DOMAIN events', i > Len(events)
        PROVE  Alerts(events'[i])
    <3>1. events'[i].type \in EventTypes \ {"start"}
      BY <1>1, <2>1 DEF Published
    <3> QED BY <3>1 DEF EventTypes, Alerts, Cli!StopsOn, Cli!Rereads
  <2>2. CASE at = "opening"
    <3>1. Len(events') \in DOMAIN events' /\ Len(events') > Len(events) /\ Len(events') > shown.lastSeq
      BY <1>1 DEF FollowingInv, FollowingTyped
    <3> QED BY <2>1, <2>2, <3>1 DEF EndIsHeard
  <2>3. CASE at = "following"
    <3>1. PICK i \in DOMAIN events', j \in DOMAIN sent' : i > Len(events) /\ sent'[j] = events'[i]
      BY <2>3 DEF Published
    <3> QED BY <2>1, <2>3, <3>1 DEF EndIsHeard
  <2>4. CASE at \notin {"opening", "following"}
    BY <2>4 DEF EndIsHeard
  <2> QED BY <2>2, <2>3, <2>4
<1> QED BY <1>2, <1>3, <1>5, <1>6 DEF FollowingInv

\* The loop that advances the Run, and the person who answers and aborts.
LEMMA TheServerActs ==
    ASSUME FollowingInv,
           \/ Cli!BatchEnds \/ Cli!LimitReached \/ Cli!ReviewPasses \/ Cli!WorkStops
           \/ Cli!DeliversWhatIsOwed \/ Cli!LoopThrows \/ Cli!Answered \/ Cli!Aborted
    PROVE  FollowingInv'
<1> USE DEF Cli!terminal
<1>1. /\ FollowingTyped /\ runStatus \in RunStatuses /\ hasPr \in BOOLEAN
      /\ advancing \in BOOLEAN /\ alive \in BOOLEAN
      /\ {"checkpoint"} \subseteq EventTypes /\ {"checkpoint", "status"} \subseteq EventTypes
      /\ {"status"} \subseteq EventTypes /\ {"delivery", "status"} \subseteq EventTypes
      /\ {"delivery"} \subseteq EventTypes /\ {"problem"} \subseteq EventTypes
  BY DEF FollowingInv, FollowingTyped, EventTypes
<1>2. CASE Cli!BatchEnds
  <2>1. /\ runStatus' \in {"building", "reviewing"} /\ runStatus' \in RunStatuses /\ alive
        /\ UNCHANGED <<hasPr, advancing, alive, at, shown, asked, rereads, stoppedOn, decided>>
    BY <1>2 DEF Cli!BatchEnds, RunStatuses
  <2>2. Cli!Publish(<<"checkpoint">>) \/ Cli!Publish(<<"checkpoint", "status">>)
    <3>1. CASE runStatus' = "building"
      BY <1>2, <3>1 DEF Cli!BatchEnds
    <3>2. CASE runStatus' # "building"
      BY <1>2, <3>2 DEF Cli!BatchEnds
    <3> QED BY <3>1, <3>2
  <2>3. Published({"checkpoint"}) \/ Published({"checkpoint", "status"})
    BY <1>1, <2>1, <2>2, PublishesOne, PublishesTwo DEF EventTypes
  <2>4. PICK types \in {{"checkpoint"}, {"checkpoint", "status"}} : Published(types)
    BY <2>3
  <2>5. types \in SUBSET EventTypes /\ "start" \notin types /\ "delivery" \notin types
    BY <1>1, <2>4
  <2> QED BY <1>1, <2>1, <2>4, <2>5, TheServerSpeaks
<1>3. CASE Cli!LimitReached
  <2>1. /\ runStatus' \in {"escalated", "failed"} /\ runStatus' \in RunStatuses /\ alive
        /\ advancing' \in BOOLEAN /\ (advancing' => advancing)
        /\ runStatus' = "escalated" => ~advancing'
        /\ UNCHANGED <<hasPr, alive, at, shown, asked, rereads, stoppedOn, decided>>
    BY <1>3 DEF Cli!LimitReached, RunStatuses
  <2>2. Published({"status"})
    BY <1>1, <1>3, <2>1, PublishesOne DEF Cli!LimitReached, EventTypes
  <2> QED BY <1>1, <2>1, <2>2, TheServerSpeaks
<1>4. CASE Cli!ReviewPasses
  <2>1. /\ runStatus' \in RunStatuses /\ alive /\ advancing' = FALSE
        /\ hasPr' \in BOOLEAN /\ (hasPr => hasPr')
        /\ UNCHANGED <<alive, at, shown, asked, rereads, stoppedOn, decided>>
    BY <1>1, <1>4 DEF Cli!ReviewPasses, RunStatuses
  <2>2. Published({"delivery", "status"})
    BY <1>1, <1>4, <2>1, PublishesTwo DEF Cli!ReviewPasses, EventTypes
  <2> QED BY <1>1, <2>1, <2>2, TheServerSpeaks
<1>5. CASE Cli!WorkStops
  <2>1. /\ runStatus = "aborted" /\ hasPr /\ alive /\ advancing' = FALSE
        /\ UNCHANGED <<runStatus, hasPr, alive, at, shown, asked, rereads, stoppedOn, decided>>
    BY <1>5 DEF Cli!WorkStops
  <2>2. CASE inReview
    <3>1. UNCHANGED <<events, sent>>
      BY <1>5, <2>2 DEF Cli!WorkStops, Cli!Silent
    <3>2. FollowingTyped' /\ EventsFit' /\ StopsFit'
      BY <2>1, <3>1 DEF FollowingInv, FollowingTyped, EventsFit, StopsFit
    <3>3. EndIsHeard'
      BY <2>1, <3>1 DEF FollowingInv, EndIsHeard, Unmoved
    <3> QED BY <3>2, <3>3 DEF FollowingInv
  <2>3. CASE ~inReview
    <3>1. Published({"checkpoint"})
      BY <1>1, <1>5, <2>1, <2>3, PublishesOne DEF Cli!WorkStops, EventTypes
    <3> QED BY <1>1, <2>1, <3>1, TheServerSpeaks
  <2> QED BY <2>2, <2>3
<1>6. CASE Cli!DeliversWhatIsOwed
  <2>1. /\ alive /\ ~hasPr /\ hasPr' \in BOOLEAN /\ advancing' = FALSE
        /\ UNCHANGED <<runStatus, alive, at, shown, asked, rereads, stoppedOn, decided>>
    BY <1>6 DEF Cli!DeliversWhatIsOwed
  <2>2. Published({"delivery"})
    BY <1>1, <1>6, <2>1, PublishesOne DEF Cli!DeliversWhatIsOwed, EventTypes
  <2> QED BY <1>1, <2>1, <2>2, TheServerSpeaks
<1>7. CASE Cli!LoopThrows
  <2>1. /\ alive /\ advancing' = FALSE
        /\ UNCHANGED <<runStatus, hasPr, alive, at, shown, asked, rereads, stoppedOn, decided>>
    BY <1>7 DEF Cli!LoopThrows
  <2>2. Published({"problem"})
    BY <1>1, <1>7, <2>1, PublishesOne DEF Cli!LoopThrows, EventTypes
  <2> QED BY <1>1, <2>1, <2>2, TheServerSpeaks
<1>8. CASE Cli!Answered
  <2>1. /\ alive /\ runStatus' = "building" /\ runStatus' \in RunStatuses /\ advancing' = TRUE
        /\ decided' = Len(events')
        /\ UNCHANGED <<hasPr, alive, at, shown, asked, rereads, stoppedOn>>
    BY <1>8 DEF Cli!Answered, RunStatuses
  <2>2. Published({"status"})
    BY <1>1, <1>8, <2>1, PublishesOne DEF Cli!Answered, EventTypes
  <2> QED BY <1>1, <2>1, <2>2, TheServerSpeaks
<1>9. CASE Cli!Aborted
  <2>1. /\ alive /\ runStatus' = "aborted" /\ runStatus' \in RunStatuses
        /\ advancing' = (advancing \/ ~hasPr) /\ decided' = Len(events')
        /\ UNCHANGED <<hasPr, alive, at, shown, asked, rereads, stoppedOn>>
    BY <1>9 DEF Cli!Aborted, RunStatuses
  <2>2. advancing' \in BOOLEAN
    BY <1>1, <2>1
  <2>3. Published({"status"})
    BY <1>1, <1>9, <2>1, PublishesOne DEF Cli!Aborted, EventTypes
  <2> QED BY <1>1, <2>1, <2>2, <2>3, TheServerSpeaks
<1> QED BY <1>2, <1>3, <1>4, <1>5, <1>6, <1>7, <1>8, <1>9

\* The process dies and starts again: whoever followed it does no longer.
LEMMA TheServerDies ==
    ASSUME FollowingInv, Cli!Dies \/ Cli!Resumes
    PROVE  FollowingInv'
<1>1. CASE Cli!Dies
  <2>1. /\ alive' = FALSE /\ advancing' = FALSE /\ sent' = <<>> /\ asked' = 0 /\ rereads' = {}
        /\ at' \notin {"opening", "following"} /\ (at' \in {"last", "ended"} => at' = at)
        /\ UNCHANGED <<runStatus, hasPr, events, shown, decided, stoppedOn>>
    <3>1. at' = (CASE at = "following" -> "cut" [] at = "opening" -> "failed" [] OTHER -> at)
      BY <1>1 DEF Cli!Dies
    <3>2. at' \notin {"opening", "following"} /\ (at' \in {"last", "ended"} => at' = at)
      <4>1. CASE at = "following"
        BY <3>1, <4>1
      <4>2. CASE at = "opening"
        BY <3>1, <4>2
      <4>3. CASE at # "following" /\ at # "opening"
        BY <3>1, <4>3
      <4> QED BY <4>1, <4>2, <4>3
    <3> QED BY <1>1, <3>2 DEF Cli!Dies
  <2>2. FollowingTyped'
    <3>1. alive' \in BOOLEAN /\ advancing' \in BOOLEAN /\ \A read \in rereads' : FALSE
      BY <2>1
    <3>3. sent' \in Seq(Events) /\ asked' \in Nat
      BY <2>1
    <3>2. /\ runStatus' \in RunStatuses /\ hasPr' \in BOOLEAN /\ events' \in Seq(Events)
          /\ decided' \in Nat /\ decided' <= Len(events')
          /\ stoppedOn' \in Nat /\ stoppedOn' <= Len(events')
          /\ shown'.lastSeq \in Nat /\ shown'.lastSeq <= Len(events')
      BY <2>1 DEF FollowingInv, FollowingTyped
    <3> QED BY <3>1, <3>2, <3>3 DEF FollowingTyped
  <2>3. EventsFit' /\ StopsFit' /\ EndIsHeard'
    BY <2>1 DEF FollowingInv, EventsFit, StopsFit, EndIsHeard
  <2> QED BY <2>2, <2>3 DEF FollowingInv
<1>2. CASE Cli!Resumes
  <2>1. /\ ~alive /\ alive' = TRUE /\ advancing' = (runStatus \in {"building", "reviewing"})
        /\ events' = Append(events, [type |-> "start", status |-> runStatus, seq |-> Len(events) + 1])
        /\ decided' = Len(events')
        /\ UNCHANGED <<runStatus, hasPr, at, shown, asked, rereads, stoppedOn, sent>>
    BY <1>2 DEF Cli!Resumes, Cli!terminal
  <2> DEFINE start == [type |-> "start", status |-> runStatus, seq |-> Len(events) + 1]
             new == <<start>>
  <2>2. at \notin {"opening", "following"}
    BY <2>1 DEF FollowingInv, EndIsHeard
  <2>3. events \in Seq(Events) /\ Len(events) \in Nat /\ runStatus \in RunStatuses
    BY DEF FollowingInv, FollowingTyped
  <2>4. start \in Events /\ start.seq = Len(events) + 1 /\ start.status = runStatus /\ start.type = "start"
    BY <2>3 DEF Events, EventTypes
  <2>5. events' = Append(events, start)
    BY <2>1
  <2> HIDE DEF start
  <2>6. /\ new \in Seq(Events) /\ Len(new) > 0 /\ DOMAIN new = {1} /\ new[1] = start
        /\ events' = events \o new
    BY <2>3, <2>4, <2>5
  <2> HIDE DEF new
  <2>7. \A i \in DOMAIN new : new[i].seq = Len(events) + i
                              /\ new[i].status = runStatus' /\ new[i].type \in {"start"}
    BY <2>1, <2>4, <2>6
  <2>8. FollowingTyped /\ sent' = (IF at = "following" THEN sent \o new ELSE sent)
    BY <2>1, <2>2 DEF FollowingInv
  <2>9. Published({"start"})
    <3>1. runStatus' \in RunStatuses /\ Len(new) > 0 /\ new \in Seq(Events) /\ events' = events \o new
      BY <2>1, <2>3, <2>6
    <3> DEFINE types == {"start"}
    <3>2. \A i \in DOMAIN new : new[i].seq = Len(events) + i
                                /\ new[i].status = runStatus' /\ new[i].type \in types
      BY <2>7
    <3> HIDE DEF types
    <3>3. Published(types)
      BY <2>8, <3>1, <3>2, Publishing
    <3> QED BY <3>3 DEF types
  <2>10. "start" \in EventTypes /\ hasPr \in BOOLEAN
    BY DEF EventTypes, FollowingInv, FollowingTyped
  <2>11. alive' \in BOOLEAN /\ advancing' \in BOOLEAN
    BY <2>1
  <2>12. runStatus' \in {"escalated", "awaitingPrGate", "done"} => ~advancing'
    BY <2>1
  <2>13. "delivery" \notin {"start"}
    OBVIOUS
  <2> QED BY <2>1, <2>2, <2>3, <2>9, <2>10, <2>11, <2>12, <2>13, TheServerSpeaks
<1> QED BY <1>1, <1>2

\* A queue without its head.
LEMMA WhatIsLeft ==
    ASSUME NEW S, NEW s \in Seq(S), s # <<>>
    PROVE  /\ 1 \in DOMAIN s /\ Head(s) = s[1] /\ Head(s) \in S /\ Tail(s) \in Seq(S)
           /\ \A j \in DOMAIN Tail(s) : j + 1 \in DOMAIN s /\ Tail(s)[j] = s[j + 1]
           /\ \A j \in DOMAIN s : j = 1 \/ (j - 1 \in DOMAIN Tail(s) /\ Tail(s)[j - 1] = s[j])
<1>1. /\ 1 \in DOMAIN s /\ Head(s) = s[1] /\ Head(s) \in S /\ Tail(s) \in Seq(S)
      /\ Len(s) \in Nat /\ DOMAIN s = 1..Len(s) /\ DOMAIN Tail(s) = 1..(Len(s) - 1)
  <2>1. 1 \in DOMAIN s /\ Head(s) = s[1] /\ Head(s) \in S /\ Len(s) \in Nat /\ DOMAIN s = 1..Len(s)
    OBVIOUS
  <2>2. Tail(s) \in Seq(S) /\ Len(Tail(s)) = Len(s) - 1
    OBVIOUS
  <2> QED BY <2>1, <2>2
<1>2. \A j \in DOMAIN Tail(s) : j + 1 \in DOMAIN s /\ Tail(s)[j] = s[j + 1]
  BY <1>1
<1>3. \A j \in DOMAIN s : j = 1 \/ (j - 1 \in DOMAIN Tail(s) /\ Tail(s)[j - 1] = s[j])
  <2>1. SUFFICES ASSUME NEW j \in DOMAIN s, j # 1
                 PROVE  j - 1 \in DOMAIN Tail(s) /\ Tail(s)[j - 1] = s[j]
    OBVIOUS
  <2>2. j - 1 \in DOMAIN Tail(s) /\ (j - 1) + 1 = j
    BY <1>1, <2>1
  <2>3. Tail(s)[j - 1] = s[(j - 1) + 1]
    BY <1>2, <2>2
  <2> QED BY <2>2, <2>3
<1> QED BY <1>1, <1>2, <1>3

\* The terminal reads, follows, and stops.
LEMMA TheTerminalActs ==
    ASSUME FollowingInv, Cli!TerminalNext
    PROVE  FollowingInv'
<1>1. /\ UNCHANGED <<runStatus, hasPr, advancing, events, alive, decided>>
  BY DEF Cli!TerminalNext, Cli!StartsFollowing, Cli!Opens, Cli!Receives, Cli!AnswersRead,
         Cli!TakesRead, Cli!ReadsLast, Cli!server
<1>2. /\ Len(events) \in Nat /\ DOMAIN events = 1..Len(events)
      /\ runStatus \in RunStatuses /\ hasPr \in BOOLEAN /\ advancing \in BOOLEAN
      /\ events \in Seq(Events) /\ sent \in Seq(Events)
      /\ shown.lastSeq \in Nat /\ shown.lastSeq <= Len(events)
  BY DEF FollowingInv, FollowingTyped
<1>3. Cli!getRun.lastSeq = Len(events) /\ Cli!getRun.advancing = advancing
  BY DEF Cli!getRun
<1>4. CASE Cli!StartsFollowing
  <2>1. /\ alive /\ shown' = Cli!getRun /\ stoppedOn' = Len(events)
        /\ at' = (IF Cli!settled(Cli!getRun) \/ ~advancing THEN "ended" ELSE "opening")
        /\ UNCHANGED <<asked, rereads, sent>>
    BY <1>4 DEF Cli!StartsFollowing
  <2>2. FollowingTyped' /\ EventsFit'
    BY <1>1, <1>2, <1>3, <2>1 DEF FollowingInv, FollowingTyped, EventsFit
  <2>3. at' = "ended" => ~advancing \/ hasPr
    BY <2>1
    DEF Cli!settled, Cli!getRun, Cli!RESTING, Cli!OWES_DELIVERY, FollowingInv, StopsFit
  <2>4. StopsFit'
    BY <1>1, <2>1, <2>3 DEF FollowingInv, StopsFit
  <2>5. EndIsHeard'
    BY <1>1, <2>1 DEF EndIsHeard, Unmoved
  <2> QED BY <2>2, <2>4, <2>5 DEF FollowingInv
<1>5. CASE Cli!Opens
  <2>1. /\ alive /\ at = "opening" /\ at' = "following"
        /\ sent' = SubSeq(events, shown.lastSeq + 1, Len(events))
        /\ UNCHANGED <<shown, asked, rereads, stoppedOn>>
    BY <1>5 DEF Cli!Opens
  <2>2. /\ sent' \in Seq(Events) /\ Len(sent') = Len(events) - shown.lastSeq
        /\ DOMAIN sent' = 1..(Len(events) - shown.lastSeq)
        /\ \A j \in DOMAIN sent' : j + shown.lastSeq \in DOMAIN events
                                   /\ sent'[j] = events[j + shown.lastSeq]
    <3> DEFINE m == shown.lastSeq + 1
    <3>1. m \in 1..Len(events) + 1
      BY <1>2
    <3>2. m - 1 = shown.lastSeq /\ (Len(events) - m) + 1 = Len(events) - shown.lastSeq
          /\ Len(events) - shown.lastSeq \in Nat
      BY <1>2
    <3>3. sent' = SubSeq(events, m, Len(events))
      BY <2>1
    <3> HIDE DEF m
    <3>4. /\ sent' \in Seq(Events) /\ DOMAIN sent' = 1..((Len(events) - m) + 1)
          /\ \A j \in DOMAIN sent' : j + (m - 1) \in DOMAIN events
                                     /\ sent'[j] = events[j + (m - 1)]
      BY <1>2, <3>1, <3>3, EndOfSequence
    <3>5. /\ DOMAIN sent' = 1..(Len(events) - shown.lastSeq)
          /\ \A j \in DOMAIN sent' : j + shown.lastSeq \in DOMAIN events
                                     /\ sent'[j] = events[j + shown.lastSeq]
      BY <3>2, <3>4
    <3>6. Len(sent') = Len(events) - shown.lastSeq
      BY <3>2, <3>4, <3>5
    <3> QED BY <3>4, <3>5, <3>6
  <2>3. FollowingTyped'
    BY <1>1, <2>1, <2>2 DEF FollowingInv, FollowingTyped
  <2>4. EventsFit'
    BY <1>1, <2>2 DEF FollowingInv, EventsFit
  <2>5. StopsFit'
    BY <1>1, <2>1 DEF FollowingInv, StopsFit
  <2>6. EndIsHeard'
    <3>1. SUFFICES ASSUME Unmoved PROVE \E j \in DOMAIN sent' : Alerts(sent'[j])
      BY <1>1, <2>1 DEF EndIsHeard, Unmoved
    <3>2. PICK i \in DOMAIN events : i > shown.lastSeq /\ Alerts(events[i])
      BY <2>1, <3>1 DEF FollowingInv, EndIsHeard
    <3>3. i - shown.lastSeq \in DOMAIN sent' /\ (i - shown.lastSeq) + shown.lastSeq = i
      BY <1>2, <2>2, <3>2
    <3> QED BY <2>2, <3>2, <3>3
  <2> QED BY <2>3, <2>4, <2>5, <2>6 DEF FollowingInv
<1>6. CASE Cli!Receives
  <2> DEFINE event == Head(sent)
  <2>1. /\ at = "following" /\ sent # <<>> /\ sent' = Tail(sent) /\ UNCHANGED <<shown, rereads>>
        /\ \/ Cli!StopsOn(event) /\ at' = "last" /\ stoppedOn' = event.seq /\ asked' = asked
           \/ /\ ~Cli!StopsOn(event) /\ UNCHANGED <<at, stoppedOn>>
              /\ asked' = IF Cli!Rereads(event) THEN asked + 1 ELSE asked
    BY <1>6 DEF Cli!Receives
  <2>2. /\ 1 \in DOMAIN sent /\ event = sent[1] /\ Tail(sent) \in Seq(Events)
        /\ \A j \in DOMAIN Tail(sent) : j + 1 \in DOMAIN sent /\ Tail(sent)[j] = sent[j + 1]
        /\ \A j \in DOMAIN sent : j = 1 \/ (j - 1 \in DOMAIN Tail(sent) /\ Tail(sent)[j - 1] = sent[j])
    BY <1>2, <2>1, WhatIsLeft
  <2>3. event.seq \in DOMAIN events /\ event = events[event.seq]
    BY <2>2 DEF FollowingInv, EventsFit
  <2> HIDE DEF event
  <2>4. asked \in Nat /\ asked' \in Nat /\ (asked > 0 => asked' > 0)
    BY <2>1 DEF FollowingInv, FollowingTyped
  <2>5. stoppedOn' \in Nat /\ stoppedOn' <= Len(events)
    BY <1>2, <2>1, <2>3 DEF FollowingInv, FollowingTyped
  <2>6. FollowingTyped'
    BY <1>1, <2>1, <2>2, <2>4, <2>5 DEF FollowingInv, FollowingTyped
  <2>7. EventsFit'
    BY <1>1, <2>1, <2>2 DEF FollowingInv, EventsFit
  <2>8. StopsFit'
    BY <1>1, <2>1, <2>3 DEF FollowingInv, StopsFit
  <2>9. EndIsHeard'
    <3>1. CASE at' = "last"
      BY <3>1 DEF EndIsHeard
    <3>2. CASE at' = at /\ Cli!Rereads(event) /\ ~Cli!StopsOn(event)
      <4>1. asked' > 0
        BY <2>1, <2>4, <3>2
      <4> QED BY <1>1, <2>1, <3>2, <4>1 DEF FollowingInv, EndIsHeard
    <3>3. CASE at' = at /\ ~Alerts(event)
      <4>1. (\E j \in DOMAIN sent : Alerts(sent[j])) => \E j \in DOMAIN sent' : Alerts(sent'[j])
        BY <2>1, <2>2, <3>3
      <4> QED BY <1>1, <2>1, <2>4, <3>3, <4>1 DEF FollowingInv, EndIsHeard, Unmoved
    <3> QED BY <2>1, <3>1, <3>2, <3>3 DEF Alerts
  <2> QED BY <2>6, <2>7, <2>8, <2>9 DEF FollowingInv
<1>7. CASE Cli!AnswersRead
  <2>1. /\ asked > 0 /\ asked' = asked - 1 /\ rereads' = rereads \cup {Cli!getRun}
        /\ UNCHANGED <<at, shown, stoppedOn, sent>>
    BY <1>7 DEF Cli!AnswersRead
  <2>2. asked \in Nat /\ asked' \in Nat
    BY <2>1 DEF FollowingInv, FollowingTyped
  <2>3. FollowingTyped' /\ EventsFit'
    BY <1>1, <1>2, <1>3, <2>1, <2>2 DEF FollowingInv, FollowingTyped, EventsFit
  <2>4. StopsFit'
    BY <1>1, <1>3, <2>1 DEF FollowingInv, StopsFit
  <2>5. EndIsHeard'
    BY <1>1, <1>3, <2>1 DEF FollowingInv, EndIsHeard, Unmoved
  <2> QED BY <2>3, <2>4, <2>5 DEF FollowingInv
<1>8. CASE Cli!TakesRead
  <2>1. PICK read \in rereads :
           /\ rereads' = rereads \ {read}
           /\ shown' = (IF read.lastSeq >= shown.lastSeq THEN read ELSE shown)
           /\ IF read.advancing THEN UNCHANGED <<at, stoppedOn>>
                                ELSE at' = "last" /\ stoppedOn' = read.lastSeq
    BY <1>8 DEF Cli!TakesRead
  <2>2. at = "following" /\ UNCHANGED <<asked, sent>>
    BY <1>8 DEF Cli!TakesRead
  <2>3. read.advancing \in BOOLEAN /\ read.lastSeq \in Nat /\ read.lastSeq <= Len(events)
    BY DEF FollowingInv, FollowingTyped
  <2>4. /\ shown'.lastSeq \in Nat /\ shown'.lastSeq <= Len(events)
        /\ stoppedOn' \in Nat /\ stoppedOn' <= Len(events)
    BY <1>2, <2>1, <2>3 DEF FollowingInv, FollowingTyped
  <2>5. FollowingTyped' /\ EventsFit'
    BY <1>1, <2>1, <2>2, <2>4 DEF FollowingInv, FollowingTyped, EventsFit
  <2>6. StopsFit'
    BY <1>1, <2>1, <2>2, <2>3 DEF FollowingInv, StopsFit
  <2>7. EndIsHeard'
    BY <1>1, <2>1, <2>2, <2>3 DEF FollowingInv, EndIsHeard, Unmoved
  <2> QED BY <2>5, <2>6, <2>7 DEF FollowingInv
<1>9. CASE Cli!ReadsLast
  <2>1. /\ at' = (IF alive /\ at = "last" THEN "ended" ELSE "failed")
        /\ shown' = (IF alive THEN Cli!getRun ELSE shown)
        /\ asked' = 0 /\ rereads' = {} /\ sent' = <<>> /\ stoppedOn' = stoppedOn
    BY <1>9 DEF Cli!ReadsLast
  <2>2. shown'.lastSeq \in Nat /\ shown'.lastSeq <= Len(events)
    BY <1>2, <1>3, <2>1
  <2>3. FollowingTyped'
    BY <1>1, <2>1, <2>2 DEF FollowingInv, FollowingTyped
  <2>4. EventsFit' /\ StopsFit' /\ EndIsHeard'
    BY <1>1, <2>1 DEF FollowingInv, EventsFit, StopsFit, EndIsHeard
  <2> QED BY <2>3, <2>4 DEF FollowingInv
<1> QED BY <1>4, <1>5, <1>6, <1>7, <1>8, <1>9 DEF Cli!TerminalNext

\* When the terminal was chosen, only it takes steps.
LEMMA FollowingAlone ==
    ASSUME part = "terminal", [Next]_vars
    PROVE  part' = "terminal" /\ (Cli!Next \/ UNCHANGED terminalState)
BY DEF Next, vars, PageStep, CliStep, DialogsStep, UiDesignAgentStep, SandboxStep, RunDeliveryStep

\* What the terminal knows of the Run fits what the server does, for any number of
\* events, reads and deaths.
THEOREM FollowingInductive == Spec => [](part = "terminal" => FollowingInv)
<1>1. Init => (part = "terminal" => FollowingInv)
  <2>1. SUFFICES ASSUME Cli!Init PROVE FollowingInv
    BY DEF Init
  <2>2. /\ runStatus \in {"building", "awaitingPrGate"} /\ runStatus \in RunStatuses
        /\ hasPr \in BOOLEAN /\ advancing \in BOOLEAN /\ (runStatus = "awaitingPrGate" => ~advancing)
        /\ events = <<>> /\ sent = <<>> /\ alive = TRUE /\ at = "start" /\ asked = 0
        /\ rereads = {} /\ decided = 0 /\ stoppedOn = 0 /\ shown.lastSeq = 0
    BY <2>1 DEF Cli!Init, Cli!NotShown, RunStatuses
  <2>3. FollowingTyped
    BY <2>2 DEF FollowingTyped
  <2>4. EventsFit /\ StopsFit /\ EndIsHeard
    BY <2>2 DEF EventsFit, StopsFit, EndIsHeard
  <2> QED BY <2>3, <2>4 DEF FollowingInv
<1>2. (part = "terminal" => FollowingInv) /\ [Next]_vars => (part = "terminal" => FollowingInv)'
  <2>1. SUFFICES ASSUME part = "terminal", FollowingInv, [Next]_vars PROVE FollowingInv'
    BY DEF Next, vars, PageStep, CliStep, DialogsStep, UiDesignAgentStep, SandboxStep,
           RunDeliveryStep
  <2>2. CASE Cli!Next
    BY <2>1, <2>2, TheServerActs, TheServerDies, TheTerminalActs DEF Cli!Next, Cli!ServerNext
  <2>3. CASE UNCHANGED terminalState
    BY <2>1, <2>3
    DEF terminalState, FollowingInv, FollowingTyped, EventsFit, StopsFit, EndIsHeard, Unmoved
  <2> QED BY <2>1, <2>2, <2>3, FollowingAlone
<1> QED BY <1>1, <1>2, PTL DEF Spec

\* A terminal is let go once it has read all there will be, and waits for the Draft PR
\* of a failed or aborted Run (follow, reread and OWES_DELIVERY of cli.ts).
THEOREM TerminalFollows == Spec => []TerminalFollowsAsLongAsNeeded
<1>1. (part = "terminal" => FollowingInv) => TerminalFollowsAsLongAsNeeded
  <2>1. SUFFICES ASSUME FollowingInv PROVE Cli!FollowerIsLetGo /\ Cli!DeliveryIsWaitedFor
    BY DEF TerminalFollowsAsLongAsNeeded
  <2>2. Cli!FollowerIsLetGo
    BY <2>1 DEF Cli!FollowerIsLetGo, Cli!Drained, FollowingInv, EndIsHeard, Unmoved
  <2>3. Cli!DeliveryIsWaitedFor
    BY <2>1 DEF Cli!DeliveryIsWaitedFor, Cli!Owes, Cli!getRun, FollowingInv, StopsFit
  <2> QED BY <2>2, <2>3
<1> QED BY <1>1, FollowingInductive, PTL

-----------------------------------------------------------------------------
(* The live page: events are numbered as they are published, what is kept   *)
(* was seen or is on its way, and a read knows every move up to its number. *)

Statuses == {"building", "escalated", "done", "aborted"}
LiveEvents == [seq : Nat, type : {"status", "change", "tokens", "problem"}, status : Statuses]
Details == [status : Statuses, waiting : Nat, brief : BOOLEAN, lastSeq : Nat, at : Nat]

LiveTyped ==
    /\ status \in Statuses /\ question \in Nat
    /\ seq \in Nat /\ moved \in Nat /\ seen \in Nat /\ tokens \in Nat
    /\ kept \in Seq(LiveEvents) /\ wire \in Seq(LiveEvents)
    /\ moves \in SUBSET LiveEvents /\ IsFiniteSet(moves)
    /\ answers \in SUBSET Details
    /\ detail # Page!NotRead => detail \in Details

\* Numbers grow, in what is kept and on the wire, and the page has those it saw.
NumbersFit ==
    /\ moved <= seq /\ seen <= seq /\ tokens <= seen
    /\ \A e \in moves : e.seq <= seen /\ e.type = "status"
    /\ \A i \in DOMAIN kept : kept[i].seq <= seq /\ (kept[i].seq = moved => kept[i].type = "status")
    /\ \A i, j \in DOMAIN kept : i < j => kept[i].seq < kept[j].seq
    /\ \A i \in DOMAIN wire : seen < wire[i].seq /\ wire[i].seq <= seq
    /\ \A i, j \in DOMAIN wire : i < j => wire[i].seq < wire[j].seq
    /\ \A read \in answers : read.at <= read.lastSeq /\ read.lastSeq <= seq
    /\ detail # Page!NotRead => detail.at <= detail.lastSeq /\ detail.lastSeq <= seq

\* The moves that are known somewhere, by their events.
MoveEvents ==
    moves \cup {wire[i] : i \in {j \in DOMAIN wire : wire[j].type = "status"}}
          \cup {kept[i] : i \in {j \in DOMAIN kept : kept[j].type = "status"}}

\* A move that is not the last is older, and the last is to the Run's status.
IsMove(number, to) == number <= moved /\ (number = moved => to = status)

MovesFit ==
    /\ \A e \in MoveEvents : IsMove(e.seq, e.status)
    /\ \A read \in answers : IsMove(read.at, read.status)
    /\ detail # Page!NotRead => IsMove(detail.at, detail.status)

\* A read knows every move up to the number it was read at.
Knows(read, number) == number <= read.lastSeq => number <= read.at

ReadsKnow ==
    \A read \in answers :
        /\ Knows(read, moved)
        /\ \A e \in MoveEvents : Knows(read, e.seq)
        /\ \A other \in answers : Knows(read, other.at)
        /\ detail # Page!NotRead => Knows(read, detail.at)

\* The page knows every move up to its number whose event is left, and those it saw.
PageKnows ==
    detail # Page!NotRead =>
        /\ \A e \in MoveEvents : Knows(detail, e.seq)
        /\ \A e \in moves : e.seq <= detail.at

\* What is kept was seen or is on its way.
StreamFits ==
    /\ \A i \in DOMAIN kept : kept[i].type = "status" /\ kept[i].seq <= seen => kept[i] \in moves
    /\ conn = "open" =>
          \A i \in DOMAIN kept : kept[i].seq > seen => \E j \in DOMAIN wire : wire[j] = kept[i]

LiveInv == LiveTyped /\ NumbersFit /\ MovesFit /\ ReadsKnow /\ PageKnows /\ StreamFits

\* The events on their way, kept and seen are numbered.
LEMMA NumberedEvents ==
    ASSUME LiveInv
    PROVE  /\ \A e \in LiveEvents : e.seq \in Nat
           /\ \A read \in Details : read.at \in Nat /\ read.lastSeq \in Nat /\ read.status \in Statuses
           /\ Len(kept) \in Nat /\ DOMAIN kept = 1..Len(kept)
           /\ Len(wire) \in Nat /\ DOMAIN wire = 1..Len(wire)
           /\ \A i \in DOMAIN kept : kept[i] \in LiveEvents /\ kept[i].seq \in Nat
           /\ \A i \in DOMAIN wire : wire[i] \in LiveEvents /\ wire[i].seq \in Nat
           /\ \A e \in MoveEvents : /\ e \in LiveEvents /\ e.seq \in Nat /\ e.seq <= seq
                                    /\ e.type = "status"
           /\ \A e \in moves : e \in MoveEvents /\ e \in LiveEvents /\ e.seq \in Nat
           /\ \A read \in answers : read \in Details
<1>1. \A e \in LiveEvents : e.seq \in Nat
  BY DEF LiveEvents
<1>2. \A read \in Details : read.at \in Nat /\ read.lastSeq \in Nat /\ read.status \in Statuses
  BY DEF Details
<1>3. /\ Len(kept) \in Nat /\ DOMAIN kept = 1..Len(kept)
      /\ Len(wire) \in Nat /\ DOMAIN wire = 1..Len(wire)
      /\ \A i \in DOMAIN kept : kept[i] \in LiveEvents
      /\ \A i \in DOMAIN wire : wire[i] \in LiveEvents
      /\ \A e \in moves : e \in LiveEvents
      /\ \A read \in answers : read \in Details
  BY DEF LiveInv, LiveTyped
<1>4. \A e \in moves : e.seq <= seq /\ e.type = "status"
  <2>1. SUFFICES ASSUME NEW e \in moves PROVE e.seq <= seq /\ e.type = "status"
    OBVIOUS
  <2>2. e.seq <= seen /\ seen <= seq /\ e.type = "status"
    BY <2>1 DEF LiveInv, NumbersFit
  <2>3. e.seq \in Nat /\ seen \in Nat /\ seq \in Nat
    BY <1>1, <1>3, <2>1 DEF LiveInv, LiveTyped
  <2> QED BY <2>2, <2>3
<1>5. \A i \in DOMAIN kept : kept[i].seq <= seq
  BY DEF LiveInv, NumbersFit
<1>6. \A i \in DOMAIN wire : wire[i].seq <= seq
  BY DEF LiveInv, NumbersFit
<1>7. \A e \in MoveEvents : e \in LiveEvents /\ e.seq <= seq /\ e.type = "status"
  BY <1>3, <1>4, <1>5, <1>6 DEF MoveEvents
<1>8. \A e \in moves : e \in MoveEvents
  BY DEF MoveEvents
<1> QED BY <1>1, <1>2, <1>3, <1>7, <1>8

\* What is kept, and what is on its way, after an event is published.
LEMMA EventPublished ==
    ASSUME LiveInv, NEW type \in {"status", "change", "tokens", "problem"}, Page!publish(type),
           status' \in Statuses
    PROVE  \E event \in LiveEvents :
              /\ event = [seq |-> seq + 1, type |-> type, status |-> status']
              /\ kept' \in Seq(LiveEvents) /\ wire' \in Seq(LiveEvents)
              /\ \E gone_ \in Nat : \A i \in DOMAIN kept' :
                    \/ i + gone_ \in DOMAIN kept /\ kept'[i] = kept[i + gone_]
                    \/ i + gone_ = Len(kept) + 1 /\ kept'[i] = event
              /\ conn # "open" => wire' = wire
              /\ conn = "open" => /\ Len(wire) + 1 \in DOMAIN wire' /\ wire'[Len(wire) + 1] = event
                                  /\ \A i \in DOMAIN wire : i \in DOMAIN wire' /\ wire'[i] = wire[i]
              /\ \A i \in DOMAIN wire' : \/ i \in DOMAIN wire /\ wire'[i] = wire[i]
                                         \/ i = Len(wire) + 1 /\ wire'[i] = event
<1> DEFINE event == [seq |-> seq + 1, type |-> type, status |-> status']
           all == Append(kept, event)
           first == IF Len(all) > Kept THEN Len(all) - Kept + 1 ELSE 1
<1>1. /\ kept' = SubSeq(all, first, Len(all))
      /\ wire' = IF conn = "open" THEN Append(wire, event) ELSE wire
  <2>1. seq' = seq + 1
    BY DEF Page!publish
  <2> QED BY <2>1 DEF Page!publish
<1>2. seq \in Nat /\ kept \in Seq(LiveEvents) /\ wire \in Seq(LiveEvents)
  BY DEF LiveInv, LiveTyped
<1>3. event \in LiveEvents
  BY <1>2 DEF LiveEvents
<1>4. event = [seq |-> seq + 1, type |-> type, status |-> status']
  OBVIOUS
<1> HIDE DEF event
<1>5. /\ all \in Seq(LiveEvents) /\ Len(all) = Len(kept) + 1 /\ Len(kept) \in Nat
      /\ \A i \in DOMAIN all : \/ i \in DOMAIN kept /\ all[i] = kept[i]
                               \/ i = Len(kept) + 1 /\ all[i] = event
  BY <1>2, <1>3
<1> HIDE DEF all
<1>6. first \in 1..Len(all) + 1
  BY <1>5, ConstantsAssumption
<1> HIDE DEF first
<1>7. /\ kept' \in Seq(LiveEvents)
      /\ \A i \in DOMAIN kept' : i + (first - 1) \in DOMAIN all /\ kept'[i] = all[i + (first - 1)]
  BY <1>1, <1>5, <1>6, EndOfSequence
<1>8. first - 1 \in Nat
  BY <1>5, <1>6
<1>9. \E gone_ \in Nat : \A i \in DOMAIN kept' :
                    \/ i + gone_ \in DOMAIN kept /\ kept'[i] = kept[i + gone_]
                    \/ i + gone_ = Len(kept) + 1 /\ kept'[i] = event
  BY <1>5, <1>7, <1>8
<1>10. /\ wire' \in Seq(LiveEvents)
       /\ conn # "open" => wire' = wire
       /\ conn = "open" => /\ Len(wire) + 1 \in DOMAIN wire' /\ wire'[Len(wire) + 1] = event
                           /\ \A i \in DOMAIN wire : i \in DOMAIN wire' /\ wire'[i] = wire[i]
       /\ \A i \in DOMAIN wire' : \/ i \in DOMAIN wire /\ wire'[i] = wire[i]
                                  \/ i = Len(wire) + 1 /\ wire'[i] = event
  <2>1. CASE conn # "open"
    BY <1>1, <1>2, <2>1
  <2>2. CASE conn = "open"
    <3>1. wire' = Append(wire, event)
      BY <1>1, <2>2
    <3> QED BY <1>2, <1>3, <2>2, <3>1
  <2> QED BY <2>1, <2>2
<1> QED BY <1>3, <1>4, <1>7, <1>9, <1>10

\* An event is published: it is newer than all that is known.
LEMMA Announcing ==
    ASSUME LiveInv, NEW type \in {"status", "change", "tokens", "problem"}, Page!publish(type),
           status' \in Statuses, type # "status" => status' = status, question' \in Nat,
           UNCHANGED <<detail, moves, tokens, answers>>
    PROVE  LiveInv'
<1>1. PICK event \in LiveEvents :
         /\ event = [seq |-> seq + 1, type |-> type, status |-> status']
         /\ kept' \in Seq(LiveEvents) /\ wire' \in Seq(LiveEvents)
         /\ \E gone_ \in Nat : \A i \in DOMAIN kept' :
               \/ i + gone_ \in DOMAIN kept /\ kept'[i] = kept[i + gone_]
               \/ i + gone_ = Len(kept) + 1 /\ kept'[i] = event
         /\ conn # "open" => wire' = wire
         /\ conn = "open" => /\ Len(wire) + 1 \in DOMAIN wire' /\ wire'[Len(wire) + 1] = event
                             /\ \A i \in DOMAIN wire : i \in DOMAIN wire' /\ wire'[i] = wire[i]
         /\ \A i \in DOMAIN wire' : \/ i \in DOMAIN wire /\ wire'[i] = wire[i]
                                    \/ i = Len(wire) + 1 /\ wire'[i] = event
  BY EventPublished
<1>2. PICK off \in Nat : \A i \in DOMAIN kept' :
         \/ i + off \in DOMAIN kept /\ kept'[i] = kept[i + off]
         \/ i + off = Len(kept) + 1 /\ kept'[i] = event
  BY <1>1
<1>3. event.seq = seq + 1 /\ event.type = type /\ event.status = status'
  BY <1>1
<1>4. /\ seq' = seq + 1 /\ moved' = (IF type = "status" THEN seq + 1 ELSE moved)
      /\ UNCHANGED <<conn, seen>>
  BY DEF Page!publish
<1>5. /\ seq \in Nat /\ moved \in Nat /\ seen \in Nat /\ tokens \in Nat
      /\ moved <= seq /\ seen <= seq /\ tokens <= seen
  BY DEF LiveInv, LiveTyped, NumbersFit
<1>6. /\ seq' \in Nat /\ moved' \in Nat /\ moved' <= seq' /\ moved <= moved' /\ seq <= seq' /\ seen <= seq'
      /\ \A n \in Nat : n <= seq => n <= seq' /\ n # seq + 1 /\ ~(seq + 1 <= n)
  BY <1>4, <1>5
<1>7. LiveTyped'
  BY <1>1, <1>4, <1>6 DEF LiveInv, LiveTyped
<1>8. \A i \in DOMAIN kept' : \/ \E k \in DOMAIN kept : kept'[i] = kept[k]
                              \/ kept'[i] = event
  BY <1>2
<1>9. \A i \in DOMAIN kept :
         /\ kept[i] \in LiveEvents /\ kept[i].seq \in Nat /\ kept[i].seq <= seq
         /\ kept[i].seq = moved => kept[i].type = "status"
  BY NumberedEvents DEF LiveInv, NumbersFit
<1>10. \A i \in DOMAIN kept' : kept'[i].seq <= seq' /\ (kept'[i].seq = moved' => kept'[i].type = "status")
  <2>1. SUFFICES ASSUME NEW i \in DOMAIN kept'
                 PROVE  kept'[i].seq <= seq' /\ (kept'[i].seq = moved' => kept'[i].type = "status")
    OBVIOUS
  <2>2. CASE kept'[i] = event
    <3>1. seq + 1 # moved
      BY <1>5
    <3> QED BY <1>3, <1>4, <1>5, <2>2, <3>1
  <2>3. ASSUME NEW k \in DOMAIN kept, kept'[i] = kept[k]
        PROVE  kept'[i].seq <= seq' /\ (kept'[i].seq = moved' => kept'[i].type = "status")
    <3>1. kept[k].seq <= seq' /\ kept[k].seq # seq + 1
      BY <1>6, <1>9
    <3> QED BY <1>4, <1>9, <2>3, <3>1
  <2> QED BY <1>8, <2>2, <2>3
<1>11. \A i, j \in DOMAIN kept' : i < j => kept'[i].seq < kept'[j].seq
  <2>1. SUFFICES ASSUME NEW i \in DOMAIN kept', NEW j \in DOMAIN kept', i < j
                 PROVE  kept'[i].seq < kept'[j].seq
    OBVIOUS
  <2>2. i \in Nat /\ j \in Nat /\ Len(kept) \in Nat /\ DOMAIN kept = 1..Len(kept)
    BY <1>1, NumberedEvents
  <2>3. i + off \in DOMAIN kept /\ kept'[i] = kept[i + off] /\ i + off < j + off
    <3>1. j + off <= Len(kept) + 1
      BY <1>2, <2>2
    <3>2. i + off # Len(kept) + 1 /\ i + off < j + off
      BY <2>1, <2>2, <3>1
    <3> QED BY <1>2, <3>2
  <2>4. CASE j + off \in DOMAIN kept /\ kept'[j] = kept[j + off]
    BY <2>3, <2>4 DEF LiveInv, NumbersFit
  <2>5. CASE kept'[j] = event
    <3>1. kept[i + off].seq < seq + 1
      BY <1>5, <1>9, <2>3
    <3> QED BY <1>3, <2>3, <2>5, <3>1
  <2> QED BY <1>2, <2>4, <2>5
<1>12. \A i \in DOMAIN wire :
          wire[i] \in LiveEvents /\ wire[i].seq \in Nat /\ seen < wire[i].seq /\ wire[i].seq <= seq
  BY NumberedEvents DEF LiveInv, NumbersFit
<1>13. \A i \in DOMAIN wire' : seen < wire'[i].seq /\ wire'[i].seq <= seq'
  <2>1. seen < seq + 1
    BY <1>5
  <2> QED BY <1>1, <1>3, <1>4, <1>6, <1>12, <2>1
<1>14. \A i, j \in DOMAIN wire' : i < j => wire'[i].seq < wire'[j].seq
  <2>1. SUFFICES ASSUME NEW i \in DOMAIN wire', NEW j \in DOMAIN wire', i < j
                 PROVE  wire'[i].seq < wire'[j].seq
    OBVIOUS
  <2>2. Len(wire) \in Nat /\ DOMAIN wire = 1..Len(wire)
    BY NumberedEvents
  <2>3. i \in DOMAIN wire /\ wire'[i] = wire[i]
    BY <1>1, <2>1, <2>2
  <2>4. CASE j \in DOMAIN wire /\ wire'[j] = wire[j]
    BY <2>1, <2>3, <2>4 DEF LiveInv, NumbersFit
  <2>5. CASE wire'[j] = event
    <3>1. wire[i].seq < seq + 1
      BY <1>5, <1>12, <2>3
    <3> QED BY <1>3, <2>3, <2>5, <3>1
  <2> QED BY <1>1, <2>4, <2>5
<1>15. \A read \in answers : /\ read.at \in Nat /\ read.lastSeq \in Nat /\ read.at <= read.lastSeq
                             /\ read.lastSeq <= seq
  BY NumberedEvents DEF LiveInv, NumbersFit
<1>16. detail # Page!NotRead => /\ detail.at \in Nat /\ detail.lastSeq \in Nat
                                /\ detail.at <= detail.lastSeq /\ detail.lastSeq <= seq
  BY NumberedEvents DEF LiveInv, LiveTyped, NumbersFit
<1>17. NumbersFit'
  <2>1. \A read \in answers' : read.at <= read.lastSeq /\ read.lastSeq <= seq'
    BY <1>6, <1>15
  <2>2. detail' # Page!NotRead => detail'.at <= detail'.lastSeq /\ detail'.lastSeq <= seq'
    BY <1>6, <1>16
  <2>3. /\ moved' <= seq' /\ seen' <= seq' /\ tokens' <= seen'
        /\ \A e \in moves' : e.seq <= seen' /\ e.type = "status"
    BY <1>4, <1>5, <1>6 DEF LiveInv, NumbersFit
  <2> QED BY <1>4, <1>10, <1>11, <1>13, <1>14, <2>1, <2>2, <2>3 DEF NumbersFit
<1>18. \A e \in MoveEvents' : e \in MoveEvents \/ (e = event /\ type = "status")
  BY <1>1, <1>3, <1>8 DEF MoveEvents
<1>19. \A n \in Nat : \A to : IsMove(n, to) => n <= moved' /\ (n = moved' => to = status')
  <2>1. SUFFICES ASSUME NEW n \in Nat, NEW to, IsMove(n, to)
                 PROVE  n <= moved' /\ (n = moved' => to = status')
    OBVIOUS
  <2>2. n <= moved /\ (n = moved => to = status)
    BY <2>1 DEF IsMove
  <2>3. n <= moved' /\ n # seq + 1
    BY <1>5, <1>6, <2>2
  <2> QED BY <1>4, <2>2, <2>3
<1>20. MovesFit'
  <2>1. \A e \in MoveEvents' : e.seq <= moved' /\ (e.seq = moved' => e.status = status')
    <3>1. SUFFICES ASSUME NEW e \in MoveEvents'
                   PROVE  e.seq <= moved' /\ (e.seq = moved' => e.status = status')
      OBVIOUS
    <3>2. CASE e \in MoveEvents
      BY <1>19, <3>2, NumberedEvents DEF LiveInv, MovesFit
    <3>3. CASE e = event /\ type = "status"
      BY <1>3, <1>4, <1>5, <3>3
    <3> QED BY <1>18, <3>2, <3>3
  <2>2. \A read \in answers' : read.at <= moved' /\ (read.at = moved' => read.status = status')
    BY <1>15, <1>19 DEF LiveInv, MovesFit
  <2>3. detail' # Page!NotRead => detail'.at <= moved' /\ (detail'.at = moved' => detail'.status = status')
    <3>1. detail # Page!NotRead => detail.at \in Nat /\ IsMove(detail.at, detail.status)
      BY <1>16 DEF LiveInv, MovesFit
    <3> QED BY <1>19, <3>1
  <2> QED BY <2>1, <2>2, <2>3 DEF MovesFit, IsMove
<1>21. ReadsKnow'
  <2>1. SUFFICES ASSUME NEW read \in answers
                 PROVE  /\ Knows(read, moved') /\ \A e \in MoveEvents' : Knows(read, e.seq)
                        /\ \A other \in answers : Knows(read, other.at)
                        /\ detail # Page!NotRead => Knows(read, detail.at)
    BY DEF ReadsKnow, Knows
  <2>2. Knows(read, seq + 1)
    BY <1>6, <1>15 DEF Knows
  <2>3. Knows(read, moved')
    BY <1>4, <2>2 DEF LiveInv, ReadsKnow
  <2> QED BY <1>3, <1>18, <2>2, <2>3 DEF LiveInv, ReadsKnow
<1>22. PageKnows'
  <2>1. SUFFICES ASSUME detail # Page!NotRead
                 PROVE  /\ \A e \in MoveEvents' : Knows(detail, e.seq)
                        /\ \A e \in moves : e.seq <= detail.at
    BY DEF PageKnows, Knows
  <2>2. Knows(detail, seq + 1)
    BY <1>6, <1>16, <2>1 DEF Knows
  <2> QED BY <1>3, <1>18, <2>1, <2>2 DEF LiveInv, PageKnows
<1>23. StreamFits'
  <2>1. ASSUME NEW i \in DOMAIN kept', kept'[i].type = "status", kept'[i].seq <= seen
        PROVE  kept'[i] \in moves
    <3>1. kept'[i] # event
      BY <1>3, <1>5, <2>1
    <3> QED BY <1>8, <2>1, <3>1 DEF LiveInv, StreamFits
  <2>2. ASSUME conn = "open", NEW i \in DOMAIN kept', kept'[i].seq > seen
        PROVE  \E j \in DOMAIN wire' : wire'[j] = kept'[i]
    <3>1. CASE kept'[i] = event
      BY <1>1, <2>2, <3>1
    <3>2. ASSUME NEW k \in DOMAIN kept, kept'[i] = kept[k]
          PROVE  \E j \in DOMAIN wire' : wire'[j] = kept'[i]
      <4>1. PICK j \in DOMAIN wire : wire[j] = kept[k]
        BY <2>2, <3>2 DEF LiveInv, StreamFits
      <4> QED BY <1>1, <2>2, <3>2, <4>1
    <3> QED BY <1>8, <3>1, <3>2
  <2> QED BY <1>4, <2>1, <2>2 DEF StreamFits
<1> QED BY <1>7, <1>17, <1>20, <1>21, <1>22, <1>23 DEF LiveInv

\* Nothing new is known: the stream is as it was or gone, numbers may be skipped.
LEMMA NothingNewIsKnown ==
    ASSUME LiveInv, UNCHANGED <<status, question, moved, seen, detail, moves, tokens, answers>>,
           seq' \in Nat, seq' >= seq, kept' = kept \/ kept' = <<>>,
           (wire' = wire /\ conn' = conn) \/ (wire' = <<>> /\ conn' # "open")
    PROVE  LiveInv'
<1>1. /\ \A i \in DOMAIN kept' : i \in DOMAIN kept /\ kept'[i] = kept[i]
      /\ \A i \in DOMAIN wire' : i \in DOMAIN wire /\ wire'[i] = wire[i]
      /\ conn' = "open" => conn = "open" /\ wire' = wire
  <2>1. \A i : i \notin DOMAIN <<>>
    OBVIOUS
  <2>2. \A i \in DOMAIN kept' : i \in DOMAIN kept /\ kept'[i] = kept[i]
    <3>1. CASE kept' = kept
      BY <3>1
    <3>2. CASE kept' = <<>>
      BY <2>1, <3>2
    <3> QED BY <3>1, <3>2
  <2>3. \A i \in DOMAIN wire' : i \in DOMAIN wire /\ wire'[i] = wire[i]
    <3>1. CASE wire' = wire
      BY <3>1
    <3>2. CASE wire' = <<>>
      BY <2>1, <3>2
    <3> QED BY <3>1, <3>2
  <2>4. conn' = "open" => conn = "open" /\ wire' = wire
    OBVIOUS
  <2> QED BY <2>2, <2>3, <2>4
<1>2. LiveTyped'
  <2>1. kept \in Seq(LiveEvents) /\ wire \in Seq(LiveEvents)
    BY DEF LiveInv, LiveTyped
  <2>2. <<>> \in Seq(LiveEvents)
    OBVIOUS
  <2>3. kept' \in Seq(LiveEvents)
    BY <2>1, <2>2
  <2>4. wire' \in Seq(LiveEvents)
    BY <2>1, <2>2
  <2> QED BY <2>3, <2>4 DEF LiveInv, LiveTyped
<1>3. \A n \in Nat : n <= seq => n <= seq'
  BY DEF LiveInv, LiveTyped
<1>4. NumbersFit'
  <2>1. \A i \in DOMAIN kept' : kept'[i].seq <= seq' /\ (kept'[i].seq = moved' => kept'[i].type = "status")
    BY <1>1, <1>3, NumberedEvents DEF LiveInv, NumbersFit
  <2>2. \A i, j \in DOMAIN kept' : i < j => kept'[i].seq < kept'[j].seq
    BY <1>1 DEF LiveInv, NumbersFit
  <2>3. \A i \in DOMAIN wire' : seen' < wire'[i].seq /\ wire'[i].seq <= seq'
    BY <1>1, <1>3, NumberedEvents DEF LiveInv, NumbersFit
  <2>4. \A i, j \in DOMAIN wire' : i < j => wire'[i].seq < wire'[j].seq
    BY <1>1 DEF LiveInv, NumbersFit
  <2>5. \A read \in answers' : read.at <= read.lastSeq /\ read.lastSeq <= seq'
    BY <1>3, NumberedEvents DEF LiveInv, NumbersFit
  <2>6. detail' # Page!NotRead => detail'.at <= detail'.lastSeq /\ detail'.lastSeq <= seq'
    <3>1. detail # Page!NotRead => detail.lastSeq \in Nat /\ detail.lastSeq <= seq /\ detail.at <= detail.lastSeq
      BY NumberedEvents DEF LiveInv, LiveTyped, NumbersFit
    <3> QED BY <1>3, <3>1
  <2>7. /\ moved' <= seq' /\ seen' <= seq' /\ tokens' <= seen'
        /\ \A e \in moves' : e.seq <= seen' /\ e.type = "status"
    BY <1>3 DEF LiveInv, LiveTyped, NumbersFit
  <2> QED BY <2>1, <2>2, <2>3, <2>4, <2>5, <2>6, <2>7 DEF NumbersFit
<1>5. \A e \in MoveEvents' : e \in MoveEvents
  BY <1>1 DEF MoveEvents
<1>6. MovesFit' /\ ReadsKnow' /\ PageKnows'
  BY <1>5 DEF LiveInv, MovesFit, IsMove, ReadsKnow, PageKnows, Knows
<1>7. StreamFits'
  <2>1. \A i \in DOMAIN kept' : kept'[i].type = "status" /\ kept'[i].seq <= seen' => kept'[i] \in moves'
    BY <1>1 DEF LiveInv, StreamFits
  <2>2. conn' = "open" =>
          \A i \in DOMAIN kept' : kept'[i].seq > seen' => \E j \in DOMAIN wire' : wire'[j] = kept'[i]
    BY <1>1 DEF LiveInv, StreamFits
  <2> QED BY <2>1, <2>2 DEF StreamFits
<1> QED BY <1>2, <1>4, <1>6, <1>7 DEF LiveInv

\* Every step of the server keeps it.
LEMMA ServerKeepsLive ==
    ASSUME LiveInv, Page!ServerNext \/ Page!resolveEscalation \/ Page!abortRun
    PROVE  LiveInv'
<1>1. status \in Statuses /\ question \in Nat /\ question + 1 \in Nat /\ seq \in Nat
  BY DEF LiveInv, LiveTyped
<1>2. CASE Page!LookToWork
  BY <1>1, <1>2, Announcing DEF Page!LookToWork, Page!page, Page!reads
<1>3. CASE Page!LookToBrief
  BY <1>1, <1>3, NothingNewIsKnown DEF Page!LookToBrief, Page!page, Page!reads, Page!log, Page!stream,
    Page!database
<1>4. CASE Page!LookAndReturn
  BY <1>1, <1>4, NothingNewIsKnown DEF Page!LookAndReturn, Page!page, Page!reads, Page!log, Page!stream
<1>5. CASE Page!Spend
  BY <1>1, <1>5, Announcing DEF Page!Spend, Page!page, Page!reads, Page!database
<1>6. CASE Page!StepEnds
  BY <1>1, <1>6, Announcing DEF Page!StepEnds, Page!page, Page!reads
<1>7. CASE Page!WorkMoves
  <2>1. status' \in Statuses /\ question' \in Nat
    BY <1>1, <1>7 DEF Page!WorkMoves, Statuses
  <2> QED BY <1>7, <2>1, Announcing DEF Page!WorkMoves, Page!page, Page!reads
<1>8. CASE Page!WorkStops
  BY <1>1, <1>8, NothingNewIsKnown DEF Page!WorkStops, Page!page, Page!reads, Page!log, Page!stream,
    Page!database
<1>9. CASE Page!BriefWritten
  BY <1>1, <1>9, NothingNewIsKnown DEF Page!BriefWritten, Page!page, Page!reads, Page!log, Page!stream
<1>10. CASE Page!LoopThrows
  BY <1>1, <1>10, Announcing DEF Page!LoopThrows, Page!page, Page!reads, Page!database
<1>11. CASE Page!Crash
  BY <1>1, <1>11, NothingNewIsKnown DEF Page!Crash, Page!page, Page!reads, Page!database
<1>12. CASE Page!Restart
  BY <1>1, <1>12, NothingNewIsKnown
  DEF Page!Restart, Page!Starts, Page!page, Page!reads, Page!stream, Page!database
<1>15. CASE Page!CannotResume
  BY <1>1, <1>15, NothingNewIsKnown
  DEF Page!CannotResume, Page!Starts, Page!page, Page!reads, Page!stream, Page!database
<1>13. CASE Page!resolveEscalation
  <2>1. status' \in Statuses
    BY <1>13 DEF Page!resolveEscalation, Statuses
  <2> QED BY <1>1, <1>13, <2>1, Announcing DEF Page!resolveEscalation, Page!page
<1>14. CASE Page!abortRun
  <2>1. status' \in Statuses
    BY <1>14 DEF Page!abortRun, Statuses
  <2> QED BY <1>1, <1>14, <2>1, Announcing DEF Page!abortRun, Page!page
<1> QED BY <1>2, <1>3, <1>4, <1>5, <1>6, <1>7, <1>8, <1>9, <1>10, <1>11, <1>12, <1>13, <1>14,
          <1>15
        DEF Page!ServerNext

\* What follow gives a client: the kept events with greater numbers, in order.
LEMMA MissedEvents ==
    ASSUME LiveInv
    PROVE  /\ Page!Missed(seen) \in Seq(LiveEvents)
           /\ \E off \in Nat : \A i \in DOMAIN Page!Missed(seen) :
                 /\ i + off \in DOMAIN kept /\ Page!Missed(seen)[i] = kept[i + off]
                 /\ kept[i + off].seq > seen
           /\ \A k \in DOMAIN kept : kept[k].seq > seen =>
                 \E i \in DOMAIN Page!Missed(seen) : Page!Missed(seen)[i] = kept[k]
<1> DEFINE Starts(i) == \A j \in DOMAIN kept : kept[j].seq > seen <=> j >= i
           first == CHOOSE i \in 1..Len(kept) + 1 : Starts(i)
<1>1. /\ seen \in Nat /\ Len(kept) \in Nat /\ DOMAIN kept = 1..Len(kept)
      /\ kept \in Seq(LiveEvents) /\ \A i \in DOMAIN kept : kept[i].seq \in Nat
      /\ \A i, j \in DOMAIN kept : i < j => kept[i].seq < kept[j].seq
  BY NumberedEvents DEF LiveInv, LiveTyped, NumbersFit
<1>2. \E i \in 1..Len(kept) + 1 : Starts(i)
  <2> DEFINE T == {j \in DOMAIN kept : kept[j].seq > seen}
  <2>1. CASE T = {}
    <3>1. \A j \in DOMAIN kept : ~(kept[j].seq > seen) /\ ~(j >= Len(kept) + 1)
      BY <1>1, <2>1
    <3>2. Len(kept) + 1 \in 1..Len(kept) + 1
      BY <1>1
    <3> QED BY <3>1, <3>2
  <2>2. CASE T # {}
    <3>1. T \in SUBSET Nat
      BY <1>1
    <3>2. PICK m \in T : \A t \in T : m <= t
      BY <2>2, <3>1, LeastNatural
    <3>3. m \in DOMAIN kept /\ kept[m].seq > seen /\ m \in 1..Len(kept) + 1
      BY <1>1, <3>2
    <3>4. ASSUME NEW j \in DOMAIN kept PROVE kept[j].seq > seen <=> j >= m
      <4>1. ASSUME kept[j].seq > seen PROVE j >= m
        BY <1>1, <3>2, <3>3, <4>1
      <4>2. ASSUME j >= m PROVE kept[j].seq > seen
        <5>1. j = m \/ (m < j /\ kept[m].seq < kept[j].seq)
          BY <1>1, <3>3, <4>2
        <5> QED BY <1>1, <3>3, <5>1
      <4> QED BY <4>1, <4>2
    <3> QED BY <3>3, <3>4
  <2> QED BY <2>1, <2>2
<1>3. first \in 1..Len(kept) + 1 /\ Starts(first)
  <2> HIDE DEF Starts
  <2> QED BY <1>2
<1>4. Page!Missed(seen) = SubSeq(kept, first, Len(kept))
  BY DEF Page!Missed
<1>5. \A j \in DOMAIN kept : kept[j].seq > seen <=> j >= first
  BY <1>3
<1> HIDE DEF first
<1> DEFINE missed == SubSeq(kept, first, Len(kept))
<1>6. /\ missed \in Seq(LiveEvents)
      /\ \A i \in DOMAIN missed : i + (first - 1) \in DOMAIN kept /\ missed[i] = kept[i + (first - 1)]
      /\ \A k \in DOMAIN kept : k >= first => \E i \in DOMAIN missed : missed[i] = kept[k]
  BY <1>1, <1>3, EndOfSequence
<1>7. first - 1 \in Nat
  BY <1>1, <1>3
<1> HIDE DEF missed
<1>8. \A i \in DOMAIN missed : kept[i + (first - 1)].seq > seen
  <2>1. SUFFICES ASSUME NEW i \in DOMAIN missed PROVE kept[i + (first - 1)].seq > seen
    OBVIOUS
  <2>2. i \in Nat /\ i >= 1
    BY <1>6, <2>1
  <2>3. i + (first - 1) >= first
    BY <1>1, <1>3, <2>2
  <2> QED BY <1>5, <1>6, <2>1, <2>3
<1>9. \A k \in DOMAIN kept : kept[k].seq > seen => \E i \in DOMAIN missed : missed[i] = kept[k]
  BY <1>5, <1>6
<1>10. Page!Missed(seen) = missed
  BY <1>4 DEF missed
<1>11. \E off \in Nat : \A i \in DOMAIN missed :
         i + off \in DOMAIN kept /\ missed[i] = kept[i + off] /\ kept[i + off].seq > seen
  BY <1>6, <1>7, <1>8
<1> QED BY <1>6, <1>9, <1>10, <1>11

\* A move whose number the page has seen is one of its moves, where an event of it is left.
LEMMA SeenMoves ==
    ASSUME LiveInv
    PROVE  \A e \in MoveEvents : e.seq <= seen => e \in moves
<1>1. SUFFICES ASSUME NEW e \in MoveEvents, e.seq <= seen PROVE e \in moves
  OBVIOUS
<1>2. e.seq \in Nat /\ seen \in Nat
  BY <1>1, NumberedEvents DEF LiveInv, LiveTyped
<1>3. ~(seen < e.seq)
  BY <1>1, <1>2
<1>4. \A i \in DOMAIN wire : wire[i] # e
  BY <1>3 DEF LiveInv, NumbersFit
<1>5. ASSUME NEW i \in DOMAIN kept, kept[i].type = "status", e = kept[i] PROVE e \in moves
  BY <1>1, <1>5 DEF LiveInv, StreamFits
<1> QED BY <1>1, <1>4, <1>5 DEF MoveEvents

\* Opening a stream keeps it: what was missed is sent from what was kept.
LEMMA OpenKeepsLive ==
    ASSUME LiveInv, Page!Open
    PROVE  LiveInv'
<1>1. /\ wire' = Page!Missed(seen) /\ conn' = "open"
      /\ UNCHANGED <<status, question, seq, kept, moved, seen, detail, moves, tokens, answers>>
  BY DEF Page!Open, Page!database, Page!log, Page!page
<1>2. /\ wire' \in Seq(LiveEvents)
      /\ \E off \in Nat : \A i \in DOMAIN wire' :
            i + off \in DOMAIN kept /\ wire'[i] = kept[i + off] /\ kept[i + off].seq > seen
      /\ \A k \in DOMAIN kept : kept[k].seq > seen => \E i \in DOMAIN wire' : wire'[i] = kept[k]
  BY <1>1, MissedEvents
<1>3. PICK off \in Nat : \A i \in DOMAIN wire' :
         i + off \in DOMAIN kept /\ wire'[i] = kept[i + off] /\ kept[i + off].seq > seen
  BY <1>2
<1>4. LiveTyped'
  BY <1>1, <1>2 DEF LiveInv, LiveTyped
<1>5. NumbersFit'
  <2>1. seen \in Nat /\ \A i \in DOMAIN kept : kept[i].seq \in Nat /\ kept[i].seq <= seq
    BY NumberedEvents DEF LiveInv, LiveTyped, NumbersFit
  <2>2. \A i \in DOMAIN wire' : seen < wire'[i].seq /\ wire'[i].seq <= seq
    BY <1>3, <2>1
  <2>3. \A i, j \in DOMAIN wire' : i < j => wire'[i].seq < wire'[j].seq
    <3>1. SUFFICES ASSUME NEW i \in DOMAIN wire', NEW j \in DOMAIN wire', i < j
                   PROVE  wire'[i].seq < wire'[j].seq
      OBVIOUS
    <3>2. DOMAIN wire' \subseteq Nat
      <4>1. DOMAIN wire' = 1..Len(wire') /\ Len(wire') \in Nat
        BY <1>2
      <4> QED BY <4>1
    <3>3. i + off < j + off
      BY <3>1, <3>2
    <3> QED BY <1>3, <3>1, <3>3 DEF LiveInv, NumbersFit
  <2> QED BY <1>1, <2>2, <2>3 DEF LiveInv, NumbersFit
<1>6. \A e \in MoveEvents' : e \in MoveEvents
  BY <1>1, <1>3 DEF MoveEvents
<1>7. MovesFit' /\ ReadsKnow' /\ PageKnows'
  BY <1>1, <1>6 DEF LiveInv, MovesFit, IsMove, ReadsKnow, PageKnows, Knows
<1>8. StreamFits'
  BY <1>1, <1>2 DEF LiveInv, StreamFits
<1> QED BY <1>4, <1>5, <1>7, <1>8 DEF LiveInv

\* An answer of the server to a read keeps it.
LEMMA AnswerKeepsLive ==
    ASSUME LiveInv, Page!Answer
    PROVE  LiveInv'
<1> DEFINE read == Page!Detail
<1>1. /\ answers' = answers \cup {read}
      /\ UNCHANGED <<status, question, seq, kept, moved, seen, detail, moves, tokens, conn, wire>>
  BY DEF Page!Answer, Page!database, Page!log, Page!page, Page!stream
<1>2. read.status = status /\ read.at = moved /\ read.lastSeq = seq
  BY DEF Page!Detail
<1>3. read \in Details
  <2>1. Page!Waiting \in Nat
    BY DEF LiveInv, LiveTyped, Page!Waiting
  <2>2. (Page!Waiting # 0 /\ brief = question) \in BOOLEAN
    OBVIOUS
  <2> QED BY <2>1, <2>2 DEF Page!Detail, Details, LiveInv, LiveTyped
<1> HIDE DEF read
<1>4. LiveTyped'
  BY <1>1, <1>3 DEF LiveInv, LiveTyped
<1>5. seq \in Nat /\ moved \in Nat /\ moved <= seq
  BY DEF LiveInv, LiveTyped, NumbersFit
<1>6. NumbersFit'
  BY <1>1, <1>2, <1>5 DEF LiveInv, NumbersFit
<1>7. MoveEvents' = MoveEvents
  BY <1>1 DEF MoveEvents
<1>8. MovesFit'
  <2>1. \A r \in answers' : r.at <= moved /\ (r.at = moved => r.status = status)
    BY <1>1, <1>2, <1>5 DEF LiveInv, MovesFit, IsMove
  <2>2. \A e \in MoveEvents : e.seq <= moved /\ (e.seq = moved => e.status = status)
    BY DEF LiveInv, MovesFit, IsMove
  <2>3. detail # Page!NotRead => detail.at <= moved /\ (detail.at = moved => detail.status = status)
    BY DEF LiveInv, MovesFit, IsMove
  <2> QED BY <1>1, <1>7, <2>1, <2>2, <2>3 DEF MovesFit, IsMove
<1>9. ReadsKnow'
  <2>1. /\ Knows(read, moved) /\ \A e \in MoveEvents : Knows(read, e.seq)
        /\ \A other \in answers : Knows(read, other.at)
        /\ detail # Page!NotRead => Knows(read, detail.at)
    BY <1>2, <1>5 DEF LiveInv, MovesFit, IsMove, Knows
  <2>2. \A other \in answers : Knows(other, read.at)
    BY <1>2 DEF LiveInv, ReadsKnow
  <2>3. Knows(read, read.at)
    BY <1>2, <1>5 DEF Knows
  <2>4. \A r \in answers' : /\ Knows(r, moved) /\ \A e \in MoveEvents : Knows(r, e.seq)
                            /\ \A other \in answers' : Knows(r, other.at)
                            /\ detail # Page!NotRead => Knows(r, detail.at)
    BY <1>1, <2>1, <2>2, <2>3 DEF LiveInv, ReadsKnow
  <2> QED BY <1>1, <1>7, <2>4 DEF ReadsKnow, Knows
<1>10. PageKnows' /\ StreamFits'
  BY <1>1, <1>7 DEF LiveInv, PageKnows, StreamFits, Knows
<1> QED BY <1>4, <1>6, <1>8, <1>9, <1>10 DEF LiveInv

\* A set of naturals with a bound has a greatest element.
LEMMA GreatestOf ==
    ASSUME NEW T \in SUBSET Nat, T # {}, NEW b \in Nat, \A t \in T : t <= b
    PROVE  Page!Max(T) \in T /\ \A t \in T : t <= Page!Max(T)
<1>1. PICK m \in T : \A t \in T : t <= m
  BY GreatestNatural
<1>2. \A t \in T : m >= t
  BY <1>1
<1>3. \A t \in T : Page!Max(T) >= t /\ Page!Max(T) \in T
  BY <1>1, <1>2 DEF Page!Max
<1> QED BY <1>3

\* The next event on the wire, and what is left when it is taken.
LEMMA NextEvent ==
    ASSUME LiveInv, wire # <<>>
    PROVE  /\ 1 \in DOMAIN wire /\ Head(wire) = wire[1] /\ seen < wire[1].seq
           /\ Page!Max({seen, wire[1].seq}) = wire[1].seq
           /\ Page!Max({tokens, wire[1].seq}) = wire[1].seq
           /\ Tail(wire) \in Seq(LiveEvents)
           /\ \A i \in DOMAIN Tail(wire) : i + 1 \in DOMAIN wire /\ Tail(wire)[i] = wire[i + 1]
           /\ \A k \in DOMAIN wire : k # 1 =>
                 /\ wire[1].seq < wire[k].seq
                 /\ \E i \in DOMAIN Tail(wire) : Tail(wire)[i] = wire[k]
<1>1. /\ wire \in Seq(LiveEvents) /\ Len(wire) \in Nat /\ DOMAIN wire = 1..Len(wire)
      /\ seen \in Nat /\ tokens \in Nat /\ tokens <= seen
      /\ \A i \in DOMAIN wire : wire[i].seq \in Nat /\ seen < wire[i].seq
      /\ \A i, j \in DOMAIN wire : i < j => wire[i].seq < wire[j].seq
  BY NumberedEvents DEF LiveInv, LiveTyped, NumbersFit
<1>2. 1 \in DOMAIN wire /\ Head(wire) = wire[1]
  BY <1>1
<1>3. ASSUME NEW n \in Nat, n < wire[1].seq PROVE Page!Max({n, wire[1].seq}) = wire[1].seq
  <2> DEFINE top == wire[1].seq
  <2>1. top \in Nat /\ n < top
    BY <1>1, <1>2, <1>3
  <2> HIDE DEF top
  <2>2. {n, top} \in SUBSET Nat /\ {n, top} # {} /\ \A t \in {n, top} : t <= top
    BY <1>3, <2>1
  <2>3. Page!Max({n, top}) \in {n, top} /\ \A t \in {n, top} : t <= Page!Max({n, top})
    BY <2>1, <2>2, GreatestOf
  <2>4. Page!Max({n, top}) = top
    BY <1>3, <2>1, <2>3
  <2> QED BY <2>4 DEF top
<1>4. tokens < wire[1].seq /\ seen < wire[1].seq
  BY <1>1, <1>2
<1>5. Page!Max({seen, wire[1].seq}) = wire[1].seq /\ Page!Max({tokens, wire[1].seq}) = wire[1].seq
  BY <1>1, <1>3, <1>4
<1>6. /\ Tail(wire) \in Seq(LiveEvents) /\ DOMAIN Tail(wire) = 1..(Len(wire) - 1)
      /\ \A i \in DOMAIN Tail(wire) : i + 1 \in DOMAIN wire /\ Tail(wire)[i] = wire[i + 1]
  BY <1>1, <1>2
<1>7. ASSUME NEW k \in DOMAIN wire, k # 1
      PROVE  wire[1].seq < wire[k].seq /\ \E i \in DOMAIN Tail(wire) : Tail(wire)[i] = wire[k]
  <2>1. 1 < k /\ k - 1 \in 1..(Len(wire) - 1) /\ (k - 1) + 1 = k
    BY <1>1, <1>7
  <2> QED BY <1>1, <1>2, <1>6, <1>7, <2>1
<1> QED BY <1>2, <1>4, <1>5, <1>6, <1>7

\* The Run a page shows after an event: as before, with a greater number, or moved.
LEMMA Applied ==
    ASSUME LiveInv, wire # <<>>, detail' = Page!applyToDetail(detail, wire[1]),
           detail # Page!NotRead \/ detail' # Page!NotRead
    PROVE  /\ detail # Page!NotRead /\ detail' \in Details
           /\ \/ /\ detail' = detail
                 /\ wire[1].type = "status" => wire[1].seq <= detail.lastSeq
              \/ /\ wire[1].type = "tokens" /\ detail'.at = detail.at /\ detail'.status = detail.status
                 /\ detail'.lastSeq = wire[1].seq /\ detail.lastSeq < wire[1].seq
              \/ /\ wire[1].type = "status" /\ detail'.at = wire[1].seq /\ detail.lastSeq < wire[1].seq
                 /\ detail'.status = wire[1].status /\ detail'.lastSeq = wire[1].seq
<1> DEFINE e == wire[1]
<1>1. e \in LiveEvents /\ e.seq \in Nat /\ e.status \in Statuses
  BY NextEvent, NumberedEvents DEF LiveEvents
<1> HIDE DEF e
<1>2. detail' = Page!applyToDetail(detail, e)
  BY DEF e
<1>3. detail # Page!NotRead
  BY <1>2 DEF Page!applyToDetail
<1>4. detail \in Details /\ detail.lastSeq \in Nat
  BY <1>3, NumberedEvents DEF LiveInv, LiveTyped
<1>5. CASE e.type \notin {"status", "tokens"} \/ e.seq <= detail.lastSeq
  <2>1. detail' = detail
    BY <1>2, <1>5 DEF Page!applyToDetail
  <2>2. e.type = "status" => e.seq <= detail.lastSeq
    BY <1>5
  <2> QED BY <1>3, <1>4, <2>1, <2>2 DEF e
<1>6. CASE e.type = "tokens" /\ ~(e.seq <= detail.lastSeq)
  <2>1. detail' = [detail EXCEPT !.lastSeq = e.seq]
    BY <1>2, <1>3, <1>6 DEF Page!applyToDetail
  <2>2. /\ detail' \in Details /\ detail'.at = detail.at /\ detail'.status = detail.status
        /\ detail'.lastSeq = e.seq
    BY <1>1, <1>4, <2>1 DEF Details
  <2>3. detail.lastSeq < e.seq
    BY <1>1, <1>4, <1>6
  <2> QED BY <1>3, <1>6, <2>2, <2>3 DEF e
<1>7. CASE e.type = "status" /\ ~(e.seq <= detail.lastSeq)
  <2>1. detail' = [detail EXCEPT !.status = e.status, !.lastSeq = e.seq, !.at = e.seq]
    BY <1>2, <1>3, <1>7 DEF Page!applyToDetail
  <2>2. /\ detail' \in Details /\ detail'.at = e.seq /\ detail'.status = e.status
        /\ detail'.lastSeq = e.seq
    BY <1>1, <1>4, <2>1 DEF Details
  <2>3. detail.lastSeq < e.seq
    BY <1>1, <1>4, <1>7
  <2> QED BY <1>3, <1>7, <2>2, <2>3 DEF e
<1> QED BY <1>5, <1>6, <1>7

\* An event received keeps it.
LEMMA ReceiveKeepsLive ==
    ASSUME LiveInv, Page!Receive
    PROVE  LiveInv'
<1> DEFINE e == wire[1]
<1>1. /\ wire # <<>> /\ conn = "open" /\ conn' = "open" /\ wire' = Tail(wire)
      /\ seen' = e.seq /\ detail' = Page!applyToDetail(detail, e)
      /\ moves' = (IF e.type = "status" THEN moves \cup {e} ELSE moves)
      /\ tokens' = (IF e.type = "tokens" THEN e.seq ELSE tokens)
      /\ UNCHANGED <<status, question, seq, kept, moved, answers>>
  BY NextEvent DEF Page!Receive, Page!database, Page!log
<1>2. /\ 1 \in DOMAIN wire /\ seen < e.seq /\ wire' \in Seq(LiveEvents)
      /\ \A i \in DOMAIN wire' : i + 1 \in DOMAIN wire /\ wire'[i] = wire[i + 1]
      /\ \A k \in DOMAIN wire : k # 1 =>
            e.seq < wire[k].seq /\ \E i \in DOMAIN wire' : wire'[i] = wire[k]
  BY <1>1, NextEvent
<1>3. e \in LiveEvents /\ e.seq \in Nat /\ e.seq <= seq /\ e.status \in Statuses
  BY <1>2, NumberedEvents DEF LiveInv, NumbersFit, LiveEvents
<1>4. e.type = "status" => e \in MoveEvents
  BY <1>2 DEF MoveEvents
<1>5. detail' # Page!NotRead =>
        /\ detail # Page!NotRead /\ detail' \in Details
        /\ \/ detail' = detail /\ (e.type = "status" => e.seq <= detail.lastSeq)
           \/ /\ e.type = "tokens" /\ detail'.at = detail.at /\ detail'.status = detail.status
              /\ detail'.lastSeq = e.seq /\ detail.lastSeq < e.seq
           \/ /\ e.type = "status" /\ detail'.at = e.seq
              /\ detail'.status = e.status /\ detail'.lastSeq = e.seq
  BY <1>1, Applied
<1>6. /\ seq \in Nat /\ seen \in Nat /\ tokens \in Nat /\ moved \in Nat
      /\ moved <= seq /\ seen <= seq /\ tokens <= seen
  BY DEF LiveInv, LiveTyped, NumbersFit
<1>7. detail # Page!NotRead => /\ detail.at \in Nat /\ detail.lastSeq \in Nat
                               /\ detail.at <= detail.lastSeq /\ detail.lastSeq <= seq
  BY NumberedEvents DEF LiveInv, LiveTyped, NumbersFit
<1>8. \A m \in moves : m \in MoveEvents /\ m.seq \in Nat /\ m.seq <= seen /\ m.type = "status"
  BY NumberedEvents DEF LiveInv, NumbersFit
<1>9. \A m \in moves' : m \in moves \/ (m = e /\ e.type = "status")
  BY <1>1
<1>10. \A m \in MoveEvents' : m \in MoveEvents
  BY <1>1, <1>2, <1>4 DEF MoveEvents
\* What of the moves has a number the page has now seen.
<1>11. \A m \in MoveEvents : m.seq <= e.seq => m \in moves \/ (m = e /\ e.type = "status")
  <2>1. SUFFICES ASSUME NEW m \in MoveEvents, m.seq <= e.seq
                 PROVE  m \in moves \/ (m = e /\ e.type = "status")
    OBVIOUS
  <2>2. m.seq \in Nat /\ m.type = "status"
    BY NumberedEvents
  <2>3. ASSUME NEW j \in DOMAIN wire, wire[j] = m PROVE m = e
    <3>1. ~(e.seq < m.seq)
      BY <1>3, <2>1, <2>2
    <3> QED BY <1>2, <2>3, <3>1
  <2>4. CASE m.seq <= seen
    BY <2>1, <2>4, SeenMoves
  <2>5. ASSUME ~(m.seq <= seen), NEW i \in DOMAIN kept, kept[i] = m PROVE m = e
    <3>1. kept[i].seq > seen
      BY <1>6, <2>2, <2>5
    <3>2. \E j \in DOMAIN wire : wire[j] = kept[i]
      BY <1>1, <3>1 DEF LiveInv, StreamFits
    <3> QED BY <2>3, <2>5, <3>2
  <2> QED BY <2>1, <2>2, <2>3, <2>4, <2>5 DEF MoveEvents
<1> HIDE DEF e
<1>12. LiveTyped'
  <2>1. moves' \in SUBSET LiveEvents /\ IsFiniteSet(moves')
    BY <1>1, <1>3, FS_AddElement DEF LiveInv, LiveTyped
  <2>2. seen' \in Nat /\ tokens' \in Nat
    BY <1>1, <1>3, <1>6
  <2> QED BY <1>1, <1>2, <1>5, <2>1, <2>2 DEF LiveInv, LiveTyped
<1>13. NumbersFit'
  <2>1. moved' <= seq' /\ seen' <= seq' /\ tokens' <= seen'
    BY <1>1, <1>2, <1>3, <1>6
  <2>2. \A m \in moves' : m.seq <= seen' /\ m.type = "status"
    BY <1>1, <1>2, <1>3, <1>6, <1>8, <1>9
  <2>3. \A i \in DOMAIN wire' : seen' < wire'[i].seq /\ wire'[i].seq <= seq'
    <3>1. SUFFICES ASSUME NEW i \in DOMAIN wire' PROVE e.seq < wire'[i].seq /\ wire'[i].seq <= seq
      BY <1>1
    <3>2. i \in Nat /\ i >= 1 /\ i + 1 # 1
      BY <1>2, <3>1
    <3> QED BY <1>2, <3>2 DEF LiveInv, NumbersFit
  <2>4. \A i, j \in DOMAIN wire' : i < j => wire'[i].seq < wire'[j].seq
    <3>1. SUFFICES ASSUME NEW i \in DOMAIN wire', NEW j \in DOMAIN wire', i < j
                   PROVE  wire'[i].seq < wire'[j].seq
      OBVIOUS
    <3>2. i + 1 < j + 1
      BY <1>2, <3>1
    <3> QED BY <1>2, <3>1, <3>2 DEF LiveInv, NumbersFit
  <2>5. detail' # Page!NotRead => detail'.at <= detail'.lastSeq /\ detail'.lastSeq <= seq'
    <3>1. SUFFICES ASSUME detail' # Page!NotRead
                   PROVE  detail'.at <= detail'.lastSeq /\ detail'.lastSeq <= seq
      BY <1>1
    <3>2. CASE detail' = detail
      BY <1>5, <1>7, <3>1, <3>2
    <3>3. CASE detail'.at = detail.at /\ detail'.lastSeq = e.seq /\ detail.lastSeq < e.seq
      BY <1>3, <1>5, <1>7, <3>1, <3>3
    <3>4. CASE detail'.at = e.seq /\ detail'.lastSeq = e.seq
      BY <1>3, <3>4
    <3> QED BY <1>5, <3>1, <3>2, <3>3, <3>4
  <2>6. /\ \A i \in DOMAIN kept' : kept'[i].seq <= seq' /\ (kept'[i].seq = moved' => kept'[i].type = "status")
        /\ \A i, j \in DOMAIN kept' : i < j => kept'[i].seq < kept'[j].seq
        /\ \A read \in answers' : read.at <= read.lastSeq /\ read.lastSeq <= seq'
    BY <1>1 DEF LiveInv, NumbersFit
  <2> QED BY <2>1, <2>2, <2>3, <2>4, <2>5, <2>6 DEF NumbersFit
<1>14. MovesFit'
  <2>1. \A m \in MoveEvents' : m.seq <= moved' /\ (m.seq = moved' => m.status = status')
    BY <1>1, <1>10 DEF LiveInv, MovesFit, IsMove
  <2>2. \A read \in answers' : read.at <= moved' /\ (read.at = moved' => read.status = status')
    BY <1>1 DEF LiveInv, MovesFit, IsMove
  <2>3. detail' # Page!NotRead => detail'.at <= moved' /\ (detail'.at = moved' => detail'.status = status')
    <3>1. detail # Page!NotRead => IsMove(detail.at, detail.status)
      BY DEF LiveInv, MovesFit
    <3>2. e.type = "status" => IsMove(e.seq, e.status)
      BY <1>4 DEF LiveInv, MovesFit
    <3> QED BY <1>1, <1>5, <3>1, <3>2 DEF IsMove
  <2> QED BY <2>1, <2>2, <2>3 DEF MovesFit, IsMove
<1>15. ReadsKnow'
  <2>1. \A read \in answers : detail' # Page!NotRead => Knows(read, detail'.at)
    <3>1. SUFFICES ASSUME NEW read \in answers, detail' # Page!NotRead PROVE Knows(read, detail'.at)
      OBVIOUS
    <3>2. Knows(read, detail.at)
      BY <1>5, <3>1 DEF LiveInv, ReadsKnow
    <3>3. e.type = "status" => Knows(read, e.seq)
      BY <1>4 DEF LiveInv, ReadsKnow
    <3> QED BY <1>5, <3>1, <3>2, <3>3
  <2>2. \A read \in answers : /\ Knows(read, moved) /\ \A m \in MoveEvents : Knows(read, m.seq)
                              /\ \A other \in answers : Knows(read, other.at)
    BY DEF LiveInv, ReadsKnow
  <2> QED BY <1>1, <1>10, <2>1, <2>2 DEF ReadsKnow, Knows
<1>16. PageKnows'
  <2>1. SUFFICES ASSUME detail' # Page!NotRead
                 PROVE  /\ \A m \in MoveEvents' : m.seq <= detail'.lastSeq => m.seq <= detail'.at
                        /\ \A m \in moves' : m.seq <= detail'.at
    BY DEF PageKnows, Knows
  <2>2. /\ \A m \in MoveEvents : m.seq <= detail.lastSeq => m.seq <= detail.at
        /\ \A m \in moves : m.seq <= detail.at
    BY <1>5, <2>1 DEF LiveInv, PageKnows, Knows
  <2>3. CASE detail' = detail /\ (e.type = "status" => e.seq <= detail.lastSeq)
    BY <1>4, <1>9, <1>10, <2>2, <2>3
  <2>4. CASE e.type = "tokens" /\ detail'.at = detail.at /\ detail'.lastSeq = e.seq
    BY <1>9, <1>10, <1>11, <2>2, <2>4
  <2>5. CASE e.type = "status" /\ detail'.at = e.seq /\ detail'.lastSeq = e.seq
    <3>1. \A m \in moves : m.seq <= e.seq
      BY <1>2, <1>3, <1>6, <1>8
    <3>2. e.seq <= e.seq
      BY <1>3
    <3> QED BY <1>9, <2>5, <3>1, <3>2
  <2> QED BY <1>5, <2>1, <2>3, <2>4, <2>5
<1>17. StreamFits'
  <2>1. \A i \in DOMAIN kept' : kept'[i].type = "status" /\ kept'[i].seq <= seen' => kept'[i] \in moves'
    BY <1>1, <1>11 DEF MoveEvents
  <2>2. \A i \in DOMAIN kept' : kept'[i].seq > seen' => \E j \in DOMAIN wire' : wire'[j] = kept'[i]
    <3>1. SUFFICES ASSUME NEW i \in DOMAIN kept, kept[i].seq > e.seq
                   PROVE  \E j \in DOMAIN wire' : wire'[j] = kept[i]
      BY <1>1
    <3>2. kept[i].seq > seen /\ kept[i] # e
      BY <1>2, <1>3, <1>6, <3>1, NumberedEvents
    <3>3. PICK j \in DOMAIN wire : wire[j] = kept[i]
      BY <1>1, <3>2 DEF LiveInv, StreamFits
    <3>4. j # 1
      BY <3>2, <3>3 DEF e
    <3> QED BY <1>2, <3>3, <3>4
  <2> QED BY <2>1, <2>2 DEF StreamFits
<1> QED BY <1>12, <1>13, <1>14, <1>15, <1>16, <1>17 DEF LiveInv

\* A read that is shown: it has the moves the page saw, and is numbered no
\* further than it knows.
LEMMA ReplayedRead ==
    ASSUME LiveInv
    PROVE  \A read \in answers : LET out == Page!Replayed(read) IN
              /\ out \in Details /\ out.at <= out.lastSeq /\ out.lastSeq <= seq
              /\ \/ out.at = read.at /\ out.status = read.status
                 \/ \E m \in moves : out.at = m.seq /\ out.status = m.status
              /\ \A m \in MoveEvents : m.seq <= out.lastSeq => m.seq <= out.at
              /\ \A m \in moves : m.seq <= out.at
              /\ read.at <= out.at
<1>1. SUFFICES ASSUME NEW read \in answers
      PROVE  LET out == Page!Replayed(read) IN
              /\ out \in Details /\ out.at <= out.lastSeq /\ out.lastSeq <= seq
              /\ \/ out.at = read.at /\ out.status = read.status
                 \/ \E m \in moves : out.at = m.seq /\ out.status = m.status
              /\ \A m \in MoveEvents : m.seq <= out.lastSeq => m.seq <= out.at
              /\ \A m \in moves : m.seq <= out.at
              /\ read.at <= out.at
  OBVIOUS
<1> DEFINE newer == {m \in moves : m.seq > read.lastSeq}
           numbers == {read.lastSeq, tokens} \cup {m.seq : m \in newer}
           number == Page!Max(numbers)
           out == Page!Replayed(read)
<1>2. /\ read \in Details /\ read.at \in Nat /\ read.lastSeq \in Nat
      /\ read.at <= read.lastSeq /\ read.lastSeq <= seq
  BY NumberedEvents DEF LiveInv, NumbersFit
<1>3. seq \in Nat /\ seen \in Nat /\ tokens \in Nat /\ seen <= seq /\ tokens <= seen
  BY DEF LiveInv, LiveTyped, NumbersFit
<1>4. \A m \in moves : /\ m \in MoveEvents /\ m \in LiveEvents /\ m.seq \in Nat
                       /\ m.seq <= seen /\ m.seq <= seq
  BY <1>3, NumberedEvents DEF LiveInv, NumbersFit
<1>5. \A m \in MoveEvents : m.seq \in Nat /\ (m.seq <= read.lastSeq => m.seq <= read.at)
  BY NumberedEvents DEF LiveInv, ReadsKnow, Knows
<1>6. number \in numbers /\ \A n \in numbers : n <= number
  <2>1. tokens <= seq
    BY <1>3
  <2>2. numbers \in SUBSET Nat /\ numbers # {} /\ \A n \in numbers : n <= seq
    BY <1>2, <1>3, <1>4, <2>1
  <2> HIDE DEF numbers
  <2> QED BY <1>3, <2>2, GreatestOf
<1>7. number \in Nat /\ read.lastSeq <= number /\ number <= seq
  <2>1. tokens <= seq
    BY <1>3
  <2> HIDE DEF number
  <2> QED BY <1>2, <1>3, <1>4, <1>6, <2>1
<1>8. \A m \in moves : m \notin newer => m.seq <= read.lastSeq
  BY <1>2, <1>4
<1>9. number = read.lastSeq \/ number = tokens \/ \E m \in newer : number = m.seq
  <2> HIDE DEF number, newer
  <2> QED BY <1>6
<1>10. CASE newer = {}
  <2>1. out = [read EXCEPT !.lastSeq = number]
    BY <1>10 DEF Page!Replayed
  <2> HIDE DEF number, out
  <2>2. /\ out \in Details /\ out.at = read.at /\ out.status = read.status
        /\ out.lastSeq = number
    BY <1>2, <1>7, <2>1 DEF Details
  <2>3. \A m \in moves : m.seq <= read.at
    BY <1>4, <1>5, <1>8, <1>10
  <2>4. \A m \in MoveEvents : m.seq <= number => m.seq <= read.at
    <3>1. SUFFICES ASSUME NEW m \in MoveEvents, m.seq <= number PROVE m.seq <= read.at
      OBVIOUS
    <3>2. CASE number = read.lastSeq
      BY <1>5, <3>1, <3>2
    <3>3. CASE number = tokens
      <4>1. m.seq <= seen
        BY <1>3, <1>5, <3>1, <3>3
      <4> QED BY <2>3, <4>1, SeenMoves
    <3> QED BY <1>9, <1>10, <3>2, <3>3
  <2>5. read.at <= number /\ read.at <= read.at
    BY <1>2, <1>7
  <2> QED BY <1>7, <2>2, <2>3, <2>4, <2>5 DEF out
<1>11. CASE newer # {}
  <2> DEFINE last == CHOOSE m \in newer : \A other \in newer : other.seq <= m.seq
  <2>1. \E m \in newer : \A other \in newer : other.seq <= m.seq
    <3> DEFINE T == {m.seq : m \in newer}
    <3>1. T \in SUBSET Nat /\ T # {} /\ \A t \in T : t <= seq
      BY <1>4, <1>11
    <3>2. PICK top \in T : \A t \in T : t <= top
      BY <1>3, <3>1, GreatestNatural
    <3> QED BY <3>2
  <2>2. last \in newer /\ \A other \in newer : other.seq <= last.seq
    <3> HIDE DEF newer
    <3> QED BY <2>1
  <2>3. out = [read EXCEPT !.status = last.status, !.at = last.seq, !.lastSeq = number]
    BY <1>11 DEF Page!Replayed
  <2> HIDE DEF last, number, out
  <2>4. last \in moves /\ last.seq \in Nat /\ last.status \in Statuses /\ read.lastSeq < last.seq
    BY <1>2, <1>4, <2>2 DEF LiveEvents
  <2>5. /\ out \in Details /\ out.at = last.seq /\ out.status = last.status
        /\ out.lastSeq = number
    BY <1>2, <1>7, <2>3, <2>4 DEF Details
  <2>6. \A m \in moves : m.seq <= last.seq
    BY <1>2, <1>4, <1>8, <2>2, <2>4
  <2>7. last.seq <= number
    <3>1. last.seq \in numbers
      BY <2>2
    <3> QED BY <1>6, <3>1
  <2>8. \A m \in MoveEvents : m.seq <= number => m.seq <= last.seq
    <3>1. SUFFICES ASSUME NEW m \in MoveEvents, m.seq <= number PROVE m.seq <= last.seq
      OBVIOUS
    <3>2. CASE number = tokens
      <4>1. m.seq <= seen
        BY <1>3, <1>5, <3>1, <3>2
      <4> QED BY <2>6, <4>1, SeenMoves
    <3>3. CASE number = read.lastSeq
      BY <1>2, <1>5, <2>4, <3>1, <3>3
    <3>4. CASE \E k \in newer : number = k.seq
      BY <2>2, <3>1, <3>4, <1>4, <1>5, <2>4
    <3> QED BY <1>9, <3>2, <3>3, <3>4
  <2>9. read.at <= last.seq
    BY <1>2, <2>4
  <2> QED BY <1>7, <2>4, <2>5, <2>6, <2>7, <2>8, <2>9 DEF out
<1> QED BY <1>10, <1>11

\* A read that arrives keeps it.
LEMMA LoadedKeepsLive ==
    ASSUME LiveInv, Page!Loaded
    PROVE  LiveInv'
<1>1. PICK read \in answers :
        /\ answers' = answers \ {read}
        /\ detail' = IF Page!Takes(read) THEN Page!Replayed(read) ELSE detail
        /\ UNCHANGED <<status, question, seq, kept, moved, seen, moves, tokens, conn, wire>>
  BY DEF Page!Loaded, Page!database, Page!log, Page!stream
<1>2. MoveEvents' = MoveEvents
  BY <1>1 DEF MoveEvents
<1>3. CASE detail' = detail
  <2>1. LiveTyped' /\ NumbersFit'
    BY <1>1, <1>3 DEF LiveInv, LiveTyped, NumbersFit
  <2>2. MovesFit' /\ ReadsKnow' /\ PageKnows' /\ StreamFits'
    BY <1>1, <1>2, <1>3 DEF LiveInv, MovesFit, IsMove, ReadsKnow, PageKnows, Knows, StreamFits
  <2> QED BY <2>1, <2>2 DEF LiveInv
<1>4. CASE detail' = Page!Replayed(read)
  <2>1. /\ detail' \in Details /\ detail'.at <= detail'.lastSeq /\ detail'.lastSeq <= seq
        /\ \/ detail'.at = read.at /\ detail'.status = read.status
           \/ \E m \in moves : detail'.at = m.seq /\ detail'.status = m.status
        /\ \A m \in MoveEvents : m.seq <= detail'.lastSeq => m.seq <= detail'.at
        /\ \A m \in moves : m.seq <= detail'.at
    BY <1>4, ReplayedRead
  <2>2. \A m \in moves : m \in MoveEvents
    BY DEF MoveEvents
  <2>3. LiveTyped' /\ NumbersFit'
    BY <1>1, <2>1 DEF LiveInv, LiveTyped, NumbersFit
  <2>4. MovesFit'
    <3>1. detail'.at <= moved /\ (detail'.at = moved => detail'.status = status)
      BY <2>1, <2>2 DEF LiveInv, MovesFit, IsMove
    <3> QED BY <1>1, <1>2, <3>1 DEF LiveInv, MovesFit, IsMove
  <2>5. ReadsKnow'
    <3>1. \A other \in answers : Knows(other, detail'.at)
      BY <2>1, <2>2 DEF LiveInv, ReadsKnow
    <3> QED BY <1>1, <1>2, <3>1 DEF LiveInv, ReadsKnow, Knows
  <2>6. PageKnows' /\ StreamFits'
    BY <1>1, <1>2, <2>1 DEF LiveInv, PageKnows, Knows, StreamFits
  <2> QED BY <2>3, <2>4, <2>5, <2>6 DEF LiveInv
<1> QED BY <1>1, <1>3, <1>4

\* Every step of the page keeps it.
LEMMA PageKeepsLive ==
    ASSUME LiveInv, Page!PageNext
    PROVE  LiveInv'
<1>1. seq \in Nat
  BY DEF LiveInv, LiveTyped
<1>2. CASE Page!Lose
  BY <1>1, <1>2, NothingNewIsKnown DEF Page!Lose, Page!Dropped, Page!page, Page!log, Page!reads, Page!database
<1>3. CASE Page!FoundQuiet
  BY <1>1, <1>3, NothingNewIsKnown
  DEF Page!FoundQuiet, Page!Dropped, Page!page, Page!log, Page!reads, Page!database
<1>4. CASE Page!ReadAgain
  BY <1>1, <1>4, NothingNewIsKnown
  DEF Page!ReadAgain, Page!page, Page!log, Page!stream, Page!database
<1>5. CASE Page!ReadFails
  BY <1>1, <1>5, NothingNewIsKnown
  DEF Page!ReadFails, Page!page, Page!log, Page!stream, Page!database
<1> QED BY <1>2, <1>3, <1>4, <1>5, OpenKeepsLive, ReceiveKeepsLive, AnswerKeepsLive, LoadedKeepsLive
        DEF Page!PageNext

\* When the live page was chosen, only it takes steps.
LEMMA LiveAlone ==
    ASSUME part = "live", [Next]_vars
    PROVE  part' = "live" /\ (Page!Next \/ UNCHANGED liveState)
BY DEF Next, vars, PageStep, CliStep, DialogsStep, UiDesignAgentStep, SandboxStep, RunDeliveryStep

\* What is kept, on its way and shown of a Run fits how it moved, for any number of
\* events, reads, deaths and lost connections, and any length of what is kept.
THEOREM LiveInductive == Spec => [](part = "live" => LiveInv)
<1>1. Init => (part = "live" => LiveInv)
  <2>1. SUFFICES ASSUME Init, part = "live" PROVE LiveInv
    OBVIOUS
  <2>2. Page!Init
    BY <2>1 DEF Init
  <2>3. <<>> \in Seq(LiveEvents) /\ (\A i : i \notin DOMAIN <<>>) /\ IsFiniteSet({})
    BY FS_EmptySet
  <2>4. MoveEvents = {}
    BY <2>2, <2>3 DEF Page!Init, MoveEvents
  <2>5. LiveTyped
    BY <2>2, <2>3 DEF Page!Init, LiveTyped, Statuses
  <2>6. NumbersFit
    BY <2>2, <2>3 DEF Page!Init, NumbersFit
  <2>7. MovesFit /\ ReadsKnow /\ PageKnows
    BY <2>2, <2>4 DEF Page!Init, MovesFit, ReadsKnow, PageKnows
  <2>8. StreamFits
    BY <2>2, <2>3 DEF Page!Init, StreamFits
  <2> QED BY <2>5, <2>6, <2>7, <2>8 DEF LiveInv
<1>2. (part = "live" => LiveInv) /\ [Next]_vars => (part = "live" => LiveInv)'
  <2>1. SUFFICES ASSUME part = "live", LiveInv, [Next]_vars PROVE LiveInv'
    BY DEF Next, vars, PageStep, CliStep, DialogsStep, UiDesignAgentStep, SandboxStep,
           RunDeliveryStep
  <2>2. CASE Page!Next
    BY <2>1, <2>2, ServerKeepsLive, PageKeepsLive DEF Page!Next
  <2>3. CASE UNCHANGED liveState
    <3>1. UNCHANGED <<status, question, seq, kept, moved, seen, detail, moves, tokens, answers, wire, conn>>
      BY <2>3 DEF liveState
    <3>2. seq' \in Nat /\ seq' >= seq
      BY <2>1, <3>1 DEF LiveInv, LiveTyped
    <3> QED BY <2>1, <3>1, <3>2, NothingNewIsKnown
  <2> QED BY <2>1, <2>2, <2>3, LiveAlone
<1> QED BY <1>1, <1>2, PTL DEF Spec

\* A page whose stream is open and drained has the move whose event is kept.
LEMMA StatusIsShown ==
    ASSUME LiveInv
    PROVE  Page!StatusReachesThePage
<1>1. SUFFICES ASSUME conn = "open", wire = <<>>, detail # Page!NotRead,
                      NEW i \in DOMAIN kept, kept[i].seq = moved
               PROVE  detail.status = status
  BY DEF Page!StatusReachesThePage
<1>2. kept[i].type = "status" /\ kept[i].seq \in Nat /\ seen \in Nat /\ moved \in Nat
  BY <1>1, NumberedEvents DEF LiveInv, LiveTyped, NumbersFit
<1>3. \A j : j \notin DOMAIN wire
  BY <1>1
<1>4. ~(kept[i].seq > seen)
  BY <1>1, <1>3 DEF LiveInv, StreamFits
<1>5. kept[i].seq <= seen
  BY <1>2, <1>4
<1>6. kept[i] \in moves
  BY <1>2, <1>5 DEF LiveInv, StreamFits
<1>7. moved <= detail.at
  BY <1>1, <1>6 DEF LiveInv, PageKnows
<1>8. IsMove(detail.at, detail.status) /\ detail.at \in Nat
  BY <1>1, NumberedEvents DEF LiveInv, LiveTyped, MovesFit
<1> QED BY <1>2, <1>7, <1>8 DEF IsMove

\* A loop that ends with work left says so, and what starts or stops a Run starts a loop.
LEMMA IdleStep ==
    ASSUME Page!IdleRunHasSaidWhy, Page!Next
    PROVE  Page!IdleRunHasSaidWhy'
<1>1. CASE Page!LookToWork
  BY <1>1 DEF Page!LookToWork, Page!IdleRunHasSaidWhy
<1>2. CASE Page!LookToBrief
  BY <1>2 DEF Page!LookToBrief, Page!IdleRunHasSaidWhy
<1>3. CASE Page!LookAndReturn
  BY <1>3 DEF Page!LookAndReturn, Page!IdleRunHasSaidWhy, Page!Finished
<1>4. CASE Page!Spend
  BY <1>4 DEF Page!Spend, Page!IdleRunHasSaidWhy, Page!loopVars, Page!database
<1>5. CASE Page!StepEnds
  BY <1>5 DEF Page!StepEnds, Page!IdleRunHasSaidWhy
<1>6. CASE Page!WorkMoves
  BY <1>6 DEF Page!WorkMoves, Page!IdleRunHasSaidWhy
<1>7. CASE Page!WorkStops
  BY <1>7 DEF Page!WorkStops, Page!IdleRunHasSaidWhy
<1>8. CASE Page!BriefWritten
  BY <1>8 DEF Page!BriefWritten, Page!IdleRunHasSaidWhy
<1>9. CASE Page!LoopThrows
  BY <1>9 DEF Page!LoopThrows, Page!IdleRunHasSaidWhy
<1>10. CASE Page!Crash
  BY <1>10 DEF Page!Crash, Page!IdleRunHasSaidWhy
<1>11. CASE Page!Restart
  BY <1>11
  DEF Page!Restart, Page!Starts, Page!IsResumed, Page!Finished, Page!database,
      Page!IdleRunHasSaidWhy
<1>15. CASE Page!CannotResume
  BY <1>15 DEF Page!CannotResume, Page!Starts, Page!Finished, Page!database, Page!IdleRunHasSaidWhy
<1>12. CASE Page!resolveEscalation
  BY <1>12 DEF Page!resolveEscalation, Page!Advance, Page!IdleRunHasSaidWhy
<1>13. CASE Page!abortRun
  BY <1>13 DEF Page!abortRun, Page!Advance, Page!IdleRunHasSaidWhy
<1>14. CASE Page!PageNext
  <2>1. UNCHANGED <<status, stepRunning, up, loop, told>>
    BY <1>14 DEF Page!PageNext, Page!Open, Page!Lose, Page!FoundQuiet, Page!Receive, Page!ReadAgain,
      Page!Answer, Page!ReadFails, Page!Loaded, Page!database, Page!loopVars
  <2> QED BY <2>1 DEF Page!IdleRunHasSaidWhy
<1> QED BY <1>1, <1>2, <1>3, <1>4, <1>5, <1>6, <1>7, <1>8, <1>9, <1>10, <1>11, <1>12, <1>13, <1>14,
          <1>15
        DEF Page!Next, Page!ServerNext

\* No Run with work to do is left without a word, and a page that has drained its stream
\* shows the Run's status while the event of its last move is kept (#advance, #again of
\* runtimeRunService.ts; follow of eventLog.ts; runReducer of useRun.ts).
THEOREM PageKeepsUpWithTheRun == Spec => []PageKeepsUp
<1>1. Init => (part = "live" => Page!IdleRunHasSaidWhy)
  BY DEF Init, Page!Init, Page!IdleRunHasSaidWhy
<1>2. (part = "live" => Page!IdleRunHasSaidWhy) /\ [Next]_vars
        => (part = "live" => Page!IdleRunHasSaidWhy)'
  <2>1. SUFFICES ASSUME part = "live", Page!IdleRunHasSaidWhy, [Next]_vars
                 PROVE  Page!IdleRunHasSaidWhy'
    BY DEF Next, vars, PageStep, CliStep, DialogsStep, UiDesignAgentStep, SandboxStep,
           RunDeliveryStep
  <2>2. CASE UNCHANGED liveState
    BY <2>1, <2>2 DEF liveState, Page!IdleRunHasSaidWhy
  <2> QED BY <2>1, <2>2, IdleStep, LiveAlone
<1>3. (part = "live" => LiveInv) => (part = "live" => Page!StatusReachesThePage)
  BY StatusIsShown
<1> QED BY <1>1, <1>2, <1>3, LiveInductive, PTL DEF Spec, PageKeepsUp

\* No step makes the page show an older state than the one it shows.
LEMMA NothingOlderIsShown ==
    ASSUME LiveInv, Page!Next \/ UNCHANGED liveState
    PROVE  Page!ShowsNothingOlder
<1>1. SUFFICES ASSUME detail # Page!NotRead PROVE detail'.at >= detail.at
  BY DEF Page!ShowsNothingOlder
<1>2. detail.at \in Nat /\ detail.lastSeq \in Nat /\ detail.at <= detail.lastSeq
  BY <1>1, NumberedEvents DEF LiveInv, LiveTyped, NumbersFit
<1>3. CASE detail' = detail
  BY <1>2, <1>3
<1>4. CASE Page!Receive
  <2>1. wire # <<>> /\ detail' = Page!applyToDetail(detail, wire[1])
    BY <1>4, NextEvent DEF Page!Receive
  <2>2. wire[1].seq \in Nat
    BY <2>1, NextEvent, NumberedEvents
  <2>3. \/ detail'.at = detail.at
        \/ detail'.at = wire[1].seq /\ detail.lastSeq < wire[1].seq
    BY <1>1, <2>1, Applied
  <2> QED BY <1>2, <2>2, <2>3
<1>5. CASE Page!Loaded
  <2>1. PICK read \in answers :
          detail' = IF Page!Takes(read) THEN Page!Replayed(read) ELSE detail
    BY <1>5 DEF Page!Loaded
  <2>2. ASSUME Page!Takes(read), detail' = Page!Replayed(read) PROVE detail'.at >= detail.at
    <3>1. read.at \in Nat /\ read.lastSeq \in Nat
      BY NumberedEvents
    <3>2. detail.at <= read.lastSeq
      BY <1>1, <1>2, <2>2, <3>1 DEF Page!Takes
    <3>3. detail.at <= read.at
      BY <1>1, <3>2 DEF LiveInv, ReadsKnow, Knows
    <3>4. detail' \in Details /\ read.at <= detail'.at
      BY <2>2, ReplayedRead
    <3>5. detail'.at \in Nat
      BY <3>4 DEF Details
    <3> QED BY <1>2, <3>1, <3>3, <3>4, <3>5
  <2> QED BY <1>3, <2>1, <2>2
<1>6. CASE UNCHANGED liveState
  BY <1>3, <1>6 DEF liveState
<1>7. CASE Page!ServerNext \/ Page!resolveEscalation \/ Page!abortRun
  <2>1. detail' = detail
    BY <1>7 DEF Page!ServerNext, Page!resolveEscalation, Page!abortRun, Page!LookToWork,
      Page!LookToBrief, Page!LookAndReturn, Page!Spend, Page!StepEnds, Page!WorkMoves, Page!WorkStops,
      Page!BriefWritten, Page!LoopThrows, Page!Crash, Page!Restart, Page!CannotResume,
      Page!Starts, Page!page
  <2> QED BY <1>3, <2>1
<1>8. CASE Page!PageNext /\ ~Page!Receive /\ ~Page!Loaded
  <2>1. detail' = detail
    BY <1>8 DEF Page!PageNext, Page!Open, Page!Lose, Page!FoundQuiet, Page!ReadAgain, Page!Answer,
      Page!ReadFails, Page!page
  <2> QED BY <1>3, <2>1
<1> QED BY <1>4, <1>5, <1>6, <1>7, <1>8 DEF Page!Next

\* The status a page shows never goes back to an earlier one, over reads that answer
\* out of order, reconnects and restarts of the server (runReducer of useRun.ts).
THEOREM StatusOnlyMovesOn == Spec => StatusNeverGoesBack
<1>1. (part = "live" => LiveInv) /\ [Next]_vars => [part = "live" => Page!ShowsNothingOlder]_vars
  BY NothingOlderIsShown, LiveAlone
<1> QED BY <1>1, LiveInductive, PTL DEF Spec, StatusNeverGoesBack

=============================================================================
