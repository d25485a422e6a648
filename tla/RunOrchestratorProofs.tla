----------------------- MODULE RunOrchestratorProofs -----------------------
EXTENDS RunOrchestrator, WellFoundedInduction, FiniteSetTheorems, TLAPS

\* A set of naturals that is not empty has a least element.
LEMMA LeastNatural ==
    ASSUME NEW T \in SUBSET Nat, T # {}
    PROVE  \E m \in T : \A t \in T : m <= t
<1> DEFINE R == OpToRel(<, Nat)
<1>1. IsWellFoundedOn(R, Nat)
  BY NatLessThanWellFounded
<1>2. PICK m \in T : \A t \in T : ~(<<t, m>> \in R)
  BY <1>1, WFMin
<1>3. \A t \in T : ~(t < m)
  BY <1>2 DEF OpToRel
<1> QED BY <1>3

\* The first unfinished Slice is a Slice, or 0.
LEMMA CurrentSliceType ==
    CurrentSlice \in Slice \cup {0} /\ (CurrentSlice = 0 <=> \A s \in Slice : ~Unfinished(s))
<1> DEFINE T == {s \in Slice : Unfinished(s)}
<1>1. CASE T = {}
  BY <1>1 DEF CurrentSlice, Slice
<1>2. CASE T # {}
  <2>1. T \in SUBSET Nat
    BY ConstantsAssumption DEF Slice
  <2>2. PICK m \in T : \A t \in T : m <= t
    BY <1>2, <2>1, LeastNatural
  <2>3. \E s \in Slice : Unfinished(s) /\ \A t \in Slice : Unfinished(t) => s <= t
    BY <2>2
  <2>4. CurrentSlice \in Slice
    BY <1>2, <2>3 DEF CurrentSlice
  <2> QED BY <1>2, <2>4, ConstantsAssumption DEF Slice
<1> QED BY <1>1, <1>2

\* It is unfinished, and no unfinished Slice comes before it.
LEMMA CurrentSliceLeast ==
    ASSUME CurrentSlice # 0
    PROVE  /\ CurrentSlice \in Slice /\ Unfinished(CurrentSlice)
           /\ \A t \in Slice : Unfinished(t) => CurrentSlice <= t
<1> DEFINE T == {s \in Slice : Unfinished(s)}
<1>1. T \in SUBSET Nat /\ T # {}
  BY CurrentSliceType, ConstantsAssumption DEF Slice
<1>2. PICK m \in T : \A t \in T : m <= t
  BY <1>1, LeastNatural
<1>3. \E s \in Slice : Unfinished(s) /\ \A t \in Slice : Unfinished(t) => s <= t
  BY <1>2
<1> QED BY <1>3 DEF CurrentSlice

\* The last Slice that passed is one that passed, or 0.
LEMMA LastPassedType ==
    LastPassed \in Passed \cup {0} /\ Passed \subseteq Slice
<1>1. CASE Passed = {}
  BY <1>1 DEF LastPassed, Passed
<1>2. CASE Passed # {}
  <2> DEFINE T == {N - s : s \in Passed}
  <2>1. T \in SUBSET Nat /\ T # {}
    BY <1>2, ConstantsAssumption DEF Slice, Passed
  <2>2. PICK m \in T : \A t \in T : m <= t
    BY <2>1, LeastNatural
  <2>3. PICK s \in Passed : m = N - s
    BY <2>2
  <2>4. \A t \in Passed : t <= s
    <3>1. TAKE t \in Passed
    <3>2. N - s <= N - t
      BY <2>2, <2>3
    <3>3. s \in Int /\ t \in Int /\ N \in Int
      BY ConstantsAssumption DEF Slice, Passed
    <3> QED BY <3>2, <3>3
  <2>5. LastPassed \in Passed
    BY <1>2, <2>4 DEF LastPassed
  <2> QED BY <2>5 DEF Passed
<1> QED BY <1>1, <1>2

\* The memory stays one under every update the code makes to it.
LEMMA MemoryUpdates ==
    ASSUME NEW m \in Memory, NEW S \in SUBSET Slice
    PROVE  /\ [m EXCEPT !.hints = S] \in Memory
           /\ [m EXCEPT !.histories = S] \in Memory
           /\ \A b \in BOOLEAN : [m EXCEPT !.revisions = b] \in Memory
           /\ \A k \in 0..ReviewRetryBudget : [m EXCEPT !.reviewRetries = k] \in Memory
           /\ m.hints \in SUBSET Slice /\ m.histories \in SUBSET Slice
           /\ m.reviewRetries \in 0..ReviewRetryBudget
  BY DEF Memory

\* The type invariant, through what #advance does on its own.
LEMMA LooksType == TypeOK /\ Looks => TypeOK'
<1> SUFFICES ASSUME TypeOK, Looks PROVE TypeOK'
  OBVIOUS
<1> USE ConstantsAssumption DEF runRow, store, proc, ghosts, Free
<1>1. CASE StartAdvance
  <2>1. RowsType' /\ ProcessType'
    BY <1>1 DEF TypeOK, RowsType, ProcessType, StartAdvance
  <2>2. MemoryType'
    BY <1>1 DEF TypeOK, MemoryType, StartAdvance
  <2>3. FlagsType'
    BY <1>1, Zenon DEF TypeOK, FlagsType, StartAdvance
  <2> QED BY <2>1, <2>2, <2>3 DEF TypeOK
<1>2. CASE WaitForPerson
  <2>1. RowsType' /\ ProcessType'
    BY <1>2 DEF TypeOK, RowsType, ProcessType, WaitForPerson
  <2>2. MemoryType'
    BY <1>2 DEF TypeOK, MemoryType, WaitForPerson
  <2>3. FlagsType'
    BY <1>2, Zenon DEF TypeOK, FlagsType, WaitForPerson
  <2> QED BY <2>1, <2>2, <2>3 DEF TypeOK
<1>3. CASE WaitAtPrGate
  BY <1>3 DEF TypeOK, RowsType, ProcessType, MemoryType, FlagsType, WaitAtPrGate, ReopenedGate
<1>4. CASE EscalationMissing
  <2>1. RowsType' /\ ProcessType'
    BY <1>4 DEF TypeOK, RowsType, ProcessType, EscalationMissing, Throw
  <2>2. MemoryType'
    BY <1>4 DEF TypeOK, MemoryType, EscalationMissing, Throw
  <2>3. FlagsType'
    BY <1>4, Zenon DEF TypeOK, FlagsType, EscalationMissing, Throw
  <2> QED BY <2>1, <2>2, <2>3 DEF TypeOK
<1>5. CASE StartBrief
  <2>1. RowsType' /\ ProcessType'
    BY <1>5 DEF TypeOK, RowsType, ProcessType, StartBrief
  <2>2. MemoryType'
    BY <1>5 DEF TypeOK, MemoryType, StartBrief
  <2>3. FlagsType'
    BY <1>5, Zenon DEF TypeOK, FlagsType, StartBrief
  <2> QED BY <2>1, <2>2, <2>3 DEF TypeOK
<1>6. CASE EndBrief
  <2>1. RowsType' /\ ProcessType'
    BY <1>6 DEF TypeOK, RowsType, ProcessType, EndBrief
  <2>2. MemoryType'
    BY <1>6 DEF TypeOK, MemoryType, EndBrief
  <2>3. FlagsType'
    BY <1>6, Zenon DEF TypeOK, FlagsType, EndBrief
  <2> QED BY <2>1, <2>2, <2>3 DEF TypeOK
<1>7. CASE StartOwedDelivery
  <2>1. RowsType' /\ ProcessType'
    BY <1>7 DEF TypeOK, RowsType, ProcessType, StartOwedDelivery
  <2>2. MemoryType'
    BY <1>7 DEF TypeOK, MemoryType, StartOwedDelivery
  <2>3. FlagsType'
    BY <1>7, Zenon DEF TypeOK, FlagsType, StartOwedDelivery
  <2> QED BY <2>1, <2>2, <2>3 DEF TypeOK
<1>8. CASE EndOwedDelivery
  <2>1. RowsType' /\ ProcessType'
    BY <1>8 DEF TypeOK, RowsType, ProcessType, EndOwedDelivery
  <2>2. MemoryType'
    BY <1>8 DEF TypeOK, MemoryType, EndOwedDelivery
  <2>3. FlagsType'
    BY <1>8, Zenon DEF TypeOK, FlagsType, EndOwedDelivery
  <2> QED BY <2>1, <2>2, <2>3 DEF TypeOK
<1> QED BY <1>1, <1>2, <1>3, <1>4, <1>5, <1>6, <1>7, <1>8 DEF Looks

\* The type invariant, through the synchronous stretches between two awaits.
LEMMA SynchronousType == TypeOK /\ Synchronous => TypeOK'
<1> SUFFICES ASSUME TypeOK, Synchronous PROVE TypeOK'
  OBVIOUS
<1> USE ConstantsAssumption DEF runRow, store, proc, ghosts, Free
<1>1. CASE Checkpoint
  BY <1>1 DEF TypeOK, RowsType, ProcessType, MemoryType, FlagsType, Checkpoint
<1>2. CASE OpenEscalation
  <2>1. RowsType' /\ ProcessType'
    BY <1>2 DEF TypeOK, RowsType, ProcessType, OpenEscalation
  <2>2. MemoryType'
    BY <1>2 DEF TypeOK, MemoryType, OpenEscalation
  <2>3. FlagsType'
    BY <1>2, Zenon DEF TypeOK, FlagsType, OpenEscalation
  <2> QED BY <2>1, <2>2, <2>3 DEF TypeOK
<1>3. CASE RecordFailure
  BY <1>3 DEF TypeOK, RowsType, ProcessType, MemoryType, FlagsType, RecordFailure
<1>4. CASE ReopenLast
  <2>1. RowsType' /\ ProcessType'
    BY <1>4, LastPassedType DEF TypeOK, RowsType, ProcessType, ReopenLast, TellsLastPassed, SliceStatus
  <2>2. MemoryType'
    <3>1. CASE LastPassed = 0
      BY <1>4, <3>1 DEF TypeOK, MemoryType, ReopenLast
    <3>2. CASE LastPassed # 0
      <4>1. memory.hints \cup {LastPassed} \in SUBSET Slice
        BY <3>2, LastPassedType, MemoryUpdates DEF TypeOK, MemoryType
      <4>2. [memory EXCEPT !.hints = memory.hints \cup {LastPassed}] \in Memory
        BY <4>1, MemoryUpdates DEF TypeOK, MemoryType
      <4>3. /\ memory' = [memory EXCEPT !.hints = memory.hints \cup {LastPassed}]
            /\ saved' = saved
        BY <1>4, <3>2 DEF ReopenLast, TellsLastPassed
      <4> QED BY <4>2, <4>3 DEF TypeOK, MemoryType
    <3> QED BY <3>1, <3>2
  <2>3. FlagsType'
    BY <1>4, LastPassedType, Zenon DEF TypeOK, FlagsType, ReopenLast, TellsLastPassed
  <2> QED BY <2>1, <2>2, <2>3 DEF TypeOK
<1>5. CASE OpenPrGate
  BY <1>5 DEF TypeOK, RowsType, ProcessType, MemoryType, FlagsType, OpenPrGate
<1>6. CASE ApplyResolution
  <2>1. RowsType' /\ ProcessType'
    BY <1>6 DEF TypeOK, RowsType, ProcessType, ApplyResolution, Move, EscalationChoice
  <2>2. MemoryType'
    <3>1. memory.hints \cup ({about} \cap Slice) \in SUBSET Slice
      BY MemoryUpdates DEF TypeOK, MemoryType
    <3>2. [memory EXCEPT !.hints = memory.hints \cup ({about} \cap Slice)] \in Memory
      BY <3>1, MemoryUpdates DEF TypeOK, MemoryType
    <3>3. [memory EXCEPT !.hints = memory.hints \cup ({about} \cap Slice),
                         !.reviewRetries = 0] \in Memory
      <4> DEFINE told == [memory EXCEPT !.hints = memory.hints \cup ({about} \cap Slice)]
      <4>1. told \in Memory /\ 0 \in 0..ReviewRetryBudget /\ {} \in SUBSET Slice
        BY <3>2
      <4> HIDE DEF told
      <4>2. [told EXCEPT !.reviewRetries = 0] \in Memory
        BY <4>1, MemoryUpdates
      <4> QED BY <4>2 DEF told
    <3> QED BY <1>6, <3>3 DEF TypeOK, MemoryType, ApplyResolution
  <2>3. FlagsType'
    BY <1>6, Zenon DEF TypeOK, FlagsType, ApplyResolution, Move, EscalationChoice
  <2> QED BY <2>1, <2>2, <2>3 DEF TypeOK
<1>7. CASE SkipSlice
  BY <1>7 DEF TypeOK, RowsType, ProcessType, MemoryType, FlagsType, SkipSlice, SliceStatus
<1>8. CASE EditDocuments
  <2>1. RowsType' /\ ProcessType'
    BY <1>8 DEF TypeOK, RowsType, ProcessType, EditDocuments
  <2>2. MemoryType'
    BY <1>8, MemoryUpdates DEF TypeOK, RowsType, MemoryType, EditDocuments
  <2>3. FlagsType'
    BY <1>8, Zenon DEF TypeOK, FlagsType, EditDocuments
  <2> QED BY <2>1, <2>2, <2>3 DEF TypeOK
<1>9. CASE ApplyPrDecision
  BY <1>9, LastPassedType DEF TypeOK, RowsType, ProcessType, MemoryType, FlagsType, ApplyPrDecision, Move, OwesLastPassed
<1>10. CASE ApplyAborted
  BY <1>10 DEF TypeOK, RowsType, ProcessType, MemoryType, FlagsType, ApplyAborted, Move
<1> QED BY <1>1, <1>2, <1>3, <1>4, <1>5, <1>6, <1>7, <1>8, <1>9, <1>10 DEF Synchronous

\* The type invariant, through the Design Phase as the loop sees it.
LEMMA DesignsType == TypeOK /\ Designs => TypeOK'
<1> SUFFICES ASSUME TypeOK, Designs PROVE TypeOK'
  OBVIOUS
<1> USE ConstantsAssumption DEF runRow, store, proc, ghosts, Free
<1>1. CASE StartDesign
  BY <1>1 DEF TypeOK, RowsType, ProcessType, MemoryType, FlagsType, StartDesign
<1>2. CASE SystemDesigned
  BY <1>2 DEF TypeOK, RowsType, ProcessType, MemoryType, FlagsType, SystemDesigned, Plan, Started, SliceStatus
<1>3. CASE DesignReady
  <2>1. RowsType' /\ ProcessType'
    BY <1>3 DEF TypeOK, RowsType, ProcessType, DesignReady, Move
  <2>2. MemoryType'
    BY <1>3, MemoryUpdates DEF TypeOK, RowsType, MemoryType, DesignReady, Move
  <2>3. FlagsType'
    BY <1>3, Zenon DEF TypeOK, FlagsType, DesignReady, Move
  <2> QED BY <2>1, <2>2, <2>3 DEF TypeOK
<1>4. CASE DesignFails
  <2>1. RowsType' /\ ProcessType'
    <3>1. tokens' \in 0..Fuel
      BY <1>4 DEF TypeOK, RowsType, DesignFails
    <3>2. status' \in RunStatus /\ failure' \in {"none", "design", "limit"}
      BY <1>4 DEF TypeOK, RowsType, DesignFails, Move
    <3>3. ProcessType'
      BY <1>4 DEF TypeOK, ProcessType, DesignFails, Swallow
    <3> QED BY <1>4, <3>1, <3>2, <3>3 DEF TypeOK, RowsType, DesignFails
  <2>2. MemoryType'
    BY <1>4 DEF TypeOK, MemoryType, DesignFails, Move, Swallow
  <2>3. FlagsType'
    BY <1>4, Zenon DEF TypeOK, FlagsType, DesignFails, Move, Swallow
  <2> QED BY <2>1, <2>2, <2>3 DEF TypeOK
<1> QED BY <1>1, <1>2, <1>3, <1>4 DEF Designs

\* The type invariant, through the review and its routing.
LEMMA ReviewingType == TypeOK /\ Reviewing => TypeOK'
<1> SUFFICES ASSUME TypeOK, Reviewing PROVE TypeOK'
  OBVIOUS
<1> USE ConstantsAssumption DEF runRow, store, proc, ghosts, Free
<1>1. CASE StartReview
  BY <1>1 DEF TypeOK, RowsType, ProcessType, MemoryType, FlagsType, StartReview
<1>2. CASE SendBack
  <2>1. RowsType' /\ ProcessType'
    BY <1>2, LastPassedType DEF TypeOK, RowsType, ProcessType, SendBack, Reviews, MayRefuseAgain, Move, OwesLastPassed
  <2>2. MemoryType'
    <3>1. memory.reviewRetries + 1 \in 0..ReviewRetryBudget
      BY <1>2 DEF TypeOK, MemoryType, Memory, SendBack, MayRefuseAgain
    <3> QED BY <1>2, <3>1, MemoryUpdates DEF TypeOK, MemoryType, SendBack
  <2>3. FlagsType'
    BY <1>2, LastPassedType, Zenon DEF TypeOK, FlagsType, SendBack, Reviews, MayRefuseAgain, Move, OwesLastPassed
  <2> QED BY <2>1, <2>2, <2>3 DEF TypeOK
<1>3. CASE ReviewStops
  BY <1>3, CurrentSliceType DEF TypeOK, RowsType, ProcessType, MemoryType, FlagsType, ReviewStops, Reviews, Limit, Move
<1>4. CASE ReviewIsClean
  BY <1>4 DEF TypeOK, RowsType, ProcessType, MemoryType, FlagsType, ReviewIsClean, Reviews
<1>5. CASE Deliver
  BY <1>5 DEF TypeOK, RowsType, ProcessType, MemoryType, FlagsType, Deliver
<1>6. CASE PrOpened
  BY <1>6 DEF TypeOK, RowsType, ProcessType, MemoryType, FlagsType, PrOpened, Move
<1>7. CASE PrOpenedTooLate
  <2>1. RowsType' /\ ProcessType'
    BY <1>7 DEF TypeOK, RowsType, ProcessType, PrOpenedTooLate, Swallow
  <2>2. MemoryType'
    BY <1>7 DEF TypeOK, MemoryType, PrOpenedTooLate, Swallow
  <2>3. FlagsType'
    BY <1>7, Zenon DEF TypeOK, FlagsType, PrOpenedTooLate, Swallow
  <2> QED BY <2>1, <2>2, <2>3 DEF TypeOK
<1>8. CASE NothingToDeliver
  BY <1>8 DEF TypeOK, RowsType, ProcessType, MemoryType, FlagsType, NothingToDeliver, Move
<1>9. CASE RefusedTooLate
  <2>1. RowsType' /\ ProcessType'
    BY <1>9 DEF TypeOK, RowsType, ProcessType, RefusedTooLate, Reviews, Swallow
  <2>2. MemoryType'
    <3>1. MayRefuseAgain => memory.reviewRetries + 1 \in 0..ReviewRetryBudget
      BY DEF TypeOK, MemoryType, Memory, MayRefuseAgain
    <3> QED BY <1>9, <3>1, MemoryUpdates DEF TypeOK, MemoryType, RefusedTooLate
  <2>3. FlagsType'
    BY <1>9, Zenon DEF TypeOK, FlagsType, RefusedTooLate, Reviews, Swallow
  <2> QED BY <2>1, <2>2, <2>3 DEF TypeOK
<1> QED BY <1>1, <1>2, <1>3, <1>4, <1>5, <1>6, <1>7, <1>8, <1>9 DEF Reviewing

\* The type invariant, through the decisions of a person.
LEMMA PersonType == TypeOK /\ Person => TypeOK'
<1> SUFFICES ASSUME TypeOK, Person PROVE TypeOK'
  OBVIOUS
<1> USE ConstantsAssumption DEF runRow, store, proc, ghosts, Free
<1>1. CASE RetryDesign
  <2>1. RowsType' /\ ProcessType'
    BY <1>1 DEF TypeOK, RowsType, ProcessType, RetryDesign, Decides
  <2>2. MemoryType'
    BY <1>1 DEF TypeOK, MemoryType, RetryDesign, Decides
  <2>3. FlagsType'
    BY <1>1, Zenon DEF TypeOK, FlagsType, RetryDesign, Decides
  <2> QED BY <2>1, <2>2, <2>3 DEF TypeOK
<1>2. CASE DecideDesign
  <2>1. RowsType' /\ ProcessType'
    <3>1. RowsType'
      BY <1>2 DEF TypeOK, RowsType, DecideDesign, Decides, Move
    <3>2. ProcessType'
      BY <1>2 DEF TypeOK, ProcessType, DecideDesign, Decides
    <3> QED BY <3>1, <3>2
  <2>2. MemoryType'
    <3>1. memory' \in {memory, [memory EXCEPT !.revisions = TRUE]} /\ saved' = saved
      BY <1>2 DEF DecideDesign
    <3> QED BY <3>1, MemoryUpdates DEF TypeOK, MemoryType
  <2>3. FlagsType'
    BY <1>2, Zenon DEF TypeOK, FlagsType, DecideDesign, Decides, Move
  <2> QED BY <2>1, <2>2, <2>3 DEF TypeOK
<1>3. CASE ResolveEscalation
  <2>1. RowsType' /\ ProcessType'
    BY <1>3, CurrentSliceType DEF TypeOK, RowsType, ProcessType, ResolveEscalation, Decides, Resolve, StillOpen, SliceOf, Ticked, EscalationChoice
  <2>2. MemoryType'
    BY <1>3, CurrentSliceType DEF TypeOK, MemoryType, ResolveEscalation, Decides, Resolve, StillOpen, SliceOf, Ticked, EscalationChoice
  <2>3. FlagsType'
    BY <1>3, CurrentSliceType, Zenon DEF TypeOK, FlagsType, ResolveEscalation, Decides, Resolve, StillOpen, SliceOf, Ticked, EscalationChoice
  <2> QED BY <2>1, <2>2, <2>3 DEF TypeOK
<1>4. CASE DecidePullRequest
  <2>1. RowsType' /\ ProcessType'
    BY <1>4 DEF TypeOK, RowsType, ProcessType, DecidePullRequest, Decides
  <2>2. MemoryType'
    BY <1>4 DEF TypeOK, MemoryType, DecidePullRequest, Decides
  <2>3. FlagsType'
    BY <1>4, Zenon DEF TypeOK, FlagsType, DecidePullRequest, Decides
  <2> QED BY <2>1, <2>2, <2>3 DEF TypeOK
<1>5. CASE Abort
  <2>1. RowsType' /\ ProcessType'
    BY <1>5 DEF TypeOK, RowsType, ProcessType, Abort, AbortAsksAdvance
  <2>2. MemoryType'
    BY <1>5 DEF TypeOK, MemoryType, Abort, AbortAsksAdvance
  <2>3. FlagsType'
    BY <1>5, Zenon DEF TypeOK, FlagsType, Abort, AbortAsksAdvance
  <2> QED BY <2>1, <2>2, <2>3 DEF TypeOK
<1>6. CASE AbortEscalated
  <2>1. RowsType' /\ ProcessType'
    BY <1>6, CurrentSliceType DEF TypeOK, RowsType, ProcessType, AbortEscalated, AbortAsksAdvance, Resolve, StillOpen, SliceOf, Ticked, EscalationChoice
  <2>2. MemoryType'
    BY <1>6, CurrentSliceType DEF TypeOK, MemoryType, AbortEscalated, AbortAsksAdvance, Resolve, StillOpen, SliceOf, Ticked, EscalationChoice
  <2>3. FlagsType'
    BY <1>6, CurrentSliceType, Zenon DEF TypeOK, FlagsType, AbortEscalated, AbortAsksAdvance, Resolve, StillOpen, SliceOf, Ticked, EscalationChoice
  <2> QED BY <2>1, <2>2, <2>3 DEF TypeOK
<1> QED BY <1>1, <1>2, <1>3, <1>4, <1>5, <1>6 DEF Person

\* The Slice that stops the Run is one of the batch.
LEMMA DriverType == Drivers # {} => Driver \in Drivers /\ Drivers \subseteq Slice
<1> SUFFICES ASSUME Drivers # {} PROVE Driver \in Drivers /\ Drivers \subseteq Slice
  OBVIOUS
<1>1. Drivers \in SUBSET Nat /\ Drivers \subseteq Slice
  BY ConstantsAssumption DEF Drivers, Came, Slice
<1>2. \E s \in Drivers : \A t \in Drivers : s <= t
  BY <1>1, LeastNatural
<1> QED BY <1>1, <1>2 DEF Driver

\* The type invariant, through every step of one Slice's run.
LEMMA SliceRunType == ASSUME TypeOK, NEW s \in Slice, SliceRun(s) PROVE TypeOK'
<1> USE ConstantsAssumption DEF runRow, store, proc, ghosts, Free
<1>1. CASE SliceTests(s)
  BY <1>1 DEF TypeOK, RowsType, ProcessType, MemoryType, FlagsType, SliceTests, Running, Codes, SliceStatus
<1>2. CASE SliceStepStops(s)
  BY <1>2 DEF TypeOK, RowsType, ProcessType, MemoryType, FlagsType, SliceStepStops, Running, Codes
<1>3. CASE SliceRetries(s)
  <2>1. RowsType' /\ ProcessType'
    BY <1>3 DEF TypeOK, RowsType, ProcessType, SliceRetries, Running, Codes, SliceStatus
  <2>2. MemoryType'
    <3>1. /\ memory' = [memory EXCEPT !.histories = memory.histories \cup {s},
                                      !.hints = memory.hints \ {s}]
          /\ saved' = saved
      BY <1>3 DEF SliceRetries
    <3>2. memory.histories \cup {s} \in SUBSET Slice /\ memory.hints \ {s} \in SUBSET Slice
      BY MemoryUpdates DEF TypeOK, MemoryType
    <3> DEFINE failed == [memory EXCEPT !.histories = memory.histories \cup {s}]
    <3>3. failed \in Memory /\ memory.hints \ {s} \in SUBSET Slice
      BY <3>2, MemoryUpdates DEF TypeOK, MemoryType
    <3> HIDE DEF failed
    <3>4. [failed EXCEPT !.hints = memory.hints \ {s}] \in Memory
      BY <3>3, MemoryUpdates
    <3> QED BY <3>1, <3>4 DEF TypeOK, MemoryType, failed
  <2>3. FlagsType'
    BY <1>3, Zenon DEF TypeOK, FlagsType, SliceRetries, Running, Codes, SliceStatus
  <2> QED BY <2>1, <2>2, <2>3 DEF TypeOK
<1>4. CASE SliceCommits(s)
  BY <1>4 DEF TypeOK, RowsType, ProcessType, MemoryType, FlagsType, SliceCommits, Running
<1>5. CASE SlicePasses(s)
  <2>1. RowsType' /\ ProcessType'
    BY <1>5 DEF TypeOK, RowsType, ProcessType, SlicePasses, SliceStatus
  <2>2. MemoryType'
    BY <1>5, MemoryUpdates DEF TypeOK, RowsType, MemoryType, SlicePasses, SliceStatus
  <2>3. FlagsType'
    BY <1>5, Zenon DEF TypeOK, FlagsType, SlicePasses, SliceStatus
  <2> QED BY <2>1, <2>2, <2>3 DEF TypeOK
<1>6. CASE SliceEscalates(s)
  BY <1>6 DEF TypeOK, RowsType, ProcessType, MemoryType, FlagsType, SliceEscalates, Running, Codes, SliceStatus
<1>7. CASE SliceNeedsRedesign(s)
  BY <1>7 DEF TypeOK, RowsType, ProcessType, MemoryType, FlagsType, SliceNeedsRedesign, Running, SliceStatus
<1>8. CASE SliceThrows(s)
  BY <1>8 DEF TypeOK, RowsType, ProcessType, MemoryType, FlagsType, SliceThrows, Running
<1>9. CASE CommitIsMade(s)
  BY <1>9 DEF TypeOK, RowsType, ProcessType, MemoryType, FlagsType, CommitIsMade
<1> QED BY SliceRun(s), <1>1, <1>2, <1>3, <1>4, <1>5, <1>6, <1>7, <1>8, <1>9 DEF SliceRun

\* The type invariant, through the building of a batch.
LEMMA BuildsType == TypeOK /\ Builds => TypeOK'
<1> SUFFICES ASSUME TypeOK, Builds PROVE TypeOK'
  OBVIOUS
<1> USE ConstantsAssumption DEF runRow, store, proc, ghosts, Free
<1>1. CASE AllSlicesCommitted
  BY <1>1 DEF TypeOK, RowsType, ProcessType, MemoryType, FlagsType, AllSlicesCommitted, Move
<1>2. CASE SliceNotPlanned
  BY <1>2, CurrentSliceType DEF TypeOK, RowsType, ProcessType, MemoryType, FlagsType, SliceNotPlanned, Limit, Move
<1>3. CASE StartBatch
  BY <1>3 DEF TypeOK, RowsType, ProcessType, MemoryType, FlagsType, StartBatch, SliceStatus
<1>4. CASE KeepOutcomes
  <2>1. RowsType' /\ ProcessType'
    BY <1>4 DEF TypeOK, RowsType, ProcessType, KeepOutcomes, KeptHints, SavesMemory, Drivers, Came
  <2>2. MemoryType'
    BY <1>4, MemoryUpdates DEF TypeOK, RowsType, MemoryType, KeepOutcomes, KeptHints, SavesMemory, Drivers, Came
  <2>3. FlagsType'
    BY <1>4, Zenon DEF TypeOK, FlagsType, KeepOutcomes, KeptHints, SavesMemory, Drivers, Came
  <2> QED BY <2>1, <2>2, <2>3 DEF TypeOK
<1>5. CASE BatchThrows
  <2>1. RowsType' /\ ProcessType'
    BY <1>5 DEF TypeOK, RowsType, ProcessType, BatchThrows, Swallow, Throw, BatchDone
  <2>2. MemoryType'
    BY <1>5 DEF TypeOK, MemoryType, BatchThrows, Swallow, Throw, BatchDone
  <2>3. FlagsType'
    BY <1>5, Zenon DEF TypeOK, FlagsType, BatchThrows, Swallow, Throw, BatchDone
  <2> QED BY <2>1, <2>2, <2>3 DEF TypeOK
<1>6. CASE BatchPasses
  BY <1>6 DEF TypeOK, RowsType, ProcessType, MemoryType, FlagsType, BatchPasses, BatchDone
<1>7. CASE BatchEscalates
  BY <1>7, DriverType DEF TypeOK, RowsType, ProcessType, MemoryType, FlagsType, BatchEscalates, Stops, Limit, Move, BatchDone
<1>8. CASE BatchEscalatesTooLate
  <2>1. RowsType' /\ ProcessType'
    BY <1>8 DEF TypeOK, RowsType, ProcessType, BatchEscalatesTooLate, Stops, Swallow, BatchDone
  <2>2. MemoryType'
    BY <1>8 DEF TypeOK, MemoryType, BatchEscalatesTooLate, Stops, Swallow, BatchDone
  <2>3. FlagsType'
    BY <1>8, Zenon DEF TypeOK, FlagsType, BatchEscalatesTooLate, Stops, Swallow, BatchDone
  <2> QED BY <2>1, <2>2, <2>3 DEF TypeOK
<1>9. CASE BatchNeedsRedesign
  <2>1. RowsType' /\ ProcessType'
    BY <1>9, DriverType DEF TypeOK, RowsType, ProcessType, BatchNeedsRedesign, Stops, Move, BatchDone
  <2>2. MemoryType'
    BY <1>9, DriverType, MemoryUpdates DEF TypeOK, RowsType, MemoryType, BatchNeedsRedesign, Stops, Move, BatchDone
  <2>3. FlagsType'
    BY <1>9, DriverType, Zenon DEF TypeOK, FlagsType, BatchNeedsRedesign, Stops, Move, BatchDone
  <2> QED BY <2>1, <2>2, <2>3 DEF TypeOK
<1>10. CASE \E s \in Slice : SliceRun(s)
  BY <1>10, SliceRunType
<1> QED BY <1>1, <1>2, <1>3, <1>4, <1>5, <1>6, <1>7, <1>8, <1>9, <1>10 DEF Builds

\* Every variable keeps its type, whatever the process, the person and the
\* faults do.
THEOREM TypeCorrect == Spec => []TypeOK
<1>1. Init => TypeOK
  <2> SUFFICES ASSUME Init PROVE TypeOK
    OBVIOUS
  <2>1. EmptyMemory \in Memory
    BY ConstantsAssumption DEF EmptyMemory, Memory
  <2>2. RowsType /\ ProcessType
    BY ConstantsAssumption DEF Init, RowsType, ProcessType, RunStatus
  <2>3. MemoryType /\ FlagsType
    BY <2>1 DEF Init, MemoryType, FlagsType
  <2> QED BY <2>2, <2>3 DEF TypeOK
<1>2. TypeOK /\ [Next]_vars => TypeOK'
  <2> SUFFICES ASSUME TypeOK, [Next]_vars PROVE TypeOK'
    OBVIOUS
  <2> USE ConstantsAssumption DEF runRow, store, proc, ghosts
  <2>1. CASE Restart
    <3>1. RowsType' /\ ProcessType' /\ MemoryType'
      BY <2>1 DEF TypeOK, RowsType, ProcessType, MemoryType, Restart
    <3>2. FlagsType'
      BY <2>1, Zenon DEF TypeOK, FlagsType, Restart
    <3> QED BY <3>1, <3>2 DEF TypeOK
  <2>2. CASE AwaitAborted
    <3>1. RowsType' /\ ProcessType'
      BY <2>2 DEF TypeOK, RowsType, ProcessType, AwaitAborted, Swallow
    <3>2. MemoryType'
      BY <2>2 DEF TypeOK, MemoryType, AwaitAborted, Swallow
    <3>3. FlagsType'
      BY <2>2, Zenon DEF TypeOK, FlagsType, AwaitAborted, Swallow
    <3> QED BY <3>1, <3>2, <3>3 DEF TypeOK
  <2>3. CASE Process
    BY <2>1, <2>2, <2>3, LooksType, SynchronousType, DesignsType, BuildsType, ReviewingType
       DEF Process
  <2>4. CASE Person
    BY <2>4, PersonType
  <2>5. CASE AwaitFails
    <3>1. RowsType' /\ ProcessType'
      BY <2>5 DEF TypeOK, RowsType, ProcessType, AwaitFails, Throw
    <3>2. MemoryType'
      BY <2>5 DEF TypeOK, MemoryType, AwaitFails, Throw
    <3>3. FlagsType'
      BY <2>5, Zenon DEF TypeOK, FlagsType, AwaitFails, Throw
    <3> QED BY <3>1, <3>2, <3>3 DEF TypeOK
  <2>6. CASE Crash
    <3>1. EmptyMemory \in Memory
      BY DEF EmptyMemory, Memory
    <3>2. RowsType' /\ ProcessType'
      BY <2>6 DEF TypeOK, RowsType, ProcessType, Crash
    <3>3. MemoryType'
      BY <2>6, <3>1 DEF TypeOK, MemoryType, Crash
    <3>4. FlagsType'
      BY <2>6, Zenon DEF TypeOK, FlagsType, Crash
    <3> QED BY <3>2, <3>3, <3>4 DEF TypeOK
  <2>7. CASE UNCHANGED vars
    <3>1. RowsType'
      BY <2>7 DEF TypeOK, RowsType, vars
    <3>2. ProcessType'
      BY <2>7 DEF TypeOK, ProcessType, vars
    <3>3. MemoryType'
      BY <2>7 DEF TypeOK, MemoryType, vars
    <3>4. FlagsType'
      BY <2>7, ZenonT(30) DEF TypeOK, FlagsType, vars
    <3> QED BY <3>1, <3>2, <3>3, <3>4 DEF TypeOK
  <2> QED BY <2>3, <2>4, <2>5, <2>6, <2>7 DEF Next
<1> QED BY <1>1, <1>2, PTL DEF Spec

-----------------------------------------------------------------------------
\* The inductive invariant behind the Gates, the Escalations and the review.

\* What the loop awaits goes with the Run's status, an abort excepted.
LoopFitsStatus ==
    /\ loop \in {"design", "designUi"} => status \in {"designing", "aborted"}
    /\ loop = "build" => status \in {"building", "aborted"}
    /\ loop \in {"review", "deliver"} => status \in {"reviewing", "aborted"}
    /\ loop = "owed" => status \in {"failed", "aborted"}

\* So does the transaction a synchronous stretch commits next.
StretchFitsStatus ==
    /\ at \in EscalationChoice \cup {"openEscalation"} => status = "escalated"
    /\ at \in {"prApproved", "prChangesRequested"} => status = "awaitingPrGate" /\ gates = {}
    /\ at = "openPrGate" => status = "awaitingPrGate"
    /\ at \in {"reopenLast", "skip"} => status = "building"
    /\ at = "edit" => status = "designing"
    /\ at = "settled" => loop = "build"
    /\ at = "prOpened" => loop = "deliver"
    /\ at = "applyAborted" => status \notin Finished \cup {"escalated"}
    /\ loop = "down" => at = "free"

\* A stretch that no loop waits for was a person's, who asked for advance.
StretchAsksAdvance == at # "free" /\ loop = "off" => called = TRUE

GatesFitStatus ==
    /\ status \notin {"aborted", "awaitingDesignGate", "awaitingPrGate"} => gates = {}
    /\ status = "awaitingDesignGate" => gates = {"design"}
    /\ status = "awaitingPrGate" => gates \subseteq {"pr"}

\* No loop, no stretch and no call would open the PR Gate: it is open.
PrGateIsAnswerable ==
    status = "awaitingPrGate" /\ loop = "off" /\ at = "free" /\ called = FALSE => gates = {"pr"}

EscalationsFitStatus ==
    /\ escalations # {} => status = "escalated"
    /\ \A e, f \in escalations : e = f
    /\ at \in EscalationChoice \cup {"openEscalation"} => escalations = {}

BuiltFitsStatus ==
    status \in {"reviewing", "awaitingPrGate", "done"} => \A s \in Slice : ~Unfinished(s)

ControlFits == LoopFitsStatus /\ StretchFitsStatus /\ StretchAsksAdvance

GatesFit == GatesFitStatus /\ PrGateIsAnswerable

\* Only a stretch that ends by writing a Checkpoint is ahead of the last one, and a
\* review that refused the code of an aborted Run.
SavedFits ==
    loop # "down" /\ at \notin {"checkpoint", "reopenLast", "skip", "edit"}
      => \/ saved = memory
         \/ /\ status = "aborted" /\ loop \in {"look", "off", "owed"} /\ at = "free"
            /\ memory = [saved EXCEPT !.reviewRetries = @ + 1]

\* Slice runs are the batch's, and what a running one depends on is finished.
JobsFit ==
    /\ loop # "build" => \A s \in Slice : job[s] = "none"
    /\ at = "reopenLast" => loop # "build"
    /\ \A s \in Slice : job[s] = "running" => \A t \in DependsOn[s] : ~Unfinished(t)

Fits == /\ ControlFits /\ GatesFit /\ EscalationsFitStatus /\ BuiltFitsStatus
        /\ SavedFits /\ JobsFit

RunInv == TypeOK /\ Fits

\* Where each event of the Run leads from, and to.
LEMMA Moves ==
    ASSUME mode \in RunMode
    PROVE
    /\ Move("documentsReady")
         => status = "designing" /\ status' = IF mode = "gated" THEN "awaitingDesignGate" ELSE "building"
    /\ Move("issueOwnedByDesignAgent") => status = "building" /\ status' = "designing"
    /\ Move("allSlicesCommitted") => status = "building" /\ status' = "reviewing"
    /\ Move("blockingFindings") => status = "reviewing" /\ status' = "building"
    /\ Move("prOpened")
         => status = "reviewing" /\ status' = IF mode = "gated" THEN "awaitingPrGate" ELSE "done"
    /\ Move("nothingToDeliver") => status = "reviewing" /\ status' = "done"
    /\ \A t \in EscalationTrigger :
         Move(t) => /\ status \in {"building", "reviewing"}
                    /\ status' = IF mode = "gated" THEN "escalated" ELSE "failed"
    /\ Move("designFailed") => status = "designing" /\ status' = "failed"
    /\ Move("aborted") => status \notin Finished \cup {"escalated"} /\ status' = "aborted"
    /\ Move("designApproved") => status = "awaitingDesignGate" /\ status' = "building"
    /\ Move("designChangesRequested") => status = "awaitingDesignGate" /\ status' = "designing"
    /\ Move("prApproved") => status = "awaitingPrGate" /\ status' = "done"
    /\ Move("prChangesRequested") => status = "awaitingPrGate" /\ status' = "building"
    /\ \A c \in EscalationChoice :
         Move(c) => status = "escalated" /\ status' = EscalationTarget[c]
<1> USE DEF Move, RunArrow, RunMode, EscalationTrigger, ReviewLimit,
                                EscalationChoice, EscalationTarget, RunStatus, Finished
<1>1. Move("documentsReady")
          => status = "designing" /\ status' = IF mode = "gated" THEN "awaitingDesignGate" ELSE "building"
  OBVIOUS
<1>2. Move("issueOwnedByDesignAgent") => status = "building" /\ status' = "designing"
  OBVIOUS
<1>3. Move("allSlicesCommitted") => status = "building" /\ status' = "reviewing"
  OBVIOUS
<1>4. Move("blockingFindings") => status = "reviewing" /\ status' = "building"
  OBVIOUS
<1>5. Move("prOpened")
          => status = "reviewing" /\ status' = IF mode = "gated" THEN "awaitingPrGate" ELSE "done"
  OBVIOUS
<1>6. Move("nothingToDeliver") => status = "reviewing" /\ status' = "done"
  OBVIOUS
<1>7. \A t \in EscalationTrigger :
          Move(t) => /\ status \in {"building", "reviewing"}
          /\ status' = IF mode = "gated" THEN "escalated" ELSE "failed"
  OBVIOUS
<1>8. Move("designFailed") => status = "designing" /\ status' = "failed"
  OBVIOUS
<1>9. Move("aborted") => status \notin Finished \cup {"escalated"} /\ status' = "aborted"
  OBVIOUS
<1>10. Move("designApproved") => status = "awaitingDesignGate" /\ status' = "building"
  OBVIOUS
<1>11. Move("designChangesRequested") => status = "awaitingDesignGate" /\ status' = "designing"
  OBVIOUS
<1>12. Move("prApproved") => status = "awaitingPrGate" /\ status' = "done"
  OBVIOUS
<1>13. Move("prChangesRequested") => status = "awaitingPrGate" /\ status' = "building"
  OBVIOUS
<1>14. \A c \in EscalationChoice :
          Move(c) => status = "escalated" /\ status' = EscalationTarget[c]
  OBVIOUS
<1> QED BY <1>1, <1>2, <1>3, <1>4, <1>5, <1>6, <1>7, <1>8, <1>9, <1>10, <1>11, <1>12, <1>13, <1>14

\* What a Slice of the next batch depends on is finished, and not in the batch.
LEMMA NextBatchReady ==
    ASSUME CurrentSlice # 0, NEW s \in NextBatch \cap Slice, NEW t \in DependsOn[s]
    PROVE  ~Unfinished(t) /\ t \in Slice /\ t \notin NextBatch
<1>1. t \in Slice /\ t < s
  BY ConstantsAssumption DEF Slice
<1>2. /\ CurrentSlice \in Slice /\ Unfinished(CurrentSlice)
      /\ \A u \in Slice : Unfinished(u) => CurrentSlice <= u
  BY CurrentSliceLeast
<1>3. ~Unfinished(t)
  <2>1. CASE s = CurrentSlice
    BY <1>1, <1>2, <2>1, ConstantsAssumption DEF Slice
  <2>2. CASE s # CurrentSlice
    <3>1. s \in Joinable
      BY <2>2 DEF NextBatch
    <3>2. DependsOn[s] \subseteq Passed
      BY <3>1 DEF Joinable
    <3> QED BY <3>2 DEF Passed, Unfinished
  <2> QED BY <2>1, <2>2
<1>4. t \notin NextBatch
  BY <1>2, <1>3 DEF NextBatch, Joinable
<1> QED BY <1>1, <1>3, <1>4

\* Looks: none of its actions disturbs the invariant.
LEMMA LooksFits == RunInv /\ Looks => Fits'
<1> SUFFICES ASSUME RunInv, Looks PROVE Fits'
  OBVIOUS
<1> USE DEF runRow, store, proc, ghosts, Free, Finished, EscalationChoice, RunInv, Fits, ControlFits,
           LoopFitsStatus, StretchFitsStatus, StretchAsksAdvance, GatesFit, GatesFitStatus,
           PrGateIsAnswerable, EscalationsFitStatus, BuiltFitsStatus, Unfinished, RowsType,
           SavedFits, JobsFit, EscalationTrigger, ReviewLimit, EscalationTarget
<1>0. TypeOK /\ RowsType /\ mode \in RunMode
  BY ConstantsAssumption DEF RunInv, TypeOK, RowsType
<1>1. CASE StartAdvance
  BY <1>1, <1>0 DEF StartAdvance
<1>2. CASE WaitForPerson
  BY <1>2, <1>0 DEF WaitForPerson, WaitsForDesignRetry
<1>3. CASE WaitAtPrGate
  <2>1. gates = {} \/ gates = {"pr"}
    BY <1>3 DEF WaitAtPrGate
  <2> QED BY <1>3, <1>0, <2>1 DEF WaitAtPrGate, ReopenedGate
<1>4. CASE EscalationMissing
  BY <1>4, <1>0 DEF EscalationMissing, Throw
<1>5. CASE StartBrief
  BY <1>5, <1>0 DEF StartBrief
<1>6. CASE EndBrief
  BY <1>6, <1>0 DEF EndBrief
<1>7. CASE StartOwedDelivery
  BY <1>7, <1>0 DEF StartOwedDelivery
<1>8. CASE EndOwedDelivery
  BY <1>8, <1>0 DEF EndOwedDelivery
<1> QED BY <1>1, <1>2, <1>3, <1>4, <1>5, <1>6, <1>7, <1>8 DEF Looks

\* Synchronous: none of its actions disturbs the invariant.
LEMMA SynchronousFits == RunInv /\ Synchronous => Fits'
<1> SUFFICES ASSUME RunInv, Synchronous PROVE Fits'
  OBVIOUS
<1> USE DEF runRow, store, proc, ghosts, Free, Finished, EscalationChoice, RunInv, Fits, ControlFits,
           LoopFitsStatus, StretchFitsStatus, StretchAsksAdvance, GatesFit, GatesFitStatus,
           PrGateIsAnswerable, EscalationsFitStatus, BuiltFitsStatus, Unfinished, RowsType,
           SavedFits, JobsFit, EscalationTrigger, ReviewLimit, EscalationTarget
<1>0. TypeOK /\ RowsType /\ mode \in RunMode
  BY ConstantsAssumption DEF RunInv, TypeOK, RowsType
<1>1. CASE Checkpoint
  BY <1>1, <1>0 DEF Checkpoint
<1>2. CASE OpenEscalation
  BY <1>2, <1>0 DEF OpenEscalation
<1>3. CASE RecordFailure
  BY <1>3, <1>0 DEF RecordFailure
<1>4. CASE ReopenLast
  BY <1>4, <1>0, LastPassedType DEF ReopenLast, TellsLastPassed
<1>5. CASE OpenPrGate
  BY <1>5, <1>0 DEF OpenPrGate
<1>6. CASE ApplyResolution
  BY <1>6, <1>0, Moves DEF ApplyResolution, EscalationChoice
<1>7. CASE SkipSlice
  BY <1>7, <1>0, ConstantsAssumption DEF SkipSlice
<1>8. CASE EditDocuments
  BY <1>8, <1>0 DEF EditDocuments
<1>9. CASE ApplyPrDecision
  BY <1>9, <1>0, Moves, LastPassedType DEF ApplyPrDecision, OwesLastPassed
<1>10. CASE ApplyAborted
  BY <1>10, <1>0, Moves DEF ApplyAborted
<1> QED BY <1>1, <1>2, <1>3, <1>4, <1>5, <1>6, <1>7, <1>8, <1>9, <1>10 DEF Synchronous

\* Designs: none of its actions disturbs the invariant.
LEMMA DesignsFits == RunInv /\ Designs => Fits'
<1> SUFFICES ASSUME RunInv, Designs PROVE Fits'
  OBVIOUS
<1> USE DEF runRow, store, proc, ghosts, Free, Finished, EscalationChoice, RunInv, Fits, ControlFits,
           LoopFitsStatus, StretchFitsStatus, StretchAsksAdvance, GatesFit, GatesFitStatus,
           PrGateIsAnswerable, EscalationsFitStatus, BuiltFitsStatus, Unfinished, RowsType,
           SavedFits, JobsFit, EscalationTrigger, ReviewLimit, EscalationTarget
<1>0. TypeOK /\ RowsType /\ mode \in RunMode
  BY ConstantsAssumption DEF RunInv, TypeOK, RowsType
<1>1. CASE StartDesign
  BY <1>1, <1>0 DEF StartDesign
<1>2. CASE SystemDesigned
  BY <1>2, <1>0 DEF SystemDesigned, Plan, Started
<1>3. CASE DesignReady
  <2>1. /\ status = "designing" /\ loop' = "look" /\ at' = "checkpoint" /\ job' = job
        /\ slice' = slice /\ escalations' = escalations
    BY <1>3, <1>0, Moves DEF DesignReady
  <2>2. CASE mode = "gated"
    <3>1. status' = "awaitingDesignGate" /\ gates' = {"design"}
      BY <1>3, <1>0, <2>2, Moves DEF DesignReady
    <3> QED BY <1>0, <2>1, <3>1
  <2>3. CASE mode # "gated"
    <3>1. status' = "building" /\ gates' = {}
      BY <1>3, <1>0, <2>3, Moves DEF DesignReady, RunMode
    <3> QED BY <1>0, <2>1, <3>1
  <2> QED BY <2>2, <2>3
<1>4. CASE DesignFails
  BY <1>4, <1>0, Moves DEF DesignFails, Swallow
<1> QED BY <1>1, <1>2, <1>3, <1>4 DEF Designs

\* Reviewing: none of its actions disturbs the invariant.
LEMMA ReviewingFits == RunInv /\ Reviewing => Fits'
<1> SUFFICES ASSUME RunInv, Reviewing PROVE Fits'
  OBVIOUS
<1> USE DEF runRow, store, proc, ghosts, Free, Finished, EscalationChoice, RunInv, Fits, ControlFits,
           LoopFitsStatus, StretchFitsStatus, StretchAsksAdvance, GatesFit, GatesFitStatus,
           PrGateIsAnswerable, EscalationsFitStatus, BuiltFitsStatus, Unfinished, RowsType,
           SavedFits, JobsFit, EscalationTrigger, ReviewLimit, EscalationTarget
<1>0. TypeOK /\ RowsType /\ mode \in RunMode
  BY ConstantsAssumption DEF RunInv, TypeOK, RowsType
<1>1. CASE StartReview
  BY <1>1, <1>0 DEF StartReview
<1>2. CASE SendBack
  BY <1>2, <1>0, Moves, LastPassedType DEF SendBack, Reviews, MayRefuseAgain, OwesLastPassed
<1>3. CASE ReviewStops
  BY <1>3, <1>0, Moves, CurrentSliceType DEF ReviewStops, Reviews, Limit
<1>4. CASE ReviewIsClean
  BY <1>4, <1>0 DEF ReviewIsClean, Reviews
<1>5. CASE Deliver
  BY <1>5, <1>0 DEF Deliver
<1>6. CASE PrOpened
  BY <1>6, <1>0, Moves DEF PrOpened
<1>7. CASE PrOpenedTooLate
  BY <1>7, <1>0 DEF PrOpenedTooLate, Swallow
<1>8. CASE NothingToDeliver
  BY <1>8, <1>0, Moves DEF NothingToDeliver
<1>9. CASE RefusedTooLate
  BY <1>9, <1>0 DEF RefusedTooLate, Reviews, Swallow
<1> QED BY <1>1, <1>2, <1>3, <1>4, <1>5, <1>6, <1>7, <1>8, <1>9 DEF Reviewing

\* Person: none of its actions disturbs the invariant.
LEMMA PersonFits == RunInv /\ Person => Fits'
<1> SUFFICES ASSUME RunInv, Person PROVE Fits'
  OBVIOUS
<1> USE DEF runRow, store, proc, ghosts, Free, Finished, EscalationChoice, RunInv, Fits, ControlFits,
           LoopFitsStatus, StretchFitsStatus, StretchAsksAdvance, GatesFit, GatesFitStatus,
           PrGateIsAnswerable, EscalationsFitStatus, BuiltFitsStatus, Unfinished, RowsType,
           SavedFits, JobsFit, EscalationTrigger, ReviewLimit, EscalationTarget
<1>0. TypeOK /\ RowsType /\ mode \in RunMode
  BY ConstantsAssumption DEF RunInv, TypeOK, RowsType
<1>1. CASE RetryDesign
  BY <1>1, <1>0 DEF RetryDesign, Decides
<1>2. CASE DecideDesign
  BY <1>2, <1>0, Moves DEF DecideDesign, Decides
<1>3. CASE ResolveEscalation
  BY <1>3, <1>0, CurrentSliceType DEF ResolveEscalation, Decides, Resolve, StillOpen, SliceOf, Ticked, EscalationChoice
<1>4. CASE DecidePullRequest
  BY <1>4, <1>0 DEF DecidePullRequest, Decides
<1>5. CASE Abort
  BY <1>5, <1>0 DEF Abort, AbortAsksAdvance
<1>6. CASE AbortEscalated
  <2>1. /\ status' = status /\ status = "escalated" /\ loop' = loop /\ loop # "down" /\ at = "free" /\ at' = "abort"
        /\ gates' = gates /\ slice' = slice /\ job' = job /\ saved' = saved /\ memory' = memory
    BY <1>6 DEF AbortEscalated, Resolve
  <2>2. escalations' = {}
    BY <1>6 DEF AbortEscalated, Resolve, StillOpen
  <2>3. loop = "off" => called' = TRUE
    BY <1>6, Zenon DEF AbortEscalated, AbortAsksAdvance
  <2>4. ControlFits'
    <3>1. LoopFitsStatus' /\ StretchFitsStatus'
      BY <2>1
    <3>2. StretchAsksAdvance'
      BY <2>1, <2>3, Zenon DEF StretchAsksAdvance
    <3> QED BY <3>1, <3>2, Zenon DEF ControlFits
  <2>5. GatesFit'
    BY <2>1
  <2>6. BuiltFitsStatus' /\ SavedFits' /\ JobsFit'
    BY <2>1
  <2> QED BY <2>2, <2>4, <2>5, <2>6
<1> QED BY <1>1, <1>2, <1>3, <1>4, <1>5, <1>6 DEF Person

\* No step of a Slice's run disturbs the invariant.
LEMMA SliceRunFits == ASSUME RunInv, NEW s \in Slice, SliceRun(s) PROVE Fits'
<1> USE DEF runRow, store, proc, ghosts, Free, Finished, EscalationChoice, RunInv, Fits, ControlFits,
           LoopFitsStatus, StretchFitsStatus, StretchAsksAdvance, GatesFit, GatesFitStatus,
           PrGateIsAnswerable, EscalationsFitStatus, BuiltFitsStatus, Unfinished, RowsType,
           SavedFits, JobsFit, EscalationTrigger, ReviewLimit, EscalationTarget
<1>0. TypeOK /\ RowsType /\ mode \in RunMode
  BY ConstantsAssumption DEF RunInv, TypeOK, RowsType
<1>1. CASE SliceTests(s)
  BY <1>1, <1>0 DEF SliceTests, Running, Codes
<1>2. CASE SliceStepStops(s)
  BY <1>2, <1>0 DEF SliceStepStops, Running, Codes
<1>3. CASE SliceRetries(s)
  BY <1>3, <1>0 DEF SliceRetries, Running, Codes
<1>4. CASE SliceCommits(s)
  BY <1>4, <1>0 DEF SliceCommits, Running
<1>5. CASE SlicePasses(s)
  BY <1>5, <1>0 DEF SlicePasses
<1>6. CASE SliceEscalates(s)
  BY <1>6, <1>0 DEF SliceEscalates, Running, Codes
<1>7. CASE SliceNeedsRedesign(s)
  BY <1>7, <1>0 DEF SliceNeedsRedesign, Running
<1>8. CASE SliceThrows(s)
  BY <1>8, <1>0 DEF SliceThrows, Running
<1>9. CASE CommitIsMade(s)
  BY <1>9, <1>0 DEF CommitIsMade
<1> QED BY SliceRun(s), <1>1, <1>2, <1>3, <1>4, <1>5, <1>6, <1>7, <1>8, <1>9 DEF SliceRun

\* Builds: none of its actions disturbs the invariant.
LEMMA BuildsFits == RunInv /\ Builds => Fits'
<1> SUFFICES ASSUME RunInv, Builds PROVE Fits'
  OBVIOUS
<1> USE DEF runRow, store, proc, ghosts, Free, Finished, EscalationChoice, RunInv, Fits, ControlFits,
           LoopFitsStatus, StretchFitsStatus, StretchAsksAdvance, GatesFit, GatesFitStatus,
           PrGateIsAnswerable, EscalationsFitStatus, BuiltFitsStatus, Unfinished, RowsType,
           SavedFits, JobsFit, EscalationTrigger, ReviewLimit, EscalationTarget
<1>0. TypeOK /\ RowsType /\ mode \in RunMode
  BY ConstantsAssumption DEF RunInv, TypeOK, RowsType
<1>1. CASE AllSlicesCommitted
  BY <1>1, <1>0, Moves, CurrentSliceType DEF AllSlicesCommitted
<1>2. CASE SliceNotPlanned
  BY <1>2, <1>0, Moves, CurrentSliceType DEF SliceNotPlanned, Limit
<1>3. CASE StartBatch
  <2>1. \A s \in Slice : job'[s] = "running" => \A t \in DependsOn[s] : ~Unfinished(t)'
    <3>1. SUFFICES ASSUME NEW s \in Slice, job'[s] = "running", NEW t \in DependsOn[s]
                   PROVE  ~Unfinished(t)'
      OBVIOUS
    <3>2. s \in NextBatch
      BY <1>3, <3>1 DEF StartBatch
    <3>3. CurrentSlice # 0
      BY <1>3, <1>0, ConstantsAssumption DEF StartBatch, Slice
    <3>4. ~Unfinished(t) /\ t \in Slice /\ t \notin NextBatch
      <4> HIDE DEF Unfinished
      <4> QED BY <3>1, <3>2, <3>3, NextBatchReady
    <3> QED BY <1>3, <3>4 DEF StartBatch
  <2> QED BY <1>3, <1>0, <2>1 DEF StartBatch
<1>4. CASE KeepOutcomes
  BY <1>4, <1>0 DEF KeepOutcomes, KeptHints, SavesMemory, Drivers, Came
<1>5. CASE BatchThrows
  BY <1>5, <1>0 DEF BatchThrows, Swallow, Throw, BatchDone
<1>6. CASE BatchPasses
  BY <1>6, <1>0 DEF BatchPasses, BatchDone
<1>7. CASE BatchEscalates
  BY <1>7, <1>0, Moves, DriverType DEF BatchEscalates, Stops, Limit, BatchDone
<1>8. CASE BatchEscalatesTooLate
  BY <1>8, <1>0 DEF BatchEscalatesTooLate, Stops, Swallow, BatchDone
<1>9. CASE BatchNeedsRedesign
  BY <1>9, <1>0, Moves, DriverType DEF BatchNeedsRedesign, Stops, BatchDone
<1>10. CASE \E s \in Slice : SliceRun(s)
  BY <1>10, SliceRunFits
<1> QED BY <1>1, <1>2, <1>3, <1>4, <1>5, <1>6, <1>7, <1>8, <1>9, <1>10 DEF Builds

\* Nor does a fault, a death of the process or its restart.
LEMMA FaultsFit == RunInv /\ (Restart \/ AwaitAborted \/ AwaitFails \/ Crash) => Fits'
<1> SUFFICES ASSUME RunInv, Restart \/ AwaitAborted \/ AwaitFails \/ Crash PROVE Fits'
  OBVIOUS
<1> USE DEF runRow, store, proc, ghosts, Free, Finished, EscalationChoice, RunInv, Fits, ControlFits,
           LoopFitsStatus, StretchFitsStatus, StretchAsksAdvance, GatesFit, GatesFitStatus,
           PrGateIsAnswerable, EscalationsFitStatus, BuiltFitsStatus, Unfinished, RowsType,
           SavedFits, JobsFit
<1>0. TypeOK /\ RowsType /\ mode \in RunMode
  BY ConstantsAssumption DEF RunInv, TypeOK, RowsType
<1>1. CASE Restart
  BY <1>1, <1>0 DEF Restart, WaitsForDesignRetry
<1>2. CASE AwaitAborted
  BY <1>2, <1>0 DEF AwaitAborted, Swallow, Awaiting
<1>3. CASE AwaitFails
  BY <1>3, <1>0 DEF AwaitFails, Throw, Awaiting
<1>4. CASE Crash
  BY <1>4, <1>0 DEF Crash
<1> QED BY <1>1, <1>2, <1>3, <1>4

\* The invariant that carries the theorems below.
THEOREM Inductive == Spec => []RunInv
<1>1. Init => Fits
  BY ConstantsAssumption
     DEF Init, Fits, ControlFits, LoopFitsStatus, StretchFitsStatus, StretchAsksAdvance, GatesFit,
         GatesFitStatus, PrGateIsAnswerable, EscalationsFitStatus, BuiltFitsStatus, SavedFits,
         JobsFit, Unfinished, Finished, EscalationChoice
<1>2. TypeOK /\ TypeOK' /\ Fits /\ [Next]_vars => Fits'
  <2>1. CASE UNCHANGED vars
    BY <2>1 DEF vars, runRow, store, proc, ghosts, Fits, ControlFits, LoopFitsStatus,
                StretchFitsStatus, StretchAsksAdvance, GatesFit, GatesFitStatus,
                PrGateIsAnswerable, EscalationsFitStatus, BuiltFitsStatus, SavedFits, JobsFit,
                Unfinished
  <2>2. CASE Next
    BY <2>2, LooksFits, SynchronousFits, DesignsFits, BuildsFits, ReviewingFits, PersonFits,
       FaultsFit DEF Next, Process, RunInv
  <2> QED BY <2>1, <2>2
<1> QED BY <1>1, <1>2, TypeCorrect, PTL DEF Spec, RunInv

\* Whenever a person looks, the open Gate is the one the Run waits at, and a Run
\* that waits at a Gate has it open: no decision the code asks for is refused.
THEOREM GatesAnswerable == Spec => []GateMatchesStatus
<1>1. RunInv => GateMatchesStatus
  BY DEF RunInv, Fits, GatesFit, GatesFitStatus, PrGateIsAnswerable, GateMatchesStatus
<1> QED BY <1>1, Inductive, PTL

\* The Run is never reviewed, shown to a person or done with a Slice unbuilt.
THEOREM ReviewedWhenBuilt == Spec => []NothingUnbuiltIsReviewed
<1>1. RunInv => NothingUnbuiltIsReviewed
  BY DEF RunInv, Fits, BuiltFitsStatus, NothingUnbuiltIsReviewed, Unfinished, TypeOK, RowsType,
         SliceStatus
<1> QED BY <1>1, Inductive, PTL

\* Wherever a process dies, the next one reads the memory it had, but for the
\* synchronous stretch it died in.
THEOREM NothingDecidedIsForgotten == Spec => []CheckpointIsCurrent
<1>1. RunInv => CheckpointIsCurrent
  BY DEF RunInv, Fits, SavedFits, CheckpointIsCurrent
<1> QED BY <1>1, Inductive, PTL

\* No two Slices of a batch depend on each other, for every plan and limit.
THEOREM DependenciesFirst == Spec => []BuildsAfterItsDependencies
<1>1. RunInv => BuildsAfterItsDependencies
  BY ConstantsAssumption DEF RunInv, Fits, JobsFit, BuildsAfterItsDependencies, Unfinished, TypeOK, RowsType,
         SliceStatus, ProcessType
<1> QED BY <1>1, Inductive, PTL

-----------------------------------------------------------------------------
\* A Run is escalated only with an Escalation to answer, or one about to be.
EscalatedIsOpen ==
    status = "escalated" => escalations # {} \/ at \in EscalationChoice \cup {"openEscalation"}

\* A process that dies only between its synchronous stretches keeps it so.
LEMMA EscalatedStaysOpen ==
    ASSUME CrashAnywhere = FALSE, RunInv, EscalatedIsOpen, Next PROVE EscalatedIsOpen'
<1> USE DEF EscalatedIsOpen, runRow, store, proc, ghosts, Free, Finished, EscalationChoice
<1>0. /\ mode \in RunMode
      /\ at \in EscalationChoice \cup {"openEscalation"} => status = "escalated"
      /\ at = "openEscalation" => status = "escalated"
  BY ConstantsAssumption DEF RunInv, TypeOK, RowsType, Fits, ControlFits, StretchFitsStatus
<1>1. CASE Looks
  BY <1>1, <1>0, Moves
     DEF Looks, StartAdvance, WaitForPerson, WaitAtPrGate, ReopenedGate, EscalationMissing,
         Throw, StartBrief, EndBrief, StartOwedDelivery, EndOwedDelivery
<1>2. CASE Synchronous
  <2>1. CASE Checkpoint
    BY <2>1, <1>0, Moves DEF Checkpoint, EscalationTrigger, ReviewLimit, EscalationTarget
  <2>2. CASE OpenEscalation
    BY <2>2, <1>0, Moves DEF OpenEscalation, EscalationTrigger, ReviewLimit, EscalationTarget
  <2>3. CASE RecordFailure
    BY <2>3, <1>0, Moves DEF RecordFailure, EscalationTrigger, ReviewLimit, EscalationTarget
  <2>4. CASE ReopenLast
    BY <2>4, <1>0, Moves DEF ReopenLast, TellsLastPassed, EscalationTrigger, ReviewLimit, EscalationTarget
  <2>5. CASE OpenPrGate
    BY <2>5, <1>0, Moves DEF OpenPrGate, EscalationTrigger, ReviewLimit, EscalationTarget
  <2>6. CASE ApplyResolution
    BY <2>6, <1>0, Moves DEF ApplyResolution, EscalationTrigger, ReviewLimit, EscalationTarget
  <2>7. CASE SkipSlice
    BY <2>7, <1>0, Moves DEF SkipSlice, EscalationTrigger, ReviewLimit, EscalationTarget
  <2>8. CASE EditDocuments
    BY <2>8, <1>0, Moves DEF EditDocuments, EscalationTrigger, ReviewLimit, EscalationTarget
  <2>9. CASE ApplyPrDecision
    BY <2>9, <1>0, Moves DEF ApplyPrDecision, OwesLastPassed, EscalationTrigger, ReviewLimit, EscalationTarget
  <2>10. CASE ApplyAborted
    BY <2>10, <1>0, Moves DEF ApplyAborted, EscalationTrigger, ReviewLimit, EscalationTarget
  <2> QED BY <1>2, <2>1, <2>2, <2>3, <2>4, <2>5, <2>6, <2>7, <2>8, <2>9, <2>10 DEF Synchronous
<1>3. CASE Designs
  BY <1>3, <1>0, Moves
     DEF Designs, StartDesign, SystemDesigned, Plan, Started, DesignReady, DesignFails,
         Swallow
<1>4. CASE Reviewing
  <2>1. CASE StartReview
    BY <2>1, <1>0, Moves DEF StartReview, EscalationTrigger, ReviewLimit, EscalationTarget
  <2>2. CASE SendBack
    BY <2>2, <1>0, Moves DEF SendBack, Reviews, MayRefuseAgain, OwesLastPassed, EscalationTrigger, ReviewLimit, EscalationTarget
  <2>3. CASE ReviewStops
    BY <2>3, <1>0, Moves DEF ReviewStops, Reviews, Limit, EscalationTrigger, ReviewLimit, EscalationTarget
  <2>4. CASE ReviewIsClean
    BY <2>4, <1>0, Moves DEF ReviewIsClean, Reviews, EscalationTrigger, ReviewLimit, EscalationTarget
  <2>5. CASE Deliver
    BY <2>5, <1>0, Moves DEF Deliver, EscalationTrigger, ReviewLimit, EscalationTarget
  <2>6. CASE PrOpened
    BY <2>6, <1>0, Moves DEF PrOpened, EscalationTrigger, ReviewLimit, EscalationTarget
  <2>7. CASE PrOpenedTooLate
    BY <2>7, <1>0, Moves DEF PrOpenedTooLate, Swallow, EscalationTrigger, ReviewLimit, EscalationTarget
  <2>8. CASE NothingToDeliver
    BY <2>8, <1>0, Moves DEF NothingToDeliver, EscalationTrigger, ReviewLimit, EscalationTarget
  <2>9. CASE RefusedTooLate
    BY <2>9, <1>0 DEF RefusedTooLate
  <2> QED BY <1>4, <2>1, <2>2, <2>3, <2>4, <2>5, <2>6, <2>7, <2>8, <2>9 DEF Reviewing
<1>5. CASE Person
  BY <1>5, <1>0, Moves
     DEF Person, RetryDesign, Decides, DecideDesign, ResolveEscalation, Resolve, StillOpen,
         SliceOf, Ticked, DecidePullRequest, Abort, AbortAsksAdvance, AbortEscalated
<1>6. CASE Builds
  <2>1. CASE AllSlicesCommitted
    BY <2>1, <1>0, Moves DEF AllSlicesCommitted, EscalationTrigger, ReviewLimit, EscalationTarget
  <2>2. CASE SliceNotPlanned
    BY <2>2, <1>0, Moves DEF SliceNotPlanned, Limit, EscalationTrigger, ReviewLimit, EscalationTarget
  <2>3. CASE StartBatch
    BY <2>3, <1>0, Moves DEF StartBatch, EscalationTrigger, ReviewLimit, EscalationTarget
  <2>4. CASE KeepOutcomes
    BY <2>4, <1>0, Moves DEF KeepOutcomes, KeptHints, SavesMemory, Drivers, Came, EscalationTrigger, ReviewLimit, EscalationTarget
  <2>5. CASE BatchThrows
    BY <2>5, <1>0, Moves DEF BatchThrows, Swallow, Throw, BatchDone, EscalationTrigger, ReviewLimit, EscalationTarget
  <2>6. CASE BatchPasses
    BY <2>6, <1>0, Moves DEF BatchPasses, BatchDone, EscalationTrigger, ReviewLimit, EscalationTarget
  <2>7. CASE BatchEscalates
    BY <2>7, <1>0, Moves DEF BatchEscalates, Stops, Limit, BatchDone, EscalationTrigger, ReviewLimit, EscalationTarget
  <2>8. CASE BatchEscalatesTooLate
    BY <2>8, <1>0, Moves DEF BatchEscalatesTooLate, Stops, Swallow, BatchDone, EscalationTrigger, ReviewLimit, EscalationTarget
  <2>9. CASE BatchNeedsRedesign
    BY <2>9, <1>0, Moves DEF BatchNeedsRedesign, Stops, BatchDone, EscalationTrigger, ReviewLimit, EscalationTarget
  <2>10. ASSUME NEW s \in Slice, SliceRun(s) PROVE EscalatedIsOpen'
    <3>1. CASE SliceTests(s)
      BY <3>1 DEF SliceTests, Running, Codes
    <3>2. CASE SliceStepStops(s)
      BY <3>2 DEF SliceStepStops, Running, Codes
    <3>3. CASE SliceRetries(s)
      BY <3>3 DEF SliceRetries, Running, Codes
    <3>4. CASE SliceCommits(s)
      BY <3>4 DEF SliceCommits, Running
    <3>5. CASE SlicePasses(s)
      BY <3>5 DEF SlicePasses
    <3>6. CASE SliceEscalates(s)
      BY <3>6 DEF SliceEscalates, Running, Codes
    <3>7. CASE SliceNeedsRedesign(s)
      BY <3>7 DEF SliceNeedsRedesign, Running
    <3>8. CASE SliceThrows(s)
      BY <3>8 DEF SliceThrows, Running
    <3>9. CASE CommitIsMade(s)
      BY <3>9 DEF CommitIsMade
    <3> QED BY <2>10, <3>1, <3>2, <3>3, <3>4, <3>5, <3>6, <3>7, <3>8, <3>9 DEF SliceRun
  <2> QED BY <1>6, <2>1, <2>2, <2>3, <2>4, <2>5, <2>6, <2>7, <2>8, <2>9, <2>10 DEF Builds
<1>7. CASE Restart \/ AwaitAborted \/ AwaitFails
  BY <1>7, <1>0 DEF Restart, AwaitAborted, AwaitFails, Swallow, Throw
<1>8. CASE Crash
  BY <1>8, <1>0 DEF Crash
<1> QED BY <1>1, <1>2, <1>3, <1>4, <1>5, <1>6, <1>7, <1>8 DEF Next, Process

\* Unless the process dies between moving the Run and opening or answering its
\* Escalation, a person always finds the one Escalation an escalated Run waits for.
THEOREM EscalationAnswerable ==
    ASSUME CrashAnywhere = FALSE
    PROVE  Spec => []EscalationMatchesStatus
<1>1. Init => EscalatedIsOpen
  BY DEF Init, EscalatedIsOpen
<1>2. RunInv /\ EscalatedIsOpen /\ [Next]_vars => EscalatedIsOpen'
  <2>1. CASE UNCHANGED vars
    BY <2>1 DEF vars, runRow, store, EscalatedIsOpen
  <2>2. CASE Next
    BY <2>2, EscalatedStaysOpen
  <2> QED BY <2>1, <2>2
<1>3. RunInv /\ EscalatedIsOpen => EscalationMatchesStatus
  BY DEF RunInv, Fits, EscalationsFitStatus, EscalatedIsOpen, EscalationMatchesStatus,
         EscalationChoice
<1> QED BY <1>1, <1>2, <1>3, Inductive, PTL DEF Spec

-----------------------------------------------------------------------------
\* What an agent must still be told, wherever a process dies.

Kept(m, s) == slice[s] = "skipped" \/ s \in m.hints

\* Feedback nobody was told waits in the Checkpoint, and in the memory while there is one.
HintsFit ==
    \A s \in owedHint \ unheard : Kept(saved, s) /\ (loop # "down" => Kept(memory, s))

\* What a stretch is about to keep is in the memory, or the last Slice is about to be
\* reopened with it; no Slice runs beside such a stretch.
TellingFits ==
    /\ \A s \in telling : \/ at = "checkpoint" /\ s \in memory.hints
                          \/ at = "reopenLast" /\ s = LastPassed
    /\ telling # {} => loop # "build"

\* A Slice run that coded has told it, and one that stopped without coding is known to
\* have, so that what drops the feedback drops none that should wait.
ToldFits ==
    /\ \A s \in Slice : job[s] \in {"committing", "committed"} => slice[s] = "testing"
    /\ \A s \in owedHint : /\ job[s] \notin {"committing", "committed", "passed"}
                           /\ job[s] = "running" => slice[s] = "building"
                           /\ job[s] \in {"escalated", "designIssue"} => s \in unheard
    /\ at = "skip" => loop # "build"

FeedbackInv == HintsFit /\ TellingFits /\ ToldFits

Feedback == <<owedHint, unheard, telling>>

JobState == {"none", "running", "committing", "committed", "passed", "escalated",
             "designIssue", "rejected"}

LEMMA FeedbackTypes ==
    RunInv => /\ slice \in [Slice -> SliceStatus \cup {"absent"}] /\ owedHint \in SUBSET Slice
              /\ unheard \in SUBSET Slice /\ telling \in SUBSET Slice
              /\ memory \in Memory /\ saved \in Memory /\ job \in [Slice -> JobState]
  BY DEF RunInv, TypeOK, RowsType, ProcessType, MemoryType, JobState

LEMMA SameLastPassed == UNCHANGED slice => LastPassed' = LastPassed
  BY DEF LastPassed, Passed

\* Outside a stretch that keeps feedback, none is about to be kept.
LEMMA NothingTold ==
    ASSUME TellingFits, at \notin {"checkpoint", "reopenLast"} PROVE telling = {}
  BY DEF TellingFits

\* Feedback stays where it is when no Slice run, hint or skipped Slice changes.
LEMMA FeedbackStays ==
    ASSUME RunInv, FeedbackInv, UNCHANGED <<saved, job, Feedback>>,
           loop # "down", loop' # "down", at \notin {"checkpoint", "reopenLast"},
           memory'.hints = memory.hints,
           at' = "skip" => loop' # "build",
           \A s \in Slice : slice[s] = "skipped" => slice'[s] = "skipped",
           \A s \in Slice : job[s] # "none" => slice'[s] = slice[s]
    PROVE  FeedbackInv'
<1>t. owedHint \in SUBSET Slice /\ job \in [Slice -> JobState]
  BY FeedbackTypes
<1>1. telling' = {}
  BY NothingTold DEF FeedbackInv, Feedback
<1>2. HintsFit'
  BY <1>t DEF FeedbackInv, Feedback, HintsFit, Kept
<1>3. ToldFits'
  BY <1>t DEF FeedbackInv, Feedback, ToldFits
<1> QED BY <1>1, <1>2, <1>3 DEF FeedbackInv, TellingFits

LEMMA LooksFeedback == RunInv /\ FeedbackInv /\ Looks => FeedbackInv'
<1> SUFFICES ASSUME RunInv, FeedbackInv, Looks PROVE FeedbackInv'
  OBVIOUS
<1>1. /\ UNCHANGED <<slice, memory, saved, job, Feedback>> /\ at = "free" /\ at' = "free"
      /\ loop # "down" /\ loop' # "down"
  BY DEF Looks, StartAdvance, WaitForPerson, WaitAtPrGate, EscalationMissing, Throw, StartBrief,
         EndBrief, StartOwedDelivery, EndOwedDelivery, runRow, store, proc, ghosts, Free, Feedback
<1> QED BY <1>1, FeedbackStays

LEMMA DesignsFeedback == RunInv /\ FeedbackInv /\ Designs => FeedbackInv'
<1> SUFFICES ASSUME RunInv, FeedbackInv, Designs PROVE FeedbackInv'
  OBVIOUS
<1> USE DEF runRow, store, proc, ghosts, Free, Feedback
<1>t. slice \in [Slice -> SliceStatus \cup {"absent"}] /\ memory \in Memory
  BY FeedbackTypes
<1>j. loop \in {"design", "designUi"} => \A s \in Slice : job[s] = "none"
  BY DEF RunInv, Fits, JobsFit
<1>1. CASE StartDesign
  BY <1>1, FeedbackStays DEF StartDesign
<1>2. CASE SystemDesigned
  <2>1. /\ \A s \in Slice : slice[s] = "skipped" => slice'[s] = "skipped"
        /\ UNCHANGED <<memory, saved, job, Feedback, at>> /\ loop = "design" /\ loop' = "designUi"
        /\ at = "free"
    BY <1>2, <1>t DEF SystemDesigned, Plan, Started
  <2> QED BY <1>j, <2>1, FeedbackStays
<1>3. CASE DesignReady
  <2>1. /\ UNCHANGED <<slice, saved, job, Feedback>> /\ loop = "designUi" /\ loop' = "look"
        /\ at = "free" /\ at' = "checkpoint" /\ memory'.hints = memory.hints
    BY <1>3, <1>t DEF DesignReady, Memory
  <2> QED BY <2>1, FeedbackStays
<1>4. CASE DesignFails
  <2>1. /\ UNCHANGED <<slice, memory, saved, job, Feedback>> /\ loop # "down" /\ loop' # "down"
        /\ at = "free" /\ at' # "skip"
    BY <1>4 DEF DesignFails, Swallow
  <2> QED BY <2>1, FeedbackStays
<1> QED BY <1>1, <1>2, <1>3, <1>4 DEF Designs

LEMMA ReviewingFeedback == RunInv /\ FeedbackInv /\ Reviewing => FeedbackInv'
<1> SUFFICES ASSUME RunInv, FeedbackInv, Reviewing PROVE FeedbackInv'
  OBVIOUS
<1> USE DEF runRow, store, proc, ghosts, Free, Feedback
<1>t. memory \in Memory
  BY FeedbackTypes
<1>1. CASE SendBack
  <2>1. /\ UNCHANGED <<slice, saved, job, owedHint, unheard>> /\ loop = "review" /\ loop' = "look"
        /\ at = "free" /\ at' = "reopenLast"
        /\ telling' = {LastPassed} \cap Slice /\ memory'.hints = memory.hints
    BY <1>1, <1>t DEF SendBack, OwesLastPassed, Memory
  <2>2. HintsFit' /\ ToldFits'
    BY <2>1 DEF FeedbackInv, HintsFit, ToldFits, Kept
  <2>3. TellingFits'
    BY <2>1, SameLastPassed DEF TellingFits
  <2> QED BY <2>2, <2>3 DEF FeedbackInv
<1>2. ASSUME StartReview \/ ReviewStops \/ ReviewIsClean \/ Deliver \/ PrOpened
             \/ PrOpenedTooLate \/ NothingToDeliver
      PROVE  FeedbackInv'
  <2>1. /\ UNCHANGED <<slice, memory, saved, job, Feedback>> /\ loop # "down" /\ loop' # "down"
        /\ at \notin {"checkpoint", "reopenLast"} /\ at' # "skip"
    BY <1>2 DEF StartReview, ReviewStops, Limit, ReviewIsClean, Deliver, PrOpened,
                PrOpenedTooLate, Swallow, NothingToDeliver, RunInv, Fits, ControlFits,
                StretchFitsStatus
  <2> QED BY <2>1, FeedbackStays
<1>3. CASE RefusedTooLate
  <2>1. /\ UNCHANGED <<slice, saved, job, Feedback>> /\ loop = "review" /\ loop' = "look"
        /\ at = "free" /\ at' = "free" /\ memory'.hints = memory.hints
    BY <1>3, <1>t DEF RefusedTooLate, Swallow, Memory
  <2> QED BY <2>1, FeedbackStays
<1> QED BY <1>1, <1>2, <1>3 DEF Reviewing

LEMMA SynchronousFeedback == RunInv /\ FeedbackInv /\ Synchronous => FeedbackInv'
<1> SUFFICES ASSUME RunInv, FeedbackInv, Synchronous PROVE FeedbackInv'
  OBVIOUS
<1> USE DEF runRow, store, proc, ghosts, Free, Feedback
<1>t. /\ slice \in [Slice -> SliceStatus \cup {"absent"}] /\ owedHint \in SUBSET Slice
      /\ telling \in SUBSET Slice /\ memory \in Memory /\ job \in [Slice -> JobState]
  BY FeedbackTypes
<1>l. at # "free" => loop # "down"
  BY DEF RunInv, Fits, ControlFits, StretchFitsStatus
<1>j. loop # "build" => \A s \in Slice : job[s] = "none"
  BY DEF RunInv, Fits, JobsFit
<1>b. status \in {"escalated", "awaitingPrGate"} => loop # "build"
  BY DEF RunInv, Fits, ControlFits, LoopFitsStatus
<1>1. CASE Checkpoint
  <2>1. /\ UNCHANGED <<slice, memory, job, loop>> /\ saved' = memory /\ at' = "free"
        /\ loop # "down" /\ at = "checkpoint" /\ telling' = {}
        /\ owedHint' = owedHint \cup telling /\ unheard' = unheard \ telling
    BY <1>1, <1>l DEF Checkpoint
  <2>2. \A s \in telling : s \in memory.hints /\ job[s] = "none"
    BY <1>t, <1>j, <2>1 DEF FeedbackInv, TellingFits
  <2>3. HintsFit'
    BY <2>1, <2>2 DEF FeedbackInv, HintsFit, Kept
  <2>4. ToldFits'
    BY <1>t, <2>1, <2>2 DEF FeedbackInv, ToldFits
  <2> QED BY <2>1, <2>3, <2>4 DEF FeedbackInv, TellingFits
<1>2. CASE OpenEscalation \/ RecordFailure \/ OpenPrGate \/ ApplyAborted
  <2>1. /\ UNCHANGED <<slice, memory, saved, job, Feedback>> /\ loop # "down" /\ loop' # "down"
        /\ at \notin {"checkpoint", "reopenLast"} /\ at' # "skip"
    BY <1>2, <1>l DEF OpenEscalation, RecordFailure, OpenPrGate, ApplyAborted
  <2> QED BY <2>1, FeedbackStays
<1>3. CASE ReopenLast
  <2>1. /\ UNCHANGED <<saved, job, Feedback, loop>> /\ at' = "checkpoint" /\ loop # "down"
        /\ loop # "build" /\ at = "reopenLast"
    BY <1>3, <1>l DEF ReopenLast, RunInv, Fits, JobsFit
  <2>2. ToldFits'
    BY <1>t, <1>j, <2>1 DEF FeedbackInv, ToldFits, JobState
  <2>3. CASE LastPassed = 0
    <3>1. UNCHANGED <<slice, memory>> /\ 0 \notin Slice
      BY <1>3, <2>3, ConstantsAssumption DEF ReopenLast, Slice
    <3>2. HintsFit'
      BY <2>1, <3>1 DEF FeedbackInv, HintsFit, Kept
    <3>3. telling = {}
      BY <1>t, <2>1, <2>3, <3>1 DEF FeedbackInv, TellingFits
    <3>4. TellingFits'
      BY <2>1, <3>3 DEF TellingFits
    <3> QED BY <2>2, <3>2, <3>4 DEF FeedbackInv
  <2>4. CASE LastPassed # 0
    <3>1. /\ slice' = [slice EXCEPT ![LastPassed] = "building"]
          /\ memory'.hints = memory.hints \cup {LastPassed}
      BY <1>3, <1>t, <2>4 DEF ReopenLast, TellsLastPassed, Memory
    <3>2. LastPassed \in Slice /\ slice[LastPassed] = "passed"
      BY <2>4, LastPassedType DEF Passed
    <3>3. HintsFit'
      BY <1>t, <2>1, <3>1, <3>2 DEF FeedbackInv, HintsFit, Kept
    <3>4. \A s \in telling : s \in memory'.hints
      BY <2>1, <3>1 DEF FeedbackInv, TellingFits
    <3>5. TellingFits'
      BY <2>1, <3>4 DEF TellingFits
    <3> QED BY <2>2, <3>3, <3>5 DEF FeedbackInv
  <2> QED BY <2>3, <2>4
<1>4. CASE ApplyResolution
  <2>1. /\ at \in EscalationChoice /\ status = "escalated" /\ loop # "down"
        /\ UNCHANGED <<slice, saved, job, owedHint, unheard, loop>>
    BY <1>4, <1>l DEF ApplyResolution, RunInv, Fits, ControlFits, StretchFitsStatus, EscalationChoice
  <2>2. telling = {} /\ loop # "build"
    BY <1>b, <2>1, NothingTold DEF FeedbackInv, EscalationChoice
  <2>3. \/ UNCHANGED memory /\ telling' = {}
        \/ /\ memory'.hints = memory.hints \cup ({about} \cap Slice)
           /\ telling' = {about} \cap Slice /\ at' = "checkpoint"
    BY <1>4, <1>t, <2>2 DEF ApplyResolution, Memory
  <2>4. ToldFits'
    BY <1>t, <1>j, <2>1, <2>2 DEF FeedbackInv, ToldFits, JobState
  <2>5. HintsFit'
    BY <2>1, <2>3 DEF FeedbackInv, HintsFit, Kept
  <2>6. TellingFits'
    BY <2>1, <2>2, <2>3 DEF TellingFits
  <2> QED BY <2>4, <2>5, <2>6 DEF FeedbackInv
<1>5. CASE SkipSlice
  <2>1. /\ \A s \in Slice : slice'[s] \in {"skipped", slice[s]}
        /\ UNCHANGED <<memory, saved, job, Feedback, loop>> /\ loop # "down"
        /\ at = "skip" /\ at' = "checkpoint"
    BY <1>5, <1>l, <1>t DEF SkipSlice
  <2>2. loop # "build"
    BY <2>1 DEF FeedbackInv, ToldFits
  <2> QED BY <1>j, <2>1, <2>2, FeedbackStays
<1>6. CASE EditDocuments
  <2>1. /\ UNCHANGED <<slice, saved, job, Feedback, loop>> /\ loop # "down"
        /\ at = "edit" /\ at' = "checkpoint" /\ memory'.hints = memory.hints
    BY <1>6, <1>l, <1>t DEF EditDocuments, Memory
  <2> QED BY <2>1, FeedbackStays
<1>7. CASE ApplyPrDecision
  <2>1. /\ UNCHANGED <<slice, memory, saved, job, loop, owedHint, unheard>> /\ loop # "down"
        /\ at \in {"prApproved", "prChangesRequested"} /\ at' # "skip"
        /\ status = "awaitingPrGate"
        /\ \/ UNCHANGED telling
           \/ at' = "reopenLast" /\ telling' = {LastPassed} \cap Slice
    BY <1>7, <1>l DEF ApplyPrDecision, OwesLastPassed, RunInv, Fits, ControlFits, StretchFitsStatus
  <2>2. telling = {} /\ loop # "build"
    BY <1>b, <2>1, NothingTold DEF FeedbackInv
  <2>3. HintsFit' /\ ToldFits'
    BY <2>1 DEF FeedbackInv, HintsFit, ToldFits, Kept
  <2>4. TellingFits'
    BY <2>1, <2>2, SameLastPassed DEF TellingFits
  <2> QED BY <2>3, <2>4 DEF FeedbackInv
<1> QED BY <1>1, <1>2, <1>3, <1>4, <1>5, <1>6, <1>7 DEF Synchronous

LEMMA PersonFeedback == RunInv /\ FeedbackInv /\ Person => FeedbackInv'
<1> SUFFICES ASSUME RunInv, FeedbackInv, Person PROVE FeedbackInv'
  OBVIOUS
<1> USE DEF runRow, store, proc, ghosts, Free, Decides, Feedback
<1>t. memory \in Memory
  BY FeedbackTypes
<1>1. CASE RetryDesign \/ DecidePullRequest \/ Abort
  <2>1. /\ UNCHANGED <<slice, memory, saved, job, Feedback>> /\ loop # "down" /\ loop' # "down"
        /\ at = "free" /\ at' # "skip"
    BY <1>1 DEF RetryDesign, DecidePullRequest, Abort
  <2> QED BY <2>1, FeedbackStays
<1>2. CASE ResolveEscalation \/ AbortEscalated
  <2>1. /\ UNCHANGED <<slice, memory, saved, job, Feedback, loop>> /\ loop # "down"
        /\ at = "free" /\ at' \in EscalationChoice
    BY <1>2 DEF ResolveEscalation, AbortEscalated, Resolve, EscalationChoice
  <2> QED BY <2>1, FeedbackStays DEF EscalationChoice
<1>3. CASE DecideDesign
  <2>1. /\ UNCHANGED <<slice, saved, job, Feedback, loop>> /\ loop # "down"
        /\ at = "free" /\ at' = "checkpoint" /\ memory'.hints = memory.hints
    <3>1. memory' = memory \/ memory' = [memory EXCEPT !.revisions = TRUE]
      BY <1>3 DEF DecideDesign
    <3> QED BY <1>3, <1>t, <3>1 DEF DecideDesign, Memory
  <2> QED BY <2>1, FeedbackStays
<1> QED BY <1>1, <1>2, <1>3 DEF Person

\* A Slice run drops feedback only once an agent was told of it, or where it stops on a
\* spent Token Budget.
LEMMA SliceRunFeedback ==
    ASSUME RunInv, FeedbackInv, NEW s \in Slice, SliceRun(s) PROVE FeedbackInv'
<1> USE DEF runRow, store, proc, ghosts, Free, Running, Codes, Feedback
<1>t. /\ slice \in [Slice -> SliceStatus \cup {"absent"}] /\ owedHint \in SUBSET Slice
      /\ memory \in Memory /\ job \in [Slice -> JobState]
  BY FeedbackTypes
<1>1. /\ at = "free" /\ loop = "build" /\ loop' = "build" /\ UNCHANGED <<saved, telling>>
      /\ at' \in {"free", "checkpoint"}
  BY DEF SliceRun, SliceTests, SliceStepStops, SliceRetries, SliceCommits, CommitIsMade,
         SlicePasses, SliceEscalates, SliceNeedsRedesign, SliceThrows
<1>2. TellingFits'
  BY <1>1, NothingTold DEF FeedbackInv, TellingFits
<1>3. ASSUME owedHint' \ unheard' \subseteq owedHint \ unheard,
             \A u \in owedHint' \ unheard' : /\ slice[u] = "skipped" => slice'[u] = "skipped"
                                             /\ u \in memory.hints => u \in memory'.hints
      PROVE  HintsFit'
  BY <1>1, <1>3 DEF FeedbackInv, HintsFit, Kept
<1>4. CASE SliceTests(s)
  <2>1. /\ slice[s] = "building" /\ slice' = [slice EXCEPT ![s] = "testing"]
        /\ owedHint' = owedHint \ {s} /\ unheard' = unheard \ {s}
        /\ UNCHANGED <<memory, job>> /\ job[s] = "running"
    BY <1>4 DEF SliceTests
  <2>2. HintsFit'
    BY <1>3, <1>t, <2>1
  <2>3. ToldFits'
    BY <1>1, <1>t, <2>1 DEF FeedbackInv, ToldFits
  <2> QED BY <1>2, <2>2, <2>3 DEF FeedbackInv
<1>5. CASE SliceStepStops(s)
  <2>1. /\ owedHint' = owedHint \ {s} /\ unheard' = unheard \ {s}
        /\ UNCHANGED <<memory, job, slice>>
    BY <1>5 DEF SliceStepStops
  <2>2. HintsFit'
    BY <1>3, <1>t, <2>1
  <2>3. ToldFits'
    BY <1>1, <1>t, <2>1 DEF FeedbackInv, ToldFits
  <2> QED BY <1>2, <2>2, <2>3 DEF FeedbackInv
<1>6. CASE SliceRetries(s)
  <2>1. /\ slice[s] \in {"building", "testing"} /\ slice' = [slice EXCEPT ![s] = "building"]
        /\ \/ slice[s] = "testing" /\ UNCHANGED <<owedHint, unheard>>
           \/ owedHint' = owedHint \ {s} /\ unheard' = unheard \ {s}
        /\ UNCHANGED job /\ job[s] = "running" /\ memory'.hints = memory.hints \ {s}
    BY <1>6, <1>t DEF SliceRetries, Memory
  <2>2. s \notin owedHint'
    BY <2>1 DEF FeedbackInv, ToldFits
  <2>3. HintsFit'
    BY <1>3, <1>t, <2>1, <2>2
  <2>4. ToldFits'
    BY <1>1, <1>t, <2>1 DEF FeedbackInv, ToldFits
  <2> QED BY <1>2, <2>3, <2>4 DEF FeedbackInv
<1>7. CASE SliceCommits(s)
  <2>1. /\ slice[s] = "testing" /\ job' = [job EXCEPT ![s] = "committing"]
        /\ UNCHANGED <<memory, owedHint, unheard, slice>> /\ job[s] = "running"
    BY <1>7 DEF SliceCommits
  <2>2. HintsFit'
    BY <1>3, <1>t, <2>1
  <2>3. ToldFits'
    BY <1>1, <1>t, <2>1 DEF FeedbackInv, ToldFits
  <2> QED BY <1>2, <2>2, <2>3 DEF FeedbackInv
<1>8. CASE CommitIsMade(s)
  <2>1. /\ job[s] = "committing" /\ job' = [job EXCEPT ![s] = "committed"]
        /\ UNCHANGED <<memory, owedHint, unheard, slice>>
    BY <1>8 DEF CommitIsMade
  <2>2. HintsFit'
    BY <1>3, <1>t, <2>1
  <2>3. ToldFits'
    BY <1>1, <1>t, <2>1 DEF FeedbackInv, ToldFits
  <2> QED BY <1>2, <2>2, <2>3 DEF FeedbackInv
<1>9. CASE SlicePasses(s)
  <2>1. /\ job[s] = "committed" /\ job' = [job EXCEPT ![s] = "passed"]
        /\ slice' = [slice EXCEPT ![s] = "passed"] /\ UNCHANGED <<owedHint, unheard>>
        /\ memory'.hints = memory.hints
    BY <1>9, <1>t DEF SlicePasses, Memory
  <2>2. s \notin owedHint
    BY <2>1 DEF FeedbackInv, ToldFits
  <2>3. HintsFit'
    BY <1>3, <1>t, <2>1, <2>2
  <2>4. ToldFits'
    BY <1>1, <1>t, <2>1, <2>2 DEF FeedbackInv, ToldFits
  <2> QED BY <1>2, <2>3, <2>4 DEF FeedbackInv
<1>10. CASE SliceEscalates(s)
  <2>1. /\ job' = [job EXCEPT ![s] = "escalated"] /\ UNCHANGED memory /\ job[s] = "running"
        /\ slice[s] \in {"building", "testing"} /\ slice' = [slice EXCEPT ![s] = "building"]
        /\ \/ slice[s] = "testing" /\ UNCHANGED <<owedHint, unheard>>
           \/ UNCHANGED owedHint /\ unheard' = unheard \cup ({s} \cap owedHint)
           \/ owedHint' = owedHint \ {s} /\ unheard' = unheard \ {s}
    BY <1>10 DEF SliceEscalates
  <2>2. s \in owedHint' => s \in unheard'
    BY <2>1 DEF FeedbackInv, ToldFits
  <2>3. HintsFit'
    BY <1>3, <1>t, <2>1
  <2>4. ToldFits'
    BY <1>1, <1>t, <2>1, <2>2 DEF FeedbackInv, ToldFits
  <2> QED BY <1>2, <2>3, <2>4 DEF FeedbackInv
<1>11. CASE SliceNeedsRedesign(s)
  <2>1. /\ job' = [job EXCEPT ![s] = "designIssue"] /\ UNCHANGED <<memory, owedHint, unheard>>
        /\ job[s] = "running" /\ slice[s] = "testing"
        /\ slice' = [slice EXCEPT ![s] = "building"]
    BY <1>11 DEF SliceNeedsRedesign
  <2>2. s \notin owedHint
    BY <2>1 DEF FeedbackInv, ToldFits
  <2>3. HintsFit'
    BY <1>3, <1>t, <2>1
  <2>4. ToldFits'
    BY <1>1, <1>t, <2>1, <2>2 DEF FeedbackInv, ToldFits
  <2> QED BY <1>2, <2>3, <2>4 DEF FeedbackInv
<1>12. CASE SliceThrows(s)
  <2>1. /\ job' = [job EXCEPT ![s] = "rejected"]
        /\ UNCHANGED <<memory, owedHint, unheard, slice>>
    BY <1>12 DEF SliceThrows
  <2>2. HintsFit'
    BY <1>3, <1>t, <2>1
  <2>3. ToldFits'
    BY <1>1, <1>t, <2>1 DEF FeedbackInv, ToldFits
  <2> QED BY <1>2, <2>2, <2>3 DEF FeedbackInv
<1> QED BY SliceRun(s), <1>4, <1>5, <1>6, <1>7, <1>8, <1>9, <1>10, <1>11, <1>12 DEF SliceRun

LEMMA BuildsFeedback == RunInv /\ FeedbackInv /\ Builds => FeedbackInv'
<1> SUFFICES ASSUME RunInv, FeedbackInv, Builds PROVE FeedbackInv'
  OBVIOUS
<1> USE DEF runRow, store, proc, ghosts, Free, Feedback
<1>t. /\ slice \in [Slice -> SliceStatus \cup {"absent"}] /\ owedHint \in SUBSET Slice
      /\ memory \in Memory /\ job \in [Slice -> JobState]
  BY FeedbackTypes
<1>s. at = "settled" => loop = "build"
  BY DEF RunInv, Fits, ControlFits, StretchFitsStatus
<1>1. CASE AllSlicesCommitted \/ SliceNotPlanned
  <2>1. /\ UNCHANGED <<slice, memory, saved, job, Feedback>> /\ loop # "down" /\ loop' # "down"
        /\ at = "free" /\ at' # "skip"
    BY <1>1 DEF AllSlicesCommitted, SliceNotPlanned, Limit
  <2> QED BY <2>1, FeedbackStays
<1>2. CASE StartBatch
  <2>1. \A s \in NextBatch : s \in Slice /\ slice[s] # "skipped"
    <3>1. CurrentSlice \in Slice /\ Unfinished(CurrentSlice)
      BY <1>2, <1>t, CurrentSliceLeast, ConstantsAssumption
         DEF StartBatch, RunInv, TypeOK, RowsType, Slice
    <3>2. planned \subseteq Slice
      BY DEF RunInv, TypeOK, RowsType
    <3> QED BY <3>1, <3>2 DEF NextBatch, Joinable, Unfinished
  <2>2. /\ UNCHANGED <<memory, saved, Feedback, at>> /\ loop = "look" /\ loop' = "build"
        /\ at = "free"
        /\ \A s \in Slice : /\ job'[s] \in {"none", "running"}
                            /\ job'[s] = "running" => slice'[s] = "building"
                            /\ slice[s] = "skipped" => slice'[s] = "skipped"
    BY <1>2, <1>t, <2>1 DEF StartBatch
  <2>3. HintsFit'
    BY <1>t, <2>2 DEF FeedbackInv, HintsFit, Kept
  <2>4. ToldFits'
    BY <1>t, <2>2 DEF FeedbackInv, ToldFits
  <2>5. TellingFits'
    BY <2>2, NothingTold DEF FeedbackInv, TellingFits
  <2> QED BY <2>3, <2>4, <2>5 DEF FeedbackInv
<1>3. CASE KeepOutcomes
  <2>1. /\ UNCHANGED <<slice, Feedback, job, loop>> /\ loop = "build" /\ at = "free"
        /\ at' = "settled" /\ saved' = memory'
        /\ memory'.hints = memory.hints \ (Came("passed") \cup Drivers)
    BY <1>3, <1>t DEF KeepOutcomes, KeptHints, SavesMemory, Memory
  <2>2. (owedHint \ unheard) \cap (Came("passed") \cup Drivers) = {}
    BY DEF FeedbackInv, ToldFits, Drivers, Came
  <2>3. HintsFit'
    BY <2>1, <2>2 DEF FeedbackInv, HintsFit, Kept
  <2>4. ToldFits'
    BY <2>1 DEF FeedbackInv, ToldFits
  <2>5. TellingFits'
    BY <2>1, NothingTold DEF FeedbackInv, TellingFits
  <2> QED BY <2>3, <2>4, <2>5 DEF FeedbackInv
<1>4. CASE BatchThrows \/ BatchPasses \/ BatchEscalates \/ BatchEscalatesTooLate
           \/ BatchNeedsRedesign
  <2>1. /\ UNCHANGED <<slice, saved, Feedback>> /\ loop = "build" /\ loop' # "down"
        /\ at = "settled" /\ at' # "skip" /\ memory'.hints = memory.hints
        /\ job' = [s \in Slice |-> "none"]
    BY <1>4, <1>s, <1>t DEF BatchThrows, Swallow, Throw, BatchPasses, BatchEscalates, Limit, Stops,
         BatchEscalatesTooLate, BatchNeedsRedesign, BatchDone, Memory
  <2>2. HintsFit'
    BY <2>1 DEF FeedbackInv, HintsFit, Kept
  <2>3. ToldFits'
    BY <1>t, <2>1 DEF ToldFits
  <2>4. TellingFits'
    BY <2>1, NothingTold DEF FeedbackInv, TellingFits
  <2> QED BY <2>2, <2>3, <2>4 DEF FeedbackInv
<1>5. CASE \E s \in Slice : SliceRun(s)
  BY <1>5, SliceRunFeedback
<1> QED BY <1>1, <1>2, <1>3, <1>4, <1>5 DEF Builds

\* Wherever a process dies, what was owed is in the Checkpoint.
LEMMA FaultsFeedback ==
    ASSUME RunInv, FeedbackInv, Restart \/ AwaitAborted \/ AwaitFails \/ Crash
    PROVE  FeedbackInv'
<1> USE DEF runRow, store, proc, ghosts, Free, Feedback
<1>t. job \in [Slice -> JobState] /\ owedHint \in SUBSET Slice
  BY FeedbackTypes
<1>1. CASE Restart
  <2>1. /\ UNCHANGED <<slice, saved, job, Feedback, at>> /\ loop = "down" /\ loop' = "off"
        /\ memory' = saved /\ at = "free"
    BY <1>1 DEF Restart, RunInv, Fits, ControlFits, StretchFitsStatus
  <2>2. HintsFit' /\ ToldFits'
    BY <2>1 DEF FeedbackInv, HintsFit, ToldFits, Kept
  <2>3. TellingFits'
    BY <2>1, NothingTold DEF FeedbackInv, TellingFits
  <2> QED BY <2>2, <2>3 DEF FeedbackInv
<1>2. CASE AwaitAborted \/ AwaitFails
  <2>1. /\ UNCHANGED <<slice, memory, saved, job, Feedback, at>> /\ loop # "down" /\ loop' # "down"
        /\ at = "free"
    BY <1>2 DEF AwaitAborted, AwaitFails, Swallow, Throw, Awaiting
  <2> QED BY <2>1, FeedbackStays
<1>3. CASE Crash
  <2>1. /\ at' = "free" /\ loop # "down" /\ loop' = "down" /\ telling' = {}
        /\ UNCHANGED <<slice, saved, owedHint, unheard>> /\ job' = [s \in Slice |-> "none"]
    BY <1>3 DEF Crash
  <2>2. HintsFit'
    BY <2>1 DEF FeedbackInv, HintsFit, Kept
  <2>3. ToldFits' /\ TellingFits'
    BY <1>t, <2>1 DEF ToldFits, TellingFits
  <2> QED BY <2>2, <2>3 DEF FeedbackInv
<1> QED BY <1>1, <1>2, <1>3

\* Wherever a process dies, feedback that a Checkpoint kept and no Coding Agent has had
\* yet waits for its Slice, over any batches, decisions and restarts; it is dropped only
\* with a Slice that stops on a spent Token Budget or is skipped (takeHint,
\* recordHistory, reopenLastSlice, saveCheckpoint).
THEOREM HintsAreDelivered == Spec => []UndeliveredHintsAreKept
<1>1. Init => FeedbackInv
  <2> SUFFICES ASSUME Init PROVE FeedbackInv
    OBVIOUS
  <2>1. owedHint = {} /\ telling = {} /\ job = [s \in Slice |-> "none"] /\ at = "free"
    BY DEF Init
  <2> QED BY <2>1 DEF FeedbackInv, HintsFit, TellingFits, ToldFits
<1>2. RunInv /\ FeedbackInv /\ [Next]_vars => FeedbackInv'
  <2> SUFFICES ASSUME RunInv, FeedbackInv, [Next]_vars PROVE FeedbackInv'
    OBVIOUS
  <2>1. CASE UNCHANGED vars
    <3>1. UNCHANGED <<slice, memory, saved, job, owedHint, unheard, telling, loop, at>>
      BY <2>1 DEF vars, store, proc, ghosts
    <3>2. LastPassed' = LastPassed
      BY <3>1, SameLastPassed
    <3> QED BY <3>1, <3>2 DEF FeedbackInv, HintsFit, TellingFits, ToldFits, Kept
  <2>2. CASE Next
    BY <2>2, LooksFeedback, SynchronousFeedback, DesignsFeedback, BuildsFeedback,
       ReviewingFeedback, PersonFeedback, FaultsFeedback DEF Next, Process
  <2> QED BY <2>1, <2>2
<1>3. RunInv /\ FeedbackInv => UndeliveredHintsAreKept
  BY DEF FeedbackInv, HintsFit, Kept, UndeliveredHintsAreKept
<1> QED BY <1>1, <1>2, <1>3, Inductive, PTL DEF Spec

-----------------------------------------------------------------------------
\* Once the Run is aborted, no Test Run and no Slice Commit begins, only what was being
\* committed still is, and nothing of the plan goes further than the await it was at,
\* except to deliver (#stopIfAborted).
THEOREM AbortStops == Spec => AbortStopsWork
<1> DEFINE Stopped == /\ \A s \in Slice :
                            /\ slice'[s] = "testing" => slice[s] = "testing"
                            /\ (job'[s] = "committing" \/ s \in commits' \ commits)
                                 => job[s] = "committing"
                      /\ loop' \in {loop, "down", "off", "look", "designUi", "owed"}
<1>1. ASSUME RunInv, [Next]_vars, status = "aborted" PROVE Stopped
  <2> USE <1>1 DEF runRow, store, proc, ghosts, Free
  <2>t. /\ slice \in [Slice -> SliceStatus \cup {"absent"}]
        /\ job \in [Slice -> {"none", "running", "committing", "committed", "passed", "escalated",
                             "designIssue", "rejected"}]
    BY DEF RunInv, TypeOK, RowsType, ProcessType
  <2>1. CASE UNCHANGED vars
    BY <2>1 DEF vars
  <2>2. CASE Looks
    BY <2>2 DEF Looks, StartAdvance, WaitForPerson, WaitAtPrGate, EscalationMissing, Throw,
                StartBrief, EndBrief, StartOwedDelivery, EndOwedDelivery
  <2>3. CASE Synchronous
    BY <2>3, <2>t
       DEF Synchronous, Checkpoint, OpenEscalation, RecordFailure, ReopenLast, OpenPrGate,
           ApplyResolution, SkipSlice, EditDocuments, ApplyPrDecision, ApplyAborted
  <2>4. CASE Designs
    BY <2>4, <2>t DEF Designs, StartDesign, SystemDesigned, Plan, Started, DesignReady, DesignFails,
                      Swallow
  <2>5. CASE Reviewing
    BY <2>5 DEF Reviewing, StartReview, SendBack, RefusedTooLate, ReviewStops, Limit, ReviewIsClean, GoesOn, Deliver,
                PrOpened, PrOpenedTooLate, Swallow, NothingToDeliver
  <2>6. CASE Person
    BY <2>6 DEF Person, Decides, RetryDesign, DecideDesign, ResolveEscalation, AbortEscalated, Resolve,
                DecidePullRequest, Abort
  <2>7. CASE Restart \/ AwaitAborted \/ AwaitFails \/ Crash
    BY <2>7 DEF Restart, AwaitAborted, AwaitFails, Crash, Swallow, Throw
  <2>8. CASE AllSlicesCommitted \/ SliceNotPlanned \/ StartBatch
    BY <2>8 DEF AllSlicesCommitted, SliceNotPlanned, StartBatch, Limit
  <2>9. CASE KeepOutcomes \/ BatchThrows \/ BatchPasses \/ BatchEscalates
             \/ BatchEscalatesTooLate \/ BatchNeedsRedesign
    BY <2>9 DEF KeepOutcomes, BatchThrows, BatchPasses, BatchEscalates, BatchEscalatesTooLate,
                BatchNeedsRedesign, BatchDone, Swallow, Throw, Limit
  <2>10. ASSUME NEW s \in Slice, SliceRun(s) PROVE Stopped
    BY <2>10, <2>t DEF SliceRun, SliceTests, SliceStepStops, SliceRetries, SliceCommits, CommitIsMade,
                SlicePasses, SliceEscalates, SliceNeedsRedesign, SliceThrows, Codes, GoesOn
  <2> QED BY <2>1, <2>2, <2>3, <2>4, <2>5, <2>6, <2>7, <2>8, <2>9, <2>10 DEF Next, Process, Builds
<1>2. RunInv /\ [Next]_vars => [status = "aborted" => Stopped]_vars
  BY <1>1
<1> QED BY <1>2, Inductive, PTL DEF Spec, AbortStopsWork
=============================================================================
