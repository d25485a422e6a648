-------------------------- MODULE AgentLoopProofs --------------------------
(***************************************************************************)
(* For any number of agents that share a Token Budget, and any limits:     *)
(* the variables keep their types, the overdraft is bounded, and an answer *)
(* sent back by a check is not lost to the end of the turns.               *)
(***************************************************************************)
EXTENDS AgentLoop, FiniteSetTheorems, TLAPS

-----------------------------------------------------------------------------
(* The inductive invariant. *)

\* The loops with a model call under way.
InFlight == {l \in Loops : pc[l] \in Waiting}

\* Every call under way may still take LargestCall.
BudgetInv ==
    used + Cardinality(InFlight) * LargestCall < TokenBudget + Cardinality(Loops) * LargestCall

\* What a loop knows of the answers it was given, wherever it is.
AnswerInv ==
    \A l \in Loops :
        /\ stopReason[l] = "answered" => answer[l] = given[l] /\ given[l] > 0
        /\ stopReason[l] = "maxIterations" =>
              /\ sentBack[l] = given[l]
              /\ pc[l] \in {"note", "noteCall", "noteWait", "over"} => given[l] = 0
        /\ pc[l] \in {"turn", "call", "wait"} => stopReason[l] = "maxIterations"
        /\ pc[l] = "check" => stopReason[l] = "answered"

\* The turns a Step has left, where the next reply counts one.
TurnInv ==
    \A l \in Loops :
        /\ pc[l] \in {"call", "wait"} => iterations[l] < MaxIterations
        /\ pc[l] = "check" => checks[l] < MAX_CHECKS

-----------------------------------------------------------------------------
(* The variables keep their types. *)
LEMMA InitTypes == Init => TypeOK /\ TurnInv
<1> SUFFICES ASSUME Init PROVE TypeOK /\ TurnInv
  OBVIOUS
<1> USE ConstantsAssumption DEF Init
<1>1. /\ used \in Nat /\ stopped \in BOOLEAN
      /\ pc \in [Loops -> Pc]
      /\ stopReason \in [Loops -> StopReason]
      /\ changed \in [Loops -> BOOLEAN]
      /\ note \in [Loops -> {"none", "model", "facts"}]
      /\ lastProblems \in [Loops -> Problems \cup {"none"}]
  BY DEF Pc, StopReason
<1>2. /\ 0 \in 0..MaxIterations /\ 0 \in 0..MaxApiAttempts
      /\ 0 \in 0..MAX_CHECKS /\ 0 \in 0..LargestCall
  BY DEF MAX_CHECKS
<1>3. /\ attempts \in [Loops -> 0..MaxApiAttempts]
      /\ iterations \in [Loops -> 0..MaxIterations]
      /\ checks \in [Loops -> 0..MAX_CHECKS]
      /\ answer \in [Loops -> 0..MaxIterations]
      /\ sentBack \in [Loops -> 0..MaxIterations]
      /\ lastPrompt \in [Loops -> 0..LargestCall]
      /\ given \in [Loops -> 0..MaxIterations]
  BY <1>2
<1>4. TurnInv
  BY DEF TurnInv
<1> QED
  BY <1>1, <1>3, <1>4 DEF TypeOK

LEMMA NextTypes ==
  ASSUME TypeOK, TurnInv, [Next]_vars
  PROVE  TypeOK' /\ TurnInv'
<1> USE ConstantsAssumption DEF TypeOK, TurnInv, Pc, Waiting, Ended, StopReason, MAX_CHECKS, Goto
<1>1. CASE UNCHANGED vars
  BY <1>1 DEF vars, work
<1>2. CASE Stop
  BY <1>2 DEF Stop, work
<1>3. ASSUME NEW l \in Loops, Step(l) PROVE TypeOK' /\ TurnInv'
  <2>1. CASE BeginTurn(l)
    BY <2>1 DEF BeginTurn, MayTurn, work
  <2>2. CASE StopThrown(l)
    BY <2>2 DEF StopThrown, MayTurn, work
  <2>3. CASE OutOfBudget(l)
    BY <2>3 DEF OutOfBudget, MayTurn
  <2>4. CASE OutOfTurns(l)
    BY <2>4 DEF OutOfTurns
  <2>5. CASE TurnReply(l)
    <3>1. /\ used' \in Nat
          /\ lastPrompt' \in [Loops -> 0..LargestCall]
      BY <2>5 DEF TurnReply, Spend, Usage
    <3>2. /\ iterations' \in [Loops -> 0..MaxIterations]
          /\ iterations[l] + 1 \in 0..MaxIterations
      BY <2>5 DEF TurnReply
    <3>3. /\ stopped' = stopped /\ attempts' = attempts /\ note' = note
          /\ iterations' = [iterations EXCEPT ![l] = @ + 1]
      BY <2>5 DEF TurnReply
    <3>4. CASE \E empty \in BOOLEAN : Answers(l, empty)
      <4>1. PICK empty \in BOOLEAN : Answers(l, empty)
        BY <3>4
      <4>2. /\ stopReason' = [stopReason EXCEPT ![l] = IF empty THEN "emptyAnswer" ELSE "answered"]
            /\ answer' = [answer EXCEPT ![l] = IF empty THEN 0 ELSE iterations[l] + 1]
            /\ given' = [given EXCEPT ![l] = IF empty THEN @ ELSE iterations[l] + 1]
            /\ sentBack' = sentBack /\ lastProblems' = lastProblems /\ checks' = checks
            /\ changed' = changed
        BY <4>1 DEF Answers
      <4>3. pc' = [pc EXCEPT ![l] = "note"] \/ (pc' = [pc EXCEPT ![l] = "check"] /\ checks[l] < 2)
        BY <4>1 DEF Answers
      <4> QED
        BY <3>1, <3>2, <3>3, <4>2, <4>3
    <3>5. CASE \E writes \in BOOLEAN : Calls(l, writes)
      BY <3>1, <3>2, <3>3, <3>5 DEF Calls
    <3> QED
      BY <2>5, <3>4, <3>5 DEF TurnReply
  <2>6. CASE NoteReply(l)
    BY <2>6 DEF NoteReply, Spend, Usage, work
  <2>7. CASE Retry(l)
    BY <2>7 DEF Retry, work
  <2>8. CASE Waited(l)
    BY <2>8 DEF Waited, work
  <2>9. CASE ApiError(l)
    BY <2>9 DEF ApiError, work
  <2>10. CASE BodyLost(l)
    BY <2>10 DEF BodyLost, work
  <2>11. CASE CheckPasses(l)
    BY <2>11 DEF CheckPasses, work
  <2>12. CASE CheckFails(l)
    BY <2>12 DEF CheckFails, SendBack, work
  <2>13. CASE AskNote(l)
    BY <2>13 DEF AskNote, work
  <2>14. CASE FallbackNote(l)
    BY <2>14 DEF FallbackNote, work
  <2> QED
    BY <1>3, <2>1, <2>2, <2>3, <2>4, <2>5, <2>6, <2>7, <2>8, <2>9, <2>10, <2>11, <2>12, <2>13, <2>14
    DEF Step
<1> QED
  BY <1>1, <1>2, <1>3 DEF Next

-----------------------------------------------------------------------------
(* The answers. *)
LEMMA NextAnswers ==
  ASSUME TypeOK, TurnInv, AnswerInv, [Next]_vars
  PROVE  AnswerInv'
<1> USE DEF TypeOK, AnswerInv, Goto
<1>1. CASE UNCHANGED vars
  BY <1>1 DEF vars, work
<1>2. CASE Stop
  BY <1>2 DEF Stop, work
<1>3. ASSUME NEW l \in Loops, Step(l) PROVE AnswerInv'
  <2>1. CASE BeginTurn(l)
    BY <2>1 DEF BeginTurn, MayTurn, work
  <2>2. CASE StopThrown(l)
    BY <2>2 DEF StopThrown, MayTurn, work
  <2>3. CASE OutOfBudget(l)
    BY <2>3 DEF OutOfBudget, MayTurn
  <2>4. CASE OutOfTurns(l)
    BY <2>4 DEF OutOfTurns
  <2>5. CASE TurnReply(l)
    <3>1. CASE \E empty \in BOOLEAN : Answers(l, empty)
      <4>1. PICK empty \in BOOLEAN : Answers(l, empty)
        BY <3>1
      <4>2. /\ stopReason' = [stopReason EXCEPT ![l] = IF empty THEN "emptyAnswer" ELSE "answered"]
            /\ answer' = [answer EXCEPT ![l] = IF empty THEN 0 ELSE iterations[l] + 1]
            /\ given' = [given EXCEPT ![l] = IF empty THEN @ ELSE iterations[l] + 1]
            /\ sentBack' = sentBack
        BY <4>1 DEF Answers
      <4>3. pc' = [pc EXCEPT ![l] = "note"] \/ (pc' = [pc EXCEPT ![l] = "check"] /\ ~empty)
        BY <4>1 DEF Answers
      <4>4. iterations[l] + 1 > 0
        OBVIOUS
      <4> QED
        BY <4>2, <4>3, <4>4
    <3>2. CASE \E writes \in BOOLEAN : Calls(l, writes)
      BY <2>5, <3>2 DEF Calls, TurnReply
    <3> QED
      BY <2>5, <3>1, <3>2 DEF TurnReply
  <2>6. CASE NoteReply(l)
    BY <2>6 DEF NoteReply, Spend, work
  <2>7. CASE Retry(l)
    BY <2>7 DEF Retry, work
  <2>8. CASE Waited(l)
    BY <2>8 DEF Waited, work
  <2>9. CASE ApiError(l)
    BY <2>9 DEF ApiError, work
  <2>10. CASE BodyLost(l)
    BY <2>10 DEF BodyLost, work
  <2>11. CASE CheckPasses(l)
    BY <2>11 DEF CheckPasses, work
  <2>12. CASE CheckFails(l)
    BY <2>12 DEF CheckFails, SendBack, work
  <2>13. CASE AskNote(l)
    BY <2>13 DEF AskNote, work
  <2>14. CASE FallbackNote(l)
    BY <2>14 DEF FallbackNote, work
  <2> QED
    BY <1>3, <2>1, <2>2, <2>3, <2>4, <2>5, <2>6, <2>7, <2>8, <2>9, <2>10, <2>11, <2>12, <2>13, <2>14
    DEF Step
<1> QED
  BY <1>1, <1>2, <1>3 DEF Next

-----------------------------------------------------------------------------
(* The budget: multiplication is kept to two lemmas. *)
LEMMA TimesMonotone ==
  ASSUME NEW a \in Nat, NEW b \in Nat, NEW c \in Nat, a <= b
  PROVE  a * c <= b * c
<1>1. b - a \in Nat /\ (b - a) * c >= 0
  OBVIOUS
<1>2. (b - a) * c = b * c - a * c
  OBVIOUS
<1> QED
  BY <1>1, <1>2

LEMMA TimesPredecessor ==
  ASSUME NEW a \in Nat, NEW c \in Nat
  PROVE  (a - 1) * c = a * c - c
  OBVIOUS

LEMMA FlightIsFinite ==
  /\ IsFiniteSet(InFlight) /\ Cardinality(InFlight) \in Nat
  /\ IsFiniteSet(Loops) /\ Cardinality(Loops) \in Nat
  /\ Cardinality(InFlight) <= Cardinality(Loops)
<1>1. InFlight \subseteq Loops /\ IsFiniteSet(Loops)
  BY ConstantsAssumption DEF InFlight
<1> QED
  BY <1>1, FS_Subset, FS_CardinalityType

\* A call is begun with tokens left, whoever else has one under way.
LEMMA BegunWithBudget ==
  ASSUME NEW u \in Nat, u < TokenBudget, NEW F \in SUBSET Loops
  PROVE  u + Cardinality(F) * LargestCall < TokenBudget + Cardinality(Loops) * LargestCall
<1> DEFINE k == Cardinality(F)
           n == Cardinality(Loops)
<1>1. k \in Nat /\ n \in Nat /\ k <= n
  BY ConstantsAssumption, FS_Subset, FS_CardinalityType
<1>2. k * LargestCall <= n * LargestCall
  BY <1>1, TimesMonotone, ConstantsAssumption
<1>3. k * LargestCall \in Int /\ n * LargestCall \in Int
  BY <1>1, ConstantsAssumption
<1> HIDE DEF k, n
<1>4. u + k * LargestCall < TokenBudget + n * LargestCall
  BY <1>2, <1>3, ConstantsAssumption
<1> QED
  BY <1>4 DEF k, n

\* A call that ends takes at most what was set aside for it.
LEMMA CallEndsInBudget ==
  ASSUME TypeOK, TypeOK', BudgetInv, NEW l \in InFlight, InFlight' = InFlight \ {l},
         used' <= used + LargestCall
  PROVE  BudgetInv'
<1> DEFINE k == Cardinality(InFlight)
           n == Cardinality(Loops)
<1>1. Cardinality(InFlight') = k - 1 /\ k \in Nat /\ n \in Nat
  BY FlightIsFinite, FS_RemoveElement
<1>2. (k - 1) * LargestCall = k * LargestCall - LargestCall
  BY <1>1, TimesPredecessor, ConstantsAssumption
<1>3. k * LargestCall \in Int /\ n * LargestCall \in Int /\ (k - 1) * LargestCall \in Int
  BY <1>1, ConstantsAssumption
<1>4. used + k * LargestCall < TokenBudget + n * LargestCall
  BY DEF BudgetInv
<1>5. used' + (k - 1) * LargestCall < TokenBudget + n * LargestCall
  BY <1>2, <1>3, <1>4, ConstantsAssumption DEF TypeOK
<1> QED
  BY <1>1, <1>5 DEF BudgetInv

\* A step that neither begins nor ends a call, and spends nothing.
LEMMA BudgetUntouched ==
  ASSUME BudgetInv, InFlight' = InFlight, used' = used
  PROVE  BudgetInv'
  BY DEF BudgetInv

LEMMA NextBudget ==
  ASSUME TypeOK, TypeOK', BudgetInv, [Next]_vars
  PROVE  BudgetInv'
<1>1. CASE UNCHANGED vars
  BY <1>1, BudgetUntouched DEF vars, work, InFlight
<1>2. CASE Stop
  BY <1>2, BudgetUntouched DEF Stop, InFlight
<1>3. ASSUME NEW l \in Loops, Step(l) PROVE BudgetInv'
  <2> USE DEF Goto, TypeOK, InFlight, Waiting
  <2>1. ASSUME BeginTurn(l) \/ AskNote(l) PROVE BudgetInv'
    <3>1. used < TokenBudget
      BY <2>1, ConstantsAssumption DEF BeginTurn, AskNote, NoteFits, BudgetSpent, remaining
    <3>2. used' \in Nat /\ used' < TokenBudget /\ InFlight' \in SUBSET Loops
      BY <2>1, <3>1 DEF BeginTurn, AskNote
    <3> HIDE DEF InFlight, TypeOK
    <3> QED
      BY <3>2, BegunWithBudget DEF BudgetInv
  <2>2. ASSUME StopThrown(l) \/ OutOfBudget(l) \/ OutOfTurns(l) \/ CheckPasses(l) \/ CheckFails(l)
               \/ FallbackNote(l)
        PROVE BudgetInv'
    <3>1. /\ used' = used /\ pc[l] \notin Waiting
          /\ \E p \in {"thrown", "note", "turn", "over"} : pc' = [pc EXCEPT ![l] = p]
      BY <2>2 DEF StopThrown, OutOfBudget, OutOfTurns, CheckPasses, CheckFails, FallbackNote, MayTurn
    <3>2. InFlight' = InFlight
      BY <3>1
    <3> QED
      BY <3>1, <3>2, BudgetUntouched
  <2>3. ASSUME Retry(l) \/ Waited(l) PROVE BudgetInv'
    <3>1. /\ used' = used /\ pc[l] \in Waiting
          /\ \E p \in Waiting : pc' = [pc EXCEPT ![l] = p]
      BY <2>3 DEF Retry, Waited
    <3>2. InFlight' = InFlight
      BY <3>1
    <3> QED
      BY <3>1, <3>2, BudgetUntouched
  <2>4. ASSUME TurnReply(l) \/ NoteReply(l) \/ ApiError(l) \/ BodyLost(l) PROVE BudgetInv'
    <3>1. used' <= used + LargestCall
      BY <2>4, ConstantsAssumption DEF TurnReply, NoteReply, ApiError, BodyLost, Spend, Usage
    <3>2. pc[l] \in Waiting
      BY <2>4 DEF TurnReply, NoteReply, ApiError, BodyLost
    <3>3. \E p \in {"note", "check", "turn", "over", "thrown"} : pc' = [pc EXCEPT ![l] = p]
      BY <2>4 DEF TurnReply, NoteReply, ApiError, BodyLost, Answers, Calls
    <3>4. l \in InFlight /\ InFlight' = InFlight \ {l}
      BY <3>2, <3>3
    <3> HIDE DEF TypeOK, InFlight
    <3> QED
      BY <3>1, <3>4, CallEndsInBudget
  <2> QED
    BY <1>3, <2>1, <2>2, <2>3, <2>4 DEF Step
<1> QED
  BY <1>1, <1>2, <1>3 DEF Next

-----------------------------------------------------------------------------
IInv == TypeOK /\ TurnInv /\ AnswerInv /\ BudgetInv

(* The strengthened invariant: holds at the start, and every step of any   *)
(* number of loops keeps it.                                               *)
THEOREM Inductive == Spec => []IInv
<1>1. Init => IInv
  <2> SUFFICES ASSUME Init PROVE IInv
    OBVIOUS
  <2>1. TypeOK /\ TurnInv
    BY InitTypes
  <2>2. AnswerInv
    BY DEF Init, AnswerInv
  <2>3. used \in Nat /\ used < TokenBudget /\ InFlight \in SUBSET Loops
    BY ConstantsAssumption DEF Init, InFlight
  <2> QED
    BY <2>1, <2>2, <2>3, BegunWithBudget DEF IInv, BudgetInv
<1>2. IInv /\ [Next]_vars => IInv'
  BY NextTypes, NextAnswers, NextBudget DEF IInv
<1> QED
  BY <1>1, <1>2, PTL DEF Spec

(* The variables of the agent loop keep their types. *)
THEOREM LoopTypeCorrect == Spec => []TypeOK
  BY Inductive, PTL DEF IInv

(* However many agents share the Token Budget, it is overdrawn by less     *)
(* than one call of each (agentLoop.ts #turns, #workingMemory).            *)
THEOREM BudgetIsShared == Spec => []OverdraftIsBounded
<1>1. IInv => OverdraftIsBounded
  <2> SUFFICES ASSUME IInv PROVE OverdraftIsBounded
    OBVIOUS
  <2> DEFINE k == Cardinality(InFlight)
             n == Cardinality(Loops)
  <2>1. k \in Nat /\ n \in Nat
    BY FlightIsFinite
  <2>2. 0 * LargestCall <= k * LargestCall
    BY <2>1, TimesMonotone, ConstantsAssumption
  <2>3. k * LargestCall \in Int /\ n * LargestCall \in Int /\ k * LargestCall >= 0
    BY <2>1, <2>2, ConstantsAssumption
  <2> QED
    BY <2>3, ConstantsAssumption DEF IInv, BudgetInv, TypeOK, OverdraftIsBounded
<1> QED
  BY <1>1, Inductive, PTL

(* An answer that a check sent back still ends the Step answered when the  *)
(* turns run out (agentLoop.ts run).                                       *)
THEOREM SentBackAnswerStands == Spec => []AnswersAreNotLost
<1>1. IInv => AnswersAreNotLost
  BY DEF IInv, AnswerInv, AnswersAreNotLost
<1> QED
  BY <1>1, Inductive, PTL
=============================================================================
