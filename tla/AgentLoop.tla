----------------------------- MODULE AgentLoop -----------------------------
(***************************************************************************)
(* The agent loop (packages/core/src/agentLoop/agentLoop.ts): an agent     *)
(* works on one Task, turn after turn, until it answers or hits a limit.   *)
(* Loops of one Run go on at the same time (the sides of a Slice, Slices   *)
(* of a batch) and spend one Token Budget.  An answer may be checked       *)
(* (agents/coding/selfCheck.ts) and sent back; whatever happened, the loop *)
(* ends with a Working Memory note, unless a person stopped the Run or the *)
(* client threw what is not a ChatApiError.                                *)
(*                                                                         *)
(* `pc` is the await a loop is at.  What a message says is left out: an    *)
(* answer is the number of the turn it came in, and the problems a check   *)
(* found are one of Problems, timings and line numbers already taken out.  *)
(***************************************************************************)
EXTENDS Integers, FiniteSets

CONSTANTS
    Loops,           \* the agents that work at the same time
    Checked,         \* those whose Task has a check
    Problems,        \* what a check may say, after normalizeError
    MaxIterations,   \* model turns allowed in one Step
    MaxApiAttempts,  \* tries per model call
    TokenBudget,     \* the Run's
    LargestCall,     \* bound: the most tokens one model call takes
    NoteTokens       \* WORKING_MEMORY_MAX_TOKENS

ASSUME ConstantsAssumption ==
    /\ IsFiniteSet(Loops) /\ Checked \subseteq Loops
    /\ MaxIterations \in Nat
    /\ MaxApiAttempts \in Nat \ {0}
    /\ TokenBudget \in Nat \ {0}
    /\ LargestCall \in Nat \ {0}
    /\ NoteTokens \in Nat \ {0}

VARIABLES
    used,           \* tokensUsed, stored with the Run
    stopped,        \* a person stopped the Run
    pc,             \* loop -> the await it is at
    attempts,       \* loop -> tries of the call under way
    iterations,     \* loop -> model turns so far
    checks,         \* loop -> answers sent back
    answer,         \* loop -> the turn whose answer stands, or 0
    sentBack,       \* loop -> the turn of the last answer sent back, or 0
    lastProblems,   \* loop -> what the check last said, or "none"
    stopReason,     \* loop -> StopReason
    lastPrompt,     \* loop -> prompt tokens of its latest call
    changed,        \* loop -> its tools wrote or deleted a file
    note,           \* loop -> whose Working Memory it ended with, or "none"
    \* History, read by properties only.
    given           \* loop -> the turn of the latest answer the model gave, or 0

work == <<answer, sentBack, lastProblems, stopReason, checks>>
vars == <<used, stopped, pc, attempts, iterations, work, lastPrompt, changed, note, given>>

-----------------------------------------------------------------------------
MAX_CHECKS == 2

StopReason == {"answered", "maxIterations", "tokenBudget", "emptyAnswer", "apiError"}

Waiting == {"call", "wait", "noteCall", "noteWait"}
Ended   == {"over", "thrown"}
Pc      == {"turn", "check", "note"} \cup Waiting \cup Ended

\* What one model call takes: a prompt, and what the model wrote.
Usage == {u \in [prompt : 1..LargestCall, completion : 0..LargestCall] :
            u.prompt + u.completion <= LargestCall}

\* RunTokenBudget: read from the stored Run, and so the same for every loop.
remaining == TokenBudget - used

\* Mutant: the last token counts as one more call.
BudgetOverdrawn == remaining < 0

BudgetSpent == remaining <= 0

Goto(l, where) == pc' = [pc EXCEPT ![l] = where]

Init ==
    /\ used = 0 /\ stopped = FALSE
    /\ pc = [l \in Loops |-> "turn"]
    /\ attempts = [l \in Loops |-> 0]
    /\ iterations = [l \in Loops |-> 0]
    /\ checks = [l \in Loops |-> 0]
    /\ answer = [l \in Loops |-> 0]
    /\ sentBack = [l \in Loops |-> 0]
    /\ lastProblems = [l \in Loops |-> "none"]
    /\ stopReason = [l \in Loops |-> "maxIterations"]
    /\ lastPrompt = [l \in Loops |-> 0]
    /\ changed = [l \in Loops |-> FALSE]
    /\ note = [l \in Loops |-> "none"]
    /\ given = [l \in Loops |-> 0]

-----------------------------------------------------------------------------
(* The head of the turn loop: turns left, then the stop, then the budget.  *)

MayTurn(l) == pc[l] = "turn" /\ iterations[l] < MaxIterations

BeginTurn(l) ==
    /\ MayTurn(l) /\ ~stopped /\ ~BudgetSpent
    /\ Goto(l, "call")
    /\ attempts' = [attempts EXCEPT ![l] = 1]
    /\ UNCHANGED <<used, stopped, iterations, work, lastPrompt, changed, note, given>>

\* RunStoppedError goes through run: no note, and the caller discards the Step.
StopThrown(l) ==
    /\ MayTurn(l) /\ stopped
    /\ Goto(l, "thrown")
    /\ UNCHANGED <<used, stopped, attempts, iterations, work, lastPrompt, changed, note, given>>

OutOfBudget(l) ==
    /\ MayTurn(l) /\ ~stopped /\ BudgetSpent
    /\ stopReason' = [stopReason EXCEPT ![l] = "tokenBudget"]
    /\ Goto(l, "note")
    /\ UNCHANGED <<used, stopped, attempts, iterations, answer, sentBack, lastProblems, checks,
                   lastPrompt, changed, note, given>>

\* The while loop ends by itself; the answer sent back last then stands.
OutOfTurns(l) ==
    /\ pc[l] = "turn" /\ iterations[l] >= MaxIterations
    /\ IF stopReason[l] = "maxIterations" /\ sentBack[l] # 0
       THEN /\ stopReason' = [stopReason EXCEPT ![l] = "answered"]
            /\ answer' = [answer EXCEPT ![l] = sentBack[l]]
       ELSE UNCHANGED <<stopReason, answer>>
    /\ Goto(l, "note")
    /\ UNCHANGED <<used, stopped, attempts, iterations, sentBack, lastProblems, checks,
                   lastPrompt, changed, note, given>>

-----------------------------------------------------------------------------
(* A model call, made for a turn ("call") or for the note ("noteCall").    *)

Spend(l, u) ==
    /\ used' = used + u.prompt + u.completion
    /\ lastPrompt' = [lastPrompt EXCEPT ![l] = u.prompt]

\* The reply has no tool calls: it is the answer, or a failed Step when empty.
Answers(l, empty) ==
    LET turn == iterations[l] + 1 IN
    /\ stopReason' = [stopReason EXCEPT ![l] = IF empty THEN "emptyAnswer" ELSE "answered"]
    /\ answer' = [answer EXCEPT ![l] = IF empty THEN 0 ELSE turn]
    /\ given' = [given EXCEPT ![l] = IF empty THEN @ ELSE turn]
    /\ IF l \in Checked /\ ~empty /\ turn < MaxIterations /\ checks[l] < MAX_CHECKS
       THEN Goto(l, "check")
       ELSE Goto(l, "note")
    /\ UNCHANGED <<sentBack, lastProblems, checks, changed>>

\* The reply has tool calls.  They are not run once the budget is spent, and
\* a reply cut off at the output limit runs none of them (`writes` is FALSE).
Calls(l, writes) ==
    /\ IF used' >= TokenBudget
       THEN /\ stopReason' = [stopReason EXCEPT ![l] = "tokenBudget"]
            /\ Goto(l, "note")
            /\ UNCHANGED changed
       ELSE /\ changed' = [changed EXCEPT ![l] = @ \/ writes]
            /\ Goto(l, "turn")
            /\ UNCHANGED stopReason
    /\ UNCHANGED <<answer, sentBack, lastProblems, checks, given>>

TurnReply(l) ==
    /\ pc[l] = "call"
    /\ iterations' = [iterations EXCEPT ![l] = @ + 1]
    /\ \E u \in Usage : Spend(l, u)
    /\ \/ \E empty \in BOOLEAN : Answers(l, empty)
       \/ \E writes \in BOOLEAN : Calls(l, writes)
    /\ UNCHANGED <<stopped, attempts, note>>

\* The model's note, or the facts when it wrote nothing.
NoteReply(l) ==
    /\ pc[l] = "noteCall"
    /\ \E u \in Usage : Spend(l, u)
    /\ \E by \in {"model", "facts"} : note' = [note EXCEPT ![l] = by]
    /\ Goto(l, "over")
    /\ UNCHANGED <<stopped, attempts, iterations, work, changed, given>>

\* Mutant: a wait is not counted as a try.
RetryUncounted(l) ==
    /\ pc[l] \in {"call", "noteCall"} /\ attempts[l] < MaxApiAttempts
    /\ Goto(l, IF pc[l] = "call" THEN "wait" ELSE "noteWait")
    /\ UNCHANGED <<used, stopped, attempts, iterations, work, lastPrompt, changed, note, given>>

\* 429, 5xx or no connection, with a try left: wait, then the same call again.
Retry(l) ==
    /\ pc[l] \in {"call", "noteCall"} /\ attempts[l] < MaxApiAttempts
    /\ attempts' = [attempts EXCEPT ![l] = @ + 1]
    /\ Goto(l, IF pc[l] = "call" THEN "wait" ELSE "noteWait")
    /\ UNCHANGED <<used, stopped, iterations, work, lastPrompt, changed, note, given>>

Waited(l) ==
    /\ pc[l] \in {"wait", "noteWait"}
    /\ Goto(l, IF pc[l] = "wait" THEN "call" ELSE "noteCall")
    /\ UNCHANGED <<used, stopped, attempts, iterations, work, lastPrompt, changed, note, given>>

\* A status that is not retried, or the last try: a turn ends the Step with
\* facts for a note, and a note is written from facts.
ApiError(l) ==
    \/ /\ pc[l] = "call"
       /\ stopReason' = [stopReason EXCEPT ![l] = "apiError"]
       /\ Goto(l, "note")
       /\ UNCHANGED <<used, stopped, attempts, iterations, answer, sentBack, lastProblems, checks,
                      lastPrompt, changed, note, given>>
    \/ /\ pc[l] = "noteCall"
       /\ note' = [note EXCEPT ![l] = "facts"]
       /\ Goto(l, "over")
       /\ UNCHANGED <<used, stopped, attempts, iterations, work, lastPrompt, changed, given>>

\* The connection drops while the body is read, or the body is no JSON: that
\* is no ChatApiError, so nothing retries it and it goes through run.
BodyLost(l) ==
    /\ pc[l] \in {"call", "noteCall"}
    /\ Goto(l, "thrown")
    /\ UNCHANGED <<used, stopped, attempts, iterations, work, lastPrompt, changed, note, given>>

-----------------------------------------------------------------------------
(* The check of an answer: what SandboxSelfCheck says, and what run makes  *)
(* of it.  It says nothing when nothing was written, when the application  *)
(* is too large, or when the sandbox could not run.                        *)

CheckPasses(l) ==
    /\ pc[l] = "check"
    /\ Goto(l, "note")
    /\ UNCHANGED <<used, stopped, attempts, iterations, work, lastPrompt, changed, note, given>>

\* Mutant: only the first answer sent back is remembered.
SendBackFirst(l, p) ==
    /\ lastProblems' = [lastProblems EXCEPT ![l] = p]
    /\ checks' = [checks EXCEPT ![l] = @ + 1]
    /\ sentBack' = [sentBack EXCEPT ![l] = IF @ = 0 THEN answer[l] ELSE @]
    /\ stopReason' = [stopReason EXCEPT ![l] = "maxIterations"]
    /\ answer' = [answer EXCEPT ![l] = 0]

\* The answer goes back to the agent with what is wrong: not an answer yet.
SendBack(l, p) ==
    /\ lastProblems' = [lastProblems EXCEPT ![l] = p]
    /\ checks' = [checks EXCEPT ![l] = @ + 1]
    /\ sentBack' = [sentBack EXCEPT ![l] = answer[l]]
    /\ stopReason' = [stopReason EXCEPT ![l] = "maxIterations"]
    /\ answer' = [answer EXCEPT ![l] = 0]

\* The same problem as last time stands: the Test Run judges the answer.
CheckFails(l) ==
    /\ pc[l] = "check" /\ changed[l]
    /\ \E p \in Problems :
        IF p = lastProblems[l]
        THEN Goto(l, "note") /\ UNCHANGED work
        ELSE SendBack(l, p) /\ Goto(l, "turn")
    /\ UNCHANGED <<used, stopped, attempts, iterations, lastPrompt, changed, note, given>>

-----------------------------------------------------------------------------
(* The end of the Step: the model writes its note if another full prompt   *)
(* fits in the budget, otherwise the facts do.                             *)

NoteFits(l) == remaining >= lastPrompt[l] + NoteTokens

AskNote(l) ==
    /\ pc[l] = "note" /\ stopReason[l] # "apiError" /\ NoteFits(l)
    /\ Goto(l, "noteCall")
    /\ attempts' = [attempts EXCEPT ![l] = 1]
    /\ UNCHANGED <<used, stopped, iterations, work, lastPrompt, changed, note, given>>

FallbackNote(l) ==
    /\ pc[l] = "note" /\ (stopReason[l] = "apiError" \/ ~NoteFits(l))
    /\ note' = [note EXCEPT ![l] = "facts"]
    /\ Goto(l, "over")
    /\ UNCHANGED <<used, stopped, attempts, iterations, work, lastPrompt, changed, given>>

\* A person aborts the Run: read by every loop before its next turn.
Stop ==
    /\ ~stopped /\ stopped' = TRUE
    /\ UNCHANGED <<used, pc, attempts, iterations, work, lastPrompt, changed, note, given>>

\* What LoopCodingAgent makes of it: a Step is judged by what it did.
problem(l) ==
    IF stopReason[l] # "answered" THEN "notAnswered"
    ELSE IF ~changed[l] THEN "noChanges" ELSE "none"

Step(l) ==
    \/ BeginTurn(l) \/ StopThrown(l) \/ OutOfBudget(l) \/ OutOfTurns(l)
    \/ TurnReply(l) \/ NoteReply(l) \/ Retry(l) \/ Waited(l) \/ ApiError(l) \/ BodyLost(l)
    \/ CheckPasses(l) \/ CheckFails(l)
    \/ AskNote(l) \/ FallbackNote(l)

Next == Stop \/ \E l \in Loops : Step(l)

\* Every await of a loop ends: calls and sandbox runs have timeouts.
Fairness == \A l \in Loops : WF_vars(Step(l))

Spec     == Init /\ [][Next]_vars
FairSpec == Spec /\ Fairness
-----------------------------------------------------------------------------
(* Every variable has its type. *)
TypeOK ==
    /\ used \in Nat /\ stopped \in BOOLEAN
    /\ pc \in [Loops -> Pc]
    /\ attempts \in [Loops -> 0..MaxApiAttempts]
    /\ iterations \in [Loops -> 0..MaxIterations]
    /\ checks \in [Loops -> 0..MAX_CHECKS]
    /\ answer \in [Loops -> 0..MaxIterations]
    /\ sentBack \in [Loops -> 0..MaxIterations]
    /\ lastProblems \in [Loops -> Problems \cup {"none"}]
    /\ stopReason \in [Loops -> StopReason]
    /\ lastPrompt \in [Loops -> 0..LargestCall]
    /\ changed \in [Loops -> BOOLEAN]
    /\ note \in [Loops -> {"none", "model", "facts"}]
    /\ given \in [Loops -> 0..MaxIterations]

(* The Token Budget is overdrawn by less than one call of each loop that   *)
(* works at the same time: every loop reads what is left of it before each *)
(* call (agentLoop.ts #turns and #workingMemory), none reads it again      *)
(* between the tries of a call, and several calls are under way at once.   *)
OverdraftIsBounded == used < TokenBudget + Cardinality(Loops) * LargestCall

(* An answer the check sent back is not lost to the end of the turns: a    *)
(* Step that ends answered ends with the latest answer the model gave, and *)
(* one that ends at the iteration limit was never given any ("an answer    *)
(* sent back, followed by no other before the turns ran out, still ends    *)
(* the Step answered", agentLoop.ts run).                                  *)
AnswersAreNotLost ==
    \A l \in Loops : pc[l] = "over" =>
        /\ stopReason[l] = "answered" => answer[l] = given[l] /\ given[l] > 0
        /\ stopReason[l] = "maxIterations" => given[l] = 0

(* A check is never worse than none: an agent that wrote code and answered *)
(* has a Step without a problem, as it would have had if its answer had    *)
(* not been checked (the comment in agentLoop.ts run).  Here it has not,   *)
(* when the turn after the answer sent back ends in an empty answer, an    *)
(* error of the API or a spent budget.                                     *)
CheckIsNeverWorse ==
    \A l \in Loops : (pc[l] = "over" /\ given[l] > 0 /\ changed[l]) => problem(l) = "none"

(* Every Step ends: retries, turns, checks and the note all run out.       *)
StepEnds == \A l \in Loops : <>(pc[l] \in Ended)
=============================================================================
