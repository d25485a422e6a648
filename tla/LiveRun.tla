------------------------------ MODULE LiveRun ------------------------------
(***************************************************************************)
(* One Run, kept live on a page: the loop that advances it in the server   *)
(* (apps/server/src/runs/runtimeRunService.ts), the events it publishes    *)
(* (eventLog.ts), the stream they travel on (runs.controller.ts,           *)
(* apps/web/src/api/client.ts) and the page that follows them while it     *)
(* reads the Run again over another connection (apps/web/src/run).         *)
(*                                                                         *)
(* The Orchestrator is abstract here (RunOrchestrator is its model): a     *)
(* look at the Run, work that may end in an Escalation or be aborted, a    *)
(* brief.  An event carries what the page's reducer reads of it.  A        *)
(* server's numbering starts from the time it started, so above every      *)
(* number of its last life: `seq` only grows.                              *)
(***************************************************************************)
EXTENDS Naturals, Sequences, FiniteSets, FiniteSetsExt, SequencesExt

CONSTANTS
    Kept,       \* KEPT_PER_RUN
    MaxEvents,  \* bound: events published and restarts
    MaxReads,   \* bound: requests and answers on their way
    MaxFaults   \* bound: deaths, lost connections, failed reads and loops

VARIABLES
    \* The database.
    status, question, brief, stepRunning,
    \* The memory of the server.
    up, loop, again, briefOwed, seq, kept,
    \* The stream: what is on its way to the page, what the page last saw.
    conn, wire, seen, lost,
    \* The page: the Run, the moves in its feed, the last spend's number.
    detail, moves, tokens,
    \* Its timer for the next read; reads on their way out and back.
    due, asks, answers,
    faults,
    \* History, read by properties only: the number of the last move, and
    \* who was told why nothing advances the Run: "nobody", its "followers",
    \* or only the server's "log".
    moved, told

database == <<status, question, brief, stepRunning>>
loopVars == <<loop, again, briefOwed, told>>
log == <<seq, kept, moved>>
stream == <<conn, wire, seen, lost>>
page == <<detail, moves, tokens>>
reads == <<due, asks, answers>>
vars == <<database, up, loopVars, log, stream, page, reads, faults>>

-----------------------------------------------------------------------------
NotRead == [none |-> TRUE]

Finished == {"done", "aborted"}

\* The Escalation the Run waits at, or 0: what #waiting reads.
Waiting == IF status = "escalated" THEN question ELSE 0

\* getRun, as far as the page's properties read it.
Detail == [status |-> status, waiting |-> Waiting,
           brief |-> Waiting # 0 /\ brief = question,
           lastSeq |-> seq, at |-> moved]

\* The events after which the page reads the Run again.
ChangesDetail == {"status", "change", "problem"}

Init ==
    /\ status = "building" /\ question = 0 /\ brief = 0 /\ stepRunning = FALSE
    /\ up = TRUE /\ loop = "look" /\ again = FALSE /\ briefOwed = FALSE
    /\ seq = 1 /\ kept = <<>> /\ moved = 0 /\ told = "nobody"
    /\ conn = "none" /\ wire = <<>> /\ seen = 0 /\ lost = FALSE
    /\ detail = NotRead /\ moves = {} /\ tokens = 0
    /\ due = FALSE /\ asks = 1 /\ answers = {} /\ faults = 0

Fault == faults < MaxFaults /\ faults' = faults + 1

-----------------------------------------------------------------------------
\* publish: numbered, kept, and sent to whoever follows.
publish(type) ==
    LET event == [seq |-> seq + 1, type |-> type, status |-> status'] IN
    /\ seq < MaxEvents
    /\ seq' = seq + 1
    /\ kept' = LET all == Append(kept, event) IN
               SubSeq(all, IF Len(all) > Kept THEN Len(all) - Kept + 1 ELSE 1, Len(all))
    /\ moved' = IF type = "status" THEN seq' ELSE moved
    /\ wire' = IF conn = "open" THEN Append(wire, event) ELSE wire
    /\ UNCHANGED <<conn, seen, lost>>

\* #advance: starts a loop, or asks the one under way to look once more.
Advance ==
    /\ again' = (loop # "none")
    /\ loop' = IF loop = "none" THEN "look" ELSE loop
    /\ told' = "nobody"

\* #next on what the Run is now: work, a brief, or nothing more to do.
LookToWork ==
    /\ up /\ loop = "look" /\ status = "building"
    /\ loop' = "work" /\ stepRunning' = TRUE
    /\ UNCHANGED <<status, question, brief, again, briefOwed, told>>
    /\ publish("change")
    /\ UNCHANGED <<up, page, reads, faults>>

LookToBrief ==
    /\ up /\ loop = "look" /\ status = "escalated" /\ briefOwed
    /\ loop' = "brief" /\ briefOwed' = FALSE
    /\ UNCHANGED <<database, up, again, told, log, stream, page, reads, faults>>

\* #next has nothing to do; an aborted Run's Tasks are settled (#settleStopped).
\* The loop goes round again when it was asked to.
LookAndReturn ==
    /\ up /\ loop = "look"
    /\ status \in Finished \/ (status = "escalated" /\ ~briefOwed)
    /\ stepRunning' = (stepRunning /\ status # "aborted")
    /\ loop' = IF again THEN "look" ELSE "none"
    /\ again' = FALSE
    /\ UNCHANGED <<status, question, brief, up, briefOwed, told, log, stream, page, reads, faults>>

\* A model call of the work or of the brief: its tokens are counted.
Spend ==
    /\ up /\ loop \in {"work", "brief"} /\ status \notin Finished
    /\ UNCHANGED database
    /\ publish("tokens")
    /\ UNCHANGED <<up, loopVars, page, reads, faults>>

StepEnds ==
    /\ up /\ loop = "work" /\ status = "building"
    /\ stepRunning' = FALSE /\ loop' = "look"
    /\ UNCHANGED <<status, question, brief, again, briefOwed, told>>
    /\ publish("change")
    /\ UNCHANGED <<up, page, reads, faults>>

\* The move and the new Escalation, with no await between them.
WorkMoves ==
    /\ up /\ loop = "work" /\ status = "building"
    /\ \/ /\ status' = "escalated" /\ question' = question + 1 /\ briefOwed' = TRUE
       \/ /\ status' = "done" /\ UNCHANGED <<question, briefOwed>>
    /\ stepRunning' = FALSE /\ loop' = "look"
    /\ UNCHANGED <<brief, again, told>>
    /\ publish("status")
    /\ UNCHANGED <<up, page, reads, faults>>

\* The work of a Run that was aborted stops at its next model turn.
WorkStops ==
    /\ up /\ loop = "work" /\ status = "aborted"
    /\ loop' = "look"
    /\ UNCHANGED <<database, up, again, briefOwed, told, log, stream, page, reads, faults>>

\* #writeBrief: nothing is published for it.
BriefWritten ==
    /\ up /\ loop = "brief"
    /\ brief' = question /\ loop' = "look"
    /\ UNCHANGED <<status, question, stepRunning, up, again, briefOwed, told, log, stream,
                   page, reads, faults>>

\* The loop ends in an error: #advance's catch says so.  What asked it to look
\* again meanwhile stays in `again`, and starts nothing.
LoopThrows ==
    /\ up /\ loop \in {"work", "brief"} /\ Fault
    /\ loop' = "none"
    /\ UNCHANGED <<database, again, briefOwed>>
    /\ publish("problem") /\ told' = "followers"
    /\ UNCHANGED <<up, page, reads>>

\* A person answers the Escalation; the response carries the Run as it is then.
resolveEscalation ==
    /\ up /\ status = "escalated" /\ asks + Cardinality(answers) < MaxReads
    /\ status' = "building"
    /\ UNCHANGED <<question, brief, stepRunning, briefOwed>>
    /\ Advance
    /\ publish("status")
    /\ asks' = asks + 1
    /\ UNCHANGED <<up, page, due, answers, faults>>

\* abortRun: a loop under way will see it; none is asked to look again.
abortRun ==
    /\ up /\ status \notin Finished /\ asks + Cardinality(answers) < MaxReads
    /\ status' = "aborted"
    /\ UNCHANGED <<question, brief, stepRunning, briefOwed>>
    /\ IF loop = "none" THEN Advance ELSE UNCHANGED <<loop, again, told>>
    /\ publish("status")
    /\ asks' = asks + 1
    /\ UNCHANGED <<up, page, due, answers, faults>>

\* The process dies; a stream behind a proxy may stay open and quiet.
Crash ==
    /\ up /\ Fault
    /\ up' = FALSE /\ loop' = "none" /\ again' = FALSE /\ briefOwed' = FALSE
    /\ kept' = <<>>
    /\ conn' = IF conn = "open" THEN "quiet" ELSE conn
    /\ wire' = <<>>
    /\ UNCHANGED <<database, told, seq, moved, seen, lost, page, reads>>

\* Mutant: only Runs that wait for nobody are resumed at a start.
IsResumedIfBuilding(s, running) == s = "building"
\* What a start advances: what is not finished, and an aborted Run with a running Step.
IsResumed(s, running) == s \notin Finished \/ (s = "aborted" /\ running)

Starts ==
    /\ ~up /\ seq < MaxEvents
    /\ up' = TRUE
    /\ seq' = seq + 1   \* the time it starts: later than any number of before
    /\ UNCHANGED <<database, again, briefOwed, kept, moved, stream, page, reads>>

\* resumeUnfinished.
Restart ==
    /\ Starts
    /\ loop' = IF IsResumed(status, stepRunning) THEN "look" ELSE "none"
    /\ told' = "nobody"
    /\ UNCHANGED faults

\* runtime.resume throws: the start goes on with the next Run and logs this one,
\* which nothing advances and nothing is published for.
CannotResume ==
    /\ Starts /\ status \notin Finished /\ Fault
    /\ loop' = "none" /\ told' = "log"

-----------------------------------------------------------------------------
\* Mutant: a stream is given only what is published from then on.
MissedNothing(after) == <<>>
\* follow: what is kept of the numbers after the one the client names.  Numbers
\* grow, so it is the end of what is kept.
Missed(after) ==
    LET first == CHOOSE i \in 1..Len(kept) + 1 :
                     \A j \in DOMAIN kept : kept[j].seq > after <=> j >= i
    IN  SubSeq(kept, first, Len(kept))

\* The stream opens: the browser names the last number it saw (Last-Event-ID,
\* or ?after on one it opens anew).  Back after a loss, the Run is read again.
Open ==
    /\ up /\ conn = "none"
    /\ conn' = "open" /\ wire' = Missed(seen)
    /\ due' = (due \/ lost) /\ lost' = FALSE
    /\ UNCHANGED <<database, up, loopVars, log, seen, page, asks, answers, faults>>

Dropped == conn' = "none" /\ wire' = <<>> /\ lost' = TRUE /\ UNCHANGED seen

Lose ==
    /\ conn = "open" /\ Fault /\ Dropped
    /\ UNCHANGED <<database, up, loopVars, log, page, reads>>

\* An error after the server went, or the watch on a stream gone quiet.
FoundQuiet ==
    /\ conn = "quiet" /\ Dropped
    /\ UNCHANGED <<database, up, loopVars, log, page, reads, faults>>

\* applyToDetail: status and tokens move the Run's number; the rest does not.
applyToDetail(d, e) ==
    IF d = NotRead \/ e.type \notin {"status", "tokens"} THEN d
    ELSE IF e.seq <= d.lastSeq THEN d
    ELSE IF e.type = "tokens" THEN [d EXCEPT !.lastSeq = e.seq]
    ELSE [d EXCEPT !.status = e.status, !.lastSeq = e.seq, !.at = e.seq]

Receive ==
    /\ conn = "open" /\ wire # <<>>
    /\ LET e == Head(wire) IN
       /\ wire' = Tail(wire)
       /\ seen' = Max({seen, e.seq})
       /\ detail' = applyToDetail(detail, e)
       /\ moves' = IF e.type = "status" THEN moves \cup {e} ELSE moves
       /\ tokens' = IF e.type = "tokens" THEN Max({tokens, e.seq}) ELSE tokens
       /\ due' = (due \/ e.type \in ChangesDetail)
    /\ UNCHANGED <<database, up, loopVars, log, conn, lost, asks, answers, faults>>

\* readSoon's timer, 400 ms after the first event that asked for it.
ReadAgain ==
    /\ due /\ asks + Cardinality(answers) < MaxReads
    /\ due' = FALSE /\ asks' = asks + 1
    /\ UNCHANGED <<database, up, loopVars, log, stream, page, answers, faults>>

Answer ==
    /\ up /\ asks > 0
    /\ asks' = asks - 1 /\ answers' = answers \cup {Detail}
    /\ UNCHANGED <<database, up, loopVars, log, stream, page, due, faults>>

\* A read that fails shows its error; it is not tried again.
ReadFails ==
    /\ asks > 0 /\ (Fault \/ (~up /\ UNCHANGED faults))
    /\ asks' = asks - 1
    /\ UNCHANGED <<database, up, loopVars, log, stream, page, due, answers>>

\* The events that arrived while the read was on its way still count.
Replayed(read) ==
    LET newer == {e \in moves : e.seq > read.lastSeq}
        last == CHOOSE e \in newer : \A other \in newer : other.seq <= e.seq
        number == Max({read.lastSeq, tokens} \cup {e.seq : e \in newer}) IN
    IF newer = {} THEN [read EXCEPT !.lastSeq = number]
    ELSE [read EXCEPT !.status = last.status, !.at = last.seq, !.lastSeq = number]

\* Mutant: the page takes whichever read arrives.
TakesAny(read) == TRUE
\* Reads overlap: one that left before an event arrived must not undo it.
Takes(read) == detail = NotRead \/ read.lastSeq >= detail.lastSeq

Loaded ==
    \E read \in answers :
        /\ answers' = answers \ {read}
        /\ detail' = IF Takes(read) THEN Replayed(read) ELSE detail
        /\ UNCHANGED <<database, up, loopVars, log, stream, moves, tokens, due, asks, faults>>

-----------------------------------------------------------------------------
ServerNext ==
    \/ LookToWork \/ LookToBrief \/ LookAndReturn \/ Spend \/ StepEnds \/ WorkMoves
    \/ WorkStops \/ BriefWritten \/ LoopThrows \/ Crash \/ Restart
    \/ CannotResume

PageNext ==
    \/ Open \/ Lose \/ FoundQuiet \/ Receive \/ ReadAgain \/ Answer \/ ReadFails \/ Loaded

Next == ServerNext \/ PageNext \/ resolveEscalation \/ abortRun

Spec == Init /\ [][Next]_vars

-----------------------------------------------------------------------------
(* A Run that has work to do, a building one or an aborted one whose Step  *)
(* still runs, and that no loop advances, has told its followers that it   *)
(* stopped: a decision taken while a loop was ending is not just lost      *)
(* (#advance, #again, resumeUnfinished of runtimeRunService.ts).  Only one *)
(* that was being built when the server stopped, and that the start could  *)
(* not resume, stands still with a line in the log; it is an abort, which  *)
(* settles it, or the next start that moves it.                            *)
IdleRunHasSaidWhy ==
    /\ up /\ loop = "none" /\ (status = "building" \/ (status = "aborted" /\ stepRunning))
           => told # "nobody"
    /\ up /\ told = "log" => loop = "none" /\ status \notin Finished

(* Whatever was lost on the way, a page whose stream is open and drained   *)
(* shows the Run's status as long as the server keeps the event of the     *)
(* last move (follow and KEPT_PER_RUN of eventLog.ts, Last-Event-ID of     *)
(* runs.controller.ts, runReducer of useRun.ts).                           *)
StatusReachesThePage ==
    conn = "open" /\ wire = <<>> /\ detail # NotRead /\ (\E i \in DOMAIN kept : kept[i].seq = moved)
        => detail.status = status

ShowsNothingOlder == detail # NotRead => detail'.at >= detail.at

(* The status a page shows never goes back to an earlier one, over reads   *)
(* that answer out of order, reconnects and restarts of the server         *)
(* (runReducer, "one that left before an event arrived must not undo it"). *)
StatusNeverGoesBack == [][ShowsNothingOlder]_vars

(* With nothing under way, the page shows the question the Run waits at.   *)
(* README.md says of the Run page: "It stays live while the server runs."  *)
WhatIsAskedIsShown ==
    up /\ loop = "none" /\ conn = "open" /\ wire = <<>> /\ ~due /\ asks = 0 /\ answers = {} /\ detail # NotRead
        => detail.waiting = Waiting
=============================================================================
