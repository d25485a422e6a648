------------------------------ MODULE Terminal ------------------------------
(***************************************************************************)
(* A Run followed in a terminal: `sdlccode status --follow`, `run` and     *)
(* what follows an abort (follow of apps/cli/src/cli.ts over api.ts), next *)
(* to a loop that advances the Run, another person who answers and aborts, *)
(* and a server that dies.                                                 *)
(*                                                                         *)
(* The Orchestrator is abstract: a batch of Slices that ends, a review     *)
(* that opens the pull request, what an ended Run still delivers.  Its     *)
(* events are only those `follow` acts on.                                 *)
(***************************************************************************)
EXTENDS Naturals, Sequences

CONSTANTS
    MaxPublished,  \* bound: events published, so decisions taken
    MaxRereads,    \* bound: reads of the Run on their way at once
    MaxDeaths      \* bound: deaths of the server

VARIABLES
    \* The server: the Run's row, whether a loop advances it,
    \* whether what was aborted last was a review; its events.
    runMode, runStatus, hasPr, advancing, inReview, events, alive, deaths,
    \* The terminal: what it is at, the Run as it read it last, the events on
    \* their way to it, its reads on their way out and back.
    at, shown, sent, asked, rereads,
    \* History, read by properties only: the last event of a person's decision
    \* or a start, and the last one the terminal knew of when it stopped.
    decided, stoppedOn

server == <<runMode, runStatus, hasPr, advancing, inReview, events, alive, deaths>>
terminal == <<at, shown, asked, rereads, stoppedOn>>
vars == <<server, terminal, sent, decided>>

-----------------------------------------------------------------------------
\* Statuses at which a Run waits for a person or has finished.
RESTING == {"awaitingPrGate", "escalated", "done", "failed", "aborted"}

\* Mutant: what an ended Run delivers is not waited for.
OWES_NOTHING == {}
\* A failed or aborted Run delivers its Draft PR just after it stops.
OWES_DELIVERY == {"failed", "aborted"}

\* GET /runs/:id, as far as `follow` reads it.
getRun == [status |-> runStatus, hasPr |-> hasPr, advancing |-> advancing, lastSeq |-> Len(events)]

NotShown == [status |-> "none", hasPr |-> FALSE, advancing |-> FALSE, lastSeq |-> 0]

Owes(run) == run.status \in {"failed", "aborted"} /\ ~run.hasPr /\ run.advancing

\* Nothing more will happen without a person, not even a delivery.
settled(run) ==
    run.status \in RESTING /\ ~(run.status \in OWES_DELIVERY /\ ~run.hasPr /\ run.advancing)

\* A Run is being built, or waits at the PR Gate since before the server started.
Init ==
    /\ \/ /\ runMode \in {"gated", "auto"}
          /\ runStatus = "building" /\ hasPr = FALSE /\ advancing = TRUE
       \/ /\ runMode = "gated"
          /\ runStatus = "awaitingPrGate" /\ hasPr = TRUE /\ advancing = FALSE
    /\ inReview = FALSE /\ events = <<>> /\ alive = TRUE /\ deaths = 0
    /\ at = "start" /\ shown = NotShown /\ sent = <<>> /\ asked = 0 /\ rereads = {}
    /\ decided = 0 /\ stoppedOn = 0

-----------------------------------------------------------------------------
\* publish: kept for who follows later, and sent to the terminal that follows now.
Publish(types) ==
    LET Event(i) == [type |-> types[i], status |-> runStatus', seq |-> Len(events) + i]
        new == IF Len(types) = 1 THEN <<Event(1)>> ELSE <<Event(1), Event(2)>> IN
    /\ Len(events) + Len(types) <= MaxPublished
    /\ events' = events \o new
    /\ sent' = IF at = "following" THEN sent \o new ELSE sent

Silent == UNCHANGED <<events, sent>>

\* #build: a batch ended, with a checkpoint; the Run is built on, or reviewed.
BatchEnds ==
    /\ alive /\ advancing /\ runStatus = "building"
    /\ runStatus' \in {"building", "reviewing"}
    /\ Publish(IF runStatus' = "building" THEN <<"checkpoint">> ELSE <<"checkpoint", "status">>)
    /\ UNCHANGED <<runMode, hasPr, advancing, inReview, alive, deaths, terminal, decided>>

\* #limit: an Escalation, or in auto mode the end of the Run, which is looked at
\* once more for what it owes.
LimitReached ==
    /\ alive /\ advancing /\ runStatus \in {"building", "reviewing"}
    /\ runStatus' = IF runMode = "gated" THEN "escalated" ELSE "failed"
    /\ advancing' = (runMode = "auto")
    /\ Publish(<<"status">>)
    /\ UNCHANGED <<runMode, hasPr, inReview, alive, deaths, terminal, decided>>

\* #review: a pull request is opened or the commits stay local; the Run moves.
ReviewPasses ==
    /\ alive /\ advancing /\ runStatus = "reviewing"
    /\ \E opened \in BOOLEAN :
        /\ hasPr' = (hasPr \/ opened)
        /\ runStatus' = IF opened /\ runMode = "gated" THEN "awaitingPrGate" ELSE "done"
    /\ advancing' = FALSE
    /\ Publish(<<"delivery", "status">>)
    /\ UNCHANGED <<runMode, inReview, alive, deaths, terminal, decided>>

\* Work under way when the Run was aborted stops at its next model turn.  A
\* batch is saved with a checkpoint (#build); a review just throws (#review).
\* With a pull request already, nothing is owed and the loop ends.
WorkStops ==
    /\ alive /\ advancing /\ runStatus = "aborted" /\ hasPr
    /\ advancing' = FALSE
    /\ UNCHANGED <<runMode, runStatus, hasPr, inReview, alive, deaths, terminal, decided>>
    /\ IF inReview THEN Silent ELSE Publish(<<"checkpoint">>)

\* #deliverIfOwed: a pull request, or the reason there is none; the loop ends.
DeliversWhatIsOwed ==
    /\ alive /\ advancing /\ runStatus \in {"failed", "aborted"} /\ ~hasPr
    /\ hasPr' \in BOOLEAN
    /\ advancing' = FALSE
    /\ UNCHANGED <<runMode, runStatus, inReview, alive, deaths, terminal, decided>>
    /\ Publish(<<"delivery">>)

\* #advance's catch; a design that waits to be asked again ends a loop likewise.
LoopThrows ==
    /\ alive /\ advancing
    /\ advancing' = FALSE
    /\ UNCHANGED <<runMode, runStatus, hasPr, inReview, alive, deaths, terminal, decided>>
    /\ Publish(<<"problem">>)

\* A person answers at the Escalation or the PR Gate: the Run is built again.
Answered ==
    /\ alive /\ runStatus \in {"escalated", "awaitingPrGate"}
    /\ runStatus' = "building" /\ advancing' = TRUE
    /\ Publish(<<"status">>) /\ decided' = Len(events')
    /\ UNCHANGED <<runMode, hasPr, inReview, alive, deaths, terminal>>

\* A person aborts.  A loop that starts for it where nothing is owed ends at once.
Aborted ==
    /\ alive /\ runStatus \notin {"done", "failed", "aborted"}
    /\ runStatus' = "aborted" /\ advancing' = (advancing \/ ~hasPr)
    /\ inReview' = (runStatus = "reviewing")
    /\ Publish(<<"status">>) /\ decided' = Len(events')
    /\ UNCHANGED <<runMode, hasPr, alive, deaths, terminal>>

\* The process dies and its connections with it: a read that fails changes
\* nothing, a stream that ends ends the following, one that cannot open fails.
Dies ==
    /\ alive /\ deaths < MaxDeaths
    /\ deaths' = deaths + 1 /\ alive' = FALSE /\ advancing' = FALSE
    /\ sent' = <<>> /\ asked' = 0 /\ rereads' = {}
    /\ at' = CASE at = "following" -> "cut" [] at = "opening" -> "failed" [] OTHER -> at
    /\ UNCHANGED <<runMode, runStatus, hasPr, inReview, events, shown, decided, stoppedOn>>

\* resumeUnfinished.  A new process numbers its events above all of the last one.
Resumes ==
    /\ ~alive /\ Len(events) < MaxPublished
    /\ alive' = TRUE /\ advancing' = (runStatus \in {"building", "reviewing"})
    /\ events' = Append(events, [type |-> "start", status |-> runStatus, seq |-> Len(events) + 1])
    /\ decided' = Len(events')
    /\ UNCHANGED <<runMode, runStatus, hasPr, inReview, deaths, terminal, sent>>

-----------------------------------------------------------------------------
\* follow: the Run is read, and followed unless it is settled or nothing moves it.
StartsFollowing ==
    /\ alive /\ at = "start"
    /\ shown' = getRun /\ stoppedOn' = Len(events)
    /\ at' = IF settled(getRun) \/ ~advancing THEN "ended" ELSE "opening"
    /\ UNCHANGED <<server, asked, rereads, sent, decided>>

\* The stream opens after the last event the read knew of.
Opens ==
    /\ alive /\ at = "opening"
    /\ at' = "following" /\ sent' = SubSeq(events, shown.lastSeq + 1, Len(events))
    /\ UNCHANGED <<server, shown, asked, rereads, stoppedOn, decided>>

\* What onEvent answers "stop" to.
StopsOn(event) ==
    \/ event.type = "delivery"
    \/ event.type = "status" /\ event.status \in RESTING \ OWES_DELIVERY

\* Mutant: the Run is not read again after a problem.
RereadsOnMoves(event) == event.type \in {"checkpoint", "status"}
Rereads(event) == event.type \in {"checkpoint", "status", "problem"}

Receives ==
    /\ at = "following" /\ sent # <<>>
    /\ LET event == Head(sent) IN
       IF StopsOn(event)
       THEN at' = "last" /\ stoppedOn' = event.seq /\ UNCHANGED asked
       ELSE /\ asked' = IF Rereads(event) THEN asked + 1 ELSE asked
            /\ asked' <= MaxRereads /\ UNCHANGED <<at, stoppedOn>>
    /\ sent' = Tail(sent)
    /\ UNCHANGED <<server, shown, rereads, decided>>

AnswersRead ==
    /\ alive /\ asked > 0
    /\ asked' = asked - 1 /\ rereads' = rereads \cup {getRun}
    /\ UNCHANGED <<server, at, shown, stoppedOn, sent, decided>>

\* reread's then: an older read does not undo a newer one, but any read that
\* finds no loop stops the following.
TakesRead ==
    /\ at = "following"
    /\ \E read \in rereads :
        /\ rereads' = rereads \ {read}
        /\ shown' = IF read.lastSeq >= shown.lastSeq THEN read ELSE shown
        /\ IF read.advancing
           THEN UNCHANGED <<at, stoppedOn>>
           ELSE at' = "last" /\ stoppedOn' = read.lastSeq
    /\ UNCHANGED <<server, asked, sent, decided>>

\* The Run is read once more and told of; with no server, that is the error.
ReadsLast ==
    /\ at \in {"last", "cut"}
    /\ at' = IF alive /\ at = "last" THEN "ended" ELSE "failed"
    /\ shown' = IF alive THEN getRun ELSE shown
    /\ asked' = 0 /\ rereads' = {} /\ sent' = <<>>
    /\ UNCHANGED <<server, stoppedOn, decided>>

-----------------------------------------------------------------------------
ServerNext ==
    \/ BatchEnds \/ LimitReached \/ ReviewPasses \/ WorkStops \/ DeliversWhatIsOwed
    \/ LoopThrows \/ Answered \/ Aborted \/ Dies \/ Resumes

TerminalNext ==
    StartsFollowing \/ Opens \/ Receives \/ AnswersRead \/ TakesRead \/ ReadsLast

Next == ServerNext \/ TerminalNext

Spec == Init /\ [][Next]_vars

-----------------------------------------------------------------------------
\* Everything on its way has arrived and no loop will send more.
Drained == alive /\ ~advancing /\ sent = <<>> /\ asked = 0 /\ rereads = {}

(* A terminal that has read all there will be is not left following, but   *)
(* for a Run aborted with its pull request open: nothing more is said of   *)
(* one that was in review (follow and reread of cli.ts, the loop's last    *)
(* event in #advance, #build and #deliverIfOwed).                          *)
FollowerIsLetGo ==
    Drained /\ at = "following" => runStatus = "aborted" /\ hasPr

(* A terminal that stopped following knowing every decision taken did not  *)
(* stop before the Draft PR a failed or aborted Run was still delivering   *)
(* (OWES_DELIVERY and settled of cli.ts, #deliverIfOwed).                  *)
DeliveryIsWaitedFor ==
    at \in {"last", "ended"} /\ stoppedOn >= decided => ~Owes(getRun)

(* cli.ts:238 says of the read after an event: "Reads the Run again; stops *)
(* following once nothing moves it."                                       *)
NobodyFollowsARunNothingMoves == ~(Drained /\ at = "following")
=============================================================================
