------------------------------ MODULE UiDesign ------------------------------
(***************************************************************************)
(* Drawing a Run's screens in Penpot (packages/core/src/agents/uiDesign):  *)
(* one design after another on the Run's page, each call to the plugin     *)
(* tried again while the tab is asleep or silent                           *)
(* (packages/clients/src/penpot/penpotClient.ts), over a connection made   *)
(* when it is first needed and closed with the process                     *)
(* (packages/core/src/runtime/lazyCanvas.ts).                              *)
(*                                                                         *)
(* A design is a number; a board holds the number of the design that drew  *)
(* it, or Partial.  The plugin's tab is external: it runs the calls that   *)
(* reach it in order, or loses one, and its answer may be lost.            *)
(***************************************************************************)
EXTENDS Integers, Sequences, FiniteSets, SequencesExt

CONSTANTS
    Screens,     \* names of screens
    MaxDesigns,  \* bound: designs of the Run
    MaxAttempts, \* one more than the retryDelaysMs
    MaxTrouble   \* bound: calls and answers lost, connections that fail

VARIABLES
    \* The design under way: its number, its screens, the calls left to make.
    design, wanted, todo, result,
    \* The plugin client: the attempt at the first call of todo.
    attempt, callId,
    \* The tab: calls that reached it, the Run's page and its boards.
    tab, pageMade, boards,
    \* The canvas: the connection it holds, how many are open, one under way
    \* that close waits for, the process closing it.
    connection, open, closing, closed,
    trouble

designVars == <<design, wanted, todo, result>>
clientVars == <<attempt, callId>>
tabVars == <<tab, pageMade, boards>>
canvasVars == <<connection, open, closing, closed>>
uiVars == <<designVars, clientVars, tabVars, canvasVars, trouble>>

-----------------------------------------------------------------------------
None == 0
Partial == -1

Trouble == trouble < MaxTrouble /\ trouble' = trouble + 1

Init ==
    /\ design = 0 /\ wanted = {} /\ todo = <<>> /\ result = "none"
    /\ attempt = 0 /\ callId = 0
    /\ tab = <<>> /\ pageMade = FALSE /\ boards = [s \in Screens |-> None]
    /\ connection = "none" /\ open = 0 /\ closing = FALSE /\ closed = FALSE /\ trouble = 0

Call(op, screen) == [op |-> op, screen |-> screen]

\* Mutant: the boards of screens that are gone are left on the page.
CallsWithoutSweep(screens) ==
    <<Call("page", "none")>>
        \o [i \in 1..Cardinality(screens) |-> Call("draw", SetToSeq(screens)[i])]
\* #draw: the Run's page, each screen with its export, then the sweep.
Calls(screens) ==
    CallsWithoutSweep(screens) \o <<Call("sweep", "none")>>

\* design: the plugin is there, and the agent's spec passed its checks.
StartDesign ==
    /\ todo = <<>> /\ design < MaxDesigns /\ connection = "open"
    /\ design' = design + 1 /\ result' = "none"
    /\ \E screens \in SUBSET Screens \ {{}} : wanted' = screens /\ todo' = Calls(screens)
    /\ attempt' = 0
    /\ UNCHANGED <<callId, tabVars, canvasVars, trouble>>

\* #call: the first call left to make, sent to the tab under a number of its own.
Send ==
    /\ todo # <<>> /\ attempt = 0
    /\ attempt' = 1 /\ callId' = callId + 1
    /\ tab' = Append(tab, [id |-> callId', design |-> design, wanted |-> wanted,
                           op |-> Head(todo).op, screen |-> Head(todo).screen])
    /\ UNCHANGED <<designVars, pageMade, boards, canvasVars, trouble>>

Answered(id) ==
    IF id = callId /\ todo # <<>> /\ attempt > 0
    THEN /\ todo' = Tail(todo) /\ attempt' = 0
         /\ result' = IF Tail(todo) = <<>> THEN "drawn" ELSE result
    ELSE UNCHANGED <<todo, attempt, result>>

Stopped == todo' = <<>> /\ attempt' = 0 /\ result' = "failed"

\* Mutant: what another design left of a board is kept.
DrawsOver(old, number) == IF old = None THEN number ELSE old
\* screenCode: found or created by name, and drawn from scratch.
Draws(old, number) == number

\* What a call does in the tab: ensurePageCode, screenCode, sweepBoardsCode.
Effect(call) ==
    CASE call.op = "page" -> pageMade' = TRUE /\ UNCHANGED boards
      [] call.op = "draw" -> /\ boards' = [boards EXCEPT ![call.screen] = Draws(@, call.design)]
                             /\ UNCHANGED pageMade
      [] call.op = "sweep" -> /\ boards' = [s \in Screens |->
                                              IF s \in call.wanted THEN boards[s] ELSE None]
                              /\ UNCHANGED pageMade

\* The tab runs the call at the head; its answer may be lost.
TabRuns ==
    /\ tab # <<>> /\ Effect(Head(tab)) /\ tab' = Tail(tab)
    /\ \/ Answered(Head(tab).id) /\ UNCHANGED trouble
       \/ Trouble /\ UNCHANGED <<todo, attempt, result>>
    /\ UNCHANGED <<design, wanted, callId, canvasVars>>

\* The plugin throws in the middle of a screen: an answer that is not retried.
TabThrows ==
    /\ tab # <<>> /\ Head(tab).op = "draw" /\ Trouble
    /\ boards' = [boards EXCEPT ![Head(tab).screen] = Partial]
    /\ tab' = Tail(tab)
    /\ IF Head(tab).id = callId /\ attempt > 0 THEN Stopped ELSE UNCHANGED <<todo, attempt, result>>
    /\ UNCHANGED <<design, wanted, pageMade, callId, canvasVars>>

\* A tab that is reloaded forgets what had reached it.
TabLoses ==
    /\ tab # <<>> /\ Trouble /\ tab' = <<>>
    /\ UNCHANGED <<designVars, clientVars, pageMade, boards, canvasVars>>

\* No answer in time, or an answer that the tab sleeps or is gone: the call is
\* sent again after a wait, and given up after the last.
Silence ==
    /\ attempt > 0 /\ Trouble
    /\ IF attempt < MaxAttempts
       THEN /\ attempt' = attempt + 1 /\ callId' = callId + 1
            /\ tab' = Append(tab, [id |-> callId', design |-> design, wanted |-> wanted,
                                   op |-> Head(todo).op, screen |-> Head(todo).screen])
            /\ UNCHANGED <<designVars>>
       ELSE Stopped /\ UNCHANGED <<design, wanted, callId, tab>>
    /\ UNCHANGED <<pageMade, boards, canvasVars>>

-----------------------------------------------------------------------------
\* Mutant: a closed canvas connects again for a Run still going.
MayConnectAgain == connection = "none"
\* #canvas: a closed canvas stays closed; a connection under way is shared.
MayConnect == ~closed /\ connection = "none"

Connect ==
    /\ MayConnect /\ design < MaxDesigns
    /\ connection' = "connecting"
    /\ UNCHANGED <<designVars, clientVars, tabVars, open, closing, closed, trouble>>

Connected ==
    /\ connection = "connecting"
    /\ connection' = "open" /\ open' = open + 1
    /\ UNCHANGED <<designVars, clientVars, tabVars, closing, closed, trouble>>

\* A failed connection is not remembered: the next need tries again.
ConnectFails ==
    /\ connection = "connecting" /\ Trouble
    /\ connection' = "none"
    /\ UNCHANGED <<designVars, clientVars, tabVars, open, closing, closed>>

\* close: what is open is closed now, what is under way once it is there.
Close ==
    /\ ~closed /\ closed' = TRUE
    /\ connection' = "none" /\ closing' = (connection = "connecting")
    /\ open' = IF connection = "open" THEN open - 1 ELSE open
    /\ IF todo # <<>> THEN Stopped ELSE UNCHANGED <<todo, attempt, result>>
    /\ UNCHANGED <<design, wanted, callId, tabVars, trouble>>

\* The connection close waits for is made, or fails, and is closed.
ClosedAtLast ==
    /\ closing /\ closing' = FALSE
    /\ UNCHANGED <<designVars, clientVars, tabVars, connection, open, closed, trouble>>

Next ==
    \/ StartDesign \/ Send \/ TabRuns \/ TabThrows \/ TabLoses \/ Silence
    \/ Connect \/ Connected \/ ConnectFails
    \/ Close \/ ClosedAtLast

Spec == Init /\ [][Next]_uiVars

-----------------------------------------------------------------------------
(* A design that was drawn is what the page holds: each of its screens as  *)
(* it wants it and no other board, whatever calls of this design or of an  *)
(* earlier one were lost, ran twice or ran late (penpotRender.ts, "a call  *)
(* that failed on a suspended tab may already have run").                  *)
DrawnIsWhatIsThere ==
    result = "drawn" /\ todo = <<>> =>
        \A s \in Screens : boards[s] = (IF s \in wanted THEN design ELSE None)

(* "A closed canvas stays closed": once the process has closed it, no      *)
(* connection is open that nothing will close (lazyCanvas.ts).             *)
NothingOpensAfterClose == closed => open = 0
=============================================================================
