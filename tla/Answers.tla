------------------------------ MODULE Answers ------------------------------
(***************************************************************************)
(* A person's answers: the forms of the Run page (DesignGate.tsx, gates.ts *)
(* and EscalationDialog.tsx of apps/web/src), the requests they become     *)
(* (requests.ts, runs.controller.ts) and what the server does with one     *)
(* (#decide, decide of designGate.ts, resolveEscalation).  A request names *)
(* the Run and documents by kind; it names neither the question nor the    *)
(* version a person read, so what keeps an answer on its question is how   *)
(* the page keeps its forms.                                               *)
(*                                                                         *)
(* The work between two questions is abstract.  Reads arrive in order here *)
(* (LiveRun models those that do not).  A page that is loaded again is     *)
(* another page: what it left on the way is an answer given elsewhere.     *)
(***************************************************************************)
EXTENDS Integers

CONSTANTS
    MaxQuestions,  \* bound: questions the Run asks
    MaxMeddling    \* bound: what `meddled` counts

\* A design document and one built on it.
Kinds == {"apiContract", "uiSpec"}
MakesStale(kind) == IF kind = "apiContract" THEN {"uiSpec"} ELSE {}

VARIABLES
    \* The server: how many questions were asked, the one open now, each
    \* document's version, those in review, those to be redone.
    questions, open, version, inReview, redo,
    \* The page: the Run as it has it, the Verdicts being written, the choice
    \* in the dialog, the Escalation put aside.
    page, draft, dialog, aside,
    \* Requests on their way to the server, responses on theirs to the page.
    requests, responses,
    \* Answers given elsewhere, responses lost and forms opened anew with an answer
    \* on its way; history, read by properties only: the answers that were taken
    \* for another question.
    meddled, misread

server == <<questions, open, version, inReview, redo>>
forms == <<draft, dialog, aside>>
vars == <<server, page, forms, requests, responses, meddled, misread>>

-----------------------------------------------------------------------------
NoQuestion == [for |-> "nobody", id |-> 0]
Empty == [decision |-> "none", seen |-> 0]
NoDraft == [kind \in Kinds |-> Empty]
NoDialog == [key |-> 0, choice |-> "none", seen |-> 0]

\* GET /runs/:id, as far as the forms read it; `at` orders what was read.
Detail == [waiting |-> open, version |-> version, inReview |-> inReview,
           at |-> 2 * questions + (IF open = NoQuestion THEN 1 ELSE 0)]

\* awaiting: the documents the person must judge now.
awaiting(run) == IF run.waiting.for = "designGate" THEN run.inReview ELSE {}

\* escalationKey: which Escalation the Run waits at, as the page has it.
escalationKey(run) == IF run.waiting.for = "escalation" THEN run.waiting.id ELSE 0

\* verdictProblems: the documents without a Verdict.
verdictProblems(kinds) == {kind \in kinds : draft[kind] = Empty}

\* A form with an answer of its own on the way (`sending`): the Design Gate's
\* is 0 and a dialog's its Escalation, so a new dialog is not held by an old one.
Sending(form) == \E sent \in requests \cup responses : sent.form = form

Init ==
    /\ questions = 0 /\ open = NoQuestion
    /\ version = [kind \in Kinds |-> 1] /\ inReview = {} /\ redo = Kinds
    /\ page = Detail /\ draft = NoDraft /\ dialog = NoDialog /\ aside = 0
    /\ requests = {} /\ responses = {}
    /\ meddled = 0 /\ misread = {}

-----------------------------------------------------------------------------
\* The Run comes to its next question: a Design Gate over what was redone, or
\* an Escalation.
Asks ==
    /\ open = NoQuestion /\ questions < MaxQuestions
    /\ questions' = questions + 1
    /\ open' = [for |-> IF redo = {} THEN "escalation" ELSE "designGate", id |-> questions']
    /\ inReview' = redo /\ redo' = {}
    /\ version' = [kind \in Kinds |->
                      IF kind \in redo /\ questions > 0 THEN version[kind] + 1 ELSE version[kind]]
    /\ UNCHANGED <<page, forms, requests, responses, meddled, misread>>

Answered == open' = NoQuestion /\ inReview' = {} /\ UNCHANGED <<questions, version>>

\* DocumentDesignGate.decide: what is sent back is redone, and what is built on it.
DecidesDesign(changed) ==
    redo' = changed \cup UNION {MakesStale(kind) : kind \in changed} /\ Answered

\* resolveEscalation: the Run goes on, or a document is edited and judged again.
Resolves(choice) ==
    redo' = (IF choice = "editDocuments" THEN {"uiSpec"} ELSE {}) /\ Answered

\* #decide refuses an answer of a kind that is not asked for, and one without
\* a Verdict on each document in review.
Fits(request) ==
    \/ request.choice = "verdicts" /\ open.for = "designGate" /\ DOMAIN request.verdicts = inReview
    \/ request.choice # "verdicts" /\ open.for = "escalation"

\* It takes any other, whatever it was written for.
Taken(request) ==
    /\ Fits(request)
    /\ IF request.choice = "verdicts"
       THEN /\ DecidesDesign({kind \in inReview : request.verdicts[kind].decision = "requestChanges"})
            /\ misread' = IF \E kind \in inReview : request.verdicts[kind].seen # version[kind]
                          THEN misread \cup {"verdict"} ELSE misread
       ELSE /\ Resolves(request.choice)
            /\ misread' = IF request.seen # open.id THEN misread \cup {"resolution"} ELSE misread
    /\ responses' = responses \cup {[form |-> request.form, ok |-> TRUE, run |-> Detail']}

Refused(request) ==
    /\ ~Fits(request)
    /\ responses' = responses \cup {[form |-> request.form, ok |-> FALSE]}
    /\ UNCHANGED <<server, misread>>

Arrives ==
    /\ \E request \in requests :
        /\ Taken(request) \/ Refused(request)
        /\ requests' = requests \ {request}
    /\ UNCHANGED <<page, forms, meddled>>

\* Someone answers elsewhere, in a terminal or on another page.
AnsweredElsewhere ==
    /\ meddled < MaxMeddling /\ meddled' = meddled + 1
    /\ \/ open.for = "designGate" /\ \E changed \in SUBSET inReview : DecidesDesign(changed)
       \/ open.for = "escalation" /\ \E choice \in {"skipSlice", "editDocuments"} : Resolves(choice)
    /\ UNCHANGED <<page, forms, requests, responses, misread>>

-----------------------------------------------------------------------------
\* Mutant: one dialog for all Escalations, not keyed by the one it is about.
DialogUnkeyed(run) == IF escalationKey(run) = 0 THEN NoDialog ELSE [dialog EXCEPT !.key = escalationKey(run)]
\* The dialog for another Escalation is a new one.
DialogFor(run) ==
    IF escalationKey(run) = dialog.key THEN dialog ELSE [NoDialog EXCEPT !.key = escalationKey(run)]

\* accept and runReducer: what is older than what the page has is left.
Accept(run) ==
    IF run.at >= page.at
    THEN page' = run /\ dialog' = DialogFor(run)
    ELSE UNCHANGED <<page, dialog>>

Reads ==
    /\ page # Detail /\ Accept(Detail)
    /\ UNCHANGED <<server, draft, aside, requests, responses, meddled, misread>>

\* The person decides on a document the page shows.
ChoosesVerdict ==
    /\ \E kind \in awaiting(page), decision \in {"approve", "requestChanges"} :
        draft' = [draft EXCEPT ![kind] = [decision |-> decision, seen |-> page.version[kind]]]
    /\ UNCHANGED <<server, page, dialog, aside, requests, responses, meddled, misread>>

\* The choice and what it needs; the dialog stands over the page until put aside.
Chooses ==
    /\ dialog.key \notin {0, aside}
    /\ \E choice \in {"skipSlice", "editDocuments"} :
        dialog' = [dialog EXCEPT !.choice = choice, !.seen = dialog.key]
    /\ UNCHANGED <<server, page, draft, aside, requests, responses, meddled, misread>>

\* Cancel puts only this Escalation's dialog aside, and what was written in it.
SetsAside ==
    /\ dialog.key \notin {0, aside}
    /\ aside' = dialog.key /\ dialog' = [NoDialog EXCEPT !.key = dialog.key]
    /\ UNCHANGED <<server, page, draft, requests, responses, meddled, misread>>

\* A form that is opened anew does not hold what the one before it sent: the answer
\* still arrives, and its response finds no form (a number below 0 names none).
OpensAnew(form) ==
    LET Unheld(sent) == {IF s.form = form THEN [s EXCEPT !.form = 0 - meddled'] ELSE s : s \in sent} IN
    IF Sending(form)
    THEN /\ meddled < MaxMeddling /\ meddled' = meddled + 1
         /\ requests' = Unheld(requests) /\ responses' = Unheld(responses)
    ELSE UNCHANGED <<requests, responses, meddled>>

\* "Decide..." opens the dialog that was put aside, as a new one.
Reopens ==
    /\ dialog.key # 0 /\ aside = dialog.key
    /\ aside' = 0 /\ OpensAnew(dialog.key)
    /\ UNCHANGED <<server, page, draft, dialog, misread>>

\* The person leaves the Design Gate's tab and comes back.
ReturnsToGate ==
    /\ draft' = NoDraft /\ OpensAnew(0)
    /\ UNCHANGED <<server, page, dialog, aside, misread>>

\* verdictsFrom: a Verdict on each document the page has in review.
SubmitsVerdicts ==
    /\ awaiting(page) # {} /\ verdictProblems(awaiting(page)) = {} /\ ~Sending(0)
    /\ requests' = requests \cup {[form |-> 0, choice |-> "verdicts",
                                  verdicts |-> [kind \in awaiting(page) |-> draft[kind]]]}
    /\ UNCHANGED <<server, page, forms, responses, meddled, misread>>

SubmitsResolution ==
    /\ dialog.key \notin {0, aside} /\ dialog.choice # "none" /\ ~Sending(dialog.key)
    /\ requests' = requests \cup {[form |-> dialog.key, choice |-> dialog.choice,
                                  seen |-> dialog.seen]}
    /\ UNCHANGED <<server, page, forms, responses, meddled, misread>>

\* Mutant: what was sent stays written in the form.
DraftKept(response) == draft
\* The Verdicts sent are cleared; a refusal, and what answers a dialog, clears none.
DraftAfter(response) == IF response.form = 0 /\ response.ok THEN NoDraft ELSE draft

Responded ==
    /\ \E response \in responses :
        /\ responses' = responses \ {response}
        /\ draft' = DraftAfter(response)
        /\ IF response.ok THEN Accept(response.run) ELSE UNCHANGED <<page, dialog>>
    /\ UNCHANGED <<server, aside, requests, meddled, misread>>

\* The answer was taken and the page never learns it: an error, the form as it was.
ResponseLost ==
    /\ meddled < MaxMeddling /\ meddled' = meddled + 1
    /\ \E response \in responses : responses' = responses \ {response}
    /\ UNCHANGED <<server, page, forms, requests, misread>>

-----------------------------------------------------------------------------
Next ==
    \/ Asks \/ Arrives \/ AnsweredElsewhere
    \/ Reads \/ ChoosesVerdict \/ Chooses \/ SetsAside \/ Reopens \/ ReturnsToGate
    \/ SubmitsVerdicts \/ SubmitsResolution \/ Responded \/ ResponseLost

Spec == Init /\ [][Next]_vars

-----------------------------------------------------------------------------
(* Verdicts are taken for the versions the person read when deciding, as   *)
(* long as nobody answers elsewhere, every response arrives and no form is *)
(* opened anew with an answer on its way: however late, and whatever the   *)
(* page read meanwhile (submit of DesignGate.tsx, decide of designGate.ts, *)
(* which knows documents only by their kind).                              *)
VerdictsAreOnWhatWasRead == "verdict" \in misread => meddled > 0

(* Likewise a resolution is taken for the Escalation its dialog was about  *)
(* (the dialog's key in RunPage.tsx, resolveEscalation, which knows the    *)
(* Escalation only as the Run's open one).                                 *)
ResolutionsAreForWhatWasRead == "resolution" \in misread => meddled > 0
=============================================================================
