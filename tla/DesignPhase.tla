----------------------------- MODULE DesignPhase -----------------------------
(***************************************************************************)
(* The five documents of one Run through the Design Phase and the Design    *)
(* Gate (packages/core/src/orchestrator/designPhase.ts and designGate.ts),  *)
(* and back again when an Issue Report or a person reopens one              *)
(* (runOrchestrator.ts).  RunOrchestrator carries the documents as a single *)
(* status; here each has its own.                                           *)
(*                                                                         *)
(* A document's text appears as what can be said of it: whether the person *)
(* judged it as it is now, whether the UI was drawn from the System Design  *)
(* as it is now, whether the Slices follow the Slice Plan as it is now.     *)
(* `loop` is the await the advance loop is at, `at` the transaction that a  *)
(* synchronous stretch commits next, and `todo` what is left of its list.   *)
(***************************************************************************)
EXTENDS RunLifecycle, Naturals, Sequences

CONSTANTS
    Modes,          \* the modes a Run may be started in
    MaxMishaps      \* bound: crashes, faults, failed designs and failed builds, together

ASSUME ConstantsAssumption ==
    /\ Modes \subseteq RunMode
    /\ MaxMishaps \in Nat

VARIABLES
    \* The database.
    mode, status,
    failure,        \* the run row says that the design failed
    doc,            \* document -> its latest version's status, or "absent"
    gate,           \* is the Design Gate open?
    saved,          \* the revisions in the latest Checkpoint
    \* The process.
    revisions,      \* memory: the documents named in revisions not yet made
    loop,           \* "off", "design", "designUi", "threw", or "down" (no process)
    at,             \* "free", "save", "open", "reopen" or "checkpoint"
    todo,           \* the documents the stretch still saves, or reopens
    \* History, read by properties only.
    judged,         \* the documents accepted as their text is now
    drawn,          \* the UI was designed from the System Design as it is now
    sliced,         \* the Slices are those of the Slice Plan as it is now
    asked,          \* the documents a person or a report asked to change, not reworked yet
    torn,           \* a process died inside a synchronous stretch
    mishaps

run     == <<mode, status, failure>>
texts   == <<judged, drawn, sliced>>
ghosts  == <<asked, torn, mishaps>>
process == <<revisions, loop, at, todo>>
vars    == <<run, doc, gate, saved, process, texts, ghosts>>

-----------------------------------------------------------------------------
Move(event) == \E next \in RunStatus :
                  <<status, event, next>> \in RunArrow(mode) /\ status' = next

\* #save goes through the documents in this order.
SystemOrder == <<"systemDesign", "slicePlan", "apiContract">>
UiOrder     == <<"uiSpec", "penpotDesign">>

\* The documents that Issue Reports send back: the System Design Agent's first.
RevisedDocuments == {<<"apiContract">>, <<"uiSpec">>, <<"apiContract", "uiSpec">>}

\* A person edits the text documents; the Penpot design follows the UI Spec.
TextKind == DocumentKind \ {"penpotDesign"}

\* One document, or two in either order (the same twice is taken up once).
Lists(kinds) == {<<k>> : k \in kinds} \cup (kinds \X kinds)

Redone == {"absent", "stale", "changesRequested", "drafting"}

\* Mutant: only what the Gate itself sent back, or made Stale, is redone.
NeedsFromGate(kinds) == \E k \in kinds : doc[k] \in Redone \ {"drafting"}

\* Mutant: a document that was made Stale waits for someone to ask for it.
NeedsIfAsked(kinds) == \E k \in kinds : k \in revisions \/ doc[k] \in Redone \ {"stale"}

\* Named in a revision, never written, or not finished since it was sent back.
Needs(kinds) == \E k \in kinds : k \in revisions \/ doc[k] \in Redone

Free(l) == at = "free" /\ loop = l

WaitsForRetry == mode = "gated" /\ failure

\* Mutant: the bound is off by one.
FailsOnceMore == mishaps <= MaxMishaps /\ mishaps' = mishaps + 1

Fails == mishaps < MaxMishaps /\ mishaps' = mishaps + 1

-----------------------------------------------------------------------------
Init ==
    /\ mode \in Modes /\ status = "designing" /\ failure = FALSE
    /\ doc = [k \in DocumentKind |-> "absent"] /\ gate = FALSE
    /\ revisions = {} /\ saved = {} /\ loop = "off" /\ at = "free" /\ todo = <<>>
    /\ judged = {} /\ drawn = FALSE /\ sliced = FALSE /\ asked = {}
    /\ torn = FALSE /\ mishaps = 0

\* Mutant: what an earlier Checkpoint held is held for ever.
CheckpointAdds ==
    /\ at = "checkpoint"
    /\ saved' = saved \cup revisions /\ at' = "free"
    /\ UNCHANGED <<run, doc, gate, revisions, loop, todo, texts, ghosts>>

Checkpoint ==
    /\ at = "checkpoint"
    /\ saved' = revisions /\ at' = "free"
    /\ UNCHANGED <<run, doc, gate, revisions, loop, todo, texts, ghosts>>

\* A System Design that was begun is read back for its author to revise.
ReadsBack == doc["systemDesign"] # "absent" => \A k \in SystemKind : doc[k] # "absent"

\* An error that is no DesignPhaseError stops the advance loop, and every later one.
Throw == loop' = "threw" /\ at' = "free" /\ todo' = <<>>

\* The agents are asked only for what is missing, stale or sent back.
StartDesign ==
    /\ Free("off") /\ status = "designing" /\ ~WaitsForRetry
    /\ CASE Needs(SystemKind) -> loop' = (IF ReadsBack THEN "design" ELSE "threw") /\ at' = "free"
         [] ~Needs(SystemKind) /\ Needs(UiKind) -> loop' = "designUi" /\ at' = "free"
         [] OTHER -> loop' = "off" /\ at' = "open"
    /\ UNCHANGED <<run, doc, gate, saved, revisions, todo, texts, ghosts>>

\* An agent answered with a valid design.  Its last turn may end after an abort.
AgentAnswers ==
    /\ loop \in {"design", "designUi"} /\ at = "free"
    /\ at' = "save" /\ todo' = IF loop = "design" THEN SystemOrder ELSE UiOrder
    /\ UNCHANGED <<run, doc, gate, saved, revisions, loop, texts, ghosts>>

\* A DesignPhaseError: with a person the Run waits for one, with nobody it
\* fails (and says why, in a transaction of its own: see RunOrchestrator).
DesignFails ==
    /\ loop \in {"design", "designUi"} /\ at = "free" /\ Fails
    /\ \/ mode = "gated" /\ failure' = TRUE /\ UNCHANGED status
       \/ mode = "auto" /\ Move("designFailed") /\ UNCHANGED failure
       \/ mode = "auto" /\ status = "aborted" /\ UNCHANGED <<failure, status>>
    /\ loop' = "off"
    /\ UNCHANGED <<mode, doc, gate, saved, revisions, at, todo, texts, asked, torn>>

\* The agent is cut short: by an abort, or by a service that fails.
AgentStops ==
    /\ loop \in {"design", "designUi"} /\ at = "free"
    /\ \/ status = "aborted" /\ UNCHANGED mishaps
       \/ Fails
    /\ loop' = "off"
    /\ UNCHANGED <<run, doc, gate, saved, revisions, at, todo, texts, asked, torn>>

-----------------------------------------------------------------------------
\* #save: a document moves to drafting, then its text is replaced.

Reworked(k) == /\ asked' = asked \ {k} /\ todo' = Tail(todo)
               /\ drawn' = IF k = "uiSpec" THEN TRUE ELSE drawn

\* It is approved, and came out the same.
SaveSame ==
    /\ at = "save" /\ todo # <<>> /\ doc[Head(todo)] = "approved"
    /\ Reworked(Head(todo))
    /\ UNCHANGED <<run, doc, gate, saved, revisions, loop, at, judged, sliced, torn, mishaps>>

ToDrafting ==
    /\ at = "save" /\ todo # <<>>
    /\ \E event \in {"changedAfterApproval", "ownerRevises", "redo"} :
          <<doc[Head(todo)], event, "drafting">> \in DocumentArrow
    /\ doc' = [doc EXCEPT ![Head(todo)] = "drafting"]
    /\ UNCHANGED <<run, gate, saved, process, texts, ghosts>>

\* Mutant: the text of an Approved Document is replaced too.
EditableOnceApproved == {"absent", "drafting", "approved"}

Editable == {"absent", "drafting"}

\* "only a drafting version can be edited": the phase throws.
SaveText ==
    /\ at = "save" /\ todo # <<>> /\ doc[Head(todo)] \in Editable \cup {"inReview"}
    /\ LET k == Head(todo) IN
       IF doc[k] = "inReview" THEN Throw /\ UNCHANGED <<doc, texts, asked>>
       ELSE /\ doc' = [doc EXCEPT ![k] = IF @ = "absent" THEN "drafting" ELSE @]
            /\ judged' = judged \ {k}
            /\ drawn' = (k = "uiSpec" \/ (drawn /\ k \notin {"slicePlan", "apiContract"}))
            /\ sliced' = (sliced /\ k # "slicePlan")
            /\ asked' = asked \ {k} /\ todo' = Tail(todo)
            /\ UNCHANGED <<loop, at>>
    /\ UNCHANGED <<run, gate, saved, revisions, torn, mishaps>>

\* #planSlices, and the UI Design Agent if its documents must be redone.
PlanSlices ==
    /\ at = "save" /\ todo = <<>> /\ loop = "design"
    /\ sliced' = TRUE
    /\ IF Needs(UiKind) THEN loop' = "designUi" /\ at' = "free"
                        ELSE loop' = "off" /\ at' = "open"
    /\ UNCHANGED <<run, doc, gate, saved, revisions, todo, judged, drawn, ghosts>>

UiSaved ==
    /\ at = "save" /\ todo = <<>> /\ loop = "designUi"
    /\ loop' = "off" /\ at' = "open"
    /\ UNCHANGED <<run, doc, gate, saved, revisions, todo, texts, ghosts>>

-----------------------------------------------------------------------------
\* The Gate.

InReview == {k \in DocumentKind : doc[k] = "inReview"}

\* Mutant: nobody is asked.
AsFinishedByItself(k) == IF doc[k] \in {"drafting", "inReview"} THEN "approved" ELSE doc[k]

\* What is drafting is finished; with nobody to ask it is accepted as it is.
AsFinished(k) == IF doc[k] \notin {"drafting", "inReview"} THEN doc[k]
                ELSE IF mode = "auto" THEN "approved" ELSE "inReview"

\* Each document is there, and none "still awaits its revision".
CanOpen == \A k \in DocumentKind : doc[k] \notin {"changesRequested", "stale", "absent"}

OpenGate ==
    /\ at = "open" /\ status # "aborted"
    /\ IF ~CanOpen THEN Throw /\ UNCHANGED <<status, doc, gate, judged, revisions>>
       ELSE /\ Move("documentsReady")
            /\ doc' = [k \in DocumentKind |-> AsFinished(k)]
            /\ gate' = (mode = "gated")
            /\ judged' = IF mode = "auto" THEN DocumentKind ELSE judged
            /\ revisions' = {} /\ at' = "checkpoint" /\ UNCHANGED <<loop, todo>>
    /\ UNCHANGED <<mode, failure, saved, drawn, sliced, ghosts>>

\* The Run was aborted meanwhile: the whole transaction is undone.
OpenGateTooLate ==
    /\ at = "open" /\ status = "aborted"
    /\ at' = "free"
    /\ UNCHANGED <<run, doc, gate, saved, revisions, loop, todo, texts, ghosts>>

\* Mutant: a change to the System Design leaves the UI as it was.
StaleNever(kinds, statuses) == {}

\* What was built on the documents that changed.
StaleAfter(kinds, statuses) == UNION {DocumentsMadeStale(k, statuses) : k \in kinds}

\* One transaction: a Verdict on every document in review, the Gate and the Run.
DecideDesign ==
    /\ at = "free" /\ loop # "down" /\ gate
    /\ \E changed \in SUBSET InReview :
       LET verdicts == [k \in DocumentKind |->
                          IF k \in changed THEN "changesRequested"
                          ELSE IF k \in InReview THEN "approved" ELSE doc[k]]
           stale == StaleAfter(changed, verdicts)
       IN  /\ IF changed = {} THEN Move("designApproved") ELSE Move("designChangesRequested")
           /\ doc' = [k \in DocumentKind |-> IF k \in stale THEN "stale" ELSE verdicts[k]]
           /\ judged' = judged \cup (InReview \ changed)
           /\ revisions' = revisions \cup changed \cup stale
           /\ asked' = asked \cup changed
    /\ gate' = FALSE /\ at' = "checkpoint"
    /\ UNCHANGED <<mode, failure, saved, loop, todo, drawn, sliced, torn, mishaps>>

RetryDesign ==
    /\ at = "free" /\ loop # "down" /\ status = "designing" /\ failure
    /\ failure' = FALSE
    /\ UNCHANGED <<mode, status, doc, gate, saved, process, texts, ghosts>>

-----------------------------------------------------------------------------
\* Building, and what sends the Run back to designing.

\* The Slices are built and reviewed, or stop at a limit that a person lifts.
Builds ==
    /\ Free("off")
    /\ \/ Move("allSlicesCommitted") /\ UNCHANGED mishaps
       \/ Move("blockingFindings") /\ UNCHANGED mishaps
       \/ Move("loop") /\ Fails
       \/ Move("retryWithHint") /\ UNCHANGED mishaps
    /\ UNCHANGED <<mode, failure, doc, gate, saved, process, texts, asked, torn>>

\* Design agents own a failure: #reopen takes their documents one by one, also
\* when the Run was aborted before the Slice runs settled.
IssueFound ==
    /\ Free("off") /\ status \in {"building", "aborted"} /\ Fails
    /\ \A k \in DocumentKind : doc[k] # "absent"
    /\ \E list \in RevisedDocuments :
          todo' = list /\ asked' = asked \cup {list[i] : i \in DOMAIN list}
    /\ at' = "reopen"
    /\ UNCHANGED <<run, doc, gate, saved, revisions, loop, texts, torn>>

\* A person edits documents at an Escalation.
EditDocuments ==
    /\ Free("off") /\ Move("editDocuments")
    /\ \E list \in Lists(TextKind) :
          todo' = list /\ asked' = asked \cup {list[i] : i \in DOMAIN list}
    /\ at' = "reopen"
    /\ UNCHANGED <<mode, failure, doc, gate, saved, revisions, loop, texts, torn, mishaps>>

\* Mutant: an Approved Document is revised as it is.
DocumentUnchanged(k) == doc

\* Back to drafting, and whatever was built on it is Stale.
DocumentChanged(k) == [l \in DocumentKind |-> IF l = k THEN "drafting"
                                              ELSE IF l \in StaleAfter({k}, doc) THEN "stale"
                                              ELSE doc[l]]

\* #reopen: documentChanged when it is approved; one Stale or sent back already is
\* revised as it is.
Reopen ==
    /\ at = "reopen" /\ todo # <<>>
    /\ doc' = IF doc[Head(todo)] = "approved" THEN DocumentChanged(Head(todo)) ELSE doc
    /\ revisions' = revisions \cup {Head(todo)}
    /\ IF status = "building" THEN Move("issueOwnedByDesignAgent") ELSE UNCHANGED status
    /\ todo' = Tail(todo)
    /\ UNCHANGED <<mode, failure, gate, saved, loop, at, texts, ghosts>>

Reopened ==
    /\ at = "reopen" /\ todo = <<>>
    /\ at' = "checkpoint"
    /\ UNCHANGED <<run, doc, gate, saved, revisions, loop, todo, texts, ghosts>>

\* The open Gate of a Run that was aborted stays open.
Abort ==
    /\ at = "free" /\ loop # "down" /\ Move("aborted")
    /\ UNCHANGED <<mode, failure, doc, gate, saved, process, texts, ghosts>>

-----------------------------------------------------------------------------
Crash ==
    /\ loop # "down" /\ Fails
    /\ torn' = (torn \/ at # "free")
    /\ revisions' = {} /\ loop' = "down" /\ at' = "free" /\ todo' = <<>>
    /\ UNCHANGED <<run, doc, gate, saved, texts, asked>>

\* Mutant: a new process starts with an empty memory.
RestartForgets ==
    /\ loop = "down"
    /\ revisions' = {} /\ loop' = "off"
    /\ UNCHANGED <<run, doc, gate, saved, at, todo, texts, ghosts>>

Restart ==
    /\ loop = "down"
    /\ revisions' = saved /\ loop' = "off"
    /\ UNCHANGED <<run, doc, gate, saved, at, todo, texts, ghosts>>

Saves == SaveSame \/ ToDrafting \/ SaveText \/ PlanSlices \/ UiSaved

Designs == \/ StartDesign \/ AgentAnswers \/ DesignFails \/ AgentStops \/ Saves
           \/ OpenGate \/ OpenGateTooLate \/ Checkpoint

Person == DecideDesign \/ RetryDesign \/ EditDocuments \/ Abort

Next == Designs \/ Person \/ Builds \/ IssueFound \/ Reopen \/ Reopened \/ Crash \/ Restart

Spec == Init /\ [][Next]_vars

-----------------------------------------------------------------------------
TypeOK ==
    /\ mode \in Modes /\ status \in RunStatus /\ failure \in BOOLEAN
    /\ doc \in [DocumentKind -> DocumentStatus \cup {"absent"}]
    /\ gate \in BOOLEAN
    /\ revisions \in SUBSET DocumentKind /\ saved \in SUBSET DocumentKind
    /\ loop \in {"down", "off", "design", "designUi", "threw"}
    /\ at \in {"free", "save", "open", "reopen", "checkpoint"}
    /\ todo \in Seq(DocumentKind)
    /\ judged \in SUBSET DocumentKind /\ asked \in SUBSET DocumentKind
    /\ drawn \in BOOLEAN /\ sliced \in BOOLEAN /\ torn \in BOOLEAN
    /\ mishaps \in 0..MaxMishaps

Built == {"building", "reviewing", "escalated", "done"}

\* Code is built only on documents that are all approved, with the text that was
\* judged (DocumentDesignGate.decide, #save, #reopen).
BuildsOnWhatWasJudged ==
    status \in Built => \A k \in DocumentKind : doc[k] = "approved" /\ k \in judged

\* Unless a process died inside a stretch, code is built only on a UI drawn from the
\* Slice Plan and the API Contract as they are, in the Slices the plan names (needs,
\* markUpstreamChanged, #planSlices).
HangsTogetherUnlessTorn == torn \/ (status \in Built => drawn /\ sliced)

\* Unless a process died inside a stretch, whatever was asked of a document, its
\* author reworked it before the build goes on (decide, #reopen, needs).
NothingAskedIsSkipped == ~torn /\ status \in Built /\ at = "free" => asked = {}

\* Unless a process died inside a stretch, the comments wait for the agent that
\* revises the document, across restarts (decideDesign, #reopen, #checkpoint).
CommentsAreKept ==
    ~torn /\ status = "designing" /\ at = "free" /\ loop # "down" => asked \subseteq revisions

\* Unless a process died inside a stretch, no revision that was made is kept to be
\* made again (#design).
RevisionsAreOwed ==
    ~torn /\ status \in Built \cup {"awaitingDesignGate"} /\ at = "free" /\ loop # "down"
      => revisions = {}

\* The Design Gate asks about something (#save, needs): what sent the Run back to it
\* has changed a document; unless a process died inside a stretch.
GateAsksUnlessTorn ==
    torn \/ (status = "awaitingDesignGate" => gate /\ InReview # {})

\* The phase never meets a document it cannot read, save or finish (run, #save, open), so
\* its Run can always be carried on; unless a process died inside a stretch.
ThrowsOnlyWhenTorn == torn \/ loop # "threw"

\* Unless a process died inside a stretch: what is built on hangs together, the Gate
\* asks about something and the phase can always be carried on.
DesignIsWholeUnlessTorn == HangsTogetherUnlessTorn /\ GateAsksUnlessTorn /\ ThrowsOnlyWhenTorn

Phase == CASE status = "designing" -> "designing"
           [] status = "awaitingDesignGate" -> "judging"
           [] status \in Built -> "building"
           [] OTHER -> "stopped"

ApprovedDocuments == {k \in DocumentKind : doc[k] = "approved"}

Agreement == INSTANCE AgreedDesign
                 WITH Documents <- DocumentKind, gated <- (mode = "gated"),
                      phase <- Phase, agreed <- ApprovedDocuments

\* What the Design Gate promises is kept.
KeepsAgreement == Agreement!Spec
=============================================================================
