-------------------------- MODULE DesignPhaseProofs --------------------------
(***************************************************************************)
(* Proofs about DesignPhase, for every bound and wherever a process dies:   *)
(* code is built only on documents that were judged as they are, and the    *)
(* phase implements AgreedDesign.                                           *)
(***************************************************************************)
EXTENDS DesignPhase, TLAPS

\* Where each event of a Run leads, and from where.
LEMMA Moves ==
    ASSUME mode \in RunMode
    PROVE
    /\ Move("documentsReady")
         => status = "designing" /\ status' = IF mode = "gated" THEN "awaitingDesignGate" ELSE "building"
    /\ Move("designFailed") => status = "designing" /\ status' = "failed"
    /\ Move("aborted") => status \notin Finished \cup {"escalated"} /\ status' = "aborted"
    /\ Move("designApproved") => status = "awaitingDesignGate" /\ status' = "building"
    /\ Move("designChangesRequested") => status = "awaitingDesignGate" /\ status' = "designing"
    /\ Move("issueOwnedByDesignAgent") => status = "building" /\ status' = "designing"
    /\ Move("allSlicesCommitted") => status = "building" /\ status' = "reviewing"
    /\ Move("blockingFindings") => status = "reviewing" /\ status' = "building"
    /\ Move("loop") => status = "building" /\ status' \in {"escalated", "failed"}
    /\ Move("retryWithHint") => status = "escalated" /\ status' = "building"
    /\ Move("editDocuments") => status = "escalated" /\ status' = "designing"
<1> USE DEF Move, RunArrow, RunMode, EscalationTrigger, ReviewLimit,
            EscalationChoice, EscalationTarget, RunStatus, Finished
<1>1. Move("documentsReady")
        => status = "designing" /\ status' = IF mode = "gated" THEN "awaitingDesignGate" ELSE "building"
  OBVIOUS
<1>2. Move("designFailed") => status = "designing" /\ status' = "failed"
  OBVIOUS
<1>3. Move("aborted") => status \notin Finished \cup {"escalated"} /\ status' = "aborted"
  OBVIOUS
<1>4. Move("designApproved") => status = "awaitingDesignGate" /\ status' = "building"
  OBVIOUS
<1>5. Move("designChangesRequested") => status = "awaitingDesignGate" /\ status' = "designing"
  OBVIOUS
<1>6. Move("issueOwnedByDesignAgent") => status = "building" /\ status' = "designing"
  OBVIOUS
<1>7. Move("allSlicesCommitted") => status = "building" /\ status' = "reviewing"
  OBVIOUS
<1>8. Move("blockingFindings") => status = "reviewing" /\ status' = "building"
  OBVIOUS
<1>9. Move("loop") => status = "building" /\ status' \in {"escalated", "failed"}
  OBVIOUS
<1>10. Move("retryWithHint") => status = "escalated" /\ status' = "building"
  OBVIOUS
<1>11. Move("editDocuments") => status = "escalated" /\ status' = "designing"
  OBVIOUS
<1> QED BY <1>1, <1>2, <1>3, <1>4, <1>5, <1>6, <1>7, <1>8, <1>9, <1>10, <1>11

\* What is left of a list of documents is one too.
LEMMA TodoType ==
    ASSUME todo \in Seq(DocumentKind)
    PROVE  /\ todo # <<>> => Head(todo) \in DocumentKind /\ Tail(todo) \in Seq(DocumentKind)
           /\ <<>> \in Seq(DocumentKind)
           /\ SystemOrder \in Seq(DocumentKind) /\ UiOrder \in Seq(DocumentKind)
           /\ \A kinds \in SUBSET DocumentKind : Lists(kinds) \subseteq Seq(DocumentKind)
<1>1. todo # <<>> => Head(todo) \in DocumentKind /\ Tail(todo) \in Seq(DocumentKind)
  OBVIOUS
<1>2. SystemOrder \in Seq(DocumentKind) /\ UiOrder \in Seq(DocumentKind)
  BY DEF SystemOrder, UiOrder, DocumentKind, SystemKind, UiKind
<1>3. \A kinds \in SUBSET DocumentKind : Lists(kinds) \subseteq Seq(DocumentKind)
  <2> TAKE kinds \in SUBSET DocumentKind
  <2>1. \A k \in kinds : <<k>> \in Seq(DocumentKind)
    OBVIOUS
  <2>2. \A k \in kinds, l \in kinds : <<k, l>> \in Seq(DocumentKind)
    OBVIOUS
  <2>3. \A list \in Lists(kinds) : \/ \E k \in kinds : list = <<k>>
                                  \/ \E k \in kinds, l \in kinds : list = <<k, l>>
    BY DEF Lists
  <2> QED BY <2>1, <2>2, <2>3
<1> QED BY <1>1, <1>2, <1>3

\* A Run moves to a status of a Run, and a mishap is counted up to the bound.
LEMMA MoveType ==
    /\ \A event : Move(event) => status' \in RunStatus
    /\ mishaps \in 0..MaxMishaps /\ Fails => mishaps' \in 0..MaxMishaps
<1>1. \A event : Move(event) => status' \in RunStatus
  BY DEF Move
<1>2. mishaps \in 0..MaxMishaps /\ Fails => mishaps' \in 0..MaxMishaps
  BY ConstantsAssumption DEF Fails
<1> QED BY <1>1, <1>2

\* What a change to one document makes Stale are documents.
LEMMA StaleAfterType ==
    ASSUME NEW kinds, NEW statuses
    PROVE  StaleAfter(kinds, statuses) \subseteq UiKind
BY DEF StaleAfter, DocumentsMadeStale, Downstream

\* Saves: none of its actions leaves the types.
LEMMA SavesType == TypeOK /\ Saves => TypeOK'
<1> SUFFICES ASSUME TypeOK, Saves PROVE TypeOK'
  OBVIOUS
<1> USE DEF TypeOK, run, texts, ghosts, process
<1>1. CASE SaveSame
  BY <1>1, TodoType DEF SaveSame, Reworked
<1>2. CASE ToDrafting
  BY <1>2, TodoType DEF ToDrafting, DocumentStatus
<1>3. CASE SaveText
  <2>1. CASE doc[Head(todo)] = "inReview"
    BY <1>3, <2>1, TodoType DEF SaveText, Throw
  <2>2. CASE doc[Head(todo)] # "inReview"
    BY <1>3, <2>2, TodoType DEF SaveText, DocumentStatus
  <2> QED BY <2>1, <2>2
<1>4. CASE PlanSlices
  BY <1>4 DEF PlanSlices
<1>5. CASE UiSaved
  BY <1>5 DEF UiSaved
<1> QED BY <1>1, <1>2, <1>3, <1>4, <1>5 DEF Saves

\* Designs: none of its actions leaves the types.
LEMMA DesignsType == TypeOK /\ Designs => TypeOK'
<1> SUFFICES ASSUME TypeOK, Designs PROVE TypeOK'
  OBVIOUS
<1> USE DEF TypeOK, run, texts, ghosts, process
<1>1. CASE StartDesign
  <2>1. UNCHANGED <<run, doc, gate, saved, revisions, texts, ghosts>>
    BY <1>1 DEF StartDesign
  <2>2. /\ loop' \in {"design", "threw", "designUi", "off"} /\ at' \in {"free", "open"}
        /\ todo' = todo
    BY <1>1 DEF StartDesign, Throw
  <2> QED BY <2>1, <2>2
<1>2. CASE AgentAnswers
  BY <1>2, TodoType DEF AgentAnswers
<1>3. CASE DesignFails
  BY <1>3, MoveType DEF DesignFails
<1>4. CASE AgentStops
  BY <1>4, MoveType DEF AgentStops
<1>5. CASE Saves
  BY <1>5, SavesType
<1>6. CASE OpenGate
  <2>1. CASE CanOpen
    BY <1>6, <2>1, TodoType, MoveType DEF OpenGate, AsFinished, DocumentStatus
  <2>2. CASE ~CanOpen
    BY <1>6, <2>2, TodoType DEF OpenGate, Throw
  <2> QED BY <2>1, <2>2
<1>7. CASE OpenGateTooLate
  BY <1>7 DEF OpenGateTooLate
<1>8. CASE Checkpoint
  BY <1>8 DEF Checkpoint
<1> QED BY <1>1, <1>2, <1>3, <1>4, <1>5, <1>6, <1>7, <1>8 DEF Designs

\* A person's decisions leave the types as they are.
LEMMA PersonType == TypeOK /\ Person => TypeOK'
<1> SUFFICES ASSUME TypeOK, Person PROVE TypeOK'
  OBVIOUS
<1> USE DEF TypeOK, run, texts, ghosts, process
<1>1. CASE DecideDesign
  <2>1. PICK changed \in SUBSET InReview :
          LET verdicts == [k \in DocumentKind |->
                             IF k \in changed THEN "changesRequested"
                             ELSE IF k \in InReview THEN "approved" ELSE doc[k]]
              stale == StaleAfter(changed, verdicts)
          IN  /\ IF changed = {} THEN Move("designApproved") ELSE Move("designChangesRequested")
              /\ doc' = [k \in DocumentKind |-> IF k \in stale THEN "stale" ELSE verdicts[k]]
              /\ judged' = judged \cup (InReview \ changed)
              /\ revisions' = revisions \cup changed \cup stale
              /\ asked' = asked \cup changed
    BY <1>1 DEF DecideDesign
  <2>2. InReview \subseteq DocumentKind
    BY DEF InReview
  <2>3. status' \in RunStatus
    BY <2>1, MoveType
  <2>4. doc' \in [DocumentKind -> DocumentStatus \cup {"absent"}]
    BY <2>1 DEF DocumentStatus
  <2>5. /\ judged' \in SUBSET DocumentKind /\ asked' \in SUBSET DocumentKind
        /\ revisions' \in SUBSET DocumentKind
    BY <2>1, <2>2, StaleAfterType DEF DocumentKind
  <2> QED BY <1>1, <2>3, <2>4, <2>5 DEF DecideDesign
<1>2. CASE RetryDesign
  BY <1>2 DEF RetryDesign
<1>3. CASE EditDocuments
  <2>1. PICK list \in Lists(TextKind) :
          todo' = list /\ asked' = asked \cup {list[i] : i \in DOMAIN list}
    BY <1>3 DEF EditDocuments
  <2>2. todo' \in Seq(DocumentKind)
    BY <2>1, TodoType DEF TextKind
  <2>3. asked' \in SUBSET DocumentKind
    BY <2>1, <2>2
  <2> QED BY <1>3, <2>2, <2>3, MoveType DEF EditDocuments
<1>4. CASE Abort
  BY <1>4, MoveType DEF Abort
<1> QED BY <1>1, <1>2, <1>3, <1>4 DEF Person

\* Every variable stays in its type: the statuses the database may hold, and
\* the places an advance may be at (all of DesignPhase).
THEOREM DesignTypeCorrect == Spec => []TypeOK
<1>1. Init => TypeOK
  <2> SUFFICES ASSUME Init PROVE TypeOK
    OBVIOUS
  <2>1. doc \in [DocumentKind -> DocumentStatus \cup {"absent"}]
    BY DEF Init
  <2>2. mishaps \in 0..MaxMishaps
    BY ConstantsAssumption DEF Init
  <2>3. todo \in Seq(DocumentKind)
    BY DEF Init
  <2> QED BY <2>1, <2>2, <2>3 DEF Init, TypeOK, RunStatus
<1>2. TypeOK /\ [Next]_vars => TypeOK'
  <2> SUFFICES ASSUME TypeOK, [Next]_vars PROVE TypeOK'
    OBVIOUS
  <2> USE DEF TypeOK, run, texts, ghosts, process
  <2>1. CASE UNCHANGED vars
    BY <2>1 DEF vars
  <2>2. CASE Designs
    BY <2>2, DesignsType
  <2>3. CASE Person
    BY <2>3, PersonType
  <2>4. CASE Builds
    BY <2>4, MoveType DEF Builds
  <2>5. CASE IssueFound
    <3>1. PICK list \in RevisedDocuments :
            todo' = list /\ asked' = asked \cup {list[i] : i \in DOMAIN list}
      BY <2>5 DEF IssueFound
    <3>2. todo' \in Seq(DocumentKind)
      <4>1. "apiContract" \in DocumentKind /\ "uiSpec" \in DocumentKind
        BY DEF DocumentKind, SystemKind, UiKind
      <4>2. RevisedDocuments \subseteq Seq(DocumentKind)
        BY <4>1 DEF RevisedDocuments
      <4> QED BY <3>1, <4>2
    <3>3. asked' \in SUBSET DocumentKind
      BY <3>1, <3>2
    <3> QED BY <2>5, <3>2, <3>3, MoveType DEF IssueFound
  <2>6. CASE Reopen
    <3>1. doc' \in [DocumentKind -> DocumentStatus \cup {"absent"}]
      BY <2>6 DEF Reopen, DocumentChanged, DocumentStatus
    <3>2. status' \in RunStatus
      BY <2>6, MoveType DEF Reopen
    <3> QED BY <2>6, <3>1, <3>2, TodoType DEF Reopen
  <2>7. CASE Reopened
    BY <2>7 DEF Reopened
  <2>8. CASE Crash
    BY <2>8, MoveType, TodoType DEF Crash
  <2>9. CASE Restart
    BY <2>9 DEF Restart
  <2> QED BY <2>1, <2>2, <2>3, <2>4, <2>5, <2>6, <2>7, <2>8, <2>9 DEF Next
<1> QED BY <1>1, <1>2, PTL DEF Spec

-----------------------------------------------------------------------------
\* Where a Run can be while its documents are written, or reopened.
StagesFitStatus ==
    /\ loop \in {"design", "designUi"} \/ at \in {"save", "open"}
         => status \in {"designing", "aborted"}
    /\ at = "reopen" => status \in {"designing", "building", "aborted"}
    /\ at = "open" => loop = "off"

\* An approved document was judged as it is.
ApprovedWasJudged == \A k \in DocumentKind : doc[k] = "approved" => k \in judged

\* The open Gate leaves nothing out, and all is approved that code is built on.
DocumentsFitStatus ==
    /\ status = "awaitingDesignGate"
         => \A k \in DocumentKind : doc[k] \in {"inReview", "approved"}
    /\ status \in Built => \A k \in DocumentKind : doc[k] = "approved"

Agreed == StagesFitStatus /\ ApprovedWasJudged /\ DocumentsFitStatus

DesignInv == TypeOK /\ Agreed

\* Saves: none of its actions disturbs the invariant.
LEMMA SavesAgreed == DesignInv /\ Saves => Agreed'
<1> SUFFICES ASSUME DesignInv, Saves PROVE Agreed'
  OBVIOUS
<1> USE DEF DesignInv, Agreed, StagesFitStatus, ApprovedWasJudged, DocumentsFitStatus, Built,
            run, texts, ghosts, process
<1>1. CASE SaveSame
  BY <1>1 DEF SaveSame, Reworked
<1>2. CASE ToDrafting
  BY <1>2 DEF ToDrafting, TypeOK
<1>3. CASE SaveText
  <2>1. CASE doc[Head(todo)] = "inReview"
    BY <1>3, <2>1 DEF SaveText, Throw
  <2>2. CASE doc[Head(todo)] # "inReview"
    BY <1>3, <2>2 DEF SaveText, Editable, TypeOK
  <2> QED BY <2>1, <2>2
<1>4. CASE PlanSlices
  BY <1>4 DEF PlanSlices
<1>5. CASE UiSaved
  BY <1>5 DEF UiSaved
<1> QED BY <1>1, <1>2, <1>3, <1>4, <1>5 DEF Saves

\* Designs: none of its actions disturbs the invariant.
LEMMA DesignsAgreed == DesignInv /\ Designs => Agreed'
<1> SUFFICES ASSUME DesignInv, Designs PROVE Agreed'
  OBVIOUS
<1>m. mode \in RunMode
  BY ConstantsAssumption DEF DesignInv, TypeOK
<1> USE DEF DesignInv, Agreed, StagesFitStatus, ApprovedWasJudged, DocumentsFitStatus, Built,
            run, texts, ghosts, process
<1>1. CASE StartDesign
  <2>1. UNCHANGED <<run, doc, texts>> /\ status = "designing"
    BY <1>1 DEF StartDesign
  <2>2. at' = "free" \/ (at' = "open" /\ loop' = "off")
    BY <1>1 DEF StartDesign, Throw
  <2> QED BY <2>1, <2>2
<1>2. CASE AgentAnswers
  BY <1>2 DEF AgentAnswers
<1>3. CASE DesignFails
  BY <1>3, <1>m, Moves DEF DesignFails
<1>4. CASE AgentStops
  BY <1>4 DEF AgentStops
<1>5. CASE Saves
  BY <1>5, SavesAgreed
<1>6. CASE OpenGate
  <2>1. CASE ~CanOpen
    BY <1>6, <2>1 DEF OpenGate, Throw
  <2>2. CASE CanOpen
    <3>1. status' = IF mode = "gated" THEN "awaitingDesignGate" ELSE "building"
      BY <1>6, <2>2, <1>m, Moves DEF OpenGate
    <3>2. doc' = [k \in DocumentKind |-> AsFinished(k)]
      BY <1>6, <2>2 DEF OpenGate
    <3>3. judged' = IF mode = "auto" THEN DocumentKind ELSE judged
      BY <1>6, <2>2 DEF OpenGate
    <3>4. \A k \in DocumentKind : doc[k] \in {"drafting", "inReview", "approved"}
      BY <2>2 DEF CanOpen, TypeOK, DocumentStatus
    <3>5. at' = "checkpoint" /\ loop' = "off"
      BY <1>6, <2>2 DEF OpenGate
    <3>6. \A k \in DocumentKind :
            IF mode = "auto" THEN doc'[k] = "approved" ELSE doc'[k] \in {"inReview", "approved"}
      BY <3>2, <3>4 DEF AsFinished
    <3>7. \A k \in DocumentKind : doc'[k] = "approved" => k \in judged'
      BY <3>2, <3>3, <3>4 DEF AsFinished
    <3> QED BY <1>m, <3>1, <3>5, <3>6, <3>7 DEF RunMode
  <2> QED BY <2>1, <2>2
<1>7. CASE OpenGateTooLate
  BY <1>7 DEF OpenGateTooLate
<1>8. CASE Checkpoint
  BY <1>8 DEF Checkpoint
<1> QED BY <1>1, <1>2, <1>3, <1>4, <1>5, <1>6, <1>7, <1>8 DEF Designs

\* The verdicts, once given: everything approved, or something sent back.
LEMMA Verdicts ==
    ASSUME DesignInv, DecideDesign
    PROVE  /\ status = "awaitingDesignGate" /\ at' = "checkpoint" /\ UNCHANGED <<mode, loop>>
           /\ \A k \in DocumentKind : doc'[k] = "approved" => k \in judged'
           /\ \/ /\ status' = "building"
                 /\ \A k \in DocumentKind : doc'[k] = "approved"
              \/ /\ status' = "designing"
                 /\ \E k \in DocumentKind : doc'[k] # "approved"
<1>m. mode \in RunMode
  BY ConstantsAssumption DEF DesignInv, TypeOK
<1>1. PICK changed \in SUBSET InReview :
        LET verdicts == [k \in DocumentKind |->
                           IF k \in changed THEN "changesRequested"
                           ELSE IF k \in InReview THEN "approved" ELSE doc[k]]
            stale == StaleAfter(changed, verdicts)
        IN  /\ IF changed = {} THEN Move("designApproved") ELSE Move("designChangesRequested")
            /\ doc' = [k \in DocumentKind |-> IF k \in stale THEN "stale" ELSE verdicts[k]]
            /\ judged' = judged \cup (InReview \ changed)
  BY DEF DecideDesign
<1>2. /\ status = "awaitingDesignGate"
      /\ status' = IF changed = {} THEN "building" ELSE "designing"
  BY <1>1, <1>m, Moves
<1>3. \A k \in DocumentKind : doc[k] \in {"inReview", "approved"}
  BY <1>2 DEF DesignInv, Agreed, DocumentsFitStatus
<1>4. \A k \in DocumentKind : doc'[k] = "approved" => k \in judged'
  BY <1>1, <1>3 DEF DesignInv, Agreed, ApprovedWasJudged, InReview
<1>5. CASE changed = {}
  <2>1. \A statuses : StaleAfter({}, statuses) = {}
    BY DEF StaleAfter
  <2> QED BY <1>1, <1>2, <1>3, <1>4, <1>5, <2>1 DEF DecideDesign, InReview
<1>6. CASE changed # {}
  <2>1. PICK k \in changed : TRUE
    BY <1>6
  <2>2. k \in DocumentKind /\ doc'[k] # "approved"
    BY <1>1, <2>1 DEF InReview
  <2> QED BY <1>2, <1>4, <1>6, <2>2 DEF DecideDesign
<1> QED BY <1>5, <1>6

\* A person's decisions do not disturb the invariant.
LEMMA PersonAgreed == DesignInv /\ Person => Agreed'
<1> SUFFICES ASSUME DesignInv, Person PROVE Agreed'
  OBVIOUS
<1>m. mode \in RunMode
  BY ConstantsAssumption DEF DesignInv, TypeOK
<1> USE DEF DesignInv, Agreed, StagesFitStatus, ApprovedWasJudged, DocumentsFitStatus, Built,
            run, texts, ghosts, process
<1>1. CASE DecideDesign
  BY <1>1, Verdicts
<1>2. CASE RetryDesign
  BY <1>2 DEF RetryDesign
<1>3. CASE EditDocuments
  BY <1>3, <1>m, Moves DEF EditDocuments, Free
<1>4. CASE Abort
  BY <1>4, <1>m, Moves DEF Abort
<1> QED BY <1>1, <1>2, <1>3, <1>4 DEF Person

\* The steps outside the Design Phase do not disturb the invariant.
LEMMA OthersAgreed ==
    DesignInv /\ (Builds \/ IssueFound \/ Reopen \/ Reopened \/ Crash \/ Restart) => Agreed'
<1> SUFFICES ASSUME DesignInv, Builds \/ IssueFound \/ Reopen \/ Reopened \/ Crash \/ Restart
             PROVE Agreed'
  OBVIOUS
<1>m. mode \in RunMode
  BY ConstantsAssumption DEF DesignInv, TypeOK
<1> USE DEF DesignInv, Agreed, StagesFitStatus, ApprovedWasJudged, DocumentsFitStatus, Built,
            run, texts, ghosts, process
<1>1. CASE Builds
  BY <1>1, <1>m, Moves DEF Builds, Free
<1>2. CASE IssueFound
  BY <1>2 DEF IssueFound, Free
<1>3. CASE Reopen
  <2>1. status' \in {"designing", "aborted"} /\ at' = at /\ loop' = loop /\ judged' = judged
    BY <1>3, <1>m, Moves DEF Reopen
  <2>2. \A k \in DocumentKind : doc'[k] = "approved" => doc[k] = "approved"
    BY <1>3 DEF Reopen, DocumentChanged, TypeOK
  <2> QED BY <2>1, <2>2, <1>3
<1>4. CASE Reopened
  BY <1>4 DEF Reopened
<1>5. CASE Crash
  BY <1>5 DEF Crash
<1>6. CASE Restart
  BY <1>6 DEF Restart
<1> QED BY <1>1, <1>2, <1>3, <1>4, <1>5, <1>6

\* The inductive invariant: the documents fit the Run's status at every stage
\* (DocumentDesignGate, AgentDesignPhase, #reopen).
THEOREM DesignInductive == Spec => []DesignInv
<1>1. Init => Agreed
  BY DEF Init, Agreed, StagesFitStatus, ApprovedWasJudged, DocumentsFitStatus, Built
<1>2. TypeOK /\ Agreed /\ [Next]_vars => Agreed'
  <2> SUFFICES ASSUME DesignInv, [Next]_vars PROVE Agreed'
    BY DEF DesignInv
  <2>1. CASE UNCHANGED vars
    BY <2>1 DEF vars, run, texts, process, DesignInv, Agreed, StagesFitStatus,
                ApprovedWasJudged, DocumentsFitStatus, Built
  <2>2. CASE Next
    BY <2>2, DesignsAgreed, PersonAgreed, OthersAgreed DEF Next
  <2> QED BY <2>1, <2>2
<1> QED BY <1>1, <1>2, DesignTypeCorrect, PTL DEF Spec, DesignInv

\* Code is built only on documents that are all approved, with the text that was
\* judged, wherever a process dies (DocumentDesignGate.decide, #save, #reopen).
THEOREM BuiltOnWhatWasJudged == Spec => []BuildsOnWhatWasJudged
<1>1. DesignInv => BuildsOnWhatWasJudged
  BY DEF DesignInv, Agreed, ApprovedWasJudged, DocumentsFitStatus, BuildsOnWhatWasJudged
<1> QED BY <1>1, DesignInductive, PTL

-----------------------------------------------------------------------------
\* What one step of AgreedDesign may do, or nothing that it speaks of.
Allowed == [Agreement!Next]_(Agreement!agreement)

\* A step that neither moves the Run nor approves or reopens a document.
LEMMA Stutters ==
    ASSUME UNCHANGED <<mode, status>>, ApprovedDocuments' = ApprovedDocuments
    PROVE  Allowed
BY DEF Allowed, Agreement!agreement, Phase, Built

\* Documents are taken up again before code is built, or once the Run has stopped.
LEMMA Revises ==
    ASSUME UNCHANGED <<mode, status>>, status \in {"designing", "aborted"},
           ApprovedDocuments' \subseteq ApprovedDocuments
    PROVE  Allowed
BY DEF Allowed, Agreement!Next, Agreement!Revise, Phase, Built

\* The Design Phase keeps what the Design Gate promises.
LEMMA DesignsAllowed == DesignInv /\ Designs => Allowed
<1> SUFFICES ASSUME DesignInv, Designs PROVE Allowed
  OBVIOUS
<1>m. mode \in RunMode
  BY ConstantsAssumption DEF DesignInv, TypeOK
<1> USE DEF run, texts, ghosts, process
<1>1. CASE StartDesign
  BY <1>1, Stutters DEF StartDesign, ApprovedDocuments
<1>2. CASE AgentAnswers
  BY <1>2, Stutters DEF AgentAnswers, ApprovedDocuments
<1>3. CASE DesignFails
  <2>1. UNCHANGED <<mode, doc>> /\ (status' = status \/ status' = "failed")
    BY <1>3, <1>m, Moves DEF DesignFails
  <2>2. ApprovedDocuments' = ApprovedDocuments
    BY <2>1 DEF ApprovedDocuments
  <2>3. CASE status' = "failed"
    BY <2>1, <2>2, <2>3 DEF Allowed, Agreement!Next, Agreement!Stop, Phase, Built
  <2> QED BY <2>1, <2>2, <2>3, Stutters
<1>4. CASE AgentStops
  BY <1>4, Stutters DEF AgentStops, ApprovedDocuments
<1>5. CASE SaveSame \/ PlanSlices \/ UiSaved \/ OpenGateTooLate \/ Checkpoint
  <2>1. UNCHANGED <<mode, status, doc>>
    BY <1>5 DEF SaveSame, PlanSlices, UiSaved, OpenGateTooLate, Checkpoint
  <2> QED BY <2>1, Stutters DEF ApprovedDocuments
<1>6. CASE ToDrafting
  <2>1. UNCHANGED <<mode, status>> /\ status \in {"designing", "aborted"}
    BY <1>6 DEF ToDrafting, DesignInv, Agreed, StagesFitStatus
  <2>2. ApprovedDocuments' \subseteq ApprovedDocuments
    BY <1>6 DEF ToDrafting, ApprovedDocuments, DesignInv, TypeOK
  <2> QED BY <2>1, <2>2, Revises
<1>7. CASE SaveText
  <2>1. UNCHANGED <<mode, status>>
    BY <1>7 DEF SaveText
  <2>2. ApprovedDocuments' = ApprovedDocuments
    <3>1. CASE doc[Head(todo)] = "inReview"
      BY <1>7, <3>1 DEF SaveText, ApprovedDocuments
    <3>2. CASE doc[Head(todo)] # "inReview"
      BY <1>7, <3>2 DEF SaveText, Editable, ApprovedDocuments, DesignInv, TypeOK
    <3> QED BY <3>1, <3>2
  <2> QED BY <2>1, <2>2, Stutters
<1>8. CASE OpenGate
  <2>1. CASE ~CanOpen
    BY <1>8, <2>1, Stutters DEF OpenGate, ApprovedDocuments
  <2>2. CASE CanOpen
    <3>1. /\ status = "designing" /\ mode' = mode
          /\ status' = IF mode = "gated" THEN "awaitingDesignGate" ELSE "building"
      BY <1>8, <2>2, <1>m, Moves DEF OpenGate
    <3>2. doc' = [k \in DocumentKind |-> AsFinished(k)]
      BY <1>8, <2>2 DEF OpenGate
    <3>3. CASE mode = "gated"
      <4>1. ApprovedDocuments' = ApprovedDocuments
        BY <3>2, <3>3 DEF AsFinished, ApprovedDocuments
      <4> QED BY <3>1, <3>3, <4>1 DEF Allowed, Agreement!Next, Agreement!Present, Phase, Built
    <3>4. CASE mode = "auto"
      <4>1. ApprovedDocuments' = DocumentKind
        BY <2>2, <3>2, <3>4 DEF CanOpen, AsFinished, ApprovedDocuments, DesignInv, TypeOK,
                                DocumentStatus
      <4> QED BY <3>1, <3>4, <4>1 DEF Allowed, Agreement!Next, Agreement!Present, Phase, Built
    <3> QED BY <1>m, <3>3, <3>4 DEF RunMode
  <2> QED BY <2>1, <2>2
<1> QED BY <1>1, <1>2, <1>3, <1>4, <1>5, <1>6, <1>7, <1>8 DEF Designs, Saves

\* A person's decisions keep what the Design Gate promises.
LEMMA PersonAllowed == DesignInv /\ Person => Allowed
<1> SUFFICES ASSUME DesignInv, Person PROVE Allowed
  OBVIOUS
<1>m. mode \in RunMode
  BY ConstantsAssumption DEF DesignInv, TypeOK
<1> USE DEF run, texts, ghosts, process
<1>1. CASE DecideDesign
  <2>1. status = "awaitingDesignGate" /\ mode' = mode
    BY <1>1, Verdicts
  <2>2. CASE status' = "building" /\ \A k \in DocumentKind : doc'[k] = "approved"
    <3>1. ApprovedDocuments' = DocumentKind
      BY <2>2 DEF ApprovedDocuments
    <3> QED BY <2>1, <2>2, <3>1 DEF Allowed, Agreement!Next, Agreement!Judge, Phase, Built
  <2>3. CASE status' = "designing" /\ \E k \in DocumentKind : doc'[k] # "approved"
    <3>1. ApprovedDocuments' \in (SUBSET DocumentKind) \ {DocumentKind}
      BY <2>3 DEF ApprovedDocuments
    <3> QED BY <2>1, <2>3, <3>1 DEF Allowed, Agreement!Next, Agreement!Judge, Phase, Built
  <2> QED BY <1>1, <2>2, <2>3, Verdicts
<1>2. CASE RetryDesign
  BY <1>2, Stutters DEF RetryDesign, ApprovedDocuments
<1>3. CASE EditDocuments
  <2>1. status = "escalated" /\ status' = "designing" /\ UNCHANGED <<mode, doc>>
    BY <1>3, <1>m, Moves DEF EditDocuments
  <2>2. ApprovedDocuments' = ApprovedDocuments
    BY <2>1 DEF ApprovedDocuments
  <2> QED BY <2>1, <2>2 DEF Allowed, Agreement!Next, Agreement!Reconsider, Phase, Built
<1>4. CASE Abort
  <2>1. status' = "aborted" /\ UNCHANGED <<mode, doc>>
    BY <1>4, <1>m, Moves DEF Abort
  <2>2. ApprovedDocuments' = ApprovedDocuments
    BY <2>1 DEF ApprovedDocuments
  <2> QED BY <2>1, <2>2 DEF Allowed, Agreement!Next, Agreement!Stop, Phase, Built
<1> QED BY <1>1, <1>2, <1>3, <1>4 DEF Person

\* Building, and what sends the Run back, keeps what the Design Gate promises.
LEMMA OthersAllowed ==
    DesignInv /\ (Builds \/ IssueFound \/ Reopen \/ Reopened \/ Crash \/ Restart) => Allowed
<1> SUFFICES ASSUME DesignInv, Builds \/ IssueFound \/ Reopen \/ Reopened \/ Crash \/ Restart
             PROVE Allowed
  OBVIOUS
<1>m. mode \in RunMode
  BY ConstantsAssumption DEF DesignInv, TypeOK
<1> USE DEF run, texts, ghosts, process
<1>1. CASE Builds
  <2>1. /\ status \in Built /\ status' \in Built \cup {"failed"} /\ UNCHANGED <<mode, doc>>
    BY <1>1, <1>m, Moves DEF Builds, Built
  <2>2. ApprovedDocuments' = ApprovedDocuments
    BY <2>1 DEF ApprovedDocuments
  <2>3. CASE status' = "failed"
    BY <2>1, <2>2, <2>3 DEF Allowed, Agreement!Next, Agreement!Stop, Phase, Built
  <2>4. CASE status' \in Built
    BY <2>1, <2>2, <2>4 DEF Allowed, Agreement!agreement, Phase, Built
  <2> QED BY <2>1, <2>3, <2>4
<1>2. CASE IssueFound \/ Reopened \/ Crash \/ Restart
  <2>1. UNCHANGED <<mode, status, doc>>
    BY <1>2 DEF IssueFound, Reopened, Crash, Restart
  <2> QED BY <2>1, Stutters DEF ApprovedDocuments
<1>3. CASE Reopen
  <2>1. /\ mode' = mode
        /\ \/ status = "building" /\ status' = "designing"
           \/ status \in {"designing", "aborted"} /\ status' = status
    BY <1>3, <1>m, Moves DEF Reopen, DesignInv, Agreed, StagesFitStatus
  <2>2. ApprovedDocuments' \subseteq ApprovedDocuments
    BY <1>3 DEF Reopen, DocumentChanged, ApprovedDocuments, DesignInv, TypeOK
  <2>3. CASE status = "building" /\ status' = "designing"
    BY <2>1, <2>2, <2>3 DEF Allowed, Agreement!Next, Agreement!Reconsider, Phase, Built
  <2> QED BY <2>1, <2>2, <2>3, Revises
<1> QED BY <1>1, <1>2, <1>3

\* The phase and its Gate implement what CONTEXT.md promises of Approved Documents:
\* all are agreed when code is built, none changes under it, and whatever changes
\* one leads through the Gate again (AgentDesignPhase, DocumentDesignGate, #reopen).
THEOREM ImplementsAgreement == Spec => KeepsAgreement
<1>1. Init => Agreement!Init
  <2> SUFFICES ASSUME Init PROVE Agreement!Init
    OBVIOUS
  <2>1. ApprovedDocuments = {}
    BY DEF Init, ApprovedDocuments
  <2>2. Phase = "designing"
    BY DEF Init, Phase, Built
  <2>3. (mode = "gated") \in BOOLEAN
    OBVIOUS
  <2> QED BY <2>1, <2>2, <2>3 DEF Agreement!Init
<1>2. DesignInv /\ [Next]_vars => Allowed
  <2>1. ASSUME UNCHANGED vars PROVE Allowed
    BY <2>1, Stutters DEF vars, run, ApprovedDocuments
  <2>2. ASSUME DesignInv, Next PROVE Allowed
    BY <2>2, DesignsAllowed, PersonAllowed, OthersAllowed DEF Next
  <2> QED BY <2>1, <2>2
<1> QED BY <1>1, <1>2, DesignInductive, PTL DEF Spec, KeepsAgreement, Agreement!Spec, Allowed
=============================================================================
