-------------------------- MODULE DesignReworkProofs --------------------------
(***************************************************************************)
(* Proofs about DesignPhase, for every bound: unless a process died inside *)
(* a synchronous stretch, what was asked of a document is kept until its   *)
(* author reworked it, the documents that code is built on fit each other, *)
(* the Design Gate asks about something and the phase never throws.        *)
(***************************************************************************)
EXTENDS DesignPhaseProofs

\* The documents a list names.
Left(list) == {list[i] : i \in DOMAIN list}

\* What the stretch still reopens.
Pending == IF at = "reopen" THEN Left(todo) ELSE {}

\* The revisions the Run comes back with, or has.
Owed == IF loop = "down" THEN saved ELSE revisions

Written(k) == doc[k] \in {"drafting", "approved"}

-----------------------------------------------------------------------------
\* Wherever a process died.

\* Which stretch an agent's answer, or a list of documents to reopen, leads to.
PlacesFit ==
    /\ loop \in {"design", "designUi"} => at \in {"free", "save"}
    /\ loop = "down" => at = "free"
    /\ at = "save" => \/ loop = "design" /\ Left(todo) \subseteq SystemKind
                      \/ loop = "designUi" /\ Left(todo) \subseteq UiKind
    /\ at = "reopen" => loop = "off" /\ (status = "building" => todo # <<>>)

\* A document is in review only at the Gate, or when the Run was aborted there.
ReviewFits ==
    (\E k \in DocumentKind : doc[k] = "inReview")
      => /\ status \in {"awaitingDesignGate", "aborted"}
         /\ loop \notin {"design", "designUi"} /\ at \notin {"save", "open"}

\* What an agent saved, or was not asked for, is there and not sent back.
WritingFits ==
    /\ loop = "design" /\ at = "save" => \A k \in SystemKind \ Left(todo) : Written(k)
    /\ loop = "designUi" => \A k \in SystemKind : Written(k)
    /\ loop = "designUi" /\ at = "save" => \A k \in UiKind \ Left(todo) : Written(k)
    /\ at = "open" => \A k \in DocumentKind : Written(k)

-----------------------------------------------------------------------------
\* As long as no process died inside a stretch.

\* Between stretches the Checkpoint holds the revisions; none is owed once the Gate
\* is open; what was asked is a revision that is owed, or about to be.
RevisionsFit ==
    /\ at \in {"free", "save", "open"} /\ loop # "down" => saved = revisions
    /\ status \in Built \cup {"awaitingDesignGate"} => Owed = {}
    /\ asked \subseteq Owed \cup Pending

\* What was asked of the documents an agent was through with, it has done.
AskedFits ==
    /\ loop = "design" /\ at = "save" => asked \cap SystemKind \subseteq Left(todo)
    /\ loop = "designUi" => asked \cap SystemKind = {}
    /\ loop = "designUi" /\ at = "save" => asked \cap UiKind \subseteq Left(todo)
    /\ at = "open" => asked = {}

\* Whatever sends a Run back to designing leaves a document of the UI to be redone.
UiIsRedone ==
    status = "designing" =>
        \/ \E k \in UiKind : doc[k] \in Redone
        \/ at = "reopen" /\ todo # <<>> /\ \A k \in DocumentKind : doc[k] = "approved"

\* The UI is drawn from the System Design as it is, once its spec was saved.
DrawnFits ==
    /\ loop = "designUi" /\ at = "save" => drawn \/ "uiSpec" \in Left(todo)
    /\ at = "open" /\ status = "designing" => drawn
    /\ status \in Built \cup {"awaitingDesignGate"} => drawn

\* The Slices follow the plan, but while the plan's design is saved.
SlicedFits == sliced \/ (loop = "design" /\ at = "save") \/ doc["slicePlan"] = "absent"

\* A System Design can be read back, but while it is saved; the Gate asks.
PhaseGoesOn ==
    /\ ReadsBack \/ (loop = "design" /\ at = "save")
    /\ GateAsksUnlessTorn
    /\ loop # "threw"

Whole == RevisionsFit /\ AskedFits /\ UiIsRedone /\ DrawnFits /\ SlicedFits /\ PhaseGoesOn

Fits == PlacesFit /\ ReviewFits /\ WritingFits

ReworkInv == DesignInv /\ Fits /\ (torn \/ Whole)

-----------------------------------------------------------------------------
\* A list of documents names its first and those of the rest.
LEMMA LeftSplits ==
    ASSUME NEW list \in Seq(DocumentKind)
    PROVE  /\ Left(list) \subseteq DocumentKind
           /\ list # <<>> => Left(list) = {Head(list)} \cup Left(Tail(list))
           /\ list = <<>> => Left(list) = {}
<1>1. Left(list) \subseteq DocumentKind
  BY DEF Left
<1>2. ASSUME list # <<>> PROVE Left(list) = {Head(list)} \cup Left(Tail(list))
  <2>1. /\ DOMAIN list = 1..Len(list) /\ Len(list) \in Nat \ {0} /\ Head(list) = list[1]
        /\ DOMAIN Tail(list) = 1..(Len(list) - 1)
        /\ \A i \in 1..(Len(list) - 1) : Tail(list)[i] = list[i + 1]
    BY <1>2
  <2>2. ASSUME NEW i \in 1..Len(list) PROVE list[i] \in {Head(list)} \cup Left(Tail(list))
    <3>1. CASE i = 1
      BY <2>1, <3>1
    <3>2. CASE i # 1
      <4>1. i - 1 \in 1..(Len(list) - 1) /\ list[i] = Tail(list)[i - 1]
        BY <2>1, <3>2
      <4> QED BY <2>1, <4>1 DEF Left
    <3> QED BY <3>1, <3>2
  <2>3. ASSUME NEW i \in 1..(Len(list) - 1) PROVE Tail(list)[i] \in Left(list)
    <3>1. i + 1 \in 1..Len(list) /\ Tail(list)[i] = list[i + 1]
      BY <2>1
    <3> QED BY <2>1, <3>1 DEF Left
  <2>4. Head(list) \in Left(list)
    BY <2>1 DEF Left
  <2>5. Left(list) \subseteq {Head(list)} \cup Left(Tail(list))
    BY <2>1, <2>2 DEF Left
  <2>6. Left(Tail(list)) \subseteq Left(list)
    BY <2>1, <2>3 DEF Left
  <2> QED BY <2>4, <2>5, <2>6
<1>3. list = <<>> => Left(list) = {}
  BY DEF Left
<1> QED BY <1>1, <1>2, <1>3

\* #save goes through all the documents of an agent.
LEMMA Orders == Left(SystemOrder) = SystemKind /\ Left(UiOrder) = UiKind
<1>1. DOMAIN SystemOrder = {1, 2, 3} /\ DOMAIN UiOrder = {1, 2}
  BY DEF SystemOrder, UiOrder
<1>2. /\ SystemOrder[1] = "systemDesign" /\ SystemOrder[2] = "slicePlan"
      /\ SystemOrder[3] = "apiContract"
      /\ UiOrder[1] = "uiSpec" /\ UiOrder[2] = "penpotDesign"
  BY DEF SystemOrder, UiOrder
<1> QED BY <1>1, <1>2 DEF Left, SystemKind, UiKind

LEMMA Kinds ==
    /\ DocumentKind = SystemKind \cup UiKind /\ SystemKind \cap UiKind = {}
    /\ {"systemDesign", "slicePlan", "apiContract"} = SystemKind
    /\ {"uiSpec", "penpotDesign"} = UiKind
BY DEF DocumentKind, SystemKind, UiKind

\* A change to a System Design makes the UI Stale that was judged, or waits to be;
\* it touches nothing else.
LEMMA MadeStale ==
    ASSUME NEW kinds \in SUBSET DocumentKind, NEW statuses
    PROVE  /\ StaleAfter(kinds, statuses) \subseteq UiKind
           /\ \A k \in StaleAfter(kinds, statuses) : statuses[k] \in {"approved", "inReview"}
           /\ \A k \in UiKind : kinds \cap SystemKind # {} /\ statuses[k] = "approved"
                                  => k \in StaleAfter(kinds, statuses)
<1>1. \A kind \in DocumentKind : \A k \in DocumentsMadeStale(kind, statuses) :
        k \in UiKind /\ statuses[k] \in {"approved", "inReview"}
  BY DEF DocumentsMadeStale, Downstream, DocumentArrow
<1>2. \A kind \in SystemKind : \A k \in UiKind :
        statuses[k] = "approved" => k \in DocumentsMadeStale(kind, statuses)
  <2> SUFFICES ASSUME NEW kind \in SystemKind, NEW k \in UiKind, statuses[k] = "approved"
               PROVE  k \in DocumentsMadeStale(kind, statuses)
    OBVIOUS
  <2>1. <<statuses[k], "upstreamChanged", "stale">> \in DocumentArrow
    BY DEF DocumentArrow
  <2> QED BY <2>1 DEF DocumentsMadeStale, Downstream, DocumentStatus
<1> QED BY <1>1, <1>2 DEF StaleAfter

-----------------------------------------------------------------------------
\* Saves keeps where stretches lead, and what was written.
LEMMA SavesFit == DesignInv /\ Fits /\ Saves => Fits'
<1> SUFFICES ASSUME DesignInv, Fits, Saves PROVE Fits'
  OBVIOUS
<1>t. todo \in Seq(DocumentKind) /\ doc \in [DocumentKind -> DocumentStatus \cup {"absent"}]
  BY DEF DesignInv, TypeOK
<1>l. /\ todo # <<>> => Left(todo) = {Head(todo)} \cup Left(Tail(todo)) /\ Head(todo) \in DocumentKind
      /\ todo = <<>> => Left(todo) = {}
  BY <1>t, LeftSplits
<1> USE Kinds DEF Fits, PlacesFit, ReviewFits, WritingFits, Written, run, texts, ghosts, process
<1>1. CASE SaveSame
  <2>1. /\ UNCHANGED <<status, loop, at, doc>> /\ at = "save" /\ todo # <<>> /\ todo' = Tail(todo)
        /\ Written(Head(todo))
    BY <1>1 DEF SaveSame, Reworked
  <2>2. Left(todo)' = Left(Tail(todo))
    BY <2>1 DEF Left
  <2> QED BY <1>l, <2>1, <2>2
<1>2. CASE ToDrafting
  <2>1. /\ UNCHANGED <<status, loop, at, todo>> /\ at = "save" /\ todo # <<>>
        /\ doc' = [doc EXCEPT ![Head(todo)] = "drafting"]
    BY <1>2 DEF ToDrafting
  <2>2. \A k \in DocumentKind : doc'[k] = IF k = Head(todo) THEN "drafting" ELSE doc[k]
    BY <1>t, <2>1
  <2>3. Left(todo)' = Left(todo)
    BY <2>1 DEF Left
  <2> QED BY <1>l, <2>1, <2>2, <2>3
<1>3. CASE SaveText
  <2>1. /\ UNCHANGED status /\ at = "save" /\ todo # <<>> /\ doc[Head(todo)] # "inReview"
    BY <1>l, <1>3 DEF SaveText
  <2>2. /\ UNCHANGED <<loop, at>> /\ todo' = Tail(todo) /\ doc[Head(todo)] \in Editable
        /\ doc' = [doc EXCEPT ![Head(todo)] = IF @ = "absent" THEN "drafting" ELSE @]
    BY <1>3, <2>1 DEF SaveText
  <2>3. \A k \in DocumentKind : doc'[k] = IF k = Head(todo) THEN "drafting" ELSE doc[k]
    BY <1>t, <2>2 DEF Editable
  <2>4. Left(todo)' = Left(Tail(todo))
    BY <2>2 DEF Left
  <2> QED BY <1>l, <2>1, <2>2, <2>3, <2>4
<1>4. CASE PlanSlices
  <2>1. UNCHANGED <<status, doc, todo>> /\ at = "save" /\ loop = "design" /\ todo = <<>>
    BY <1>4 DEF PlanSlices
  <2>2. \/ loop' = "designUi" /\ at' = "free"
        \/ loop' = "off" /\ at' = "open" /\ ~Needs(UiKind)
    BY <1>4 DEF PlanSlices
  <2>3. \A k \in SystemKind : Written(k)
    BY <1>l, <2>1
  <2>4. ~Needs(UiKind) => \A k \in UiKind : Written(k)
    BY <1>t, <2>1 DEF Needs, Redone, DocumentStatus
  <2> QED BY <2>1, <2>2, <2>3, <2>4
<1>5. CASE UiSaved
  <2>1. UNCHANGED <<status, doc, todo>> /\ at = "save" /\ loop = "designUi" /\ todo = <<>>
        /\ loop' = "off" /\ at' = "open"
    BY <1>5 DEF UiSaved
  <2>2. \A k \in DocumentKind : Written(k)
    BY <1>l, <2>1
  <2> QED BY <2>1, <2>2
<1> QED BY <1>1, <1>2, <1>3, <1>4, <1>5 DEF Saves

\* Designing keeps where stretches lead, and what was written.
LEMMA DesignsFit == DesignInv /\ Fits /\ Designs => Fits'
<1> SUFFICES ASSUME DesignInv, Fits, Designs PROVE Fits'
  OBVIOUS
<1>m. mode \in RunMode
  BY ConstantsAssumption DEF DesignInv, TypeOK
<1>t. todo \in Seq(DocumentKind) /\ doc \in [DocumentKind -> DocumentStatus \cup {"absent"}]
  BY DEF DesignInv, TypeOK
<1>s. StagesFitStatus
  BY DEF DesignInv, Agreed
<1> USE Kinds DEF Fits, PlacesFit, ReviewFits, WritingFits, Written, run, texts, ghosts, process
<1>1. CASE StartDesign
  <2>1. UNCHANGED <<status, doc, todo>> /\ status = "designing" /\ loop = "off" /\ at = "free"
    BY <1>1 DEF StartDesign, Free
  <2>2. \A k \in DocumentKind : doc[k] # "inReview"
    BY <2>1
  <2>3. \/ loop' \in {"design", "threw"} /\ at' = "free"
        \/ loop' = "designUi" /\ at' = "free" /\ ~Needs(SystemKind)
        \/ loop' = "off" /\ at' = "open" /\ ~Needs(SystemKind) /\ ~Needs(UiKind)
    BY <1>1 DEF StartDesign
  <2>4. /\ ~Needs(SystemKind) => \A k \in SystemKind : Written(k)
        /\ ~Needs(UiKind) => \A k \in UiKind : Written(k)
    BY <1>t, <2>2 DEF Needs, Redone, DocumentStatus
  <2> QED BY <2>1, <2>2, <2>3, <2>4
<1>2. CASE AgentAnswers
  <2>1. /\ UNCHANGED <<status, doc, loop>> /\ loop \in {"design", "designUi"} /\ at' = "save"
        /\ todo' = IF loop = "design" THEN SystemOrder ELSE UiOrder
    BY <1>2 DEF AgentAnswers
  <2>2. Left(todo)' = IF loop = "design" THEN SystemKind ELSE UiKind
    BY <2>1, Orders DEF Left
  <2> QED BY <2>1, <2>2
<1>3. CASE DesignFails \/ AgentStops
  <2>1. UNCHANGED <<doc, at>> /\ at = "free" /\ loop \in {"design", "designUi"} /\ loop' = "off"
    BY <1>3 DEF DesignFails, AgentStops
  <2> QED BY <2>1
<1>4. CASE Saves
  BY <1>4, SavesFit
<1>5. CASE OpenGate
  <2>1. at = "open" /\ status = "designing" /\ loop = "off"
    BY <1>5, <1>s DEF OpenGate, StagesFitStatus
  <2>2. CanOpen
    BY <2>1 DEF CanOpen
  <2>3. /\ status' = IF mode = "gated" THEN "awaitingDesignGate" ELSE "building"
        /\ at' = "checkpoint" /\ loop' = loop
        /\ doc' = [k \in DocumentKind |-> AsFinished(k)]
    BY <1>5, <2>2, <1>m, Moves DEF OpenGate
  <2>4. mode = "auto" => \A k \in DocumentKind : doc'[k] # "inReview"
    BY <2>3 DEF AsFinished
  <2> QED BY <1>m, <2>1, <2>3, <2>4 DEF RunMode
<1>6. CASE OpenGateTooLate \/ Checkpoint
  <2>1. UNCHANGED <<status, doc, loop, todo>> /\ at \in {"open", "checkpoint"} /\ at' = "free"
    BY <1>6 DEF OpenGateTooLate, Checkpoint
  <2> QED BY <2>1
<1> QED BY <1>1, <1>2, <1>3, <1>4, <1>5, <1>6 DEF Designs

\* A person's decisions keep where stretches lead, and what was written.
LEMMA PersonFits == DesignInv /\ Fits /\ Person => Fits'
<1> SUFFICES ASSUME DesignInv, Fits, Person PROVE Fits'
  OBVIOUS
<1>m. mode \in RunMode
  BY ConstantsAssumption DEF DesignInv, TypeOK
<1>s. StagesFitStatus /\ DocumentsFitStatus
  BY DEF DesignInv, Agreed
<1> USE Kinds DEF Fits, PlacesFit, ReviewFits, WritingFits, Written, run, texts, ghosts, process
<1>1. CASE DecideDesign
  <2>1. PICK changed \in SUBSET InReview :
          LET verdicts == [k \in DocumentKind |->
                             IF k \in changed THEN "changesRequested"
                             ELSE IF k \in InReview THEN "approved" ELSE doc[k]]
              stale == StaleAfter(changed, verdicts)
          IN  doc' = [k \in DocumentKind |-> IF k \in stale THEN "stale" ELSE verdicts[k]]
    BY <1>1 DEF DecideDesign
  <2>2. \A k \in DocumentKind : doc'[k] # "inReview"
    BY <2>1 DEF InReview
  <2>3. status = "awaitingDesignGate" /\ at' = "checkpoint" /\ loop' = loop /\ loop # "down"
    BY <1>1, Verdicts DEF DecideDesign
  <2> QED BY <1>s, <2>2, <2>3 DEF StagesFitStatus
<1>2. CASE RetryDesign
  BY <1>2 DEF RetryDesign, Left
<1>3. CASE EditDocuments
  <2>1. /\ status = "escalated" /\ status' = "designing" /\ UNCHANGED <<doc, loop>>
        /\ at' = "reopen" /\ loop = "off"
    BY <1>3, <1>m, Moves DEF EditDocuments, Free
  <2> QED BY <2>1
<1>4. CASE Abort
  <2>1. /\ at = "free" /\ status' = "aborted" /\ UNCHANGED <<doc, loop, at, todo>>
    BY <1>4, <1>m, Moves DEF Abort
  <2> QED BY <2>1
<1> QED BY <1>1, <1>2, <1>3, <1>4 DEF Person

\* The steps outside the Design Phase keep where stretches lead, and what was written.
LEMMA OthersFit ==
    DesignInv /\ Fits /\ (Builds \/ IssueFound \/ Reopen \/ Reopened \/ Crash \/ Restart) => Fits'
<1> SUFFICES ASSUME DesignInv, Fits, Builds \/ IssueFound \/ Reopen \/ Reopened \/ Crash \/ Restart
             PROVE Fits'
  OBVIOUS
<1>m. mode \in RunMode
  BY ConstantsAssumption DEF DesignInv, TypeOK
<1>t. todo \in Seq(DocumentKind) /\ doc \in [DocumentKind -> DocumentStatus \cup {"absent"}]
  BY DEF DesignInv, TypeOK
<1>s. StagesFitStatus /\ DocumentsFitStatus
  BY DEF DesignInv, Agreed
<1> USE Kinds DEF Fits, PlacesFit, ReviewFits, WritingFits, Written, run, texts, ghosts, process
<1>1. CASE Builds
  <2>1. /\ at = "free" /\ loop = "off" /\ UNCHANGED <<doc, loop, at, todo>>
        /\ status \in Built
    BY <1>1, <1>m, Moves DEF Builds, Free, Built
  <2>2. \A k \in DocumentKind : doc[k] = "approved"
    BY <1>s, <2>1 DEF DocumentsFitStatus
  <2> QED BY <2>1, <2>2
<1>2. CASE IssueFound
  <2>1. /\ loop = "off" /\ at = "free" /\ at' = "reopen" /\ UNCHANGED <<status, doc, loop>>
    BY <1>2 DEF IssueFound, Free
  <2>2. todo' # <<>>
    BY <1>2 DEF IssueFound, RevisedDocuments
  <2> QED BY <2>1, <2>2
<1>3. CASE Reopen
  <2>1. /\ at = "reopen" /\ loop = "off" /\ UNCHANGED <<at, loop>>
        /\ status' = IF status = "building" THEN "designing" ELSE status
    BY <1>3, <1>m, Moves DEF Reopen
  <2>2. \A k \in DocumentKind : doc'[k] = "inReview" => doc[k] = "inReview"
    BY <1>3, <1>t DEF Reopen, DocumentChanged
  <2> QED BY <2>1, <2>2
<1>4. CASE Reopened
  BY <1>4 DEF Reopened
<1>5. CASE Crash
  BY <1>5 DEF Crash
<1>6. CASE Restart
  BY <1>6 DEF Restart
<1> QED BY <1>1, <1>2, <1>3, <1>4, <1>5, <1>6

-----------------------------------------------------------------------------
\* A Run in one piece: no process of its died inside a stretch.
InOnePiece == DesignInv /\ Fits /\ ~torn /\ Whole

\* Saving a document is doing what was asked of it, and leaves the UI to be redone
\* until its spec is saved.
LEMMA SavesWhole == InOnePiece /\ Saves => Whole'
<1> SUFFICES ASSUME InOnePiece, Saves PROVE Whole'
  OBVIOUS
<1>t. /\ todo \in Seq(DocumentKind) /\ doc \in [DocumentKind -> DocumentStatus \cup {"absent"}]
      /\ asked \in SUBSET DocumentKind
  BY DEF InOnePiece, DesignInv, TypeOK
<1>l. /\ todo # <<>> => Left(todo) = {Head(todo)} \cup Left(Tail(todo)) /\ Head(todo) \in DocumentKind
      /\ todo = <<>> => Left(todo) = {}
  BY <1>t, LeftSplits
<1>s. at = "save" => status \in {"designing", "aborted"}
  BY DEF InOnePiece, DesignInv, Agreed, StagesFitStatus
<1> USE Kinds DEF InOnePiece, Fits, PlacesFit, WritingFits, Whole, RevisionsFit, AskedFits,
                  UiIsRedone, DrawnFits, SlicedFits, PhaseGoesOn, GateAsksUnlessTorn, ReadsBack,
                  Owed, Pending, Built, run, texts, ghosts, process
<1>1. CASE SaveSame
  <2>1. /\ UNCHANGED <<status, doc, gate, saved, revisions, loop, at, sliced, torn>>
        /\ at = "save" /\ todo # <<>> /\ todo' = Tail(todo) /\ asked' = asked \ {Head(todo)}
        /\ drawn' = IF Head(todo) = "uiSpec" THEN TRUE ELSE drawn
    BY <1>1 DEF SaveSame, Reworked
  <2>2. Left(todo)' = Left(Tail(todo))
    BY <2>1 DEF Left
  <2>3. RevisionsFit' /\ AskedFits'
    BY <1>l, <1>s, <2>1, <2>2
  <2>4. UiIsRedone' /\ SlicedFits' /\ PhaseGoesOn'
    BY <1>s, <2>1 DEF InReview
  <2>5. DrawnFits'
    BY <1>l, <1>s, <2>1, <2>2
  <2> QED BY <2>3, <2>4, <2>5
<1>2. CASE ToDrafting
  <2>1. /\ UNCHANGED <<status, gate, saved, revisions, loop, at, todo, asked, drawn, sliced, torn>>
        /\ at = "save" /\ todo # <<>> /\ doc[Head(todo)] # "absent"
        /\ doc' = [doc EXCEPT ![Head(todo)] = "drafting"]
    BY <1>2 DEF ToDrafting, DocumentArrow
  <2>2. \A k \in DocumentKind : doc'[k] = IF k = Head(todo) THEN "drafting" ELSE doc[k]
    BY <1>t, <2>1
  <2>3. Left(todo)' = Left(todo)
    BY <2>1 DEF Left
  <2>4. UiIsRedone'
    BY <2>1, <2>2 DEF Redone
  <2>5. SlicedFits' /\ PhaseGoesOn'
    BY <1>l, <1>s, <2>1, <2>2
  <2> QED BY <1>s, <2>1, <2>3, <2>4, <2>5
<1>3. CASE SaveText
  <2>1. /\ UNCHANGED <<status, gate, saved, revisions, torn>> /\ at = "save" /\ todo # <<>>
        /\ doc[Head(todo)] # "inReview"
    BY <1>l, <1>3 DEF SaveText, ReviewFits
  <2>2. /\ UNCHANGED <<loop, at>> /\ todo' = Tail(todo) /\ doc[Head(todo)] \in Editable
        /\ doc' = [doc EXCEPT ![Head(todo)] = IF @ = "absent" THEN "drafting" ELSE @]
        /\ asked' = asked \ {Head(todo)}
        /\ drawn' = (Head(todo) = "uiSpec"
                       \/ (drawn /\ Head(todo) \notin {"slicePlan", "apiContract"}))
        /\ sliced' = (sliced /\ Head(todo) # "slicePlan")
    BY <1>3, <2>1 DEF SaveText
  <2>3. \A k \in DocumentKind : doc'[k] = IF k = Head(todo) THEN "drafting" ELSE doc[k]
    BY <1>t, <2>2 DEF Editable
  <2>4. Left(todo)' = Left(Tail(todo))
    BY <2>2 DEF Left
  <2>5. RevisionsFit' /\ AskedFits'
    BY <1>l, <1>s, <2>1, <2>2, <2>4
  <2>6. UiIsRedone'
    BY <2>1, <2>2, <2>3 DEF Redone
  <2>7. DrawnFits'
    BY <1>l, <1>s, <2>1, <2>2, <2>4
  <2>8. SlicedFits' /\ PhaseGoesOn'
    BY <1>l, <1>s, <2>1, <2>2, <2>3
  <2> QED BY <2>5, <2>6, <2>7, <2>8
<1>4. CASE PlanSlices
  <2>1. /\ UNCHANGED <<status, doc, gate, saved, revisions, todo, drawn, asked, torn>>
        /\ at = "save" /\ loop = "design" /\ todo = <<>> /\ sliced'
    BY <1>4 DEF PlanSlices
  <2>2. \/ loop' = "designUi" /\ at' = "free"
        \/ loop' = "off" /\ at' = "open" /\ ~Needs(UiKind)
    BY <1>4 DEF PlanSlices
  <2>3. asked \cap SystemKind = {} /\ asked \subseteq revisions
    BY <1>l, <2>1
  <2>4. ~Needs(UiKind) => asked = {} /\ status # "designing"
    BY <1>t, <2>1, <2>3 DEF Needs
  <2>5. \A k \in SystemKind : doc[k] # "absent"
    BY <1>l, <2>1 DEF Written
  <2>6. RevisionsFit' /\ AskedFits' /\ UiIsRedone'
    BY <1>s, <2>1, <2>2, <2>3, <2>4
  <2>7. DrawnFits' /\ SlicedFits'
    BY <1>s, <2>1, <2>2, <2>4
  <2>8. PhaseGoesOn'
    BY <1>s, <2>1, <2>2, <2>5
  <2> QED BY <2>6, <2>7, <2>8
<1>5. CASE UiSaved
  <2>1. /\ UNCHANGED <<status, doc, gate, saved, revisions, todo, drawn, sliced, asked, torn>>
        /\ at = "save" /\ loop = "designUi" /\ todo = <<>> /\ loop' = "off" /\ at' = "open"
    BY <1>5 DEF UiSaved
  <2>2. asked = {} /\ drawn
    BY <1>l, <1>t, <2>1
  <2> QED BY <1>s, <2>1, <2>2
<1> QED BY <1>1, <1>2, <1>3, <1>4, <1>5 DEF Saves

\* Designing does what was asked before the Gate opens.
LEMMA DesignsWhole == InOnePiece /\ Designs => Whole'
<1> SUFFICES ASSUME InOnePiece, Designs PROVE Whole'
  OBVIOUS
<1>m. mode \in RunMode
  BY ConstantsAssumption DEF InOnePiece, DesignInv, TypeOK
<1>t. /\ todo \in Seq(DocumentKind) /\ doc \in [DocumentKind -> DocumentStatus \cup {"absent"}]
      /\ asked \in SUBSET DocumentKind
  BY DEF InOnePiece, DesignInv, TypeOK
<1>s. StagesFitStatus
  BY DEF InOnePiece, DesignInv, Agreed
<1> USE Kinds DEF InOnePiece, Fits, PlacesFit, WritingFits, Whole, RevisionsFit, AskedFits,
                  UiIsRedone, DrawnFits, SlicedFits, PhaseGoesOn, GateAsksUnlessTorn, ReadsBack,
                  Owed, Pending, Built, run, texts, ghosts, process
<1>1. CASE StartDesign
  <2>1. /\ UNCHANGED <<status, doc, gate, saved, revisions, todo, drawn, sliced, asked, torn>>
        /\ status = "designing" /\ loop = "off" /\ at = "free"
    BY <1>1 DEF StartDesign, Free
  <2>2. Needs(UiKind)
    BY <2>1 DEF Needs
  <2>3. \/ loop' = "design" /\ at' = "free"
        \/ loop' = "designUi" /\ at' = "free" /\ ~Needs(SystemKind)
    BY <1>1, <2>1, <2>2 DEF StartDesign
  <2>4. asked \subseteq revisions
    BY <2>1
  <2>5. ~Needs(SystemKind) => asked \cap SystemKind = {} /\ doc["slicePlan"] # "absent"
    BY <2>4 DEF Needs, Redone
  <2> QED BY <2>1, <2>3, <2>5
<1>2. CASE AgentAnswers
  <2>1. /\ UNCHANGED <<status, doc, gate, saved, revisions, loop, drawn, sliced, asked, torn>>
        /\ at = "free" /\ loop \in {"design", "designUi"} /\ at' = "save"
        /\ todo' = IF loop = "design" THEN SystemOrder ELSE UiOrder
    BY <1>2 DEF AgentAnswers
  <2>2. Left(todo)' = IF loop = "design" THEN SystemKind ELSE UiKind
    BY <2>1, Orders DEF Left
  <2>3. RevisionsFit' /\ AskedFits' /\ UiIsRedone'
    BY <1>t, <2>1, <2>2
  <2>4. DrawnFits' /\ SlicedFits' /\ PhaseGoesOn'
    BY <2>1, <2>2 DEF InReview
  <2> QED BY <2>3, <2>4
<1>3. CASE DesignFails \/ AgentStops
  <2>1. /\ UNCHANGED <<doc, gate, saved, revisions, todo, drawn, sliced, asked, at, torn>>
        /\ at = "free" /\ loop \in {"design", "designUi"} /\ loop' = "off"
    BY <1>3 DEF DesignFails, AgentStops
  <2>2. status' \in {status, "failed"}
    BY <1>3, <1>m, Moves DEF DesignFails, AgentStops
  <2>3. RevisionsFit' /\ AskedFits' /\ UiIsRedone'
    BY <2>1, <2>2
  <2>4. DrawnFits' /\ SlicedFits' /\ PhaseGoesOn'
    BY <2>1, <2>2 DEF InReview
  <2> QED BY <2>3, <2>4
<1>4. CASE Saves
  BY <1>4, SavesWhole
<1>5. CASE OpenGate
  <2>1. at = "open" /\ status = "designing" /\ loop = "off"
    BY <1>5, <1>s DEF OpenGate, StagesFitStatus
  <2>2. CanOpen
    BY <2>1 DEF CanOpen, Written
  <2>3. /\ status' = IF mode = "gated" THEN "awaitingDesignGate" ELSE "building"
        /\ gate' = (mode = "gated") /\ revisions' = {} /\ at' = "checkpoint" /\ loop' = loop
        /\ doc' = [k \in DocumentKind |-> AsFinished(k)]
        /\ UNCHANGED <<saved, drawn, sliced, asked, torn>>
    BY <1>5, <2>2, <1>m, Moves DEF OpenGate
  <2>4. asked = {} /\ drawn /\ doc["slicePlan"] # "absent"
    BY <2>1 DEF Written
  <2>5. \A k \in DocumentKind : doc'[k] # "absent"
    BY <2>1, <2>3 DEF AsFinished, Written
  <2>6. PICK k \in UiKind : doc[k] \in Redone
    BY <2>1
  <2>7. mode = "gated" => InReview' # {}
    <3>1. doc[k] = "drafting"
      BY <2>1, <2>6 DEF Written, Redone
    <3>2. mode = "gated" => doc'[k] = "inReview"
      BY <2>3, <3>1 DEF AsFinished
    <3> QED BY <3>2 DEF InReview
  <2>8. RevisionsFit' /\ AskedFits' /\ UiIsRedone'
    BY <2>1, <2>3, <2>4
  <2>9. DrawnFits' /\ SlicedFits'
    BY <2>1, <2>3, <2>4
  <2>10. PhaseGoesOn'
    BY <1>m, <2>1, <2>3, <2>5, <2>7 DEF RunMode
  <2> QED BY <2>8, <2>9, <2>10
<1>6. CASE OpenGateTooLate
  <2>1. /\ UNCHANGED <<status, doc, gate, saved, revisions, loop, todo, drawn, sliced, asked, torn>>
        /\ at = "open" /\ loop = "off" /\ at' = "free"
    BY <1>6, <1>s DEF OpenGateTooLate, StagesFitStatus
  <2> QED BY <2>1 DEF InReview
<1>7. CASE Checkpoint
  <2>1. /\ UNCHANGED <<status, doc, gate, revisions, loop, todo, drawn, sliced, asked, torn>>
        /\ at = "checkpoint" /\ loop \notin {"down", "design", "designUi"}
        /\ at' = "free" /\ saved' = revisions
    BY <1>7 DEF Checkpoint
  <2> QED BY <2>1 DEF InReview
<1> QED BY <1>1, <1>2, <1>3, <1>4, <1>5, <1>6, <1>7 DEF Designs

\* A person's decisions: comments become revisions, and the UI is redone after them.
LEMMA PersonWhole == InOnePiece /\ Person => Whole'
<1> SUFFICES ASSUME InOnePiece, Person PROVE Whole'
  OBVIOUS
<1>m. mode \in RunMode
  BY ConstantsAssumption DEF InOnePiece, DesignInv, TypeOK
<1>t. /\ todo \in Seq(DocumentKind) /\ doc \in [DocumentKind -> DocumentStatus \cup {"absent"}]
      /\ asked \in SUBSET DocumentKind
  BY DEF InOnePiece, DesignInv, TypeOK
<1>s. StagesFitStatus /\ DocumentsFitStatus
  BY DEF InOnePiece, DesignInv, Agreed
<1> USE Kinds DEF InOnePiece, Fits, PlacesFit, WritingFits, Whole, RevisionsFit, AskedFits,
                  UiIsRedone, DrawnFits, SlicedFits, PhaseGoesOn, GateAsksUnlessTorn, ReadsBack,
                  Owed, Pending, Built, run, texts, ghosts, process
<1>1. CASE DecideDesign
  <2>1. PICK changed \in SUBSET InReview :
          LET verdicts == [k \in DocumentKind |->
                             IF k \in changed THEN "changesRequested"
                             ELSE IF k \in InReview THEN "approved" ELSE doc[k]]
              stale == StaleAfter(changed, verdicts)
          IN  /\ IF changed = {} THEN Move("designApproved") ELSE Move("designChangesRequested")
              /\ doc' = [k \in DocumentKind |-> IF k \in stale THEN "stale" ELSE verdicts[k]]
              /\ revisions' = revisions \cup changed \cup stale
              /\ asked' = asked \cup changed
    BY <1>1 DEF DecideDesign
  <2> DEFINE verdicts == [k \in DocumentKind |->
                            IF k \in changed THEN "changesRequested"
                            ELSE IF k \in InReview THEN "approved" ELSE doc[k]]
             stale == StaleAfter(changed, verdicts)
  <2>2. /\ status = "awaitingDesignGate"
        /\ status' = IF changed = {} THEN "building" ELSE "designing"
    BY <1>m, <2>1, Moves
  <2>3. /\ UNCHANGED <<saved, loop, todo, drawn, sliced, torn>> /\ at = "free" /\ loop # "down"
        /\ at' = "checkpoint" /\ loop \notin {"design", "designUi"}
    BY <1>1, <1>s, <2>2 DEF DecideDesign, StagesFitStatus
  <2>4. /\ doc' = [k \in DocumentKind |-> IF k \in stale THEN "stale" ELSE verdicts[k]]
        /\ revisions' = revisions \cup changed \cup stale /\ asked' = asked \cup changed
    BY <2>1
  <2>5. \A k \in DocumentKind : doc[k] \in {"inReview", "approved"}
    BY <1>s, <2>2 DEF DocumentsFitStatus
  <2>6. changed = {} => stale = {}
    BY DEF StaleAfter
  <2>7. ASSUME changed # {} PROVE \E k \in UiKind : doc'[k] \in Redone
    <3>1. PICK c \in changed : c \in DocumentKind
      BY <2>7 DEF InReview
    <3>2. CASE c \in UiKind
      <4>1. doc'[c] \in {"stale", "changesRequested"}
        BY <2>4, <3>1, <3>2
      <4> QED BY <3>2, <4>1 DEF Redone
    <3>3. CASE c \in SystemKind
      <4>1. "uiSpec" \in UiKind /\ verdicts["uiSpec"] \in {"changesRequested", "approved"}
        BY <2>5 DEF InReview
      <4>2. verdicts["uiSpec"] = "approved" => "uiSpec" \in stale
        <5>1. changed \in SUBSET DocumentKind /\ changed \cap SystemKind # {}
          BY <3>1, <3>3 DEF InReview
        <5> QED BY <4>1, <5>1, MadeStale
      <4>3. doc'["uiSpec"] \in {"stale", "changesRequested"}
        BY <2>4, <4>1, <4>2
      <4> QED BY <4>1, <4>3 DEF Redone
    <3> QED BY <3>1, <3>2, <3>3
  <2>8. RevisionsFit'
    BY <2>2, <2>3, <2>4, <2>6
  <2>9. AskedFits' /\ UiIsRedone'
    BY <2>2, <2>3, <2>7
  <2>10. \A k \in DocumentKind : doc'[k] # "absent"
    BY <2>4, <2>5
  <2>11. DrawnFits' /\ SlicedFits' /\ PhaseGoesOn'
    BY <2>2, <2>3, <2>5, <2>10
  <2> QED BY <2>8, <2>9, <2>11
<1>2. CASE RetryDesign
  BY <1>2 DEF RetryDesign, InReview, Left
<1>3. CASE EditDocuments
  <2>1. /\ status = "escalated" /\ status' = "designing" /\ loop = "off" /\ at = "free"
        /\ at' = "reopen" /\ UNCHANGED <<doc, gate, saved, revisions, loop, drawn, sliced, torn>>
    BY <1>3, <1>m, Moves DEF EditDocuments, Free
  <2>2. PICK list \in Lists(TextKind) :
          todo' = list /\ asked' = asked \cup {list[i] : i \in DOMAIN list}
    BY <1>3 DEF EditDocuments
  <2>3. asked' = asked \cup Left(todo)' /\ todo' # <<>>
    <3>1. list # <<>>
      BY <2>2 DEF Lists
    <3> QED BY <2>2, <3>1 DEF Left
  <2>4. \A k \in DocumentKind : doc[k] = "approved"
    BY <1>s, <2>1 DEF DocumentsFitStatus
  <2>5. RevisionsFit' /\ AskedFits' /\ UiIsRedone'
    BY <2>1, <2>3, <2>4
  <2>6. DrawnFits' /\ SlicedFits' /\ PhaseGoesOn'
    BY <2>1, <2>4
  <2> QED BY <2>5, <2>6
<1>4. CASE Abort
  <2>1. /\ at = "free" /\ status' = "aborted"
        /\ UNCHANGED <<doc, gate, saved, revisions, loop, at, todo, drawn, sliced, asked, torn>>
    BY <1>4, <1>m, Moves DEF Abort
  <2> QED BY <2>1
<1> QED BY <1>1, <1>2, <1>3, <1>4 DEF Person

\* Building, reopening, dying and starting again forget nothing that was asked, unless
\* a process died inside a stretch.
LEMMA OthersWhole ==
    InOnePiece /\ (Builds \/ IssueFound \/ Reopen \/ Reopened \/ Crash \/ Restart)
      => torn' \/ Whole'
<1> SUFFICES ASSUME InOnePiece, Builds \/ IssueFound \/ Reopen \/ Reopened \/ Crash \/ Restart
             PROVE torn' \/ Whole'
  OBVIOUS
<1>m. mode \in RunMode
  BY ConstantsAssumption DEF InOnePiece, DesignInv, TypeOK
<1>t. /\ todo \in Seq(DocumentKind) /\ doc \in [DocumentKind -> DocumentStatus \cup {"absent"}]
      /\ asked \in SUBSET DocumentKind
  BY DEF InOnePiece, DesignInv, TypeOK
<1>l. /\ todo # <<>> => Left(todo) = {Head(todo)} \cup Left(Tail(todo)) /\ Head(todo) \in DocumentKind
      /\ todo = <<>> => Left(todo) = {}
  BY <1>t, LeftSplits
<1>s. StagesFitStatus /\ DocumentsFitStatus
  BY DEF InOnePiece, DesignInv, Agreed
<1> USE Kinds DEF InOnePiece, Fits, PlacesFit, WritingFits, Whole, RevisionsFit, AskedFits,
                  UiIsRedone, DrawnFits, SlicedFits, PhaseGoesOn, GateAsksUnlessTorn, ReadsBack,
                  Owed, Pending, Built, run, texts, ghosts, process
<1>1. CASE Builds
  <2>1. /\ status \in Built /\ status' \in Built \cup {"failed"} /\ loop = "off" /\ at = "free"
        /\ UNCHANGED <<doc, gate, saved, revisions, loop, at, todo, drawn, sliced, asked, torn>>
    BY <1>1, <1>m, Moves DEF Builds, Free
  <2> QED BY <2>1
<1>2. CASE IssueFound
  <2>1. /\ loop = "off" /\ at = "free" /\ at' = "reopen" /\ status \in {"building", "aborted"}
        /\ UNCHANGED <<status, doc, gate, saved, revisions, loop, drawn, sliced, torn>>
    BY <1>2 DEF IssueFound, Free
  <2>2. asked' = asked \cup Left(todo)'
    BY <1>2 DEF IssueFound, Left
  <2> QED BY <2>1, <2>2
<1>3. CASE Reopen
  <2>1. /\ at = "reopen" /\ loop = "off" /\ todo # <<>> /\ todo' = Tail(todo)
        /\ revisions' = revisions \cup {Head(todo)}
        /\ UNCHANGED <<gate, saved, loop, at, drawn, sliced, asked, torn>>
        /\ status \in {"designing", "building", "aborted"}
        /\ status' = IF status = "building" THEN "designing" ELSE status
    BY <1>3, <1>m, <1>s, Moves DEF Reopen, StagesFitStatus
  <2>2. Left(todo)' = Left(Tail(todo))
    BY <2>1 DEF Left
  <2>3. \A k \in DocumentKind : /\ doc'[k] = "absent" <=> doc[k] = "absent"
                                /\ doc[k] \in Redone => doc'[k] \in Redone
    <3>1. CASE doc[Head(todo)] = "approved"
      <4>1. doc' = DocumentChanged(Head(todo)) /\ Head(todo) \in DocumentKind
        BY <1>3, <1>l, <3>1 DEF Reopen
      <4>2. \A k \in StaleAfter({Head(todo)}, doc) : doc[k] \in {"approved", "inReview"}
        BY <4>1, MadeStale
      <4>3. ASSUME NEW k \in DocumentKind
            PROVE  /\ doc'[k] = "absent" <=> doc[k] = "absent"
                   /\ doc[k] \in Redone => doc'[k] \in Redone
        <5>1. CASE k = Head(todo)
          BY <3>1, <4>1, <5>1 DEF DocumentChanged, Redone
        <5>2. CASE k # Head(todo)
          BY <4>1, <4>2, <5>2 DEF DocumentChanged, Redone
        <5> QED BY <5>1, <5>2
      <4> QED BY <4>3
    <3>2. CASE doc[Head(todo)] # "approved"
      BY <1>3, <3>2 DEF Reopen
    <3> QED BY <3>1, <3>2
  <2>4. ASSUME \A k \in DocumentKind : doc[k] = "approved"
        PROVE  \E k \in UiKind : doc'[k] \in Redone
    <3>1. doc' = DocumentChanged(Head(todo))
      BY <1>3, <1>l, <2>1, <2>4 DEF Reopen
    <3>2. CASE Head(todo) \in UiKind
      <4>1. doc'[Head(todo)] = "drafting"
        BY <1>l, <2>1, <3>1 DEF DocumentChanged
      <4> QED BY <3>2, <4>1 DEF Redone
    <3>3. CASE Head(todo) \in SystemKind
      <4>1. "uiSpec" \in StaleAfter({Head(todo)}, doc)
        BY <1>l, <2>1, <2>4, <3>3, MadeStale
      <4>2. doc'["uiSpec"] \in {"drafting", "stale"}
        BY <3>1, <4>1 DEF DocumentChanged
      <4> QED BY <4>2 DEF Redone
    <3> QED BY <1>l, <2>1, <3>2, <3>3
  <2>5. RevisionsFit' /\ AskedFits'
    BY <1>l, <2>1, <2>2
  <2>6. UiIsRedone'
    <3>1. CASE status = "building"
      BY <1>s, <2>4, <3>1 DEF DocumentsFitStatus
    <3>2. CASE status = "designing" /\ \E k \in UiKind : doc[k] \in Redone
      <4>1. \A k \in UiKind : doc[k] \in Redone => doc'[k] \in Redone
        BY <2>3
      <4>2. \E k \in UiKind : doc'[k] \in Redone
        BY <3>2, <4>1
      <4> QED BY <4>2
    <3>3. CASE status = "designing" /\ \A k \in DocumentKind : doc[k] = "approved"
      BY <2>4, <3>3
    <3>4. CASE status = "aborted"
      BY <2>1, <3>4
    <3> QED BY <2>1, <3>1, <3>2, <3>3, <3>4
  <2>7. DrawnFits'
    BY <2>1
  <2>8. SlicedFits'
    <3>1. doc'["slicePlan"] = "absent" <=> doc["slicePlan"] = "absent"
      BY <2>3
    <3> QED BY <2>1, <3>1
  <2>9. ReadsBack'
    <3>1. ReadsBack
      BY <2>1
    <3>2. \A k \in SystemKind : doc'[k] = "absent" <=> doc[k] = "absent"
      BY <2>3
    <3>3. "systemDesign" \in SystemKind
      OBVIOUS
    <3> QED BY <3>1, <3>2, <3>3
  <2>10. PhaseGoesOn'
    BY <2>1, <2>9
  <2> QED BY <2>5, <2>6, <2>7, <2>8, <2>10
<1>4. CASE Reopened
  <2>1. /\ at = "reopen" /\ todo = <<>> /\ loop = "off" /\ at' = "checkpoint"
        /\ UNCHANGED <<status, doc, gate, saved, revisions, loop, todo, drawn, sliced, asked, torn>>
    BY <1>4 DEF Reopened
  <2> QED BY <1>l, <2>1 DEF InReview
<1>5. CASE Crash
  <2>1. /\ UNCHANGED <<status, doc, gate, saved, drawn, sliced, asked>> /\ loop # "down"
        /\ torn' = (torn \/ at # "free") /\ loop' = "down" /\ at' = "free" /\ todo' = <<>>
    BY <1>5 DEF Crash
  <2>2. CASE at = "free"
    BY <2>1, <2>2 DEF InReview
  <2>3. CASE at # "free"
    BY <2>1, <2>3
  <2> QED BY <2>2, <2>3
<1>6. CASE Restart
  <2>1. /\ loop = "down" /\ at = "free" /\ loop' = "off" /\ revisions' = saved
        /\ UNCHANGED <<status, doc, gate, saved, at, todo, drawn, sliced, asked, torn>>
    BY <1>6 DEF Restart
  <2> QED BY <2>1 DEF InReview
<1> QED BY <1>1, <1>2, <1>3, <1>4, <1>5, <1>6

-----------------------------------------------------------------------------
\* The inductive invariant: wherever a process died, a stretch leads where its agent
\* or its list says; and unless one died inside a stretch, what was asked is owed, or
\* about to be, until it is done, and the UI follows the System Design.
THEOREM ReworkInductive == Spec => []ReworkInv
<1>1. Init => Fits /\ Whole
  <2> SUFFICES ASSUME Init PROVE Fits /\ Whole
    OBVIOUS
  <2> USE Kinds DEF Init
  <2>1. Fits
    BY DEF Fits, PlacesFit, ReviewFits, WritingFits
  <2>2. \A k \in DocumentKind : doc[k] = "absent"
    OBVIOUS
  <2>3. RevisionsFit /\ AskedFits /\ UiIsRedone
    BY <2>2 DEF RevisionsFit, AskedFits, UiIsRedone, Redone, Owed, Pending, Built
  <2>4. DrawnFits /\ SlicedFits /\ PhaseGoesOn
    BY <2>2 DEF DrawnFits, SlicedFits, PhaseGoesOn, ReadsBack, GateAsksUnlessTorn, Built
  <2> QED BY <2>1, <2>3, <2>4 DEF Whole
<1>2. DesignInv /\ Fits /\ (torn \/ Whole) /\ [Next]_vars => Fits' /\ (torn' \/ Whole')
  <2> SUFFICES ASSUME DesignInv, Fits, torn \/ Whole, [Next]_vars PROVE Fits' /\ (torn' \/ Whole')
    OBVIOUS
  <2>1. CASE UNCHANGED vars
    BY <2>1 DEF vars, run, texts, ghosts, process, Fits, PlacesFit, ReviewFits, WritingFits, Written,
                Whole, RevisionsFit, AskedFits, UiIsRedone, DrawnFits, SlicedFits, PhaseGoesOn,
                GateAsksUnlessTorn, ReadsBack, InReview, Owed, Pending, Left
  <2>2. CASE Next
    <3>1. Fits'
      BY <2>2, DesignsFit, PersonFits, OthersFit DEF Next
    <3>2. torn => torn'
      <4>1. ASSUME torn, Designs PROVE torn'
        BY <4>1 DEF Designs, Saves, StartDesign, AgentAnswers, DesignFails, AgentStops, SaveSame,
                    ToDrafting, SaveText, PlanSlices, UiSaved, OpenGate, OpenGateTooLate,
                    Checkpoint, ghosts
      <4>2. ASSUME torn, Person PROVE torn'
        BY <4>2 DEF Person, DecideDesign, RetryDesign, EditDocuments, Abort, ghosts
      <4>3. ASSUME torn, Builds \/ IssueFound \/ Reopen \/ Reopened \/ Crash \/ Restart PROVE torn'
        BY <4>3 DEF Builds, IssueFound, Reopen, Reopened, Crash, Restart, ghosts
      <4> QED BY <2>2, <4>1, <4>2, <4>3 DEF Next
    <3>3. ~torn => torn' \/ Whole'
      BY <2>2, DesignsWhole, PersonWhole, OthersWhole DEF Next, InOnePiece
    <3> QED BY <3>1, <3>2, <3>3
  <2> QED BY <2>1, <2>2
<1> QED BY <1>1, <1>2, DesignInductive, PTL DEF Spec, ReworkInv

\* Unless a process died inside a stretch, what was asked of a document was reworked
\* before the build goes on (decide, #reopen, needs).
THEOREM AskedIsReworked == Spec => []NothingAskedIsSkipped
<1>1. ReworkInv => NothingAskedIsSkipped
  BY DEF ReworkInv, Whole, RevisionsFit, Pending, NothingAskedIsSkipped
<1> QED BY <1>1, ReworkInductive, PTL

\* Unless a process died inside a stretch, the comments wait for the agent that
\* revises the document, across restarts (decideDesign, #reopen, #checkpoint).
THEOREM CommentsWait == Spec => []CommentsAreKept
<1>1. ReworkInv => CommentsAreKept
  BY DEF ReworkInv, Whole, RevisionsFit, Pending, Owed, CommentsAreKept
<1> QED BY <1>1, ReworkInductive, PTL

\* Unless a process died inside a stretch, no revision is made again (#design).
THEOREM RevisionsEnd == Spec => []RevisionsAreOwed
<1>1. ReworkInv => RevisionsAreOwed
  BY DEF ReworkInv, Whole, RevisionsFit, Owed, RevisionsAreOwed
<1> QED BY <1>1, ReworkInductive, PTL

\* Unless a process died inside a stretch, code is built on a UI and Slices that
\* follow the System Design, the Gate asks about something and the phase never throws
\* (needs, markUpstreamChanged, #planSlices, #save, open).
THEOREM DesignStaysWhole == Spec => []DesignIsWholeUnlessTorn
<1>1. ReworkInv => DesignIsWholeUnlessTorn
  <2> SUFFICES ASSUME ReworkInv, ~torn PROVE DesignIsWholeUnlessTorn
    BY DEF DesignIsWholeUnlessTorn, HangsTogetherUnlessTorn, GateAsksUnlessTorn, ThrowsOnlyWhenTorn
  <2>1. Whole /\ DesignInv
    BY DEF ReworkInv
  <2>2. status \in Built => drawn /\ sliced
    <3>1. status \in Built => doc["slicePlan"] = "approved" /\ ~(loop = "design" /\ at = "save")
      BY <2>1, Kinds DEF DesignInv, Agreed, DocumentsFitStatus, StagesFitStatus, Built
    <3> QED BY <2>1, <3>1 DEF Whole, DrawnFits, SlicedFits
  <2> QED BY <2>1, <2>2 DEF Whole, PhaseGoesOn, DesignIsWholeUnlessTorn, HangsTogetherUnlessTorn,
                            ThrowsOnlyWhenTorn
<1> QED BY <1>1, ReworkInductive, PTL
=============================================================================
