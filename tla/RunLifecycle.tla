---------------------------- MODULE RunLifecycle ----------------------------
(***************************************************************************)
(* The pure lifecycle functions of packages/core/src/domain: the statuses  *)
(* of a Run, a Document and a Slice, and the arrows between them.  Each     *)
(* function of the code that throws IllegalTransitionError is here a set of *)
(* arrows, and a move that throws is an arrow that is not in the set.       *)
(*                                                                         *)
(* An event that carries data ("limitHit" its trigger, "escalationResolved" *)
(* its choice) is named by that datum: no trigger is also a choice.         *)
(***************************************************************************)

RunMode == {"gated", "auto"}

RunStatus == {"designing", "awaitingDesignGate", "building", "reviewing",
              "awaitingPrGate", "escalated", "done", "failed", "aborted"}

Finished == {"done", "failed", "aborted"}

EscalationTrigger == {"retryBudget", "tokenBudget", "loop", "undecidableOwner"}

\* The limits that can stop a review.
ReviewLimit == {"retryBudget", "tokenBudget"}

EscalationChoice == {"retryWithHint", "editDocuments", "skipSlice", "abort"}

EscalationTarget ==
    [retryWithHint |-> "building", skipSlice |-> "building",
     editDocuments |-> "designing", abort |-> "aborted"]

\* <<from, event, to>>: the Run in `from` may take `event`, and is then in `to`.
RunArrow(mode) ==
    LET gated == mode = "gated"
        PersonOr(waits, goesOn) == IF gated THEN waits ELSE goesOn
        Always ==
          {<<"designing", "documentsReady", PersonOr("awaitingDesignGate", "building")>>,
           <<"building", "issueOwnedByDesignAgent", "designing">>,
           <<"building", "allSlicesCommitted", "reviewing">>,
           <<"reviewing", "blockingFindings", "building">>,
           <<"reviewing", "prOpened", PersonOr("awaitingPrGate", "done")>>,
           <<"reviewing", "nothingToDeliver", "done">>}
        Limits ==
          {<<"building", t, PersonOr("escalated", "failed")>> : t \in EscalationTrigger}
          \cup {<<"reviewing", t, PersonOr("escalated", "failed")>> : t \in ReviewLimit}
        Aborts == {<<s, "aborted", "aborted">> : s \in RunStatus \ (Finished \cup {"escalated"})}
        WithPerson ==
          {<<"awaitingDesignGate", "designChangesRequested", "designing">>,
           <<"awaitingDesignGate", "designApproved", "building">>,
           <<"awaitingPrGate", "prChangesRequested", "building">>,
           <<"awaitingPrGate", "prApproved", "done">>}
          \cup {<<"escalated", c, EscalationTarget[c]>> : c \in EscalationChoice}
        WithNobody == {<<"designing", "designFailed", "failed">>}
    IN  Always \cup Limits \cup Aborts \cup (IF gated THEN WithPerson ELSE WithNobody)

-----------------------------------------------------------------------------

SliceStatus == {"pending", "building", "testing", "passed", "skipped"}

SliceArrow ==
    {<<"pending", "building">>, <<"pending", "skipped">>,
     <<"building", "testing">>, <<"building", "skipped">>,
     <<"testing", "building">>, <<"testing", "passed">>, <<"testing", "skipped">>,
     <<"passed", "building">>}

-----------------------------------------------------------------------------

SystemKind == {"systemDesign", "slicePlan", "apiContract"}

UiKind == {"uiSpec", "penpotDesign"}

DocumentKind == SystemKind \cup UiKind

DocumentStatus == {"drafting", "inReview", "approved", "changesRequested", "stale"}

DocumentArrow ==
    {<<"drafting", "ownerFinished", "inReview">>,
     <<"inReview", "approved", "approved">>,
     <<"inReview", "changesRequested", "changesRequested">>,
     <<"inReview", "upstreamChanged", "stale">>,
     <<"changesRequested", "ownerRevises", "drafting">>,
     <<"approved", "changedAfterApproval", "drafting">>,
     <<"approved", "upstreamChanged", "stale">>,
     <<"stale", "redo", "drafting">>}

Downstream(kind) == IF kind \in SystemKind THEN UiKind ELSE {}

\* What a change to `kind` makes Stale, of documents with these statuses.
DocumentsMadeStale(kind, statuses) ==
    {k \in Downstream(kind) :
        \E s \in DocumentStatus : <<statuses[k], "upstreamChanged", s>> \in DocumentArrow}

=============================================================================
