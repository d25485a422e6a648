---------------------------- MODULE AgreedDesign ----------------------------
(***************************************************************************)
(* What the Design Gate promises (CONTEXT.md "Approved Documents"): code is *)
(* built only on documents that were all agreed, an agreed document stays   *)
(* as it is while code is built on it, and whatever changes one sends the   *)
(* Run back to designing, and through the Gate again.                       *)
(***************************************************************************)
CONSTANT Documents  \* the design documents of a Run

VARIABLES
    gated,      \* is there a person to judge them?
    phase,      \* "designing", "judging", "building" or "stopped"
    agreed      \* the documents that are agreed as they stand

agreement == <<gated, phase, agreed>>

Init == gated \in BOOLEAN /\ phase = "designing" /\ agreed = {}

\* A document is taken up again, one that was agreed among them.
Revise == /\ phase \in {"designing", "stopped"}
          /\ agreed' \in SUBSET agreed
          /\ UNCHANGED phase

\* Everything is as its author wants it: a person judges it, or no one does.
Present == /\ phase = "designing"
           /\ IF gated THEN phase' = "judging" /\ agreed' = agreed
                       ELSE phase' = "building" /\ agreed' = Documents

\* Agreed as a whole, or some of it sent back.
Judge == /\ phase = "judging"
         /\ \/ phase' = "building" /\ agreed' = Documents
            \/ phase' = "designing" /\ agreed' \in (SUBSET Documents) \ {Documents}

\* The code shows that the design must change, or a person says so.
Reconsider == /\ phase = "building"
              /\ phase' = "designing" /\ agreed' \in SUBSET agreed

Stop == phase' = "stopped" /\ agreed' = agreed

Next == UNCHANGED gated /\ (Revise \/ Present \/ Judge \/ Reconsider \/ Stop)

Spec == Init /\ [][Next]_agreement
=============================================================================
