---------------------------- MODULE SystemDesign ----------------------------
(***************************************************************************)
(* The design agents' submissions (packages/core/src/agents/systemDesign   *)
(* and uiDesign): the System Design, the Slice Plan and the API Contract   *)
(* sent part by part, in any order and as often as the model likes, the    *)
(* check of one against another, and the UI Spec written from what was     *)
(* accepted.  A call whose arguments cannot be read does nothing.  At the  *)
(* end the Slices are built in batches (sliceBatch.ts).                    *)
(*                                                                         *)
(* An operation of the contract is its name, "health" the health check; a  *)
(* Slice of the plan is a record, and a screen the Slice it belongs to and *)
(* the operations it calls.                                                *)
(***************************************************************************)
EXTENDS Integers, Sequences, FiniteSets

CONSTANTS
    Features,    \* operations of the contract besides the health check
    MaxSubmits,  \* bound: parts sent, or calls that were not run
    MaxParallel  \* Slices built at the same time

VARIABLES
    drafts,      \* part -> the saved part, or NotSaved
    accepted,    \* the design finish_design accepted last, or NotAccepted
    uiSpec,      \* the UI Spec submitted last if it was accepted, or NoScreens
    stage,       \* "designing", "drawing", "building" or "ended"
    built,       \* indices of the Slices that passed
    submits,
    \* History, read by properties only: of each part what the last call that
    \* was run sent, and the Slices that were built before what they depend on.
    ran, early

systemDesignVars == <<drafts, accepted, uiSpec, stage, built, submits, ran, early>>

-----------------------------------------------------------------------------
Health == "health"
Operations == {Health} \cup Features

NotSaved == [is |-> "notSaved"]
NotAccepted == [systemDesign |-> NotSaved, slicePlan |-> NotSaved, apiContract |-> NotSaved]

\* Whether the overview and the diagrams of a System Design are right.
SystemDesigns == [is : {"good", "bad"}]
\* What is not OpenAPI, and the operations of what is.
Contracts == [is : {"good"}, has : SUBSET Operations] \cup {[is |-> "bad", has |-> {}]}

\* Titles of two Slices.  dependsOn is a set of titles; one of no Slice is "?".
Titles == {"first", "second"}
Slices(titles, endpoints, dependencies) ==
    [title : titles, isWalkingSkeleton : BOOLEAN, endpoints : endpoints, dependsOn : dependencies]
Firsts == Slices({"first"}, {{Health}, Operations}, {{}, {"second"}})
Seconds == Slices(Titles, {{}} \cup {{f} : f \in Features},
                  {{}, {"first"}, {"second"}, {"?"}})
Plans == [is : {"plan"}, slices : {<<a, b>> : a \in Firsts, b \in Seconds}]

Screens == [sliceTitle : Titles, endpoints : {{}, {Health}} \cup {{f} : f \in Features}]

Init ==
    /\ drafts = NotAccepted /\ accepted = NotAccepted /\ uiSpec = {}
    /\ stage = "designing" /\ built = {} /\ submits = 0
    /\ ran = NotAccepted /\ early = {}

-----------------------------------------------------------------------------
\* Mutant: a Slice may depend on one that comes after it.
slicePlanProblemsButOrder(slices) ==
    \/ ~slices[1].isWalkingSkeleton \/ \E i \in 2..Len(slices) : slices[i].isWalkingSkeleton
    \/ slices[1].endpoints # {Health}
    \/ \E i \in DOMAIN slices : \E d \in slices[i].dependsOn :
           \A j \in DOMAIN slices : slices[j].title # d
    \/ \E i, j \in DOMAIN slices : i # j /\ slices[i].title = slices[j].title
    \/ \E i \in DOMAIN slices : slices[i].endpoints = {}
\* Slice 1 and no other is the Walking Skeleton, with the health check alone;
\* dependencies are Slices that come before; titles differ; each has endpoints.
slicePlanProblems(slices) ==
    \/ slicePlanProblemsButOrder(slices)
    \/ \E i \in DOMAIN slices : \E d \in slices[i].dependsOn :
           \A j \in 1..(i - 1) : slices[j].title # d

\* Every endpoint of a Slice is in the contract, every operation in one Slice.
sliceContractProblems(slices, contract) ==
    \/ \E i \in DOMAIN slices : ~(slices[i].endpoints \subseteq contract)
    \/ \E op \in contract : Cardinality({i \in DOMAIN slices : op \in slices[i].endpoints}) # 1

Problems(part, value) ==
    CASE part = "systemDesign" -> value.is = "bad"
      [] part = "slicePlan" -> slicePlanProblems(value.slices)
      [] part = "apiContract" -> value.is = "bad"

\* Mutant: a part sent after finish_design does not withdraw the acceptance.
WithdrawsNothing == UNCHANGED accepted
\* Any change withdraws an earlier acceptance.
Withdraws == accepted' = NotAccepted

\* A part is saved if it has no problems; one that is rejected is cleared.
save(part, value) ==
    /\ stage = "designing" /\ submits < MaxSubmits
    /\ submits' = submits + 1
    /\ ran' = [ran EXCEPT ![part] = value]
    /\ Withdraws
    /\ drafts' = [drafts EXCEPT ![part] = IF Problems(part, value) THEN NotSaved ELSE value]
    /\ UNCHANGED <<uiSpec, stage, built, early>>

\* A call that is not run: its arguments do not fit the tool's schema, or the reply
\* was cut off.  The agent is told; the part it meant to replace stays, accepted or not.
NotRun ==
    /\ stage \in {"designing", "drawing"} /\ submits < MaxSubmits
    /\ submits' = submits + 1
    /\ UNCHANGED <<drafts, accepted, uiSpec, stage, built, ran, early>>

\* finish_design: nothing is missing, and the plan and the contract agree.
finish ==
    /\ stage = "designing"
    /\ \A part \in DOMAIN drafts : drafts[part] # NotSaved
    /\ ~sliceContractProblems(drafts.slicePlan.slices, drafts.apiContract.has)
    /\ accepted' = drafts
    /\ UNCHANGED <<drafts, uiSpec, stage, built, submits, ran, early>>

\* The agent's loop is over: a design that was accepted is drawn, another fails.
LoopEnds ==
    /\ stage = "designing"
    /\ stage' = IF accepted = NotAccepted THEN "ended" ELSE "drawing"
    /\ UNCHANGED <<drafts, accepted, uiSpec, built, submits, ran, early>>

-----------------------------------------------------------------------------
Plan == accepted.slicePlan.slices

\* Mutant: an operation no screen calls is let through.
uiSpecProblemsButUnused(screens) ==
    \/ \E screen \in screens : \A i \in DOMAIN Plan : Plan[i].title # screen.sliceTitle
    \/ \E screen \in screens : ~(screen.endpoints \subseteq accepted.apiContract.has)
    \/ \E i \in DOMAIN Plan : \A screen \in screens : screen.sliceTitle # Plan[i].title
\* Screens are of Slices of the plan and call operations of the contract; every
\* Slice has a screen; every operation but the health check has a screen.
uiSpecProblems(screens) ==
    \/ uiSpecProblemsButUnused(screens)
    \/ \E op \in accepted.apiContract.has \ {Health} :
           \A screen \in screens : op \notin screen.endpoints

\* submit_ui_spec: the last spec counts, or nothing when it is rejected.
submitUiSpec ==
    /\ stage = "drawing" /\ submits < MaxSubmits
    /\ submits' = submits + 1
    /\ \E screens \in SUBSET Screens :
           /\ Cardinality(screens) \in 1..3
           /\ uiSpec' = IF uiSpecProblems(screens) THEN {} ELSE screens
    /\ UNCHANGED <<drafts, accepted, stage, built, ran, early>>

UiLoopEnds ==
    /\ stage = "drawing"
    /\ stage' = IF uiSpec = {} THEN "ended" ELSE "building"
    /\ UNCHANGED <<drafts, accepted, uiSpec, built, submits, ran, early>>

-----------------------------------------------------------------------------
Current == CHOOSE i \in DOMAIN Plan \ built : \A j \in DOMAIN Plan \ built : i <= j

\* nextBatch: the first unbuilt Slice, and others all of whose dependencies passed.
nextBatch ==
    LET others == {i \in DOMAIN Plan \ (built \cup {Current}) :
                      \A d \in Plan[i].dependsOn : \E j \in built : Plan[j].title = d} IN
    {batch \in SUBSET ({Current} \cup others) :
        Current \in batch /\ Cardinality(batch) <= MaxParallel
        /\ (1 \notin built => batch = {Current})}

\* One batch of Slices is built and passes.
Build ==
    /\ stage = "building" /\ built # DOMAIN Plan
    /\ \E batch \in nextBatch :
           /\ built' = built \cup batch
           /\ early' = early \cup {i \in batch : \E d \in Plan[i].dependsOn :
                                     \A j \in built : Plan[j].title # d}
    /\ UNCHANGED <<drafts, accepted, uiSpec, stage, submits, ran>>

Next ==
    \/ \E value \in SystemDesigns : save("systemDesign", value)
    \/ \E value \in Plans : save("slicePlan", value)
    \/ \E value \in Contracts : save("apiContract", value)
    \/ NotRun \/ finish \/ LoopEnds \/ submitUiSpec \/ UiLoopEnds \/ Build

Spec == Init /\ [][Next]_systemDesignVars

-----------------------------------------------------------------------------
(* What the agent hands over is of each part what the last call that was   *)
(* run sent, right on its own and with the others: no order of calls hands *)
(* over an older part, a rejected one or a combination that was never      *)
(* checked (save and finish_design of systemDesignAgent.ts).               *)
HandsOverWhatRanLast == accepted # NotAccepted => accepted = ran

(* A plan the agent's checks accept can be built: no Slice is built before *)
(* one it depends on, though the first unbuilt Slice of the plan is built  *)
(* whatever it depends on (slicePlanProblems, nextBatch).                  *)
NothingIsBuiltEarly == early = {}

(* Every operation of an accepted contract but the health check is built   *)
(* by one Slice, and by the time all are built a screen calls it           *)
(* (sliceContractProblems, uiSpecProblems).                                *)
EveryOperationIsReached ==
    stage = "building" /\ built = DOMAIN Plan =>
        \A op \in accepted.apiContract.has \ {Health} :
            /\ \E screen \in uiSpec : op \in screen.endpoints
            /\ Cardinality({i \in built : op \in Plan[i].endpoints}) = 1
=============================================================================
