--------------------------- MODULE EscalationBrief ---------------------------
(***************************************************************************)
(* The brief a person reads before deciding at an Escalation               *)
(* (packages/core/src/orchestrator/escalationBrief.ts and #writeBrief of   *)
(* runOrchestrator.ts): the facts found without a model, in order and cut  *)
(* to a few, then a look by a model that the Token Budget must have room   *)
(* for.  The person may decide while it is written, and the process may    *)
(* die; the Escalation then stands with the brief it has, or with none.    *)
(***************************************************************************)
EXTENDS Integers, Sequences, FiniteSets, SequencesExt, Filtering

CONSTANTS
    TemplateFiles, \* the Stack Profile template's code files, in its order
    MaxFacts,      \* MAX_FACTS
    MaxReports,    \* bound: Issue Reports of the Escalation
    MaxAnswer,     \* MAX_ANSWER_TOKENS, scaled
    MaxMessage,    \* bound: tokens a message is reckoned at
    MaxBudget      \* bound: the Token Budget

VARIABLES
    escalation, \* why it stopped, whether in a Slice, and what was decided
    found,      \* the Issue Reports and what the merged code has of the template
    budget, spent,
    pace,       \* tokens a text is worth for each it is reckoned at
    writing,    \* where #writeBrief is
    facts, message,
    brief,      \* what setBrief saved
    \* History, read by properties only: the Token Budget a look was made within.
    allowed

briefVars == <<escalation, found, budget, spent, pace, writing, facts, message, brief, allowed>>

-----------------------------------------------------------------------------
CHOICES == {"retryWithHint", "editDocuments", "skipSlice", "abort"}

NoBrief == [facts |-> <<>>, choice |-> "none", hint |-> "none", without |-> "none"]

\* Where a report points: a file of the template or one of the Slice's own.
Reports == [file : ToSet(TemplateFiles) \cup {"own", "none"}, hasCause : BOOLEAN, often : BOOLEAN]
Merged == [ToSet(TemplateFiles) -> {"same", "gone", "lostExports"}]
NotMergedYet == [file \in ToSet(TemplateFiles) |-> "unread"]

Fact(is, of) == [is |-> is, of |-> of]
Warning == Fact("warning", "hint")

Init ==
    \* Only the Token Budget stops a Run whose documents are not approved yet.
    /\ escalation \in [trigger : {"loop", "tokenBudget", "retryBudget"}, inSlice : BOOLEAN,
                       resolved : {"none"}]
    /\ \E n \in 0..MaxReports : \E reports \in [1..n -> Reports], merged \in Merged \cup {NotMergedYet} :
           found = [reports |-> reports, merged |-> merged]
    /\ budget \in 1..MaxBudget /\ spent \in {0, MaxBudget - 1, MaxBudget}
    /\ escalation.trigger = "tokenBudget" => spent >= budget
    /\ pace \in {1, 2}
    /\ writing = "owed" /\ facts = <<>> /\ message = 0 /\ brief = NoBrief /\ allowed = MaxBudget + MaxBudget

-----------------------------------------------------------------------------
Named == {found.reports[i].file : i \in DOMAIN found.reports}

\* templateFacts: the files the reports name, then those the agents broke.
templateFacts ==
    [i \in DOMAIN SetToSeq(Named \cap ToSet(TemplateFiles)) |->
        Fact("extendIt", SetToSeq(Named \cap ToSet(TemplateFiles))[i])]
    \o LET broken == Filter(TemplateFiles, LAMBDA f : found.merged[f] \in {"gone", "lostExports"}) IN
       [i \in DOMAIN broken |-> Fact(found.merged[broken[i]], broken[i])]

\* The cause a tool printed, and an error that fails more than one test.
reportFacts ==
    LET mayTell == [k \in 1..2 * Len(found.reports) |->
                       Fact(IF k % 2 = 1 THEN "cause" ELSE "often", (k + 1) \div 2)]
        tells(fact) == IF fact.is = "cause" THEN found.reports[fact.of].hasCause
                       ELSE found.reports[fact.of].often IN
    Filter(mayTell, tells)

TriggerFact == IF escalation.trigger = "retryBudget" THEN <<>> ELSE <<Fact("trigger", escalation.trigger)>>

Cut(sequence, n) == SubSeq(sequence, 1, IF Len(sequence) < n THEN Len(sequence) ELSE n)

\* Mutant: what the tools printed comes before what code found.
briefFactsByReport == Cut(TriggerFact \o reportFacts \o templateFacts, MaxFacts)
briefFacts == Cut(TriggerFact \o templateFacts \o reportFacts, MaxFacts)

\* #writeBrief, up to the look.  Reading the merged code may fail.
Gathers ==
    /\ writing = "owed"
    /\ \/ writing' = "gathered" /\ facts' = briefFacts /\ message' \in 1..MaxMessage
       \/ writing' = "problem" /\ UNCHANGED <<facts, message>>
    /\ UNCHANGED <<escalation, found, budget, spent, pace, brief, allowed>>

lookTokens == message + MaxAnswer
remaining == budget - spent

\* Mutant: a look is made as long as anything is left, like a judgement.
whyNoLookUnlessSpent == escalation.trigger = "tokenBudget" \/ remaining <= 0
\* A look must fit in what is left.
whyNoLook == escalation.trigger = "tokenBudget" \/ remaining < lookTokens

Saves(b) == brief' = b /\ writing' = "written"

SkipsLook ==
    /\ writing = "gathered" /\ whyNoLook
    /\ Saves([NoBrief EXCEPT !.facts = facts, !.without = "skipped"])
    /\ UNCHANGED <<escalation, found, budget, spent, pace, facts, message, allowed>>

Looks ==
    /\ writing = "gathered" /\ ~whyNoLook /\ writing' = "looking" /\ allowed' = budget
    /\ UNCHANGED <<escalation, found, budget, spent, pace, facts, message, brief>>

\* Mutant: every choice is asked for and taken.
choicesForAll == CHOICES
\* In review there is no Slice to skip.
choicesFor == IF escalation.inSlice THEN CHOICES ELSE CHOICES \ {"skipSlice"}

\* A hint goes only with "retry with hint".
HintFor(choice, hint) == IF choice = "retryWithHint" THEN hint ELSE "none"

\* Mutant: the warning is put after the facts and cut with them.
WarnedAfter(hint) == Cut(IF hint = "asksForbidden" THEN Append(facts, Warning) ELSE facts, MaxFacts)
\* A hint that asks for what a cheap check forbids is kept, and warned about.
Warned(hint) ==
    IF hint = "asksForbidden" THEN Append(Cut(facts, MaxFacts - 1), Warning) ELSE facts

\* The model answers: within its own limit, cut off or malformed, or a choice
\* and a hint that asks for what is forbidden, warns against it or neither.
LookAnswers ==
    /\ writing = "looking"
    /\ \E answer \in 1..MaxAnswer : spent' = spent + pace * message + answer
    /\ \/ Saves([NoBrief EXCEPT !.facts = facts, !.without = "unusable"])
       \/ \E choice \in choicesFor, hint \in {"none", "plain", "asksForbidden"} :
              Saves([facts |-> Warned(HintFor(choice, hint)), choice |-> choice,
                     hint |-> HintFor(choice, hint), without |-> "none"])
    /\ UNCHANGED <<escalation, found, budget, pace, facts, message, allowed>>

\* The model's service refuses: the person still has the facts.
LookRefused ==
    /\ writing = "looking" /\ Saves([NoBrief EXCEPT !.facts = facts, !.without = "unusable"])
    /\ UNCHANGED <<escalation, found, budget, spent, pace, facts, message, allowed>>

\* Anything else is reported, and the Escalation stands without a brief.
LookThrows ==
    /\ writing = "looking" /\ writing' = "problem"
    /\ UNCHANGED <<escalation, found, budget, spent, pace, facts, message, brief, allowed>>

\* A person decides, whether the brief is there or not, and may set the budget
\* to anything above what is spent.
resolveEscalation ==
    /\ escalation.resolved = "none"
    /\ \E choice \in CHOICES, raised \in 1..MaxBudget :
           /\ IF choice = "abort" THEN raised = budget ELSE raised > spent
           /\ escalation' = [escalation EXCEPT !.resolved = choice] /\ budget' = raised
    /\ UNCHANGED <<found, spent, pace, writing, facts, message, brief, allowed>>

\* The process dies: which Escalations it owes a brief is known to it alone.
Dies ==
    /\ writing \in {"owed", "gathered", "looking"} /\ writing' = "none"
    /\ UNCHANGED <<escalation, found, budget, spent, pace, facts, message, brief, allowed>>

Next ==
    \/ Gathers \/ SkipsLook \/ Looks \/ LookAnswers \/ LookRefused \/ LookThrows
    \/ resolveEscalation \/ Dies

Spec == Init /\ [][Next]_briefVars

-----------------------------------------------------------------------------
\* The choices the dialog offers at this Escalation (EscalationDialog.tsx:274).
Offered == IF escalation.inSlice THEN CHOICES ELSE CHOICES \ {"skipSlice"}

(* A brief advises what the person can then do: a choice the dialog offers *)
(* at this Escalation, with a hint exactly when one may be sent, and a     *)
(* warning beside each hint that asks for what the template forbids, even  *)
(* when the facts are as many as are shown (#look, choicesFor, brief).     *)
AdviceCanBeFollowed ==
    brief.choice # "none" =>
        /\ brief.choice \in Offered
        /\ brief.hint # "none" => brief.choice = "retryWithHint"
        /\ (brief.hint = "asksForbidden") <=> (Warning \in ToSet(brief.facts))

(* A look does not take the Run past the Token Budget it had, where a      *)
(* token is three characters or more: with the longest answer, and after a *)
(* decision that let the Run go on (whyNoLook, lookTokens).                *)
LookStaysInBudget == pace = 1 => spent <= allowed

(* A line of a report is shown only when every fact that code alone can    *)
(* find is (briefFacts).                                                   *)
FoundFactsComeFirst ==
    (\E fact \in ToSet(brief.facts) : fact.is \in {"cause", "often"})
        => ToSet(TriggerFact \o templateFacts) \subseteq ToSet(brief.facts)

(* escalationBrief.ts:248: "the ones only code can find are never the ones *)
(* cut".                                                                   *)
FoundFactsAreNeverCut ==
    brief.facts # <<>> => ToSet(TriggerFact \o templateFacts) \subseteq ToSet(brief.facts)

(* escalationBrief.ts:217: "the Run is never pushed past its Token Budget  *)
(* by its brief".                                                          *)
NeverPushedPast == spent <= allowed
=============================================================================
