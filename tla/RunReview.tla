----------------------------- MODULE RunReview -----------------------------
(***************************************************************************)
(* The review of a Run's code (packages/core/src/orchestrator/runReview.ts *)
(* and agents/codeReview): the Review Standard with the user's own Rules   *)
(* over the Stack Profile's, the linters, the Findings the Code Review     *)
(* Agent submits over the diff and what is refused of them, and what the   *)
(* Orchestrator does with the result (#review of runOrchestrator.ts).      *)
(*                                                                         *)
(* A Finding cites a Rule, a file and a line and may quote one line; the   *)
(* diff shows one file.                                                    *)
(***************************************************************************)
EXTENDS Integers, Sequences, FiniteSets, Filtering

CONSTANTS
    MaxRecorded,  \* MAX_FINDINGS_RECORDED
    MaxSubmitted  \* bound: Findings the agent submits

VARIABLES
    standard,     \* Rule ID -> severity
    diff,         \* the hunk the diff shows of shown.ts: its marks, from line 1
    fromLinters,  \* the linters' Findings
    lintersBroken,
    submitted,    \* the Findings submitted (history)
    reported,     \* the ones recorded
    refused,      \* pairs of a Finding and why
    result        \* "reviewing", or what the Orchestrator does with the review

runReviewVars == <<standard, diff, fromLinters, lintersBroken, submitted, reported, refused, result>>

-----------------------------------------------------------------------------
\* The Stack Profile's Rules, one that blocks, one that does not, a linter's.
Baseline == [id \in {"BLOCK", "MINOR", "LINT"} |-> IF id = "BLOCK" THEN "blocking" ELSE "minor"]
isLintRule == {"LINT"}

\* What an AGENTS.md may say: another severity for a Rule, a Rule of its own.
UserRules == UNION {[ids -> {"blocking", "minor"}] : ids \in SUBSET {"MINOR", "LINT", "OWN"}}

\* layerReviewStandard: the same ID replaces, a new one is added.
layerReviewStandard(baseline, user) ==
    [id \in DOMAIN baseline \cup DOMAIN user |->
        IF id \in DOMAIN user THEN user[id] ELSE baseline[id]]

\* Lines of a hunk: added, kept and removed ones, each with a text of its own.
Hunks == {<<"kept", "removed", "added">>, <<"removed", "added", "removed", "kept">>}
TextOf(i) == <<"text1", "text2", "text3", "text4">>[i]

\* Mutant: a removed line is counted as one of the new file.
LineNumberOfAll(hunk, i) == i
\* The number in the new file of the hunk's line i.
LineNumber(hunk, i) == Cardinality({j \in 1..i : hunk[j] # "removed"})
\* shownByDiff: what the new file holds at the lines the diff shows.
shownByDiff(hunk) ==
    {[line |-> LineNumber(hunk, i), text |-> TextOf(i)] : i \in {j \in DOMAIN hunk : hunk[j] # "removed"}}

\* quoteIsShown: at the cited line or close to it; line 0 is the whole file.
LineSlack == 2
quoteIsShown(line, quote) ==
    \E shown \in shownByDiff(diff) :
        /\ shown.text = quote
        /\ line = 0 \/ shown.line - line \in -LineSlack..LineSlack

Findings ==
    [rule : {"BLOCK", "MINOR", "LINT", "OWN"}, file : {"shown.ts"}, line : {0, 1, 4},
     quote : {"none", "text2", "text3"}]
    \cup [rule : {"BLOCK", "MINOR"}, file : {"other.ts"}, line : {0}, quote : {"none"}]

Severity(finding) == IF finding.rule \in DOMAIN standard THEN standard[finding.rule] ELSE "unknown"

LinterFinding == [rule |-> "LINT", file |-> "shown.ts", line |-> 1, quote |-> "none"]

\* reviewRun up to the agent: the standard, the linters (broken ones find nothing), the diff.
Init ==
    /\ \E user \in UserRules : standard = layerReviewStandard(Baseline, user)
    /\ diff \in Hunks
    /\ lintersBroken \in BOOLEAN
    /\ fromLinters \in IF lintersBroken THEN {{}} ELSE SUBSET {LinterFinding}
    /\ submitted = {} /\ reported = {} /\ refused = {} /\ result = "reviewing"

-----------------------------------------------------------------------------
\* whyNotShown: why the diff does not support a Finding.
whyNotShown(finding) ==
    IF finding.rule \in isLintRule THEN "theLintersOwn"
    ELSE IF finding.file # "shown.ts" THEN "fileNotShown"
    ELSE IF finding.line > 0 /\ \A shown \in shownByDiff(diff) : shown.line # finding.line
         THEN "lineNotShown"
    ELSE IF Severity(finding) # "blocking" THEN "supported"
    ELSE IF finding.quote = "none" THEN "notQuoted"
    ELSE IF quoteIsShown(finding.line, finding.quote) THEN "supported" ELSE "quoteNotShown"

\* Mutant: the cap leaves out whatever comes after it.
CappedAll(finding) == Cardinality(reported) >= MaxRecorded
\* What would send work back is never what the cap leaves out.
Capped(finding) == Cardinality(reported) >= MaxRecorded /\ Severity(finding) # "blocking"

submitFinding(finding) ==
    /\ result = "reviewing" /\ Cardinality(submitted) < MaxSubmitted /\ finding \notin submitted
    /\ submitted' = submitted \cup {finding}
    /\ LET why == IF whyNotShown(finding) # "supported" THEN whyNotShown(finding)
                  ELSE IF Capped(finding) THEN "enoughRecorded" ELSE "supported" IN
       IF why = "supported"
       THEN reported' = reported \cup {finding} /\ UNCHANGED refused
       ELSE refused' = refused \cup {<<finding, why>>} /\ UNCHANGED reported
    /\ UNCHANGED <<standard, diff, fromLinters, lintersBroken, result>>

-----------------------------------------------------------------------------
SamePlace(a, b) == a.rule = b.rule /\ a.file = b.file /\ a.line = b.line

\* Mutant: a Finding refused by the cap is forgotten like one put right.
notRecordedAtAll == {r[1] : r \in {x \in refused : \A kept \in reported : ~SamePlace(kept, x[1])}}
\* Refusals worth telling: resending cannot put a cap right, it can the others.
notRecorded ==
    {r[1] : r \in {x \in refused : x[2] = "enoughRecorded"
                                   \/ \A kept \in reported : ~SamePlace(kept, x[1])}}

\* findingsFor: a Finding of a Rule nobody has is dropped, and its ID told.
findingsFor(found) == {f \in found : Severity(f) # "unknown"}
unknownRuleIds(found) == {f.rule : f \in {g \in found : Severity(g) = "unknown"}}

AllFindings == findingsFor(fromLinters) \cup findingsFor(reported)
blockingFindings == {f \in AllFindings : Severity(f) = "blocking"}

\* #review: blocking Findings send the work back, a review that did not finish
\* limits the Run, and what else was found travels to the pull request.
ReviewEnds(stopReason) ==
    /\ result = "reviewing"
    /\ result' = IF blockingFindings # {} THEN "sentBack"
                 ELSE IF stopReason # "answered" THEN "limited" ELSE "delivered"
    /\ UNCHANGED <<standard, diff, fromLinters, lintersBroken, submitted, reported, refused>>

Next ==
    \/ \E finding \in Findings : submitFinding(finding)
    \/ \E stopReason \in {"answered", "maxTurns", "tokenBudget"} : ReviewEnds(stopReason)

Spec == Init /\ [][Next]_runReviewVars

-----------------------------------------------------------------------------
\* The lines of the new file, as the hunk makes it, by their number.
NewLines == Filter([i \in DOMAIN diff |-> IF diff[i] = "removed" THEN "gone" ELSE TextOf(i)],
                   LAMBDA text : text # "gone")
\* A Finding of a blocking Rule that quotes code of the new file close to where it says.
IsReal(f) ==
    /\ Severity(f) = "blocking" /\ f.file = "shown.ts" /\ f.rule \notin isLintRule
    /\ f.line \in 0..Len(NewLines)
    /\ \E n \in DOMAIN NewLines :
          NewLines[n] = f.quote /\ (f.line = 0 \/ n - f.line \in -LineSlack..LineSlack)

(* Code of which a blocking Finding was submitted that its diff bears out, *)
(* or that a linter's blocking Rule complains of, is not delivered, and    *)
(* no code is sent back for one that quotes what is not there, however     *)
(* many others were recorded before (submit, whyNotShown, #review).        *)
BlocksOnWhatIsReal ==
    result # "reviewing" =>
        (result = "sentBack" <=> \/ \E f \in submitted : IsReal(f)
                                 \/ \E f \in fromLinters : Severity(f) = "blocking")

(* A person reading a review is told of every Finding submitted: it is one *)
(* of the review's, its Rule is named as unknown, it is listed as not      *)
(* recorded, or one in its place was recorded instead (reviewRun, the      *)
(* notRecorded of codeReviewAgent.ts).                                     *)
EveryFindingIsToldOf ==
    \A f \in submitted :
        \/ f \in AllFindings \/ f.rule \in unknownRuleIds(reported) \/ f \in notRecorded
        \/ <<f, "enoughRecorded">> \notin refused /\ \E kept \in reported : SamePlace(kept, f)
=============================================================================
