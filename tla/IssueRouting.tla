---------------------------- MODULE IssueRouting ----------------------------
(***************************************************************************)
(* From a failed Test Run to who must fix it: one Issue Report per failure *)
(* (packages/core/src/agents/testing/issueReports.ts), an Owner for each,  *)
(* by the Approved Documents or by a model that judges it                  *)
(* (orchestrator/ownerResolution.ts, ownerJudge.ts), one route for all of  *)
(* them (issueRouting.ts), and what each Coding Agent is then told.  The   *)
(* judges of one Test Run are asked at the same time and answer in any     *)
(* order.                                                                  *)
(*                                                                         *)
(* An operation is its method and the segments of its path.  What a        *)
(* failure's text names is read once and is a field of the failure.        *)
(***************************************************************************)
EXTENDS Integers, Sequences, FiniteSets, Filtering

CONSTANTS
    MaxFailures,     \* bound: failures of the Test Run
    MaxCodingIssues, \* MAX_CODING_ISSUES
    TokenBudget      \* tokens left when the Test Run ends

VARIABLES
    documents, \* the operations each Approved Document relies on
    builds,    \* the sides the Slice has Tasks for
    failed,    \* the failures of the Test Run, in its order
    issues,    \* its Issue Reports
    decisions, \* report -> what is decided of it, Asked while its judge thinks
    left,      \* what is left of the Token Budget
    route,     \* where the Test Run leads
    told,      \* Coding Agent -> what it is told to fix
    hintTo     \* the sides a person's hint goes to

routingVars == <<documents, builds, failed, issues, decisions, left, route, told, hintTo>>

-----------------------------------------------------------------------------
CodingOwners == {"backendCoding", "frontendCoding"}
Owners == CodingOwners \cup {"systemDesign", "uiDesign", "human"}

\* What a test names, and what the documents may define.
Create == <<"POST", "todos">>
DeleteOne == <<"DELETE", "todos", "1">>
Defined == {Create, <<"DELETE", "todos", "{id}">>}

isParameter == {"{id}"}

\* The same method and segments, a parameter for any one segment.
sameOperation(named, defined) ==
    /\ Len(named) = Len(defined)
    /\ \A i \in DOMAIN named :
           named[i] = defined[i] \/ named[i] \in isParameter \/ defined[i] \in isParameter

Lists(operations, endpoint) == \E op \in operations : sameOperation(endpoint, op)

NoEndpoint == <<>>

\* A failing test: its file (a browser test of the template is nobody's), a
\* file its message names, and the operation its name starts with.
TestFailures ==
    [step : {"unit"}, test : {"t1", "t2"}, file : {"server", "shared"},
     named : {"none", "src"}, endpoint : {NoEndpoint, DeleteOne}, error : {"e1"}]
    \cup [step : {"unit"}, test : {"t1"}, file : {"src"},
          named : {"none"}, endpoint : {Create}, error : {"e1", "e2"}]
\* A step that failed without naming tests.
StepFailures ==
    [step : {"boot"}, test : {"none"}, file : {"none"}, named : {"src"},
     endpoint : {NoEndpoint}, error : {"e1"}]
    \cup [step : {"smoke"}, test : {"none"}, file : {"none"}, named : {"none"},
          endpoint : {Create}, error : {"e1"}]
    \cup [step : {"install", "sandbox"}, test : {"none"}, file : {"none"}, named : {"none"},
          endpoint : {NoEndpoint}, error : {"e1"}]

\* The side that alone may write the file.
ownerOf(file) ==
    CASE file = "server" -> "backendCoding"
      [] file = "src" -> "frontendCoding"
      [] OTHER -> "nobody"

\* The failing test's own file, unless no side may write it.
fromFailure(f) ==
    LET file == IF ownerOf(f.file) # "nobody" \/ f.named = "none" THEN f.file ELSE f.named IN
    [step |-> f.step, test |-> f.test, file |-> file, endpoint |-> f.endpoint,
     error |-> f.error, suspected |-> ownerOf(file)]

\* The API is the backend's; what else failed is where the evidence points.
fromStep(f) ==
    [step |-> f.step, test |-> f.test, file |-> f.named, endpoint |-> f.endpoint,
     error |-> f.error,
     suspected |-> IF f.step \in {"boot", "smoke"} THEN "backendCoding" ELSE ownerOf(f.named)]

report(f) == IF f.test = "none" THEN fromStep(f) ELSE fromFailure(f)

\* Mutant: the failing test is left out of what makes two failures the same.
signatureOfError(r) == <<r.step, r.file, r.error>>
\* The same failing test in the same file with the same error; a step's file
\* does not count.
signature(r) == <<r.step, r.test, IF r.test = "none" THEN "none" ELSE r.file, r.error>>

\* One report per signature, the first that had it.
mergeBySignature(drafts) ==
    Filter([i \in DOMAIN drafts |-> [at |-> i, draft |-> drafts[i]]],
           LAMBDA d : \A j \in 1..(d.at - 1) : signature(drafts[j]) # signature(d.draft))

issueReports(failures) ==
    LET merged == mergeBySignature([i \in DOMAIN failures |-> report(failures[i])]) IN
    [i \in DOMAIN merged |-> merged[i].draft]

-----------------------------------------------------------------------------
Decision(owner, rule) == [owner |-> owner, rule |-> rule]
Undecided == Decision("nobody", "undecided")
Asked == Decision("nobody", "asked")

\* resolveByDocuments: the questions the documents settle, in order.
resolveByDocuments(r) ==
    LET inContract == r.endpoint # NoEndpoint /\ Lists(documents.apiContract, r.endpoint)
        missing == r.endpoint # NoEndpoint /\ ~inContract IN
    IF r.suspected # "nobody" /\ ~missing THEN Decision(r.suspected, "codeDeviates")
    ELSE IF missing /\ Lists(documents.slicePlan, r.endpoint)
         THEN Decision("systemDesign", "documentsContradict")
    ELSE IF missing /\ Lists(documents.uiSpec, r.endpoint)
         THEN Decision("uiDesign", "documentsContradict")
    ELSE IF missing /\ r.suspected # "nobody" THEN Decision(r.suspected, "codeDeviates")
    ELSE Undecided

OwnersByRule ==
    [codeDeviates |-> CodingOwners, documentsContradict |-> {"systemDesign", "uiDesign"},
     requirementMissing |-> {"systemDesign"}, undecidable |-> {"human"}]

\* Mutant: the Owner the model names is taken whatever rule it names.
acceptsAnyOwner(r, d) == d.rule = "documentsContradict" => r.endpoint # NoEndpoint
\* A decision that answers the question asked; a contradiction needs an operation.
accepts(r, d) ==
    /\ d.owner \in OwnersByRule[d.rule]
    /\ d.rule = "documentsContradict" => r.endpoint # NoEndpoint

ByAPerson == Decision("human", "undecidable")

Init ==
    /\ documents \in [apiContract : SUBSET Defined, slicePlan : SUBSET Defined, uiSpec : {{}, Defined}]
    /\ builds \in {CodingOwners, {"backendCoding"}}
    /\ \E n \in 1..MaxFailures : failed \in [1..n -> TestFailures \cup StepFailures]
    /\ issues = issueReports(failed)
    /\ decisions = [i \in DOMAIN issues |-> Undecided]
    /\ left \in {0, TokenBudget}
    /\ route = "resolving" /\ told = [o \in CodingOwners |-> <<>>] /\ hintTo = {}

\* Every report at once: the documents settle it, or a judge is asked, or with
\* nothing left to spend a person must decide.  No judge has spent yet.
Resolve ==
    /\ route = "resolving"
    /\ route' = "judging"
    /\ decisions' = [i \in DOMAIN issues |->
                        IF resolveByDocuments(issues[i]) # Undecided THEN resolveByDocuments(issues[i])
                        ELSE IF left <= 0 THEN ByAPerson ELSE Asked]
    /\ UNCHANGED <<documents, builds, failed, issues, left, told, hintTo>>

\* A judge answers: a cut-off or malformed answer, or one `accepts` refuses, is none.
JudgeAnswers ==
    /\ route \in {"judging", "threw"}
    /\ \E i \in DOMAIN issues, owner \in Owners, rule \in DOMAIN OwnersByRule, cut \in BOOLEAN :
        /\ decisions[i] = Asked
        /\ left' = left - 1
        /\ decisions' = [decisions EXCEPT ![i] =
                            IF ~cut /\ accepts(issues[i], Decision(owner, rule))
                            THEN Decision(owner, rule) ELSE ByAPerson]
    /\ UNCHANGED <<documents, builds, failed, issues, route, told, hintTo>>

\* The model's service refuses or cannot be reached: a person decides.
JudgeRefused ==
    /\ route \in {"judging", "threw"}
    /\ \E i \in DOMAIN issues :
        decisions[i] = Asked /\ decisions' = [decisions EXCEPT ![i] = ByAPerson]
    /\ UNCHANGED <<documents, builds, failed, issues, left, route, told, hintTo>>

\* Any other error ends the Slice's attempt; the other judges go on and spend.
JudgeThrows ==
    /\ route \in {"judging", "threw"}
    /\ \E i \in DOMAIN issues :
        decisions[i] = Asked /\ decisions' = [decisions EXCEPT ![i] = Undecided]
    /\ route' = "threw"
    /\ UNCHANGED <<documents, builds, failed, issues, left, told, hintTo>>

-----------------------------------------------------------------------------
Owned(owner) == Filter([i \in DOMAIN issues |-> [by |-> decisions[i].owner, is |-> issues[i]]],
                       LAMBDA r : r.by = owner)

\* Mutant: what is past the most that are given at once is dropped.
codingIssuesCut(own) ==
    [issues |-> {<<own[i].is.step, own[i].is.test, own[i].is.error>> :
                    i \in {j \in DOMAIN own : j <= MaxCodingIssues}}, rest |-> {}]
\* The first reports in full, the rest in a list of their tests and errors.
codingIssues(own) ==
    [issues |-> {<<own[i].is.step, own[i].is.test, own[i].is.error>> :
                    i \in {j \in DOMAIN own : j <= MaxCodingIssues}},
     rest |-> {<<own[i].is.step, own[i].is.test, own[i].is.error>> :
                    i \in {j \in DOMAIN own : j > MaxCodingIssues}}]

AllDecided == route = "judging" /\ \A i \in DOMAIN issues : decisions[i] # Asked
OwnedBy(owners) == {i \in DOMAIN issues : decisions[i].owner \in owners}

\* An undecidable report: a person decides about the whole Test Run.
Escalates ==
    /\ AllDecided /\ OwnedBy({"human"}) # {}
    /\ route' = "escalated"
    /\ UNCHANGED <<documents, builds, failed, issues, decisions, left, told, hintTo>>

\* A design agent owns one: fixing code against a wrong document is wasted.
RevisesDocuments ==
    /\ AllDecided /\ OwnedBy({"human"}) = {} /\ OwnedBy({"systemDesign", "uiDesign"}) # {}
    /\ route' = "reviseDocuments"
    /\ UNCHANGED <<documents, builds, failed, issues, decisions, left, told, hintTo>>

\* Each Coding Agent with its own reports, unless the Slice has no Task for one
\* or its Task may not retry (a Loop, the Retry Budget), which escalates for all.
RetriesCoding ==
    /\ AllDecided /\ OwnedBy(Owners \ CodingOwners) = {}
    /\ \E mayRetry \in BOOLEAN :
        IF mayRetry /\ \A o \in CodingOwners : OwnedBy({o}) # {} => o \in builds
        THEN /\ route' = "retryCoding"
             /\ told' = [o \in CodingOwners |->
                            IF OwnedBy({o}) = {} THEN <<>> ELSE <<codingIssues(Owned(o))>>]
        ELSE route' = "escalated" /\ UNCHANGED told
    /\ UNCHANGED <<documents, builds, failed, issues, decisions, left, hintTo>>

Suspects == {issues[i].suspected : i \in DOMAIN issues}

\* Mutant: the side of the reports that point at one, whatever the others say.
sideAtFaultIfAny ==
    IF Cardinality(Suspects \cap CodingOwners) = 1 THEN Suspects \cap CodingOwners ELSE CodingOwners
\* The side every report points at, or both.
sideAtFault == IF Cardinality(Suspects) = 1 /\ Suspects \subseteq CodingOwners THEN Suspects ELSE CodingOwners

\* resolveEscalation: a hint that names no side goes to the side at fault.
RetriesWithHint ==
    /\ route = "escalated" /\ route' = "retryWithHint"
    /\ hintTo' = sideAtFault
    /\ UNCHANGED <<documents, builds, failed, issues, decisions, left, told>>

Next ==
    \/ Resolve \/ JudgeAnswers \/ JudgeRefused \/ JudgeThrows
    \/ Escalates \/ RevisesDocuments \/ RetriesCoding \/ RetriesWithHint

Spec == Init /\ [][Next]_routingVars

-----------------------------------------------------------------------------
(* Every failure of the Test Run is in what a Coding Agent is told once    *)
(* the Slice is retried: through merging by signature, the Owners the      *)
(* judges give in any order, and the cap on what is told in full           *)
(* (mergeBySignature, routeIssues, codingIssues).                          *)
NoFailureIsForgotten ==
    route = "retryCoding" =>
        \A i \in DOMAIN failed : \E o \in builds : told[o] # <<>> /\
            LET r == report(failed[i]) IN
            <<r.step, r.test, r.error>> \in told[o][1].issues \cup told[o][1].rest

(* A document goes back to its agent only where an operation is at stake   *)
(* or a requirement is said to be missing, and code only because it        *)
(* deviates: over the documents' answers and the judges'                   *)
(* (resolveByDocuments, OWNERS_BY_RULE).                                   *)
OwnersFollowTheRules ==
    route \in {"reviseDocuments", "retryCoding"} =>
        \A i \in DOMAIN issues :
            /\ decisions[i].owner \in CodingOwners <=> decisions[i].rule = "codeDeviates"
            /\ decisions[i].owner = "uiDesign" => issues[i].endpoint # NoEndpoint

(* A hint that names no side reaches every side when the failures of the   *)
(* Escalation do not all point at one: the side that must change is told   *)
(* (sideAtFault, resolveEscalation).                                       *)
HintReachesWhoMustFix ==
    route = "retryWithHint" /\ hintTo # CodingOwners =>
        \A i \in DOMAIN failed : {report(failed[i]).suspected} = hintTo

(* ownerJudge.ts:115 says "A contradiction needs an operation the          *)
(* documents disagree on".                                                 *)
ContradictionsAreReal ==
    route = "reviseDocuments" =>
        \A i \in DOMAIN issues : decisions[i].rule = "documentsContradict" =>
            ~(\A d \in DOMAIN documents : Lists(documents[d], issues[i].endpoint))
=============================================================================
