----------------------------- MODULE CodingStep -----------------------------
(***************************************************************************)
(* The two Coding Agents' Steps over one Slice's files                     *)
(* (packages/core/src/agents/coding): the file tools and what they refuse, *)
(* the guard of package.json, the check an answer is put to, how a Step is *)
(* judged, and the merge of the two manifests (workspaces).                *)
(*                                                                         *)
(* Each side works in its own Workspace.  A manifest is what its entries   *)
(* are set to, 0 for none; a source file is its lines.                     *)
(***************************************************************************)
EXTENDS Integers, Sequences, FiniteSets

CONSTANTS
    Entries,    \* the dependencies and scripts of package.json
    MaxLines,   \* bound: lines of a source file
    MaxCalls,   \* bound: tool calls of a side that change a file
    MaxChecks   \* how often an answer is sent back

VARIABLES
    before,     \* package.json on the run branch
    manifest,   \* side -> package.json in its Workspace
    tree,       \* side -> source file -> its lines, <<>> when there is none
    changes,    \* side -> the paths it wrote or deleted
    calls, sentBack,
    sentFor,    \* side -> the lines its answer was last sent back for
    stage,      \* side -> "working" or how its Step ended
    merged,     \* package.json after both sides are merged, or NotMerged
    \* History, read by properties only: sides that deleted package.json.
    deleted

codingVars == <<before, manifest, tree, changes, calls, sentBack, sentFor, stage, merged, deleted>>

-----------------------------------------------------------------------------
Sides == {"backend", "frontend"}

MANIFEST_PATH == "package.json"

\* One path of each kind: outside the Workspace, git's own, a secret, a note,
\* each side's source and what both may write.
Paths == {"../x.ts", ".git/x.ts", "server/.env", "server/NOTES.txt", "server/x.ts",
          "src/x.ts", MANIFEST_PATH}

LeadsOutside == {"../x.ts"}
isHidden == {".git/x.ts"}
isSecretFile == {"server/.env"}
isSourceFile == Paths \ {"server/.env", "server/NOTES.txt"}

\* writablePaths of the Stack Profile.
mayWrite(side) ==
    {MANIFEST_PATH} \cup
    (IF side = "backend" THEN {"server/.env", "server/NOTES.txt", "server/x.ts"} ELSE {"src/x.ts"})

\* #check: what a path must pass to be read, and to be written.
Readable == Paths \ (LeadsOutside \cup isHidden \cup isSecretFile)
Writable(side) == Readable \cap mayWrite(side) \cap isSourceFile

SourceFiles == {"server/x.ts", "src/x.ts"}

\* A line a cheap check forbids, and one it does not.
Lines == {"forbidden", "fine"}
Texts == UNION {[1..n -> Lines] : n \in 0..MaxLines}

Manifests == [json : {TRUE}, has : [Entries -> 0..2]]
\* Text that is no JSON object; no file at all.
NotJson == [json |-> FALSE, has |-> [e \in Entries |-> 0]]
NoFile == [json |-> FALSE, has |-> [e \in Entries |-> -1]]
NotMerged == [json |-> FALSE, has |-> [e \in Entries |-> -2]]
Conflict == [json |-> FALSE, has |-> [e \in Entries |-> -3]]

Init ==
    /\ before \in {m \in Manifests : \A e \in Entries : m.has[e] < 2} \cup {NotJson}
    /\ manifest = [s \in Sides |-> before]
    /\ tree = [s \in Sides |-> [f \in SourceFiles |-> <<"fine">>]]
    /\ changes = [s \in Sides |-> {}]
    /\ calls = [s \in Sides |-> 0] /\ sentBack = [s \in Sides |-> 0]
    /\ sentFor = [s \in Sides |-> {}] /\ stage = [s \in Sides |-> "working"]
    /\ merged = NotMerged /\ deleted = {}

-----------------------------------------------------------------------------
\* A tool call that changes `path`: one more change to judge the Step by.
Changes(side, path) ==
    /\ stage[side] = "working" /\ path \in Writable(side) /\ calls[side] < MaxCalls
    /\ calls' = [calls EXCEPT ![side] = @ + 1]
    /\ changes' = [changes EXCEPT ![side] = @ \cup {path}]
    /\ UNCHANGED <<before, sentBack, sentFor, stage, merged>>

\* write_file on a source file, and delete_file, after which it has no lines.
writeFile(side, path, text) ==
    /\ path \in SourceFiles /\ Changes(side, path)
    /\ tree' = [tree EXCEPT ![side][path] = text]
    /\ UNCHANGED <<manifest, deleted>>

\* edit_file: the one occurrence of a line is replaced.
editFile(side, path, old, new) ==
    /\ path \in SourceFiles /\ Changes(side, path)
    /\ \E i \in DOMAIN tree[side][path] :
           /\ {j \in DOMAIN tree[side][path] : tree[side][path][j] = old} = {i}
           /\ tree' = [tree EXCEPT ![side][path][i] = new]
    /\ UNCHANGED <<manifest, deleted>>

\* Mutant: only entries that were removed are looked for.
RemovedOnly(old, next) ==
    ~next.json \/ (old.json /\ \E e \in Entries : old.has[e] # 0 /\ next.has[e] = 0)
\* What is there is kept as it is; what is not JSON yet may be fixed.
manifestChangeProblem(old, next) ==
    ~next.json \/ (old.json /\ \E e \in Entries : old.has[e] # 0 /\ next.has[e] # old.has[e])

writeManifest(side, next) ==
    /\ Changes(side, MANIFEST_PATH)
    /\ manifest[side] = NoFile \/ ~manifestChangeProblem(manifest[side], next)
    /\ manifest' = [manifest EXCEPT ![side] = next]
    /\ UNCHANGED <<tree, deleted>>

\* delete_file asks the guard nothing.
deleteManifest(side) ==
    /\ manifest[side] # NoFile /\ Changes(side, MANIFEST_PATH)
    /\ manifest' = [manifest EXCEPT ![side] = NoFile]
    /\ deleted' = deleted \cup {side}
    /\ UNCHANGED tree

-----------------------------------------------------------------------------
\* The cheap checks over the files this side may write: each line that holds what
\* one of them forbids.
cheapFindings(side) ==
    UNION {{<<f, i>> : i \in {j \in DOMAIN tree[side][f] : tree[side][f][j] = "forbidden"}} :
              f \in SourceFiles \cap mayWrite(side)}

Ends(side, how) ==
    /\ stage' = [stage EXCEPT ![side] = how]
    /\ UNCHANGED <<before, manifest, tree, changes, calls, sentBack, sentFor, merged, deleted>>

\* Only an answer of a Step that changed something is put to its check, and only
\* while it may still be sent back.
IsChecked(side) == changes[side] # {} /\ sentBack[side] < MaxChecks

\* The failure the agent was told of last, with its line numbers.
SameAgain(side) == sentFor[side] = cheapFindings(side)

\* The check finds something to fix it did not say last: forbidden lines, or, where
\* there are none, a failed run of the side's check command.
AnswerSentBack(side) ==
    /\ stage[side] = "working" /\ IsChecked(side)
    /\ cheapFindings(side) # {} => ~SameAgain(side)
    /\ sentBack' = [sentBack EXCEPT ![side] = @ + 1]
    /\ sentFor' = [sentFor EXCEPT ![side] = cheapFindings(side)]
    /\ UNCHANGED <<before, manifest, tree, changes, calls, stage, merged, deleted>>

\* The answer stands: it is not checked, nothing is found (or the sandbox could not
\* say), or the same is found again.  A Step is judged by what it did.
AnswerStands(side) ==
    /\ stage[side] = "working"
    /\ IsChecked(side) => cheapFindings(side) = {} \/ SameAgain(side)
    /\ Ends(side, IF changes[side] = {} THEN "noChanges" ELSE "delivered")

\* The answer stands because no turn is left: it came in the last one, or the turns
\* were over after an earlier answer was sent back.  What was changed is not checked.
AnswerOutOfTurns(side) ==
    /\ stage[side] = "working" /\ changes[side] # {} /\ Ends(side, "deliveredUnchecked")

\* An application too large to be read whole is not checked.
AnswerUnread(side) ==
    /\ stage[side] = "working" /\ IsChecked(side) /\ Ends(side, "deliveredUnchecked")

StopsEarly(side) == stage[side] = "working" /\ Ends(side, "notAnswered")

-----------------------------------------------------------------------------
\* Mutant: the side that changed nothing wins.
pickUnchanged(b, o, t) == IF o = t THEN o ELSE IF b = o THEN o ELSE IF b = t THEN t ELSE -3
\* The value a key ends with; both sides changing it differently is a conflict.
pick(b, o, t) == IF o = t THEN o ELSE IF b = o THEN t ELSE IF b = t THEN o ELSE -3

mergeObjects(b, o, t) == [e \in Entries |-> pick(b.has[e], o.has[e], t.has[e])]

mergePackageJson(b, o, t) ==
    IF ~(b.json /\ o.json /\ t.json) THEN Conflict
    ELSE IF \E e \in Entries : mergeObjects(b, o, t)[e] = -3 THEN Conflict
    ELSE [json |-> TRUE, has |-> mergeObjects(b, o, t)]

\* git's own merge where only one side changed the file, by key where both did.
MergeManifests(b, o, t) ==
    IF o = t \/ b = t THEN o ELSE IF b = o THEN t ELSE mergePackageJson(b, o, t)

\* Steps whose changes count: they answered and changed something.
Delivered == {"delivered", "deliveredUnchecked"}

mergeSides ==
    /\ merged = NotMerged /\ \A s \in Sides : stage[s] \in Delivered
    /\ merged' = MergeManifests(before, manifest["backend"], manifest["frontend"])
    /\ UNCHANGED <<before, manifest, tree, changes, calls, sentBack, sentFor, stage, deleted>>

Next ==
    \/ \E side \in Sides :
          \/ \E path \in Paths, text \in Texts : writeFile(side, path, text)
          \/ \E path \in Paths, old, new \in Lines : editFile(side, path, old, new)
          \/ \E next \in Manifests \cup {NotJson} : writeManifest(side, next)
          \/ deleteManifest(side)
          \/ AnswerSentBack(side) \/ AnswerStands(side) \/ AnswerOutOfTurns(side)
          \/ AnswerUnread(side) \/ StopsEarly(side)
    \/ mergeSides

Spec == Init /\ [][Next]_codingVars

-----------------------------------------------------------------------------
\* What `m` holds of what was there.
Keeps(m) == \A e \in Entries : before.has[e] # 0 => m.has[e] = before.has[e]

(* What the template and the earlier Slices rely on is in the package.json *)
(* two sides are merged into, over any calls of either's tools, as long as *)
(* none deletes the file (manifestGuard.ts, packageJsonMerge.ts).          *)
MergedManifestKeeps ==
    before.json /\ deleted = {} /\ merged # NotMerged /\ merged # Conflict => Keeps(merged)

(* No side's change of package.json is lost in the merge: each entry is    *)
(* the one of the side that changed it (mergePackageJson, #mergeManifest). *)
MergeLosesNoChange ==
    before.json /\ merged.json =>
        \A s \in Sides, e \in Entries :
            manifest[s].json /\ manifest[s].has[e] # before.has[e]
                => merged.has[e] = manifest[s].has[e]

\* The forbidden lines of the files a side may write.
ForbiddenIn(side) ==
    UNION {{<<f, i>> : i \in {j \in DOMAIN tree[side][f] : tree[side][f][j] = "forbidden"}} :
              f \in SourceFiles \cap mayWrite(side)}

(* A Step that answers with a turn left and whose files can be read        *)
(* delivers lines its cheap checks forbid only when it was sent back for   *)
(* just those lines, or as often as an answer may be (agentLoop.ts,        *)
(* selfCheck.ts).                                                          *)
ForbiddenLinesWereSentBack ==
    \A s \in Sides :
        stage[s] = "delivered" =>
            \/ ForbiddenIn(s) = {}
            \/ sentBack[s] = MaxChecks
            \/ sentBack[s] > 0 /\ sentFor[s] = ForbiddenIn(s)

(* "changing or removing what the template and the earlier Slices rely on  *)
(* is not" allowed (manifestGuard.ts:9).                                   *)
ManifestKeepsWhatItHad ==
    before.json /\ merged # NotMerged /\ merged # Conflict => Keeps(merged)
=============================================================================
