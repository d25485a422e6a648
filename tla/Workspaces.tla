----------------------------- MODULE Workspaces -----------------------------
(***************************************************************************)
(* Workspaces and Slice Commits in local git                               *)
(* (packages/core/src/workspaces/workspaceManager.ts), driven as           *)
(* orchestrator/sliceRunner.ts drives them: the sides of a Slice write in  *)
(* worktrees of their own, their branches are merged onto the last Slice   *)
(* Commit, the merge is tested and becomes the next Slice Commit, and the  *)
(* Slice's worktrees are discarded.  Slices built at the same time take    *)
(* turns from the merge on.  The process may die between any two git       *)
(* commands, a worktree's folder may be lost while it is down, and what    *)
(* was not saved is then thrown away (orchestrator/resumeRun.ts).          *)
(*                                                                         *)
(* Code is the set of saves it is made of: the n-th save of a side is      *)
(* <<s, r, n>>, or <<s, r, 0>> when it took in what an interrupted Step    *)
(* had left behind.  A three-way merge of such trees is their union; that  *)
(* git refuses one is a choice.                                            *)
(***************************************************************************)
EXTENDS Integers, Sequences, FiniteSets, SequencesExt, Functions

CONSTANTS
    Slices,        \* the Slices built at the same time
    Role,          \* WORKSPACE_ROLES, in the order they are merged
    SidesOf,       \* Slice -> the roles that have a Workspace in it
    MaxSaves,      \* bound: Steps that write, in all
    MaxCommits,    \* bound: Slice Commits
    MaxCrashes     \* bound: times the process dies

ASSUME ConstantsAssumption ==
    /\ Role \in Seq(STRING) /\ Len(Role) > 0
    /\ SidesOf \in [Slices -> SUBSET {Role[i] : i \in 1..Len(Role)}]
    /\ MaxSaves \in Nat /\ MaxCommits \in Nat /\ MaxCrashes \in Nat

VARIABLES
    runBranch,   \* the trees of the Slice Commits, oldest first
    branch,      \* Workspace -> Absent, or what its branch started on and holds
    mergeBranch, \* Slice -> Absent, or the tree of its merge branch
    folder,      \* Workspace -> "none", a "stray" folder, or a "worktree"
    unsaved,     \* Workspace -> "clean", a Step is "writing", or it was "cut"
    step,        \* Workspace -> what its Coding Agent does
    at,          \* Slice -> where runSlice is
    merged,      \* Slice -> the MergeOutcome runSlice holds
    passed,      \* Slices whose row says passed
    turn,        \* the Slice that holds #integration, or None
    saves,       \* Workspace -> saves so far, whatever became of them
    crashes,
    \* History, read by properties only.
    owed,        \* Slice -> saves of completed Steps that no one discarded
    tested       \* Slice -> its merged code as it was last tested

git     == <<branch, folder>>
history == <<owed, tested>>
vars  == <<runBranch, git, mergeBranch, unsaved, step, at, merged, passed, turn, saves,
           crashes, history>>
-----------------------------------------------------------------------------
Absent == [none |-> TRUE]
None   == "none"

Workspace    == {w \in Slices \X ToSet(Role) : w[2] \in SidesOf[w[1]]}
Of(s)        == {w \in Workspace : w[1] = s}
Save         == Slices \X ToSet(Role) \X Nat

\* What the run branch held when it had n Slice Commits; the template is {}.
TreeAt(n)       == IF n = 0 THEN {} ELSE runBranch[n]
lastSliceCommit == TreeAt(Len(runBranch))

Up == \E s \in Slices : at[s] # "down"

Init ==
    /\ runBranch = <<>>
    /\ branch = [w \in Workspace |-> Absent]
    /\ mergeBranch = [s \in Slices |-> Absent]
    /\ folder = [w \in Workspace |-> "none"]
    /\ unsaved = [w \in Workspace |-> "clean"]
    /\ step = [w \in Workspace |-> "idle"]
    /\ at = [s \in Slices |-> "open"]
    /\ merged = [s \in Slices |-> Absent]
    /\ passed = {} /\ turn = None
    /\ saves = [w \in Workspace |-> 0]
    /\ crashes = 0
    /\ owed = [s \in Slices |-> {}]
    /\ tested = [s \in Slices |-> {}]

Go(s, where) == at' = [at EXCEPT ![s] = where]
-----------------------------------------------------------------------------
(* Opening the Workspaces of a Slice.                                      *)

\* Mutant: a Workspace whose folder is gone starts from the last Slice Commit.
StartsAnew(w) == [from |-> Len(runBranch), tree |-> lastSliceCommit]

\* The branch of a Workspace whose folder was lost is checked out again.
Starts(w) ==
    IF branch[w] # Absent THEN branch[w]
    ELSE [from |-> Len(runBranch), tree |-> lastSliceCommit]

\* #opening: one Slice at a time.
MayOpen(s) == \A v \in Workspace : v[1] # s => ~(at[v[1]] = "open" /\ step[v] = "opened")

\* One that git lists as a worktree is returned as the agent left it; a folder
\* git does not know is removed first, with what it held.
openWorkspace(w) ==
    /\ at[w[1]] = "open" /\ step[w] = "idle" /\ MayOpen(w[1])
    /\ IF folder[w] = "worktree"
       THEN UNCHANGED <<git, unsaved>>
       ELSE /\ folder' = [folder EXCEPT ![w] = "worktree"]
            /\ branch' = [branch EXCEPT ![w] = Starts(w)]
            /\ unsaved' = [unsaved EXCEPT ![w] = "clean"]
    /\ step' = [step EXCEPT ![w] = "opened"]
    /\ UNCHANGED <<runBranch, mergeBranch, at, merged, passed, turn, saves, crashes, history>>

\* Every side is open: those of this attempt code, and the rest stay as saved.
Code(s) ==
    /\ at[s] = "open" /\ \A w \in Of(s) : step[w] = "opened"
    /\ \E coding \in SUBSET Of(s) :
        /\ coding # {}
        /\ step' = [w \in Workspace |->
                      IF w \in coding THEN "coding" ELSE IF w \in Of(s) THEN "idle" ELSE step[w]]
    /\ Go(s, "code")
    /\ UNCHANGED <<runBranch, git, mergeBranch, unsaved, merged, passed, turn, saves, crashes,
                   history>>
-----------------------------------------------------------------------------
(* A Step of a Coding Agent.                                               *)

MayWrite == SumFunction(saves) < MaxSaves

Writes(w) ==
    /\ step[w] = "coding" /\ unsaved[w] = "clean" /\ MayWrite
    /\ unsaved' = [unsaved EXCEPT ![w] = "writing"]
    /\ saves' = [saves EXCEPT ![w] = @ + 1]
    /\ UNCHANGED <<runBranch, git, mergeBranch, step, at, merged, passed, turn, crashes, history>>

Saved(w) == <<w[1], w[2], IF unsaved[w] = "cut" THEN 0 ELSE saves[w]>>

\* Everything in the folder is committed to the branch, if anything changed.
saveWorkspace(w) ==
    /\ step[w] = "coding"
    /\ IF unsaved[w] = "clean"
       THEN UNCHANGED branch
       ELSE branch' = [branch EXCEPT ![w] = [from |-> @.from, tree |-> @.tree \cup {Saved(w)}]]
    /\ unsaved' = [unsaved EXCEPT ![w] = "clean"]
    /\ step' = [step EXCEPT ![w] = IF unsaved[w] = "clean" THEN "done" ELSE "saved"]
    /\ UNCHANGED <<runBranch, folder, mergeBranch, at, merged, passed, turn, saves, crashes, history>>

\* The Step is marked completed after its code is saved, in a write of its own;
\* one that spent the Token Budget stops the Slice all the same.
CompleteStep(w) ==
    /\ step[w] = "saved"
    /\ \E to \in {"done", "stopped"} : step' = [step EXCEPT ![w] = to]
    /\ owed' = [owed EXCEPT ![w[1]] = @ \cup (branch[w].tree \ TreeAt(branch[w].from))]
    /\ UNCHANGED <<runBranch, git, mergeBranch, unsaved, at, merged, passed, turn, saves, crashes,
                   tested>>

\* The Step stopped with nothing to keep: what it wrote is thrown away.
resetWorkspace(w) ==
    /\ step[w] = "coding"
    /\ unsaved' = [unsaved EXCEPT ![w] = "clean"]
    /\ step' = [step EXCEPT ![w] = "stopped"]
    /\ UNCHANGED <<runBranch, git, mergeBranch, at, merged, passed, turn, saves, crashes, history>>

Settled(s) == at[s] = "code" /\ \A w \in Of(s) : step[w] \in {"idle", "done", "stopped"}

\* Another attempt, or an Escalation that a person answers with one.
AgainOrEscalate(s) == \E where \in {"open", "escalated"} : Go(s, where)

SendOn(s) ==
    /\ at[s] = "escalated" /\ Go(s, "open")
    /\ UNCHANGED <<runBranch, git, mergeBranch, unsaved, step, merged, passed, turn, saves, crashes,
                   history>>

\* A side that stopped redoes its Step, and nothing is tested.
StepStopped(s) ==
    /\ Settled(s) /\ \E w \in Of(s) : step[w] = "stopped"
    /\ step' = [w \in Workspace |-> IF w \in Of(s) THEN "idle" ELSE step[w]]
    /\ AgainOrEscalate(s)
    /\ UNCHANGED <<runBranch, git, mergeBranch, unsaved, merged, passed, turn, saves, crashes,
                   history>>
-----------------------------------------------------------------------------
(* Integration: merge, test and commit, one Slice at a time.               *)

Acquire(s) ==
    /\ Settled(s) /\ \A w \in Of(s) : step[w] # "stopped"
    /\ turn = None /\ turn' = s
    /\ Go(s, "merge")
    /\ UNCHANGED <<runBranch, git, mergeBranch, unsaved, step, merged, passed, saves, crashes,
                   history>>

\* The head of the run branch is not in the history of a side's branch.
isBehind(s) == \E w \in Of(s) : branch[w] # Absent /\ branch[w].from < Len(runBranch)

\* Mutant: the merge starts where the Slice's Workspaces did.
MergeOntoStart(s) == UNION {TreeAt(branch[w].from) : w \in Of(s)}

MergeOnto(s) == lastSliceCommit

Merging(s, ws) == MergeOnto(s) \cup UNION {branch[w].tree : w \in ws}

\* The Workspaces of its Slice that are merged before w.
Before(w) ==
    {v \in Of(w[1]) : \E i, j \in 1..Len(Role) : i < j /\ Role[i] = v[2] /\ Role[j] = w[2]}

\* Both sides of the merge changed something the other does not have.
Clashes(w) ==
    LET since == TreeAt(branch[w].from)
        mine == branch[w].tree \ since
        theirs == Merging(w[1], Before(w)) \ since
    IN  mine \ theirs # {} /\ theirs \ mine # {}

mergeSlice(s) ==
    /\ at[s] = "merge" /\ \A w \in Of(s) : unsaved[w] = "clean"
    /\ mergeBranch' = [mergeBranch EXCEPT ![s] = [tree |-> Merging(s, Of(s))]]
    /\ merged' = [merged EXCEPT ![s] = [commit |-> Merging(s, Of(s)), base |-> Len(runBranch)]]
    /\ Go(s, "test")
    /\ UNCHANGED <<runBranch, git, unsaved, step, passed, turn, saves, crashes, history>>

Release(s) == turn' = None /\ step' = [w \in Workspace |-> IF w \in Of(s) THEN "idle" ELSE step[w]]

\* The merge is left where it conflicted.  Behind a peer's commit the Slice is
\* discarded and built again; otherwise it escalates, and is sent on later.
MergeConflicts(s) ==
    /\ at[s] = "merge"
    /\ \E w \in Of(s) : /\ Clashes(w)
                        /\ mergeBranch' = [mergeBranch EXCEPT ![s] = [tree |-> Merging(s, Before(w))]]
    /\ IF isBehind(s)
       THEN Go(s, "discard") /\ UNCHANGED <<turn, step>>
       ELSE Go(s, "escalated") /\ Release(s)
    /\ UNCHANGED <<runBranch, git, unsaved, merged, passed, saves, crashes, history>>

\* What readFiles(merged.commit) gives the Test Run.
TestPasses(s) ==
    /\ at[s] = "test" /\ Len(runBranch) < MaxCommits
    /\ Go(s, "commit")
    /\ UNCHANGED <<runBranch, git, mergeBranch, unsaved, step, merged, passed, turn, saves, crashes, history>>

TestFails(s) ==
    /\ at[s] = "test"
    /\ tested' = [tested EXCEPT ![s] = merged[s].commit]
    /\ AgainOrEscalate(s) /\ Release(s)
    /\ UNCHANGED <<runBranch, git, mergeBranch, unsaved, merged, passed, saves, crashes, owed>>

\* commit-tree and update-ref: the run branch moves only from the base that
\* was merged onto.
commitSlice(s) ==
    /\ at[s] = "commit" /\ Len(runBranch) = merged[s].base
    /\ runBranch' = Append(runBranch, merged[s].commit)
    /\ Go(s, "committed")
    /\ UNCHANGED <<git, mergeBranch, unsaved, step, merged, passed, turn, saves, crashes, history>>

\* #discard, one git command at a time: the worktrees, then the branches in
\* one transaction, then folders git had lost track of.
Discarding(s) == at[s] \in {"committed", "discard"}

removeWorktree(w) ==
    /\ Discarding(w[1]) /\ folder[w] = "worktree"
    /\ folder' = [folder EXCEPT ![w] = "none"]
    /\ unsaved' = [unsaved EXCEPT ![w] = "clean"]
    /\ UNCHANGED <<runBranch, branch, mergeBranch, step, at, merged, passed, turn, saves, crashes,
                   history>>

deleteBranches(s) ==
    /\ Discarding(s) /\ \A w \in Of(s) : folder[w] # "worktree"
    /\ branch' = [w \in Workspace |-> IF w \in Of(s) THEN Absent ELSE branch[w]]
    /\ mergeBranch' = [mergeBranch EXCEPT ![s] = Absent]
    /\ folder' = [w \in Workspace |-> IF w \in Of(s) THEN "none" ELSE folder[w]]
    /\ owed' = [owed EXCEPT ![s] = {}]
    /\ tested' = [tested EXCEPT ![s] = {}]
    /\ IF at[s] = "committed"
       THEN Go(s, "moveSlice") /\ UNCHANGED <<turn, step>>
       ELSE AgainOrEscalate(s) /\ Release(s)
    /\ UNCHANGED <<runBranch, unsaved, merged, passed, saves, crashes>>

\* Only now does the Slice's row say passed.
moveSlice(s) ==
    /\ at[s] = "moveSlice"
    /\ passed' = passed \cup {s}
    /\ Go(s, "passed") /\ Release(s)
    /\ UNCHANGED <<runBranch, git, mergeBranch, unsaved, merged, saves, crashes, history>>
-----------------------------------------------------------------------------
(* The process dies, and the Run is picked up again.                       *)

Crash ==
    /\ Up /\ crashes < MaxCrashes /\ crashes' = crashes + 1
    /\ at' = [s \in Slices |-> "down"]
    /\ step' = [w \in Workspace |-> "idle"]
    /\ unsaved' = [w \in Workspace |-> IF unsaved[w] = "writing" THEN "cut" ELSE unsaved[w]]
    /\ merged' = [s \in Slices |-> Absent]
    /\ turn' = None
    /\ UNCHANGED <<runBranch, git, mergeBranch, passed, saves, history>>

\* While it is down a worktree's folder goes, or git forgets it.
LoseFolder(w) ==
    /\ ~Up /\ folder[w] = "worktree"
    /\ \E f \in {"none", "stray"} : folder' = [folder EXCEPT ![w] = f]
    /\ unsaved' = [unsaved EXCEPT ![w] = "clean"]
    /\ UNCHANGED <<runBranch, branch, mergeBranch, step, at, merged, passed, turn, saves, crashes,
                   history>>

\* Mutant: what an interrupted Step wrote is left in its worktree.
resetNothing == unsaved

resetUnsaved == [w \in Workspace |-> IF folder[w] = "worktree" THEN "clean" ELSE unsaved[w]]

resumeRun ==
    /\ ~Up
    /\ unsaved' = resetUnsaved
    /\ at' = [s \in Slices |-> IF s \in passed THEN "passed" ELSE "open"]
    /\ UNCHANGED <<runBranch, git, mergeBranch, step, merged, passed, turn, saves, crashes, history>>
-----------------------------------------------------------------------------
runSlice(s) ==
    \/ Code(s) \/ StepStopped(s) \/ SendOn(s) \/ Acquire(s)
    \/ mergeSlice(s) \/ MergeConflicts(s) \/ TestPasses(s) \/ TestFails(s)
    \/ commitSlice(s) \/ deleteBranches(s) \/ moveSlice(s)
    \/ \E w \in Of(s) :
        \/ openWorkspace(w) \/ Writes(w) \/ saveWorkspace(w) \/ CompleteStep(w)
        \/ resetWorkspace(w) \/ removeWorktree(w)

Next ==
    \/ \E s \in Slices : runSlice(s)
    \/ Crash \/ resumeRun
    \/ \E w \in Workspace : LoseFolder(w)

Spec == Init /\ [][Next]_vars
-----------------------------------------------------------------------------
(* Every variable has its type. *)
TypeOK ==
    /\ runBranch \in Seq(SUBSET Save)
    /\ branch \in [Workspace -> {Absent} \cup [from : Nat, tree : SUBSET Save]]
    /\ mergeBranch \in [Slices -> {Absent} \cup [tree : SUBSET Save]]
    /\ folder \in [Workspace -> {"none", "stray", "worktree"}]
    /\ unsaved \in [Workspace -> {"clean", "writing", "cut"}]
    /\ step \in [Workspace -> {"idle", "opened", "coding", "saved", "done", "stopped"}]
    /\ at \in [Slices -> {"open", "code", "merge", "test", "commit", "committed", "discard",
                          "escalated", "moveSlice", "passed", "down"}]
    /\ merged \in [Slices -> {Absent} \cup [commit : SUBSET Save, base : Nat]]
    /\ passed \subseteq Slices /\ turn \in Slices \cup {None}
    /\ saves \in [Workspace -> Nat] /\ crashes \in 0..MaxCrashes
    /\ owed \in [Slices -> SUBSET Save] /\ tested \in [Slices -> SUBSET Save]

(* The run branch never loses code: a Slice Commit holds what every Slice  *)
(* Commit before it held, though its Workspaces may have started before    *)
(* some of them and its process may have died between any two git          *)
(* commands (mergeSlice and commitSlice).                                  *)
CommittedIsKept ==
    \A i, j \in 1..Len(runBranch) : i < j => runBranch[i] \subseteq runBranch[j]

(* What an agent finished is delivered: the Slice Commit holds the code of *)
(* every completed Step of its Slice, through lost folders, restarts and   *)
(* attempts that failed (openWorkspace, "the saved Steps of a Workspace    *)
(* whose folder was lost are checked out again").  Only a Slice that met a *)
(* peer's commit and was discarded starts over.                            *)
SavedStepsAreCommitted ==
    \A s \in Slices : at[s] = "committed" => owed[s] \subseteq lastSliceCommit

(* Nothing of an interrupted Step gets on the run branch, though its       *)
(* worktree outlives the process that wrote it (resumeRun and              *)
(* resetUnsaved).                                                          *)
NothingCutIsCommitted ==
    \A i \in 1..Len(runBranch) : \A save \in runBranch[i] : save[3] # 0

(* One commit per Slice that passed testing (workspaceManager.ts:4).  Here *)
(* a process that dies between commitSlice and moveSlice builds the Slice  *)
(* again, on top of its own commit, and commits it twice.                  *)
OneCommitPerSlice == Len(runBranch) <= Cardinality(Slices)

mergedFiles(s) == IF mergeBranch[s] = Absent THEN {} ELSE mergeBranch[s].tree

(* What mergedFiles gives an Escalation's brief is the Slice's merged code *)
(* as it was last tested, and empty when the Slice never merged            *)
(* (workspaceManager.ts:133).  Here a merge that conflicts leaves its      *)
(* branch half merged.                                                     *)
MergedFilesWereTested ==
    \A s \in Slices : at[s] = "escalated" => mergedFiles(s) = tested[s]
=============================================================================
