-------------------------- MODULE WorkspacesProofs --------------------------
(***************************************************************************)
(* What Workspaces promises for any number of Slices, roles and crashes.   *)
(* The inductive invariant follows the code a side saved: it is on its     *)
(* branch until the Slice is discarded, its Slice's branches do not change *)
(* from the merge to the commit, and a merge holds the branches and all    *)
(* that the run branch held.                                               *)
(***************************************************************************)
EXTENDS Workspaces, TLAPS

\* A Step is opened while its Slice opens, and writes while its Slice codes.
StepsAreTheirs ==
    \A w \in Workspace :
        /\ step[w] = "opened" => at[w[1]] = "open"
        /\ step[w] \in {"coding", "saved"} => at[w[1]] = "code"
        /\ step[w] \in {"opened", "coding"} => folder[w] = "worktree"

\* A side that is opened has a branch until its Slice is discarded.
BranchesAreThere ==
    \A w \in Workspace :
        (\/ step[w] = "opened" \/ at[w[1]] \in {"code", "merge", "test", "commit"}
         \/ folder[w] = "worktree") => branch[w] # Absent

\* A merge holds what it was merged onto, and every branch of its Slice.
MergeHolds ==
    \A s \in Slices : at[s] \in {"test", "commit"} =>
        /\ merged[s] # Absent
        /\ merged[s].base \in 0..Len(runBranch)
        /\ TreeAt(merged[s].base) \subseteq merged[s].commit
        /\ \A w \in Of(s) : branch[w].tree \subseteq merged[s].commit

\* What a completed Step saved is on a branch of its Slice.
OwedIsHeld ==
    \A s \in Slices : \A save \in owed[s] :
        \E w \in Of(s) : branch[w] # Absent /\ save \in branch[w].tree

\* Only a process that is down leaves writes behind, in a worktree.
CutIsDown ==
    \A w \in Workspace :
        /\ unsaved[w] = "cut" => ~Up
        /\ unsaved[w] # "clean" => folder[w] = "worktree"
        /\ unsaved[w] = "writing" => saves[w] > 0

\* No save in it took in what an interrupted Step left behind.
Whole(tree) == \A save \in tree : save[3] # 0

NothingCutIsSaved ==
    /\ \A w \in Workspace : branch[w] # Absent => Whole(branch[w].tree)
    /\ \A s \in Slices : merged[s] # Absent => Whole(merged[s].commit)
    /\ NothingCutIsCommitted

Inv ==
    /\ TypeOK /\ StepsAreTheirs /\ BranchesAreThere /\ MergeHolds /\ OwedIsHeld
    /\ CommittedIsKept /\ SavedStepsAreCommitted /\ CutIsDown /\ NothingCutIsSaved
-----------------------------------------------------------------------------
LEMMA WorkspaceType ==
    \A w \in Workspace : /\ w[1] \in Slices /\ w[2] \in ToSet(Role) /\ w \in Of(w[1])
                         /\ \A n \in Nat : <<w[1], w[2], n>> \in Save
BY DEF Workspace, Of, Save

LEMMA OfType == \A s \in Slices : \A w \in Of(s) : w \in Workspace /\ w[1] = s
BY DEF Of

LEMMA TreeType ==
    ASSUME TypeOK
    PROVE  /\ Len(runBranch) \in Nat
           /\ \A n \in 0..Len(runBranch) : TreeAt(n) \in SUBSET Save
           /\ lastSliceCommit \in SUBSET Save
BY DEF TypeOK, TreeAt, lastSliceCommit

\* While its Slice codes, merges or tests, a side has a branch with code.
LEMMA BranchType ==
    ASSUME TypeOK
    PROVE  \A w \in Workspace : branch[w] # Absent =>
               /\ branch[w] \in [from : Nat, tree : SUBSET Save]
               /\ branch[w].tree \in SUBSET Save /\ branch[w].from \in Nat
BY DEF TypeOK

LEMMA MergedType ==
    ASSUME TypeOK
    PROVE  \A s \in Slices : merged[s] # Absent =>
               /\ merged[s] \in [commit : SUBSET Save, base : Nat]
               /\ merged[s].commit \in SUBSET Save /\ merged[s].base \in Nat
BY DEF TypeOK

LEMMA MergingType ==
    ASSUME TypeOK, BranchesAreThere, NEW s \in Slices, at[s] = "merge", NEW ws \in SUBSET Of(s)
    PROVE  /\ Merging(s, ws) \in SUBSET Save
           /\ lastSliceCommit \subseteq Merging(s, ws)
           /\ \A w \in ws : branch[w].tree \subseteq Merging(s, ws)
<1>1. \A w \in ws : branch[w].tree \in SUBSET Save
  BY BranchType, OfType DEF BranchesAreThere
<1>2. lastSliceCommit \in SUBSET Save
  BY TreeType
<1>3. QED
  BY <1>1, <1>2 DEF Merging, MergeOnto

LEMMA BeforeType == \A w \in Workspace : Before(w) \in SUBSET Of(w[1])
BY DEF Before

LEMMA StartsType ==
    ASSUME TypeOK, NEW w \in Workspace
    PROVE  /\ Starts(w) \in [from : Nat, tree : SUBSET Save]
           /\ Starts(w) # Absent
<1>1. CASE branch[w] # Absent
  BY <1>1, BranchType DEF Starts
<1>2. CASE branch[w] = Absent
  <2>1. Starts(w) = [from |-> Len(runBranch), tree |-> lastSliceCommit]
    BY <1>2 DEF Starts
  <2>2. Starts(w) # Absent
    BY <2>1 DEF Absent
  <2>3. QED
    BY <2>1, <2>2, TreeType
<1>3. QED
  BY <1>1, <1>2

\* A step of Next, one operation of one Slice or Workspace.
LEMMA Steps ==
    ASSUME Next
    PROVE  \/ \E s \in Slices : \/ Code(s) \/ StepStopped(s) \/ SendOn(s) \/ Acquire(s)
                               \/ mergeSlice(s) \/ MergeConflicts(s) \/ TestPasses(s)
                               \/ TestFails(s) \/ commitSlice(s) \/ deleteBranches(s)
                               \/ moveSlice(s)
           \/ \E w \in Workspace : \/ openWorkspace(w) \/ Writes(w) \/ saveWorkspace(w)
                                  \/ CompleteStep(w) \/ resetWorkspace(w)
                                  \/ removeWorktree(w) \/ LoseFolder(w)
           \/ Crash \/ resumeRun
BY OfType DEF Next, runSlice

LEMMA TypeStep ==
    ASSUME TypeOK, StepsAreTheirs, BranchesAreThere, MergeHolds, [Next]_vars
    PROVE  TypeOK'
<1>1. CASE UNCHANGED vars
  BY <1>1, WorkspaceType, OfType, TreeType DEF TypeOK, vars, git, history
<1>2. ASSUME NEW s \in Slices, Code(s)
      PROVE  TypeOK'
  BY <1>2, WorkspaceType, OfType, TreeType DEF TypeOK, Code, Go, git, history
<1>3. ASSUME NEW s \in Slices, StepStopped(s)
      PROVE  TypeOK'
  BY <1>3, WorkspaceType, OfType, TreeType DEF TypeOK, StepStopped, Settled, AgainOrEscalate, Go,
     git, history
<1>4. ASSUME NEW s \in Slices, SendOn(s)
      PROVE  TypeOK'
  BY <1>4, WorkspaceType, OfType, TreeType DEF TypeOK, SendOn, Go, git, history
<1>5. ASSUME NEW s \in Slices, Acquire(s)
      PROVE  TypeOK'
  BY <1>5, WorkspaceType, OfType, TreeType DEF TypeOK, Acquire, Settled, Go, git, history
<1>6. ASSUME NEW s \in Slices, mergeSlice(s)
      PROVE  TypeOK'
  <2>1. Merging(s, Of(s)) \in SUBSET Save
    BY <1>6, MergingType DEF mergeSlice
  <2>2. QED
    BY <1>6, <2>1, TreeType DEF TypeOK, mergeSlice, Go, git, history
<1>7. ASSUME NEW s \in Slices, MergeConflicts(s)
      PROVE  TypeOK'
  <2>1. PICK w \in Of(s) : mergeBranch' = [mergeBranch EXCEPT ![s] = [tree |-> Merging(s, Before(w))]]
    BY <1>7 DEF MergeConflicts
  <2>2. Merging(s, Before(w)) \in SUBSET Save
    BY <1>7, MergingType, BeforeType, OfType DEF MergeConflicts
  <2>3. QED
    BY <1>7, <2>1, <2>2, OfType DEF TypeOK, MergeConflicts, Go, Release, git, history
<1>8. ASSUME NEW s \in Slices, TestPasses(s)
      PROVE  TypeOK'
  BY <1>8, WorkspaceType, OfType, TreeType DEF TypeOK, TestPasses, Go, git, history
<1>9. ASSUME NEW s \in Slices, TestFails(s)
      PROVE  TypeOK'
  BY <1>9, WorkspaceType, OfType, TreeType, MergedType DEF TypeOK, TestFails, AgainOrEscalate, Go,
     Release, git, history, MergeHolds
<1>10. ASSUME NEW s \in Slices, commitSlice(s)
      PROVE  TypeOK'
  BY <1>10, WorkspaceType, OfType, TreeType, MergedType DEF TypeOK, commitSlice, Go, git, history,
     MergeHolds
<1>11. ASSUME NEW s \in Slices, deleteBranches(s)
      PROVE  TypeOK'
  <2>1. branch' \in [Workspace -> {Absent} \cup [from : Nat, tree : SUBSET Save]]
    BY <1>11 DEF TypeOK, deleteBranches
  <2>2. folder' \in [Workspace -> {"none", "stray", "worktree"}]
    BY <1>11 DEF TypeOK, deleteBranches
  <2>3. mergeBranch' \in [Slices -> {Absent} \cup [tree : SUBSET Save]]
    BY <1>11 DEF TypeOK, deleteBranches
  <2>4. /\ step' \in [Workspace -> {"idle", "opened", "coding", "saved", "done", "stopped"}]
        /\ turn' \in Slices \cup {None}
    BY <1>11 DEF TypeOK, deleteBranches, Release
  <2>5. at' \in [Slices -> {"open", "code", "merge", "test", "commit", "committed", "discard",
                            "escalated", "moveSlice", "passed", "down"}]
    BY <1>11 DEF TypeOK, deleteBranches, AgainOrEscalate, Go
  <2>6. owed' \in [Slices -> SUBSET Save] /\ tested' \in [Slices -> SUBSET Save]
    BY <1>11 DEF TypeOK, deleteBranches
  <2>7. QED
    BY <1>11, <2>1, <2>2, <2>3, <2>4, <2>5, <2>6 DEF TypeOK, deleteBranches
<1>12. ASSUME NEW s \in Slices, moveSlice(s)
      PROVE  TypeOK'
  BY <1>12, WorkspaceType, OfType, TreeType DEF TypeOK, moveSlice, Go, Release, git, history
<1>13. ASSUME NEW w \in Workspace, openWorkspace(w)
      PROVE  TypeOK'
  <2>1. branch' \in [Workspace -> {Absent} \cup [from : Nat, tree : SUBSET Save]]
    BY <1>13, StartsType DEF TypeOK, openWorkspace, git
  <2>2. folder' \in [Workspace -> {"none", "stray", "worktree"}]
    BY <1>13 DEF TypeOK, openWorkspace, git
  <2>3. unsaved' \in [Workspace -> {"clean", "writing", "cut"}]
    BY <1>13 DEF TypeOK, openWorkspace
  <2>4. QED
    BY <1>13, <2>1, <2>2, <2>3 DEF TypeOK, openWorkspace, history
<1>14. ASSUME NEW w \in Workspace, Writes(w)
      PROVE  TypeOK'
  BY <1>14, WorkspaceType, OfType, TreeType DEF TypeOK, Writes, git, history
<1>15. ASSUME NEW w \in Workspace, saveWorkspace(w)
      PROVE  TypeOK'
  <2>1. branch[w] # Absent /\ branch[w] \in [from : Nat, tree : SUBSET Save]
    BY <1>15, BranchType, WorkspaceType DEF saveWorkspace, BranchesAreThere, StepsAreTheirs
  <2>2. Saved(w) \in Save
    BY WorkspaceType DEF Saved, TypeOK
  <2>3. branch' \in [Workspace -> {Absent} \cup [from : Nat, tree : SUBSET Save]]
    <3>1. CASE unsaved[w] = "clean"
      BY <1>15, <3>1 DEF saveWorkspace, TypeOK
    <3>2. CASE unsaved[w] # "clean"
      <4>1. [from |-> branch[w].from, tree |-> branch[w].tree \cup {Saved(w)}]
               \in [from : Nat, tree : SUBSET Save]
        BY <2>1, <2>2
      <4>2. branch' = [branch EXCEPT ![w] = [from |-> branch[w].from,
                                            tree |-> branch[w].tree \cup {Saved(w)}]]
        BY <1>15, <3>2 DEF saveWorkspace
      <4>3. QED
        BY <4>1, <4>2 DEF TypeOK
    <3>3. QED
      BY <3>1, <3>2
  <2>4. QED
    BY <1>15, <2>3 DEF TypeOK, saveWorkspace, git, history
<1>16. ASSUME NEW w \in Workspace, CompleteStep(w)
      PROVE  TypeOK'
  <2>1. branch[w].tree \in SUBSET Save
    BY <1>16, BranchType, WorkspaceType DEF CompleteStep, BranchesAreThere, StepsAreTheirs
  <2>2. QED
    BY <1>16, <2>1, WorkspaceType DEF TypeOK, CompleteStep, git, history
<1>17. ASSUME NEW w \in Workspace, resetWorkspace(w)
      PROVE  TypeOK'
  BY <1>17, WorkspaceType, OfType, TreeType DEF TypeOK, resetWorkspace, git, history
<1>18. ASSUME NEW w \in Workspace, removeWorktree(w)
      PROVE  TypeOK'
  BY <1>18, WorkspaceType, OfType, TreeType DEF TypeOK, removeWorktree, Discarding, git, history
<1>19. ASSUME NEW w \in Workspace, LoseFolder(w)
      PROVE  TypeOK'
  BY <1>19, WorkspaceType, OfType, TreeType DEF TypeOK, LoseFolder, Up, git, history
<1>20. CASE Crash
  BY <1>20, WorkspaceType, OfType, TreeType, ConstantsAssumption DEF TypeOK, Crash, Up, git,
     history, ConstantsAssumption
<1>21. CASE resumeRun
  BY <1>21, WorkspaceType, OfType, TreeType DEF TypeOK, resumeRun, resetUnsaved, Up, git, history
<1>22. QED
  BY Steps, <1>1, <1>2, <1>3, <1>4, <1>5, <1>6, <1>7, <1>8, <1>9, <1>10, <1>11, <1>12, <1>13,
     <1>14, <1>15, <1>16, <1>17, <1>18, <1>19, <1>20, <1>21

LEMMA StepsStep ==
    ASSUME TypeOK, StepsAreTheirs, [Next]_vars
    PROVE  StepsAreTheirs'
<1>1. CASE UNCHANGED vars
  BY <1>1, WorkspaceType, OfType DEF TypeOK, StepsAreTheirs, vars, git, history
<1>2. ASSUME NEW s \in Slices, Code(s)
      PROVE  StepsAreTheirs'
  BY <1>2, WorkspaceType, OfType DEF TypeOK, StepsAreTheirs, Code, Go, git, history
<1>3. ASSUME NEW s \in Slices, StepStopped(s)
      PROVE  StepsAreTheirs'
  BY <1>3, WorkspaceType, OfType DEF TypeOK, StepsAreTheirs, StepStopped, Settled, AgainOrEscalate,
     Go, git, history
<1>4. ASSUME NEW s \in Slices, SendOn(s)
      PROVE  StepsAreTheirs'
  BY <1>4, WorkspaceType, OfType DEF TypeOK, StepsAreTheirs, SendOn, Go, git, history
<1>5. ASSUME NEW s \in Slices, Acquire(s)
      PROVE  StepsAreTheirs'
  BY <1>5, WorkspaceType, OfType DEF TypeOK, StepsAreTheirs, Acquire, Settled, Go, git, history
<1>6. ASSUME NEW s \in Slices, mergeSlice(s)
      PROVE  StepsAreTheirs'
  BY <1>6, WorkspaceType, OfType DEF TypeOK, StepsAreTheirs, mergeSlice, Go, git, history
<1>7. ASSUME NEW s \in Slices, MergeConflicts(s)
      PROVE  StepsAreTheirs'
  BY <1>7, WorkspaceType, OfType DEF TypeOK, StepsAreTheirs, MergeConflicts, Go, Release, git,
     history
<1>8. ASSUME NEW s \in Slices, TestPasses(s)
      PROVE  StepsAreTheirs'
  BY <1>8, WorkspaceType, OfType DEF TypeOK, StepsAreTheirs, TestPasses, Go, git, history
<1>9. ASSUME NEW s \in Slices, TestFails(s)
      PROVE  StepsAreTheirs'
  BY <1>9, WorkspaceType, OfType DEF TypeOK, StepsAreTheirs, TestFails, AgainOrEscalate, Go,
     Release, git, history
<1>10. ASSUME NEW s \in Slices, commitSlice(s)
      PROVE  StepsAreTheirs'
  BY <1>10, WorkspaceType, OfType DEF TypeOK, StepsAreTheirs, commitSlice, Go, git, history
<1>11. ASSUME NEW s \in Slices, deleteBranches(s)
      PROVE  StepsAreTheirs'
  <2>1. \A w \in Workspace : w[1] # s => at'[w[1]] = at[w[1]]
    BY <1>11, WorkspaceType DEF TypeOK, deleteBranches, Go, AgainOrEscalate
  <2>2. \A w \in Workspace : w[1] = s => step[w] \notin {"opened", "coding", "saved"}
    BY <1>11 DEF StepsAreTheirs, deleteBranches, Discarding
  <2>3. \A w \in Workspace : step'[w] = step[w] \/ step'[w] = "idle"
    BY <1>11 DEF TypeOK, deleteBranches, Release
  <2>4. \A w \in Workspace : w[1] # s => folder'[w] = folder[w]
    BY <1>11 DEF TypeOK, deleteBranches, Of
  <2>5. QED
    BY <2>1, <2>2, <2>3, <2>4 DEF StepsAreTheirs
<1>12. ASSUME NEW s \in Slices, moveSlice(s)
      PROVE  StepsAreTheirs'
  BY <1>12, WorkspaceType, OfType DEF TypeOK, StepsAreTheirs, moveSlice, Go, Release, git, history
<1>13. ASSUME NEW w \in Workspace, openWorkspace(w)
      PROVE  StepsAreTheirs'
  BY <1>13, WorkspaceType, OfType DEF TypeOK, StepsAreTheirs, openWorkspace, git, history
<1>14. ASSUME NEW w \in Workspace, Writes(w)
      PROVE  StepsAreTheirs'
  BY <1>14, WorkspaceType, OfType DEF TypeOK, StepsAreTheirs, Writes, git, history
<1>15. ASSUME NEW w \in Workspace, saveWorkspace(w)
      PROVE  StepsAreTheirs'
  BY <1>15, WorkspaceType, OfType DEF TypeOK, StepsAreTheirs, saveWorkspace, git, history
<1>16. ASSUME NEW w \in Workspace, CompleteStep(w)
      PROVE  StepsAreTheirs'
  BY <1>16, WorkspaceType, OfType DEF TypeOK, StepsAreTheirs, CompleteStep, git, history
<1>17. ASSUME NEW w \in Workspace, resetWorkspace(w)
      PROVE  StepsAreTheirs'
  BY <1>17, WorkspaceType, OfType DEF TypeOK, StepsAreTheirs, resetWorkspace, git, history
<1>18. ASSUME NEW w \in Workspace, removeWorktree(w)
      PROVE  StepsAreTheirs'
  BY <1>18, WorkspaceType, OfType DEF TypeOK, StepsAreTheirs, removeWorktree, Discarding, git,
     history
<1>19. ASSUME NEW w \in Workspace, LoseFolder(w)
      PROVE  StepsAreTheirs'
  BY <1>19, WorkspaceType, OfType DEF TypeOK, StepsAreTheirs, LoseFolder, Up, git, history
<1>20. CASE Crash
  BY <1>20, WorkspaceType, OfType DEF TypeOK, StepsAreTheirs, Crash, Up, git, history
<1>21. CASE resumeRun
  BY <1>21, WorkspaceType, OfType DEF TypeOK, StepsAreTheirs, resumeRun, resetUnsaved, Up, git,
     history
<1>22. QED
  BY Steps, <1>1, <1>2, <1>3, <1>4, <1>5, <1>6, <1>7, <1>8, <1>9, <1>10, <1>11, <1>12, <1>13,
     <1>14, <1>15, <1>16, <1>17, <1>18, <1>19, <1>20, <1>21

LEMMA BranchesStep ==
    ASSUME TypeOK, StepsAreTheirs, BranchesAreThere, [Next]_vars
    PROVE  BranchesAreThere'
<1>1. CASE UNCHANGED vars
  BY <1>1, WorkspaceType, OfType DEF TypeOK, BranchesAreThere, vars, git, history
<1>2. ASSUME NEW s \in Slices, Code(s)
      PROVE  BranchesAreThere'
  <2>1. \A w \in Workspace : w[1] = s => branch[w] # Absent
    BY <1>2, WorkspaceType DEF Code, BranchesAreThere
  <2>2. QED
    BY <1>2, <2>1, OfType DEF TypeOK, BranchesAreThere, Code, Go, git
<1>3. ASSUME NEW s \in Slices, StepStopped(s)
      PROVE  BranchesAreThere'
  BY <1>3, WorkspaceType, OfType DEF TypeOK, BranchesAreThere, StepStopped, Settled,
     AgainOrEscalate, Go, git, history
<1>4. ASSUME NEW s \in Slices, SendOn(s)
      PROVE  BranchesAreThere'
  BY <1>4, WorkspaceType, OfType DEF TypeOK, BranchesAreThere, SendOn, Go, git, history
<1>5. ASSUME NEW s \in Slices, Acquire(s)
      PROVE  BranchesAreThere'
  BY <1>5, WorkspaceType, OfType DEF TypeOK, BranchesAreThere, Acquire, Settled, Go, git, history
<1>6. ASSUME NEW s \in Slices, mergeSlice(s)
      PROVE  BranchesAreThere'
  BY <1>6, WorkspaceType, OfType DEF TypeOK, BranchesAreThere, mergeSlice, Go, git, history
<1>7. ASSUME NEW s \in Slices, MergeConflicts(s)
      PROVE  BranchesAreThere'
  BY <1>7, WorkspaceType, OfType DEF TypeOK, BranchesAreThere, MergeConflicts, Go, Release, git,
     history
<1>8. ASSUME NEW s \in Slices, TestPasses(s)
      PROVE  BranchesAreThere'
  BY <1>8, WorkspaceType, OfType DEF TypeOK, BranchesAreThere, TestPasses, Go, git, history
<1>9. ASSUME NEW s \in Slices, TestFails(s)
      PROVE  BranchesAreThere'
  BY <1>9, WorkspaceType, OfType DEF TypeOK, BranchesAreThere, TestFails, AgainOrEscalate, Go,
     Release, git, history
<1>10. ASSUME NEW s \in Slices, commitSlice(s)
      PROVE  BranchesAreThere'
  BY <1>10, WorkspaceType, OfType DEF TypeOK, BranchesAreThere, commitSlice, Go, git, history
<1>11. ASSUME NEW s \in Slices, deleteBranches(s)
      PROVE  BranchesAreThere'
  <2>1. \A w \in Workspace : w[1] # s => /\ at'[w[1]] = at[w[1]] /\ branch'[w] = branch[w]
                                        /\ step'[w] = step[w] /\ folder'[w] = folder[w]
    BY <1>11, WorkspaceType DEF TypeOK, deleteBranches, Release, Go, AgainOrEscalate, Of
  <2>2. \A w \in Workspace : w[1] = s => /\ step[w] \notin {"opened", "coding", "saved"}
                                         /\ step'[w] = step[w] \/ step'[w] = "idle"
                                         /\ folder'[w] = "none"
    BY <1>11, WorkspaceType DEF TypeOK, StepsAreTheirs, deleteBranches, Discarding, Release
  <2>3. at'[s] \in {"moveSlice", "open", "escalated"}
    BY <1>11 DEF TypeOK, deleteBranches, Go, AgainOrEscalate
  <2>4. ASSUME NEW w \in Workspace
        PROVE  (\/ step'[w] = "opened" \/ at'[w[1]] \in {"code", "merge", "test", "commit"}
                \/ folder'[w] = "worktree") => branch'[w] # Absent
    <3>1. CASE w[1] = s
      BY <2>2, <2>3, <3>1
    <3>2. CASE w[1] # s
      BY <2>1, <3>2 DEF BranchesAreThere
    <3>3. QED
      BY <3>1, <3>2
  <2>5. QED
    BY <2>4 DEF BranchesAreThere
<1>12. ASSUME NEW s \in Slices, moveSlice(s)
      PROVE  BranchesAreThere'
  BY <1>12, WorkspaceType, OfType DEF TypeOK, BranchesAreThere, moveSlice, Go, Release, git, history
<1>13. ASSUME NEW w \in Workspace, openWorkspace(w)
      PROVE  BranchesAreThere'
  <2>1. /\ step' = [step EXCEPT ![w] = "opened"]
        /\ at' = at
    BY <1>13 DEF openWorkspace
  <2>2. CASE folder[w] = "worktree"
    BY <1>13, <2>1, <2>2 DEF TypeOK, openWorkspace, git, BranchesAreThere
  <2>3. CASE folder[w] # "worktree"
    <3>1. /\ branch' = [branch EXCEPT ![w] = Starts(w)]
          /\ folder' = [folder EXCEPT ![w] = "worktree"]
      BY <1>13, <2>3 DEF openWorkspace
    <3>2. Starts(w) # Absent
      BY StartsType
    <3>3. QED
      BY <2>1, <3>1, <3>2 DEF TypeOK, BranchesAreThere
  <2>4. QED
    BY <2>2, <2>3
<1>14. ASSUME NEW w \in Workspace, Writes(w)
      PROVE  BranchesAreThere'
  BY <1>14, WorkspaceType, OfType DEF TypeOK, BranchesAreThere, Writes, git, history
<1>15. ASSUME NEW w \in Workspace, saveWorkspace(w)
      PROVE  BranchesAreThere'
  <2>1. CASE unsaved[w] = "clean"
    BY <1>15, <2>1 DEF TypeOK, BranchesAreThere, saveWorkspace
  <2>2. CASE unsaved[w] # "clean"
    <3>1. branch' = [branch EXCEPT ![w] = [from |-> branch[w].from,
                                          tree |-> branch[w].tree \cup {Saved(w)}]]
      BY <1>15, <2>2 DEF saveWorkspace
    <3>2. [from |-> branch[w].from, tree |-> branch[w].tree \cup {Saved(w)}] # Absent
      BY DEF Absent
    <3>3. QED
      BY <1>15, <3>1, <3>2 DEF TypeOK, BranchesAreThere, saveWorkspace
  <2>3. QED
    BY <2>1, <2>2
<1>16. ASSUME NEW w \in Workspace, CompleteStep(w)
      PROVE  BranchesAreThere'
  BY <1>16, WorkspaceType, OfType DEF TypeOK, BranchesAreThere, CompleteStep, git, history
<1>17. ASSUME NEW w \in Workspace, resetWorkspace(w)
      PROVE  BranchesAreThere'
  BY <1>17, WorkspaceType, OfType DEF TypeOK, BranchesAreThere, resetWorkspace, git, history
<1>18. ASSUME NEW w \in Workspace, removeWorktree(w)
      PROVE  BranchesAreThere'
  BY <1>18, WorkspaceType, OfType DEF TypeOK, BranchesAreThere, removeWorktree, Discarding, git,
     history
<1>19. ASSUME NEW w \in Workspace, LoseFolder(w)
      PROVE  BranchesAreThere'
  BY <1>19, WorkspaceType, OfType DEF TypeOK, BranchesAreThere, LoseFolder, Up, git, history
<1>20. CASE Crash
  BY <1>20, WorkspaceType, OfType DEF TypeOK, BranchesAreThere, Crash, Up, git, history
<1>21. CASE resumeRun
  BY <1>21, WorkspaceType, OfType DEF TypeOK, BranchesAreThere, resumeRun, resetUnsaved, Up, git,
     history
<1>22. QED
  BY Steps, <1>1, <1>2, <1>3, <1>4, <1>5, <1>6, <1>7, <1>8, <1>9, <1>10, <1>11, <1>12, <1>13,
     <1>14, <1>15, <1>16, <1>17, <1>18, <1>19, <1>20, <1>21

LEMMA MergeStep ==
    ASSUME TypeOK, StepsAreTheirs, BranchesAreThere, MergeHolds, [Next]_vars
    PROVE  MergeHolds'
<1>1. CASE UNCHANGED vars
  BY <1>1, WorkspaceType, OfType DEF TypeOK, MergeHolds, TreeAt, vars, git, history
<1>2. ASSUME NEW s \in Slices, Code(s)
      PROVE  MergeHolds'
  BY <1>2, WorkspaceType, OfType DEF TypeOK, MergeHolds, TreeAt, Code, Go, git, history
<1>3. ASSUME NEW s \in Slices, StepStopped(s)
      PROVE  MergeHolds'
  BY <1>3, WorkspaceType, OfType DEF TypeOK, MergeHolds, TreeAt, StepStopped, Settled,
     AgainOrEscalate, Go, git, history
<1>4. ASSUME NEW s \in Slices, SendOn(s)
      PROVE  MergeHolds'
  BY <1>4, WorkspaceType, OfType DEF TypeOK, MergeHolds, TreeAt, SendOn, Go, git, history
<1>5. ASSUME NEW s \in Slices, Acquire(s)
      PROVE  MergeHolds'
  BY <1>5, WorkspaceType, OfType DEF TypeOK, MergeHolds, TreeAt, Acquire, Settled, Go, git, history
<1>6. ASSUME NEW s \in Slices, mergeSlice(s)
      PROVE  MergeHolds'
  <2>1. /\ Merging(s, Of(s)) \in SUBSET Save /\ lastSliceCommit \subseteq Merging(s, Of(s))
        /\ \A w \in Of(s) : branch[w].tree \subseteq Merging(s, Of(s))
    BY <1>6, MergingType DEF mergeSlice
  <2>2. merged' = [merged EXCEPT ![s] = [commit |-> Merging(s, Of(s)), base |-> Len(runBranch)]]
    BY <1>6 DEF mergeSlice
  <2>3. [commit |-> Merging(s, Of(s)), base |-> Len(runBranch)] # Absent
    BY DEF Absent
  <2>4. TreeAt(Len(runBranch)) = lastSliceCommit /\ Len(runBranch) \in Nat
    BY TreeType DEF lastSliceCommit
  <2>5. \A n : TreeAt(n)' = TreeAt(n)
    BY <1>6 DEF mergeSlice, TreeAt
  <2>6. QED
    BY <1>6, <2>1, <2>2, <2>3, <2>4, <2>5 DEF TypeOK, MergeHolds, mergeSlice, Go, git
<1>7. ASSUME NEW s \in Slices, MergeConflicts(s)
      PROVE  MergeHolds'
  BY <1>7, WorkspaceType, OfType DEF TypeOK, MergeHolds, TreeAt, MergeConflicts, Go, Release, git,
     history
<1>8. ASSUME NEW s \in Slices, TestPasses(s)
      PROVE  MergeHolds'
  BY <1>8, WorkspaceType, OfType DEF TypeOK, MergeHolds, TreeAt, TestPasses, Go, git, history
<1>9. ASSUME NEW s \in Slices, TestFails(s)
      PROVE  MergeHolds'
  BY <1>9, WorkspaceType, OfType DEF TypeOK, MergeHolds, TreeAt, TestFails, AgainOrEscalate, Go,
     Release, git, history
<1>10. ASSUME NEW s \in Slices, commitSlice(s)
      PROVE  MergeHolds'
  <2>1. /\ \A n \in 0..Len(runBranch) : TreeAt(n)' = TreeAt(n)
        /\ Len(runBranch') = Len(runBranch) + 1
    BY <1>10 DEF TypeOK, commitSlice, TreeAt
  <2>2. QED
    BY <1>10, <2>1 DEF TypeOK, MergeHolds, commitSlice, Go, git
<1>11. ASSUME NEW s \in Slices, deleteBranches(s)
      PROVE  MergeHolds'
  <2>1. /\ \A w \in Workspace : w[1] # s => branch'[w] = branch[w]
        /\ at'[s] \in {"moveSlice", "open", "escalated"}
        /\ \A r \in Slices : r # s => at'[r] = at[r]
    BY <1>11, WorkspaceType DEF TypeOK, deleteBranches, Go, AgainOrEscalate, Of
  <2>2. \A n : TreeAt(n)' = TreeAt(n)
    BY <1>11 DEF deleteBranches, TreeAt
  <2>3. QED
    BY <1>11, <2>1, <2>2, OfType DEF MergeHolds, deleteBranches
<1>12. ASSUME NEW s \in Slices, moveSlice(s)
      PROVE  MergeHolds'
  BY <1>12, WorkspaceType, OfType DEF TypeOK, MergeHolds, TreeAt, moveSlice, Go, Release, git,
     history
<1>13. ASSUME NEW w \in Workspace, openWorkspace(w)
      PROVE  MergeHolds'
  <2>1. \A v \in Workspace : v # w => branch'[v] = branch[v]
    BY <1>13 DEF TypeOK, openWorkspace, git
  <2>2. \A n : TreeAt(n)' = TreeAt(n)
    BY <1>13 DEF openWorkspace, TreeAt
  <2>3. QED
    BY <1>13, <2>1, <2>2, OfType DEF MergeHolds, openWorkspace
<1>14. ASSUME NEW w \in Workspace, Writes(w)
      PROVE  MergeHolds'
  BY <1>14, WorkspaceType, OfType DEF TypeOK, MergeHolds, TreeAt, Writes, git, history
<1>15. ASSUME NEW w \in Workspace, saveWorkspace(w)
      PROVE  MergeHolds'
  <2>1. at[w[1]] = "code" /\ \A v \in Workspace : v # w => branch'[v] = branch[v]
    BY <1>15 DEF TypeOK, saveWorkspace, StepsAreTheirs
  <2>2. \A n : TreeAt(n)' = TreeAt(n)
    BY <1>15 DEF saveWorkspace, TreeAt
  <2>3. QED
    BY <1>15, <2>1, <2>2, OfType DEF MergeHolds, saveWorkspace
<1>16. ASSUME NEW w \in Workspace, CompleteStep(w)
      PROVE  MergeHolds'
  BY <1>16, WorkspaceType, OfType DEF TypeOK, MergeHolds, TreeAt, CompleteStep, git, history
<1>17. ASSUME NEW w \in Workspace, resetWorkspace(w)
      PROVE  MergeHolds'
  BY <1>17, WorkspaceType, OfType DEF TypeOK, MergeHolds, TreeAt, resetWorkspace, git, history
<1>18. ASSUME NEW w \in Workspace, removeWorktree(w)
      PROVE  MergeHolds'
  BY <1>18, WorkspaceType, OfType DEF TypeOK, MergeHolds, TreeAt, removeWorktree, Discarding, git,
     history
<1>19. ASSUME NEW w \in Workspace, LoseFolder(w)
      PROVE  MergeHolds'
  BY <1>19, WorkspaceType, OfType DEF TypeOK, MergeHolds, TreeAt, LoseFolder, Up, git, history
<1>20. CASE Crash
  BY <1>20, WorkspaceType, OfType DEF TypeOK, MergeHolds, TreeAt, Crash, Up, git, history
<1>21. CASE resumeRun
  BY <1>21, WorkspaceType, OfType DEF TypeOK, MergeHolds, TreeAt, resumeRun, resetUnsaved, Up, git,
     history
<1>22. QED
  BY Steps, <1>1, <1>2, <1>3, <1>4, <1>5, <1>6, <1>7, <1>8, <1>9, <1>10, <1>11, <1>12, <1>13,
     <1>14, <1>15, <1>16, <1>17, <1>18, <1>19, <1>20, <1>21

LEMMA OwedStep ==
    ASSUME TypeOK, StepsAreTheirs, BranchesAreThere, OwedIsHeld, [Next]_vars
    PROVE  OwedIsHeld'
<1>1. CASE UNCHANGED vars
  BY <1>1, WorkspaceType, OfType DEF TypeOK, OwedIsHeld, vars, git, history
<1>2. ASSUME NEW s \in Slices, Code(s)
      PROVE  OwedIsHeld'
  BY <1>2, WorkspaceType, OfType DEF TypeOK, OwedIsHeld, Code, Go, git, history
<1>3. ASSUME NEW s \in Slices, StepStopped(s)
      PROVE  OwedIsHeld'
  BY <1>3, WorkspaceType, OfType DEF TypeOK, OwedIsHeld, StepStopped, Settled, AgainOrEscalate, Go,
     git, history
<1>4. ASSUME NEW s \in Slices, SendOn(s)
      PROVE  OwedIsHeld'
  BY <1>4, WorkspaceType, OfType DEF TypeOK, OwedIsHeld, SendOn, Go, git, history
<1>5. ASSUME NEW s \in Slices, Acquire(s)
      PROVE  OwedIsHeld'
  BY <1>5, WorkspaceType, OfType DEF TypeOK, OwedIsHeld, Acquire, Settled, Go, git, history
<1>6. ASSUME NEW s \in Slices, mergeSlice(s)
      PROVE  OwedIsHeld'
  BY <1>6, WorkspaceType, OfType DEF TypeOK, OwedIsHeld, mergeSlice, Go, git, history
<1>7. ASSUME NEW s \in Slices, MergeConflicts(s)
      PROVE  OwedIsHeld'
  BY <1>7, WorkspaceType, OfType DEF TypeOK, OwedIsHeld, MergeConflicts, Go, Release, git, history
<1>8. ASSUME NEW s \in Slices, TestPasses(s)
      PROVE  OwedIsHeld'
  BY <1>8, WorkspaceType, OfType DEF TypeOK, OwedIsHeld, TestPasses, Go, git, history
<1>9. ASSUME NEW s \in Slices, TestFails(s)
      PROVE  OwedIsHeld'
  BY <1>9, WorkspaceType, OfType DEF TypeOK, OwedIsHeld, TestFails, AgainOrEscalate, Go, Release,
     git, history
<1>10. ASSUME NEW s \in Slices, commitSlice(s)
      PROVE  OwedIsHeld'
  BY <1>10, WorkspaceType, OfType DEF TypeOK, OwedIsHeld, commitSlice, Go, git, history
<1>11. ASSUME NEW s \in Slices, deleteBranches(s)
      PROVE  OwedIsHeld'
  <2>1. /\ \A w \in Workspace : w[1] # s => branch'[w] = branch[w]
        /\ owed'[s] = {} /\ \A r \in Slices : r # s => owed'[r] = owed[r]
    BY <1>11, WorkspaceType DEF TypeOK, deleteBranches, Of
  <2>2. QED
    BY <2>1, OfType DEF OwedIsHeld
<1>12. ASSUME NEW s \in Slices, moveSlice(s)
      PROVE  OwedIsHeld'
  BY <1>12, WorkspaceType, OfType DEF TypeOK, OwedIsHeld, moveSlice, Go, Release, git, history
<1>13. ASSUME NEW w \in Workspace, openWorkspace(w)
      PROVE  OwedIsHeld'
  <2>1. CASE branch[w] # Absent
    <3>1. branch' = branch /\ owed' = owed
      BY <1>13, <2>1 DEF TypeOK, openWorkspace, Starts, git, history
    <3>2. QED
      BY <3>1 DEF OwedIsHeld
  <2>2. CASE branch[w] = Absent
    <3>1. owed' = owed /\ \A v \in Workspace : branch[v] # Absent => branch'[v] = branch[v]
      BY <1>13, <2>2 DEF TypeOK, openWorkspace, git, history
    <3>2. QED
      BY <3>1, OfType DEF OwedIsHeld
  <2>3. QED
    BY <2>1, <2>2
<1>14. ASSUME NEW w \in Workspace, Writes(w)
      PROVE  OwedIsHeld'
  BY <1>14, WorkspaceType, OfType DEF TypeOK, OwedIsHeld, Writes, git, history
<1>15. ASSUME NEW w \in Workspace, saveWorkspace(w)
      PROVE  OwedIsHeld'
  <2>1. branch[w] # Absent /\ owed' = owed
    BY <1>15, WorkspaceType DEF saveWorkspace, BranchesAreThere, StepsAreTheirs, history
  <2>2. CASE unsaved[w] = "clean"
    BY <1>15, <2>1, <2>2 DEF OwedIsHeld, saveWorkspace
  <2>3. CASE unsaved[w] # "clean"
    <3>1. branch' = [branch EXCEPT ![w] = [from |-> branch[w].from,
                                          tree |-> branch[w].tree \cup {Saved(w)}]]
      BY <1>15, <2>3 DEF saveWorkspace
    <3>2. [from |-> branch[w].from, tree |-> branch[w].tree \cup {Saved(w)}] # Absent
      BY DEF Absent
    <3>3. \A v \in Workspace : branch[v] # Absent =>
             branch'[v] # Absent /\ branch[v].tree \subseteq branch'[v].tree
      BY <3>1, <3>2 DEF TypeOK
    <3>4. QED
      BY <2>1, <3>3, OfType DEF OwedIsHeld
  <2>4. QED
    BY <2>2, <2>3
<1>16. ASSUME NEW w \in Workspace, CompleteStep(w)
      PROVE  OwedIsHeld'
  <2>1. branch[w] # Absent
    BY <1>16, WorkspaceType DEF CompleteStep, BranchesAreThere, StepsAreTheirs
  <2>2. branch' = branch /\ \A s \in Slices : \A save \in owed'[s] :
           save \in owed[s] \/ (s = w[1] /\ save \in branch[w].tree)
    BY <1>16, WorkspaceType DEF TypeOK, CompleteStep, git
  <2>3. QED
    BY <2>1, <2>2, WorkspaceType DEF OwedIsHeld
<1>17. ASSUME NEW w \in Workspace, resetWorkspace(w)
      PROVE  OwedIsHeld'
  BY <1>17, WorkspaceType, OfType DEF TypeOK, OwedIsHeld, resetWorkspace, git, history
<1>18. ASSUME NEW w \in Workspace, removeWorktree(w)
      PROVE  OwedIsHeld'
  BY <1>18, WorkspaceType, OfType DEF TypeOK, OwedIsHeld, removeWorktree, Discarding, git, history
<1>19. ASSUME NEW w \in Workspace, LoseFolder(w)
      PROVE  OwedIsHeld'
  BY <1>19, WorkspaceType, OfType DEF TypeOK, OwedIsHeld, LoseFolder, Up, git, history
<1>20. CASE Crash
  BY <1>20, WorkspaceType, OfType DEF TypeOK, OwedIsHeld, Crash, Up, git, history
<1>21. CASE resumeRun
  BY <1>21, WorkspaceType, OfType DEF TypeOK, OwedIsHeld, resumeRun, resetUnsaved, Up, git, history
<1>22. QED
  BY Steps, <1>1, <1>2, <1>3, <1>4, <1>5, <1>6, <1>7, <1>8, <1>9, <1>10, <1>11, <1>12, <1>13,
     <1>14, <1>15, <1>16, <1>17, <1>18, <1>19, <1>20, <1>21

\* Only a Slice Commit moves the run branch, onto the base it was merged onto.
LEMMA CommittedStep ==
    ASSUME TypeOK, MergeHolds, CommittedIsKept, [Next]_vars
    PROVE  /\ CommittedIsKept'
           /\ lastSliceCommit \subseteq lastSliceCommit'
<1>1. CASE runBranch' = runBranch
  BY <1>1 DEF CommittedIsKept, lastSliceCommit, TreeAt
<1>2. ASSUME NEW s \in Slices, commitSlice(s)
      PROVE  /\ CommittedIsKept'
             /\ lastSliceCommit \subseteq lastSliceCommit'
  <2>1. /\ runBranch' = Append(runBranch, merged[s].commit)
        /\ Len(runBranch) = merged[s].base /\ TreeAt(Len(runBranch)) \subseteq merged[s].commit
    BY <1>2 DEF commitSlice, MergeHolds
  <2>2. /\ Len(runBranch') = Len(runBranch) + 1 /\ Len(runBranch) \in Nat
        /\ runBranch'[Len(runBranch) + 1] = merged[s].commit
        /\ \A i \in 1..Len(runBranch) : runBranch'[i] = runBranch[i]
    BY <2>1 DEF TypeOK
  <2>3. \A i \in 1..Len(runBranch) : runBranch[i] \subseteq merged[s].commit
    BY <2>1, <2>2 DEF CommittedIsKept, TreeAt
  <2>4. CommittedIsKept'
    BY <2>2, <2>3 DEF CommittedIsKept
  <2>5. lastSliceCommit' = merged[s].commit
    BY <2>2 DEF lastSliceCommit, TreeAt
  <2>6. QED
    BY <2>1, <2>4, <2>5 DEF lastSliceCommit
<1>3. runBranch' = runBranch \/ \E s \in Slices : commitSlice(s)
  BY OfType DEF Next, runSlice, vars, Code, StepStopped, SendOn, Acquire, mergeSlice, MergeConflicts,
     TestPasses, TestFails, deleteBranches, moveSlice, openWorkspace, Writes, saveWorkspace,
     CompleteStep, resetWorkspace, removeWorktree, Crash, LoseFolder, resumeRun
<1>4. QED
  BY <1>1, <1>2, <1>3

LEMMA SavedStep ==
    ASSUME TypeOK, MergeHolds, OwedIsHeld, CommittedIsKept, SavedStepsAreCommitted,
           StepsAreTheirs, [Next]_vars
    PROVE  SavedStepsAreCommitted'
<1>1. CASE UNCHANGED vars
  BY <1>1, WorkspaceType, CommittedStep DEF TypeOK, SavedStepsAreCommitted, vars, git, history
<1>2. ASSUME NEW s \in Slices, Code(s)
      PROVE  SavedStepsAreCommitted'
  BY <1>2, WorkspaceType, CommittedStep DEF TypeOK, SavedStepsAreCommitted, Code, Go, git, history
<1>3. ASSUME NEW s \in Slices, StepStopped(s)
      PROVE  SavedStepsAreCommitted'
  BY <1>3, WorkspaceType, CommittedStep DEF TypeOK, SavedStepsAreCommitted, StepStopped, Settled,
     AgainOrEscalate, Go, git, history
<1>4. ASSUME NEW s \in Slices, SendOn(s)
      PROVE  SavedStepsAreCommitted'
  BY <1>4, WorkspaceType, CommittedStep DEF TypeOK, SavedStepsAreCommitted, SendOn, Go, git, history
<1>5. ASSUME NEW s \in Slices, Acquire(s)
      PROVE  SavedStepsAreCommitted'
  BY <1>5, WorkspaceType, CommittedStep DEF TypeOK, SavedStepsAreCommitted, Acquire, Settled, Go,
     git, history
<1>6. ASSUME NEW s \in Slices, mergeSlice(s)
      PROVE  SavedStepsAreCommitted'
  BY <1>6, WorkspaceType, CommittedStep DEF TypeOK, SavedStepsAreCommitted, mergeSlice, Go, git,
     history
<1>7. ASSUME NEW s \in Slices, MergeConflicts(s)
      PROVE  SavedStepsAreCommitted'
  BY <1>7, WorkspaceType, CommittedStep DEF TypeOK, SavedStepsAreCommitted, MergeConflicts, Go,
     Release, git, history
<1>8. ASSUME NEW s \in Slices, TestPasses(s)
      PROVE  SavedStepsAreCommitted'
  BY <1>8, WorkspaceType, CommittedStep DEF TypeOK, SavedStepsAreCommitted, TestPasses, Go, git,
     history
<1>9. ASSUME NEW s \in Slices, TestFails(s)
      PROVE  SavedStepsAreCommitted'
  BY <1>9, WorkspaceType, CommittedStep DEF TypeOK, SavedStepsAreCommitted, TestFails,
     AgainOrEscalate, Go, Release, git, history
<1>10. ASSUME NEW s \in Slices, commitSlice(s)
      PROVE  SavedStepsAreCommitted'
  <2>1. owed[s] \subseteq merged[s].commit
    BY <1>10, OfType DEF commitSlice, MergeHolds, OwedIsHeld
  <2>2. lastSliceCommit' = merged[s].commit
    BY <1>10 DEF TypeOK, commitSlice, lastSliceCommit, TreeAt
  <2>3. QED
    BY <1>10, <2>1, <2>2, CommittedStep DEF TypeOK, SavedStepsAreCommitted, commitSlice, Go, history
<1>11. ASSUME NEW s \in Slices, deleteBranches(s)
      PROVE  SavedStepsAreCommitted'
  <2>1. /\ \A r \in Slices : r # s => at'[r] = at[r] /\ owed'[r] = owed[r]
        /\ owed'[s] = {}
    BY <1>11 DEF TypeOK, deleteBranches, Go, AgainOrEscalate
  <2>2. QED
    BY <2>1, CommittedStep DEF SavedStepsAreCommitted
<1>12. ASSUME NEW s \in Slices, moveSlice(s)
      PROVE  SavedStepsAreCommitted'
  BY <1>12, WorkspaceType, CommittedStep DEF TypeOK, SavedStepsAreCommitted, moveSlice, Go, Release,
     git, history
<1>13. ASSUME NEW w \in Workspace, openWorkspace(w)
      PROVE  SavedStepsAreCommitted'
  BY <1>13, WorkspaceType, CommittedStep DEF TypeOK, SavedStepsAreCommitted, openWorkspace, git,
     history
<1>14. ASSUME NEW w \in Workspace, Writes(w)
      PROVE  SavedStepsAreCommitted'
  BY <1>14, WorkspaceType, CommittedStep DEF TypeOK, SavedStepsAreCommitted, Writes, git, history
<1>15. ASSUME NEW w \in Workspace, saveWorkspace(w)
      PROVE  SavedStepsAreCommitted'
  BY <1>15, WorkspaceType, CommittedStep DEF TypeOK, SavedStepsAreCommitted, saveWorkspace, git,
     history
<1>16. ASSUME NEW w \in Workspace, CompleteStep(w)
      PROVE  SavedStepsAreCommitted'
  <2>1. at[w[1]] = "code" /\ at' = at /\ \A s \in Slices : s # w[1] => owed'[s] = owed[s]
    BY <1>16 DEF TypeOK, CompleteStep, StepsAreTheirs
  <2>2. QED
    BY <2>1, CommittedStep DEF SavedStepsAreCommitted
<1>17. ASSUME NEW w \in Workspace, resetWorkspace(w)
      PROVE  SavedStepsAreCommitted'
  BY <1>17, WorkspaceType, CommittedStep DEF TypeOK, SavedStepsAreCommitted, resetWorkspace, git,
     history
<1>18. ASSUME NEW w \in Workspace, removeWorktree(w)
      PROVE  SavedStepsAreCommitted'
  BY <1>18, WorkspaceType, CommittedStep DEF TypeOK, SavedStepsAreCommitted, removeWorktree,
     Discarding, git, history
<1>19. ASSUME NEW w \in Workspace, LoseFolder(w)
      PROVE  SavedStepsAreCommitted'
  BY <1>19, WorkspaceType, CommittedStep DEF TypeOK, SavedStepsAreCommitted, LoseFolder, Up, git,
     history
<1>20. CASE Crash
  BY <1>20, WorkspaceType, CommittedStep DEF TypeOK, SavedStepsAreCommitted, Crash, Up, git, history
<1>21. CASE resumeRun
  BY <1>21, WorkspaceType, CommittedStep DEF TypeOK, SavedStepsAreCommitted, resumeRun,
     resetUnsaved, Up, git, history
<1>22. QED
  BY Steps, <1>1, <1>2, <1>3, <1>4, <1>5, <1>6, <1>7, <1>8, <1>9, <1>10, <1>11, <1>12, <1>13,
     <1>14, <1>15, <1>16, <1>17, <1>18, <1>19, <1>20, <1>21

LEMMA CutStep ==
    ASSUME TypeOK, CutIsDown, StepsAreTheirs, BranchesAreThere, [Next]_vars
    PROVE  CutIsDown'
<1>1. CASE UNCHANGED vars
  BY <1>1, WorkspaceType, OfType DEF TypeOK, CutIsDown, Up, vars, git, history
<1>2. ASSUME NEW s \in Slices, Code(s)
      PROVE  CutIsDown'
  BY <1>2, WorkspaceType, OfType DEF TypeOK, CutIsDown, Up, Code, Go, git, history
<1>3. ASSUME NEW s \in Slices, StepStopped(s)
      PROVE  CutIsDown'
  BY <1>3, WorkspaceType, OfType DEF TypeOK, CutIsDown, Up, StepStopped, Settled, AgainOrEscalate,
     Go, git, history
<1>4. ASSUME NEW s \in Slices, SendOn(s)
      PROVE  CutIsDown'
  BY <1>4, WorkspaceType, OfType DEF TypeOK, CutIsDown, Up, SendOn, Go, git, history
<1>5. ASSUME NEW s \in Slices, Acquire(s)
      PROVE  CutIsDown'
  BY <1>5, WorkspaceType, OfType DEF TypeOK, CutIsDown, Up, Acquire, Settled, Go, git, history
<1>6. ASSUME NEW s \in Slices, mergeSlice(s)
      PROVE  CutIsDown'
  BY <1>6, WorkspaceType, OfType DEF TypeOK, CutIsDown, Up, mergeSlice, Go, git, history
<1>7. ASSUME NEW s \in Slices, MergeConflicts(s)
      PROVE  CutIsDown'
  BY <1>7, WorkspaceType, OfType DEF TypeOK, CutIsDown, Up, MergeConflicts, Go, Release, git,
     history
<1>8. ASSUME NEW s \in Slices, TestPasses(s)
      PROVE  CutIsDown'
  BY <1>8, WorkspaceType, OfType DEF TypeOK, CutIsDown, Up, TestPasses, Go, git, history
<1>9. ASSUME NEW s \in Slices, TestFails(s)
      PROVE  CutIsDown'
  BY <1>9, WorkspaceType, OfType DEF TypeOK, CutIsDown, Up, TestFails, AgainOrEscalate, Go, Release,
     git, history
<1>10. ASSUME NEW s \in Slices, commitSlice(s)
      PROVE  CutIsDown'
  BY <1>10, WorkspaceType, OfType DEF TypeOK, CutIsDown, Up, commitSlice, Go, git, history
<1>11. ASSUME NEW s \in Slices, deleteBranches(s)
      PROVE  CutIsDown'
  BY <1>11, WorkspaceType, OfType DEF TypeOK, CutIsDown, Up, deleteBranches, AgainOrEscalate, Go,
     Release, Discarding, git, history
<1>12. ASSUME NEW s \in Slices, moveSlice(s)
      PROVE  CutIsDown'
  BY <1>12, WorkspaceType, OfType DEF TypeOK, CutIsDown, Up, moveSlice, Go, Release, git, history
<1>13. ASSUME NEW w \in Workspace, openWorkspace(w)
      PROVE  CutIsDown'
  BY <1>13, WorkspaceType, OfType DEF TypeOK, CutIsDown, Up, openWorkspace, git, history
<1>14. ASSUME NEW w \in Workspace, Writes(w)
      PROVE  CutIsDown'
  BY <1>14, WorkspaceType, OfType DEF TypeOK, CutIsDown, Up, Writes, git, history, StepsAreTheirs
<1>15. ASSUME NEW w \in Workspace, saveWorkspace(w)
      PROVE  CutIsDown'
  BY <1>15, WorkspaceType, OfType DEF TypeOK, CutIsDown, Up, saveWorkspace, git, history
<1>16. ASSUME NEW w \in Workspace, CompleteStep(w)
      PROVE  CutIsDown'
  BY <1>16, WorkspaceType, OfType DEF TypeOK, CutIsDown, Up, CompleteStep, git, history
<1>17. ASSUME NEW w \in Workspace, resetWorkspace(w)
      PROVE  CutIsDown'
  BY <1>17, WorkspaceType, OfType DEF TypeOK, CutIsDown, Up, resetWorkspace, git, history
<1>18. ASSUME NEW w \in Workspace, removeWorktree(w)
      PROVE  CutIsDown'
  BY <1>18, WorkspaceType, OfType DEF TypeOK, CutIsDown, Up, removeWorktree, Discarding, git,
     history
<1>19. ASSUME NEW w \in Workspace, LoseFolder(w)
      PROVE  CutIsDown'
  BY <1>19, WorkspaceType, OfType DEF TypeOK, CutIsDown, Up, LoseFolder, Up, git, history
<1>20. CASE Crash
  BY <1>20, WorkspaceType, OfType DEF TypeOK, CutIsDown, Up, Crash, Up, git, history
<1>21. CASE resumeRun
  BY <1>21, WorkspaceType, OfType DEF TypeOK, CutIsDown, Up, resumeRun, resetUnsaved, Up, git,
     history
<1>22. QED
  BY Steps, <1>1, <1>2, <1>3, <1>4, <1>5, <1>6, <1>7, <1>8, <1>9, <1>10, <1>11, <1>12, <1>13,
     <1>14, <1>15, <1>16, <1>17, <1>18, <1>19, <1>20, <1>21

LEMMA WholeStep ==
    ASSUME TypeOK, CutIsDown, StepsAreTheirs, BranchesAreThere, MergeHolds, NothingCutIsSaved, [Next]_vars
    PROVE  NothingCutIsSaved'
<1>1. CASE UNCHANGED vars
  BY <1>1, WorkspaceType, OfType DEF TypeOK, NothingCutIsSaved, NothingCutIsCommitted, vars, git,
     history
<1>2. ASSUME NEW s \in Slices, Code(s)
      PROVE  NothingCutIsSaved'
  BY <1>2, WorkspaceType, OfType DEF TypeOK, NothingCutIsSaved, NothingCutIsCommitted, Code, Go,
     git, history
<1>3. ASSUME NEW s \in Slices, StepStopped(s)
      PROVE  NothingCutIsSaved'
  BY <1>3, WorkspaceType, OfType DEF TypeOK, NothingCutIsSaved, NothingCutIsCommitted, StepStopped,
     Settled, AgainOrEscalate, Go, git, history
<1>4. ASSUME NEW s \in Slices, SendOn(s)
      PROVE  NothingCutIsSaved'
  BY <1>4, WorkspaceType, OfType DEF TypeOK, NothingCutIsSaved, NothingCutIsCommitted, SendOn, Go,
     git, history
<1>5. ASSUME NEW s \in Slices, Acquire(s)
      PROVE  NothingCutIsSaved'
  BY <1>5, WorkspaceType, OfType DEF TypeOK, NothingCutIsSaved, NothingCutIsCommitted, Acquire,
     Settled, Go, git, history
<1>6. ASSUME NEW s \in Slices, mergeSlice(s)
      PROVE  NothingCutIsSaved'
  <2>1. Whole(lastSliceCommit)
    BY TreeType DEF NothingCutIsSaved, NothingCutIsCommitted, lastSliceCommit, TreeAt, Whole
  <2>2. \A w \in Of(s) : Whole(branch[w].tree)
    BY <1>6, OfType DEF NothingCutIsSaved, BranchesAreThere, mergeSlice
  <2>3. Whole(Merging(s, Of(s)))
    BY <2>1, <2>2 DEF Whole, Merging, MergeOnto
  <2>4. merged' = [merged EXCEPT ![s] = [commit |-> Merging(s, Of(s)), base |-> Len(runBranch)]]
    BY <1>6 DEF mergeSlice
  <2>5. branch' = branch /\ runBranch' = runBranch
    BY <1>6 DEF mergeSlice, git
  <2>6. QED
    BY <2>3, <2>4, <2>5 DEF TypeOK, NothingCutIsSaved, NothingCutIsCommitted
<1>7. ASSUME NEW s \in Slices, MergeConflicts(s)
      PROVE  NothingCutIsSaved'
  BY <1>7, WorkspaceType, OfType DEF TypeOK, NothingCutIsSaved, NothingCutIsCommitted,
     MergeConflicts, Go, Release, git, history
<1>8. ASSUME NEW s \in Slices, TestPasses(s)
      PROVE  NothingCutIsSaved'
  BY <1>8, WorkspaceType, OfType DEF TypeOK, NothingCutIsSaved, NothingCutIsCommitted, TestPasses,
     Go, git, history
<1>9. ASSUME NEW s \in Slices, TestFails(s)
      PROVE  NothingCutIsSaved'
  BY <1>9, WorkspaceType, OfType DEF TypeOK, NothingCutIsSaved, NothingCutIsCommitted, TestFails,
     AgainOrEscalate, Go, Release, git, history
<1>10. ASSUME NEW s \in Slices, commitSlice(s)
      PROVE  NothingCutIsSaved'
  <2>1. merged[s] # Absent /\ Whole(merged[s].commit)
    BY <1>10 DEF commitSlice, MergeHolds, NothingCutIsSaved
  <2>2. /\ Len(runBranch') = Len(runBranch) + 1 /\ Len(runBranch) \in Nat
        /\ runBranch'[Len(runBranch) + 1] = merged[s].commit
        /\ \A i \in 1..Len(runBranch) : runBranch'[i] = runBranch[i]
    BY <1>10 DEF TypeOK, commitSlice
  <2>3. NothingCutIsCommitted'
    BY <2>1, <2>2 DEF NothingCutIsSaved, NothingCutIsCommitted, Whole
  <2>4. QED
    BY <1>10, <2>3 DEF NothingCutIsSaved, commitSlice, git
<1>11. ASSUME NEW s \in Slices, deleteBranches(s)
      PROVE  NothingCutIsSaved'
  BY <1>11, WorkspaceType, OfType DEF TypeOK, NothingCutIsSaved, NothingCutIsCommitted,
     deleteBranches, AgainOrEscalate, Go, Release, Discarding, git, history
<1>12. ASSUME NEW s \in Slices, moveSlice(s)
      PROVE  NothingCutIsSaved'
  BY <1>12, WorkspaceType, OfType DEF TypeOK, NothingCutIsSaved, NothingCutIsCommitted, moveSlice,
     Go, Release, git, history
<1>13. ASSUME NEW w \in Workspace, openWorkspace(w)
      PROVE  NothingCutIsSaved'
  <2>1. Whole(lastSliceCommit)
    BY TreeType DEF NothingCutIsSaved, NothingCutIsCommitted, lastSliceCommit, TreeAt, Whole
  <2>2. Whole(Starts(w).tree)
    BY <2>1 DEF Starts, NothingCutIsSaved
  <2>3. branch' = branch \/ branch' = [branch EXCEPT ![w] = Starts(w)]
    BY <1>13 DEF openWorkspace, git
  <2>4. \A v \in Workspace : branch'[v] # Absent => Whole(branch'[v].tree)
    BY <2>2, <2>3 DEF TypeOK, NothingCutIsSaved
  <2>5. QED
    BY <1>13, <2>4 DEF NothingCutIsSaved, NothingCutIsCommitted, openWorkspace
<1>14. ASSUME NEW w \in Workspace, Writes(w)
      PROVE  NothingCutIsSaved'
  BY <1>14, WorkspaceType, OfType DEF TypeOK, NothingCutIsSaved, NothingCutIsCommitted, Writes, git,
     history
<1>15. ASSUME NEW w \in Workspace, saveWorkspace(w)
      PROVE  NothingCutIsSaved'
  <2>1. branch[w] # Absent /\ Whole(branch[w].tree)
    BY <1>15, WorkspaceType DEF saveWorkspace, BranchesAreThere, StepsAreTheirs, NothingCutIsSaved
  <2>2. unsaved[w] # "clean" => unsaved[w] = "writing" /\ saves[w] > 0
    BY <1>15, WorkspaceType DEF TypeOK, CutIsDown, StepsAreTheirs, saveWorkspace, Up
  <2>3. unsaved[w] # "clean" => Saved(w)[3] # 0
    BY <2>2 DEF Saved, TypeOK
  <2>4. \A v \in Workspace : branch'[v] # Absent => Whole(branch'[v].tree)
    <3>1. CASE unsaved[w] = "clean"
      BY <1>15, <3>1 DEF saveWorkspace, NothingCutIsSaved
    <3>2. CASE unsaved[w] # "clean"
      <4>1. branch' = [branch EXCEPT ![w] = [from |-> branch[w].from,
                                            tree |-> branch[w].tree \cup {Saved(w)}]]
        BY <1>15, <3>2 DEF saveWorkspace
      <4>2. Whole(branch[w].tree \cup {Saved(w)})
        BY <2>1, <2>3, <3>2 DEF Whole
      <4>3. QED
        BY <4>1, <4>2 DEF TypeOK, NothingCutIsSaved
    <3>3. QED
      BY <3>1, <3>2
  <2>5. QED
    BY <1>15, <2>4 DEF NothingCutIsSaved, NothingCutIsCommitted, saveWorkspace
<1>16. ASSUME NEW w \in Workspace, CompleteStep(w)
      PROVE  NothingCutIsSaved'
  BY <1>16, WorkspaceType, OfType DEF TypeOK, NothingCutIsSaved, NothingCutIsCommitted,
     CompleteStep, git, history
<1>17. ASSUME NEW w \in Workspace, resetWorkspace(w)
      PROVE  NothingCutIsSaved'
  BY <1>17, WorkspaceType, OfType DEF TypeOK, NothingCutIsSaved, NothingCutIsCommitted,
     resetWorkspace, git, history
<1>18. ASSUME NEW w \in Workspace, removeWorktree(w)
      PROVE  NothingCutIsSaved'
  BY <1>18, WorkspaceType, OfType DEF TypeOK, NothingCutIsSaved, NothingCutIsCommitted,
     removeWorktree, Discarding, git, history
<1>19. ASSUME NEW w \in Workspace, LoseFolder(w)
      PROVE  NothingCutIsSaved'
  BY <1>19, WorkspaceType, OfType DEF TypeOK, NothingCutIsSaved, NothingCutIsCommitted, LoseFolder,
     Up, git, history
<1>20. CASE Crash
  BY <1>20, WorkspaceType, OfType DEF TypeOK, NothingCutIsSaved, NothingCutIsCommitted, Crash, Up,
     git, history
<1>21. CASE resumeRun
  BY <1>21, WorkspaceType, OfType DEF TypeOK, NothingCutIsSaved, NothingCutIsCommitted, resumeRun,
     resetUnsaved, Up, git, history
<1>22. QED
  BY Steps, <1>1, <1>2, <1>3, <1>4, <1>5, <1>6, <1>7, <1>8, <1>9, <1>10, <1>11, <1>12, <1>13,
     <1>14, <1>15, <1>16, <1>17, <1>18, <1>19, <1>20, <1>21

(* The invariant is inductive, for any number of Slices, roles and crashes *)
(* of the Workspace manager.                                               *)
THEOREM Inductive == Spec => []Inv
<1>1. Init => Inv
  <2>1. ASSUME Init PROVE TypeOK
    BY <2>1, ConstantsAssumption DEF Init, TypeOK
  <2>2. QED
    <3>1. ASSUME Init
          PROVE  StepsAreTheirs /\ BranchesAreThere /\ MergeHolds /\ OwedIsHeld /\ CutIsDown
      BY <3>1, WorkspaceType
         DEF Init, StepsAreTheirs, BranchesAreThere, MergeHolds, OwedIsHeld, CutIsDown
    <3>2. ASSUME Init
          PROVE  CommittedIsKept /\ SavedStepsAreCommitted /\ NothingCutIsSaved
      BY <3>2 DEF Init, CommittedIsKept, SavedStepsAreCommitted, NothingCutIsSaved,
                  NothingCutIsCommitted
    <3>3. QED
      BY <2>1, <3>1, <3>2 DEF Inv
<1>2. Inv /\ [Next]_vars => Inv'
  BY TypeStep, StepsStep, BranchesStep, MergeStep, OwedStep, CommittedStep, SavedStep, CutStep,
     WholeStep DEF Inv
<1>3. QED
  BY <1>1, <1>2, PTL DEF Spec

(* Every variable of the Workspace manager has its type. *)
THEOREM WorkspaceTypeCorrect == Spec => []TypeOK
BY Inductive, PTL DEF Inv

(* The run branch never loses code (mergeSlice and commitSlice). *)
THEOREM RunBranchGrows == Spec => []CommittedIsKept
BY Inductive, PTL DEF Inv

(* A Slice Commit holds every completed Step of its Slice (openWorkspace   *)
(* checks a lost Workspace out again, mergeSlice takes every side).        *)
THEOREM CompletedStepsAreCommitted == Spec => []SavedStepsAreCommitted
BY Inductive, PTL DEF Inv

(* Nothing of an interrupted Step is committed (resetUnsaved). *)
THEOREM InterruptedStepsAreNot == Spec => []NothingCutIsCommitted
BY Inductive, PTL DEF Inv, NothingCutIsSaved

=============================================================================
