------------------------- MODULE MCRunOrchestrator -------------------------
(***************************************************************************)
(* Small instances of RunOrchestrator for TLC.                             *)
(***************************************************************************)
EXTENDS RunOrchestrator

\* Every Slice after the Walking Skeleton depends on it alone.
OnSkeleton == [s \in 1..N |-> IF s = 1 THEN {} ELSE {1}]

\* Every Slice is independent.
Independent == [s \in 1..N |-> {}]

\* Each Slice builds on all before it, as when the plan says nothing.
InOrder == [s \in 1..N |-> 1..(s - 1)]
=============================================================================
