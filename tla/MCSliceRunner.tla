--------------------------- MODULE MCSliceRunner ---------------------------
(* The Slice Runner for TLC: a failure is only ever compared with another. *)
EXTENDS SliceRunner, TLC

Symmetry == Permutations(Failures)
=============================================================================
