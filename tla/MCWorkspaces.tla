---------------------------- MODULE MCWorkspaces ----------------------------
(* Two Slices built at the same time, one with both sides, one with one.   *)
EXTENDS Workspaces

MCRole    == <<"backend", "frontend">>
MCSidesOf == [s \in Slices |-> IF s = "A" THEN {"backend", "frontend"} ELSE {"backend"}]
=============================================================================
