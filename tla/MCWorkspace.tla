---------------------------- MODULE MCWorkspace ----------------------------
(* Small instances of Workspace for TLC.                                   *)
EXTENDS Workspace, TLC

TrialAndTeam == [k \in Keys |-> IF k = Trial THEN 2 ELSE 1]

RequestSymmetry == Permutations(Requests)
=============================================================================
