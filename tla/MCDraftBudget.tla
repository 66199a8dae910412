---------------------------- MODULE MCDraftBudget ----------------------------
(* The instances of DraftBudget that TLC checks.                            *)
EXTENDS DraftBudget
=============================================================================
