--------------------------- MODULE MCActionQueue ---------------------------
(* Small instances of ActionQueue for TLC.                                 *)
EXTENDS ActionQueue, TLC

ReplyAll == [m \in Messages |-> "reply"]
OneRole == [m \in Messages |-> "customer"]
LegalTeam == [m \in Messages |-> "legal_team"]

ReviewerSymmetry == Permutations(Reviewers)
=============================================================================
