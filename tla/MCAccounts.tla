----------------------------- MODULE MCAccounts -----------------------------
(* A small instance of Accounts for TLC.                                   *)
EXTENDS Accounts, TLC

Symmetry == Permutations(Clients) \union Permutations(Emails) \union Permutations(Passwords)
=============================================================================
