----------------------------- MODULE PromiseList -----------------------------
(* What the "Waiting on" page promises a workspace: a promise is listed once *)
(* - never lost again once it is listed - and from then on its status is    *)
(* what people say of it, never what a later reading of the mailbox finds.  *)
CONSTANT Promises
VARIABLES list, said

Statuses == {"open", "done", "dropped"}
Init == list = [p \in Promises |-> "unlisted"] /\ said = [p \in Promises |-> "nothing"]

Track(p) ==
  /\ list[p] = "unlisted"
  /\ list' = [list EXCEPT ![p] = "open"]
  /\ UNCHANGED said

\* A person says a listed promise is done, was none, or is open after all.
Decide(p, status) ==
  /\ list[p] # "unlisted"
  /\ list' = [list EXCEPT ![p] = status]
  /\ said' = [said EXCEPT ![p] = status]

Next == \E p \in Promises : Track(p) \/ \E s \in Statuses : Decide(p, s)
Spec == Init /\ [][Next]_<<list, said>>
=============================================================================
