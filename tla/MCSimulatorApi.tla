--------------------------- MODULE MCSimulatorApi ---------------------------
(* A small instance of SimulatorApi for TLC: a run that did well, and one   *)
(* that did not.                                                            *)
EXTENDS SimulatorApi

SomeResults == {[score |-> 1, steps |-> 2], [score |-> 2, steps |-> 1]}
=============================================================================
