----------------------------- MODULE MCDemoSite -----------------------------
(* A small instance of DemoSite, and of the worker inside it, for TLC.     *)
EXTENDS DemoSite
=============================================================================
