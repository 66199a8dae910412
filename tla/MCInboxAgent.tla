---------------------------- MODULE MCInboxAgent ----------------------------
(* A small scenario for TLC: an email to answer, and two interruptions: one *)
(* that gives the agent orders, and one about a legal risk.                 *)
EXTENDS InboxAgent

Fact(label, risky, injected, start) ==
  [label |-> label, risky |-> risky, injected |-> injected, start |-> start]
ScenarioFacts ==
  1 :> Fact("urgent", FALSE, FALSE, TRUE) @@ 2 :> Fact("spam", FALSE, TRUE, FALSE)
    @@ 3 :> Fact("urgent", TRUE, FALSE, FALSE)
ModelMenu ==
  {Act("reply", 1), Act("escalate", 1), Act("defer", 2)}
Setting(p, g, l, t) == [provider |-> p, gated |-> g, larger |-> l, tools |-> t]
SomeSetups ==
  {Setting(TRUE, FALSE, TRUE, TRUE), Setting(TRUE, TRUE, FALSE, FALSE), Setting(FALSE, FALSE, FALSE, FALSE)}
StepsAsked == [k \in Modes |-> IF k = "llm" THEN 2 ELSE IF k = "stream" THEN 4 ELSE IF k = "inbox" THEN 20 ELSE 9]
=============================================================================
