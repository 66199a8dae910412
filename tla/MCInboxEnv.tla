----------------------------- MODULE MCInboxEnv -----------------------------
(* A small scenario for TLC: an urgent email to answer, and an interruption *)
(* about a legal risk, critical although not labelled urgent.               *)
EXTENDS InboxEnv, TLC

Fact(l, a, c, r, d, t) ==
  [label |-> l, action |-> a, critical |-> c, risky |-> r, deadline |-> d, trigger |-> t]
ScenarioFacts ==
  1 :> Fact("urgent", "reply", FALSE, FALSE, 1, 0) @@ 2 :> Fact("normal", "escalate", TRUE, TRUE, 1, 2)
ActionCosts ==
  [k \in {"classify", "reply", "escalate", "defer", "prioritize"} |-> IF k = "reply" THEN 2 ELSE 1]
AgentMenu ==
  {Act("classify", 1, "urgent"), Act("classify", 1, "spam"),
   Act("reply", 1, 5), Act("escalate", 2, 1), Act("defer", 1, 0),
   Act("prioritize", NoMail, 3)}
=============================================================================
