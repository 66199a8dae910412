------------------------------ MODULE InboxEnv ------------------------------
(***************************************************************************)
(* The inbox simulator (research/sim/environment.py), its grader           *)
(* (research/sim/grader.py) and the endpoints that drive the one episode   *)
(* the server shares (/reset and /step of app/main.py).  The handlers run  *)
(* in a thread pool and take no lock: requests meet between the calls that *)
(* make up a step.  Rewards are in tenths.                                 *)
(***************************************************************************)
EXTENDS Integers, Sequences, FiniteSets

CONSTANTS
  Players,      \* callers of the one episode
  Mails,        \* ids of the emails of the scenario
  Facts,        \* what the scenario says of each: expected_label, expected_action,
                \* critical, risky (legal or security), deadline, trigger minute or 0
  Cost,         \* action_cost_minutes
  Budget,       \* time_budget
  Menu,         \* bound: the actions the agents choose from
  MaxSteps,     \* bound: actions of an episode
  MaxResets     \* bound: resets after the first

VARIABLES
  env,         \* runtime_env
  turn,         \* the step of each player: where it is, its action, its reward
  resets,
  overlapped   \* history: two requests met in this episode

envVars == <<env, turn, resets, overlapped>>

Labels == {"spam", "normal", "urgent"}
NoMail == 0
Act(type, id, arg) == [type |-> type, id |-> id, arg |-> arg]
\* An action carries what it earns where that is a matter of its text: the quality of
\* a reply, the similarity of a ranking, the right addressee of an escalation.
Actions ==
  {Act("classify", m, l) : m \in Mails, l \in Labels}
  \union {Act("reply", m, quality) : m \in Mails, quality \in 0 .. 5}
  \union {Act("escalate", m, right) : m \in Mails, right \in {0, 1}}
  \union {Act("defer", m, 0) : m \in Mails}
  \union {Act("prioritize", NoMail, similarity) : similarity \in 0 .. 3}

EmailRecord ==
  [label : Labels \union {"none"}, act : {"none", "reply", "escalate", "defer"},
   resolved : BOOLEAN, quality : 0 .. 5, left : Int]
Record(m) == [label |-> "none", act |-> "none", resolved |-> FALSE, quality |-> 0,
              left |-> Facts[m].deadline]

ASSUME EnvAssumption ==
  /\ IsFiniteSet(Mails) /\ Mails \subseteq Nat \ {0} /\ {Budget, MaxSteps, MaxResets} \subseteq Nat
  /\ Facts \in [Mails -> [label : Labels, action : {"reply", "escalate", "defer", "ignore"},
                          critical : BOOLEAN, risky : BOOLEAN, deadline : Int, trigger : Nat]]
  /\ \A k \in {"classify", "reply", "escalate", "defer", "prioritize"} : Cost[k] \in Nat \ {0}
  /\ Menu \subseteq Actions /\ Menu # {} /\ MaxSteps >= Budget + Cardinality(Players)

----------------------------------------------------------------------------
(* ExecutiveEmailEnv as functions on the episode.  The inbox has a record  *)
(* for each email that arrived; its order is of no consequence.            *)

Start == {m \in Mails : Facts[m].trigger = 0}
Later == Mails \ Start

\* reset, from build_scenario.
Fresh ==
  [mail |-> [m \in Start |-> Record(m)], waiting |-> Later, remaining |-> Budget, minute |-> 0,
   history |-> << >>, total |-> 0, charged |-> {}, ranked |-> 0]

\* compute_pending_actions
Pending(e) == {m \in DOMAIN e.mail : Facts[m].label # "spam" /\ ~e.mail[m].resolved}

\* _is_done
Done(e) == e.remaining <= 0 \/ (e.waiting = {} /\ Pending(e) = {})

AtLeast(low, x) == IF x < low THEN low ELSE x
AtMost(high, x) == IF x > high THEN high ELSE x
Clamp(x) == AtLeast(-10, AtMost(10, x))

\* _advance_time
Advance(e, a) ==
  LET cost == Cost[a.type] IN
  [e EXCEPT !.remaining = AtLeast(0, @ - cost), !.minute = @ + cost,
            !.mail = [m \in DOMAIN e.mail |->
                        IF e.mail[m].resolved THEN e.mail[m]
                        ELSE [e.mail[m] EXCEPT !.left = @ - cost]]]

\* _inject_interruptions
Arrived(e) == {m \in e.waiting : Facts[m].trigger <= e.minute}
Inject(e) ==
  [e EXCEPT !.mail = [m \in DOMAIN e.mail \union Arrived(e) |->
                        IF m \in Arrived(e) THEN Record(m) ELSE e.mail[m]],
            !.waiting = @ \ Arrived(e)]

Redundant(e) == [env |-> e, reward |-> -1]
Gives(e, m, rec, reward) == [env |-> [e EXCEPT !.mail[m] = rec], reward |-> reward]

\* _handle_classify
Classify(e, a) ==
  IF e.mail[a.id].label # "none" THEN Redundant(e)
  ELSE Gives(e, a.id, [e.mail[a.id] EXCEPT !.label = a.arg, !.resolved = @ \/ a.arg = "spam"],
             IF a.arg = Facts[a.id].label THEN 2 ELSE 0)

\* _handle_reply
Reply(e, a) ==
  LET f == Facts[a.id]
      wrong == IF f.action = "reply" THEN 0 ELSE IF f.critical THEN 10 ELSE 2
  IN IF e.mail[a.id].resolved THEN Redundant(e)
     ELSE Gives(e, a.id, [e.mail[a.id] EXCEPT !.act = "reply", !.resolved = TRUE, !.quality = a.arg],
                a.arg - wrong)

\* _handle_escalate
Escalate(e, a) ==
  LET f == Facts[a.id]
      reward == IF f.action = "escalate" THEN 4 + a.arg
                ELSE IF f.action = "reply" /\ f.critical THEN -3 ELSE -1
  IN IF e.mail[a.id].resolved THEN Redundant(e)
     ELSE Gives(e, a.id, [e.mail[a.id] EXCEPT !.act = "escalate", !.resolved = TRUE], reward)

\* Mutant: an email that was dealt with is deferred.
DeferAgain(e, a) ==
  LET f == Facts[a.id]
      reward == IF f.action = "defer" THEN 1 ELSE IF f.label = "urgent" THEN -7 ELSE -1
  IN Gives(e, a.id, [e.mail[a.id] EXCEPT !.act = "defer", !.resolved = @ \/ f.action = "defer"],
           reward)

\* _handle_defer
Defer(e, a) ==
  LET f == Facts[a.id]
      reward == IF f.action = "defer" THEN 1 ELSE IF f.label = "urgent" THEN -7 ELSE -1
  IN IF e.mail[a.id].resolved THEN Redundant(e)
     ELSE Gives(e, a.id, [e.mail[a.id] EXCEPT !.act = "defer", !.resolved = (f.action = "defer")],
                reward)

\* _handle_prioritize
Prioritize(e, a) == [env |-> [e EXCEPT !.ranked = AtLeast(@, a.arg)], reward |-> a.arg]

\* _find_email
Found(e, id) == id \in DOMAIN e.mail

Handle(e, a) ==
  IF a.type = "prioritize" THEN Prioritize(e, a)
  ELSE IF ~Found(e, a.id) THEN Redundant(e)
  ELSE CASE a.type = "classify" -> Classify(e, a)
         [] a.type = "reply" -> Reply(e, a)
         [] a.type = "escalate" -> Escalate(e, a)
         [] a.type = "defer" -> Defer(e, a)

\* _apply_deadline_penalties: who is late.
Urgent(m) == Facts[m].label = "urgent"
Overdue(e) ==
  {m \in DOMAIN e.mail : /\ ~e.mail[m].resolved /\ e.mail[m].left <= 0
                         /\ Urgent(m) \/ Facts[m].critical}

\* The end of step: penalties, the clamp, the history and the total.
Settle(e, a, reward) ==
  LET late == Overdue(e) \ e.charged
      earned == Clamp(reward - 7 * Cardinality(late))
  IN [e EXCEPT !.charged = @ \union late, !.history = Append(@, a), !.total = @ + earned]

\* _terminal_penalty
TerminalPenalty(e) ==
  LET open == {m \in DOMAIN e.mail : ~e.mail[m].resolved} IN
  5 * Cardinality({m \in open : Urgent(m)})
    + 4 * Cardinality({m \in open : Facts[m].critical /\ Facts[m].risky})

Finish(e) == IF Done(e) THEN [e EXCEPT !.total = @ - TerminalPenalty(e)] ELSE e

\* A whole step; a finished episode is left alone.
Step(e, a) ==
  LET ready == Inject(Advance(e, a))
      handled == Handle(ready, a)
  IN IF Done(e) THEN e ELSE Finish(Settle(handled.env, a, handled.reward))

\* metrics: what was earned of each measure, and of how much.  A ranking is judged by the
\* best one, and a reply that was wanted and not sent is worth nothing.
Labelled(e) == {m \in DOMAIN e.mail : e.mail[m].label = Facts[m].label}
Actionable(e) == {m \in DOMAIN e.mail : Facts[m].action # "ignore"}
Handled(e) == {m \in Actionable(e) : e.mail[m].act = Facts[m].action}
ToReply(e) == {m \in DOMAIN e.mail : Facts[m].action = "reply"}
Points(e) ==
  {mp \in ToReply(e) \X (1 .. 5) : e.mail[mp[1]].act = "reply" /\ mp[2] <= e.mail[mp[1]].quality}
Wanted(e) == {m \in DOMAIN e.mail : Facts[m].label # "spam"}
Resolved(e) == {m \in Wanted(e) : e.mail[m].resolved}
metrics(e) ==
  [classification_accuracy |-> <<Cardinality(Labelled(e)), Cardinality(DOMAIN e.mail)>>,
   action_correctness |-> <<Cardinality(Handled(e)), Cardinality(Actionable(e))>>,
   response_quality |-> <<Cardinality(Points(e)), 5 * Cardinality(ToReply(e))>>,
   prioritization |-> <<e.ranked, 3>>,
   resolved_ratio |-> <<Cardinality(Resolved(e)), Cardinality(Wanted(e))>>]

\* evaluate_trajectory plays the actions on an environment of its own.
Play(actions) ==
  LET after[n \in 0 .. Len(actions)] == IF n = 0 THEN Fresh ELSE Step(after[n - 1], actions[n])
  IN after[Len(actions)]

----------------------------------------------------------------------------
(* The requests.                                                           *)

NoTurn == [pc |-> "idle", act |-> Act("prioritize", NoMail, 0), reward |-> 0]
Playing == {p \in Players : turn[p].pc # "idle"}
TurnAt(p, pc) == turn[p].pc = pc
Meets(p) == overlapped' = (overlapped \/ Playing \ {p} # {})

\* Mutant: nothing happens while no email is open.
StepBeginPending(p, a) ==
  /\ TurnAt(p, "idle") /\ ~Done(env) /\ Pending(env) # {} /\ Len(env.history) < MaxSteps
  /\ env' = Inject(Advance(env, a))
  /\ turn' = [turn EXCEPT ![p] = [pc |-> "handle", act |-> a, reward |-> 0]]
  /\ Meets(p) /\ UNCHANGED resets

\* step: the episode goes on; time passes and interruptions arrive.
StepBegin(p, a) ==
  /\ TurnAt(p, "idle") /\ ~Done(env) /\ Len(env.history) < MaxSteps
  /\ env' = Inject(Advance(env, a))
  /\ turn' = [turn EXCEPT ![p] = [pc |-> "handle", act |-> a, reward |-> 0]]
  /\ Meets(p) /\ UNCHANGED resets

StepHandle(p) ==
  LET h == Handle(env, turn[p].act) IN
  /\ TurnAt(p, "handle") /\ env' = h.env
  /\ turn' = [turn EXCEPT ![p].pc = "settle", ![p].reward = h.reward]
  /\ UNCHANGED <<resets, overlapped>>

StepSettle(p) ==
  /\ TurnAt(p, "settle") /\ turn' = [turn EXCEPT ![p].pc = "finish"]
  /\ env' = Settle(env, turn[p].act, turn[p].reward)
  /\ UNCHANGED <<resets, overlapped>>

StepFinish(p) ==
  /\ TurnAt(p, "finish") /\ turn' = [turn EXCEPT ![p] = NoTurn] /\ env' = Finish(env)
  /\ UNCHANGED <<resets, overlapped>>

\* Mutant: who was charged stays charged in the next episode.
ResetKeepsCharged(p) ==
  /\ TurnAt(p, "idle") /\ resets < MaxResets /\ resets' = resets + 1
  /\ env' = [Fresh EXCEPT !.charged = env.charged]
  /\ overlapped' = (Playing # {}) /\ UNCHANGED turn

\* reset: a new episode, and no quarrel with the last one unless a step is under way.
Reset(p) ==
  /\ TurnAt(p, "idle") /\ resets < MaxResets /\ resets' = resets + 1
  /\ env' = Fresh
  /\ overlapped' = (Playing # {}) /\ UNCHANGED turn

EnvInit ==
  /\ env = Fresh /\ turn = [p \in Players |-> NoTurn] /\ resets = 0 /\ overlapped = FALSE

Proceed(p) == StepHandle(p) \/ StepSettle(p) \/ StepFinish(p)

EnvNext ==
  \E p \in Players :
    \/ \E a \in Menu : StepBegin(p, a)
    \/ Proceed(p) \/ Reset(p)

\* A runner calls step until the episode is done, and the pool runs every request.
EnvFairness ==
  /\ \A p \in Players : WF_envVars(Proceed(p))
  /\ WF_envVars(\E p \in Players, a \in Menu : StepBegin(p, a))

EnvSpec == EnvInit /\ [][EnvNext]_envVars /\ EnvFairness

----------------------------------------------------------------------------
Turn == [pc : {"idle", "handle", "settle", "finish"}, act : Actions, reward : Int]
Episode(e) ==
  /\ e \in [mail : {e.mail}, waiting : SUBSET Mails, remaining : 0 .. Budget, minute : Nat,
            history : Seq(Actions), total : Int, charged : SUBSET Mails, ranked : 0 .. 3]
  /\ e.mail \in [Mails \ e.waiting -> EmailRecord]

\* The type invariant; an email has either arrived or is waiting, whatever requests met
\* (environment.py:359-375).
EnvTypeOK ==
  /\ Episode(env) /\ turn \in [Players -> Turn]
  /\ resets \in 0 .. MaxResets /\ overlapped \in BOOLEAN

\* The episode is a function of the scenario and the actions taken: the grader that
\* plays the history from the start arrives at the same inbox, total and penalties
\* (grader.py:78-107), in every episode in which no two requests met, and whatever
\* happened in the episode before.
ReplayAgrees == Playing = {} /\ ~overlapped => Play(env.history) = env

\* Between requests, once an action was taken, every overdue urgent or critical email has
\* been charged, also an interruption that arrived late (environment.py:334-346), though
\* requests met.
LateIsCharged == Playing = {} /\ env.history # << >> => Overdue(env) \subseteq env.charged

\* The episode is sound: each email is there once, the inbox is what the actions made of
\* it, and who is late was charged (step, grade_trajectory).
EpisodeHolds == EnvTypeOK /\ ReplayAgrees /\ LateIsCharged

\* An email that was resolved stays so, and keeps its label, until the next reset,
\* whatever requests do to it at one time (environment.py:228-318).
ResolvedStays ==
  [][resets' = resets => \A m \in DOMAIN env.mail :
       /\ env.mail[m].resolved => env'.mail[m].resolved
       /\ env.mail[m].label # "none" => env'.mail[m].label = env.mail[m].label]_envVars

\* No action ever costs what was earned: whatever requests meet, none of the five
\* measures a trajectory is graded by falls until the next reset, except that an
\* interruption that arrives adds to what there is to earn (environment.py:154-192).
EarnedIsKept ==
  [][resets' = resets /\ <<env'.mail, env'.ranked>> # <<env.mail, env.ranked>> =>
       LET before == metrics(env)
           after == metrics(env')
       IN \A k \in DOMAIN before :
            /\ after[k][1] >= before[k][1]
            /\ DOMAIN env'.mail = DOMAIN env.mail => after[k][2] = before[k][2]]_envVars

\* No request undoes what another did to the episode, however they meet (step).
NothingUndone == ResolvedStays /\ EarnedIsKept

\* Every episode comes to an end: time passes with each action, also one that is
\* refused, and the interruptions that keep it open arrive (environment.py:112-114).
EpisodeEnds == []<>Done(env)
=============================================================================
