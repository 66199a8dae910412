----------------------------- MODULE InboxAgent -----------------------------
(***************************************************************************)
(* Who plays the simulator's episodes (run of                              *)
(* research/baseline/run_baseline.py, which /baseline calls in a thread    *)
(* pool, and /step/stream of app/main.py): the policies of                 *)
(* app/copilot/policy.py, which the product also uses over a real inbox    *)
(* (pipeline.py), and the LLM agent of app/llm/agent.py with its           *)
(* guardrails, approval gate and response cache.  The agent and the cache  *)
(* are globals of the process that no lock guards.                         *)
(***************************************************************************)
EXTENDS Integers, Sequences, SequencesExt, FiniteSets

CONSTANTS
  Threads,      \* runs under way at one time
  Mails,        \* the emails of the scenario
  Facts,        \* of each: label of classify_heuristic, risky (legal or security),
                \* injected (detect_prompt_injection), present from the start
  Interval,     \* planner_interval
  MaxEntries,   \* DEFAULT_CACHE_MAX_ENTRIES
  Menu,         \* bound: what a model answers
  Setups,       \* bound: the settings that are explored
  MaxSteps,     \* max_steps asked for, of each mode
  SharedSteps,  \* bound: that of a run that starts while another uses the agent
  MaxRuns       \* bound: runs

Modes == {"baseline", "stress", "inbox", "hybrid", "stream", "llm"}
NoMail == 0
Act(type, id) == [type |-> type, id |-> id]
Treatments == {"escalate", "reply", "defer"}
Acts == [type : Treatments \union {"classify", "prioritize"}, id : Mails \union {NoMail}]

ASSUME AgentAssumption ==
  /\ IsFiniteSet(Threads) /\ IsFiniteSet(Mails) /\ NoMail \notin Mails
  /\ Facts \in [Mails -> [label : {"spam", "normal", "urgent"}, risky : BOOLEAN,
                          injected : BOOLEAN, start : BOOLEAN]]
  /\ Interval \in Nat /\ Interval >= 2
  /\ MaxEntries \in Nat \ {0} /\ MaxRuns \in Nat /\ SharedSteps \in Nat \ {0}
  /\ Menu \subseteq Acts
  /\ Setups \subseteq [provider : BOOLEAN, gated : BOOLEAN, larger : BOOLEAN, tools : BOOLEAN]
  /\ MaxSteps \in [Modes -> Nat \ {0}] /\ MaxSteps["inbox"] = 4 * Cardinality(Mails) + 8

VARIABLES
  setup,       \* settings: a provider is configured, approvals are required, the family
               \* has a larger model, it calls tools
  agent,       \* _default_agent: its number, _did_prioritize, _handled_ids
  responses,       \* _response_cache, oldest first
  approvals,   \* the latest request for each action in the approval store
  run,         \* the run of each thread
  runs

agentVars == <<setup, agent, responses, approvals, run, runs>>

Never == -1
Nothing == Act("defer", NoMail)
NoKey == [mails |-> {}, step |-> 0]
NothingSaid == [m \in Mails |-> "none"]
Prioritized == Act("prioritize", NoMail)

Risky(m) == Facts[m].risky
Fresh(n) == [number |-> n, did |-> FALSE, handled |-> {}]
NoRun == [pc |-> "idle", mode |-> "none"]
First(mode) == IF mode = "llm" THEN "ask" ELSE IF mode = "stream" THEN "stream" ELSE "work"
NewRun(mode, shared) ==
  LET there == {m \in Mails : mode = "inbox" \/ Facts[m].start} IN
  [pc |-> First(mode), mode |-> mode, shared |-> shared,
   step |-> 0, limit |-> IF shared THEN SharedSteps ELSE MaxSteps[mode],
   arrived |-> there, since |-> IF \E m \in there : Risky(m) THEN 0 ELSE Never,
   acts |-> {}, again |-> FALSE,                                 \* done to the episode
   did |-> FALSE, labels |-> {}, handled |-> {}, plan |-> "none",  \* the policy
   turn |-> 1, first |-> NothingSaid,                            \* the agent's decisions
   number |-> 0, key |-> NoKey, call |-> Nothing,                \* the one under way
   model |-> "small", retried |-> FALSE]

\* What is decided in a run that shared the agent is not followed.
Disturbed(r) == [r EXCEPT !.shared = TRUE, !.first = NothingSaid]
At(t, pc) == run[t].pc = pc
Running(t) == ~At(t, "idle")
Put(t, r) == run' = [run EXCEPT ![t] = r]
Kept == UNCHANGED <<setup, runs>>
\* Thread t goes on, and nobody else sees anything of it.
PutAlone(t, r) == Put(t, r) /\ Kept /\ UNCHANGED <<agent, responses, approvals>>

----------------------------------------------------------------------------
(* A run.                                                                  *)

\* Mutant: the agent of the last run goes on.
ResetAgentKept == agent' = agent

\* reset_agent; the next call makes a new one.
ResetAgent == agent' = Fresh(agent.number + 1)

\* The start of run; a run in llm mode resets the shared agent, whoever uses it.  A run
\* of another mode shares nothing, and is followed alone.
Start(t, mode) ==
  LET others == {u \in Threads \ {t} : Running(u)}
      shared == others # {}
  IN /\ ~Running(t) /\ runs < MaxRuns /\ runs' = runs + 1
     /\ \A u \in others : run[u].mode = "llm" /\ mode = "llm"
     /\ IF mode = "llm" THEN ResetAgent ELSE UNCHANGED agent
     /\ run' = [u \in Threads |-> IF u = t THEN NewRun(mode, shared)
                                  ELSE IF Running(u) THEN Disturbed(run[u])
                                  ELSE run[u]]
     /\ UNCHANGED <<setup, responses, approvals>>

Repeats(r, a) ==
  \E b \in r.acts : /\ b.id = a.id /\ a.id # NoMail
                    /\ b.type = a.type \/ {a.type, b.type} \subseteq Treatments

\* env.step: an interruption may arrive, the episode may be done, and the runner takes no
\* more than max_steps.  What the agent's actions do to the episode is not followed.
Played(r, a, news, done) ==
  LET n == r.step + 1
      next == [r EXCEPT !.step = n, !.arrived = @ \union news,
                        !.acts = IF r.mode = "llm" THEN @ ELSE @ \union {a},
                        !.again = @ \/ Repeats(r, a),
                        !.since = IF @ = Never /\ (\E m \in r.arrived \union news : Risky(m))
                                  THEN n ELSE @,
                        !.turn = 1]
  IN IF done \/ n >= r.limit
     THEN IF r.mode = "llm" THEN NoRun ELSE [next EXCEPT !.pc = "cut"]
     ELSE [next EXCEPT !.pc = First(r.mode)]

News(r) == {{}} \union {{m} : m \in Mails \ r.arrived}
\* A real inbox has no clock and no episode.
Dones(r) == IF r.mode = "inbox" THEN {FALSE} ELSE BOOLEAN

\* The grading of what was done.
Grade(t) ==
  /\ run[t].pc \in {"cut", "over"} /\ PutAlone(t, NoRun)

----------------------------------------------------------------------------
(* BaselinePolicy, and HybridPolicy, whose executor falls back on it.      *)

Unlabelled(r) == r.arrived \ r.labels
Open(r) == {m \in r.arrived \ r.handled : Facts[m].label # "spam"}
Treatment(m) ==
  IF Facts[m].label # "urgent" THEN "defer" ELSE IF Risky(m) THEN "escalate" ELSE "reply"

\* Mutant: the policy stops while interruptions are still to come.
NextWorkStops(r) ==
  IF ~r.did THEN {[a |-> Prioritized, r |-> [r EXCEPT !.did = TRUE]]}
  ELSE IF Unlabelled(r) # {}
  THEN {[a |-> Act("classify", m), r |-> [r EXCEPT !.labels = @ \union {m}]] : m \in Unlabelled(r)}
  ELSE {[a |-> Act(Treatment(m), m), r |-> [r EXCEPT !.handled = @ \union {m}]] : m \in Open(r)}

\* next_action: the actions the ranking may put first, with what the policy remembers;
\* none when all is done.
NextWork(r) ==
  IF ~r.did THEN {[a |-> Prioritized, r |-> [r EXCEPT !.did = TRUE]]}
  ELSE IF Unlabelled(r) # {}
  THEN {[a |-> Act("classify", m), r |-> [r EXCEPT !.labels = @ \union {m}]] : m \in Unlabelled(r)}
  ELSE IF Open(r) # {}
  THEN {[a |-> Act(Treatment(m), m), r |-> [r EXCEPT !.handled = @ \union {m}]] : m \in Open(r)}
  ELSE {[a |-> Prioritized, r |-> r] : m \in Mails \ r.arrived}

\* Planner.plan: risk in the inbox is seen without the model, whatever becomes of it.
Plans(r) ==
  IF \E m \in r.arrived : Risky(m) THEN {"escalate_critical"}
  ELSE {"prioritize_urgent", "batch_reply", "defer_low_value", "monitor"}

\* Every planner_interval steps there is a new one.
Strategies(r) ==
  IF r.plan = "none" \/ (r.step + 1) % Interval = 1 THEN Plans(r) ELSE {r.plan}

\* Executor.execute
Execute(r) ==
  IF r.plan = "escalate_critical" /\ (\E m \in r.arrived : Risky(m))
  THEN {[a |-> Act("escalate", m), r |-> r] : m \in {n \in r.arrived : Risky(n)}}
  ELSE NextWork(r)

Decided(r) ==
  IF r.mode \in {"hybrid", "stream"} /\ setup.provider
  THEN UNION {Execute([r EXCEPT !.plan = p]) : p \in Strategies(r)}
  ELSE NextWork(r)

\* _apply_stress
Stressed(r, a) ==
  {a} \union (IF r.mode = "stress" /\ a.type = "reply" THEN {Act("defer", a.id)} ELSE {})

PolicyStep(t) ==
  /\ At(t, "work")
  /\ \/ Decided(run[t]) = {} /\ PutAlone(t, [run[t] EXCEPT !.pc = "over"])
     \/ \E d \in Decided(run[t]), news \in News(run[t]), done \in Dones(run[t]) :
          \E a \in Stressed(run[t], d.a) : PutAlone(t, Played(d.r, a, news, done))

Afresh(r) == [r EXCEPT !.did = FALSE, !.labels = {}, !.handled = {}, !.plan = "none"]

\* step_stream, in mode hybrid: a new policy decides each step, and forgets.  Without a
\* provider it is what a stream in mode baseline does.
StreamStep(t) ==
  /\ At(t, "stream")
  /\ \E d \in Decided(Afresh(run[t])), news \in News(run[t]), done \in BOOLEAN :
       PutAlone(t, Played(Afresh(d.r), d.a, news, done))

----------------------------------------------------------------------------
(* LLMAgent.get_action, which a run in llm mode asks twice a step: the      *)
(* first answer is played, the second only traced.                         *)

Mine(r) == r.number = agent.number
\* Who is left of what the observation lists.
Shown(r) == r.arrived \ agent.handled
Key(r) == [mails |-> Shown(r), step |-> r.step]

\* What the agent said first of an email, and that it named one before it arrived.
Said(r, a) ==
  IF r.shared \/ a.id = NoMail \/ r.first[a.id] # "none" THEN r.first
  ELSE [r.first EXCEPT ![a.id] = IF a.id \in r.arrived THEN a.type ELSE "early"]

\* The first answer is LLMPolicy's, then the run asks for its trace.
Answered(r, a) ==
  [r EXCEPT !.pc = IF r.turn = 1 THEN "ask" ELSE "answered", !.turn = 2, !.first = Said(r, a),
            !.number = 0, !.key = NoKey, !.call = Nothing, !.model = "small", !.retried = FALSE]

Handle(r, id) ==
  agent' = IF Mine(r) /\ id # NoMail THEN [agent EXCEPT !.handled = @ \union {id}] ELSE agent

\* _pre_process: risk the observation lists is escalated before a model is asked.
MustEscalate(r) == {m \in Shown(r) : Risky(m)}

CachedKeys == {responses[i].key : i \in DOMAIN responses}
Cached(r) == {i \in DOMAIN responses : responses[i].key = Key(r)}

\* _pre_process: the first action ranks what there is ...
AskFirst(t) ==
  /\ At(t, "ask") /\ ~agent.did /\ Kept /\ UNCHANGED <<responses, approvals>>
  /\ agent' = [agent EXCEPT !.did = TRUE] /\ Put(t, Answered(run[t], Prioritized))

\* ... an empty inbox is left alone, and risk is not left to a model.
AskNothing(t) ==
  /\ At(t, "ask") /\ agent.did /\ Shown(run[t]) = {}
  /\ PutAlone(t, Answered(run[t], Nothing))

AskRisky(t) ==
  LET r == [run[t] EXCEPT !.number = agent.number] IN
  /\ At(t, "ask") /\ agent.did /\ Kept /\ UNCHANGED <<responses, approvals>>
  /\ \E m \in MustEscalate(r) : Handle(r, m) /\ Put(t, Answered(r, Act("escalate", m)))

\* Mail to decide on, and none of it risky.
Plain(r) == agent.did /\ Shown(r) # {} /\ MustEscalate(r) = {}

AskCache(t) ==
  LET r == [run[t] EXCEPT !.number = agent.number] IN
  /\ At(t, "ask") /\ Plain(r) /\ ~setup.gated /\ Kept /\ UNCHANGED <<responses, approvals>>
  /\ \E i \in Cached(r) : /\ Handle(r, responses[i].answer.id)
                         /\ Put(t, Answered(r, responses[i].answer))

\* The cache has nothing, or an entry an hour old, which is dropped.
AskModel(t) ==
  LET r == [run[t] EXCEPT !.number = agent.number] IN
  /\ At(t, "ask") /\ Plain(r) /\ Kept /\ UNCHANGED <<agent, approvals>>
  /\ Put(t, [r EXCEPT !.pc = "call", !.key = Key(r)])
  /\ \/ (setup.gated \/ Cached(r) = {}) /\ UNCHANGED responses
     \/ ~setup.gated /\ \E i \in Cached(r) : responses' = RemoveAt(responses, i)

MayRetry(r) == r.model = "small" /\ ~r.retried

\* An error, an answer that does not parse or validate, and one of low confidence are
\* asked again ...
CallFails(t) ==
  /\ At(t, "call")
  /\ PutAlone(t, IF MayRetry(run[t]) THEN [run[t] EXCEPT !.pc = "retry"]
                 ELSE Answered(run[t], Nothing))

\* Mutant: the retry is not remembered.
RetryAgain(t) ==
  /\ At(t, "retry")
  /\ PutAlone(t, [run[t] EXCEPT !.pc = "call", !.model = IF setup.larger THEN "large" ELSE "small"])

\* ... of the larger model, when the family has one.
Retry(t) ==
  /\ At(t, "retry")
  /\ PutAlone(t, [run[t] EXCEPT !.pc = "call", !.retried = TRUE,
                                !.model = IF setup.larger THEN "large" ELSE "small"])

\* A timeout and AllProvidersFailedError are not.
CallGivesUp(t) ==
  /\ At(t, "call") /\ PutAlone(t, Answered(run[t], Nothing))

\* Arguments a tool call gets wrong raise out of get_action, and the run ends.
CallRaises(t) ==
  /\ At(t, "call") /\ setup.tools /\ PutAlone(t, NoRun)

\* _apply_guardrails: a reply to risky email, and its deferral, become an escalation.
Guarded(r, a) ==
  IF a.type \in {"reply", "defer"} /\ a.id \in r.key.mails /\ Risky(a.id)
  THEN Act("escalate", a.id) ELSE a

\* safety_check, of an email the observation lists.
SafeEnough(r, a) == a.id \in r.key.mails => ~Facts[a.id].injected

\* The pending requests for this action.
Requested(a) == {q \in approvals : q.act = a /\ q.pending}

\* What _build_ai_response makes of the model's action.
CallAnswers(t) ==
  /\ At(t, "call") /\ setup.provider /\ Kept /\ UNCHANGED responses
  /\ \E answer \in Menu :
       LET r == run[t]
           a == Guarded(r, answer)
           Gives(b) == Put(t, [r EXCEPT !.pc = "evict", !.call = b])
           asks == setup.gated /\ a.type \in {"escalate", "reply"} /\ Requested(a) = {}
       IN IF ~SafeEnough(r, a) THEN Gives(Nothing) /\ UNCHANGED <<agent, approvals>>
          ELSE IF asks
          THEN /\ approvals' = {q \in approvals : q.act # a} \union {[act |-> a, pending |-> TRUE]}
               /\ Gives(Act("defer", a.id)) /\ UNCHANGED agent
          ELSE Handle(r, a.id) /\ Gives(a) /\ UNCHANGED approvals

\* What is left when the oldest entries are dropped for a new one.
Room ==
  IF Len(responses) < MaxEntries THEN responses
  ELSE SubSeq(responses, Len(responses) - MaxEntries + 2, Len(responses))

\* _cache_response makes room ...
Evict(t) ==
  /\ At(t, "evict") /\ Put(t, [run[t] EXCEPT !.pc = "insert"]) /\ Kept
  /\ UNCHANGED <<agent, approvals>>
  /\ responses' = IF run[t].key \in CachedKeys THEN responses ELSE Room

\* ... and keeps the answer.
Insert(t) ==
  LET r == run[t]
      entry == [key |-> r.key, answer |-> r.call]
  IN /\ At(t, "insert") /\ Kept /\ UNCHANGED <<agent, approvals>>
     /\ responses' = IF r.key \notin CachedKeys THEN Append(responses, entry)
                     ELSE [i \in DOMAIN responses |->
                             IF responses[i].key = r.key THEN entry ELSE responses[i]]
     /\ Put(t, Answered(r, r.call))

\* Both answers are there: the first is played.
PlayAnswer(t) ==
  /\ At(t, "answered")
  /\ \E news \in News(run[t]), done \in BOOLEAN : PutAlone(t, Played(run[t], Nothing, news, done))

\* A person decides a request, or it expires.
Decide(q) ==
  /\ q.pending /\ approvals' = (approvals \ {q}) \union {[q EXCEPT !.pending = FALSE]}
  /\ Kept /\ UNCHANGED <<agent, responses, run>>

----------------------------------------------------------------------------
Continue(t) ==
  \/ PolicyStep(t) \/ StreamStep(t) \/ Grade(t) \/ PlayAnswer(t)
  \/ AskFirst(t) \/ AskNothing(t) \/ AskRisky(t) \/ AskCache(t) \/ AskModel(t)
  \/ CallFails(t) \/ Retry(t) \/ CallGivesUp(t) \/ CallRaises(t) \/ CallAnswers(t)
  \/ Evict(t) \/ Insert(t)

AgentInit ==
  /\ setup \in Setups /\ agent = Fresh(0) /\ responses = << >> /\ approvals = {}
  /\ run = [t \in Threads |-> NoRun] /\ runs = 0

AgentNext ==
  \/ \E t \in Threads : Continue(t) \/ \E mode \in Modes : Start(t, mode)
  \/ \E q \in approvals : Decide(q)

\* A thread of the pool goes on, and a provider answers within its timeout.
AgentFairness == \A t \in Threads : WF_agentVars(Continue(t))

AgentSpec == AgentInit /\ [][AgentNext]_agentVars /\ AgentFairness

----------------------------------------------------------------------------
KeyRecord == [mails : SUBSET Mails, step : Nat]
Places ==
  {"work", "stream", "cut", "over", "ask", "call", "retry", "evict", "insert", "answered"}
SomeMails == SUBSET Mails
SomeActs == SUBSET Acts
Moments == Nat \union {Never}
Strategy ==
  {"none", "escalate_critical", "prioritize_urgent", "batch_reply", "defer_low_value", "monitor"}
Sayings == [Mails -> Treatments \union {"none", "early", "classify", "prioritize"}]
Numbers == 0 .. MaxRuns
Sizes == {"small", "large"}
Turns == {1, 2}
RunRecord ==
  [pc : Places, mode : Modes, shared : BOOLEAN, step : Nat, limit : Nat, arrived : SomeMails,
   since : Moments, acts : SomeActs, again : BOOLEAN, did : BOOLEAN, labels : SomeMails,
   handled : SomeMails, plan : Strategy, turn : Turns, first : Sayings, number : Numbers,
   key : KeyRecord, call : Acts, model : Sizes, retried : BOOLEAN]

\* The type invariant of the runs and of what they share; a key is in the cache once.
AgentTypeOK ==
  /\ setup \in Setups /\ runs \in 0 .. MaxRuns
  /\ agent \in [number : 0 .. MaxRuns, did : BOOLEAN, handled : SUBSET Mails]
  /\ responses \in Seq([key : KeyRecord, answer : Acts])
  /\ \A i, j \in DOMAIN responses : responses[i].key = responses[j].key => i = j
  /\ approvals \subseteq [act : Acts, pending : BOOLEAN]
  /\ \A q \in approvals : q.act.type \in {"reply", "escalate"}
  /\ run \in [Threads -> RunRecord \union {NoRun}]
  /\ \A t \in Threads : Running(t) => run[t].step <= run[t].limit

\* The first thing the agent decides about risky email is to escalate it, and it decides
\* nothing about email that tells it what to do: whether the answer is a guardrail's, a
\* model's, the larger model's or one of the cache, and however the runs before it went
\* (agent.py:220-256, 590-614, 885-927).  Not so in a run that shared the agent, nor of
\* email the model named before it arrived.
GuardrailsHold ==
  \A t \in Threads : Running(t) =>
    \A m \in Mails : run[t].first[m] \notin {"none", "early"} =>
      IF Risky(m) THEN run[t].first[m] = "escalate" ELSE ~Facts[m].injected

\* With approvals required, no model's reply or escalation is answered that was not put
\* before a person as such (agent.py:640-668), whatever else was asked about the email.
PutForward ==
  setup.gated =>
    \A t \in Threads :
      run[t].pc \in {"evict", "insert"} /\ run[t].call.type \in {"reply", "escalate"} =>
        \E q \in approvals : q.act = run[t].call

\* A run that decides by rules alone, and remembers what it did.
Followed(r) == r.mode \notin {"llm", "stream"} /\ (r.mode = "hybrid" => ~setup.provider)

\* A policy without a model labels every email and works it once, interruptions that
\* arrive between its calls and stressed actions included, and stops only when all have
\* come and are worked; over a real inbox it is never cut off (policy.py:19-81,
\* pipeline.py:34-49).
InboxIsWorked ==
  \A t \in Threads :
    Running(t) /\ Followed(run[t]) =>
      /\ ~run[t].again /\ (run[t].mode = "inbox" => ~At(t, "cut"))
      /\ At(t, "over") =>
           /\ run[t].arrived = Mails
           /\ \A m \in Mails : /\ Act("classify", m) \in run[t].acts
                               /\ \/ Facts[m].label = "spam"
                                  \/ \E k \in Treatments : Act(k, m) \in run[t].acts

\* A run with a planner escalates risky email within planner_interval steps of its
\* arrival, although it holds on to its strategy in between (policy.py:143-168), or
\* forgets everything at each step (main.py:587-604).
EscalatedInTime ==
  \A t \in Threads :
    Running(t) /\ run[t].mode \in {"hybrid", "stream"} /\ setup.provider /\ run[t].since # Never
    /\ run[t].step >= run[t].since + Interval =>
      \E m \in Mails : Risky(m) /\ Act("escalate", m) \in run[t].acts

\* However many runs fill the cache at one time, each takes it over its limit by no
\* more than its own answer (agent.py:88-91).
CacheBounded == Len(responses) <= MaxEntries + Cardinality(Threads) - 1

\* What the models say is held within bounds: by the guardrails, by the gate, by the
\* planner's interval and by the size of the cache (LLMAgent, HybridPolicy).
DecisionsHold == AgentTypeOK /\ GuardrailsHold /\ PutForward /\ EscalatedInTime /\ CacheBounded

\* Every run comes to an end: no decision asks models for ever, also where the larger
\* model is the same one (agent.py:355-431).
RunsEnd == <>[](\A t \in Threads : ~Running(t))
=============================================================================
