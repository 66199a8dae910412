---------------------------- MODULE SimulatorApi ----------------------------
(***************************************************************************)
(* The simulator's side of the API (app/main.py): the gateway, the         *)
(* approval store in memory (app/core/approval.py), and the episodes kept  *)
(* in memory, in the database (app/core/repositories.py) and, when they    *)
(* scored well, as examples (research/sim/learning/trajectory_store.py).   *)
(* Handlers run in a thread pool and take no lock.                         *)
(***************************************************************************)
EXTENDS SchemaMigration, Sequences

CONSTANTS
  Server,          \* the instance whose requests are followed
  Threads,         \* requests under way at one time
  Limit,           \* rate_limit_per_minute
  Results,         \* bound: what a run of the episode can come to, as table columns
  Threshold,       \* SCORE_THRESHOLD
  MaxRequests,     \* bound: approval requests
  MaxNow           \* bound: minutes

ASSUME ApiAssumption ==
  /\ Server \in Instances /\ Limit \in Nat \ {0} /\ MaxNow \in Nat /\ MaxRequests \in Nat
  /\ Results \subseteq [score : Nat, steps : Nat]

VARIABLES
  now,
  hits,        \* the limiter: window and count of a key
  requests,    \* _requests and _responses, oldest first
  told,        \* history: the verdicts the endpoints confirmed, of each request
  contested,   \* history: requests two deciders met on
  memory,      \* episode_history_store, of the one episode that is followed
  episodes,    \* its row and that of the example learned from it, and, as history, the
               \* run last saved there (what the row became, when two saves met)
  job          \* the request of each thread

api == <<now, hits, requests, told, contested, memory, episodes, job>>
vars == <<schema, starting, crashes, api>>

None == [score |-> 0, steps |-> 0]
NoJob == [pc |-> "idle"]
At(t, pc) == job[t].pc = pc
Goto(t, r) == job' = [job EXCEPT ![t] = r]

----------------------------------------------------------------------------
(* The gateway.  The operator presents the token, anyone else nothing.     *)

Callers == {"operator", "anyone"}
Surface(op) == IF op = "baseline" THEN "baseline" ELSE IF op = "login" THEN "app" ELSE "approval"
IsMutating(op) == op # "pending"

SENSITIVE_READ_PREFIXES == {"metrics", "approval", "episodes", "replay"}
SAAS_SELF_AUTH_PREFIXES == {"auth", "org", "inbox", "app", "demo"}

\* path == p or path.startswith(p + "/")
Under(head, prefixes) == head \in prefixes

\* resolve_auth with a token configured, and its tenant.
IsOpen(op) == ~IsMutating(op) /\ ~Under(Surface(op), SENSITIVE_READ_PREFIXES)
ResolveAuth(who, op) == IsOpen(op) \/ who = "operator"
RateKey(who, op) == IF ~IsOpen(op) /\ who = "operator" THEN "tenant" ELSE "client"

\* FixedWindowRateLimiter.allow
Counted(key) == IF hits[key].window # now THEN 1 ELSE hits[key].count + 1
Allow(key) == hits' = [hits EXCEPT ![key] = [window |-> now, count |-> Counted(key)]]

Passes(who, op) ==
  /\ Counted(RateKey(who, op)) <= Limit
  /\ ResolveAuth(who, op) \/ Under(Surface(op), SAAS_SELF_AUTH_PREFIXES)

\* _gateway_middleware in front of a handler; an instance that is not ready gets no
\* traffic.  A call that is refused (429, 401) leaves nothing but its count, which lets
\* no later one through, and is not followed.
Admit(t, who, op) ==
  /\ Runs(Server, "serving") /\ SchemaIsCurrent /\ At(t, "idle")
  /\ Passes(who, op) /\ Allow(RateKey(who, op))
  /\ UNCHANGED <<schema, starting, crashes, now>>

----------------------------------------------------------------------------
(* The approval store.                                                     *)

Busy(q, t) == \E u \in Threads \ {t} : job[u].pc \in {"mark", "answer", "expire"} /\ job[u].id = q
Meet(q, t) == contested' = IF Busy(q, t) THEN contested \union {q} ELSE contested

submit_request(t, who) ==
  /\ Admit(t, who, "submit") /\ Len(requests) < MaxRequests
  /\ requests' = Append(requests, [status |-> "pending", response |-> "none",
                                   expires_at |-> now + 1, by |-> who])
  /\ told' = Append(told, {})
  /\ UNCHANGED <<contested, memory, episodes, job>>

\* Mutant: a request that was decided can be decided again.
DecideLookAgain(t, who, q, verdict) ==
  /\ Admit(t, who, verdict)
  /\ Goto(t, [pc |-> "mark", id |-> q, verdict |-> verdict, by |-> who]) /\ Meet(q, t)
  /\ UNCHANGED <<requests, told, memory, episodes>>

\* approve_request and reject_request: a request that is not pending is a 404.
DecideLook(t, who, q, verdict) ==
  /\ Admit(t, who, verdict)
  /\ IF requests[q].status = "pending"
     THEN Goto(t, [pc |-> "mark", id |-> q, verdict |-> verdict, by |-> who]) /\ Meet(q, t)
     ELSE UNCHANGED <<job, contested>>
  /\ UNCHANGED <<requests, told, memory, episodes>>

Store == <<schema, starting, crashes, now, hits, memory, episodes>>

DecideMark(t) ==
  /\ At(t, "mark")
  /\ requests' = [requests EXCEPT ![job[t].id].status = job[t].verdict, ![job[t].id].by = job[t].by]
  /\ Goto(t, [job[t] EXCEPT !.pc = "answer"])
  /\ UNCHANGED <<Store, told, contested>>

DecideAnswer(t) ==
  LET q == job[t].id IN
  /\ At(t, "answer")
  /\ requests' = [requests EXCEPT ![q].response = job[t].verdict]
  /\ told' = [told EXCEPT ![q] = @ \union {job[t].verdict}]
  /\ Goto(t, NoJob) /\ UNCHANGED <<Store, contested>>

\* get_pending_requests reads the clock and sweeps what has expired ...
PendingBegin(t, who) ==
  /\ Admit(t, who, "pending")
  /\ Goto(t, [pc |-> "sweep", id |-> 1, size |-> Len(requests), cut |-> now])
  /\ UNCHANGED <<requests, told, contested, memory, episodes>>

Expired(q, cut) == requests[q].status = "pending" /\ requests[q].expires_at <= cut

\* ... of auto_reject_expired; the loop raises when a request came in meanwhile.
SweepStep(t) ==
  LET q == job[t].id IN
  /\ At(t, "sweep") /\ UNCHANGED <<Store, told>>
  /\ IF Len(requests) # job[t].size THEN Goto(t, NoJob) /\ UNCHANGED <<requests, contested>>
     ELSE IF q > Len(requests)
     THEN Goto(t, [job[t] EXCEPT !.pc = "list"]) /\ UNCHANGED <<requests, contested>>
     ELSE IF Expired(q, job[t].cut)
     THEN /\ requests' = [requests EXCEPT ![q].status = "expired"]
          /\ Goto(t, [job[t] EXCEPT !.pc = "expire"]) /\ Meet(q, t)
     ELSE Goto(t, [job[t] EXCEPT !.id = q + 1]) /\ UNCHANGED <<requests, contested>>

SweepAnswer(t) ==
  /\ At(t, "expire")
  /\ requests' = [requests EXCEPT ![job[t].id].response = "expired"]
  /\ Goto(t, [job[t] EXCEPT !.pc = "sweep", !.id = @ + 1])
  /\ UNCHANGED <<Store, told, contested>>

PendingList(t) ==
  /\ At(t, "list")
  /\ Goto(t, [pc |-> "listed", cut |-> job[t].cut,
              ids |-> {q \in DOMAIN requests : requests[q].status = "pending"}])
  /\ UNCHANGED <<Store, requests, told, contested>>

PendingReply(t) ==
  /\ At(t, "listed") /\ Goto(t, NoJob) /\ UNCHANGED <<Store, requests, told, contested>>

----------------------------------------------------------------------------
(* Episodes.                                                               *)

Approvals == <<schema, starting, crashes, now, hits, requests, told, contested>>

\* /baseline plays the episode to its end ...
Baseline(t, who) ==
  /\ Admit(t, who, "baseline") /\ Goto(t, [pc |-> "play"])
  /\ UNCHANGED <<requests, told, contested, memory, episodes>>

\* ... and remembers what it came to.
Played(t) ==
  /\ At(t, "play") /\ UNCHANGED <<Approvals, episodes>>
  /\ \E r \in Results :
       /\ memory' = r
       /\ Goto(t, [pc |-> "look", table |-> "episode", result |-> r])

\* The first query of save_episode and save_trajectory.
SaveLook(t) ==
  /\ At(t, "look") /\ UNCHANGED <<Approvals, memory, episodes>>
  /\ Goto(t, [pc |-> "save", table |-> job[t].table, result |-> job[t].result,
              seen |-> episodes[job[t].table].row, stale |-> FALSE])

\* Mutant: an existing row keeps its number of steps.
UpsertScore(seen, row, r) ==
  IF seen = None THEN r ELSE [row EXCEPT !.score = r.score]

\* The columns that differ from what was read are written.
Upsert(seen, row, r) ==
  IF seen = None THEN r
  ELSE [c \in DOMAIN r |-> IF r[c] # seen[c] THEN r[c] ELSE row[c]]

\* An insert meets the unique episode_id of a row that came meanwhile.
Collides(t) == job[t].seen = None /\ episodes[job[t].table].row # None

\* save_trajectory follows save_episode, and keeps only what scored well.
SaveNext(t) ==
  IF job[t].table = "episode" /\ job[t].result.score >= Threshold
  THEN [pc |-> "look", table |-> "example", result |-> job[t].result]
  ELSE NoJob

SaveCommit(t) ==
  LET k == job[t].table
      row == episodes[k].row
      new == Upsert(job[t].seen, row, job[t].result)
  IN /\ At(t, "save") /\ ~Collides(t) /\ UNCHANGED <<Approvals, memory>>
     /\ episodes' = [episodes EXCEPT ![k] =
          [row |-> new, last |-> IF job[t].stale THEN new ELSE job[t].result]]
     /\ job' = [u \in Threads |->
          IF u = t THEN SaveNext(t)
          ELSE IF At(u, "save") /\ job[u].table = k THEN [job[u] EXCEPT !.stale = TRUE]
          ELSE job[u]]

\* A storage problem is logged and the next store is tried.
SaveFails(t) ==
  /\ At(t, "save") /\ Goto(t, SaveNext(t)) /\ UNCHANGED <<Approvals, memory, episodes>>

\* What /replay shows.
Replay == IF memory # None THEN memory ELSE episodes["episode"].row

----------------------------------------------------------------------------
Tick ==
  /\ now < MaxNow /\ now' = now + 1
  /\ UNCHANGED <<schema, starting, crashes, hits, requests, told, contested, memory, episodes, job>>

\* The process ends: what was in memory is gone.
Crash(i) ==
  /\ CrashInstance(i) /\ UNCHANGED <<now, episodes>>
  /\ IF i = Server
     THEN /\ hits' = [k \in {"tenant", "client"} |-> [window |-> 0, count |-> 0]]
          /\ requests' = << >> /\ told' = << >> /\ contested' = {} /\ memory' = None
          /\ job' = [t \in Threads |-> NoJob]
     ELSE UNCHANGED <<hits, requests, told, contested, memory, job>>

Init ==
  /\ MigrationInit /\ now = 0
  /\ hits = [k \in {"tenant", "client"} |-> [window |-> 0, count |-> 0]]
  /\ requests = << >> /\ told = << >> /\ contested = {} /\ memory = None
  /\ episodes = [k \in {"episode", "example"} |-> [row |-> None, last |-> None]]
  /\ job = [t \in Threads |-> NoJob]

Continue(t) ==
  \/ DecideMark(t) \/ DecideAnswer(t)
  \/ SweepStep(t) \/ SweepAnswer(t) \/ PendingList(t) \/ PendingReply(t)
  \/ Played(t) \/ SaveLook(t) \/ SaveCommit(t) \/ SaveFails(t)

Next ==
  \/ \E i \in Instances : Migrate(i) /\ UNCHANGED api
  \/ \E i \in Instances : Crash(i)
  \/ \E t \in Threads : Continue(t)
  \/ \E t \in Threads, who \in Callers :
       \/ submit_request(t, who) \/ PendingBegin(t, who) \/ Baseline(t, who)
       \/ \E q \in DOMAIN requests, verdict \in {"approved", "rejected"} : DecideLook(t, who, q, verdict)
  \/ Tick

\* An instance that is started runs its startup to the end.
Fairness == \A i \in Instances : WF_vars(Migrate(i) /\ UNCHANGED api)

Spec == Init /\ [][Next]_vars /\ Fairness

----------------------------------------------------------------------------
Verdicts == {"approved", "rejected", "expired"}

\* The type invariant of the stores.
TypeOK ==
  /\ MigrationTypeOK /\ now \in 0 .. MaxNow
  /\ \A k \in DOMAIN hits : hits[k].window \in 0 .. now /\ hits[k].count \in 0 .. Limit
  /\ DOMAIN told = DOMAIN requests /\ contested \subseteq DOMAIN requests
  /\ \A q \in DOMAIN requests : /\ requests[q].status \in Verdicts \union {"pending"}
                                /\ requests[q].response \in Verdicts \union {"none"}
  /\ memory \in Results \union {None}
  /\ \A k \in DOMAIN episodes : DOMAIN episodes[k].row = DOMAIN None

\* A verdict that an approver was told is the verdict that stands, and the stored answer
\* says the same, also against the sweep of expired requests; only two deciders that meet
\* on one request can undo each other (approval.py:55-123, 144-169).
VerdictStands ==
  \A q \in DOMAIN requests :
    /\ told[q] # {} => requests[q].status # "pending"
    /\ q \notin contested =>
         /\ told[q] \subseteq {requests[q].status}
         /\ ~(\E t \in Threads : job[t].pc \in {"mark", "answer", "expire"} /\ job[t].id = q) =>
              requests[q].response = IF requests[q].status = "pending" THEN "none" ELSE requests[q].status

\* What /approval/pending lists had not expired when it was asked, though requests are
\* decided and the sweep of another caller runs at the same time (approval.py:214-219).
PendingAreLive ==
  \A t \in Threads : At(t, "listed") =>
    \A q \in job[t].ids : requests[q].expires_at > job[t].cut

\* Only who presents the token reaches the approval store (main.py:386-389).
GateHolds ==
  /\ \A q \in DOMAIN requests : requests[q].by = "operator"
  /\ \A t \in Threads : At(t, "mark") => job[t].by = "operator"

\* The approval store keeps its word: what is told stands, what is listed is live, and
\* who decides was let in (ApprovalRequestStore, behind _gateway_middleware).
ApprovalsHold == TypeOK /\ VerdictStands /\ PendingAreLive /\ GateHolds

\* The stored episode, which a replay shows after a restart, and the example learned
\* from it are each one whole run, the last that was saved, unless two saves of it met
\* (repositories.py:18-52, trajectory_store.py:147-190).
EpisodeKept == \A k \in DOMAIN episodes : episodes[k].row = episodes[k].last
=============================================================================
