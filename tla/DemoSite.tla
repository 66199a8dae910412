------------------------------ MODULE DemoSite ------------------------------
(***************************************************************************)
(* The public demo (app/saas/sandbox.py, open_demo and logout of           *)
(* app/web/routes.py) beside the background worker: every visitor gets a   *)
(* workspace of their own with a deadline, built in several transactions,  *)
(* and both the worker and the next visitor delete the expired ones.       *)
(***************************************************************************)
EXTENDS SyncWorker

CONSTANTS
  Windows,     \* bound: the tabs there may be
  MaxActors,   \* bound: tabs and mailboxes together
  Browsers,    \* cookie jars; a tab belongs to one
  Lifetime,    \* access_token_ttl_minutes, of a session and of a sandbox
  MaxLive      \* MAX_LIVE_SANDBOXES

ASSUME DemoAssumption ==
  /\ IsFiniteSet(Windows) /\ MaxActors \in Nat /\ Browsers # {} /\ Lifetime \in Nat \ {0}
  /\ MaxLive \in Nat \ {0}

VARIABLES
  home,     \* the browser of each tab
  cookie,   \* its session: the sandbox's owner, and when the session ends
  visit     \* the request a tab is waiting for

vars == <<orgs, nextOrg, boxes, worker, retryAfter, now, faults, tried, home, cookie, visit>>
others == <<nextOrg, boxes, worker, retryAfter, now, tried, home>>

Tabs == DOMAIN home
NoCookie == [org |-> 0, exp |-> 0]
Idle == [pc |-> "idle", org |-> 0, exp |-> 0, todo |-> {}]
Jar(t) == cookie[home[t]]

\* _current_user: the session is alive and its owner's row is there.
SignedIn(t) == Jar(t).org # 0 /\ now < Jar(t).exp /\ ~Gone(Jar(t).org)

At(t, pc) == visit[t].pc = pc
Goto(t, pc) == visit' = [visit EXCEPT ![t].pc = pc]
Reply(t) == visit' = [visit EXCEPT ![t] = Idle]

----------------------------------------------------------------------------
(* open_demo and create_sandbox.                                           *)

\* Somebody not signed in: purge_expired is the first thing create_sandbox does.
OpenDemo(t) ==
  /\ At(t, "idle") /\ ~SignedIn(t)
  /\ visit' = [visit EXCEPT ![t] = [pc |-> "purge", org |-> 0, exp |-> now + Lifetime,
                                    todo |-> expired_sandbox_ids(now)]]
  /\ UNCHANGED <<others, orgs, faults, cookie>>

PurgeFirst(t, o) ==
  /\ At(t, "purge") /\ o \in visit[t].todo
  /\ visit' = [visit EXCEPT ![t].todo = @ \ {o}]
  /\ (DeleteOrg(o) /\ UNCHANGED faults) \/ (Fail /\ UNCHANGED orgs)
  /\ UNCHANGED <<others, cookie>>

count_sandboxes == Cardinality({o \in OrgIds : IsSandbox(o)})

\* SandboxUnavailable at capacity.
CheckCapacity(t) ==
  /\ At(t, "purge") /\ visit[t].todo = {}
  /\ IF count_sandboxes >= MaxLive THEN Reply(t) ELSE Goto(t, "provision")
  /\ UNCHANGED <<others, orgs, faults, cookie>>

\* provision_org: the organization, in a transaction of its own.
Provision(t) ==
  /\ At(t, "provision") /\ InsertOrg(visit[t].exp)
  /\ visit' = [visit EXCEPT ![t].pc = "owner", ![t].org = nextOrg]
  /\ UNCHANGED <<boxes, worker, retryAfter, now, tried, home, faults, cookie>>

\* provision_org: the owner and the licence; a purge may have come first.
ProvisionOwner(t) ==
  /\ At(t, "owner")
  /\ IF Gone(visit[t].org)
     THEN Reply(t) /\ UNCHANGED orgs
     ELSE Goto(t, "populate") /\ orgs' = [orgs EXCEPT ![visit[t].org].stage = "ready"]
  /\ UNCHANGED <<others, faults, cookie>>

\* provision_org raised: nothing is undone.
ProvisionFails(t) ==
  /\ At(t, "owner") /\ Fail /\ Reply(t)
  /\ UNCHANGED <<others, orgs, cookie>>

\* populate_demo_workspace and the audit row.
Populate(t) ==
  /\ At(t, "populate")
  /\ IF Gone(visit[t].org)
     THEN Goto(t, "remove") /\ UNCHANGED orgs
     ELSE Goto(t, "session") /\ orgs' = [orgs EXCEPT ![visit[t].org].stage = "built"]
  /\ UNCHANGED <<others, faults, cookie>>

PopulateFails(t) ==
  /\ At(t, "populate") /\ Fail /\ Goto(t, "remove")
  /\ UNCHANGED <<others, orgs, cookie>>

\* Mutant: the visitor is signed in to what there is.
RemoveHalfBuiltLater(t) ==
  /\ At(t, "remove") /\ Goto(t, "session")
  /\ UNCHANGED <<others, orgs, faults, cookie>>

\* The half-built workspace is deleted; if that fails too, the purge will retry it.
RemoveHalfBuilt(t) ==
  /\ At(t, "remove") /\ Reply(t)
  /\ (DeleteOrg(visit[t].org) /\ UNCHANGED faults) \/ (Fail /\ UNCHANGED orgs)
  /\ UNCHANGED <<others, cookie>>

\* issue_token and set_session_cookie.
OpenSession(t) ==
  /\ At(t, "session") /\ Reply(t)
  /\ cookie' = [cookie EXCEPT ![home[t]] = [org |-> visit[t].org, exp |-> now + Lifetime]]
  /\ UNCHANGED <<others, orgs, faults>>

\* logout deletes the sandbox and clears the cookie.
Logout(t) ==
  /\ At(t, "idle") /\ SignedIn(t)
  /\ DeleteOrg(Jar(t).org) /\ cookie' = [cookie EXCEPT ![home[t]] = NoCookie]
  /\ UNCHANGED <<others, faults, visit>>

----------------------------------------------------------------------------
\* The process takes its requests with it.
Crash ==
  /\ ProcessEnds /\ visit' = [t \in Tabs |-> Idle]
  /\ UNCHANGED <<home, cookie>>

Init ==
  /\ WorkerInit
  /\ \E T \in SUBSET Windows : home \in [T -> Browsers] /\ Cardinality(T) + Cardinality(Boxes) <= MaxActors
  /\ cookie = [b \in Browsers |-> NoCookie]
  /\ visit = [t \in Tabs |-> Idle]

VisitStep(t) ==
  \/ \E o \in OrgIds : PurgeFirst(t, o)
  \/ CheckCapacity(t) \/ Provision(t) \/ ProvisionOwner(t) \/ ProvisionFails(t)
  \/ Populate(t) \/ PopulateFails(t) \/ RemoveHalfBuilt(t) \/ OpenSession(t)

\* Requests are served while the process is up.
Next ==
  \/ WorkerNext /\ UNCHANGED <<home, cookie, visit>>
  \/ \E t \in Tabs : worker.pc \notin {"down", "owner", "populate"}
                       /\ (OpenDemo(t) \/ VisitStep(t) \/ Logout(t))
  \/ Crash

\* asyncio runs the worker's task while the process is up, and the host restarts it.
Spec == Init /\ [][Next]_vars /\ WF_vars(WorkerStep /\ UNCHANGED <<home, cookie, visit>>)

----------------------------------------------------------------------------
\* The type invariant of the worker, the sandboxes and the visitors.
TypeOK ==
  /\ WorkerTypeOK
  /\ Tabs \subseteq Windows /\ home \in [Tabs -> Browsers]
  /\ \A b \in Browsers : cookie[b].org \in OrgIds \union {0} /\ cookie[b].exp \in Nat
  /\ \A t \in Tabs : visit[t].org \in OrgIds \union {0} /\ visit[t].todo \subseteq OrgIds

\* Sandboxes pass the capacity by fewer than there are requests under way: the count
\* and the insert are two transactions (sandbox.py:147-148, 153).
CapacityBound == Tabs # {} => count_sandboxes <= MaxLive + Cardinality(Tabs) - 1

\* Who is signed in to a workspace that exists has a whole one, whatever failed while
\* it was built (sandbox.py:133-135) and whoever purged in between.
OnlyBuiltIsReached ==
  \A t \in Tabs : SignedIn(t) => orgs[Jar(t).org].stage = "built"

\* The sandboxes fit, the visitors' are whole, and all keep their types, whatever
\* visits, failures and purges overlap (create_sandbox, purge_expired).
SandboxesHold == TypeOK /\ CapacityBound /\ OnlyBuiltIsReached

\* A workspace disappears only after its deadline, when its visitor leaves, or when
\* its own build failed; a workspace without a deadline never (sandbox.py:106-127).
KeptUntilDeadline ==
  [][\A o \in OrgIds : ~Gone(o) /\ orgs'[o] = NoOrg =>
       /\ IsSandbox(o)
       /\ \/ orgs[o].exp <= now
          \/ \E t \in Tabs : SignedIn(t) /\ Jar(t).org = o
          \/ \E t \in Tabs : At(t, "remove") /\ visit[t].org = o]_vars

\* A demo workspace is deleted once its deadline has passed, and nothing is before
\* (purge_expired of sandbox.py).
DeletedWhenDue == KeptUntilDeadline /\ ExpiredIsPurged
=============================================================================
