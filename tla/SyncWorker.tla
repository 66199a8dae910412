----------------------------- MODULE SyncWorker -----------------------------
(***************************************************************************)
(* The process around the product: its start (app/main.py lifespan,        *)
(* app/saas/demo_seed.py) and the background worker                        *)
(* (app/saas/sync_worker.py), which purges expired demo workspaces, syncs  *)
(* the mailboxes that are due and retries sends, pass after pass.  What a  *)
(* sync does is in ActionQueue; here it ends well, breaks or fails.        *)
(***************************************************************************)
EXTENDS Naturals, FiniteSets, FiniteSetsExt

CONSTANTS
  NBoxes,     \* bound: mailboxes of customers, in the order they were connected
  MaxOrgs,    \* bound: organization rows ever inserted
  Interval,   \* sync_interval_seconds with the jitter of a mailbox
  MaxNow,     \* bound: the clock
  MaxFaults   \* bound: failed calls, crashes and restarts

ASSUME WorkerAssumption ==
  /\ NBoxes \in Nat /\ MaxOrgs \in Nat /\ MaxNow \in Nat /\ MaxFaults \in Nat
  /\ Interval \in Nat \ {0}

VARIABLES
  orgs,       \* saas_organizations: deadline and how much of the workspace is there
  nextOrg,
  boxes,      \* status and last_synced_at of the customers' mailboxes
  worker,     \* the boot and the worker's thread
  retryAfter, \* _retry_after, in the worker's memory
  now,
  faults,
  tried       \* history: the pass that last synced a mailbox, in this process

workerVars == <<orgs, nextOrg, boxes, worker, retryAfter, now, faults, tried>>

Boxes == DOMAIN boxes
OrgIds == 1 .. MaxOrgs
NoOrg == [stage |-> "none"]
NoDeadline == 0           \* sandbox_expires_at is NULL
Never == MaxNow + 1
Stages == {"org", "ready", "built"}   \* inserted; with owner and licence; with its mailbox

Gone(o) == orgs[o] = NoOrg
IsSandbox(o) == ~Gone(o) /\ orgs[o].exp # NoDeadline

\* Mutant: a row without a deadline sorts before every moment.
expired_sandbox_ids_null(at) == {o \in OrgIds : ~Gone(o) /\ orgs[o].exp <= at}

expired_sandbox_ids(at) == {o \in OrgIds : IsSandbox(o) /\ orgs[o].exp <= at}

\* DataLifecycleService.delete_org, one transaction.
DeleteOrg(o) == orgs' = [orgs EXCEPT ![o] = NoOrg]

InsertOrg(deadline) ==
  /\ nextOrg <= MaxOrgs /\ nextOrg' = nextOrg + 1
  /\ orgs' = [orgs EXCEPT ![nextOrg] = [stage |-> "org", exp |-> deadline]]

Fail == faults < MaxFaults /\ faults' = faults + 1

\* list_all_connected: mailboxes of real workspaces that are not broken.
Connected == {b \in Boxes : boxes[b].status = "connected"}

is_due(b, at) ==
  /\ retryAfter[b] <= at
  /\ boxes[b].last = Never \/ boxes[b].last + Interval <= at

Down == [pc |-> "down", at |-> 0, todo |-> {}, box |-> 0, org |-> 0]
Go(pc) == worker' = [worker EXCEPT !.pc = pc]

----------------------------------------------------------------------------
(* lifespan: the schema, the demo workspace, the worker.                   *)

\* seed_demo finds the demo account by its owner's address.
SharedDemo == {o \in OrgIds : ~Gone(o) /\ ~IsSandbox(o) /\ orgs[o].stage # "org"}

\* An existing workspace loses its messages and actions, a missing one is inserted.
Boot ==
  /\ worker.pc = "down"
  /\ IF SharedDemo # {}
     THEN \E o \in SharedDemo :
            /\ orgs' = [orgs EXCEPT ![o].stage = "ready"]
            /\ worker' = [Down EXCEPT !.pc = "populate", !.org = o] /\ nextOrg' = nextOrg
     ELSE /\ InsertOrg(NoDeadline)
          /\ worker' = [Down EXCEPT !.pc = "owner", !.org = nextOrg]
  /\ UNCHANGED <<boxes, retryAfter, now, faults, tried>>

\* The rest of provision_org.
SeedOwner ==
  /\ worker.pc = "owner" /\ Go("populate")
  /\ orgs' = [orgs EXCEPT ![worker.org].stage = "ready"]
  /\ UNCHANGED <<nextOrg, boxes, retryAfter, now, faults, tried>>

\* populate_demo_workspace; then sync_worker.start.
SeedPopulate ==
  /\ worker.pc = "populate" /\ Go("poll")
  /\ orgs' = [orgs EXCEPT ![worker.org].stage = "built"]
  /\ UNCHANGED <<nextOrg, boxes, retryAfter, now, faults, tried>>

\* A seed that fails is logged, and the service comes up.
SeedFails ==
  /\ worker.pc \in {"owner", "populate"} /\ Fail /\ Go("poll")
  /\ UNCHANGED <<orgs, nextOrg, boxes, retryAfter, now, tried>>

----------------------------------------------------------------------------
(* One pass of sync_due_connections.                                       *)

\* The time of the pass, and the ids purge_expired will delete.
PassBegin ==
  /\ worker.pc = "poll"
  /\ worker' = [Down EXCEPT !.pc = "purge", !.at = now, !.todo = expired_sandbox_ids(now)]
  /\ UNCHANGED <<orgs, nextOrg, boxes, retryAfter, now, faults, tried>>

\* One expired workspace is deleted, or its error is logged.
PurgeOne(o) ==
  /\ worker.pc = "purge" /\ o \in worker.todo
  /\ worker' = [worker EXCEPT !.todo = @ \ {o}]
  /\ \/ DeleteOrg(o) /\ UNCHANGED faults
     \/ Fail /\ UNCHANGED orgs
  /\ UNCHANGED <<nextOrg, boxes, retryAfter, now, tried>>

PurgeEnd ==
  /\ worker.pc = "purge" /\ worker.todo = {}
  /\ worker' = [worker EXCEPT !.pc = "sweep", !.todo = Connected]
  /\ UNCHANGED <<orgs, nextOrg, boxes, retryAfter, now, faults, tried>>

\* The next mailbox of the list: its sync begins if it is due.
SweepNext ==
  /\ worker.pc = "sweep" /\ worker.todo # {}
  /\ LET b == Min(worker.todo) IN
     IF is_due(b, worker.at)
     THEN /\ worker' = [worker EXCEPT !.pc = "syncing", !.box = b, !.todo = @ \ {b}]
          /\ tried' = [tried EXCEPT ![b] = worker.at]
     ELSE /\ worker' = [worker EXCEPT !.todo = @ \ {b}] /\ UNCHANGED tried
  /\ UNCHANGED <<orgs, nextOrg, boxes, retryAfter, now, faults>>

\* The sync ended: last_synced_at is written and the back-off forgotten.
SyncDone ==
  /\ worker.pc = "syncing" /\ Go("sweep") /\ boxes[worker.box].status = "connected"
  /\ boxes' = [boxes EXCEPT ![worker.box].last = now]
  /\ retryAfter' = [retryAfter EXCEPT ![worker.box] = 0]
  /\ UNCHANGED <<orgs, nextOrg, now, faults, tried>>

\* BrokenConnectionError: build_provider flagged the row.
SyncBroken ==
  /\ worker.pc = "syncing" /\ Go("sweep") /\ Fail
  /\ boxes' = [boxes EXCEPT ![worker.box].status = IF @ = "connected" THEN "error" ELSE @]
  /\ UNCHANGED <<orgs, nextOrg, retryAfter, now, tried>>

\* Mutant: a lapsed plan or a missing row leaves no back-off.
SyncFailedAtOnce ==
  /\ worker.pc = "syncing" /\ Go("sweep")
  /\ (boxes[worker.box].status = "gone" /\ UNCHANGED faults) \/ Fail
  /\ UNCHANGED <<orgs, nextOrg, boxes, retryAfter, now, tried>>

\* ProcessingError, or any other: last_synced_at stays and the mailbox waits an interval.
SyncFailed ==
  /\ worker.pc = "syncing" /\ Go("sweep")
  /\ (boxes[worker.box].status = "gone" /\ UNCHANGED faults) \/ Fail
  /\ retryAfter' = [retryAfter EXCEPT ![worker.box] = worker.at + Interval]
  /\ UNCHANGED <<orgs, nextOrg, boxes, now, tried>>

\* _retry_failed_sends and _record_pass.
PassEnd ==
  /\ worker.pc = "sweep" /\ worker.todo = {} /\ worker' = [Down EXCEPT !.pc = "poll"]
  /\ UNCHANGED <<orgs, nextOrg, boxes, retryAfter, now, faults, tried>>

\* run_forever logs a pass that raised and waits for the next poll.
PassRaises ==
  /\ worker.pc \in {"purge", "sweep"} /\ Fail /\ worker' = [Down EXCEPT !.pc = "poll"]
  /\ UNCHANGED <<orgs, nextOrg, boxes, retryAfter, now, tried>>

\* The process ends: by stop(), which waits for the pass under way, or at any moment.
ProcessEnds ==
  /\ worker.pc # "down" /\ Fail /\ worker' = Down
  /\ retryAfter' = [b \in Boxes |-> 0] /\ tried' = [b \in Boxes |-> Never]
  /\ UNCHANGED <<orgs, nextOrg, boxes, now>>

----------------------------------------------------------------------------
(* The customers and the clock.                                            *)

\* upsert_connection: new consent, on the same row or a new one.
Connect(b) ==
  /\ boxes[b].status # "connected"
  /\ boxes' = [boxes EXCEPT ![b] = [status |-> "connected",
                                    last |-> IF @.status = "gone" THEN Never ELSE @.last]]
  /\ retryAfter' = [retryAfter EXCEPT ![b] = IF boxes[b].status = "gone" THEN 0 ELSE @]
  /\ tried' = [tried EXCEPT ![b] = Never]
  /\ UNCHANGED <<orgs, nextOrg, worker, now, faults>>

Disconnect(b) ==
  /\ boxes[b].status # "gone" /\ boxes' = [boxes EXCEPT ![b].status = "gone"]
  /\ UNCHANGED <<orgs, nextOrg, worker, retryAfter, now, faults, tried>>

\* A member asks for a sync; the worker's memory is not told.
SyncByHand(b) ==
  /\ boxes[b].status = "connected" /\ boxes' = [boxes EXCEPT ![b].last = now]
  /\ UNCHANGED <<orgs, nextOrg, worker, retryAfter, now, faults, tried>>

Tick ==
  /\ now < MaxNow /\ now' = now + 1
  /\ UNCHANGED <<orgs, nextOrg, boxes, worker, retryAfter, faults, tried>>

WorkerInit ==
  /\ orgs = [o \in OrgIds |-> NoOrg] /\ nextOrg = 1
  /\ \E n \in 0 .. NBoxes : boxes = [b \in 1 .. n |-> [status |-> "connected", last |-> Never]]
  /\ worker = Down /\ retryAfter = [b \in Boxes |-> 0] /\ tried = [b \in Boxes |-> Never]
  /\ now = 0 /\ faults = 0

\* What the process does by itself.
WorkerStep ==
  \/ Boot \/ SeedOwner \/ SeedPopulate \/ PassBegin \/ PurgeEnd \/ SweepNext \/ PassEnd
  \/ \E o \in OrgIds : PurgeOne(o)
  \/ SyncDone \/ SyncFailed \/ SyncBroken

\* Everything but the end of the process, which ends requests too.
WorkerNext ==
  \/ WorkerStep \/ SeedFails \/ PassRaises \/ Tick
  \/ \E b \in Boxes : Connect(b) \/ Disconnect(b) \/ SyncByHand(b)

----------------------------------------------------------------------------
WorkerTypeOK ==
  /\ orgs \in [OrgIds -> [stage : Stages, exp : Nat] \union {NoOrg}]
  /\ nextOrg \in 1 .. MaxOrgs + 1
  /\ Boxes \subseteq 1 .. NBoxes
  /\ boxes \in [Boxes -> [status : {"connected", "error", "gone"}, last : 0 .. Never]]
  /\ worker.pc \in {"down", "owner", "populate", "poll", "purge", "sweep", "syncing"}
  /\ worker.at \in Nat /\ worker.box \in Boxes \union {0}
  /\ now \in 0 .. MaxNow /\ faults \in 0 .. MaxFaults
  /\ retryAfter \in [Boxes -> Nat] /\ tried \in [Boxes -> 0 .. Never]

\* Passes that sync one mailbox are an interval apart, whether the sync ended well,
\* failed or broke (sync_worker.py:64-66 "wait a full interval"), unless the process
\* restarted or the customer consented again.
Paced ==
  [][worker.pc = "sweep" /\ worker'.pc = "syncing" =>
       LET b == worker'.box IN tried[b] # Never => worker.at >= tried[b] + Interval]_workerVars

\* A mailbox that was never synced does not wait for ever: a later pass syncs it or
\* starts its back-off, whatever the other mailboxes and the purge fail at
\* (sync_worker.py:104-112, 139-152).
Waiting(b) ==
  b \in Boxes /\ boxes[b].status = "connected" /\ boxes[b].last = Never /\ retryAfter[b] <= now
DueIsSynced == \A b \in 1 .. NBoxes : Waiting(b) ~> ~Waiting(b)

\* A mailbox is synced when it is due, and not before (sync_due_connections).
SyncedWhenDue == Paced /\ DueIsSynced

\* An expired demo workspace is deleted in the end, also if its visitor never comes
\* back or its build broke off (sandbox.py:106-127).
ExpiredIsPurged ==
  \A o \in OrgIds : (IsSandbox(o) /\ orgs[o].exp <= now) ~> Gone(o)
=============================================================================
