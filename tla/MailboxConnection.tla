------------------------- MODULE MailboxConnection -------------------------
(***************************************************************************)
(* The life of one customer mailbox in one workspace: connecting it        *)
(* (app/saas/mailbox.py), building a provider on its stored tokens and     *)
(* refreshing them (app/saas/provider_factory.py), flagging it when the    *)
(* grant is refused, and disconnecting it (MailboxRepository.delete),      *)
(* while jobs that built their provider earlier are still running.         *)
(*                                                                         *)
(* A token is abstracted to the grant (the customer's consent) it belongs  *)
(* to.  The account is the key of the upsert; a connection's id is not.    *)
(***************************************************************************)
EXTENDS Naturals, FiniteSets

CONSTANTS
  Jobs,         \* the threads that use a provider
  Worker,       \* the one of them that is the background worker's
  MaxIds,       \* bound: connection rows ever created
  MaxGrants,    \* bound: times the customer consents
  ForeignKeys,  \* the database enforces foreign keys (Postgres; not SQLite)
  MaxCrashes    \* bound: restarts of the process

ASSUME LifeAssumption ==
  /\ IsFiniteSet(Jobs) /\ Worker \in Jobs /\ ForeignKeys \in BOOLEAN
  /\ MaxIds \in Nat \ {0} /\ MaxGrants \in Nat \ {0} /\ MaxCrashes \in Nat

Ids == 1..MaxIds
Grants == 1..MaxGrants

VARIABLES
  conns,    \* saas_mailbox_connections: a function on the ids in use
  nextId,   \* the next id to hand out: ids are never used again
  saved,    \* the ids with rows in saas_processed_messages
  job,      \* what each thread is doing
  dead,     \* the grants the provider no longer honours
  given,    \* grants so far
  breaks,   \* history: times a connection went to "error"
  notices,  \* audit rows and mails about a broken mailbox
  crashes

world == <<dead, given>>
count == <<breaks, notices>>
vars == <<conns, nextId, saved, job, dead, given, breaks, notices, crashes>>

----------------------------------------------------------------------------
(* The repository.                                                         *)

Connection == [status : {"connected", "error"}, access : Grants, refresh : Grants,
               synced : BOOLEAN]

\* Mutant: the row is looked up by id, and a new id never matches.
UpsertById(access, refresh) ==
  /\ nextId <= MaxIds
  /\ conns' = [i \in DOMAIN conns \cup {nextId} |->
       IF i = nextId
       THEN [status |-> "connected", access |-> access, refresh |-> refresh, synced |-> FALSE]
       ELSE conns[i]]
  /\ nextId' = nextId + 1

\* upsert_connection: the row of the account is updated, or a new one is made.
\* last_synced_at is left alone.
Upsert(access, refresh) ==
  \/ /\ DOMAIN conns # {}
     /\ conns' = [i \in DOMAIN conns |->
          [conns[i] EXCEPT !.status = "connected", !.access = access, !.refresh = refresh]]
     /\ UNCHANGED nextId
  \/ /\ DOMAIN conns = {}
     /\ nextId <= MaxIds
     /\ conns' = [i \in {nextId} |->
          [status |-> "connected", access |-> access, refresh |-> refresh, synced |-> FALSE]]
     /\ nextId' = nextId + 1

\* set_status answers whether the status changed.
Changes(id) == id \in DOMAIN conns /\ conns[id].status # "error"

----------------------------------------------------------------------------
(* A job: sync one mailbox through a provider built on its tokens.  An     *)
(* approval or a retry is the same without saving messages.                *)

Idle == [pc |-> "idle"]
To(j, pc) == job' = [job EXCEPT ![j].pc = pc]
Stop(j) == job' = [job EXCEPT ![j] = Idle]

\* list_all_connected and is_due; when an interval is over is left open.
Due(id) == conns[id].status = "connected"

Begin(j, id) ==
  /\ job[j] = Idle
  /\ id \in DOMAIN conns
  /\ j = Worker => Due(id)
  /\ job' = [job EXCEPT ![j] = [pc |-> "build", conn |-> id]]
  /\ UNCHANGED <<conns, nextId, saved, world, count, crashes>>

\* build_provider.  A row deleted meanwhile: marking it broken changes nothing.
Build(j) ==
  /\ job[j].pc = "build"
  /\ IF job[j].conn \in DOMAIN conns
     THEN job' = [job EXCEPT ![j] = [pc |-> "check", conn |-> job[j].conn,
                    access |-> conns[job[j].conn].access,
                    refresh |-> conns[job[j].conn].refresh]]
     ELSE Stop(j)
  /\ UNCHANGED <<conns, nextId, saved, world, count, crashes>>

\* _sync reads the connection again: 404 when it is gone.
Check(j) ==
  /\ job[j].pc = "check"
  /\ IF job[j].conn \in DOMAIN conns THEN To(j, "call") ELSE Stop(j)
  /\ UNCHANGED <<conns, nextId, saved, world, count, crashes>>

CallOk(j) ==
  /\ job[j].pc = "call" /\ job[j].access \notin dead
  /\ To(j, "save")
  /\ UNCHANGED <<conns, nextId, saved, world, count, crashes>>

\* The access token has expired, or died with its grant.
Call401(j) ==
  /\ job[j].pc = "call"
  /\ To(j, "refresh")
  /\ UNCHANGED <<conns, nextId, saved, world, count, crashes>>

\* Unreachable, or a 5xx, at either endpoint: the sync is given up and the
\* worker backs off.
Unreachable(j) ==
  /\ job[j].pc \in {"call", "refresh"}
  /\ Stop(j)
  /\ UNCHANGED <<conns, nextId, saved, world, count, crashes>>

\* Mutant: a refusal is raised like any other error.
RefreshRefusedQuietly(j) ==
  /\ job[j].pc = "refresh" /\ job[j].refresh \in dead
  /\ Stop(j)
  /\ UNCHANGED <<conns, nextId, saved, world, count, crashes>>

RefreshRefused(j) ==
  /\ job[j].pc = "refresh" /\ job[j].refresh \in dead
  /\ To(j, "flag")
  /\ UNCHANGED <<conns, nextId, saved, world, count, crashes>>

RefreshOk(j) ==
  /\ job[j].pc = "refresh" /\ job[j].refresh \notin dead
  /\ To(j, "store")
  /\ UNCHANGED <<conns, nextId, saved, world, count, crashes>>

\* The new tokens are stored under the account.  A provider that does not
\* rotate refresh tokens leaves the stored one, whichever that is by now.  The
\* call is then repeated once.
RefreshStore(j) ==
  /\ job[j].pc = "store"
  /\ \E rotated \in BOOLEAN :
       Upsert(job[j].refresh,
              IF rotated \/ DOMAIN conns = {} THEN job[j].refresh
              ELSE conns[CHOOSE i \in DOMAIN conns : TRUE].refresh)
  /\ (job[j].refresh \notin dead /\ To(j, "save")) \/ Stop(j)
  /\ UNCHANGED <<saved, world, count, crashes>>

\* Mutant: every sweep that finds the mailbox broken says so.
FlagAlways(j) ==
  /\ job[j].pc = "flag"
  /\ IF job[j].conn \in DOMAIN conns
     THEN /\ conns' = [conns EXCEPT ![job[j].conn].status = "error"]
          /\ breaks' = IF Changes(job[j].conn) THEN breaks + 1 ELSE breaks
          /\ To(j, "announce")
     ELSE Stop(j) /\ UNCHANGED <<conns, breaks>>
  /\ UNCHANGED <<nextId, saved, world, notices, crashes>>

\* _mark_broken: set_status first, and the announcement only on a change.
Flag(j) ==
  /\ job[j].pc = "flag"
  /\ IF Changes(job[j].conn)
     THEN /\ conns' = [conns EXCEPT ![job[j].conn].status = "error"]
          /\ breaks' = breaks + 1
          /\ To(j, "announce")
     ELSE Stop(j) /\ UNCHANGED <<conns, breaks>>
  /\ UNCHANGED <<nextId, saved, world, notices, crashes>>

Announce(j) ==
  /\ job[j].pc = "announce"
  /\ notices' = notices + 1
  /\ Stop(j)
  /\ UNCHANGED <<conns, nextId, saved, world, breaks, crashes>>

\* The messages, and the actions that hang on them, are stored under the id
\* the job began with; only a foreign key can object.
Save(j) ==
  /\ job[j].pc = "save"
  /\ IF ForeignKeys /\ job[j].conn \notin DOMAIN conns
     THEN Stop(j) /\ UNCHANGED saved
     ELSE To(j, "end") /\ saved' = saved \cup {job[j].conn}
  /\ UNCHANGED <<conns, nextId, world, count, crashes>>

\* set_synced_at, on whatever is there.
Finish(j) ==
  /\ job[j].pc = "end"
  /\ conns' = [i \in DOMAIN conns |->
       IF i = job[j].conn THEN [conns[i] EXCEPT !.synced = TRUE] ELSE conns[i]]
  /\ Stop(j)
  /\ UNCHANGED <<nextId, saved, world, count, crashes>>

----------------------------------------------------------------------------
(* The customer, the provider and the host.                                *)

\* complete_callback, for a state that Accounts admits: the customer consented once more.
Connect ==
  /\ given < MaxGrants
  /\ given' = given + 1
  /\ Upsert(given', given')
  /\ UNCHANGED <<saved, job, dead, count, crashes>>

\* delete: the actions, the messages and the row, in one transaction.  A promise
\* read in one of the messages would make the database refuse it (see FollowUps);
\* a mailbox without promises is followed here.
Disconnect(id) ==
  /\ id \in DOMAIN conns
  /\ conns' = [i \in DOMAIN conns \ {id} |-> conns[i]]
  /\ saved' = saved \ {id}
  /\ UNCHANGED <<nextId, job, dead, given, count, crashes>>

Revoke ==
  /\ \E g \in (1..given) \ dead : dead' = dead \cup {g}
  /\ UNCHANGED <<conns, nextId, saved, job, given, count, crashes>>

Crash ==
  /\ crashes < MaxCrashes
  /\ crashes' = crashes + 1
  /\ job' = [j \in Jobs |-> Idle]
  /\ UNCHANGED <<conns, nextId, saved, world, count>>

----------------------------------------------------------------------------
Init ==
  /\ conns = [i \in {} |-> Idle] /\ nextId = 1 /\ saved = {}
  /\ job = [j \in Jobs |-> Idle]
  /\ dead = {} /\ given = 0
  /\ breaks = 0 /\ notices = 0 /\ crashes = 0

Start(j) == \E id \in DOMAIN conns : Begin(j, id)

Step(j) ==
  \/ Build(j) \/ Check(j) \/ CallOk(j) \/ Call401(j) \/ Unreachable(j)
  \/ RefreshRefused(j) \/ RefreshOk(j) \/ RefreshStore(j)
  \/ Flag(j) \/ Announce(j) \/ Save(j) \/ Finish(j)

Human == Connect \/ Revoke \/ \E id \in DOMAIN conns : Disconnect(id)

Next == (\E j \in Jobs : Start(j) \/ Step(j)) \/ Human \/ Crash

Spec == Init /\ [][Next]_vars

(* The worker lists its mailboxes for ever and a job runs to its end.      *)
(* Asked again and again, the provider accepts a valid token in the end,   *)
(* an access token expires in the end, and a refresh is answered.          *)
Fairness ==
  /\ WF_vars(Start(Worker))
  /\ \A j \in Jobs : WF_vars(Step(j))
  /\ SF_vars(CallOk(Worker)) /\ SF_vars(Call401(Worker))
  /\ SF_vars(RefreshRefused(Worker) \/ RefreshOk(Worker))

FairSpec == Spec /\ Fairness

----------------------------------------------------------------------------
(* Properties.                                                             *)

Running ==
  [pc : {"build"}, conn : Ids] \cup
  [pc : {"check", "call", "refresh", "store", "flag", "announce", "save", "end"},
   conn : Ids, access : Grants, refresh : Grants]

\* The type invariant: rows, jobs and counters keep their shapes.
TypeOK ==
  /\ DOMAIN conns \subseteq Ids /\ conns \in [DOMAIN conns -> Connection]
  /\ nextId \in 1..(MaxIds + 1) /\ saved \subseteq Ids
  /\ job \in [Jobs -> {Idle} \cup Running]
  /\ dead \subseteq Grants /\ given \in 0..MaxGrants
  /\ breaks \in Nat /\ notices \in Nat /\ crashes \in 0..MaxCrashes

\* One row for the account at any time, whatever consents, refreshes and
\* disconnects overlap, and ids are never used again: rows stored for a
\* mailbox that was removed are never taken over by its successor.
OneRowPerAccount ==
  /\ \A i, k \in DOMAIN conns : i = k
  /\ \A i \in DOMAIN conns \cup saved : i < nextId
  /\ \A j \in Jobs : job[j] # Idle => job[j].conn < nextId

\* A mailbox that breaks is announced once for every time it breaks, by
\* whichever job found out (a restart in between forgets it): no break is
\* silent and none is announced on every sweep.
AnnouncedOnce ==
  LET pending == Cardinality({j \in Jobs : job[j].pc = "announce"})
  IN  /\ notices + pending <= breaks
      /\ crashes = 0 => notices + pending = breaks

\* If the database enforces foreign keys, no stored message outlives its
\* mailbox, even when a sync that began before the disconnect is still saving
\* and a refresh or a new consent has made another row for the account.
DisconnectRemovesRows == ForeignKeys => saved \subseteq DOMAIN conns

\* There is one mailbox, and no more than its messages, whatever consents, refreshes
\* and disconnects overlap (upsert_connection and delete of MailboxRepository).
RowsOfOneMailbox == OneRowPerAccount /\ DisconnectRemovesRows

Silent == \E id \in DOMAIN conns :
            conns[id].status = "connected" /\ {conns[id].access, conns[id].refresh} \subseteq dead

\* A mailbox whose grant was withdrawn does not stay "connected" for ever: it
\* is flagged, disconnected or connected again.
RevocationNoticed == []<>~Silent

Waiting(id) == id \in DOMAIN conns /\ ~conns[id].synced /\ conns[id].status = "connected"

\* A new mailbox whose first sync died with the request or the process is
\* synced by the worker, unless it is flagged or disconnected first.
FirstSyncHappens == \A id \in Ids : []<>~Waiting(id)

\* No mailbox looks connected and stays empty: the worker comes round to it, or finds
\* out that it is withdrawn (sync_due_connections, build_provider).
NoneStaysSilent == RevocationNoticed /\ FirstSyncHappens
=============================================================================
