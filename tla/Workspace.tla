----------------------------- MODULE Workspace -----------------------------
(***************************************************************************)
(* A customer's workspace: provisioning it (app/saas/provisioning.py),     *)
(* its members and their roles (org_service.py), its licences (billing.py, *)
(* operator_routes.py) and its erasure (data_lifecycle.py).                *)
(*                                                                         *)
(* A request authenticates once (deps.get_current_user) and works from the *)
(* actor's role as it was then; each repository call is a transaction of   *)
(* its own.  Addresses and names are left out: a user is a row with a role.*)
(***************************************************************************)
EXTENDS Naturals, FiniteSets

CONSTANTS
  Requests,     \* requests that may be open at one time
  MaxUsers,     \* bound: user rows ever created
  Keys,         \* licence keys minted for this workspace
  Trial,        \* the one its provisioning mints
  Seats,        \* the seats each key grants
  ForeignKeys   \* the database enforces foreign keys (Postgres; not SQLite)

ASSUME WorkspaceAssumption ==
  /\ IsFiniteSet(Requests) /\ Requests # {} /\ MaxUsers \in Nat \ {0}
  /\ IsFiniteSet(Keys) /\ Trial \in Keys /\ Seats \in [Keys -> Nat \ {0}]
  /\ ForeignKeys \in BOOLEAN

Roles == {"member", "admin", "owner"}
Ids == 1..MaxUsers

VARIABLES
  org,         \* the row: "none", "made" (its owner is not there yet), "owned", "gone"
  users,       \* saas_users: the roles of the ids in use
  nextId,      \* the next id to hand out: ids are never used again
  licences,    \* saas_licenses: a function on the keys with a row
  expired,     \* the keys past their date
  audited,     \* saas_audit_log has rows of this workspace
  req,         \* what each request is doing
  overlapped   \* history: two requests were open at one time

tables == <<org, users, nextId, licences, audited>>
vars == <<org, users, nextId, licences, expired, audited, req, overlapped>>

----------------------------------------------------------------------------
(* rbac.py                                                                 *)

rank(role) == CASE role = "member" -> 1 [] role = "admin" -> 2 [] OTHER -> 3
role_at_least(role, required) == rank(role) >= rank(required)
can_assign_role(actor, role) == role_at_least(actor, "admin") /\ rank(actor) >= rank(role)

----------------------------------------------------------------------------
(* The tables.                                                             *)

Exists == org \in {"made", "owned"}
MayInsert == Exists \/ ~ForeignKeys      \* org_id references the organization

Owners == {i \in DOMAIN users : users[i] = "owner"}

AddUser(role) ==
  /\ users' = [i \in DOMAIN users \cup {nextId} |-> IF i = nextId THEN role ELSE users[i]]
  /\ nextId' = nextId + 1

Licence == [active : BOOLEAN, at : Nat]  \* status, and the order of issued_at

\* LicenseRepository.upsert: a known key is active again, a new one is appended.
UpsertLicence(k) ==
  licences' = [x \in DOMAIN licences \cup {k} |->
    IF x # k THEN licences[x]
    ELSE IF k \in DOMAIN licences THEN [licences[k] EXCEPT !.active = TRUE]
    ELSE [active |-> TRUE, at |-> Cardinality(DOMAIN licences)]]

Active == {k \in DOMAIN licences : licences[k].active}

\* current_entitlement: the newest active row decides, even when it is expired.
InForce(k) == k \in Active /\ \A x \in Active : licences[x].at <= licences[k].at
SeatsGranted ==
  IF \E k \in Keys : InForce(k) /\ k \notin expired
  THEN Seats[CHOOSE k \in Keys : InForce(k)] ELSE 0

----------------------------------------------------------------------------
(* Requests.                                                               *)

Idle == [pc |-> "idle"]
To(r, state) == req' = [req EXCEPT ![r] = state]
Stop(r) == To(r, Idle)
Audit(r) == To(r, [pc |-> "audit"])

Open(r, state) ==
  /\ req[r] = Idle
  /\ To(r, state)
  /\ overlapped' = (overlapped \/ \E q \in Requests \ {r} : req[q] # Idle)

\* require_role: the session's user as it is now.
Authorised(a, role) == a \in DOMAIN users /\ role_at_least(users[a], role)

Quiet == UNCHANGED <<expired, overlapped>>

\* AuditRepository.record has no foreign key, and is the last thing a handler does.
Record(r) ==
  /\ req[r].pc = "audit"
  /\ audited' = TRUE
  /\ Stop(r)
  /\ Quiet /\ UNCHANGED <<org, users, nextId, licences>>

(* provision_org: the organization, its owner, its trial licence.          *)

Provision(r) ==
  /\ org = "none"
  /\ Open(r, [pc |-> "owner"])
  /\ org' = "made"
  /\ UNCHANGED <<users, nextId, licences, expired, audited>>

\* The e-mail address may have been taken since email_exists: the unique index
\* objects and the organization stays behind without an owner.
ProvisionOwner(r) ==
  /\ req[r].pc = "owner"
  /\ \/ /\ AddUser("owner") /\ org' = "owned"
        /\ To(r, [pc |-> "upsert", key |-> Trial])
     \/ Stop(r) /\ UNCHANGED <<users, nextId, org>>
  /\ Quiet /\ UNCHANGED <<licences, audited>>

(* invite_member *)

\* has_seat_available reads the licence (here, with the request's begin) and
\* then counts the members.
Invite(r, a, role) ==
  /\ Authorised(a, "admin") /\ can_assign_role(users[a], role)
  /\ Open(r, [pc |-> "count", role |-> role, seats |-> SeatsGranted])
  /\ UNCHANGED <<tables, expired>>

\* Mutant: the comparison lets in one more.
InviteCountLoose(r) ==
  /\ req[r].pc = "count"
  /\ IF Cardinality(DOMAIN users) <= req[r].seats
     THEN To(r, [pc |-> "create", role |-> req[r].role]) ELSE Stop(r)
  /\ Quiet /\ UNCHANGED tables

InviteCount(r) ==
  /\ req[r].pc = "count"
  /\ IF Cardinality(DOMAIN users) < req[r].seats
     THEN To(r, [pc |-> "create", role |-> req[r].role]) ELSE Stop(r)
  /\ Quiet /\ UNCHANGED tables

\* The address may be taken (email_exists, or the unique index): no row then.
InviteCreate(r) ==
  /\ req[r].pc = "create"
  /\ \/ MayInsert /\ nextId <= MaxUsers /\ AddUser(req[r].role) /\ Audit(r)
     \/ Stop(r) /\ UNCHANGED <<users, nextId>>
  /\ Quiet /\ UNCHANGED <<org, licences, audited>>

(* change_member_role and remove_member; "none" is the role of a removed member. *)

\* Mutant: the guard of the last owner is only there for a change of role.
GuardedUnlessRemoved(m, role) == users[m] = "owner" /\ role \notin {"owner", "none"}

\* An owner who is to be one no longer.
Guarded(m, role) == users[m] = "owner" /\ role # "owner"

\* The member's row is read with the request's begin.
Change(r, a, m, role) ==
  /\ Authorised(a, "admin")
  /\ IF role = "none" THEN m # a ELSE can_assign_role(users[a], role)
  /\ Open(r, [pc |-> IF Guarded(m, role) THEN "owners" ELSE "apply", member |-> m, role |-> role])
  /\ UNCHANGED <<tables, expired>>

ChangeOwners(r) ==
  /\ req[r].pc = "owners"
  /\ IF Cardinality(Owners) <= 1 THEN Stop(r) ELSE req' = [req EXCEPT ![r].pc = "apply"]
  /\ Quiet /\ UNCHANGED tables

\* update_role or delete, of a row that may be gone; it is audited either way.
ChangeApply(r) ==
  /\ req[r].pc = "apply"
  /\ users' = IF req[r].role = "none" THEN [i \in DOMAIN users \ {req[r].member} |-> users[i]]
              ELSE [i \in DOMAIN users |-> IF i = req[r].member THEN req[r].role ELSE users[i]]
  /\ Audit(r)
  /\ Quiet /\ UNCHANGED <<org, nextId, licences, audited>>

(* Licences: activated by the owner, minted and revoked by the operator.   *)

\* Mutant: a revoked key is not refused.
ActivateAny(r, a, k) ==
  /\ Authorised(a, "owner") /\ k \notin expired \cup {Trial}
  /\ Open(r, [pc |-> "upsert", key |-> k])
  /\ UNCHANGED <<tables, expired>>

\* activate_license: the key's signature and date, then its row.  The trial's
\* key is never handed out (provision_org keeps only its terms).
Activate(r, a, k) ==
  /\ Authorised(a, "owner") /\ k \notin expired \cup {Trial}
  /\ k \in DOMAIN licences => licences[k].active
  /\ Open(r, [pc |-> "upsert", key |-> k])
  /\ UNCHANGED <<tables, expired>>

Mint(r, k) ==
  /\ Exists /\ k \notin DOMAIN licences \cup {Trial}
  /\ \A q \in Requests : req[q].pc = "upsert" => req[q].key # k   \* a new uuid
  /\ Open(r, [pc |-> "upsert", key |-> k])
  /\ UNCHANGED <<tables, expired>>

Upsert(r) ==
  /\ req[r].pc = "upsert"
  /\ IF MayInsert \/ req[r].key \in DOMAIN licences
     THEN UpsertLicence(req[r].key) /\ Audit(r)
     ELSE Stop(r) /\ UNCHANGED licences
  /\ Quiet /\ UNCHANGED <<org, users, nextId, audited>>

\* One key, or every active one of a workspace that exists.
Revoke(r, ks) ==
  /\ ks \subseteq DOMAIN licences
  /\ Cardinality(ks) = 1 \/ (Exists /\ ks = Active)
  /\ licences' = [k \in DOMAIN licences |->
       IF k \in ks THEN [licences[k] EXCEPT !.active = FALSE] ELSE licences[k]]
  /\ Open(r, [pc |-> "audit"])
  /\ UNCHANGED <<org, users, nextId, expired, audited>>

(* The data of the workspace.                                              *)

\* export_org is one read and an audit row.
Export(r, a) ==
  /\ Authorised(a, "owner") /\ Exists
  /\ Open(r, [pc |-> "audit"])
  /\ UNCHANGED <<tables, expired>>

Erase(r, a) ==
  /\ Authorised(a, "owner") /\ Exists
  /\ Open(r, [pc |-> "erase"])
  /\ UNCHANGED <<tables, expired>>

\* Mutant: a table is missing from TENANT_TABLES.
DeleteOrgKeepsAudit(r) ==
  /\ req[r].pc = "erase"
  /\ IF Exists
     THEN /\ org' = "gone"
          /\ users' = [i \in {} |-> "none"] /\ licences' = [k \in {} |-> Idle]
     ELSE UNCHANGED <<org, users, licences>>
  /\ Stop(r)
  /\ Quiet /\ UNCHANGED <<nextId, audited>>

\* delete_org: every tenant table and the organization, in one transaction.
DeleteOrg(r) ==
  /\ req[r].pc = "erase"
  /\ IF Exists
     THEN /\ org' = "gone" /\ audited' = FALSE
          /\ users' = [i \in {} |-> "none"] /\ licences' = [k \in {} |-> Idle]
     ELSE UNCHANGED <<org, users, licences, audited>>
  /\ Stop(r)
  /\ Quiet /\ UNCHANGED nextId

\* Time passes the date of a key that is in use.
Expire(k) ==
  /\ k \in Active
  /\ expired' = expired \cup {k}
  /\ UNCHANGED <<tables, req, overlapped>>

\* A request dies at any point: an error, a lost connection, a restart.
Abort(r) ==
  /\ req[r] # Idle
  /\ Stop(r)
  /\ Quiet /\ UNCHANGED tables

----------------------------------------------------------------------------
Init ==
  /\ org = "none" /\ users = [i \in {} |-> "none"] /\ nextId = 1
  /\ licences = [k \in {} |-> Idle] /\ expired = {} /\ audited = FALSE
  /\ req = [r \in Requests |-> Idle] /\ overlapped = FALSE

Begin(r) ==
  \/ Provision(r)
  \/ \E a \in DOMAIN users, role \in Roles : Invite(r, a, role)
  \/ \E a, m \in DOMAIN users, role \in Roles \cup {"none"} : Change(r, a, m, role)
  \/ \E a \in DOMAIN users : Export(r, a) \/ Erase(r, a) \/ \E k \in Keys : Activate(r, a, k)
  \/ \E k \in Keys : Mint(r, k)
  \/ \E ks \in SUBSET Keys : Revoke(r, ks)

Step(r) ==
  \/ ProvisionOwner(r) \/ InviteCount(r) \/ InviteCreate(r)
  \/ ChangeOwners(r) \/ ChangeApply(r)
  \/ Upsert(r) \/ DeleteOrg(r) \/ Record(r) \/ Abort(r)

Next == (\E r \in Requests : Begin(r) \/ Step(r)) \/ \E k \in Keys : Expire(k)

Spec == Init /\ [][Next]_vars

----------------------------------------------------------------------------
(* Properties.                                                             *)

Request ==
  [pc : {"idle", "owner", "audit", "erase"}] \cup
  [pc : {"create"}, role : Roles] \cup
  [pc : {"count"}, role : Roles, seats : Nat] \cup
  [pc : {"owners", "apply"}, member : Ids, role : Roles \cup {"none"}] \cup
  [pc : {"upsert"}, key : Keys]

\* The type invariant: the tables and the requests keep their shapes.
TypeOK ==
  /\ org \in {"none", "made", "owned", "gone"}
  /\ DOMAIN users \subseteq Ids /\ users \in [DOMAIN users -> Roles]
  /\ nextId \in 1..(MaxUsers + 1)
  /\ DOMAIN licences \subseteq Keys /\ licences \in [DOMAIN licences -> Licence]
  /\ expired \subseteq Keys /\ audited \in BOOLEAN /\ overlapped \in BOOLEAN
  /\ req \in [Requests -> Request]

\* As long as requests do not overlap, a workspace keeps an owner through any
\* sequence of invitations, changes of role, removals and failures.
OwnerRemains == org = "owned" /\ ~overlapped => Owners # {}

\* Seats are checked before the insert, so overlapping invitations may pass the
\* limit - but by fewer members than there are requests, and not at all without
\* an overlap; whatever licences came, went and expired meanwhile.
SeatLimit ==
  org = "owned" /\ licences # [k \in {} |-> Idle] =>
    \E k \in DOMAIN licences :
      Cardinality(DOMAIN users) < Seats[k] + (IF overlapped THEN Cardinality(Requests) ELSE 1)

\* A revoked key stays revoked as long as requests do not overlap.
RevokedForGood ==
  [][~overlapped' /\ org' # "gone" =>
       \A k \in DOMAIN licences : ~licences[k].active => ~licences'[k].active]_vars

\* Erasure is complete: no row of a workspace that was deleted comes back or is
\* left.  A request that was open meanwhile can only leave its audit row, unless
\* the database does not enforce foreign keys.
ErasureComplete ==
  org = "gone" =>
    /\ audited => overlapped
    /\ users # [i \in {} |-> "none"] \/ licences # [k \in {} |-> Idle] =>
         overlapped /\ ~ForeignKeys
=============================================================================
