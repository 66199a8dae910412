-------------------------- MODULE WorkspaceProofs --------------------------
(***************************************************************************)
(* Proofs about Workspace, for any number of requests, users and keys.     *)
(***************************************************************************)
EXTENDS Workspace, FiniteSetTheorems, TLAPS

NoUsers == [i \in {} |-> "none"]
NoLicences == [k \in {} |-> Idle]

\* Ids in use were handed out.
Fresh == \A i \in DOMAIN users : i < nextId

\* Without an overlap at most one request is open.
Solo == ~overlapped => \A r, q \in Requests : req[r] # Idle /\ req[q] # Idle => r = q

\* Before there is an owner: no users, so no requests of users; the trial's key
\* is known to nobody; one request provisions.
Early ==
  /\ org \in {"none", "made"} =>
       /\ users = NoUsers /\ nextId = 1
       /\ Trial \notin DOMAIN licences
       /\ \A r \in Requests :
            /\ req[r].pc \notin {"count", "create", "owners", "apply", "erase"}
            /\ req[r].pc = "upsert" => req[r].key # Trial
  /\ \A r \in Requests : req[r].pc = "owner" => org = "made"
  /\ \A r, q \in Requests : req[r].pc = "owner" /\ req[q].pc = "owner" => r = q

\* A change about to be applied leaves an owner.
AnotherOwner(r) ==
  req[r].pc = "apply" /\ req[r].role # "owner" => \E i \in Owners : i # req[r].member

OwnerInv ==
  ~overlapped /\ org = "owned" => Owners # {} /\ \A r \in Requests : AnotherOwner(r)

\* A key about to be written is not revoked.
NotRevoked ==
  ~overlapped => \A r \in Requests :
    req[r].pc = "upsert" /\ req[r].key \in DOMAIN licences => licences[req[r].key].active

\* An erasure without an overlap is the end of the last request.
GoneIdle == org = "gone" /\ ~overlapped => \A r \in Requests : req[r] = Idle

WorkspaceInv ==
  /\ TypeOK /\ Fresh /\ Solo /\ Early
  /\ OwnerInv /\ NotRevoked /\ GoneIdle /\ ErasureComplete

Creating == {r \in Requests : req[r].pc = "create"}
Slack == IF overlapped THEN Cardinality(Requests) ELSE 1

\* Invitations that passed the check count as members already.
SeatsOk ==
  \/ licences = NoLicences /\ Cardinality(DOMAIN users) <= 1 /\ Creating = {}
  \/ \E k \in DOMAIN licences :
       Cardinality(DOMAIN users) + Cardinality(Creating) < Seats[k] + Slack

\* What an invitation read is no more than some licence grants.
CountOk(r) ==
  req[r].pc = "count" =>
    req[r].seats = 0 \/ \E k \in DOMAIN licences : req[r].seats <= Seats[k]

SeatInv == org = "owned" => SeatsOk /\ \A r \in Requests : CountOk(r)

----------------------------------------------------------------------------
(* Records of requests.                                                    *)

\* What the fields of a request hold.
LEMMA RequestFields ==
  ASSUME NEW x \in Request
  PROVE  /\ x.pc \in {"create", "count"} => x.role \in Roles
         /\ x.pc = "count" => x.seats \in Nat
         /\ x.pc \in {"owners", "apply"} => x.member \in Ids /\ x.role \in Roles \cup {"none"}
         /\ x.pc = "upsert" => x.key \in Keys
         /\ x = Idle <=> x.pc = "idle"
BY DEF Request, Idle

\* The records the actions build.
LEMMA RequestMade ==
  /\ Idle \in Request /\ Idle.pc = "idle"
  /\ \A p \in {"owner", "audit", "erase"} : [pc |-> p] \in Request /\ [pc |-> p].pc = p
  /\ \A x \in Roles : [pc |-> "create", role |-> x] \in Request
  /\ \A x \in Roles, n \in Nat : [pc |-> "count", role |-> x, seats |-> n] \in Request
  /\ \A p \in {"owners", "apply"}, i \in Ids, x \in Roles \cup {"none"} :
       [pc |-> p, member |-> i, role |-> x] \in Request
  /\ \A k \in Keys : [pc |-> "upsert", key |-> k] \in Request
BY DEF Request, Idle

\* One request changes, the others do not.
LEMMA ToOne ==
  ASSUME TypeOK, NEW r \in Requests, NEW s \in Request, To(r, s)
  PROVE  /\ req' \in [Requests -> Request]
         /\ req'[r] = s
         /\ \A q \in Requests : q # r => req'[q] = req[q]
BY DEF To, TypeOK

\* A request that opens is alone, or there is an overlap.
LEMMA OpenSolo ==
  ASSUME TypeOK, Solo, NEW r \in Requests, NEW s \in Request, Open(r, s)
  PROVE  /\ Solo' /\ overlapped' \in BOOLEAN /\ req[r] = Idle /\ To(r, s)
         /\ ~overlapped' => ~overlapped /\ \A q \in Requests : q # r => req'[q] = Idle
<1>1. To(r, s) /\ req[r] = Idle BY DEF Open
<1>2. \A q \in Requests : q # r => req'[q] = req[q] BY <1>1, ToOne
<1>3. ~overlapped' => ~overlapped /\ \A q \in Requests : q # r => req[q] = Idle
  BY DEF Open, TypeOK
<1>4. overlapped' \in BOOLEAN BY DEF Open, TypeOK
<1> QED BY <1>1, <1>2, <1>3, <1>4 DEF Solo

\* A request that goes on leaves the others alone.
LEMMA StepSolo ==
  ASSUME TypeOK, Solo, NEW r \in Requests, NEW s \in Request, To(r, s),
         req[r] # Idle, overlapped' = overlapped
  PROVE  /\ Solo' /\ overlapped' \in BOOLEAN
         /\ ~overlapped' => \A q \in Requests : q # r => req'[q] = Idle
<1>1. \A q \in Requests : q # r => req'[q] = req[q] BY ToOne
<1>2. ~overlapped => \A q \in Requests : q # r => req[q] = Idle BY DEF Solo
<1>3. overlapped' \in BOOLEAN BY DEF TypeOK
<1> QED BY <1>1, <1>2, <1>3 DEF Solo

----------------------------------------------------------------------------
(* The invariant, action by action.                                        *)

\* A request moves on and writes at most an audit row.
LEMMA TablesStay ==
  ASSUME WorkspaceInv, NEW r \in Requests, NEW s \in Request, To(r, s),
         UNCHANGED <<org, users, nextId, licences, expired>>, audited' \in BOOLEAN,
         Solo', overlapped' \in BOOLEAN, overlapped => overlapped',
         s.pc # "owner",
         org \in {"none", "made"} =>
           /\ s.pc \notin {"count", "create", "owners", "apply", "erase"}
           /\ s.pc = "upsert" => s.key # Trial,
         ~overlapped' /\ org = "owned" /\ s.pc = "apply" /\ s.role # "owner" =>
           \E i \in Owners : i # s.member,
         ~overlapped' /\ s.pc = "upsert" /\ s.key \in DOMAIN licences => licences[s.key].active,
         org = "gone" /\ ~overlapped' => s = Idle /\ ~audited'
  PROVE  WorkspaceInv'
<1> USE DEF WorkspaceInv
<1>1. /\ req' \in [Requests -> Request] /\ req'[r] = s
      /\ \A q \in Requests : q # r => req'[q] = req[q]
  BY ToOne
<1>2. TypeOK' BY <1>1 DEF TypeOK
<1>3. Fresh' BY DEF Fresh
<1>4. Early' BY <1>1 DEF Early
<1>5. OwnerInv' BY <1>1 DEF OwnerInv, AnotherOwner, Owners
<1>6. NotRevoked' BY <1>1 DEF NotRevoked
<1>7. GoneIdle' BY <1>1 DEF GoneIdle
<1>8. ErasureComplete' BY DEF ErasureComplete, TypeOK
<1> QED BY <1>2, <1>3, <1>4, <1>5, <1>6, <1>7, <1>8

\* What a user's request may assume: it is not early, and after an erasure
\* there are users only through an overlap.
LEMMA UserPresent ==
  ASSUME WorkspaceInv, NEW a \in DOMAIN users
  PROVE  org \notin {"none", "made"} /\ (org = "gone" => overlapped)
<1>1. users # NoUsers BY DEF NoUsers
<1> QED BY <1>1 DEF WorkspaceInv, Early, ErasureComplete, NoUsers

LEMMA SeatsGrantedType ==
  ASSUME WorkspaceAssumption
  PROVE  SeatsGranted \in Nat
<1>1. CASE \E k \in Keys : InForce(k) /\ k \notin expired
  <2>1. (CHOOSE k \in Keys : InForce(k)) \in Keys BY <1>1
  <2> QED BY <1>1, <2>1 DEF SeatsGranted, WorkspaceAssumption
<1>2. CASE ~\E k \in Keys : InForce(k) /\ k \notin expired
  BY <1>2 DEF SeatsGranted
<1> QED BY <1>1, <1>2

LEMMA InvInvite ==
  ASSUME WorkspaceInv, NEW r \in Requests, NEW a \in DOMAIN users, NEW role \in Roles,
         Invite(r, a, role)
  PROVE  WorkspaceInv'
<1> DEFINE s == [pc |-> "count", role |-> role, seats |-> SeatsGranted]
<1>1. s \in Request BY SeatsGrantedType, WorkspaceAssumption, RequestMade
<1>2. s.pc = "count" OBVIOUS
<1>3. Open(r, s) /\ UNCHANGED <<org, users, nextId, licences, expired, audited>>
  BY DEF Invite, tables
<1> HIDE DEF s
<1>4. /\ Solo' /\ overlapped' \in BOOLEAN /\ To(r, s) /\ (overlapped => overlapped')
  BY <1>1, <1>3, OpenSolo DEF WorkspaceInv, Open, TypeOK
<1>5. audited' \in BOOLEAN BY <1>3 DEF WorkspaceInv, TypeOK
<1>6. org \notin {"none", "made"} /\ (org = "gone" => overlapped) BY UserPresent
<1> QED BY <1>1, <1>2, <1>3, <1>4, <1>5, <1>6, TablesStay

LEMMA InvChange ==
  ASSUME WorkspaceInv, NEW r \in Requests, NEW a \in DOMAIN users, NEW m \in DOMAIN users,
         NEW role \in Roles \cup {"none"}, Change(r, a, m, role)
  PROVE  WorkspaceInv'
<1> DEFINE p == IF Guarded(m, role) THEN "owners" ELSE "apply"
           s == [pc |-> p, member |-> m, role |-> role]
<1>1. m \in Ids /\ p \in {"owners", "apply"} BY DEF WorkspaceInv, TypeOK
<1>2. s \in Request BY <1>1, RequestMade
<1>3. /\ s.pc \in {"owners", "apply"} /\ s.member = m /\ s.role = role
      /\ s.pc = "apply" => ~Guarded(m, role)
  OBVIOUS
<1>4. Open(r, s) /\ UNCHANGED <<org, users, nextId, licences, expired, audited>>
  BY DEF Change, tables
<1> HIDE DEF s
<1>5. /\ Solo' /\ overlapped' \in BOOLEAN /\ To(r, s) /\ (overlapped => overlapped')
  BY <1>2, <1>4, OpenSolo DEF WorkspaceInv, Open, TypeOK
<1>6. audited' \in BOOLEAN BY <1>4 DEF WorkspaceInv, TypeOK
<1>7. org \notin {"none", "made"} /\ (org = "gone" => overlapped) BY UserPresent
<1>8. ASSUME ~overlapped', org = "owned", s.pc = "apply", s.role # "owner"
      PROVE  \E i \in Owners : i # s.member
  <2>1. m \notin Owners BY <1>3, <1>8 DEF Guarded, Owners
  <2>2. Owners # {} BY <1>5, <1>8 DEF WorkspaceInv, OwnerInv
  <2> QED BY <2>1, <2>2, <1>3
<1> QED BY <1>2, <1>3, <1>4, <1>5, <1>6, <1>7, <1>8, TablesStay

LEMMA InvActivate ==
  ASSUME WorkspaceInv, NEW r \in Requests, NEW a \in DOMAIN users, NEW k \in Keys,
         Activate(r, a, k)
  PROVE  WorkspaceInv'
<1> DEFINE s == [pc |-> "upsert", key |-> k]
<1>1. s \in Request /\ s.pc = "upsert" /\ s.key = k BY RequestMade
<1>2. /\ Open(r, s) /\ UNCHANGED <<org, users, nextId, licences, expired, audited>>
      /\ k \in DOMAIN licences => licences[k].active
  BY DEF Activate, tables
<1> HIDE DEF s
<1>3. /\ Solo' /\ overlapped' \in BOOLEAN /\ To(r, s) /\ (overlapped => overlapped')
  BY <1>1, <1>2, OpenSolo DEF WorkspaceInv, Open, TypeOK
<1>4. audited' \in BOOLEAN BY <1>2 DEF WorkspaceInv, TypeOK
<1>5. org \notin {"none", "made"} /\ (org = "gone" => overlapped) BY UserPresent
<1> QED BY <1>1, <1>2, <1>3, <1>4, <1>5, TablesStay

LEMMA InvMint ==
  ASSUME WorkspaceInv, NEW r \in Requests, NEW k \in Keys, Mint(r, k)
  PROVE  WorkspaceInv'
<1> DEFINE s == [pc |-> "upsert", key |-> k]
<1>1. s \in Request /\ s.pc = "upsert" /\ s.key = k BY RequestMade
<1>2. /\ Open(r, s) /\ UNCHANGED <<org, users, nextId, licences, expired, audited>>
      /\ org \in {"made", "owned"} /\ k \notin DOMAIN licences /\ k # Trial
  BY DEF Mint, tables, Exists
<1> HIDE DEF s
<1>3. /\ Solo' /\ overlapped' \in BOOLEAN /\ To(r, s) /\ (overlapped => overlapped')
  BY <1>1, <1>2, OpenSolo DEF WorkspaceInv, Open, TypeOK
<1>4. audited' \in BOOLEAN BY <1>2 DEF WorkspaceInv, TypeOK
<1> QED BY <1>1, <1>2, <1>3, <1>4, TablesStay

LEMMA InvExportErase ==
  ASSUME WorkspaceInv, NEW r \in Requests, NEW a \in DOMAIN users,
         Export(r, a) \/ Erase(r, a)
  PROVE  WorkspaceInv'
<1>1. PICK p \in {"audit", "erase"} : Open(r, [pc |-> p])
  BY DEF Export, Erase
<1> DEFINE s == [pc |-> p]
<1>2. s \in Request /\ s.pc \in {"audit", "erase"} BY RequestMade
<1>3. Open(r, s) /\ UNCHANGED <<org, users, nextId, licences, expired, audited>>
  BY <1>1 DEF Export, Erase, tables
<1> HIDE DEF s
<1>4. /\ Solo' /\ overlapped' \in BOOLEAN /\ To(r, s) /\ (overlapped => overlapped')
  BY <1>2, <1>3, OpenSolo DEF WorkspaceInv, Open, TypeOK
<1>5. audited' \in BOOLEAN BY <1>3 DEF WorkspaceInv, TypeOK
<1>6. org \notin {"none", "made"} /\ (org = "gone" => overlapped) BY UserPresent
<1> QED BY <1>2, <1>3, <1>4, <1>5, <1>6, TablesStay

\* Two owners: one is not the member that is to change.
LEMMA TwoOwners ==
  ASSUME TypeOK, ~(Cardinality(Owners) <= 1), NEW m
  PROVE  \E i \in Owners : i # m
<1>1. IsFiniteSet(Owners)
  <2>1. IsFiniteSet(Ids) BY FS_Interval, WorkspaceAssumption DEF Ids, WorkspaceAssumption
  <2> QED BY <2>1, FS_Subset DEF Owners, TypeOK
<1>2. SUFFICES ASSUME Owners \subseteq {m} PROVE FALSE OBVIOUS
<1>3. Cardinality({m}) = 1 /\ IsFiniteSet({m}) BY FS_Singleton
<1>4. Cardinality(Owners) <= Cardinality({m}) BY <1>2, <1>3, FS_Subset
<1> QED BY <1>3, <1>4

LEMMA InvChangeOwners ==
  ASSUME WorkspaceInv, NEW r \in Requests, ChangeOwners(r)
  PROVE  WorkspaceInv'
<1>1. /\ req[r].pc = "owners" /\ req[r] \in Request /\ req[r] # Idle
      /\ UNCHANGED <<org, users, nextId, licences, expired, audited, overlapped>>
  BY DEF ChangeOwners, Quiet, tables, WorkspaceInv, TypeOK, Idle
<1>2. overlapped \in BOOLEAN /\ audited' \in BOOLEAN BY <1>1 DEF WorkspaceInv, TypeOK
<1>3. CASE Cardinality(Owners) <= 1
  <2>1. To(r, Idle) /\ Idle \in Request /\ Idle.pc = "idle"
    BY <1>3, RequestMade DEF ChangeOwners, Stop
  <2>2. Solo' BY <1>1, <2>1, StepSolo DEF WorkspaceInv
  <2>3. org = "gone" => overlapped BY <1>1 DEF WorkspaceInv, GoneIdle
  <2>4. org = "gone" /\ ~overlapped' => ~audited' BY <2>3, <1>1
  <2> QED BY <1>1, <1>2, <2>1, <2>2, <2>4, TablesStay
<1>4. CASE ~(Cardinality(Owners) <= 1)
  <2> DEFINE s == [req[r] EXCEPT !.pc = "apply"]
  <2>1. s \in Request /\ s.pc = "apply" BY <1>1 DEF Request
  <2>2. To(r, s) BY <1>4, <1>1 DEF ChangeOwners, To, WorkspaceInv, TypeOK
  <2> HIDE DEF s
  <2>3. Solo' BY <1>1, <2>1, <2>2, StepSolo DEF WorkspaceInv
  <2>4. org = "gone" => overlapped BY <1>1 DEF WorkspaceInv, GoneIdle
  <2>5. org \notin {"none", "made"} BY <1>1 DEF WorkspaceInv, Early
  <2>6. \E i \in Owners : i # s.member BY <1>4, TwoOwners DEF WorkspaceInv
  <2> QED BY <1>1, <1>2, <2>1, <2>2, <2>3, <2>4, <2>5, <2>6, TablesStay
<1> QED BY <1>3, <1>4

LEMMA InvInviteCount ==
  ASSUME WorkspaceInv, NEW r \in Requests, InviteCount(r)
  PROVE  WorkspaceInv'
<1>1. /\ req[r].pc = "count" /\ req[r] \in Request /\ req[r] # Idle
      /\ UNCHANGED <<org, users, nextId, licences, expired, audited, overlapped>>
  BY DEF InviteCount, Quiet, tables, WorkspaceInv, TypeOK, Idle
<1>2. overlapped \in BOOLEAN /\ audited' \in BOOLEAN BY <1>1 DEF WorkspaceInv, TypeOK
<1>3. PICK s \in Request : To(r, s) /\ s.pc \in {"idle", "create"}
  <2>1. req[r].role \in Roles BY <1>1, RequestFields
  <2> DEFINE c == [pc |-> "create", role |-> req[r].role]
  <2>2. c \in Request /\ c.pc = "create" BY <2>1, RequestMade
  <2>3. To(r, c) \/ To(r, Idle) BY DEF InviteCount, Stop
  <2> HIDE DEF c
  <2> QED BY <2>2, <2>3, RequestMade
<1>4. Solo' BY <1>1, <1>3, StepSolo DEF WorkspaceInv
<1>5. org = "gone" => overlapped BY <1>1 DEF WorkspaceInv, GoneIdle
<1>6. org \notin {"none", "made"} BY <1>1 DEF WorkspaceInv, Early
<1> QED BY <1>1, <1>2, <1>3, <1>4, <1>5, <1>6, TablesStay

LEMMA InvRecordAbort ==
  ASSUME WorkspaceInv, NEW r \in Requests, Record(r) \/ Abort(r)
  PROVE  WorkspaceInv'
<1>1. /\ req[r] # Idle /\ To(r, Idle)
      /\ UNCHANGED <<org, users, nextId, licences, expired, overlapped>>
      /\ audited' = TRUE \/ audited' = audited
  BY DEF Record, Abort, Quiet, tables, Stop, Idle
<1>2. overlapped \in BOOLEAN /\ audited' \in BOOLEAN BY <1>1 DEF WorkspaceInv, TypeOK
<1>3. Idle \in Request /\ Idle.pc = "idle" BY RequestMade
<1>4. Solo' BY <1>1, <1>3, StepSolo DEF WorkspaceInv
<1>5. org = "gone" => overlapped BY <1>1 DEF WorkspaceInv, GoneIdle
<1> QED BY <1>1, <1>2, <1>3, <1>4, <1>5, TablesStay

LEMMA InvProvision ==
  ASSUME WorkspaceInv, NEW r \in Requests, Provision(r)
  PROVE  WorkspaceInv'
<1> DEFINE s == [pc |-> "owner"]
<1>1. s \in Request /\ s.pc = "owner" BY RequestMade
<1>2. /\ org = "none" /\ org' = "made" /\ Open(r, s)
      /\ UNCHANGED <<users, nextId, licences, expired, audited>>
  BY DEF Provision
<1> HIDE DEF s
<1>3. Solo' /\ overlapped' \in BOOLEAN /\ To(r, s) /\ (overlapped => overlapped')
  BY <1>1, <1>2, OpenSolo DEF WorkspaceInv, Open, TypeOK
<1>4. /\ req' \in [Requests -> Request] /\ req'[r] = s
      /\ \A q \in Requests : q # r => req'[q] = req[q]
  BY <1>1, <1>3, ToOne DEF WorkspaceInv
<1>5. TypeOK' BY <1>2, <1>3, <1>4 DEF WorkspaceInv, TypeOK
<1>6. Fresh' BY <1>2 DEF WorkspaceInv, Fresh
<1>7. Early' BY <1>1, <1>2, <1>4 DEF WorkspaceInv, Early
<1>8. OwnerInv' /\ GoneIdle' /\ ErasureComplete' BY <1>2 DEF OwnerInv, GoneIdle, ErasureComplete
<1>9. NotRevoked' BY <1>1, <1>2, <1>3, <1>4 DEF WorkspaceInv, NotRevoked
<1> QED BY <1>3, <1>5, <1>6, <1>7, <1>8, <1>9 DEF WorkspaceInv

\* The new row, and every row there was.
LEMMA AddUserEffect ==
  ASSUME TypeOK, Fresh, NEW role \in Roles, AddUser(role), nextId <= MaxUsers
  PROVE  /\ DOMAIN users' = DOMAIN users \cup {nextId} /\ nextId \notin DOMAIN users
         /\ DOMAIN users' \subseteq Ids /\ users' \in [DOMAIN users' -> Roles]
         /\ nextId' \in 1..(MaxUsers + 1) /\ Fresh'
         /\ users'[nextId] = role /\ \A i \in DOMAIN users : users'[i] = users[i]
<1>1. nextId \in 1..MaxUsers /\ nextId' = nextId + 1 /\ MaxUsers \in Nat
  BY WorkspaceAssumption DEF TypeOK, AddUser, WorkspaceAssumption
<1>2. /\ DOMAIN users' = DOMAIN users \cup {nextId}
      /\ \A i \in DOMAIN users' : users'[i] = IF i = nextId THEN role ELSE users[i]
      /\ users' = [i \in DOMAIN users' |-> users'[i]]
  BY DEF AddUser
<1>3. nextId \notin DOMAIN users
  <2>1. ~(nextId < nextId) BY <1>1
  <2> QED BY <2>1 DEF Fresh
<1>4. DOMAIN users' \subseteq Ids BY <1>1, <1>2 DEF TypeOK, Ids
<1>5. \A i \in DOMAIN users' : users'[i] \in Roles BY <1>2 DEF TypeOK
<1>6. users' \in [DOMAIN users' -> Roles] BY <1>2, <1>5
<1>7. Fresh'
  <2>1. \A i \in DOMAIN users' : i \in Nat BY <1>4, <1>1 DEF Ids
  <2> QED BY <1>1, <1>2, <2>1 DEF Fresh
<1>8. nextId' \in 1..(MaxUsers + 1) BY <1>1
<1> QED BY <1>2, <1>3, <1>4, <1>6, <1>7, <1>8

LEMMA InvProvisionOwner ==
  ASSUME WorkspaceInv, NEW r \in Requests, ProvisionOwner(r)
  PROVE  WorkspaceInv'
<1>1. /\ req[r].pc = "owner" /\ req[r] # Idle /\ org = "made" /\ nextId = 1 /\ users = NoUsers
      /\ UNCHANGED <<licences, expired, audited, overlapped>>
  BY DEF ProvisionOwner, Quiet, WorkspaceInv, Early, Idle
<1>2. CASE AddUser("owner") /\ org' = "owned" /\ To(r, [pc |-> "upsert", key |-> Trial])
  <2> DEFINE s == [pc |-> "upsert", key |-> Trial]
  <2>1. s \in Request /\ s.pc = "upsert" /\ s.key = Trial
    BY RequestMade, WorkspaceAssumption DEF WorkspaceAssumption
  <2>2. To(r, s) BY <1>2
  <2> HIDE DEF s
  <2>3. Solo' /\ overlapped' \in BOOLEAN BY <1>1, <2>1, <2>2, StepSolo DEF WorkspaceInv
  <2>4. /\ req' \in [Requests -> Request] /\ req'[r] = s
        /\ \A q \in Requests : q # r => req'[q] = req[q]
    BY <2>1, <2>2, ToOne DEF WorkspaceInv
  <2>5. nextId <= MaxUsers BY <1>1, WorkspaceAssumption DEF WorkspaceAssumption
  <2>6. "owner" \in Roles BY DEF Roles
  <2>7. /\ DOMAIN users' \subseteq Ids /\ users' \in [DOMAIN users' -> Roles]
        /\ nextId' \in 1..(MaxUsers + 1) /\ Fresh'
        /\ nextId \in DOMAIN users' /\ users'[nextId] = "owner"
    BY <1>2, <2>5, <2>6, AddUserEffect DEF WorkspaceInv
  <2>8. TypeOK' BY <1>1, <1>2, <2>3, <2>4, <2>7 DEF WorkspaceInv, TypeOK
  <2>9. Early' BY <1>1, <1>2, <2>1, <2>4 DEF WorkspaceInv, Early
  <2>10. OwnerInv'
    <3>1. Owners' # {} BY <2>7 DEF Owners
    <3>2. ASSUME NEW q \in Requests PROVE req'[q].pc # "apply"
      BY <1>1, <2>1, <2>4 DEF WorkspaceInv, Early
    <3> QED BY <3>1, <3>2 DEF OwnerInv, AnotherOwner
  <2>11. NotRevoked' BY <1>1, <2>1, <2>4 DEF WorkspaceInv, NotRevoked, Early
  <2>12. GoneIdle' /\ ErasureComplete' BY <1>2 DEF GoneIdle, ErasureComplete
  <2> QED BY <2>3, <2>7, <2>8, <2>9, <2>10, <2>11, <2>12 DEF WorkspaceInv
<1>3. CASE Stop(r) /\ UNCHANGED <<users, nextId, org>>
  <2>1. To(r, Idle) /\ Idle \in Request /\ Idle.pc = "idle" BY <1>3, RequestMade DEF Stop
  <2>2. Solo' /\ overlapped' \in BOOLEAN BY <1>1, <2>1, StepSolo DEF WorkspaceInv
  <2>3. audited' \in BOOLEAN BY <1>1 DEF WorkspaceInv, TypeOK
  <2> QED BY <1>1, <1>3, <2>1, <2>2, <2>3, TablesStay
<1> QED BY <1>2, <1>3 DEF ProvisionOwner

LEMMA InvInviteCreate ==
  ASSUME WorkspaceInv, NEW r \in Requests, InviteCreate(r)
  PROVE  WorkspaceInv'
<1>1. /\ req[r].pc = "create" /\ req[r] # Idle /\ req[r] \in Request
      /\ UNCHANGED <<org, licences, expired, audited, overlapped>>
  BY DEF InviteCreate, Quiet, WorkspaceInv, TypeOK, Idle
<1>2. org \notin {"none", "made"} /\ (org = "gone" => overlapped)
  BY <1>1 DEF WorkspaceInv, Early, GoneIdle
<1>3. CASE MayInsert /\ nextId <= MaxUsers /\ AddUser(req[r].role) /\ Audit(r)
  <2> DEFINE s == [pc |-> "audit"]
  <2>1. s \in Request /\ s.pc = "audit" BY RequestMade
  <2>2. To(r, s) BY <1>3 DEF Audit
  <2> HIDE DEF s
  <2>3. /\ Solo' /\ overlapped' \in BOOLEAN
        /\ ~overlapped' => \A q \in Requests : q # r => req'[q] = Idle
    BY <1>1, <2>1, <2>2, StepSolo DEF WorkspaceInv
  <2>4. /\ req' \in [Requests -> Request] /\ req'[r] = s
        /\ \A q \in Requests : q # r => req'[q] = req[q]
    BY <2>1, <2>2, ToOne DEF WorkspaceInv
  <2>5. req[r].role \in Roles BY <1>1, RequestFields
  <2>6. /\ DOMAIN users' \subseteq Ids /\ users' \in [DOMAIN users' -> Roles]
        /\ nextId' \in 1..(MaxUsers + 1) /\ Fresh'
        /\ DOMAIN users \subseteq DOMAIN users'
        /\ \A i \in DOMAIN users : users'[i] = users[i]
    BY <1>3, <2>5, AddUserEffect DEF WorkspaceInv
  <2>7. TypeOK' BY <1>1, <2>3, <2>4, <2>6 DEF WorkspaceInv, TypeOK
  <2>8. Early' BY <1>1, <1>2, <2>1, <2>4 DEF WorkspaceInv, Early
  <2>9. OwnerInv'
    <3>1. Owners \subseteq Owners' BY <2>6 DEF Owners
    <3>2. ASSUME ~overlapped', NEW q \in Requests PROVE req'[q].pc # "apply"
      BY <2>1, <2>3, <2>4, <3>2, RequestMade
    <3> QED BY <1>1, <3>1, <3>2 DEF WorkspaceInv, OwnerInv, AnotherOwner
  <2>10. NotRevoked' BY <1>1, <2>1, <2>4 DEF WorkspaceInv, NotRevoked
  <2>11. GoneIdle' BY <1>1, <1>2 DEF GoneIdle
  <2>12. ErasureComplete' BY <1>1, <1>2, <1>3 DEF WorkspaceInv, ErasureComplete, MayInsert, Exists
  <2> QED BY <2>3, <2>6, <2>7, <2>8, <2>9, <2>10, <2>11, <2>12 DEF WorkspaceInv
<1>4. CASE Stop(r) /\ UNCHANGED <<users, nextId>>
  <2>1. To(r, Idle) /\ Idle \in Request /\ Idle.pc = "idle" BY <1>4, RequestMade DEF Stop
  <2>2. Solo' /\ overlapped' \in BOOLEAN BY <1>1, <2>1, StepSolo DEF WorkspaceInv
  <2>3. audited' \in BOOLEAN BY <1>1 DEF WorkspaceInv, TypeOK
  <2> QED BY <1>1, <1>2, <1>4, <2>1, <2>2, <2>3, TablesStay
<1> QED BY <1>3, <1>4 DEF InviteCreate

LEMMA InvChangeApply ==
  ASSUME WorkspaceInv, NEW r \in Requests, ChangeApply(r)
  PROVE  WorkspaceInv'
<1> DEFINE s == [pc |-> "audit"]
           m == req[r].member
           role == req[r].role
<1>1. /\ req[r].pc = "apply" /\ req[r] # Idle /\ req[r] \in Request /\ To(r, s)
      /\ UNCHANGED <<org, nextId, licences, expired, audited, overlapped>>
  BY DEF ChangeApply, Quiet, WorkspaceInv, TypeOK, Idle, Audit
<1>2. s \in Request /\ s.pc = "audit" BY RequestMade
<1> HIDE DEF s
<1>3. org \notin {"none", "made"} /\ (org = "gone" => overlapped)
  BY <1>1 DEF WorkspaceInv, Early, GoneIdle
<1>4. /\ Solo' /\ overlapped' \in BOOLEAN
      /\ ~overlapped' => \A q \in Requests : q # r => req'[q] = Idle
  BY <1>1, <1>2, StepSolo DEF WorkspaceInv
<1>5. /\ req' \in [Requests -> Request] /\ req'[r] = s
      /\ \A q \in Requests : q # r => req'[q] = req[q]
  BY <1>1, <1>2, ToOne DEF WorkspaceInv
<1>6. role \in Roles \cup {"none"} BY <1>1, RequestFields
<1>7. /\ DOMAIN users' \subseteq DOMAIN users /\ users' \in [DOMAIN users' -> Roles]
      /\ \A i \in DOMAIN users : i # m => i \in DOMAIN users' /\ users'[i] = users[i]
      /\ role = "owner" => DOMAIN users' = DOMAIN users /\ (m \in DOMAIN users => users'[m] = "owner")
  <2>1. CASE role = "none" BY <2>1 DEF ChangeApply, WorkspaceInv, TypeOK
  <2>2. CASE role # "none" BY <2>2, <1>6 DEF ChangeApply, WorkspaceInv, TypeOK
  <2> QED BY <2>1, <2>2
<1>8. TypeOK' BY <1>1, <1>4, <1>5, <1>7 DEF WorkspaceInv, TypeOK
<1>9. Fresh' BY <1>1, <1>7 DEF WorkspaceInv, Fresh
<1>10. Early' BY <1>1, <1>2, <1>3, <1>5 DEF WorkspaceInv, Early
<1>11. OwnerInv'
  <2>1. ASSUME ~overlapped', org' = "owned" PROVE Owners' # {}
    <3>1. Owners # {} /\ AnotherOwner(r) BY <1>1, <2>1 DEF WorkspaceInv, OwnerInv
    <3>2. CASE role = "owner" BY <1>7, <3>1, <3>2 DEF Owners
    <3>3. CASE role # "owner" BY <1>1, <1>7, <3>1, <3>3 DEF Owners, AnotherOwner
    <3> QED BY <3>2, <3>3
  <2>2. ASSUME ~overlapped', NEW q \in Requests PROVE req'[q].pc # "apply"
    BY <1>2, <1>4, <1>5, <2>2, RequestMade
  <2> QED BY <2>1, <2>2 DEF OwnerInv, AnotherOwner
<1>12. NotRevoked' BY <1>1, <1>2, <1>5 DEF WorkspaceInv, NotRevoked
<1>13. GoneIdle' BY <1>1, <1>3 DEF GoneIdle
<1>14. ErasureComplete'
  <2>1. users = NoUsers => users' = NoUsers BY <1>7 DEF NoUsers
  <2> QED BY <1>1, <1>3, <2>1 DEF WorkspaceInv, ErasureComplete, NoUsers
<1> QED BY <1>4, <1>8, <1>9, <1>10, <1>11, <1>12, <1>13, <1>14 DEF WorkspaceInv

\* The written key is active; the others are as they were.
LEMMA UpsertEffect ==
  ASSUME TypeOK, NEW k \in Keys, UpsertLicence(k)
  PROVE  /\ DOMAIN licences' = DOMAIN licences \cup {k} /\ DOMAIN licences' \subseteq Keys
         /\ licences' \in [DOMAIN licences' -> Licence] /\ licences'[k].active
         /\ \A x \in DOMAIN licences : x # k => licences'[x] = licences[x]
<1>1. /\ DOMAIN licences' = DOMAIN licences \cup {k}
      /\ \A x \in DOMAIN licences : x # k => licences'[x] = licences[x]
      /\ licences'[k] = IF k \in DOMAIN licences THEN [licences[k] EXCEPT !.active = TRUE]
                        ELSE [active |-> TRUE, at |-> Cardinality(DOMAIN licences)]
      /\ licences' = [x \in DOMAIN licences' |-> licences'[x]]
  BY DEF UpsertLicence
<1>2. Cardinality(DOMAIN licences) \in Nat
  BY FS_Subset, FS_CardinalityType, WorkspaceAssumption DEF TypeOK, WorkspaceAssumption
<1>3. \A x \in DOMAIN licences : licences[x] \in Licence BY DEF TypeOK
<1>4. licences'[k] \in Licence /\ licences'[k].active
  <2>1. CASE k \in DOMAIN licences BY <1>1, <1>3, <2>1 DEF Licence
  <2>2. CASE k \notin DOMAIN licences BY <1>1, <1>2, <2>2 DEF Licence
  <2> QED BY <2>1, <2>2
<1>5. \A x \in DOMAIN licences' : licences'[x] \in Licence BY <1>1, <1>3, <1>4
<1>6. DOMAIN licences' \subseteq Keys BY <1>1 DEF TypeOK
<1> QED BY <1>1, <1>4, <1>5, <1>6

LEMMA InvUpsert ==
  ASSUME WorkspaceInv, NEW r \in Requests, Upsert(r)
  PROVE  WorkspaceInv'
<1>1. /\ req[r].pc = "upsert" /\ req[r] # Idle /\ req[r] \in Request
      /\ UNCHANGED <<org, users, nextId, expired, audited, overlapped>>
  BY DEF Upsert, Quiet, WorkspaceInv, TypeOK, Idle
<1>2. org = "gone" => overlapped BY <1>1 DEF WorkspaceInv, GoneIdle
<1>3. CASE MayInsert \/ req[r].key \in DOMAIN licences
  <2> DEFINE s == [pc |-> "audit"]
             k == req[r].key
  <2>1. s \in Request /\ s.pc = "audit" BY RequestMade
  <2>2. To(r, s) /\ UpsertLicence(k) BY <1>3 DEF Upsert, Audit
  <2>3. k \in Keys BY <1>1, RequestFields
  <2> HIDE DEF s, k
  <2>4. /\ Solo' /\ overlapped' \in BOOLEAN
        /\ ~overlapped' => \A q \in Requests : q # r => req'[q] = Idle
    BY <1>1, <2>1, <2>2, StepSolo DEF WorkspaceInv
  <2>5. /\ req' \in [Requests -> Request] /\ req'[r] = s
        /\ \A q \in Requests : q # r => req'[q] = req[q]
    BY <2>1, <2>2, ToOne DEF WorkspaceInv
  <2>6. /\ DOMAIN licences' = DOMAIN licences \cup {k} /\ DOMAIN licences' \subseteq Keys
        /\ licences' \in [DOMAIN licences' -> Licence]
    BY <2>2, <2>3, UpsertEffect DEF WorkspaceInv
  <2>7. TypeOK' BY <1>1, <2>4, <2>5, <2>6 DEF WorkspaceInv, TypeOK
  <2>8. Fresh' BY <1>1 DEF WorkspaceInv, Fresh
  <2>9. Early'
    <3>1. org \in {"none", "made"} => k # Trial BY <1>1 DEF WorkspaceInv, Early, k
    <3> QED BY <1>1, <2>1, <2>5, <2>6, <3>1 DEF WorkspaceInv, Early
  <2>10. OwnerInv' BY <1>1, <2>1, <2>5 DEF WorkspaceInv, OwnerInv, AnotherOwner, Owners
  <2>11. NotRevoked'
    <3>1. ASSUME ~overlapped', NEW q \in Requests PROVE req'[q].pc # "upsert"
      BY <2>1, <2>4, <2>5, <3>1, RequestMade
    <3> QED BY <3>1 DEF NotRevoked
  <2>12. GoneIdle' BY <1>1, <1>2 DEF GoneIdle
  <2>13. ErasureComplete'
    <3>1. CASE org # "gone" BY <1>1, <3>1 DEF ErasureComplete
    <3>2. CASE org = "gone" /\ ForeignKeys
      <4>1. licences = NoLicences
        BY <3>2 DEF WorkspaceInv, ErasureComplete, NoLicences
      <4>2. k \notin DOMAIN licences BY <4>1 DEF NoLicences
      <4> QED BY <1>3, <3>2, <4>2 DEF MayInsert, Exists, k
    <3>3. CASE org = "gone" /\ ~ForeignKeys BY <1>1, <1>2, <3>3 DEF ErasureComplete
    <3> QED BY <3>1, <3>2, <3>3, WorkspaceAssumption DEF WorkspaceAssumption
  <2> QED BY <2>4, <2>7, <2>8, <2>9, <2>10, <2>11, <2>12, <2>13 DEF WorkspaceInv
<1>4. CASE ~(MayInsert \/ req[r].key \in DOMAIN licences)
  <2>1. /\ To(r, Idle) /\ Idle \in Request /\ Idle.pc = "idle" /\ licences' = licences
    BY <1>4, RequestMade DEF Upsert, Stop
  <2>2. Solo' /\ overlapped' \in BOOLEAN BY <1>1, <2>1, StepSolo DEF WorkspaceInv
  <2>3. audited' \in BOOLEAN BY <1>1 DEF WorkspaceInv, TypeOK
  <2> QED BY <1>1, <1>2, <2>1, <2>2, <2>3, TablesStay
<1> QED BY <1>3, <1>4

LEMMA InvRevoke ==
  ASSUME WorkspaceInv, NEW r \in Requests, NEW ks \in SUBSET Keys, Revoke(r, ks)
  PROVE  WorkspaceInv'
<1> DEFINE s == [pc |-> "audit"]
<1>1. /\ Open(r, s) /\ UNCHANGED <<org, users, nextId, expired, audited>>
      /\ ks \subseteq DOMAIN licences
      /\ DOMAIN licences' = DOMAIN licences
      /\ licences' = [k \in DOMAIN licences |-> licences'[k]]
      /\ \A k \in DOMAIN licences :
           licences'[k] = IF k \in ks THEN [licences[k] EXCEPT !.active = FALSE] ELSE licences[k]
  BY DEF Revoke
<1>2. s \in Request /\ s.pc = "audit" BY RequestMade
<1> HIDE DEF s
<1>3. /\ Solo' /\ overlapped' \in BOOLEAN /\ To(r, s) /\ (overlapped => overlapped')
      /\ ~overlapped' => \A q \in Requests : q # r => req'[q] = Idle
  BY <1>1, <1>2, OpenSolo DEF WorkspaceInv, Open, TypeOK
<1>4. /\ req' \in [Requests -> Request] /\ req'[r] = s
      /\ \A q \in Requests : q # r => req'[q] = req[q]
  BY <1>2, <1>3, ToOne DEF WorkspaceInv
<1>5. org = "gone" => overlapped
  <2>1. ASSUME org = "gone", ~overlapped PROVE FALSE
    <3>1. licences = NoLicences BY <2>1 DEF WorkspaceInv, ErasureComplete, NoLicences
    <3>2. ks = {} BY <1>1, <3>1 DEF NoLicences
    <3>3. Cardinality(ks) = 0 BY <3>2, FS_EmptySet
    <3> QED BY <2>1, <3>3 DEF Revoke, Exists
  <2> QED BY <2>1
<1>6. licences' \in [DOMAIN licences' -> Licence]
  <2>1. ASSUME NEW k \in DOMAIN licences PROVE licences'[k] \in Licence
    <3>1. licences[k] \in Licence BY DEF WorkspaceInv, TypeOK
    <3>2. [licences[k] EXCEPT !.active = FALSE] \in Licence BY <3>1 DEF Licence
    <3> QED BY <1>1, <3>1, <3>2
  <2> QED BY <1>1, <2>1
<1>7. TypeOK' BY <1>1, <1>3, <1>4, <1>6 DEF WorkspaceInv, TypeOK
<1>8. Fresh' BY <1>1 DEF WorkspaceInv, Fresh
<1>9. Early' BY <1>1, <1>2, <1>4 DEF WorkspaceInv, Early
<1>10. OwnerInv' BY <1>1, <1>2, <1>3, <1>4 DEF WorkspaceInv, OwnerInv, AnotherOwner, Owners
<1>11. NotRevoked'
  <2>1. ASSUME ~overlapped', NEW q \in Requests PROVE req'[q].pc # "upsert"
    BY <1>2, <1>3, <1>4, <2>1, RequestMade
  <2> QED BY <2>1 DEF NotRevoked
<1>12. GoneIdle' BY <1>1, <1>3, <1>5 DEF GoneIdle
<1>13. ErasureComplete'
  <2>1. licences = NoLicences => licences' = NoLicences BY <1>1 DEF NoLicences
  <2> QED BY <1>1, <1>3, <1>5, <2>1 DEF WorkspaceInv, ErasureComplete, NoLicences
<1> QED BY <1>3, <1>7, <1>8, <1>9, <1>10, <1>11, <1>12, <1>13 DEF WorkspaceInv

LEMMA InvDeleteOrg ==
  ASSUME WorkspaceInv, NEW r \in Requests, DeleteOrg(r)
  PROVE  WorkspaceInv'
<1>1. /\ req[r].pc = "erase" /\ req[r] # Idle /\ To(r, Idle)
      /\ UNCHANGED <<nextId, expired, overlapped>>
  BY DEF DeleteOrg, Quiet, Idle, Stop
<1>2. Idle \in Request /\ Idle.pc = "idle" BY RequestMade
<1>3. /\ Solo' /\ overlapped' \in BOOLEAN
      /\ ~overlapped' => \A q \in Requests : q # r => req'[q] = Idle
  BY <1>1, <1>2, StepSolo DEF WorkspaceInv
<1>4. /\ req' \in [Requests -> Request] /\ req'[r] = Idle
      /\ \A q \in Requests : q # r => req'[q] = req[q]
  BY <1>1, <1>2, ToOne DEF WorkspaceInv
<1>5. CASE Exists
  <2>1. org' = "gone" /\ audited' = FALSE /\ users' = NoUsers /\ licences' = NoLicences
    BY <1>5 DEF DeleteOrg, NoUsers, NoLicences
  <2>2. /\ DOMAIN users' = {} /\ users' \in [{} -> Roles]
        /\ DOMAIN licences' = {} /\ licences' \in [{} -> Licence]
    BY <2>1 DEF NoUsers, NoLicences
  <2>3. TypeOK' BY <1>1, <1>3, <1>4, <2>1, <2>2 DEF WorkspaceInv, TypeOK
  <2>4. Fresh' BY <2>2 DEF Fresh
  <2>5. Early'
    <3>1. \A q \in Requests : req[q].pc # "owner"
      BY <1>1 DEF WorkspaceInv, Early
    <3> QED BY <1>2, <1>4, <2>1, <3>1 DEF Early
  <2>6. OwnerInv' BY <2>1 DEF OwnerInv
  <2>7. NotRevoked' BY <2>2 DEF NotRevoked
  <2>8. GoneIdle' BY <1>3, <1>4 DEF GoneIdle
  <2>9. ErasureComplete' BY <2>1 DEF ErasureComplete, NoUsers, NoLicences
  <2> QED BY <1>3, <2>3, <2>4, <2>5, <2>6, <2>7, <2>8, <2>9 DEF WorkspaceInv
<1>6. CASE ~Exists
  <2>1. UNCHANGED <<org, users, licences, audited>> BY <1>6 DEF DeleteOrg
  <2>2. audited' \in BOOLEAN BY <2>1 DEF WorkspaceInv, TypeOK
  <2>3. org = "gone" => overlapped BY <1>1 DEF WorkspaceInv, GoneIdle
  <2> QED BY <1>1, <1>2, <1>3, <2>1, <2>2, <2>3, TablesStay
<1> QED BY <1>5, <1>6

LEMMA InvExpire ==
  ASSUME WorkspaceInv, NEW k \in Keys, Expire(k)
  PROVE  WorkspaceInv'
<1>1. /\ UNCHANGED <<org, users, nextId, licences, audited, req, overlapped>>
      /\ expired' = expired \cup {k}
  BY DEF Expire, tables
<1>2. TypeOK' BY <1>1 DEF WorkspaceInv, TypeOK
<1> QED BY <1>1, <1>2 DEF WorkspaceInv, Fresh, Solo, Early, OwnerInv, AnotherOwner, Owners,
                        NotRevoked, GoneIdle, ErasureComplete

----------------------------------------------------------------------------
(* Theorems.                                                               *)

\* One step of any request, or of time.
LEMMA InvNext ==
  ASSUME WorkspaceInv, [Next]_vars
  PROVE  WorkspaceInv'
<1>1. ASSUME NEW r \in Requests, Begin(r) PROVE WorkspaceInv'
  BY <1>1, InvProvision, InvInvite, InvChange, InvExportErase, InvActivate, InvMint, InvRevoke
     DEF Begin
<1>2. ASSUME NEW r \in Requests, Step(r) PROVE WorkspaceInv'
  BY <1>2, InvProvisionOwner, InvInviteCount, InvInviteCreate, InvChangeOwners,
     InvChangeApply, InvUpsert, InvDeleteOrg, InvRecordAbort DEF Step
<1>3. ASSUME UNCHANGED vars PROVE WorkspaceInv'
  BY <1>3 DEF vars, WorkspaceInv, TypeOK, Fresh, Solo, Early, OwnerInv, AnotherOwner, Owners,
              NotRevoked, GoneIdle, ErasureComplete
<1> QED BY <1>1, <1>2, <1>3, InvExpire DEF Next

LEMMA InvInit == Init => WorkspaceInv
<1> SUFFICES ASSUME Init PROVE WorkspaceInv OBVIOUS
<1>1. \A r \in Requests : req[r] = Idle /\ req[r].pc = "idle" BY DEF Init, Idle
<1>2. req \in [Requests -> Request] BY RequestMade DEF Init
<1>3. /\ DOMAIN users = {} /\ users \in [{} -> Roles] /\ users = NoUsers
      /\ DOMAIN licences = {} /\ licences \in [{} -> Licence]
  BY DEF Init, NoUsers
<1>4. nextId = 1 /\ nextId \in 1..(MaxUsers + 1)
  BY WorkspaceAssumption DEF Init, WorkspaceAssumption
<1>5. org = "none" /\ expired = {} /\ audited = FALSE /\ overlapped = FALSE BY DEF Init
<1> QED BY <1>1, <1>2, <1>3, <1>4, <1>5 DEF WorkspaceInv, TypeOK, Fresh, Solo, Early,
       OwnerInv, NotRevoked, GoneIdle, ErasureComplete

\* The parts of the invariant hold together, for any number of requests.
THEOREM WorkspaceSafe == Spec => []WorkspaceInv
BY InvInit, InvNext, PTL DEF Spec

\* The tables keep their shapes; the bound on ids is never passed.
THEOREM WorkspaceTypes == Spec => []TypeOK
<1>1. WorkspaceInv => TypeOK BY DEF WorkspaceInv
<1> QED BY <1>1, WorkspaceSafe, PTL

\* org_service.py: without an overlap a workspace never loses its last owner.
THEOREM WorkspaceKeepsOwner == Spec => []OwnerRemains
<1>1. WorkspaceInv => OwnerRemains BY DEF WorkspaceInv, OwnerInv, OwnerRemains
<1> QED BY <1>1, WorkspaceSafe, PTL

\* data_lifecycle.py: nothing of an erased workspace is left or comes back,
\* but for the audit row of a request that was open.
THEOREM WorkspaceErased == Spec => []ErasureComplete
<1>1. WorkspaceInv => ErasureComplete BY DEF WorkspaceInv
<1> QED BY <1>1, WorkspaceSafe, PTL

NoRevival ==
  ~overlapped' /\ org' # "gone" =>
    \A k \in DOMAIN licences : ~licences[k].active => ~licences'[k].active

\* Only a write of a key makes it active, and that key is not revoked.
LEMMA StepRevoked ==
  ASSUME WorkspaceInv, [Next]_vars
  PROVE  NoRevival
<1>1. ASSUME licences' = licences PROVE NoRevival BY <1>1 DEF NoRevival
<1>2. ASSUME NEW r \in Requests, Begin(r) PROVE NoRevival
  <2>1. CASE \E ks \in SUBSET Keys : Revoke(r, ks)
    <3>1. PICK ks \in SUBSET Keys : Revoke(r, ks) BY <2>1
    <3>2. ASSUME NEW k \in DOMAIN licences, ~licences[k].active PROVE ~licences'[k].active
      <4>1. licences'[k] = IF k \in ks THEN [licences[k] EXCEPT !.active = FALSE] ELSE licences[k]
        BY <3>1 DEF Revoke
      <4>2. licences[k] \in Licence BY DEF WorkspaceInv, TypeOK
      <4> QED BY <3>2, <4>1, <4>2 DEF Licence
    <3> QED BY <3>2 DEF NoRevival
  <2>2. CASE ~\E ks \in SUBSET Keys : Revoke(r, ks)
    BY <1>1, <1>2, <2>2 DEF Begin, Provision, Invite, Change, Export, Erase, Activate, Mint, tables
  <2> QED BY <2>1, <2>2
<1>3. ASSUME NEW r \in Requests, Step(r) PROVE NoRevival
  <2>1. CASE Upsert(r)
    <3>1. SUFFICES ASSUME ~overlapped', UpsertLicence(req[r].key) PROVE NoRevival
      BY <1>1, <2>1 DEF Upsert, NoRevival
    <3>2. ~overlapped /\ req[r].pc = "upsert" /\ req[r] \in Request
      BY <2>1, <3>1 DEF Upsert, Quiet, WorkspaceInv, TypeOK
    <3>3. req[r].key \in Keys BY <3>2, RequestFields
    <3>4. req[r].key \in DOMAIN licences => licences[req[r].key].active
      BY <3>2 DEF WorkspaceInv, NotRevoked
    <3>5. \A x \in DOMAIN licences : x # req[r].key => licences'[x] = licences[x]
      BY <3>1, <3>3, UpsertEffect DEF WorkspaceInv
    <3> QED BY <3>4, <3>5 DEF NoRevival
  <2>2. CASE DeleteOrg(r)
    BY <1>1, <2>2 DEF DeleteOrg, NoRevival
  <2>3. CASE ~Upsert(r) /\ ~DeleteOrg(r)
    BY <1>1, <1>3, <2>3 DEF Step, ProvisionOwner, InviteCount, InviteCreate, ChangeOwners,
       ChangeApply, Record, Abort, tables
  <2> QED BY <2>1, <2>2, <2>3
<1> QED BY <1>1, <1>2, <1>3 DEF Next, Expire, tables, vars

\* billing.py: without an overlap a revoked key is never active again.
THEOREM WorkspaceRevokes == Spec => RevokedForGood
<1>1. WorkspaceInv /\ [Next]_vars => [NoRevival]_vars BY StepRevoked
<1> QED BY <1>1, WorkspaceSafe, PTL DEF Spec, RevokedForGood, NoRevival

----------------------------------------------------------------------------
(* Seats.                                                                  *)

\* The counts are numbers.
LEMMA SeatNumbers ==
  ASSUME WorkspaceInv
  PROVE  /\ IsFiniteSet(DOMAIN users) /\ Cardinality(DOMAIN users) \in Nat
         /\ IsFiniteSet(Creating) /\ Cardinality(Creating) \in Nat
         /\ Cardinality(Requests) \in Nat /\ Cardinality(Creating) <= Cardinality(Requests)
         /\ Cardinality(Requests) >= 1 /\ Slack \in Nat /\ Slack >= 1
         /\ \A k \in DOMAIN licences : Seats[k] \in Nat /\ Seats[k] >= 1
<1>1. IsFiniteSet(Ids) BY FS_Interval, WorkspaceAssumption DEF Ids, WorkspaceAssumption
<1>2. IsFiniteSet(DOMAIN users) BY <1>1, FS_Subset DEF WorkspaceInv, TypeOK
<1>3. IsFiniteSet(Requests) /\ Requests # {} BY WorkspaceAssumption DEF WorkspaceAssumption
<1>4. IsFiniteSet(Creating) /\ Cardinality(Creating) <= Cardinality(Requests)
  BY <1>3, FS_Subset DEF Creating
<1>5. /\ Cardinality(DOMAIN users) \in Nat /\ Cardinality(Creating) \in Nat
      /\ Cardinality(Requests) \in Nat /\ Cardinality(Requests) # 0
  BY <1>2, <1>3, <1>4, FS_CardinalityType, FS_EmptySet
<1>6. Slack \in Nat /\ Slack >= 1 BY <1>5 DEF Slack
<1>7. \A k \in DOMAIN licences : Seats[k] \in Nat /\ Seats[k] >= 1
  BY WorkspaceAssumption DEF WorkspaceInv, TypeOK, WorkspaceAssumption
<1> QED BY <1>2, <1>4, <1>5, <1>6, <1>7

\* What current_entitlement grants, some row grants.
LEMMA SeatsGrantedBy ==
  ASSUME WorkspaceInv
  PROVE  SeatsGranted = 0 \/ \E k \in DOMAIN licences : SeatsGranted <= Seats[k]
<1>1. CASE \E k \in Keys : InForce(k) /\ k \notin expired
  <2> DEFINE c == CHOOSE k \in Keys : InForce(k)
  <2>1. c \in Keys /\ InForce(c) BY <1>1
  <2>2. SeatsGranted = Seats[c] BY <1>1 DEF SeatsGranted
  <2> HIDE DEF c
  <2>3. c \in DOMAIN licences BY <2>1 DEF InForce, Active
  <2>4. Seats[c] <= Seats[c] BY <2>3, SeatNumbers
  <2> QED BY <2>2, <2>3, <2>4
<1>2. CASE ~\E k \in Keys : InForce(k) /\ k \notin expired
  BY <1>2 DEF SeatsGranted
<1> QED BY <1>1, <1>2

\* Neither members nor invitations under way grew in number.
LEMMA SeatsKept ==
  ASSUME WorkspaceInv, WorkspaceInv', SeatsOk,
         Creating' \subseteq Creating, overlapped => overlapped',
         DOMAIN licences \subseteq DOMAIN licences',
         \A k \in DOMAIN licences' : Seats[k] \in Nat /\ Seats[k] >= 1,
         Cardinality(DOMAIN users') + Cardinality(Creating') <=
           Cardinality(DOMAIN users) + Cardinality(Creating)
  PROVE  SeatsOk'
<1> DEFINE n == Cardinality(DOMAIN users)  c == Cardinality(Creating)
           n2 == Cardinality(DOMAIN users')  c2 == Cardinality(Creating')
<1>1. n \in Nat /\ c \in Nat /\ Slack \in Nat /\ Slack >= 1 BY SeatNumbers
<1>2. n2 \in Nat /\ c2 \in Nat /\ Slack' \in Nat /\ Slack' >= 1
  <2>1. IsFiniteSet(Creating') BY SeatNumbers, FS_Subset
  <2>2. IsFiniteSet(DOMAIN users')
    <3>1. DOMAIN users' \subseteq Ids BY DEF WorkspaceInv, TypeOK
    <3>2. IsFiniteSet(Ids) BY FS_Interval, WorkspaceAssumption DEF Ids, WorkspaceAssumption
    <3> QED BY <3>1, <3>2, FS_Subset
  <2>3. n2 \in Nat /\ c2 \in Nat BY <2>1, <2>2, FS_CardinalityType
  <2>4. Slack' \in Nat /\ Slack' >= 1 BY SeatNumbers DEF Slack
  <2> QED BY <2>3, <2>4
<1>3. Slack <= Slack' BY <1>1, <1>2, SeatNumbers DEF Slack, WorkspaceInv, TypeOK
<1>4. CASE licences = NoLicences /\ n <= 1 /\ Creating = {}
  <2>1. Creating' = {} /\ c = 0 /\ c2 = 0 BY <1>4, FS_EmptySet
  <2>2. n2 <= 1 BY <1>1, <1>2, <1>4, <2>1
  <2>3. CASE DOMAIN licences' = {}
    <3>1. licences' = NoLicences BY <2>3 DEF WorkspaceInv, TypeOK, NoLicences
    <3> QED BY <2>1, <2>2, <3>1 DEF SeatsOk
  <2>4. CASE DOMAIN licences' # {}
    <3>1. PICK k \in DOMAIN licences' : TRUE BY <2>4
    <3>2. n2 + c2 < Seats[k] + Slack' BY <1>2, <2>1, <2>2
    <3> QED BY <3>1, <3>2 DEF SeatsOk
  <2> QED BY <2>3, <2>4
<1>5. CASE \E k \in DOMAIN licences : n + c < Seats[k] + Slack
  <2>1. PICK k \in DOMAIN licences : n + c < Seats[k] + Slack BY <1>5
  <2>2. k \in DOMAIN licences' OBVIOUS
  <2>3. Seats[k] \in Nat BY <2>2
  <2>4. n2 + c2 < Seats[k] + Slack'
    <3> HIDE DEF n, c, n2, c2
    <3>1. n2 + c2 <= n + c BY DEF n, c, n2, c2
    <3> QED BY <1>1, <1>2, <1>3, <2>1, <2>3, <3>1
  <2> QED BY <2>2, <2>4 DEF SeatsOk
<1> QED BY <1>4, <1>5 DEF SeatsOk

\* A request moves on without inviting, and no row is added.
LEMMA SeatStep ==
  ASSUME WorkspaceInv, WorkspaceInv', SeatInv, org = "owned",
         NEW r \in Requests, NEW s \in Request, To(r, s), s.pc # "create",
         s.pc = "count" => s.seats = 0 \/ \E k \in DOMAIN licences : s.seats <= Seats[k],
         overlapped => overlapped', DOMAIN licences \subseteq DOMAIN licences',
         DOMAIN users' \subseteq DOMAIN users
  PROVE  SeatInv'
<1>1. /\ req'[r] = s /\ \A q \in Requests : q # r => req'[q] = req[q]
  BY ToOne DEF WorkspaceInv
<1>2. Creating' \subseteq Creating BY <1>1 DEF Creating
<1>3. /\ Cardinality(Creating') <= Cardinality(Creating) /\ Cardinality(Creating') \in Nat
      /\ Cardinality(DOMAIN users') <= Cardinality(DOMAIN users)
      /\ Cardinality(DOMAIN users') \in Nat
  BY <1>2, SeatNumbers, FS_Subset, FS_CardinalityType
<1>4. Cardinality(DOMAIN users') + Cardinality(Creating') <=
        Cardinality(DOMAIN users) + Cardinality(Creating)
  BY <1>3, SeatNumbers
<1>5. \A k \in DOMAIN licences' : Seats[k] \in Nat /\ Seats[k] >= 1
  BY WorkspaceAssumption DEF WorkspaceInv, TypeOK, WorkspaceAssumption
<1>6. SeatsOk /\ \A q \in Requests : CountOk(q) BY DEF SeatInv
<1>7. SeatsOk' BY <1>2, <1>4, <1>5, <1>6, SeatsKept
<1>8. ASSUME NEW q \in Requests PROVE CountOk(q)'
  BY <1>1, <1>6 DEF CountOk
<1> QED BY <1>7, <1>8 DEF SeatInv

\* The owner's row takes the one seat every licence has.
LEMMA SeatProvisionOwner ==
  ASSUME WorkspaceInv, WorkspaceInv', NEW r \in Requests, ProvisionOwner(r), org' = "owned"
  PROVE  SeatInv'
<1>1. org = "made" /\ users = NoUsers /\ nextId = 1 /\ UNCHANGED <<licences, overlapped>>
  BY DEF ProvisionOwner, Quiet, WorkspaceInv, Early
<1> DEFINE s == [pc |-> "upsert", key |-> Trial]
<1>2. s \in Request /\ s.pc = "upsert"
  BY RequestMade, WorkspaceAssumption DEF WorkspaceAssumption
<1>3. To(r, s) /\ AddUser("owner") BY <1>1 DEF ProvisionOwner
<1> HIDE DEF s
<1>4. /\ req'[r] = s /\ \A q \in Requests : q # r => req'[q] = req[q]
  BY <1>2, <1>3, ToOne DEF WorkspaceInv
<1>5. \A q \in Requests : req'[q].pc \notin {"count", "create"}
  BY <1>1, <1>2, <1>4 DEF WorkspaceInv, Early
<1>6. Creating' = {} /\ Cardinality(Creating') = 0 BY <1>5, FS_EmptySet DEF Creating
<1>7. DOMAIN users' = {1} BY <1>1, <1>3 DEF AddUser, NoUsers
<1>8. Cardinality(DOMAIN users') = 1 BY <1>7, FS_Singleton
<1>9. SeatsOk'
  <2>1. CASE DOMAIN licences = {}
    <3>1. licences' = NoLicences BY <1>1, <2>1 DEF WorkspaceInv, TypeOK, NoLicences
    <3>2. Cardinality(DOMAIN users') <= 1 BY <1>8
    <3> QED BY <1>6, <3>1, <3>2 DEF SeatsOk
  <2>2. CASE DOMAIN licences # {}
    <3>1. PICK k \in DOMAIN licences : TRUE BY <2>2
    <3>2. Slack' = Slack BY <1>1 DEF Slack
    <3>3. Slack \in Nat /\ Slack >= 1 /\ Seats[k] \in Nat /\ Seats[k] >= 1 BY SeatNumbers
    <3>4. 1 + 0 < Seats[k] + Slack' BY <3>2, <3>3
    <3> QED BY <1>1, <1>6, <1>8, <3>4 DEF SeatsOk
  <2> QED BY <2>1, <2>2
<1> QED BY <1>5, <1>9 DEF SeatInv, CountOk

\* The member counted is the invitation that is done.
LEMMA SeatInviteCreate ==
  ASSUME WorkspaceInv, WorkspaceInv', SeatInv, org = "owned", NEW r \in Requests, InviteCreate(r)
  PROVE  SeatInv'
<1>1. /\ req[r].pc = "create" /\ req[r] \in Request
      /\ UNCHANGED <<org, licences, overlapped>>
  BY DEF InviteCreate, Quiet, WorkspaceInv, TypeOK
<1>2. CASE Stop(r) /\ UNCHANGED <<users, nextId>>
  BY <1>1, <1>2, RequestMade, SeatStep DEF Stop
<1>3. CASE nextId <= MaxUsers /\ AddUser(req[r].role) /\ Audit(r)
  <2> DEFINE s == [pc |-> "audit"]
  <2>1. s \in Request /\ s.pc = "audit" BY RequestMade
  <2>2. To(r, s) BY <1>3 DEF Audit
  <2> HIDE DEF s
  <2>3. /\ req'[r] = s /\ \A q \in Requests : q # r => req'[q] = req[q]
    BY <2>1, <2>2, ToOne DEF WorkspaceInv
  <2>4. Creating' = Creating \ {r} /\ r \in Creating BY <1>1, <2>1, <2>3 DEF Creating
  <2>5. Cardinality(Creating') = Cardinality(Creating) - 1 BY <2>4, SeatNumbers, FS_RemoveElement
  <2>6. req[r].role \in Roles BY <1>1, RequestFields
  <2>7. DOMAIN users' = DOMAIN users \cup {nextId} /\ nextId \notin DOMAIN users
    BY <1>3, <2>6, AddUserEffect DEF WorkspaceInv
  <2>8. Cardinality(DOMAIN users') = Cardinality(DOMAIN users) + 1
    BY <2>7, SeatNumbers, FS_AddElement
  <2>9. Cardinality(DOMAIN users') + Cardinality(Creating') <=
          Cardinality(DOMAIN users) + Cardinality(Creating)
    BY <2>5, <2>8, SeatNumbers
  <2>10. SeatsOk /\ \A q \in Requests : CountOk(q) BY DEF SeatInv
  <2>11. SeatsOk' BY <1>1, <2>4, <2>9, <2>10, SeatNumbers, SeatsKept
  <2>12. ASSUME NEW q \in Requests PROVE CountOk(q)' BY <1>1, <2>1, <2>3, <2>10 DEF CountOk
  <2> QED BY <2>11, <2>12 DEF SeatInv
<1> QED BY <1>2, <1>3 DEF InviteCreate

\* The check: as many as passed it may be under way, and each was below the limit.
LEMMA SeatInviteCount ==
  ASSUME WorkspaceInv, WorkspaceInv', SeatInv, org = "owned", NEW r \in Requests, InviteCount(r)
  PROVE  SeatInv'
<1>1. /\ req[r].pc = "count" /\ req[r] \in Request /\ req[r] # Idle
      /\ UNCHANGED <<org, users, licences, overlapped>>
  BY DEF InviteCount, Quiet, tables, WorkspaceInv, TypeOK, Idle
<1>2. CASE ~(Cardinality(DOMAIN users) < req[r].seats)
  BY <1>1, <1>2, RequestMade, SeatStep DEF InviteCount, Stop
<1>3. CASE Cardinality(DOMAIN users) < req[r].seats
  <2> DEFINE s == [pc |-> "create", role |-> req[r].role]
             n == Cardinality(DOMAIN users)
  <2>1. s \in Request /\ s.pc = "create" BY <1>1, RequestFields, RequestMade
  <2>2. To(r, s) BY <1>3 DEF InviteCount
  <2> HIDE DEF s
  <2>3. /\ req'[r] = s /\ \A q \in Requests : q # r => req'[q] = req[q]
    BY <2>1, <2>2, ToOne DEF WorkspaceInv
  <2>4. req[r].seats \in Nat BY <1>1, RequestFields
  <2>5. n \in Nat BY SeatNumbers
  <2>6. PICK k \in DOMAIN licences : req[r].seats <= Seats[k]
    <3>1. req[r].seats # 0 BY <1>3, <2>4, <2>5
    <3> QED BY <1>1, <3>1 DEF SeatInv, CountOk
  <2>7. Seats[k] \in Nat BY SeatNumbers
  <2>8. n < Seats[k]
    <3>1. n < req[r].seats BY <1>3
    <3> HIDE DEF n
    <3> QED BY <2>4, <2>5, <2>6, <2>7, <3>1
  <2>9. Cardinality(Creating') \in Nat /\ Cardinality(Creating') <= Slack
    <3>1. Creating' \subseteq Requests /\ IsFiniteSet(Requests)
      BY WorkspaceAssumption DEF Creating, WorkspaceAssumption
    <3>2. /\ Cardinality(Creating') \in Nat /\ Cardinality(Creating') <= Cardinality(Requests)
      BY <3>1, FS_Subset, FS_CardinalityType
    <3>3. CASE overlapped BY <3>2, <3>3 DEF Slack
    <3>4. CASE ~overlapped
      <4>1. \A q \in Requests : q # r => req[q] = Idle BY <1>1, <3>4 DEF WorkspaceInv, Solo
      <4>2. Creating' = {r} BY <2>1, <2>3, <4>1, RequestMade DEF Creating
      <4>3. Cardinality(Creating') = 1 BY <4>2, FS_Singleton
      <4> QED BY <3>2, <3>4, <4>3 DEF Slack
    <3> QED BY <3>3, <3>4
  <2>10. n + Cardinality(Creating') < Seats[k] + Slack BY <2>5, <2>7, <2>8, <2>9, SeatNumbers
  <2>11. Slack' = Slack BY <1>1 DEF Slack
  <2>12. SeatsOk' BY <1>1, <2>10, <2>11 DEF SeatsOk
  <2>13. ASSUME NEW q \in Requests PROVE CountOk(q)'
    BY <1>1, <2>1, <2>3 DEF SeatInv, CountOk
  <2> QED BY <2>12, <2>13 DEF SeatInv
<1> QED BY <1>2, <1>3

\* A request that opens reads its entitlement or changes no seat.
LEMMA SeatBegin ==
  ASSUME WorkspaceInv, WorkspaceInv', SeatInv, org = "owned", NEW r \in Requests, Begin(r)
  PROVE  SeatInv'
<1>1. SUFFICES ASSUME NEW s \in Request, Open(r, s), s.pc # "create",
                      s.pc = "count" => s.seats = SeatsGranted,
                      users' = users, DOMAIN licences' = DOMAIN licences
               PROVE  SeatInv'
  <2>1. CASE \E a \in DOMAIN users, role \in Roles : Invite(r, a, role)
    <3>1. PICK a \in DOMAIN users, role \in Roles : Invite(r, a, role) BY <2>1
    <3> DEFINE s == [pc |-> "count", role |-> role, seats |-> SeatsGranted]
    <3>2. s \in Request BY SeatsGrantedType, WorkspaceAssumption, RequestMade
    <3>3. s.pc = "count" /\ s.seats = SeatsGranted OBVIOUS
    <3>4. Open(r, s) /\ users' = users /\ licences' = licences BY <3>1 DEF Invite, tables
    <3> HIDE DEF s
    <3> QED BY <1>1, <3>2, <3>3, <3>4
  <2>2. CASE \E a, m \in DOMAIN users, role \in Roles \cup {"none"} : Change(r, a, m, role)
    <3>1. PICK a \in DOMAIN users, m \in DOMAIN users, role \in Roles \cup {"none"} :
            Change(r, a, m, role)
      BY <2>2
    <3> DEFINE s == [pc |-> IF Guarded(m, role) THEN "owners" ELSE "apply",
                     member |-> m, role |-> role]
    <3>2. m \in Ids BY DEF WorkspaceInv, TypeOK
    <3>3. s \in Request BY <3>2, RequestMade
    <3>4. s.pc \in {"owners", "apply"} OBVIOUS
    <3>5. Open(r, s) /\ users' = users /\ licences' = licences BY <3>1 DEF Change, tables
    <3> HIDE DEF s
    <3> QED BY <1>1, <3>3, <3>4, <3>5
  <2>3. CASE \/ \E a \in DOMAIN users, k \in Keys : Activate(r, a, k)
             \/ \E k \in Keys : Mint(r, k)
    <3>1. PICK k \in Keys : /\ Open(r, [pc |-> "upsert", key |-> k])
                            /\ users' = users /\ licences' = licences
      BY <2>3 DEF Activate, Mint, tables
    <3> DEFINE s == [pc |-> "upsert", key |-> k]
    <3>2. s \in Request /\ s.pc = "upsert" BY RequestMade
    <3>3. Open(r, s) BY <3>1
    <3> HIDE DEF s
    <3> QED BY <1>1, <3>1, <3>2, <3>3
  <2>4. CASE \/ \E a \in DOMAIN users : Export(r, a) \/ Erase(r, a)
             \/ \E ks \in SUBSET Keys : Revoke(r, ks)
    <3>1. PICK p \in {"audit", "erase"} :
            /\ Open(r, [pc |-> p]) /\ users' = users /\ DOMAIN licences' = DOMAIN licences
      BY <2>4 DEF Export, Erase, Revoke, tables
    <3> DEFINE s == [pc |-> p]
    <3>2. s \in Request /\ s.pc \in {"audit", "erase"} BY RequestMade
    <3>3. Open(r, s) BY <3>1
    <3> HIDE DEF s
    <3> QED BY <1>1, <3>1, <3>2, <3>3
  <2> QED BY <2>1, <2>2, <2>3, <2>4 DEF Begin, Provision
<1>2. To(r, s) /\ (overlapped => overlapped') BY <1>1 DEF Open, WorkspaceInv, TypeOK
<1> QED BY <1>1, <1>2, SeatsGrantedBy, SeatStep

\* The steps that neither count nor add a member.
LEMMA SeatOther ==
  ASSUME WorkspaceInv, WorkspaceInv', SeatInv, org = "owned", org' = "owned", NEW r \in Requests,
         ChangeOwners(r) \/ ChangeApply(r) \/ Upsert(r) \/ DeleteOrg(r) \/ Record(r) \/ Abort(r)
  PROVE  SeatInv'
<1>1. CASE ChangeOwners(r) /\ ~(Cardinality(Owners) <= 1)
  <2> DEFINE s == [req[r] EXCEPT !.pc = "apply"]
  <2>1. req[r] \in Request /\ req[r].pc = "owners" BY <1>1 DEF ChangeOwners, WorkspaceInv, TypeOK
  <2>2. s \in Request /\ s.pc = "apply" BY <2>1 DEF Request
  <2>3. To(r, s) /\ UNCHANGED <<users, licences, overlapped>>
    BY <1>1 DEF ChangeOwners, To, WorkspaceInv, TypeOK, Quiet, tables
  <2> HIDE DEF s
  <2> QED BY <2>2, <2>3, SeatStep
<1>2. CASE ~(ChangeOwners(r) /\ ~(Cardinality(Owners) <= 1))
  <2>1. PICK s \in {Idle, [pc |-> "audit"]} : To(r, s)
    BY <1>2 DEF ChangeOwners, ChangeApply, Upsert, DeleteOrg, Record, Abort, Stop, Audit
  <2>2. s \in Request /\ s.pc \in {"idle", "audit"} BY RequestMade
  <2>3. overlapped' = overlapped
    BY <1>2 DEF ChangeOwners, ChangeApply, Upsert, DeleteOrg, Record, Abort, Quiet
  <2>4. DOMAIN users' \subseteq DOMAIN users
    BY <1>2 DEF ChangeOwners, ChangeApply, Upsert, DeleteOrg, Record, Abort, tables
  <2>5. DOMAIN licences \subseteq DOMAIN licences'
    <3>1. CASE Upsert(r) BY <3>1 DEF Upsert, UpsertLicence
    <3>2. CASE ~Upsert(r)
      BY <1>2, <3>2 DEF ChangeOwners, ChangeApply, DeleteOrg, Record, Abort, tables
    <3> QED BY <3>1, <3>2
  <2> QED BY <2>1, <2>2, <2>3, <2>4, <2>5, SeatStep
<1> QED BY <1>1, <1>2

LEMMA SeatNext ==
  ASSUME WorkspaceInv, WorkspaceInv', SeatInv, [Next]_vars
  PROVE  SeatInv'
<1>1. SUFFICES ASSUME org' = "owned" PROVE SeatInv' BY DEF SeatInv
<1>2. ASSUME NEW r \in Requests, ProvisionOwner(r) PROVE SeatInv' BY <1>1, <1>2, SeatProvisionOwner
<1>3. ASSUME NEW r \in Requests, Begin(r) \/ Step(r), ~ProvisionOwner(r) PROVE SeatInv'
  <2>1. org = "owned"
    BY <1>1, <1>3 DEF Begin, Step, Provision, Invite, Change, Export, Erase, Activate, Mint, Revoke,
       InviteCount, InviteCreate, ChangeOwners, ChangeApply, Upsert, DeleteOrg, Record, Abort, tables
  <2> QED BY <1>1, <1>3, <2>1, SeatBegin, SeatInviteCount, SeatInviteCreate, SeatOther DEF Step
<1>4. ASSUME UNCHANGED <<org, users, licences, req, overlapped>> PROVE SeatInv'
  BY <1>4 DEF SeatInv, SeatsOk, CountOk, Creating, Slack
<1> QED BY <1>2, <1>3, <1>4 DEF Next, Expire, tables, vars

\* org_service.py, billing.py: members pass the seats of a licence by fewer than
\* there are requests, and not at all without an overlap.
THEOREM WorkspaceSeats == Spec => []SeatLimit
<1>1. Init => SeatInv BY DEF Init, SeatInv
<1>2. WorkspaceInv /\ WorkspaceInv' /\ SeatInv /\ [Next]_vars => SeatInv' BY SeatNext
<1>3. WorkspaceInv /\ SeatInv => SeatLimit
  <2>1. SUFFICES ASSUME WorkspaceInv, SeatInv, org = "owned", licences # NoLicences
                 PROVE  \E k \in DOMAIN licences : Cardinality(DOMAIN users) < Seats[k] + Slack
    BY DEF SeatLimit, NoLicences, Slack
  <2>2. PICK k \in DOMAIN licences :
          Cardinality(DOMAIN users) + Cardinality(Creating) < Seats[k] + Slack
    BY <2>1 DEF SeatInv, SeatsOk
  <2>3. Cardinality(DOMAIN users) < Seats[k] + Slack BY <2>1, <2>2, SeatNumbers
  <2> QED BY <2>3
<1> QED BY <1>1, <1>2, <1>3, WorkspaceSafe, PTL DEF Spec
=============================================================================
