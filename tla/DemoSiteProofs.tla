--------------------------- MODULE DemoSiteProofs ---------------------------
(* For any number of tabs, mailboxes and workspaces, and wherever the      *)
(* process stops: sandboxes pass the capacity by fewer than there are tabs,*)
(* a visitor only ever sees a whole workspace, and none goes before its    *)
(* deadline but with its visitor or its own failed build.                  *)
EXTENDS DemoSite, FiniteSetTheorems, WellFoundedInduction, TLAPS

----------------------------------------------------------------------------
(* The inductive invariant.                                                *)

Orgs == [stage : Stages, exp : Nat] \union {NoOrg}
WorkerSteps == {"down", "owner", "populate", "poll", "purge", "sweep", "syncing"}
Worker == [pc : WorkerSteps, at : Nat, todo : SUBSET Nat, box : Nat, org : OrgIds \union {0}]
Visit == [pc : {"idle", "purge", "provision", "owner", "populate", "remove", "session"},
          org : OrgIds \union {0}, exp : Nat, todo : SUBSET OrgIds]
Cookie == [org : OrgIds \union {0}, exp : Nat]

\* An id is given once.
OrgsOk ==
  /\ orgs \in [OrgIds -> Orgs] /\ nextOrg \in 1 .. MaxOrgs + 1
  /\ \A o \in OrgIds : ~Gone(o) => o < nextOrg

\* A sandbox that is there, or what is left of one; and one that is whole.
Sandboxed(o) == o \in OrgIds /\ o < nextOrg /\ (Gone(o) \/ IsSandbox(o))
Whole(o) == Gone(o) \/ orgs[o].stage = "built"

\* What a purge will delete has expired.
Expired(o) == Sandboxed(o) /\ (Gone(o) \/ orgs[o].exp <= now)

WorkerOk(w) ==
  /\ w.at <= now
  /\ w.pc \in {"owner", "populate"} => w.org \in OrgIds /\ ~Gone(w.org) /\ ~IsSandbox(w.org)
  /\ w.pc = "purge" => \A o \in w.todo : Expired(o)
  /\ w.pc \in {"sweep", "syncing"} => w.todo \subseteq Boxes
  /\ w.pc = "syncing" => w.box \in Boxes
  /\ w.box \in Boxes \union {0}

BoxesOk ==
  /\ Boxes \subseteq 1 .. NBoxes
  /\ boxes \in [Boxes -> [status : {"connected", "error", "gone"}, last : 0 .. Never]]
  /\ retryAfter \in [Boxes -> Nat] /\ tried \in [Boxes -> 0 .. Never]
  /\ now \in 0 .. MaxNow /\ faults \in 0 .. MaxFaults

\* A visit that is building, or has built, a workspace.
Holds(v) == v.pc \in {"owner", "populate", "remove", "session"}

VisitOk(v) ==
  /\ v.pc # "idle" => v.exp # 0
  /\ v.pc = "purge" => \A o \in v.todo : Expired(o)
  /\ Holds(v) => Sandboxed(v.org)
  /\ v.pc = "session" => Whole(v.org)

\* A session's workspace is whole, or gone.
CookieOk(k) == k.org # 0 => Sandboxed(k.org) /\ Whole(k.org)

SitesOk ==
  /\ Tabs \subseteq Windows /\ home \in [Tabs -> Browsers]
  /\ cookie \in [Browsers -> Cookie] /\ visit \in [Tabs -> Visit]
  /\ \A t \in Tabs : VisitOk(visit[t])
  /\ \A b \in Browsers : CookieOk(cookie[b])

\* No workspace has two visits at work on it, nor a visit and a session.
OwnOk ==
  /\ \A t, u \in Tabs : Holds(visit[t]) /\ Holds(visit[u]) /\ visit[t].org = visit[u].org => t = u
  /\ \A t \in Tabs, b \in Browsers : Holds(visit[t]) => visit[t].org # cookie[b].org

\* Who passed the check of the capacity has a place in hand.
Sandboxes == {o \in OrgIds : IsSandbox(o)}
Provisioning == {t \in Tabs : At(t, "provision")}
PlacesOk == Cardinality(Sandboxes) + Cardinality(Provisioning) <= MaxLive + Cardinality(Tabs) - 1

DemoInv ==
  /\ OrgsOk /\ worker \in Worker /\ WorkerOk(worker) /\ BoxesOk
  /\ SitesOk /\ OwnOk /\ PlacesOk

\* What a step may do to the workspaces: sandboxes go, deadlines stay, and of those
\* that stay only W may be less whole than before.
OrgsKept(W) ==
  /\ nextOrg' \in Nat /\ nextOrg <= nextOrg'
  /\ \A o \in OrgIds : o < nextOrg =>
       \/ Gone(o)' /\ (Gone(o) \/ IsSandbox(o))
       \/ /\ ~Gone(o) /\ ~Gone(o)' /\ orgs'[o].exp = orgs[o].exp
          /\ o \notin W /\ orgs[o].stage = "built" => orgs'[o].stage = "built"

\* No workspace is deleted.
NoneGoes == \A o \in OrgIds : ~Gone(o) => ~Gone(o)'

\* What is deleted may be: the step of KeptUntilDeadline.
Kept ==
  \A o \in OrgIds : ~Gone(o) /\ orgs'[o] = NoOrg =>
    /\ IsSandbox(o)
    /\ \/ orgs[o].exp <= now
       \/ \E t \in Tabs : SignedIn(t) /\ Jar(t).org = o
       \/ \E t \in Tabs : At(t, "remove") /\ visit[t].org = o

----------------------------------------------------------------------------
(* Numbers, sets and rows.                                                 *)

LEMMA Numbers ==
  /\ NBoxes \in Nat /\ MaxOrgs \in Nat /\ MaxNow \in Nat /\ MaxFaults \in Nat
  /\ Interval \in Nat /\ MaxLive \in Nat /\ MaxLive # 0 /\ Lifetime \in Nat /\ Lifetime # 0
  /\ \A o \in OrgIds : o \in Nat /\ o # 0
  BY WorkerAssumption, DemoAssumption DEF OrgIds

\* Every set of numbers but the empty one has a least.
LEMMA LeastOf ==
  ASSUME NEW S \in SUBSET Nat, S # {}
  PROVE  Min(S) \in S
<1> DEFINE R == OpToRel(<, Nat)
<1>1. \A x, y \in Nat : <<x, y>> \in R <=> x < y
  BY DEF OpToRel
<1>2. IsWellFoundedOn(R, Nat)
  BY NatLessThanWellFounded
<1> HIDE DEF R
<1>3. PICK x \in S : \A y \in S : ~(<<y, x>> \in R)
  BY <1>2, WFMin
<1>4. ASSUME NEW y \in S PROVE x <= y
  <2>1. x \in Nat /\ y \in Nat
    OBVIOUS
  <2>2. ~(y < x)
    BY <1>1, <1>3, <2>1, Zenon
  <2> QED
    BY <2>1, <2>2
<1>5. Min(S) = CHOOSE z \in S : \A y \in S : z <= y
  BY Zenon DEF Min
<1>6. \E z \in S : \A y \in S : z <= y
  BY <1>4
<1> QED
  BY <1>5, <1>6, Zenon

LEMMA NextIs == ASSUME OrgsOk PROVE nextOrg \in Nat /\ nextOrg # 0
<1>1. nextOrg \in 1 .. MaxOrgs + 1
  BY DEF OrgsOk
<1> QED
  BY <1>1, Numbers

LEMMA RowIs ==
  ASSUME OrgsOk, NEW o \in OrgIds, ~Gone(o)
  PROVE  orgs[o] \in [stage : Stages, exp : Nat]
  BY DEF OrgsOk, Orgs, Gone

LEMMA NothingKeepsOrgs ==
  ASSUME OrgsOk, UNCHANGED <<orgs, nextOrg>>
  PROVE  OrgsOk' /\ OrgsKept({}) /\ Sandboxes' = Sandboxes /\ NoneGoes
<1>1. nextOrg \in Nat /\ nextOrg' = nextOrg
  BY NextIs
<1> QED
  BY <1>1 DEF OrgsOk, OrgsKept, Gone, Sandboxes, IsSandbox, NoneGoes

LEMMA DeleteKeeps ==
  ASSUME OrgsOk, NEW o \in OrgIds, Gone(o) \/ IsSandbox(o), DeleteOrg(o), nextOrg' = nextOrg
  PROVE  /\ OrgsOk' /\ OrgsKept({}) /\ Sandboxes' \subseteq Sandboxes
         /\ \A p \in OrgIds : ~Gone(p) /\ Gone(p)' => p = o
<1>1. nextOrg \in Nat /\ nextOrg' = nextOrg
  BY NextIs
<1>2. orgs' = [orgs EXCEPT ![o] = NoOrg] /\ orgs \in [OrgIds -> Orgs]
  BY DEF DeleteOrg, OrgsOk
<1>3. orgs' \in [OrgIds -> Orgs] /\ \A p \in OrgIds : orgs'[p] = IF p = o THEN NoOrg ELSE orgs[p]
  BY <1>2 DEF Orgs
<1>4. OrgsOk'
  BY <1>1, <1>3 DEF OrgsOk, Gone
<1>5. OrgsKept({})
  BY <1>1, <1>3 DEF OrgsKept, Gone
<1>6. Sandboxes' \subseteq Sandboxes
  BY <1>3 DEF Sandboxes, IsSandbox, Gone
<1> QED
  BY <1>3, <1>4, <1>5, <1>6 DEF Gone

LEMMA StageKeeps ==
  ASSUME OrgsOk, NEW o \in OrgIds, ~Gone(o), NEW s \in Stages,
         orgs' = [orgs EXCEPT ![o].stage = s], nextOrg' = nextOrg
  PROVE  /\ OrgsOk' /\ OrgsKept({o}) /\ Sandboxes' = Sandboxes /\ NoneGoes
         /\ ~Gone(o)' /\ orgs'[o].stage = s /\ orgs'[o].exp = orgs[o].exp
<1>1. nextOrg \in Nat /\ nextOrg' = nextOrg
  BY NextIs
<1>2. PICK r \in [stage : Stages, exp : Nat] : r = [orgs[o] EXCEPT !.stage = s]
  BY RowIs
<1>3. r.stage = s /\ r.exp = orgs[o].exp /\ r # NoOrg
  BY <1>2, RowIs DEF Stages, NoOrg
<1>4. orgs \in [OrgIds -> Orgs] /\ orgs' = [orgs EXCEPT ![o] = r]
  BY <1>2 DEF OrgsOk
<1>5. orgs' \in [OrgIds -> Orgs] /\ \A p \in OrgIds : orgs'[p] = IF p = o THEN r ELSE orgs[p]
  BY <1>4 DEF Orgs
<1>6. OrgsOk'
  BY <1>1, <1>5 DEF OrgsOk, Gone
<1>7. OrgsKept({o})
  BY <1>1, <1>3, <1>5 DEF OrgsKept, Gone
<1>8. Sandboxes' = Sandboxes
  BY <1>3, <1>5 DEF Sandboxes, IsSandbox, Gone
<1>9. ~Gone(o)' /\ orgs'[o].stage = s /\ orgs'[o].exp = orgs[o].exp
  BY <1>3, <1>5 DEF Gone
<1>10. NoneGoes
  BY <1>3, <1>5 DEF NoneGoes, Gone
<1> QED
  BY <1>6, <1>7, <1>8, <1>9, <1>10

LEMMA InsertKeeps ==
  ASSUME OrgsOk, NEW d \in Nat, InsertOrg(d)
  PROVE  /\ OrgsOk' /\ OrgsKept({}) /\ nextOrg \in OrgIds /\ nextOrg' = nextOrg + 1
         /\ NoneGoes
         /\ orgs'[nextOrg] # NoOrg /\ orgs'[nextOrg].exp = d
         /\ Sandboxes' \subseteq IF d = NoDeadline THEN Sandboxes ELSE Sandboxes \union {nextOrg}
<1>1. nextOrg \in Nat /\ nextOrg # 0 /\ nextOrg <= MaxOrgs /\ nextOrg' = nextOrg + 1
  BY NextIs DEF InsertOrg
<1>2. nextOrg \in OrgIds /\ nextOrg' \in 1 .. MaxOrgs + 1 /\ nextOrg' \in Nat
  BY <1>1, Numbers DEF OrgIds
<1>3. PICK r \in [stage : Stages, exp : Nat] : r = [stage |-> "org", exp |-> d]
  BY DEF Stages
<1>4. r # NoOrg /\ r.exp = d
  BY <1>3 DEF NoOrg
<1>5. orgs \in [OrgIds -> Orgs] /\ orgs' = [orgs EXCEPT ![nextOrg] = r]
  BY <1>3 DEF OrgsOk, InsertOrg
<1>6. orgs' \in [OrgIds -> Orgs] /\ \A p \in OrgIds : orgs'[p] = IF p = nextOrg THEN r ELSE orgs[p]
  BY <1>2, <1>5 DEF Orgs
<1>7. \A p \in OrgIds : p # nextOrg /\ ~Gone(p)' => p < nextOrg /\ ~Gone(p) /\ p \in Nat
  BY <1>6, Numbers DEF OrgsOk, Gone
<1>8. \A p \in OrgIds : ~Gone(p)' => p < nextOrg'
  BY <1>1, <1>7
<1>9. OrgsOk'
  BY <1>2, <1>6, <1>8 DEF OrgsOk
<1>10. \A p \in OrgIds : p < nextOrg => orgs'[p] = orgs[p]
  BY <1>1, <1>6, Numbers
<1>11. OrgsKept({})
  <2>1. nextOrg' \in Nat /\ nextOrg <= nextOrg'
    BY <1>1, <1>2
  <2>2. \A p \in OrgIds : p < nextOrg => (Gone(p)' /\ Gone(p)) \/ (~Gone(p)' /\ ~Gone(p))
    BY <1>10 DEF Gone
  <2> QED
    BY <1>10, <2>1, <2>2 DEF OrgsKept
<1>12. Sandboxes' \subseteq IF d = NoDeadline THEN Sandboxes ELSE Sandboxes \union {nextOrg}
  BY <1>4, <1>6 DEF Sandboxes, IsSandbox, Gone
<1>13. NoneGoes
  BY <1>4, <1>6 DEF NoneGoes, Gone
<1> QED
  BY <1>1, <1>2, <1>4, <1>6, <1>9, <1>11, <1>12, <1>13

----------------------------------------------------------------------------
(* What the steps leave of visits, sessions and places.                    *)

LEMMA SandboxedStays ==
  ASSUME OrgsOk, NEW W, OrgsKept(W), NEW o, Sandboxed(o)
  PROVE  Sandboxed(o)' /\ (Whole(o) /\ o \notin W => Whole(o)')
<1>1. o \in OrgIds /\ o < nextOrg /\ o \in Nat /\ nextOrg \in Nat
  BY NextIs, Numbers DEF Sandboxed
<1>2. nextOrg' \in Nat /\ nextOrg <= nextOrg'
  BY DEF OrgsKept
<1>3. o < nextOrg'
  BY <1>1, <1>2
<1>4. \/ Gone(o)' /\ (Gone(o) \/ IsSandbox(o))
      \/ /\ ~Gone(o) /\ ~Gone(o)' /\ orgs'[o].exp = orgs[o].exp
         /\ o \notin W /\ orgs[o].stage = "built" => orgs'[o].stage = "built"
  BY <1>1 DEF OrgsKept
<1> QED
  BY <1>1, <1>3, <1>4 DEF Sandboxed, Whole, IsSandbox

LEMMA ExpiredStays ==
  ASSUME OrgsOk, NEW W, OrgsKept(W), now \in Nat, now' \in Nat, now <= now', NEW o, Expired(o)
  PROVE  Expired(o)'
<1>1. Sandboxed(o)' /\ o \in OrgIds /\ o < nextOrg
  BY SandboxedStays DEF Expired, Sandboxed
<1>2. ~Gone(o)' => ~Gone(o) /\ orgs'[o].exp = orgs[o].exp
  BY <1>1 DEF OrgsKept
<1>3. ~Gone(o) => orgs[o].exp \in Nat /\ orgs[o].exp <= now
  BY <1>1, RowIs DEF Expired
<1>4. ~Gone(o)' => orgs'[o].exp <= now'
  BY <1>2, <1>3
<1> QED
  BY <1>1, <1>4 DEF Expired

LEMMA VisitStays ==
  ASSUME OrgsOk, NEW W, OrgsKept(W), now \in Nat, now' \in Nat, now <= now',
         NEW v \in Visit, VisitOk(v), v.pc = "session" => v.org \notin W
  PROVE  VisitOk(v)'
<1>1. \A o : Expired(o) => Expired(o)'
  BY ExpiredStays
<1>2. \A o : Sandboxed(o) => Sandboxed(o)' /\ (Whole(o) /\ o \notin W => Whole(o)')
  BY SandboxedStays
<1>3. v.pc = "session" => Sandboxed(v.org) /\ Whole(v.org)
  BY DEF VisitOk, Holds
<1> QED
  BY <1>1, <1>2, <1>3 DEF VisitOk, Holds

LEMMA CookieStays ==
  ASSUME OrgsOk, NEW W, OrgsKept(W), NEW k \in Cookie, CookieOk(k), k.org # 0 => k.org \notin W
  PROVE  CookieOk(k)'
<1>1. \A o : Sandboxed(o) => Sandboxed(o)' /\ (Whole(o) /\ o \notin W => Whole(o)')
  BY SandboxedStays
<1> QED
  BY <1>1 DEF CookieOk

LEMMA WorkerStays ==
  ASSUME OrgsOk, NEW W, OrgsKept(W), now \in Nat, now' \in Nat, now <= now', Boxes' = Boxes,
         NEW w \in Worker, WorkerOk(w)
  PROVE  WorkerOk(w)'
<1>1. \A o : Expired(o) => Expired(o)'
  BY ExpiredStays
<1>2. ASSUME w.pc \in {"owner", "populate"} PROVE ~Gone(w.org)' /\ ~IsSandbox(w.org)'
  <2>1. w.org \in OrgIds /\ ~Gone(w.org) /\ ~IsSandbox(w.org) /\ w.org < nextOrg
    BY <1>2 DEF WorkerOk, OrgsOk
  <2> QED
    BY <2>1 DEF OrgsKept, IsSandbox
<1>3. w.at <= now'
  <2>1. w.at \in Nat /\ w.at <= now
    BY DEF Worker, WorkerOk
  <2> QED
    BY <2>1
<1> QED
  BY <1>1, <1>2, <1>3 DEF WorkerOk

\* The capacity: sets that shrink keep the count.
LEMMA FiniteSets ==
  ASSUME Tabs \subseteq Windows
  PROVE  /\ IsFiniteSet(Sandboxes) /\ IsFiniteSet(Provisioning) /\ IsFiniteSet(Tabs)
         /\ Cardinality(Sandboxes) \in Nat /\ Cardinality(Provisioning) \in Nat
         /\ Cardinality(Tabs) \in Nat
<1>1. IsFiniteSet(OrgIds)
  BY FS_Interval, Numbers DEF OrgIds
<1>2. IsFiniteSet(Tabs)
  BY DemoAssumption, FS_Subset
<1>3. Sandboxes \subseteq OrgIds /\ Provisioning \subseteq Tabs
  BY DEF Sandboxes, Provisioning
<1>4. IsFiniteSet(Sandboxes) /\ IsFiniteSet(Provisioning)
  BY <1>1, <1>2, <1>3, FS_Subset
<1> QED
  BY <1>2, <1>4, FS_CardinalityType

LEMMA PlacesStay ==
  ASSUME Tabs \subseteq Windows, PlacesOk, Sandboxes' \subseteq Sandboxes,
         Provisioning' \subseteq Provisioning, home' = home
  PROVE  PlacesOk'
<1>1. Tabs' = Tabs
  BY DEF Tabs
<1>2. /\ Cardinality(Sandboxes') \in Nat /\ Cardinality(Sandboxes') <= Cardinality(Sandboxes)
      /\ Cardinality(Provisioning') \in Nat
      /\ Cardinality(Provisioning') <= Cardinality(Provisioning)
  BY FiniteSets, FS_Subset, FS_CardinalityType
<1> QED
  BY <1>1, <1>2, FiniteSets, Numbers DEF PlacesOk
\* A step of the worker or of the clock: of the workspaces that stay it touches only
\* those that have no deadline.
LEMMA WorkerMoves ==
  ASSUME DemoInv, NEW W \in SUBSET OrgIds, OrgsOk', OrgsKept(W), Sandboxes' \subseteq Sandboxes,
         \A o \in W : ~Gone(o) /\ ~IsSandbox(o),
         worker' \in Worker, WorkerOk(worker)', BoxesOk', now <= now',
         UNCHANGED <<home, cookie, visit>>
  PROVE  DemoInv'
<1>1. now \in Nat /\ now' \in Nat
  BY Numbers DEF DemoInv, BoxesOk
<1>2. \A o \in W : ~Sandboxed(o)
  BY DEF Sandboxed
<1>3. ASSUME NEW t \in Tabs PROVE VisitOk(visit[t])'
  <2>1. PICK v \in Visit : v = visit[t] /\ VisitOk(v)
    BY DEF DemoInv, SitesOk
  <2>2. v.pc = "session" => v.org \notin W
    BY <1>2, <2>1 DEF VisitOk, Holds
  <2>3. VisitOk(v)'
    BY <1>1, <2>1, <2>2, VisitStays DEF DemoInv
  <2> QED
    BY <2>1, <2>3
<1>4. ASSUME NEW b \in Browsers PROVE CookieOk(cookie[b])'
  <2>1. PICK k \in Cookie : k = cookie[b] /\ CookieOk(k)
    BY DEF DemoInv, SitesOk
  <2>2. k.org # 0 => k.org \notin W
    BY <1>2, <2>1 DEF CookieOk
  <2>3. CookieOk(k)'
    BY <2>1, <2>2, CookieStays DEF DemoInv
  <2> QED
    BY <2>1, <2>3
<1>5. SitesOk'
  BY <1>3, <1>4 DEF DemoInv, SitesOk, Tabs
<1>6. OwnOk'
  BY DEF DemoInv, OwnOk, Tabs, Holds
<1>7. PlacesOk'
  <2>1. Provisioning' = Provisioning
    BY DEF Provisioning, Tabs, At
  <2> QED
    BY <2>1, PlacesStay DEF DemoInv, SitesOk
<1> QED
  BY <1>5, <1>6, <1>7 DEF DemoInv

\* A step of a tab, whose visit becomes v and whose browsers' sessions become K.
LEMMA VisitMoves ==
  ASSUME DemoInv, NEW t \in Tabs, NEW v \in Visit, NEW K \in [Browsers -> Cookie],
         NEW W \in SUBSET OrgIds, OrgsOk', OrgsKept(W), PlacesOk',
         W = {} \/ (Holds(visit[t]) /\ W = {visit[t].org}),
         visit' = [visit EXCEPT ![t] = v], VisitOk(v)',
         Holds(v) => v.org = nextOrg \/ (Holds(visit[t]) /\ v.org = visit[t].org),
         cookie' = K, \A b \in Browsers : K[b] # cookie[b] => CookieOk(K[b])',
         \A b \in Browsers : \/ K[b] = cookie[b]
                             \/ K[b].org = 0
                             \/ (Holds(visit[t]) /\ ~Holds(v) /\ K[b].org = visit[t].org),
         faults' \in 0 .. MaxFaults, UNCHANGED <<boxes, worker, retryAfter, now, tried, home>>
  PROVE  DemoInv'
<1>1. now \in Nat /\ now' \in Nat /\ now <= now' /\ Boxes' = Boxes /\ Tabs' = Tabs
  BY Numbers DEF DemoInv, BoxesOk, Boxes, Tabs
<1>2. visit \in [Tabs -> Visit] /\ \A u \in Tabs : visit'[u] = IF u = t THEN v ELSE visit[u]
  BY DEF DemoInv, SitesOk
<1>3. ASSUME NEW u \in Tabs PROVE VisitOk(visit[u])'
  <2>1. CASE u = t
    BY <1>2, <2>1
  <2>2. CASE u # t
    <3>1. PICK x \in Visit : x = visit[u] /\ x = visit'[u] /\ VisitOk(x)
      BY <1>2, <2>2 DEF DemoInv, SitesOk
    <3>2. x.pc = "session" => x.org \notin W
      BY <2>2, <3>1 DEF DemoInv, OwnOk, Holds
    <3>3. VisitOk(x)'
      BY <1>1, <3>1, <3>2, VisitStays DEF DemoInv
    <3> QED
      BY <3>1, <3>3
  <2> QED
    BY <2>1, <2>2
<1>4. ASSUME NEW b \in Browsers PROVE CookieOk(K[b])'
  <2>1. CASE K[b] # cookie[b]
    BY <2>1
  <2>2. CASE K[b] = cookie[b]
    <3>1. PICK k \in Cookie : k = cookie[b] /\ CookieOk(k)
      BY DEF DemoInv, SitesOk
    <3>2. k.org # 0 => k.org \notin W
      BY <3>1 DEF DemoInv, OwnOk
    <3>3. CookieOk(k)'
      BY <3>1, <3>2, CookieStays DEF DemoInv
    <3> QED
      BY <2>2, <3>1, <3>3
  <2> QED
    BY <2>1, <2>2
<1>5. SitesOk'
  <2>1. visit' \in [Tabs -> Visit]
    BY <1>2
  <2> QED
    BY <1>1, <1>3, <1>4, <2>1 DEF DemoInv, SitesOk
<1>6. \A u \in Tabs : Holds(visit[u]) => visit[u].org # nextOrg /\ visit[u].org # 0
  <2>1. ASSUME NEW u \in Tabs, Holds(visit[u]) PROVE visit[u].org # nextOrg /\ visit[u].org # 0
    <3>1. Sandboxed(visit[u].org)
      BY <2>1 DEF DemoInv, SitesOk, VisitOk
    <3> QED
      BY <3>1, NextIs, Numbers DEF DemoInv, Sandboxed
  <2> QED
    BY <2>1
<1>7. \A b \in Browsers : cookie[b].org # nextOrg
  <2>1. ASSUME NEW b \in Browsers, cookie[b].org # 0 PROVE cookie[b].org # nextOrg
    <3>1. Sandboxed(cookie[b].org)
      BY <2>1 DEF DemoInv, SitesOk, CookieOk
    <3> QED
      BY <3>1, NextIs, Numbers DEF DemoInv, Sandboxed
  <2> QED
    BY <2>1, NextIs DEF DemoInv
<1>8. \A a, u \in Tabs :
        Holds(visit'[a]) /\ Holds(visit'[u]) /\ visit'[a].org = visit'[u].org => a = u
  BY <1>2, <1>6 DEF DemoInv, OwnOk
<1>9. \A a \in Tabs, b \in Browsers : Holds(visit'[a]) => visit'[a].org # K[b].org
  <2>1. \A a \in Tabs, b \in Browsers : a # t /\ Holds(visit[a]) => visit[a].org # K[b].org
    BY <1>6 DEF DemoInv, OwnOk
  <2>2. ASSUME Holds(v), NEW b \in Browsers PROVE v.org # K[b].org
    <3>1. v.org # 0
      BY <1>6, <2>2, NextIs DEF DemoInv
    <3>2. v.org # cookie[b].org
      BY <1>7, <2>2 DEF DemoInv, OwnOk
    <3> QED
      BY <2>2, <3>1, <3>2
  <2> QED
    BY <1>2, <2>1, <2>2
<1>10. OwnOk'
  <2>1. \A x : Holds(x)' <=> Holds(x)
    BY DEF Holds
  <2> QED
    BY <1>1, <1>8, <1>9, <2>1 DEF OwnOk, Holds
<1>11. worker' \in Worker /\ WorkerOk(worker)' /\ BoxesOk'
  <2>1. PICK w \in Worker : w = worker /\ w = worker' /\ WorkerOk(w)
    BY DEF DemoInv
  <2>2. WorkerOk(w)'
    BY <1>1, <2>1, WorkerStays DEF DemoInv
  <2>3. BoxesOk'
    BY <1>1 DEF DemoInv, BoxesOk, Never
  <2> QED
    BY <2>1, <2>2, <2>3
<1> QED
  BY <1>5, <1>10, <1>11 DEF DemoInv

----------------------------------------------------------------------------
(* The process and its worker.                                             *)

LEMMA DemoParts ==
  ASSUME DemoInv
  PROVE  OrgsOk /\ BoxesOk /\ worker \in Worker /\ WorkerOk(worker) /\ now \in Nat /\ 0 <= now
  BY DEF DemoInv, BoxesOk

LEMMA BoxesStay ==
  ASSUME DemoInv, UNCHANGED <<boxes, retryAfter, now, tried>>, Fail \/ UNCHANGED faults
  PROVE  BoxesOk' /\ Boxes' = Boxes /\ now' = now
<1>1. faults' \in 0 .. MaxFaults
  BY Numbers DEF DemoInv, BoxesOk, Fail
<1> QED
  BY <1>1 DEF DemoInv, BoxesOk, Boxes, Never

LEMMA ExpiredIs ==
  ASSUME OrgsOk, NEW o \in expired_sandbox_ids(now)
  PROVE  o \in OrgIds /\ Expired(o)
  BY DEF expired_sandbox_ids, Expired, Sandboxed, OrgsOk, IsSandbox

\* A purge deletes what has expired, or fails.
LEMMA PurgeKeeps ==
  ASSUME OrgsOk, NEW o, Expired(o), DeleteOrg(o) \/ UNCHANGED orgs, nextOrg' = nextOrg
  PROVE  OrgsOk' /\ OrgsKept({}) /\ Sandboxes' \subseteq Sandboxes /\ Kept
<1>1. o \in OrgIds /\ (Gone(o) \/ (IsSandbox(o) /\ orgs[o].exp <= now))
  BY DEF Expired, Sandboxed
<1>2. CASE DeleteOrg(o)
  <2>1. /\ OrgsOk' /\ OrgsKept({}) /\ Sandboxes' \subseteq Sandboxes
        /\ \A p \in OrgIds : ~Gone(p) /\ Gone(p)' => p = o
    BY <1>1, <1>2, DeleteKeeps
  <2>2. Kept
    BY <1>1, <2>1 DEF Kept, Gone
  <2> QED
    BY <2>1, <2>2
<1>3. CASE UNCHANGED orgs
  BY <1>3, NothingKeepsOrgs DEF NoneGoes, Kept, Gone
<1> QED
  BY <1>2, <1>3

\* A step of the worker that leaves the workspaces alone.
LEMMA WorkerQuiet ==
  ASSUME DemoInv, UNCHANGED <<orgs, nextOrg, home, cookie, visit>>, now <= now',
         worker' \in Worker, WorkerOk(worker)', BoxesOk'
  PROVE  DemoInv' /\ Kept
<1>1. OrgsOk' /\ OrgsKept({}) /\ Sandboxes' \subseteq Sandboxes /\ NoneGoes
  BY NothingKeepsOrgs DEF DemoInv
<1>2. DemoInv'
  BY <1>1, WorkerMoves, Zenon
<1> QED
  BY <1>1, <1>2 DEF Kept, NoneGoes, Gone

\* A step that only moves the worker, of which the mailboxes know nothing.
LEMMA WorkerGoes ==
  ASSUME DemoInv, UNCHANGED <<orgs, nextOrg, boxes, retryAfter, now, tried>>,
         Fail \/ UNCHANGED faults, UNCHANGED <<home, cookie, visit>>,
         NEW w \in Worker, worker' = w, WorkerOk(w)
  PROVE  DemoInv' /\ Kept
<1>1. now \in Nat /\ now' = now /\ Boxes' = Boxes
  BY Numbers DEF DemoInv, BoxesOk, Boxes
<1>2. OrgsKept({})
  BY NothingKeepsOrgs DEF DemoInv
<1>3. WorkerOk(w)'
  BY <1>1, <1>2, WorkerStays DEF DemoInv
<1>4. BoxesOk'
  <2>1. faults' \in 0 .. MaxFaults
    BY Numbers DEF DemoInv, BoxesOk, Fail
  <2> QED
    BY <1>1, <2>1 DEF DemoInv, BoxesOk, Never
<1> QED
  BY <1>1, <1>3, <1>4, WorkerQuiet

LEMMA BootKeeps ==
  ASSUME DemoInv, Boot, UNCHANGED <<home, cookie, visit>>
  PROVE  DemoInv' /\ Kept
<1>1. now \in Nat /\ 0 <= now /\ now' = now /\ Boxes' = Boxes /\ OrgsOk /\ BoxesOk'
  BY DemoParts, BoxesStay DEF Boot
<1>2. CASE SharedDemo # {}
  <2>1. PICK o \in SharedDemo :
          /\ orgs' = [orgs EXCEPT ![o].stage = "ready"]
          /\ worker' = [Down EXCEPT !.pc = "populate", !.org = o] /\ nextOrg' = nextOrg
    BY <1>2 DEF Boot
  <2>2. o \in OrgIds /\ ~Gone(o) /\ ~IsSandbox(o)
    BY DEF SharedDemo
  <2>3. /\ OrgsOk' /\ OrgsKept({o}) /\ Sandboxes' = Sandboxes /\ NoneGoes
        /\ ~Gone(o)' /\ orgs'[o].exp = orgs[o].exp
    BY <1>1, <2>1, <2>2, StageKeeps DEF Stages
  <2>4. worker' \in Worker /\ WorkerOk(worker)'
    BY <1>1, <2>1, <2>2, <2>3 DEF Worker, WorkerSteps, WorkerOk, Down, IsSandbox
  <2>5. DemoInv'
    BY <1>1, <2>2, <2>3, <2>4, WorkerMoves
  <2> QED
    BY <2>3, <2>5 DEF Kept, NoneGoes, Gone
<1>3. CASE SharedDemo = {}
  <2>1. InsertOrg(0) /\ worker' = [Down EXCEPT !.pc = "owner", !.org = nextOrg]
    BY <1>3 DEF Boot, NoDeadline
  <2>2. /\ OrgsOk' /\ OrgsKept({}) /\ nextOrg \in OrgIds /\ NoneGoes /\ Sandboxes' \subseteq Sandboxes
        /\ orgs'[nextOrg] # NoOrg /\ orgs'[nextOrg].exp = 0
    BY <1>1, <2>1, InsertKeeps DEF NoDeadline
  <2>3. worker' \in Worker
    BY <2>1, <2>2 DEF Worker, WorkerSteps, Down
  <2>4. WorkerOk(worker)'
    <3>1. PICK q : q = nextOrg
      OBVIOUS
    <3>2. ~Gone(q)' /\ ~IsSandbox(q)'
      BY <2>2, <3>1 DEF Gone, IsSandbox, NoDeadline
    <3> QED
      BY <1>1, <2>1, <2>2, <3>1, <3>2 DEF WorkerOk, Down
  <2>5. DemoInv'
    BY <1>1, <2>2, <2>3, <2>4, WorkerMoves
  <2> QED
    BY <2>2, <2>5 DEF Kept, NoneGoes, Gone
<1> QED
  BY <1>2, <1>3

LEMMA SeedKeeps ==
  ASSUME DemoInv, SeedOwner \/ SeedPopulate, UNCHANGED <<home, cookie, visit>>
  PROVE  DemoInv' /\ Kept
<1>1. now \in Nat /\ now' = now /\ Boxes' = Boxes /\ OrgsOk /\ BoxesOk'
  BY DemoParts, BoxesStay DEF SeedOwner, SeedPopulate
<1>2. PICK w \in Worker :
        /\ w = worker /\ WorkerOk(w) /\ w.pc \in {"owner", "populate"} /\ nextOrg' = nextOrg
        /\ \E s \in Stages : orgs' = [orgs EXCEPT ![w.org].stage = s]
        /\ \/ worker' = [w EXCEPT !.pc = "populate"]
           \/ worker' = [w EXCEPT !.pc = "poll"]
  BY DEF DemoInv, SeedOwner, SeedPopulate, Go, Stages
<1>3. w.org \in OrgIds /\ ~Gone(w.org) /\ ~IsSandbox(w.org)
  BY <1>2 DEF WorkerOk
<1>4. /\ OrgsOk' /\ OrgsKept({w.org}) /\ Sandboxes' = Sandboxes /\ NoneGoes
      /\ ~Gone(w.org)' /\ orgs'[w.org].exp = orgs[w.org].exp
  <2>1. PICK s \in Stages : orgs' = [orgs EXCEPT ![w.org].stage = s]
    BY <1>2
  <2> QED
    BY <1>1, <1>2, <1>3, <2>1, StageKeeps
<1>5. worker' \in Worker /\ WorkerOk(worker)'
  <2>1. worker' \in Worker /\ worker'.pc \in {"populate", "poll"} /\ worker'.org = w.org
        /\ worker'.box = w.box /\ worker'.at = w.at
    BY <1>2 DEF Worker, WorkerSteps
  <2>2. w.box \in Boxes' \union {0} /\ w.at <= now'
    BY <1>1, <1>2 DEF WorkerOk
  <2> QED
    BY <1>3, <1>4, <2>1, <2>2 DEF WorkerOk, IsSandbox
<1>6. DemoInv'
  BY <1>1, <1>3, <1>4, <1>5, WorkerMoves
<1> QED
  BY <1>4, <1>6 DEF Kept, NoneGoes, Gone

LEMMA PassKeeps ==
  ASSUME DemoInv, SeedFails \/ PassBegin \/ PurgeEnd \/ PassEnd \/ PassRaises,
         UNCHANGED <<home, cookie, visit>>
  PROVE  DemoInv' /\ Kept
<1>1. worker \in Worker /\ WorkerOk(worker) /\ OrgsOk /\ BoxesOk /\ now \in Nat /\ 0 <= now
  BY DemoParts
<1>2. CASE SeedFails
  <2>1. worker' \in Worker /\ WorkerOk([worker EXCEPT !.pc = "poll"])
    BY <1>1, <1>2 DEF SeedFails, Go, Worker, WorkerSteps, WorkerOk
  <2> QED
    BY <1>2, <2>1, WorkerGoes DEF SeedFails, Go
<1>3. CASE PassBegin
  <2>1. PICK E \in SUBSET Nat : E = expired_sandbox_ids(now) /\ \A o \in E : Expired(o)
    BY <1>1, ExpiredIs, Numbers
  <2>2. PICK w : w = [Down EXCEPT !.pc = "purge", !.at = now, !.todo = E]
    OBVIOUS
  <2>3. w \in Worker
    BY <1>1, <2>2 DEF Down, Worker, WorkerSteps
  <2>4. w.pc = "purge" /\ w.at = now /\ w.todo = E /\ w.box = 0
    BY <2>2 DEF Down
  <2>5. WorkerOk(w)
    BY <1>1, <2>1, <2>4 DEF WorkerOk
  <2> QED
    BY <1>3, <2>1, <2>2, <2>3, <2>5, WorkerGoes DEF PassBegin
<1>4. CASE PurgeEnd
  <2> DEFINE w == [worker EXCEPT !.pc = "sweep", !.todo = Connected]
  <2>1. Connected \subseteq Boxes /\ Connected \subseteq Nat
    <3>1. Boxes \subseteq 1 .. NBoxes /\ 1 .. NBoxes \subseteq Nat
      BY <1>1, Numbers DEF BoxesOk
    <3> QED
      BY <3>1 DEF Connected
  <2>2. w \in Worker /\ WorkerOk(w)
    BY <1>1, <2>1 DEF Worker, WorkerSteps, WorkerOk
  <2> QED
    BY <1>4, <2>2, WorkerGoes DEF PurgeEnd
<1>5. CASE PassEnd \/ PassRaises
  <2>1. [Down EXCEPT !.pc = "poll"] \in Worker /\ WorkerOk([Down EXCEPT !.pc = "poll"])
    BY <1>1 DEF Down, Worker, WorkerSteps, WorkerOk
  <2> QED
    BY <1>5, <2>1, WorkerGoes DEF PassEnd, PassRaises
<1> QED
  BY <1>2, <1>3, <1>4, <1>5

LEMMA PurgeOneKeeps ==
  ASSUME DemoInv, NEW o \in OrgIds, PurgeOne(o), UNCHANGED <<home, cookie, visit>>
  PROVE  DemoInv' /\ Kept
<1>1. now \in Nat /\ now' = now /\ Boxes' = Boxes /\ OrgsOk
  BY Numbers DEF DemoInv, BoxesOk, Boxes, PurgeOne
<1>2. PICK w \in Worker : w = worker /\ WorkerOk(w) /\ w.pc = "purge" /\ o \in w.todo
                          /\ worker' = [w EXCEPT !.todo = @ \ {o}]
  BY DEF DemoInv, PurgeOne
<1>3. Expired(o) /\ (DeleteOrg(o) \/ UNCHANGED orgs) /\ nextOrg' = nextOrg
  BY <1>2 DEF WorkerOk, PurgeOne
<1>4. OrgsOk' /\ OrgsKept({}) /\ Sandboxes' \subseteq Sandboxes /\ Kept
  BY <1>1, <1>3, PurgeKeeps
<1>5. WorkerOk(w)'
  BY <1>1, <1>2, <1>4, WorkerStays
<1>6. worker' \in Worker /\ WorkerOk(worker)'
  BY <1>2, <1>5 DEF Worker, WorkerOk
<1>7. BoxesOk'
  <2>1. faults' \in 0 .. MaxFaults
    BY Numbers DEF DemoInv, BoxesOk, PurgeOne, Fail
  <2> QED
    BY <1>1, <2>1 DEF DemoInv, BoxesOk, Never, PurgeOne
<1>8. DemoInv'
  <2>1. \A o1 \in {} : ~Gone(o1) /\ ~IsSandbox(o1)
    OBVIOUS
  <2>2. now <= now' /\ {} \in SUBSET OrgIds
    BY <1>1
  <2> QED
    BY <1>4, <1>6, <1>7, <2>1, <2>2, WorkerMoves
<1> QED
  BY <1>4, <1>8

LEMMA SweepKeeps ==
  ASSUME DemoInv, SweepNext, UNCHANGED <<home, cookie, visit>>
  PROVE  DemoInv' /\ Kept
<1>1. worker \in Worker /\ WorkerOk(worker) /\ OrgsOk /\ BoxesOk /\ now \in Nat /\ 0 <= now
  BY DemoParts
<1>2. worker.pc = "sweep" /\ worker.todo # {} /\ worker.todo \subseteq Boxes
  BY <1>1 DEF SweepNext, WorkerOk
<1>3. worker.todo \in SUBSET Nat
  BY <1>1 DEF Worker
<1>4. PICK b : b = Min(worker.todo) /\ b \in worker.todo
  BY <1>2, <1>3, LeastOf
<1>5. /\ \/ worker' = [worker EXCEPT !.pc = "syncing", !.box = b, !.todo = @ \ {b}]
         \/ worker' = [worker EXCEPT !.todo = @ \ {b}]
      /\ tried' = [tried EXCEPT ![b] = worker.at] \/ tried' = tried
  BY <1>4 DEF SweepNext
<1>6. worker' \in Worker /\ WorkerOk(worker)'
  <2>1. Boxes' = Boxes /\ b \in Boxes /\ b \in Nat /\ now' = now
    BY <1>2, <1>3, <1>4 DEF SweepNext, Boxes
  <2> QED
    BY <1>1, <1>2, <1>5, <2>1 DEF Worker, WorkerSteps, WorkerOk
<1>7. BoxesOk'
  <2>1. worker.at \in 0 .. Never
    BY <1>1, Numbers DEF Worker, WorkerOk, BoxesOk, Never
  <2>2. tried' \in [Boxes -> 0 .. Never]
    BY <1>1, <1>5, <2>1 DEF BoxesOk
  <2> QED
    BY <1>1, <2>2 DEF BoxesOk, Boxes, Never, SweepNext
<1> QED
  BY <1>1, <1>6, <1>7, WorkerQuiet DEF SweepNext

LEMMA SyncKeeps ==
  ASSUME DemoInv, SyncDone \/ SyncBroken \/ SyncFailed, UNCHANGED <<home, cookie, visit>>
  PROVE  DemoInv' /\ Kept
<1>1. worker \in Worker /\ WorkerOk(worker) /\ OrgsOk /\ BoxesOk /\ now \in Nat /\ 0 <= now
  BY DemoParts
<1>2. worker.box \in Boxes /\ worker.at \in Nat
  BY <1>1 DEF SyncDone, SyncBroken, SyncFailed, WorkerOk, Worker
<1>3. worker' = [worker EXCEPT !.pc = "sweep"] /\ UNCHANGED <<orgs, nextOrg, now, tried>>
  BY DEF SyncDone, SyncBroken, SyncFailed, Go
<1>4. boxes' \in [Boxes -> [status : {"connected", "error", "gone"}, last : 0 .. Never]]
  <2>1. now \in 0 .. Never
    BY <1>1, Numbers DEF BoxesOk, Never
  <2>2. CASE SyncDone
    BY <1>1, <1>2, <2>1, <2>2 DEF SyncDone, BoxesOk
  <2>3. CASE SyncBroken \/ SyncFailed
    BY <1>1, <1>2, <2>3 DEF SyncBroken, SyncFailed, BoxesOk
  <2> QED
    BY <2>2, <2>3
<1>5. retryAfter' \in [Boxes -> Nat]
  <2>1. worker.at + Interval \in Nat
    BY <1>2, Numbers
  <2> QED
    BY <1>1, <1>2, <2>1 DEF SyncDone, SyncBroken, SyncFailed, BoxesOk
<1>6. faults' \in 0 .. MaxFaults
  BY Numbers DEF DemoInv, BoxesOk, SyncDone, SyncBroken, SyncFailed, Fail
<1>7. Boxes' = Boxes /\ BoxesOk'
  BY <1>1, <1>3, <1>4, <1>5, <1>6 DEF BoxesOk, Boxes, Never
<1>8. worker' \in Worker /\ WorkerOk(worker)'
  <2>1. worker.todo \subseteq Boxes
    BY <1>1 DEF SyncDone, SyncBroken, SyncFailed, WorkerOk
  <2> QED
    BY <1>1, <1>3, <1>7, <2>1 DEF Worker, WorkerSteps, WorkerOk
<1> QED
  BY <1>1, <1>3, <1>7, <1>8, WorkerQuiet

LEMMA CustomerKeeps ==
  ASSUME DemoInv, NEW b \in Boxes, Connect(b) \/ Disconnect(b) \/ SyncByHand(b),
         UNCHANGED <<home, cookie, visit>>
  PROVE  DemoInv' /\ Kept
<1>1. worker \in Worker /\ WorkerOk(worker) /\ OrgsOk /\ BoxesOk /\ now \in Nat /\ 0 <= now
  BY DemoParts
<1>2. UNCHANGED <<orgs, nextOrg, worker, now, faults>>
  BY DEF Connect, Disconnect, SyncByHand
<1>3. now \in 0 .. Never /\ Never \in 0 .. Never
  BY <1>1, Numbers DEF BoxesOk, Never
<1>4. CASE Connect(b)
  <2>1. boxes[b] \in [status : {"connected", "error", "gone"}, last : 0 .. Never]
    BY <1>1 DEF BoxesOk
  <2>2. boxes' \in [Boxes -> [status : {"connected", "error", "gone"}, last : 0 .. Never]]
    BY <1>1, <1>3, <1>4, <2>1 DEF Connect, BoxesOk
  <2>3. retryAfter' \in [Boxes -> Nat] /\ tried' \in [Boxes -> 0 .. Never]
    BY <1>1, <1>3, <1>4 DEF Connect, BoxesOk
  <2>4. BoxesOk' /\ Boxes' = Boxes
    BY <1>1, <1>2, <2>2, <2>3 DEF BoxesOk, Boxes, Never
  <2> QED
    BY <1>1, <1>2, <2>4, WorkerQuiet DEF WorkerOk, Expired, Sandboxed, IsSandbox, Gone
<1>5. CASE Disconnect(b) \/ SyncByHand(b)
  <2>1. boxes[b] \in [status : {"connected", "error", "gone"}, last : 0 .. Never]
    BY <1>1 DEF BoxesOk
  <2>2. boxes' \in [Boxes -> [status : {"connected", "error", "gone"}, last : 0 .. Never]]
    BY <1>1, <1>3, <1>5, <2>1 DEF Disconnect, SyncByHand, BoxesOk
  <2>3. BoxesOk' /\ Boxes' = Boxes
    BY <1>1, <1>2, <1>5, <2>2 DEF BoxesOk, Boxes, Never, Disconnect, SyncByHand
  <2> QED
    BY <1>1, <1>2, <2>3, WorkerQuiet DEF WorkerOk, Expired, Sandboxed, IsSandbox, Gone
<1> QED
  BY <1>4, <1>5

LEMMA TickKeeps ==
  ASSUME DemoInv, Tick, UNCHANGED <<home, cookie, visit>>
  PROVE  DemoInv' /\ Kept
<1>1. now \in Nat /\ now' = now + 1 /\ now' \in 0 .. MaxNow /\ OrgsOk /\ BoxesOk
  BY Numbers DEF DemoInv, BoxesOk, Tick
<1>2. PICK w \in Worker : w = worker /\ w = worker' /\ WorkerOk(w)
  BY DEF DemoInv, Tick
<1>3. OrgsKept({}) /\ Boxes' = Boxes /\ now' \in Nat /\ now <= now'
  BY <1>1, NothingKeepsOrgs DEF Tick, Boxes
<1>4. WorkerOk(w)'
  BY <1>1, <1>2, <1>3, WorkerStays, Zenon
<1>5. BoxesOk'
  BY <1>1, <1>3 DEF BoxesOk, Tick, Never
<1> QED
  BY <1>1, <1>2, <1>3, <1>4, <1>5, WorkerQuiet DEF Tick

LEMMA WorkerKeeps ==
  ASSUME DemoInv, WorkerNext, UNCHANGED <<home, cookie, visit>>
  PROVE  DemoInv' /\ Kept
<1>1. CASE WorkerStep
  <2>1. CASE Boot
    BY <2>1, BootKeeps
  <2>2. CASE SeedOwner \/ SeedPopulate
    BY <2>2, SeedKeeps
  <2>3. CASE PassBegin \/ PurgeEnd \/ PassEnd
    BY <2>3, PassKeeps
  <2>4. CASE SweepNext
    BY <2>4, SweepKeeps
  <2>5. CASE \E o \in OrgIds : PurgeOne(o)
    BY <2>5, PurgeOneKeeps
  <2>6. CASE SyncDone \/ SyncFailed \/ SyncBroken
    BY <2>6, SyncKeeps
  <2> QED
    BY <1>1, <2>1, <2>2, <2>3, <2>4, <2>5, <2>6 DEF WorkerStep
<1>2. CASE SeedFails \/ PassRaises
  BY <1>2, PassKeeps
<1>3. CASE Tick
  BY <1>3, TickKeeps
<1>4. CASE \E b \in Boxes : Connect(b) \/ Disconnect(b) \/ SyncByHand(b)
  BY <1>4, CustomerKeeps
<1> QED
  BY <1>1, <1>2, <1>3, <1>4 DEF WorkerNext
----------------------------------------------------------------------------
(* The visitors.                                                           *)

LEMMA VisitIs ==
  ASSUME DemoInv, NEW t \in Tabs
  PROVE  visit[t] \in Visit /\ VisitOk(visit[t]) /\ home[t] \in Browsers
  BY DEF DemoInv, SitesOk

LEMMA FaultsCounted ==
  ASSUME DemoInv, Fail \/ UNCHANGED faults
  PROVE  faults' \in 0 .. MaxFaults
  BY Numbers DEF DemoInv, BoxesOk, Fail

\* A step after which the visit does not hold a place it had not, and no sandbox is new.
LEMMA PlaceLeft ==
  ASSUME DemoInv, NEW t \in Tabs, NEW v \in Visit, visit' = [visit EXCEPT ![t] = v], home' = home,
         v.pc = "provision" => visit[t].pc = "provision", Sandboxes' \subseteq Sandboxes
  PROVE  PlacesOk'
<1>1. Provisioning' \subseteq Provisioning
  BY DEF DemoInv, SitesOk, Provisioning, At, Tabs
<1> QED
  BY <1>1, PlacesStay DEF DemoInv, SitesOk

\* A step of a visit that leaves the sessions alone.
LEMMA VisitOnly ==
  ASSUME DemoInv, NEW t \in Tabs, NEW v \in Visit, NEW W \in SUBSET OrgIds,
         OrgsOk', OrgsKept(W), PlacesOk',
         W = {} \/ (Holds(visit[t]) /\ W = {visit[t].org}),
         visit' = [visit EXCEPT ![t] = v], VisitOk(v)',
         Holds(v) => v.org = nextOrg \/ (Holds(visit[t]) /\ v.org = visit[t].org),
         Fail \/ UNCHANGED faults,
         UNCHANGED <<boxes, worker, retryAfter, now, tried, home, cookie>>
  PROVE  DemoInv'
<1>1. PICK K \in [Browsers -> Cookie] : K = cookie /\ cookie' = K
  BY DEF DemoInv, SitesOk
<1>2. /\ \A b \in Browsers : K[b] # cookie[b] => CookieOk(K[b])'
      /\ \A b \in Browsers : K[b] = cookie[b]
  BY <1>1
<1>3. faults' \in 0 .. MaxFaults
  BY FaultsCounted
<1> QED
  BY <1>1, <1>2, <1>3, VisitMoves

\* One that begins no workspace either.
LEMMA VisitGoes ==
  ASSUME DemoInv, NEW t \in Tabs, NEW v \in Visit, NEW W \in SUBSET OrgIds,
         OrgsOk', OrgsKept(W), Sandboxes' \subseteq Sandboxes,
         W = {} \/ (Holds(visit[t]) /\ W = {visit[t].org}),
         visit' = [visit EXCEPT ![t] = v], VisitOk(v)',
         v.pc = "provision" => visit[t].pc = "provision",
         Holds(v) => Holds(visit[t]) /\ v.org = visit[t].org,
         Fail \/ UNCHANGED faults,
         UNCHANGED <<boxes, worker, retryAfter, now, tried, home, cookie>>
  PROVE  DemoInv'
<1>1. PlacesOk'
  BY PlaceLeft
<1> QED
  BY <1>1, VisitOnly

LEMMA IdleIs == Idle \in Visit /\ (\A v : v = Idle => VisitOk(v)' /\ ~Holds(v) /\ v.pc # "provision")
  BY DEF Idle, Visit, VisitOk, Holds

\* The visit ends and nothing else is touched.
LEMMA ReplyKeeps ==
  ASSUME DemoInv, NEW t \in Tabs, Reply(t), UNCHANGED <<orgs, nextOrg>>, Fail \/ UNCHANGED faults,
         UNCHANGED <<boxes, worker, retryAfter, now, tried, home, cookie>>
  PROVE  DemoInv' /\ Kept
<1>1. OrgsOk' /\ OrgsKept({}) /\ Sandboxes' \subseteq Sandboxes /\ NoneGoes
  BY NothingKeepsOrgs DEF DemoInv
<1>2. PICK v \in Visit : v = Idle /\ visit' = [visit EXCEPT ![t] = v]
  BY IdleIs DEF Reply
<1>3. VisitOk(v)' /\ ~Holds(v) /\ v.pc # "provision"
  BY <1>2, IdleIs
<1>4. DemoInv'
  BY <1>1, <1>2, <1>3, VisitGoes
<1> QED
  BY <1>1, <1>4 DEF Kept, NoneGoes, Gone

LEMMA OpenDemoKeeps ==
  ASSUME DemoInv, NEW t \in Tabs, OpenDemo(t)
  PROVE  DemoInv' /\ Kept
<1>1. OrgsOk' /\ OrgsKept({}) /\ Sandboxes' \subseteq Sandboxes /\ NoneGoes
  BY NothingKeepsOrgs DEF DemoInv, OpenDemo, others
<1>2. now \in Nat /\ now' = now /\ OrgsOk
  BY DemoParts DEF OpenDemo, others
<1>3. PICK E \in SUBSET OrgIds : E = expired_sandbox_ids(now) /\ \A o \in E : Expired(o)
  BY <1>2, ExpiredIs
<1>4. PICK n \in Nat : n = now + Lifetime /\ n # 0
  BY <1>2, Numbers
<1>5. PICK v \in Visit : v = [pc |-> "purge", org |-> 0, exp |-> n, todo |-> E]
                         /\ visit' = [visit EXCEPT ![t] = v]
  BY <1>3, <1>4 DEF OpenDemo, Visit
<1>6. \A o \in E : Expired(o)'
  BY <1>1, <1>2, <1>3, ExpiredStays
<1>7. VisitOk(v)' /\ ~Holds(v) /\ v.pc # "provision"
  BY <1>4, <1>5, <1>6 DEF VisitOk, Holds
<1>8. DemoInv'
  BY <1>1, <1>5, <1>7, VisitGoes DEF OpenDemo, others
<1> QED
  BY <1>1, <1>8 DEF Kept, NoneGoes, Gone

LEMMA PurgeFirstKeeps ==
  ASSUME DemoInv, NEW t \in Tabs, NEW o \in OrgIds, PurgeFirst(t, o)
  PROVE  DemoInv' /\ Kept
<1>1. now \in Nat /\ now' = now /\ OrgsOk
  BY DemoParts DEF PurgeFirst, others
<1>2. PICK x \in Visit : x = visit[t] /\ VisitOk(x) /\ x.pc = "purge" /\ o \in x.todo
  BY VisitIs DEF PurgeFirst, At
<1>3. Expired(o)
  BY <1>2 DEF VisitOk
<1>4. OrgsOk' /\ OrgsKept({}) /\ Sandboxes' \subseteq Sandboxes /\ Kept
  BY <1>1, <1>3, PurgeKeeps DEF PurgeFirst, others
<1>5. VisitOk(x)'
  BY <1>1, <1>2, <1>4, VisitStays
<1>6. PICK v \in Visit : v = [x EXCEPT !.todo = @ \ {o}] /\ visit' = [visit EXCEPT ![t] = v]
  BY <1>2 DEF PurgeFirst, Visit
<1>7. VisitOk(v)' /\ ~Holds(v) /\ v.pc # "provision"
  BY <1>2, <1>5, <1>6 DEF VisitOk, Holds, Visit
<1>8. Fail \/ UNCHANGED faults
  BY DEF PurgeFirst
<1>9. DemoInv'
  BY <1>4, <1>6, <1>7, <1>8, VisitGoes DEF PurgeFirst, others
<1> QED
  BY <1>4, <1>9

\* Who may go on has a place: the others that wait to insert are fewer than the tabs.
LEMMA CheckCapacityKeeps ==
  ASSUME DemoInv, NEW t \in Tabs, CheckCapacity(t)
  PROVE  DemoInv' /\ Kept
<1>1. OrgsOk' /\ OrgsKept({}) /\ Sandboxes' = Sandboxes /\ NoneGoes
  BY NothingKeepsOrgs DEF DemoInv, CheckCapacity, others
<1>2. CASE count_sandboxes >= MaxLive
  <2>1. Reply(t)
    BY <1>2 DEF CheckCapacity
  <2> QED
    BY <2>1, ReplyKeeps DEF CheckCapacity, others
<1>3. CASE ~(count_sandboxes >= MaxLive)
  <2>1. PICK x \in Visit : x = visit[t] /\ VisitOk(x) /\ x.pc = "purge"
    BY VisitIs DEF CheckCapacity, At
  <2>2. PICK v \in Visit : v = [x EXCEPT !.pc = "provision"] /\ visit' = [visit EXCEPT ![t] = v]
    BY <1>3, <2>1 DEF CheckCapacity, Goto, Visit
  <2>3. VisitOk(v)' /\ ~Holds(v)
    BY <2>1, <2>2 DEF VisitOk, Holds, Visit
  <2>4. PlacesOk'
    <3>1. Tabs \subseteq Windows /\ Tabs' = Tabs
      BY DEF DemoInv, SitesOk, CheckCapacity, others, Tabs
    <3>2. IsFiniteSet(Tabs) /\ Cardinality(Tabs) \in Nat /\ Cardinality(Sandboxes) \in Nat
      BY <3>1, FiniteSets
    <3>3. Provisioning' \subseteq Tabs
      BY <3>1 DEF Provisioning
    <3>4. Cardinality(Provisioning') \in Nat /\ Cardinality(Provisioning') <= Cardinality(Tabs)
      BY <3>2, <3>3, FS_Subset, FS_CardinalityType
    <3>5. Cardinality(Sandboxes) < MaxLive
      BY <1>3, <3>2, Numbers DEF count_sandboxes, Sandboxes
    <3> QED
      BY <1>1, <3>1, <3>2, <3>4, <3>5, Numbers DEF PlacesOk
  <2>5. DemoInv'
    BY <1>1, <2>2, <2>3, <2>4, VisitOnly DEF CheckCapacity, others
  <2> QED
    BY <1>1, <2>5 DEF Kept, NoneGoes, Gone
<1> QED
  BY <1>2, <1>3

\* The new workspace takes the place its visit held.
LEMMA ProvisionKeeps ==
  ASSUME DemoInv, NEW t \in Tabs, Provision(t)
  PROVE  DemoInv' /\ Kept
<1>1. PICK x \in Visit : x = visit[t] /\ VisitOk(x) /\ x.pc = "provision" /\ x.exp \in Nat /\ x.exp # 0
  BY VisitIs DEF Provision, At, VisitOk, Visit
<1>2. OrgsOk /\ InsertOrg(x.exp)
  BY <1>1, DemoParts DEF Provision
<1>3. /\ OrgsOk' /\ OrgsKept({}) /\ nextOrg \in OrgIds /\ nextOrg' = nextOrg + 1 /\ NoneGoes
      /\ orgs'[nextOrg] # NoOrg /\ orgs'[nextOrg].exp = x.exp
      /\ Sandboxes' \subseteq Sandboxes \union {nextOrg}
  BY <1>1, <1>2, InsertKeeps DEF NoDeadline
<1>4. PICK n \in OrgIds : n = nextOrg
  BY <1>3
<1>5. Sandboxed(n)'
  <2>1. n < nextOrg'
    BY <1>3, <1>4, Numbers
  <2>2. IsSandbox(n)'
    BY <1>1, <1>3, <1>4 DEF IsSandbox, Gone, NoDeadline
  <2> QED
    BY <1>4, <2>1, <2>2 DEF Sandboxed
<1>6. PICK v \in Visit : v = [x EXCEPT !.pc = "owner", !.org = n] /\ visit' = [visit EXCEPT ![t] = v]
  <2>1. [x EXCEPT !.pc = "owner", !.org = n] \in Visit
    BY DEF Visit
  <2>2. visit' = [visit EXCEPT ![t] = [x EXCEPT !.pc = "owner", !.org = n]]
    BY <1>1, <1>4 DEF Provision, DemoInv, SitesOk
  <2> QED
    BY <2>1, <2>2
<1>7. VisitOk(v)' /\ v.org = nextOrg
  BY <1>1, <1>4, <1>5, <1>6 DEF VisitOk, Holds, Visit
<1>8. PlacesOk'
  <2>1. Tabs \subseteq Windows /\ Tabs' = Tabs
    BY DEF DemoInv, SitesOk, Provision, Tabs
  <2>2. /\ IsFiniteSet(Sandboxes) /\ Cardinality(Sandboxes) \in Nat /\ Cardinality(Tabs) \in Nat
        /\ IsFiniteSet(Provisioning) /\ Cardinality(Provisioning) \in Nat
    BY <2>1, FiniteSets
  <2>3. t \in Provisioning /\ Provisioning' = Provisioning \ {t}
    BY <1>1, <1>6, <2>1 DEF Provisioning, At, DemoInv, SitesOk, Visit
  <2>4. Cardinality(Provisioning') = Cardinality(Provisioning) - 1
    BY <2>2, <2>3, FS_RemoveElement
  <2>5. /\ IsFiniteSet(Sandboxes \union {nextOrg})
        /\ Cardinality(Sandboxes \union {nextOrg}) \in {Cardinality(Sandboxes), Cardinality(Sandboxes) + 1}
    BY <2>2, FS_AddElement
  <2>6. /\ Cardinality(Sandboxes') \in Nat
        /\ Cardinality(Sandboxes') <= Cardinality(Sandboxes \union {nextOrg})
    BY <1>3, <2>5, FS_Subset, FS_CardinalityType
  <2>7. Cardinality(Sandboxes') <= Cardinality(Sandboxes) + 1
    BY <2>2, <2>5, <2>6
  <2> QED
    BY <2>1, <2>2, <2>4, <2>6, <2>7, Numbers DEF PlacesOk, DemoInv
<1>9. DemoInv'
  BY <1>3, <1>6, <1>7, <1>8, VisitOnly DEF Provision
<1> QED
  BY <1>3, <1>9 DEF Kept, NoneGoes, Gone
\* A visit that holds a workspace: what it was before the step and after it.
LEMMA VisitHolds ==
  ASSUME DemoInv, NEW t \in Tabs, Holds(visit[t])
  PROVE  /\ visit[t].org \in OrgIds /\ Sandboxed(visit[t].org)
         /\ Gone(visit[t].org) \/ IsSandbox(visit[t].org)
  BY VisitIs DEF VisitOk, Sandboxed

\* A stage of the build is reached, or the workspace is found gone.
LEMMA StageVisit ==
  ASSUME DemoInv, NEW t \in Tabs, visit[t].pc \in {"owner", "populate"},
         ~Gone(visit[t].org), NEW s \in Stages, orgs' = [orgs EXCEPT ![visit[t].org].stage = s],
         NEW pc \in {"populate", "session"}, Goto(t, pc), pc = "session" => s = "built",
         UNCHANGED <<others, faults, cookie>>
  PROVE  DemoInv' /\ Kept
<1>1. PICK x \in Visit : x = visit[t] /\ VisitOk(x) /\ Holds(x) /\ x.pc # "idle"
  BY VisitIs DEF Holds
<1>2. x.org \in OrgIds /\ OrgsOk /\ now \in Nat /\ now' = now /\ nextOrg' = nextOrg
  BY <1>1, VisitHolds, DemoParts DEF others
<1>3. /\ OrgsOk' /\ OrgsKept({x.org}) /\ Sandboxes' = Sandboxes /\ NoneGoes
      /\ ~Gone(x.org)' /\ orgs'[x.org].stage = s
  BY <1>1, <1>2, StageKeeps
<1>4. VisitOk(x)'
  <2>1. x.pc # "session"
    BY <1>1
  <2> QED
    BY <1>1, <1>2, <1>3, <2>1, VisitStays
<1>5. PICK v \in Visit : v = [x EXCEPT !.pc = pc] /\ visit' = [visit EXCEPT ![t] = v]
  BY <1>1 DEF Goto, Visit
<1>6. v.pc = pc /\ v.org = x.org /\ v.exp = x.exp /\ Holds(v)
  BY <1>5 DEF Visit, Holds
<1>7. VisitOk(v)'
  <2>1. Sandboxed(x.org)' /\ x.exp # 0
    BY <1>1, <1>4 DEF VisitOk, Holds
  <2>2. pc = "session" => Whole(x.org)'
    BY <1>3 DEF Whole
  <2> QED
    BY <1>6, <2>1, <2>2 DEF VisitOk, Holds
<1>8. {x.org} \in SUBSET OrgIds /\ v.pc # "provision"
  BY <1>2, <1>6
<1>9. DemoInv'
  BY <1>1, <1>3, <1>5, <1>6, <1>7, <1>8, VisitGoes DEF others
<1> QED
  BY <1>3, <1>9 DEF Kept, NoneGoes, Gone

\* The build breaks off: what there is will be removed.
LEMMA BuildBreaks ==
  ASSUME DemoInv, NEW t \in Tabs, At(t, "populate"), Goto(t, "remove"), UNCHANGED orgs,
         Fail \/ UNCHANGED faults, UNCHANGED <<others, cookie>>
  PROVE  DemoInv' /\ Kept
<1>1. OrgsOk' /\ OrgsKept({}) /\ Sandboxes' \subseteq Sandboxes /\ NoneGoes
  BY NothingKeepsOrgs DEF DemoInv, others
<1>2. PICK x \in Visit : x = visit[t] /\ VisitOk(x) /\ x.pc = "populate"
  BY VisitIs DEF At
<1>3. VisitOk(x)'
  <2>1. now \in Nat /\ now' = now /\ OrgsOk
    BY DemoParts DEF others
  <2> QED
    BY <1>1, <1>2, <2>1, VisitStays
<1>4. PICK v \in Visit : v = [x EXCEPT !.pc = "remove"] /\ visit' = [visit EXCEPT ![t] = v]
  BY <1>2 DEF Goto, Visit
<1>5. VisitOk(v)' /\ v.pc # "provision" /\ v.org = x.org /\ Holds(x)
  BY <1>2, <1>3, <1>4 DEF VisitOk, Holds, Visit
<1>6. DemoInv'
  BY <1>1, <1>2, <1>4, <1>5, VisitGoes DEF others
<1> QED
  BY <1>1, <1>6 DEF Kept, NoneGoes, Gone

LEMMA BuildKeeps ==
  ASSUME DemoInv, NEW t \in Tabs,
         ProvisionOwner(t) \/ ProvisionFails(t) \/ Populate(t) \/ PopulateFails(t)
  PROVE  DemoInv' /\ Kept
<1>1. CASE ProvisionOwner(t)
  <2>1. CASE Gone(visit[t].org)
    BY <1>1, <2>1, ReplyKeeps DEF ProvisionOwner, others
  <2>2. CASE ~Gone(visit[t].org)
    BY <1>1, <2>2, StageVisit DEF ProvisionOwner, At, Stages
  <2> QED
    BY <2>1, <2>2
<1>2. CASE ProvisionFails(t)
  BY <1>2, ReplyKeeps DEF ProvisionFails, others
<1>3. CASE Populate(t)
  <2>1. CASE Gone(visit[t].org)
    BY <1>3, <2>1, BuildBreaks DEF Populate
  <2>2. CASE ~Gone(visit[t].org)
    BY <1>3, <2>2, StageVisit DEF Populate, At, Stages
  <2> QED
    BY <2>1, <2>2
<1>4. CASE PopulateFails(t)
  BY <1>4, BuildBreaks DEF PopulateFails
<1> QED
  BY <1>1, <1>2, <1>3, <1>4

LEMMA RemoveKeeps ==
  ASSUME DemoInv, NEW t \in Tabs, RemoveHalfBuilt(t)
  PROVE  DemoInv' /\ Kept
<1>1. PICK o \in OrgIds : o = visit[t].org /\ (Gone(o) \/ IsSandbox(o))
  BY VisitHolds DEF RemoveHalfBuilt, At, Holds
<1>2. CASE DeleteOrg(o) /\ UNCHANGED faults
  <2>1. /\ OrgsOk' /\ OrgsKept({}) /\ Sandboxes' \subseteq Sandboxes
        /\ \A p \in OrgIds : ~Gone(p) /\ Gone(p)' => p = o
    BY <1>1, <1>2, DeleteKeeps, DemoParts DEF RemoveHalfBuilt, others
  <2>2. PICK v \in Visit : v = Idle /\ visit' = [visit EXCEPT ![t] = v]
    BY IdleIs DEF RemoveHalfBuilt, Reply
  <2>3. VisitOk(v)' /\ ~Holds(v) /\ v.pc # "provision"
    BY <2>2, IdleIs
  <2>4. DemoInv'
    BY <1>2, <2>1, <2>2, <2>3, VisitGoes DEF RemoveHalfBuilt, others
  <2>5. Kept
    BY <1>1, <2>1 DEF Kept, RemoveHalfBuilt, Gone
  <2> QED
    BY <2>4, <2>5
<1>3. CASE Fail /\ UNCHANGED orgs
  BY <1>3, ReplyKeeps DEF RemoveHalfBuilt, others
<1> QED
  BY <1>1, <1>2, <1>3 DEF RemoveHalfBuilt

LEMMA OpenSessionKeeps ==
  ASSUME DemoInv, NEW t \in Tabs, OpenSession(t)
  PROVE  DemoInv' /\ Kept
<1>1. /\ OrgsOk' /\ OrgsKept({}) /\ Sandboxes' \subseteq Sandboxes /\ NoneGoes
      /\ OrgsOk /\ now \in Nat /\ now' = now
  BY NothingKeepsOrgs, DemoParts DEF DemoInv, OpenSession, others
<1>2. PICK x \in Visit : x = visit[t] /\ VisitOk(x) /\ x.pc = "session" /\ Holds(x)
  BY VisitIs DEF OpenSession, At, Holds
<1>3. VisitOk(x)'
  BY <1>1, <1>2, VisitStays
<1>4. PICK k \in Cookie : k = [org |-> x.org, exp |-> now + Lifetime]
  <2>1. now + Lifetime \in Nat /\ x.org \in OrgIds \union {0}
    BY <1>1, <1>2, Numbers DEF Visit
  <2>2. [org |-> x.org, exp |-> now + Lifetime] \in Cookie
    BY <2>1 DEF Cookie
  <2> QED
    BY <2>2
<1>5. CookieOk(k)'
  BY <1>2, <1>3, <1>4 DEF CookieOk, VisitOk, Holds
<1>6. PICK K \in [Browsers -> Cookie] : cookie' = K /\ K = [cookie EXCEPT ![home[t]] = k]
  BY <1>2, <1>4 DEF DemoInv, SitesOk, OpenSession
<1>7. \A b \in Browsers : K[b] = cookie[b] \/ K[b] = k
  BY <1>6 DEF DemoInv, SitesOk
<1>8. \A b \in Browsers : K[b] # cookie[b] => CookieOk(K[b])'
  <2>1. ASSUME NEW b \in Browsers, K[b] # cookie[b] PROVE CookieOk(K[b])'
    <3>1. K[b] = k
      BY <1>7, <2>1
    <3> QED
      BY <1>5, <3>1
  <2> QED
    BY <2>1
<1>9. PICK v \in Visit : v = Idle /\ visit' = [visit EXCEPT ![t] = v]
  BY IdleIs DEF OpenSession, Reply
<1>10. VisitOk(v)' /\ ~Holds(v) /\ v.pc # "provision"
  BY <1>9, IdleIs
<1>11. PlacesOk'
  BY <1>1, <1>9, <1>10, PlaceLeft DEF OpenSession, others
<1>12. \A b \in Browsers : \/ K[b] = cookie[b]
                          \/ K[b].org = 0
                          \/ (Holds(visit[t]) /\ ~Holds(v) /\ K[b].org = visit[t].org)
  BY <1>2, <1>4, <1>7, <1>10
<1>13. faults' \in 0 .. MaxFaults
  BY FaultsCounted DEF OpenSession
<1>14. {} \in SUBSET OrgIds
  OBVIOUS
<1>15. DemoInv'
  BY <1>1, <1>6, <1>8, <1>9, <1>10, <1>11, <1>12, <1>13, <1>14, VisitMoves DEF OpenSession, others
<1> QED
  BY <1>1, <1>15 DEF Kept, NoneGoes, Gone

LEMMA LogoutKeeps ==
  ASSUME DemoInv, NEW t \in Tabs, Logout(t)
  PROVE  DemoInv' /\ Kept
<1>1. PICK o : o = Jar(t).org /\ o # 0 /\ ~Gone(o) /\ home[t] \in Browsers
  BY VisitIs DEF Logout, SignedIn
<1>2. o \in OrgIds /\ IsSandbox(o)
  <2>1. CookieOk(cookie[home[t]])
    BY <1>1 DEF DemoInv, SitesOk
  <2> QED
    BY <1>1, <2>1 DEF CookieOk, Sandboxed, Jar
<1>3. /\ OrgsOk' /\ OrgsKept({}) /\ Sandboxes' \subseteq Sandboxes
      /\ \A p \in OrgIds : ~Gone(p) /\ Gone(p)' => p = o
  BY <1>1, <1>2, DeleteKeeps, DemoParts DEF Logout, others
<1>4. PICK k \in Cookie : k = NoCookie /\ k.org = 0
  <2>1. NoCookie \in Cookie /\ NoCookie.org = 0
    BY DEF NoCookie, Cookie
  <2> QED
    BY <2>1
<1>5. PICK K \in [Browsers -> Cookie] : cookie' = K /\ K = [cookie EXCEPT ![home[t]] = k]
  BY <1>4 DEF DemoInv, SitesOk, Logout
<1>6. \A b \in Browsers : K[b] = cookie[b] \/ K[b] = k
  BY <1>4, <1>5 DEF DemoInv, SitesOk
<1>7. /\ \A b \in Browsers : K[b] # cookie[b] => CookieOk(K[b])'
      /\ \A b \in Browsers : K[b] = cookie[b] \/ K[b].org = 0
  BY <1>4, <1>6 DEF CookieOk
<1>8. PICK v \in Visit : v = visit[t] /\ VisitOk(v) /\ v.pc = "idle"
  BY VisitIs DEF Logout, At
<1>9. visit' = [visit EXCEPT ![t] = v]
  BY <1>8 DEF DemoInv, SitesOk, Logout
<1>10. VisitOk(v)' /\ ~Holds(v) /\ v.pc # "provision"
  BY <1>8 DEF VisitOk, Holds
<1>11. PlacesOk'
  BY <1>3, <1>9, <1>10, PlaceLeft DEF Logout, others
<1>12. faults' \in 0 .. MaxFaults /\ {} \in SUBSET OrgIds
  BY FaultsCounted DEF Logout
<1>13. DemoInv'
  <2>1. \A b \in Browsers : \/ K[b] = cookie[b]
                           \/ K[b].org = 0
                           \/ (Holds(visit[t]) /\ ~Holds(v) /\ K[b].org = visit[t].org)
    BY <1>7
  <2>2. UNCHANGED <<boxes, worker, retryAfter, now, tried, home>>
    BY DEF Logout, others
  <2>3. OrgsOk' /\ OrgsKept({}) /\ PlacesOk' /\ VisitOk(v)' /\ ~Holds(v)
    BY <1>3, <1>10, <1>11
  <2> QED
    BY <1>5, <1>7, <1>9, <1>12, <2>1, <2>2, <2>3, VisitMoves
<1>14. Kept
  BY <1>1, <1>2, <1>3 DEF Kept, Logout, Gone
<1> QED
  BY <1>13, <1>14

----------------------------------------------------------------------------
(* The whole.                                                              *)

\* The process ends with every visit; rows and sessions stay.
LEMMA CrashKeeps ==
  ASSUME DemoInv, Crash
  PROVE  DemoInv' /\ Kept
<1>1. OrgsOk' /\ OrgsKept({}) /\ Sandboxes' = Sandboxes /\ NoneGoes
  BY NothingKeepsOrgs DEF DemoInv, Crash, ProcessEnds
<1>2. OrgsOk /\ now \in Nat /\ 0 <= now /\ now' = now /\ Boxes' = Boxes /\ Tabs' = Tabs
  BY DemoParts DEF Crash, ProcessEnds, Boxes, Tabs
<1>3. worker' \in Worker /\ WorkerOk(worker)'
  BY <1>2 DEF Crash, ProcessEnds, Down, Worker, WorkerSteps, WorkerOk
<1>4. BoxesOk'
  <2>1. faults' \in 0 .. MaxFaults
    BY FaultsCounted DEF Crash, ProcessEnds
  <2>2. Never \in 0 .. Never
    BY Numbers DEF Never
  <2>3. retryAfter' \in [Boxes -> Nat] /\ tried' \in [Boxes -> 0 .. Never]
    BY <2>2 DEF Crash, ProcessEnds
  <2> QED
    BY <1>2, <2>1, <2>3 DEF DemoInv, BoxesOk, Never, Crash, ProcessEnds
<1>5. \A t \in Tabs : visit'[t] = Idle
  BY DEF Crash
<1>6. SitesOk'
  <2>1. visit' \in [Tabs -> Visit]
    BY IdleIs DEF Crash
  <2>2. \A t \in Tabs : VisitOk(visit[t])'
    BY <1>5, IdleIs
  <2>3. ASSUME NEW b \in Browsers PROVE CookieOk(cookie[b])'
    <3>1. PICK k \in Cookie : k = cookie[b] /\ k = cookie'[b] /\ CookieOk(k)
      BY DEF DemoInv, SitesOk, Crash
    <3>2. CookieOk(k)'
      BY <1>1, <1>2, <3>1, CookieStays
    <3> QED
      BY <3>1, <3>2
  <2> QED
    BY <1>2, <2>1, <2>2, <2>3 DEF DemoInv, SitesOk, Crash
<1>7. OwnOk'
  BY <1>2, <1>5 DEF OwnOk, Holds, Idle
<1>8. PlacesOk'
  <2>1. Provisioning' \subseteq Provisioning
    BY <1>2, <1>5 DEF Provisioning, At, Idle
  <2> QED
    BY <1>1, <2>1, PlacesStay DEF DemoInv, SitesOk, Crash
<1> QED
  BY <1>1, <1>3, <1>4, <1>6, <1>7, <1>8 DEF DemoInv, Kept, NoneGoes, Gone

LEMMA DemoStart == Init => DemoInv
<1> SUFFICES ASSUME Init PROVE DemoInv
  OBVIOUS
<1>1. OrgsOk
  BY Numbers DEF Init, WorkerInit, OrgsOk, Orgs, Gone, OrgIds
<1>2. worker \in Worker /\ WorkerOk(worker)
  BY DEF Init, WorkerInit, Down, Worker, WorkerSteps, WorkerOk
<1>3. BoxesOk
  <2>1. PICK n \in 0 .. NBoxes : boxes = [b \in 1 .. n |-> [status |-> "connected", last |-> Never]]
    BY DEF Init, WorkerInit
  <2>2. Never \in 0 .. Never /\ 0 \in 0 .. MaxNow /\ 0 \in 0 .. MaxFaults /\ 1 .. n \subseteq 1 .. NBoxes
    BY Numbers DEF Never
  <2>3. Boxes = 1 .. n
    BY <2>1 DEF Boxes
  <2> QED
    BY <2>1, <2>2, <2>3 DEF Init, WorkerInit, BoxesOk
<1>4. SitesOk
  <2>1. PICK T \in SUBSET Windows : home \in [T -> Browsers]
    BY DEF Init
  <2>2. Tabs = T
    BY <2>1 DEF Tabs
  <2>3. cookie \in [Browsers -> Cookie] /\ \A b \in Browsers : CookieOk(cookie[b])
    BY DEF Init, NoCookie, Cookie, CookieOk
  <2>4. visit \in [Tabs -> Visit] /\ \A t \in Tabs : VisitOk(visit[t])
    BY DEF Init, Idle, Visit, VisitOk, Holds
  <2> QED
    BY <2>1, <2>2, <2>3, <2>4 DEF SitesOk
<1>5. OwnOk
  BY DEF Init, OwnOk, Holds, Idle
<1>6. PlacesOk
  <2>1. Sandboxes = {} /\ Provisioning = {}
    BY DEF Init, WorkerInit, Sandboxes, IsSandbox, Gone, Provisioning, At, Idle
  <2>2. Cardinality(Sandboxes) = 0 /\ Cardinality(Provisioning) = 0
    BY <2>1, FS_EmptySet
  <2>3. Cardinality(Tabs) \in Nat
    BY <1>4, FiniteSets DEF SitesOk
  <2> QED
    BY <2>2, <2>3, Numbers DEF PlacesOk
<1> QED
  BY <1>1, <1>2, <1>3, <1>4, <1>5, <1>6 DEF DemoInv

LEMMA DemoStep == DemoInv /\ Next => DemoInv' /\ Kept
<1> SUFFICES ASSUME DemoInv, Next PROVE DemoInv' /\ Kept
  OBVIOUS
<1>1. CASE WorkerNext /\ UNCHANGED <<home, cookie, visit>>
  BY <1>1, WorkerKeeps
<1>2. CASE Crash
  BY <1>2, CrashKeeps
<1>3. ASSUME NEW t \in Tabs, OpenDemo(t) \/ VisitStep(t) \/ Logout(t)
      PROVE  DemoInv' /\ Kept
  <2>1. CASE OpenDemo(t)
    BY <2>1, OpenDemoKeeps
  <2>2. CASE Logout(t)
    BY <2>2, LogoutKeeps
  <2>3. CASE \E o \in OrgIds : PurgeFirst(t, o)
    BY <2>3, PurgeFirstKeeps
  <2>4. CASE CheckCapacity(t)
    BY <2>4, CheckCapacityKeeps
  <2>5. CASE Provision(t)
    BY <2>5, ProvisionKeeps
  <2>6. CASE ProvisionOwner(t) \/ ProvisionFails(t) \/ Populate(t) \/ PopulateFails(t)
    BY <2>6, BuildKeeps
  <2>7. CASE RemoveHalfBuilt(t)
    BY <2>7, RemoveKeeps
  <2>8. CASE OpenSession(t)
    BY <2>8, OpenSessionKeeps
  <2> QED
    BY <1>3, <2>1, <2>2, <2>3, <2>4, <2>5, <2>6, <2>7, <2>8 DEF VisitStep
<1> QED
  BY <1>1, <1>2, <1>3 DEF Next

LEMMA DemoStutter == DemoInv /\ UNCHANGED vars => DemoInv' /\ Kept
<1> SUFFICES ASSUME DemoInv, UNCHANGED vars PROVE DemoInv' /\ Kept
  OBVIOUS
<1>1. worker' \in Worker /\ WorkerOk(worker)' /\ BoxesOk'
  BY DEF DemoInv, vars, WorkerOk, Expired, Sandboxed, IsSandbox, Gone, BoxesOk, Boxes, Never
<1>2. now <= now'
  BY DemoParts DEF vars
<1> QED
  BY <1>1, <1>2, WorkerQuiet DEF vars

\* Whatever visits, purges, failed builds and restarts overlap: ids are given once,
\* who purges has seen the deadline pass, and no workspace is built by two visits or
\* built and visited at once (create_sandbox, purge_expired, run_forever).
THEOREM DemoSafe == Spec => []DemoInv
<1>1. DemoInv /\ [Next]_vars => DemoInv'
  BY DemoStep, DemoStutter
<1> QED
  BY <1>1, DemoStart, PTL DEF Spec

\* A workspace disappears only after its deadline, when its visitor leaves or when its
\* own build failed, and a customer's or the shared demo never (sandbox.py:106-135).
THEOREM SandboxesKept == Spec => KeptUntilDeadline
<1>1. DemoInv /\ [Next]_vars => [Kept]_vars
  BY DemoStep
<1> QED
  BY <1>1, DemoSafe, PTL DEF Spec, KeptUntilDeadline, Kept

\* The sandboxes pass the capacity by fewer than there are tabs, and who is signed in
\* sees a whole workspace (create_sandbox, open_demo, _current_user).
THEOREM SandboxesSafe == Spec => []SandboxesHold
<1>1. ASSUME DemoInv PROVE TypeOK
  <2>1. WorkerTypeOK
    BY <1>1 DEF DemoInv, OrgsOk, Orgs, BoxesOk, Worker, WorkerSteps, WorkerOk, WorkerTypeOK
  <2>2. \A b \in Browsers : cookie[b].org \in OrgIds \union {0} /\ cookie[b].exp \in Nat
    BY <1>1 DEF DemoInv, SitesOk, Cookie
  <2>3. \A t \in Tabs : visit[t].org \in OrgIds \union {0} /\ visit[t].todo \subseteq OrgIds
    BY <1>1, VisitIs DEF Visit
  <2> QED
    BY <1>1, <2>1, <2>2, <2>3 DEF DemoInv, SitesOk, TypeOK
<1>2. ASSUME DemoInv PROVE CapacityBound
  <2>1. /\ Cardinality(Sandboxes) \in Nat /\ Cardinality(Provisioning) \in Nat
        /\ Cardinality(Tabs) \in Nat
    BY <1>2, FiniteSets DEF DemoInv, SitesOk
  <2>2. count_sandboxes = Cardinality(Sandboxes)
    BY DEF count_sandboxes, Sandboxes
  <2> QED
    BY <1>2, <2>1, <2>2, Numbers DEF DemoInv, PlacesOk, CapacityBound
<1>3. ASSUME DemoInv PROVE OnlyBuiltIsReached
  <2>1. ASSUME NEW t \in Tabs, SignedIn(t) PROVE orgs[Jar(t).org].stage = "built"
    <3>1. CookieOk(cookie[home[t]])
      BY <1>3, VisitIs DEF DemoInv, SitesOk
    <3> QED
      BY <2>1, <3>1 DEF SignedIn, Jar, CookieOk, Whole
  <2> QED
    BY <2>1 DEF OnlyBuiltIsReached
<1>4. DemoInv => SandboxesHold
  BY <1>1, <1>2, <1>3 DEF SandboxesHold
<1> QED
  BY <1>4, DemoSafe, PTL
----------------------------------------------------------------------------
(* Pacing: a mailbox the worker tried waits an interval, by its row or by  *)
(* the worker's memory, unless the worker no longer syncs it.              *)

\* The pass that syncs a mailbox is the one it was last tried in.
SyncingOk ==
  worker.pc = "syncing" =>
    /\ worker.box \in Boxes /\ worker.box \notin worker.todo
    /\ tried[worker.box] \in {worker.at, Never}

Paces(b) ==
  \/ worker.pc = "syncing" /\ worker.box = b
  \/ boxes[b].last # Never /\ tried[b] <= boxes[b].last
  \/ tried[b] + Interval <= retryAfter[b]
  \/ boxes[b].status # "connected" /\ (worker.pc = "sweep" \/ worker.pc = "syncing" => b \notin worker.todo)

PaceOk ==
  /\ SyncingOk
  /\ \A b \in Boxes : tried[b] # Never => tried[b] <= now /\ Paces(b)

\* The step of Paced.
PaceStep ==
  worker.pc = "sweep" /\ worker'.pc = "syncing" =>
    LET b == worker'.box IN tried[b] # Never => worker.at >= tried[b] + Interval

LEMMA MailboxIs ==
  ASSUME DemoInv
  PROVE  /\ now \in Nat /\ now # Never /\ Never \in Nat /\ Interval \in Nat
         /\ worker.at \in Nat /\ worker.at <= now
         /\ \A b \in Boxes : tried[b] \in Nat /\ retryAfter[b] \in Nat /\ boxes[b].last \in Nat
         /\ boxes \in [Boxes -> [status : {"connected", "error", "gone"}, last : 0 .. Never]]
         /\ retryAfter \in [Boxes -> Nat] /\ tried \in [Boxes -> 0 .. Never]
<1>1. BoxesOk /\ Never \in Nat /\ Interval \in Nat
  BY Numbers DEF DemoInv, Never
<1>2. now \in Nat /\ now # Never
  BY <1>1, Numbers DEF BoxesOk, Never
<1>3. worker.at \in Nat /\ worker.at <= now
  BY DEF DemoInv, Worker, WorkerOk
<1>4. \A b \in Boxes : tried[b] \in 0 .. Never /\ retryAfter[b] \in Nat /\ boxes[b].last \in 0 .. Never
  BY <1>1 DEF BoxesOk
<1> QED
  BY <1>1, <1>2, <1>3, <1>4 DEF BoxesOk

\* A step that touches no mailbox and neither begins nor ends a sync.
LEMMA PaceQuiet ==
  ASSUME DemoInv, PaceOk, UNCHANGED <<boxes, retryAfter, tried>>, now' \in Nat, now <= now',
         UNCHANGED worker \/ (worker.pc # "syncing" /\ worker'.pc \notin {"sweep", "syncing"})
  PROVE  PaceOk' /\ PaceStep
<1>1. Boxes' = Boxes /\ Never' = Never
  BY DEF Boxes, Never
<1>2. ASSUME NEW b \in Boxes, tried[b] # Never PROVE tried[b] <= now' /\ Paces(b)'
  <2>1. tried[b] <= now' /\ Paces(b)
    BY <1>2, MailboxIs DEF PaceOk
  <2> QED
    BY <1>1, <2>1 DEF Paces
<1>3. SyncingOk'
  BY <1>1 DEF PaceOk, SyncingOk
<1>4. PaceOk'
  BY <1>1, <1>2, <1>3 DEF PaceOk
<1> QED
  BY <1>4 DEF PaceStep

\* The pass takes up the mailboxes that are connected.
LEMMA PacePurgeEnd ==
  ASSUME DemoInv, PaceOk, PurgeEnd
  PROVE  PaceOk' /\ PaceStep
<1>1. /\ worker.pc = "purge" /\ worker'.pc = "sweep" /\ worker'.todo = Connected
      /\ UNCHANGED <<boxes, retryAfter, tried, now>>
  BY DEF PurgeEnd, DemoInv, Worker
<1>2. \A b \in Boxes : boxes[b].status # "connected" => b \notin Connected
  BY DEF Connected
<1>3. ASSUME NEW b \in Boxes, tried[b] # Never PROVE tried[b] <= now /\ Paces(b)'
  <2>1. tried[b] <= now /\ Paces(b)
    BY <1>3 DEF PaceOk
  <2> QED
    BY <1>1, <1>2, <2>1 DEF Paces
<1> QED
  BY <1>1, <1>3 DEF PaceOk, SyncingOk, PaceStep, Boxes, Never

\* A mailbox that is due was last tried an interval ago.
LEMMA PaceSweep ==
  ASSUME DemoInv, PaceOk, SweepNext
  PROVE  PaceOk' /\ PaceStep
<1>1. worker \in Worker /\ worker.pc = "sweep" /\ worker.todo # {} /\ worker.todo \subseteq Boxes
  BY DEF DemoInv, SweepNext, WorkerOk
<1>2. PICK b \in Boxes : b = Min(worker.todo) /\ b \in worker.todo
  <2>1. worker.todo \in SUBSET Nat
    BY <1>1 DEF Worker
  <2> QED
    BY <1>1, <2>1, LeastOf
<1>3. UNCHANGED <<boxes, retryAfter, now>> /\ Boxes' = Boxes /\ Never' = Never
  BY DEF SweepNext, Boxes, Never
<1>4. \A c \in Boxes : tried[c] # Never => tried[c] <= now /\ Paces(c)
  BY DEF PaceOk
<1>5. CASE is_due(b, worker.at)
  <2>1. /\ worker' = [worker EXCEPT !.pc = "syncing", !.box = b, !.todo = @ \ {b}]
        /\ tried' = [tried EXCEPT ![b] = worker.at]
    BY <1>2, <1>5 DEF SweepNext
  <2>2. /\ worker'.pc = "syncing" /\ worker'.box = b /\ worker'.todo = worker.todo \ {b}
        /\ worker'.at = worker.at
    BY <1>1, <2>1 DEF Worker
  <2>3. tried'[b] = worker.at /\ \A c \in Boxes \ {b} : tried'[c] = tried[c]
    BY <2>1, MailboxIs
  <2>4. ASSUME NEW c \in Boxes, tried'[c] # Never PROVE tried'[c] <= now /\ Paces(c)'
    BY <1>1, <1>3, <1>4, <2>2, <2>3, <2>4, MailboxIs DEF Paces
  <2>5. SyncingOk'
    BY <1>2, <1>3, <2>2, <2>3 DEF SyncingOk
  <2>6. ASSUME tried[b] # Never PROVE worker.at >= tried[b] + Interval
    <3>1. retryAfter[b] <= worker.at
      BY <1>5 DEF is_due
    <3>2. boxes[b].last # Never => boxes[b].last + Interval <= worker.at
      BY <1>5 DEF is_due
    <3>3. \/ boxes[b].last # Never /\ tried[b] <= boxes[b].last
          \/ tried[b] + Interval <= retryAfter[b]
      BY <1>1, <1>2, <1>4, <2>6 DEF Paces
    <3>4. /\ tried[b] \in Nat /\ retryAfter[b] \in Nat /\ boxes[b].last \in Nat
          /\ Interval \in Nat /\ worker.at \in Nat
      BY MailboxIs
    <3> QED
      BY <3>1, <3>2, <3>3, <3>4
  <2> QED
    BY <1>3, <2>2, <2>4, <2>5, <2>6 DEF PaceOk, PaceStep
<1>6. CASE ~is_due(b, worker.at)
  <2>1. worker' = [worker EXCEPT !.todo = @ \ {b}] /\ UNCHANGED tried
    BY <1>2, <1>6 DEF SweepNext
  <2>2. worker'.pc = "sweep" /\ worker'.todo = worker.todo \ {b}
    BY <1>1, <2>1 DEF Worker
  <2>3. \A c \in Boxes : tried'[c] # Never => tried'[c] <= now /\ Paces(c)'
    BY <1>1, <1>3, <1>4, <2>1, <2>2 DEF Paces
  <2> QED
    BY <1>3, <2>2, <2>3 DEF PaceOk, SyncingOk, PaceStep
<1> QED
  BY <1>5, <1>6

\* A sync that ended well leaves its time in the row, one that failed in the worker's
\* memory; one that broke takes the mailbox off the list.
LEMMA PaceSync ==
  ASSUME DemoInv, PaceOk, SyncDone \/ SyncBroken \/ SyncFailed
  PROVE  PaceOk' /\ PaceStep
<1>1. worker \in Worker /\ worker.pc = "syncing" /\ worker' = [worker EXCEPT !.pc = "sweep"]
      /\ UNCHANGED <<tried, now>>
  BY DEF DemoInv, SyncDone, SyncBroken, SyncFailed, Go
<1>2. worker'.pc = "sweep" /\ worker'.todo = worker.todo
  BY <1>1 DEF Worker
<1>3. PICK a \in Boxes : a = worker.box /\ a \notin worker.todo /\ tried[a] \in {worker.at, Never}
  BY <1>1 DEF PaceOk, SyncingOk
<1>4. /\ Boxes' = Boxes /\ Never' = Never
      /\ \A b \in Boxes \ {a} : boxes'[b] = boxes[b] /\ retryAfter'[b] = retryAfter[b]
  BY <1>3, MailboxIs DEF SyncDone, SyncBroken, SyncFailed, Boxes, Never
<1>5. ASSUME NEW b \in Boxes \ {a}, tried[b] # Never PROVE tried[b] <= now /\ Paces(b)'
  <2>1. tried[b] <= now /\ Paces(b)
    BY <1>5 DEF PaceOk
  <2> QED
    BY <1>1, <1>2, <1>3, <1>4, <2>1 DEF Paces
<1>6. ASSUME tried[a] # Never PROVE tried[a] <= now /\ Paces(a)'
  <2>1. tried[a] = worker.at /\ tried[a] <= now
    BY <1>3, <1>6, MailboxIs
  <2>2. CASE SyncDone
    <3>1. boxes'[a].last = now
      BY <1>3, <2>2, MailboxIs DEF SyncDone
    <3> QED
      BY <1>1, <1>4, <2>1, <3>1, MailboxIs DEF Paces
  <2>3. CASE SyncBroken
    <3>1. boxes'[a].status # "connected"
      BY <1>3, <2>3, MailboxIs DEF SyncBroken
    <3> QED
      BY <1>2, <1>3, <2>1, <3>1 DEF Paces
  <2>4. CASE SyncFailed
    <3>1. retryAfter'[a] = worker.at + Interval
      BY <1>3, <2>4, MailboxIs DEF SyncFailed
    <3> QED
      BY <1>1, <2>1, <3>1, MailboxIs DEF Paces
  <2> QED
    BY <2>2, <2>3, <2>4
<1> QED
  BY <1>1, <1>2, <1>4, <1>5, <1>6 DEF PaceOk, SyncingOk, PaceStep

\* The customer's own doings: new consent starts afresh, a sync by hand counts as one.
LEMMA PaceCustomer ==
  ASSUME DemoInv, PaceOk, NEW a \in Boxes, Connect(a) \/ Disconnect(a) \/ SyncByHand(a)
  PROVE  PaceOk' /\ PaceStep
<1>1. /\ UNCHANGED <<worker, now>> /\ Boxes' = Boxes /\ Never' = Never
      /\ \A b \in Boxes \ {a} : /\ boxes'[b] = boxes[b] /\ retryAfter'[b] = retryAfter[b]
                               /\ tried'[b] = tried[b]
  BY MailboxIs DEF Connect, Disconnect, SyncByHand, Boxes, Never
<1>2. tried'[a] \in {tried[a], Never}
  BY MailboxIs DEF Connect, Disconnect, SyncByHand
<1>3. SyncingOk'
  <2>1. \A b \in Boxes : tried'[b] \in {tried[b], Never}
    BY <1>1, <1>2
  <2> QED
    BY <1>1, <2>1 DEF PaceOk, SyncingOk
<1>4. ASSUME NEW b \in Boxes \ {a}, tried'[b] # Never PROVE tried'[b] <= now /\ Paces(b)'
  <2>1. tried[b] <= now /\ Paces(b)
    BY <1>1, <1>4 DEF PaceOk
  <2> QED
    BY <1>1, <2>1 DEF Paces
<1>5. ASSUME tried'[a] # Never PROVE tried'[a] <= now /\ Paces(a)'
  <2>1. tried'[a] = tried[a] /\ tried[a] <= now /\ Paces(a)
    BY <1>2, <1>5 DEF PaceOk
  <2>2. ~Connect(a)
    BY <1>5, MailboxIs DEF Connect
  <2>3. CASE Disconnect(a)
    <3>1. boxes'[a].last = boxes[a].last /\ boxes'[a].status # "connected" /\ retryAfter' = retryAfter
          /\ boxes[a].status # "gone"
      BY <2>3, MailboxIs DEF Disconnect
    <3> QED
      BY <1>1, <2>1, <3>1 DEF Paces
  <2>4. CASE SyncByHand(a)
    <3>1. boxes'[a].last = now
      BY <2>4, MailboxIs DEF SyncByHand
    <3> QED
      BY <1>1, <2>1, <3>1, MailboxIs DEF Paces
  <2> QED
    BY <2>2, <2>3, <2>4
<1> QED
  BY <1>1, <1>3, <1>4, <1>5 DEF PaceOk, PaceStep

LEMMA PaceCrash ==
  ASSUME PaceOk, Crash
  PROVE  PaceOk' /\ PaceStep
<1>1. worker'.pc = "down" /\ Boxes' = Boxes /\ Never' = Never
  BY DEF Crash, ProcessEnds, Down, Boxes, Never
<1>2. \A b \in Boxes : tried'[b] = Never
  BY DEF Crash, ProcessEnds
<1> QED
  BY <1>1, <1>2 DEF PaceOk, SyncingOk, PaceStep

LEMMA PaceKept == DemoInv /\ PaceOk /\ [Next]_vars => PaceOk' /\ PaceStep
<1> SUFFICES ASSUME DemoInv, PaceOk, [Next]_vars PROVE PaceOk' /\ PaceStep
  OBVIOUS
<1>0. now \in Nat
  BY DemoParts
<1>1. CASE SweepNext
  BY <1>1, PaceSweep
<1>2. CASE SyncDone \/ SyncBroken \/ SyncFailed
  BY <1>2, PaceSync
<1>3. CASE PurgeEnd
  BY <1>3, PacePurgeEnd
<1>4. CASE \E b \in Boxes : Connect(b) \/ Disconnect(b) \/ SyncByHand(b)
  BY <1>4, PaceCustomer
<1>5. CASE Crash
  BY <1>5, PaceCrash
<1>6. CASE Boot \/ SeedOwner \/ SeedPopulate \/ SeedFails \/ PassBegin \/ PassEnd \/ PassRaises
  <2>1. /\ worker.pc # "syncing" /\ worker'.pc \notin {"sweep", "syncing"}
        /\ UNCHANGED <<boxes, retryAfter, tried, now>>
    BY <1>6 DEF DemoInv, Worker, Boot, SeedOwner, SeedPopulate, SeedFails, PassBegin, PassEnd,
                PassRaises, Go, Down
  <2> QED
    BY <1>0, <2>1, PaceQuiet
<1>7. CASE \E o \in OrgIds : PurgeOne(o)
  <2>1. worker.pc = "purge" /\ worker'.pc = "purge" /\ UNCHANGED <<boxes, retryAfter, tried, now>>
    BY <1>7 DEF DemoInv, Worker, PurgeOne
  <2> QED
    BY <1>0, <2>1, PaceQuiet
<1>8. CASE Tick
  <2>1. now' = now + 1 /\ UNCHANGED <<boxes, retryAfter, tried, worker>>
    BY <1>8 DEF Tick
  <2> QED
    BY <1>0, <2>1, PaceQuiet
<1>9. CASE \E t \in Tabs : OpenDemo(t) \/ VisitStep(t) \/ Logout(t)
  <2>1. UNCHANGED <<boxes, retryAfter, tried, worker, now>>
    BY <1>9 DEF VisitStep, OpenDemo, Logout, PurgeFirst, CheckCapacity, Provision, ProvisionOwner,
                ProvisionFails, Populate, PopulateFails, RemoveHalfBuilt, OpenSession, others
  <2> QED
    BY <1>0, <2>1, PaceQuiet
<1>10. CASE UNCHANGED vars
  <2>1. UNCHANGED <<boxes, retryAfter, tried, worker, now>>
    BY <1>10 DEF vars
  <2> QED
    BY <1>0, <2>1, PaceQuiet
<1> QED
  BY <1>1, <1>2, <1>3, <1>4, <1>5, <1>6, <1>7, <1>8, <1>9, <1>10 DEF Next, WorkerNext, WorkerStep

LEMMA PaceStart == Init => PaceOk
  BY DEF Init, WorkerInit, PaceOk, SyncingOk, Down

\* Passes that sync one mailbox are an interval apart, however the sync ended and
\* whatever the customer does by hand, unless the process restarted or the customer
\* consented again (sync_due_connections, _is_due).
THEOREM MailboxesPaced == Spec => Paced
<1>1. DemoInv /\ PaceOk /\ [Next]_vars => PaceOk'
  BY PaceKept
<1>2. Spec => []PaceOk
  BY <1>1, PaceStart, DemoSafe, PTL DEF Spec
<1>3. DemoInv /\ PaceOk /\ [Next]_vars => [PaceStep]_workerVars
  BY PaceKept
<1> QED
  BY <1>2, <1>3, DemoSafe, PTL DEF Spec, Paced, PaceStep
=============================================================================
