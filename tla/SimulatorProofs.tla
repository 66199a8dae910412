-------------------------- MODULE SimulatorProofs --------------------------
(* Proofs about the simulator: its API (SimulatorApi, SchemaMigration) and *)
(* the episode behind it (InboxEnv).  Ready means migrated, for any number *)
(* of instances, tables and versions, wherever instances meet or stop; for *)
(* any number of requests under way at once the approval store keeps its   *)
(* word, the stored episode is one whole run, and the shared episode is    *)
(* the replay of its history while none met, with nothing lost of what was *)
(* earned.                                                                 *)
EXTENDS SimulatorApi, InboxEnv, FiniteSetTheorems, TLAPS

----------------------------------------------------------------------------
(* The versions.                                                           *)

LEMMA VersionsAre == Latest \in Nat \ {0} /\ Versions = 1 .. Latest
<1> DEFINE n == Cardinality(Versions)
<1>1. n \in Nat /\ Versions = 1 .. n /\ Versions # {}
  BY MigrationAssumption, FS_CardinalityType
<1> HIDE DEF n
<1>2. n \in Versions /\ \A w \in Versions : w <= n
  BY <1>1
<1>3. Latest \in Versions /\ \A w \in Versions : w <= Latest
  BY <1>2 DEF Latest
<1>4. n <= Latest /\ Latest <= n /\ n \in Nat /\ Latest \in Nat
  BY <1>1, <1>2, <1>3
<1>5. Latest = n /\ n # 0
  BY <1>1, <1>2, <1>4
<1> QED
  BY <1>1, <1>5

\* The newest of the first k versions.
LEMMA NewestOf == ASSUME NEW k \in 0 .. Latest PROVE Newest(1 .. k) = k
<1>1. Latest \in Nat
  BY VersionsAre
<1>2. CASE k = 0
  <2>1. 1 .. k = {}
    BY <1>2
  <2> QED
    BY <1>2, <2>1 DEF Newest
<1>3. CASE k # 0
  <2>1. k \in 1 .. k /\ \A w \in 1 .. k : w <= k
    BY <1>1, <1>3
  <2>2. Newest(1 .. k) = CHOOSE v \in 1 .. k : \A w \in 1 .. k : w <= v
    BY <2>1 DEF Newest
  <2>3. Newest(1 .. k) \in 1 .. k /\ \A w \in 1 .. k : w <= Newest(1 .. k)
    BY <2>1, <2>2
  <2> QED
    BY <1>1, <2>1, <2>3
<1> QED
  BY <1>2, <1>3

----------------------------------------------------------------------------
(* What an instance that starts knows of the database.                     *)

Startup == [pc : {"down", "create", "migrate", "alter", "serving"}, missing : SUBSET Tables,
            next : 0 .. Latest + 1, from : 0 .. Latest]

\* A table that is no longer missing is there, and so is the column of every version
\* behind the one at hand; the version read was recorded.
InstanceOk(i) ==
  /\ Runs(i, "create") => Tables \ starting[i].missing \subseteq tables
  /\ starting[i].pc \in {"migrate", "alter"} =>
       /\ tables = Tables
       /\ starting[i].from = 0 \/ starting[i].from \in recorded
       /\ starting[i].from < starting[i].next
       /\ \A w \in Columns : w < starting[i].next => w \in columns
  /\ Runs(i, "alter") => starting[i].next \in Columns

\* Versions are recorded without a gap, none before its column, the last not before
\* every table.
DatabaseOk ==
  /\ tables \subseteq Tables /\ columns \subseteq Columns
  /\ \E k \in 0 .. Latest : recorded = 1 .. k
  /\ \A v \in recorded, w \in Columns : w <= v => w \in columns
  /\ Latest \in recorded => tables = Tables

MigrationInv ==
  /\ DatabaseOk /\ starting \in [Instances -> Startup]
  /\ \A i \in Instances : InstanceOk(i)

\* The database only grows, so what the other instances know stays true.
LEMMA StepKeeps ==
  ASSUME MigrationInv, NEW i \in Instances, NEW r \in Startup,
         starting' = [starting EXCEPT ![i] = r],
         tables \subseteq tables', columns \subseteq columns', recorded \subseteq recorded',
         DatabaseOk', InstanceOk(i)'
  PROVE  MigrationInv'
<1>1. starting' \in [Instances -> Startup]
  BY DEF MigrationInv
<1>2. ASSUME NEW j \in Instances PROVE InstanceOk(j)'
  <2>1. CASE j = i
    BY <2>1
  <2>2. CASE j # i
    <3>1. starting'[j] = starting[j] /\ InstanceOk(j) /\ tables' \subseteq Tables
      BY <2>2 DEF MigrationInv, DatabaseOk
    <3> QED
      BY <3>1 DEF InstanceOk, Runs
  <2> QED
    BY <2>1, <2>2
<1> QED
  BY <1>1, <1>2 DEF MigrationInv

\* The columns of the recorded versions are there when more columns or tables are.
LEMMA DatabaseGrows ==
  ASSUME DatabaseOk, tables \subseteq tables', tables' \subseteq Tables,
         columns \subseteq columns', columns' \subseteq Columns, recorded' = recorded
  PROVE  DatabaseOk'
  BY DEF DatabaseOk

LEMMA MigrationStarts == Init => MigrationInv
<1> SUFFICES ASSUME Init PROVE MigrationInv
  OBVIOUS
<1>0. MigrationInit /\ Latest \in Nat \ {0} /\ Versions = 1 .. Latest
  BY VersionsAre DEF Init
<1>1. Idle \in Startup
  BY <1>0 DEF Idle, Startup
<1>2. starting = [i \in Instances |-> Idle]
  BY <1>0 DEF MigrationInit
<1>3. \A i \in Instances : InstanceOk(i)
  BY <1>2 DEF InstanceOk, Runs, Idle
<1>4. DatabaseOk
  <2>1. CASE tables = {} /\ columns = {} /\ recorded = {}
    <3>1. recorded = 1 .. 0 /\ 0 \in 0 .. Latest
      BY <1>0, <2>1
    <3> QED
      BY <2>1, <3>1 DEF DatabaseOk
  <2>2. CASE \E v \in Versions : /\ tables = IF v = Latest THEN Tables ELSE {Altered}
                                 /\ columns = 2 .. v /\ recorded = 1 .. v
    <3>1. PICK v \in Versions : /\ tables = IF v = Latest THEN Tables ELSE {Altered}
                                /\ columns = 2 .. v /\ recorded = 1 .. v
      BY <2>2
    <3>2. v \in 0 .. Latest /\ columns \subseteq Columns
      BY <1>0, <3>1 DEF Columns
    <3>3. tables \subseteq Tables /\ (Latest \in recorded => tables = Tables)
      BY <1>0, <3>1, MigrationAssumption
    <3>4. \A u \in recorded, w \in Columns : w <= u => w \in columns
      BY <1>0, <3>1 DEF Columns
    <3> QED
      BY <3>1, <3>2, <3>3, <3>4 DEF DatabaseOk
  <2> QED
    BY <1>0, <2>1, <2>2 DEF MigrationInit
<1> QED
  BY <1>1, <1>2, <1>3, <1>4 DEF MigrationInv

----------------------------------------------------------------------------
(* The steps of a start.                                                   *)

\* Reading what an instance remembers.
LEMMA StartupOf ==
  ASSUME NEW i \in Instances, MigrationInv
  PROVE  /\ starting[i] \in Startup /\ starting[i].missing \subseteq Tables
         /\ starting[i].next \in 0 .. Latest + 1 /\ starting[i].from \in 0 .. Latest
         /\ DatabaseOk /\ InstanceOk(i) /\ Latest \in Nat \ {0} /\ Versions = 1 .. Latest
  BY VersionsAre DEF MigrationInv, Startup

\* A failed start forgets what it knew and serves, not ready.
LEMMA FailsKeeps ==
  ASSUME MigrationInv, NEW i \in Instances, Fails(i),
         tables \subseteq tables', columns \subseteq columns', recorded \subseteq recorded', DatabaseOk'
  PROVE  MigrationInv'
<1> DEFINE r == [Idle EXCEPT !.pc = "serving"]
<1>1. starting' = [starting EXCEPT ![i] = r]
  BY DEF Fails, Moves
<1>2. r \in Startup /\ r.pc = "serving"
  BY VersionsAre DEF Startup, Idle
<1>3. starting'[i] = r
  BY <1>1 DEF MigrationInv
<1> HIDE DEF r
<1>4. InstanceOk(i)'
  BY <1>2, <1>3 DEF InstanceOk, Runs
<1> QED
  BY <1>1, <1>2, <1>4, StepKeeps

LEMMA InspectTablesKeeps ==
  ASSUME MigrationInv, NEW i \in Instances, InspectTables(i) PROVE MigrationInv'
<1> DEFINE r == [Idle EXCEPT !.pc = "create", !.missing = Tables \ tables]
<1>1. starting' = [starting EXCEPT ![i] = r] /\ UNCHANGED <<tables, columns, recorded>>
  BY DEF InspectTables, Moves
<1>2. r \in Startup /\ r.pc = "create" /\ r.missing = Tables \ tables
  <2>1. Idle \in Startup
    BY VersionsAre DEF Idle, Startup
  <2> QED
    BY <2>1 DEF Startup
<1>3. starting'[i] = r /\ DatabaseOk /\ tables \subseteq Tables
  BY <1>1 DEF MigrationInv, DatabaseOk
<1> HIDE DEF r
<1>4. InstanceOk(i)'
  BY <1>1, <1>2, <1>3 DEF InstanceOk, Runs
<1>5. DatabaseOk'
  BY <1>1, <1>3, DatabaseGrows DEF DatabaseOk
<1> QED
  BY <1>1, <1>2, <1>4, <1>5, StepKeeps

LEMMA CreateTableKeeps ==
  ASSUME MigrationInv, NEW i \in Instances, CreateTable(i) PROVE MigrationInv'
<1> DEFINE r(t) == [starting[i] EXCEPT !.missing = @ \ {t}]
<1>0. /\ starting[i] \in Startup /\ starting[i].missing \subseteq Tables
      /\ DatabaseOk /\ InstanceOk(i)
  BY StartupOf
<1>1. /\ recorded' = recorded /\ Runs(i, "create")
      /\ \E t \in starting[i].missing :
           IF t \in tables THEN Fails(i) /\ UNCHANGED <<tables, columns>>
           ELSE /\ tables' = tables \union {t}
                /\ columns' = IF t = Altered THEN Columns ELSE columns
                /\ Moves(i, r(t))
  BY Zenon DEF CreateTable
<1>2. ASSUME NEW t \in starting[i].missing, t \in tables, Fails(i), UNCHANGED <<tables, columns>>
      PROVE  MigrationInv'
  <2>1. tables \subseteq Tables /\ columns \subseteq Columns
    BY <1>0 DEF DatabaseOk
  <2> QED
    BY <1>0, <1>1, <1>2, <2>1, DatabaseGrows, FailsKeeps
<1>3. ASSUME NEW t \in starting[i].missing, t \notin tables, tables' = tables \union {t},
             columns' = IF t = Altered THEN Columns ELSE columns, Moves(i, r(t))
      PROVE  MigrationInv'
  <2>1. /\ tables' \subseteq Tables /\ columns \subseteq columns' /\ columns' \subseteq Columns
        /\ starting' = [starting EXCEPT ![i] = r(t)]
    BY <1>0, <1>3 DEF DatabaseOk, Moves
  <2>2. r(t) \in Startup /\ r(t).pc = "create" /\ r(t).missing = starting[i].missing \ {t}
    BY <1>0, <1>1 DEF Startup, Runs
  <2>3. starting'[i] = r(t)
    BY <2>1 DEF MigrationInv
  <2> HIDE DEF r
  <2>4. InstanceOk(i)'
    BY <1>0, <1>1, <1>3, <2>1, <2>2, <2>3 DEF InstanceOk, Runs
  <2>5. DatabaseOk' /\ tables \subseteq tables'
    BY <1>0, <1>1, <1>3, <2>1, DatabaseGrows
  <2> QED
    BY <1>1, <2>1, <2>2, <2>4, <2>5, StepKeeps
<1> QED
  BY <1>1, <1>2, <1>3

LEMMA ReadVersionKeeps ==
  ASSUME MigrationInv, NEW i \in Instances, ReadVersion(i) PROVE MigrationInv'
<1> DEFINE r == [Idle EXCEPT !.pc = "migrate", !.from = Newest(recorded), !.next = Newest(recorded) + 1]
<1>0. /\ DatabaseOk /\ InstanceOk(i) /\ Latest \in Nat \ {0}
  BY StartupOf
<1>1. /\ starting' = [starting EXCEPT ![i] = r] /\ UNCHANGED <<tables, columns, recorded>>
      /\ Runs(i, "create") /\ starting[i].missing = {}
  BY DEF ReadVersion, Moves
<1>2. PICK k \in 0 .. Latest : recorded = 1 .. k
  BY <1>0 DEF DatabaseOk
<1>3. Newest(recorded) = k
  BY <1>2, NewestOf
<1>4. /\ r \in Startup /\ r.pc = "migrate" /\ r.from = k /\ r.next = k + 1
  <2>1. Idle \in Startup
    BY VersionsAre DEF Idle, Startup
  <2>2. Newest(recorded) \in 0 .. Latest /\ Newest(recorded) + 1 \in 0 .. Latest + 1
    BY <1>0, <1>2, <1>3
  <2> QED
    BY <1>3, <2>1, <2>2 DEF Startup
<1>5. starting'[i] = r
  BY <1>1 DEF MigrationInv
<1> HIDE DEF r
<1>6. tables = Tables
  BY <1>0, <1>1 DEF InstanceOk, DatabaseOk
<1>7. \A w \in Columns : w < k + 1 => w \in columns
  <2> SUFFICES ASSUME NEW w \in Columns, w < k + 1 PROVE w \in columns
    OBVIOUS
  <2>1. w \in 1 .. Latest
    BY VersionsAre DEF Columns
  <2>2. k \in recorded /\ w <= k
    BY <1>0, <1>2, <2>1
  <2> QED
    BY <1>0, <2>2 DEF DatabaseOk
<1>8. InstanceOk(i)'
  BY <1>0, <1>1, <1>2, <1>4, <1>5, <1>6, <1>7 DEF InstanceOk, Runs
<1>9. DatabaseOk'
  BY <1>0, <1>1, DatabaseGrows DEF DatabaseOk
<1> QED
  BY <1>1, <1>4, <1>8, <1>9, StepKeeps

LEMMA InspectColumnKeeps ==
  ASSUME MigrationInv, NEW i \in Instances, InspectColumn(i) PROVE MigrationInv'
<1> DEFINE v == starting[i].next
           skip == [starting[i] EXCEPT !.next = v + 1]
           alter == [starting[i] EXCEPT !.pc = "alter"]
           r == IF v = 1 \/ v \in columns THEN skip ELSE alter
<1>0. /\ starting[i] \in Startup /\ DatabaseOk /\ InstanceOk(i)
      /\ Latest \in Nat \ {0} /\ Versions = 1 .. Latest
      /\ v \in 0 .. Latest + 1 /\ starting[i].from \in 0 .. Latest
  BY StartupOf
<1>1. /\ starting' = [starting EXCEPT ![i] = r] /\ UNCHANGED <<tables, columns, recorded>>
      /\ Runs(i, "migrate") /\ v <= Latest
  BY DEF InspectColumn, Moves
<1>2. /\ skip \in Startup /\ skip.pc = "migrate" /\ skip.next = v + 1 /\ skip.from = starting[i].from
      /\ alter \in Startup /\ alter.pc = "alter" /\ alter.next = v /\ alter.from = starting[i].from
  BY <1>0, <1>1 DEF Startup, Runs
<1>3. starting'[i] = r /\ r \in Startup
  BY <1>1, <1>2 DEF MigrationInv
<1> HIDE DEF skip, alter
<1>4. /\ tables = Tables /\ (starting[i].from = 0 \/ starting[i].from \in recorded)
      /\ starting[i].from < v /\ \A w \in Columns : w < v => w \in columns
  BY <1>0, <1>1 DEF InstanceOk, Runs
<1>5. InstanceOk(i)'
  <2>1. CASE v = 1 \/ v \in columns
    <3>1. \A w \in Columns : w < v + 1 => w \in columns
      <4> SUFFICES ASSUME NEW w \in Columns, w < v + 1 PROVE w \in columns
        OBVIOUS
      <4>1. w \in 2 .. Latest /\ (w < v \/ w = v)
        BY <1>0 DEF Columns
      <4> QED
        BY <1>4, <2>1, <4>1
    <3>2. starting'[i] = skip
      BY <1>3, <2>1
    <3> QED
      BY <1>0, <1>1, <1>2, <1>4, <3>1, <3>2 DEF InstanceOk, Runs
  <2>2. CASE ~(v = 1 \/ v \in columns)
    <3>1. v \in Columns
      BY <1>0, <1>1, <1>4, <2>2 DEF Columns
    <3>2. starting'[i] = alter
      BY <1>3, <2>2
    <3> QED
      BY <1>1, <1>2, <1>4, <3>1, <3>2 DEF InstanceOk, Runs
  <2> QED
    BY <2>1, <2>2
<1>6. DatabaseOk'
  BY <1>0, <1>1, DatabaseGrows DEF DatabaseOk
<1> HIDE DEF r
<1> QED
  BY <1>1, <1>3, <1>5, <1>6, StepKeeps

LEMMA AlterTableKeeps ==
  ASSUME MigrationInv, NEW i \in Instances, AlterTable(i) PROVE MigrationInv'
<1> DEFINE v == starting[i].next
           r == [starting[i] EXCEPT !.pc = "migrate", !.next = v + 1]
<1>0. /\ starting[i] \in Startup /\ DatabaseOk /\ InstanceOk(i)
      /\ Latest \in Nat \ {0} /\ Versions = 1 .. Latest
      /\ tables \subseteq Tables /\ columns \subseteq Columns
  BY StartupOf DEF DatabaseOk
<1>1. Runs(i, "alter") /\ UNCHANGED <<tables, recorded>>
  BY DEF AlterTable
<1>2. v \in Columns /\ v \in 2 .. Latest
  BY <1>0, <1>1 DEF InstanceOk, Columns
<1>3. CASE v \in columns
  <2>1. Fails(i) /\ UNCHANGED columns
    BY <1>3 DEF AlterTable
  <2> QED
    BY <1>0, <1>1, <2>1, DatabaseGrows, FailsKeeps
<1>4. CASE v \notin columns
  <2>1. columns' = columns \union {v} /\ starting' = [starting EXCEPT ![i] = r]
    BY <1>4 DEF AlterTable, Moves
  <2>2. r \in Startup /\ r.pc = "migrate" /\ r.next = v + 1 /\ r.from = starting[i].from
    <3>1. v + 1 \in 0 .. Latest + 1
      BY <1>0, <1>2
    <3> QED
      BY <1>0, <3>1 DEF Startup
  <2>3. starting'[i] = r
    BY <2>1 DEF MigrationInv
  <2> HIDE DEF r
  <2>4. DatabaseOk'
    BY <1>0, <1>1, <1>2, <2>1, DatabaseGrows
  <2>5. \A w \in Columns : w < v + 1 => w \in columns'
    <3> SUFFICES ASSUME NEW w \in Columns, w < v + 1 PROVE w \in columns'
      OBVIOUS
    <3>1. w \in Nat /\ (w < v \/ w = v)
      BY <1>0, <1>2 DEF Columns
    <3> QED
      BY <1>0, <1>1, <2>1, <3>1 DEF InstanceOk, Runs
  <2>6. /\ tables = Tables /\ (starting[i].from = 0 \/ starting[i].from \in recorded)
        /\ starting[i].from < v /\ starting[i].from \in 0 .. Latest
    BY <1>0, <1>1 DEF InstanceOk, Runs, Startup
  <2>7. InstanceOk(i)'
    BY <1>1, <1>2, <2>2, <2>3, <2>5, <2>6 DEF InstanceOk, Runs
  <2> QED
    BY <1>1, <2>1, <2>2, <2>4, <2>7, StepKeeps
<1> QED
  BY <1>3, <1>4

\* Who records the last version saw every table and every column, and records on top of
\* the version it read, or not at all.
LEMMA RecordVersionsKeeps ==
  ASSUME MigrationInv, NEW i \in Instances, RecordVersions(i) PROVE MigrationInv'
<1> DEFINE from == starting[i].from
           new == (from + 1) .. Latest
<1>0. /\ DatabaseOk /\ InstanceOk(i) /\ Latest \in Nat \ {0} /\ Versions = 1 .. Latest
      /\ from \in 0 .. Latest /\ starting[i].next \in 0 .. Latest + 1
  BY StartupOf
<1>1. /\ Runs(i, "migrate") /\ starting[i].next > Latest /\ Fails(i)
      /\ recorded' = IF new \intersect recorded = {} THEN recorded \union new ELSE recorded
      /\ UNCHANGED <<tables, columns>>
  BY DEF RecordVersions
<1>2. /\ tables = Tables /\ (from = 0 \/ from \in recorded)
      /\ \A w \in Columns : w < starting[i].next => w \in columns
  BY <1>0, <1>1 DEF InstanceOk, Runs
<1>3. Columns \subseteq columns
  BY <1>0, <1>1, <1>2 DEF Columns
<1>4. PICK k \in 0 .. Latest : recorded = 1 .. k
  BY <1>0 DEF DatabaseOk
<1>5. \E m \in 0 .. Latest : recorded' = 1 .. m
  <2>1. CASE new \intersect recorded = {}
    <3>1. from <= k
      BY <1>0, <1>2, <1>4
    <3>2. ~(from < k)
      <4> SUFFICES ASSUME from < k PROVE FALSE
        OBVIOUS
      <4>1. from + 1 \in new /\ from + 1 \in recorded
        BY <1>0, <1>4
      <4> QED
        BY <2>1, <4>1
    <3>3. recorded' = 1 .. Latest
      BY <1>0, <1>1, <1>4, <2>1, <3>1, <3>2
    <3> QED
      BY <1>0, <3>3
  <2>2. CASE new \intersect recorded # {}
    BY <1>1, <1>4, <2>2
  <2> QED
    BY <2>1, <2>2
<1>6. DatabaseOk' /\ recorded \subseteq recorded'
  <2>1. tables' = Tables /\ columns' = columns /\ columns = Columns /\ recorded \subseteq recorded'
    BY <1>0, <1>1, <1>2, <1>3 DEF DatabaseOk
  <2> QED
    BY <1>5, <2>1 DEF DatabaseOk
<1> QED
  BY <1>1, <1>6, FailsKeeps

LEMMA CrashKeeps ==
  ASSUME MigrationInv, NEW i \in Instances, CrashInstance(i) PROVE MigrationInv'
<1>1. starting' = [starting EXCEPT ![i] = Idle] /\ UNCHANGED <<tables, columns, recorded>>
  BY DEF CrashInstance, Moves, schema
<1>2. Idle \in Startup /\ Idle.pc = "down"
  BY VersionsAre DEF Startup, Idle
<1>3. starting'[i] = Idle /\ DatabaseOk /\ tables \subseteq Tables /\ columns \subseteq Columns
  BY <1>1 DEF MigrationInv, DatabaseOk
<1>4. InstanceOk(i)'
  BY <1>2, <1>3 DEF InstanceOk, Runs
<1>5. DatabaseOk'
  BY <1>1, <1>3, DatabaseGrows
<1> QED
  BY <1>1, <1>2, <1>4, <1>5, StepKeeps

\* What the requests do touches neither the schema nor a start under way.
LEMMA RequestsLeaveIt ==
  ASSUME MigrationInv, UNCHANGED <<schema, starting>> PROVE MigrationInv'
<1>1. UNCHANGED <<tables, columns, recorded, starting>>
  BY DEF schema
<1> QED
  BY <1>1 DEF MigrationInv, DatabaseOk, InstanceOk, Runs

LEMMA RequestSteps ==
  ASSUME \/ \E t \in Threads : Continue(t)
         \/ \E t \in Threads, who \in Callers :
              \/ submit_request(t, who) \/ PendingBegin(t, who) \/ Baseline(t, who)
              \/ \E q \in DOMAIN requests, verdict \in {"approved", "rejected"} :
                   DecideLook(t, who, q, verdict)
         \/ Tick
         \/ UNCHANGED vars
  PROVE  UNCHANGED <<schema, starting>>
<1>1. ASSUME NEW t \in Threads, Continue(t) PROVE UNCHANGED <<schema, starting>>
  BY <1>1 DEF Continue, DecideMark, DecideAnswer, SweepStep, SweepAnswer, PendingList, PendingReply,
       Played, SaveLook, SaveCommit, SaveFails, Store, Approvals
<1>2. ASSUME NEW t \in Threads, NEW who \in Callers, NEW op, Admit(t, who, op)
      PROVE  UNCHANGED <<schema, starting>>
  BY <1>2 DEF Admit
<1>3. ASSUME NEW t \in Threads, NEW who \in Callers,
             \/ submit_request(t, who) \/ PendingBegin(t, who) \/ Baseline(t, who)
             \/ \E q \in DOMAIN requests, verdict \in {"approved", "rejected"} :
                  DecideLook(t, who, q, verdict)
      PROVE  UNCHANGED <<schema, starting>>
  BY <1>2, <1>3 DEF submit_request, PendingBegin, Baseline, DecideLook
<1>4. ASSUME Tick PROVE UNCHANGED <<schema, starting>>
  BY <1>4 DEF Tick
<1>5. ASSUME UNCHANGED vars PROVE UNCHANGED <<schema, starting>>
  BY <1>5 DEF vars
<1> QED
  BY <1>1, <1>3, <1>4, <1>5

LEMMA MigrationStays == MigrationInv /\ [Next]_vars => MigrationInv'
<1> SUFFICES ASSUME MigrationInv, [Next]_vars PROVE MigrationInv'
  OBVIOUS
<1>1. ASSUME NEW i \in Instances, Migrate(i) PROVE MigrationInv'
  BY <1>1, InspectTablesKeeps, CreateTableKeeps, ReadVersionKeeps, InspectColumnKeeps, AlterTableKeeps,
     RecordVersionsKeeps DEF Migrate
<1>2. ASSUME NEW i \in Instances, Crash(i) PROVE MigrationInv'
  BY <1>2, CrashKeeps DEF Crash
<1> QED
  BY <1>1, <1>2, RequestSteps, RequestsLeaveIt DEF Next

----------------------------------------------------------------------------
(* The requests under way, and what they know of the stores.               *)

Columned == [score : Nat, steps : Nat]
Operator == {"approved", "rejected"}
Request == [status : Verdicts \union {"pending"}, response : Verdicts \union {"none"},
            expires_at : Nat, by : Callers]

Deciding == [pc : {"mark", "answer"}, id : Nat, verdict : Operator, by : Callers]
Sweeping == [pc : {"sweep", "expire", "list"}, id : Nat \ {0}, size : Nat, cut : Nat]
Listing == [pc : {"listed"}, cut : Nat, ids : SUBSET Nat]
Looking == [pc : {"look"}, table : {"episode", "example"}, result : Results]
Saving == [pc : {"save"}, table : {"episode", "example"}, result : Results, seen : Columned,
           stale : BOOLEAN]
Job == {NoJob, [pc |-> "play"]} \union Deciding \union Sweeping \union Listing \union Looking
         \union Saving

ApiTypes ==
  /\ now \in 0 .. MaxNow /\ crashes \in 0 .. MaxCrashes
  /\ hits \in [{"tenant", "client"} -> [window : 0 .. now, count : 0 .. Limit]]
  /\ requests \in Seq(Request) /\ told \in Seq(SUBSET Verdicts) /\ Len(told) = Len(requests)
  /\ contested \subseteq DOMAIN requests
  /\ memory \in Results \union {None}
  /\ episodes \in [{"episode", "example"} -> [row : Columned, last : Columned]]
  /\ job \in [Threads -> Job]

\* A thread that decides on request q, for a reviewer or for the sweep, and the status
\* it has found or given it.
Holds(t, q) == job[t].pc \in {"mark", "answer", "expire"} /\ job[t].id = q
Given(t) ==
  CASE At(t, "mark") -> "pending" [] At(t, "answer") -> job[t].verdict [] OTHER -> "expired"

\* Who decides was let in, on a request there is; what it has answered no longer waits.
\* What the sweep has passed, and what was listed, had not expired.
ThreadOk(t) ==
  /\ job[t].pc \in {"mark", "answer", "expire"} => job[t].id \in DOMAIN requests
  /\ At(t, "mark") => job[t].by = "operator"
  /\ job[t].pc \in {"answer", "expire"} => requests[job[t].id].status # "pending"
  /\ job[t].pc \in {"sweep", "expire", "list", "listed"} => job[t].cut <= now
  /\ job[t].pc \in {"sweep", "expire", "list"} =>
       \A q \in DOMAIN requests :
         requests[q].status = "pending" /\ (q < job[t].id \/ At(t, "list")) =>
           requests[q].expires_at > job[t].cut
  /\ At(t, "listed") =>
       /\ job[t].ids \subseteq DOMAIN requests
       /\ \A q \in job[t].ids : requests[q].expires_at > job[t].cut

\* A request no two deciders met on has one status for all who know of it.
RequestOk(q) ==
  /\ requests[q].by = "operator"
  /\ told[q] # {} => requests[q].status # "pending"
  /\ q \notin contested =>
       /\ \A t, u \in Threads : Holds(t, q) /\ Holds(u, q) => t = u
       /\ \A t \in Threads : Holds(t, q) => requests[q].status = Given(t)
       /\ told[q] \subseteq {requests[q].status}
       /\ (\A t \in Threads : ~Holds(t, q)) =>
            requests[q].response = IF requests[q].status = "pending" THEN "none" ELSE requests[q].status

\* A save that no other has overtaken still finds the row it read.
SaveOk(t) == At(t, "save") /\ ~job[t].stale => job[t].seen = episodes[job[t].table].row

ApiInv ==
  /\ ApiTypes
  /\ \A t \in Threads : ThreadOk(t)
  /\ \A q \in DOMAIN requests : RequestOk(q)
  /\ \A t \in Threads : SaveOk(t)
  /\ EpisodeKept

\* The job of a thread, told by where it is.
LEMMA JobOf ==
  ASSUME ApiTypes, NEW t \in Threads
  PROVE  /\ job[t] \in Job
         /\ job[t].pc \in {"mark", "answer"} => job[t] \in Deciding
         /\ job[t].pc \in {"sweep", "expire", "list"} => job[t] \in Sweeping
         /\ At(t, "listed") => job[t] \in Listing
         /\ At(t, "look") => job[t] \in Looking
         /\ At(t, "save") => job[t] \in Saving
<1>1. job[t] \in Job
  BY DEF ApiTypes
<1> QED
  BY <1>1 DEF Job, NoJob, Deciding, Sweeping, Listing, Looking, Saving, At

\* A call that is let in is counted and, if it concerns approvals, is the operator's.
LEMMA Admitted ==
  ASSUME ApiTypes, NEW t \in Threads, NEW who \in Callers, NEW op, Admit(t, who, op)
  PROVE  /\ UNCHANGED <<schema, starting, crashes, now>>
         /\ At(t, "idle")
         /\ hits' \in [{"tenant", "client"} -> [window : 0 .. now, count : 0 .. Limit]]
         /\ op \in {"submit", "approved", "rejected", "pending"} => who = "operator"
<1>1. RateKey(who, op) \in {"tenant", "client"}
  BY DEF RateKey
<1>2. Counted(RateKey(who, op)) \in 0 .. Limit
  <2>1. hits[RateKey(who, op)].count \in 0 .. Limit /\ Limit \in Nat \ {0}
    BY <1>1, ApiAssumption DEF ApiTypes
  <2>2. Counted(RateKey(who, op)) \in Nat
    BY <2>1 DEF Counted
  <2> QED
    BY <2>1, <2>2 DEF Admit, Passes
<1>3. hits' \in [{"tenant", "client"} -> [window : 0 .. now, count : 0 .. Limit]]
  <2>1. now \in 0 .. now
    BY ApiAssumption DEF ApiTypes
  <2>2. hits' = [hits EXCEPT ![RateKey(who, op)] = [window |-> now, count |-> Counted(RateKey(who, op))]]
    BY DEF Admit, Allow
  <2> QED
    BY <1>1, <1>2, <2>1, <2>2 DEF ApiTypes
<1>4. op \in {"submit", "approved", "rejected", "pending"} => who = "operator"
  BY DEF Admit, Passes, ResolveAuth, IsOpen, IsMutating, Under, Surface, SENSITIVE_READ_PREFIXES,
         SAAS_SELF_AUTH_PREFIXES
<1> QED
  BY <1>3, <1>4 DEF Admit

\* Nothing that was decided waits again, nothing changes when it expires, and what is
\* new has not expired.
StoreGrows ==
  /\ now \in Nat /\ now' \in Nat /\ now <= now'
  /\ DOMAIN requests \subseteq DOMAIN requests'
  /\ \A q \in DOMAIN requests :
       /\ requests'[q].expires_at = requests[q].expires_at
       /\ requests[q].status # "pending" => requests'[q].status # "pending"
  /\ \A q \in DOMAIN requests' \ DOMAIN requests :
       requests'[q].expires_at \in Nat /\ requests'[q].expires_at > now

\* A thread the step does not touch stays in order.
LEMMA ThreadKept ==
  ASSUME ApiTypes, StoreGrows, NEW t \in Threads, ThreadOk(t),
         \/ job'[t] = job[t]
         \/ job'[t].pc \notin {"mark", "answer", "sweep", "expire", "list", "listed"}
  PROVE  ThreadOk(t)'
<1>1. CASE job'[t] = job[t]
  <2>1. job[t].pc \in {"sweep", "expire", "list"} => job[t].id \in Nat /\ job[t].cut \in Nat
    BY JobOf DEF Sweeping
  <2>2. At(t, "listed") => job[t].cut \in Nat
    BY JobOf DEF Listing
  <2>3. job[t].pc \in {"mark", "answer", "expire"} => job'[t].id \in DOMAIN requests'
    BY <1>1 DEF ThreadOk, StoreGrows
  <2>4. job[t].pc \in {"answer", "expire"} => requests'[job'[t].id].status # "pending"
    BY <1>1 DEF ThreadOk, StoreGrows
  <2>5. job[t].pc \in {"sweep", "expire", "list", "listed"} => job'[t].cut <= now'
    BY <1>1, <2>1, <2>2 DEF ThreadOk, StoreGrows, At
  <2>6. ASSUME job[t].pc \in {"sweep", "expire", "list"}, NEW q \in DOMAIN requests',
               requests'[q].status = "pending", q < job[t].id \/ At(t, "list")
        PROVE  requests'[q].expires_at > job[t].cut
    <3>1. CASE q \in DOMAIN requests
      BY <2>6, <3>1 DEF ThreadOk, StoreGrows
    <3>2. CASE q \notin DOMAIN requests
      <4>1. job[t].cut <= now /\ job[t].cut \in Nat
        BY <2>1, <2>6 DEF ThreadOk
      <4> QED
        BY <3>2, <4>1 DEF StoreGrows
    <3> QED
      BY <3>1, <3>2
  <2>7. At(t, "listed") => /\ job[t].ids \subseteq DOMAIN requests'
                           /\ \A q \in job[t].ids : requests'[q].expires_at > job[t].cut
    BY DEF ThreadOk, StoreGrows
  <2>8. At(t, "mark") => job[t].by = "operator"
    BY DEF ThreadOk
  <2> QED
    BY <1>1, <2>3, <2>4, <2>5, <2>6, <2>7, <2>8 DEF ThreadOk, At
<1>2. CASE job'[t].pc \notin {"mark", "answer", "sweep", "expire", "list", "listed"}
  BY <1>2 DEF ThreadOk, At
<1> QED
  BY <1>1, <1>2

\* A request the step does not touch stays in order.
LEMMA RequestKept ==
  ASSUME NEW q \in DOMAIN requests, RequestOk(q), requests'[q] = requests[q], told'[q] = told[q],
         q \in contested => q \in contested',
         \A t \in Threads : Holds(t, q)' <=> Holds(t, q),
         \A t \in Threads : Holds(t, q) => Given(t)' = Given(t)
  PROVE  RequestOk(q)'
BY DEF RequestOk

\* A step that leaves the approval store and whoever decides in it alone.
LEMMA StoreQuiet ==
  ASSUME ApiInv, requests' = requests, told' = told, contested' = contested,
         now \in Nat, now' \in Nat, now <= now',
         \A t \in Threads :
           \/ job'[t] = job[t]
           \/ /\ job[t].pc \notin {"mark", "answer", "expire"}
              /\ job'[t].pc \notin {"mark", "answer", "sweep", "expire", "list", "listed"}
  PROVE  /\ \A t \in Threads : ThreadOk(t)'
         /\ \A q \in DOMAIN requests' : RequestOk(q)'
<1>1. StoreGrows
  BY DEF StoreGrows
<1>2. \A t \in Threads : ThreadOk(t)'
  BY <1>1, ThreadKept DEF ApiInv
<1>3. \A t \in Threads, q \in DOMAIN requests : Holds(t, q)' <=> Holds(t, q)
  BY DEF Holds
<1>4. \A t \in Threads, q \in DOMAIN requests : Holds(t, q) => Given(t)' = Given(t)
  BY DEF Holds, Given, At
<1>5. \A q \in DOMAIN requests : RequestOk(q)'
  BY <1>3, <1>4, RequestKept DEF ApiInv
<1> QED
  BY <1>2, <1>5

\* A step that saves nothing.
LEMMA SavesQuiet ==
  ASSUME ApiInv, episodes' = episodes,
         \A t \in Threads : job'[t] = job[t] \/ job'[t].pc # "save"
  PROVE  (\A t \in Threads : SaveOk(t)') /\ EpisodeKept'
BY DEF ApiInv, SaveOk, EpisodeKept, At

\* A request is submitted.
LEMMA SubmitKeeps ==
  ASSUME ApiInv, NEW t \in Threads, NEW who \in Callers, submit_request(t, who)
  PROVE  ApiInv'
<1> DEFINE r == [status |-> "pending", response |-> "none", expires_at |-> now + 1, by |-> who]
<1>0. ApiTypes /\ now \in Nat
  BY ApiAssumption DEF ApiInv, ApiTypes
<1>n. PICK n \in Nat : n = Len(requests) + 1
  BY <1>0 DEF ApiTypes
<1>1. /\ UNCHANGED <<schema, starting, crashes, now>> /\ who = "operator"
      /\ hits' \in [{"tenant", "client"} -> [window : 0 .. now, count : 0 .. Limit]]
  BY <1>0, Admitted DEF submit_request
<1>2. /\ requests' = Append(requests, r) /\ told' = Append(told, {})
      /\ UNCHANGED <<contested, memory, episodes, job>>
  BY DEF submit_request
<1>3. r \in Request /\ r.status = "pending" /\ r.response = "none" /\ r.expires_at = now + 1 /\ r.by = who
  BY <1>0 DEF Request
<1> HIDE DEF r
<1>4. /\ requests' \in Seq(Request) /\ told' \in Seq(SUBSET Verdicts) /\ Len(told') = Len(requests')
      /\ DOMAIN requests' = DOMAIN requests \union {n} /\ n \notin DOMAIN requests
      /\ requests'[n] = r /\ told'[n] = {}
      /\ \A q \in DOMAIN requests : requests'[q] = requests[q] /\ told'[q] = told[q]
  BY <1>0, <1>n, <1>2, <1>3 DEF ApiTypes
<1>5. ApiTypes'
  BY <1>0, <1>1, <1>2, <1>4 DEF ApiTypes
<1>6. StoreGrows
  BY <1>0, <1>1, <1>3, <1>4 DEF StoreGrows
<1>7. \A u \in Threads : ThreadOk(u)'
  BY <1>0, <1>2, <1>6, ThreadKept DEF ApiInv
<1>8. \A q \in DOMAIN requests : RequestOk(q)'
  BY <1>2, <1>4, RequestKept DEF ApiInv, Holds, Given, At
<1>9. RequestOk(n)'
  <2>1. \A u \in Threads : ~Holds(u, n)'
    BY <1>2, <1>4 DEF Holds, ApiInv, ThreadOk
  <2> QED
    BY <1>1, <1>3, <1>4, <2>1 DEF RequestOk
<1>10. (\A u \in Threads : SaveOk(u)') /\ EpisodeKept'
  BY <1>2, SavesQuiet
<1> QED
  BY <1>4, <1>5, <1>7, <1>8, <1>9, <1>10 DEF ApiInv

\* A step that takes up request q, or hands it on: the thread's new job says what the
\* request has become, and a second decider is noticed.
LEMMA DeciderKeeps ==
  ASSUME ApiInv, ApiTypes', NEW t \in Threads, NEW q \in DOMAIN requests,
         UNCHANGED <<now, episodes>>,
         \A u \in Threads \ {t} : job'[u] = job[u],
         DOMAIN requests' = DOMAIN requests,
         \A p \in DOMAIN requests \ {q} : requests'[p] = requests[p] /\ told'[p] = told[p],
         requests'[q].expires_at = requests[q].expires_at,
         requests[q].status # "pending" => requests'[q].status # "pending",
         job[t].pc \in {"mark", "answer", "expire"} => job[t].id = q,
         job'[t].pc \in {"mark", "answer", "expire"} => job'[t].id = q,
         job'[t].pc # "save", ThreadOk(t)', RequestOk(q)',
         \A p \in DOMAIN requests \ {q} : p \in contested => p \in contested'
  PROVE  ApiInv'
<1>0. ApiTypes /\ now \in Nat
  BY ApiAssumption, SMTT(30) DEF ApiInv, ApiTypes
<1>1. StoreGrows
  BY <1>0 DEF StoreGrows
<1>2. \A u \in Threads : ThreadOk(u)'
  BY <1>0, <1>1, ThreadKept DEF ApiInv
<1>3. ASSUME NEW p \in DOMAIN requests, p # q PROVE RequestOk(p)'
  <2>1. \A u \in Threads : Holds(u, p)' <=> Holds(u, p)
    BY <1>3 DEF Holds
  <2>2. \A u \in Threads : Holds(u, p) => Given(u)' = Given(u)
    BY <1>3 DEF Holds, Given, At
  <2> QED
    BY <1>3, <2>1, <2>2, RequestKept DEF ApiInv
<1>4. (\A u \in Threads : SaveOk(u)') /\ EpisodeKept'
  BY SavesQuiet
<1> QED
  BY <1>2, <1>3, <1>4 DEF ApiInv

\* A reviewer's decision: what is pending is taken up; another decider on it is noticed.
LEMMA DecideLookKeeps ==
  ASSUME ApiInv, NEW t \in Threads, NEW who \in Callers, NEW q \in DOMAIN requests,
         NEW verdict \in Operator, DecideLook(t, who, q, verdict)
  PROVE  ApiInv'
<1> DEFINE j == [pc |-> "mark", id |-> q, verdict |-> verdict, by |-> who]
<1>0. ApiTypes /\ now \in Nat /\ q \in Nat
  BY ApiAssumption DEF ApiInv, ApiTypes
<1>1. /\ UNCHANGED <<schema, starting, crashes, now>> /\ who = "operator" /\ At(t, "idle")
      /\ hits' \in [{"tenant", "client"} -> [window : 0 .. now, count : 0 .. Limit]]
  BY <1>0, Admitted DEF DecideLook, Operator
<1>2. UNCHANGED <<requests, told, memory, episodes>>
  BY DEF DecideLook
<1>3. CASE requests[q].status = "pending"
  <2>1. /\ job' = [job EXCEPT ![t] = j]
        /\ contested' = IF Busy(q, t) THEN contested \union {q} ELSE contested
    BY <1>3 DEF DecideLook, Goto, Meet
  <2>2. j \in Deciding /\ j.pc = "mark" /\ j.id = q /\ j.by = who
    BY <1>0 DEF Deciding
  <2>3. job'[t] = j /\ \A u \in Threads \ {t} : job'[u] = job[u]
    BY <1>0, <2>1 DEF ApiTypes
  <2> HIDE DEF j
  <2>4. ApiTypes'
    <3>1. j \in Job
      BY <2>2 DEF Job
    <3> QED
      BY <1>0, <1>1, <1>2, <2>1, <3>1 DEF ApiTypes
  <2>5. ThreadOk(t)'
    BY <1>1, <1>2, <2>2, <2>3 DEF ThreadOk, At
  <2>6. RequestOk(q)'
    <3>1. RequestOk(q)
      BY DEF ApiInv
    <3>2. CASE q \in contested'
      BY <1>2, <3>1, <3>2 DEF RequestOk
    <3>3. CASE q \notin contested'
      <4>1. q \notin contested /\ ~Busy(q, t)
        BY <2>1, <3>3
      <4>2. \A u \in Threads \ {t} : ~Holds(u, q)'
        BY <2>3, <4>1 DEF Busy, Holds
      <4>3. Holds(t, q)' /\ Given(t)' = "pending"
        BY <2>2, <2>3 DEF Holds, Given, At
      <4> QED
        BY <1>2, <1>3, <3>1, <4>1, <4>2, <4>3 DEF RequestOk
    <3> QED
      BY <3>2, <3>3
  <2> QED
    BY <1>0, <1>1, <1>2, <2>1, <2>2, <2>3, <2>4, <2>5, <2>6, DeciderKeeps DEF At
<1>4. CASE requests[q].status # "pending"
  <2>1. UNCHANGED <<job, contested>>
    BY <1>4 DEF DecideLook
  <2>2. ApiTypes'
    BY <1>0, <1>1, <1>2, <2>1 DEF ApiTypes
  <2>3. (\A u \in Threads : ThreadOk(u)') /\ (\A p \in DOMAIN requests' : RequestOk(p)')
    BY <1>0, <1>1, <1>2, <2>1, StoreQuiet
  <2>4. (\A u \in Threads : SaveOk(u)') /\ EpisodeKept'
    BY <1>2, <2>1, SavesQuiet
  <2> QED
    BY <2>2, <2>3, <2>4 DEF ApiInv
<1> QED
  BY <1>3, <1>4

\* The verdict is set ...
LEMMA DecideMarkKeeps ==
  ASSUME ApiInv, NEW t \in Threads, DecideMark(t)
  PROVE  ApiInv'
<1> DEFINE j == [job[t] EXCEPT !.pc = "answer"]
           r == [requests[job[t].id] EXCEPT !.status = job[t].verdict, !.by = job[t].by]
<1>0. ApiTypes /\ job[t] \in Deciding /\ ThreadOk(t) /\ At(t, "mark")
  BY JobOf DEF ApiInv, DecideMark, At
<1>1. PICK q \in DOMAIN requests : q = job[t].id
  BY <1>0 DEF ThreadOk, At
<1>2. /\ requests' = [requests EXCEPT ![q] = r]
      /\ job' = [job EXCEPT ![t] = j]
      /\ UNCHANGED <<schema, starting, crashes, now, hits, memory, episodes, told, contested>>
  BY <1>0, <1>1 DEF DecideMark, Goto, Store, ApiTypes
<1>3. j \in Deciding /\ j.pc = "answer" /\ j.id = q /\ j.verdict = job[t].verdict /\ j.verdict \in Operator
  BY <1>0, <1>1 DEF Deciding
<1>4. requests[q] \in Request /\ RequestOk(q)
  BY <1>0 DEF ApiTypes, ApiInv
<1>5. /\ r \in Request /\ r.status = j.verdict /\ r.by = "operator"
      /\ r.expires_at = requests[q].expires_at /\ r.response = requests[q].response
      /\ r.status # "pending"
  <2>1. job[t].verdict \in Operator /\ job[t].by \in Callers /\ job[t].by = "operator"
    BY <1>0 DEF Deciding, ThreadOk
  <2> QED
    BY <1>1, <1>3, <1>4, <2>1 DEF Request, Verdicts, Operator
<1> HIDE DEF j, r
<1>6. job'[t] = j /\ \A u \in Threads \ {t} : job'[u] = job[u]
  BY <1>0, <1>2 DEF ApiTypes
<1>7. /\ requests'[q] = r /\ DOMAIN requests' = DOMAIN requests
      /\ \A p \in DOMAIN requests \ {q} : requests'[p] = requests[p]
  BY <1>2
<1>8. ApiTypes'
  <2>1. j \in Job
    BY <1>3 DEF Job
  <2>2. requests' \in Seq(Request) /\ Len(requests') = Len(requests)
    BY <1>0, <1>2, <1>5 DEF ApiTypes
  <2> QED
    BY <1>0, <1>2, <1>7, <2>1, <2>2 DEF ApiTypes
<1>9. ThreadOk(t)'
  BY <1>3, <1>5, <1>6, <1>7 DEF ThreadOk, At
<1>10. RequestOk(q)'
  <2>1. CASE q \in contested
    BY <1>2, <1>5, <1>7, <2>1 DEF RequestOk
  <2>2. CASE q \notin contested
    <3>1. Holds(t, q) /\ requests[q].status = "pending" /\ told[q] = {}
      BY <1>0, <1>1, <1>4, <2>2 DEF RequestOk, Holds, Given, At
    <3>2. \A u \in Threads \ {t} : ~Holds(u, q)'
      BY <1>4, <1>6, <2>2, <3>1 DEF RequestOk, Holds
    <3>3. Holds(t, q)' /\ Given(t)' = r.status
      BY <1>3, <1>5, <1>6 DEF Holds, Given, At
    <3> QED
      BY <1>2, <1>5, <1>7, <3>1, <3>2, <3>3 DEF RequestOk
  <2> QED
    BY <2>1, <2>2
<1> QED
  BY <1>0, <1>1, <1>2, <1>3, <1>5, <1>6, <1>7, <1>8, <1>9, <1>10, DeciderKeeps

\* ... and answered.
LEMMA DecideAnswerKeeps ==
  ASSUME ApiInv, NEW t \in Threads, DecideAnswer(t)
  PROVE  ApiInv'
<1> DEFINE r == [requests[job[t].id] EXCEPT !.response = job[t].verdict]
<1>0. ApiTypes /\ job[t] \in Deciding /\ ThreadOk(t) /\ At(t, "answer")
  BY JobOf DEF ApiInv, DecideAnswer, At
<1>1. PICK q \in DOMAIN requests : q = job[t].id
  BY <1>0 DEF ThreadOk, At
<1>2. /\ requests' = [requests EXCEPT ![q] = r]
      /\ told' = [told EXCEPT ![q] = told[q] \union {job[t].verdict}]
      /\ job' = [job EXCEPT ![t] = NoJob]
      /\ UNCHANGED <<schema, starting, crashes, now, hits, memory, episodes, contested>>
  BY <1>0, <1>1 DEF DecideAnswer, Goto, Store, ApiTypes
<1>3. requests[q] \in Request /\ RequestOk(q) /\ job[t].verdict \in Verdicts /\ requests[q].status # "pending"
      /\ q \in DOMAIN told
  BY <1>0, <1>1 DEF ApiTypes, ApiInv, Deciding, Operator, Verdicts, ThreadOk, At
<1>4. /\ r \in Request /\ r.status = requests[q].status /\ r.by = requests[q].by
      /\ r.expires_at = requests[q].expires_at /\ r.response = job[t].verdict
  BY <1>1, <1>3 DEF Request, Verdicts
<1> HIDE DEF r
<1>5. job'[t] = NoJob /\ \A u \in Threads \ {t} : job'[u] = job[u]
  BY <1>0, <1>2 DEF ApiTypes
<1>6. /\ requests'[q] = r /\ DOMAIN requests' = DOMAIN requests
      /\ told'[q] = told[q] \union {job[t].verdict}
      /\ \A p \in DOMAIN requests \ {q} : requests'[p] = requests[p] /\ told'[p] = told[p]
  BY <1>2, <1>3
<1>7. ApiTypes'
  <2>1. NoJob \in Job
    BY DEF Job
  <2>2. requests' \in Seq(Request) /\ Len(requests') = Len(requests)
    BY <1>0, <1>2, <1>4 DEF ApiTypes
  <2>3. told' \in Seq(SUBSET Verdicts) /\ Len(told') = Len(told)
    <3>1. told \in Seq(SUBSET Verdicts) /\ told[q] \union {job[t].verdict} \in SUBSET Verdicts
      BY <1>0, <1>3 DEF ApiTypes
    <3> QED
      BY <1>2, <1>3, <3>1
  <2> QED
    BY <1>0, <1>2, <1>6, <2>1, <2>2, <2>3 DEF ApiTypes
<1>8. ThreadOk(t)'
  BY <1>5 DEF ThreadOk, At, NoJob
<1>9. RequestOk(q)'
  <2>1. CASE q \in contested
    BY <1>2, <1>3, <1>4, <1>6, <2>1 DEF RequestOk
  <2>2. CASE q \notin contested
    <3>1. Holds(t, q) /\ requests[q].status = job[t].verdict
      BY <1>0, <1>1, <1>3, <2>2 DEF RequestOk, Holds, Given, At
    <3>2. \A u \in Threads : ~Holds(u, q)'
      BY <1>3, <1>5, <2>2, <3>1 DEF RequestOk, Holds, NoJob
    <3> QED
      BY <1>2, <1>3, <1>4, <1>6, <2>2, <3>1, <3>2 DEF RequestOk
  <2> QED
    BY <2>1, <2>2
<1> QED
  BY <1>0, <1>1, <1>2, <1>3, <1>4, <1>5, <1>6, <1>7, <1>8, <1>9, DeciderKeeps DEF NoJob

\* A step after which one thread, that neither decides nor saves, has gone on.
LEMMA ReaderKeeps ==
  ASSUME ApiInv, ApiTypes', NEW t \in Threads, UNCHANGED <<now, episodes, requests, told, contested>>,
         \A u \in Threads \ {t} : job'[u] = job[u],
         job[t].pc \notin {"mark", "answer", "expire"},
         job'[t].pc \notin {"mark", "answer", "expire", "save"}, ThreadOk(t)'
  PROVE  ApiInv'
<1>0. ApiTypes /\ now \in Nat
  BY ApiAssumption DEF ApiInv, ApiTypes
<1>1. StoreGrows
  BY <1>0 DEF StoreGrows
<1>2. \A u \in Threads : ThreadOk(u)'
  BY <1>0, <1>1, ThreadKept DEF ApiInv
<1>3. \A q \in DOMAIN requests : RequestOk(q)'
  <2>1. \A u \in Threads, q \in DOMAIN requests : Holds(u, q)' <=> Holds(u, q)
    BY DEF Holds
  <2>2. \A u \in Threads, q \in DOMAIN requests : Holds(u, q) => Given(u)' = Given(u)
    BY DEF Holds, Given, At
  <2> QED
    BY <2>1, <2>2, RequestKept DEF ApiInv
<1>4. (\A u \in Threads : SaveOk(u)') /\ EpisodeKept'
  BY SavesQuiet
<1> QED
  BY <1>2, <1>3, <1>4 DEF ApiInv

\* The list of what is pending is asked for.
LEMMA PendingBeginKeeps ==
  ASSUME ApiInv, NEW t \in Threads, NEW who \in Callers, PendingBegin(t, who)
  PROVE  ApiInv'
<1> DEFINE j == [pc |-> "sweep", id |-> 1, size |-> Len(requests), cut |-> now]
<1>0. ApiTypes /\ now \in Nat
  BY ApiAssumption DEF ApiInv, ApiTypes
<1>1. /\ UNCHANGED <<schema, starting, crashes, now, requests, told, contested, memory, episodes>>
      /\ At(t, "idle") /\ job' = [job EXCEPT ![t] = j]
      /\ hits' \in [{"tenant", "client"} -> [window : 0 .. now, count : 0 .. Limit]]
  BY <1>0, Admitted DEF PendingBegin, Goto
<1>2. j \in Sweeping /\ j.pc = "sweep" /\ j.id = 1 /\ j.cut = now
  BY <1>0 DEF ApiTypes, Sweeping
<1> HIDE DEF j
<1>3. job'[t] = j /\ \A u \in Threads \ {t} : job'[u] = job[u]
  BY <1>0, <1>1 DEF ApiTypes
<1>4. ApiTypes'
  <2>1. j \in Job
    BY <1>2 DEF Job
  <2> QED
    BY <1>0, <1>1, <2>1 DEF ApiTypes
<1>5. ThreadOk(t)'
  BY <1>0, <1>1, <1>2, <1>3 DEF ThreadOk, At, ApiTypes
<1> QED
  BY <1>1, <1>2, <1>3, <1>4, <1>5, ReaderKeeps DEF At

\* A turn of the sweep: it gives up, is done, expires a request or passes it.
LEMMA SweepStepKeeps ==
  ASSUME ApiInv, NEW t \in Threads, SweepStep(t)
  PROVE  ApiInv'
<1>0. /\ ApiTypes /\ now \in Nat /\ job[t] \in Sweeping /\ ThreadOk(t) /\ At(t, "sweep")
      /\ DOMAIN requests = 1 .. Len(requests) /\ Len(requests) \in Nat
  BY JobOf, ApiAssumption DEF ApiInv, ApiTypes, SweepStep, At
<1>1. UNCHANGED <<schema, starting, crashes, now, hits, memory, episodes, told>>
  BY DEF SweepStep, Store
<1>2. job[t].id \in Nat \ {0} /\ job[t].size \in Nat /\ job[t].cut \in Nat /\ job[t].pc = "sweep"
  BY <1>0 DEF Sweeping, At
<1>3. ASSUME NEW j \in Job, job' = [job EXCEPT ![t] = j], UNCHANGED <<requests, contested>>,
             j.pc \notin {"mark", "answer", "expire", "save"},
             j.pc \in {"sweep", "list", "listed"} =>
               /\ j.pc # "listed" /\ j.cut = job[t].cut
               /\ \A q \in DOMAIN requests :
                    requests[q].status = "pending" /\ (q < j.id \/ j.pc = "list") =>
                      requests[q].expires_at > j.cut
      PROVE  ApiInv'
  <2>1. job'[t] = j /\ \A u \in Threads \ {t} : job'[u] = job[u]
    BY <1>0, <1>3 DEF ApiTypes
  <2>2. ApiTypes'
    BY <1>0, <1>1, <1>3 DEF ApiTypes
  <2>3. ThreadOk(t)'
    BY <1>0, <1>1, <1>3, <2>1 DEF ThreadOk, At
  <2> QED
    BY <1>1, <1>2, <1>3, <2>1, <2>2, <2>3, ReaderKeeps
<1>4. ASSUME job' = [job EXCEPT ![t] = NoJob], UNCHANGED <<requests, contested>> PROVE ApiInv'
  BY <1>3, <1>4 DEF Job, NoJob
<1>5. ASSUME job[t].id > Len(requests), job' = [job EXCEPT ![t] = [job[t] EXCEPT !.pc = "list"]],
             UNCHANGED <<requests, contested>>
      PROVE  ApiInv'
  <2> DEFINE j == [job[t] EXCEPT !.pc = "list"]
  <2>1. j \in Sweeping /\ j.pc = "list" /\ j.cut = job[t].cut
    BY <1>0 DEF Sweeping
  <2>2. \A q \in DOMAIN requests : requests[q].status = "pending" => requests[q].expires_at > job[t].cut
    <3> SUFFICES ASSUME NEW q \in DOMAIN requests, requests[q].status = "pending"
                 PROVE  requests[q].expires_at > job[t].cut
      OBVIOUS
    <3>1. q < job[t].id
      BY <1>0, <1>2, <1>5
    <3> QED
      BY <1>0, <3>1 DEF ThreadOk, At
  <2>3. j \in Job
    BY <2>1 DEF Job
  <2> HIDE DEF j
  <2>4. job' = [job EXCEPT ![t] = j]
    BY <1>5 DEF j
  <2> QED
    BY <1>3, <1>5, <2>1, <2>2, <2>3, <2>4
<1>6. ASSUME ~Expired(job[t].id, job[t].cut), job[t].id \in DOMAIN requests,
             job' = [job EXCEPT ![t] = [job[t] EXCEPT !.id = job[t].id + 1]],
             UNCHANGED <<requests, contested>>
      PROVE  ApiInv'
  <2> DEFINE j == [job[t] EXCEPT !.id = job[t].id + 1]
  <2>1. j \in Sweeping /\ j.pc = "sweep" /\ j.cut = job[t].cut /\ j.id = job[t].id + 1
    BY <1>0, <1>2 DEF Sweeping
  <2>2. ASSUME NEW q \in DOMAIN requests, requests[q].status = "pending", q < job[t].id + 1
        PROVE  requests[q].expires_at > job[t].cut
    <3>1. CASE q < job[t].id
      BY <1>0, <2>2, <3>1 DEF ThreadOk, At
    <3>2. CASE q = job[t].id
      <4>1. requests[q] \in Request
        BY <1>0 DEF ApiTypes
      <4>2. requests[q].expires_at \in Nat
        BY <4>1 DEF Request
      <4> QED
        BY <1>2, <1>6, <2>2, <3>2, <4>2 DEF Expired
    <3> QED
      BY <1>0, <1>2, <2>2, <3>1, <3>2
  <2>3. j \in Job
    BY <2>1 DEF Job
  <2> HIDE DEF j
  <2>4. job' = [job EXCEPT ![t] = j]
    BY <1>6 DEF j
  <2> QED
    BY <1>3, <1>6, <2>1, <2>2, <2>3, <2>4
<1>7. ASSUME NEW q \in DOMAIN requests, q = job[t].id, Expired(q, job[t].cut),
             requests' = [requests EXCEPT ![q].status = "expired"],
             job' = [job EXCEPT ![t] = [job[t] EXCEPT !.pc = "expire"]],
             contested' = IF Busy(q, t) THEN contested \union {q} ELSE contested
      PROVE  ApiInv'
  <2> DEFINE j == [job[t] EXCEPT !.pc = "expire"]
             r == [requests[q] EXCEPT !.status = "expired"]
  <2>1. j \in Sweeping /\ j.pc = "expire" /\ j.cut = job[t].cut /\ j.id = job[t].id
    BY <1>0, <1>2 DEF Sweeping
  <2>2. requests[q] \in Request /\ RequestOk(q) /\ requests[q].status = "pending"
    BY <1>0, <1>7 DEF ApiTypes, ApiInv, Expired
  <2>3. /\ r \in Request /\ r.status = "expired" /\ r.by = requests[q].by
        /\ r.expires_at = requests[q].expires_at /\ r.response = requests[q].response
    BY <2>2 DEF Request, Verdicts
  <2>4. requests' = [requests EXCEPT ![q] = r] /\ job' = [job EXCEPT ![t] = j]
    BY <1>7
  <2> HIDE DEF j, r
  <2>5. job'[t] = j /\ \A u \in Threads \ {t} : job'[u] = job[u]
    BY <1>0, <2>4 DEF ApiTypes
  <2>6. /\ requests'[q] = r /\ DOMAIN requests' = DOMAIN requests
        /\ \A p \in DOMAIN requests \ {q} : requests'[p] = requests[p]
    BY <2>4
  <2>7. ApiTypes'
    <3>1. j \in Job
      BY <2>1 DEF Job
    <3>2. requests' \in Seq(Request) /\ Len(requests') = Len(requests)
      BY <1>0, <2>3, <2>4 DEF ApiTypes
    <3>3. contested' \subseteq DOMAIN requests'
      BY <1>0, <1>7, <2>6 DEF ApiTypes
    <3> QED
      BY <1>0, <1>1, <2>4, <3>1, <3>2, <3>3 DEF ApiTypes
  <2>8. ThreadOk(t)'
    <3>1. ASSUME NEW p \in DOMAIN requests, requests'[p].status = "pending", p < job[t].id
          PROVE  requests'[p].expires_at > job[t].cut
      BY <1>0, <1>7, <2>3, <2>6, <3>1 DEF ThreadOk, At
    <3>2. job[t].cut <= now
      BY <1>0 DEF ThreadOk, At
    <3> QED
      BY <1>1, <1>7, <2>1, <2>3, <2>5, <2>6, <3>1, <3>2 DEF ThreadOk, At
  <2>9. RequestOk(q)'
    <3>1. told'[q] = told[q]
      BY <1>1
    <3>2. CASE q \in contested'
      BY <2>2, <2>3, <2>6, <3>1, <3>2 DEF RequestOk
    <3>3. CASE q \notin contested'
      <4>1. q \notin contested /\ ~Busy(q, t)
        BY <1>7, <3>3
      <4>2. \A u \in Threads \ {t} : ~Holds(u, q)'
        BY <2>5, <4>1 DEF Busy, Holds
      <4>3. Holds(t, q)' /\ Given(t)' = "expired"
        BY <1>7, <2>1, <2>5 DEF Holds, Given, At
      <4>4. told[q] = {}
        BY <2>2 DEF RequestOk
      <4> QED
        BY <2>2, <2>3, <2>6, <3>1, <4>2, <4>3, <4>4 DEF RequestOk
    <3> QED
      BY <3>2, <3>3
  <2> QED
    BY <1>1, <1>2, <1>7, <2>1, <2>2, <2>3, <2>5, <2>6, <2>7, <2>8, <2>9, DeciderKeeps
<1>8. CASE Len(requests) # job[t].size
  BY <1>4, <1>8 DEF SweepStep, Goto
<1>9. CASE Len(requests) = job[t].size /\ job[t].id > Len(requests)
  BY <1>5, <1>9 DEF SweepStep, Goto
<1>10. CASE Len(requests) = job[t].size /\ ~(job[t].id > Len(requests))
  <2>1. PICK q \in DOMAIN requests : q = job[t].id
    BY <1>0, <1>2, <1>10
  <2>2. CASE Expired(q, job[t].cut)
    BY <1>7, <1>10, <2>1, <2>2 DEF SweepStep, Goto, Meet
  <2>3. CASE ~Expired(q, job[t].cut)
    BY <1>6, <1>10, <2>1, <2>3 DEF SweepStep, Goto
  <2> QED
    BY <2>2, <2>3
<1> QED
  BY <1>8, <1>9, <1>10

\* An expired request is answered, and the sweep goes on.
LEMMA SweepAnswerKeeps ==
  ASSUME ApiInv, NEW t \in Threads, SweepAnswer(t)
  PROVE  ApiInv'
<1> DEFINE j == [job[t] EXCEPT !.pc = "sweep", !.id = job[t].id + 1]
           r == [requests[job[t].id] EXCEPT !.response = "expired"]
<1>0. ApiTypes /\ job[t] \in Sweeping /\ ThreadOk(t) /\ At(t, "expire")
  BY JobOf DEF ApiInv, SweepAnswer, At
<1>1. PICK q \in DOMAIN requests : q = job[t].id
  BY <1>0 DEF ThreadOk, At
<1>2. /\ requests' = [requests EXCEPT ![q] = r]
      /\ job' = [job EXCEPT ![t] = j]
      /\ UNCHANGED <<schema, starting, crashes, now, hits, memory, episodes, told, contested>>
  BY <1>0, <1>1 DEF SweepAnswer, Goto, Store, ApiTypes
<1>3. /\ j \in Sweeping /\ j.pc = "sweep" /\ j.id = q + 1 /\ j.cut = job[t].cut
      /\ q \in Nat \ {0} /\ j.cut \in Nat
  <2>1. job[t].id \in Nat \ {0} /\ job[t].id + 1 \in Nat \ {0} /\ job[t].cut \in Nat
    BY <1>0 DEF Sweeping
  <2> QED
    BY <1>0, <1>1, <2>1 DEF Sweeping
<1>4. requests[q] \in Request /\ RequestOk(q) /\ requests[q].status # "pending"
  BY <1>0, <1>1 DEF ApiTypes, ApiInv, ThreadOk, At
<1>5. /\ r \in Request /\ r.status = requests[q].status /\ r.by = requests[q].by
      /\ r.expires_at = requests[q].expires_at /\ r.response = "expired"
  BY <1>1, <1>4 DEF Request, Verdicts
<1> HIDE DEF j, r
<1>6. job'[t] = j /\ \A u \in Threads \ {t} : job'[u] = job[u]
  BY <1>0, <1>2 DEF ApiTypes
<1>7. /\ requests'[q] = r /\ DOMAIN requests' = DOMAIN requests
      /\ \A p \in DOMAIN requests \ {q} : requests'[p] = requests[p]
  BY <1>2
<1>8. ApiTypes'
  <2>1. j \in Job
    BY <1>3 DEF Job
  <2>2. requests' \in Seq(Request) /\ Len(requests') = Len(requests)
    BY <1>0, <1>2, <1>5 DEF ApiTypes
  <2> QED
    BY <1>0, <1>2, <1>7, <2>1, <2>2 DEF ApiTypes
<1>9. ThreadOk(t)'
  <2>1. ASSUME NEW p \in DOMAIN requests, requests'[p].status = "pending", p < q + 1
        PROVE  requests'[p].expires_at > j.cut
    <3>1. p # q /\ p \in Nat
      BY <1>0, <1>4, <1>5, <1>7, <2>1 DEF ApiTypes
    <3>2. p < q /\ requests'[p] = requests[p]
      BY <1>3, <1>7, <2>1, <3>1
    <3> QED
      BY <1>0, <1>1, <1>3, <2>1, <3>2 DEF ThreadOk, At
  <2>2. j.cut <= now
    BY <1>0, <1>3 DEF ThreadOk, At
  <2> QED
    BY <1>2, <1>3, <1>6, <1>7, <2>1, <2>2 DEF ThreadOk, At
<1>10. RequestOk(q)'
  <2>1. CASE q \in contested
    BY <1>2, <1>4, <1>5, <1>7, <2>1 DEF RequestOk
  <2>2. CASE q \notin contested
    <3>1. Holds(t, q) /\ requests[q].status = "expired"
      BY <1>0, <1>1, <1>4, <2>2 DEF RequestOk, Holds, Given, At
    <3>2. \A u \in Threads : ~Holds(u, q)'
      BY <1>3, <1>4, <1>6, <2>2, <3>1 DEF RequestOk, Holds
    <3> QED
      BY <1>2, <1>4, <1>5, <1>7, <2>2, <3>1, <3>2 DEF RequestOk
  <2> QED
    BY <2>1, <2>2
<1> QED
  BY <1>0, <1>1, <1>2, <1>3, <1>4, <1>5, <1>6, <1>7, <1>8, <1>9, <1>10, DeciderKeeps

\* What is still pending is listed, and returned.
LEMMA PendingListKeeps ==
  ASSUME ApiInv, NEW t \in Threads, PendingList(t) \/ PendingReply(t)
  PROVE  ApiInv'
<1>0. ApiTypes
  BY DEF ApiInv
<1>1. UNCHANGED <<schema, starting, crashes, now, hits, memory, episodes, requests, told, contested>>
  BY DEF PendingList, PendingReply, Store
<1>2. CASE PendingList(t)
  <2> DEFINE j == [pc |-> "listed", cut |-> job[t].cut,
                   ids |-> {q \in DOMAIN requests : requests[q].status = "pending"}]
  <2>1. job[t] \in Sweeping /\ job[t].pc = "list" /\ ThreadOk(t)
    BY <1>0, <1>2, JobOf DEF PendingList, At, ApiInv
  <2>2. j \in Listing /\ j.pc = "listed"
    BY <1>0, <2>1 DEF ApiTypes, Sweeping, Listing
  <2>3. /\ j.cut = job[t].cut /\ j.cut <= now /\ j.ids \subseteq DOMAIN requests
        /\ \A q \in j.ids : requests[q].expires_at > j.cut
    BY <2>1 DEF ThreadOk, At
  <2>4. job' = [job EXCEPT ![t] = j]
    BY <1>2 DEF PendingList, Goto
  <2> HIDE DEF j
  <2>5. job'[t] = j /\ \A u \in Threads \ {t} : job'[u] = job[u]
    BY <1>0, <2>4 DEF ApiTypes
  <2>6. ApiTypes'
    <3>1. j \in Job
      BY <2>2 DEF Job
    <3> QED
      BY <1>0, <1>1, <2>4, <3>1 DEF ApiTypes
  <2>7. ThreadOk(t)'
    BY <1>1, <2>2, <2>3, <2>5 DEF ThreadOk, At
  <2> QED
    BY <1>1, <2>1, <2>2, <2>5, <2>6, <2>7, ReaderKeeps
<1>3. CASE PendingReply(t)
  <2>1. job[t].pc = "listed" /\ job' = [job EXCEPT ![t] = NoJob]
    BY <1>3 DEF PendingReply, At, Goto
  <2>2. job'[t] = NoJob /\ \A u \in Threads \ {t} : job'[u] = job[u]
    BY <1>0, <2>1 DEF ApiTypes
  <2>3. ApiTypes'
    BY <1>0, <1>1, <2>1 DEF ApiTypes, Job
  <2>4. ThreadOk(t)'
    BY <2>2 DEF ThreadOk, At, NoJob
  <2> QED
    BY <1>1, <2>1, <2>2, <2>3, <2>4, ReaderKeeps DEF NoJob
<1> QED
  BY <1>2, <1>3

\* An episode is played and remembered, and its row is read.
LEMMA PlayKeeps ==
  ASSUME ApiInv, NEW t \in Threads,
         (\E who \in Callers : Baseline(t, who)) \/ Played(t) \/ SaveLook(t)
  PROVE  ApiInv'
<1>0. ApiTypes /\ now \in Nat
  BY ApiAssumption DEF ApiInv, ApiTypes
<1>1. ASSUME NEW j \in Job, job' = [job EXCEPT ![t] = j],
             j.pc \in {"play", "look"} \/ (j.pc = "save" /\ j.seen = episodes[j.table].row),
             job[t].pc \in {"idle", "play", "look"},
             UNCHANGED <<crashes, now, requests, told, contested, episodes>>,
             hits' \in [{"tenant", "client"} -> [window : 0 .. now, count : 0 .. Limit]],
             memory' \in Results \union {None}
      PROVE  ApiInv'
  <2>1. job'[t] = j /\ \A u \in Threads \ {t} : job'[u] = job[u]
    BY <1>0, <1>1 DEF ApiTypes
  <2>2. ApiTypes'
    BY <1>0, <1>1 DEF ApiTypes
  <2>3. (\A u \in Threads : ThreadOk(u)') /\ (\A q \in DOMAIN requests' : RequestOk(q)')
    BY <1>0, <1>1, <2>1, StoreQuiet
  <2>4. \A u \in Threads : SaveOk(u)'
    BY <1>1, <2>1 DEF ApiInv, SaveOk, At
  <2> QED
    BY <1>1, <2>2, <2>3, <2>4 DEF ApiInv, EpisodeKept
<1>2. ASSUME NEW who \in Callers, Baseline(t, who) PROVE ApiInv'
  <2>1. /\ UNCHANGED <<crashes, now, requests, told, contested, memory, episodes>>
        /\ job[t].pc = "idle" /\ job' = [job EXCEPT ![t] = [pc |-> "play"]]
        /\ hits' \in [{"tenant", "client"} -> [window : 0 .. now, count : 0 .. Limit]]
    BY <1>0, <1>2, Admitted DEF Baseline, Goto, At
  <2>2. memory' \in Results \union {None}
    BY <1>0, <2>1 DEF ApiTypes
  <2> QED
    BY <1>1, <2>1, <2>2 DEF Job
<1>3. CASE Played(t)
  <2>1. PICK r \in Results :
          memory' = r /\ job' = [job EXCEPT ![t] = [pc |-> "look", table |-> "episode", result |-> r]]
    BY <1>3 DEF Played, Goto
  <2>2. [pc |-> "look", table |-> "episode", result |-> r] \in Job
    BY DEF Job, Looking
  <2>3. job[t].pc = "play" /\ UNCHANGED <<crashes, now, hits, requests, told, contested, episodes>>
    BY <1>3 DEF Played, At, Approvals
  <2>4. hits' \in [{"tenant", "client"} -> [window : 0 .. now, count : 0 .. Limit]]
    BY <1>0, <2>3 DEF ApiTypes
  <2> QED
    BY <1>1, <2>1, <2>2, <2>3, <2>4
<1>4. CASE SaveLook(t)
  <2> DEFINE j == [pc |-> "save", table |-> job[t].table, result |-> job[t].result,
                   seen |-> episodes[job[t].table].row, stale |-> FALSE]
  <2>1. job[t] \in Looking /\ job[t].pc = "look"
    BY <1>0, <1>4, JobOf DEF SaveLook, At
  <2>2. episodes[job[t].table] \in [row : Columned, last : Columned]
    BY <1>0, <2>1 DEF ApiTypes, Looking
  <2>3. j \in Saving /\ j.pc = "save" /\ j.seen = episodes[j.table].row
    BY <2>1, <2>2 DEF Looking, Saving
  <2>4. job' = [job EXCEPT ![t] = j]
    BY <1>4 DEF SaveLook, Goto
  <2>5. UNCHANGED <<crashes, now, hits, requests, told, contested, memory, episodes>>
    BY <1>4 DEF SaveLook, Approvals
  <2> HIDE DEF j
  <2>6. j \in Job
    BY <2>3 DEF Job
  <2>7. /\ hits' \in [{"tenant", "client"} -> [window : 0 .. now, count : 0 .. Limit]]
        /\ memory' \in Results \union {None}
    BY <1>0, <2>5 DEF ApiTypes
  <2> QED
    BY <1>1, <2>1, <2>3, <2>4, <2>5, <2>6, <2>7
<1> QED
  BY <1>2, <1>3, <1>4

\* Only the columns that differ are written, and from what the row still was that makes
\* it the run that is saved.
LEMMA UpsertOf ==
  ASSUME NEW seen \in Columned, NEW row \in Columned, NEW r \in Results
  PROVE  /\ Upsert(seen, row, r) \in Columned
         /\ seen = row => Upsert(seen, row, r) = r
<1>1. r \in Columned /\ DOMAIN r = {"score", "steps"}
  BY ApiAssumption DEF Columned
<1>2. CASE seen = None
  BY <1>1, <1>2 DEF Upsert
<1>3. CASE seen # None
  <2> DEFINE new == [c \in {"score", "steps"} |-> IF r[c] # seen[c] THEN r[c] ELSE row[c]]
  <2>1. Upsert(seen, row, r) = new
    BY <1>1, <1>3 DEF Upsert
  <2>2. new = [score |-> IF r.score # seen.score THEN r.score ELSE row.score,
               steps |-> IF r.steps # seen.steps THEN r.steps ELSE row.steps]
    OBVIOUS
  <2>3. r = [score |-> r.score, steps |-> r.steps]
    BY <1>1 DEF Columned
  <2>4. new \in Columned
    BY <1>1, <2>2 DEF Columned
  <2>5. seen = row => new = r
    BY <2>2, <2>3
  <2> QED
    BY <2>1, <2>4, <2>5
<1> QED
  BY <1>2, <1>3

\* The run is saved, or its save fails.
LEMMA SaveKeeps ==
  ASSUME ApiInv, NEW t \in Threads, SaveCommit(t) \/ SaveFails(t)
  PROVE  ApiInv'
<1>0. /\ ApiTypes /\ now \in Nat /\ job[t] \in Saving /\ job[t].pc = "save"
  BY JobOf, ApiAssumption DEF ApiInv, ApiTypes, SaveCommit, SaveFails, At
<1>1. UNCHANGED <<schema, starting, crashes, now, hits, requests, told, contested, memory>>
  BY DEF SaveCommit, SaveFails, Approvals
<1>2. SaveNext(t) \in Job /\ SaveNext(t).pc \in {"look", "idle"}
  BY <1>0 DEF SaveNext, Job, Looking, Saving, NoJob
<1>3. CASE SaveFails(t)
  <2>1. job' = [job EXCEPT ![t] = SaveNext(t)] /\ episodes' = episodes
    BY <1>3 DEF SaveFails, Goto
  <2>2. job'[t] = SaveNext(t) /\ \A u \in Threads \ {t} : job'[u] = job[u]
    BY <1>0, <2>1 DEF ApiTypes
  <2>3. ApiTypes'
    BY <1>0, <1>1, <1>2, <2>1 DEF ApiTypes
  <2>4. (\A u \in Threads : ThreadOk(u)') /\ (\A q \in DOMAIN requests' : RequestOk(q)')
    BY <1>0, <1>1, <1>2, <2>2, StoreQuiet
  <2>5. (\A u \in Threads : SaveOk(u)') /\ EpisodeKept'
    BY <1>2, <2>1, <2>2, SavesQuiet
  <2> QED
    BY <2>3, <2>4, <2>5 DEF ApiInv
<1>4. CASE SaveCommit(t)
  <2>1. PICK k \in {"episode", "example"}, r \in Results, seen \in Columned :
          k = job[t].table /\ r = job[t].result /\ seen = job[t].seen
    BY <1>0 DEF Saving
  <2>2. PICK row \in Columned : row = episodes[k].row
    BY <1>0 DEF ApiTypes
  <2>3. PICK new \in Columned : new = Upsert(seen, row, r) /\ (seen = row => new = r)
    BY UpsertOf
  <2>4. /\ episodes' = [episodes EXCEPT ![k] = [row |-> new, last |-> IF job[t].stale THEN new ELSE r]]
        /\ job' = [u \in Threads |->
                     IF u = t THEN SaveNext(t)
                     ELSE IF At(u, "save") /\ job[u].table = k THEN [job[u] EXCEPT !.stale = TRUE]
                     ELSE job[u]]
    BY <1>4, <2>1, <2>2, <2>3 DEF SaveCommit
  <2>5. job[t].stale \/ new = r
    BY <1>0, <2>1, <2>2, <2>3 DEF ApiInv, SaveOk, At
  <2>6. r \in Columned
    BY ApiAssumption DEF Columned
  <2>7. /\ episodes'[k].row = new /\ episodes'[k].last = new
        /\ \A i \in {"episode", "example"} \ {k} : episodes'[i] = episodes[i]
        /\ episodes' \in [{"episode", "example"} -> [row : Columned, last : Columned]]
    BY <1>0, <2>4, <2>5, <2>6 DEF ApiTypes
  <2>8. ASSUME NEW u \in Threads, u # t
        PROVE  /\ job'[u] \in Job /\ job'[u].pc = job[u].pc
               /\ ~At(u, "save") => job'[u] = job[u]
               /\ At(u, "save") => /\ job'[u].table = job[u].table /\ job'[u].seen = job[u].seen
                                   /\ job'[u].stale = (job[u].stale \/ job[u].table = k)
    <3>1. job'[u] = IF At(u, "save") /\ job[u].table = k THEN [job[u] EXCEPT !.stale = TRUE] ELSE job[u]
      BY <2>4, <2>8
    <3>2. CASE At(u, "save")
      <4>1. job[u] \in Saving
        BY <1>0, <3>2, JobOf
      <4>2. job'[u] \in Saving
        BY <3>1, <4>1 DEF Saving
      <4> QED
        BY <3>1, <3>2, <4>1, <4>2 DEF Saving, Job
    <3>3. CASE ~At(u, "save")
      BY <1>0, <3>1, <3>3 DEF ApiTypes
    <3> QED
      BY <3>2, <3>3
  <2>9. job'[t] = SaveNext(t) /\ job' \in [Threads -> Job]
    BY <1>2, <2>4, <2>8
  <2>10. ApiTypes'
    BY <1>0, <1>1, <2>7, <2>9 DEF ApiTypes
  <2>11. (\A u \in Threads : ThreadOk(u)') /\ (\A q \in DOMAIN requests' : RequestOk(q)')
    BY <1>0, <1>1, <1>2, <2>8, <2>9, StoreQuiet DEF At
  <2>12. ASSUME NEW u \in Threads PROVE SaveOk(u)'
    <3>1. CASE u = t
      BY <1>2, <2>9, <3>1 DEF SaveOk, At
    <3>2. CASE u # t /\ At(u, "save")
      <4>1. job[u].table \in {"episode", "example"} /\ SaveOk(u)
        BY <1>0, <3>2, JobOf DEF Saving, ApiInv
      <4>2. /\ job'[u].table = job[u].table /\ job'[u].seen = job[u].seen
            /\ job'[u].stale = (job[u].stale \/ job[u].table = k)
        BY <2>8, <3>2
      <4>3. CASE job[u].table = k
        BY <4>2, <4>3 DEF SaveOk
      <4>4. CASE job[u].table # k
        <5>1. episodes'[job[u].table] = episodes[job[u].table]
          BY <2>7, <4>1, <4>4
        <5> QED
          BY <3>2, <4>1, <4>2, <4>4, <5>1 DEF SaveOk
      <4> QED
        BY <4>3, <4>4
    <3>3. CASE u # t /\ ~At(u, "save")
      BY <2>8, <3>3 DEF SaveOk, At
    <3> QED
      BY <3>1, <3>2, <3>3
  <2>13. EpisodeKept'
    BY <1>0, <2>7 DEF ApiTypes, ApiInv, EpisodeKept
  <2> QED
    BY <2>10, <2>11, <2>12, <2>13 DEF ApiInv
<1> QED
  BY <1>3, <1>4

\* Time passes, and instances start.
LEMMA TimeKeeps ==
  ASSUME ApiInv, Tick \/ (\E i \in Instances : Migrate(i) /\ UNCHANGED api) \/ UNCHANGED vars
  PROVE  ApiInv'
<1>0. ApiTypes /\ now \in Nat /\ MaxNow \in Nat
  BY ApiAssumption DEF ApiInv, ApiTypes
<1>1. UNCHANGED <<crashes, hits, requests, told, contested, memory, episodes, job>>
  BY DEF Tick, api, vars, Migrate, InspectTables, CreateTable, ReadVersion, InspectColumn, AlterTable,
         RecordVersions
<1>2. now' \in 0 .. MaxNow /\ now <= now'
  BY <1>0 DEF ApiTypes, Tick, api, vars
<1>3. ApiTypes'
  <2>1. hits' \in [{"tenant", "client"} -> [window : 0 .. now', count : 0 .. Limit]]
    <3>1. \A n \in 0 .. now : n \in 0 .. now'
      BY <1>0, <1>2
    <3> QED
      BY <1>0, <1>1, <3>1 DEF ApiTypes
  <2> QED
    BY <1>0, <1>1, <1>2, <2>1 DEF ApiTypes
<1>4. (\A u \in Threads : ThreadOk(u)') /\ (\A q \in DOMAIN requests' : RequestOk(q)')
  BY <1>0, <1>1, <1>2, StoreQuiet
<1>5. (\A u \in Threads : SaveOk(u)') /\ EpisodeKept'
  BY <1>1, SavesQuiet
<1> QED
  BY <1>3, <1>4, <1>5 DEF ApiInv

\* An instance dies; with the server goes all it held in memory.
LEMMA CrashApiKeeps ==
  ASSUME ApiInv, NEW i \in Instances, Crash(i)
  PROVE  ApiInv'
<1>0. ApiTypes /\ now \in Nat /\ MaxNow \in Nat /\ Limit \in Nat
  BY ApiAssumption DEF ApiInv, ApiTypes
<1>1. crashes' \in 0 .. MaxCrashes /\ UNCHANGED <<now, episodes>>
  BY <1>0, MigrationAssumption DEF Crash, CrashInstance, ApiTypes
<1>2. CASE i = Server
  <2>1. /\ hits' = [k \in {"tenant", "client"} |-> [window |-> 0, count |-> 0]]
        /\ requests' = << >> /\ told' = << >> /\ contested' = {} /\ memory' = None
        /\ job' = [t \in Threads |-> NoJob]
    BY <1>2 DEF Crash
  <2>2. ApiTypes'
    <3>1. 0 \in 0 .. now /\ 0 \in 0 .. Limit
      BY <1>0
    <3> QED
      BY <1>0, <1>1, <2>1, <3>1 DEF ApiTypes, Job
  <2>3. \A t \in Threads : job'[t].pc = "idle"
    BY <2>1 DEF NoJob
  <2>4. \A t \in Threads : ThreadOk(t)' /\ SaveOk(t)'
    BY <2>3 DEF ThreadOk, SaveOk, At
  <2> QED
    BY <1>1, <2>1, <2>2, <2>4 DEF ApiInv, EpisodeKept
<1>3. CASE i # Server
  <2>1. UNCHANGED <<hits, requests, told, contested, memory, job>>
    BY <1>3 DEF Crash
  <2>2. ApiTypes'
    BY <1>0, <1>1, <2>1 DEF ApiTypes
  <2>3. (\A u \in Threads : ThreadOk(u)') /\ (\A q \in DOMAIN requests' : RequestOk(q)')
    BY <1>0, <1>1, <2>1, StoreQuiet
  <2>4. (\A u \in Threads : SaveOk(u)') /\ EpisodeKept'
    BY <1>1, <2>1, SavesQuiet
  <2> QED
    BY <2>2, <2>3, <2>4 DEF ApiInv
<1> QED
  BY <1>2, <1>3

LEMMA ApiStarts == Init => ApiInv
<1> SUFFICES ASSUME Init PROVE ApiInv
  OBVIOUS
<1>1. 0 \in 0 .. MaxNow /\ 0 \in 0 .. Limit /\ 0 \in 0 .. 0 /\ 0 \in 0 .. MaxCrashes
  BY ApiAssumption, MigrationAssumption
<1>2. ApiTypes
  BY <1>1 DEF Init, MigrationInit, ApiTypes, Job, Columned, None
<1>3. \A t \in Threads : job[t].pc = "idle"
  BY DEF Init, NoJob
<1> QED
  BY <1>2, <1>3 DEF Init, ApiInv, ThreadOk, SaveOk, EpisodeKept, At

LEMMA ApiStays == ApiInv /\ [Next]_vars => ApiInv'
<1> SUFFICES ASSUME ApiInv, [Next]_vars PROVE ApiInv'
  OBVIOUS
<1>1. ASSUME NEW t \in Threads, Continue(t) PROVE ApiInv'
  BY <1>1, DecideMarkKeeps, DecideAnswerKeeps, SweepStepKeeps, SweepAnswerKeeps, PendingListKeeps,
     PlayKeeps, SaveKeeps DEF Continue
<1>2. ASSUME NEW t \in Threads, NEW who \in Callers,
             \/ submit_request(t, who) \/ PendingBegin(t, who) \/ Baseline(t, who)
             \/ \E q \in DOMAIN requests, verdict \in {"approved", "rejected"} :
                  DecideLook(t, who, q, verdict)
      PROVE  ApiInv'
  BY <1>2, SubmitKeeps, PendingBeginKeeps, PlayKeeps, DecideLookKeeps DEF Operator
<1> QED
  BY <1>1, <1>2, TimeKeeps, CrashApiKeeps DEF Next

----------------------------------------------------------------------------
\* Whatever instances start together, on whatever earlier database, and wherever they
\* stop: once the version rows say the schema is current, which is all that
\* /health/ready asks (schema_is_current, app/core/db.py), every table and every added
\* column is there.
THEOREM ReadyIsMigrated == Spec => []ReadyMeansMigrated
<1>1. MigrationInv => ReadyMeansMigrated
  <2> SUFFICES ASSUME MigrationInv, SchemaIsCurrent PROVE tables = Tables /\ columns = Columns
    BY DEF ReadyMeansMigrated
  <2>1. DatabaseOk /\ Latest \in Nat \ {0} /\ Versions = 1 .. Latest
    BY VersionsAre DEF MigrationInv
  <2>2. PICK k \in 0 .. Latest : recorded = 1 .. k
    BY <2>1 DEF DatabaseOk
  <2>3. k = Latest
    BY <2>2, NewestOf DEF SchemaIsCurrent
  <2>4. Latest \in recorded /\ \A w \in Columns : w <= Latest
    BY <2>1, <2>2, <2>3 DEF Columns
  <2> QED
    BY <2>1, <2>4 DEF DatabaseOk
<1> QED
  BY <1>1, MigrationStarts, MigrationStays, PTL DEF Spec

\* MigrationInv and ApiInv hold in every reachable state.
THEOREM ApiSafe == Spec => [](MigrationInv /\ ApiInv)
<1>1. MigrationInv /\ ApiInv /\ [Next]_vars => MigrationInv' /\ ApiInv'
  BY MigrationStays, ApiStays
<1> QED
  BY <1>1, MigrationStarts, ApiStarts, PTL DEF Spec

\* The approval store keeps its word, for any number of threads, requests and callers: a
\* verdict that was told stands unless two deciders met on the request, what is listed as
\* pending had not expired, and only who presents the token gets to it.
THEOREM ApprovalsKept == Spec => []ApprovalsHold
<1>1. MigrationInv /\ ApiInv => ApprovalsHold
  <2> SUFFICES ASSUME MigrationInv, ApiInv PROVE ApprovalsHold
    OBVIOUS
  <2>1. MigrationTypeOK
    <3>1. recorded \subseteq Versions
      <4>1. PICK k \in 0 .. Latest : recorded = 1 .. k
        BY DEF MigrationInv, DatabaseOk
      <4>2. Latest \in Nat /\ Versions = 1 .. Latest
        BY VersionsAre
      <4> QED
        BY <4>1, <4>2
    <3>2. \A i \in Instances : starting[i] \in Startup
      BY DEF MigrationInv
    <3> QED
      BY <3>1, <3>2 DEF MigrationInv, DatabaseOk, ApiInv, ApiTypes, MigrationTypeOK, Startup
  <2>2. TypeOK
    <3>1. DOMAIN hits = {"tenant", "client"} /\ \A k \in DOMAIN hits : hits[k].window \in 0 .. now /\ hits[k].count \in 0 .. Limit
      BY DEF ApiInv, ApiTypes
    <3>2. DOMAIN told = DOMAIN requests /\ contested \subseteq DOMAIN requests
      BY DEF ApiInv, ApiTypes
    <3>3. \A q \in DOMAIN requests : requests[q] \in Request
      BY DEF ApiInv, ApiTypes
    <3>4. \A k \in DOMAIN episodes : episodes[k].row \in Columned
      BY DEF ApiInv, ApiTypes
    <3>5. \A r \in Columned : DOMAIN r = DOMAIN None
      BY DEF Columned, None
    <3> QED
      BY <2>1, <3>1, <3>2, <3>3, <3>4, <3>5 DEF ApiInv, ApiTypes, TypeOK, Request
  <2>3. VerdictStands
    BY DEF ApiInv, RequestOk, Holds, VerdictStands
  <2>4. PendingAreLive /\ GateHolds
    BY DEF ApiInv, ThreadOk, RequestOk, PendingAreLive, GateHolds
  <2> QED
    BY <2>2, <2>3, <2>4 DEF ApprovalsHold
<1> QED
  BY <1>1, ApiSafe, PTL

\* The stored episode, and the example learned from it, are each one whole run: the last
\* that was saved, or what is left when two saves of it met (save_episode, save_trajectory).
THEOREM EpisodesKept == Spec => []EpisodeKept
<1>1. ApiInv => EpisodeKept
  BY DEF ApiInv
<1> QED
  BY <1>1, ApiSafe, PTL

----------------------------------------------------------------------------
(* The episode: the inductive invariant.                                   *)

\* A replay of actions, and what each of them arrives at.
PlaysOut(g, actions) ==
  g = [n \in 0 .. Len(actions) |-> IF n = 0 THEN Fresh ELSE Step(g[n - 1], actions[n])]
Yields(actions, e) ==
  /\ \E g : PlaysOut(g, actions)
  /\ \A g : PlaysOut(g, actions) => g[Len(actions)] = e

\* A request under way alone has done the first calls of one step of a replayed episode.
Ready(e, a) == Inject(Advance(e, a))
Treated(e, a) == Handle(Ready(e, a), a)
Underway(base, e, j) ==
  /\ Episode(base) /\ ~Done(base) /\ Yields(base.history, base)
  /\ j.pc = "handle" => e = Ready(base, j.act)
  /\ j.pc = "settle" => e = Treated(base, j.act).env /\ j.reward = Treated(base, j.act).reward
  /\ j.pc = "finish" =>
       e = Settle(Treated(base, j.act).env, j.act, Treated(base, j.act).reward)

\* While no two requests met, the episode is a replay, or a step further in one's hands.
Replayed ==
  ~overlapped =>
    /\ \A p, u \in Playing : p = u
    /\ Playing = {} => Yields(env.history, env)
    /\ \A p \in Playing : \E base : Underway(base, env, turn[p])

\* An email that was answered, passed on or rightly put off is resolved.
Worked(e) ==
  \A m \in DOMAIN e.mail :
    e.mail[m].act \in {"reply", "escalate"} \/ e.mail[m].act = Facts[m].action => e.mail[m].resolved

\* Who is late was charged, or a request that will charge them is under way.
Charging == \E p \in Players : turn[p].pc \in {"handle", "settle"}
Charged == Charging \/ env.history = << >> \/ Overdue(env) \subseteq env.charged

EnvInv == EnvTypeOK /\ Replayed /\ Worked(env) /\ Charged

\* What no call of a step takes away.
Keeps(e, f) ==
  /\ DOMAIN e.mail \subseteq DOMAIN f.mail /\ e.ranked <= f.ranked
  /\ \A m \in DOMAIN e.mail :
       /\ e.mail[m].resolved =>
            f.mail[m].resolved /\ f.mail[m].act = e.mail[m].act /\ f.mail[m].quality = e.mail[m].quality
       /\ e.mail[m].label # "none" => f.mail[m].label = e.mail[m].label

----------------------------------------------------------------------------
(* The calls of a step.                                                    *)

LEMMA KeepsOn ==
  ASSUME NEW e, NEW f, NEW g, Episode(e), Episode(f), Episode(g), Keeps(e, f), Keeps(f, g)
  PROVE  Keeps(e, g)
<1>1. DOMAIN e.mail \subseteq DOMAIN f.mail /\ DOMAIN f.mail \subseteq DOMAIN g.mail
  BY DEF Keeps
<1>2. e.ranked <= f.ranked /\ f.ranked <= g.ranked
  BY DEF Keeps
<1>3. e.ranked \in 0 .. 3 /\ f.ranked \in 0 .. 3 /\ g.ranked \in 0 .. 3
  BY DEF Episode
<1>4. ASSUME NEW m \in DOMAIN e.mail
      PROVE  /\ e.mail[m].resolved =>
                  /\ g.mail[m].resolved /\ g.mail[m].act = e.mail[m].act
                  /\ g.mail[m].quality = e.mail[m].quality
             /\ e.mail[m].label # "none" => g.mail[m].label = e.mail[m].label
  BY <1>1 DEF Keeps
<1> QED
  BY <1>1, <1>2, <1>3, <1>4 DEF Keeps

LEMMA ActionShape ==
  ASSUME NEW a \in Actions
  PROVE  /\ a.type \in {"classify", "reply", "escalate", "defer", "prioritize"}
         /\ a.type # "prioritize" => a.id \in Mails
         /\ a.type = "classify" => a.arg \in Labels
         /\ a.type = "reply" => a.arg \in 0 .. 5
         /\ a.type = "escalate" => a.arg \in {0, 1}
         /\ a.type = "prioritize" => a.arg \in 0 .. 3
         /\ Cost[a.type] \in Nat
  BY EnvAssumption DEF Actions, Act

LEMMA FactShape ==
  ASSUME NEW m \in Mails
  PROVE  Facts[m].action \in {"reply", "escalate", "defer", "ignore"} /\ Facts[m].label \in Labels
  BY EnvAssumption

\* A new email, and the episode reset begins.
LEMMA RecordOk ==
  ASSUME NEW m \in Mails
  PROVE  Record(m) \in EmailRecord
  BY EnvAssumption DEF Record, EmailRecord

LEMMA FreshOk == Episode(Fresh) /\ Worked(Fresh) /\ Fresh.history = << >>
<1>1. Fresh.mail = [m \in Start |-> Record(m)] /\ Start = Mails \ Later /\ Later \subseteq Mails
  BY DEF Fresh, Start, Later
<1>2. Fresh.mail \in [Mails \ Later -> EmailRecord]
  BY <1>1, RecordOk
<1>3. Episode(Fresh)
  BY <1>1, <1>2, EnvAssumption DEF Fresh, Episode
<1>4. \A m \in DOMAIN Fresh.mail : Fresh.mail[m].act = "none" /\ Facts[m].action # "none"
  BY <1>1, FactShape DEF Record
<1>5. Worked(Fresh)
  BY <1>4 DEF Worked
<1> QED
  BY <1>3, <1>5 DEF Fresh

\* Time passes.
LEMMA AdvanceDoes ==
  ASSUME NEW e, Episode(e), NEW a \in Actions
  PROVE  /\ Episode(Advance(e, a)) /\ Keeps(e, Advance(e, a))
         /\ Worked(e) => Worked(Advance(e, a))
         /\ Advance(e, a).history = e.history
<1> DEFINE r == Advance(e, a)
           cost == Cost[a.type]
           mail == [m \in DOMAIN e.mail |-> IF e.mail[m].resolved THEN e.mail[m]
                                            ELSE [e.mail[m] EXCEPT !.left = @ - cost]]
<1>1. cost \in Nat
  BY ActionShape
<1>2. /\ r.mail = mail /\ r.waiting = e.waiting /\ r.history = e.history /\ r.total = e.total
      /\ r.charged = e.charged /\ r.ranked = e.ranked /\ r.minute = e.minute + cost
      /\ r.remaining = AtLeast(0, e.remaining - cost)
  BY DEF Advance, Episode
<1>3. \A m \in DOMAIN e.mail : e.mail[m] \in EmailRecord
  BY DEF Episode
<1>4. \A m \in DOMAIN e.mail :
        /\ mail[m] \in EmailRecord /\ mail[m].resolved = e.mail[m].resolved
        /\ mail[m].act = e.mail[m].act /\ mail[m].quality = e.mail[m].quality
        /\ mail[m].label = e.mail[m].label
  BY <1>1, <1>3 DEF EmailRecord
<1>5. mail \in [Mails \ e.waiting -> EmailRecord] /\ DOMAIN mail = DOMAIN e.mail
  BY <1>4 DEF Episode
<1>6. r.remaining \in 0 .. Budget /\ r.minute \in Nat
  <2>1. e.remaining \in 0 .. Budget /\ e.minute \in Nat /\ Budget \in Nat
    BY EnvAssumption DEF Episode
  <2> QED
    BY <1>1, <1>2, <2>1 DEF AtLeast
<1>7. r \in [mail : {r.mail}, waiting : SUBSET Mails, remaining : 0 .. Budget, minute : Nat,
             history : Seq(Actions), total : Int, charged : SUBSET Mails, ranked : 0 .. 3]
  BY <1>2, <1>6 DEF Advance, Episode
<1>8. Episode(r)
  BY <1>2, <1>5, <1>7 DEF Episode
<1>9. Keeps(e, r) /\ (Worked(e) => Worked(r))
  <2> HIDE DEF mail
  <2> QED
    BY <1>2, <1>4, <1>5 DEF Keeps, Worked, Episode
<1> QED
  BY <1>2, <1>8, <1>9

\* Interruptions arrive.
LEMMA InjectDoes ==
  ASSUME NEW e, Episode(e)
  PROVE  /\ Episode(Inject(e)) /\ Keeps(e, Inject(e))
         /\ Worked(e) => Worked(Inject(e))
         /\ Inject(e).history = e.history
<1> DEFINE r == Inject(e)
           mail == [m \in DOMAIN e.mail \union Arrived(e) |->
                      IF m \in Arrived(e) THEN Record(m) ELSE e.mail[m]]
<1>1. Arrived(e) \subseteq e.waiting /\ e.waiting \subseteq Mails
  BY DEF Arrived, Episode
<1>2. /\ r.mail = mail /\ r.waiting = e.waiting \ Arrived(e) /\ r.history = e.history
      /\ r.ranked = e.ranked
  BY DEF Inject, Episode
<1>3. DOMAIN e.mail = Mails \ e.waiting /\ \A m \in DOMAIN e.mail : e.mail[m] \in EmailRecord
  BY DEF Episode
<1>4. mail \in [Mails \ r.waiting -> EmailRecord]
  <2>1. DOMAIN e.mail \union Arrived(e) = Mails \ r.waiting
    BY <1>1, <1>2, <1>3
  <2>2. \A m \in DOMAIN e.mail \union Arrived(e) : mail[m] \in EmailRecord
    BY <1>1, <1>3, RecordOk
  <2> QED
    BY <2>1, <2>2
<1>5. r \in [mail : {r.mail}, waiting : SUBSET Mails, remaining : 0 .. Budget, minute : Nat,
             history : Seq(Actions), total : Int, charged : SUBSET Mails, ranked : 0 .. 3]
  BY <1>1, <1>2 DEF Inject, Episode
<1>6. Episode(r)
  BY <1>2, <1>4, <1>5 DEF Episode
<1>7. \A m \in DOMAIN e.mail : m \in DOMAIN mail /\ mail[m] = e.mail[m]
  BY <1>1, <1>3
<1>8. \A m \in DOMAIN mail \ DOMAIN e.mail : mail[m].act = "none" /\ Facts[m].action # "none"
  BY <1>1, FactShape DEF Record
<1>9. e.ranked \in 0 .. 3
  BY DEF Episode
<1>10. Keeps(e, r)
  BY <1>2, <1>7, <1>9 DEF Keeps
<1>11. Worked(e) => Worked(r)
  <2> HIDE DEF mail
  <2> QED
    BY <1>2, <1>7, <1>8 DEF Worked
<1> QED
  BY <1>2, <1>6, <1>10, <1>11

\* A handler that puts one email's record in the place of another.
LEMMA GivesDoes ==
  ASSUME NEW e, Episode(e), NEW m \in DOMAIN e.mail, NEW rec \in EmailRecord, NEW reward \in Int,
         e.mail[m].resolved =>
           rec.resolved /\ rec.act = e.mail[m].act /\ rec.quality = e.mail[m].quality,
         e.mail[m].label # "none" => rec.label = e.mail[m].label,
         rec.act \in {"reply", "escalate"} \/ rec.act = Facts[m].action =>
           rec.resolved \/ rec.act = e.mail[m].act
  PROVE  LET h == Gives(e, m, rec, reward)
         IN /\ Episode(h.env) /\ Keeps(e, h.env) /\ h.reward \in Int
            /\ Worked(e) => Worked(h.env)
            /\ h.env.history = e.history
<1> DEFINE r == [e EXCEPT !.mail[m] = rec]
<1>1. Gives(e, m, rec, reward).env = r /\ Gives(e, m, rec, reward).reward = reward
  BY DEF Gives
<1>2. /\ r.mail = [e.mail EXCEPT ![m] = rec] /\ r.waiting = e.waiting /\ r.history = e.history
      /\ r.ranked = e.ranked
  BY DEF Episode
<1>3. r.mail \in [Mails \ r.waiting -> EmailRecord]
  BY <1>2 DEF Episode
<1>4. r \in [mail : {r.mail}, waiting : SUBSET Mails, remaining : 0 .. Budget, minute : Nat,
             history : Seq(Actions), total : Int, charged : SUBSET Mails, ranked : 0 .. 3]
  BY <1>2 DEF Episode
<1>5. Episode(r)
  BY <1>3, <1>4 DEF Episode
<1>6. e.ranked \in 0 .. 3 /\ DOMAIN r.mail = DOMAIN e.mail
  BY <1>2 DEF Episode
<1>7. r.mail[m] = rec /\ \A n \in DOMAIN e.mail : n # m => r.mail[n] = e.mail[n]
  BY <1>2 DEF Episode
<1>8. Keeps(e, r)
  BY <1>2, <1>6, <1>7 DEF Keeps
<1>9. Worked(e) => Worked(r)
  BY <1>6, <1>7 DEF Worked
<1> QED
  BY <1>1, <1>2, <1>5, <1>8, <1>9

\* What the handlers of an email have in common.
Harmless(e, h) ==
  /\ Episode(h.env) /\ Keeps(e, h.env) /\ h.reward \in Int
  /\ Worked(e) => Worked(h.env)
  /\ h.env.history = e.history

LEMMA RedundantHarmless ==
  ASSUME NEW e, Episode(e)
  PROVE  Harmless(e, Redundant(e))
  BY DEF Harmless, Redundant, Keeps, Episode

LEMMA ClassifyHarmless ==
  ASSUME NEW e, Episode(e), NEW a \in Actions, a.type = "classify", a.id \in DOMAIN e.mail
  PROVE  Harmless(e, Classify(e, a))
<1>1. CASE e.mail[a.id].label # "none"
  BY <1>1, RedundantHarmless DEF Classify
<1>2. CASE e.mail[a.id].label = "none"
  <2> DEFINE rec == [e.mail[a.id] EXCEPT !.label = a.arg, !.resolved = @ \/ a.arg = "spam"]
             reward == IF a.arg = Facts[a.id].label THEN 2 ELSE 0
  <2>1. e.mail[a.id] \in EmailRecord /\ a.arg \in Labels
    BY ActionShape DEF Episode
  <2>2. /\ rec \in EmailRecord /\ rec.act = e.mail[a.id].act /\ rec.quality = e.mail[a.id].quality
        /\ e.mail[a.id].resolved => rec.resolved
    BY <2>1 DEF EmailRecord
  <2>3. Classify(e, a) = Gives(e, a.id, rec, reward) /\ reward \in Int
    BY <1>2 DEF Classify
  <2> HIDE DEF rec, reward
  <2> QED
    BY <1>2, <2>2, <2>3, GivesDoes DEF Harmless
<1> QED
  BY <1>1, <1>2

LEMMA ReplyHarmless ==
  ASSUME NEW e, Episode(e), NEW a \in Actions, a.type = "reply", a.id \in DOMAIN e.mail
  PROVE  Harmless(e, Reply(e, a))
<1>1. CASE e.mail[a.id].resolved
  BY <1>1, RedundantHarmless DEF Reply
<1>2. CASE ~e.mail[a.id].resolved
  <2> DEFINE f == Facts[a.id]
             wrong == IF f.action = "reply" THEN 0 ELSE IF f.critical THEN 10 ELSE 2
             rec == [e.mail[a.id] EXCEPT !.act = "reply", !.resolved = TRUE, !.quality = a.arg]
             reward == a.arg - wrong
  <2>1. e.mail[a.id] \in EmailRecord /\ a.arg \in 0 .. 5
    BY ActionShape DEF Episode
  <2>2. rec \in EmailRecord /\ rec.label = e.mail[a.id].label
    BY <2>1 DEF EmailRecord
  <2>3. rec.act \in {"reply", "escalate"} \/ rec.act = Facts[a.id].action => rec.resolved
    BY <2>1 DEF EmailRecord
  <2>4. Reply(e, a) = Gives(e, a.id, rec, reward) /\ reward \in Int
    BY <1>2, <2>1 DEF Reply
  <2> HIDE DEF rec, reward
  <2> QED
    BY <1>2, <2>2, <2>3, <2>4, GivesDoes DEF Harmless
<1> QED
  BY <1>1, <1>2

LEMMA EscalateHarmless ==
  ASSUME NEW e, Episode(e), NEW a \in Actions, a.type = "escalate", a.id \in DOMAIN e.mail
  PROVE  Harmless(e, Escalate(e, a))
<1>1. CASE e.mail[a.id].resolved
  BY <1>1, RedundantHarmless DEF Escalate
<1>2. CASE ~e.mail[a.id].resolved
  <2> DEFINE f == Facts[a.id]
             rec == [e.mail[a.id] EXCEPT !.act = "escalate", !.resolved = TRUE]
             reward == IF f.action = "escalate" THEN 4 + a.arg
                       ELSE IF f.action = "reply" /\ f.critical THEN -3 ELSE -1
  <2>1. e.mail[a.id] \in EmailRecord /\ a.arg \in {0, 1}
    BY ActionShape DEF Episode
  <2>2. rec \in EmailRecord /\ rec.label = e.mail[a.id].label
    BY <2>1 DEF EmailRecord
  <2>3. rec.act \in {"reply", "escalate"} \/ rec.act = Facts[a.id].action => rec.resolved
    BY <2>1 DEF EmailRecord
  <2>4. Escalate(e, a) = Gives(e, a.id, rec, reward) /\ reward \in Int
    BY <1>2, <2>1 DEF Escalate
  <2> HIDE DEF rec, reward
  <2> QED
    BY <1>2, <2>2, <2>3, <2>4, GivesDoes DEF Harmless
<1> QED
  BY <1>1, <1>2

LEMMA DeferHarmless ==
  ASSUME NEW e, Episode(e), NEW a \in Actions, a.type = "defer", a.id \in DOMAIN e.mail
  PROVE  Harmless(e, Defer(e, a))
<1>1. CASE e.mail[a.id].resolved
  BY <1>1, RedundantHarmless DEF Defer
<1>2. CASE ~e.mail[a.id].resolved
  <2> DEFINE f == Facts[a.id]
             rec == [e.mail[a.id] EXCEPT !.act = "defer", !.resolved = (f.action = "defer")]
             reward == IF f.action = "defer" THEN 1 ELSE IF f.label = "urgent" THEN -7 ELSE -1
  <2>1. e.mail[a.id] \in EmailRecord
    BY ActionShape DEF Episode
  <2>2. rec \in EmailRecord /\ rec.label = e.mail[a.id].label
    BY <2>1 DEF EmailRecord
  <2>3. rec.act \in {"reply", "escalate"} \/ rec.act = Facts[a.id].action => rec.resolved
    BY <2>1 DEF EmailRecord
  <2>4. Defer(e, a) = Gives(e, a.id, rec, reward) /\ reward \in Int
    BY <1>2, <2>1 DEF Defer
  <2> HIDE DEF rec, reward
  <2> QED
    BY <1>2, <2>2, <2>3, <2>4, GivesDoes DEF Harmless
<1> QED
  BY <1>1, <1>2

LEMMA PrioritizeHarmless ==
  ASSUME NEW e, Episode(e), NEW a \in Actions, a.type = "prioritize"
  PROVE  Harmless(e, Prioritize(e, a))
<1> DEFINE r == [e EXCEPT !.ranked = AtLeast(@, a.arg)]
<1>1. e.ranked \in 0 .. 3 /\ a.arg \in 0 .. 3
  BY ActionShape DEF Episode
<1>2. AtLeast(e.ranked, a.arg) \in 0 .. 3 /\ e.ranked <= AtLeast(e.ranked, a.arg)
  BY <1>1 DEF AtLeast
<1>3. /\ r.mail = e.mail /\ r.history = e.history /\ r.waiting = e.waiting
      /\ r.ranked = AtLeast(e.ranked, a.arg)
  BY DEF Episode
<1>4. Episode(r)
  BY <1>2, <1>3 DEF Episode
<1>5. Prioritize(e, a).env = r /\ Prioritize(e, a).reward = a.arg
  BY DEF Prioritize
<1>6. Keeps(e, r) /\ (Worked(e) => Worked(r))
  BY <1>2, <1>3 DEF Keeps, Worked
<1> QED
  BY <1>1, <1>3, <1>4, <1>5, <1>6 DEF Harmless

\* The handler of any action.
LEMMA HandleHarmless ==
  ASSUME NEW e, Episode(e), NEW a \in Actions
  PROVE  Harmless(e, Handle(e, a))
<1>1. CASE a.type = "prioritize"
  BY <1>1, PrioritizeHarmless DEF Handle
<1>2. CASE a.type # "prioritize" /\ a.id \notin DOMAIN e.mail
  BY <1>2, RedundantHarmless DEF Handle, Found
<1>3. CASE a.type # "prioritize" /\ a.id \in DOMAIN e.mail
  <2>1. CASE a.type = "classify"
    BY <1>3, <2>1, ClassifyHarmless DEF Handle, Found
  <2>2. CASE a.type = "reply"
    BY <1>3, <2>2, ReplyHarmless DEF Handle, Found
  <2>3. CASE a.type = "escalate"
    BY <1>3, <2>3, EscalateHarmless DEF Handle, Found
  <2>4. CASE a.type = "defer"
    BY <1>3, <2>4, DeferHarmless DEF Handle, Found
  <2> QED
    BY <1>3, <2>1, <2>2, <2>3, <2>4, ActionShape
<1> QED
  BY <1>1, <1>2, <1>3

\* The end of a step charges whoever is late, and its two parts leave the inbox alone.
LEMMA SettleDoes ==
  ASSUME NEW e, Episode(e), NEW a \in Actions, NEW reward \in Int
  PROVE  LET r == Settle(e, a, reward)
         IN /\ Episode(r) /\ r.mail = e.mail /\ r.ranked = e.ranked
            /\ r.history = Append(e.history, a)
            /\ Overdue(r) \subseteq r.charged
<1> DEFINE late == Overdue(e) \ e.charged
           earned == Clamp(reward - 7 * Cardinality(late))
           r == Settle(e, a, reward)
<1>1. late \subseteq Mails /\ IsFiniteSet(late)
  BY EnvAssumption, FS_Subset DEF Overdue, Episode
<1>2. Cardinality(late) \in Nat
  BY <1>1, FS_CardinalityType
<1>3. earned \in Int
  BY <1>2 DEF Clamp, AtLeast, AtMost
<1>4. /\ r.mail = e.mail /\ r.waiting = e.waiting /\ r.history = Append(e.history, a)
      /\ r.charged = e.charged \union late /\ r.ranked = e.ranked /\ r.total = e.total + earned
  BY DEF Settle, Episode
<1>5. r.charged \subseteq Mails /\ r.history \in Seq(Actions) /\ r.total \in Int
  BY <1>1, <1>3, <1>4 DEF Episode
<1>6. Episode(r)
  BY <1>4, <1>5 DEF Settle, Episode
<1>7. Overdue(r) = Overdue(e)
  BY <1>4 DEF Overdue
<1> QED
  BY <1>4, <1>6, <1>7

LEMMA FinishDoes ==
  ASSUME NEW e, Episode(e)
  PROVE  LET r == Finish(e)
         IN /\ Episode(r) /\ r.mail = e.mail /\ r.ranked = e.ranked
            /\ r.history = e.history /\ r.charged = e.charged
<1> DEFINE open == {m \in DOMAIN e.mail : ~e.mail[m].resolved}
           urgent == {m \in open : Urgent(m)}
           risky == {m \in open : Facts[m].critical /\ Facts[m].risky}
<1>1. IsFiniteSet(urgent) /\ IsFiniteSet(risky)
  <2>1. urgent \subseteq Mails /\ risky \subseteq Mails
    BY DEF Episode
  <2> QED
    BY <2>1, EnvAssumption, FS_Subset
<1>2. TerminalPenalty(e) \in Int
  <2>1. Cardinality(urgent) \in Nat /\ Cardinality(risky) \in Nat
    BY <1>1, FS_CardinalityType
  <2>2. TerminalPenalty(e) = 5 * Cardinality(urgent) + 4 * Cardinality(risky)
    BY DEF TerminalPenalty
  <2> QED
    BY <2>1, <2>2
<1> DEFINE r == [e EXCEPT !.total = @ - TerminalPenalty(e)]
<1>3. r.mail = e.mail /\ r.ranked = e.ranked /\ r.history = e.history /\ r.charged = e.charged
      /\ r.waiting = e.waiting /\ r.total = e.total - TerminalPenalty(e)
  BY DEF Episode
<1>4. r.total \in Int
  BY <1>2, <1>3 DEF Episode
<1>5. r \in [mail : {r.mail}, waiting : SUBSET Mails, remaining : 0 .. Budget, minute : Nat,
             history : Seq(Actions), total : Int, charged : SUBSET Mails, ranked : 0 .. 3]
  BY <1>3, <1>4 DEF Episode
<1>6. Episode(r)
  BY <1>3, <1>5 DEF Episode
<1> QED
  BY <1>3, <1>6 DEF Finish

----------------------------------------------------------------------------
(* Replays.                                                                *)

\* The grader's environment begins where reset does.
LEMMA ReplayStarts == Yields(<< >>, Fresh)
<1> DEFINE g == [n \in 0 .. Len(<< >>) |-> Fresh]
<1>1. Len(<< >>) = 0 /\ 0 .. 0 = {0}
  OBVIOUS
<1>2. \A h : PlaysOut(h, << >>) => h[0] = Fresh
  BY <1>1 DEF PlaysOut
<1>3. PlaysOut(g, << >>)
  BY <1>1 DEF PlaysOut
<1> QED
  BY <1>1, <1>2, <1>3 DEF Yields

\* One more action takes a replay one step further.
LEMMA ReplayGoesOn ==
  ASSUME NEW actions \in Seq(Actions), NEW a \in Actions, NEW e, Yields(actions, e)
  PROVE  Yields(Append(actions, a), Step(e, a))
<1> DEFINE n == Len(actions)
           longer == Append(actions, a)
<1>1. n \in Nat /\ Len(longer) = n + 1 /\ longer[n + 1] = a
  OBVIOUS
<1>2. \A i \in 1 .. n : longer[i] = actions[i]
  OBVIOUS
<1> HIDE DEF longer, n
<1>3. PICK g : PlaysOut(g, actions)
  BY DEF Yields
<1>4. g[n] = e
  BY <1>3 DEF Yields, n
<1> DEFINE g1 == [i \in 0 .. n + 1 |-> IF i <= n THEN g[i] ELSE Step(e, a)]
<1>5. PlaysOut(g1, longer)
  <2>1. g = [i \in 0 .. n |-> IF i = 0 THEN Fresh ELSE Step(g[i - 1], actions[i])]
    BY <1>3 DEF PlaysOut, n
  <2>2. ASSUME NEW i \in 0 .. n + 1
        PROVE  g1[i] = IF i = 0 THEN Fresh ELSE Step(g1[i - 1], longer[i])
    <3>1. CASE i = 0
      BY <1>1, <2>1, <3>1
    <3>2. CASE i \in 1 .. n
      <4>1. g[i] = Step(g[i - 1], actions[i]) /\ g1[i] = g[i] /\ g1[i - 1] = g[i - 1]
        BY <1>1, <2>1, <3>2
      <4> QED
        BY <1>2, <3>2, <4>1
    <3>3. CASE i = n + 1
      <4>1. g1[i] = Step(e, a) /\ g1[i - 1] = g[n]
        BY <1>1, <3>3
      <4> QED
        BY <1>1, <1>4, <3>3, <4>1
    <3> QED
      BY <1>1, <3>1, <3>2, <3>3
  <2>3. g1 = [i \in 0 .. n + 1 |-> g1[i]]
    OBVIOUS
  <2> HIDE DEF g1
  <2>4. g1 = [i \in 0 .. n + 1 |-> IF i = 0 THEN Fresh ELSE Step(g1[i - 1], longer[i])]
    BY <2>2, <2>3
  <2> QED
    BY <1>1, <2>4 DEF PlaysOut
<1>6. ASSUME NEW h, PlaysOut(h, longer)
      PROVE  h[n + 1] = Step(e, a)
  <2> DEFINE shorter == [i \in 0 .. n |-> h[i]]
  <2>1. h = [i \in 0 .. n + 1 |-> IF i = 0 THEN Fresh ELSE Step(h[i - 1], longer[i])]
    BY <1>1, <1>6 DEF PlaysOut
  <2>2. ASSUME NEW i \in 0 .. n
        PROVE  h[i] = IF i = 0 THEN Fresh ELSE Step(shorter[i - 1], actions[i])
    <3>1. CASE i = 0
      BY <1>1, <2>1, <3>1
    <3>2. CASE i \in 1 .. n
      <4>1. h[i] = Step(h[i - 1], longer[i]) /\ shorter[i - 1] = h[i - 1]
        BY <1>1, <2>1, <3>2
      <4> QED
        BY <1>2, <3>2, <4>1
    <3> QED
      BY <1>1, <3>1, <3>2
  <2>3. PlaysOut(shorter, actions)
    <3>1. \A i \in 0 .. n : shorter[i] = IF i = 0 THEN Fresh ELSE Step(shorter[i - 1], actions[i])
      BY <2>2
    <3>2. shorter = [i \in 0 .. n |-> shorter[i]]
      OBVIOUS
    <3> HIDE DEF shorter
    <3>3. shorter = [i \in 0 .. n |-> IF i = 0 THEN Fresh ELSE Step(shorter[i - 1], actions[i])]
      BY <3>1, <3>2
    <3> QED
      BY <3>3 DEF PlaysOut, n
  <2>4. shorter[n] = e
    BY <2>3 DEF Yields, n
  <2>5. h[n] = e
    BY <1>1, <2>4
  <2> QED
    BY <1>1, <2>1, <2>5
<1> QED
  BY <1>1, <1>5, <1>6 DEF Yields, longer

\* evaluate_trajectory arrives where every replay does.
LEMMA PlayYields ==
  ASSUME NEW actions, NEW e, Yields(actions, e)
  PROVE  Play(actions) = e
<1> DEFINE g == CHOOSE g : g = [n \in 0 .. Len(actions) |->
                                  IF n = 0 THEN Fresh ELSE Step(g[n - 1], actions[n])]
<1>1. PlaysOut(g, actions)
  BY DEF Yields, PlaysOut
<1>2. Play(actions) = g[Len(actions)]
  BY DEF Play
<1> QED
  BY <1>1, <1>2 DEF Yields

\* What the last call of a step under way leaves is what one whole step makes of its base.
LEMMA UnderwayEnds ==
  ASSUME NEW base, NEW e, NEW j \in Turn, j.pc = "finish", Underway(base, e, j)
  PROVE  Yields(Finish(e).history, Finish(e))
<1>1. j.act \in Actions /\ Episode(base) /\ base.history \in Seq(Actions)
  BY DEF Underway, Turn, Episode
<1>2. Finish(e) = Step(base, j.act)
  BY DEF Underway, Step, Treated, Ready
<1>3. Finish(e).history = Append(base.history, j.act)
  <2>1. Episode(Ready(base, j.act)) /\ Ready(base, j.act).history = base.history
    BY <1>1, AdvanceDoes, InjectDoes DEF Ready
  <2>2. Harmless(Ready(base, j.act), Treated(base, j.act))
    BY <1>1, <2>1, HandleHarmless DEF Treated
  <2> DEFINE h == Treated(base, j.act)
  <2>3. Episode(h.env) /\ h.reward \in Int /\ h.env.history = base.history
    BY <2>1, <2>2 DEF Harmless
  <2>4. e = Settle(h.env, j.act, h.reward)
    BY DEF Underway
  <2> HIDE DEF h
  <2>5. /\ Episode(Settle(h.env, j.act, h.reward))
        /\ Settle(h.env, j.act, h.reward).history = Append(h.env.history, j.act)
    BY <1>1, <2>3, SettleDoes
  <2> QED
    BY <2>3, <2>4, <2>5, FinishDoes
<1> QED
  BY <1>1, <1>2, <1>3, ReplayGoesOn DEF Underway

----------------------------------------------------------------------------
(* The steps of the episode.                                               *)

LEMMA EnvStarts == EnvInit => EnvInv
<1> SUFFICES ASSUME EnvInit PROVE EnvInv
  OBVIOUS
<1>1. env = Fresh /\ turn = [p \in Players |-> NoTurn] /\ resets = 0 /\ overlapped = FALSE
  BY DEF EnvInit
<1>2. NoTurn \in Turn /\ NoTurn.pc = "idle"
  BY DEF NoTurn, Turn, Actions, Act
<1>3. EnvTypeOK
  <2>1. turn \in [Players -> Turn] /\ Episode(env)
    BY <1>1, <1>2, FreshOk
  <2>2. MaxResets \in Nat
    BY EnvAssumption
  <2>3. resets \in 0 .. MaxResets
    BY <1>1, <2>2
  <2>4. overlapped \in BOOLEAN
    BY <1>1
  <2> QED
    BY <2>1, <2>3, <2>4 DEF EnvTypeOK
<1>4. Playing = {}
  BY <1>1, <1>2 DEF Playing
<1>5. Replayed
  BY <1>1, <1>4, FreshOk, ReplayStarts DEF Replayed
<1>6. Worked(env) /\ Charged
  BY <1>1, FreshOk DEF Charged
<1> QED
  BY <1>3, <1>5, <1>6 DEF EnvInv

LEMMA BeginKeeps ==
  ASSUME EnvInv, NEW p \in Players, NEW a \in Menu, StepBegin(p, a)
  PROVE  EnvInv' /\ Keeps(env, env') /\ Episode(env')
<1> USE DEF EnvInv
<1> DEFINE new == [pc |-> "handle", act |-> a, reward |-> 0]
<1>1. a \in Actions /\ Episode(env) /\ turn \in [Players -> Turn]
  BY EnvAssumption DEF EnvTypeOK
<1>2. /\ env' = Ready(env, a) /\ turn' = [turn EXCEPT ![p] = new] /\ TurnAt(p, "idle") /\ ~Done(env)
      /\ resets' = resets /\ overlapped' = (overlapped \/ Playing \ {p} # {})
  BY DEF StepBegin, Ready, Meets
<1>3. /\ Episode(Advance(env, a)) /\ Keeps(env, Advance(env, a)) /\ Worked(Advance(env, a))
      /\ Episode(Ready(env, a)) /\ Keeps(Advance(env, a), Ready(env, a)) /\ Worked(Ready(env, a))
  BY <1>1, AdvanceDoes, InjectDoes DEF Ready
<1>4. Keeps(env, env') /\ Episode(env') /\ Worked(env')
  <2>1. Keeps(env, Ready(env, a))
    BY <1>1, <1>3, KeepsOn
  <2> QED
    BY <1>2, <1>3, <2>1
<1>5. EnvTypeOK'
  BY <1>1, <1>2, <1>4 DEF EnvTypeOK, Turn
<1>6. Charged'
  BY <1>1, <1>2 DEF Charged, Charging
<1>7. Replayed'
  <2> SUFFICES ASSUME ~overlapped' PROVE (\A u, v \in Playing : u = v)' /\ Playing' # {}
                  /\ \A u \in Playing' : \E base : Underway(base, env', turn'[u])
    BY DEF Replayed
  <2>1. Playing = {} /\ ~overlapped
    BY <1>2 DEF Playing, TurnAt
  <2>2. Playing' = {p}
    BY <1>1, <1>2, <2>1 DEF Playing
  <2>3. Yields(env.history, env)
    BY <2>1 DEF Replayed
  <2>4. Underway(env, env', turn'[p])
    BY <1>1, <1>2, <2>3 DEF Underway
  <2> QED
    BY <2>2, <2>4
<1> QED
  BY <1>4, <1>5, <1>6, <1>7

LEMMA HandleKeeps ==
  ASSUME EnvInv, NEW p \in Players, StepHandle(p)
  PROVE  EnvInv' /\ Keeps(env, env') /\ Episode(env')
<1> USE DEF EnvInv
<1> DEFINE h == Handle(env, turn[p].act)
<1>1. Episode(env) /\ turn \in [Players -> Turn] /\ turn[p].act \in Actions
  BY DEF EnvTypeOK, Turn
<1>2. /\ env' = h.env /\ turn[p].pc = "handle"
      /\ turn' = [turn EXCEPT ![p].pc = "settle", ![p].reward = h.reward]
      /\ resets' = resets /\ overlapped' = overlapped
  BY DEF StepHandle, TurnAt
<1>3. /\ Episode(h.env) /\ Keeps(env, h.env) /\ Worked(h.env) /\ h.reward \in Int
      /\ h.env.history = env.history
  BY <1>1, HandleHarmless DEF Harmless
<1> HIDE DEF h
<1>4. Keeps(env, env') /\ Episode(env') /\ Worked(env')
  BY <1>2, <1>3
<1>5. /\ turn' \in [Players -> Turn] /\ turn'[p].pc = "settle" /\ turn'[p].act = turn[p].act
      /\ turn'[p].reward = h.reward /\ \A u \in Players : u # p => turn'[u] = turn[u]
  BY <1>1, <1>2, <1>3 DEF Turn
<1>6. EnvTypeOK'
  BY <1>2, <1>4, <1>5 DEF EnvTypeOK
<1>7. Charged'
  BY <1>5 DEF Charged, Charging
<1>8. Replayed'
  <2> SUFFICES ASSUME ~overlapped' PROVE (\A u, v \in Playing : u = v)' /\ Playing' # {}
                  /\ \A u \in Playing' : \E base : Underway(base, env', turn'[u])
    BY DEF Replayed
  <2>1. Playing = {p}
    BY <1>2 DEF Playing, Replayed
  <2>2. Playing' = {p}
    BY <1>2, <1>5, <2>1 DEF Playing
  <2>3. PICK base : Underway(base, env, turn[p])
    BY <1>2, <2>1 DEF Replayed
  <2>4. h = Treated(base, turn[p].act)
    BY <1>2, <2>3 DEF Underway, Treated, h
  <2>5. Underway(base, env', turn'[p])
    BY <1>2, <1>5, <2>3, <2>4 DEF Underway
  <2> QED
    BY <2>2, <2>5
<1> QED
  BY <1>4, <1>6, <1>7, <1>8

LEMMA SettleKeeps ==
  ASSUME EnvInv, NEW p \in Players, StepSettle(p)
  PROVE  EnvInv' /\ Keeps(env, env') /\ Episode(env')
<1> USE DEF EnvInv
<1>1. Episode(env) /\ turn \in [Players -> Turn] /\ turn[p].act \in Actions /\ turn[p].reward \in Int
  BY DEF EnvTypeOK, Turn
<1>2. /\ env' = Settle(env, turn[p].act, turn[p].reward) /\ turn[p].pc = "settle"
      /\ turn' = [turn EXCEPT ![p].pc = "finish"]
      /\ resets' = resets /\ overlapped' = overlapped
  BY DEF StepSettle, TurnAt
<1>3. /\ Episode(env') /\ env'.mail = env.mail /\ env'.ranked = env.ranked
      /\ Overdue(env') \subseteq env'.charged
  BY <1>1, <1>2, SettleDoes
<1>4. Keeps(env, env') /\ Worked(env')
  BY <1>1, <1>3 DEF Keeps, Worked, Episode
<1>5. /\ turn' \in [Players -> Turn] /\ turn'[p].pc = "finish" /\ turn'[p].act = turn[p].act
      /\ \A u \in Players : u # p => turn'[u] = turn[u]
  BY <1>1, <1>2 DEF Turn
<1>6. EnvTypeOK'
  BY <1>2, <1>3, <1>5 DEF EnvTypeOK
<1>7. Charged'
  BY <1>3 DEF Charged
<1>8. Replayed'
  <2> SUFFICES ASSUME ~overlapped' PROVE (\A u, v \in Playing : u = v)' /\ Playing' # {}
                  /\ \A u \in Playing' : \E base : Underway(base, env', turn'[u])
    BY DEF Replayed
  <2>1. Playing = {p}
    BY <1>2 DEF Playing, Replayed
  <2>2. Playing' = {p}
    BY <1>2, <1>5, <2>1 DEF Playing
  <2>3. PICK base : Underway(base, env, turn[p])
    BY <1>2, <2>1 DEF Replayed
  <2>4. Underway(base, env', turn'[p])
    BY <1>2, <1>5, <2>3 DEF Underway
  <2> QED
    BY <2>2, <2>4
<1> QED
  BY <1>3, <1>4, <1>6, <1>7, <1>8

LEMMA FinishKeeps ==
  ASSUME EnvInv, NEW p \in Players, StepFinish(p)
  PROVE  EnvInv' /\ Keeps(env, env') /\ Episode(env')
<1> USE DEF EnvInv
<1>1. Episode(env) /\ turn \in [Players -> Turn]
  BY DEF EnvTypeOK
<1>2. /\ env' = Finish(env) /\ turn[p].pc = "finish" /\ turn' = [turn EXCEPT ![p] = NoTurn]
      /\ resets' = resets /\ overlapped' = overlapped
  BY DEF StepFinish, TurnAt
<1>3. /\ Episode(env') /\ env'.mail = env.mail /\ env'.ranked = env.ranked
      /\ env'.history = env.history /\ env'.charged = env.charged
  BY <1>1, <1>2, FinishDoes
<1>4. Keeps(env, env') /\ Worked(env')
  BY <1>1, <1>3 DEF Keeps, Worked, Episode
<1>5. NoTurn \in Turn /\ NoTurn.pc = "idle"
  BY DEF NoTurn, Turn, Actions, Act
<1>6. /\ turn' \in [Players -> Turn] /\ turn'[p] = NoTurn
      /\ \A u \in Players : u # p => turn'[u] = turn[u]
  BY <1>1, <1>2, <1>5
<1>7. EnvTypeOK'
  BY <1>2, <1>3, <1>6 DEF EnvTypeOK
<1>8. Charged'
  <2>1. Overdue(env') = Overdue(env)
    BY <1>3 DEF Overdue
  <2>2. Charging => Charging'
    BY <1>2, <1>6 DEF Charging
  <2> QED
    BY <1>3, <2>1, <2>2 DEF Charged
<1>9. Replayed'
  <2> SUFFICES ASSUME ~overlapped' PROVE Playing' = {} /\ Yields(env'.history, env')
    BY DEF Replayed
  <2>1. Playing = {p}
    BY <1>2 DEF Playing, Replayed
  <2>2. Playing' = {}
    BY <1>5, <1>6, <2>1 DEF Playing
  <2>3. PICK base : Underway(base, env, turn[p])
    BY <1>2, <2>1 DEF Replayed
  <2>4. Yields(env'.history, env')
    BY <1>1, <1>2, <2>3, UnderwayEnds
  <2> QED
    BY <2>2, <2>4
<1> QED
  BY <1>3, <1>4, <1>7, <1>8, <1>9

LEMMA ResetKeeps ==
  ASSUME EnvInv, NEW p \in Players, Reset(p)
  PROVE  EnvInv' /\ resets' # resets
<1>1. /\ env' = Fresh /\ turn' = turn /\ resets' = resets + 1 /\ resets < MaxResets
      /\ overlapped' = (Playing # {})
  BY DEF Reset
<1>2. resets \in 0 .. MaxResets /\ MaxResets \in Nat /\ turn \in [Players -> Turn]
  BY EnvAssumption DEF EnvInv, EnvTypeOK
<1>3. EnvTypeOK'
  BY <1>1, <1>2, FreshOk DEF EnvTypeOK
<1>4. Playing' = Playing
  BY <1>1 DEF Playing
<1>5. Replayed'
  <2> SUFFICES ASSUME ~overlapped' PROVE Playing' = {} /\ Yields(env'.history, env')
    BY DEF Replayed
  <2> QED
    BY <1>1, <1>4, FreshOk, ReplayStarts
<1>6. Worked(env') /\ Charged'
  BY <1>1, FreshOk DEF Charged
<1> QED
  BY <1>1, <1>2, <1>3, <1>5, <1>6 DEF EnvInv

LEMMA EnvStays == EnvInv /\ [EnvNext]_envVars => EnvInv'
<1> SUFFICES ASSUME EnvInv, [EnvNext]_envVars PROVE EnvInv'
  OBVIOUS
<1>1. ASSUME EnvNext PROVE EnvInv'
  BY <1>1, BeginKeeps, HandleKeeps, SettleKeeps, FinishKeeps, ResetKeeps DEF EnvNext, Proceed
<1>2. CASE UNCHANGED envVars
  BY <1>2 DEF envVars, EnvInv, EnvTypeOK, Replayed, Playing, Charged, Charging
<1> QED
  BY <1>1, <1>2

----------------------------------------------------------------------------
(* What was earned.                                                        *)

\* Who keeps the inbox keeps what was earned with it, measure by measure.
LEMMA KeptIsEarned ==
  ASSUME NEW e, NEW f, Episode(e), Episode(f), Worked(e), Keeps(e, f)
  PROVE  \A k \in DOMAIN metrics(e) :
           /\ metrics(f)[k][1] >= metrics(e)[k][1]
           /\ DOMAIN f.mail = DOMAIN e.mail => metrics(f)[k][2] = metrics(e)[k][2]
<1>1. /\ DOMAIN e.mail \subseteq DOMAIN f.mail /\ DOMAIN f.mail \subseteq Mails
      /\ e.ranked \in 0 .. 3 /\ f.ranked \in 0 .. 3 /\ e.ranked <= f.ranked
      /\ \A m \in DOMAIN e.mail : e.mail[m] \in EmailRecord
  BY DEF Episode, Keeps
<1>2. Labelled(e) \subseteq Labelled(f)
  BY <1>1, FactShape DEF Labelled, Keeps, Labels
<1>3. Handled(e) \subseteq Handled(f)
  BY <1>1 DEF Handled, Actionable, Keeps, Worked
<1>4. Points(e) \subseteq Points(f)
  BY <1>1 DEF Points, ToReply, Keeps, Worked
<1>5. Resolved(e) \subseteq Resolved(f)
  BY <1>1 DEF Resolved, Wanted, Keeps
<1>6. IsFiniteSet(Labelled(f)) /\ IsFiniteSet(Handled(f)) /\ IsFiniteSet(Resolved(f))
  <2>1. Labelled(f) \subseteq Mails /\ Handled(f) \subseteq Mails /\ Resolved(f) \subseteq Mails
    BY <1>1 DEF Labelled, Handled, Actionable, Resolved, Wanted
  <2> QED
    BY <2>1, EnvAssumption, FS_Subset
<1>7. IsFiniteSet(Points(f))
  <2>1. Points(f) \subseteq Mails \X (1 .. 5)
    BY <1>1 DEF Points, ToReply
  <2>2. IsFiniteSet(1 .. 5)
    <3>1. 1 \in Int /\ 5 \in Int
      OBVIOUS
    <3> QED
      BY <3>1, FS_Interval, Zenon
  <2>3. IsFiniteSet(Mails \X (1 .. 5))
    BY <2>2, EnvAssumption, FS_Product
  <2> QED
    BY <2>1, <2>3, FS_Subset
<1>8. /\ Cardinality(Labelled(e)) <= Cardinality(Labelled(f))
      /\ Cardinality(Handled(e)) <= Cardinality(Handled(f))
      /\ Cardinality(Points(e)) <= Cardinality(Points(f))
      /\ Cardinality(Resolved(e)) <= Cardinality(Resolved(f))
  BY <1>2, <1>3, <1>4, <1>5, <1>6, <1>7, FS_Subset
<1>9. /\ Cardinality(Labelled(e)) \in Nat /\ Cardinality(Labelled(f)) \in Nat
      /\ Cardinality(Handled(e)) \in Nat /\ Cardinality(Handled(f)) \in Nat
      /\ Cardinality(Points(e)) \in Nat /\ Cardinality(Points(f)) \in Nat
      /\ Cardinality(Resolved(e)) \in Nat /\ Cardinality(Resolved(f)) \in Nat
  BY <1>2, <1>3, <1>4, <1>5, <1>6, <1>7, FS_Subset, FS_CardinalityType
<1>10. DOMAIN f.mail = DOMAIN e.mail =>
         Actionable(f) = Actionable(e) /\ ToReply(f) = ToReply(e) /\ Wanted(f) = Wanted(e)
  BY DEF Actionable, ToReply, Wanted
<1> QED
  BY <1>1, <1>8, <1>9, <1>10 DEF metrics

----------------------------------------------------------------------------
(* The episode's theorems.                                                 *)

\* However many requests meet on the shared episode and whenever it is reset: while none
\* met it is a replay of its history or one step on from one, what was done right is
\* resolved, and who is late was charged or is about to be (environment.py, main.py).
THEOREM EnvSafe == EnvSpec => []EnvInv
  BY EnvStarts, EnvStays, PTL DEF EnvSpec

\* grader.py:80-107: for any scenario and any number of requests, the trajectory the grader
\* plays from the start ends in the episode the server has, unless two requests met in
\* it; and nobody is late unpunished, though they meet.
THEOREM EpisodeSound == EnvSpec => []EpisodeHolds
<1>1. EnvInv => EpisodeHolds
  <2> SUFFICES ASSUME EnvInv PROVE EpisodeHolds
    OBVIOUS
  <2>1. ReplayAgrees
    BY PlayYields DEF ReplayAgrees, EnvInv, Replayed
  <2>2. LateIsCharged
    BY DEF LateIsCharged, EnvInv, Charged, Charging, Playing
  <2> QED
    BY <2>1, <2>2 DEF EpisodeHolds, EnvInv
<1> QED
  BY <1>1, EnvSafe, PTL

\* environment.py:228-318: whatever requests meet on an email, none takes back a resolution,
\* a label or a point of any measure the trajectory is graded by.
THEOREM EarnedKept == EnvSpec => NothingUndone
<1>1. EnvInv /\ [EnvNext]_envVars => 
        resets' # resets \/ (Keeps(env, env') /\ Episode(env')) \/ UNCHANGED envVars
  <2> SUFFICES ASSUME EnvInv, EnvNext
               PROVE  resets' # resets \/ (Keeps(env, env') /\ Episode(env'))
    OBVIOUS
  <2> QED
    BY BeginKeeps, HandleKeeps, SettleKeeps, FinishKeeps, ResetKeeps DEF EnvNext, Proceed
<1>2. EnvInv /\ [EnvNext]_envVars =>
        [resets' = resets => \A m \in DOMAIN env.mail :
           /\ env.mail[m].resolved => env'.mail[m].resolved
           /\ env.mail[m].label # "none" => env'.mail[m].label = env.mail[m].label]_envVars
  BY <1>1 DEF Keeps
<1>3. EnvInv /\ [EnvNext]_envVars =>
        [resets' = resets /\ <<env'.mail, env'.ranked>> # <<env.mail, env.ranked>> =>
           LET before == metrics(env)
               after == metrics(env')
           IN \A k \in DOMAIN before :
                /\ after[k][1] >= before[k][1]
                /\ DOMAIN env'.mail = DOMAIN env.mail => after[k][2] = before[k][2]]_envVars
  <2> SUFFICES ASSUME EnvInv, [EnvNext]_envVars, ~UNCHANGED envVars, resets' = resets
               PROVE  \A k \in DOMAIN metrics(env) :
                        /\ metrics(env')[k][1] >= metrics(env)[k][1]
                        /\ DOMAIN env'.mail = DOMAIN env.mail => metrics(env')[k][2] = metrics(env)[k][2]
    OBVIOUS
  <2>1. Episode(env) /\ Worked(env) /\ Keeps(env, env') /\ Episode(env')
    BY <1>1 DEF EnvInv, EnvTypeOK
  <2> QED
    BY <2>1, KeptIsEarned
<1> QED
  BY <1>2, <1>3, EnvSafe, PTL DEF EnvSpec, NothingUndone, ResolvedStays, EarnedIsKept
=============================================================================
