-------------------------- MODULE SchemaMigration --------------------------
(***************************************************************************)
(* How an instance brings the database up to date when it starts           *)
(* (migrate_db of app/core/db.py, called by lifespan of app/main.py).      *)
(* Every statement that changes the schema is a transaction of its own;    *)
(* the version rows of one migration are committed together at its end.    *)
(***************************************************************************)
EXTENDS Integers, FiniteSets

CONSTANTS
  Instances,
  Tables,           \* every table of the models, numbered in the order they are created
  Altered,          \* the one that existed before, to which columns are added
  Versions,         \* 1 .. _SCHEMA_VERSION
  MaxCrashes        \* bound

ASSUME MigrationAssumption ==
  /\ Tables \subseteq Nat /\ Altered \in Tables /\ MaxCrashes \in Nat
  /\ IsFiniteSet(Versions) /\ Versions # {} /\ Versions = 1 .. Cardinality(Versions)

VARIABLES
  tables,       \* tables the database has
  columns,      \* versions whose column the altered table has
  recorded,     \* versions in schema_version
  starting,     \* each instance: where its migration is, and what it read
  crashes

schema == <<tables, columns, recorded>>

Latest == CHOOSE v \in Versions : \A w \in Versions : w <= v
Newest(set) == IF set = {} THEN 0 ELSE CHOOSE v \in set : \A w \in set : w <= v
\* Version 1 has no step of its own.
Columns == Versions \ {1}

Idle == [pc |-> "down", missing |-> {}, next |-> 0, from |-> 0]
Runs(i, pc) == starting[i].pc = pc
Moves(i, r) == starting' = [starting EXCEPT ![i] = r]
\* lifespan logs the error and serves all the same, not ready.
Fails(i) == Moves(i, [Idle EXCEPT !.pc = "serving"])

\* init_db: create_all asks which tables are missing ...
InspectTables(i) ==
  /\ Runs(i, "down") /\ Moves(i, [Idle EXCEPT !.pc = "create", !.missing = Tables \ tables])
  /\ UNCHANGED <<tables, columns, recorded, crashes>>

\* ... and creates each with all its columns; another instance may have done so.
CreateTable(i) ==
  /\ Runs(i, "create") /\ UNCHANGED <<recorded, crashes>>
  /\ \E t \in {u \in starting[i].missing : \A w \in starting[i].missing : u <= w} :
       IF t \in tables THEN Fails(i) /\ UNCHANGED <<tables, columns>>
       ELSE /\ tables' = tables \union {t}
            /\ columns' = IF t = Altered THEN Columns ELSE columns
            /\ Moves(i, [starting[i] EXCEPT !.missing = @ \ {t}])

\* migrate_db: the version the database is at.
ReadVersion(i) ==
  /\ Runs(i, "create") /\ starting[i].missing = {}
  /\ Moves(i, [Idle EXCEPT !.pc = "migrate", !.from = Newest(recorded), !.next = Newest(recorded) + 1])
  /\ UNCHANGED <<tables, columns, recorded, crashes>>

\* Mutant: the column is added without asking whether it is there.
InspectColumnBlindly(i) ==
  LET v == starting[i].next IN
  /\ Runs(i, "migrate") /\ v <= Latest
  /\ Moves(i, IF v = 1 THEN [starting[i] EXCEPT !.next = v + 1] ELSE [starting[i] EXCEPT !.pc = "alter"])
  /\ UNCHANGED <<tables, columns, recorded, crashes>>

\* _run_migration and the look of _add_column_if_missing.
InspectColumn(i) ==
  LET v == starting[i].next IN
  /\ Runs(i, "migrate") /\ v <= Latest
  /\ Moves(i, IF v = 1 \/ v \in columns THEN [starting[i] EXCEPT !.next = v + 1]
              ELSE [starting[i] EXCEPT !.pc = "alter"])
  /\ UNCHANGED <<tables, columns, recorded, crashes>>

\* ALTER TABLE; a column that is there by now is an error.
AlterTable(i) ==
  LET v == starting[i].next IN
  /\ Runs(i, "alter") /\ UNCHANGED <<tables, recorded, crashes>>
  /\ IF v \in columns THEN Fails(i) /\ UNCHANGED columns
     ELSE /\ columns' = columns \union {v}
          /\ Moves(i, [starting[i] EXCEPT !.pc = "migrate", !.next = v + 1])

\* Mutant: the versions are recorded before their steps.
RecordVersionsFirst(i) ==
  LET from == starting[i].from IN
  /\ Runs(i, "migrate") /\ starting[i].next = from + 1
  /\ recorded' = recorded \union (from + 1) .. Latest
  /\ Moves(i, [starting[i] EXCEPT !.next = from + 2])
  /\ UNCHANGED <<tables, columns, crashes>>

\* The commit; a version another instance recorded is a duplicate key.
RecordVersions(i) ==
  LET new == (starting[i].from + 1) .. Latest IN
  /\ Runs(i, "migrate") /\ starting[i].next > Latest
  /\ recorded' = IF new \intersect recorded = {} THEN recorded \union new ELSE recorded
  /\ Fails(i)
  /\ UNCHANGED <<tables, columns, crashes>>

\* An instance ends anywhere, and is started again.
CrashInstance(i) ==
  /\ ~Runs(i, "down") /\ crashes < MaxCrashes /\ crashes' = crashes + 1
  /\ Moves(i, Idle) /\ UNCHANGED schema

Migrate(i) ==
  InspectTables(i) \/ CreateTable(i) \/ ReadVersion(i) \/ InspectColumn(i) \/ AlterTable(i)
    \/ RecordVersions(i)

\* schema_is_current, which /health/ready asks.
SchemaIsCurrent == Newest(recorded) = Latest

\* A new database, or one an earlier version of the code left.
MigrationInit ==
  /\ \/ tables = {} /\ columns = {} /\ recorded = {}
     \/ \E v \in Versions : /\ tables = IF v = Latest THEN Tables ELSE {Altered}
                            /\ columns = 2 .. v /\ recorded = 1 .. v
  /\ starting = [i \in Instances |-> Idle] /\ crashes = 0

----------------------------------------------------------------------------
\* The type invariant of a migration.
MigrationTypeOK ==
  /\ tables \subseteq Tables /\ columns \subseteq Columns /\ recorded \subseteq Versions
  /\ \A i \in Instances : /\ starting[i].pc \in {"down", "create", "migrate", "alter", "serving"}
                          /\ starting[i].missing \subseteq Tables
                          /\ starting[i].from \in 0 .. Latest /\ starting[i].next \in 0 .. Latest + 1
  /\ crashes \in 0 .. MaxCrashes

\* The readiness probe never lets traffic at a schema that lacks a table or a column,
\* whoever migrates it at the same time and wherever one of them stops (db.py:390-424).
ReadyMeansMigrated == SchemaIsCurrent => tables = Tables /\ columns = Columns

\* The database is brought up to date although two instances trip over each other's
\* statements and one dies between them (db.py:309-325): what is half done can be
\* done again.
BecomesReady == <>[]SchemaIsCurrent
=============================================================================
