--------------------------- MODULE MailboxProofs ---------------------------
(* The safety of MailboxConnection, for any number of jobs, consents, rows *)
(* and restarts.                                                           *)
EXTENDS MailboxConnection, FiniteSetTheorems, TLAPS

\* The inductive invariant: the three safety properties hold together.
LifeInv == TypeOK /\ OneRowPerAccount /\ AnnouncedOnce /\ DisconnectRemovesRows

\* The start: no rows, no jobs, nothing announced.
LEMMA LifeInit == Init => LifeInv
<1> SUFFICES ASSUME Init PROVE LifeInv
  OBVIOUS
<1>1. TypeOK
  <2>1. DOMAIN conns \subseteq Ids /\ conns \in [DOMAIN conns -> Connection]
    BY DEF Init
  <2>2. job \in [Jobs -> {Idle} \cup Running]
    BY DEF Init
  <2>3. saved \subseteq Ids /\ dead \subseteq Grants
    BY DEF Init
  <2>4. /\ nextId \in 1..(MaxIds + 1) /\ given \in 0..MaxGrants
        /\ breaks \in Nat /\ notices \in Nat /\ crashes \in 0..MaxCrashes
    BY LifeAssumption DEF Init
  <2> QED
    BY <2>1, <2>2, <2>3, <2>4 DEF TypeOK
<1>2. OneRowPerAccount
  BY DEF Init, OneRowPerAccount
<1>3. {j \in Jobs : job[j].pc = "announce"} = {}
  BY DEF Init, Idle
<1>4. AnnouncedOnce
  <2>1. Cardinality({j \in Jobs : job[j].pc = "announce"}) = 0
    BY <1>3, FS_EmptySet
  <2>2. notices = 0 /\ breaks = 0
    BY DEF Init
  <2> QED
    BY <2>1, <2>2 DEF AnnouncedOnce
<1>5. DisconnectRemovesRows
  BY DEF Init, DisconnectRemovesRows
<1> QED
  BY <1>1, <1>2, <1>4, <1>5 DEF LifeInv

\* What a step may do to the set of jobs about to announce and the counters.
Balanced ==
  LET old == {j \in Jobs : job[j].pc = "announce"}
      new == {j \in Jobs : job'[j].pc = "announce"}
  IN  \/ new \subseteq old /\ crashes' = crashes + 1 /\ UNCHANGED <<breaks, notices>>
      \/ new = old /\ UNCHANGED <<breaks, notices, crashes>>
      \/ \E j \in Jobs \ old : /\ new = old \cup {j} /\ breaks' = breaks + 1
                               /\ UNCHANGED <<notices, crashes>>
      \/ \E j \in old : /\ new = old \ {j} /\ notices' = notices + 1
                        /\ UNCHANGED <<breaks, crashes>>

\* A balanced step keeps the number of announcements right.
LEMMA BalancedKeeps ==
  ASSUME TypeOK, AnnouncedOnce, Balanced, crashes' \in Nat
  PROVE  AnnouncedOnce'
<1> DEFINE old == {j \in Jobs : job[j].pc = "announce"}
           new == {j \in Jobs : job'[j].pc = "announce"}
<1>1. IsFiniteSet(old) /\ IsFiniteSet(new)
  BY LifeAssumption, FS_Subset
<1>2. /\ Cardinality(old) \in Nat /\ Cardinality(new) \in Nat
      /\ breaks \in Nat /\ notices \in Nat /\ crashes \in Nat
  BY <1>1, FS_CardinalityType, LifeAssumption DEF TypeOK
<1>3. /\ notices + Cardinality(old) <= breaks
      /\ crashes = 0 => notices + Cardinality(old) = breaks
  BY DEF AnnouncedOnce
<1> SUFFICES /\ notices' + Cardinality(new) <= breaks'
             /\ crashes' = 0 => notices' + Cardinality(new) = breaks'
  BY DEF AnnouncedOnce
<1>4. CASE new \subseteq old /\ crashes' = crashes + 1 /\ UNCHANGED <<breaks, notices>>
  <2>1. Cardinality(new) <= Cardinality(old)
    BY <1>4, <1>1, FS_Subset
  <2> HIDE DEF old, new
  <2> QED
    BY <2>1, <1>2, <1>3, <1>4
<1>5. CASE new = old /\ UNCHANGED <<breaks, notices, crashes>>
  <2>1. Cardinality(new) = Cardinality(old)
    BY <1>5
  <2> HIDE DEF old, new
  <2> QED
    BY <2>1, <1>2, <1>3, <1>5
<1>6. CASE \E j \in Jobs \ old : /\ new = old \cup {j} /\ breaks' = breaks + 1
                                 /\ UNCHANGED <<notices, crashes>>
  <2>1. Cardinality(new) = Cardinality(old) + 1
    BY <1>6, <1>1, FS_AddElement
  <2> HIDE DEF old, new
  <2> QED
    BY <2>1, <1>2, <1>3, <1>6
<1>7. CASE \E j \in old : /\ new = old \ {j} /\ notices' = notices + 1
                          /\ UNCHANGED <<breaks, crashes>>
  <2>1. Cardinality(new) = Cardinality(old) - 1
    BY <1>7, <1>1, FS_RemoveElement
  <2> HIDE DEF old, new
  <2> QED
    BY <2>1, <1>2, <1>3, <1>7
<1> QED
  BY <1>4, <1>5, <1>6, <1>7 DEF Balanced

Pcs == {"check", "call", "refresh", "store", "flag", "announce", "save", "end"}

\* A job that holds a provider and moves on keeps its shape.
LEMMA MoveType ==
  ASSUME TypeOK, NEW j \in Jobs, job[j].pc \in Pcs, NEW pc \in Pcs, To(j, pc)
  PROVE  /\ job' \in [Jobs -> {Idle} \cup Running]
         /\ job' = [job EXCEPT ![j] = [job[j] EXCEPT !.pc = pc]]
         /\ job[j].conn \in Ids /\ job[j].refresh \in Grants
<1>1. job[j] \in [pc : Pcs, conn : Ids, access : Grants, refresh : Grants]
  BY DEF TypeOK, Running, Idle, Pcs
<1>2. [job[j] EXCEPT !.pc = pc] \in [pc : Pcs, conn : Ids, access : Grants, refresh : Grants]
  BY <1>1
<1>3. [job[j] EXCEPT !.pc = pc] \in Running
  BY <1>2 DEF Running, Pcs
<1>4. job' = [job EXCEPT ![j] = [job[j] EXCEPT !.pc = pc]]
  BY DEF To
<1>5. job \in [Jobs -> {Idle} \cup Running]
  BY DEF TypeOK
<1> QED
  BY <1>1, <1>3, <1>4, <1>5

\* A job that is over.
LEMMA StopType ==
  ASSUME TypeOK, NEW j \in Jobs, Stop(j)
  PROVE  job' \in [Jobs -> {Idle} \cup Running]
  BY DEF TypeOK, Stop

\* The upsert leaves a table of at most one row, and ids below the next one.
LEMMA UpsertType ==
  ASSUME TypeOK, OneRowPerAccount, NEW a \in Grants, NEW r \in Grants, Upsert(a, r)
  PROVE  /\ DOMAIN conns' \subseteq Ids /\ conns' \in [DOMAIN conns' -> Connection]
         /\ nextId' \in 1..(MaxIds + 1) /\ nextId <= nextId'
         /\ \A i, k \in DOMAIN conns' : i = k
         /\ \A i \in DOMAIN conns' : i < nextId'
         /\ DOMAIN conns \subseteq DOMAIN conns'
<1>1. CASE DOMAIN conns # {} /\ UNCHANGED nextId
           /\ conns' = [i \in DOMAIN conns |->
                [conns[i] EXCEPT !.status = "connected", !.access = a, !.refresh = r]]
  <2>1. DOMAIN conns' = DOMAIN conns
    BY <1>1
  <2>2. ASSUME NEW i \in DOMAIN conns PROVE conns'[i] \in Connection
    <3>1. conns[i] \in Connection
      BY DEF TypeOK
    <3> QED
      BY <3>1, <1>1 DEF Connection
  <2>3. conns' \in [DOMAIN conns' -> Connection]
    BY <1>1, <2>1, <2>2
  <2>4. nextId \in 1..(MaxIds + 1) /\ DOMAIN conns \subseteq Ids
    BY DEF TypeOK
  <2>5. nextId' \in 1..(MaxIds + 1) /\ nextId <= nextId'
    <3>1. nextId' = nextId
      BY <1>1
    <3> QED
      BY <3>1, <2>4, LifeAssumption
  <2>6. /\ \A i, k \in DOMAIN conns : i = k
        /\ \A i \in DOMAIN conns : i < nextId
    BY DEF OneRowPerAccount
  <2> QED
    BY <1>1, <2>1, <2>3, <2>4, <2>5, <2>6
<1>2. CASE DOMAIN conns = {} /\ nextId <= MaxIds /\ nextId' = nextId + 1
           /\ conns' = [i \in {nextId} |->
                [status |-> "connected", access |-> a, refresh |-> r, synced |-> FALSE]]
  <2>1. nextId \in 1..(MaxIds + 1)
    BY DEF TypeOK
  <2>2. nextId \in Ids /\ nextId' \in 1..(MaxIds + 1) /\ nextId < nextId' /\ nextId <= nextId'
    BY <1>2, <2>1, LifeAssumption DEF Ids
  <2>3. DOMAIN conns' = {nextId}
    BY <1>2
  <2>4. [status |-> "connected", access |-> a, refresh |-> r, synced |-> FALSE] \in Connection
    BY DEF Connection
  <2>5. conns' \in [DOMAIN conns' -> Connection]
    BY <1>2, <2>3, <2>4
  <2> QED
    BY <1>2, <2>2, <2>3, <2>5
<1> QED
  BY <1>1, <1>2 DEF Upsert

\* A step that touches only the jobs, and neither starts nor ends an
\* announcement, nor forgets which connection a job is about.
Quiet ==
  /\ UNCHANGED <<conns, nextId, saved, world, count, crashes>>
  /\ job' \in [Jobs -> {Idle} \cup Running]
  /\ \A j \in Jobs : /\ job'[j].pc = "announce" <=> job[j].pc = "announce"
                     /\ job'[j] # Idle => job'[j].conn < nextId

\* A quiet step keeps the invariant.
LEMMA QuietKeeps ==
  ASSUME LifeInv, Quiet
  PROVE  LifeInv'
<1>1. TypeOK'
  BY DEF LifeInv, TypeOK, Quiet, world, count
<1>2. OneRowPerAccount'
  BY DEF LifeInv, OneRowPerAccount, Quiet
<1>3. {j \in Jobs : job'[j].pc = "announce"} = {j \in Jobs : job[j].pc = "announce"}
  BY DEF Quiet
<1>4. AnnouncedOnce'
  BY <1>3 DEF LifeInv, AnnouncedOnce, Quiet, count
<1>5. DisconnectRemovesRows'
  BY DEF LifeInv, DisconnectRemovesRows, Quiet
<1> QED
  BY <1>1, <1>2, <1>4, <1>5 DEF LifeInv

\* The steps of a job that only talk to the provider or read the table.
LEMMA QuietSteps ==
  ASSUME LifeInv, NEW j \in Jobs,
         \/ \E id \in DOMAIN conns : Begin(j, id)
         \/ Build(j) \/ Check(j) \/ CallOk(j) \/ Call401(j) \/ Unreachable(j)
         \/ RefreshRefused(j) \/ RefreshOk(j)
  PROVE  LifeInv'
<1> SUFFICES Quiet
  BY QuietKeeps
<1> USE DEF LifeInv
<1>0. /\ UNCHANGED <<conns, nextId, saved, world, count, crashes>>
      /\ job \in [Jobs -> {Idle} \cup Running]
      /\ \A k \in Jobs : job[k] # Idle => job[k].conn < nextId
  BY DEF TypeOK, OneRowPerAccount, Begin, Build, Check, CallOk, Call401, Unreachable,
         RefreshRefused, RefreshOk
<1>1. ASSUME NEW r \in {Idle} \cup Running, job' = [job EXCEPT ![j] = r],
             r.pc # "announce", job[j].pc # "announce", r # Idle => r.conn < nextId
      PROVE  Quiet
  BY <1>0, <1>1 DEF Quiet
<1>2. ASSUME job[j].pc # "announce", Stop(j) PROVE Quiet
  <2>1. job' = [job EXCEPT ![j] = Idle] /\ Idle \in {Idle} \cup Running
    BY <1>2 DEF Stop
  <2>2. Idle.pc # "announce"
    BY DEF Idle
  <2> QED
    BY <1>1, <1>2, <2>1, <2>2
<1>3. ASSUME NEW pc \in Pcs, job[j].pc \in Pcs, To(j, pc), pc # "announce",
             job[j].pc # "announce"
      PROVE  Quiet
  <2>1. /\ job' \in [Jobs -> {Idle} \cup Running]
        /\ job' = [job EXCEPT ![j] = [job[j] EXCEPT !.pc = pc]]
    BY <1>3, MoveType
  <2>2. job[j] # Idle
    BY <1>3 DEF Idle, Pcs
  <2>3. job[j] \in [pc : Pcs, conn : Ids, access : Grants, refresh : Grants]
    BY <1>3 DEF TypeOK, Running, Idle, Pcs
  <2>4. [job[j] EXCEPT !.pc = pc].conn = job[j].conn /\ [job[j] EXCEPT !.pc = pc].pc = pc
    BY <2>3
  <2>5. \A k \in Jobs \ {j} : job'[k] = job[k]
    BY <2>1, <1>0
  <2>6. job'[j].conn = job[j].conn /\ job'[j].pc = pc
    BY <2>1, <2>4, <1>0
  <2> QED
    BY <1>0, <1>3, <2>1, <2>2, <2>5, <2>6 DEF Quiet
<1>4. CASE \E id \in DOMAIN conns : Begin(j, id)
  <2>1. PICK id \in DOMAIN conns : Begin(j, id)
    BY <1>4
  <2>2. id \in Ids /\ id < nextId
    BY DEF TypeOK, OneRowPerAccount
  <2>3. [pc |-> "build", conn |-> id] \in Running
    BY <2>2 DEF Running
  <2> DEFINE r == [pc |-> "build", conn |-> id]
  <2>4. job' = [job EXCEPT ![j] = r] /\ r.pc # "announce" /\ r.conn < nextId
    BY <2>1, <2>2 DEF Begin
  <2>5. job[j].pc # "announce"
    BY <2>1 DEF Begin, Idle
  <2>6. r \in Running
    BY <2>3
  <2> HIDE DEF r
  <2> QED
    BY <1>1, <2>4, <2>5, <2>6
<1>5. CASE Build(j)
  <2>1. CASE job[j].conn \in DOMAIN conns
    <3> DEFINE r == [pc |-> "check", conn |-> job[j].conn,
                     access |-> conns[job[j].conn].access,
                     refresh |-> conns[job[j].conn].refresh]
    <3>1. conns[job[j].conn] \in Connection /\ job[j].conn \in Ids /\ job[j].conn < nextId
      BY <2>1 DEF TypeOK, OneRowPerAccount
    <3>2. r \in Running
      BY <3>1 DEF Running, Connection
    <3>3. job' = [job EXCEPT ![j] = r] /\ job[j].pc = "build"
      BY <1>5, <2>1 DEF Build
    <3>4. r.pc # "announce" /\ r.conn < nextId /\ job[j].pc # "announce"
      BY <3>1, <3>3
    <3> HIDE DEF r
    <3> QED
      BY <1>1, <3>2, <3>3, <3>4
  <2>2. CASE job[j].conn \notin DOMAIN conns
    BY <1>2, <1>5, <2>2 DEF Build
  <2> QED
    BY <2>1, <2>2
<1>6. CASE Check(j)
  BY <1>2, <1>3, <1>6 DEF Check, Pcs
<1>7. CASE CallOk(j) \/ Call401(j) \/ RefreshRefused(j) \/ RefreshOk(j)
  BY <1>3, <1>7 DEF CallOk, Call401, RefreshRefused, RefreshOk, Pcs
<1>8. CASE Unreachable(j)
  BY <1>2, <1>8 DEF Unreachable
<1> QED
  BY <1>4, <1>5, <1>6, <1>7, <1>8

\* The invariant after a step, from its parts: what the table has become, what
\* the jobs have become, and the balance of announcements.
LEMMA Assemble ==
  ASSUME LifeInv, Balanced,
         DOMAIN conns' \subseteq Ids, conns' \in [DOMAIN conns' -> Connection],
         nextId' \in 1..(MaxIds + 1), nextId <= nextId', saved' \subseteq Ids,
         job' \in [Jobs -> {Idle} \cup Running],
         dead' \subseteq Grants, given' \in 0..MaxGrants,
         breaks' \in Nat, notices' \in Nat, crashes' \in 0..MaxCrashes,
         \A i, k \in DOMAIN conns' : i = k,
         \A i \in DOMAIN conns' : i < nextId',
         \A i \in saved' : i \in saved \/ \E j \in Jobs : job[j] # Idle /\ i = job[j].conn,
         \A j \in Jobs : job'[j] # Idle => job[j] # Idle /\ job'[j].conn = job[j].conn,
         ForeignKeys => saved' \subseteq DOMAIN conns'
  PROVE  LifeInv'
<1>1. TypeOK'
  BY DEF TypeOK
<1>2. \A i \in Ids : i < nextId => i < nextId'
  BY LifeAssumption DEF LifeInv, TypeOK, Ids
<1>3. \A j \in Jobs : job[j] # Idle => job[j].conn \in Ids /\ job[j].conn < nextId
  BY DEF LifeInv, TypeOK, OneRowPerAccount, Running
<1>4. \A i \in saved : i \in Ids /\ i < nextId
  BY DEF LifeInv, TypeOK, OneRowPerAccount
<1>5. OneRowPerAccount'
  BY <1>2, <1>3, <1>4 DEF OneRowPerAccount
<1>6. crashes' \in Nat
  BY LifeAssumption
<1>7. AnnouncedOnce'
  BY <1>6, BalancedKeeps DEF LifeInv
<1>8. DisconnectRemovesRows'
  BY DEF DisconnectRemovesRows
<1> QED
  BY <1>1, <1>5, <1>7, <1>8 DEF LifeInv

\* A job that stops or moves on between two steps that announce nothing.
LEMMA JobMoves ==
  ASSUME LifeInv, NEW j \in Jobs, job[j].pc \in Pcs \ {"announce"},
         Stop(j) \/ \E pc \in Pcs \ {"announce"} : To(j, pc)
  PROVE  /\ job' \in [Jobs -> {Idle} \cup Running]
         /\ \A k \in Jobs : job'[k] # Idle => job[k] # Idle /\ job'[k].conn = job[k].conn
         /\ {k \in Jobs : job'[k].pc = "announce"} = {k \in Jobs : job[k].pc = "announce"}
         /\ job[j] # Idle /\ job[j].conn \in Ids /\ job[j].refresh \in Grants
<1> USE DEF LifeInv
<1>0. job \in [Jobs -> {Idle} \cup Running]
  BY DEF TypeOK
<1>1. job[j] \in [pc : Pcs, conn : Ids, access : Grants, refresh : Grants]
  BY <1>0 DEF Running, Idle, Pcs
<1>2. job[j] # Idle
  BY DEF Idle, Pcs
<1>3. CASE Stop(j)
  <2>1. job' = [job EXCEPT ![j] = Idle]
    BY <1>3 DEF Stop
  <2>2. Idle.pc # "announce" /\ job[j].pc # "announce"
    BY DEF Idle
  <2> QED
    BY <1>0, <1>1, <1>2, <2>1, <2>2
<1>4. CASE \E pc \in Pcs \ {"announce"} : To(j, pc)
  <2>1. PICK pc \in Pcs \ {"announce"} : To(j, pc)
    BY <1>4
  <2>2. /\ job' \in [Jobs -> {Idle} \cup Running]
        /\ job' = [job EXCEPT ![j] = [job[j] EXCEPT !.pc = pc]]
    BY <2>1, MoveType
  <2>3. [job[j] EXCEPT !.pc = pc].conn = job[j].conn /\ [job[j] EXCEPT !.pc = pc].pc = pc
    BY <1>1
  <2>4. job'[j].conn = job[j].conn /\ job'[j].pc = pc
    BY <1>0, <2>2, <2>3
  <2>5. \A k \in Jobs \ {j} : job'[k] = job[k]
    BY <1>0, <2>2
  <2> QED
    BY <1>1, <1>2, <2>1, <2>2, <2>4, <2>5
<1> QED
  BY <1>3, <1>4

\* RefreshStore: the new tokens go to the account's row, old or new.
LEMMA StoreKeeps ==
  ASSUME LifeInv, NEW j \in Jobs, RefreshStore(j)
  PROVE  LifeInv'
<1> USE DEF LifeInv
<1>1. job[j].pc \in Pcs \ {"announce"} /\ (Stop(j) \/ \E pc \in Pcs \ {"announce"} : To(j, pc))
  BY DEF RefreshStore, Pcs
<1>2. /\ job' \in [Jobs -> {Idle} \cup Running]
      /\ \A k \in Jobs : job'[k] # Idle => job[k] # Idle /\ job'[k].conn = job[k].conn
      /\ {k \in Jobs : job'[k].pc = "announce"} = {k \in Jobs : job[k].pc = "announce"}
      /\ job[j].refresh \in Grants
  BY <1>1, JobMoves
<1>3. UNCHANGED <<saved, dead, given, breaks, notices, crashes>>
  BY DEF RefreshStore, world, count
<1>4. Balanced
  BY <1>2, <1>3 DEF Balanced
<1>5. DOMAIN conns # {} => conns[CHOOSE i \in DOMAIN conns : TRUE].refresh \in Grants
  <2>1. DOMAIN conns # {} => (CHOOSE i \in DOMAIN conns : TRUE) \in DOMAIN conns
    OBVIOUS
  <2> QED
    BY <2>1 DEF TypeOK, Connection
<1>6. PICK r \in Grants : Upsert(job[j].refresh, r)
  BY <1>2, <1>5 DEF RefreshStore
<1>7. /\ DOMAIN conns' \subseteq Ids /\ conns' \in [DOMAIN conns' -> Connection]
      /\ nextId' \in 1..(MaxIds + 1) /\ nextId <= nextId'
      /\ \A i, k \in DOMAIN conns' : i = k
      /\ \A i \in DOMAIN conns' : i < nextId'
      /\ DOMAIN conns \subseteq DOMAIN conns'
  BY <1>2, <1>6, UpsertType
<1>8. /\ saved' \subseteq Ids /\ dead' \subseteq Grants /\ given' \in 0..MaxGrants
      /\ breaks' \in Nat /\ notices' \in Nat
      /\ crashes' \in 0..MaxCrashes /\ (ForeignKeys => saved' \subseteq DOMAIN conns')
      /\ \A i \in saved' : i \in saved
  BY <1>3, <1>7 DEF TypeOK, DisconnectRemovesRows
<1> HIDE DEF LifeInv
<1> QED
  BY <1>2, <1>4, <1>7, <1>8, Assemble

\* Save: the messages are stored under the id the job began with.
LEMMA SaveKeeps ==
  ASSUME LifeInv, NEW j \in Jobs, Save(j)
  PROVE  LifeInv'
<1> USE DEF LifeInv
<1>1. job[j].pc \in Pcs \ {"announce"} /\ (Stop(j) \/ \E pc \in Pcs \ {"announce"} : To(j, pc))
  BY DEF Save, Pcs
<1>2. /\ job' \in [Jobs -> {Idle} \cup Running]
      /\ \A k \in Jobs : job'[k] # Idle => job[k] # Idle /\ job'[k].conn = job[k].conn
      /\ {k \in Jobs : job'[k].pc = "announce"} = {k \in Jobs : job[k].pc = "announce"}
      /\ job[j] # Idle /\ job[j].conn \in Ids
  BY <1>1, JobMoves
<1>3. UNCHANGED <<conns, nextId, dead, given, breaks, notices, crashes>>
  BY DEF Save, world, count
<1>4. Balanced
  BY <1>2, <1>3 DEF Balanced
<1>5. \/ saved' = saved
      \/ saved' = saved \cup {job[j].conn} /\ (ForeignKeys => job[j].conn \in DOMAIN conns)
  BY DEF Save
<1>6. /\ DOMAIN conns' \subseteq Ids /\ conns' \in [DOMAIN conns' -> Connection]
      /\ \A i, k \in DOMAIN conns' : i = k
      /\ \A i \in DOMAIN conns' : i < nextId'
      /\ dead' \subseteq Grants /\ given' \in 0..MaxGrants
      /\ breaks' \in Nat /\ notices' \in Nat
      /\ crashes' \in 0..MaxCrashes
  BY <1>3 DEF TypeOK, OneRowPerAccount
<1>7. nextId' \in 1..(MaxIds + 1) /\ nextId <= nextId'
  BY <1>3, LifeAssumption DEF TypeOK
<1>8. /\ saved' \subseteq Ids
      /\ \A i \in saved' : i \in saved \/ i = job[j].conn
      /\ ForeignKeys => saved' \subseteq DOMAIN conns'
  BY <1>2, <1>3, <1>5 DEF TypeOK, DisconnectRemovesRows
<1> HIDE DEF LifeInv
<1> QED
  BY <1>2, <1>4, <1>6, <1>7, <1>8, Assemble

\* Flag and Announce: a change of status owes one announcement.
LEMMA FlagKeeps ==
  ASSUME LifeInv, NEW j \in Jobs, Flag(j) \/ Announce(j) \/ Finish(j)
  PROVE  LifeInv'
<1> USE DEF LifeInv
<1> DEFINE old == {k \in Jobs : job[k].pc = "announce"}
           new == {k \in Jobs : job'[k].pc = "announce"}
<1>0. job \in [Jobs -> {Idle} \cup Running]
  BY DEF TypeOK
<1>1. job[j].pc \in Pcs /\ job[j] # Idle
  BY DEF Flag, Announce, Finish, Pcs, Idle
<1>2. UNCHANGED <<nextId, saved, dead, given, crashes>>
  BY DEF Flag, Announce, Finish, world, count
<1>3. /\ nextId' \in 1..(MaxIds + 1) /\ nextId <= nextId'
      /\ saved' \subseteq Ids /\ dead' \subseteq Grants /\ given' \in 0..MaxGrants
      /\ crashes' \in 0..MaxCrashes
      /\ \A i \in saved' : i \in saved
  <2>1. nextId \in 1..(MaxIds + 1) /\ nextId' = nextId
    BY <1>2 DEF TypeOK
  <2>2. nextId' \in 1..(MaxIds + 1) /\ nextId <= nextId'
    BY <2>1, LifeAssumption
  <2> QED
    BY <1>2, <2>2 DEF TypeOK
<1>4. ASSUME DOMAIN conns' = DOMAIN conns, conns' \in [DOMAIN conns -> Connection],
             job' \in [Jobs -> {Idle} \cup Running],
             \A k \in Jobs : job'[k] # Idle => job[k] # Idle /\ job'[k].conn = job[k].conn,
             Balanced, breaks' \in Nat, notices' \in Nat
      PROVE  LifeInv'
  <2>1. /\ DOMAIN conns' \subseteq Ids /\ conns' \in [DOMAIN conns' -> Connection]
        /\ \A i, k \in DOMAIN conns' : i = k
        /\ \A i \in DOMAIN conns' : i < nextId'
        /\ ForeignKeys => saved' \subseteq DOMAIN conns'
    BY <1>2, <1>4 DEF TypeOK, OneRowPerAccount, DisconnectRemovesRows
  <2> HIDE DEF LifeInv
  <2> QED
    BY <1>3, <1>4, <2>1, Assemble
<1>5. ASSUME Stop(j)
      PROVE  /\ job' \in [Jobs -> {Idle} \cup Running]
             /\ \A k \in Jobs : job'[k] # Idle => job[k] # Idle /\ job'[k].conn = job[k].conn
             /\ new = old \ {j}
  <2>1. job' = [job EXCEPT ![j] = Idle]
    BY <1>5 DEF Stop
  <2>2. Idle.pc # "announce"
    BY DEF Idle
  <2> QED
    BY <1>0, <2>1, <2>2
<1>6. breaks \in Nat /\ notices \in Nat
  BY DEF TypeOK
<1>7. CASE Announce(j)
  <2>1. Stop(j) /\ notices' = notices + 1 /\ UNCHANGED <<conns, breaks>> /\ j \in old
    BY <1>7 DEF Announce
  <2>2. Balanced
    BY <1>2, <1>5, <2>1 DEF Balanced
  <2>3. conns' \in [DOMAIN conns -> Connection] /\ DOMAIN conns' = DOMAIN conns
    BY <2>1 DEF TypeOK
  <2>4. breaks' \in Nat /\ notices' \in Nat
    BY <1>6, <2>1
  <2> QED
    BY <1>4, <1>5, <2>1, <2>2, <2>3, <2>4
<1>8. CASE Finish(j)
  <2>1. Stop(j) /\ UNCHANGED <<breaks, notices>> /\ j \notin old
    BY <1>8 DEF Finish, count
  <2>2. new = old
    BY <1>5, <2>1
  <2>3. Balanced
    BY <1>2, <2>1, <2>2 DEF Balanced
  <2>4. conns' = [i \in DOMAIN conns |->
          IF i = job[j].conn THEN [conns[i] EXCEPT !.synced = TRUE] ELSE conns[i]]
    BY <1>8 DEF Finish
  <2>5. \A i \in DOMAIN conns : conns[i] \in Connection
    BY DEF TypeOK
  <2>6. \A i \in DOMAIN conns : [conns[i] EXCEPT !.synced = TRUE] \in Connection
    BY <2>5 DEF Connection
  <2>7. conns' \in [DOMAIN conns -> Connection] /\ DOMAIN conns' = DOMAIN conns
    BY <2>4, <2>5, <2>6
  <2>8. breaks' \in Nat /\ notices' \in Nat
    BY <1>6, <2>1
  <2> QED
    BY <1>4, <1>5, <2>1, <2>3, <2>7, <2>8
<1>9. CASE Flag(j) /\ ~Changes(job[j].conn)
  <2>1. Stop(j) /\ UNCHANGED <<conns, breaks, notices>> /\ j \notin old
    BY <1>9 DEF Flag
  <2>2. new = old
    BY <1>5, <2>1
  <2>3. Balanced
    BY <1>2, <2>1, <2>2 DEF Balanced
  <2>4. conns' \in [DOMAIN conns -> Connection] /\ DOMAIN conns' = DOMAIN conns
    BY <2>1 DEF TypeOK
  <2>5. breaks' \in Nat /\ notices' \in Nat
    BY <1>6, <2>1
  <2> QED
    BY <1>4, <1>5, <2>1, <2>3, <2>4, <2>5
<1>10. CASE Flag(j) /\ Changes(job[j].conn)
  <2>1. /\ To(j, "announce") /\ breaks' = breaks + 1 /\ UNCHANGED notices /\ j \notin old
        /\ conns' = [conns EXCEPT ![job[j].conn].status = "error"]
        /\ job[j].conn \in DOMAIN conns
    BY <1>10 DEF Flag, Changes
  <2>2. /\ job' \in [Jobs -> {Idle} \cup Running]
        /\ job' = [job EXCEPT ![j] = [job[j] EXCEPT !.pc = "announce"]]
    BY <1>1, <2>1, MoveType DEF Pcs
  <2>3. job[j] \in [pc : Pcs, conn : Ids, access : Grants, refresh : Grants]
    BY <1>0, <1>1 DEF Running, Idle, Pcs
  <2>4. job'[j].conn = job[j].conn /\ job'[j].pc = "announce"
    BY <1>0, <2>2, <2>3
  <2>5. \A k \in Jobs \ {j} : job'[k] = job[k]
    BY <1>0, <2>2
  <2>6. new = old \cup {j}
    BY <2>4, <2>5
  <2>7. Balanced
    BY <1>2, <2>1, <2>6 DEF Balanced
  <2>8. conns[job[j].conn] \in Connection
    BY <2>1 DEF TypeOK
  <2>9. [conns[job[j].conn] EXCEPT !.status = "error"] \in Connection
    BY <2>8 DEF Connection
  <2>10. conns' \in [DOMAIN conns -> Connection] /\ DOMAIN conns' = DOMAIN conns
    BY <2>1, <2>9 DEF TypeOK
  <2>11. breaks' \in Nat /\ notices' \in Nat
    BY <1>6, <2>1
  <2>12. \A k \in Jobs : job'[k] # Idle => job[k] # Idle /\ job'[k].conn = job[k].conn
    BY <1>1, <2>4, <2>5
  <2> QED
    BY <1>4, <2>2, <2>7, <2>10, <2>11, <2>12
<1> QED
  BY <1>7, <1>8, <1>9, <1>10

\* The customer, the provider and the host.
LEMMA WorldKeeps ==
  ASSUME LifeInv, Human \/ Crash
  PROVE  LifeInv'
<1> USE DEF LifeInv
<1>0. /\ job \in [Jobs -> {Idle} \cup Running]
      /\ nextId \in 1..(MaxIds + 1) /\ nextId <= nextId
      /\ given \in 0..MaxGrants /\ crashes \in 0..MaxCrashes
      /\ \A i \in DOMAIN conns : conns[i] \in Connection
  BY LifeAssumption DEF TypeOK
<1>1. CASE Connect
  <2>1. /\ Upsert(given + 1, given + 1) /\ given' = given + 1
        /\ given < MaxGrants /\ UNCHANGED <<saved, job, dead, breaks, notices, crashes>>
    BY <1>1 DEF Connect, count
  <2>2. given + 1 \in Grants /\ given' \in 0..MaxGrants
    BY <1>0, <2>1, LifeAssumption DEF Grants
  <2>3. /\ DOMAIN conns' \subseteq Ids /\ conns' \in [DOMAIN conns' -> Connection]
        /\ nextId' \in 1..(MaxIds + 1) /\ nextId <= nextId'
        /\ \A i, k \in DOMAIN conns' : i = k
        /\ \A i \in DOMAIN conns' : i < nextId'
        /\ DOMAIN conns \subseteq DOMAIN conns'
    BY <2>1, <2>2, UpsertType
  <2>4. Balanced
    BY <2>1 DEF Balanced
  <2>5. /\ saved' \subseteq Ids /\ dead' \subseteq Grants
        /\ breaks' \in Nat /\ notices' \in Nat /\ crashes' \in 0..MaxCrashes
        /\ job' \in [Jobs -> {Idle} \cup Running]
        /\ ForeignKeys => saved' \subseteq DOMAIN conns'
        /\ \A i \in saved' : i \in saved
        /\ \A k \in Jobs : job'[k] # Idle => job[k] # Idle /\ job'[k].conn = job[k].conn
    BY <2>1, <2>3 DEF TypeOK, DisconnectRemovesRows
  <2> HIDE DEF LifeInv
  <2> QED
    BY <2>2, <2>3, <2>4, <2>5, Assemble
<1>2. CASE \E id \in DOMAIN conns : Disconnect(id)
  <2>1. PICK id \in DOMAIN conns : Disconnect(id)
    BY <1>2
  <2>2. /\ conns' = [i \in DOMAIN conns \ {id} |-> conns[i]] /\ saved' = saved \ {id}
        /\ UNCHANGED <<nextId, job, dead, given, breaks, notices, crashes>>
    BY <2>1 DEF Disconnect, count
  <2>3. DOMAIN conns' = DOMAIN conns \ {id}
    BY <2>2
  <2>4. conns' \in [DOMAIN conns' -> Connection]
    BY <1>0, <2>2, <2>3
  <2>5. /\ DOMAIN conns' \subseteq Ids
        /\ \A i, k \in DOMAIN conns' : i = k
        /\ \A i \in DOMAIN conns' : i < nextId'
    BY <2>2, <2>3 DEF TypeOK, OneRowPerAccount
  <2>6. Balanced
    BY <2>2 DEF Balanced
  <2>7. /\ saved' \subseteq Ids /\ dead' \subseteq Grants
        /\ breaks' \in Nat /\ notices' \in Nat /\ crashes' \in 0..MaxCrashes
        /\ given' \in 0..MaxGrants
        /\ job' \in [Jobs -> {Idle} \cup Running]
        /\ ForeignKeys => saved' \subseteq DOMAIN conns'
        /\ \A i \in saved' : i \in saved
        /\ \A k \in Jobs : job'[k] # Idle => job[k] # Idle /\ job'[k].conn = job[k].conn
    BY <2>2, <2>3 DEF TypeOK, DisconnectRemovesRows
  <2>8. nextId' \in 1..(MaxIds + 1) /\ nextId <= nextId'
    BY <1>0, <2>2
  <2> HIDE DEF LifeInv
  <2> QED
    BY <2>4, <2>5, <2>6, <2>7, <2>8, Assemble
<1>3. CASE Revoke
  <2>1. UNCHANGED <<conns, nextId, saved, job, given, breaks, notices, crashes>>
    BY <1>3 DEF Revoke, count
  <2>2. dead' \subseteq Grants
    <3>1. PICK g \in (1..given) \ dead : dead' = dead \cup {g}
      BY <1>3 DEF Revoke
    <3>2. g \in Grants
      BY <1>0, LifeAssumption DEF Grants
    <3> QED
      BY <3>1, <3>2 DEF TypeOK
  <2>3. TypeOK'
    BY <2>1, <2>2 DEF TypeOK
  <2>4. OneRowPerAccount' /\ DisconnectRemovesRows'
    BY <2>1 DEF OneRowPerAccount, DisconnectRemovesRows
  <2>5. AnnouncedOnce'
    BY <2>1 DEF AnnouncedOnce
  <2> QED
    BY <2>3, <2>4, <2>5
<1>4. CASE Crash
  <2>1. /\ crashes < MaxCrashes /\ crashes' = crashes + 1
        /\ job' = [j \in Jobs |-> Idle]
        /\ UNCHANGED <<conns, nextId, saved, dead, given, breaks, notices>>
    BY <1>4 DEF Crash, world, count
  <2>2. {j \in Jobs : job'[j].pc = "announce"} = {}
    BY <2>1 DEF Idle
  <2>3. Balanced
    BY <2>1, <2>2 DEF Balanced
  <2>4. crashes' \in 0..MaxCrashes
    BY <1>0, <2>1, LifeAssumption
  <2>5. job' \in [Jobs -> {Idle} \cup Running]
    BY <2>1
  <2>6. TypeOK'
    BY <2>1, <2>4, <2>5 DEF TypeOK
  <2>7. OneRowPerAccount' /\ DisconnectRemovesRows'
    BY <2>1 DEF OneRowPerAccount, DisconnectRemovesRows
  <2>8. AnnouncedOnce'
    <3>1. crashes' \in Nat
      BY <2>4, LifeAssumption
    <3> QED
      BY <2>3, <3>1, BalancedKeeps
  <2> QED
    BY <2>6, <2>7, <2>8
<1> QED
  BY <1>1, <1>2, <1>3, <1>4 DEF Human

\* Every step, and every stutter, keeps the invariant.
LEMMA LifeNext == LifeInv /\ [Next]_vars => LifeInv'
<1> SUFFICES ASSUME LifeInv, [Next]_vars PROVE LifeInv'
  OBVIOUS
<1>1. ASSUME NEW j \in Jobs, Start(j) \/ Step(j) PROVE LifeInv'
  BY <1>1, QuietSteps, StoreKeeps, SaveKeeps, FlagKeeps DEF Start, Step
<1>2. CASE Human \/ Crash
  BY <1>2, WorldKeeps
<1>3. CASE UNCHANGED vars
  BY <1>3 DEF vars, LifeInv, TypeOK, OneRowPerAccount, AnnouncedOnce, DisconnectRemovesRows
<1> QED
  BY <1>1, <1>2, <1>3 DEF Next

\* The mailbox's life is safe, whatever consents, refreshes, refusals,
\* disconnects and restarts overlap.
THEOREM LifeSafe == Spec => []LifeInv
<1>1. Init => LifeInv
  BY LifeInit
<1>2. LifeInv /\ [Next]_vars => LifeInv'
  BY LifeNext
<1> QED
  BY <1>1, <1>2, PTL DEF Spec

\* The rows, jobs and counters of MailboxConnection keep their types.
THEOREM LifeTypes == Spec => []TypeOK
<1>1. LifeInv => TypeOK
  BY DEF LifeInv
<1> QED
  BY <1>1, LifeSafe, PTL

\* _mark_broken announces each break once, by exactly one job.
THEOREM LifeAnnounced == Spec => []AnnouncedOnce
<1>1. LifeInv => AnnouncedOnce
  BY DEF LifeInv
<1> QED
  BY <1>1, LifeSafe, PTL

\* The upsert of a callback or a refresh never leaves two rows for the account, and with
\* foreign keys enforced no message outlives its mailbox.
THEOREM LifeRows == Spec => []RowsOfOneMailbox
<1>1. LifeInv => RowsOfOneMailbox
  BY DEF LifeInv, RowsOfOneMailbox
<1> QED
  BY <1>1, LifeSafe, PTL
=============================================================================
