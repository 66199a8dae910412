------------------------------ MODULE LlmProofs -----------------------------
(* The safety of what the product does with language models: of            *)
(* DraftBudget for any number of threads, messages, prices, faults and     *)
(* months, of CircuitBreaker for any number of callers, thresholds and     *)
(* interleavings of late answers, and of InboxAgent for any number of runs *)
(* and emails and whatever models answer.  The three share no state.       *)
EXTENDS DraftBudget, CircuitBreaker, InboxAgent, FiniteSetTheorems, SequenceTheorems, TLAPS

----------------------------------------------------------------------------
(* DraftBudget.                                                            *)

\* What thread s has in hand that the ledger does not know yet.
Due(s) == IF sync[s].pc \in {"bill", "charge"} THEN sync[s].cost ELSE 0

\* What the failed reads of thread s have granted it.
Grant(s) == blind[s] * Ceiling

\* An open sync knows of all its thread has billed, save for what a failed read
\* made it forget, and is about to bill one call at most over the limit.
MoneyOk(s) ==
  /\ share[s] <= ledger
  /\ sync[s].pc \in {"draft", "bill", "charge"} => sync[s].live
  /\ sync[s].pc = "draft" => Allows(s)
  /\ sync[s].pc \in {"bill", "charge"} => sync[s].cost <= MaxCost /\ sync[s].cost <= sync[s].spent
  /\ enforced /\ sync[s].live => share[s] + Due(s) <= Grant(s) + sync[s].spent
  /\ enforced => share[s] + Due(s) <= Grant(s) + Ceiling

\* A draft that was bought is in the cache or in its buyer's hands.
DraftOk(s) ==
  /\ \A m \in Messages : paid[m][s] <= 1
  /\ \A m \in Messages :
       paid[m][s] = 1 => m \in mem \/ (sync[s].pc = "bill" /\ sync[s].msg = m)
  /\ sync[s].pc \in {"draft", "bill", "verify", "charge", "queue"} => sync[s].msg \in Messages
  /\ sync[s].pc = "draft" => paid[sync[s].msg][s] = 0

\* Without a race, the one thread that saves holds all there is to save.
FileOk ==
  raced \/ /\ \A s \in Syncs : sync[s].pc = "save" => dirty /\ sync[s].snap = mem
           /\ \A s, t \in Syncs : sync[s].pc = "save" /\ sync[t].pc = "save" => s = t
           /\ dirty \/ mem = disk

BudgetInv ==
  /\ TypeOK /\ FileOk
  /\ \A s \in Syncs : MoneyOk(s) /\ DraftOk(s)

----------------------------------------------------------------------------
\* Arithmetic of the grants.
LEMMA GrantSteps ==
  ASSUME NEW b \in Nat, NEW c \in Nat
  PROVE  b * c \in Nat /\ (b + 1) * c = b * c + c /\ 0 * c = 0
  BY SMT

\* With a ceiling, one call past it is a natural number, and no call is dearer.
LEMMA CeilingNat == enforced => Ceiling \in Nat /\ MaxCost <= Ceiling /\ Limit - 1 + MaxCost = Ceiling
  BY BudgetAssumption DEF enforced, Ceiling

\* The start: nothing spent, nothing bought, nothing saved.
LEMMA BudgetInit == Init => BudgetInv
<1> SUFFICES ASSUME Init PROVE BudgetInv
  OBVIOUS
<1> USE BudgetAssumption
<1>1. Idle \in SyncState /\ Idle.pc = "idle" /\ Idle.live = FALSE
  BY DEF Idle, SyncState, Steps
<1>2. TypeOK
  <2>1. sync \in [Syncs -> SyncState]
    BY <1>1 DEF Init
  <2>2. paid \in [Messages -> [Syncs -> Nat]]
    BY DEF Init
  <2>3. ledger \in Nat /\ share \in [Syncs -> Nat] /\ blind \in [Syncs -> Nat] /\ faults \in 0..MaxFaults
    BY DEF Init
  <2>4. queued \subseteq Messages /\ mem \subseteq Messages /\ disk \subseteq Messages
    BY DEF Init
  <2>5. dirty \in BOOLEAN /\ raced \in BOOLEAN
    BY DEF Init
  <2> QED
    BY <2>1, <2>2, <2>3, <2>4, <2>5 DEF TypeOK
<1>3. FileOk
  BY DEF Init, FileOk, Idle
<1>4. ASSUME NEW s \in Syncs PROVE MoneyOk(s) /\ DraftOk(s)
  <2>1. sync[s].pc = "idle" /\ sync[s].live = FALSE /\ share[s] = 0 /\ blind[s] = 0 /\ ledger = 0
    BY <1>1 DEF Init
  <2>2. Due(s) = 0
    BY <2>1 DEF Due
  <2>3. enforced => Grant(s) = 0 /\ Ceiling \in Nat
    BY <2>1, GrantSteps, CeilingNat DEF Grant
  <2>4. MoneyOk(s)
    BY <2>1, <2>2, <2>3 DEF MoneyOk
  <2>5. \A m \in Messages : paid[m][s] = 0
    BY DEF Init
  <2>6. DraftOk(s)
    BY <2>1, <2>5 DEF DraftOk
  <2> QED
    BY <2>4, <2>6
<1> QED
  BY <1>2, <1>3, <1>4 DEF BudgetInv

\* A thread that a step does not touch keeps what is said of its money.
LEMMA MoneyOthers ==
  ASSUME NEW t \in Syncs, TypeOK, MoneyOk(t), sync'[t] = sync[t], share'[t] = share[t],
         blind'[t] = blind[t], ledger' \in Nat, ledger <= ledger'
  PROVE  MoneyOk(t)'
<1>1. share[t] \in Nat /\ ledger \in Nat
  BY DEF TypeOK
<1>2. Due(t)' = Due(t) /\ Grant(t)' = Grant(t) /\ (Allows(t)' <=> Allows(t))
  BY DEF Due, Grant, Allows
<1> QED
  BY <1>1, <1>2 DEF MoneyOk

\* A thread that a step does not touch keeps what is said of its drafts.
LEMMA DraftOthers ==
  ASSUME NEW t \in Syncs, TypeOK, DraftOk(t), sync'[t] = sync[t], mem \subseteq mem',
         \A m \in Messages : paid'[m][t] = paid[m][t]
  PROVE  DraftOk(t)'
  BY DEF DraftOk

\* A step of thread s that leaves ledger, grants and cache alone and moves s to a
\* place where nothing is due keeps the money and the drafts of all threads.
LEMMA QuietStep ==
  ASSUME NEW s \in Syncs, BudgetInv, NEW r \in SyncState, sync' = [sync EXCEPT ![s] = r],
         UNCHANGED <<ledger, share, blind, mem, paid>>,
         r.pc \in {"idle", "next", "verify", "queue", "save"},
         r.live => sync[s].live /\ sync[s].spent <= r.spent,
         r.pc \in {"verify", "queue"} => r.msg \in Messages,
         sync[s].pc # "bill"
  PROVE  \A t \in Syncs : MoneyOk(t)' /\ DraftOk(t)'
<1> SUFFICES ASSUME NEW t \in Syncs PROVE MoneyOk(t)' /\ DraftOk(t)'
  OBVIOUS
<1>1. TypeOK /\ MoneyOk(t) /\ DraftOk(t) /\ ledger \in Nat
  BY DEF BudgetInv, TypeOK
<1>2. CASE t # s
  <2>1. sync'[t] = sync[t]
    BY <1>2
  <2> QED
    BY <2>1, <1>1, MoneyOthers, DraftOthers
<1>3. CASE t = s
  <2>1. sync'[t] = r /\ sync[t] \in SyncState
    BY <1>3, <1>1 DEF TypeOK
  <2>2. Due(t)' = 0 /\ Grant(t)' = Grant(t) /\ Due(t) \in Nat
    BY <2>1 DEF Due, Grant, SyncState
  <2>3. enforced => Ceiling \in Nat /\ Grant(t) \in Nat
    BY <1>1, CeilingNat, GrantSteps DEF Grant, TypeOK
  <2>4. share[t] \in Nat /\ sync[t].spent \in Nat /\ r.spent \in Nat
    BY <1>1, <2>1 DEF TypeOK, SyncState
  <2>5. MoneyOk(t)'
    BY <1>1, <1>3, <2>1, <2>2, <2>3, <2>4 DEF MoneyOk
  <2>6. DraftOk(t)'
    BY <1>1, <1>3, <2>1 DEF DraftOk
  <2> QED
    BY <2>5, <2>6
<1> QED
  BY <1>2, <1>3

----------------------------------------------------------------------------
(* The steps of one sync.                                                  *)

\* What every step of a sync says of types: the thread's record, and the rest.
LEMMA TypeOfStep ==
  ASSUME NEW s \in Syncs, TypeOK, NEW r \in SyncState, sync' = [sync EXCEPT ![s] = r],
         ledger' \in Nat, share' \in [Syncs -> Nat], blind' \in [Syncs -> Nat],
         queued' \subseteq Messages, mem' \subseteq Messages, disk' \subseteq Messages,
         dirty' \in BOOLEAN, raced' \in BOOLEAN, faults' \in 0..MaxFaults,
         paid' \in [Messages -> [Syncs -> Nat]]
  PROVE  TypeOK'
<1>1. sync' \in [Syncs -> SyncState]
  BY DEF TypeOK
<1> QED
  BY <1>1 DEF TypeOK

\* A step of a thread that neither was nor is saving, and leaves the cache alone.
LEMMA FileOthers ==
  ASSUME NEW s \in Syncs, TypeOK, FileOk, NEW r \in SyncState, sync' = [sync EXCEPT ![s] = r],
         UNCHANGED <<mem, disk, dirty, raced>>, r.pc # "save"
  PROVE  FileOk'
<1>1. \A t \in Syncs : sync'[t].pc = "save" => sync[t].pc = "save" /\ sync'[t].snap = sync[t].snap
  BY DEF TypeOK
<1> QED
  BY <1>1 DEF FileOk

\* Reading what a sync record holds.
LEMMA RecordOf ==
  ASSUME NEW s \in Syncs, TypeOK
  PROVE  /\ sync[s] \in SyncState /\ sync[s].live \in BOOLEAN /\ sync[s].spent \in Nat
         /\ sync[s].cost \in Nat /\ sync[s].snap \subseteq Messages
         /\ sync[s].todo \subseteq Messages
  BY DEF TypeOK, SyncState

\* A step that changes a thread's place, its message and its charge only.
LEMMA MoveStep ==
  ASSUME NEW s \in Syncs, BudgetInv, NEW r \in SyncState, sync' = [sync EXCEPT ![s] = r],
         UNCHANGED <<ledger, share, blind, mem, disk, dirty, raced, paid>>,
         queued' \subseteq Messages, faults' \in 0..MaxFaults,
         r.pc \in {"idle", "next", "verify", "queue"},
         r.live => sync[s].live /\ sync[s].spent <= r.spent,
         r.pc \in {"verify", "queue"} => r.msg \in Messages,
         sync[s].pc # "bill"
  PROVE  BudgetInv'
<1>1. TypeOK'
  <2>1. TypeOK
    BY DEF BudgetInv
  <2>2. /\ ledger' \in Nat /\ share' \in [Syncs -> Nat] /\ blind' \in [Syncs -> Nat]
        /\ mem' \subseteq Messages /\ disk' \subseteq Messages
        /\ paid' \in [Messages -> [Syncs -> Nat]]
    BY <2>1 DEF TypeOK
  <2>3. dirty' \in BOOLEAN /\ raced' \in BOOLEAN
    BY <2>1 DEF TypeOK
  <2> QED
    BY <2>1, <2>2, <2>3, TypeOfStep
<1>2. FileOk'
  BY FileOthers DEF BudgetInv
<1>3. \A t \in Syncs : MoneyOk(t)' /\ DraftOk(t)'
  BY QuietStep
<1> QED
  BY <1>1, <1>2, <1>3 DEF BudgetInv

\* The money of a thread that has just been answered: one call is due, the sync
\* was allowed to make it, and the grant bounds what it comes to.
LEMMA AnsweredMoney ==
  ASSUME NEW s \in Syncs, BudgetInv, NEW c \in Costs, NEW r \in SyncState,
         sync' = [sync EXCEPT ![s] = r], UNCHANGED <<ledger, share, blind>>,
         r.pc \in {"bill", "charge"}, r.live, sync[s].live, Allows(s), sync[s].pc \in {"draft", "verify"},
         r.cost = c, r.spent = sync[s].spent + c
  PROVE  \A t \in Syncs : MoneyOk(t)'
<1> SUFFICES ASSUME NEW t \in Syncs PROVE MoneyOk(t)'
  OBVIOUS
<1>1. TypeOK /\ MoneyOk(t) /\ ledger \in Nat
  BY DEF BudgetInv, TypeOK
<1>2. CASE t # s
  <2>1. sync'[t] = sync[t]
    BY <1>2
  <2> QED
    BY <2>1, <1>1, MoneyOthers
<1>3. CASE t = s
  <2>1. sync'[t] = r
    BY <1>1, <1>3 DEF TypeOK
  <2>2. Due(t)' = c /\ Due(t) = 0 /\ Grant(t)' = Grant(t)
    BY <1>3, <2>1 DEF Due, Grant
  <2>3. c \in Nat /\ c <= MaxCost /\ MaxCost \in Nat /\ Limit \in Nat
    BY BudgetAssumption
  <2>4. enforced => Grant(t) \in Nat /\ Limit - 1 + MaxCost = Ceiling
    BY <1>1, CeilingNat, GrantSteps DEF Grant, TypeOK
  <2>5. share[t] \in Nat /\ sync[t].spent \in Nat
    BY <1>1 DEF TypeOK, SyncState
  <2>6. enforced => share[t] + c <= Grant(t) + sync[t].spent + c
    BY <1>1, <1>3, <2>2, <2>3, <2>4, <2>5 DEF MoneyOk
  <2>7. enforced => sync[t].spent <= Limit - 1
    BY <1>3, <2>3, <2>5 DEF Allows
  <2>8. enforced => share[t] + c <= Grant(t) + Ceiling
    BY <2>3, <2>4, <2>5, <2>6, <2>7
  <2>9. c <= r.spent
    BY <1>3, <2>3, <2>5
  <2> QED
    BY <1>1, <1>3, <2>1, <2>2, <2>3, <2>4, <2>5, <2>6, <2>8, <2>9 DEF MoneyOk
<1> QED
  BY <1>2, <1>3

\* The row is written or lost: nothing is due any more.
LEMMA BilledMoney ==
  ASSUME NEW s \in Syncs, BudgetInv, NEW r \in SyncState, sync' = [sync EXCEPT ![s] = r],
         RecordUsage(s), UNCHANGED blind, sync[s].pc \in {"bill", "charge"},
         r.pc \in {"verify", "queue"}, r.live = sync[s].live, r.spent = sync[s].spent
  PROVE  /\ \A t \in Syncs : MoneyOk(t)'
         /\ ledger' \in Nat /\ share' \in [Syncs -> Nat] /\ blind' \in [Syncs -> Nat]
<1>1. TypeOK /\ MoneyOk(s)
  BY DEF BudgetInv
<1>2. ledger \in Nat /\ share \in [Syncs -> Nat] /\ blind \in [Syncs -> Nat]
  BY <1>1 DEF TypeOK
<1>3. sync[s].cost \in Nat /\ Due(s) = sync[s].cost /\ sync[s].spent \in Nat
  BY <1>1, RecordOf DEF Due
<1>4. /\ ledger' \in Nat /\ ledger <= ledger' /\ share' \in [Syncs -> Nat]
      /\ share'[s] <= ledger' /\ share'[s] <= share[s] + Due(s)
      /\ \A t \in Syncs \ {s} : share'[t] = share[t]
  <2>1. share[s] <= ledger
    BY <1>1 DEF MoneyOk
  <2> QED
    BY <1>2, <1>3, <2>1 DEF RecordUsage
<1>5. ASSUME NEW t \in Syncs PROVE MoneyOk(t)'
  <2>1. CASE t # s
    <3>1. sync'[t] = sync[t] /\ share'[t] = share[t] /\ blind'[t] = blind[t] /\ MoneyOk(t)
      BY <2>1, <1>4 DEF BudgetInv
    <3> QED
      BY <3>1, <1>1, <1>4, MoneyOthers
  <2>2. CASE t = s
    <3>1. sync'[s] = r
      BY <1>1 DEF TypeOK
    <3>2. Due(s)' = 0 /\ Grant(s)' = Grant(s)
      BY <3>1 DEF Due, Grant
    <3>3. enforced => Grant(s) \in Nat /\ Ceiling \in Nat
      BY <1>2, CeilingNat, GrantSteps DEF Grant
    <3>4. MoneyOk(s)'
      <4>1. share'[s] \in Nat /\ share[s] \in Nat
        BY <1>2, <1>4
      <4>2. enforced /\ r.live => share'[s] <= Grant(s) + r.spent
        BY <1>1, <1>3, <1>4, <3>3, <4>1 DEF MoneyOk
      <4>3. enforced => share'[s] <= Grant(s) + Ceiling
        BY <1>1, <1>3, <1>4, <3>3, <4>1 DEF MoneyOk
      <4> QED
        BY <3>1, <3>2, <3>3, <1>4, <4>1, <4>2, <4>3 DEF MoneyOk
    <3> QED
      BY <2>2, <3>4
  <2> QED
    BY <2>1, <2>2
<1> QED
  BY <1>2, <1>4, <1>5

----------------------------------------------------------------------------
(* The actions.                                                            *)

\* A sync begins with the ledger's sum, or with nothing after a failed read.
LEMMA BeginKeeps == ASSUME NEW s \in Syncs, BudgetInv, Begin(s) PROVE BudgetInv'
<1>0. TypeOK /\ FileOk /\ MoneyOk(s) /\ DraftOk(s) /\ sync[s] \in SyncState /\ ledger \in Nat
  BY DEF BudgetInv, TypeOK
<1>1. PICK live \in BOOLEAN, spend \in {0, ledger} :
        /\ IF live THEN ReadSpend(s, spend) ELSE spend = 0 /\ UNCHANGED blind
        /\ sync' = [sync EXCEPT ![s] = [Idle EXCEPT !.pc = "next", !.live = live,
                                          !.todo = Messages, !.spent = spend]]
  BY DEF Begin
<1>2. /\ UNCHANGED <<ledger, share, queued, mem, disk, dirty, paid, raced, faults>>
      /\ sync[s].pc = "idle"
  BY DEF Begin, cache
<1> DEFINE r == [Idle EXCEPT !.pc = "next", !.live = live, !.todo = Messages, !.spent = spend]
<1>3. r \in SyncState /\ r.pc = "next" /\ r.live = live /\ r.spent = spend
  <2>1. Idle \in SyncState
    BY DEF Idle, SyncState, Steps
  <2>2. spend \in Nat
    BY <1>0
  <2>3. r \in SyncState
    BY <2>1, <2>2 DEF SyncState, Steps
  <2>4. r.pc = "next" /\ r.spent = spend
    BY <2>1 DEF SyncState
  <2>5. r.live = live
    BY <2>1 DEF SyncState
  <2> QED
    BY <2>3, <2>4, <2>5
<1>4. sync' = [sync EXCEPT ![s] = r]
  BY <1>1
<1> HIDE DEF r
<1>5. blind' \in [Syncs -> Nat] /\ \A t \in Syncs \ {s} : blind'[t] = blind[t]
  BY <1>0, <1>1 DEF ReadSpend, TypeOK
<1>6. TypeOK'
  <2>1. /\ ledger' \in Nat /\ share' \in [Syncs -> Nat] /\ faults' \in 0..MaxFaults
        /\ queued' \subseteq Messages /\ mem' \subseteq Messages /\ disk' \subseteq Messages
        /\ paid' \in [Messages -> [Syncs -> Nat]]
    BY <1>0, <1>2 DEF TypeOK
  <2>2. dirty' \in BOOLEAN /\ raced' \in BOOLEAN
    BY <1>0, <1>2 DEF TypeOK
  <2> QED
    BY <1>0, <1>3, <1>4, <1>5, <2>1, <2>2, TypeOfStep
<1>7. FileOk'
  BY <1>0, <1>2, <1>3, <1>4, FileOthers
<1>8. sync'[s] = r /\ \A t \in Syncs \ {s} : sync'[t] = sync[t]
  BY <1>0, <1>4 DEF TypeOK
<1>9. MoneyOk(s)'
  <2>1. Due(s) = 0 /\ Due(s)' = 0
    BY <1>2, <1>3, <1>8 DEF Due
  <2>2. share[s] \in Nat /\ blind[s] \in Nat /\ share[s] <= ledger
    BY <1>0 DEF TypeOK, MoneyOk
  <2>3. enforced => Ceiling \in Nat /\ Grant(s) \in Nat
    BY <2>2, CeilingNat, GrantSteps DEF Grant
  <2>4. enforced => share[s] <= Grant(s) + Ceiling
    BY <1>0, <2>1, <2>2 DEF MoneyOk
  <2>5. enforced => \/ blind'[s] = blind[s] /\ (live => spend = ledger)
                    \/ blind'[s] = blind[s] + 1 /\ spend = 0
    BY <1>0, <1>1 DEF ReadSpend, TypeOK
  <2>6. enforced => \/ Grant(s)' = Grant(s) /\ (live => spend = ledger)
                    \/ Grant(s)' = Grant(s) + Ceiling
    BY <2>2, <2>3, <2>5, GrantSteps DEF Grant
  <2>7. spend \in Nat /\ share'[s] = share[s] /\ ledger' = ledger
    BY <1>0, <1>2
  <2>8. enforced /\ live => share[s] <= Grant(s)' + spend
    BY <1>0, <2>2, <2>3, <2>4, <2>6, <2>7
  <2>9. enforced => share[s] <= Grant(s)' + Ceiling
    BY <2>2, <2>3, <2>4, <2>6
  <2>10. enforced => Grant(s)' \in Nat
    BY <2>3, <2>6
  <2> QED
    BY <1>3, <1>8, <2>1, <2>2, <2>3, <2>7, <2>8, <2>9, <2>10 DEF MoneyOk
<1>10. DraftOk(s)'
  BY <1>0, <1>2, <1>3, <1>8 DEF DraftOk
<1>11. ASSUME NEW t \in Syncs, t # s PROVE MoneyOk(t)' /\ DraftOk(t)'
  <2>1. sync'[t] = sync[t] /\ blind'[t] = blind[t] /\ MoneyOk(t) /\ DraftOk(t)
    BY <1>5, <1>8, <1>11 DEF BudgetInv
  <2>2. share'[t] = share[t] /\ ledger' \in Nat /\ ledger <= ledger' /\ mem \subseteq mem'
    BY <1>0, <1>2
  <2>3. \A m \in Messages : paid'[m][t] = paid[m][t]
    BY <1>2
  <2> QED
    BY <1>0, <2>1, <2>2, <2>3, MoneyOthers, DraftOthers
<1> QED
  BY <1>6, <1>7, <1>9, <1>10, <1>11 DEF BudgetInv

\* The next message: skipped, answered from the cache, or given to the model.
LEMMA TakeKeeps ==
  ASSUME NEW s \in Syncs, NEW m \in Messages, BudgetInv, Take(s, m) PROVE BudgetInv'
<1>0. TypeOK /\ FileOk /\ MoneyOk(s) /\ DraftOk(s) /\ sync[s] \in SyncState
  BY DEF BudgetInv, TypeOK
<1>1. UNCHANGED <<ledger, share, blind, queued, mem, disk, dirty, paid, raced, faults>>
  BY DEF Take, store, cache
<1> DEFINE to == IF m \in queued THEN "next"
                 ELSE IF m \in mem THEN "verify"
                 ELSE IF sync[s].live /\ Allows(s) THEN "draft" ELSE Fallback(m)
           r == [sync[s] EXCEPT !.todo = @ \ {m}, !.msg = IF m \in queued THEN None ELSE m, !.pc = to]
<1>2. to \in {"next", "verify", "queue", "draft"}
  BY DEF Fallback
<1>3. r \in SyncState /\ r.pc = to /\ r.live = sync[s].live /\ r.spent = sync[s].spent
  BY <1>0, <1>2 DEF SyncState, Steps
<1>4. sync' = [sync EXCEPT ![s] = r] /\ sync[s].pc = "next"
  BY <1>0 DEF Take, TypeOK
<1>5. to # "next" => r.msg = m
  BY <1>0 DEF SyncState
<1>6. to = "draft" => sync[s].live /\ Allows(s) /\ m \notin mem
  BY DEF Fallback
<1> HIDE DEF r, to
<1>7. queued' \subseteq Messages /\ faults' \in 0..MaxFaults
  BY <1>0, <1>1 DEF TypeOK
<1>8. CASE to # "draft"
  <2>1. r.live => sync[s].live /\ sync[s].spent <= r.spent
    BY <1>0, <1>3, RecordOf
  <2> QED
    BY <1>1, <1>2, <1>3, <1>4, <1>5, <1>7, <1>8, <2>1, MoveStep
<1>9. CASE to = "draft"
  <2>1. TypeOK'
    <3>1. /\ ledger' \in Nat /\ share' \in [Syncs -> Nat] /\ blind' \in [Syncs -> Nat]
          /\ mem' \subseteq Messages /\ disk' \subseteq Messages
          /\ paid' \in [Messages -> [Syncs -> Nat]]
      BY <1>0, <1>1 DEF TypeOK
    <3>2. dirty' \in BOOLEAN /\ raced' \in BOOLEAN
      BY <1>0, <1>1 DEF TypeOK
    <3> QED
      BY <1>0, <1>3, <1>4, <1>7, <3>1, <3>2, TypeOfStep
  <2>2. FileOk'
    BY <1>0, <1>1, <1>3, <1>4, <1>9, FileOthers
  <2>3. sync'[s] = r /\ \A t \in Syncs \ {s} : sync'[t] = sync[t]
    BY <1>0, <1>4 DEF TypeOK
  <2>4. MoneyOk(s)'
    <3>1. Due(s) = 0 /\ Due(s)' = 0 /\ Grant(s)' = Grant(s) /\ (Allows(s)' <=> Allows(s))
      BY <1>1, <1>3, <1>4, <1>9, <2>3 DEF Due, Grant, Allows
    <3> QED
      BY <1>0, <1>1, <1>3, <1>6, <1>9, <2>3, <3>1 DEF MoneyOk
  <2>5. DraftOk(s)'
    <3>1. paid[m][s] = 0
      <4>1. paid[m][s] \in Nat /\ paid[m][s] <= 1 /\ paid[m][s] # 1
        BY <1>0, <1>4, <1>6, <1>9 DEF DraftOk, TypeOK
      <4> QED
        BY <4>1
    <3> QED
      BY <1>0, <1>1, <1>3, <1>4, <1>5, <1>9, <2>3, <3>1 DEF DraftOk
  <2>6. ASSUME NEW t \in Syncs, t # s PROVE MoneyOk(t)' /\ DraftOk(t)'
    <3>1. sync'[t] = sync[t] /\ MoneyOk(t) /\ DraftOk(t)
      BY <2>3, <2>6 DEF BudgetInv
    <3>2. ledger' \in Nat /\ ledger <= ledger'
      BY <1>0, <1>1 DEF TypeOK
    <3> QED
      BY <1>0, <1>1, <3>1, <3>2, MoneyOthers, DraftOthers
  <2> QED
    BY <2>1, <2>2, <2>4, <2>5, <2>6 DEF BudgetInv
<1> QED
  BY <1>8, <1>9

\* The model fails: the message goes on with the text it has.
LEMMA DraftFailsKeeps == ASSUME NEW s \in Syncs, BudgetInv, DraftFails(s) PROVE BudgetInv'
<1>0. TypeOK /\ DraftOk(s) /\ sync[s] \in SyncState
  BY DEF BudgetInv, TypeOK
<1> DEFINE r == [sync[s] EXCEPT !.pc = Fallback(sync[s].msg)]
<1>1. /\ UNCHANGED <<ledger, share, blind, queued, mem, disk, dirty, paid, raced, faults>>
      /\ sync[s].pc = "draft" /\ sync' = [sync EXCEPT ![s] = r]
  BY DEF DraftFails, store, cache
<1>2. /\ r \in SyncState /\ r.pc \in {"verify", "queue"} /\ r.live = sync[s].live
      /\ r.spent = sync[s].spent /\ r.msg \in Messages /\ sync[s].spent <= r.spent
  BY <1>0, <1>1 DEF Fallback, SyncState, Steps, DraftOk
<1>3. queued' \subseteq Messages /\ faults' \in 0..MaxFaults
  BY <1>0, <1>1 DEF TypeOK
<1> HIDE DEF r
<1> QED
  BY <1>1, <1>2, <1>3, MoveStep

\* What is spent stays a natural number.
LEMMA AnsweredSums ==
  ASSUME NEW s \in Syncs, TypeOK, NEW c \in Costs
  PROVE  c \in Nat /\ sync[s].spent + c \in Nat
  BY RecordOf, BudgetAssumption

\* A usable draft: the call is due, and the draft is in its buyer's hands.
LEMMA DraftWrittenKeeps == ASSUME NEW s \in Syncs, BudgetInv, DraftWritten(s) PROVE BudgetInv'
<1>0. TypeOK /\ FileOk /\ MoneyOk(s) /\ DraftOk(s) /\ sync[s] \in SyncState
  BY DEF BudgetInv, TypeOK
<1>1. PICK c \in Costs :
        sync' = [sync EXCEPT ![s].pc = "bill", ![s].cost = c,
                             ![s].spent = @ + c]
  BY DEF DraftWritten
<1>a. PICK n \in Nat : n = sync[s].spent + c
  BY <1>0, AnsweredSums
<1> DEFINE r == [sync[s] EXCEPT !.pc = "bill", !.cost = c, !.spent = n]
<1>2. /\ UNCHANGED <<ledger, share, blind, queued, mem, disk, dirty, raced, faults>>
      /\ sync[s].pc = "draft" /\ paid' = [paid EXCEPT ![sync[s].msg][s] = @ + 1]
  BY DEF DraftWritten, store
<1>3. sync' = [sync EXCEPT ![s] = r]
  BY <1>0, <1>1, <1>a DEF TypeOK
<1>4. c \in Nat
  BY BudgetAssumption
<1>5. /\ r \in SyncState /\ r.pc = "bill" /\ r.live = sync[s].live
      /\ r.cost = c /\ r.spent = sync[s].spent + c /\ r.msg = sync[s].msg
  BY <1>0, <1>4, <1>a DEF SyncState, Steps
<1>6. sync[s].msg \in Messages /\ sync[s].live /\ Allows(s) /\ paid[sync[s].msg][s] = 0
  BY <1>0, <1>2 DEF MoneyOk, DraftOk
<1> HIDE DEF r
<1>7. paid' \in [Messages -> [Syncs -> Nat]]
  BY <1>0, <1>2, <1>6 DEF TypeOK
<1>8. TypeOK'
  <2>1. /\ ledger' \in Nat /\ share' \in [Syncs -> Nat] /\ blind' \in [Syncs -> Nat]
        /\ queued' \subseteq Messages /\ mem' \subseteq Messages /\ disk' \subseteq Messages
        /\ faults' \in 0..MaxFaults
    BY <1>0, <1>2 DEF TypeOK
  <2>2. dirty' \in BOOLEAN /\ raced' \in BOOLEAN
    BY <1>0, <1>2 DEF TypeOK
  <2> QED
    BY <1>0, <1>3, <1>5, <1>7, <2>1, <2>2, TypeOfStep
<1>9. FileOk'
  BY <1>0, <1>2, <1>3, <1>5, FileOthers
<1>10. \A t \in Syncs : MoneyOk(t)'
  BY <1>2, <1>3, <1>5, <1>6, AnsweredMoney
<1>11. sync'[s] = r /\ \A t \in Syncs \ {s} : sync'[t] = sync[t]
  BY <1>0, <1>3 DEF TypeOK
<1>12. /\ paid'[sync[s].msg][s] = 1
       /\ \A m \in Messages : m # sync[s].msg => paid'[m] = paid[m]
       /\ \A m \in Messages, t \in Syncs \ {s} : paid'[m][t] = paid[m][t]
  BY <1>0, <1>2, <1>6 DEF TypeOK
<1>13. DraftOk(s)'
  <2>1. \A m \in Messages : m # sync[s].msg => /\ paid'[m][s] <= 1
                                               /\ paid'[m][s] = 1 => m \in mem'
    BY <1>0, <1>2, <1>12 DEF DraftOk
  <2> QED
    BY <1>5, <1>6, <1>11, <1>12, <2>1 DEF DraftOk
<1>14. ASSUME NEW t \in Syncs, t # s PROVE DraftOk(t)'
  <2>1. sync'[t] = sync[t] /\ DraftOk(t) /\ mem \subseteq mem' /\ \A m \in Messages : paid'[m][t] = paid[m][t]
    BY <1>2, <1>11, <1>12, <1>14 DEF BudgetInv
  <2> QED
    BY <1>0, <2>1, DraftOthers
<1> QED
  BY <1>8, <1>9, <1>10, <1>13, <1>14 DEF BudgetInv

\* The row is written and the draft put into the cache.
LEMMA BillKeeps == ASSUME NEW s \in Syncs, BudgetInv, Bill(s) PROVE BudgetInv'
<1>0. TypeOK /\ FileOk /\ MoneyOk(s) /\ DraftOk(s) /\ sync[s] \in SyncState
  BY DEF BudgetInv, TypeOK
<1> DEFINE r == [sync[s] EXCEPT !.pc = "verify", !.cost = 0]
<1>1. /\ UNCHANGED <<blind, queued, disk, paid, faults>> /\ RecordUsage(s)
      /\ sync[s].pc = "bill" /\ mem' = mem \union {sync[s].msg} /\ dirty' = TRUE
      /\ raced' = (raced \/ SomeoneElseSaving(s))
  BY DEF Bill
<1>2. sync' = [sync EXCEPT ![s] = r]
  BY <1>0 DEF Bill, TypeOK
<1>3. /\ r \in SyncState /\ r.pc = "verify" /\ r.live = sync[s].live
      /\ r.spent = sync[s].spent /\ r.msg = sync[s].msg
  BY <1>0 DEF SyncState, Steps
<1>4. sync[s].msg \in Messages
  BY <1>0, <1>1 DEF DraftOk
<1> HIDE DEF r
<1>5. /\ \A t \in Syncs : MoneyOk(t)'
      /\ ledger' \in Nat /\ share' \in [Syncs -> Nat] /\ blind' \in [Syncs -> Nat]
  BY <1>1, <1>2, <1>3, BilledMoney
<1>6. TypeOK'
  <2>1. /\ queued' \subseteq Messages /\ mem' \subseteq Messages /\ disk' \subseteq Messages
        /\ faults' \in 0..MaxFaults /\ paid' \in [Messages -> [Syncs -> Nat]]
    BY <1>0, <1>1, <1>4 DEF TypeOK
  <2>2. dirty' \in BOOLEAN /\ raced' \in BOOLEAN
    BY <1>0, <1>1 DEF TypeOK, SomeoneElseSaving
  <2> QED
    BY <1>0, <1>2, <1>3, <1>5, <2>1, <2>2, TypeOfStep
<1>7. sync'[s] = r /\ \A t \in Syncs \ {s} : sync'[t] = sync[t]
  BY <1>0, <1>2 DEF TypeOK
<1>8. FileOk'
  <2>1. CASE raced \/ SomeoneElseSaving(s)
    BY <2>1, <1>1 DEF FileOk
  <2>2. CASE ~raced /\ ~SomeoneElseSaving(s)
    <3>1. \A t \in Syncs : sync'[t].pc # "save"
      BY <2>2, <1>3, <1>7 DEF SomeoneElseSaving
    <3> QED
      BY <3>1, <1>1 DEF FileOk
  <2> QED
    BY <2>1, <2>2
<1>9. ASSUME NEW t \in Syncs PROVE DraftOk(t)'
  <2>1. CASE t # s
    <3>1. sync'[t] = sync[t] /\ DraftOk(t) /\ mem \subseteq mem'
      BY <1>1, <1>7, <2>1 DEF BudgetInv
    <3> QED
      BY <1>0, <1>1, <3>1, DraftOthers
  <2>2. CASE t = s
    <3>1. DraftOk(s)'
      BY <1>0, <1>1, <1>3, <1>4, <1>7 DEF DraftOk
    <3> QED
      BY <2>2, <3>1
  <2> QED
    BY <2>1, <2>2
<1> QED
  BY <1>5, <1>6, <1>8, <1>9 DEF BudgetInv

\* The free checks.
LEMMA VerifyFreeKeeps == ASSUME NEW s \in Syncs, BudgetInv, VerifyFree(s) PROVE BudgetInv'
<1>0. TypeOK /\ DraftOk(s) /\ sync[s] \in SyncState
  BY DEF BudgetInv, TypeOK
<1> DEFINE r == [sync[s] EXCEPT !.pc = "queue"]
<1>1. /\ UNCHANGED <<ledger, share, blind, queued, mem, disk, dirty, paid, raced, faults>>
      /\ sync[s].pc = "verify" /\ sync' = [sync EXCEPT ![s] = r]
  BY DEF VerifyFree, store, cache
<1>2. /\ r \in SyncState /\ r.pc = "queue" /\ r.live = sync[s].live
      /\ r.spent = sync[s].spent /\ r.msg \in Messages /\ sync[s].spent <= r.spent
  BY <1>0, <1>1 DEF SyncState, Steps, DraftOk
<1>3. queued' \subseteq Messages /\ faults' \in 0..MaxFaults
  BY <1>0, <1>1 DEF TypeOK
<1> HIDE DEF r
<1> QED
  BY <1>1, <1>2, <1>3, MoveStep

\* The check by the model: the call is due.
LEMMA VerifyPaidKeeps == ASSUME NEW s \in Syncs, BudgetInv, VerifyPaid(s) PROVE BudgetInv'
<1>0. TypeOK /\ FileOk /\ DraftOk(s) /\ sync[s] \in SyncState
  BY DEF BudgetInv, TypeOK
<1>1. PICK c \in Costs :
        sync' = [sync EXCEPT ![s].pc = "charge", ![s].cost = c,
                             ![s].spent = @ + c]
  BY DEF VerifyPaid
<1>2. PICK n \in Nat : n = sync[s].spent + c
  BY <1>0, AnsweredSums
<1> DEFINE r == [sync[s] EXCEPT !.pc = "charge", !.cost = c, !.spent = n]
<1>3. /\ UNCHANGED <<ledger, share, blind, queued, mem, disk, dirty, paid, raced, faults>>
      /\ sync[s].pc = "verify" /\ sync[s].live /\ Allows(s)
  BY DEF VerifyPaid, store, cache
<1>4. sync' = [sync EXCEPT ![s] = r]
  BY <1>0, <1>1, <1>2 DEF TypeOK
<1>5. c \in Nat
  BY BudgetAssumption
<1>6. /\ r \in SyncState /\ r.pc = "charge" /\ r.live = sync[s].live
      /\ r.cost = c /\ r.spent = sync[s].spent + c /\ r.msg = sync[s].msg
  BY <1>0, <1>2, <1>5 DEF SyncState, Steps
<1> HIDE DEF r
<1>7. TypeOK'
  <2>1. /\ ledger' \in Nat /\ share' \in [Syncs -> Nat] /\ blind' \in [Syncs -> Nat]
        /\ queued' \subseteq Messages /\ mem' \subseteq Messages /\ disk' \subseteq Messages
        /\ faults' \in 0..MaxFaults /\ paid' \in [Messages -> [Syncs -> Nat]]
    BY <1>0, <1>3 DEF TypeOK
  <2>2. dirty' \in BOOLEAN /\ raced' \in BOOLEAN
    BY <1>0, <1>3 DEF TypeOK
  <2> QED
    BY <1>0, <1>4, <1>6, <2>1, <2>2, TypeOfStep
<1>8. FileOk'
  BY <1>0, <1>3, <1>4, <1>6, FileOthers
<1>9. \A t \in Syncs : MoneyOk(t)'
  BY <1>3, <1>4, <1>6, AnsweredMoney
<1>10. ASSUME NEW t \in Syncs PROVE DraftOk(t)'
  <2>1. sync'[s] = r /\ (t # s => sync'[t] = sync[t]) /\ DraftOk(t)
    BY <1>0, <1>4 DEF TypeOK, BudgetInv
  <2>2. CASE t # s
    BY <1>0, <1>3, <2>1, <2>2, DraftOthers
  <2>3. CASE t = s
    BY <1>0, <1>3, <1>6, <2>1, <2>3 DEF DraftOk
  <2> QED
    BY <2>2, <2>3
<1> QED
  BY <1>7, <1>8, <1>9, <1>10 DEF BudgetInv

\* The row of the check.
LEMMA ChargeVerifyKeeps == ASSUME NEW s \in Syncs, BudgetInv, ChargeVerify(s) PROVE BudgetInv'
<1>0. TypeOK /\ FileOk /\ DraftOk(s) /\ sync[s] \in SyncState
  BY DEF BudgetInv, TypeOK
<1> DEFINE r == [sync[s] EXCEPT !.pc = "queue", !.cost = 0]
<1>1. /\ UNCHANGED <<blind, queued, mem, disk, dirty, paid, raced, faults>> /\ RecordUsage(s)
      /\ sync[s].pc = "charge"
  BY DEF ChargeVerify, cache
<1>2. sync' = [sync EXCEPT ![s] = r]
  BY <1>0 DEF ChargeVerify, TypeOK
<1>3. /\ r \in SyncState /\ r.pc = "queue" /\ r.live = sync[s].live
      /\ r.spent = sync[s].spent /\ r.msg = sync[s].msg
  BY <1>0 DEF SyncState, Steps
<1> HIDE DEF r
<1>4. /\ \A t \in Syncs : MoneyOk(t)'
      /\ ledger' \in Nat /\ share' \in [Syncs -> Nat] /\ blind' \in [Syncs -> Nat]
  BY <1>1, <1>2, <1>3, BilledMoney
<1>5. TypeOK'
  <2>1. /\ queued' \subseteq Messages /\ mem' \subseteq Messages /\ disk' \subseteq Messages
        /\ faults' \in 0..MaxFaults /\ paid' \in [Messages -> [Syncs -> Nat]]
    BY <1>0, <1>1 DEF TypeOK
  <2>2. dirty' \in BOOLEAN /\ raced' \in BOOLEAN
    BY <1>0, <1>1 DEF TypeOK
  <2> QED
    BY <1>0, <1>2, <1>3, <1>4, <2>1, <2>2, TypeOfStep
<1>6. FileOk'
  BY <1>0, <1>1, <1>2, <1>3, FileOthers
<1>7. ASSUME NEW t \in Syncs PROVE DraftOk(t)'
  <2>1. sync'[s] = r /\ (t # s => sync'[t] = sync[t]) /\ DraftOk(t)
    BY <1>0, <1>2 DEF TypeOK, BudgetInv
  <2>2. CASE t # s
    BY <1>0, <1>1, <2>1, <2>2, DraftOthers
  <2>3. CASE t = s
    BY <1>0, <1>1, <1>3, <2>1, <2>3 DEF DraftOk
  <2> QED
    BY <2>2, <2>3
<1> QED
  BY <1>4, <1>5, <1>6, <1>7 DEF BudgetInv

\* The action is held for a human.
LEMMA QueueKeeps == ASSUME NEW s \in Syncs, BudgetInv, Queue(s) PROVE BudgetInv'
<1>0. TypeOK /\ DraftOk(s) /\ sync[s] \in SyncState
  BY DEF BudgetInv, TypeOK
<1> DEFINE r == [sync[s] EXCEPT !.pc = "next", !.msg = None]
<1>1. /\ UNCHANGED <<ledger, share, blind, mem, disk, dirty, paid, raced, faults>>
      /\ sync[s].pc = "queue" /\ queued' = queued \union {sync[s].msg}
  BY DEF Queue, store, cache
<1>2. sync' = [sync EXCEPT ![s] = r]
  BY <1>0 DEF Queue, TypeOK
<1>3. /\ r \in SyncState /\ r.pc = "next" /\ r.live = sync[s].live
      /\ r.spent = sync[s].spent /\ sync[s].spent <= r.spent
  <2>1. r \in SyncState
    BY <1>0 DEF SyncState, Steps
  <2>2. r.pc = "next" /\ r.live = sync[s].live /\ r.spent = sync[s].spent
    BY <1>0 DEF SyncState
  <2> HIDE DEF r
  <2> QED
    BY <1>0, <2>1, <2>2, RecordOf
<1>4. queued' \subseteq Messages /\ faults' \in 0..MaxFaults
  BY <1>0, <1>1 DEF TypeOK, DraftOk
<1> HIDE DEF r
<1> QED
  BY <1>1, <1>2, <1>3, <1>4, MoveStep

\* A sync that ends without touching the cache: done, refused by the file, or broken off.
LEMMA StopKeeps ==
  ASSUME NEW s \in Syncs, BudgetInv, Finish(s) \/ SaveRefused(s) \/ Abort(s) PROVE BudgetInv'
<1>0. TypeOK /\ sync[s] \in SyncState
  BY DEF BudgetInv, TypeOK
<1>1. /\ UNCHANGED <<ledger, share, blind, queued, mem, disk, dirty, paid, raced>>
      /\ sync[s].pc # "bill" /\ sync' = [sync EXCEPT ![s] = Idle]
  BY DEF Finish, SaveRefused, Abort, store, cache
<1>2. Idle \in SyncState /\ Idle.pc = "idle" /\ Idle.live = FALSE
  BY DEF Idle, SyncState, Steps
<1>3. queued' \subseteq Messages
  BY <1>0, <1>1 DEF TypeOK
<1>4. faults' \in 0..MaxFaults
  BY <1>0, BudgetAssumption DEF TypeOK, Finish, SaveRefused, Abort
<1> QED
  BY <1>1, <1>2, <1>3, <1>4, MoveStep

\* The entries are copied and the file is emptied.
LEMMA SaveOpenKeeps == ASSUME NEW s \in Syncs, BudgetInv, SaveOpen(s) PROVE BudgetInv'
<1>0. TypeOK /\ FileOk /\ sync[s] \in SyncState
  BY DEF BudgetInv, TypeOK
<1> DEFINE r == [sync[s] EXCEPT !.pc = "save", !.snap = mem]
<1>1. /\ UNCHANGED <<ledger, share, blind, queued, mem, dirty, paid, faults>>
      /\ sync[s].pc = "next" /\ dirty /\ disk' = {} /\ raced' = (raced \/ SomeoneElseSaving(s))
  BY DEF SaveOpen, store
<1>2. sync' = [sync EXCEPT ![s] = r]
  BY <1>0 DEF SaveOpen, TypeOK
<1>3. /\ r \in SyncState /\ r.pc = "save" /\ r.live = sync[s].live /\ r.snap = mem
      /\ r.spent = sync[s].spent /\ sync[s].spent <= r.spent
  <2>1. mem \in SUBSET Messages
    BY <1>0 DEF TypeOK
  <2>2. r \in SyncState
    BY <1>0, <2>1 DEF SyncState, Steps
  <2>3. r.pc = "save" /\ r.live = sync[s].live /\ r.spent = sync[s].spent /\ r.snap = mem
    BY <1>0 DEF SyncState
  <2> HIDE DEF r
  <2> QED
    BY <1>0, <2>2, <2>3, RecordOf
<1> HIDE DEF r
<1>4. TypeOK'
  <2>1. /\ ledger' \in Nat /\ share' \in [Syncs -> Nat] /\ blind' \in [Syncs -> Nat]
        /\ queued' \subseteq Messages /\ mem' \subseteq Messages /\ disk' \subseteq Messages
        /\ faults' \in 0..MaxFaults /\ paid' \in [Messages -> [Syncs -> Nat]]
    BY <1>0, <1>1 DEF TypeOK
  <2>2. dirty' \in BOOLEAN /\ raced' \in BOOLEAN
    BY <1>0, <1>1 DEF TypeOK, SomeoneElseSaving
  <2> QED
    BY <1>0, <1>2, <1>3, <2>1, <2>2, TypeOfStep
<1>5. sync'[s] = r /\ \A t \in Syncs \ {s} : sync'[t] = sync[t]
  BY <1>0, <1>2 DEF TypeOK
<1>6. FileOk'
  <2>1. CASE raced \/ SomeoneElseSaving(s)
    BY <2>1, <1>1 DEF FileOk
  <2>2. CASE ~raced /\ ~SomeoneElseSaving(s)
    <3>1. \A t \in Syncs : sync'[t].pc = "save" => t = s
      BY <2>2, <1>5 DEF SomeoneElseSaving
    <3> QED
      BY <3>1, <1>1, <1>3, <1>5 DEF FileOk
  <2> QED
    BY <2>1, <2>2
<1>7. \A t \in Syncs : MoneyOk(t)' /\ DraftOk(t)'
  BY <1>1, <1>2, <1>3, QuietStep
<1> QED
  BY <1>4, <1>6, <1>7 DEF BudgetInv

\* The file is written with all there is, or the entries stay marked.
LEMMA SaveWriteKeeps == ASSUME NEW s \in Syncs, BudgetInv, SaveWrite(s) PROVE BudgetInv'
<1>0. TypeOK /\ FileOk /\ sync[s] \in SyncState
  BY DEF BudgetInv, TypeOK
<1>1. /\ UNCHANGED <<ledger, share, blind, queued, mem, paid, raced, faults>>
      /\ sync[s].pc = "save" /\ sync' = [sync EXCEPT ![s] = Idle]
      /\ (disk' = sync[s].snap /\ dirty' = FALSE) \/ UNCHANGED <<disk, dirty>>
  BY DEF SaveWrite, store
<1>2. Idle \in SyncState /\ Idle.pc = "idle" /\ Idle.live = FALSE
  BY DEF Idle, SyncState, Steps
<1>3. TypeOK'
  <2>1. /\ ledger' \in Nat /\ share' \in [Syncs -> Nat] /\ blind' \in [Syncs -> Nat]
        /\ queued' \subseteq Messages /\ mem' \subseteq Messages
        /\ faults' \in 0..MaxFaults /\ paid' \in [Messages -> [Syncs -> Nat]]
    BY <1>0, <1>1 DEF TypeOK
  <2>2. disk' \subseteq Messages
    BY <1>0, <1>1, RecordOf DEF TypeOK
  <2>3. dirty' \in BOOLEAN /\ raced' \in BOOLEAN
    BY <1>0, <1>1 DEF TypeOK
  <2> QED
    BY <1>0, <1>1, <1>2, <2>1, <2>2, <2>3, TypeOfStep
<1>4. sync'[s] = Idle /\ \A t \in Syncs \ {s} : sync'[t] = sync[t]
  BY <1>0, <1>1 DEF TypeOK
<1>5. FileOk'
  <2>1. CASE raced
    BY <2>1, <1>1 DEF FileOk
  <2>2. CASE ~raced
    <3>1. /\ dirty /\ sync[s].snap = mem
          /\ \A t \in Syncs \ {s} : sync[t].pc # "save"
      BY <2>2, <1>0, <1>1 DEF FileOk
    <3>2. \A t \in Syncs : sync'[t].pc # "save"
      BY <3>1, <1>2, <1>4
    <3> QED
      BY <3>1, <3>2, <1>1 DEF FileOk
  <2> QED
    BY <2>1, <2>2
<1>6. \A t \in Syncs : MoneyOk(t)' /\ DraftOk(t)'
  BY <1>1, <1>2, QuietStep
<1> QED
  BY <1>3, <1>5, <1>6 DEF BudgetInv

\* The process restarts: no sync is open, and the cache is what the file holds.
LEMMA CrashKeeps == ASSUME BudgetInv, Crash PROVE BudgetInv'
<1>0. TypeOK
  BY DEF BudgetInv
<1>1. /\ UNCHANGED <<ledger, share, blind, queued, disk>> /\ sync' = [s \in Syncs |-> Idle]
      /\ mem' = disk /\ dirty' = FALSE /\ raced' = FALSE
      /\ paid' = [m \in Messages |-> [s \in Syncs |-> 0]]
      /\ faults < MaxFaults /\ faults' = faults + 1
  BY DEF Crash, store
<1>2. Idle \in SyncState /\ Idle.pc = "idle" /\ Idle.live = FALSE
  BY DEF Idle, SyncState, Steps
<1>3. TypeOK'
  <2>1. /\ ledger' \in Nat /\ share' \in [Syncs -> Nat] /\ blind' \in [Syncs -> Nat]
        /\ queued' \subseteq Messages /\ mem' \subseteq Messages /\ disk' \subseteq Messages
    BY <1>0, <1>1 DEF TypeOK
  <2>2. sync' \in [Syncs -> SyncState] /\ paid' \in [Messages -> [Syncs -> Nat]]
    BY <1>1, <1>2
  <2>3. faults' \in 0..MaxFaults
    BY <1>0, <1>1, BudgetAssumption DEF TypeOK
  <2>4. dirty' \in BOOLEAN /\ raced' \in BOOLEAN
    BY <1>1
  <2> QED
    BY <2>1, <2>2, <2>3, <2>4 DEF TypeOK
<1>4. FileOk'
  BY <1>1, <1>2 DEF FileOk
<1>5. ASSUME NEW t \in Syncs PROVE MoneyOk(t)' /\ DraftOk(t)'
  <2>1. sync'[t].pc = "idle" /\ sync'[t].live = FALSE /\ MoneyOk(t)
    BY <1>1, <1>2 DEF BudgetInv
  <2>2. Due(t)' = 0 /\ Grant(t)' = Grant(t) /\ Due(t) \in Nat
    BY <1>0, <1>1, <2>1, RecordOf DEF Due, Grant
  <2>3. enforced => Ceiling \in Nat /\ Grant(t) \in Nat
    BY <1>0, CeilingNat, GrantSteps DEF Grant, TypeOK
  <2>4. share[t] \in Nat
    BY <1>0 DEF TypeOK
  <2>5. MoneyOk(t)'
    BY <1>1, <2>1, <2>2, <2>3, <2>4 DEF MoneyOk
  <2>6. \A m \in Messages : paid'[m][t] = 0
    BY <1>1
  <2>7. DraftOk(t)'
    BY <2>1, <2>6 DEF DraftOk
  <2> QED
    BY <2>5, <2>7
<1> QED
  BY <1>3, <1>4, <1>5 DEF BudgetInv

\* A month begins: the ledger counts from zero, open syncs keep what they knew.
LEMMA NextMonthKeeps == ASSUME BudgetInv, NextMonth PROVE BudgetInv'
<1>0. TypeOK /\ FileOk
  BY DEF BudgetInv
<1>1. /\ UNCHANGED <<sync, queued, mem, disk, dirty, paid, raced, faults>> /\ ledger' = 0
      /\ share' = [s \in Syncs |-> 0] /\ blind' = [s \in Syncs |-> 0]
  BY DEF NextMonth, cache
<1>2. TypeOK'
  <2>1. ledger' \in Nat /\ share' \in [Syncs -> Nat] /\ blind' \in [Syncs -> Nat]
    BY <1>1
  <2> QED
    BY <1>0, <1>1, <2>1 DEF TypeOK
<1>3. FileOk'
  BY <1>0, <1>1 DEF FileOk
<1>4. ASSUME NEW t \in Syncs PROVE MoneyOk(t)' /\ DraftOk(t)'
  <2>1. MoneyOk(t) /\ DraftOk(t)
    BY DEF BudgetInv
  <2>2. share'[t] = 0 /\ blind'[t] = 0
    BY <1>1
  <2>3. Due(t)' = Due(t) /\ (Allows(t)' <=> Allows(t)) /\ Due(t) \in Nat
    BY <1>0, <1>1, RecordOf DEF Due, Allows
  <2>4. enforced => Grant(t)' = 0 /\ Ceiling \in Nat /\ MaxCost <= Ceiling
    BY <2>2, GrantSteps, CeilingNat DEF Grant
  <2>5. Due(t) <= MaxCost /\ Due(t) <= sync[t].spent
    BY <1>0, <2>1, BudgetAssumption, RecordOf DEF Due, MoneyOk
  <2>6. sync[t].spent \in Nat /\ MaxCost \in Nat
    BY <1>0, RecordOf, BudgetAssumption
  <2>7. enforced => Due(t) <= Ceiling
    BY <2>3, <2>4, <2>5, <2>6
  <2>8. MoneyOk(t)'
    BY <1>1, <2>1, <2>2, <2>3, <2>4, <2>5, <2>6, <2>7 DEF MoneyOk
  <2>9. DraftOk(t)'
    BY <1>1, <2>1 DEF DraftOk
  <2> QED
    BY <2>8, <2>9
<1> QED
  BY <1>2, <1>3, <1>4 DEF BudgetInv

\* A rejection touches the queue only.
LEMMA RejectKeeps == ASSUME NEW m \in Messages, BudgetInv, Reject(m) PROVE BudgetInv'
<1>1. /\ UNCHANGED <<sync, ledger, share, blind, mem, disk, dirty, paid, raced, faults>>
      /\ queued' = queued \ {m}
  BY DEF Reject, store, cache
<1>2. TypeOK' /\ FileOk'
  BY <1>1 DEF BudgetInv, TypeOK, FileOk
<1>3. ASSUME NEW t \in Syncs PROVE MoneyOk(t)' /\ DraftOk(t)'
  BY <1>1 DEF BudgetInv, MoneyOk, DraftOk, Due, Grant, Allows
<1> QED
  BY <1>2, <1>3 DEF BudgetInv

\* Nothing happens.
LEMMA IdleKeeps == ASSUME BudgetInv, UNCHANGED vars PROVE BudgetInv'
<1>1. UNCHANGED <<sync, ledger, share, blind, queued, mem, disk, dirty, paid, raced, faults>>
  BY DEF vars
<1>2. TypeOK' /\ FileOk'
  BY <1>1 DEF BudgetInv, TypeOK, FileOk
<1>3. ASSUME NEW t \in Syncs PROVE MoneyOk(t)' /\ DraftOk(t)'
  BY <1>1 DEF BudgetInv, MoneyOk, DraftOk, Due, Grant, Allows
<1> QED
  BY <1>2, <1>3 DEF BudgetInv

\* Every step keeps the invariant.
LEMMA BudgetNext == BudgetInv /\ [Next]_vars => BudgetInv'
<1> SUFFICES ASSUME BudgetInv, [Next]_vars PROVE BudgetInv'
  OBVIOUS
<1>1. ASSUME NEW s \in Syncs, Work(s) PROVE BudgetInv'
  BY <1>1, TakeKeeps, DraftFailsKeeps, DraftWrittenKeeps, BillKeeps,
     VerifyFreeKeeps, VerifyPaidKeeps, ChargeVerifyKeeps, QueueKeeps, StopKeeps,
     SaveOpenKeeps, SaveWriteKeeps DEF Work
<1>2. ASSUME NEW s \in Syncs, Begin(s) \/ Abort(s) PROVE BudgetInv'
  BY <1>2, BeginKeeps, StopKeeps
<1> QED
  BY <1>1, <1>2, RejectKeeps, CrashKeeps, NextMonthKeeps, IdleKeeps DEF Next

----------------------------------------------------------------------------
\* The invariant holds in every reachable state.
LEMMA BudgetSafe == Spec => []BudgetInv
  BY BudgetInit, BudgetNext, PTL DEF Spec

\* The types of syncs, ledger and cache hold in every reachable state.
THEOREM BudgetTypes == Spec => []TypeOK
<1>1. BudgetInv => TypeOK
  BY DEF BudgetInv
<1> QED
  BY <1>1, BudgetSafe, PTL

\* What a thread bills in a month stays within one call of the limit, once more for
\* each ledger read that failed, for any number of threads and any prices.
THEOREM BudgetMonthBounded == Spec => []MonthBounded
<1>1. BudgetInv => MonthBounded
  <2> SUFFICES ASSUME BudgetInv, enforced, NEW s \in Syncs
               PROVE  share[s] <= (1 + blind[s]) * Ceiling
    BY DEF MonthBounded
  <2>1. TypeOK /\ MoneyOk(s)
    BY DEF BudgetInv
  <2>2. share[s] \in Nat /\ blind[s] \in Nat /\ Due(s) \in Nat /\ Ceiling \in Nat
    BY <2>1, CeilingNat, RecordOf DEF TypeOK, Due
  <2>3. Grant(s) \in Nat /\ (blind[s] + 1) * Ceiling = Grant(s) + Ceiling
    BY <2>2, GrantSteps DEF Grant
  <2>4. share[s] <= Grant(s) + Ceiling
    BY <2>1, <2>2, <2>3 DEF MoneyOk
  <2>5. 1 + blind[s] = blind[s] + 1
    BY <2>2
  <2> QED
    BY <2>3, <2>4, <2>5
<1> QED
  BY <1>1, BudgetSafe, PTL

\* No thread buys the draft of a message twice in the life of the process.
THEOREM BudgetPaidOnce == Spec => []PaidOnce
<1>1. BudgetInv => PaidOnce
  BY DEF BudgetInv, DraftOk, PaidOnce
<1> QED
  BY <1>1, BudgetSafe, PTL

\* A draft that is not in the file is marked for saving, unless two threads met in save.
THEOREM BudgetDirtyUntilSaved == Spec => []DirtyUntilSaved
<1>1. BudgetInv => DirtyUntilSaved
  BY DEF BudgetInv, FileOk, DirtyUntilSaved
<1> QED
  BY <1>1, BudgetSafe, PTL

----------------------------------------------------------------------------
(* CircuitBreaker.                                                         *)

BreakerInv == BreakerTypeOK /\ NeverWedged

\* Every step keeps the types and leaves a way back to the primary.
LEMMA BreakerKeeps == BreakerInv /\ [BreakerNext]_breakerVars => BreakerInv'
<1> SUFFICES ASSUME BreakerInv, [BreakerNext]_breakerVars PROVE BreakerInv'
  OBVIOUS
<1> USE BreakerAssumption DEF BreakerInv
<1>1. ASSUME NEW c \in Callers, Route(c) PROVE BreakerInv'
  <2>1. call' \in [Callers -> {"idle", "primary", "secondary", "failover"}]
    BY <1>1 DEF Route, BreakerTypeOK
  <2>2. BreakerTypeOK'
    BY <1>1, <2>1 DEF Route, ReadState, BreakerTypeOK
  <2>3. NeverWedged'
    BY <1>1 DEF Route, ReadState, ToHalfOpen, BreakerTypeOK, NeverWedged
  <2> QED
    BY <2>2, <2>3
<1>2. ASSUME NEW c \in Callers, Succeed(c) PROVE BreakerInv'
  <2>1. call' \in [Callers -> {"idle", "primary", "secondary", "failover"}]
    BY <1>2 DEF Succeed, BreakerTypeOK
  <2>2. BreakerTypeOK'
    BY <1>2, <2>1 DEF Succeed, on_success, BreakerTypeOK
  <2>3. NeverWedged'
    BY <1>2 DEF Succeed, on_success, BreakerTypeOK, NeverWedged
  <2> QED
    BY <2>2, <2>3
<1>3. ASSUME NEW c \in Callers, Fail(c) PROVE BreakerInv'
  <2>1. call' \in [Callers -> {"idle", "primary", "secondary", "failover"}]
    BY <1>3 DEF Fail, BreakerTypeOK
  <2>2. BreakerTypeOK'
    <3>1. failure_count' \in Nat /\ half_open_attempts' \in Nat
      BY <1>3 DEF Fail, on_failure, Counted, BreakerTypeOK
    <3>2. state' \in {"closed", "open", "half_open"}
      BY <1>3 DEF Fail, on_failure, BreakerTypeOK
    <3>3. rested' \in BOOLEAN /\ up' \in BOOLEAN
      BY <1>3, Zenon DEF Fail, on_failure, BreakerTypeOK
    <3> QED
      BY <2>1, <3>1, <3>2, <3>3 DEF BreakerTypeOK
  <2>3. state' = "half_open" => half_open_attempts' < half_open_max_retries
    BY <1>3 DEF Fail, on_failure, Trips, BreakerTypeOK, NeverWedged
  <2>4. state' = "closed" => failure_count' < failure_threshold
    BY <1>3 DEF Fail, on_failure, Counted, Trips, BreakerTypeOK, NeverWedged
  <2> QED
    BY <2>2, <2>3, <2>4 DEF NeverWedged
<1>4. ASSUME NEW c \in Callers, Failover(c) PROVE BreakerInv'
  <2>1. call' \in [Callers -> {"idle", "primary", "secondary", "failover"}]
    BY <1>4 DEF Failover, BreakerTypeOK
  <2> QED
    BY <1>4, <2>1 DEF Failover, breaker, BreakerTypeOK, NeverWedged
<1>5. CASE Rest
  BY <1>5 DEF Rest, BreakerTypeOK, NeverWedged
<1>6. CASE Outage
  BY <1>6 DEF Outage, breaker, BreakerTypeOK, NeverWedged
<1>7. CASE UNCHANGED breakerVars
  BY <1>7 DEF breakerVars, BreakerTypeOK, NeverWedged
<1> QED
  BY <1>1, <1>2, <1>3, <1>4, <1>5, <1>6, <1>7 DEF BreakerNext, Return

\* Types and counters stay consistent whatever late answers on_success and on_failure
\* are told of.
THEOREM BreakerSafe == BreakerSpec => []BreakerInv
<1>1. BreakerInit => BreakerInv
  <2> SUFFICES ASSUME BreakerInit PROVE BreakerInv
    OBVIOUS
  <2>1. rested \in BOOLEAN /\ up \in BOOLEAN
    BY DEF BreakerInit
  <2>2. /\ call \in [Callers -> {"idle", "primary", "secondary", "failover"}]
        /\ state \in {"closed", "open", "half_open"}
        /\ failure_count \in Nat /\ half_open_attempts \in Nat
    BY DEF BreakerInit
  <2>3. NeverWedged
    BY BreakerAssumption DEF BreakerInit, NeverWedged
  <2> QED
    BY <2>1, <2>2, <2>3 DEF BreakerInv, BreakerTypeOK
<1> QED
  BY <1>1, BreakerKeeps, PTL DEF BreakerSpec

\* A half-open circuit always admits a probe and a closed one is below its
\* threshold: is_available cannot come to refuse the primary for ever.
THEOREM BreakerNeverWedged == BreakerSpec => []NeverWedged
<1>1. BreakerInv => NeverWedged
  BY DEF BreakerInv
<1> QED
  BY <1>1, BreakerSafe, PTL

\* The state, the counters and the calls of CircuitBreaker keep their types.
THEOREM BreakerTypes == BreakerSpec => []BreakerTypeOK
<1>1. BreakerInv => BreakerTypeOK
  BY DEF BreakerInv
<1> QED
  BY <1>1, BreakerSafe, PTL

----------------------------------------------------------------------------
(* InboxAgent: the invariant.                                              *)

\* The places of the agent in a decision.
Calling == {"call", "retry", "evict", "insert"}
Keeping == {"evict", "insert"}
Asked == {q.act : q \in approvals}

\* A run stays within its steps, and one that does not ask the agent is alone.
ModeOk(r) ==
  /\ r.step <= r.limit /\ (r.pc \notin {"cut", "over"} => r.step < r.limit)
  /\ r.mode = "llm" <=> r.pc \in Calling \union {"ask", "answered"}
  /\ r.pc = "stream" => r.mode = "stream"
  /\ r.pc \in {"work", "over"} => r.mode # "stream"
  /\ r.mode # "llm" => ~r.shared /\ r.limit = MaxSteps[r.mode] /\ r.first = NothingSaid

\* What a run of the agent said, of email it has been asked about: done is what the agent
\* has handled, asked what was put before people.
SaidOk(r, done, asked) ==
  /\ r.shared => r.first = NothingSaid
  /\ \A m \in Mails :
       r.first[m] \notin {"none", "early"} =>
         IF Risky(m) THEN r.first[m] = "escalate" ELSE ~Facts[m].injected
  /\ r.mode = "llm" /\ ~r.shared =>
       \A m \in done : r.first[m] # "none" \/ (r.pc \in Keeping /\ r.call.id = m)
  /\ r.pc \in Calling =>
       /\ \A m \in r.key.mails : ~Risky(m)
       /\ ~r.shared => \A m \in r.arrived \ r.key.mails : r.first[m] # "none"
  /\ r.pc \in Keeping =>
       /\ r.call.id \in r.key.mails => ~Facts[r.call.id].injected
       /\ setup.gated /\ r.call.type \in {"reply", "escalate"} => r.call \in asked

\* The memory of a policy that decides by rules is what it did.
WorkOk(r) ==
  /\ ~r.again
  /\ \A m \in Mails : m \in r.labels <=> Act("classify", m) \in r.acts
  /\ \A m \in Mails : m \in r.handled <=> \E k \in Treatments : Act(k, m) \in r.acts
  /\ r.mode = "inbox" =>
       /\ r.arrived = Mails /\ r.pc # "cut"
       /\ r.step <= (IF r.did THEN 1 ELSE 0) + Cardinality(r.labels) + Cardinality(r.handled)
  /\ r.pc = "over" =>
       r.arrived = Mails /\ \A m \in Mails : m \in r.labels
                                            /\ (Facts[m].label = "spam" \/ m \in r.handled)

\* A planner that saw risk has escalated, or has not planned since.
Escalated(r) == \E m \in Mails : Risky(m) /\ Act("escalate", m) \in r.acts
PlannerOk(r) ==
  /\ r.since = Never <=> \A m \in r.arrived : ~Risky(m)
  /\ r.since # Never => r.since \in 0 .. r.step
  /\ \/ Escalated(r) \/ r.since = Never
     \/ r.mode = "stream" /\ r.since = r.step
     \/ r.mode = "hybrid" /\ \A s \in r.since .. r.step - 1 : (s + 1) % Interval # 1

RunOk(r, done, asked) ==
  /\ r \in RunRecord /\ ModeOk(r) /\ SaidOk(r, done, asked)
  /\ Followed(r) => WorkOk(r)
  /\ r.mode \in {"hybrid", "stream"} /\ setup.provider => PlannerOk(r)

\* A thread that made room has a place for its key, unless it is in the cache already.
Inserting == {run[t].key : t \in {u \in Threads : At(u, "insert")}}
RoomOk == Cardinality(CachedKeys \union Inserting) <= MaxEntries + Cardinality(Threads) - 1

\* What the cache answers is safe for the email it was asked about.
CacheOk ==
  /\ responses \in Seq([key : KeyRecord, answer : Acts])
  /\ \A i, j \in DOMAIN responses : responses[i].key = responses[j].key => i = j
  /\ \A i \in DOMAIN responses :
       responses[i].answer.id \in responses[i].key.mails => ~Facts[responses[i].answer.id].injected

\* A run of the agent is alone with it unless it knows that it is not.
AgentRecord == [number : 0 .. MaxRuns, did : BOOLEAN, handled : SUBSET Mails]
RunsOk ==
  /\ run \in [Threads -> RunRecord \union {NoRun}]
  /\ \A t \in Threads : Running(t) => RunOk(run[t], agent.handled, Asked)
  /\ \A t, u \in Threads : Running(t) /\ Running(u) /\ t # u => run[t].shared

AgentInv ==
  /\ setup \in Setups /\ runs \in 0 .. MaxRuns /\ agent \in AgentRecord /\ agent.number <= runs
  /\ approvals \subseteq [act : Acts, pending : BOOLEAN]
  /\ \A q \in approvals : q.act.type \in {"reply", "escalate"}
  /\ RunsOk /\ CacheOk /\ RoomOk

----------------------------------------------------------------------------
(* InboxAgent: the records.                                                *)

\* One more action of a run: p is what becomes of r.
OneMore(r, a, news, done, p) ==
  /\ p.step = r.step + 1 /\ p.mode = r.mode /\ p.shared = r.shared /\ p.limit = r.limit
  /\ p.pc \in {"cut", First(r.mode)} /\ (p.pc = "cut" => done \/ p.step >= p.limit)
  /\ p.first = r.first /\ p.did = r.did /\ p.labels = r.labels /\ p.handled = r.handled
  /\ p.arrived = r.arrived \union news
  /\ r.mode # "llm" => p.acts = r.acts \union {a}
  /\ p.again = (r.again \/ Repeats(r, a))
  /\ r.since # Never => p.since = r.since
  /\ r.since = Never =>
       p.since = IF \E m \in p.arrived : Risky(m) THEN p.step ELSE Never

LEMMA PlayedDoes ==
  ASSUME NEW r \in RunRecord, NEW a \in Acts, NEW news \in SUBSET Mails, NEW done \in BOOLEAN,
         ModeOk(r), r.pc \notin {"cut", "over"},
         r.mode = "llm" => ~(done \/ r.step + 1 >= r.limit)
  PROVE  /\ Played(r, a, news, done) \in RunRecord /\ ModeOk(Played(r, a, news, done))
         /\ OneMore(r, a, news, done, Played(r, a, news, done))
<1> DEFINE n == r.step + 1
           acts == IF r.mode = "llm" THEN r.acts ELSE r.acts \union {a}
           again == r.again \/ Repeats(r, a)
           arrived == r.arrived \union news
           since == IF r.since = Never /\ (\E m \in arrived : Risky(m)) THEN n ELSE r.since
           pc == IF done \/ n >= r.limit THEN "cut" ELSE First(r.mode)
           p == Played(r, a, news, done)
<1>1. p = [r EXCEPT !.step = n, !.arrived = arrived, !.acts = acts, !.again = again,
                    !.since = since, !.turn = 1, !.pc = pc]
  BY DEF Played, RunRecord
<1>2. n \in Nat /\ arrived \in SomeMails /\ acts \in SomeActs /\ again \in BOOLEAN
  BY DEF RunRecord, SomeMails, SomeActs
<1>3. since \in Moments /\ pc \in Places /\ 1 \in Turns
  BY <1>2 DEF RunRecord, Moments, Places, First, Turns
<1>4. pc \in {"cut", First(r.mode)} /\ (pc = "cut" => done \/ n >= r.limit)
  BY DEF First
<1>5. pc # "cut" => n < r.limit
  BY <1>2 DEF RunRecord
<1> HIDE DEF n, acts, again, arrived, since, pc, p
<1>6. /\ p \in RunRecord /\ p.step = n /\ p.arrived = arrived /\ p.acts = acts
      /\ p.again = again /\ p.since = since /\ p.pc = pc
      /\ p.mode = r.mode /\ p.shared = r.shared /\ p.limit = r.limit /\ p.first = r.first
      /\ p.did = r.did /\ p.labels = r.labels /\ p.handled = r.handled
  BY <1>1, <1>2, <1>3 DEF RunRecord
<1>7. ModeOk(p)
  <2>1. p.step <= p.limit /\ (p.pc \notin {"cut", "over"} => p.step < p.limit)
    BY <1>5, <1>6 DEF ModeOk, RunRecord, n
  <2>2. r.mode = "llm" => pc = "ask"
    BY DEF pc, n, First
  <2>3. r.mode # "llm" => pc \in {"cut", "work", "stream"} /\ (pc = "stream" => r.mode = "stream")
                          /\ (pc = "work" => r.mode # "stream")
    BY <1>4 DEF First
  <2> QED
    BY <1>6, <2>1, <2>2, <2>3 DEF ModeOk, Calling
<1>8. p.pc = "cut" => done \/ p.step >= p.limit
  BY <1>4, <1>6
<1>9. OneMore(r, a, news, done, p)
  BY <1>4, <1>6, <1>8 DEF OneMore, n, acts, again, arrived, since
<1> QED
  BY <1>6, <1>7, <1>9 DEF p

\* What a policy decides changes its memory alone.
Remembers(r, q) ==
  /\ q \in RunRecord
  /\ q.pc = r.pc /\ q.mode = r.mode /\ q.shared = r.shared /\ q.step = r.step /\ q.limit = r.limit
  /\ q.arrived = r.arrived /\ q.since = r.since /\ q.acts = r.acts /\ q.again = r.again
  /\ q.first = r.first

\* The four kinds of work.
LEMMA NextWorkDoes ==
  ASSUME NEW r \in RunRecord, NEW d \in NextWork(r)
  PROVE  \/ ~r.did /\ d.a = Prioritized /\ d.r = [r EXCEPT !.did = TRUE]
         \/ \E m \in r.arrived \ r.labels :
              d.a = Act("classify", m) /\ d.r = [r EXCEPT !.labels = r.labels \union {m}]
         \/ \E m \in r.arrived \ r.handled :
              d.a = Act(Treatment(m), m) /\ d.r = [r EXCEPT !.handled = r.handled \union {m}]
         \/ Mails \ r.arrived # {} /\ d.a = Prioritized /\ d.r = r
<1>1. CASE ~r.did
  BY <1>1 DEF NextWork
<1>2. CASE r.did /\ Unlabelled(r) # {}
  <2>1. PICK m \in Unlabelled(r) :
          d = [a |-> Act("classify", m), r |-> [r EXCEPT !.labels = r.labels \union {m}]]
    BY <1>2 DEF NextWork
  <2> QED
    BY <2>1 DEF Unlabelled
<1>3. CASE r.did /\ Unlabelled(r) = {} /\ Open(r) # {}
  <2>1. PICK m \in Open(r) :
          d = [a |-> Act(Treatment(m), m), r |-> [r EXCEPT !.handled = r.handled \union {m}]]
    BY <1>3 DEF NextWork
  <2> QED
    BY <2>1 DEF Open
<1>4. CASE r.did /\ Unlabelled(r) = {} /\ Open(r) = {}
  BY <1>4 DEF NextWork
<1> QED
  BY <1>1, <1>2, <1>3, <1>4 DEF RunRecord

LEMMA NextWorkOk ==
  ASSUME NEW r \in RunRecord, NEW d \in NextWork(r)
  PROVE  d.a \in Acts /\ Remembers(r, d.r)
<1>1. \A m \in Mails : Treatment(m) \in Treatments
  BY DEF Treatment, Treatments
<1>2. /\ Prioritized \in Acts /\ r.arrived \subseteq Mails
      /\ \A m \in Mails : Act("classify", m) \in Acts /\ Act(Treatment(m), m) \in Acts
  BY <1>1 DEF RunRecord, SomeMails, Acts, Act, Prioritized
<1>3. d.a \in Acts
  <2>1. \/ d.a = Prioritized
        \/ \E m \in r.arrived : d.a = Act("classify", m) \/ d.a = Act(Treatment(m), m)
    BY NextWorkDoes, Zenon
  <2> QED
    BY <1>2, <2>1
<1>4. \A m \in r.arrived : r.labels \union {m} \in SomeMails /\ r.handled \union {m} \in SomeMails
  BY DEF RunRecord, SomeMails
<1>5. ASSUME NEW m \in r.arrived, d.r = [r EXCEPT !.labels = r.labels \union {m}]
      PROVE  Remembers(r, d.r)
  BY <1>4, <1>5 DEF Remembers, RunRecord
<1>6. ASSUME NEW m \in r.arrived, d.r = [r EXCEPT !.handled = r.handled \union {m}]
      PROVE  Remembers(r, d.r)
  BY <1>4, <1>6 DEF Remembers, RunRecord
<1>7. d.r = [r EXCEPT !.did = TRUE] \/ d.r = r => Remembers(r, d.r)
  BY DEF Remembers, RunRecord
<1> QED
  BY <1>3, <1>5, <1>6, <1>7, NextWorkDoes

LEMMA DecidedOk ==
  ASSUME NEW r \in RunRecord, NEW d \in Decided(r)
  PROVE  d.a \in Acts /\ Remembers(r, d.r)
<1>1. CASE r.mode \in {"hybrid", "stream"} /\ setup.provider
  <2>1. PICK p \in Strategies(r) : d \in Execute([r EXCEPT !.plan = p])
    BY <1>1 DEF Decided
  <2> DEFINE q == [r EXCEPT !.plan = p]
  <2>2. p \in Strategy
    BY DEF Strategies, Plans, Strategy, RunRecord
  <2>3. Remembers(r, q)
    BY <2>2 DEF Remembers, RunRecord
  <2> HIDE DEF q
  <2>4. CASE d \in NextWork(q)
    BY <2>3, <2>4, NextWorkOk DEF Remembers
  <2>5. CASE \E m \in q.arrived : d = [a |-> Act("escalate", m), r |-> q]
    BY <2>3, <2>5 DEF Remembers, RunRecord, SomeMails, Acts, Act, Treatments
  <2> QED
    BY <2>1, <2>4, <2>5 DEF Execute, q
<1>2. CASE ~(r.mode \in {"hybrid", "stream"} /\ setup.provider)
  BY <1>2, NextWorkOk DEF Decided
<1> QED
  BY <1>1, <1>2

LEMMA StressedOk ==
  ASSUME NEW r \in RunRecord, NEW b \in Acts, NEW a \in Stressed(r, b)
  PROVE  /\ a \in Acts /\ a.id = b.id /\ (r.mode # "stress" => a = b)
         /\ a = b \/ (b.type = "reply" /\ a.type = "defer")
  BY DEF Stressed, Acts, Act, Treatments

\* A policy that decides by rules does nothing twice, and knows what it has done.
LEMMA WorkGoesOn ==
  ASSUME NEW r \in RunRecord, ModeOk(r), WorkOk(r), r.pc = "work",
         NEW d \in NextWork(r), NEW a \in Stressed(r, d.a),
         NEW news \in News(r), NEW done \in Dones(r)
  PROVE  WorkOk(Played(d.r, a, news, done))
<1> DEFINE p == Played(d.r, a, news, done)
           N == Cardinality(Mails)
<1>1. d.a \in Acts /\ Remembers(r, d.r) /\ r.mode # "llm"
  BY NextWorkOk DEF ModeOk, Calling
<1>2. a \in Acts /\ a.id = d.a.id /\ (a = d.a \/ (d.a.type = "reply" /\ a.type = "defer"))
  BY <1>1, StressedOk
<1>3. /\ news \in SUBSET Mails /\ done \in BOOLEAN
      /\ r.mode = "inbox" => done = FALSE /\ news = {}
  BY DEF News, Dones, WorkOk
<1>4. /\ p.step = r.step + 1 /\ p.limit = r.limit /\ p.mode = r.mode
      /\ p.pc \in {"cut", First(r.mode)} /\ (p.pc = "cut" => done \/ p.step >= p.limit)
      /\ p.arrived = r.arrived \union news /\ p.acts = r.acts \union {a}
      /\ p.did = d.r.did /\ p.labels = d.r.labels /\ p.handled = d.r.handled
      /\ p.again = (r.again \/ Repeats(d.r, a))
  <2>1. ModeOk(d.r) /\ d.r.pc \notin {"cut", "over"} /\ d.r.mode # "llm"
    BY <1>1 DEF Remembers, ModeOk
  <2>2. /\ d.r \in RunRecord /\ d.r.step = r.step /\ d.r.limit = r.limit /\ d.r.mode = r.mode
        /\ d.r.arrived = r.arrived /\ d.r.acts = r.acts /\ d.r.again = r.again
    BY <1>1 DEF Remembers
  <2>3. OneMore(d.r, a, news, done, p)
    BY <1>2, <1>3, <2>1, <2>2, PlayedDoes
  <2> HIDE DEF p
  <2> QED
    BY <2>1, <2>2, <2>3 DEF OneMore
<1>5. p.pc # "over"
  BY <1>4 DEF First
<1>6. Repeats(d.r, a) = Repeats(r, a)
  BY <1>1 DEF Remembers, Repeats
<1>7. /\ r.labels \subseteq Mails /\ r.handled \subseteq Mails /\ r.arrived \subseteq Mails
      /\ r.acts \subseteq Acts
  BY DEF RunRecord, SomeMails, SomeActs
<1>8. \A b \in Acts : b = Act(b.type, b.id)
  BY DEF Acts, Act
<1> HIDE DEF p
<1>9. \A b \in Acts : b.id \in Mails /\ b.type = "classify" /\ b \in r.acts => b.id \in r.labels
  BY <1>8 DEF WorkOk
<1>10. \A b \in Acts : b.id \in Mails /\ b.type \in Treatments /\ b \in r.acts => b.id \in r.handled
  BY <1>8 DEF WorkOk
<1> DEFINE Known ==
             /\ ~Repeats(r, a)
             /\ \A m \in Mails : m \in p.labels <=> Act("classify", m) \in p.acts
             /\ \A m \in Mails : m \in p.handled <=> \E k \in Treatments : Act(k, m) \in p.acts
           Count(q) == (IF q.did THEN 1 ELSE 0) + Cardinality(q.labels) + Cardinality(q.handled)
           Counts == r.mode = "inbox" => Count(d.r) = Count(r) + 1
<1>11. /\ r.labels \in SUBSET Mails /\ IsFiniteSet(r.labels) /\ Cardinality(r.labels) \in Nat
       /\ r.handled \in SUBSET Mails /\ IsFiniteSet(r.handled) /\ Cardinality(r.handled) \in Nat
  BY <1>7, AgentAssumption, FS_Subset, FS_CardinalityType
<1>12. ASSUME d.a = Prioritized, d.r.labels = r.labels, d.r.handled = r.handled
       PROVE  Known
  <2>1. a = Prioritized
    BY <1>2, <1>12 DEF Prioritized, Act
  <2>2. ~Repeats(r, a)
    BY <2>1 DEF Repeats, Prioritized, Act
  <2>3. \A m \in Mails : a # Act("classify", m) /\ \A k \in Treatments : a # Act(k, m)
    BY <2>1 DEF Prioritized, Act, Treatments
  <2> QED
    BY <1>4, <1>12, <2>2, <2>3 DEF WorkOk
<1>13. Known /\ Counts
  <2>1. CASE ~r.did /\ d.a = Prioritized /\ d.r = [r EXCEPT !.did = TRUE]
    <3>1. d.r.labels = r.labels /\ d.r.handled = r.handled /\ d.r.did
      BY <2>1 DEF RunRecord
    <3>2. Known
      BY <1>12, <2>1, <3>1
    <3> QED
      BY <1>11, <2>1, <3>1, <3>2
  <2>2. ASSUME NEW m \in r.arrived \ r.labels, d.a = Act("classify", m),
               d.r = [r EXCEPT !.labels = r.labels \union {m}]
        PROVE  Known /\ Counts
    <3>1. d.r.labels = r.labels \union {m} /\ d.r.handled = r.handled /\ d.r.did = r.did
      BY <2>2 DEF RunRecord
    <3>2. a = Act("classify", m) /\ m \in Mails
      BY <1>2, <1>7, <2>2 DEF Act
    <3>3. ~Repeats(r, a)
      BY <1>7, <1>9, <2>2, <3>2 DEF Repeats, Act, Treatments
    <3>4. \A n \in Mails : Act("classify", n) = a <=> n = m
      BY <3>2 DEF Act
    <3>5. \A n \in Mails, k \in Treatments : Act(k, n) # a
      BY <3>2 DEF Act, Treatments
    <3>6. Known
      BY <1>4, <3>1, <3>3, <3>4, <3>5 DEF WorkOk
    <3>7. Cardinality(d.r.labels) = Cardinality(r.labels) + 1
      BY <1>11, <2>2, <3>1, FS_AddElement
    <3> QED
      BY <1>11, <3>1, <3>6, <3>7
  <2>3. ASSUME NEW m \in r.arrived \ r.handled, d.a = Act(Treatment(m), m),
               d.r = [r EXCEPT !.handled = r.handled \union {m}]
        PROVE  Known /\ Counts
    <3>1. d.r.labels = r.labels /\ d.r.handled = r.handled \union {m} /\ d.r.did = r.did
      BY <2>3 DEF RunRecord
    <3>2. a.id = m /\ a.type \in Treatments /\ m \in Mails /\ a = Act(a.type, m)
      <4>1. d.a.id = m /\ d.a.type \in Treatments
        BY <2>3 DEF Act, Treatment, Treatments
      <4> QED
        BY <1>2, <1>7, <1>8, <4>1 DEF Treatments
    <3>3. ~Repeats(r, a)
      BY <1>7, <1>10, <2>3, <3>2 DEF Repeats, Treatments
    <3>4. \A n \in Mails : Act("classify", n) # a
      BY <3>2 DEF Act, Treatments
    <3>5. \A n \in Mails, k \in Treatments : Act(k, n) = a => n = m
      BY <3>2 DEF Act
    <3>6. Known
      BY <1>4, <3>1, <3>2, <3>3, <3>4, <3>5 DEF WorkOk
    <3>7. Cardinality(d.r.handled) = Cardinality(r.handled) + 1
      BY <1>11, <2>3, <3>1, FS_AddElement
    <3> QED
      BY <1>11, <3>1, <3>6, <3>7
  <2>4. CASE Mails \ r.arrived # {} /\ d.a = Prioritized /\ d.r = r
    BY <1>12, <2>4 DEF WorkOk
  <2> QED
    BY <2>1, <2>2, <2>3, <2>4, NextWorkDoes
<1>14. r.mode = "inbox" =>
         /\ p.arrived = Mails /\ p.pc # "cut"
         /\ p.step <= Count(p)
  <2> SUFFICES ASSUME r.mode = "inbox"
               PROVE  /\ p.arrived = Mails /\ p.pc # "cut"
                      /\ p.step <= Count(p)
    OBVIOUS
  <2>1. p.arrived = Mails
    BY <1>3, <1>4 DEF WorkOk
  <2>2. p.step <= Count(p)
    BY <1>4, <1>11, <1>13 DEF WorkOk, RunRecord
  <2>3. /\ Cardinality(p.labels) \in Nat /\ Cardinality(p.labels) <= N
        /\ Cardinality(p.handled) \in Nat /\ Cardinality(p.handled) <= N /\ N \in Nat
    <3>1. p.labels \subseteq Mails /\ p.handled \subseteq Mails
      BY <1>1, <1>4 DEF Remembers, RunRecord, SomeMails
    <3> QED
      BY <3>1, AgentAssumption, FS_Subset, FS_CardinalityType
  <2>4. p.step < 4 * N + 8 /\ p.step \in Nat /\ N \in Nat
    BY <2>2, <2>3, <1>4 DEF RunRecord
  <2>5. r.limit = 4 * N + 8
    BY AgentAssumption DEF ModeOk
  <2> QED
    BY <1>3, <1>4, <2>1, <2>2, <2>4, <2>5
<1> QED
  BY <1>4, <1>5, <1>6, <1>13, <1>14 DEF WorkOk, p

\* At the start of an interval, and after forgetting, a planner that sees risk escalates it.
LEMMA PlansEscalate ==
  ASSUME NEW r \in RunRecord, r.mode \in {"hybrid", "stream"}, setup.provider,
         \E m \in r.arrived : Risky(m), r.plan = "none" \/ (r.step + 1) % Interval = 1,
         NEW d \in Decided(r)
  PROVE  \E m \in Mails : Risky(m) /\ d.a = Act("escalate", m)
<1>1. Strategies(r) = {"escalate_critical"}
  BY DEF Strategies, Plans
<1> DEFINE q == [r EXCEPT !.plan = "escalate_critical"]
<1>2. d \in Execute(q)
  BY <1>1 DEF Decided
<1>3. q.plan = "escalate_critical" /\ q.arrived = r.arrived
  BY DEF RunRecord
<1> HIDE DEF q
<1>4. PICK m \in {n \in q.arrived : Risky(n)} : d = [a |-> Act("escalate", m), r |-> q]
  BY <1>2, <1>3 DEF Execute
<1> QED
  BY <1>3, <1>4 DEF RunRecord, SomeMails

LEMMA PlannerGoesOn ==
  ASSUME NEW r \in RunRecord, PlannerOk(r), r.mode \in {"hybrid", "stream"},
         NEW q, q.step = r.step, q.since = r.since, q.arrived = r.arrived, q.acts = r.acts,
         q.mode = r.mode,
         NEW a, NEW news \in SUBSET Mails, NEW done, NEW p, OneMore(q, a, news, done, p),
         (\E m \in r.arrived : Risky(m)) /\ (r.mode = "stream" \/ (r.step + 1) % Interval = 1) =>
           \E m \in Mails : Risky(m) /\ a = Act("escalate", m)
  PROVE  PlannerOk(p)
<1>1. /\ p.step = r.step + 1 /\ p.mode = r.mode /\ p.arrived = r.arrived \union news
      /\ p.acts = r.acts \union {a} /\ (r.since # Never => p.since = r.since)
      /\ r.since = Never => p.since = IF \E m \in p.arrived : Risky(m) THEN p.step ELSE Never
  BY DEF OneMore
<1>2. r.step \in Nat /\ Never \notin Nat
  BY DEF RunRecord, Never
<1>3. Escalated(r) => Escalated(p)
  BY <1>1 DEF Escalated
<1>4. CASE r.since = Never
  <2>1. p.since = Never <=> \A m \in p.arrived : ~Risky(m)
    BY <1>1, <1>2, <1>4
  <2>2. p.since # Never => p.since = p.step /\ p.since \in 0 .. p.step
    BY <1>1, <1>2, <1>4
  <2>3. p.since = p.step => \A s \in p.since .. p.step - 1 : (s + 1) % Interval # 1
    BY <1>1, <1>2
  <2> QED
    BY <1>1, <2>1, <2>2, <2>3 DEF PlannerOk
<1>5. CASE r.since # Never
  <2>1. p.since = r.since /\ r.since \in 0 .. r.step /\ \E m \in r.arrived : Risky(m)
    BY <1>1, <1>5 DEF PlannerOk
  <2>2. (p.since = Never <=> \A m \in p.arrived : ~Risky(m)) /\ p.since \in 0 .. p.step
    BY <1>1, <1>2, <1>5, <2>1
  <2>3. r.mode = "stream" \/ (r.step + 1) % Interval = 1 => Escalated(p)
    BY <1>1, <2>1 DEF Escalated
  <2>4. CASE Escalated(p)
    BY <2>2, <2>4 DEF PlannerOk
  <2>5. CASE ~Escalated(p)
    <3>1. \A s \in r.since .. r.step - 1 : (s + 1) % Interval # 1
      BY <1>3, <1>5, <2>3, <2>5 DEF PlannerOk
    <3>2. \A s \in p.since .. p.step - 1 : (s + 1) % Interval # 1
      BY <1>1, <1>2, <2>1, <2>3, <2>5, <3>1
    <3> QED
      BY <1>1, <2>2, <2>3, <2>5, <3>2 DEF PlannerOk
  <2> QED
    BY <2>4, <2>5
<1> QED
  BY <1>4, <1>5

\* Every interval has its start.
LEMMA IntervalStarts ==
  ASSUME NEW n \in Nat
  PROVE  \E s \in n .. n + Interval - 1 : (s + 1) % Interval = 1
<1> DEFINE k == n + Interval - 1
           q == k \div Interval
<1>1. k \in Nat /\ Interval \in Nat /\ Interval >= 2 /\ k = n + Interval - 1
  BY AgentAssumption
<1> HIDE DEF k
<1>2. q \in Int /\ k % Interval \in 0 .. Interval - 1 /\ k = Interval * q + (k % Interval)
  BY <1>1
<1> HIDE DEF q
<1>3. (Interval * q + 1) % Interval = 1
  BY <1>1, <1>2
<1>4. Interval * q \in n .. n + Interval - 1
  BY <1>1, <1>2
<1> QED
  BY <1>3, <1>4

LEMMA PlannerInTime ==
  ASSUME NEW r \in RunRecord, PlannerOk(r), r.mode \in {"hybrid", "stream"},
         r.since # Never, r.step >= r.since + Interval
  PROVE  Escalated(r)
<1>1. r.since \in Nat /\ r.step \in Nat /\ r.step >= r.since + Interval
  BY DEF PlannerOk, RunRecord
<1>2. r.since # r.step
  BY <1>1, AgentAssumption
<1>3. PICK s \in r.since .. r.since + Interval - 1 : (s + 1) % Interval = 1
  BY <1>1, IntervalStarts
<1>4. s \in r.since .. r.step - 1
  BY <1>1, <1>3, AgentAssumption
<1> QED
  BY <1>2, <1>3, <1>4 DEF PlannerOk

----------------------------------------------------------------------------
(* InboxAgent: what each step makes of a run.                              *)

\* A run of a policy says nothing.
LEMMA PolicySays ==
  ASSUME NEW r \in RunRecord, ModeOk(r), r.mode # "llm", NEW done, NEW asked
  PROVE  SaidOk(r, done, asked)
<1>1. r.first = NothingSaid /\ r.pc \notin Calling /\ r.pc \notin Keeping
  BY DEF ModeOk, Calling, Keeping
<1> QED
  BY <1>1 DEF SaidOk, NothingSaid

\* A run after a step, in the place of r.
StaysOk(r, p, done, asked) ==
  RunOk(p, done, asked) /\ p.shared = r.shared /\ p.pc # "insert"

LEMMA PolicyStepOk ==
  ASSUME NEW t \in Threads, NEW done, NEW asked, RunOk(run[t], done, asked), At(t, "work"),
         NEW d \in Decided(run[t]), NEW news \in News(run[t]), NEW over \in Dones(run[t]),
         NEW a \in Stressed(run[t], d.a)
  PROVE  StaysOk(run[t], Played(d.r, a, news, over), done, asked)
<1> DEFINE r == run[t]
           p == Played(d.r, a, news, over)
<1>1. r \in RunRecord /\ ModeOk(r) /\ r.pc = "work" /\ r.mode # "llm" /\ r.mode # "stream"
  BY DEF RunOk, At, ModeOk, Calling
<1>2. d.a \in Acts /\ Remembers(r, d.r)
  BY <1>1, DecidedOk
<1>3. a \in Acts /\ (r.mode # "stress" => a = d.a)
  BY <1>1, <1>2, StressedOk
<1>4. news \in SUBSET Mails /\ over \in BOOLEAN
  BY DEF News, Dones
<1> HIDE DEF r
<1>5. d.r \in RunRecord /\ ModeOk(d.r) /\ d.r.pc \notin {"cut", "over"} /\ d.r.mode = r.mode
  BY <1>1, <1>2 DEF Remembers, ModeOk
<1>6. p \in RunRecord /\ ModeOk(p) /\ OneMore(d.r, a, news, over, p)
  BY <1>1, <1>3, <1>4, <1>5, PlayedDoes
<1>7. p.mode = r.mode
  BY <1>5, <1>6 DEF OneMore
<1>8. Followed(p) => WorkOk(p)
  <2> SUFFICES ASSUME Followed(r) PROVE WorkOk(p)
    BY <1>7 DEF Followed
  <2>1. WorkOk(r)
    BY DEF RunOk, r
  <2>2. d \in NextWork(r)
    BY <1>1 DEF Decided, Followed, r
  <2> QED
    BY <1>1, <2>1, <2>2, WorkGoesOn DEF r
<1>9. ASSUME p.mode \in {"hybrid", "stream"}, setup.provider
      PROVE  PlannerOk(p)
  <2>1. PlannerOk(r) /\ r.mode \in {"hybrid", "stream"}
    BY <1>7, <1>9 DEF RunOk, r
  <2>2. a = d.a
    BY <1>3, <2>1
  <2>3. (\E m \in r.arrived : Risky(m)) /\ (r.step + 1) % Interval = 1 =>
          \E m \in Mails : Risky(m) /\ a = Act("escalate", m)
    BY <1>1, <1>9, <2>1, <2>2, PlansEscalate DEF r
  <2>4. /\ d.r.step = r.step /\ d.r.since = r.since /\ d.r.arrived = r.arrived
        /\ d.r.acts = r.acts
    BY <1>2 DEF Remembers
  <2> QED
    BY <1>1, <1>4, <1>5, <1>6, <2>1, <2>3, <2>4, PlannerGoesOn
<1>10. SaidOk(p, done, asked)
  BY <1>1, <1>6, <1>7, PolicySays
<1>11. p.shared = r.shared /\ p.pc # "insert"
  BY <1>2, <1>6 DEF OneMore, Remembers, First
<1> QED
  BY <1>6, <1>8, <1>9, <1>10, <1>11 DEF RunOk, StaysOk, r

\* With nothing left to do, all has come and is worked.
LEMMA PolicyStopsOk ==
  ASSUME NEW t \in Threads, NEW done, NEW asked, RunOk(run[t], done, asked), At(t, "work"),
         Decided(run[t]) = {}
  PROVE  RunOk([run[t] EXCEPT !.pc = "over"], done, asked)
<1> DEFINE r == run[t]
           p == [r EXCEPT !.pc = "over"]
<1>1. r \in RunRecord /\ ModeOk(r) /\ r.pc = "work" /\ r.mode # "llm" /\ r.mode # "stream"
  BY DEF RunOk, At, ModeOk, Calling
<1>2. /\ p \in RunRecord /\ p.pc = "over" /\ p.mode = r.mode /\ p.step = r.step
      /\ p.limit = r.limit /\ p.shared = r.shared /\ p.first = r.first /\ p.acts = r.acts
      /\ p.arrived = r.arrived /\ p.labels = r.labels /\ p.handled = r.handled
      /\ p.did = r.did /\ p.again = r.again /\ p.since = r.since
  BY <1>1 DEF RunRecord, Places
<1> HIDE DEF p
<1>3. ModeOk(p)
  BY <1>1, <1>2 DEF ModeOk, Calling
<1>4. Followed(p) => WorkOk(p)
  <2> SUFFICES ASSUME Followed(r) PROVE WorkOk(p)
    BY <1>2 DEF Followed
  <2>1. WorkOk(r) /\ NextWork(r) = {}
    BY <1>1 DEF RunOk, Decided, Followed
  <2>2. r.did /\ Unlabelled(r) = {} /\ Open(r) = {} /\ Mails \ r.arrived = {}
    BY <2>1 DEF NextWork
  <2>3. r.arrived = Mails /\ \A m \in Mails : m \in r.labels
                                             /\ (Facts[m].label = "spam" \/ m \in r.handled)
    BY <1>1, <2>2 DEF Unlabelled, Open, RunRecord, SomeMails
  <2> QED
    BY <1>1, <1>2, <2>1, <2>3 DEF WorkOk
<1>5. p.mode \in {"hybrid", "stream"} /\ setup.provider => PlannerOk(p)
  BY <1>1, <1>2 DEF RunOk, PlannerOk, Escalated
<1>6. SaidOk(p, done, asked)
  BY <1>1, <1>2, <1>3, PolicySays
<1> QED
  BY <1>2, <1>3, <1>4, <1>5, <1>6 DEF RunOk, p

LEMMA StreamStepOk ==
  ASSUME NEW t \in Threads, NEW done, NEW asked, RunOk(run[t], done, asked), At(t, "stream"),
         NEW d \in Decided(Afresh(run[t])), NEW news \in News(run[t]), NEW over \in BOOLEAN
  PROVE  StaysOk(run[t], Played(Afresh(d.r), d.a, news, over), done, asked)
<1> DEFINE r == run[t]
           q == Afresh(r)
           w == Afresh(d.r)
           p == Played(w, d.a, news, over)
<1>1. r \in RunRecord /\ ModeOk(r) /\ r.pc = "stream" /\ r.mode = "stream"
  BY DEF RunOk, At, ModeOk
<1>2. \A x \in RunRecord : Remembers(x, Afresh(x)) /\ Afresh(x).plan = "none"
  <2>1. {} \in SomeMails /\ "none" \in Strategy
    BY DEF SomeMails, Strategy
  <2> QED
    BY <2>1 DEF Afresh, Remembers, RunRecord
<1> HIDE DEF r, q, w
<1>3. Remembers(r, q) /\ q.plan = "none" /\ d.a \in Acts /\ Remembers(q, d.r)
  BY <1>1, <1>2, DecidedOk DEF q, r, Remembers
<1>4. Remembers(d.r, w)
  BY <1>2, <1>3 DEF w, Remembers
<1>5. Remembers(r, w)
  BY <1>3, <1>4 DEF Remembers
<1>6. news \in SUBSET Mails
  BY DEF News
<1>7. w \in RunRecord /\ ModeOk(w) /\ w.pc \notin {"cut", "over"} /\ w.mode = "stream"
  BY <1>1, <1>5 DEF Remembers, ModeOk
<1>8. p \in RunRecord /\ ModeOk(p) /\ OneMore(w, d.a, news, over, p)
  BY <1>3, <1>6, <1>7, PlayedDoes
<1>9. p.mode = "stream"
  BY <1>7, <1>8 DEF OneMore
<1>10. ASSUME setup.provider
       PROVE  PlannerOk(p)
  <2>1. PlannerOk(r)
    BY <1>1, <1>10 DEF RunOk, r
  <2>2. q \in RunRecord /\ q.mode = "stream" /\ q.arrived = r.arrived
    BY <1>1, <1>3 DEF Remembers
  <2>3. (\E m \in r.arrived : Risky(m)) => \E m \in Mails : Risky(m) /\ d.a = Act("escalate", m)
    BY <1>3, <1>10, <2>2, PlansEscalate DEF q, r
  <2>4. w.step = r.step /\ w.since = r.since /\ w.arrived = r.arrived /\ w.acts = r.acts
    BY <1>5 DEF Remembers
  <2> QED
    BY <1>1, <1>6, <1>7, <1>8, <2>1, <2>3, <2>4, PlannerGoesOn
<1>11. SaidOk(p, done, asked)
  BY <1>8, <1>9, PolicySays
<1>12. p.shared = r.shared /\ p.pc # "insert"
  BY <1>5, <1>8 DEF OneMore, Remembers, First
<1> QED
  BY <1>8, <1>9, <1>10, <1>11, <1>12 DEF RunOk, StaysOk, Followed, p, w, r

\* What is left of a run of the agent by its decisions.
SameEpisode(r, p) ==
  /\ p \in RunRecord
  /\ p.mode = r.mode /\ p.shared = r.shared /\ p.step = r.step /\ p.limit = r.limit
  /\ p.arrived = r.arrived

LEMMA AgentRunOk ==
  ASSUME NEW p \in RunRecord, p.mode = "llm", ModeOk(p), NEW done, NEW asked,
         SaidOk(p, done, asked)
  PROVE  RunOk(p, done, asked)
  BY DEF RunOk, Followed

\* An answer is remembered as the first of its email, unless it is not.
LEMMA AnsweredDoes ==
  ASSUME NEW r \in RunRecord, NEW a \in Acts, NothingSaid \in Sayings
  PROVE  /\ SameEpisode(r, Answered(r, a)) /\ Answered(r, a).first = Said(r, a)
         /\ Answered(r, a).pc \in {"ask", "answered"}
<1> DEFINE pc == IF r.turn = 1 THEN "ask" ELSE "answered"
           first == Said(r, a)
           p == [r EXCEPT !.pc = pc, !.turn = 2, !.first = first, !.number = 0, !.key = NoKey,
                          !.call = Nothing, !.model = "small", !.retried = FALSE]
<1>1. first \in Sayings
  <2>1. r.first \in Sayings
    BY DEF RunRecord
  <2>2. a.type \in Treatments \union {"none", "early", "classify", "prioritize"}
    BY DEF Acts
  <2>3. a.id # NoMail => a.id \in Mails
    BY DEF Acts
  <2> QED
    BY <2>1, <2>2, <2>3 DEF Said, Sayings
<1>2. /\ pc \in Places /\ pc \in {"ask", "answered"} /\ 2 \in Turns /\ 0 \in Numbers
      /\ NoKey \in KeyRecord /\ Nothing \in Acts /\ "small" \in Sizes
  BY AgentAssumption
     DEF Places, Turns, Numbers, NoKey, KeyRecord, Nothing, Acts, Act, Treatments, Sizes
<1> HIDE DEF pc, first
<1>3. /\ p \in RunRecord /\ p.pc = pc /\ p.first = first
      /\ p.mode = r.mode /\ p.shared = r.shared /\ p.step = r.step /\ p.limit = r.limit
      /\ p.arrived = r.arrived
  BY <1>1, <1>2 DEF RunRecord
<1>4. Answered(r, a) = p
  BY DEF Answered, pc, first
<1> HIDE DEF p
<1> QED
  BY <1>2, <1>3, <1>4 DEF SameEpisode, first

\* The first answer about an email is right if it was not asked about what it must not
\* decide.
LEMMA AnswerOk ==
  ASSUME NEW r \in RunRecord, ModeOk(r), r.mode = "llm", r.pc \notin {"cut", "over"},
         NEW a \in Acts, NEW done \in SUBSET Mails, NEW asked,
         r.shared => r.first = NothingSaid,
         \A m \in Mails : r.first[m] \notin {"none", "early"} =>
           IF Risky(m) THEN r.first[m] = "escalate" ELSE ~Facts[m].injected,
         ~r.shared /\ a.id \in r.arrived /\ r.first[a.id] = "none" =>
           IF Risky(a.id) THEN a.type = "escalate" ELSE ~Facts[a.id].injected,
         ~r.shared => \A m \in done : r.first[m] # "none" \/ m = a.id
  PROVE  RunOk(Answered(r, a), done, asked)
<1> DEFINE p == Answered(r, a)
<1>1. NothingSaid \in Sayings
  BY DEF NothingSaid, Sayings
<1>2. SameEpisode(r, p) /\ p.first = Said(r, a) /\ p.pc \in {"ask", "answered"}
  BY <1>1, AnsweredDoes
<1> HIDE DEF p
<1>3. p \in RunRecord /\ p.mode = "llm" /\ p.shared = r.shared
  BY <1>2 DEF SameEpisode
<1>4. r.first \in Sayings /\ a.type \notin {"none", "early"} /\ NoMail \notin Mails
  BY AgentAssumption DEF RunRecord, Acts, Treatments
<1>5. ModeOk(p)
  BY <1>2 DEF ModeOk, SameEpisode, Calling
<1>6. \A m \in Mails : p.first[m] = IF m = a.id /\ ~r.shared /\ r.first[m] = "none"
                                    THEN IF m \in r.arrived THEN a.type ELSE "early"
                                    ELSE r.first[m]
  BY <1>2, <1>4 DEF Said, Sayings
<1>7. r.shared => p.first = NothingSaid
  BY <1>2 DEF Said
<1>8. ASSUME NEW m \in Mails, p.first[m] \notin {"none", "early"}
      PROVE  IF Risky(m) THEN p.first[m] = "escalate" ELSE ~Facts[m].injected
  BY <1>6, <1>8
<1>9. ~r.shared => \A m \in done : p.first[m] # "none"
  BY <1>4, <1>6
<1>10. SaidOk(p, done, asked)
  BY <1>2, <1>3, <1>7, <1>8, <1>9 DEF SaidOk, Calling, Keeping
<1> QED
  BY <1>3, <1>5, <1>10, AgentRunOk DEF p

----------------------------------------------------------------------------
(* InboxAgent: the threads.                                                *)

\* What a run is does not depend on the others, unless they share the agent with it.
LEMMA OthersOk ==
  ASSUME NEW r, NEW done, NEW asked, NEW done2, NEW asked2, RunOk(r, done, asked), r.shared,
         asked \subseteq asked2
  PROVE  RunOk(r, done2, asked2)
<1>1. SaidOk(r, done2, asked2)
  BY DEF RunOk, SaidOk
<1> QED
  BY <1>1 DEF RunOk

LEMMA RunsKept ==
  ASSUME RunsOk, NEW t \in Threads, Running(t), NEW r, Put(t, r), Kept, Asked \subseteq Asked',
         r = NoRun \/ (RunOk(r, agent'.handled, Asked') /\ r.shared = run[t].shared)
  PROVE  RunsOk'
<1>1. run' = [run EXCEPT ![t] = r] /\ setup' = setup
  BY DEF Put, Kept
<1>2. run' \in [Threads -> RunRecord \union {NoRun}]
  BY <1>1 DEF RunsOk, RunOk
<1>3. \A u \in Threads : u # t => run'[u] = run[u]
  BY <1>1 DEF RunsOk
<1>4. run'[t] = r
  BY <1>1 DEF RunsOk
<1>5. NoRun.pc = "idle"
  BY DEF NoRun
<1>6. ASSUME NEW u \in Threads, Running(u)'
      PROVE  RunOk(run'[u], agent'.handled, Asked')
  <2>1. CASE u = t
    BY <1>4, <1>5, <1>6, <2>1 DEF Running, At
  <2>2. CASE u # t
    <3>1. Running(u) /\ run'[u] = run[u]
      BY <1>3, <1>6, <2>2 DEF Running, At
    <3>2. RunOk(run[u], agent.handled, Asked) /\ run[u].shared
      BY <2>2, <3>1 DEF RunsOk
    <3> QED
      BY <3>1, <3>2, OthersOk
  <2> QED
    BY <2>1, <2>2
<1>7. (\A u \in Threads : Running(u) => RunOk(run[u], agent.handled, Asked))'
  BY <1>1, <1>6 DEF RunOk, Followed, SaidOk
<1>8. (\A u, w \in Threads : Running(u) /\ Running(w) /\ u # w => run[u].shared)'
  BY <1>3, <1>4, <1>5 DEF RunsOk, Running, At
<1> QED
  BY <1>2, <1>7, <1>8 DEF RunsOk

\* Keys that are there once are as many as the entries.
LEMMA KeysCounted ==
  ASSUME NEW S, NEW s \in Seq(S), \A i, j \in DOMAIN s : s[i].key = s[j].key => i = j
  PROVE  /\ IsFiniteSet({s[i].key : i \in DOMAIN s})
         /\ Cardinality({s[i].key : i \in DOMAIN s}) = Len(s)
<1> DEFINE K == {s[i].key : i \in DOMAIN s}
           D == 1 .. Len(s)
           g == [i \in D |-> s[i].key]
<1>1. Len(s) \in Nat /\ D = DOMAIN s
  OBVIOUS
<1>2. IsFiniteSet(D) /\ Cardinality(D) = Len(s)
  <2>1. ASSUME NEW n \in Nat
        PROVE  IsFiniteSet(1 .. n) /\ Cardinality(1 .. n) = n
    <3>1. 1 \in Int /\ n \in Int /\ (IF 1 > n THEN 0 ELSE n - 1 + 1) = n
      OBVIOUS
    <3> QED
      BY <3>1, FS_Interval
  <2> QED
    BY <1>1, <2>1
<1>3. g \in Surjection(D, K) /\ g \in Injection(D, K)
  <2>1. K = {s[i].key : i \in D} /\ \A i, j \in D : g[i] = g[j] => i = j
    BY <1>1
  <2> QED
    BY <2>1 DEF Surjection, Injection, IsInjective
<1> HIDE DEF D, g, K
<1>4. IsFiniteSet(K) /\ Cardinality(K) = Cardinality(D)
  BY <1>2, <1>3, FS_Surjection
<1> QED
  BY <1>2, <1>4 DEF K

LEMMA InsertingFew ==
  ASSUME NEW f
  PROVE  /\ IsFiniteSet({f[t].key : t \in {u \in Threads : f[u].pc = "insert"}})
         /\ Cardinality({f[t].key : t \in {u \in Threads : f[u].pc = "insert"}})
              <= Cardinality(Threads)
<1> DEFINE T == {u \in Threads : f[u].pc = "insert"}
           K == {f[t].key : t \in T}
           h == [u \in T |-> f[u].key]
<1>1. IsFiniteSet(T) /\ Cardinality(T) <= Cardinality(Threads)
  BY AgentAssumption, FS_Subset
<1>2. h \in Surjection(T, K)
  BY DEF Surjection
<1> HIDE DEF T, h, K
<1>3. IsFiniteSet(K) /\ Cardinality(K) <= Cardinality(T)
  BY <1>1, <1>2, FS_Surjection
<1>4. Cardinality(K) \in Nat /\ Cardinality(T) \in Nat /\ Cardinality(Threads) \in Nat
  BY <1>1, <1>3, AgentAssumption, FS_CardinalityType
<1>5. Cardinality(K) <= Cardinality(Threads)
  BY <1>1, <1>3, <1>4
<1> QED
  BY <1>3, <1>5 DEF K, T

LEMMA KeysFinite ==
  ASSUME CacheOk
  PROVE  IsFiniteSet(CachedKeys \union Inserting)
<1>1. IsFiniteSet(CachedKeys)
  BY KeysCounted DEF CacheOk, CachedKeys
<1>2. IsFiniteSet(Inserting)
  BY InsertingFew DEF Inserting, At
<1> QED
  BY <1>1, <1>2, FS_Union

LEMMA RoomKept ==
  ASSUME RoomOk, CacheOk, CachedKeys' \union Inserting' \subseteq CachedKeys \union Inserting
  PROVE  RoomOk'
<1>1. /\ IsFiniteSet(CachedKeys' \union Inserting')
      /\ Cardinality(CachedKeys' \union Inserting') <= Cardinality(CachedKeys \union Inserting)
      /\ Cardinality(CachedKeys \union Inserting) \in Nat
  BY KeysFinite, FS_Subset, FS_CardinalityType
<1>2. Cardinality(CachedKeys' \union Inserting') \in Nat /\ Cardinality(Threads) \in Nat
  BY <1>1, AgentAssumption, FS_CardinalityType
<1> QED
  BY <1>1, <1>2, AgentAssumption DEF RoomOk

LEMMA InsertingShrinks ==
  ASSUME RunsOk, NEW t \in Threads, NEW r, Put(t, r), r.pc # "insert"
  PROVE  Inserting' \subseteq Inserting
<1>1. \A u \in Threads : run'[u] = IF u = t THEN r ELSE run[u]
  BY DEF RunsOk, Put
<1> QED
  BY <1>1 DEF Inserting, At

\* A step of one thread alone.
LEMMA AloneKeeps ==
  ASSUME AgentInv, NEW t \in Threads, Running(t), NEW r, PutAlone(t, r), r.pc # "insert",
         r = NoRun \/ (RunOk(r, agent.handled, Asked) /\ r.shared = run[t].shared)
  PROVE  AgentInv'
<1>1. /\ Put(t, r) /\ Kept /\ agent' = agent /\ responses' = responses /\ approvals' = approvals
      /\ setup' = setup /\ runs' = runs
  BY DEF PutAlone, Kept
<1>2. Asked' = Asked /\ CachedKeys' = CachedKeys
  BY <1>1 DEF Asked, CachedKeys
<1>3. RunsOk'
  BY <1>1, <1>2, RunsKept DEF AgentInv
<1>4. RoomOk'
  BY <1>1, <1>2, InsertingShrinks, RoomKept DEF AgentInv
<1> QED
  BY <1>1, <1>3, <1>4 DEF AgentInv, CacheOk


\* A step of one thread that leaves the cache alone.
LEMMA StepKeeps ==
  ASSUME AgentInv, NEW t \in Threads, Running(t), NEW r, Put(t, r), Kept, responses' = responses,
         r.pc # "insert",
         r = NoRun \/ (RunOk(r, agent'.handled, Asked') /\ r.shared = run[t].shared),
         agent' \in AgentRecord, agent'.number = agent.number,
         approvals' \subseteq [act : Acts, pending : BOOLEAN],
         \A q \in approvals' : q.act.type \in {"reply", "escalate"}, Asked \subseteq Asked'
  PROVE  AgentInv'
<1>1. setup' = setup /\ runs' = runs /\ CachedKeys' = CachedKeys
  BY DEF Kept, CachedKeys
<1>2. RunsOk'
  BY RunsKept DEF AgentInv
<1>3. RoomOk'
  BY <1>1, InsertingShrinks, RoomKept DEF AgentInv
<1> QED
  BY <1>1, <1>2, <1>3 DEF AgentInv, CacheOk

\* A step of one thread that changes the cache alone.
LEMMA CacheStepKeeps ==
  ASSUME AgentInv, NEW t \in Threads, Running(t), NEW r, Put(t, r), Kept,
         agent' = agent, approvals' = approvals, CacheOk', RoomOk',
         RunOk(r, agent.handled, Asked), r.shared = run[t].shared
  PROVE  AgentInv'
<1>1. setup' = setup /\ runs' = runs /\ Asked' = Asked
  BY DEF Kept, Asked
<1>2. RunsOk'
  BY <1>1, RunsKept DEF AgentInv
<1> QED
  BY <1>1, <1>2 DEF AgentInv

LEMMA RunningOk ==
  ASSUME AgentInv, NEW t \in Threads, NEW pc, At(t, pc), pc # "idle"
  PROVE  Running(t) /\ RunOk(run[t], agent.handled, Asked) /\ run[t] \in RunRecord
  BY DEF AgentInv, RunsOk, RunOk, Running, At

LEMMA GradeKeeps ==
  ASSUME AgentInv, NEW t \in Threads, Grade(t)
  PROVE  AgentInv'
<1>1. Running(t) /\ PutAlone(t, NoRun)
  BY DEF Grade, Running, At
<1>2. NoRun.pc # "insert"
  BY DEF NoRun
<1> QED
  BY <1>1, <1>2, AloneKeeps

LEMMA PolicyStepKeeps ==
  ASSUME AgentInv, NEW t \in Threads, PolicyStep(t)
  PROVE  AgentInv'
<1>1. /\ At(t, "work") /\ Running(t) /\ RunOk(run[t], agent.handled, Asked)
      /\ run[t] \in RunRecord
  BY RunningOk DEF PolicyStep
<1>2. CASE Decided(run[t]) = {} /\ PutAlone(t, [run[t] EXCEPT !.pc = "over"])
  <2>1. RunOk([run[t] EXCEPT !.pc = "over"], agent.handled, Asked)
    BY <1>1, <1>2, PolicyStopsOk
  <2>2. /\ [run[t] EXCEPT !.pc = "over"].pc # "insert"
        /\ [run[t] EXCEPT !.pc = "over"].shared = run[t].shared
    BY <1>1 DEF RunRecord
  <2> QED
    BY <1>1, <1>2, <2>1, <2>2, AloneKeeps
<1>3. ASSUME NEW d \in Decided(run[t]), NEW news \in News(run[t]), NEW done \in Dones(run[t]),
             NEW a \in Stressed(run[t], d.a), PutAlone(t, Played(d.r, a, news, done))
      PROVE  AgentInv'
  <2>1. StaysOk(run[t], Played(d.r, a, news, done), agent.handled, Asked)
    BY <1>1, PolicyStepOk
  <2> QED
    BY <1>1, <1>3, <2>1, AloneKeeps DEF StaysOk
<1> QED
  BY <1>2, <1>3 DEF PolicyStep

LEMMA StreamStepKeeps ==
  ASSUME AgentInv, NEW t \in Threads, StreamStep(t)
  PROVE  AgentInv'
<1>1. At(t, "stream") /\ Running(t) /\ RunOk(run[t], agent.handled, Asked)
  BY RunningOk DEF StreamStep
<1>2. PICK d \in Decided(Afresh(run[t])), news \in News(run[t]), done \in BOOLEAN :
        PutAlone(t, Played(Afresh(d.r), d.a, news, done))
  BY DEF StreamStep
<1>3. StaysOk(run[t], Played(Afresh(d.r), d.a, news, done), agent.handled, Asked)
  BY <1>1, StreamStepOk
<1> QED
  BY <1>1, <1>2, <1>3, AloneKeeps DEF StaysOk


LEMMA PlayAnswerKeeps ==
  ASSUME AgentInv, NEW t \in Threads, PlayAnswer(t)
  PROVE  AgentInv'
<1> DEFINE r == run[t]
<1>1. Running(t) /\ RunOk(r, agent.handled, Asked) /\ r \in RunRecord /\ r.pc = "answered"
  BY RunningOk DEF PlayAnswer, At
<1>2. ModeOk(r) /\ SaidOk(r, agent.handled, Asked) /\ r.mode = "llm"
  BY <1>1 DEF RunOk, ModeOk
<1>3. PICK news \in News(r), done \in BOOLEAN : PutAlone(t, Played(r, Nothing, news, done))
  BY DEF PlayAnswer
<1> DEFINE p == Played(r, Nothing, news, done)
<1>4. CASE done \/ r.step + 1 >= r.limit
  <2>1. p = NoRun /\ NoRun.pc # "insert"
    BY <1>2, <1>4 DEF Played, NoRun
  <2> QED
    BY <1>1, <1>3, <2>1, AloneKeeps
<1>5. CASE ~(done \/ r.step + 1 >= r.limit)
  <2>1. Nothing \in Acts /\ news \in SUBSET Mails
    BY DEF Nothing, Acts, Act, Treatments, News
  <2> HIDE DEF r
  <2>2. p \in RunRecord /\ ModeOk(p) /\ OneMore(r, Nothing, news, done, p)
    BY <1>1, <1>2, <1>5, <2>1, PlayedDoes
  <2>3. /\ p.mode = "llm" /\ p.shared = r.shared /\ p.first = r.first
        /\ p.pc \notin Calling /\ p.pc \notin Keeping /\ p.pc # "insert"
    BY <1>2, <2>2 DEF OneMore, First, Calling, Keeping
  <2>4. SaidOk(p, agent.handled, Asked)
    BY <1>1, <1>2, <2>3 DEF SaidOk, Keeping
  <2> HIDE DEF p
  <2>5. RunOk(p, agent.handled, Asked)
    BY <2>2, <2>3, <2>4, AgentRunOk
  <2> QED
    BY <1>1, <1>3, <2>3, <2>5, AloneKeeps DEF p, r
<1> QED
  BY <1>4, <1>5

\* A run at a decision: what it said is right, and it said something of all the agent
\* has handled.
Deciding(r, done) ==
  /\ r \in RunRecord /\ ModeOk(r) /\ r.mode = "llm" /\ r.pc \notin {"cut", "over"}
  /\ r.shared => r.first = NothingSaid
  /\ \A m \in Mails : r.first[m] \notin {"none", "early"} =>
       IF Risky(m) THEN r.first[m] = "escalate" ELSE ~Facts[m].injected
  /\ ~r.shared => \A m \in done : r.first[m] # "none"

LEMMA Decides ==
  ASSUME AgentInv, NEW t \in Threads, At(t, "ask") \/ At(t, "call") \/ At(t, "retry")
  PROVE  Running(t) /\ Deciding(run[t], agent.handled)
<1>1. Running(t) /\ RunOk(run[t], agent.handled, Asked) /\ run[t] \in RunRecord
  BY RunningOk
<1>2. ModeOk(run[t]) /\ SaidOk(run[t], agent.handled, Asked) /\ run[t].mode = "llm"
  BY <1>1 DEF RunOk, ModeOk, Calling, At
<1>3. run[t].pc \notin Keeping /\ run[t].pc \notin {"cut", "over"}
  BY DEF Keeping, At
<1> QED
  BY <1>1, <1>2, <1>3 DEF SaidOk, Deciding

\* The agent it asks is noted.
LEMMA Numbered ==
  ASSUME NEW r, NEW done, Deciding(r, done), NEW n \in Numbers
  PROVE  /\ Deciding([r EXCEPT !.number = n], done)
         /\ [r EXCEPT !.number = n].shared = r.shared
         /\ [r EXCEPT !.number = n].arrived = r.arrived
         /\ [r EXCEPT !.number = n].first = r.first
         /\ [r EXCEPT !.number = n].pc = r.pc
         /\ [r EXCEPT !.number = n].step = r.step
<1> DEFINE q == [r EXCEPT !.number = n]
<1>1. /\ q \in RunRecord /\ q.mode = r.mode /\ q.shared = r.shared /\ q.first = r.first
      /\ q.pc = r.pc /\ q.step = r.step /\ q.limit = r.limit /\ q.arrived = r.arrived
  BY DEF Deciding, RunRecord
<1> HIDE DEF q
<1>2. ModeOk(q)
  BY <1>1 DEF Deciding, ModeOk
<1>3. Deciding(q, done)
  BY <1>1, <1>2 DEF Deciding
<1> QED
  BY <1>1, <1>3 DEF q

LEMMA NumbersAre ==
  ASSUME AgentInv
  PROVE  agent.number \in Numbers /\ agent.handled \in SUBSET Mails
  BY DEF AgentInv, AgentRecord, Numbers

\* An answer to a run that decides.
LEMMA DecisionKeeps ==
  ASSUME AgentInv, NEW t \in Threads, Running(t), NEW r, Deciding(r, agent.handled),
         r.shared = run[t].shared, NEW a \in Acts,
         ~r.shared /\ a.id \in r.arrived /\ r.first[a.id] = "none" =>
           IF Risky(a.id) THEN a.type = "escalate" ELSE ~Facts[a.id].injected,
         Put(t, Answered(r, a)), Kept, responses' = responses, approvals' = approvals,
         agent' \in AgentRecord, agent'.number = agent.number,
         \A m \in agent'.handled : m \in agent.handled \/ m = a.id
  PROVE  AgentInv'
<1>1. Asked' = Asked
  BY DEF Asked
<1>2. agent'.handled \in SUBSET Mails
  BY DEF AgentRecord
<1>3. ~r.shared => \A m \in agent'.handled : r.first[m] # "none" \/ m = a.id
  BY DEF Deciding
<1>4. RunOk(Answered(r, a), agent'.handled, Asked')
  BY <1>2, <1>3, AnswerOk DEF Deciding
<1>5. NothingSaid \in Sayings
  BY DEF NothingSaid, Sayings
<1>6. Answered(r, a).shared = r.shared /\ Answered(r, a).pc # "insert"
  BY <1>5, AnsweredDoes DEF Deciding, SameEpisode
<1> HIDE DEF Answered
<1>7. approvals' \subseteq [act : Acts, pending : BOOLEAN]
      /\ \A q \in approvals' : q.act.type \in {"reply", "escalate"}
  BY DEF AgentInv
<1> QED
  BY <1>1, <1>4, <1>6, <1>7, StepKeeps

LEMMA HandleDoes ==
  ASSUME agent \in AgentRecord, NEW r, NEW id \in Mails \union {NoMail}, Handle(r, id)
  PROVE  /\ agent' \in AgentRecord /\ agent'.number = agent.number
         /\ \A m \in agent'.handled : m \in agent.handled \/ m = id
<1>1. CASE Mine(r) /\ id # NoMail
  BY <1>1 DEF Handle, AgentRecord
<1>2. CASE ~(Mine(r) /\ id # NoMail)
  BY <1>2 DEF Handle
<1> QED
  BY <1>1, <1>2

LEMMA NothingIs == Nothing \in Acts /\ Prioritized \in Acts /\ Nothing.id = NoMail
                   /\ Prioritized.id = NoMail /\ NoMail \notin Mails
  BY AgentAssumption DEF Nothing, Prioritized, Acts, Act, Treatments

LEMMA AskFirstKeeps ==
  ASSUME AgentInv, NEW t \in Threads, AskFirst(t)
  PROVE  AgentInv'
<1>1. Running(t) /\ Deciding(run[t], agent.handled)
  BY Decides DEF AskFirst
<1>2. Prioritized.id \notin run[t].arrived
  BY <1>1, NothingIs DEF Deciding, RunRecord, SomeMails
<1>3. agent' \in AgentRecord /\ agent'.number = agent.number /\ agent'.handled = agent.handled
  BY DEF AskFirst, AgentInv, AgentRecord
<1> QED
  BY <1>1, <1>2, <1>3, NothingIs, DecisionKeeps DEF AskFirst

\* Nothing is always right.
LEMMA NothingKeeps ==
  ASSUME AgentInv, NEW t \in Threads, Running(t), Deciding(run[t], agent.handled),
         PutAlone(t, Answered(run[t], Nothing))
  PROVE  AgentInv'
<1>1. Nothing.id \notin run[t].arrived
  BY NothingIs DEF Deciding, RunRecord, SomeMails
<1>2. agent' = agent /\ agent \in AgentRecord
  BY DEF PutAlone, AgentInv
<1> QED
  BY <1>1, <1>2, NothingIs, DecisionKeeps DEF PutAlone

LEMMA AskNothingKeeps ==
  ASSUME AgentInv, NEW t \in Threads, AskNothing(t)
  PROVE  AgentInv'
  BY Decides, NothingKeeps DEF AskNothing

LEMMA AskRiskyKeeps ==
  ASSUME AgentInv, NEW t \in Threads, AskRisky(t)
  PROVE  AgentInv'
<1> DEFINE r == [run[t] EXCEPT !.number = agent.number]
<1>1. Running(t) /\ Deciding(run[t], agent.handled)
  BY Decides DEF AskRisky
<1>2. Deciding(r, agent.handled) /\ r.shared = run[t].shared
  BY <1>1, NumbersAre, Numbered
<1> HIDE DEF r
<1>3. PICK m \in MustEscalate(r) : Handle(r, m) /\ Put(t, Answered(r, Act("escalate", m)))
  BY DEF AskRisky, r
<1>4. m \in r.arrived /\ Risky(m)
  BY DEF MustEscalate, Shown
<1>5. m \in Mails
  BY <1>2, <1>4 DEF Deciding, RunRecord, SomeMails
<1>6. /\ Act("escalate", m) \in Acts /\ Act("escalate", m).id = m
      /\ Act("escalate", m).type = "escalate"
  BY <1>5 DEF Acts, Act, Treatments
<1>7. agent \in AgentRecord
  BY DEF AgentInv
<1>8. /\ agent' \in AgentRecord /\ agent'.number = agent.number
      /\ \A k \in agent'.handled : k \in agent.handled \/ k = m
  BY <1>3, <1>5, <1>7, HandleDoes
<1> QED
  BY <1>1, <1>2, <1>3, <1>4, <1>6, <1>8, DecisionKeeps DEF AskRisky

LEMMA EntryIs ==
  ASSUME CacheOk, NEW i \in DOMAIN responses
  PROVE  responses[i] \in [key : KeyRecord, answer : Acts]
<1> DEFINE Entry == [key : KeyRecord, answer : Acts]
<1>1. responses \in Seq(Entry)
  BY DEF CacheOk
<1> HIDE DEF Entry
<1>2. responses[i] \in Entry
  BY <1>1
<1> QED
  BY <1>2 DEF Entry

LEMMA AskCacheKeeps ==
  ASSUME AgentInv, NEW t \in Threads, AskCache(t)
  PROVE  AgentInv'
<1> DEFINE r == [run[t] EXCEPT !.number = agent.number]
<1>1. Running(t) /\ Deciding(run[t], agent.handled)
  BY Decides DEF AskCache
<1>2. Deciding(r, agent.handled) /\ r.shared = run[t].shared
  BY <1>1, NumbersAre, Numbered
<1> HIDE DEF r
<1>3. PICK i \in Cached(r) : /\ Handle(r, responses[i].answer.id)
                             /\ Put(t, Answered(r, responses[i].answer))
  BY DEF AskCache, r
<1> DEFINE a == responses[i].answer
<1>4. i \in DOMAIN responses /\ responses[i].key.mails = Shown(r)
  BY DEF Cached, Key
<1>5. a \in Acts /\ (a.id \in Shown(r) => ~Facts[a.id].injected)
  <2>1. CacheOk
    BY DEF AgentInv
  <2>2. responses[i] \in [key : KeyRecord, answer : Acts]
    BY <1>4, <2>1, EntryIs
  <2>3. a.id \in responses[i].key.mails => ~Facts[a.id].injected
    BY <1>4, <2>1 DEF CacheOk
  <2> QED
    BY <1>4, <2>2, <2>3
<1>6. a.id \in Mails \union {NoMail}
  BY <1>5 DEF Acts
<1>7. MustEscalate(r) = {}
  BY DEF AskCache, Plain, r
<1> HIDE DEF a
<1>8. ~r.shared /\ a.id \in r.arrived /\ r.first[a.id] = "none" => a.id \in Shown(r)
  BY <1>2 DEF Deciding, Shown
<1>9. a.id \in Shown(r) => ~Risky(a.id)
  BY <1>7 DEF MustEscalate
<1>10. agent \in AgentRecord
  BY DEF AgentInv
<1>11. /\ agent' \in AgentRecord /\ agent'.number = agent.number
       /\ \A k \in agent'.handled : k \in agent.handled \/ k = a.id
  BY <1>3, <1>6, <1>10, HandleDoes DEF a
<1>12. Put(t, Answered(r, a))
  BY <1>3 DEF a
<1> QED
  BY <1>1, <1>2, <1>5, <1>8, <1>9, <1>11, <1>12, DecisionKeeps DEF AskCache


\* An entry is dropped.
LEMMA EntryDropped ==
  ASSUME NEW S, NEW s \in Seq(S), NEW i \in DOMAIN s
  PROVE  /\ RemoveAt(s, i) \in Seq(S) /\ Len(RemoveAt(s, i)) = Len(s) - 1
         /\ \A j \in 1 .. Len(s) - 1 : RemoveAt(s, i)[j] = IF j < i THEN s[j] ELSE s[j + 1]
<1> DEFINE n == Len(s)
           a == SubSeq(s, 1, i - 1)
           b == SubSeq(s, i + 1, n)
<1>1. n \in Nat /\ DOMAIN s = 1 .. n /\ i \in 1 .. n
  OBVIOUS
<1>2. a \in Seq(S) /\ Len(a) = i - 1 /\ \A j \in 1 .. i - 1 : a[j] = s[j]
  <2>1. 1 \in Int /\ i - 1 \in Int /\ \A j \in 1 .. i - 1 : s[j] \in S
    BY <1>1
  <2> QED
    BY <1>1, <2>1, SubSeqProperties
<1>3. b \in Seq(S) /\ Len(b) = n - i /\ \A j \in 1 .. n - i : b[j] = s[i + j]
  <2>1. i + 1 \in Int /\ n \in Int /\ \A j \in i + 1 .. n : s[j] \in S
    BY <1>1
  <2>2. /\ b \in Seq(S) /\ Len(b) = IF i + 1 <= n THEN n - (i + 1) + 1 ELSE 0
        /\ \A j \in 1 .. n - (i + 1) + 1 : b[j] = s[i + 1 + j - 1]
    BY <2>1, SubSeqProperties
  <2> QED
    BY <1>1, <2>2
<1> HIDE DEF a, b, n
<1>4. /\ a \o b \in Seq(S) /\ Len(a \o b) = Len(a) + Len(b)
      /\ \A j \in 1 .. Len(a) + Len(b) : (a \o b)[j] = IF j <= Len(a) THEN a[j] ELSE b[j - Len(a)]
  BY <1>2, <1>3, ConcatProperties
<1>5. RemoveAt(s, i) = a \o b
  BY DEF RemoveAt, a, b, n
<1>6. ASSUME NEW j \in 1 .. n - 1
      PROVE  (a \o b)[j] = IF j < i THEN s[j] ELSE s[j + 1]
  <2>1. (a \o b)[j] = IF j <= i - 1 THEN a[j] ELSE b[j - (i - 1)]
    <3>1. Len(a) + Len(b) = n - 1
      BY <1>1, <1>2, <1>3
    <3> QED
      BY <1>2, <1>4, <3>1
  <2>2. CASE j < i
    BY <1>1, <1>2, <2>1, <2>2
  <2>3. CASE j >= i
    <3>1. j - (i - 1) \in 1 .. n - i /\ i + (j - (i - 1)) = j + 1 /\ ~(j <= i - 1)
      BY <1>1, <2>3
    <3>2. b[j - (i - 1)] = s[j + 1]
      BY <1>3, <3>1
    <3>3. ~(j < i)
      BY <1>1, <2>3
    <3> QED
      BY <2>1, <3>1, <3>2, <3>3
  <2>4. j < i \/ j >= i
    BY <1>1
  <2> QED
    BY <2>2, <2>3, <2>4
<1>7. Len(a \o b) = n - 1
  BY <1>1, <1>2, <1>3, <1>4
<1> QED
  BY <1>4, <1>5, <1>6, <1>7 DEF n

\* What is taken from the cache leaves it right.
Thinned(s) ==
  /\ s \in Seq([key : KeyRecord, answer : Acts])
  /\ \A i, j \in DOMAIN s : s[i].key = s[j].key => i = j
  /\ \A i \in DOMAIN s : \E j \in DOMAIN responses : s[i] = responses[j]

LEMMA ThinnedKeeps ==
  ASSUME CacheOk, Thinned(responses')
  PROVE  CacheOk' /\ CachedKeys' \subseteq CachedKeys
<1>1. CachedKeys' \subseteq CachedKeys
  BY DEF Thinned, CachedKeys
<1> QED
  BY <1>1 DEF Thinned, CacheOk

LEMMA DroppedThins ==
  ASSUME CacheOk, NEW i \in DOMAIN responses
  PROVE  Thinned(RemoveAt(responses, i))
<1> DEFINE n == Len(responses)
           s == RemoveAt(responses, i)
           old(j) == IF j < i THEN j ELSE j + 1
<1>1. n \in Nat /\ DOMAIN responses = 1 .. n /\ i \in 1 .. n
  BY DEF CacheOk
<1>2. /\ s \in Seq([key : KeyRecord, answer : Acts]) /\ Len(s) = n - 1
      /\ \A j \in 1 .. n - 1 : s[j] = IF j < i THEN responses[j] ELSE responses[j + 1]
  BY EntryDropped DEF CacheOk
<1> HIDE DEF s, n
<1>3. DOMAIN s = 1 .. n - 1
  BY <1>2
<1>4. \A j \in 1 .. n - 1 : old(j) \in DOMAIN responses /\ s[j] = responses[old(j)]
  BY <1>1, <1>2
<1>5. \A j, k \in 1 .. n - 1 : old(j) = old(k) => j = k
  BY <1>1
<1> HIDE DEF old
<1>6. \A j, k \in DOMAIN s : s[j].key = s[k].key => j = k
  BY <1>3, <1>4, <1>5 DEF CacheOk
<1> QED
  BY <1>2, <1>3, <1>4, <1>6 DEF Thinned, s

LEMMA RoomThins ==
  ASSUME CacheOk
  PROVE  Thinned(Room) /\ Len(Room) <= MaxEntries - 1
<1> DEFINE n == Len(responses)
           m == n - MaxEntries + 2
           s == SubSeq(responses, m, n)
<1>1. n \in Nat /\ DOMAIN responses = 1 .. n /\ MaxEntries \in Nat \ {0}
  BY AgentAssumption DEF CacheOk
<1>2. CASE n < MaxEntries
  BY <1>1, <1>2 DEF Room, Thinned, CacheOk
<1>3. CASE n >= MaxEntries
  <2>1. m \in Int /\ n \in Int /\ m \in 2 .. n + 1
    BY <1>1, <1>3
  <2>2. \A i \in m .. n : responses[i] \in [key : KeyRecord, answer : Acts]
    BY <1>1, <2>1, EntryIs
  <2>3. /\ s \in Seq([key : KeyRecord, answer : Acts]) /\ Len(s) = IF m <= n THEN n - m + 1 ELSE 0
        /\ \A i \in 1 .. n - m + 1 : s[i] = responses[m + i - 1]
    BY <2>1, <2>2, SubSeqProperties
  <2> HIDE DEF s
  <2>4. DOMAIN s = 1 .. n - m + 1 /\ Len(s) = MaxEntries - 1
    BY <1>1, <2>1, <2>3
  <2> HIDE DEF m, n
  <2>5. \A i \in DOMAIN s : m + i - 1 \in DOMAIN responses /\ s[i] = responses[m + i - 1]
    BY <1>1, <2>1, <2>3, <2>4
  <2>6. \A i, j \in DOMAIN s : m + i - 1 = m + j - 1 => i = j
    BY <2>1, <2>4
  <2>7. \A i, j \in DOMAIN s : s[i].key = s[j].key => i = j
    BY <2>5, <2>6 DEF CacheOk
  <2>8. Room = s
    BY <1>1, <1>3 DEF Room, s, m, n
  <2> QED
    BY <1>1, <2>3, <2>4, <2>5, <2>7, <2>8 DEF Thinned
<1> QED
  BY <1>1, <1>2, <1>3


\* A run that asks a model has no risk to ask about.
LEMMA CallOk ==
  ASSUME NEW r, NEW done, NEW asked, Deciding(r, done), NEW k \in KeyRecord,
         \A m \in k.mails : ~Risky(m),
         ~r.shared => \A m \in r.arrived \ k.mails : r.first[m] # "none"
  PROVE  /\ RunOk([r EXCEPT !.pc = "call", !.key = k], done, asked)
         /\ [r EXCEPT !.pc = "call", !.key = k].shared = r.shared
         /\ [r EXCEPT !.pc = "call", !.key = k].pc # "insert"
<1> DEFINE p == [r EXCEPT !.pc = "call", !.key = k]
<1>1. "call" \in Places
  BY DEF Places
<1>2. /\ p \in RunRecord /\ p.pc = "call" /\ p.key = k /\ p.mode = r.mode /\ p.shared = r.shared
      /\ p.step = r.step /\ p.limit = r.limit /\ p.first = r.first /\ p.arrived = r.arrived
  BY <1>1 DEF Deciding, RunRecord
<1> HIDE DEF p
<1>3. ModeOk(p) /\ p.mode = "llm"
  BY <1>2 DEF Deciding, ModeOk, Calling
<1>4. SaidOk(p, done, asked)
  BY <1>2 DEF Deciding, SaidOk, Keeping
<1>5. RunOk(p, done, asked)
  BY <1>2, <1>3, <1>4, AgentRunOk
<1> QED
  BY <1>2, <1>5 DEF p

LEMMA AskModelKeeps ==
  ASSUME AgentInv, NEW t \in Threads, AskModel(t)
  PROVE  AgentInv'
<1> DEFINE r == [run[t] EXCEPT !.number = agent.number]
           p == [r EXCEPT !.pc = "call", !.key = Key(r)]
<1>1. Running(t) /\ Deciding(run[t], agent.handled)
  BY Decides DEF AskModel
<1>2. Deciding(r, agent.handled) /\ r.shared = run[t].shared
  BY <1>1, NumbersAre, Numbered
<1>3. Plain(r) /\ Put(t, p) /\ Kept /\ agent' = agent /\ approvals' = approvals
  BY DEF AskModel
<1>4. \/ responses' = responses
      \/ \E i \in DOMAIN responses : responses' = RemoveAt(responses, i)
  BY DEF AskModel, Cached
<1> HIDE DEF r
<1>5. Key(r) \in KeyRecord /\ Key(r).mails = Shown(r)
  BY <1>2 DEF Key, KeyRecord, Shown, Deciding, RunRecord, SomeMails
<1>6. \A m \in Shown(r) : ~Risky(m)
  BY <1>3 DEF Plain, MustEscalate
<1>7. ~r.shared => \A m \in r.arrived \ Shown(r) : r.first[m] # "none"
  BY <1>2 DEF Shown, Deciding
<1>8. RunOk(p, agent.handled, Asked) /\ p.shared = r.shared /\ p.pc # "insert"
  BY <1>2, <1>5, <1>6, <1>7, CallOk
<1> HIDE DEF p
<1>9. CacheOk /\ RoomOk
  BY DEF AgentInv
<1>10. Thinned(responses')
  BY <1>4, <1>9, DroppedThins DEF Thinned, CacheOk
<1>11. CacheOk' /\ CachedKeys' \subseteq CachedKeys
  BY <1>9, <1>10, ThinnedKeeps
<1>12. Inserting' \subseteq Inserting
  BY <1>3, <1>8, InsertingShrinks DEF AgentInv
<1>13. RoomOk'
  BY <1>9, <1>11, <1>12, RoomKept
<1> QED
  BY <1>1, <1>2, <1>3, <1>8, <1>11, <1>13, CacheStepKeeps

LEMMA CallingSays ==
  ASSUME AgentInv, NEW t \in Threads, At(t, "call") \/ At(t, "retry")
  PROVE  /\ \A m \in run[t].key.mails : ~Risky(m)
         /\ ~run[t].shared => \A m \in run[t].arrived \ run[t].key.mails : run[t].first[m] # "none"
<1>1. RunOk(run[t], agent.handled, Asked) /\ run[t].pc \in Calling
  BY RunningOk DEF At, Calling
<1> QED
  BY <1>1 DEF RunOk, SaidOk

LEMMA CallGivesUpKeeps ==
  ASSUME AgentInv, NEW t \in Threads, CallGivesUp(t)
  PROVE  AgentInv'
  BY Decides, NothingKeeps DEF CallGivesUp

LEMMA CallRaisesKeeps ==
  ASSUME AgentInv, NEW t \in Threads, CallRaises(t)
  PROVE  AgentInv'
<1>1. Running(t) /\ PutAlone(t, NoRun)
  BY Decides DEF CallRaises
<1>2. NoRun.pc # "insert"
  BY DEF NoRun
<1> QED
  BY <1>1, <1>2, AloneKeeps

\* A call that goes on is about the same email.
LEMMA CallGoesOn ==
  ASSUME AgentInv, NEW t \in Threads, At(t, "call") \/ At(t, "retry"), NEW p \in RunRecord,
         PutAlone(t, p), p.pc \in {"call", "retry"}, p.key = run[t].key, p.first = run[t].first,
         SameEpisode(run[t], p)
  PROVE  AgentInv'
<1>1. Running(t) /\ Deciding(run[t], agent.handled)
  BY Decides
<1>2. /\ \A m \in run[t].key.mails : ~Risky(m)
      /\ ~run[t].shared => \A m \in run[t].arrived \ run[t].key.mails : run[t].first[m] # "none"
  BY CallingSays
<1> DEFINE r == run[t]
<1> HIDE DEF r
<1>3. Deciding(r, agent.handled) /\ SameEpisode(r, p) /\ p.key = r.key /\ p.first = r.first
  BY <1>1 DEF r
<1>4. ModeOk(p) /\ p.mode = "llm" /\ p.shared = r.shared /\ p.arrived = r.arrived
  BY <1>3 DEF Deciding, SameEpisode, ModeOk, Calling
<1>5. SaidOk(p, agent.handled, Asked)
  BY <1>2, <1>3, <1>4 DEF r, Deciding, SaidOk, Keeping
<1>6. RunOk(p, agent.handled, Asked)
  BY <1>4, <1>5, AgentRunOk
<1> QED
  BY <1>1, <1>4, <1>6, AloneKeeps DEF r

LEMMA CallFailsKeeps ==
  ASSUME AgentInv, NEW t \in Threads, CallFails(t)
  PROVE  AgentInv'
<1> DEFINE r == run[t]
           p == [r EXCEPT !.pc = "retry"]
<1>1. At(t, "call") /\ PutAlone(t, IF MayRetry(r) THEN p ELSE Answered(r, Nothing))
  BY DEF CallFails
<1>2. Running(t) /\ Deciding(r, agent.handled)
  BY <1>1, Decides
<1>3. CASE MayRetry(r)
  <2>1. "retry" \in Places
    BY DEF Places
  <2> HIDE DEF r
  <2>2. p \in RunRecord /\ p.pc = "retry" /\ p.key = r.key /\ p.first = r.first /\ SameEpisode(r, p)
    BY <1>2, <2>1 DEF Deciding, RunRecord, SameEpisode
  <2> HIDE DEF p
  <2> QED
    BY <1>1, <1>3, <2>2, CallGoesOn DEF r
<1>4. CASE ~MayRetry(r)
  BY <1>1, <1>2, <1>4, NothingKeeps
<1> QED
  BY <1>3, <1>4

LEMMA RetryKeeps ==
  ASSUME AgentInv, NEW t \in Threads, Retry(t)
  PROVE  AgentInv'
<1> DEFINE r == run[t]
           size == IF setup.larger THEN "large" ELSE "small"
           p == [r EXCEPT !.pc = "call", !.retried = TRUE, !.model = size]
<1>1. At(t, "retry") /\ PutAlone(t, p)
  BY DEF Retry
<1>2. Running(t) /\ Deciding(r, agent.handled)
  BY <1>1, Decides
<1>3. "call" \in Places /\ size \in Sizes
  BY DEF Places, Sizes
<1> HIDE DEF r, size
<1>4. p \in RunRecord /\ p.pc = "call" /\ p.key = r.key /\ p.first = r.first /\ SameEpisode(r, p)
  BY <1>2, <1>3 DEF Deciding, RunRecord, SameEpisode
<1> HIDE DEF p
<1> QED
  BY <1>1, <1>4, CallGoesOn DEF r

----------------------------------------------------------------------------
(* InboxAgent: what a model answers, and how it is kept.                   *)

\* A run that keeps an answer that its guardrails passed.
LEMMA KeepingOk ==
  ASSUME NEW r, NEW done, Deciding(r, done), NEW b \in Acts, NEW done2, NEW asked,
         \A m \in r.key.mails : ~Risky(m),
         ~r.shared => \A m \in r.arrived \ r.key.mails : r.first[m] # "none",
         b.id \in r.key.mails => ~Facts[b.id].injected,
         setup.gated /\ b.type \in {"reply", "escalate"} => b \in asked,
         \A m \in done2 : m \in done \/ m = b.id
  PROVE  /\ RunOk([r EXCEPT !.pc = "evict", !.call = b], done2, asked)
         /\ [r EXCEPT !.pc = "evict", !.call = b].shared = r.shared
         /\ [r EXCEPT !.pc = "evict", !.call = b].pc # "insert"
<1> DEFINE p == [r EXCEPT !.pc = "evict", !.call = b]
<1>1. "evict" \in Places
  BY DEF Places
<1>2. /\ p \in RunRecord /\ p.pc = "evict" /\ p.call = b /\ p.key = r.key /\ p.mode = r.mode
      /\ p.shared = r.shared /\ p.step = r.step /\ p.limit = r.limit /\ p.first = r.first
      /\ p.arrived = r.arrived
  BY <1>1 DEF Deciding, RunRecord
<1> HIDE DEF p
<1>3. ModeOk(p) /\ p.mode = "llm"
  BY <1>2 DEF Deciding, ModeOk, Calling
<1>4. SaidOk(p, done2, asked)
  BY <1>2 DEF Deciding, SaidOk, Keeping
<1>5. RunOk(p, done2, asked)
  BY <1>2, <1>3, <1>4, AgentRunOk
<1> QED
  BY <1>2, <1>5 DEF p

LEMMA GuardedIs ==
  ASSUME NEW r \in RunRecord, NEW a \in Acts
  PROVE  Guarded(r, a) \in Acts
  BY DEF Guarded, Acts, Act, Treatments

LEMMA CallAnswersKeeps ==
  ASSUME AgentInv, NEW t \in Threads, CallAnswers(t)
  PROVE  AgentInv'
<1> DEFINE r == run[t]
           Gives(b) == [r EXCEPT !.pc = "evict", !.call = b]
<1>1. At(t, "call") /\ Kept /\ responses' = responses
  BY DEF CallAnswers
<1>2. Running(t) /\ Deciding(r, agent.handled) /\ r \in RunRecord
  BY <1>1, Decides DEF Deciding
<1>3. /\ \A m \in r.key.mails : ~Risky(m)
      /\ ~r.shared => \A m \in r.arrived \ r.key.mails : r.first[m] # "none"
  BY <1>1, CallingSays
<1>4. PICK answer \in Menu :
        LET a == Guarded(r, answer)
            asks == setup.gated /\ a.type \in {"escalate", "reply"} /\ Requested(a) = {}
        IN IF ~SafeEnough(r, a) THEN Put(t, Gives(Nothing)) /\ UNCHANGED <<agent, approvals>>
           ELSE IF asks
           THEN /\ approvals' = {q \in approvals : q.act # a} \union {[act |-> a, pending |-> TRUE]}
                /\ Put(t, Gives(Act("defer", a.id))) /\ UNCHANGED agent
           ELSE Handle(r, a.id) /\ Put(t, Gives(a)) /\ UNCHANGED approvals
  BY DEF CallAnswers
<1> DEFINE a == Guarded(r, answer)
           asks == setup.gated /\ a.type \in {"escalate", "reply"} /\ Requested(a) = {}
<1>5. a \in Acts
  <2>1. answer \in Acts
    BY AgentAssumption
  <2> QED
    BY <1>2, <2>1, GuardedIs
<1>6. /\ agent \in AgentRecord /\ approvals \subseteq [act : Acts, pending : BOOLEAN]
      /\ \A q \in approvals : q.act.type \in {"reply", "escalate"}
  BY DEF AgentInv
<1> HIDE DEF r, a
<1>7. CASE ~SafeEnough(r, a)
  <2>1. Put(t, Gives(Nothing)) /\ agent' = agent /\ approvals' = approvals
    BY <1>4, <1>7 DEF a
  <2>2. /\ Nothing \in Acts /\ Nothing.type \notin {"reply", "escalate"}
        /\ Nothing.id \notin r.key.mails
    BY <1>2, NothingIs DEF Nothing, Act, RunRecord, KeyRecord
  <2>3. Asked' = Asked
    BY <2>1 DEF Asked
  <2>4. /\ RunOk(Gives(Nothing), agent.handled, Asked) /\ Gives(Nothing).shared = r.shared
        /\ Gives(Nothing).pc # "insert"
    BY <1>2, <1>3, <2>2, KeepingOk
  <2> HIDE DEF Gives
  <2> QED
    BY <1>1, <1>2, <1>6, <2>1, <2>3, <2>4, StepKeeps DEF r
<1>8. CASE SafeEnough(r, a) /\ asks
  <2> DEFINE b == Act("defer", a.id)
  <2> DEFINE e == [act |-> a, pending |-> TRUE]
  <2>1. /\ e \in [act : Acts, pending : BOOLEAN] /\ e.act = a
        /\ e.act.type \in {"reply", "escalate"}
    BY <1>5, <1>8
  <2> HIDE DEF e
  <2>2. /\ Put(t, Gives(b)) /\ agent' = agent
        /\ approvals' = {q \in approvals : q.act # a} \union {e}
    BY <1>4, <1>8 DEF a, e
  <2>3. b \in Acts /\ b.type = "defer" /\ b.id = a.id
    BY <1>5 DEF Acts, Act, Treatments
  <2>4. b.id \in r.key.mails => ~Facts[b.id].injected
    BY <1>8, <2>3 DEF SafeEnough
  <2>5. /\ approvals' \subseteq [act : Acts, pending : BOOLEAN]
        /\ \A q \in approvals' : q.act.type \in {"reply", "escalate"}
    BY <1>6, <2>1, <2>2
  <2>6. Asked \subseteq Asked'
    <3> SUFFICES ASSUME NEW q \in approvals PROVE \E p \in approvals' : p.act = q.act
      BY DEF Asked
    <3>1. CASE q.act # a
      BY <2>2, <3>1
    <3>2. CASE q.act = a
      BY <2>1, <2>2, <3>2
    <3> QED
      BY <3>1, <3>2
  <2> HIDE DEF b
  <2>7. /\ RunOk(Gives(b), agent.handled, Asked') /\ Gives(b).shared = r.shared
        /\ Gives(b).pc # "insert"
    BY <1>2, <1>3, <2>3, <2>4, KeepingOk
  <2> HIDE DEF Gives
  <2> QED
    BY <1>1, <1>2, <1>6, <2>2, <2>5, <2>6, <2>7, StepKeeps DEF r
<1>9. CASE SafeEnough(r, a) /\ ~asks
  <2>1. Handle(r, a.id) /\ Put(t, Gives(a)) /\ approvals' = approvals
    BY <1>4, <1>9 DEF a
  <2>2. a.id \in r.key.mails => ~Facts[a.id].injected
    BY <1>9 DEF SafeEnough
  <2>3. setup.gated /\ a.type \in {"reply", "escalate"} => a \in Asked
    BY <1>9 DEF Requested, Asked
  <2>4. a.id \in Mails \union {NoMail}
    BY <1>5 DEF Acts
  <2>5. /\ agent' \in AgentRecord /\ agent'.number = agent.number
        /\ \A m \in agent'.handled : m \in agent.handled \/ m = a.id
    BY <1>6, <2>1, <2>4, HandleDoes
  <2>6. Asked' = Asked
    BY <2>1 DEF Asked
  <2>7. /\ RunOk(Gives(a), agent'.handled, Asked) /\ Gives(a).shared = r.shared
        /\ Gives(a).pc # "insert"
    BY <1>2, <1>3, <1>5, <2>2, <2>3, <2>5, KeepingOk
  <2> HIDE DEF Gives
  <2> QED
    BY <1>1, <1>2, <1>6, <2>1, <2>5, <2>6, <2>7, StepKeeps DEF r
<1> QED
  BY <1>7, <1>8, <1>9


\* A run that keeps its answer.
LEMMA KeepingSays ==
  ASSUME AgentInv, NEW t \in Threads, At(t, "evict") \/ At(t, "insert")
  PROVE  /\ Running(t) /\ run[t] \in RunRecord /\ ModeOk(run[t]) /\ run[t].mode = "llm"
         /\ run[t].pc \in Keeping /\ SaidOk(run[t], agent.handled, Asked)
<1>1. Running(t) /\ RunOk(run[t], agent.handled, Asked)
  BY RunningOk
<1>2. run[t].pc \in Keeping
  BY DEF At, Keeping
<1> QED
  BY <1>1, <1>2 DEF RunOk, ModeOk, Calling, Keeping

\* A thread that made room has a place for itself.
LEMMA RoomMade ==
  ASSUME RunsOk, CacheOk, RoomOk, NEW t \in Threads, NEW r, Put(t, r), r.key = run[t].key,
         responses' = IF run[t].key \in CachedKeys THEN responses ELSE Room
  PROVE  CacheOk' /\ RoomOk'
<1>1. \A u \in Threads : run'[u] = IF u = t THEN r ELSE run[u]
  BY DEF RunsOk, Put
<1>2. Thinned(Room) /\ Len(Room) <= MaxEntries - 1
  BY RoomThins
<1>3. CASE run[t].key \in CachedKeys
  <2>1. responses' = responses
    BY <1>3
  <2>2. CacheOk' /\ CachedKeys' = CachedKeys
    BY <2>1 DEF CacheOk, CachedKeys
  <2>3. Inserting' \subseteq Inserting \union {run[t].key}
    BY <1>1 DEF Inserting, At
  <2> QED
    BY <1>3, <2>2, <2>3, RoomKept
<1>4. CASE run[t].key \notin CachedKeys
  <2>1. responses' = Room /\ Thinned(responses')
    BY <1>2, <1>4
  <2>2. CacheOk'
    BY <2>1, ThinnedKeeps
  <2>3. IsFiniteSet(CachedKeys') /\ Cardinality(CachedKeys') = Len(Room)
    <3>1. /\ IsFiniteSet({responses'[i].key : i \in DOMAIN responses'})
          /\ Cardinality({responses'[i].key : i \in DOMAIN responses'}) = Len(responses')
      BY <2>1, KeysCounted DEF Thinned
    <3> QED
      BY <2>1, <3>1 DEF CachedKeys
  <2>4. IsFiniteSet(Inserting') /\ Cardinality(Inserting') <= Cardinality(Threads)
    <3>1. /\ IsFiniteSet({run'[u].key : u \in {w \in Threads : run'[w].pc = "insert"}})
          /\ Cardinality({run'[u].key : u \in {w \in Threads : run'[w].pc = "insert"}})
               <= Cardinality(Threads)
      BY InsertingFew
    <3> QED
      BY <3>1 DEF Inserting, At
  <2> DEFINE S == CachedKeys'
             T == Inserting'
  <2>5. /\ IsFiniteSet(S) /\ Cardinality(S) <= MaxEntries - 1
        /\ IsFiniteSet(T) /\ Cardinality(T) <= Cardinality(Threads)
    BY <1>2, <2>3, <2>4
  <2> HIDE DEF S, T
  <2>6. /\ IsFiniteSet(S \union T)
        /\ Cardinality(S \union T) = Cardinality(S) + Cardinality(T) - Cardinality(S \cap T)
    BY <2>5, FS_Union
  <2>7. IsFiniteSet(S \cap T)
    BY <2>5, FS_Subset
  <2>8. /\ Cardinality(S) \in Nat /\ Cardinality(T) \in Nat /\ Cardinality(S \cap T) \in Nat
        /\ Cardinality(Threads) \in Nat
    BY <2>5, <2>7, AgentAssumption, FS_CardinalityType
  <2>9. Cardinality(S \union T) <= MaxEntries + Cardinality(Threads) - 1
    BY <2>5, <2>6, <2>8, AgentAssumption
  <2> QED
    BY <2>2, <2>9 DEF RoomOk, S, T
<1> QED
  BY <1>3, <1>4

LEMMA EvictKeeps ==
  ASSUME AgentInv, NEW t \in Threads, Evict(t)
  PROVE  AgentInv'
<1> DEFINE r == run[t]
           p == [r EXCEPT !.pc = "insert"]
<1>1. /\ Put(t, p) /\ Kept /\ agent' = agent /\ approvals' = approvals
      /\ responses' = IF r.key \in CachedKeys THEN responses ELSE Room
  BY DEF Evict
<1>2. /\ Running(t) /\ r \in RunRecord /\ ModeOk(r) /\ r.mode = "llm" /\ r.pc \in Keeping
      /\ SaidOk(r, agent.handled, Asked)
  BY KeepingSays DEF Evict
<1>3. "insert" \in Places
  BY DEF Places
<1> HIDE DEF r
<1>4. /\ p \in RunRecord /\ p.pc = "insert" /\ p.key = r.key /\ p.call = r.call /\ p.mode = r.mode
      /\ p.shared = r.shared /\ p.step = r.step /\ p.limit = r.limit /\ p.first = r.first
      /\ p.arrived = r.arrived
  BY <1>2, <1>3 DEF RunRecord
<1> HIDE DEF p
<1>5. ModeOk(p)
  BY <1>2, <1>4 DEF ModeOk, Calling, Keeping
<1>6. SaidOk(p, agent.handled, Asked)
  BY <1>2, <1>4 DEF SaidOk, Keeping, Calling
<1>7. RunOk(p, agent.handled, Asked)
  BY <1>2, <1>4, <1>5, <1>6, AgentRunOk
<1>8. CacheOk' /\ RoomOk'
  <2>1. RunsOk /\ CacheOk /\ RoomOk /\ p.key = run[t].key
    BY <1>4 DEF AgentInv, r
  <2> QED
    BY <1>1, <2>1, RoomMade DEF r
<1> QED
  BY <1>1, <1>2, <1>4, <1>7, <1>8, CacheStepKeeps DEF r

\* A safe entry is added, or takes the place of that of its key.
LEMMA EntryKept ==
  ASSUME CacheOk, NEW e \in [key : KeyRecord, answer : Acts],
         e.answer.id \in e.key.mails => ~Facts[e.answer.id].injected,
         responses' = IF e.key \notin CachedKeys THEN Append(responses, e)
                      ELSE [i \in DOMAIN responses |->
                              IF responses[i].key = e.key THEN e ELSE responses[i]]
  PROVE  CacheOk' /\ CachedKeys' \subseteq CachedKeys \union {e.key}
<1> DEFINE Entry == [key : KeyRecord, answer : Acts]
           Safe(x) == x.answer.id \in x.key.mails => ~Facts[x.answer.id].injected
           D == DOMAIN responses
           n == Len(responses)
<1>1. responses \in Seq(Entry) /\ \A i \in D : Safe(responses[i])
  BY DEF CacheOk
<1>2. \A i, j \in D : responses[i].key = responses[j].key => i = j
  BY DEF CacheOk
<1>3. e \in Entry /\ Safe(e)
  OBVIOUS
<1> DEFINE Goal == /\ responses' \in Seq(Entry)
                   /\ \A i \in DOMAIN responses' : Safe(responses'[i])
                   /\ \A i, j \in DOMAIN responses' : responses'[i].key = responses'[j].key => i = j
                   /\ \A i \in DOMAIN responses' : responses'[i].key \in CachedKeys \union {e.key}
<1> SUFFICES Goal
  <2>1. ASSUME Goal PROVE CacheOk'
    BY <2>1 DEF CacheOk
  <2>2. ASSUME Goal PROVE CachedKeys' \subseteq CachedKeys \union {e.key}
    <3> SUFFICES ASSUME NEW k \in CachedKeys' PROVE k \in CachedKeys \union {e.key}
      OBVIOUS
    <3>1. PICK i \in DOMAIN responses' : k = responses'[i].key
      BY DEF CachedKeys
    <3> QED
      BY <2>2, <3>1
  <2> QED
    BY <2>1, <2>2
<1> HIDE DEF Entry, Safe
<1>4. CASE e.key \notin CachedKeys
  <2>1. /\ responses' \in Seq(Entry) /\ Len(responses') = n + 1
        /\ \A i \in 1 .. n : responses'[i] = responses[i]
        /\ responses'[n + 1] = e
    BY <1>1, <1>3, <1>4, AppendProperties
  <2>2. n \in Nat /\ D = 1 .. n /\ DOMAIN responses' = 1 .. n + 1
    BY <1>1, <2>1
  <2> HIDE DEF D, n
  <2>3. \A i \in 1 .. n + 1 : i \in D \/ i = n + 1
    BY <2>2
  <2>4. \A i \in D : responses[i].key # e.key /\ responses[i].key \in CachedKeys
    BY <1>4 DEF CachedKeys, D
  <2> QED
    BY <1>1, <1>2, <1>3, <2>1, <2>2, <2>3, <2>4
<1>5. CASE e.key \in CachedKeys
  <2>1. responses' = [i \in D |-> IF responses[i].key = e.key THEN e ELSE responses[i]]
    BY <1>5
  <2>2. /\ n \in Nat /\ D = 1 .. n /\ \A i \in D : responses[i] \in Entry
    BY <1>1
  <2> HIDE DEF D, n
  <2>3. \A i \in D : (IF responses[i].key = e.key THEN e ELSE responses[i]) \in Entry
    BY <1>3, <2>2
  <2>4. DOMAIN responses' = D /\ \A i \in D : responses'[i].key = responses[i].key
    BY <2>1
  <2>5. responses' \in Seq(Entry)
    <3>1. responses' \in [D -> Entry]
      BY <2>1, <2>3
    <3>2. responses' \in [1 .. n -> Entry] /\ n \in Nat
      BY <2>2, <3>1
    <3>3. responses' \in UNION {[1 .. k -> Entry] : k \in Nat}
      BY <3>2
    <3>4. Seq(Entry) = UNION {[1 .. k -> Entry] : k \in Nat}
      BY SeqDef
    <3> QED
      BY <3>3, <3>4
  <2>6. \A i \in D : responses[i].key \in CachedKeys
    BY DEF CachedKeys, D
  <2>7. \A i \in D : responses'[i] = e \/ responses'[i] = responses[i]
    BY <2>1
  <2> QED
    BY <1>1, <1>2, <1>3, <2>4, <2>5, <2>6, <2>7
<1> QED
  BY <1>4, <1>5

LEMMA InsertKeeps ==
  ASSUME AgentInv, NEW t \in Threads, Insert(t)
  PROVE  AgentInv'
<1> DEFINE r == run[t]
           e == [key |-> r.key, answer |-> r.call]
           p == Answered(r, r.call)
<1>1. /\ At(t, "insert") /\ Put(t, p) /\ Kept /\ agent' = agent /\ approvals' = approvals
      /\ responses' = IF e.key \notin CachedKeys THEN Append(responses, e)
                      ELSE [i \in DOMAIN responses |->
                              IF responses[i].key = e.key THEN e ELSE responses[i]]
  BY DEF Insert
<1>2. /\ Running(t) /\ r \in RunRecord /\ ModeOk(r) /\ r.mode = "llm" /\ r.pc \in Keeping
      /\ SaidOk(r, agent.handled, Asked)
  BY <1>1, KeepingSays
<1>3. r.key \in Inserting
  BY <1>1 DEF Inserting
<1>4. agent.handled \in SUBSET Mails /\ CacheOk /\ RoomOk /\ RunsOk
  BY NumbersAre DEF AgentInv
<1> HIDE DEF r
<1>5. e \in [key : KeyRecord, answer : Acts] /\ e.key = r.key
  BY <1>2 DEF RunRecord
<1>6. e.answer.id \in e.key.mails => ~Facts[e.answer.id].injected
  BY <1>2 DEF SaidOk
<1>7. CacheOk' /\ CachedKeys' \subseteq CachedKeys \union {r.key}
  <2> HIDE DEF e
  <2> QED
    BY <1>1, <1>4, <1>5, <1>6, EntryKept
<1>8. RunOk(p, agent.handled, Asked)
  <2>1. r.call \in Acts /\ r.pc \notin {"cut", "over"} /\ r.pc \in Calling
    BY <1>2 DEF RunRecord, Keeping, Calling
  <2>2. ~r.shared => \A m \in agent.handled : r.first[m] # "none" \/ m = r.call.id
    BY <1>2 DEF SaidOk
  <2>3. ~r.shared /\ r.call.id \in r.arrived /\ r.first[r.call.id] = "none" =>
          r.call.id \in r.key.mails
    BY <1>2, <2>1 DEF SaidOk
  <2>4. r.call.id \in r.key.mails => ~Risky(r.call.id) /\ ~Facts[r.call.id].injected
    BY <1>2, <2>1 DEF SaidOk
  <2>5. /\ r.shared => r.first = NothingSaid
        /\ \A m \in Mails : r.first[m] \notin {"none", "early"} =>
             IF Risky(m) THEN r.first[m] = "escalate" ELSE ~Facts[m].injected
    BY <1>2 DEF SaidOk
  <2> QED
    BY <1>2, <1>4, <2>1, <2>2, <2>3, <2>4, <2>5, AnswerOk
<1>9. p.shared = r.shared /\ p.pc # "insert"
  <2>1. NothingSaid \in Sayings /\ r.call \in Acts
    BY <1>2 DEF NothingSaid, Sayings, RunRecord
  <2> QED
    BY <1>2, <2>1, AnsweredDoes DEF SameEpisode
<1> HIDE DEF p, e
<1>10. Inserting' \subseteq Inserting
  BY <1>1, <1>4, <1>9, InsertingShrinks
<1>11. RoomOk'
  BY <1>3, <1>4, <1>7, <1>10, RoomKept
<1> QED
  BY <1>1, <1>2, <1>7, <1>8, <1>9, <1>11, CacheStepKeeps DEF r


LEMMA NewRunOk ==
  ASSUME NEW mode \in Modes, NEW shared \in BOOLEAN, shared => mode = "llm", NEW done, NEW asked,
         mode = "llm" => done = {}
  PROVE  /\ RunOk(NewRun(mode, shared), done, asked) /\ NewRun(mode, shared).shared = shared
         /\ NewRun(mode, shared).pc \notin {"insert", "idle"}
<1> DEFINE there == {m \in Mails : mode = "inbox" \/ Facts[m].start}
           since == IF \E m \in there : Risky(m) THEN 0 ELSE Never
           limit == IF shared THEN SharedSteps ELSE MaxSteps[mode]
           pc == First(mode)
           p == NewRun(mode, shared)
<1>1. /\ there \in SomeMails /\ since \in Moments /\ limit \in Nat /\ limit > 0 /\ pc \in Places
      /\ mode # "llm" => limit = MaxSteps[mode]
  BY AgentAssumption DEF SomeMails, Moments, Places, First
<1>2. /\ {} \in SomeMails /\ {} \in SomeActs /\ "none" \in Strategy /\ 1 \in Turns
      /\ NothingSaid \in Sayings /\ 0 \in Numbers /\ NoKey \in KeyRecord /\ Nothing \in Acts
      /\ "small" \in Sizes
  BY AgentAssumption, NothingIs DEF SomeMails, SomeActs, Strategy, Turns, NothingSaid, Sayings,
     Numbers, NoKey, KeyRecord, Sizes
<1>3. p = [pc |-> pc, mode |-> mode, shared |-> shared, step |-> 0, limit |-> limit,
           arrived |-> there, since |-> since, acts |-> {}, again |-> FALSE,
           did |-> FALSE, labels |-> {}, handled |-> {}, plan |-> "none",
           turn |-> 1, first |-> NothingSaid, number |-> 0, key |-> NoKey, call |-> Nothing,
           model |-> "small", retried |-> FALSE]
  BY DEF NewRun
<1>4. pc # "insert" /\ pc # "idle" /\ pc \notin {"cut", "over"} /\ (mode = "llm" <=> pc = "ask")
      /\ (mode = "stream" <=> pc = "stream") /\ pc \notin Calling /\ pc # "answered"
  BY DEF First, Calling
<1>5. (since = Never <=> \A m \in there : ~Risky(m)) /\ (since # Never => since = 0)
  BY DEF Never
<1>6. mode = "inbox" => there = Mails
  OBVIOUS
<1> HIDE DEF there, since, limit, pc
<1>7. /\ p \in RunRecord /\ p.pc = pc /\ p.mode = mode /\ p.shared = shared /\ p.step = 0
      /\ p.limit = limit /\ p.arrived = there /\ p.since = since /\ p.acts = {} /\ p.again = FALSE
      /\ p.did = FALSE /\ p.labels = {} /\ p.handled = {} /\ p.first = NothingSaid
  BY <1>1, <1>2, <1>3 DEF RunRecord
<1> HIDE DEF p
<1>8. ModeOk(p)
  BY <1>1, <1>4, <1>7 DEF ModeOk
<1>9. SaidOk(p, done, asked)
  <2>1. p.pc \notin Keeping
    BY <1>4, <1>7 DEF Keeping, Calling
  <2> QED
    BY <1>4, <1>7, <2>1 DEF SaidOk, NothingSaid
<1>10. WorkOk(p)
  BY <1>4, <1>6, <1>7, FS_EmptySet DEF WorkOk
<1>11. mode \in {"hybrid", "stream"} => PlannerOk(p)
  <2>1. \A s \in 0 .. 0 - 1 : FALSE
    OBVIOUS
  <2> QED
    BY <1>5, <1>7, <2>1 DEF PlannerOk
<1> QED
  BY <1>4, <1>7, <1>8, <1>9, <1>10, <1>11 DEF RunOk, p

\* A run that another disturbs.
LEMMA DisturbedOk ==
  ASSUME NEW r, NEW done, NEW asked, RunOk(r, done, asked), r.mode = "llm", NEW done2
  PROVE  /\ RunOk(Disturbed(r), done2, asked) /\ Disturbed(r).shared = TRUE
         /\ Disturbed(r).pc = r.pc /\ Disturbed(r).key = r.key
<1> DEFINE p == Disturbed(r)
<1>1. NothingSaid \in Sayings
  BY DEF NothingSaid, Sayings
<1>2. r \in RunRecord /\ ModeOk(r) /\ SaidOk(r, done, asked)
  BY DEF RunOk
<1>3. /\ p \in RunRecord /\ p.pc = r.pc /\ p.mode = r.mode /\ p.shared = TRUE /\ p.step = r.step
      /\ p.limit = r.limit /\ p.first = NothingSaid /\ p.key = r.key /\ p.call = r.call
      /\ p.arrived = r.arrived
  BY <1>1, <1>2 DEF Disturbed, RunRecord
<1> HIDE DEF p
<1>4. ModeOk(p)
  BY <1>2, <1>3 DEF ModeOk
<1>5. SaidOk(p, done2, asked)
  BY <1>2, <1>3 DEF SaidOk, NothingSaid
<1>6. RunOk(p, done2, asked)
  BY <1>3, <1>4, <1>5, AgentRunOk
<1> QED
  BY <1>3, <1>6 DEF p

LEMMA StartKeeps ==
  ASSUME AgentInv, NEW t \in Threads, NEW mode \in Modes, Start(t, mode)
  PROVE  AgentInv'
<1> DEFINE others == {u \in Threads \ {t} : Running(u)}
           shared == others # {}
           r == NewRun(mode, shared)
<1>1. /\ ~Running(t) /\ runs < MaxRuns /\ runs' = runs + 1 /\ setup' = setup
      /\ responses' = responses /\ approvals' = approvals
      /\ \A u \in others : run[u].mode = "llm" /\ mode = "llm"
      /\ agent' = IF mode = "llm" THEN Fresh(agent.number + 1) ELSE agent
      /\ run' = [u \in Threads |-> IF u = t THEN r
                                   ELSE IF Running(u) THEN Disturbed(run[u]) ELSE run[u]]
  BY DEF Start, ResetAgent
<1>2. /\ runs' \in 0 .. MaxRuns /\ agent' \in AgentRecord /\ agent'.number <= runs'
      /\ mode = "llm" => agent'.handled = {}
  <2>1. /\ agent.number \in Nat /\ agent.number <= runs /\ runs \in 0 .. MaxRuns
        /\ agent \in AgentRecord
    BY DEF AgentInv, AgentRecord
  <2>2. agent.number + 1 \in 0 .. MaxRuns /\ runs + 1 \in 0 .. MaxRuns
    BY <1>1, <2>1, AgentAssumption
  <2>3. Fresh(agent.number + 1) \in AgentRecord
    BY <2>2 DEF Fresh, AgentRecord
  <2>4. Fresh(agent.number + 1).handled = {} /\ Fresh(agent.number + 1).number = agent.number + 1
    BY DEF Fresh
  <2>5. agent'.number = agent.number + 1 \/ agent'.number = agent.number
    BY <1>1, <2>4
  <2>6. agent'.number <= runs + 1
    BY <2>1, <2>5
  <2> QED
    BY <1>1, <2>1, <2>2, <2>3, <2>4, <2>6
<1>3. Asked' = Asked /\ CachedKeys' = CachedKeys
  BY <1>1 DEF Asked, CachedKeys
<1>4. RunsOk
  BY DEF AgentInv
<1>5. /\ RunOk(r, agent'.handled, Asked) /\ r.shared = shared /\ r.pc \notin {"insert", "idle"}
  <2>1. shared => mode = "llm"
    BY <1>1
  <2>2. shared \in BOOLEAN
    OBVIOUS
  <2> QED
    BY <1>2, <2>1, <2>2, NewRunOk
<1>6. ASSUME NEW u \in Threads \ {t}, Running(u)
      PROVE  /\ RunOk(Disturbed(run[u]), agent'.handled, Asked) /\ Disturbed(run[u]).shared = TRUE
             /\ Disturbed(run[u]).pc = run[u].pc /\ Disturbed(run[u]).key = run[u].key
  <2>1. RunOk(run[u], agent.handled, Asked)
    BY <1>4, <1>6 DEF RunsOk
  <2>2. run[u].mode = "llm"
    BY <1>1, <1>6
  <2> QED
    BY <2>1, <2>2, DisturbedOk
<1>7. ASSUME NEW u \in Threads
      PROVE  run'[u] = IF u = t THEN r ELSE IF Running(u) THEN Disturbed(run[u]) ELSE run[u]
  BY <1>1
<1>8. Running(t)' /\ \A u \in Threads \ {t} : Running(u)' <=> Running(u)
  BY <1>5, <1>6, <1>7 DEF Running, At
<1> HIDE DEF r
<1>9. RunsOk'
  <2>1. ASSUME NEW u \in Threads
        PROVE  run'[u] \in RunRecord \union {NoRun}
    BY <1>4, <1>5, <1>6, <1>7 DEF RunsOk, RunOk
  <2>2. run' \in [Threads -> RunRecord \union {NoRun}]
    <3>1. run' = [u \in Threads |-> run'[u]]
      BY <1>1
    <3> QED
      BY <2>1, <3>1
  <2>3. ASSUME NEW u \in Threads, Running(u)'
        PROVE  RunOk(run'[u], agent'.handled, Asked)
    BY <1>5, <1>6, <1>7, <1>8, <2>3
  <2>4. (\A u \in Threads : Running(u) => RunOk(run[u], agent.handled, Asked))'
    BY <1>1, <1>3, <2>3 DEF RunOk, Followed, SaidOk
  <2>5. ASSUME NEW u \in Threads, NEW w \in Threads, Running(u)', Running(w)', u # w
        PROVE  run'[u].shared
    <3>1. CASE u = t
      <4>1. w \in others
        BY <1>8, <2>5, <3>1
      <4> QED
        BY <1>5, <1>7, <3>1, <4>1
    <3>2. CASE u # t
      BY <1>6, <1>7, <1>8, <2>5, <3>2
    <3> QED
      BY <3>1, <3>2
  <2>6. (\A u, w \in Threads : Running(u) /\ Running(w) /\ u # w => run[u].shared)'
    BY <2>5
  <2> QED
    BY <2>2, <2>4, <2>6 DEF RunsOk
<1>10. Inserting' \subseteq Inserting
  <2>1. ASSUME NEW u \in Threads, At(u, "insert")'
        PROVE  At(u, "insert") /\ run'[u].key = run[u].key
    <3>1. u # t
      BY <1>5, <1>7, <2>1 DEF At
    <3>2. Running(u)
      BY <1>8, <2>1, <3>1 DEF Running, At
    <3> QED
      BY <1>6, <1>7, <2>1, <3>1, <3>2 DEF At
  <2> QED
    BY <2>1 DEF Inserting
<1>11. CacheOk /\ RoomOk
  BY DEF AgentInv
<1>12. RoomOk'
  BY <1>3, <1>10, <1>11, RoomKept
<1> QED
  BY <1>1, <1>2, <1>9, <1>11, <1>12 DEF AgentInv, CacheOk

LEMMA DecideKeeps ==
  ASSUME AgentInv, NEW q \in approvals, Decide(q)
  PROVE  AgentInv'
<1> DEFINE d == [q EXCEPT !.pending = FALSE]
<1>1. /\ approvals' = (approvals \ {q}) \union {d} /\ setup' = setup /\ runs' = runs
      /\ agent' = agent /\ responses' = responses /\ run' = run
  BY DEF Decide, Kept
<1>2. /\ approvals \subseteq [act : Acts, pending : BOOLEAN]
      /\ \A p \in approvals : p.act.type \in {"reply", "escalate"}
  BY DEF AgentInv
<1>3. d \in [act : Acts, pending : BOOLEAN] /\ d.act = q.act
  BY <1>2
<1> HIDE DEF d
<1>4. Asked' = Asked
  BY <1>1, <1>3 DEF Asked
<1>5. /\ approvals' \subseteq [act : Acts, pending : BOOLEAN]
      /\ \A p \in approvals' : p.act.type \in {"reply", "escalate"}
  BY <1>1, <1>2, <1>3
<1>6. RunsOk'
  BY <1>1, <1>4 DEF AgentInv, RunsOk, Running, At, RunOk, Followed, SaidOk
<1>7. Inserting' = Inserting /\ CachedKeys' = CachedKeys
  BY <1>1 DEF Inserting, At, CachedKeys
<1> QED
  BY <1>1, <1>5, <1>6, <1>7 DEF AgentInv, CacheOk, RoomOk


LEMMA AgentStarts == AgentInit => AgentInv
<1> SUFFICES ASSUME AgentInit PROVE AgentInv
  OBVIOUS
<1>1. /\ setup \in Setups /\ agent = Fresh(0) /\ responses = << >> /\ approvals = {}
      /\ run = [t \in Threads |-> NoRun] /\ runs = 0
  BY DEF AgentInit
<1>2. runs \in 0 .. MaxRuns /\ agent \in AgentRecord /\ agent.number <= runs
  BY <1>1, AgentAssumption DEF Fresh, AgentRecord
<1>3. \A t \in Threads : ~Running(t)
  BY <1>1 DEF Running, At, NoRun
<1>4. RunsOk
  BY <1>1, <1>3 DEF RunsOk
<1>5. CacheOk
  BY <1>1 DEF CacheOk
<1>6. RoomOk
  <2>1. CachedKeys = {}
    BY <1>1 DEF CachedKeys
  <2>2. Inserting = {}
    BY <1>3 DEF Inserting, Running, At
  <2>3. Cardinality(CachedKeys \union Inserting) = 0
    BY <2>1, <2>2, FS_EmptySet
  <2>4. Cardinality(Threads) \in Nat
    BY AgentAssumption, FS_CardinalityType
  <2> QED
    BY <2>3, <2>4, AgentAssumption DEF RoomOk
<1> QED
  BY <1>1, <1>2, <1>4, <1>5, <1>6 DEF AgentInv

LEMMA AgentStays == AgentInv /\ [AgentNext]_agentVars => AgentInv'
<1> SUFFICES ASSUME AgentInv, [AgentNext]_agentVars PROVE AgentInv'
  OBVIOUS
<1>1. ASSUME NEW t \in Threads, Continue(t)
      PROVE  AgentInv'
  <2>1. CASE PolicyStep(t)
    BY <2>1, PolicyStepKeeps
  <2>2. CASE StreamStep(t)
    BY <2>2, StreamStepKeeps
  <2>3. CASE Grade(t)
    BY <2>3, GradeKeeps
  <2>4. CASE PlayAnswer(t)
    BY <2>4, PlayAnswerKeeps
  <2>5. CASE AskFirst(t)
    BY <2>5, AskFirstKeeps
  <2>6. CASE AskNothing(t)
    BY <2>6, AskNothingKeeps
  <2>7. CASE AskRisky(t)
    BY <2>7, AskRiskyKeeps
  <2>8. CASE AskCache(t)
    BY <2>8, AskCacheKeeps
  <2>9. CASE AskModel(t)
    BY <2>9, AskModelKeeps
  <2>10. CASE CallFails(t)
    BY <2>10, CallFailsKeeps
  <2>11. CASE Retry(t)
    BY <2>11, RetryKeeps
  <2>12. CASE CallGivesUp(t)
    BY <2>12, CallGivesUpKeeps
  <2>13. CASE CallRaises(t)
    BY <2>13, CallRaisesKeeps
  <2>14. CASE CallAnswers(t)
    BY <2>14, CallAnswersKeeps
  <2>15. CASE Evict(t)
    BY <2>15, EvictKeeps
  <2>16. CASE Insert(t)
    BY <2>16, InsertKeeps
  <2> QED
    BY <1>1, <2>1, <2>2, <2>3, <2>4, <2>5, <2>6, <2>7, <2>8, <2>9, <2>10, <2>11, <2>12, <2>13,
       <2>14, <2>15, <2>16 DEF Continue
<1>2. ASSUME NEW t \in Threads, NEW mode \in Modes, Start(t, mode)
      PROVE  AgentInv'
  BY <1>2, StartKeeps
<1>3. ASSUME NEW q \in approvals, Decide(q)
      PROVE  AgentInv'
  BY <1>3, DecideKeeps
<1>4. CASE UNCHANGED agentVars
  <2>1. /\ setup' = setup /\ agent' = agent /\ responses' = responses /\ approvals' = approvals
        /\ run' = run /\ runs' = runs
    BY <1>4 DEF agentVars
  <2>2. Asked' = Asked /\ Inserting' = Inserting /\ CachedKeys' = CachedKeys
    BY <2>1 DEF Asked, Inserting, CachedKeys, At
  <2>3. RunsOk'
    BY <2>1, <2>2 DEF AgentInv, RunsOk, Running, At, RunOk, Followed, SaidOk
  <2> QED
    BY <2>1, <2>2, <2>3 DEF AgentInv, CacheOk, RoomOk
<1> QED
  BY <1>1, <1>2, <1>3, <1>4 DEF AgentNext

\* However the runs interleave, the agent's promises hold.
LEMMA AgentImplies == AgentInv => DecisionsHold /\ InboxIsWorked
<1> SUFFICES ASSUME AgentInv PROVE DecisionsHold /\ InboxIsWorked
  OBVIOUS
<1>1. /\ setup \in Setups /\ runs \in 0 .. MaxRuns /\ agent \in AgentRecord
      /\ approvals \subseteq [act : Acts, pending : BOOLEAN]
      /\ \A q \in approvals : q.act.type \in {"reply", "escalate"}
      /\ RunsOk /\ CacheOk /\ RoomOk
  BY DEF AgentInv
<1>2. ASSUME NEW t \in Threads, Running(t)
      PROVE  /\ run[t] \in RunRecord /\ ModeOk(run[t]) /\ SaidOk(run[t], agent.handled, Asked)
             /\ Followed(run[t]) => WorkOk(run[t])
             /\ run[t].mode \in {"hybrid", "stream"} /\ setup.provider => PlannerOk(run[t])
  BY <1>1, <1>2 DEF RunsOk, RunOk
<1>3. AgentTypeOK
  BY <1>1, <1>2 DEF AgentTypeOK, RunsOk, CacheOk, AgentRecord, ModeOk
<1>4. GuardrailsHold
  BY <1>2 DEF GuardrailsHold, SaidOk
<1>5. PutForward
  <2> SUFFICES ASSUME setup.gated, NEW t \in Threads, run[t].pc \in {"evict", "insert"},
                      run[t].call.type \in {"reply", "escalate"}
               PROVE  run[t].call \in Asked
    BY DEF PutForward, Asked
  <2>1. Running(t) /\ run[t].pc \in Keeping
    BY DEF Running, At, Keeping
  <2> QED
    BY <1>2, <2>1 DEF SaidOk
<1>6. EscalatedInTime
  BY <1>2, PlannerInTime DEF EscalatedInTime, Escalated
<1>7. CacheBounded
  <2>1. IsFiniteSet(CachedKeys \union Inserting)
    BY <1>1, KeysFinite
  <2>2. /\ IsFiniteSet(CachedKeys)
        /\ Cardinality(CachedKeys) <= Cardinality(CachedKeys \union Inserting)
    BY <2>1, FS_Subset
  <2>3. Cardinality(CachedKeys) = Len(responses)
    BY <1>1, KeysCounted DEF CacheOk, CachedKeys
  <2>4. /\ Cardinality(CachedKeys) \in Nat /\ Cardinality(CachedKeys \union Inserting) \in Nat
        /\ Cardinality(Threads) \in Nat
    BY <2>1, <2>2, AgentAssumption, FS_CardinalityType
  <2> QED
    BY <1>1, <2>2, <2>3, <2>4, AgentAssumption DEF RoomOk, CacheBounded
<1>8. InboxIsWorked
  <2> SUFFICES ASSUME NEW t \in Threads, Running(t), Followed(run[t])
               PROVE  /\ ~run[t].again /\ (run[t].mode = "inbox" => ~At(t, "cut"))
                      /\ At(t, "over") =>
                           /\ run[t].arrived = Mails
                           /\ \A m \in Mails : /\ Act("classify", m) \in run[t].acts
                                               /\ \/ Facts[m].label = "spam"
                                                  \/ \E k \in Treatments : Act(k, m) \in run[t].acts
    BY DEF InboxIsWorked
  <2>1. WorkOk(run[t])
    BY <1>2
  <2> QED
    BY <2>1 DEF WorkOk, At
<1> QED
  BY <1>3, <1>4, <1>5, <1>6, <1>7, <1>8 DEF DecisionsHold

\* What the runs remember, what the cache holds and what was put before people stay
\* right whichever thread goes on next (get_action, _cache_response, agent.py:220-431).
THEOREM AgentSafe == AgentSpec => []AgentInv
<1>1. AgentSpec => AgentInit /\ [][AgentNext]_agentVars
  BY DEF AgentSpec
<1> QED
  BY <1>1, AgentStarts, AgentStays, PTL

\* The guardrails, the approval gate, the planner's interval and the size of the cache
\* bound what models answer, whatever they answer and however many runs share the agent
\* (_apply_guardrails, _build_ai_response, HybridPolicy, _cache_response).
THEOREM AgentDecides == AgentSpec => []DecisionsHold
  BY AgentSafe, AgentImplies, PTL

\* A policy that decides by rules labels all email, works it once and stops when all is
\* worked, and a real inbox is never cut off (BaselinePolicy, run_pipeline).
THEOREM AgentWorks == AgentSpec => []InboxIsWorked
  BY AgentSafe, AgentImplies, PTL
=============================================================================
