----------------------------- MODULE DraftBudget -----------------------------
(***************************************************************************)
(* What a sync pays a language model for (app/saas/sync_service.py,        *)
(* app/saas/llm_budget.py, app/llm/drafter.py, app/llm/verifier.py,        *)
(* app/llm/draft_cache.py).  A held action costs up to two calls, one to   *)
(* write its text and one to check it.  Each sync reads the month's spend  *)
(* once and meters itself in memory from there, while the ledger and the   *)
(* cache of drafts are shared by every sync of the process.                *)
(***************************************************************************)
EXTENDS Naturals, FiniteSets

CONSTANTS
  Syncs,       \* threads that may sync the workspace at one time
  Messages,    \* messages whose action is held; each stands for its cache key
  None,        \* no message in hand
  Authored,    \* those that have a text without the model
  Limit,       \* llm_monthly_budget_usd; 0 is no ceiling
  Costs,       \* what one call may cost
  MaxCost,     \* the dearest call
  MaxFaults    \* bound: failed ledger reads of a thread in a month, and crashes or aborted syncs

ASSUME BudgetAssumption ==
  /\ Authored \subseteq Messages /\ None \notin Messages
  /\ Limit \in Nat /\ Costs \subseteq Nat /\ MaxCost \in Nat
  /\ MaxFaults \in Nat
  /\ \A c \in Costs : c <= MaxCost

VARIABLES
  sync,       \* the local variables of each sync
  ledger,     \* the sum of this month's rows of saas_llm_usage
  queued,     \* messages with a live row in the approval queue
  mem, disk,  \* keys in DraftCache._entries, and in its file
  dirty,      \* DraftCache._dirty
  faults,     \* crashes and aborted syncs so far
  share,      \* history: the part of ledger that each thread wrote
  blind,      \* history: ledger reads of this month that failed
  paid,       \* history: drafts bought since the process started
  raced       \* history: the cache was changed or saved while a thread was saving it

vars == <<sync, ledger, queued, mem, disk, dirty, faults, share, blind, paid, raced>>
store == <<ledger, share, blind>>
cache == <<mem, disk, dirty, paid, raced>>

Steps == {"idle", "next", "draft", "bill", "verify", "charge", "queue", "save"}

SyncState == [pc : Steps, live : BOOLEAN, todo : SUBSET Messages,
              msg : Messages \union {None}, spent : Nat, cost : Nat,
              snap : SUBSET Messages]

Idle == [pc |-> "idle", live |-> FALSE, todo |-> {}, msg |-> None, spent |-> 0,
         cost |-> 0, snap |-> {}]

----------------------------------------------------------------------------
(* LlmBudget.                                                              *)

enforced == Limit > 0

\* LlmBudget.allows
Allows(s) == enforced => sync[s].spent < Limit

\* _read_spend: the ledger, or 0 when it cannot be read.
ReadSpend(s, spend) ==
  \/ spend = (IF enforced THEN ledger ELSE 0) /\ UNCHANGED blind
  \/ enforced /\ blind[s] < MaxFaults /\ spend = 0 /\ blind' = [blind EXCEPT ![s] = @ + 1]

\* LlmUsageRepository.record; a write that fails is logged and dropped.
RecordUsage(s) ==
  \/ /\ ledger' = ledger + sync[s].cost
     /\ share' = [share EXCEPT ![s] = @ + sync[s].cost]
  \/ UNCHANGED <<ledger, share>>

----------------------------------------------------------------------------
(* One sync.                                                               *)

\* Mutant: the sync starts from nothing whatever the month has cost.
BeginUnread(s) ==
  /\ sync[s].pc = "idle"
  /\ \E live \in BOOLEAN :
       sync' = [sync EXCEPT ![s] = [Idle EXCEPT !.pc = "next", !.live = live, !.todo = Messages]]
  /\ UNCHANGED <<store, queued, cache, faults>>

\* _sync up to the loop: live_llm is off by configuration or for a sandbox, and
\* then there is no budget and no call.
Begin(s) ==
  /\ sync[s].pc = "idle"
  /\ \E live \in BOOLEAN, spend \in {0, ledger} :
       /\ IF live THEN ReadSpend(s, spend) ELSE spend = 0 /\ UNCHANGED blind
       /\ sync' = [sync EXCEPT ![s] = [Idle EXCEPT !.pc = "next", !.live = live,
                                         !.todo = Messages, !.spent = spend]]
  /\ UNCHANGED <<ledger, share, queued, cache, faults>>

\* Where a message goes that gets no text from the model.
Fallback(m) == IF m \in Authored THEN "verify" ELSE "queue"

\* Mutant: a message the budget has no call for waits for the next month.
TakeWithinBudget(s, m) ==
  /\ sync[s].pc = "next" /\ m \in sync[s].todo
  /\ sync' = [sync EXCEPT
       ![s].todo = @ \ {m}, ![s].msg = m,
       ![s].pc = IF m \in queued \/ (sync[s].live /\ ~Allows(s)) THEN "next"
                 ELSE IF m \in mem THEN "verify"
                 ELSE IF sync[s].live THEN "draft" ELSE Fallback(m)]
  /\ UNCHANGED <<store, queued, cache, faults>>

\* The loop of _sync and resolve_draft: a message with a live row is skipped, a
\* cached draft is used, and the model is asked if the budget allows it.
Take(s, m) ==
  /\ sync[s].pc = "next" /\ m \in sync[s].todo
  /\ sync' = [sync EXCEPT
       ![s].todo = @ \ {m}, ![s].msg = IF m \in queued THEN None ELSE m,
       ![s].pc = IF m \in queued THEN "next"
                 ELSE IF m \in mem THEN "verify"
                 ELSE IF sync[s].live /\ Allows(s) THEN "draft" ELSE Fallback(m)]
  /\ UNCHANGED <<store, queued, cache, faults>>

\* EmailDrafter.draft returns None: no provider, an injection pattern, a call that
\* raised, or an answer that is no JSON, has no body, or is risky - which the vendor
\* charges for and nobody records.
DraftFails(s) ==
  /\ sync[s].pc = "draft"
  /\ sync' = [sync EXCEPT ![s].pc = Fallback(sync[s].msg)]
  /\ UNCHANGED <<store, queued, cache, faults>>

\* A usable draft.  LlmBudget.record adds to the sync's own total first.
DraftWritten(s) ==
  /\ sync[s].pc = "draft"
  /\ \E c \in Costs :
       sync' = [sync EXCEPT ![s].pc = "bill", ![s].cost = c,
                            ![s].spent = @ + c]
  /\ paid' = [paid EXCEPT ![sync[s].msg][s] = @ + 1]
  /\ UNCHANGED <<store, queued, mem, disk, dirty, raced, faults>>

SomeoneElseSaving(s) == \E t \in Syncs \ {s} : sync[t].pc = "save"

\* Mutant: the draft is not kept.
BillUncached(s) ==
  /\ sync[s].pc = "bill"
  /\ RecordUsage(s)
  /\ sync' = [sync EXCEPT ![s].pc = "verify", ![s].cost = 0]
  /\ UNCHANGED <<blind, queued, cache, faults>>

\* The row in the ledger, then DraftCache.put.
Bill(s) ==
  /\ sync[s].pc = "bill"
  /\ RecordUsage(s)
  /\ mem' = mem \union {sync[s].msg} /\ dirty' = TRUE
  /\ raced' = (raced \/ SomeoneElseSaving(s))
  /\ sync' = [sync EXCEPT ![s].pc = "verify", ![s].cost = 0]
  /\ UNCHANGED <<blind, queued, disk, paid, faults>>

\* verify_draft with the checks that cost nothing: no live model, no budget, or a
\* model check that raised.
VerifyFree(s) ==
  /\ sync[s].pc = "verify"
  /\ sync' = [sync EXCEPT ![s].pc = "queue"]
  /\ UNCHANGED <<store, queued, cache, faults>>

\* verify_draft with _model_findings; an answer of no use is billed too.
VerifyPaid(s) ==
  /\ sync[s].pc = "verify" /\ sync[s].live /\ Allows(s)
  /\ \E c \in Costs :
       sync' = [sync EXCEPT ![s].pc = "charge", ![s].cost = c,
                            ![s].spent = @ + c]
  /\ UNCHANGED <<store, queued, cache, faults>>

ChargeVerify(s) ==
  /\ sync[s].pc = "charge"
  /\ RecordUsage(s)
  /\ sync' = [sync EXCEPT ![s].pc = "queue", ![s].cost = 0]
  /\ UNCHANGED <<blind, queued, cache, faults>>

\* actions.create
Queue(s) ==
  /\ sync[s].pc = "queue"
  /\ queued' = queued \union {sync[s].msg}
  /\ sync' = [sync EXCEPT ![s].pc = "next", ![s].msg = None]
  /\ UNCHANGED <<store, cache, faults>>

\* The end of _sync: nothing to save.
Finish(s) ==
  /\ sync[s].pc = "next" /\ sync[s].todo = {} /\ ~(sync[s].live /\ dirty)
  /\ sync' = [sync EXCEPT ![s] = Idle]
  /\ UNCHANGED <<store, queued, cache, faults>>

\* DraftCache.save copies the entries and opens the file, which empties it.
SaveOpen(s) ==
  /\ sync[s].pc = "next" /\ sync[s].todo = {} /\ sync[s].live /\ dirty
  /\ sync' = [sync EXCEPT ![s].pc = "save", ![s].snap = mem]
  /\ disk' = {} /\ raced' = (raced \/ SomeoneElseSaving(s))
  /\ UNCHANGED <<store, queued, mem, dirty, paid, faults>>

\* The file cannot be opened.
SaveRefused(s) ==
  /\ sync[s].pc = "next" /\ sync[s].todo = {} /\ sync[s].live /\ dirty
  /\ sync' = [sync EXCEPT ![s] = Idle]
  /\ UNCHANGED <<store, queued, cache, faults>>

\* Mutant: the flag is cleared whether or not the file was written.
SaveWriteUnchecked(s) ==
  /\ sync[s].pc = "save"
  /\ disk' \in {sync[s].snap, {}} /\ dirty' = FALSE
  /\ sync' = [sync EXCEPT ![s] = Idle]
  /\ UNCHANGED <<store, queued, mem, paid, raced, faults>>

\* The file is written, or cannot be (OSError is caught by _sync).
SaveWrite(s) ==
  /\ sync[s].pc = "save"
  /\ \/ disk' = sync[s].snap /\ dirty' = FALSE
     \/ UNCHANGED <<disk, dirty>>
  /\ sync' = [sync EXCEPT ![s] = Idle]
  /\ UNCHANGED <<store, queued, mem, paid, raced, faults>>

\* A database error leaves _sync between two messages, without a save.
Abort(s) ==
  /\ sync[s].pc \in {"next", "queue"} /\ faults < MaxFaults
  /\ sync' = [sync EXCEPT ![s] = Idle] /\ faults' = faults + 1
  /\ UNCHANGED <<store, queued, cache>>

----------------------------------------------------------------------------
(* Around the syncs.                                                       *)

\* The process restarts; the cache is read from its file, an unreadable one as empty.
Crash ==
  /\ faults < MaxFaults /\ faults' = faults + 1
  /\ sync' = [s \in Syncs |-> Idle]
  /\ mem' = disk /\ dirty' = FALSE /\ raced' = FALSE
  /\ paid' = [m \in Messages |-> [s \in Syncs |-> 0]]
  /\ UNCHANGED <<store, queued, disk>>

\* month_to_date counts from the first of the month.
NextMonth ==
  /\ ledger' = 0
  /\ share' = [s \in Syncs |-> 0] /\ blind' = [s \in Syncs |-> 0]
  /\ UNCHANGED <<sync, queued, cache, faults>>

\* A reviewer's rejection: the message may be proposed again.
Reject(m) ==
  /\ m \in queued /\ queued' = queued \ {m}
  /\ UNCHANGED <<sync, store, cache, faults>>

Init ==
  /\ sync = [s \in Syncs |-> Idle]
  /\ ledger = 0 /\ share = [s \in Syncs |-> 0] /\ blind = [s \in Syncs |-> 0]
  /\ queued = {} /\ mem = {} /\ disk = {} /\ dirty = FALSE /\ raced = FALSE
  /\ paid = [m \in Messages |-> [s \in Syncs |-> 0]] /\ faults = 0

Work(s) ==
  \/ \E m \in Messages : Take(s, m)
  \/ DraftFails(s) \/ DraftWritten(s) \/ Bill(s)
  \/ VerifyFree(s) \/ VerifyPaid(s) \/ ChargeVerify(s) \/ Queue(s)
  \/ Finish(s) \/ SaveOpen(s) \/ SaveRefused(s) \/ SaveWrite(s)

Next ==
  \/ \E s \in Syncs : Begin(s) \/ Work(s) \/ Abort(s)
  \/ \E m \in Messages : Reject(m)
  \/ Crash \/ NextMonth

Spec == Init /\ [][Next]_vars

(* The worker syncs a mailbox again when it is due, and a sync runs on.     *)
FairSpec == Spec /\ \A s \in Syncs : WF_vars(Begin(s)) /\ WF_vars(Work(s))

----------------------------------------------------------------------------
\* The type invariant of the syncs, the ledger and the draft cache.
TypeOK ==
  /\ sync \in [Syncs -> SyncState]
  /\ ledger \in Nat /\ share \in [Syncs -> Nat] /\ blind \in [Syncs -> Nat]
  /\ queued \subseteq Messages /\ mem \subseteq Messages /\ disk \subseteq Messages
  /\ dirty \in BOOLEAN /\ raced \in BOOLEAN /\ faults \in 0..MaxFaults
  /\ paid \in [Messages -> [Syncs -> Nat]]

\* One call past the ceiling.
Ceiling == Limit + MaxCost - 1

\* What one thread's syncs bill in a month overshoots the limit by at most the
\* last call, however many syncs it runs, what other threads spend meanwhile, and
\* however often the process restarts; only a ledger read that failed
\* (llm_budget.py:76, "assuming 0") grants the limit once more.  So n threads
\* bill at most n times that.
MonthBounded == enforced => \A s \in Syncs : share[s] <= (1 + blind[s]) * Ceiling

\* A thread buys the draft of a message once in the life of the process, although
\* reviewers reject it and it is proposed again (sync_service.py:495-497, "instead
\* of paying for it again").
PaidOnce == \A m \in Messages, s \in Syncs : paid[m][s] <= 1

\* A draft that is not in the file is still marked for saving, whatever saves
\* failed and syncs broke off, unless two threads met in DraftCache.save.
DirtyUntilSaved ==
  raced \/ dirty \/ mem = disk \/ (\E s \in Syncs : sync[s].pc = "save")

\* "Reaching the cap degrades prose, never behaviour" (llm_budget.py:11): every
\* message is held for a human in the end, with the budget spent, the model down
\* and the ledger unreadable.
HeldDespiteBudget == \A m \in Messages : m \notin queued ~> m \in queued
=============================================================================
