---------------------------- MODULE ActionQueue ----------------------------
(***************************************************************************)
(* The approval queue of one workspace with one connected mailbox:         *)
(* InboxSyncService (app/saas/sync_service.py) over the rows of            *)
(* saas_proposed_actions (app/saas/repository.py).                         *)
(*                                                                         *)
(* Three kinds of threads share the table.  A reviewer's request approves  *)
(* or rejects one row; a sync (the background worker's or the "Sync now"   *)
(* button's) proposes actions for the messages it fetched; the worker's    *)
(* retry sweep re-sends approved actions whose provider write failed.      *)
(* Every repository call is a transaction of its own and no lock spans two *)
(* of them, so every repository call and every provider write is a step.   *)
(***************************************************************************)
EXTENDS Naturals, FiniteSets

CONSTANTS
  Messages,          \* messages in the mailbox (their provider ids)
  Decision,          \* what the policy decides for each message
  SenderRole,        \* the sender role inferred for each message
  EscalateTo,        \* the role an escalation of each message goes to
  Reviewers,         \* requests that may be deciding on a row at one time
  Syncers,           \* threads that may be syncing: Worker and web requests
  Worker,            \* the background worker, whether or not it syncs
  Ids,               \* bound: the rows the table may come to hold
  Draft,             \* the text a sync drafted for a held row
  Edits,             \* the texts a reviewer may put in its place
  Faults,            \* how a provider write may fail: "refused", "lost"
  MAX_SEND_RETRIES,  \* sync_service.MAX_SEND_RETRIES
  MIN_DECISIONS,     \* learning.MIN_DECISIONS
  MaxCrashes         \* bound: restarts of the process

Decisions == {"reply", "escalate", "defer", "spam"}

ASSUME DecisionAssumption == Decision \in [Messages -> Decisions]
ASSUME BoundsAssumption ==
  /\ MAX_SEND_RETRIES \in Nat /\ MIN_DECISIONS \in Nat \ {0} /\ MaxCrashes \in Nat
ASSUME TextAssumption == Draft \notin Edits /\ "no_text" \notin Edits \cup {Draft}
ASSUME FaultAssumption == Faults \subseteq {"refused", "lost"}

Bodies == {Draft} \cup Edits
NoText == "no_text"                       \* content = NULL, on label rows
Texts == Bodies \cup {NoText}
Types == {"classify", "reply", "escalate", "defer"}
Roles == {EscalateTo[m] : m \in {x \in Messages : Decision[x] = "escalate"}}
Pairs == Types \X {SenderRole[m] : m \in Messages}

VARIABLES
  rows,      \* saas_proposed_actions: a function on the ids in use
  contacts,  \* the escalation roles with an address configured
  plan,      \* "active" or "lapsed"
  mailbox,   \* the connection: its status column and its credentials
  handler,   \* the approve or reject request each reviewer has open
  sync,      \* the sync each syncer is running
  retry,     \* the worker's retry sweep
  owed,      \* saas_commitments, direction "ours": <<message, text>>
  outbox,    \* the provider's side: what it delivered for each row
  signed,    \* history: the texts reviewers approved for each row
  crashes    \* restarts so far

env == <<contacts, plan>>
history == <<outbox, signed>>
vars == <<rows, contacts, plan, mailbox, handler, sync, retry, owed, outbox,
          signed, crashes>>

----------------------------------------------------------------------------
(* The table and its queries.                                              *)

Row == [msg : Messages, type : Types,
        status : {"proposed", "executed", "failed", "rejected"},
        approval : BOOLEAN,               \* requires_approval
        decided : BOOLEAN,                \* decided_by IS NOT NULL
        outcome : {"none", "approved", "edited", "rejected", "auto"},
        content : Texts, retries : Nat]

NeedsApproval(type) == type \in {"reply", "escalate"}

\* pipeline.to_proposals: every message is classified; spam gets nothing more.
Proposals ==
  {[msg |-> m, type |-> "classify"] : m \in Messages} \cup
  {[msg |-> m, type |-> Decision[m]] : m \in {x \in Messages : Decision[x] # "spam"}}

\* Mutant: only executed actions count as live.
ActiveTypesExecuted(m) ==
  {rows[i].type : i \in {j \in DOMAIN rows : rows[j].msg = m /\ rows[j].status = "executed"}}

ActiveTypes(m) ==
  {rows[i].type : i \in {j \in DOMAIN rows :
     rows[j].msg = m /\ rows[j].status \notin {"rejected", "failed"}}}

\* Mutant: the human's decision is not asked for.
RetryableUndecided(row) == row.status = "failed" /\ row.retries < MAX_SEND_RETRIES
Retryable(row) ==
  /\ row.status = "failed"
  /\ row.approval
  /\ row.decided
  /\ row.retries < MAX_SEND_RETRIES

DecidedOn(pair, outcomes) ==
  {i \in DOMAIN rows : /\ rows[i].type = pair[1]
                       /\ SenderRole[rows[i].msg] = pair[2]
                       /\ rows[i].outcome \in outcomes}

\* FeedbackService.suppressed_pairs: at least four rejections in five.
Suppressed(pair) ==
  LET total    == Cardinality(DecidedOn(pair, {"approved", "edited", "rejected"}))
      rejected == Cardinality(DecidedOn(pair, {"rejected"}))
  IN  total >= MIN_DECISIONS /\ 10 * rejected >= 8 * total

NewId == CHOOSE i \in Ids : i \notin DOMAIN rows

Create(row) ==
  /\ Ids \ DOMAIN rows # {}
  /\ rows' = [i \in DOMAIN rows \cup {NewId} |-> IF i = NewId THEN row ELSE rows[i]]

LabelRow(m, type, ok) ==
  [msg |-> m, type |-> type, status |-> IF ok THEN "executed" ELSE "failed",
   approval |-> FALSE, decided |-> FALSE, outcome |-> IF ok THEN "auto" ELSE "none",
   content |-> NoText, retries |-> 0]

HeldRow(p) ==
  [msg |-> p.msg, type |-> p.type, status |-> "proposed", approval |-> TRUE,
   decided |-> FALSE, outcome |-> "none", content |-> Draft, retries |-> 0]

----------------------------------------------------------------------------
(* The mailbox provider.                                                   *)

\* build_provider raises when the stored tokens cannot be decrypted.
CanBuild == mailbox.creds # "unreadable"
MarkBroken == [mailbox EXCEPT !.status = "error"]

\* What a guarded write can come to.  "lost": delivered, but the answer never
\* came and write_guard reports a failure.  "broken": the token is dead and
\* its refresh is refused, which also flags the connection.
WriteResults(live) == IF live THEN {"ok"} \cup Faults ELSE {"broken"}

\* _execute and _execute_escalation: the outcomes of dispatching one row.
ExecuteResults(row, live) ==
  IF row.type = "escalate" /\ EscalateTo[row.msg] \notin contacts
  THEN {"no_contact"}
  ELSE WriteResults(live)

Execute(id, body, result) ==
  /\ outbox' = [outbox EXCEPT ![id] =
       [sent   |-> IF result \in {"ok", "lost"} THEN @.sent \cup {body} ELSE @.sent,
        acked  |-> IF result = "ok" THEN @.acked + 1 ELSE @.acked,
        called |-> @.called \/ result # "no_contact"]]
  /\ mailbox' = IF result = "broken" THEN MarkBroken ELSE mailbox

----------------------------------------------------------------------------
(* Approve and reject.                                                     *)

Idle == [pc |-> "idle"]

\* _provider_for_action and the checks of _approve, up to the provider write.
ApproveBegin(v, id, text) ==
  /\ handler[v] = Idle
  /\ CanBuild
  /\ plan = "active"
  /\ id \in DOMAIN rows
  /\ rows[id].status = "proposed"
  /\ handler' = [handler EXCEPT ![v] =
       [pc |-> "send", row |-> id, body |-> text, live |-> mailbox.creds = "ok",
        outcome |-> IF text = rows[id].content THEN "approved" ELSE "edited",
        result |-> "none"]]
  /\ signed' = [signed EXCEPT ![id] = @ \cup {text}]
  /\ UNCHANGED <<rows, env, mailbox, sync, retry, owed, outbox, crashes>>

\* The request fails with 409 before it looks at the row's status.
ApproveUnbuildable(v) ==
  /\ handler[v] = Idle
  /\ ~CanBuild
  /\ DOMAIN rows # {}
  /\ mailbox' = MarkBroken
  /\ UNCHANGED <<rows, env, handler, sync, retry, owed, history, crashes>>

ApproveSend(v) ==
  /\ handler[v].pc = "send"
  /\ \E result \in ExecuteResults(rows[handler[v].row], handler[v].live) :
       /\ Execute(handler[v].row, handler[v].body, result)
       /\ handler' = [handler EXCEPT ![v].pc = "commit", ![v].result = result]
  /\ UNCHANGED <<rows, env, sync, retry, owed, signed, crashes>>

\* Mutant: the write's result is not looked at.
ApprovedRowUnchecked(row, h) ==
  [row EXCEPT !.status = "executed", !.decided = TRUE, !.outcome = h.outcome,
              !.content = IF h.outcome = "edited" THEN h.body ELSE @]

\* What approve writes to the row, whatever the row has become meanwhile.
ApprovedRow(row, h) ==
  IF h.result = "ok"
  THEN [row EXCEPT !.status = "executed", !.decided = TRUE, !.outcome = h.outcome,
                   !.content = IF h.outcome = "edited" THEN h.body ELSE @]
  ELSE [row EXCEPT !.status = "failed", !.decided = TRUE]

ApproveCommit(v) ==
  /\ handler[v].pc = "commit"
  /\ rows' = [rows EXCEPT ![handler[v].row] = ApprovedRow(@, handler[v])]
  /\ handler' = [handler EXCEPT ![v] =
                   IF @.result = "ok" THEN [@ EXCEPT !.pc = "record"] ELSE Idle]
  /\ UNCHANGED <<env, mailbox, sync, retry, owed, history, crashes>>

\* Mutant: promises are read from the draft instead of the text that was sent.
ApproveRecordDraft(v) ==
  /\ handler[v].pc = "record"
  /\ owed' = LET row == rows[handler[v].row]
             IN  IF row.type = "reply" THEN owed \cup {<<row.msg, Draft>>} ELSE owed
  /\ handler' = [handler EXCEPT ![v] = Idle]
  /\ UNCHANGED <<rows, env, mailbox, sync, retry, history, crashes>>

\* _record_own_commitments, on the text the request sent.
ApproveRecord(v) ==
  /\ handler[v].pc = "record"
  /\ owed' = LET row == rows[handler[v].row]
             IN  IF row.type = "reply" THEN owed \cup {<<row.msg, handler[v].body>>} ELSE owed
  /\ handler' = [handler EXCEPT ![v] = Idle]
  /\ UNCHANGED <<rows, env, mailbox, sync, retry, history, crashes>>

\* Mutant: a row that was decided already can be rejected.
RejectBeginAny(v, id) ==
  /\ handler[v] = Idle
  /\ id \in DOMAIN rows
  /\ handler' = [handler EXCEPT ![v] = [pc |-> "reject", row |-> id]]
  /\ UNCHANGED <<rows, env, mailbox, sync, retry, owed, history, crashes>>

RejectBegin(v, id) ==
  /\ handler[v] = Idle
  /\ id \in DOMAIN rows
  /\ rows[id].status = "proposed"
  /\ handler' = [handler EXCEPT ![v] = [pc |-> "reject", row |-> id]]
  /\ UNCHANGED <<rows, env, mailbox, sync, retry, owed, history, crashes>>

RejectCommit(v) ==
  /\ handler[v].pc = "reject"
  /\ rows' = [rows EXCEPT ![handler[v].row] =
                [@ EXCEPT !.status = "rejected", !.outcome = "rejected", !.decided = TRUE]]
  /\ handler' = [handler EXCEPT ![v] = Idle]
  /\ UNCHANGED <<env, mailbox, sync, retry, owed, history, crashes>>

----------------------------------------------------------------------------
(* Sync: the loop over the policy's proposals.                             *)

\* Bound: a sync starts only while the table has room for all it may create.
Room(s) ==
  Cardinality(Proposals) * Cardinality({x \in Syncers : sync[x] # Idle \/ x = s})
    <= Cardinality(Ids \ DOMAIN rows)

\* The worker syncs the mailbox at most once a pass, and only while the
\* connection is flagged connected; "Sync now" asks for neither.
MaySync(s) == s = Worker => retry = Idle /\ mailbox.status = "connected"
NextInPass(s) == IF s = Worker THEN [pc |-> "due"] ELSE retry

SyncBegin(s) ==
  /\ sync[s] = Idle /\ Room(s)
  /\ MaySync(s)
  /\ plan = "active"
  /\ mailbox.creds = "ok"
  /\ sync' = [sync EXCEPT ![s] =
       [pc |-> "run", todo |-> Proposals, drafting |-> {}, vetoed |-> {}, auto |-> {},
        suppressed |-> {pair \in Pairs : Suppressed(pair)}, live |-> TRUE]]
  /\ retry' = NextInPass(s)
  /\ UNCHANGED <<rows, env, mailbox, handler, owed, history, crashes>>

\* The provider cannot be built, or the fetch finds the grant revoked; a lapsed
\* plan is noticed between the two.
SyncBroken(s) ==
  /\ sync[s] = Idle
  /\ MaySync(s)
  /\ ~CanBuild \/ (mailbox.creds = "revoked" /\ plan = "active")
  /\ mailbox' = MarkBroken
  /\ retry' = NextInPass(s)
  /\ UNCHANGED <<rows, env, handler, sync, owed, history, crashes>>

Between(s) == sync[s] # Idle /\ sync[s].drafting = {} /\ sync[s].vetoed = {}

\* The policy emits every classify before the first reply, escalate or defer.
NextProposals(todo) ==
  {p \in todo : p.type = "classify" \/ \A q \in todo : q.type # "classify"}

\* One turn of the loop: read the live types of the message, then skip the
\* proposal, hold it for drafting, downgrade it or queue it as a label.
Turn(state, p, active) ==
  LET rest   == [state EXCEPT !.todo = @ \ {p}]
      vetoed == <<p.type, SenderRole[p.msg]>> \in state.suppressed
  IN  CASE p.type \in active         -> rest
        [] p.type \notin active /\ ~NeedsApproval(p.type)
                                     -> [rest EXCEPT !.auto = @ \cup {p}]
        [] p.type \notin active /\ NeedsApproval(p.type) /\ ~vetoed
                                     -> [rest EXCEPT !.drafting = {p}]
        [] OTHER                     -> IF "defer" \in active THEN rest
                                        ELSE [rest EXCEPT !.vetoed = {p}]

SyncCheck(s) ==
  /\ Between(s)
  /\ \E p \in NextProposals(sync[s].todo) :
       sync' = [sync EXCEPT ![s] = Turn(@, p, ActiveTypes(p.msg))]
  /\ UNCHANGED <<rows, env, mailbox, handler, retry, owed, history, crashes>>

\* Drafting and verifying are behind; the row is created as it was decided.
SyncPropose(s) ==
  /\ sync[s] # Idle
  /\ \E p \in sync[s].drafting : Create(HeldRow(p))
  /\ sync' = [sync EXCEPT ![s].drafting = {}]
  /\ UNCHANGED <<env, mailbox, handler, retry, owed, history, crashes>>

\* A label write and the row that records it.
ApplyLabel(s, m, type) ==
  \E result \in WriteResults(sync[s].live) :
    /\ Create(LabelRow(m, type, result = "ok"))
    /\ mailbox' = IF result = "broken" THEN MarkBroken ELSE mailbox

SyncDowngrade(s) ==
  /\ sync[s] # Idle
  /\ \E p \in sync[s].vetoed : ApplyLabel(s, p.msg, "defer")
  /\ sync' = [sync EXCEPT ![s].vetoed = {}]
  /\ UNCHANGED <<env, handler, retry, owed, history, crashes>>

SyncLabel(s) ==
  /\ Between(s) /\ sync[s].todo = {}
  /\ \E p \in sync[s].auto :
       /\ ApplyLabel(s, p.msg, p.type)
       /\ sync' = [sync EXCEPT ![s].auto = @ \ {p}]
  /\ UNCHANGED <<env, handler, retry, owed, history, crashes>>

SyncEnd(s) ==
  /\ Between(s) /\ sync[s].todo = {} /\ sync[s].auto = {}
  /\ sync' = [sync EXCEPT ![s] = Idle]
  /\ UNCHANGED <<rows, env, mailbox, handler, retry, owed, history, crashes>>

----------------------------------------------------------------------------
(* The retry sweep that ends every pass of the worker.                     *)

WorkerSyncing == Worker \in Syncers /\ sync[Worker] # Idle

\* list_failed_sends: the sweep works from the rows as they are read here.
RetryList ==
  /\ retry.pc \in {"idle", "due"} /\ ~WorkerSyncing
  /\ retry' = [pc |-> "sweep",
               todo |-> {[id |-> i, row |-> rows[i]] : i \in {j \in DOMAIN rows : Retryable(rows[j])}}]
  /\ UNCHANGED <<rows, env, mailbox, handler, sync, owed, history, crashes>>

\* A mailbox whose provider cannot be built is skipped without an attempt.
RetrySkip ==
  /\ retry.pc = "sweep" /\ ~CanBuild
  /\ \E item \in retry.todo : retry' = [retry EXCEPT !.todo = @ \ {item}]
  /\ mailbox' = MarkBroken
  /\ UNCHANGED <<rows, env, handler, sync, owed, history, crashes>>

RetrySend ==
  /\ retry.pc = "sweep" /\ CanBuild
  /\ \E item \in retry.todo :
       \E result \in ExecuteResults(item.row, mailbox.creds = "ok") :
         /\ Execute(item.id, item.row.content, result)
         /\ retry' = [pc |-> "commit", todo |-> retry.todo \ {item}, item |-> item,
                      result |-> result]
  /\ UNCHANGED <<rows, env, handler, sync, owed, signed, crashes>>

\* Mutant: a failed attempt is not counted.
RetriedRowUncounted(row, seen, result) ==
  IF result = "ok"
  THEN [row EXCEPT !.status = "executed", !.retries = seen.retries + 1,
                   !.outcome = IF seen.outcome = "none" THEN "approved" ELSE seen.outcome]
  ELSE [row EXCEPT !.status = "failed"]

\* What the sweep writes to the row, from the values it listed.
RetriedRow(row, seen, result) ==
  IF result = "ok"
  THEN [row EXCEPT !.status = "executed", !.retries = seen.retries + 1,
                   !.outcome = IF seen.outcome = "none" THEN "approved" ELSE seen.outcome]
  ELSE [row EXCEPT !.status = "failed", !.retries = seen.retries + 1]

RetryCommit ==
  /\ retry.pc = "commit"
  /\ rows' = [rows EXCEPT ![retry.item.id] = RetriedRow(@, retry.item.row, retry.result)]
  /\ retry' = [pc |-> "sweep", todo |-> retry.todo]
  /\ UNCHANGED <<env, mailbox, handler, sync, owed, history, crashes>>

RetryEnd ==
  /\ retry.pc = "sweep" /\ retry.todo = {}
  /\ retry' = Idle
  /\ UNCHANGED <<rows, env, mailbox, handler, sync, owed, history, crashes>>

----------------------------------------------------------------------------
(* The workspace and the outside world.                                    *)

SetContact(role) ==
  /\ contacts' = contacts \cup {role}
  /\ UNCHANGED <<rows, plan, mailbox, handler, sync, retry, owed, history, crashes>>

ClearContact(role) ==
  /\ contacts' = contacts \ {role}
  /\ UNCHANGED <<rows, plan, mailbox, handler, sync, retry, owed, history, crashes>>

PlanChange ==
  /\ plan' = IF plan = "active" THEN "lapsed" ELSE "active"
  /\ UNCHANGED <<rows, contacts, mailbox, handler, sync, retry, owed, history, crashes>>

\* The customer withdraws the grant: every provider object built on it is dead.
Revoke ==
  /\ mailbox.creds = "ok"
  /\ mailbox' = [mailbox EXCEPT !.creds = "revoked"]
  /\ handler' = [v \in Reviewers |->
       IF handler[v].pc = "send" THEN [handler[v] EXCEPT !.live = FALSE] ELSE handler[v]]
  /\ sync' = [s \in Syncers |->
       IF sync[s] = Idle THEN Idle ELSE [sync[s] EXCEPT !.live = FALSE]]
  /\ UNCHANGED <<rows, env, retry, owed, history, crashes>>

\* A human connects the mailbox again: upsert_connection on the same row.
Reconnect ==
  /\ mailbox' = [status |-> "connected", creds |-> "ok"]
  /\ UNCHANGED <<rows, env, handler, sync, retry, owed, history, crashes>>

\* The process dies and starts again, perhaps with another AUTH_SECRET_KEY,
\* which leaves the stored tokens unreadable.  Only the database survives.
Crash ==
  /\ crashes < MaxCrashes
  /\ crashes' = crashes + 1
  /\ handler' = [v \in Reviewers |-> Idle]
  /\ sync' = [s \in Syncers |-> Idle]
  /\ retry' = Idle
  /\ \E creds \in {mailbox.creds, "unreadable"} : mailbox' = [mailbox EXCEPT !.creds = creds]
  /\ UNCHANGED <<rows, env, owed, history>>

----------------------------------------------------------------------------
Init ==
  /\ rows = [i \in {} |-> Idle]
  /\ contacts \in SUBSET Roles
  /\ plan = "active"
  /\ mailbox = [status |-> "connected", creds |-> "ok"]
  /\ handler = [v \in Reviewers |-> Idle]
  /\ sync = [s \in Syncers |-> Idle]
  /\ retry = Idle
  /\ owed = {}
  /\ outbox = [i \in Ids |-> [sent |-> {}, acked |-> 0, called |-> FALSE]]
  /\ signed = [i \in Ids |-> {}]
  /\ crashes = 0

Decide(v) ==
  \/ \E id \in Ids : (\E text \in Bodies : ApproveBegin(v, id, text)) \/ RejectBegin(v, id)
  \/ ApproveUnbuildable(v)

Finish(v) == ApproveSend(v) \/ ApproveCommit(v) \/ ApproveRecord(v) \/ RejectCommit(v)

SyncStart(s) == SyncBegin(s) \/ SyncBroken(s)

SyncStep(s) ==
  SyncCheck(s) \/ SyncPropose(s) \/ SyncDowngrade(s) \/ SyncLabel(s) \/ SyncEnd(s)

Retry == RetryList \/ RetrySkip \/ RetrySend \/ RetryCommit \/ RetryEnd

World ==
  \/ \E role \in Roles : SetContact(role) \/ ClearContact(role)
  \/ PlanChange \/ Revoke \/ Reconnect \/ Crash

Next ==
  \/ \E v \in Reviewers : Decide(v) \/ Finish(v)
  \/ \E s \in Syncers : SyncStart(s) \/ SyncStep(s)
  \/ Retry
  \/ World

Spec == Init /\ [][Next]_vars

(* A request runs to its end once begun, the worker polls for ever and     *)
(* finishes each pass (run_forever); nothing obliges a human, a sync's     *)
(* start, or the outside world.                                            *)
Fairness ==
  /\ \A v \in Reviewers : WF_vars(Finish(v))
  /\ \A s \in Syncers : WF_vars(SyncStep(s))
  /\ WF_vars(Retry)

FairSpec == Spec /\ Fairness

----------------------------------------------------------------------------
(* Properties.                                                             *)

Approving ==
  [pc : {"send", "commit", "record"}, row : Ids, body : Bodies, live : BOOLEAN,
   outcome : {"approved", "edited"},
   result : {"none", "ok", "refused", "lost", "broken", "no_contact"}]

Rejecting == [pc : {"reject"}, row : Ids]

Syncing ==
  [pc : {"run"}, todo : SUBSET Proposals, drafting : SUBSET Proposals,
   vetoed : SUBSET Proposals, auto : SUBSET Proposals,
   suppressed : SUBSET Pairs, live : BOOLEAN]

RetryItem == [id : Ids, row : Row]
Sweeping == [pc : {"sweep"}, todo : SUBSET RetryItem]
Retrying == [pc : {"commit"}, todo : SUBSET RetryItem, item : RetryItem,
             result : {"ok", "refused", "lost", "broken", "no_contact"}]

\* The type invariant: the table, the threads' local state, the connection and
\* the history keep their shapes under every handler of sync_service.py.
TypeOK ==
  /\ DOMAIN rows \subseteq Ids /\ rows \in [DOMAIN rows -> Row]
  /\ contacts \subseteq Roles /\ plan \in {"active", "lapsed"}
  /\ mailbox \in [status : {"connected", "error"}, creds : {"ok", "revoked", "unreadable"}]
  /\ handler \in [Reviewers -> {Idle} \cup Rejecting \cup Approving]
  /\ sync \in [Syncers -> {Idle} \cup Syncing]
  /\ retry \in {Idle, [pc |-> "due"]} \cup Sweeping \cup Retrying
  /\ owed \subseteq Messages \X Bodies
  /\ outbox \in [Ids -> [sent : SUBSET Texts, acked : Nat, called : BOOLEAN]]
  /\ signed \in [Ids -> SUBSET Bodies]
  /\ crashes \in 0..MaxCrashes

\* The approval gate: nothing leaves the mailbox for a row - not through a
\* request, not through any number of retries or restarts - unless a reviewer
\* approved that very row and the row is one that requires approval.
HumanGate ==
  \A id \in Ids : outbox[id].sent # {} =>
    /\ signed[id] # {}
    /\ id \in DOMAIN rows /\ rows[id].approval

\* A row the audit trail shows as executed holds a text that was really
\* delivered, whichever of several requests and retries wrote the row last.
RecordedTextWasSent ==
  \A id \in DOMAIN rows :
    rows[id].status = "executed" /\ rows[id].approval => rows[id].content \in outbox[id].sent

\* retry_count never passes MAX_SEND_RETRIES, although it is written from a
\* value read before the send.
RetryBudget == \A id \in DOMAIN rows : rows[id].retries <= MAX_SEND_RETRIES

\* A row whose delivery the provider
\* acknowledged is not sent again; only a restart between the provider's answer
\* and the commit (once for each restart) can cause that.
AcknowledgedOnce == \A id \in Ids : outbox[id].acked <= 1 + crashes

\* An executed or a rejected row never changes its status again.
DecisionsAreFinal ==
  [][\A id \in DOMAIN rows :
       rows[id].status \in {"executed", "rejected"} => rows'[id].status = rows[id].status]_vars

\* While one reviewer decides at a time, a decision is final and carried out once
\* (_approve, reject, retry_failed_sends), whatever the sweep does meanwhile.
DecidedOnce == []AcknowledgedOnce /\ DecisionsAreFinal

\* Re-syncing never asks a reviewer the same question
\* twice: one pending row at most for each message and action type.
OnePendingPerAction ==
  \A i, j \in DOMAIN rows :
    /\ rows[i].status = "proposed" /\ rows[j].status = "proposed"
    /\ rows[i].msg = rows[j].msg /\ rows[i].type = rows[j].type
    => i = j

\* No sync loses a proposal on the way: as long as it runs, each proposal of the
\* policy is still to be looked at, being drafted, downgraded or labelled, or
\* the table has its row (a "defer" row when reviewers voted the pair down).
NothingDropped ==
  \A s \in Syncers : sync[s] # Idle =>
    \A p \in Proposals :
      \/ p \in sync[s].todo \cup sync[s].drafting \cup sync[s].vetoed \cup sync[s].auto
      \/ \E i \in DOMAIN rows :
           /\ rows[i].msg = p.msg
           /\ \/ rows[i].type = p.type
              \/ /\ rows[i].type = "defer"
                 /\ <<p.type, SenderRole[p.msg]>> \in sync[s].suppressed

\* With one sync at a time, each proposal of the policy is put to reviewers, once (_sync).
ProposedOnce == OnePendingPerAction /\ NothingDropped

\* A promise in a reply a request sent is owed once the request is over (a
\* restart before _record_own_commitments forgets it).
SentPromiseIsOwed ==
  crashes = 0 => \A id \in DOMAIN rows :
    \/ rows[id].status # "executed" \/ rows[id].type # "reply" \/ rows[id].retries > 0
    \/ \E v \in Reviewers : handler[v].pc = "record" /\ handler[v].row = id
    \/ <<rows[id].msg, rows[id].content>> \in owed

CanRetry(id) == id \in DOMAIN rows /\ Retryable(rows[id])

\* Failed, but not forgotten: an approved action whose write failed leaves the
\* retryable state - sent, or out of retries - unless its mailbox's tokens stay
\* unreadable because nobody reconnects it.
FailedSendsResolve ==
  \A id \in Ids : []<>~CanRetry(id) \/ []<>(mailbox.creds = "unreadable")

----------------------------------------------------------------------------
(* The inductive invariant behind the safety properties that hold for any  *)
(* number of requests, syncs and restarts.                                 *)

\* A row: what awaits a decision is a held row; what was sent or failed to be
\* sent was approved; its text is the draft until a request has delivered
\* another one, and then it is a delivered text for good.
RowOk(id) ==
  LET row == rows[id] IN
  /\ row.status = "proposed" => row.approval
  /\ row.retries <= MAX_SEND_RETRIES
  /\ row.approval =>
       /\ row.status \in {"failed", "executed"} => signed[id] # {}
       /\ row.content \in {Draft} \cup outbox[id].sent
       /\ row.status = "proposed" => row.content = Draft
       /\ row.status = "executed" => row.content \in outbox[id].sent

\* An open request: its row exists and, if it approves, was signed for; an
\* acknowledged write is in the provider's outbox.
RequestOk(v) ==
  handler[v] # Idle =>
    /\ handler[v].row \in DOMAIN rows
    /\ handler[v].pc # "reject" =>
         /\ signed[handler[v].row] # {} /\ rows[handler[v].row].approval
         /\ handler[v].outcome = "approved" <=> handler[v].body = Draft
         /\ handler[v].result = "ok" => handler[v].body \in outbox[handler[v].row].sent
         /\ handler[v].pc = "send" => handler[v].result = "none"

\* The rows the sweep has listed and not yet written back.
RetryItems ==
  CASE retry.pc = "sweep"  -> retry.todo
    [] retry.pc = "commit" -> retry.todo \cup {retry.item}
    [] OTHER               -> {}

\* A listed row: it was signed for, its budget is not spent, and if a request
\* has amended its text since the listing, that text was delivered.
ItemOk(item) ==
  /\ item.id \in DOMAIN rows /\ signed[item.id] # {} /\ rows[item.id].approval
  /\ item.row.retries < MAX_SEND_RETRIES
  /\ item.row.content = Draft \/ rows[item.id].content # Draft

AckedRetryOk ==
  retry.pc = "commit" /\ retry.result = "ok" =>
    retry.item.row.content \in outbox[retry.item.id].sent

QueueInv ==
  /\ TypeOK /\ HumanGate /\ AckedRetryOk
  /\ \A id \in DOMAIN rows : RowOk(id)
  /\ \A v \in Reviewers : RequestOk(v)
  /\ \A item \in RetryItems : ItemOk(item)
=============================================================================
