------------------------- MODULE ActionQueueProofs -------------------------
(* Proofs about ActionQueue, for every value of its constants.             *)
EXTENDS ActionQueue, TLAPS

----------------------------------------------------------------------------
(* Facts about the operators the actions are built from.                   *)

\* Creating a row adds one free id of Ids and keeps every other row.
LEMMA CreateType ==
  ASSUME TypeOK, NEW row \in Row, Create(row)
  PROVE  /\ NewId \in Ids \ DOMAIN rows
         /\ DOMAIN rows' = DOMAIN rows \cup {NewId}
         /\ rows'[NewId] = row
         /\ \A i \in DOMAIN rows : rows'[i] = rows[i]
         /\ rows' \in [DOMAIN rows' -> Row]
<1>1. NewId \in Ids \ DOMAIN rows
  BY DEF NewId, Create
<1> QED
  BY <1>1 DEF Create, TypeOK

\* The rows a sync creates are rows of the table.
LEMMA NewRowType ==
  /\ \A p \in Proposals : p.msg \in Messages /\ p.type \in Types /\ HeldRow(p) \in Row
  /\ \A m \in Messages, type \in Types, ok \in BOOLEAN : LabelRow(m, type, ok) \in Row
<1>1. ASSUME NEW p \in Proposals PROVE p.msg \in Messages /\ p.type \in Types
  BY DecisionAssumption DEF Proposals, Types, Decisions
<1>2. ASSUME NEW p \in Proposals PROVE HeldRow(p) \in Row
  BY <1>1 DEF HeldRow, Row, Texts, Bodies
<1>3. ASSUME NEW m \in Messages, NEW type \in Types, NEW ok \in BOOLEAN
      PROVE  LabelRow(m, type, ok) \in Row
  BY DEF LabelRow, Row, Texts
<1> QED
  BY <1>1, <1>2, <1>3

\* One turn of the loop keeps a sync's local state well typed.
LEMMA TurnType ==
  ASSUME NEW state \in Syncing, NEW p \in Proposals, NEW active
  PROVE  Turn(state, p, active) \in Syncing
  BY DEF Turn, Syncing

\* What approve and the retry sweep write into a row of the table is a row.
LEMMA WrittenRowType ==
  ASSUME NEW row \in Row
  PROVE  /\ \A h \in Approving : ApprovedRow(row, h) \in Row
         /\ \A seen \in Row : \A result : RetriedRow(row, seen, result) \in Row
<1>1. ASSUME NEW h \in Approving PROVE ApprovedRow(row, h) \in Row
  BY DEF ApprovedRow, Row, Approving, Texts
<1>2. ASSUME NEW seen \in Row, NEW result PROVE RetriedRow(row, seen, result) \in Row
  <2>1. seen.retries + 1 \in Nat /\ seen.outcome \in {"none", "approved", "edited", "rejected", "auto"}
    BY DEF Row
  <2>2. CASE result = "ok"
    BY <2>1, <2>2 DEF RetriedRow, Row
  <2>3. CASE result # "ok"
    BY <2>1, <2>3 DEF RetriedRow, Row
  <2> QED
    BY <2>2, <2>3
<1> QED
  BY <1>1, <1>2

\* A dispatch has one of five outcomes.
LEMMA ExecuteResultsType ==
  ASSUME NEW row, NEW live, NEW result \in ExecuteResults(row, live)
  PROVE  result \in {"ok", "refused", "lost", "broken", "no_contact"}
  BY FaultAssumption DEF ExecuteResults, WriteResults

\* What a dispatch does to the provider's side and to the connection.
LEMMA ExecuteType ==
  ASSUME TypeOK, NEW id \in Ids, NEW body \in Texts, NEW result, Execute(id, body, result)
  PROVE  /\ outbox' \in [Ids -> [sent : SUBSET Texts, acked : Nat, called : BOOLEAN]]
         /\ mailbox' \in [status : {"connected", "error"}, creds : {"ok", "revoked", "unreadable"}]
         /\ \A i \in Ids : outbox[i].sent \subseteq outbox'[i].sent
         /\ \A i \in Ids \ {id} : outbox'[i] = outbox[i]
         /\ result = "ok" => body \in outbox'[id].sent
<1> DEFINE new == [sent   |-> IF result \in {"ok", "lost"} THEN outbox[id].sent \cup {body}
                                                           ELSE outbox[id].sent,
                   acked  |-> IF result = "ok" THEN outbox[id].acked + 1 ELSE outbox[id].acked,
                   called |-> outbox[id].called \/ result # "no_contact"]
<1>1. outbox \in [Ids -> [sent : SUBSET Texts, acked : Nat, called : BOOLEAN]]
  BY DEF TypeOK
<1>2. outbox' = [outbox EXCEPT ![id] = new]
  BY DEF Execute
<1>3. new \in [sent : SUBSET Texts, acked : Nat, called : BOOLEAN]
  BY <1>1
<1>4. outbox[id].sent \subseteq new.sent /\ (result = "ok" => body \in new.sent)
  OBVIOUS
<1>5. mailbox' \in [status : {"connected", "error"}, creds : {"ok", "revoked", "unreadable"}]
  BY DEF Execute, MarkBroken, TypeOK
<1> HIDE DEF new
<1> QED
  BY <1>1, <1>2, <1>3, <1>4, <1>5

----------------------------------------------------------------------------
(* Type correctness, and the rows threads refer to.                        *)

LEMMA QueueInit == Init => QueueInv
  BY BoundsAssumption DEF Init, QueueInv, TypeOK, HumanGate, AckedRetryOk, RequestOk,
                          RetryItems, Idle

\* A reviewer's request keeps the types.
LEMMA ReviewType ==
  ASSUME QueueInv, NEW v \in Reviewers, Decide(v) \/ Finish(v)
  PROVE  TypeOK'
<1>0. TypeOK
  BY DEF QueueInv
<1>1. ASSUME NEW id \in Ids, NEW text \in Bodies, ApproveBegin(v, id, text) PROVE TypeOK'
  BY <1>0, <1>1 DEF TypeOK, ApproveBegin, Approving, env
<1>2. ASSUME NEW id \in Ids, RejectBegin(v, id) PROVE TypeOK'
  BY <1>0, <1>2 DEF TypeOK, RejectBegin, Rejecting, env, history
<1>3. CASE ApproveUnbuildable(v)
  BY <1>0, <1>3 DEF TypeOK, ApproveUnbuildable, MarkBroken, env, history
<1>4. CASE ApproveSend(v)
  <2>1. handler[v] \in Approving
    BY <1>0, <1>4 DEF TypeOK, ApproveSend, Idle, Rejecting
  <2>2. PICK result \in ExecuteResults(rows[handler[v].row], handler[v].live) :
          /\ Execute(handler[v].row, handler[v].body, result)
          /\ handler' = [handler EXCEPT ![v].pc = "commit", ![v].result = result]
    BY <1>4 DEF ApproveSend
  <2>3. handler' \in [Reviewers -> {Idle} \cup Rejecting \cup Approving]
    BY <1>0, <2>1, <2>2, ExecuteResultsType DEF TypeOK, Approving
  <2>4. handler[v].row \in Ids /\ handler[v].body \in Texts
    BY <2>1 DEF Approving, Texts
  <2> QED
    BY <1>0, <1>4, <2>2, <2>3, <2>4, ExecuteType DEF TypeOK, ApproveSend, env
<1>5. CASE ApproveCommit(v)
  <2>1. handler[v] \in Approving
    BY <1>0, <1>5 DEF TypeOK, ApproveCommit, Idle, Rejecting
  <2>2. rows' \in [DOMAIN rows -> Row]
    BY <1>0, <1>5, <2>1, WrittenRowType DEF TypeOK, ApproveCommit
  <2>3. handler' \in [Reviewers -> {Idle} \cup Rejecting \cup Approving]
    BY <1>0, <1>5, <2>1 DEF TypeOK, ApproveCommit, Approving
  <2> QED
    BY <1>0, <1>5, <2>2, <2>3 DEF TypeOK, ApproveCommit, env, history
<1>6. CASE ApproveRecord(v)
  <2>1. handler[v] \in Approving /\ handler[v] # Idle
    BY <1>0, <1>6 DEF TypeOK, ApproveRecord, Idle, Rejecting
  <2>2. rows[handler[v].row].msg \in Messages /\ handler[v].body \in Bodies
    BY <1>0, <2>1 DEF QueueInv, RequestOk, TypeOK, Row, Approving
  <2> QED
    BY <1>0, <1>6, <2>2 DEF TypeOK, ApproveRecord, env, history
<1>7. CASE RejectCommit(v)
  <2>1. ASSUME NEW row \in Row
        PROVE  [row EXCEPT !.status = "rejected", !.outcome = "rejected", !.decided = TRUE] \in Row
    BY DEF Row
  <2>2. rows' \in [DOMAIN rows -> Row]
    BY <1>0, <1>7, <2>1 DEF TypeOK, RejectCommit
  <2>3. handler' \in [Reviewers -> {Idle} \cup Rejecting \cup Approving]
    BY <1>0, <1>7 DEF TypeOK, RejectCommit
  <2> QED
    BY <1>0, <1>7, <2>2, <2>3 DEF TypeOK, RejectCommit, env, history
<1> QED
  BY <1>1, <1>2, <1>3, <1>4, <1>5, <1>6, <1>7 DEF Decide, Finish

\* A step of a sync keeps the types.
LEMMA SyncType ==
  ASSUME QueueInv, NEW s \in Syncers, SyncStart(s) \/ SyncStep(s)
  PROVE  TypeOK'
<1>0. TypeOK
  BY DEF QueueInv
<1> DEFINE State == {Idle} \cup Syncing
<1>1. sync \in [Syncers -> State] /\ (sync[s] # Idle => sync[s] \in Syncing)
  BY <1>0 DEF TypeOK
<1>2. CASE SyncBegin(s)
  <2>1. sync' \in [Syncers -> State]
    BY <1>1, <1>2 DEF SyncBegin, Syncing
  <2>2. retry' \in {Idle, [pc |-> "due"]} \cup Sweeping \cup Retrying
    BY <1>0, <1>2 DEF SyncBegin, NextInPass, TypeOK
  <2> QED
    BY <1>0, <1>2, <2>1, <2>2 DEF TypeOK, SyncBegin, env, history
<1>3. CASE SyncBroken(s)
  <2>1. retry' \in {Idle, [pc |-> "due"]} \cup Sweeping \cup Retrying
    BY <1>0, <1>3 DEF SyncBroken, NextInPass, TypeOK
  <2> QED
    BY <1>0, <1>3, <2>1 DEF TypeOK, SyncBroken, MarkBroken, env, history
<1>4. CASE SyncCheck(s)
  <2>1. sync[s] \in Syncing
    BY <1>1, <1>4 DEF SyncCheck, Between
  <2>2. PICK p \in NextProposals(sync[s].todo) :
          sync' = [sync EXCEPT ![s] = Turn(sync[s], p, ActiveTypes(p.msg))]
    BY <1>4 DEF SyncCheck
  <2>3. p \in Proposals
    BY <2>1 DEF NextProposals, Syncing
  <2>4. Turn(sync[s], p, ActiveTypes(p.msg)) \in Syncing
    BY <2>1, <2>3, TurnType
  <2> QED
    BY <1>0, <1>1, <1>4, <2>2, <2>4 DEF TypeOK, SyncCheck, env, history
<1>5. CASE SyncPropose(s)
  <2>1. sync[s] \in Syncing
    BY <1>1, <1>5 DEF SyncPropose
  <2>2. PICK p \in sync[s].drafting : Create(HeldRow(p))
    BY <1>5 DEF SyncPropose
  <2>3. HeldRow(p) \in Row
    BY <2>1, NewRowType DEF Syncing
  <2>4. DOMAIN rows' \subseteq Ids /\ rows' \in [DOMAIN rows' -> Row]
    BY <1>0, <2>2, <2>3, CreateType DEF TypeOK
  <2>5. sync' \in [Syncers -> State]
    BY <1>1, <1>5, <2>1 DEF SyncPropose, Syncing
  <2> QED
    BY <1>0, <1>5, <2>4, <2>5 DEF TypeOK, SyncPropose, env, history
<1>6. ASSUME NEW m \in Messages, NEW type \in Types, ApplyLabel(s, m, type)
      PROVE  /\ DOMAIN rows' \subseteq Ids /\ rows' \in [DOMAIN rows' -> Row]
             /\ mailbox' \in [status : {"connected", "error"}, creds : {"ok", "revoked", "unreadable"}]
  <2>1. PICK result \in WriteResults(sync[s].live) :
          /\ Create(LabelRow(m, type, result = "ok"))
          /\ mailbox' = IF result = "broken" THEN MarkBroken ELSE mailbox
    BY <1>6 DEF ApplyLabel
  <2>2. LabelRow(m, type, result = "ok") \in Row
    BY NewRowType
  <2> QED
    BY <1>0, <2>1, <2>2, CreateType DEF TypeOK, MarkBroken
<1>7. CASE SyncDowngrade(s)
  <2>1. sync[s] \in Syncing
    BY <1>1, <1>7 DEF SyncDowngrade
  <2>2. PICK p \in sync[s].vetoed : ApplyLabel(s, p.msg, "defer")
    BY <1>7 DEF SyncDowngrade
  <2>3. p.msg \in Messages /\ "defer" \in Types
    BY <2>1, NewRowType DEF Syncing, Types
  <2>4. sync' \in [Syncers -> State]
    BY <1>1, <1>7, <2>1 DEF SyncDowngrade, Syncing
  <2> QED
    BY <1>0, <1>6, <1>7, <2>2, <2>3, <2>4 DEF TypeOK, SyncDowngrade, env, history
<1>8. CASE SyncLabel(s)
  <2>1. sync[s] \in Syncing
    BY <1>1, <1>8 DEF SyncLabel, Between
  <2>2. PICK p \in sync[s].auto : /\ ApplyLabel(s, p.msg, p.type)
                                 /\ sync' = [sync EXCEPT ![s].auto = @ \ {p}]
    BY <1>8 DEF SyncLabel
  <2>3. p.msg \in Messages /\ p.type \in Types
    BY <2>1, NewRowType DEF Syncing
  <2>4. sync' \in [Syncers -> State]
    BY <1>1, <2>1, <2>2 DEF Syncing
  <2> QED
    BY <1>0, <1>6, <1>8, <2>2, <2>3, <2>4 DEF TypeOK, SyncLabel, env, history
<1>9. CASE SyncEnd(s)
  BY <1>0, <1>1, <1>9 DEF TypeOK, SyncEnd, env, history
<1> QED
  BY <1>2, <1>3, <1>4, <1>5, <1>7, <1>8, <1>9 DEF SyncStart, SyncStep

\* A step of the retry sweep keeps the types.
LEMMA RetryType ==
  ASSUME QueueInv, Retry
  PROVE  TypeOK'
<1>0. TypeOK
  BY DEF QueueInv
<1>1. CASE RetryList
  <2>1. {[id |-> i, row |-> rows[i]] : i \in {j \in DOMAIN rows : Retryable(rows[j])}}
          \subseteq RetryItem
    BY <1>0 DEF TypeOK, RetryItem
  <2>2. retry' \in Sweeping
    BY <1>1, <2>1 DEF RetryList, Sweeping
  <2> QED
    BY <1>0, <1>1, <2>2 DEF TypeOK, RetryList, env, history
<1>2. retry.pc = "sweep" => retry \in Sweeping
  BY <1>0 DEF TypeOK, Idle, Retrying
<1>3. CASE RetrySkip
  <2>1. retry' \in Sweeping
    BY <1>2, <1>3 DEF RetrySkip, Sweeping
  <2> QED
    BY <1>0, <1>3, <2>1 DEF TypeOK, RetrySkip, MarkBroken, env, history
<1>4. CASE RetrySend
  <2>0. PICK item \in retry.todo :
          \E result \in ExecuteResults(item.row, mailbox.creds = "ok") :
            /\ Execute(item.id, item.row.content, result)
            /\ retry' = [pc |-> "commit", todo |-> retry.todo \ {item}, item |-> item,
                         result |-> result]
    BY <1>4 DEF RetrySend
  <2>1. PICK result \in ExecuteResults(item.row, mailbox.creds = "ok") :
          /\ Execute(item.id, item.row.content, result)
          /\ retry' = [pc |-> "commit", todo |-> retry.todo \ {item}, item |-> item,
                       result |-> result]
    BY <2>0
  <2>2. item \in RetryItem /\ retry.todo \subseteq RetryItem
    BY <1>2, <1>4 DEF RetrySend, Sweeping
  <2>3. item.id \in Ids /\ item.row.content \in Texts
    BY <2>2 DEF RetryItem, Row
  <2>4. retry' \in Retrying
    BY <2>1, <2>2, ExecuteResultsType DEF Retrying
  <2> QED
    BY <1>0, <1>4, <2>1, <2>3, <2>4, ExecuteType DEF TypeOK, RetrySend, env
<1>5. CASE RetryCommit
  <2>1. retry \in Retrying
    BY <1>0, <1>5 DEF TypeOK, RetryCommit, Idle, Sweeping
  <2>2. retry.item.row \in Row /\ retry' \in Sweeping
    BY <1>5, <2>1 DEF Retrying, RetryItem, RetryCommit, Sweeping
  <2>3. rows' \in [DOMAIN rows -> Row]
    BY <1>0, <1>5, <2>2, WrittenRowType DEF TypeOK, RetryCommit
  <2> QED
    BY <1>0, <1>5, <2>2, <2>3 DEF TypeOK, RetryCommit, env, history
<1>6. CASE RetryEnd
  BY <1>0, <1>6 DEF TypeOK, RetryEnd, env, history
<1> QED
  BY <1>1, <1>3, <1>4, <1>5, <1>6 DEF Retry

\* The workspace and the outside world keep the types.
LEMMA WorldType ==
  ASSUME QueueInv, World
  PROVE  TypeOK'
<1>0. TypeOK
  BY DEF QueueInv
<1>1. ASSUME NEW role \in Roles, SetContact(role) \/ ClearContact(role) PROVE TypeOK'
  BY <1>0, <1>1 DEF TypeOK, SetContact, ClearContact, history
<1>2. CASE PlanChange
  BY <1>0, <1>2 DEF TypeOK, PlanChange, history
<1>3. CASE Revoke
  <2>1. ASSUME NEW v \in Reviewers, handler[v].pc = "send"
        PROVE  [handler[v] EXCEPT !.live = FALSE] \in Approving
    <3>1. handler[v] \in Approving
      BY <1>0, <2>1 DEF TypeOK, Rejecting, Idle
    <3> QED
      BY <3>1 DEF Approving
  <2>2. handler' \in [Reviewers -> {Idle} \cup Rejecting \cup Approving]
    BY <1>0, <1>3, <2>1 DEF TypeOK, Revoke
  <2>3. ASSUME NEW s \in Syncers, sync[s] # Idle
        PROVE  [sync[s] EXCEPT !.live = FALSE] \in Syncing
    <3>1. sync[s] \in Syncing
      BY <1>0, <2>3 DEF TypeOK
    <3> QED
      BY <3>1 DEF Syncing
  <2>4. sync' \in [Syncers -> {Idle} \cup Syncing]
    BY <1>3, <2>3 DEF Revoke
  <2>5. mailbox' \in [status : {"connected", "error"}, creds : {"ok", "revoked", "unreadable"}]
    BY <1>0, <1>3 DEF TypeOK, Revoke
  <2> QED
    BY <1>0, <1>3, <2>2, <2>4, <2>5 DEF TypeOK, Revoke, env, history
<1>4. CASE Reconnect
  BY <1>0, <1>4 DEF TypeOK, Reconnect, env, history
<1>5. CASE Crash
  <2>1. crashes' \in 0..MaxCrashes
    BY <1>0, <1>5, BoundsAssumption DEF TypeOK, Crash
  <2>2. mailbox' \in [status : {"connected", "error"}, creds : {"ok", "revoked", "unreadable"}]
    BY <1>0, <1>5 DEF TypeOK, Crash
  <2> QED
    BY <1>0, <1>5, <2>1, <2>2 DEF TypeOK, Crash, env, history
<1> QED
  BY <1>1, <1>2, <1>3, <1>4, <1>5 DEF World

\* Every step keeps the types.
LEMMA TypeNext == ASSUME QueueInv, [Next]_vars PROVE TypeOK'
<1>1. CASE UNCHANGED vars
  BY <1>1 DEF QueueInv, TypeOK, vars
<1> QED
  BY <1>1, ReviewType, SyncType, RetryType, WorldType DEF Next

----------------------------------------------------------------------------
(* What every step leaves in place, and what an untouched thread or row    *)
(* keeps on account of it.                                                 *)

\* What a row is about never changes.
Same(row, old) == row.msg = old.msg /\ row.type = old.type /\ row.approval = old.approval

Grows ==
  /\ DOMAIN rows \subseteq DOMAIN rows'
  /\ \A id \in DOMAIN rows : Same(rows'[id], rows[id])
  /\ \A id \in DOMAIN rows : rows[id].content # Draft => rows'[id].content # Draft
  /\ \A id \in Ids : outbox[id].sent \subseteq outbox'[id].sent
  /\ \A id \in Ids : signed[id] \subseteq signed'[id]

\* No step removes a row, changes what it is about, turns an amended
\* text back into the draft, or unsends or unsigns anything.
LEMMA GrowsNext == ASSUME QueueInv, [Next]_vars PROVE Grows
<1>0. TypeOK
  BY DEF QueueInv
<1>1. ASSUME rows' = rows, outbox' = outbox, signed' = signed PROVE Grows
  BY <1>1 DEF Grows, Same
<1>2. ASSUME NEW row \in Row, Create(row), outbox' = outbox, signed' = signed PROVE Grows
  BY <1>0, <1>2, CreateType DEF Grows, Same
<1>3. ASSUME NEW id \in Ids, NEW body \in Texts, NEW result, Execute(id, body, result),
             rows' = rows, signed' = signed
      PROVE  Grows
  BY <1>0, <1>3, ExecuteType DEF Grows, Same
<1>4. ASSUME NEW id, NEW row \in Row, rows' = [rows EXCEPT ![id] = row],
             id \in DOMAIN rows => /\ Same(row, rows[id])
                                   /\ rows[id].content # Draft => row.content # Draft,
             outbox' = outbox, signed' = signed
      PROVE  Grows
  BY <1>0, <1>4 DEF Grows, TypeOK, Same
<1>5. ASSUME NEW v \in Reviewers, Decide(v) PROVE Grows
  <2>1. ASSUME NEW id \in Ids, NEW text \in Bodies, ApproveBegin(v, id, text) PROVE Grows
    BY <1>0, <2>1 DEF ApproveBegin, Grows, TypeOK, Same
  <2>2. ASSUME NEW id \in Ids, RejectBegin(v, id) PROVE Grows
    BY <1>1, <2>2 DEF RejectBegin, history
  <2> QED
    BY <1>1, <1>5, <2>1, <2>2 DEF Decide, ApproveUnbuildable, history
<1>6. ASSUME NEW v \in Reviewers, Finish(v) PROVE Grows
  <2>1. CASE ApproveSend(v)
    <3>1. handler[v].row \in Ids /\ handler[v].body \in Texts
      BY <1>0, <2>1 DEF ApproveSend, TypeOK, Idle, Rejecting, Approving, Texts
    <3> QED
      BY <1>3, <2>1, <3>1 DEF ApproveSend
  <2>2. CASE ApproveCommit(v)
    <3>1. handler[v] \in Approving /\ handler[v] # Idle
      BY <1>0, <2>2 DEF ApproveCommit, TypeOK, Idle, Rejecting
    <3>2. rows[handler[v].row] \in Row
      BY <1>0, <3>1 DEF QueueInv, RequestOk, TypeOK
    <3>3. handler[v].outcome = "edited" => handler[v].body # Draft
      BY <2>2, <3>1 DEF QueueInv, RequestOk, ApproveCommit
    <3> DEFINE new == ApprovedRow(rows[handler[v].row], handler[v])
    <3>4. /\ new \in Row /\ Same(new, rows[handler[v].row])
          /\ rows[handler[v].row].content # Draft => new.content # Draft
      <4>1. new \in Row
        BY <3>1, <3>2, WrittenRowType
      <4>2. CASE handler[v].result = "ok"
        BY <3>2, <3>3, <4>1, <4>2 DEF ApprovedRow, Row, Same
      <4>3. CASE handler[v].result # "ok"
        BY <3>2, <4>1, <4>3 DEF ApprovedRow, Row, Same
      <4> QED
        BY <4>2, <4>3
    <3>5. rows' = [rows EXCEPT ![handler[v].row] = new]
      BY <2>2 DEF ApproveCommit
    <3> HIDE DEF new
    <3> QED
      BY <1>4, <2>2, <3>4, <3>5 DEF ApproveCommit, history
  <2>3. CASE ApproveRecord(v)
    BY <1>1, <2>3 DEF ApproveRecord, history
  <2>4. CASE RejectCommit(v)
    <3>1. rows[handler[v].row] \in Row
      BY <1>0, <2>4 DEF QueueInv, RequestOk, TypeOK, RejectCommit, Idle
    <3> DEFINE new == [rows[handler[v].row] EXCEPT !.status = "rejected",
                         !.outcome = "rejected", !.decided = TRUE]
    <3>2. /\ new \in Row /\ Same(new, rows[handler[v].row])
          /\ new.content = rows[handler[v].row].content
      BY <3>1 DEF Row, Same
    <3>3. rows' = [rows EXCEPT ![handler[v].row] = new]
      BY <2>4 DEF RejectCommit
    <3> HIDE DEF new
    <3> QED
      BY <1>4, <2>4, <3>2, <3>3 DEF RejectCommit, history
  <2> QED
    BY <1>6, <2>1, <2>2, <2>3, <2>4 DEF Finish
<1>7. ASSUME NEW s \in Syncers, SyncStart(s) \/ SyncStep(s) PROVE Grows
  <2>1. CASE SyncBegin(s) \/ SyncBroken(s) \/ SyncCheck(s) \/ SyncEnd(s)
    BY <1>1, <2>1 DEF SyncBegin, SyncBroken, SyncCheck, SyncEnd, history
  <2>2. sync[s] # Idle => sync[s] \in Syncing
    BY <1>0 DEF TypeOK
  <2>3. CASE SyncPropose(s)
    BY <1>2, <2>2, <2>3, NewRowType DEF SyncPropose, Syncing, history
  <2>4. ASSUME NEW m \in Messages, NEW type \in Types, ApplyLabel(s, m, type),
               outbox' = outbox, signed' = signed
        PROVE  Grows
    BY <1>2, <2>4, NewRowType DEF ApplyLabel
  <2>5. CASE SyncDowngrade(s)
    <3>1. PICK p \in sync[s].vetoed : ApplyLabel(s, p.msg, "defer")
      BY <2>5 DEF SyncDowngrade
    <3>2. p.msg \in Messages /\ "defer" \in Types
      BY <2>2, <2>5, NewRowType DEF SyncDowngrade, Syncing, Types
    <3> QED
      BY <2>4, <2>5, <3>1, <3>2 DEF SyncDowngrade, history
  <2>6. CASE SyncLabel(s)
    <3>1. PICK p \in sync[s].auto : ApplyLabel(s, p.msg, p.type)
      BY <2>6 DEF SyncLabel
    <3>2. p.msg \in Messages /\ p.type \in Types
      BY <2>2, <2>6, NewRowType DEF SyncLabel, Between, Syncing
    <3> QED
      BY <2>4, <2>6, <3>1, <3>2 DEF SyncLabel, history
  <2> QED
    BY <1>7, <2>1, <2>3, <2>5, <2>6 DEF SyncStart, SyncStep
<1>8. ASSUME Retry PROVE Grows
  <2>1. CASE RetryList \/ RetrySkip \/ RetryEnd
    BY <1>1, <2>1 DEF RetryList, RetrySkip, RetryEnd, history
  <2>2. CASE RetrySend
    <3>1. PICK item \in retry.todo :
            \E result \in ExecuteResults(item.row, mailbox.creds = "ok") :
              Execute(item.id, item.row.content, result)
      BY <2>2 DEF RetrySend
    <3>2. item \in RetryItem
      BY <1>0, <2>2 DEF RetrySend, TypeOK, Idle, Retrying, Sweeping
    <3>3. item.id \in Ids /\ item.row.content \in Texts
      BY <3>2 DEF RetryItem, Row
    <3> QED
      BY <1>3, <2>2, <3>1, <3>3 DEF RetrySend
  <2>3. CASE RetryCommit
    <3>1. retry \in Retrying
      BY <1>0, <2>3 DEF TypeOK, RetryCommit, Idle, Sweeping
    <3>2. retry.item \in RetryItems
      BY <2>3 DEF RetryItems, RetryCommit
    <3>3. rows[retry.item.id] \in Row /\ retry.item.row \in Row
      BY <1>0, <3>1, <3>2 DEF QueueInv, ItemOk, TypeOK, Retrying, RetryItem
    <3> DEFINE new == RetriedRow(rows[retry.item.id], retry.item.row, retry.result)
    <3>4. /\ new \in Row /\ Same(new, rows[retry.item.id])
          /\ new.content = rows[retry.item.id].content
      <4>1. new \in Row
        BY <3>3, WrittenRowType
      <4>2. CASE retry.result = "ok"
        BY <3>3, <4>1, <4>2 DEF RetriedRow, Row, Same
      <4>3. CASE retry.result # "ok"
        BY <3>3, <4>1, <4>3 DEF RetriedRow, Row, Same
      <4> QED
        BY <4>2, <4>3
    <3>5. rows' = [rows EXCEPT ![retry.item.id] = new]
      BY <2>3 DEF RetryCommit
    <3> HIDE DEF new
    <3> QED
      BY <1>4, <2>3, <3>4, <3>5 DEF RetryCommit, history
  <2> QED
    BY <1>8, <2>1, <2>2, <2>3 DEF Retry
<1>9. ASSUME World PROVE Grows
  BY <1>1, <1>9 DEF World, SetContact, ClearContact, PlanChange, Revoke, Reconnect, Crash, history
<1>10. CASE UNCHANGED vars
  BY <1>1, <1>10 DEF vars
<1> QED
  BY <1>5, <1>6, <1>7, <1>8, <1>9, <1>10 DEF Next

\* A request the step does not touch stays in order.
LEMMA RequestKept ==
  ASSUME QueueInv, Grows, NEW v \in Reviewers,
         \/ handler'[v] = handler[v]
         \/ handler'[v] = Idle
         \/ handler[v] \in Approving /\ handler'[v] = [handler[v] EXCEPT !.live = FALSE]
  PROVE  RequestOk(v)'
<1>1. CASE handler'[v] = Idle
  BY <1>1 DEF RequestOk, Idle
<1>2. CASE handler'[v] # Idle
  <2>1. handler[v] # Idle /\ handler[v].row \in DOMAIN rows
    BY <1>2 DEF QueueInv, RequestOk, Approving, Idle
  <2>2. /\ handler'[v].row = handler[v].row /\ handler'[v].pc = handler[v].pc
        /\ handler[v].pc # "reject" => /\ handler'[v].body = handler[v].body
                                       /\ handler'[v].outcome = handler[v].outcome
                                       /\ handler'[v].result = handler[v].result
    BY <1>2 DEF Approving
  <2>3. handler[v].row \in Ids
    BY <2>1 DEF QueueInv, TypeOK
  <2>4. handler[v].pc # "reject" =>
          signed'[handler[v].row] # {} /\ rows'[handler[v].row].approval
    BY <2>1, <2>3 DEF QueueInv, RequestOk, Grows, Same
  <2>5. handler[v].pc # "reject" /\ handler[v].result = "ok" =>
          handler[v].body \in outbox'[handler[v].row].sent
    BY <2>1, <2>3 DEF QueueInv, RequestOk, Grows
  <2> QED
    BY <2>1, <2>2, <2>4, <2>5 DEF QueueInv, RequestOk, Grows
<1> QED
  BY <1>1, <1>2

\* A row the step does not touch stays in order.
LEMMA RowKept ==
  ASSUME QueueInv, Grows, NEW id \in DOMAIN rows, rows'[id] = rows[id]
  PROVE  RowOk(id)'
<1>1. id \in Ids
  BY DEF QueueInv, TypeOK
<1> QED
  BY <1>1 DEF QueueInv, RowOk, Grows

\* The sweep's list only grows when it is made, and what is on it stays in order.
LEMMA ItemsKept ==
  ASSUME QueueInv, Grows, RetryItems' \subseteq RetryItems, NEW item \in RetryItems'
  PROVE  ItemOk(item)'
<1>1. ItemOk(item) /\ item.id \in Ids
  BY DEF QueueInv, ItemOk, TypeOK
<1> QED
  BY <1>1 DEF ItemOk, Grows, Same

\* The gate holds after a step that delivers nothing.
LEMMA GateKept ==
  ASSUME QueueInv, Grows, outbox' = outbox
  PROVE  HumanGate'
<1>1. ASSUME NEW id \in Ids, outbox'[id].sent # {}
      PROVE  signed'[id] # {} /\ id \in DOMAIN rows' /\ rows'[id].approval
  BY <1>1 DEF QueueInv, HumanGate, Grows, Same
<1> QED
  BY <1>1 DEF HumanGate

\* The gate holds after a dispatch for a held row that was signed for.
LEMMA GateExecute ==
  ASSUME QueueInv, Grows, NEW id \in DOMAIN rows, NEW body \in Texts, NEW result,
         Execute(id, body, result), signed[id] # {}, rows[id].approval
  PROVE  HumanGate'
<1>1. id \in Ids /\ TypeOK
  BY DEF QueueInv, TypeOK
<1>2. \A i \in Ids \ {id} : outbox'[i] = outbox[i]
  BY <1>1, ExecuteType
<1>3. ASSUME NEW i \in Ids, outbox'[i].sent # {}
      PROVE  signed'[i] # {} /\ i \in DOMAIN rows' /\ rows'[i].approval
  <2>1. CASE i = id
    BY <1>1, <2>1 DEF Grows, Same
  <2>2. CASE i # id
    BY <1>2, <1>3, <2>2 DEF QueueInv, HumanGate, Grows, Same
  <2> QED
    BY <2>1, <2>2
<1> QED
  BY <1>3 DEF HumanGate

\* Everything but the types and the sweep's list.
Core ==
  /\ HumanGate /\ AckedRetryOk
  /\ \A id \in DOMAIN rows : RowOk(id)
  /\ \A v \in Reviewers : RequestOk(v)

\* A step that writes no row and sends nothing.
LEMMA CoreQuiet ==
  ASSUME QueueInv, Grows, rows' = rows, outbox' = outbox,
         retry' = retry \/ retry'.pc # "commit", \A v \in Reviewers : RequestOk(v)'
  PROVE  Core'
<1>1. HumanGate'
  BY GateKept
<1>2. AckedRetryOk'
  BY DEF QueueInv, AckedRetryOk
<1>3. \A id \in DOMAIN rows' : RowOk(id)'
  BY RowKept
<1> QED
  BY <1>1, <1>2, <1>3 DEF Core

\* A step that creates a row.
LEMMA CoreCreate ==
  ASSUME QueueInv, Grows, NEW row \in Row, Create(row), outbox' = outbox,
         retry' = retry, handler' = handler,
         row.retries = 0, row.status = "proposed" => row.approval,
         row.approval => row.status = "proposed" /\ row.content = Draft
  PROVE  Core'
<1>0. TypeOK
  BY DEF QueueInv
<1>1. HumanGate'
  BY GateKept
<1>2. AckedRetryOk'
  BY DEF QueueInv, AckedRetryOk
<1>3. \A id \in DOMAIN rows : RowOk(id)'
  BY <1>0, CreateType, RowKept
<1>4. PICK n \in Ids : n = NewId
  BY <1>0, CreateType
<1>5. DOMAIN rows' = DOMAIN rows \cup {n} /\ rows'[n] = row
  BY <1>0, <1>4, CreateType
<1>7. RowOk(n)'
  BY <1>5, BoundsAssumption DEF RowOk
<1>8. \A id \in DOMAIN rows' : RowOk(id)'
  BY <1>3, <1>5, <1>7
<1>6. \A v \in Reviewers : RequestOk(v)'
  BY RequestKept
<1> QED
  BY <1>1, <1>2, <1>6, <1>8 DEF Core

\* A reviewer's request keeps the invariant.
LEMMA ReviewCore ==
  ASSUME QueueInv, Grows, TypeOK', NEW v \in Reviewers, Decide(v) \/ Finish(v)
  PROVE  Core'
<1>0. TypeOK /\ handler \in [Reviewers -> {Idle} \cup Rejecting \cup Approving]
  BY DEF QueueInv, TypeOK
<1>1. ASSUME NEW id \in Ids, NEW text \in Bodies, ApproveBegin(v, id, text) PROVE Core'
  <2>1. \A w \in Reviewers \ {v} : RequestOk(w)'
    BY <1>0, <1>1, RequestKept DEF ApproveBegin
  <2>2. rows[id].approval /\ rows[id].content = Draft /\ signed'[id] # {} /\ rows' = rows
    BY <1>0, <1>1 DEF ApproveBegin, QueueInv, RowOk, TypeOK
  <2>3. RequestOk(v)'
    BY <1>0, <1>1, <2>2 DEF ApproveBegin, RequestOk, Idle
  <2> QED
    BY <1>1, <2>1, <2>3, CoreQuiet DEF ApproveBegin
<1>2. ASSUME NEW id \in Ids, RejectBegin(v, id) PROVE Core'
  <2>1. \A w \in Reviewers \ {v} : RequestOk(w)'
    BY <1>0, <1>2, RequestKept DEF RejectBegin
  <2>2. RequestOk(v)'
    BY <1>0, <1>2 DEF RejectBegin, RequestOk
  <2> QED
    BY <1>2, <2>1, <2>2, CoreQuiet DEF RejectBegin, history
<1>3. CASE ApproveUnbuildable(v)
  <2>1. \A w \in Reviewers : RequestOk(w)'
    BY <1>3, RequestKept DEF ApproveUnbuildable
  <2> QED
    BY <1>3, <2>1, CoreQuiet DEF ApproveUnbuildable, history
<1>4. CASE ApproveSend(v)
  <2>1. handler[v] \in Approving /\ handler[v] # Idle /\ handler[v].pc = "send"
    BY <1>0, <1>4 DEF ApproveSend, Rejecting, Idle
  <2>2. /\ handler[v].row \in DOMAIN rows /\ handler[v].row \in Ids
        /\ signed[handler[v].row] # {} /\ rows[handler[v].row].approval
        /\ handler[v].outcome = "approved" <=> handler[v].body = Draft
    BY <2>1 DEF QueueInv, RequestOk, TypeOK
  <2>3. handler[v].body \in Texts
    BY <2>1 DEF Approving, Texts
  <2>4. PICK result \in ExecuteResults(rows[handler[v].row], handler[v].live) :
          /\ Execute(handler[v].row, handler[v].body, result)
          /\ handler' = [handler EXCEPT ![v].pc = "commit", ![v].result = result]
    BY <1>4 DEF ApproveSend
  <2>5. HumanGate'
    BY <2>2, <2>3, <2>4, GateExecute
  <2>6. \A w \in Reviewers \ {v} : RequestOk(w)'
    BY <1>0, <2>4, RequestKept
  <2>7. handler'[v] = [handler[v] EXCEPT !.pc = "commit", !.result = result]
    BY <1>0, <2>4
  <2>8. /\ handler'[v].row = handler[v].row /\ handler'[v].body = handler[v].body
        /\ handler'[v].outcome = handler[v].outcome
        /\ handler'[v].pc = "commit" /\ handler'[v].result = result
    BY <2>1, <2>7 DEF Approving
  <2>9. result = "ok" => handler[v].body \in outbox'[handler[v].row].sent
    BY <1>0, <2>2, <2>3, <2>4, ExecuteType
  <2>10. RequestOk(v)'
    BY <1>4, <2>2, <2>8, <2>9 DEF RequestOk, ApproveSend
  <2>11. \A id \in DOMAIN rows' : RowOk(id)'
    BY <1>4, RowKept DEF ApproveSend
  <2>12. AckedRetryOk'
    BY <1>0, <1>4 DEF QueueInv, AckedRetryOk, Grows, ApproveSend, TypeOK, Retrying, RetryItem,
                      Sweeping, Idle
  <2> QED
    BY <2>5, <2>6, <2>10, <2>11, <2>12 DEF Core
<1>5. CASE ApproveCommit(v)
  <2>1. handler[v] \in Approving /\ handler[v] # Idle /\ handler[v].pc = "commit"
    BY <1>0, <1>5 DEF ApproveCommit, Rejecting, Idle
  <2>0. PICK id \in DOMAIN rows : id = handler[v].row
    BY <2>1 DEF QueueInv, RequestOk
  <2> DEFINE new == ApprovedRow(rows[id], handler[v])
  <2>2. /\ id \in DOMAIN rows /\ id \in Ids /\ rows[id] \in Row
        /\ signed[id] # {} /\ rows[id].approval /\ RowOk(id)
        /\ handler[v].outcome = "approved" <=> handler[v].body = Draft
        /\ handler[v].result = "ok" => handler[v].body \in outbox[id].sent
    BY <2>0, <2>1 DEF QueueInv, RequestOk, TypeOK
  <2>3. rows' = [rows EXCEPT ![id] = new] /\ outbox' = outbox /\ signed' = signed
        /\ retry' = retry
    BY <1>5, <2>0 DEF ApproveCommit, history
  <2>4. RowOk(id)'
    <3>1. rows'[id] = new
      BY <2>2, <2>3
    <3>2. CASE handler[v].result = "ok"
      <4>1. new.status = "executed" /\ new.retries = rows[id].retries
        BY <2>2, <3>2 DEF ApprovedRow, Row
      <4>2. new.content = IF handler[v].outcome = "edited" THEN handler[v].body ELSE rows[id].content
        BY <2>2, <3>2 DEF ApprovedRow, Row
      <4>3. handler[v].outcome \in {"approved", "edited"}
        BY <2>1 DEF Approving
      <4>4. new.content \in outbox[id].sent
        BY <2>2, <3>2, <4>2, <4>3 DEF RowOk
      <4> QED
        BY <2>2, <2>3, <3>1, <4>1, <4>4 DEF RowOk
    <3>3. CASE handler[v].result # "ok"
      <4>1. /\ new.status = "failed" /\ new.retries = rows[id].retries
            /\ new.content = rows[id].content
        BY <2>2, <3>3 DEF ApprovedRow, Row
      <4> QED
        BY <2>2, <2>3, <3>1, <4>1 DEF RowOk
    <3> QED
      BY <3>2, <3>3
  <2>5. \A i \in DOMAIN rows' : RowOk(i)'
    <3>1. ASSUME NEW i \in DOMAIN rows, i # id PROVE RowOk(i)'
      BY <2>3, <3>1, RowKept
    <3> QED
      BY <2>3, <2>4, <3>1
  <2>6. \A w \in Reviewers \ {v} : RequestOk(w)'
    BY <1>0, <1>5, RequestKept DEF ApproveCommit
  <2>7. RequestOk(v)'
    <3>1. CASE handler[v].result = "ok"
      <4>1. handler'[v] = [handler[v] EXCEPT !.pc = "record"]
        BY <1>0, <1>5, <3>1 DEF ApproveCommit
      <4>2. /\ handler'[v].row = id /\ handler'[v].body = handler[v].body
            /\ handler'[v].outcome = handler[v].outcome
            /\ handler'[v].pc = "record" /\ handler'[v].result = "ok"
        BY <2>0, <2>1, <3>1, <4>1 DEF Approving
      <4>3. id \in DOMAIN rows' /\ rows'[id].approval
        BY <2>2 DEF Grows, Same
      <4> HIDE DEF new
      <4> QED
        BY <2>2, <2>3, <3>1, <4>2, <4>3 DEF RequestOk
    <3>2. CASE handler[v].result # "ok"
      BY <1>0, <1>5, <3>2 DEF ApproveCommit, RequestOk, Idle
    <3> QED
      BY <3>1, <3>2
  <2> QED
    BY <2>3, <2>5, <2>6, <2>7, GateKept DEF Core, QueueInv, AckedRetryOk
<1>6. CASE ApproveRecord(v)
  <2>1. \A w \in Reviewers : RequestOk(w)'
    BY <1>0, <1>6, RequestKept DEF ApproveRecord
  <2> QED
    BY <1>6, <2>1, CoreQuiet DEF ApproveRecord, history
<1>7. CASE RejectCommit(v)
  <2>0. PICK id \in DOMAIN rows : id = handler[v].row
    BY <1>7 DEF QueueInv, RequestOk, RejectCommit, Idle
  <2> DEFINE new == [rows[id] EXCEPT !.status = "rejected", !.outcome = "rejected", !.decided = TRUE]
  <2>1. id \in DOMAIN rows /\ rows[id] \in Row /\ RowOk(id)
    BY DEF QueueInv, TypeOK
  <2>2. rows' = [rows EXCEPT ![id] = new] /\ outbox' = outbox /\ signed' = signed
        /\ retry' = retry
    BY <1>7, <2>0 DEF RejectCommit, history
  <2>3. /\ new.status = "rejected" /\ new.approval = rows[id].approval
        /\ new.retries = rows[id].retries /\ new.content = rows[id].content
    BY <2>1 DEF Row
  <2>4. RowOk(id)'
    <3> HIDE DEF new
    <3> QED
      BY <2>1, <2>2, <2>3 DEF RowOk
  <2>5. \A i \in DOMAIN rows' : RowOk(i)'
    <3>1. ASSUME NEW i \in DOMAIN rows, i # id PROVE RowOk(i)'
      BY <2>2, <3>1, RowKept
    <3> QED
      BY <2>2, <2>4, <3>1
  <2>6. \A w \in Reviewers : RequestOk(w)'
    BY <1>0, <1>7, RequestKept DEF RejectCommit
  <2> QED
    BY <2>2, <2>5, <2>6, GateKept DEF Core, QueueInv, AckedRetryOk
<1> QED
  BY <1>1, <1>2, <1>3, <1>4, <1>5, <1>6, <1>7 DEF Decide, Finish

\* A step of a sync keeps the invariant.
LEMMA SyncCore ==
  ASSUME QueueInv, Grows, NEW s \in Syncers, SyncStart(s) \/ SyncStep(s)
  PROVE  Core'
<1>0. TypeOK /\ (sync[s] # Idle => sync[s] \in Syncing)
  BY DEF QueueInv, TypeOK
<1>1. CASE SyncBegin(s) \/ SyncBroken(s) \/ SyncCheck(s) \/ SyncEnd(s)
  <2>1. rows' = rows /\ outbox' = outbox /\ handler' = handler
    BY <1>1 DEF SyncBegin, SyncBroken, SyncCheck, SyncEnd, history
  <2>2. retry' = retry \/ retry'.pc # "commit"
    BY <1>1 DEF SyncBegin, SyncBroken, SyncCheck, SyncEnd, NextInPass
  <2>3. \A w \in Reviewers : RequestOk(w)'
    BY <2>1, RequestKept
  <2> QED
    BY <2>1, <2>2, <2>3, CoreQuiet
<1>2. CASE SyncPropose(s)
  <2>1. PICK p \in sync[s].drafting : Create(HeldRow(p))
    BY <1>2 DEF SyncPropose
  <2>2. p \in Proposals /\ HeldRow(p) \in Row
    BY <1>0, <1>2, <2>1, NewRowType DEF SyncPropose, Syncing
  <2>3. /\ HeldRow(p).retries = 0 /\ HeldRow(p).status = "proposed"
        /\ HeldRow(p).approval /\ HeldRow(p).content = Draft
    BY DEF HeldRow
  <2> QED
    BY <1>2, <2>1, <2>2, <2>3, CoreCreate DEF SyncPropose, history
<1>3. ASSUME NEW m \in Messages, NEW type \in Types, ApplyLabel(s, m, type),
             outbox' = outbox, retry' = retry, handler' = handler
      PROVE  Core'
  <2>1. PICK ok \in BOOLEAN : Create(LabelRow(m, type, ok))
    BY <1>3 DEF ApplyLabel
  <2>2. LabelRow(m, type, ok) \in Row
    BY NewRowType
  <2>3. /\ LabelRow(m, type, ok).retries = 0 /\ LabelRow(m, type, ok).status # "proposed"
        /\ ~LabelRow(m, type, ok).approval
    BY DEF LabelRow
  <2> QED
    BY <1>3, <2>1, <2>2, <2>3, CoreCreate
<1>4. CASE SyncDowngrade(s)
  <2>1. PICK p \in sync[s].vetoed : ApplyLabel(s, p.msg, "defer")
    BY <1>4 DEF SyncDowngrade
  <2>2. p.msg \in Messages /\ "defer" \in Types
    BY <1>0, <1>4, NewRowType DEF SyncDowngrade, Syncing, Types
  <2> QED
    BY <1>3, <1>4, <2>1, <2>2 DEF SyncDowngrade, history
<1>5. CASE SyncLabel(s)
  <2>1. PICK p \in sync[s].auto : ApplyLabel(s, p.msg, p.type)
    BY <1>5 DEF SyncLabel
  <2>2. p.msg \in Messages /\ p.type \in Types
    BY <1>0, <1>5, NewRowType DEF SyncLabel, Between, Syncing
  <2> QED
    BY <1>3, <1>5, <2>1, <2>2 DEF SyncLabel, history
<1> QED
  BY <1>1, <1>2, <1>4, <1>5 DEF SyncStart, SyncStep

\* A step of the retry sweep keeps the invariant.
LEMMA RetryCore ==
  ASSUME QueueInv, Grows, Retry
  PROVE  Core'
<1>0. TypeOK
  BY DEF QueueInv
<1>1. \A w \in Reviewers : RequestOk(w)'
  BY RequestKept DEF Retry, RetryList, RetrySkip, RetrySend, RetryCommit, RetryEnd
<1>2. CASE RetryList \/ RetrySkip \/ RetryEnd
  <2>1. rows' = rows /\ outbox' = outbox
    BY <1>2 DEF RetryList, RetrySkip, RetryEnd, history
  <2>2. retry'.pc # "commit"
    <3>1. retry.pc = "sweep" => retry \in Sweeping
      BY <1>0 DEF TypeOK, Idle, Retrying
    <3> QED
      BY <1>2, <3>1 DEF RetryList, RetrySkip, RetryEnd, Idle, Sweeping
  <2> QED
    BY <1>1, <2>1, <2>2, CoreQuiet
<1>3. CASE RetrySend
  <2>1. PICK item \in retry.todo :
          \E result \in ExecuteResults(item.row, mailbox.creds = "ok") :
            /\ Execute(item.id, item.row.content, result)
            /\ retry' = [pc |-> "commit", todo |-> retry.todo \ {item}, item |-> item,
                         result |-> result]
    BY <1>3 DEF RetrySend
  <2>2. PICK result \in ExecuteResults(item.row, mailbox.creds = "ok") :
          /\ Execute(item.id, item.row.content, result)
          /\ retry' = [pc |-> "commit", todo |-> retry.todo \ {item}, item |-> item,
                       result |-> result]
    BY <2>1
  <2>3. item \in RetryItems /\ item \in RetryItem
    BY <1>0, <1>3 DEF RetrySend, RetryItems, TypeOK, Idle, Sweeping, Retrying
  <2>4. /\ item.id \in DOMAIN rows /\ signed[item.id] # {} /\ rows[item.id].approval
        /\ item.id \in Ids /\ item.row.content \in Texts
    BY <2>3 DEF QueueInv, ItemOk, RetryItem, Row
  <2>5. HumanGate'
    BY <2>2, <2>4, GateExecute
  <2>6. AckedRetryOk'
    BY <1>0, <2>2, <2>4, ExecuteType DEF AckedRetryOk
  <2>7. \A id \in DOMAIN rows' : RowOk(id)'
    BY <1>3, RowKept DEF RetrySend
  <2> QED
    BY <1>1, <2>5, <2>6, <2>7 DEF Core
<1>4. CASE RetryCommit
  <2>1. retry \in Retrying /\ retry.item \in RetryItems
    BY <1>0, <1>4 DEF TypeOK, RetryCommit, RetryItems, Idle, Sweeping
  <2>2. PICK id \in DOMAIN rows, seen \in Row : id = retry.item.id /\ seen = retry.item.row
    BY <2>1 DEF QueueInv, ItemOk, Retrying, RetryItem
  <2> DEFINE new == RetriedRow(rows[id], seen, retry.result)
  <2>3. /\ rows[id] \in Row /\ rows[id].approval /\ signed[id] # {} /\ RowOk(id)
        /\ seen.retries < MAX_SEND_RETRIES /\ seen.retries \in Nat
        /\ seen.content = Draft \/ rows[id].content # Draft
        /\ retry.result = "ok" => seen.content \in outbox[id].sent
    BY <1>0, <1>4, <2>1, <2>2
       DEF QueueInv, ItemOk, AckedRetryOk, TypeOK, RetryCommit, Row
  <2>4. rows' = [rows EXCEPT ![id] = new] /\ outbox' = outbox /\ signed' = signed
    BY <1>4, <2>2 DEF RetryCommit, history
  <2>5. RowOk(id)'
    <3>1. /\ new.retries = seen.retries + 1 /\ new.content = rows[id].content
          /\ new.approval = rows[id].approval
          /\ new.status = IF retry.result = "ok" THEN "executed" ELSE "failed"
      <4>1. CASE retry.result = "ok"
        BY <2>3, <4>1 DEF RetriedRow, Row
      <4>2. CASE retry.result # "ok"
        BY <2>3, <4>2 DEF RetriedRow, Row
      <4> QED
        BY <4>1, <4>2
    <3>2. rows'[id] = new
      BY <2>4
    <3>3. new.retries <= MAX_SEND_RETRIES
      BY <2>3, <3>1, BoundsAssumption
    <3>4. retry.result = "ok" => rows[id].content \in outbox[id].sent
      BY <2>3 DEF RowOk
    <3> HIDE DEF new
    <3> QED
      BY <2>3, <2>4, <3>1, <3>2, <3>3, <3>4 DEF RowOk
  <2>6. \A i \in DOMAIN rows' : RowOk(i)'
    <3>1. ASSUME NEW i \in DOMAIN rows, i # id PROVE RowOk(i)'
      BY <2>4, <3>1, RowKept
    <3> QED
      BY <2>4, <2>5, <3>1
  <2>7. AckedRetryOk'
    BY <1>4 DEF RetryCommit, AckedRetryOk
  <2> QED
    BY <1>1, <2>4, <2>6, <2>7, GateKept DEF Core
<1> QED
  BY <1>2, <1>3, <1>4 DEF Retry

\* The outside world keeps the invariant.
LEMMA WorldCore ==
  ASSUME QueueInv, Grows, World
  PROVE  Core'
<1>0. TypeOK
  BY DEF QueueInv
<1>1. rows' = rows /\ outbox' = outbox
  BY DEF World, SetContact, ClearContact, PlanChange, Revoke, Reconnect, Crash, history
<1>2. retry' = retry \/ retry'.pc # "commit"
  BY DEF World, SetContact, ClearContact, PlanChange, Revoke, Reconnect, Crash, Idle
<1>3. ASSUME NEW w \in Reviewers PROVE RequestOk(w)'
  <2>1. CASE Revoke
    <3>1. handler[w].pc = "send" => handler[w] \in Approving
      BY <1>0 DEF TypeOK, Idle, Rejecting
    <3> QED
      BY <2>1, <3>1, RequestKept DEF Revoke
  <2>2. CASE ~Revoke
    BY <2>2, RequestKept DEF World, SetContact, ClearContact, PlanChange, Reconnect, Crash
  <2> QED
    BY <2>1, <2>2
<1> QED
  BY <1>1, <1>2, <1>3, CoreQuiet

\* Only the listing puts rows on the sweep's list.
LEMMA ItemsShrink ==
  ASSUME TypeOK, [Next]_vars, ~RetryList
  PROVE  RetryItems' \subseteq RetryItems
<1>1. CASE retry' = retry
  BY <1>1 DEF RetryItems
<1>2. CASE retry' = Idle \/ retry' = [pc |-> "due"]
  BY <1>2 DEF RetryItems, Idle
<1>3. CASE RetrySkip \/ RetrySend
  <2>1. retry \in Sweeping
    BY <1>3 DEF TypeOK, RetrySkip, RetrySend, Idle, Retrying
  <2>2. RetryItems = retry.todo
    BY <2>1 DEF RetryItems, Sweeping
  <2>3. CASE RetrySkip
    BY <2>1, <2>2, <2>3 DEF RetrySkip, RetryItems, Sweeping
  <2>4. CASE RetrySend
    <3>1. PICK item \in retry.todo : \E result :
            retry' = [pc |-> "commit", todo |-> retry.todo \ {item}, item |-> item,
                      result |-> result]
      BY <2>4 DEF RetrySend
    <3> QED
      BY <2>2, <3>1 DEF RetryItems
  <2> QED
    BY <1>3, <2>3, <2>4
<1>4. CASE RetryCommit
  BY <1>4 DEF RetryCommit, RetryItems
<1>5. ASSUME NEW v \in Reviewers, Decide(v) \/ Finish(v) PROVE retry' = retry
  BY <1>5 DEF Decide, Finish, ApproveBegin, RejectBegin, ApproveUnbuildable, ApproveSend,
              ApproveCommit, ApproveRecord, RejectCommit
<1>6. ASSUME NEW s \in Syncers, SyncStart(s) \/ SyncStep(s)
      PROVE  retry' = retry \/ retry' = [pc |-> "due"]
  BY <1>6 DEF SyncStart, SyncStep, SyncBegin, SyncBroken, SyncCheck, SyncPropose,
              SyncDowngrade, SyncLabel, SyncEnd, NextInPass
<1>7. ASSUME World PROVE retry' = retry \/ retry' = Idle
  BY <1>7 DEF World, SetContact, ClearContact, PlanChange, Revoke, Reconnect, Crash
<1> QED
  BY <1>1, <1>2, <1>3, <1>4, <1>5, <1>6, <1>7 DEF Next, Retry, RetryEnd, vars

\* What the sweep lists is in order.
LEMMA ListedOk ==
  ASSUME QueueInv, RetryList, NEW item \in RetryItems'
  PROVE  ItemOk(item)'
<1>1. RetryItems' = {[id |-> i, row |-> rows[i]] : i \in {j \in DOMAIN rows : Retryable(rows[j])}}
  BY DEF RetryList, RetryItems
<1>2. PICK i \in DOMAIN rows : Retryable(rows[i]) /\ item = [id |-> i, row |-> rows[i]]
  BY <1>1
<1>3. signed[i] # {} /\ rows[i].approval /\ rows[i].retries < MAX_SEND_RETRIES
  BY <1>2 DEF QueueInv, RowOk, Retryable
<1> QED
  BY <1>2, <1>3 DEF ItemOk, RetryList, history

\* QueueInv is inductive.
LEMMA QueueNext == ASSUME QueueInv, [Next]_vars PROVE QueueInv'
<1>1. TypeOK' /\ Grows
  BY TypeNext, GrowsNext
<1>2. Core'
  <2>1. CASE UNCHANGED vars
    <3>1. \A w \in Reviewers : RequestOk(w)'
      BY <1>1, <2>1, RequestKept DEF vars
    <3> QED
      BY <1>1, <2>1, <3>1, CoreQuiet DEF vars
  <2> QED
    BY <1>1, <2>1, ReviewCore, SyncCore, RetryCore, WorldCore DEF Next
<1>3. \A item \in RetryItems' : ItemOk(item)'
  <2>1. CASE RetryList
    BY <2>1, ListedOk
  <2>2. CASE ~RetryList
    <3>1. RetryItems' \subseteq RetryItems
      BY <2>2, ItemsShrink DEF QueueInv
    <3> QED
      BY <1>1, <3>1, ItemsKept
  <2> QED
    BY <2>1, <2>2
<1> QED
  BY <1>1, <1>2, <1>3 DEF QueueInv, Core

----------------------------------------------------------------------------
(* What a sync and the text of a reply come to, for any number of threads. *)

\* A proposal is still to do, or has its row: one of its type, or the "defer" row it
\* was downgraded to.
HasRow(s, p) ==
  \E i \in DOMAIN rows :
    /\ rows[i].msg = p.msg
    /\ \/ rows[i].type = p.type
       \/ rows[i].type = "defer" /\ <<p.type, SenderRole[p.msg]>> \in sync[s].suppressed
ToDo(s) == sync[s].todo \cup sync[s].drafting \cup sync[s].vetoed \cup sync[s].auto

\* A running sync: what it queued as a label needs no approval, at most one proposal is
\* being drafted or downgraded, and none is lost.
SyncOk(s) ==
  sync[s] # Idle =>
    /\ \A p \in sync[s].auto : ~NeedsApproval(p.type)
    /\ \A p, q \in sync[s].drafting \cup sync[s].vetoed : p = q
    /\ \A p \in sync[s].vetoed : <<p.type, SenderRole[p.msg]>> \in sync[s].suppressed
    /\ \A p \in Proposals : p \in ToDo(s) \/ HasRow(s, p)

\* A reply is a held row.  Until it is retried, what was sent of it, or put in the place
\* of its draft, is owed, or about to be recorded as such.
Recording(id) ==
  \E v \in Reviewers : handler[v].pc = "record" /\ handler[v].row = id /\ handler[v].body = rows[id].content
ReplyOk(id) ==
  rows[id].type = "reply" =>
    /\ rows[id].approval
    /\ crashes = 0 /\ rows[id].retries = 0 /\ (rows[id].status = "executed" \/ rows[id].content # Draft) =>
         Recording(id) \/ <<rows[id].msg, rows[id].content>> \in owed

LoopInv == (\A s \in Syncers : SyncOk(s)) /\ (\A id \in DOMAIN rows : ReplyOk(id))

\* What a sync has, or has still to do, it keeps.
LEMMA HasRowKept ==
  ASSUME Grows, NEW s, NEW p, sync'[s].suppressed = sync[s].suppressed, HasRow(s, p)
  PROVE  HasRow(s, p)'
<1>1. PICK i \in DOMAIN rows :
        /\ rows[i].msg = p.msg
        /\ \/ rows[i].type = p.type
           \/ rows[i].type = "defer" /\ <<p.type, SenderRole[p.msg]>> \in sync[s].suppressed
  BY DEF HasRow
<1>2. i \in DOMAIN rows' /\ rows'[i].msg = rows[i].msg /\ rows'[i].type = rows[i].type
  BY DEF Grows, Same
<1> QED
  BY <1>1, <1>2 DEF HasRow

\* A sync the step does not touch, or ends, stays in order.
LEMMA SyncKept ==
  ASSUME QueueInv, Grows, NEW s \in Syncers, SyncOk(s),
         \/ sync'[s] = sync[s]
         \/ sync'[s] = Idle
         \/ sync[s] # Idle /\ sync'[s] = [sync[s] EXCEPT !.live = FALSE]
  PROVE  SyncOk(s)'
<1>1. CASE sync'[s] = Idle
  BY <1>1 DEF SyncOk
<1>2. CASE sync'[s] # Idle
  <2>1. sync[s] # Idle /\ sync[s] \in Syncing
    BY <1>2 DEF QueueInv, TypeOK
  <2>2. /\ sync'[s].todo = sync[s].todo /\ sync'[s].drafting = sync[s].drafting
        /\ sync'[s].vetoed = sync[s].vetoed /\ sync'[s].auto = sync[s].auto
        /\ sync'[s].suppressed = sync[s].suppressed
    BY <1>2, <2>1 DEF Syncing
  <2> QED
    BY <2>1, <2>2, HasRowKept DEF SyncOk, ToDo
<1> QED
  BY <1>1, <1>2

\* The row a sync creates for a proposal is the proposal's row.
LEMMA CreatedHasRow ==
  ASSUME TypeOK, NEW s, NEW p, NEW row \in Row, Create(row), row.msg = p.msg,
         \/ row.type = p.type
         \/ row.type = "defer" /\ <<p.type, SenderRole[p.msg]>> \in sync'[s].suppressed
  PROVE  HasRow(s, p)'
<1>1. NewId \in DOMAIN rows' /\ rows'[NewId] = row
  BY CreateType
<1> QED
  BY <1>1 DEF HasRow

\* The sync that takes a step loses no proposal by it.
LEMMA SyncStepOk ==
  ASSUME QueueInv, Grows, NEW s \in Syncers, SyncOk(s), SyncStart(s) \/ SyncStep(s)
  PROVE  SyncOk(s)'
<1>0. TypeOK /\ s \in DOMAIN sync /\ (sync[s] # Idle => sync[s] \in Syncing)
  BY DEF QueueInv, TypeOK
<1>1. CASE SyncBegin(s)
  <2>1. /\ sync'[s].todo = Proposals /\ sync'[s].drafting = {}
        /\ sync'[s].vetoed = {} /\ sync'[s].auto = {}
    BY <1>0, <1>1 DEF SyncBegin
  <2> QED
    BY <2>1 DEF SyncOk, ToDo
<1>2. CASE SyncBroken(s) \/ SyncEnd(s)
  BY <1>0, <1>2, SyncKept DEF SyncBroken, SyncEnd
<1>3. CASE SyncCheck(s)
  <2>1. PICK p \in NextProposals(sync[s].todo) :
          sync' = [sync EXCEPT ![s] = Turn(sync[s], p, ActiveTypes(p.msg))]
    BY <1>3 DEF SyncCheck
  <2>2. /\ sync[s] # Idle /\ sync[s] \in Syncing
        /\ sync[s].drafting = {} /\ sync[s].vetoed = {}
    BY <1>0, <1>3 DEF SyncCheck, Between
  <2> DEFINE new == Turn(sync[s], p, ActiveTypes(p.msg))
  <2>3. sync'[s] = new /\ rows' = rows
    BY <1>0, <1>3, <2>1 DEF SyncCheck
  <2>4. /\ new.todo = sync[s].todo \ {p} /\ new.suppressed = sync[s].suppressed
        /\ sync[s].auto \subseteq new.auto
        /\ \A q \in new.auto \ sync[s].auto : q = p /\ ~NeedsApproval(p.type)
        /\ \A q \in new.drafting \cup new.vetoed : q = p
        /\ new.vetoed # {} => <<p.type, SenderRole[p.msg]>> \in sync[s].suppressed
        /\ \/ p \in new.auto \cup new.drafting \cup new.vetoed
           \/ p.type \in ActiveTypes(p.msg)
           \/ /\ "defer" \in ActiveTypes(p.msg)
              /\ <<p.type, SenderRole[p.msg]>> \in sync[s].suppressed
    <3>1. CASE p.type \in ActiveTypes(p.msg)
      BY <2>2, <3>1 DEF Turn, Syncing
    <3>2. CASE p.type \notin ActiveTypes(p.msg) /\ ~NeedsApproval(p.type)
      BY <2>2, <3>2 DEF Turn, Syncing
    <3>3. CASE /\ p.type \notin ActiveTypes(p.msg) /\ NeedsApproval(p.type)
               /\ <<p.type, SenderRole[p.msg]>> \notin sync[s].suppressed
      BY <2>2, <3>3 DEF Turn, Syncing
    <3>4. CASE /\ p.type \notin ActiveTypes(p.msg) /\ NeedsApproval(p.type)
               /\ <<p.type, SenderRole[p.msg]>> \in sync[s].suppressed
      BY <2>2, <3>4 DEF Turn, Syncing
    <3> QED
      BY <3>1, <3>2, <3>3, <3>4
  <2> HIDE DEF new
  <2>5. ASSUME NEW type \in ActiveTypes(p.msg) PROVE \E i \in DOMAIN rows : rows[i].msg = p.msg /\ rows[i].type = type
    BY DEF ActiveTypes
  <2>6. p \in ToDo(s)' \/ HasRow(s, p)'
    BY <2>3, <2>4, <2>5 DEF ToDo, HasRow
  <2>7. ASSUME NEW q \in Proposals, q # p PROVE q \in ToDo(s)' \/ HasRow(s, q)'
    <3>1. CASE HasRow(s, q)
      BY <2>3, <2>4, <3>1, HasRowKept
    <3>2. CASE q \in ToDo(s)
      BY <2>2, <2>3, <2>4, <2>7, <3>2 DEF ToDo
    <3> QED
      BY <2>2, <2>7, <3>1, <3>2 DEF SyncOk
  <2> QED
    BY <2>2, <2>3, <2>4, <2>6, <2>7 DEF SyncOk
<1>4. CASE SyncPropose(s)
  <2>1. PICK p \in sync[s].drafting : Create(HeldRow(p))
    BY <1>4 DEF SyncPropose
  <2>2. /\ sync[s] # Idle /\ sync[s] \in Syncing
        /\ sync'[s] = [sync[s] EXCEPT !.drafting = {}]
    BY <1>0, <1>4 DEF SyncPropose
  <2>3. /\ sync'[s].todo = sync[s].todo /\ sync'[s].drafting = {}
        /\ sync'[s].vetoed = sync[s].vetoed /\ sync'[s].auto = sync[s].auto
        /\ sync'[s].suppressed = sync[s].suppressed
    BY <2>2 DEF Syncing
  <2>4. HeldRow(p) \in Row /\ HeldRow(p).msg = p.msg /\ HeldRow(p).type = p.type
    BY <2>1, <2>2, NewRowType DEF Syncing, HeldRow
  <2>5. HasRow(s, p)'
    BY <1>0, <2>1, <2>4, CreatedHasRow
  <2>6. ASSUME NEW q \in Proposals PROVE q \in ToDo(s)' \/ HasRow(s, q)'
    <3>1. HasRow(s, q) \/ q \in ToDo(s)' \/ q = p
      BY <2>1, <2>2, <2>3 DEF SyncOk, ToDo
    <3> QED
      BY <2>3, <2>5, <3>1, HasRowKept
  <2> QED
    BY <2>2, <2>3, <2>6 DEF SyncOk
<1>5. CASE SyncDowngrade(s)
  <2>1. PICK p \in sync[s].vetoed : ApplyLabel(s, p.msg, "defer")
    BY <1>5 DEF SyncDowngrade
  <2>2. /\ sync[s] # Idle /\ sync[s] \in Syncing
        /\ sync'[s] = [sync[s] EXCEPT !.vetoed = {}]
    BY <1>0, <1>5 DEF SyncDowngrade
  <2>3. /\ sync'[s].todo = sync[s].todo /\ sync'[s].drafting = sync[s].drafting
        /\ sync'[s].vetoed = {} /\ sync'[s].auto = sync[s].auto
        /\ sync'[s].suppressed = sync[s].suppressed
    BY <2>2 DEF Syncing
  <2>4. PICK ok \in BOOLEAN : Create(LabelRow(p.msg, "defer", ok))
    BY <2>1 DEF ApplyLabel
  <2>5. /\ LabelRow(p.msg, "defer", ok) \in Row /\ LabelRow(p.msg, "defer", ok).msg = p.msg
        /\ LabelRow(p.msg, "defer", ok).type = "defer"
    BY <2>1, <2>2, NewRowType DEF Syncing, LabelRow, Types
  <2>6. HasRow(s, p)'
    <3>1. <<p.type, SenderRole[p.msg]>> \in sync'[s].suppressed
      BY <2>1, <2>2, <2>3 DEF SyncOk
    <3> QED
      BY <1>0, <2>4, <2>5, <3>1, CreatedHasRow
  <2>7. ASSUME NEW q \in Proposals PROVE q \in ToDo(s)' \/ HasRow(s, q)'
    <3>1. HasRow(s, q) \/ q \in ToDo(s)' \/ q = p
      BY <2>1, <2>2, <2>3 DEF SyncOk, ToDo
    <3> QED
      BY <2>3, <2>6, <3>1, HasRowKept
  <2> QED
    BY <2>2, <2>3, <2>7 DEF SyncOk
<1>6. CASE SyncLabel(s)
  <2>1. PICK p \in sync[s].auto : /\ ApplyLabel(s, p.msg, p.type)
                                 /\ sync' = [sync EXCEPT ![s].auto = sync[s].auto \ {p}]
    BY <1>6 DEF SyncLabel
  <2>2. /\ sync[s] # Idle /\ sync[s] \in Syncing
        /\ sync'[s] = [sync[s] EXCEPT !.auto = sync[s].auto \ {p}]
    BY <1>0, <1>6, <2>1 DEF SyncLabel, Between
  <2>3. /\ sync'[s].todo = sync[s].todo /\ sync'[s].drafting = sync[s].drafting
        /\ sync'[s].vetoed = sync[s].vetoed /\ sync'[s].auto = sync[s].auto \ {p}
        /\ sync'[s].suppressed = sync[s].suppressed
    BY <2>2 DEF Syncing
  <2>4. PICK ok \in BOOLEAN : Create(LabelRow(p.msg, p.type, ok))
    BY <2>1 DEF ApplyLabel
  <2>5. /\ LabelRow(p.msg, p.type, ok) \in Row /\ LabelRow(p.msg, p.type, ok).msg = p.msg
        /\ LabelRow(p.msg, p.type, ok).type = p.type
    BY <2>1, <2>2, NewRowType DEF Syncing, LabelRow
  <2>6. HasRow(s, p)'
    BY <1>0, <2>4, <2>5, CreatedHasRow
  <2>7. ASSUME NEW q \in Proposals PROVE q \in ToDo(s)' \/ HasRow(s, q)'
    <3>1. HasRow(s, q) \/ q \in ToDo(s)' \/ q = p
      BY <2>1, <2>2, <2>3 DEF SyncOk, ToDo
    <3> QED
      BY <2>3, <2>6, <3>1, HasRowKept
  <2> QED
    BY <2>2, <2>3, <2>7 DEF SyncOk
<1> QED
  BY <1>1, <1>2, <1>3, <1>4, <1>5, <1>6 DEF SyncStart, SyncStep

\* No step makes a sync lose a proposal.
LEMMA LoopSyncs ==
  ASSUME QueueInv, Grows, LoopInv, [Next]_vars, NEW s \in Syncers
  PROVE  SyncOk(s)'
<1>0. SyncOk(s) /\ sync \in [Syncers -> {Idle} \cup Syncing]
  BY DEF LoopInv, QueueInv, TypeOK
<1>1. ASSUME NEW r \in Syncers, SyncStart(r) \/ SyncStep(r) PROVE SyncOk(s)'
  <2>1. CASE r = s
    BY <1>0, <1>1, <2>1, SyncStepOk
  <2>2. CASE r # s
    <3>1. sync'[s] = sync[s]
      BY <1>0, <1>1, <2>2 DEF SyncStart, SyncStep, SyncBegin, SyncBroken, SyncCheck,
                              SyncPropose, SyncDowngrade, SyncLabel, SyncEnd
    <3> QED
      BY <1>0, <3>1, SyncKept
  <2> QED
    BY <2>1, <2>2
<1>2. ASSUME NEW v \in Reviewers, Decide(v) \/ Finish(v) PROVE sync' = sync
  BY <1>2 DEF Decide, Finish, ApproveBegin, RejectBegin, ApproveUnbuildable, ApproveSend,
              ApproveCommit, ApproveRecord, RejectCommit
<1>3. ASSUME Retry PROVE sync' = sync
  BY <1>3 DEF Retry, RetryList, RetrySkip, RetrySend, RetryCommit, RetryEnd
<1>4. CASE World
  BY <1>0, <1>4, SyncKept DEF World, SetContact, ClearContact, PlanChange, Revoke, Reconnect, Crash
<1>5. CASE UNCHANGED vars
  BY <1>0, <1>5, SyncKept DEF vars
<1> QED
  BY <1>0, <1>1, <1>2, <1>3, <1>4, <1>5, SyncKept DEF Next

\* A reply the step does not touch stays owed, or about to be.
LEMMA ReplyKept ==
  ASSUME QueueInv, Grows, NEW id \in DOMAIN rows, ReplyOk(id),
         rows'[id].retries = 0 => rows[id].retries = 0,
         rows'[id].content = rows[id].content,
         rows'[id].status = "executed" => rows[id].status = "executed",
         crashes' = 0 => /\ crashes = 0
                         /\ Recording(id) => Recording(id)' \/ <<rows'[id].msg, rows'[id].content>> \in owed',
         owed \subseteq owed'
  PROVE  ReplyOk(id)'
<1>1. Same(rows'[id], rows[id])
  BY DEF Grows
<1> QED
  BY <1>1 DEF ReplyOk, Same

\* A request that is about to record its promises stays so while others act.
LEMMA RecordingKept ==
  ASSUME NEW id \in DOMAIN rows, Recording(id), rows'[id].content = rows[id].content,
         \A v \in Reviewers : handler[v].pc = "record" => handler'[v] = handler[v]
  PROVE  Recording(id)'
BY DEF Recording

\* A step of no reviewer's request, of which the table's old rows take no notice.
LEMMA RepliesQuiet ==
  ASSUME QueueInv, Grows, LoopInv, \A id \in DOMAIN rows : rows'[id] = rows[id],
         owed' = owed, crashes' = crashes,
         \A v \in Reviewers : handler[v].pc = "record" => handler'[v] = handler[v],
         NEW id \in DOMAIN rows
  PROVE  ReplyOk(id)'
BY ReplyKept, RecordingKept DEF LoopInv

\* A row a sync creates is a reply only if it is held, with its draft.
LEMMA CreatedReply ==
  ASSUME QueueInv, Grows, LoopInv, NEW row \in Row, Create(row),
         row.type = "reply" => row.approval /\ row.status = "proposed" /\ row.content = Draft,
         owed' = owed, crashes' = crashes, handler' = handler
  PROVE  \A id \in DOMAIN rows' : ReplyOk(id)'
<1>1. PICK n \in Ids : n = NewId
  BY CreateType DEF QueueInv
<1>2. /\ DOMAIN rows' = DOMAIN rows \cup {n} /\ rows'[n] = row
      /\ \A i \in DOMAIN rows : rows'[i] = rows[i]
  BY <1>1, CreateType DEF QueueInv
<1>3. \A id \in DOMAIN rows : ReplyOk(id)'
  BY <1>2, RepliesQuiet
<1>4. ReplyOk(n)'
  BY <1>2 DEF ReplyOk
<1> QED
  BY <1>2, <1>3, <1>4

\* A reviewer's request leaves no promise of its reply unrecorded.
LEMMA ReviewReplies ==
  ASSUME QueueInv, Grows, LoopInv, NEW v \in Reviewers, Decide(v) \/ Finish(v)
  PROVE  \A id \in DOMAIN rows' : ReplyOk(id)'
<1>0. TypeOK /\ handler \in [Reviewers -> {Idle} \cup Rejecting \cup Approving]
  BY DEF QueueInv, TypeOK
<1>1. ASSUME NEW id \in Ids, (\E text \in Bodies : ApproveBegin(v, id, text)) \/ RejectBegin(v, id)
      PROVE  \A i \in DOMAIN rows' : ReplyOk(i)'
  <2>1. rows' = rows /\ owed' = owed /\ crashes' = crashes
    BY <1>1 DEF ApproveBegin, RejectBegin
  <2>2. \A w \in Reviewers : handler[w].pc = "record" => handler'[w] = handler[w]
    BY <1>0, <1>1 DEF ApproveBegin, RejectBegin, Idle
  <2> QED
    BY <2>1, <2>2, RepliesQuiet
<1>2. CASE ApproveUnbuildable(v)
  BY <1>2, RepliesQuiet DEF ApproveUnbuildable
<1>3. CASE ApproveSend(v)
  <2>1. rows' = rows /\ owed' = owed /\ crashes' = crashes
    BY <1>3 DEF ApproveSend
  <2>2. \A w \in Reviewers : handler[w].pc = "record" => handler'[w] = handler[w]
    BY <1>0, <1>3 DEF ApproveSend
  <2> QED
    BY <2>1, <2>2, RepliesQuiet
<1>4. CASE ApproveCommit(v)
  <2>1. handler[v] \in Approving /\ handler[v] # Idle /\ handler[v].pc = "commit"
    BY <1>0, <1>4 DEF ApproveCommit, Rejecting, Idle
  <2>2. PICK id \in DOMAIN rows : id = handler[v].row
    BY <2>1 DEF QueueInv, RequestOk
  <2> DEFINE new == ApprovedRow(rows[id], handler[v])
  <2>3. rows' = [rows EXCEPT ![id] = new] /\ owed' = owed /\ crashes' = crashes
    BY <1>4, <2>2 DEF ApproveCommit
  <2>4. \A w \in Reviewers : handler[w].pc = "record" => handler'[w] = handler[w]
    BY <1>0, <1>4 DEF ApproveCommit
  <2>5. ASSUME NEW i \in DOMAIN rows, i # id PROVE ReplyOk(i)'
    BY <2>3, <2>4, <2>5, ReplyKept, RecordingKept DEF LoopInv
  <2>6. rows'[id] = new /\ rows[id] \in Row /\ Same(rows'[id], rows[id]) /\ ReplyOk(id)
    BY <1>0, <2>3 DEF TypeOK, Grows, LoopInv
  <2>7. ASSUME handler[v].result = "ok" PROVE ReplyOk(id)'
    <3>1. handler'[v] = [handler[v] EXCEPT !.pc = "record"]
      BY <1>0, <1>4, <2>7 DEF ApproveCommit
    <3>2. handler'[v].row = id /\ handler'[v].body = handler[v].body /\ handler'[v].pc = "record"
      BY <2>1, <2>2, <3>1 DEF Approving
    <3>3. /\ new.content = IF handler[v].outcome = "edited" THEN handler[v].body ELSE rows[id].content
          /\ new.retries = rows[id].retries
      BY <2>6, <2>7 DEF ApprovedRow, Row
    <3>4. CASE handler[v].body = rows'[id].content
      <4>1. Recording(id)'
        BY <3>2, <3>4 DEF Recording
      <4> QED
        BY <2>6, <4>1 DEF ReplyOk, Same
    <3>5. CASE handler[v].body # rows'[id].content
      <4>1. rows'[id].content = rows[id].content /\ rows[id].content # Draft
        <5>1. handler[v].outcome # "edited"
          BY <2>6, <3>3, <3>5
        <5>2. handler[v].outcome = "approved"
          BY <2>1, <5>1 DEF Approving
        <5>3. handler[v].body = Draft
          BY <2>1, <5>2 DEF QueueInv, RequestOk
        <5> QED
          BY <2>6, <3>3, <3>5, <5>1, <5>3
      <4>2. Recording(id) => Recording(id)'
        BY <2>4, <4>1, RecordingKept
      <4> HIDE DEF new
      <4> QED
        BY <2>3, <2>6, <3>3, <4>1, <4>2 DEF ReplyOk, Same
    <3> QED
      BY <3>4, <3>5
  <2>8. ASSUME handler[v].result # "ok" PROVE ReplyOk(id)'
    <3>1. /\ new.status = "failed" /\ new.retries = rows[id].retries
          /\ new.content = rows[id].content
      BY <2>6, <2>8 DEF ApprovedRow, Row
    <3> HIDE DEF new
    <3> QED
      BY <2>3, <2>4, <2>6, <3>1, ReplyKept, RecordingKept
  <2> QED
    BY <2>3, <2>5, <2>7, <2>8
<1>5. CASE ApproveRecord(v)
  <2>1. rows' = rows /\ crashes' = crashes /\ owed \subseteq owed'
    BY <1>5 DEF ApproveRecord
  <2>2. ASSUME NEW i \in DOMAIN rows, rows[i].type = "reply", Recording(i)
        PROVE  Recording(i)' \/ <<rows'[i].msg, rows'[i].content>> \in owed'
    <3>1. PICK w \in Reviewers : /\ handler[w].pc = "record" /\ handler[w].row = i
                                 /\ handler[w].body = rows[i].content
      BY <2>2 DEF Recording
    <3>2. CASE w = v
      BY <1>5, <2>1, <2>2, <3>1, <3>2 DEF ApproveRecord
    <3>3. CASE w # v
      <4>1. handler'[w] = handler[w]
        BY <1>0, <1>5, <3>3 DEF ApproveRecord
      <4> QED
        BY <2>1, <3>1, <4>1 DEF Recording
    <3> QED
      BY <3>2, <3>3
  <2>3. ASSUME NEW i \in DOMAIN rows PROVE ReplyOk(i)'
    <3>1. ReplyOk(i)
      BY DEF LoopInv
    <3> QED
      BY <2>1, <2>2, <3>1 DEF ReplyOk
  <2> QED
    BY <2>1, <2>3
<1>6. CASE RejectCommit(v)
  <2>1. PICK id \in DOMAIN rows : id = handler[v].row
    BY <1>6 DEF QueueInv, RequestOk, RejectCommit, Idle
  <2> DEFINE new == [rows[id] EXCEPT !.status = "rejected", !.outcome = "rejected", !.decided = TRUE]
  <2>2. rows' = [rows EXCEPT ![id] = new] /\ owed' = owed /\ crashes' = crashes
    BY <1>6, <2>1 DEF RejectCommit
  <2>3. /\ new.status = "rejected" /\ new.retries = rows[id].retries
        /\ new.content = rows[id].content
    BY <1>0 DEF TypeOK, Row
  <2>4. \A w \in Reviewers : handler[w].pc = "record" => handler'[w] = handler[w]
    BY <1>0, <1>6 DEF RejectCommit
  <2> HIDE DEF new
  <2>5. ASSUME NEW i \in DOMAIN rows PROVE ReplyOk(i)'
    BY <2>2, <2>3, <2>4, ReplyKept, RecordingKept DEF LoopInv
  <2> QED
    BY <2>2, <2>5
<1> QED
  BY <1>1, <1>2, <1>3, <1>4, <1>5, <1>6 DEF Decide, Finish

\* Syncs have no part in replies that were sent.
LEMMA SyncReplies ==
  ASSUME QueueInv, Grows, LoopInv, NEW s \in Syncers, SyncStart(s) \/ SyncStep(s)
  PROVE  \A id \in DOMAIN rows' : ReplyOk(id)'
<1>0. TypeOK /\ (sync[s] # Idle => sync[s] \in Syncing)
  BY DEF QueueInv, TypeOK
<1>1. CASE rows' = rows /\ handler' = handler /\ owed' = owed /\ crashes' = crashes
  BY <1>1, RepliesQuiet
<1>2. CASE SyncPropose(s)
  <2>1. PICK p \in sync[s].drafting : Create(HeldRow(p))
    BY <1>2 DEF SyncPropose
  <2>2. HeldRow(p) \in Row
    BY <1>0, <1>2, <2>1, NewRowType DEF SyncPropose, Syncing
  <2>3. HeldRow(p).approval /\ HeldRow(p).status = "proposed" /\ HeldRow(p).content = Draft
    BY DEF HeldRow
  <2> QED
    BY <1>2, <2>1, <2>2, <2>3, CreatedReply DEF SyncPropose
<1>3. ASSUME NEW m \in Messages, NEW type \in Types, ApplyLabel(s, m, type), type # "reply",
             owed' = owed, crashes' = crashes, handler' = handler
      PROVE  \A id \in DOMAIN rows' : ReplyOk(id)'
  <2>1. PICK ok \in BOOLEAN : Create(LabelRow(m, type, ok))
    BY <1>3 DEF ApplyLabel
  <2>2. LabelRow(m, type, ok) \in Row /\ LabelRow(m, type, ok).type = type
    BY NewRowType DEF LabelRow
  <2> QED
    BY <1>3, <2>1, <2>2, CreatedReply
<1>4. CASE SyncDowngrade(s)
  <2>1. PICK p \in sync[s].vetoed : ApplyLabel(s, p.msg, "defer")
    BY <1>4 DEF SyncDowngrade
  <2>2. p.msg \in Messages /\ "defer" \in Types
    BY <1>0, <1>4, <2>1, NewRowType DEF SyncDowngrade, Syncing, Types
  <2> QED
    BY <1>3, <1>4, <2>1, <2>2 DEF SyncDowngrade
<1>5. CASE SyncLabel(s)
  <2>1. PICK p \in sync[s].auto : ApplyLabel(s, p.msg, p.type)
    BY <1>5 DEF SyncLabel
  <2>2. p.msg \in Messages /\ p.type \in Types /\ sync[s] # Idle
    BY <1>0, <1>5, <2>1, NewRowType DEF SyncLabel, Between, Syncing
  <2>3. p.type # "reply"
    BY <2>1, <2>2 DEF LoopInv, SyncOk, NeedsApproval
  <2> QED
    BY <1>3, <1>5, <2>1, <2>2, <2>3 DEF SyncLabel
<1> QED
  BY <1>1, <1>2, <1>4, <1>5
     DEF SyncStart, SyncBegin, SyncBroken, SyncStep, SyncCheck, SyncEnd

\* Retries and the outside world leave no promise unrecorded, unless a restart does.
LEMMA OtherReplies ==
  ASSUME QueueInv, Grows, LoopInv, Retry \/ World
  PROVE  \A id \in DOMAIN rows' : ReplyOk(id)'
<1>0. TypeOK
  BY DEF QueueInv
<1>1. CASE rows' = rows /\ handler' = handler /\ owed' = owed /\ crashes' = crashes
  BY <1>1, RepliesQuiet
<1>2. CASE RetryCommit
  <2>1. retry \in Retrying /\ retry.item \in RetryItems
    BY <1>0, <1>2 DEF TypeOK, RetryCommit, RetryItems, Idle, Sweeping
  <2>2. PICK id \in DOMAIN rows, seen \in Row : id = retry.item.id /\ seen = retry.item.row
    BY <2>1 DEF QueueInv, ItemOk, Retrying, RetryItem
  <2> DEFINE new == RetriedRow(rows[id], seen, retry.result)
  <2>3. /\ rows' = [rows EXCEPT ![id] = new] /\ owed' = owed /\ crashes' = crashes
        /\ handler' = handler
    BY <1>2, <2>2 DEF RetryCommit
  <2>4. new.retries # 0
    <3>1. rows[id] \in Row /\ seen.retries \in Nat
      BY <1>0 DEF TypeOK, Row
    <3>2. new.retries = seen.retries + 1
      BY <3>1 DEF RetriedRow, Row
    <3> QED
      BY <3>1, <3>2
  <2>5. ReplyOk(id)'
    <3>1. rows'[id] = new /\ Same(rows'[id], rows[id]) /\ ReplyOk(id)
      BY <2>3 DEF Grows, LoopInv
    <3> HIDE DEF new
    <3> QED
      BY <2>4, <3>1 DEF ReplyOk, Same
  <2>6. ASSUME NEW i \in DOMAIN rows, i # id PROVE ReplyOk(i)'
    BY <2>3, <2>6, ReplyKept, RecordingKept DEF LoopInv
  <2> QED
    BY <2>3, <2>5, <2>6
<1>3. CASE Revoke
  <2>1. rows' = rows /\ owed' = owed /\ crashes' = crashes
    BY <1>3 DEF Revoke
  <2>2. \A w \in Reviewers : handler[w].pc = "record" => handler'[w] = handler[w]
    BY <1>0, <1>3 DEF Revoke
  <2> QED
    BY <2>1, <2>2, RepliesQuiet
<1>4. CASE Crash
  <2>1. rows' = rows /\ owed' = owed /\ crashes' # 0
    BY <1>0, <1>4 DEF TypeOK, Crash
  <2> QED
    BY <2>1 DEF LoopInv, ReplyOk
<1> QED
  BY <1>1, <1>2, <1>3, <1>4
     DEF Retry, RetryList, RetrySkip, RetrySend, RetryEnd, World, SetContact, ClearContact, PlanChange,
         Reconnect

\* LoopInv is inductive, on top of QueueInv.
LEMMA LoopNext == ASSUME QueueInv, LoopInv, [Next]_vars PROVE LoopInv'
<1>1. Grows
  BY GrowsNext
<1>2. \A s \in Syncers : SyncOk(s)'
  BY <1>1, LoopSyncs
<1>3. \A id \in DOMAIN rows' : ReplyOk(id)'
  <2>1. CASE UNCHANGED vars
    BY <1>1, <2>1, RepliesQuiet DEF vars
  <2> QED
    BY <1>1, <2>1, ReviewReplies, SyncReplies, OtherReplies DEF Next
<1> QED
  BY <1>2, <1>3 DEF LoopInv

----------------------------------------------------------------------------
(* One reviewer deciding at a time: what is decided is final.              *)

\* Who decides on a row, or is about to send it again, found it undecided, or failed.
UndecidedOk(v) ==
  handler[v].pc \in {"send", "commit", "reject"} => rows[handler[v].row].status = "proposed"
FailedOk ==
  /\ \A item \in RetryItems : rows[item.id].status = "failed"
  /\ \A x, y \in RetryItems : x.id = y.id => x = y
  /\ retry.pc = "commit" => retry.item \notin retry.todo

\* The provider's answer to a delivery is in the row, or in the hands of who writes it.
Answered(id) ==
  \/ id \in DOMAIN rows /\ rows[id].status = "executed"
  \/ \E v \in Reviewers : handler[v].pc = "commit" /\ handler[v].result = "ok" /\ handler[v].row = id
  \/ retry.pc = "commit" /\ retry.result = "ok" /\ retry.item.id = id

AckedOk(id) == outbox[id].acked <= IF Answered(id) THEN crashes + 1 ELSE crashes

DecidedInv ==
  /\ \A v \in Reviewers : UndecidedOk(v)
  /\ FailedOk
  /\ \A id \in Ids : AckedOk(id)

\* A row's deliveries stay accounted for when no more of them are acknowledged.
LEMMA AckedKept ==
  ASSUME TypeOK, NEW id \in Ids, AckedOk(id), outbox'[id].acked = outbox[id].acked,
         crashes' = crashes, Answered(id) => Answered(id)'
  PROVE  AckedOk(id)'
BY DEF AckedOk, TypeOK

\* An acknowledged dispatch for a row nobody has an answer for leaves one in its hands.
LEMMA AckedExecute ==
  ASSUME TypeOK, NEW row \in Ids, NEW body, NEW result, Execute(row, body, result),
         ~Answered(row), \A id \in Ids : AckedOk(id), crashes' = crashes,
         result = "ok" => Answered(row)', \A id \in Ids : Answered(id) => Answered(id)'
  PROVE  \A id \in Ids : AckedOk(id)'
<1>1. ASSUME NEW id \in Ids, id # row PROVE AckedOk(id)'
  <2>1. outbox'[id].acked = outbox[id].acked
    BY <1>1 DEF Execute, TypeOK
  <2> QED
    BY <2>1, AckedKept
<1>2. AckedOk(row)'
  <2>1. /\ outbox[row].acked \in Nat /\ crashes \in Nat
        /\ outbox'[row].acked = IF result = "ok" THEN outbox[row].acked + 1 ELSE outbox[row].acked
    BY BoundsAssumption DEF Execute, TypeOK
  <2>2. outbox[row].acked <= crashes
    BY DEF AckedOk
  <2> QED
    BY <2>1, <2>2 DEF AckedOk
<1> QED
  BY <1>1, <1>2

\* What is on the sweep's list stays failed while its rows' status does.
LEMMA FailedKept ==
  ASSUME FailedOk, RetryItems' \subseteq RetryItems,
         \A item \in RetryItems' : rows'[item.id].status = rows[item.id].status,
         retry'.pc = "commit" => retry'.item \notin retry'.todo
  PROVE  FailedOk'
BY DEF FailedOk

\* A step that changes no status, sends nothing and leaves the answers where they are.
LEMMA DecidedQuiet ==
  ASSUME QueueInv, DecidedInv, \A id \in DOMAIN rows : rows'[id].status = rows[id].status,
         DOMAIN rows \subseteq DOMAIN rows', outbox' = outbox, crashes' = crashes,
         \A v \in Reviewers : /\ handler'[v].pc = handler[v].pc
                              /\ handler[v].pc \in {"send", "commit", "reject"} =>
                                   handler'[v].row = handler[v].row
                              /\ handler[v].pc = "commit" => handler'[v].result = handler[v].result,
         \/ retry' = retry
         \/ retry.pc # "commit" /\ retry'.pc # "commit" /\ RetryItems' \subseteq RetryItems
  PROVE  DecidedInv'
<1>1. \A v \in Reviewers : UndecidedOk(v)'
  <2> SUFFICES ASSUME NEW v \in Reviewers, handler'[v].pc \in {"send", "commit", "reject"}
               PROVE  rows'[handler'[v].row].status = "proposed"
    BY DEF UndecidedOk
  <2>1. handler[v] # Idle /\ handler[v].row \in DOMAIN rows
    BY DEF QueueInv, RequestOk, Idle
  <2> QED
    BY <2>1 DEF DecidedInv, UndecidedOk
<1>2. FailedOk'
  <2>1. RetryItems' \subseteq RetryItems
    BY DEF RetryItems
  <2>2. \A item \in RetryItems : item.id \in DOMAIN rows
    BY DEF QueueInv, ItemOk
  <2> QED
    BY <2>1, <2>2, FailedKept DEF DecidedInv, FailedOk
<1>3. ASSUME NEW id \in Ids PROVE AckedOk(id)'
  <2>1. Answered(id) => Answered(id)'
    BY DEF Answered
  <2> QED
    BY <2>1, AckedKept DEF DecidedInv, QueueInv
<1> QED
  BY <1>1, <1>2, <1>3 DEF DecidedInv

\* The reviewer's step: only a row still awaiting its decision is decided on.
LEMMA ReviewDecided ==
  ASSUME QueueInv, DecidedInv, \A v, w \in Reviewers : v = w,
         NEW v \in Reviewers, Decide(v) \/ Finish(v)
  PROVE  DecidedInv'
<1>0. TypeOK /\ handler \in [Reviewers -> {Idle} \cup Rejecting \cup Approving]
  BY DEF QueueInv, TypeOK
<1>1. ASSUME NEW id \in Ids, (\E text \in Bodies : ApproveBegin(v, id, text)) \/ RejectBegin(v, id)
      PROVE  DecidedInv'
  <2>1. /\ rows' = rows /\ outbox' = outbox /\ crashes' = crashes /\ retry' = retry
        /\ handler[v] = Idle /\ rows[id].status = "proposed" /\ handler'[v].row = id
        /\ handler'[v].pc \in {"send", "reject"}
    BY <1>0, <1>1 DEF ApproveBegin, RejectBegin, history
  <2>2. \A w \in Reviewers : UndecidedOk(w)'
    BY <2>1 DEF UndecidedOk
  <2>3. FailedOk'
    BY <2>1 DEF DecidedInv, FailedOk, RetryItems
  <2>4. ASSUME NEW i \in Ids PROVE AckedOk(i)'
    <3>1. Answered(i) => Answered(i)'
      BY <2>1 DEF Answered, Idle
    <3> QED
      BY <1>0, <2>1, <3>1, AckedKept DEF DecidedInv
  <2> QED
    BY <2>2, <2>3, <2>4 DEF DecidedInv
<1>2. CASE ApproveUnbuildable(v)
  BY <1>2, DecidedQuiet DEF ApproveUnbuildable, history
<1>3. CASE ApproveSend(v)
  <2>1. handler[v] \in Approving /\ handler[v] # Idle /\ handler[v].pc = "send"
    BY <1>0, <1>3 DEF ApproveSend, Rejecting, Idle
  <2>2. PICK result :
          /\ Execute(handler[v].row, handler[v].body, result)
          /\ handler' = [handler EXCEPT ![v].pc = "commit", ![v].result = result]
    BY <1>3 DEF ApproveSend
  <2>3. handler'[v] = [handler[v] EXCEPT !.pc = "commit", !.result = result]
    BY <1>0, <2>2
  <2>4. /\ handler'[v].row = handler[v].row /\ handler'[v].pc = "commit"
        /\ handler'[v].result = result /\ handler[v].row \in Ids
    BY <2>1, <2>3 DEF Approving
  <2>5. rows' = rows /\ retry' = retry /\ crashes' = crashes
    BY <1>3 DEF ApproveSend
  <2>6. rows[handler[v].row].status = "proposed"
    BY <2>1 DEF DecidedInv, UndecidedOk
  <2>7. \A w \in Reviewers : UndecidedOk(w)'
    BY <2>4, <2>5, <2>6 DEF UndecidedOk
  <2>8. FailedOk'
    BY <2>5 DEF DecidedInv, FailedOk, RetryItems
  <2>9. ~Answered(handler[v].row)
    <3>1. retry.pc = "commit" => retry.item \in RetryItems
      BY DEF RetryItems
    <3> QED
      BY <2>1, <2>6, <3>1 DEF Answered, DecidedInv, FailedOk
  <2>10. \A id \in Ids : Answered(id) => Answered(id)'
    BY <2>1, <2>5 DEF Answered
  <2>11. result = "ok" => Answered(handler[v].row)'
    BY <2>4 DEF Answered
  <2>12. \A id \in Ids : AckedOk(id)'
    BY <1>0, <2>2, <2>4, <2>5, <2>9, <2>10, <2>11, AckedExecute DEF DecidedInv
  <2> QED
    BY <2>7, <2>8, <2>12 DEF DecidedInv
<1>4. ASSUME NEW id \in DOMAIN rows, NEW new \in Row, rows' = [rows EXCEPT ![id] = new],
             id = handler[v].row, handler[v].pc \in {"commit", "reject"},
             handler[v].pc = "commit" /\ handler[v].result = "ok" => new.status = "executed",
             handler'[v].pc \in {"record", "idle"},
             outbox' = outbox, retry' = retry, crashes' = crashes
      PROVE  DecidedInv'
  <2>1. rows[id].status = "proposed"
    BY <1>4 DEF DecidedInv, UndecidedOk
  <2>2. \A w \in Reviewers : UndecidedOk(w)'
    BY <1>4 DEF UndecidedOk
  <2>3. FailedOk'
    <3>1. RetryItems' = RetryItems
      BY <1>4 DEF RetryItems
    <3>2. \A item \in RetryItems : item.id # id
      BY <2>1 DEF DecidedInv, FailedOk
    <3>3. \A item \in RetryItems' : rows'[item.id].status = rows[item.id].status
      BY <1>4, <3>1, <3>2
    <3> QED
      BY <1>4, <3>1, <3>3, FailedKept DEF DecidedInv, FailedOk
  <2>4. ASSUME NEW i \in Ids PROVE AckedOk(i)'
    <3>1. CASE i = id
      <4>1. Answered(id) => new.status = "executed"
        <5>1. retry.pc = "commit" => retry.item \in RetryItems
          BY DEF RetryItems
        <5> QED
          BY <1>4, <2>1, <5>1 DEF Answered, DecidedInv, FailedOk
      <4>2. rows'[id] = new /\ id \in DOMAIN rows'
        BY <1>4
      <4>3. Answered(i) => Answered(i)'
        BY <3>1, <4>1, <4>2 DEF Answered
      <4> QED
        BY <1>0, <1>4, <4>3, AckedKept DEF DecidedInv
    <3>2. CASE i # id
      <4>1. Answered(i) => Answered(i)'
        BY <1>4, <3>2 DEF Answered
      <4> QED
        BY <1>0, <1>4, <4>1, AckedKept DEF DecidedInv
    <3> QED
      BY <3>1, <3>2
  <2> QED
    BY <2>2, <2>3, <2>4 DEF DecidedInv
<1>5. CASE ApproveCommit(v)
  <2>1. handler[v] \in Approving /\ handler[v] # Idle /\ handler[v].pc = "commit"
    BY <1>0, <1>5 DEF ApproveCommit, Rejecting, Idle
  <2>2. handler[v].row \in DOMAIN rows /\ rows[handler[v].row] \in Row
    BY <1>0, <2>1 DEF QueueInv, RequestOk, TypeOK
  <2> DEFINE new == ApprovedRow(rows[handler[v].row], handler[v])
  <2>3. new \in Row /\ (handler[v].result = "ok" => new.status = "executed")
    <3>1. handler[v].result = "ok" => new.status = "executed"
      BY <2>2 DEF ApprovedRow, Row
    <3> QED
      BY <2>1, <2>2, <3>1, WrittenRowType
  <2>4. rows' = [rows EXCEPT ![handler[v].row] = new]
    BY <1>5 DEF ApproveCommit
  <2>5. handler'[v].pc \in {"record", "idle"}
    BY <1>0, <1>5, <2>1 DEF ApproveCommit, Approving, Idle
  <2> HIDE DEF new
  <2> QED
    BY <1>4, <1>5, <2>1, <2>2, <2>3, <2>4, <2>5 DEF ApproveCommit, history
<1>6. CASE ApproveRecord(v)
  <2>1. /\ rows' = rows /\ outbox' = outbox /\ retry' = retry /\ crashes' = crashes
        /\ handler'[v] = Idle /\ handler[v].pc = "record"
    BY <1>0, <1>6 DEF ApproveRecord, history
  <2>2. \A w \in Reviewers : UndecidedOk(w)'
    BY <2>1 DEF UndecidedOk, Idle
  <2>3. FailedOk'
    BY <2>1 DEF DecidedInv, FailedOk, RetryItems
  <2>4. ASSUME NEW i \in Ids PROVE AckedOk(i)'
    <3>1. Answered(i) => Answered(i)'
      BY <2>1 DEF Answered
    <3> QED
      BY <1>0, <2>1, <3>1, AckedKept DEF DecidedInv
  <2> QED
    BY <2>2, <2>3, <2>4 DEF DecidedInv
<1>7. CASE RejectCommit(v)
  <2>1. handler[v].row \in DOMAIN rows /\ rows[handler[v].row] \in Row
    BY <1>0, <1>7 DEF QueueInv, RequestOk, TypeOK, RejectCommit, Idle
  <2> DEFINE new == [rows[handler[v].row] EXCEPT !.status = "rejected", !.outcome = "rejected",
                                                 !.decided = TRUE]
  <2>2. new \in Row
    BY <2>1 DEF Row
  <2>3. rows' = [rows EXCEPT ![handler[v].row] = new]
    BY <1>7 DEF RejectCommit
  <2>4. handler'[v].pc = "idle" /\ handler[v].pc = "reject"
    BY <1>0, <1>7 DEF RejectCommit, Idle
  <2> HIDE DEF new
  <2> QED
    BY <1>4, <1>7, <2>1, <2>2, <2>3, <2>4 DEF RejectCommit, history
<1> QED
  BY <1>1, <1>2, <1>3, <1>5, <1>6, <1>7 DEF Decide, Finish

\* A sync's step decides nothing, and leaves the worker's sweep alone.
LEMMA SyncDecided ==
  ASSUME QueueInv, DecidedInv, NEW s \in Syncers, SyncStart(s) \/ SyncStep(s)
  PROVE  DecidedInv'
<1>0. TypeOK /\ (sync[s] # Idle => sync[s] \in Syncing)
  BY DEF QueueInv, TypeOK
<1>1. CASE SyncBegin(s) \/ SyncBroken(s) \/ SyncCheck(s) \/ SyncEnd(s)
  <2>1. rows' = rows /\ handler' = handler /\ outbox' = outbox /\ crashes' = crashes
    BY <1>1 DEF SyncBegin, SyncBroken, SyncCheck, SyncEnd, history
  <2>2. \/ retry' = retry
        \/ retry = Idle /\ retry' = [pc |-> "due"]
    BY <1>1 DEF SyncBegin, SyncBroken, SyncCheck, SyncEnd, NextInPass, MaySync
  <2>3. retry' = retry \/ (retry.pc # "commit" /\ retry'.pc # "commit" /\ RetryItems' \subseteq RetryItems)
    BY <2>2 DEF Idle, RetryItems
  <2> QED
    BY <2>1, <2>3, DecidedQuiet
<1>2. ASSUME NEW row \in Row, Create(row), handler' = handler, outbox' = outbox, crashes' = crashes,
             retry' = retry
      PROVE  DecidedInv'
  BY <1>0, <1>2, CreateType, DecidedQuiet
<1>3. CASE SyncPropose(s)
  <2>1. PICK p \in sync[s].drafting : Create(HeldRow(p))
    BY <1>3 DEF SyncPropose
  <2>2. HeldRow(p) \in Row
    BY <1>0, <1>3, <2>1, NewRowType DEF SyncPropose, Syncing
  <2> QED
    BY <1>2, <1>3, <2>1, <2>2 DEF SyncPropose, history
<1>4. ASSUME NEW m \in Messages, NEW type \in Types, ApplyLabel(s, m, type), handler' = handler,
             outbox' = outbox, crashes' = crashes, retry' = retry
      PROVE  DecidedInv'
  BY <1>2, <1>4, NewRowType DEF ApplyLabel
<1>5. CASE SyncDowngrade(s)
  <2>1. PICK p \in sync[s].vetoed : ApplyLabel(s, p.msg, "defer")
    BY <1>5 DEF SyncDowngrade
  <2>2. p.msg \in Messages /\ "defer" \in Types
    BY <1>0, <1>5, <2>1, NewRowType DEF SyncDowngrade, Syncing, Types
  <2> QED
    BY <1>4, <1>5, <2>1, <2>2 DEF SyncDowngrade, history
<1>6. CASE SyncLabel(s)
  <2>1. PICK p \in sync[s].auto : ApplyLabel(s, p.msg, p.type)
    BY <1>6 DEF SyncLabel
  <2>2. p.msg \in Messages /\ p.type \in Types
    BY <1>0, <1>6, <2>1, NewRowType DEF SyncLabel, Between, Syncing
  <2> QED
    BY <1>4, <1>6, <2>1, <2>2 DEF SyncLabel, history
<1> QED
  BY <1>1, <1>3, <1>5, <1>6 DEF SyncStart, SyncStep

\* The sweep's step: only a row that is still failed is sent again.
LEMMA RetryDecided ==
  ASSUME QueueInv, DecidedInv, Retry
  PROVE  DecidedInv'
<1>0. TypeOK
  BY DEF QueueInv
<1>1. CASE RetryList
  <2>1. RetryItems' = {[id |-> i, row |-> rows[i]] : i \in {j \in DOMAIN rows : Retryable(rows[j])}}
    BY <1>1 DEF RetryList, RetryItems
  <2>2. FailedOk'
    BY <1>1, <2>1 DEF FailedOk, RetryList, Retryable
  <2>3. /\ rows' = rows /\ handler' = handler /\ outbox' = outbox /\ crashes' = crashes
        /\ retry.pc # "commit"
    BY <1>1 DEF RetryList, history
  <2>4. \A v \in Reviewers : UndecidedOk(v)'
    BY <2>3 DEF DecidedInv, UndecidedOk
  <2>5. ASSUME NEW i \in Ids PROVE AckedOk(i)'
    <3>1. Answered(i) => Answered(i)'
      BY <2>3 DEF Answered
    <3> QED
      BY <1>0, <2>3, <3>1, AckedKept DEF DecidedInv
  <2> QED
    BY <2>2, <2>4, <2>5 DEF DecidedInv
<1>2. CASE RetrySkip \/ RetryEnd
  <2>1. RetryItems' \subseteq RetryItems
    BY <1>0, <1>2, ItemsShrink DEF Next, Retry, RetrySkip, RetryEnd, RetryList, Idle
  <2>2. /\ rows' = rows /\ handler' = handler /\ outbox' = outbox /\ crashes' = crashes
        /\ retry.pc = "sweep"
    BY <1>2 DEF RetrySkip, RetryEnd, history
  <2>3. retry'.pc # "commit"
    <3>1. retry \in Sweeping
      BY <1>0, <2>2 DEF TypeOK, Idle, Retrying
    <3> QED
      BY <1>2, <3>1 DEF RetrySkip, RetryEnd, Idle, Sweeping
  <2> QED
    BY <2>1, <2>2, <2>3, DecidedQuiet
<1>3. CASE RetrySend
  <2>1. PICK item \in retry.todo : \E result :
          /\ Execute(item.id, item.row.content, result)
          /\ retry' = [pc |-> "commit", todo |-> retry.todo \ {item}, item |-> item,
                       result |-> result]
    BY <1>3 DEF RetrySend
  <2>2. PICK result :
          /\ Execute(item.id, item.row.content, result)
          /\ retry' = [pc |-> "commit", todo |-> retry.todo \ {item}, item |-> item,
                       result |-> result]
    BY <2>1
  <2>3. retry.pc = "sweep" /\ rows' = rows /\ handler' = handler /\ crashes' = crashes
    BY <1>3 DEF RetrySend
  <2>4. RetryItems = retry.todo /\ RetryItems' = (retry.todo \ {item}) \cup {item}
    BY <2>2, <2>3 DEF RetryItems
  <2>5. item \in RetryItems /\ item.id \in Ids /\ rows[item.id].status = "failed"
    BY <2>4 DEF QueueInv, ItemOk, TypeOK, DecidedInv, FailedOk
  <2>6. \A v \in Reviewers : UndecidedOk(v)'
    BY <2>3 DEF DecidedInv, UndecidedOk
  <2>7. FailedOk'
    BY <2>2, <2>3, <2>4, FailedKept DEF DecidedInv
  <2>8. ~Answered(item.id)
    BY <2>3, <2>5 DEF Answered, DecidedInv, UndecidedOk
  <2>9. \A id \in Ids : Answered(id) => Answered(id)'
    BY <2>3 DEF Answered
  <2>10. result = "ok" => Answered(item.id)'
    BY <2>2 DEF Answered
  <2>11. \A id \in Ids : AckedOk(id)'
    BY <1>0, <2>2, <2>3, <2>5, <2>8, <2>9, <2>10, AckedExecute DEF DecidedInv
  <2> QED
    BY <2>6, <2>7, <2>11 DEF DecidedInv
<1>4. CASE RetryCommit
  <2>1. retry \in Retrying /\ RetryItems = retry.todo \cup {retry.item}
    BY <1>0, <1>4 DEF TypeOK, RetryCommit, RetryItems, Idle, Sweeping
  <2>2. PICK id \in DOMAIN rows, seen \in Row : id = retry.item.id /\ seen = retry.item.row
    BY <2>1 DEF QueueInv, ItemOk, Retrying, RetryItem
  <2> DEFINE new == RetriedRow(rows[id], seen, retry.result)
  <2>3. /\ rows' = [rows EXCEPT ![id] = new] /\ outbox' = outbox /\ crashes' = crashes
        /\ handler' = handler /\ retry.pc = "commit" /\ retry' = [pc |-> "sweep", todo |-> retry.todo]
    BY <1>4, <2>2 DEF RetryCommit, history
  <2>4. rows[id].status = "failed" /\ \A item \in retry.todo : item.id # id
    BY <2>1, <2>2, <2>3 DEF DecidedInv, FailedOk
  <2>5. new.status = IF retry.result = "ok" THEN "executed" ELSE "failed"
    <3>1. rows[id] \in Row
      BY <1>0 DEF TypeOK
    <3> QED
      BY <3>1 DEF RetriedRow, Row
  <2> HIDE DEF new
  <2>6. ASSUME NEW v \in Reviewers PROVE UndecidedOk(v)'
    BY <2>3, <2>4 DEF DecidedInv, UndecidedOk
  <2>7. FailedOk'
    <3>1. RetryItems' = retry.todo
      BY <2>3 DEF RetryItems
    <3>2. \A item \in RetryItems' : rows'[item.id].status = rows[item.id].status
      BY <2>3, <2>4, <3>1
    <3> QED
      BY <2>1, <2>3, <3>1, <3>2, FailedKept DEF DecidedInv
  <2>8. ASSUME NEW i \in Ids PROVE AckedOk(i)'
    <3>1. CASE i = id
      <4>1. Answered(id) => retry.result = "ok"
        BY <2>3, <2>4 DEF Answered, DecidedInv, UndecidedOk
      <4>2. Answered(i) => Answered(i)'
        BY <2>3, <2>5, <3>1, <4>1 DEF Answered
      <4> QED
        BY <1>0, <2>3, <4>2, AckedKept DEF DecidedInv
    <3>2. CASE i # id
      <4>1. Answered(i) => Answered(i)'
        BY <2>2, <2>3, <3>2 DEF Answered
      <4> QED
        BY <1>0, <2>3, <4>1, AckedKept DEF DecidedInv
    <3> QED
      BY <3>1, <3>2
  <2> QED
    BY <2>6, <2>7, <2>8 DEF DecidedInv
<1> QED
  BY <1>1, <1>2, <1>3, <1>4 DEF Retry

\* The outside world decides nothing; a restart lets every answer in flight be lost once.
LEMMA WorldDecided ==
  ASSUME QueueInv, DecidedInv, World
  PROVE  DecidedInv'
<1>0. TypeOK
  BY DEF QueueInv
<1>1. CASE Crash
  <2>1. /\ rows' = rows /\ outbox' = outbox /\ crashes' = crashes + 1 /\ retry' = Idle
        /\ \A v \in Reviewers : handler'[v] = Idle
    BY <1>1 DEF Crash, history
  <2>2. \A v \in Reviewers : UndecidedOk(v)'
    BY <2>1 DEF UndecidedOk, Idle
  <2>3. FailedOk'
    BY <2>1 DEF FailedOk, RetryItems, Idle
  <2>4. ASSUME NEW i \in Ids PROVE AckedOk(i)'
    <3>1. outbox[i].acked \in Nat /\ crashes \in Nat
      BY <1>0, BoundsAssumption DEF TypeOK
    <3> QED
      BY <2>1, <3>1 DEF DecidedInv, AckedOk
  <2> QED
    BY <2>2, <2>3, <2>4 DEF DecidedInv
<1>2. CASE Revoke
  <2>1. rows' = rows /\ outbox' = outbox /\ crashes' = crashes /\ retry' = retry
    BY <1>2 DEF Revoke, history
  <2>2. ASSUME NEW v \in Reviewers
        PROVE  /\ handler'[v].pc = handler[v].pc
               /\ handler[v].pc \in {"send", "commit", "reject"} => handler'[v].row = handler[v].row
               /\ handler[v].pc = "commit" => handler'[v].result = handler[v].result
    <3>1. handler[v].pc = "send" => handler[v] \in Approving
      BY <1>0 DEF TypeOK, Idle, Rejecting
    <3>2. handler'[v] = IF handler[v].pc = "send" THEN [handler[v] EXCEPT !.live = FALSE] ELSE handler[v]
      BY <1>2 DEF Revoke
    <3> QED
      BY <3>1, <3>2 DEF Approving
  <2> QED
    BY <2>1, <2>2, DecidedQuiet
<1> QED
  BY <1>1, <1>2, DecidedQuiet DEF World, SetContact, ClearContact, PlanChange, Reconnect, history

\* With one reviewer deciding at a time DecidedInv is inductive, on top of QueueInv.
LEMMA DecidedNext ==
  ASSUME \A v, w \in Reviewers : v = w, QueueInv, DecidedInv, [Next]_vars
  PROVE  DecidedInv'
<1>1. CASE UNCHANGED vars
  BY <1>1, DecidedQuiet DEF vars
<1> QED
  BY <1>1, ReviewDecided, SyncDecided, RetryDecided, WorldDecided DEF Next

\* Then no step undoes a decision that was carried out.
LEMMA FinalNext ==
  ASSUME QueueInv, DecidedInv, [Next]_vars, NEW id \in DOMAIN rows,
         rows[id].status \in {"executed", "rejected"}
  PROVE  rows'[id].status = rows[id].status
<1>0. TypeOK
  BY DEF QueueInv
<1>1. ASSUME NEW v \in Reviewers, ApproveCommit(v) \/ RejectCommit(v)
      PROVE  rows'[id] = rows[id]
  <2>1. handler[v].pc \in {"commit", "reject"}
    BY <1>1 DEF ApproveCommit, RejectCommit
  <2>2. handler[v].row # id
    BY <2>1 DEF DecidedInv, UndecidedOk
  <2> QED
    BY <1>1, <2>2 DEF ApproveCommit, RejectCommit
<1>2. CASE RetryCommit
  <2>1. retry.item \in RetryItems
    BY <1>2 DEF RetryItems, RetryCommit
  <2>2. retry.item.id # id
    BY <2>1 DEF DecidedInv, FailedOk
  <2> QED
    BY <1>2, <2>2 DEF RetryCommit
<1>3. ASSUME NEW v \in Reviewers, Decide(v) \/ Finish(v) PROVE rows'[id] = rows[id]
  BY <1>1, <1>3 DEF Decide, Finish, ApproveBegin, RejectBegin, ApproveUnbuildable, ApproveSend,
                    ApproveRecord
<1>4. ASSUME NEW s \in Syncers, SyncStart(s) \/ SyncStep(s) PROVE rows'[id] = rows[id]
  <2>1. sync[s] # Idle => sync[s] \in Syncing
    BY <1>0 DEF TypeOK
  <2>2. ASSUME NEW row, Create(row) PROVE rows'[id] = rows[id]
    BY <2>2 DEF Create, NewId
  <2> QED
    BY <1>4, <2>2 DEF SyncStart, SyncStep, SyncBegin, SyncBroken, SyncCheck, SyncPropose,
                      SyncDowngrade, SyncLabel, SyncEnd, ApplyLabel
<1>5. CASE World
  BY <1>5 DEF World, SetContact, ClearContact, PlanChange, Revoke, Reconnect, Crash
<1> QED
  BY <1>2, <1>3, <1>4, <1>5 DEF Next, Retry, RetryList, RetrySkip, RetrySend, RetryEnd, vars

----------------------------------------------------------------------------
(* One sync at a time: nothing is asked twice.                             *)

\* What is being drafted awaits nobody's decision yet.
NotYetAsked(s) ==
  sync[s] # Idle => \A p \in sync[s].drafting, i \in DOMAIN rows :
    rows[i].msg = p.msg /\ rows[i].type = p.type => rows[i].status # "proposed"

AskedInv == OnePendingPerAction /\ \A s \in Syncers : NotYetAsked(s)

\* A question the step does not ask is not asked twice by it.
LEMMA AskedKept ==
  ASSUME QueueInv, Grows, AskedInv,
         \A id \in DOMAIN rows' : rows'[id].status = "proposed" =>
           id \in DOMAIN rows /\ rows[id].status = "proposed",
         \A s \in Syncers : sync'[s] # Idle =>
           \A p \in sync'[s].drafting :
             \/ sync[s] # Idle /\ p \in sync[s].drafting
             \/ \A i \in DOMAIN rows : rows[i].msg = p.msg /\ rows[i].type = p.type =>
                                         rows[i].status # "proposed"
  PROVE  AskedInv'
<1>1. \A id \in DOMAIN rows : rows'[id].msg = rows[id].msg /\ rows'[id].type = rows[id].type
  BY DEF Grows, Same
<1>2. OnePendingPerAction'
  BY <1>1 DEF AskedInv, OnePendingPerAction
<1>3. ASSUME NEW s \in Syncers PROVE NotYetAsked(s)'
  BY <1>1 DEF AskedInv, NotYetAsked
<1> QED
  BY <1>2, <1>3 DEF AskedInv

\* The one sync's step asks only what nobody has been asked yet.
LEMMA SyncAsks ==
  ASSUME QueueInv, Grows, AskedInv, \A s, t \in Syncers : s = t,
         NEW s \in Syncers, SyncStart(s) \/ SyncStep(s)
  PROVE  AskedInv'
<1>0. TypeOK /\ s \in DOMAIN sync /\ (sync[s] # Idle => sync[s] \in Syncing)
  BY DEF QueueInv, TypeOK
<1>1. CASE SyncBegin(s)
  <2>1. rows' = rows /\ sync'[s].drafting = {}
    BY <1>0, <1>1 DEF SyncBegin
  <2> QED
    BY <2>1, AskedKept
<1>2. CASE SyncBroken(s) \/ SyncEnd(s)
  <2>1. rows' = rows /\ (sync'[s] = sync[s] \/ sync'[s] = Idle)
    BY <1>0, <1>2 DEF SyncBroken, SyncEnd
  <2> QED
    BY <2>1, AskedKept
<1>3. CASE SyncCheck(s)
  <2>1. PICK p \in NextProposals(sync[s].todo) :
          sync' = [sync EXCEPT ![s] = Turn(sync[s], p, ActiveTypes(p.msg))]
    BY <1>3 DEF SyncCheck
  <2>2. sync[s] \in Syncing /\ sync[s].drafting = {} /\ rows' = rows
    BY <1>0, <1>3 DEF SyncCheck, Between
  <2>3. \A q \in Turn(sync[s], p, ActiveTypes(p.msg)).drafting :
          q = p /\ p.type \notin ActiveTypes(p.msg)
    BY <2>2 DEF Turn, Syncing
  <2>4. sync'[s] = Turn(sync[s], p, ActiveTypes(p.msg))
    BY <1>0, <2>1
  <2>5. \A q \in sync'[s].drafting, i \in DOMAIN rows :
          rows[i].msg = q.msg /\ rows[i].type = q.type => rows[i].status # "proposed"
    BY <2>3, <2>4 DEF ActiveTypes
  <2> QED
    BY <2>2, <2>5, AskedKept
<1>4. CASE SyncPropose(s)
  <2>1. PICK p \in sync[s].drafting : Create(HeldRow(p))
    BY <1>4 DEF SyncPropose
  <2>2. sync[s] # Idle /\ sync[s] \in Syncing /\ sync'[s] = [sync[s] EXCEPT !.drafting = {}]
    BY <1>0, <1>4 DEF SyncPropose
  <2>3. sync'[s].drafting = {}
    BY <2>2 DEF Syncing
  <2>4. HeldRow(p) \in Row /\ HeldRow(p).msg = p.msg /\ HeldRow(p).type = p.type
    BY <2>1, <2>2, NewRowType DEF Syncing, HeldRow
  <2>5. PICK n \in Ids \ DOMAIN rows :
          /\ DOMAIN rows' = DOMAIN rows \cup {n} /\ rows'[n] = HeldRow(p)
          /\ \A i \in DOMAIN rows : rows'[i] = rows[i]
    BY <1>0, <2>1, <2>4, CreateType
  <2>6. \A i \in DOMAIN rows : rows[i].msg = p.msg /\ rows[i].type = p.type =>
                                 rows[i].status # "proposed"
    BY <2>1, <2>2 DEF AskedInv, NotYetAsked
  <2>7. OnePendingPerAction'
    BY <2>4, <2>5, <2>6 DEF AskedInv, OnePendingPerAction
  <2>8. \A t \in Syncers : NotYetAsked(t)'
    BY <2>3 DEF NotYetAsked
  <2> QED
    BY <2>7, <2>8 DEF AskedInv
<1>5. ASSUME NEW m \in Messages, NEW type \in Types, ApplyLabel(s, m, type),
             sync'[s] # Idle => sync[s] # Idle /\ sync'[s].drafting = sync[s].drafting
      PROVE  AskedInv'
  <2>1. PICK ok \in BOOLEAN : Create(LabelRow(m, type, ok))
    BY <1>5 DEF ApplyLabel
  <2>2. LabelRow(m, type, ok) \in Row /\ LabelRow(m, type, ok).status # "proposed"
    BY NewRowType DEF LabelRow
  <2> QED
    BY <1>0, <1>5, <2>1, <2>2, CreateType, AskedKept
<1>6. CASE SyncDowngrade(s)
  <2>1. PICK p \in sync[s].vetoed : ApplyLabel(s, p.msg, "defer")
    BY <1>6 DEF SyncDowngrade
  <2>2. p.msg \in Messages /\ "defer" \in Types
    BY <1>0, <1>6, <2>1, NewRowType DEF SyncDowngrade, Syncing, Types
  <2>3. sync[s] # Idle /\ sync'[s].drafting = sync[s].drafting
    BY <1>0, <1>6 DEF SyncDowngrade, Syncing
  <2> QED
    BY <1>5, <2>1, <2>2, <2>3
<1>7. CASE SyncLabel(s)
  <2>1. PICK p \in sync[s].auto : /\ ApplyLabel(s, p.msg, p.type)
                                 /\ sync' = [sync EXCEPT ![s].auto = sync[s].auto \ {p}]
    BY <1>7 DEF SyncLabel
  <2>2. sync[s] # Idle /\ p.msg \in Messages /\ p.type \in Types
    BY <1>0, <1>7, <2>1, NewRowType DEF SyncLabel, Between, Syncing
  <2>3. sync'[s].drafting = sync[s].drafting
    BY <1>0, <2>1, <2>2 DEF Syncing
  <2> QED
    BY <1>5, <2>1, <2>2, <2>3
<1> QED
  BY <1>1, <1>2, <1>3, <1>4, <1>6, <1>7 DEF SyncStart, SyncStep

\* A decision, and what is sent on account of it, never opens a question again.
LEMMA DecidingAsksNothing ==
  ASSUME QueueInv, (\E v \in Reviewers : Decide(v) \/ Finish(v)) \/ Retry \/ World,
         NEW id \in DOMAIN rows', rows'[id].status = "proposed"
  PROVE  id \in DOMAIN rows /\ rows[id].status = "proposed"
<1>0. TypeOK
  BY DEF QueueInv
<1>1. CASE rows' = rows
  BY <1>1
<1>2. ASSUME NEW i, NEW new, rows' = [rows EXCEPT ![i] = new], new.status # "proposed"
      PROVE  id \in DOMAIN rows /\ rows[id].status = "proposed"
  BY <1>2
<1>3. ASSUME NEW v \in Reviewers, ApproveCommit(v)
      PROVE  id \in DOMAIN rows /\ rows[id].status = "proposed"
  <2>1. handler[v] # Idle /\ rows[handler[v].row] \in Row
    BY <1>0, <1>3 DEF QueueInv, RequestOk, TypeOK, ApproveCommit, Idle
  <2>2. ApprovedRow(rows[handler[v].row], handler[v]).status # "proposed"
    BY <2>1 DEF ApprovedRow, Row
  <2> QED
    BY <1>2, <1>3, <2>2 DEF ApproveCommit
<1>4. ASSUME NEW v \in Reviewers, RejectCommit(v)
      PROVE  id \in DOMAIN rows /\ rows[id].status = "proposed"
  <2>1. rows[handler[v].row] \in Row
    BY <1>0, <1>4 DEF QueueInv, RequestOk, TypeOK, RejectCommit, Idle
  <2>2. [rows[handler[v].row] EXCEPT !.status = "rejected", !.outcome = "rejected",
                                     !.decided = TRUE].status # "proposed"
    BY <2>1 DEF Row
  <2> QED
    BY <1>2, <1>4, <2>2 DEF RejectCommit
<1>5. CASE RetryCommit
  <2>1. retry.item \in RetryItems
    BY <1>5 DEF RetryItems, RetryCommit
  <2>2. rows[retry.item.id] \in Row
    BY <1>0, <2>1 DEF QueueInv, ItemOk, TypeOK
  <2>3. RetriedRow(rows[retry.item.id], retry.item.row, retry.result).status # "proposed"
    BY <2>2 DEF RetriedRow, Row
  <2> QED
    BY <1>2, <1>5, <2>3 DEF RetryCommit
<1> QED
  BY <1>1, <1>3, <1>4, <1>5
     DEF Decide, Finish, ApproveBegin, RejectBegin, ApproveUnbuildable, ApproveSend, ApproveRecord,
         Retry, RetryList, RetrySkip, RetrySend, RetryEnd,
         World, SetContact, ClearContact, PlanChange, Revoke, Reconnect, Crash

\* With one sync at a time AskedInv is inductive, on top of QueueInv.
LEMMA AskedNext ==
  ASSUME \A s, t \in Syncers : s = t, QueueInv, AskedInv, [Next]_vars
  PROVE  AskedInv'
<1>0. Grows /\ sync \in [Syncers -> {Idle} \cup Syncing]
  BY GrowsNext DEF QueueInv, TypeOK
<1>1. CASE UNCHANGED vars
  BY <1>0, <1>1, AskedKept DEF vars
<1>2. CASE (\E v \in Reviewers : Decide(v) \/ Finish(v)) \/ Retry \/ World
  <2>1. ASSUME NEW s \in Syncers, sync'[s] # Idle
        PROVE  sync[s] # Idle /\ sync'[s].drafting = sync[s].drafting
    <3>1. CASE Revoke
      <4>1. sync[s] \in Syncing /\ sync'[s] = [sync[s] EXCEPT !.live = FALSE]
        BY <1>0, <2>1, <3>1 DEF Revoke
      <4> QED
        BY <2>1, <3>1, <4>1 DEF Revoke, Syncing
    <3>2. CASE sync' = sync \/ sync' = [t \in Syncers |-> Idle]
      BY <2>1, <3>2
    <3> QED
      BY <1>2, <3>1, <3>2
         DEF Decide, Finish, ApproveBegin, RejectBegin, ApproveUnbuildable, ApproveSend, ApproveCommit,
             ApproveRecord, RejectCommit, Retry, RetryList, RetrySkip, RetrySend, RetryCommit, RetryEnd,
             World, SetContact, ClearContact, PlanChange, Reconnect, Crash
  <2> QED
    BY <1>0, <1>2, <2>1, DecidingAsksNothing, AskedKept
<1> QED
  BY <1>0, <1>1, <1>2, SyncAsks DEF Next

----------------------------------------------------------------------------
(* The theorems.                                                           *)

\* QueueInv holds in every reachable state, for any number of messages,
\* reviewers, syncs, rows, restarts and retries.
THEOREM QueueSafe == Spec => []QueueInv
<1>1. Init => QueueInv
  BY QueueInit
<1>2. QueueInv /\ [Next]_vars => QueueInv'
  BY QueueNext
<1> QED
  BY <1>1, <1>2, PTL DEF Spec

\* The table and the threads' local state are always well typed.
THEOREM QueueTypes == Spec => []TypeOK
<1>1. QueueInv => TypeOK
  BY DEF QueueInv
<1> QED
  BY <1>1, QueueSafe, PTL

\* Nothing is ever delivered for a row no reviewer approved.
THEOREM QueueGate == Spec => []HumanGate
<1>1. QueueInv => HumanGate
  BY DEF QueueInv
<1> QED
  BY <1>1, QueueSafe, PTL

\* An executed row's recorded text was delivered.
THEOREM QueueRecordsTruth == Spec => []RecordedTextWasSent
<1>1. QueueInv => RecordedTextWasSent
  BY DEF QueueInv, RowOk, RecordedTextWasSent
<1> QED
  BY <1>1, QueueSafe, PTL

\* No row is retried beyond MAX_SEND_RETRIES.
THEOREM QueueRetriesBounded == Spec => []RetryBudget
<1>1. QueueInv => RetryBudget
  BY DEF QueueInv, RowOk, RetryBudget
<1> QED
  BY <1>1, QueueSafe, PTL

\* LoopInv holds in every reachable state as well.
THEOREM QueueLoops == Spec => []LoopInv
<1>1. Init => LoopInv
  BY DEF Init, LoopInv, SyncOk
<1>2. QueueInv /\ LoopInv /\ [Next]_vars => LoopInv'
  BY LoopNext
<1> QED
  BY <1>1, <1>2, QueueSafe, PTL DEF Spec

\* However many syncs run at once and whatever is decided meanwhile, none loses a
\* proposal of the policy on its way through the loop of _sync.
THEOREM QueueDropsNothing == Spec => []NothingDropped
<1>1. LoopInv => NothingDropped
  BY DEF LoopInv, SyncOk, ToDo, HasRow, NothingDropped
<1> QED
  BY <1>1, QueueLoops, PTL

\* However many requests approve a reply at once, what was sent last is owed when they are
\* over (_record_own_commitments).
THEOREM QueueOwes == Spec => []SentPromiseIsOwed
<1>1. QueueInv /\ LoopInv => SentPromiseIsOwed
  <2> SUFFICES ASSUME QueueInv, LoopInv, crashes = 0, NEW id \in DOMAIN rows,
                      rows[id].status = "executed", rows[id].type = "reply",
                      ~(rows[id].retries > 0),
                      <<rows[id].msg, rows[id].content>> \notin owed
               PROVE  \E v \in Reviewers : handler[v].pc = "record" /\ handler[v].row = id
    BY DEF SentPromiseIsOwed
  <2>1. rows[id].retries = 0
    BY DEF QueueInv, TypeOK, Row
  <2> QED
    BY <2>1 DEF LoopInv, ReplyOk, Recording
<1> QED
  BY <1>1, QueueSafe, QueueLoops, PTL

\* While one reviewer decides at a time, a decision is final and carried out once (_approve,
\* reject), whatever any number of syncs, retries and restarts do meanwhile.  Two reviewers
\* need not agree: the status is checked before the send and written after it.
THEOREM QueueDecidesOnce ==
  ASSUME \A v, w \in Reviewers : v = w
  PROVE  Spec => DecidedOnce
<1>1. Init => DecidedInv
  BY DEF Init, DecidedInv, UndecidedOk, FailedOk, RetryItems, AckedOk, Idle
<1>2. QueueInv /\ DecidedInv /\ [Next]_vars => DecidedInv'
  BY DecidedNext
<1>3. QueueInv /\ DecidedInv => AcknowledgedOnce
  <2> SUFFICES ASSUME QueueInv, DecidedInv, NEW id \in Ids
               PROVE  outbox[id].acked <= 1 + crashes
    BY DEF AcknowledgedOnce
  <2>1. outbox[id].acked \in Nat /\ crashes \in Nat
    BY BoundsAssumption DEF QueueInv, TypeOK
  <2> QED
    BY <2>1 DEF DecidedInv, AckedOk
<1>4. QueueInv /\ DecidedInv /\ [Next]_vars =>
        [\A id \in DOMAIN rows :
           rows[id].status \in {"executed", "rejected"} => rows'[id].status = rows[id].status]_vars
  BY FinalNext
<1> QED
  BY <1>1, <1>2, <1>3, <1>4, QueueSafe, PTL DEF Spec, DecidedOnce, DecisionsAreFinal

\* While one sync runs at a time, each proposal of the policy is put to reviewers, once
\* (list_active_action_types in _sync).  Two syncs may each read before either writes.
THEOREM QueueAsksOnce ==
  ASSUME \A s, t \in Syncers : s = t
  PROVE  Spec => []ProposedOnce
<1>1. Init => AskedInv
  BY DEF Init, AskedInv, OnePendingPerAction, NotYetAsked, Idle
<1>2. QueueInv /\ AskedInv /\ [Next]_vars => AskedInv'
  BY AskedNext
<1>3. AskedInv /\ NothingDropped => ProposedOnce
  BY DEF AskedInv, ProposedOnce
<1> QED
  BY <1>1, <1>2, <1>3, QueueSafe, QueueDropsNothing, PTL DEF Spec
=============================================================================
