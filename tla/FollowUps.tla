------------------------------ MODULE FollowUps ------------------------------
(* The follow-up list: what a sync records of the mail it reads, what a     *)
(* reviewer's approval records of the reply it sent, and what people say of *)
(* the rows. Syncs of one mailbox overlap (the worker, the web page), and   *)
(* every row is looked for in one transaction and written in another.       *)
EXTENDS DueDates, FiniteSets, Sequences, SequencesExt

CONSTANTS
  Mails, Spam,   \* the messages that may arrive; those the policy calls spam
  Body, Reply,   \* [Mails -> SUBSET sentences]: the text, the reply to it
  Syncs, Worker, \* the callers of sync
  Limit,         \* inbox_sync_limit
  PageSize,      \* WAITING_PAGE_SIZE
  ForeignKeys,   \* the database enforces foreign keys (Postgres; not SQLite)
  Today0,        \* the days the story may begin on
  MaxDays, MaxConns, MaxRows, MaxCalls, MaxCrashes   \* bounds

ASSUME FollowUpsAssumption ==
  /\ Spam \subseteq Mails /\ Worker \in Syncs /\ ForeignKeys \in BOOLEAN
  /\ {Limit, PageSize, MaxConns, MaxRows} \subseteq Nat \ {0} /\ {MaxDays, MaxCalls, MaxCrashes} \subseteq Nat
  /\ Today0 \subseteq Days /\ \A d \in Today0 : d..(d + MaxDays) \subseteq Days
  /\ \A m \in Mails : \A text \in {Body[m], Reply[m]} :
       IsFiniteSet(text) /\ \A x \in text : x.words \subseteq Phrases

VARIABLES
  day, inbox,        \* what day it is; the mails, oldest first
  conn, conns,         \* the mailbox connection (0: none), how many there were
  messages,            \* saas_processed_messages: id -> [conn, mail]
  minted,              \* how many message rows were ever made
  rows,                \* saas_commitments: <<message, direction, sentence>> -> row
  said,                \* what people last said of a row's promise
  sync, sender,        \* the running syncs; the approval that just sent a reply
  replied,             \* the message rows whose reply was sent
  begun, calls, crashes  \* bounds: the first day, decisions, restarts

vars == <<day, inbox, conn, conns, messages, minted, rows, said,
          sync, sender, replied, begun, calls, crashes>>
mailbox == <<conn, conns>>
tables == <<messages, minted, rows, said>>
clock == <<day, begun, calls, crashes>>

Idle == [pc |-> "idle"]

----------------------------------------------------------------------------
(* The mailbox and the people.                                             *)

Tick ==
  /\ day < begun + MaxDays
  /\ day' = day + 1
  /\ UNCHANGED <<inbox, mailbox, tables, sync, sender, replied, begun, calls, crashes>>

Arrive(m) ==
  /\ m \notin ToSet(inbox)
  /\ inbox' = Append(inbox, m)
  /\ UNCHANGED <<mailbox, tables, sync, sender, replied, clock>>

\* Every consent after a disconnect makes a connection with an id of its own.
Connect ==
  /\ conn = 0 /\ conns < MaxConns
  /\ conns' = conns + 1 /\ conn' = conns + 1
  /\ UNCHANGED <<inbox, tables, sync, sender, replied, clock>>

OfConnection(c) == {id \in DOMAIN messages : messages[id].conn = c}
Referred == {k[1] : k \in DOMAIN rows}

\* The actions, the messages and the row, in one transaction, and nothing of
\* the follow-ups: a row that refers to one of the messages makes the database
\* refuse, or dangles where foreign keys are not enforced.
Disconnect ==
  /\ conn # 0
  /\ ForeignKeys => OfConnection(conn) \cap Referred = {}
  /\ messages' = [id \in DOMAIN messages \ OfConnection(conn) |-> messages[id]]
  /\ conn' = 0
  /\ UNCHANGED <<inbox, conns, minted, rows, said, sync, sender, replied, clock>>

\* CommitmentRepository.set_status
SetStatus(k, status) == rows' = [rows EXCEPT ![k].status = status]

\* resolve_commitment, for a row the page found.
Resolve(k, status) ==
  /\ k \in DOMAIN rows /\ calls < MaxCalls /\ calls' = calls + 1
  /\ SetStatus(k, status)
  /\ said' = [said EXCEPT ![k] = status]
  /\ UNCHANGED <<inbox, mailbox, messages, minted, sync, sender, replied, day, begun, crashes>>

----------------------------------------------------------------------------
(* One sync.                                                               *)

\* fetch_messages: the newest mails, up to the limit, newest first.
Fetched == Reverse(SubSeq(inbox, IF Len(inbox) > Limit THEN Len(inbox) - Limit + 1 ELSE 1, Len(inbox)))

\* What _record_commitments upserts for the messages it was given.
Found(read) ==
  UNION {{<<r[1]>> \o f : f \in Extract(Body[r[2]], "theirs", TRUE)} : r \in {r \in read : r[2] \notin Spam}}

\* The mails still to save; after the last one, the promises of those read.
Reading(c, todo, read) ==
  [conn |-> c, todo |-> todo, read |-> read,
   pc |-> IF todo = <<>> THEN "track" ELSE "save",
   work |-> IF todo = <<>> THEN SetToSeq(Found(read)) ELSE <<>>]

\* The sync request's look at the organisation's connections: without one, 400.
MailboxFound == conn # 0

SyncBegin(s) ==
  /\ sync[s] = Idle /\ MailboxFound
  /\ sync' = [sync EXCEPT ![s] = Reading(conn, Fetched, {})]
  /\ UNCHANGED <<inbox, mailbox, tables, sender, replied, clock>>

Abort(s) == sync' = [sync EXCEPT ![s] = Idle]

RowOf(c, m) == {id \in DOMAIN messages : messages[id] = [conn |-> c, mail |-> m]}

\* Mutant: promises are looked for in new messages only.
SaveLookNewOnly(s) ==
  /\ sync[s].pc = "save" /\ sync[s].todo # <<>>
  /\ sync' = IF RowOf(sync[s].conn, Head(sync[s].todo)) = {} THEN [sync EXCEPT ![s].pc = "insert"]
             ELSE [sync EXCEPT ![s] = Reading(@.conn, Tail(@.todo), @.read)]
  /\ UNCHANGED <<inbox, mailbox, tables, sender, replied, clock>>

\* ProcessedMessageRepository.upsert, when the row is there.
SaveLook(s) ==
  /\ sync[s].pc = "save" /\ sync[s].todo # <<>>
  /\ LET m == Head(sync[s].todo)
         found == RowOf(sync[s].conn, m)
     IN  sync' = IF found = {} THEN [sync EXCEPT ![s].pc = "insert"]
                 ELSE [sync EXCEPT ![s] = Reading(@.conn, Tail(@.todo), @.read \cup (found \X {m}))]
  /\ UNCHANGED <<inbox, mailbox, tables, sender, replied, clock>>

\* Its insert: the connection must be there still, and the row not yet.
SaveInsert(s) ==
  /\ sync[s].pc = "insert" /\ minted < MaxRows
  /\ LET m == Head(sync[s].todo)
         row == [conn |-> sync[s].conn, mail |-> m]
     IN  IF RowOf(sync[s].conn, m) # {} \/ (ForeignKeys /\ conn # sync[s].conn)
         THEN Abort(s) /\ UNCHANGED <<messages, minted>>
         ELSE /\ minted' = minted + 1
              /\ messages' = [id \in DOMAIN messages \cup {minted + 1} |->
                                IF id = minted + 1 THEN row ELSE messages[id]]
              /\ sync' = [sync EXCEPT ![s] = Reading(@.conn, Tail(@.todo), @.read \cup {<<minted + 1, m>>})]
  /\ UNCHANGED <<inbox, mailbox, rows, said, sender, replied, clock>>

\* Mutant: any row of the message counts as this promise's.
KnownMessage(k) == \E j \in DOMAIN rows : j[1] = k[1]

\* CommitmentRepository.upsert: a promise that has a row is left alone.
Known(k) == k \in DOMAIN rows

\* Mutant: a promise read again gets the day its words name now.
TrackLookAgain(s) ==
  /\ sync[s].pc = "track" /\ sync[s].work # <<>>
  /\ LET k == Head(sync[s].work)
     IN  IF Known(k)
         THEN /\ rows' = [rows EXCEPT ![k].due = ParseDue(k[3].words, day)]
              /\ sync' = [sync EXCEPT ![s].work = Tail(@)]
         ELSE rows' = rows /\ sync' = [sync EXCEPT ![s].pc = "add"]
  /\ UNCHANGED <<inbox, mailbox, messages, minted, said, sender, replied, clock>>

TrackLook(s) ==
  /\ sync[s].pc = "track" /\ sync[s].work # <<>>
  /\ sync' = IF Known(Head(sync[s].work)) THEN [sync EXCEPT ![s].work = Tail(@)]
             ELSE [sync EXCEPT ![s].pc = "add"]
  /\ UNCHANGED <<inbox, mailbox, tables, sender, replied, clock>>

NewRow(k) == [status |-> "open", due |-> ParseDue(k[3].words, day), read |-> day]

Write(k) ==
  /\ rows' = [j \in DOMAIN rows \cup {k} |-> IF j = k THEN NewRow(k) ELSE rows[j]]
  /\ said' = [j \in DOMAIN said \cup {k} |-> IF j \in DOMAIN said THEN said[j] ELSE "nothing"]
  /\ UNCHANGED <<messages, minted>>

\* Mutant: a row that is there is written over.
MayWriteOver(k) == ForeignKeys => k[1] \in DOMAIN messages

\* uq_commitment_fingerprint and the message's foreign key.
MayWrite(k) == k \notin DOMAIN rows /\ (ForeignKeys => k[1] \in DOMAIN messages)

TrackInsert(s) ==
  /\ sync[s].pc = "add"
  /\ LET k == Head(sync[s].work)
     IN  IF MayWrite(k)
         THEN Write(k) /\ sync' = [sync EXCEPT ![s].pc = "track", ![s].work = Tail(@)]
         ELSE Abort(s) /\ UNCHANGED tables
  /\ UNCHANGED <<inbox, mailbox, sender, replied, clock>>

SyncEnd(s) ==
  /\ sync[s].pc = "track" /\ sync[s].work = <<>>
  /\ Abort(s)
  /\ UNCHANGED <<inbox, mailbox, tables, sender, replied, clock>>

----------------------------------------------------------------------------
(* The reply a reviewer approved: it was sent, its row is written, and now *)
(* its promises are recorded.                                              *)

Sent(id) ==
  /\ sender = Idle /\ id \in DOMAIN messages \ replied /\ Reply[messages[id].mail] # {}
  /\ replied' = replied \cup {id}
  /\ sender' = [pc |-> "track", id |-> id,
                work |-> SetToSeq({<<id>> \o f : f \in Extract(Reply[messages[id].mail], "ours", FALSE)})]
  /\ UNCHANGED <<inbox, mailbox, tables, sync, clock>>

OwnLook ==
  /\ sender.pc = "track"
  /\ sender' = IF sender.work = <<>> THEN Idle
               ELSE IF Known(Head(sender.work)) THEN [sender EXCEPT !.work = Tail(@)]
               ELSE [sender EXCEPT !.pc = "add"]
  /\ UNCHANGED <<inbox, mailbox, tables, sync, replied, clock>>

\* A refused insert fails the request; the reply stays sent.
OwnInsert ==
  /\ sender.pc = "add"
  /\ LET k == Head(sender.work)
     IN  IF MayWrite(k) THEN Write(k) /\ sender' = [sender EXCEPT !.pc = "track", !.work = Tail(@)]
         ELSE sender' = Idle /\ UNCHANGED tables
  /\ UNCHANGED <<inbox, mailbox, sync, replied, clock>>

----------------------------------------------------------------------------
(* The "Waiting on" page.                                                  *)

\* list_for_org orders by the date, those without one last, and then the newest first.
Sooner(j, k) ==
  IF rows[j].due = rows[k].due THEN rows[j].read > rows[k].read
  ELSE rows[j].due # NoDate /\ (rows[k].due = NoDate \/ rows[j].due < rows[k].due)

\* list_for_org: the first page of the rows of one status and direction.
Listed(status, directions) ==
  LET chosen == {k \in DOMAIN rows : rows[k].status = status /\ k[2] \in directions}
  IN  {k \in chosen : Cardinality({j \in chosen : Sooner(j, k)}) < PageSize}

\* waiting: one page, with no way to the next, open rows unless it is asked for the done.
Waiting(direction, show) ==
  Listed(IF show = "done" THEN "done" ELSE "open",
         IF direction = "both" THEN {"ours", "theirs"} ELSE {direction})

Crash ==
  /\ crashes < MaxCrashes /\ crashes' = crashes + 1
  /\ sync' = [s \in Syncs |-> Idle] /\ sender' = Idle
  /\ UNCHANGED <<day, begun, calls, inbox, mailbox, tables, replied>>

----------------------------------------------------------------------------
Init ==
  /\ day \in Today0 /\ begun = day /\ inbox = <<>>
  /\ conn = 0 /\ conns = 0
  /\ messages = [id \in {} |-> Idle] /\ minted = 0
  /\ rows = [k \in {} |-> Idle] /\ said = [k \in {} |-> "nothing"]
  /\ sync = [s \in Syncs |-> Idle] /\ sender = Idle /\ replied = {}
  /\ calls = 0 /\ crashes = 0

Step(s) ==
  SaveLook(s) \/ SaveInsert(s) \/ TrackLook(s) \/ TrackInsert(s) \/ SyncEnd(s)

People ==
  \/ Connect \/ Disconnect
  \/ \E k \in DOMAIN rows, status \in {"open", "done", "dropped"} : Resolve(k, status)
  \/ \E id \in DOMAIN messages : Sent(id)

Next ==
  \/ Tick \/ (\E m \in Mails : Arrive(m)) \/ People
  \/ (\E s \in Syncs : SyncBegin(s) \/ Step(s))
  \/ OwnLook \/ OwnInsert \/ Crash

Spec == Init /\ [][Next]_vars

(* The worker comes round for ever, and a sync runs to its end.            *)
Fairness == WF_vars(SyncBegin(Worker)) /\ \A s \in Syncs : WF_vars(Step(s))
FairSpec == Spec /\ Fairness

----------------------------------------------------------------------------
(* Properties.                                                             *)

Keys == (1..MaxRows) \X {"ours", "theirs"} \X UNION {Body[m] \cup Reply[m] : m \in Mails}

\* The type invariant: the tables are keyed by ids that were given out, a row
\* is dated not before it was read unless its words name a past day, and a
\* running sync works on the mails and promises it read.
TypeOK ==
  /\ conn \in {0, conns} /\ conns \in 0..MaxConns /\ minted \in 0..MaxRows
  /\ DOMAIN messages \subseteq 1..minted /\ replied \subseteq 1..minted
  /\ \A id \in DOMAIN messages : messages[id] \in [conn : 1..conns, mail : Mails]
  /\ DOMAIN rows \subseteq Keys /\ DOMAIN said = DOMAIN rows
  /\ \A k \in DOMAIN rows : rows[k].status \in {"open", "done", "dropped"}
  /\ \A s \in Syncs : sync[s] # Idle => sync[s].read \subseteq (1..minted) \X Mails

Plain(x) == {"promise", "blocked", "request"} \cap x.marks # {} /\ {"negated", "filler", "long"} \cap x.marks = {}

\* A sync that ends has listed every promise and every request it read in mail
\* that is no spam, whatever other syncs, approvals and people did meanwhile.
ReadIsTracked ==
  \A s \in Syncs : sync[s].pc = "track" /\ sync[s].work = <<>> =>
    \A r \in sync[s].read : r[2] \notin Spam =>
      \A x \in Body[r[2]] : Plain(x) => \E d \in {"ours", "theirs"} : <<r[1], d, x>> \in DOMAIN rows

\* A promise made in a reply is listed once the approval that sent it is over,
\* unless the process was restarted or the mailbox disconnected in between.
SentIsTracked ==
  \A id \in replied \cap DOMAIN messages : crashes = 0 /\ ~(sender # Idle /\ sender.id = id) =>
    \A x \in Reply[messages[id].mail] :
      Plain(x) /\ "request" \notin x.marks => <<id, "ours", x>> \in DOMAIN rows

Overdue(k) == rows[k].status = "open" /\ rows[k].due # NoDate /\ rows[k].due < day

\* Once the page counts a promise as past its date, it stays so until somebody
\* says something of it: no later reading of the same words ("by Friday")
\* moves the day.
LateStaysLate ==
  [][\A k \in DOMAIN rows : Overdue(k) => k \in DOMAIN rows' /\ (Overdue(k)' \/ said'[k] # said[k])]_vars

\* A promise past its date is on the page that shows the whole list, or its direction,
\* as long as there is no more than a page of them: undated and later promises,
\* however new, never push it off a page that has no next one
\* (repository.py:1232-1233, "a list sorted by anything other than urgency ...").
OverdueIsShown ==
  \A direction \in {"both", "ours", "theirs"} :
    LET late == {k \in DOMAIN rows : Overdue(k) /\ (direction = "both" \/ k[2] = direction)}
    IN  Cardinality(late) <= PageSize => late \subseteq Waiting(direction, "open")

\* What is late is on the page and stays there until somebody says something of it
\* (list_for_org, _record_commitments).
LateIsShown == []OverdueIsShown /\ LateStaysLate

Promises == UNION {{<<m>> \o f : f \in Extract(Body[m], "theirs", TRUE) \cup Extract(Reply[m], "ours", FALSE)} :
                   m \in Mails}
RowsOf(p) == {k \in DOMAIN rows : messages[k[1]].mail = p[1] /\ <<k[2], k[3]>> = <<p[2], p[3]>>}
TheRow(p) == CHOOSE k \in RowsOf(p) : TRUE

List == INSTANCE PromiseList WITH
  list <- [p \in Promises |-> IF RowsOf(p) = {} THEN "unlisted" ELSE rows[TheRow(p)].status],
  said <- [p \in Promises |-> IF RowsOf(p) = {} THEN "nothing" ELSE said[TheRow(p)]]

\* Where foreign keys are enforced, the rows implement the list the page
\* promises: over syncs that overlap, restarts, disconnects and new consents a
\* promise is listed once, is never lost, and has the status people gave it.
KeepsTheList == List!Spec

Missing(m) ==
  /\ conn # 0 /\ m \in ToSet(Fetched) \ Spam
  /\ \E f \in Extract(Body[m], "theirs", TRUE) : RowsOf(<<m>> \o f) = {}

\* What a mail promises is listed in the end, although a sync that meets
\* another one's insert fails as a whole - unless the mail drops out of the
\* newest Limit first, or the mailbox is disconnected.
PromisesGetListed == \A m \in Mails : []<>~Missing(m)

\* A phrase is given the first day it names, from today on for a day of a
\* month and from tomorrow on for a day of the week, over the ends of months
\* and years and leap days; and no day at all only for a 29 February that
\* this year or the next does not have. So is every row, counted from the day
\* its mail was read.
DueIsTheNamedDay ==
  /\ RightDays
  /\ \A k \in DOMAIN rows, p \in Dates : k[3].words = {p} => RightDay(p, rows[k].read, rows[k].due)

\* The list says what the mail said: every promise read or sent, and its day
\* (_record_commitments, _record_own_commitments, parse_due).
ListIsTrue == TypeOK /\ ReadIsTracked /\ SentIsTracked /\ DueIsTheNamedDay
=============================================================================
