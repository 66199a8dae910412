--------------------------- MODULE AccountsProofs ---------------------------
(* For any number of clients, addresses, rows and tokens: requests act     *)
(* within a session, mailboxes are connected by who asked, and passwords   *)
(* are replaced by who proved the row.                                     *)
EXTENDS Accounts, FiniteSetTheorems, TLAPS

----------------------------------------------------------------------------
(* The inductive invariant.                                                *)

Rows == [email : Emails, password : Passwords \union {Random}, licensed : BOOLEAN]

Steps == {"idle", "compare", "insert", "license", "feature", "change", "set", "exchange"}
Request == [pc : Steps, web : BOOLEAN, email : Emails \union {"none"}, user : Ids \union {NoId},
            typed : Passwords \union {Random}, new : Passwords \union {Random},
            seen : Passwords \union {Random}, proved : Ids \union {NoId},
            reader : Ids \union {NoId}]

\* An id is given once, and an address names one row.
RowsOk ==
  /\ users \in [Ids -> Rows \union {NoRow}] /\ nextId \in 1 .. MaxId + 1
  /\ \A id \in Ids : Exists(id) => id < nextId
  /\ \A i, j \in Ids : Exists(i) /\ Exists(j) /\ users[i].email = users[j].email => i = j

\* The local variables of a request: the row it found has not changed its address, and
\* if it is still there it is the row that was proved.
RequestOk(r) ==
  /\ r.user < nextId
  /\ r.pc = "insert" => r.email \in Emails
  /\ r.pc \in {"change", "set"} => r.user \in Ids
  /\ r.pc = "change" /\ Exists(r.user) => users[r.user].email = r.email
  /\ r.pc = "change" /\ r.web => r.reader = r.user
  /\ r.pc = "set" /\ Exists(r.user) => r.proved = r.user

\* A token names no row of the future, a session not one that never signed in, and a
\* consent's state not one that never asked; each outlives its occasion by its life.
TokenOk(t) ==
  /\ t.sub < nextId
  /\ t.typ = "session" =>
       t.sub \in Ids /\ signedAt[t.sub] <= now /\ t.exp <= signedAt[t.sub] + SessionTtl

ConsentOk(t) ==
  t.typ = "oauth_state" =>
    t.sub \in Ids /\ askedAt[t.sub] <= now /\ t.exp <= askedAt[t.sub] + ConnectTtl

\* While the cookie a form is bound to opens a session, it is its reader's.
PageOk(p) ==
  p # NoPage /\ p.fp # NoToken =>
    p.fp.sub < nextId /\ (Resolve(p.fp) # NoId => p.reader = Resolve(p.fp))

TokensOk ==
  /\ jar \in Token \union {NoToken} /\ (jar # NoToken => TokenOk(jar))
  /\ world \subseteq Token /\ \A t \in world : TokenOk(t) /\ ConsentOk(t)

ClockOk ==
  now \in 0 .. MaxNow /\ signedAt \in [Ids -> 0 .. Never] /\ askedAt \in [Ids -> 0 .. Never]

PagesOk == page \in [Clients -> Page \union {NoPage}] /\ \A c \in Clients : PageOk(page[c])

RequestsOk == req \in [Clients -> Request] /\ \A c \in Clients : RequestOk(req[c])

AccountsInv == RowsOk /\ ClockOk /\ TokensOk /\ PagesOk /\ RequestsOk

\* What a step may do to the rows: add one under the next id, remove some, and leave
\* the addresses of the others.
RowsKept ==
  /\ nextId' \in Nat /\ nextId <= nextId'
  /\ \A id \in Ids : id < nextId /\ Exists(id)' =>
       Exists(id) /\ users'[id].email = users[id].email

----------------------------------------------------------------------------
(* Rows.                                                                   *)

LEMMA Numbers ==
  /\ MaxId \in Nat /\ MaxNow \in Nat
  /\ (\A id \in Ids : id \in Nat /\ id # 0)
  /\ SessionTtl \in Nat /\ ResetTtl \in Nat /\ StateTtl \in Nat
  /\ ConnectTtl \in Nat /\ FormTtl \in Nat
  BY AccountsAssumption DEF Ids

\* get_by_email_global finds the one row of an address, if there is one.
LEMMA LookupFinds ==
  ASSUME RowsOk, NEW e
  PROVE  /\ Lookup(e) \in Ids \union {NoId}
         /\ Lookup(e) # NoId => Exists(Lookup(e)) /\ users[Lookup(e)].email = e
         /\ \A id \in Ids : Exists(id) /\ users[id].email = e => Lookup(e) = id
<1>1. CASE RowsOf(e) = {}
  BY <1>1 DEF Lookup, RowsOf
<1>2. CASE RowsOf(e) # {}
  <2>1. Lookup(e) \in RowsOf(e)
    BY <1>2 DEF Lookup
  <2>2. Exists(Lookup(e)) /\ users[Lookup(e)].email = e /\ Lookup(e) \in Ids
    BY <2>1 DEF RowsOf
  <2> QED
    BY <2>2 DEF RowsOk
<1> QED
  BY <1>1, <1>2

\* An address without a row is free.
LEMMA AddressFree ==
  ASSUME RowsOk, NEW e, Lookup(e) = NoId, NEW id \in Ids, Exists(id)
  PROVE  users[id].email # e
  BY LookupFinds, Numbers DEF NoId

LEMMA RowIsRow == ASSUME RowsOk, NEW id, Exists(id) PROVE users[id] \in Rows
  BY DEF RowsOk, Exists

LEMMA NextId == ASSUME RowsOk PROVE nextId \in Nat /\ nextId \in 1 .. MaxId + 1
<1>1. nextId \in 1 .. MaxId + 1
  BY DEF RowsOk
<1> QED
  BY <1>1, Numbers

LEMMA NothingHappened == ASSUME RowsOk, UNCHANGED <<users, nextId>> PROVE RowsOk' /\ RowsKept
<1>1. nextId \in Nat
  BY Numbers DEF RowsOk
<1> QED
  BY <1>1 DEF RowsOk, RowsKept, Exists

\* UserRepository.create, for an address that is free.
LEMMA InsertKeeps ==
  ASSUME RowsOk, NEW e \in Emails, NEW p \in Passwords \union {Random}, NEW l \in BOOLEAN,
         Lookup(e) = NoId, nextId <= MaxId, Insert(e, p, l)
  PROVE  RowsOk' /\ RowsKept
<1> DEFINE r == [email |-> e, password |-> p, licensed |-> l]
<1>1. /\ users \in [Ids -> Rows \union {NoRow}] /\ nextId \in Ids /\ nextId' = nextId + 1
      /\ users' = [users EXCEPT ![nextId] = r] /\ nextId' \in 1 .. MaxId + 1
      /\ nextId \in Nat /\ nextId' \in Nat
  BY Numbers DEF RowsOk, Ids, Insert
<1>2. r \in Rows /\ r.email = e
  BY DEF Rows
<1> HIDE DEF r
<1>3. users' \in [Ids -> Rows \union {NoRow}]
  BY <1>1, <1>2
<1>4. \A id \in Ids : id # nextId => users'[id] = users[id]
  BY <1>1
<1>5. users'[nextId].email = e
  BY <1>1, <1>2
<1>6. \A id \in Ids : id # nextId /\ Exists(id)' => Exists(id) /\ id < nextId /\ id \in Nat
  BY <1>4, Numbers DEF Exists, RowsOk
<1>7. \A id \in Ids : Exists(id)' => id < nextId'
  BY <1>1, <1>6
<1>8. ASSUME NEW i \in Ids, NEW j \in Ids, Exists(i)', Exists(j)', users'[i].email = users'[j].email
      PROVE  i = j
  <2>1. \A id \in Ids : Exists(id) => users[id].email # e
    BY AddressFree
  <2>2. CASE i # nextId /\ j # nextId
    BY <1>4, <1>6, <1>8, <2>2 DEF RowsOk
  <2>3. CASE i = nextId /\ j # nextId
    BY <1>4, <1>5, <1>6, <1>8, <2>1, <2>3
  <2>4. CASE i # nextId /\ j = nextId
    BY <1>4, <1>5, <1>6, <1>8, <2>1, <2>4
  <2> QED
    BY <2>2, <2>3, <2>4
<1>9. RowsKept
  BY <1>1, <1>4, <1>6, Numbers DEF RowsKept
<1> QED
  BY <1>1, <1>3, <1>7, <1>8, <1>9 DEF RowsOk

LEMMA NextIdGrows == ASSUME RowsKept PROVE nextId' \in Nat /\ nextId <= nextId'
  BY DEF RowsKept

\* A row written in place keeps its address; set_password and the licence do that.
LEMMA WriteKeeps ==
  ASSUME RowsOk, NEW id \in Ids, Exists(id), NEW r \in Rows, r.email = users[id].email,
         users' = [users EXCEPT ![id] = r], nextId' = nextId
  PROVE  RowsOk' /\ RowsKept
<1>1. users' \in [Ids -> Rows \union {NoRow}] /\ nextId' \in 1 .. MaxId + 1 /\ nextId \in Nat
  BY Numbers DEF RowsOk
<1>2. \A i \in Ids : Exists(i)' => Exists(i) /\ users'[i].email = users[i].email
  BY DEF RowsOk, Exists
<1> QED
  BY <1>1, <1>2 DEF RowsOk, RowsKept

LEMMA SetPasswordKeeps ==
  ASSUME RowsOk, NEW id \in Ids, NEW p \in Passwords \union {Random}, SetPassword(id, p),
         nextId' = nextId
  PROVE  RowsOk' /\ RowsKept
<1>1. CASE Exists(id)
  <2> DEFINE r == [users[id] EXCEPT !.password = p]
  <2>1. users[id] \in Rows
    BY <1>1, RowIsRow
  <2>2. r \in Rows /\ r.email = users[id].email
    BY <2>1 DEF Rows
  <2>3. users' = [users EXCEPT ![id] = r]
    BY <1>1 DEF SetPassword
  <2> HIDE DEF r
  <2> QED
    BY <1>1, <2>2, <2>3, WriteKeeps
<1>2. CASE ~Exists(id)
  BY <1>2, NothingHappened DEF SetPassword
<1> QED
  BY <1>1, <1>2

LEMMA RemoveKeeps ==
  ASSUME RowsOk, NEW id \in Ids, users' = [users EXCEPT ![id] = NoRow], nextId' = nextId
  PROVE  RowsOk' /\ RowsKept
<1>1. users' \in [Ids -> Rows \union {NoRow}] /\ nextId' \in 1 .. MaxId + 1 /\ nextId \in Nat
  BY Numbers DEF RowsOk
<1>2. \A i \in Ids : Exists(i)' => Exists(i) /\ users'[i].email = users[i].email
  BY DEF RowsOk, Exists
<1> QED
  BY <1>1, <1>2 DEF RowsOk, RowsKept

----------------------------------------------------------------------------
(* What the steps leave of pages, tokens and requests.                     *)

\* A cookie that opens a session later opens the same one now: rows do not come back.
LEMMA ResolveFades ==
  ASSUME RowsOk, RowsKept, ClockOk, now' \in Nat, now <= now', NEW t \in Token, t.sub < nextId,
         Resolve(t)' # NoId
  PROVE  Resolve(t)' = Resolve(t)
<1>1. t # NoToken /\ t.typ = "session" /\ now' < t.exp /\ Exists(t.sub)' /\ Resolve(t)' = t.sub
  BY DEF Resolve, Decodes
<1>2. t.sub \in Ids /\ now \in Nat /\ t.exp \in Nat
  BY <1>1, Numbers DEF Exists, ClockOk, Token
<1>3. Exists(t.sub) /\ now < t.exp
  BY <1>1, <1>2 DEF RowsKept
<1> QED
  BY <1>1, <1>3 DEF Resolve, Decodes

LEMMA PageStays ==
  ASSUME RowsOk, RowsKept, ClockOk, now' \in Nat, now <= now', NEW p \in Page \union {NoPage},
         PageOk(p)
  PROVE  PageOk(p)'
<1> SUFFICES ASSUME p # NoPage, p.fp # NoToken
             PROVE  p.fp.sub < nextId' /\ (Resolve(p.fp)' # NoId => p.reader = Resolve(p.fp)')
  BY DEF PageOk
<1>1. p.fp \in Token /\ p.fp.sub < nextId /\ (Resolve(p.fp) # NoId => p.reader = Resolve(p.fp))
  BY DEF Page, PageOk
<1>2. p.fp.sub \in Nat /\ nextId \in Nat /\ nextId' \in Nat /\ nextId <= nextId'
  <2>0. nextId \in Nat /\ nextId' \in Nat /\ nextId <= nextId'
    BY NextId, NextIdGrows
  <2>1. p.fp.sub \in Ids \union {NoId}
    BY <1>1 DEF Token
  <2>2. p.fp.sub \in Nat
    BY <2>1, Numbers DEF NoId
  <2> QED
    BY <2>0, <2>2
<1>3. p.fp.sub < nextId'
  BY <1>1, <1>2
<1> HIDE DEF PageOk
<1>4. Resolve(p.fp)' # NoId => Resolve(p.fp)' = Resolve(p.fp)
  BY <1>1, ResolveFades
<1> QED
  BY <1>1, <1>3, <1>4

LEMMA PagesStay ==
  ASSUME RowsOk, RowsKept, ClockOk, now' \in Nat, now <= now', PagesOk, page' = page
  PROVE  PagesOk'
<1>1. ASSUME NEW c \in Clients PROVE PageOk(page[c])'
  <2>1. PICK p \in Page \union {NoPage} : p = page[c] /\ PageOk(p)
    BY DEF PagesOk
  <2>2. PageOk(p)' /\ page'[c] = p
    BY <2>1, PageStays
  <2> QED
    BY <2>2 DEF PageOk, Resolve, Decodes, Exists
<1> QED
  BY <1>1 DEF PagesOk

\* Tokens that are there stay right when only the rows change.
LEMMA TokenStays ==
  ASSUME RowsOk, RowsKept, UNCHANGED <<now, signedAt>>, NEW t \in Token, TokenOk(t)
  PROVE  TokenOk(t)'
<1>1. t.sub \in Nat /\ nextId \in Nat /\ nextId' \in Nat /\ nextId <= nextId' /\ t.sub < nextId
  <2>0. nextId \in Nat /\ nextId' \in Nat /\ nextId <= nextId'
    BY NextId, NextIdGrows
  <2>1. t.sub \in Ids \union {NoId}
    BY DEF Token
  <2>2. t.sub \in Nat
    BY <2>1, Numbers DEF NoId
  <2> QED
    BY <2>0, <2>2 DEF TokenOk
<1>2. t.sub < nextId'
  BY <1>1
<1> QED
  BY <1>2 DEF TokenOk

LEMMA TokensStay ==
  ASSUME RowsOk, RowsKept, TokensOk, UNCHANGED <<jar, world, now, signedAt, askedAt>>
  PROVE  TokensOk'
<1>1. \A t \in Token : TokenOk(t) => TokenOk(t)'
  BY TokenStays
<1>2. \A t : ConsentOk(t) => ConsentOk(t)'
  BY DEF ConsentOk
<1> QED
  BY <1>1, <1>2 DEF TokensOk

LEMMA RequestStays ==
  ASSUME RowsOk, RowsKept, NEW r \in Request, RequestOk(r)
  PROVE  RequestOk(r)'
<1>1. r.user \in Nat /\ nextId \in Nat /\ nextId' \in Nat /\ nextId <= nextId' /\ r.user < nextId
  <2>0. nextId \in Nat /\ nextId' \in Nat /\ nextId <= nextId'
    BY NextId, NextIdGrows
  <2>1. r.user \in Ids \union {NoId}
    BY DEF Request
  <2>2. r.user \in Nat
    BY <2>1, Numbers DEF NoId
  <2> QED
    BY <2>0, <2>2 DEF RequestOk
<1>2. r.user < nextId'
  BY <1>1
<1>3. r.user \in Ids /\ Exists(r.user)' =>
        Exists(r.user) /\ users'[r.user].email = users[r.user].email
  BY <1>1 DEF RowsKept
<1>4. ASSUME r.pc \in {"change", "set"}, Exists(r.user)'
      PROVE  Exists(r.user) /\ users'[r.user].email = users[r.user].email
  BY <1>3, <1>4 DEF RequestOk
<1> QED
  BY <1>2, <1>4 DEF RequestOk

\* One request moves on, the others keep their variables.
LEMMA RequestsMove ==
  ASSUME RowsOk, RowsKept, RequestsOk, NEW c \in Clients, NEW r \in Request,
         req' = [req EXCEPT ![c] = r], RequestOk(r)'
  PROVE  RequestsOk'
<1>1. req' \in [Clients -> Request]
  BY DEF RequestsOk
<1>2. ASSUME NEW d \in Clients PROVE RequestOk(req[d])'
  <2>1. CASE d = c
    <3>1. req'[d] = r
      BY <2>1 DEF RequestsOk
    <3> QED
      BY <3>1 DEF RequestOk, Exists
  <2>2. CASE d # c
    <3>1. PICK q \in Request : q = req[d] /\ RequestOk(q)
      BY DEF RequestsOk
    <3>2. req'[d] = q
      BY <2>2, <3>1 DEF RequestsOk
    <3>3. RequestOk(q)'
      BY <3>1, RequestStays
    <3> QED
      BY <3>2, <3>3 DEF RequestOk, Exists
  <2> QED
    BY <2>1, <2>2
<1> QED
  BY <1>1, <1>2 DEF RequestsOk

\* A step that only moves one request.
LEMMA OnlyRequest ==
  ASSUME AccountsInv, NEW c \in Clients, NEW r \in Request, RequestOk(r),
         req' = [req EXCEPT ![c] = r],
         UNCHANGED <<users, nextId, jar, page, world, now, signedAt, askedAt>>
  PROVE  AccountsInv'
<1>1. RowsOk' /\ RowsKept
  BY NothingHappened DEF AccountsInv
<1>2. ClockOk' /\ now \in Nat /\ now' \in Nat /\ now <= now'
  BY Numbers DEF AccountsInv, ClockOk
<1>3. RequestOk(r)'
  BY <1>1, RequestStays DEF AccountsInv
<1>4. TokensOk' /\ PagesOk' /\ RequestsOk'
  BY <1>1, <1>2, <1>3, TokensStay, PagesStay, RequestsMove DEF AccountsInv
<1> QED
  BY <1>1, <1>2, <1>4 DEF AccountsInv

\* A step that only adds tokens.
LEMMA OnlyTokens ==
  ASSUME AccountsInv, UNCHANGED <<users, nextId, page, req, now>>, TokensOk', ClockOk'
  PROVE  AccountsInv'
<1>1. RowsOk' /\ RowsKept
  BY NothingHappened DEF AccountsInv
<1>2. now \in Nat /\ now' \in Nat /\ now <= now'
  BY Numbers DEF AccountsInv, ClockOk
<1>3. PagesOk'
  BY <1>1, <1>2, PagesStay DEF AccountsInv
<1>4. RequestsOk'
  BY DEF AccountsInv, RequestsOk, RequestOk, Exists
<1> QED
  BY <1>1, <1>3, <1>4 DEF AccountsInv

LEMMA Idles == ASSUME RowsOk PROVE Idle \in Request /\ RequestOk(Idle)
<1>1. Idle \in Request
  BY DEF Idle, Request, Steps, NoId
<1>2. RequestOk(Idle)
  BY NextId DEF Idle, RequestOk, RowsOk, NoId
<1> QED
  BY <1>1, <1>2

LEMMA RequestIs ==
  ASSUME AccountsInv, NEW c \in Clients
  PROVE  req[c] \in Request /\ RequestOk(req[c])
  BY DEF AccountsInv, RequestsOk

LEMMA Encoded ==
  ASSUME ClockOk, NEW typ \in Kinds, NEW id \in Ids \union {NoId}, NEW ttl \in Nat
  PROVE  /\ Encode(typ, id, ttl) \in Token /\ Encode(typ, id, ttl).typ = typ
         /\ Encode(typ, id, ttl).sub = id /\ Encode(typ, id, ttl).exp = now + ttl
<1>1. now + ttl \in Nat
  BY Numbers DEF ClockOk
<1> QED
  BY <1>1 DEF Encode, Token

\* issue_token: the session is no older than the sign-in it comes from.
LEMMA SessionIssued ==
  ASSUME RowsOk, RowsKept, ClockOk, TokensOk, NEW c \in Clients, NEW id \in Ids, id < nextId,
         IssueSession(c, id), UNCHANGED <<now, askedAt>>
  PROVE  TokensOk' /\ ClockOk'
<1>1. PICK t \in Token : /\ t = Encode("session", id, SessionTtl)
                        /\ t.typ = "session" /\ t.sub = id /\ t.exp = now + SessionTtl
  BY Encoded, Numbers DEF Kinds
<1>2. /\ signedAt' = [signedAt EXCEPT ![id] = now] /\ now' = now /\ askedAt' = askedAt
      /\ \/ jar' = t /\ world' = world
         \/ jar' = jar /\ world' = world \union {t}
  BY <1>1 DEF IssueSession, HandOut
<1>3. /\ signedAt \in [Ids -> 0 .. Never] /\ signedAt' \in [Ids -> 0 .. Never]
      /\ now \in Nat /\ \A i \in Ids : signedAt[i] \in Nat /\ signedAt'[i] \in Nat
  BY <1>2, Numbers DEF ClockOk, Never
<1>4. nextId \in Nat /\ nextId' \in Nat /\ nextId <= nextId'
  BY NextId, NextIdGrows
<1>5. TokenOk(t)'
  BY <1>1, <1>2, <1>3, <1>4, Numbers DEF TokenOk
<1>6. ASSUME NEW u \in Token, TokenOk(u) PROVE TokenOk(u)'
  <2>1. u.sub \in Nat /\ u.exp \in Nat
    BY Numbers DEF Token, NoId
  <2>2. u.sub < nextId'
    BY <1>4, <1>6, <2>1 DEF TokenOk
  <2>3. ASSUME u.typ = "session"
        PROVE  u.sub \in Ids /\ signedAt'[u.sub] <= now' /\ u.exp <= signedAt'[u.sub] + SessionTtl
    <3>1. u.sub \in Ids /\ signedAt[u.sub] <= now /\ u.exp <= signedAt[u.sub] + SessionTtl
      BY <1>6, <2>3 DEF TokenOk
    <3>2. CASE u.sub = id
      BY <1>2, <1>3, <2>1, <3>1, <3>2, Numbers
    <3>3. CASE u.sub # id
      BY <1>2, <1>3, <3>1, <3>3
    <3> QED
      BY <3>2, <3>3
  <2> QED
    BY <2>2, <2>3 DEF TokenOk
<1>7. \A u : ConsentOk(u) => ConsentOk(u)'
  BY <1>2 DEF ConsentOk
<1>8. ConsentOk(t)'
  BY <1>1 DEF ConsentOk
<1>9. TokensOk'
  <2>1. CASE jar' = t /\ world' = world
    <3>1. jar' \in Token \union {NoToken} /\ TokenOk(jar)'
      BY <1>1, <1>5, <2>1 DEF TokenOk
    <3> QED
      BY <1>6, <1>7, <2>1, <3>1 DEF TokensOk
  <2>2. CASE jar' = jar /\ world' = world \union {t}
    <3>1. jar' \in Token \union {NoToken} /\ (jar' # NoToken => TokenOk(jar)')
      BY <1>6, <2>2 DEF TokensOk, TokenOk
    <3>2. \A u \in world' : u \in Token /\ TokenOk(u)' /\ ConsentOk(u)'
      BY <1>1, <1>5, <1>6, <1>7, <1>8, <2>2 DEF TokensOk
    <3> QED
      BY <3>1, <3>2 DEF TokensOk
  <2> QED
    BY <1>2, <2>1, <2>2
<1>10. ClockOk'
  BY <1>2, <1>3 DEF ClockOk
<1> QED
  BY <1>9, <1>10

\* Any other token that is mailed or shown to a provider.
LEMMA TokenHandedOut ==
  ASSUME AccountsInv, NEW t \in Token, HandOut(t), t.typ # "session", t.sub < nextId,
         \A u \in Token : ConsentOk(u) => ConsentOk(u)', ConsentOk(t)', ClockOk',
         UNCHANGED <<users, nextId, jar, page, req, now, signedAt>>
  PROVE  AccountsInv'
<1>1. \A u : TokenOk(u) => TokenOk(u)'
  BY DEF TokenOk
<1>2. TokenOk(t)'
  BY DEF TokenOk
<1>3. world' = world \union {t}
  BY DEF HandOut
<1>4. jar' \in Token \union {NoToken} /\ (jar' # NoToken => TokenOk(jar)')
  BY <1>1 DEF AccountsInv, TokensOk, TokenOk
<1>5. \A u \in world' : u \in Token /\ TokenOk(u)' /\ ConsentOk(u)'
  BY <1>1, <1>2, <1>3 DEF AccountsInv, TokensOk
<1>6. TokensOk'
  BY <1>4, <1>5 DEF TokensOk
<1> QED
  BY <1>6, OnlyTokens

\* get_current_user and _require_user: the caller has a row and a session of it.
LEMMA SessionOf ==
  ASSUME AccountsInv, NEW id, Bearer(id) \/ Visitor(id)
  PROVE  /\ id \in Ids /\ Exists(id) /\ id < nextId
         /\ signedAt[id] <= now /\ now < signedAt[id] + SessionTtl
<1>1. PICK t \in world \union {jar} : Resolve(t) = id /\ id # NoId
  BY DEF Bearer, Visitor
<1>2. t # NoToken /\ t.typ = "session" /\ now < t.exp /\ Exists(t.sub) /\ id = t.sub
  BY <1>1 DEF Resolve, Decodes
<1>3. t \in Token /\ TokenOk(t)
  BY <1>1, <1>2 DEF AccountsInv, TokensOk
<1>4. id \in Ids /\ id < nextId /\ signedAt[id] <= now /\ t.exp <= signedAt[id] + SessionTtl
  BY <1>2, <1>3 DEF TokenOk
<1>5. now \in Nat /\ t.exp \in Nat /\ signedAt[id] \in Nat
  BY <1>3, <1>4, Numbers DEF AccountsInv, ClockOk, Never, Token
<1> QED
  BY <1>2, <1>4, <1>5, Numbers

----------------------------------------------------------------------------
(* Every action keeps the invariant.                                       *)

LEMMA InitiallyAccounts == Init => AccountsInv
<1> SUFFICES ASSUME Init PROVE AccountsInv
  OBVIOUS
<1>1. RowsOk
  BY Numbers DEF Init, RowsOk, Exists
<1>2. ClockOk
  BY Numbers DEF Init, ClockOk, Never
<1>3. TokensOk
  BY DEF Init, TokensOk
<1>4. PagesOk
  BY DEF Init, PagesOk, PageOk
<1>5. Idle \in Request /\ RequestOk(Idle)
  BY <1>1, Idles
<1>6. RequestsOk
  BY <1>5 DEF Init, RequestsOk
<1> QED
  BY <1>1, <1>2, <1>3, <1>4, <1>6 DEF AccountsInv

LEMMA OpenPageKeeps == ASSUME AccountsInv, NEW c \in Clients, OpenPage(c) PROVE AccountsInv'
<1> DEFINE p == [fp |-> jar, exp |-> now + FormTtl, reader |-> Resolve(jar)]
<1>1. jar \in Token \union {NoToken} /\ (jar # NoToken => TokenOk(jar)) /\ now + FormTtl \in Nat
  BY Numbers DEF AccountsInv, TokensOk, ClockOk
<1>2. Resolve(jar) \in Ids \union {NoId}
  BY DEF Resolve, Exists
<1>3. p \in Page /\ (p.fp # NoToken => p.fp.sub < nextId)
  BY <1>1, <1>2 DEF Page, TokenOk
<1>4. p.fp = jar /\ p.reader = Resolve(jar) /\ page' = [page EXCEPT ![c] = p]
  BY DEF OpenPage
<1> HIDE DEF p
<1>5. PageOk(p)
  BY <1>3, <1>4 DEF PageOk
<1>6. \A d \in Clients : page'[d] = page[d] \/ page'[d] = p
  BY <1>4 DEF AccountsInv, PagesOk
<1>7. \A d \in Clients : page[d] \in Page \union {NoPage} /\ PageOk(page[d])
  BY DEF AccountsInv, PagesOk
<1>8. page' \in [Clients -> Page \union {NoPage}]
  BY <1>3, <1>4 DEF AccountsInv, PagesOk
<1>9. \A d \in Clients : PageOk(page[d])'
  <2> TAKE d \in Clients
  <2>1. PICK q : q = page'[d] /\ PageOk(q)
    BY <1>5, <1>6, <1>7
  <2> QED
    BY <2>1 DEF OpenPage, PageOk, Resolve, Decodes, Exists
<1>10. PagesOk'
  BY <1>8, <1>9 DEF PagesOk
<1>11. RowsOk' /\ ClockOk' /\ TokensOk' /\ RequestsOk'
  BY DEF OpenPage, AccountsInv, RowsOk, ClockOk, TokensOk, TokenOk, ConsentOk, RequestsOk,
         RequestOk, Exists
<1> QED
  BY <1>10, <1>11 DEF AccountsInv

LEMMA AuthenticateKeeps ==
  ASSUME AccountsInv, NEW c \in Clients, NEW web \in BOOLEAN, NEW e \in Emails,
         NEW p \in Passwords, Authenticate(c, web, e, p)
  PROVE  AccountsInv'
<1> DEFINE seen == IF Lookup(e) = NoId THEN Random ELSE users[Lookup(e)].password
<1> DEFINE r == [Idle EXCEPT !.pc = "compare", !.web = web, !.user = Lookup(e), !.typed = p,
                              !.seen = seen]
<1>1. Lookup(e) \in Ids \union {NoId} /\ (Lookup(e) # NoId => Exists(Lookup(e)))
  BY LookupFinds DEF AccountsInv
<1>2. seen \in Passwords \union {Random}
  <2>1. Lookup(e) # NoId => users[Lookup(e)] \in Rows
    BY <1>1, RowIsRow DEF AccountsInv
  <2> QED
    BY <2>1 DEF Rows
<1>3. Lookup(e) < nextId
  BY <1>1, NextId DEF AccountsInv, RowsOk, NoId
<1>4. req' = [req EXCEPT ![c] = r] /\ UNCHANGED <<users, nextId, jar, page, world, now, signedAt,
                                                  askedAt>>
  BY DEF Authenticate
<1> HIDE DEF seen
<1>5. r \in Request /\ r.user = Lookup(e) /\ r.pc = "compare"
  BY <1>1, <1>2, Idles DEF Request, Steps, Idle, NoId
<1> HIDE DEF r
<1>6. RequestOk(r)
  BY <1>3, <1>5 DEF RequestOk
<1> QED
  BY <1>4, <1>5, <1>6, OnlyRequest

LEMMA LoginCompareKeeps ==
  ASSUME AccountsInv, NEW c \in Clients, LoginCompare(c) PROVE AccountsInv'
<1>1. RowsOk' /\ RowsKept
  BY NothingHappened DEF LoginCompare, AccountsInv
<1>2. Idle \in Request /\ RequestOk(Idle)' /\ req' = [req EXCEPT ![c] = Idle]
  <2>1. Idle \in Request /\ RequestOk(Idle)
    BY Idles DEF AccountsInv
  <2> QED
    BY <1>1, <2>1, RequestStays DEF LoginCompare, End, AccountsInv
<1>3. TokensOk' /\ ClockOk'
  <2>1. CASE UNCHANGED <<world, jar, signedAt>>
    <3>1. TokensOk'
      BY <1>1, <2>1, TokensStay DEF LoginCompare, AccountsInv
    <3> QED
      BY <2>1, <3>1 DEF LoginCompare, AccountsInv, ClockOk
  <2>2. CASE req[c].user # NoId /\ IssueSession(c, req[c].user)
    <3>1. req[c].user \in Ids /\ req[c].user < nextId
      BY <2>2, RequestIs DEF Request, RequestOk
    <3> QED
      BY <1>1, <2>2, <3>1, SessionIssued DEF LoginCompare, AccountsInv
  <2> QED
    BY <2>1, <2>2 DEF LoginCompare
<1>4. now \in Nat /\ now' \in Nat /\ now <= now' /\ page' = page
  BY Numbers DEF LoginCompare, AccountsInv, ClockOk
<1>5. PagesOk' /\ RequestsOk'
  BY <1>1, <1>2, <1>4, PagesStay, RequestsMove DEF AccountsInv
<1> QED
  BY <1>1, <1>3, <1>5 DEF AccountsInv

LEMMA LogoutKeeps == ASSUME AccountsInv, NEW c \in Clients, Logout(c) PROVE AccountsInv'
<1>1. TokensOk'
  <2>1. \A t : (TokenOk(t) => TokenOk(t)') /\ (ConsentOk(t) => ConsentOk(t)')
    BY DEF Logout, TokenOk, ConsentOk
  <2> QED
    BY <2>1 DEF Logout, AccountsInv, TokensOk
<1>2. ClockOk'
  BY DEF Logout, AccountsInv, ClockOk
<1> QED
  BY <1>1, <1>2, OnlyTokens DEF Logout

LEMMA ProvisionKeeps ==
  ASSUME AccountsInv, NEW c \in Clients, NEW web \in BOOLEAN, NEW e \in Emails,
         NEW p \in Passwords, Provision(c, web, e, p)
  PROVE  AccountsInv'
<1> DEFINE r == [Idle EXCEPT !.pc = "insert", !.web = web, !.email = e, !.new = p]
<1>1. req' = [req EXCEPT ![c] = r] /\ UNCHANGED <<users, nextId, jar, page, world, now, signedAt,
                                                  askedAt>>
  BY DEF Provision
<1>2. r \in Request /\ r.user = NoId /\ r.pc = "insert" /\ r.email \in Emails
  BY Idles DEF Request, Steps, Idle, NoId
<1> HIDE DEF r
<1>3. RequestOk(r)
  BY <1>2, NextId DEF RequestOk, AccountsInv, RowsOk, NoId
<1> QED
  BY <1>1, <1>2, <1>3, OnlyRequest

LEMMA SsoLoginKeeps == ASSUME AccountsInv, NEW c \in Clients, SsoLogin(c) PROVE AccountsInv'
<1>1. PICK t \in Token : /\ t = Encode("oidc_state", NoId, StateTtl)
                        /\ t.typ = "oidc_state" /\ t.sub = NoId
  BY Encoded, Numbers DEF Kinds, AccountsInv
<1>2. t.sub < nextId /\ ConsentOk(t)' /\ t.typ # "session"
  BY <1>1, NextId DEF AccountsInv, NoId, ConsentOk
<1>3. HandOut(t) /\ UNCHANGED <<users, nextId, jar, page, req, now, signedAt, askedAt>>
  BY <1>1 DEF SsoLogin
<1>4. \A u \in Token : ConsentOk(u) => ConsentOk(u)'
  BY <1>3 DEF ConsentOk
<1>5. ClockOk'
  BY <1>3 DEF AccountsInv, ClockOk
<1> QED
  BY <1>2, <1>3, <1>4, <1>5, TokenHandedOut

LEMMA SsoCallbackKeeps ==
  ASSUME AccountsInv, NEW c \in Clients, NEW e \in Emails, SsoCallback(c, e) PROVE AccountsInv'
<1> DEFINE r == [Idle EXCEPT !.web = TRUE, !.email = e, !.user = Lookup(e),
                              !.pc = IF Lookup(e) = NoId THEN "insert" ELSE "feature"]
<1>1. req' = [req EXCEPT ![c] = r] /\ UNCHANGED <<users, nextId, jar, page, world, now, signedAt,
                                                  askedAt>>
  BY DEF SsoCallback
<1>2. Lookup(e) \in Ids \union {NoId} /\ Lookup(e) < nextId
  <2>1. Lookup(e) \in Ids \union {NoId} /\ (Lookup(e) # NoId => Exists(Lookup(e)))
    BY LookupFinds DEF AccountsInv
  <2> QED
    BY <2>1, NextId DEF AccountsInv, RowsOk, NoId
<1>3. r \in Request /\ r.user = Lookup(e) /\ r.pc \in {"insert", "feature"} /\ r.email \in Emails
  BY <1>2, Idles DEF Request, Steps, Idle, NoId
<1> HIDE DEF r
<1>4. RequestOk(r)
  BY <1>2, <1>3 DEF RequestOk
<1> QED
  BY <1>1, <1>3, <1>4, OnlyRequest

\* A step that writes rows and moves one request.
LEMMA RowsAndRequest ==
  ASSUME AccountsInv, RowsOk', RowsKept, NEW c \in Clients, NEW r \in Request, RequestOk(r)',
         req' = [req EXCEPT ![c] = r], UNCHANGED <<jar, page, world, now, signedAt, askedAt>>
  PROVE  AccountsInv'
<1>1. ClockOk' /\ now \in Nat /\ now' \in Nat /\ now <= now'
  BY Numbers DEF AccountsInv, ClockOk
<1>2. TokensOk' /\ PagesOk' /\ RequestsOk'
  BY <1>1, TokensStay, PagesStay, RequestsMove DEF AccountsInv
<1> QED
  BY <1>1, <1>2 DEF AccountsInv

\* A step that ends a request, whatever else it writes of the rows.
LEMMA RowsAndEnd ==
  ASSUME AccountsInv, RowsOk', RowsKept, NEW c \in Clients, End(c),
         UNCHANGED <<jar, page, world, now, signedAt, askedAt>>
  PROVE  AccountsInv'
<1>1. Idle \in Request /\ RequestOk(Idle)
  BY Idles DEF AccountsInv
<1>2. RequestOk(Idle)'
  BY <1>1, RequestStays DEF AccountsInv
<1> QED
  BY <1>1, <1>2, RowsAndRequest DEF End

\* A step that writes rows only.
LEMMA OnlyRows ==
  ASSUME AccountsInv, RowsOk', RowsKept,
         UNCHANGED <<jar, page, world, req, now, signedAt, askedAt>>
  PROVE  AccountsInv'
<1>1. ClockOk' /\ now \in Nat /\ now' \in Nat /\ now <= now'
  BY Numbers DEF AccountsInv, ClockOk
<1>2. TokensOk' /\ PagesOk'
  BY <1>1, TokensStay, PagesStay DEF AccountsInv
<1>3. \A r \in Request : RequestOk(r) => RequestOk(r)'
  BY RequestStays DEF AccountsInv
<1>4. RequestsOk'
  <2>1. ASSUME NEW c \in Clients PROVE RequestOk(req[c])'
    <3>1. PICK r \in Request : r = req[c] /\ RequestOk(r)
      BY DEF AccountsInv, RequestsOk
    <3>2. RequestOk(r)' /\ req'[c] = r
      BY <1>3, <3>1
    <3> QED
      BY <3>2 DEF RequestOk, Exists
  <2> QED
    BY <2>1 DEF AccountsInv, RequestsOk
<1> QED
  BY <1>1, <1>2, <1>4 DEF AccountsInv

LEMMA InsertOwnerKeeps ==
  ASSUME AccountsInv, NEW c \in Clients, InsertOwner(c) PROVE AccountsInv'
<1>1. /\ req[c] \in Request /\ RequestOk(req[c]) /\ req[c].pc = "insert"
      /\ req[c].email \in Emails /\ req[c].new \in Passwords \union {Random}
  BY RequestIs DEF InsertOwner, RequestOk, Request
<1>2. CASE Lookup(req[c].email) = NoId
  <2> DEFINE r == [req[c] EXCEPT !.pc = "license", !.user = nextId]
  <2>1. RowsOk' /\ RowsKept
    BY <1>1, <1>2, InsertKeeps DEF InsertOwner, AccountsInv
  <2>2. nextId \in Nat /\ nextId' = nextId + 1 /\ nextId \in Ids
    BY <1>2, NextId, Numbers DEF InsertOwner, Insert, AccountsInv, Ids
  <2>3. PICK q \in Request : q = r
    BY <1>1, <2>2 DEF Request, Steps
  <2>4. q.pc = "license" /\ q.user = nextId
    BY <1>1, <2>3 DEF Request
  <2>5. RequestOk(q)'
    BY <2>2, <2>4 DEF RequestOk
  <2>6. req' = [req EXCEPT ![c] = q]
    BY <1>2, <2>3 DEF InsertOwner, AccountsInv, RequestsOk
  <2> HIDE DEF r
  <2> QED
    BY <2>1, <2>5, <2>6, RowsAndRequest DEF InsertOwner
<1>3. CASE Lookup(req[c].email) # NoId
  <2>1. RowsOk' /\ RowsKept
    BY <1>3, NothingHappened DEF InsertOwner, AccountsInv
  <2> QED
    BY <1>3, <2>1, RowsAndEnd DEF InsertOwner
<1> QED
  BY <1>2, <1>3

LEMMA LicenseKeeps == ASSUME AccountsInv, NEW c \in Clients, License(c) PROVE AccountsInv'
<1>1. CASE ~Exists(req[c].user)
  <2>1. RowsOk' /\ RowsKept
    BY <1>1, NothingHappened DEF License, AccountsInv
  <2> QED
    BY <1>1, <2>1, RowsAndEnd DEF License
<1>2. CASE Exists(req[c].user)
  <2> DEFINE id == req[c].user
  <2> DEFINE r == [users[id] EXCEPT !.licensed = TRUE]
  <2>1. id \in Ids /\ users[id] \in Rows /\ id < nextId
    BY <1>2, RowIsRow, RequestIs DEF Exists, AccountsInv, RequestOk
  <2>2. r \in Rows /\ r.email = users[id].email /\ users' = [users EXCEPT ![id] = r]
    BY <1>2, <2>1 DEF Rows, License
  <2>3. Exists(id)
    BY <1>2
  <2>4. IssueSession(c, id) /\ UNCHANGED <<nextId, page, now, askedAt>> /\ End(c)
    BY <1>2 DEF License
  <2> HIDE DEF id, r
  <2>5. RowsOk' /\ RowsKept
    BY <2>1, <2>2, <2>3, <2>4, WriteKeeps DEF AccountsInv
  <2>6. TokensOk' /\ ClockOk'
    BY <2>1, <2>4, <2>5, SessionIssued DEF AccountsInv
  <2>7. now \in Nat /\ now' \in Nat /\ now <= now' /\ page' = page
    BY <2>4, Numbers DEF AccountsInv, ClockOk
  <2>8. Idle \in Request /\ RequestOk(Idle)
    BY Idles DEF AccountsInv
  <2>9. RequestOk(Idle)'
    BY <2>5, <2>8, RequestStays DEF AccountsInv
  <2>10. PagesOk' /\ RequestsOk'
    BY <2>4, <2>5, <2>7, <2>8, <2>9, PagesStay, RequestsMove DEF AccountsInv, End
  <2> QED
    BY <2>5, <2>6, <2>10 DEF AccountsInv
<1> QED
  BY <1>1, <1>2

LEMMA SsoFeatureKeeps == ASSUME AccountsInv, NEW c \in Clients, SsoFeature(c) PROVE AccountsInv'
<1>1. RowsOk' /\ RowsKept
  BY NothingHappened DEF SsoFeature, AccountsInv
<1>2. CASE UNCHANGED <<world, jar, signedAt>>
  BY <1>1, <1>2, RowsAndEnd DEF SsoFeature
<1>3. CASE Exists(req[c].user) /\ IssueSession(c, req[c].user)
  <2>1. req[c].user \in Ids /\ req[c].user < nextId
    BY <1>3, RequestIs DEF Exists, RequestOk
  <2>2. TokensOk' /\ ClockOk'
    BY <1>1, <1>3, <2>1, SessionIssued DEF SsoFeature, AccountsInv
  <2>3. now \in Nat /\ now' \in Nat /\ now <= now' /\ page' = page
    BY Numbers DEF SsoFeature, AccountsInv, ClockOk
  <2>4. Idle \in Request /\ RequestOk(Idle)
    BY Idles DEF AccountsInv
  <2>5. RequestOk(Idle)'
    BY <1>1, <2>4, RequestStays DEF AccountsInv
  <2>6. PagesOk' /\ RequestsOk'
    BY <1>1, <2>3, <2>4, <2>5, PagesStay, RequestsMove DEF AccountsInv, SsoFeature, End
  <2> QED
    BY <1>1, <2>2, <2>6 DEF AccountsInv
<1> QED
  BY <1>2, <1>3 DEF SsoFeature

LEMMA AskChangeKeeps ==
  ASSUME AccountsInv, NEW c \in Clients, NEW web \in BOOLEAN, NEW id \in Ids, Exists(id),
         id < nextId, NEW reader \in Ids \union {NoId}, web => reader = id,
         NEW cur \in Passwords, NEW new \in Passwords, AskChange(c, web, id, reader, cur, new)
  PROVE  AccountsInv'
<1> DEFINE r == [Idle EXCEPT !.pc = "change", !.web = web, !.user = id,
                   !.email = users[id].email, !.typed = cur, !.new = new, !.reader = reader]
<1>1. users[id].email \in Emails
  BY RowIsRow DEF AccountsInv, Rows
<1>2. PICK q \in Request : q = r
  BY <1>1, Idles DEF Request, Steps, Idle, NoId
<1>3. /\ q.pc = "change" /\ q.user = id /\ q.email = users[id].email /\ q.web = web
      /\ q.reader = reader
  BY <1>2 DEF Idle
<1>4. req' = [req EXCEPT ![c] = q] /\ UNCHANGED <<users, nextId, jar, page, world, now, signedAt,
                                                  askedAt>>
  BY <1>2 DEF AskChange
<1> HIDE DEF r
<1>5. RequestOk(q)
  BY <1>3 DEF RequestOk
<1> QED
  BY <1>4, <1>5, OnlyRequest

LEMMA ChangePasswordKeeps ==
  ASSUME AccountsInv, NEW c \in Clients, NEW id \in Ids, NEW cur \in Passwords,
         NEW new \in Passwords, ChangePassword(c, id, cur, new)
  PROVE  AccountsInv'
<1>1. Exists(id) /\ id < nextId /\ AskChange(c, FALSE, id, NoId, cur, new)
  BY SessionOf DEF ChangePassword
<1> QED
  BY <1>1, AskChangeKeeps

\* A form that is carried out was shown to who is carried out as.
LEMMA FormsReader ==
  ASSUME AccountsInv, NEW c \in Clients, NEW id, verify_csrf(c), Visitor(id)
  PROVE  page[c].reader = id
<1>1. page[c] # NoPage /\ page[c].fp = jar /\ Resolve(jar) = id /\ id # NoId
  BY DEF verify_csrf, Visitor
<1>2. jar # NoToken
  BY <1>1 DEF Resolve
<1>3. PageOk(page[c])
  BY DEF AccountsInv, PagesOk
<1> QED
  BY <1>1, <1>2, <1>3 DEF PageOk

LEMMA ChangePasswordWebKeeps ==
  ASSUME AccountsInv, NEW c \in Clients, NEW id \in Ids, NEW cur \in Passwords,
         NEW new \in Passwords, ChangePasswordWeb(c, id, cur, new)
  PROVE  AccountsInv'
<1>1. Exists(id) /\ id < nextId /\ AskChange(c, TRUE, id, page[c].reader, cur, new)
  BY SessionOf DEF ChangePasswordWeb
<1>2. page[c].reader = id
  BY FormsReader DEF ChangePasswordWeb, Submit
<1>3. AskChange(c, TRUE, id, id, cur, new)
  BY <1>1, <1>2
<1> QED
  BY <1>1, <1>3, AskChangeKeeps

\* The row found by address is the caller's, or the caller's is gone.
LEMMA ChangeVerifyKeeps ==
  ASSUME AccountsInv, NEW c \in Clients, ChangeVerify(c) PROVE AccountsInv'
<1> DEFINE row == Lookup(req[c].email)
<1>1. req[c] \in Request /\ RequestOk(req[c]) /\ req[c].pc = "change"
  BY RequestIs DEF ChangeVerify
<1>2. CASE row # NoId /\ users[row].password = req[c].typed
  <2> DEFINE r == [req[c] EXCEPT !.pc = "set", !.proved = row]
  <2>1. row \in Ids \union {NoId}
    BY LookupFinds DEF AccountsInv
  <2>2. Exists(req[c].user) => row = req[c].user
    BY <1>1, LookupFinds DEF AccountsInv, RequestOk
  <2>3. req' = [req EXCEPT ![c] = r] /\ UNCHANGED <<users, nextId, jar, page, world, now,
                                                    signedAt, askedAt>>
    BY <1>1, <1>2 DEF ChangeVerify
  <2> HIDE DEF row
  <2>4. PICK q \in Request : q = r
    BY <1>1, <2>1 DEF Request, Steps
  <2>5. q.pc = "set" /\ q.proved = row /\ q.user = req[c].user
    BY <1>1, <2>4 DEF Request
  <2>6. RequestOk(q)
    BY <1>1, <2>2, <2>5 DEF RequestOk
  <2> HIDE DEF r
  <2> QED
    BY <2>3, <2>4, <2>6, OnlyRequest
<1>3. CASE ~(row # NoId /\ users[row].password = req[c].typed)
  <2>1. RowsOk' /\ RowsKept
    BY NothingHappened DEF ChangeVerify, AccountsInv
  <2> QED
    BY <1>3, <2>1, RowsAndEnd DEF ChangeVerify
<1> QED
  BY <1>2, <1>3

LEMMA MailLinkKeeps ==
  ASSUME AccountsInv, NEW e \in Emails, MailLink(e) PROVE AccountsInv'
<1>1. Lookup(e) \in Ids \union {NoId} /\ Lookup(e) < nextId
  BY LookupFinds DEF AccountsInv, RowsOk, MailLink
<1>2. PICK t \in Token : /\ t = Encode("password_reset", Lookup(e), ResetTtl)
                        /\ t.typ = "password_reset" /\ t.sub = Lookup(e)
  BY <1>1, Encoded, Numbers DEF Kinds, AccountsInv
<1>3. HandOut(t) /\ UNCHANGED <<users, nextId, jar, page, req, now, signedAt, askedAt>>
  BY <1>2 DEF MailLink
<1>4. t.sub < nextId /\ ConsentOk(t)' /\ t.typ # "session"
  BY <1>1, <1>2 DEF ConsentOk
<1>5. \A u \in Token : ConsentOk(u) => ConsentOk(u)'
  BY <1>3 DEF ConsentOk
<1>6. ClockOk'
  BY <1>3 DEF AccountsInv, ClockOk
<1> QED
  BY <1>3, <1>4, <1>5, <1>6, TokenHandedOut

LEMMA TakeLinkKeeps ==
  ASSUME AccountsInv, NEW c \in Clients, NEW t \in world, NEW new \in Passwords,
         TakeLink(c, t, new)
  PROVE  AccountsInv'
<1> DEFINE r == [Idle EXCEPT !.pc = "set", !.user = t.sub, !.new = new,
                              !.email = users[t.sub].email, !.proved = t.sub]
<1>1. t.sub \in Ids /\ t.sub < nextId /\ users[t.sub].email \in Emails
  BY RowIsRow DEF TakeLink, AccountsInv, TokensOk, TokenOk, Exists, Rows
<1>2. req' = [req EXCEPT ![c] = r] /\ UNCHANGED <<users, nextId, jar, page, world, now, signedAt,
                                                  askedAt>>
  BY DEF TakeLink
<1>3. PICK q \in Request : q = r
  BY <1>1, Idles DEF Request, Steps, Idle, NoId
<1>4. q.pc = "set" /\ q.user = t.sub /\ q.proved = t.sub
  BY <1>3 DEF Idle
<1> HIDE DEF r
<1>5. RequestOk(q)
  BY <1>1, <1>4 DEF RequestOk
<1> QED
  BY <1>2, <1>3, <1>5, OnlyRequest

LEMMA PasswordStoreKeeps ==
  ASSUME AccountsInv, NEW c \in Clients, PasswordStore(c) PROVE AccountsInv'
<1>1. req[c].user \in Ids /\ req[c].new \in Passwords \union {Random}
  BY RequestIs DEF PasswordStore, RequestOk, Request
<1>2. RowsOk' /\ RowsKept
  BY <1>1, SetPasswordKeeps DEF PasswordStore, AccountsInv
<1> QED
  BY <1>2, RowsAndEnd DEF PasswordStore

LEMMA StartConnectKeeps ==
  ASSUME AccountsInv, NEW id \in Ids, id < nextId, StartConnect(id) PROVE AccountsInv'
<1>1. PICK t \in Token : /\ t = Encode("oauth_state", id, ConnectTtl)
                        /\ t.typ = "oauth_state" /\ t.sub = id /\ t.exp = now + ConnectTtl
  BY Encoded, Numbers DEF Kinds, AccountsInv
<1>2. /\ HandOut(t) /\ askedAt' = [askedAt EXCEPT ![id] = now]
      /\ UNCHANGED <<users, nextId, jar, page, req, now, signedAt>>
  BY <1>1 DEF StartConnect
<1>3. /\ askedAt \in [Ids -> 0 .. Never] /\ now \in 0 .. Never /\ now \in Nat
      /\ \A i \in Ids : askedAt[i] \in Nat
  BY Numbers DEF AccountsInv, ClockOk, Never
<1>4. ClockOk'
  BY <1>2, <1>3 DEF AccountsInv, ClockOk
<1>5. t.sub < nextId /\ ConsentOk(t)' /\ t.typ # "session"
  BY <1>1, <1>2, <1>3, Numbers DEF ConsentOk
<1>6. ASSUME NEW u \in Token, ConsentOk(u) PROVE ConsentOk(u)'
  <2> SUFFICES ASSUME u.typ = "oauth_state"
               PROVE  /\ u.sub \in Ids /\ askedAt'[u.sub] <= now'
                      /\ u.exp <= askedAt'[u.sub] + ConnectTtl
    BY DEF ConsentOk
  <2>1. u.sub \in Ids /\ askedAt[u.sub] <= now /\ u.exp <= askedAt[u.sub] + ConnectTtl
    BY <1>6 DEF ConsentOk
  <2>2. u.exp \in Nat
    BY DEF Token
  <2>3. CASE u.sub = id
    BY <1>2, <1>3, <2>1, <2>2, <2>3, Numbers
  <2>4. CASE u.sub # id
    BY <1>2, <1>3, <2>1, <2>4
  <2> QED
    BY <2>3, <2>4
<1> QED
  BY <1>2, <1>4, <1>5, <1>6, TokenHandedOut

LEMMA OAuthCallbackKeeps ==
  ASSUME AccountsInv, NEW c \in Clients, NEW t \in world, OAuthCallback(c, t) PROVE AccountsInv'
<1> DEFINE r == [Idle EXCEPT !.pc = "exchange", !.user = t.sub]
<1>1. t.sub \in Ids \union {NoId} /\ t.sub < nextId
  BY DEF AccountsInv, TokensOk, TokenOk, Token
<1>2. req' = [req EXCEPT ![c] = r] /\ UNCHANGED <<users, nextId, jar, page, world, now, signedAt,
                                                  askedAt>>
  BY DEF OAuthCallback
<1>3. PICK q \in Request : q = r
  BY <1>1, Idles DEF Request, Steps, Idle, NoId
<1>4. q.pc = "exchange" /\ q.user = t.sub
  BY <1>3 DEF Idle
<1> HIDE DEF r
<1>5. RequestOk(q)
  BY <1>1, <1>4 DEF RequestOk
<1> QED
  BY <1>2, <1>3, <1>5, OnlyRequest

LEMMA EndKeeps ==
  ASSUME AccountsInv, NEW c \in Clients, Linked(c) \/ Abort(c) PROVE AccountsInv'
<1>1. RowsOk' /\ RowsKept
  BY NothingHappened DEF Linked, Abort, AccountsInv
<1> QED
  BY <1>1, RowsAndEnd DEF Linked, Abort

LEMMA RemoveRowKeeps == ASSUME AccountsInv, NEW id \in Ids, Remove(id) PROVE AccountsInv'
<1>1. RowsOk' /\ RowsKept
  BY RemoveKeeps DEF Remove, AccountsInv
<1> QED
  BY <1>1, OnlyRows DEF Remove

LEMMA InviteKeeps ==
  ASSUME AccountsInv, NEW e \in Emails, NEW p \in Passwords, Invite(e, p) PROVE AccountsInv'
<1>1. RowsOk' /\ RowsKept
  BY InsertKeeps DEF Invite, AccountsInv
<1> QED
  BY <1>1, OnlyRows DEF Invite

\* What the clock forgets are tokens, forms and asks that are refused already.
LEMMA TickKeeps == ASSUME AccountsInv, Tick PROVE AccountsInv'
<1>1. /\ now' = now + 1 /\ now \in Nat /\ now' \in 0 .. MaxNow /\ now' \in Nat
      /\ UNCHANGED <<users, nextId, jar, req, signedAt>>
  BY Numbers DEF Tick, AccountsInv, ClockOk
<1>2. RowsOk' /\ RowsKept
  BY <1>1, NothingHappened DEF AccountsInv
<1>3. /\ askedAt \in [Ids -> 0 .. Never] /\ signedAt \in [Ids -> 0 .. Never] /\ Never \in Nat
      /\ \A id \in Ids : askedAt[id] \in Nat /\ signedAt[id] \in Nat
  BY Numbers DEF AccountsInv, ClockOk, Never
<1>4. \A id \in Ids : askedAt'[id] = IF now' < askedAt[id] + ConnectTtl THEN askedAt[id] ELSE Never
  BY DEF Tick
<1>5. ClockOk'
  <2>1. \A id \in Ids : askedAt'[id] \in 0 .. Never
    BY <1>3, <1>4
  <2>2. askedAt' \in [Ids -> 0 .. Never]
    BY <2>1 DEF Tick
  <2> QED
    BY <1>1, <1>3, <2>2 DEF ClockOk
<1>6. ASSUME NEW t \in Token, TokenOk(t) PROVE TokenOk(t)'
  <2>1. ASSUME t.typ = "session"
        PROVE  t.sub \in Ids /\ signedAt[t.sub] <= now' /\ t.exp <= signedAt[t.sub] + SessionTtl
    BY <1>1, <1>3, <1>6, <2>1 DEF TokenOk
  <2> QED
    BY <1>1, <1>6, <2>1 DEF TokenOk
<1>7. ASSUME NEW t \in world' PROVE t \in Token /\ TokenOk(t)' /\ ConsentOk(t)'
  <2>1. t \in world /\ now' < t.exp
    BY DEF Tick
  <2>2. t \in Token /\ TokenOk(t)' /\ ConsentOk(t)
    BY <1>6, <2>1 DEF AccountsInv, TokensOk
  <2>3. ASSUME t.typ = "oauth_state"
        PROVE  /\ t.sub \in Ids /\ askedAt'[t.sub] <= now'
               /\ t.exp <= askedAt'[t.sub] + ConnectTtl
    <3>1. t.sub \in Ids /\ askedAt[t.sub] <= now /\ t.exp <= askedAt[t.sub] + ConnectTtl
      BY <2>2, <2>3 DEF ConsentOk
    <3>2. t.exp \in Nat
      BY <2>2 DEF Token
    <3>3. askedAt'[t.sub] = askedAt[t.sub]
      BY <1>1, <1>3, <1>4, <2>1, <3>1, <3>2, Numbers
    <3> QED
      BY <1>1, <1>3, <3>1, <3>3
  <2> QED
    BY <2>2, <2>3 DEF ConsentOk
<1>8. TokensOk'
  <2>1. jar' \in Token \union {NoToken} /\ (jar' # NoToken => TokenOk(jar)')
    BY <1>1, <1>6 DEF AccountsInv, TokensOk, TokenOk
  <2> QED
    BY <1>7, <2>1 DEF TokensOk
<1>9. \A p \in Page \union {NoPage} : PageOk(p) => PageOk(p)'
  BY <1>1, <1>2, PageStays DEF AccountsInv
<1>10. \A c \in Clients : page'[c] = page[c] \/ page'[c] = NoPage
  BY DEF Tick
<1>11. \A c \in Clients : PageOk(page[c])'
  <2> TAKE c \in Clients
  <2>1. PICK p \in Page \union {NoPage} : p = page'[c] /\ PageOk(p)
    BY <1>10 DEF AccountsInv, PagesOk, PageOk
  <2>2. PageOk(p)'
    BY <1>9, <2>1
  <2> QED
    BY <2>1, <2>2 DEF PageOk, Resolve, Decodes, Exists
<1>12. PagesOk'
  <2>1. page' \in [Clients -> Page \union {NoPage}]
    BY DEF Tick, AccountsInv, PagesOk
  <2> QED
    BY <1>11, <2>1 DEF PagesOk
<1>13. RequestsOk'
  BY <1>1 DEF AccountsInv, RequestsOk, RequestOk, Exists
<1> QED
  BY <1>2, <1>5, <1>8, <1>12, <1>13 DEF AccountsInv

LEMMA NothingKeeps == ASSUME AccountsInv, UNCHANGED vars PROVE AccountsInv'
<1>1. TokensOk' /\ ClockOk'
  BY DEF vars, AccountsInv, TokensOk, TokenOk, ConsentOk, ClockOk
<1> QED
  BY <1>1, OnlyTokens DEF vars

LEMMA SignInKeeps == ASSUME AccountsInv, NEW c \in Clients, SignIn(c) PROVE AccountsInv'
<1>1. CASE \E e \in Emails : SsoCallback(c, e)
  BY <1>1, SsoCallbackKeeps
<1>2. CASE \E e \in Emails, p \in Passwords : Login(c, e, p) \/ LoginSubmit(c, e, p)
  BY <1>2, AuthenticateKeeps DEF Login, LoginSubmit
<1>3. CASE \E e \in Emails, p \in Passwords : Signup(c, e, p) \/ SignupSubmit(c, e, p)
  BY <1>3, ProvisionKeeps DEF Signup, SignupSubmit
<1>4. CASE LoginCompare(c) \/ SsoLogin(c) \/ InsertOwner(c) \/ License(c)
  BY <1>4, LoginCompareKeeps, SsoLoginKeeps, InsertOwnerKeeps, LicenseKeeps
<1>5. CASE SsoFeature(c) \/ Logout(c) \/ OpenPage(c)
  BY <1>5, SsoFeatureKeeps, LogoutKeeps, OpenPageKeeps
<1> QED
  BY <1>1, <1>2, <1>3, <1>4, <1>5 DEF SignIn

LEMMA ManagePasswordKeeps ==
  ASSUME AccountsInv, NEW c \in Clients, ManagePassword(c) PROVE AccountsInv'
<1>1. CASE \E id \in Ids, cur, new \in Passwords :
             ChangePassword(c, id, cur, new) \/ ChangePasswordWeb(c, id, cur, new)
  BY <1>1, ChangePasswordKeeps, ChangePasswordWebKeeps
<1>2. CASE \E e \in Emails : ForgotPassword(c, e) \/ ForgotPasswordSubmit(c, e)
  BY <1>2, MailLinkKeeps DEF ForgotPassword, ForgotPasswordSubmit
<1>3. CASE \E t \in world, new \in Passwords :
             ResetPassword(c, t, new) \/ ResetPasswordSubmit(c, t, new)
  BY <1>3, TakeLinkKeeps DEF ResetPassword, ResetPasswordSubmit
<1>4. CASE ChangeVerify(c) \/ PasswordStore(c)
  BY <1>4, ChangeVerifyKeeps, PasswordStoreKeeps
<1> QED
  BY <1>1, <1>2, <1>3, <1>4 DEF ManagePassword

LEMMA LinkMailboxKeeps ==
  ASSUME AccountsInv, NEW c \in Clients, LinkMailbox(c) PROVE AccountsInv'
<1>1. CASE \E id \in Ids : Connect(c, id) \/ ConnectProvider(c, id)
  <2>1. PICK id \in Ids : Connect(c, id) \/ ConnectProvider(c, id)
    BY <1>1
  <2>2. id < nextId /\ StartConnect(id)
    BY <2>1, SessionOf DEF Connect, ConnectProvider
  <2> QED
    BY <2>2, StartConnectKeeps
<1>2. CASE \E t \in world : OAuthCallback(c, t)
  BY <1>2, OAuthCallbackKeeps
<1>3. CASE Linked(c)
  BY <1>3, EndKeeps
<1> QED
  BY <1>1, <1>2, <1>3 DEF LinkMailbox

LEMMA AccountsStep == AccountsInv /\ [Next]_vars => AccountsInv'
<1> SUFFICES ASSUME AccountsInv, [Next]_vars PROVE AccountsInv'
  OBVIOUS
<1>1. CASE \E c \in Clients : SignIn(c) \/ ManagePassword(c) \/ LinkMailbox(c) \/ Abort(c)
  BY <1>1, SignInKeeps, ManagePasswordKeeps, LinkMailboxKeeps, EndKeeps
<1>2. CASE (\E id \in Ids : Remove(id)) \/ \E e \in Emails, p \in Passwords : Invite(e, p)
  BY <1>2, RemoveRowKeeps, InviteKeeps
<1>3. CASE Tick
  BY <1>3, TickKeeps
<1>4. CASE UNCHANGED vars
  BY <1>4, NothingKeeps
<1> QED
  BY <1>1, <1>2, <1>3, <1>4 DEF Next

\* Whatever sign-ups, invitations, sign-ins, removals and expiries overlap, an address
\* names one row, and every live token, form and request is tied to the row and the
\* occasion it came from (auth.py, tokens.py, session.py).
THEOREM AccountsSafe == Spec => []AccountsInv
<1> QED
  BY InitiallyAccounts, AccountsStep, PTL DEF Spec

----------------------------------------------------------------------------
(* What the checks say.                                                    *)

\* session.py:72-89 with auth.py:84: for any number of tabs and rows a form acts as the
\* user it was shown to, and an address has at most one row.
THEOREM AccountsHeld == Spec => []AccountsHold
<1>1. AccountsInv => AccountsHold
  <2> SUFFICES ASSUME AccountsInv PROVE AccountsHold
    OBVIOUS
  <2>1. \A e \in Emails : Cardinality(RowsOf(e)) <= 1
    <3> TAKE e \in Emails
    <3>1. RowsOf(e) = {} \/ RowsOf(e) = {Lookup(e)}
      BY LookupFinds DEF RowsOf, AccountsInv
    <3>2. Cardinality({}) = 0 /\ Cardinality({Lookup(e)}) = 1
      BY FS_EmptySet, FS_Singleton
    <3> QED
      BY <3>1, <3>2
  <2>2. \A c \in Clients : req[c].user \in Ids \union {NoId} /\ req[c].proved \in Ids \union {NoId}
    BY RequestIs DEF Request
  <2>3. TypeOK
    BY <2>1, <2>2 DEF AccountsInv, RowsOk, ClockOk, TokensOk, PagesOk, Rows, TypeOK
  <2>4. FormActsAsItsReader
    BY RequestIs DEF RequestOk, FormActsAsItsReader
  <2> QED
    BY <2>3, <2>4 DEF AccountsHold
<1> QED
  BY <1>1, AccountsSafe, PTL

\* Steps that begin neither a change of password nor a connection, and store no password.
Quiet ==
  /\ \A c \in Clients : req'[c] = req[c] \/ req'[c].pc \notin {"change", "exchange"}
  /\ \A id \in Ids : Exists(id) /\ users'[id] # NoRow => users'[id].password = users[id].password

LEMMA SignInQuiet == ASSUME AccountsInv, NEW c \in Clients, SignIn(c) PROVE Quiet
<1>0. req \in [Clients -> Request] /\ users \in [Ids -> Rows \union {NoRow}]
  BY DEF AccountsInv, RequestsOk, RowsOk
<1>1. CASE \E e \in Emails : SsoCallback(c, e)
  BY <1>0, <1>1 DEF Quiet, SsoCallback, Idle
<1>2. CASE \E e \in Emails, p \in Passwords : Login(c, e, p) \/ LoginSubmit(c, e, p)
  <2>1. PICK e \in Emails, p \in Passwords : Login(c, e, p) \/ LoginSubmit(c, e, p)
    BY <1>2
  <2>2. CASE Login(c, e, p)
    BY <1>0, <2>2 DEF Quiet, Login, Authenticate, Idle
  <2>3. CASE LoginSubmit(c, e, p)
    BY <1>0, <2>3 DEF Quiet, LoginSubmit, Authenticate, Idle
  <2> QED
    BY <2>1, <2>2, <2>3
<1>3. CASE \E e \in Emails, p \in Passwords : Signup(c, e, p) \/ SignupSubmit(c, e, p)
  BY <1>0, <1>3 DEF Quiet, Signup, SignupSubmit, Provision, Idle
<1>4. CASE LoginCompare(c) \/ SsoFeature(c)
  BY <1>0, <1>4 DEF Quiet, LoginCompare, SsoFeature, End, Idle
<1>5. CASE SsoLogin(c) \/ Logout(c) \/ OpenPage(c)
  BY <1>5 DEF Quiet, SsoLogin, Logout, OpenPage
<1>6. CASE InsertOwner(c)
  <2>1. \A d \in Clients : req'[d] = req[d] \/ req'[d].pc \in {"license", "idle"}
    <3> TAKE d \in Clients
    <3>1. req[c] \in Request
      BY <1>0
    <3>2. CASE End(c)
      BY <1>0, <3>2 DEF End, Idle
    <3>3. CASE req' = [req EXCEPT ![c].pc = "license", ![c].user = nextId]
      BY <1>0, <3>1, <3>3 DEF Request
    <3> QED
      BY <1>6, <3>2, <3>3 DEF InsertOwner
  <2>2. ASSUME NEW id \in Ids, Exists(id) PROVE users'[id] = users[id]
    <3>1. id < nextId /\ nextId \in Nat /\ id \in Nat
      BY <2>2, NextId, Numbers DEF AccountsInv, RowsOk
    <3>2. id # nextId
      BY <3>1
    <3> QED
      BY <1>0, <1>6, <3>2 DEF InsertOwner, Insert
  <2> QED
    BY <2>1, <2>2 DEF Quiet
<1>7. CASE License(c)
  <2>1. \A d \in Clients : req'[d] = req[d] \/ req'[d].pc = "idle"
    BY <1>0, <1>7 DEF License, End, Idle
  <2>2. ASSUME NEW id \in Ids, Exists(id) PROVE users'[id].password = users[id].password
    <3>1. users[id] \in Rows
      BY <2>2, RowIsRow DEF AccountsInv
    <3> QED
      BY <1>0, <1>7, <3>1 DEF License, Rows
  <2> QED
    BY <2>1, <2>2 DEF Quiet
<1> QED
  BY <1>1, <1>2, <1>3, <1>4, <1>5, <1>6, <1>7 DEF SignIn

LEMMA AroundQuiet ==
  ASSUME AccountsInv,
         \/ \E c \in Clients : Linked(c) \/ Abort(c)
         \/ \E id \in Ids : Remove(id)
         \/ \E e \in Emails, p \in Passwords : Invite(e, p)
         \/ Tick
         \/ UNCHANGED vars
  PROVE  Quiet
<1>0. req \in [Clients -> Request] /\ users \in [Ids -> Rows \union {NoRow}]
  BY DEF AccountsInv, RequestsOk, RowsOk
<1>1. CASE \E c \in Clients : Linked(c) \/ Abort(c)
  BY <1>0, <1>1 DEF Quiet, Linked, Abort, End, Idle
<1>2. CASE \E id \in Ids : Remove(id)
  BY <1>0, <1>2 DEF Quiet, Remove
<1>3. CASE \E e \in Emails, p \in Passwords : Invite(e, p)
  <2>1. ASSUME NEW id \in Ids, Exists(id) PROVE users'[id] = users[id]
    <3>1. id < nextId /\ nextId \in Nat /\ id \in Nat
      BY <2>1, NextId, Numbers DEF AccountsInv, RowsOk
    <3>2. id # nextId
      BY <3>1
    <3> QED
      BY <1>0, <1>3, <3>2 DEF Invite, Insert
  <2> QED
    BY <1>3, <2>1 DEF Quiet, Invite
<1>4. CASE Tick \/ UNCHANGED vars
  BY <1>4 DEF Quiet, Tick, vars
<1> QED
  BY <1>1, <1>2, <1>3, <1>4

LEMMA AskChangeDoes ==
  ASSUME AccountsInv, NEW c \in Clients, NEW id \in Ids, NEW web, NEW reader, NEW cur, NEW new,
         AskChange(c, web, id, reader, cur, new)
  PROVE  /\ \A d \in Clients : req'[d] = req[d] \/ (req'[d].pc = "change" /\ req'[d].user = id)
         /\ users' = users
<1>1. req \in [Clients -> Request]
  BY DEF AccountsInv, RequestsOk
<1> QED
  BY <1>1 DEF AskChange, Idle

LEMMA PasswordChanges ==
  ASSUME AccountsInv, NEW c \in Clients, PasswordStore(c), NEW id \in Ids, Exists(id),
         users'[id] # NoRow, users'[id].password # users[id].password
  PROVE  req[c].pc = "set" /\ req[c].proved = id
<1>1. req[c] \in Request /\ RequestOk(req[c]) /\ req[c].pc = "set" /\ req[c].user \in Ids
  BY RequestIs DEF PasswordStore, RequestOk
<1>2. users \in [Ids -> Rows \union {NoRow}]
  BY DEF AccountsInv, RowsOk
<1>3. req[c].user = id
  BY <1>1, <1>2 DEF PasswordStore, SetPassword
<1> QED
  BY <1>1, <1>3 DEF RequestOk

\* What managing a password may do to rows and requests.
LEMMA ManagePasswordDoes ==
  ASSUME AccountsInv, NEW c \in Clients, ManagePassword(c)
  PROVE  /\ \A d \in Clients : \/ req'[d] = req[d]
                               \/ req'[d].pc \notin {"change", "exchange"}
                               \/ \E id \in Ids : /\ Bearer(id) \/ Visitor(id)
                                                  /\ req'[d].pc = "change" /\ req'[d].user = id
         /\ \A id \in Ids : Exists(id) /\ users'[id] # NoRow
                              /\ users'[id].password # users[id].password =>
              \E d \in Clients : req[d].pc = "set" /\ req[d].proved = id
<1>0. req \in [Clients -> Request] /\ req[c] \in Request
  BY DEF AccountsInv, RequestsOk
<1>1. CASE \E id \in Ids, cur, new \in Passwords :
             ChangePassword(c, id, cur, new) \/ ChangePasswordWeb(c, id, cur, new)
  <2>1. PICK id \in Ids, cur \in Passwords, new \in Passwords :
               ChangePassword(c, id, cur, new) \/ ChangePasswordWeb(c, id, cur, new)
    BY <1>1
  <2>2. /\ Bearer(id) \/ Visitor(id)
        /\ \E web, reader : AskChange(c, web, id, reader, cur, new)
    BY <2>1 DEF ChangePassword, ChangePasswordWeb
  <2>3. /\ \A d \in Clients : req'[d] = req[d] \/ (req'[d].pc = "change" /\ req'[d].user = id)
        /\ users' = users
    BY <2>2, AskChangeDoes
  <2> QED
    BY <2>2, <2>3
<1>2. CASE \E e \in Emails : ForgotPassword(c, e) \/ ForgotPasswordSubmit(c, e)
  BY <1>2 DEF ForgotPassword, ForgotPasswordSubmit, MailLink
<1>3. CASE \E t \in world, new \in Passwords :
             ResetPassword(c, t, new) \/ ResetPasswordSubmit(c, t, new)
  <2>1. \A d \in Clients : req'[d] = req[d] \/ req'[d].pc = "set"
    BY <1>0, <1>3 DEF ResetPassword, ResetPasswordSubmit, TakeLink, Idle
  <2>2. users' = users
    BY <1>3 DEF ResetPassword, ResetPasswordSubmit, TakeLink
  <2> QED
    BY <2>1, <2>2
<1>4. CASE ChangeVerify(c)
  <2>1. \A d \in Clients : req'[d] = req[d] \/ req'[d].pc \in {"set", "idle"}
    <3> TAKE d \in Clients
    <3>1. CASE End(c)
      BY <1>0, <3>1 DEF End, Idle
    <3>2. CASE req' = [req EXCEPT ![c].pc = "set", ![c].proved = Lookup(req[c].email)]
      BY <1>0, <3>2 DEF Request
    <3> QED
      BY <1>4, <3>1, <3>2 DEF ChangeVerify
  <2>2. users' = users
    BY <1>4 DEF ChangeVerify
  <2> QED
    BY <2>1, <2>2
<1>5. CASE PasswordStore(c)
  <2>1. \A d \in Clients : req'[d] = req[d] \/ req'[d].pc = "idle"
    BY <1>0, <1>5 DEF PasswordStore, End, Idle
  <2> QED
    BY <1>5, <2>1, PasswordChanges
<1> QED
  BY <1>1, <1>2, <1>3, <1>4, <1>5 DEF ManagePassword

\* What connecting a mailbox may do to requests.
LEMMA LinkMailboxDoes ==
  ASSUME AccountsInv, NEW c \in Clients, LinkMailbox(c)
  PROVE  /\ users' = users
         /\ \A d \in Clients : \/ req'[d] = req[d]
                               \/ req'[d].pc = "idle"
                               \/ /\ req'[d].pc = "exchange"
                                  /\ \E t \in world : ConnectStateOk(t) /\ req'[d].user = t.sub
<1>0. req \in [Clients -> Request]
  BY DEF AccountsInv, RequestsOk
<1>1. CASE \E id \in Ids : Connect(c, id) \/ ConnectProvider(c, id)
  BY <1>1 DEF Connect, ConnectProvider, StartConnect
<1>2. CASE \E t \in world : OAuthCallback(c, t)
  <2>1. PICK t \in world : OAuthCallback(c, t)
    BY <1>2
  <2>2. \A d \in Clients : req'[d] = req[d] \/ (req'[d].pc = "exchange" /\ req'[d].user = t.sub)
    BY <1>0, <2>1 DEF OAuthCallback, Idle
  <2> QED
    BY <2>1, <2>2 DEF OAuthCallback
<1>3. CASE Linked(c)
  BY <1>0, <1>3 DEF Linked, End, Idle
<1> QED
  BY <1>1, <1>2, <1>3 DEF LinkMailbox

\* The three kinds of step, seen from a password and a request.
LEMMA StepIs ==
  ASSUME AccountsInv, [Next]_vars
  PROVE  Quiet \/ \E c \in Clients : ManagePassword(c) \/ LinkMailbox(c)
  BY SignInQuiet, AroundQuiet DEF Next, LinkMailbox

\* auth.py:161-174: whatever the number of accounts, clients and tokens, a request runs
\* as an account only while the account is there and a session that signed in to that
\* very row lives; no reset link, SSO state or consent's state opens one.
THEOREM SessionsAct == Spec => ActsWithinSession
<1> DEFINE Acts ==
     \A c \in Clients : req[c].pc # "change" /\ req'[c].pc = "change" =>
       /\ Exists(req'[c].user)
       /\ signedAt[req'[c].user] # Never /\ now < signedAt[req'[c].user] + SessionTtl
<1>1. ASSUME AccountsInv, [Next]_vars PROVE Acts
  <2> SUFFICES ASSUME NEW c \in Clients, req[c].pc # "change", req'[c].pc = "change"
               PROVE  /\ Exists(req'[c].user)
                      /\ signedAt[req'[c].user] # Never
                      /\ now < signedAt[req'[c].user] + SessionTtl
    OBVIOUS
  <2>1. ~Quiet
    BY DEF Quiet
  <2>2. PICK d \in Clients : ManagePassword(d) \/ LinkMailbox(d)
    BY <1>1, <2>1, StepIs
  <2>3. ManagePassword(d)
    BY <1>1, <2>2, LinkMailboxDoes
  <2>4. PICK id \in Ids : (Bearer(id) \/ Visitor(id)) /\ req'[c].user = id
    BY <1>1, <2>3, ManagePasswordDoes
  <2>5. Exists(id) /\ signedAt[id] <= now /\ now < signedAt[id] + SessionTtl
    BY <1>1, <2>4, SessionOf
  <2>6. signedAt[id] # Never
    BY <1>1, <2>5, Numbers DEF AccountsInv, ClockOk, Never
  <2> QED
    BY <2>4, <2>5, <2>6
<1>2. AccountsInv /\ [Next]_vars => [Acts]_vars
  BY <1>1
<1> QED
  BY <1>2, AccountsSafe, PTL DEF Spec, ActsWithinSession

\* oauth.py:181-186: for any number of consents under way a mailbox is connected in the
\* name of an account that asked for it, within the life of the state it was given.
THEOREM ConsentsAsked == Spec => ConnectsWhoAsked
<1> DEFINE Asked ==
     \A c \in Clients : req[c].pc # "exchange" /\ req'[c].pc = "exchange" =>
       LET id == req'[c].user IN
       id \in Ids /\ askedAt[id] # Never /\ now < askedAt[id] + ConnectTtl
<1>1. ASSUME AccountsInv, [Next]_vars PROVE Asked
  <2> SUFFICES ASSUME NEW c \in Clients, req[c].pc # "exchange", req'[c].pc = "exchange"
               PROVE  /\ req'[c].user \in Ids /\ askedAt[req'[c].user] # Never
                      /\ now < askedAt[req'[c].user] + ConnectTtl
    OBVIOUS
  <2>1. ~Quiet
    BY DEF Quiet
  <2>2. PICK d \in Clients : ManagePassword(d) \/ LinkMailbox(d)
    BY <1>1, <2>1, StepIs
  <2>3. LinkMailbox(d)
    BY <1>1, <2>2, ManagePasswordDoes
  <2>4. PICK t \in world : ConnectStateOk(t) /\ req'[c].user = t.sub
    BY <1>1, <2>3, LinkMailboxDoes
  <2>5. t \in Token /\ ConsentOk(t) /\ t.typ = "oauth_state" /\ now < t.exp
    BY <1>1, <2>4 DEF AccountsInv, TokensOk, ConnectStateOk, Decodes
  <2>6. t.sub \in Ids /\ askedAt[t.sub] <= now /\ t.exp <= askedAt[t.sub] + ConnectTtl
    BY <2>5 DEF ConsentOk
  <2>7. now \in 0 .. MaxNow /\ t.exp \in Nat /\ askedAt[t.sub] \in Nat
    BY <1>1, <2>5, <2>6, Numbers DEF AccountsInv, ClockOk, Never, Token
  <2>8. askedAt[t.sub] # Never /\ now < askedAt[t.sub] + ConnectTtl
    BY <2>5, <2>6, <2>7, Numbers DEF Never
  <2> QED
    BY <2>4, <2>6, <2>8
<1>2. AccountsInv /\ [Next]_vars => [Asked]_vars
  BY <1>1
<1> QED
  BY <1>2, AccountsSafe, PTL DEF Spec, ConnectsWhoAsked

\* auth.py:187-190: although the row is found by address and written by id, and members
\* are removed and invited again in between, a stored password is replaced only by a
\* request that proved that row.
THEOREM PasswordsProved == Spec => PasswordByProof
<1> DEFINE Proved ==
     \A id \in Ids :
       Exists(id) /\ users'[id] # NoRow /\ users'[id].password # users[id].password =>
         \E c \in Clients : req[c].pc = "set" /\ req[c].proved = id
<1>1. ASSUME AccountsInv, [Next]_vars PROVE Proved
  <2>1. CASE Quiet
    BY <2>1 DEF Quiet
  <2>2. CASE \E c \in Clients : ManagePassword(c)
    BY <1>1, <2>2, ManagePasswordDoes
  <2>3. CASE \E c \in Clients : LinkMailbox(c)
    BY <1>1, <2>3, LinkMailboxDoes
  <2> QED
    BY <1>1, <2>1, <2>2, <2>3, StepIs
<1>2. AccountsInv /\ [Next]_vars => [Proved]_vars
  BY <1>1
<1> QED
  BY <1>2, AccountsSafe, PTL DEF Spec, PasswordByProof
=============================================================================
