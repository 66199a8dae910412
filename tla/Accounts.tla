------------------------------ MODULE Accounts ------------------------------
(***************************************************************************)
(* Signing in (app/saas/auth.py, tokens.py, oidc.py, oauth.py, routes.py,  *)
(* app/web/session.py and the account forms of app/web/routes.py).         *)
(* Sessions, reset links, form tokens and the states of SSO and of a       *)
(* mailbox's consent are signed with one                                   *)
(* secret and kept nowhere: what a token may do is decided by its type,    *)
(* its age and the row it names, when it is shown.  Every repository call  *)
(* is a transaction of its own, so requests meet between two of them.      *)
(***************************************************************************)
EXTENDS Naturals, FiniteSets

CONSTANTS
  Clients,     \* tabs of one browser, or API clients; a request chooses
  Emails,      \* addresses
  Passwords,   \* what people choose
  Random,      \* the password nobody knows, of an account made by SSO
  MaxId,       \* bound: rows ever inserted
  MaxNow,      \* bound: the clock
  SessionTtl, ResetTtl, StateTtl, ConnectTtl, FormTtl,
  MaxTokens    \* bound: live tokens outside the cookie jar

ASSUME AccountsAssumption ==
  /\ Random \notin Passwords
  /\ MaxId \in Nat /\ MaxNow \in Nat /\ MaxTokens \in Nat
  /\ {SessionTtl, ResetTtl, StateTtl, ConnectTtl, FormTtl} \subseteq Nat \ {0}

VARIABLES
  users,     \* rows of saas_users by id; NoRow before and after
  nextId,
  jar,       \* the session cookie of the browser, or NoToken
  page,      \* the form a tab shows: the form token's binding and age
  world,     \* live tokens in mails, redirects and API clients
  req,       \* the local variables of each client's request
  now,       \* the clock
  signedAt,  \* history: when the account last signed in
  askedAt    \* history: when the account last set out to connect a mailbox

vars == <<users, nextId, jar, page, world, req, now, signedAt, askedAt>>

Ids == 1 .. MaxId
NoId == 0
NoRow == [email |-> "none"]
Never == MaxNow + 1
Kinds == {"session", "password_reset", "oidc_state", "oauth_state"}
Token == [typ : Kinds, sub : Ids \union {NoId}, exp : Nat]
NoToken == [typ |-> "none"]
Page == [fp : Token \union {NoToken}, exp : Nat, reader : Ids \union {NoId}]
NoPage == [exp |-> 0]

Idle == [pc |-> "idle", web |-> FALSE, email |-> "none", user |-> NoId, typed |-> Random,
         new |-> Random, seen |-> Random, proved |-> NoId, reader |-> NoId]

----------------------------------------------------------------------------
(* Rows and tokens.                                                        *)

Exists(id) == id \in Ids /\ users[id] # NoRow

\* get_by_email_global
RowsOf(e) == {id \in Ids : Exists(id) /\ users[id].email = e}
Lookup(e) == IF RowsOf(e) = {} THEN NoId ELSE CHOOSE id \in RowsOf(e) : TRUE

\* UserRepository.create; the column email is unique.
Insert(e, p, licensed) ==
  /\ users' = [users EXCEPT ![nextId] = [email |-> e, password |-> p, licensed |-> licensed]]
  /\ nextId' = nextId + 1

\* UserRepository.set_password; a row that is gone is not written.
SetPassword(id, p) == users' = IF Exists(id) THEN [users EXCEPT ![id].password = p] ELSE users

\* tokens.encode
Encode(typ, sub, ttl) == [typ |-> typ, sub |-> sub, exp |-> now + ttl]

\* tokens.decode: every token here is one the server signed; what is left is its age.
Decodes(t) == now < t.exp

\* A token leaves the server by mail, redirect or JSON.
HandOut(t) == world' = world \union {t} /\ Cardinality(world') <= MaxTokens

\* Mutant: any token the server signed opens a session.
ResolvesAnyKind(t) == IF t # NoToken /\ Decodes(t) /\ Exists(t.sub) THEN t.sub ELSE NoId

\* AuthService.resolve: a live token minted as a session, for a row that is still there.
Resolve(t) ==
  IF t # NoToken /\ t.typ = "session" /\ Decodes(t) /\ Exists(t.sub) THEN t.sub ELSE NoId

\* AuthService.issue_token and, for the browser, set_session_cookie.
IssueSession(c, id) ==
  LET t == Encode("session", id, SessionTtl) IN
  /\ IF req[c].web THEN jar' = t /\ world' = world ELSE HandOut(t) /\ jar' = jar
  /\ signedAt' = [signedAt EXCEPT ![id] = now]

----------------------------------------------------------------------------
(* Forms.                                                                  *)

\* _render: the form token is bound to the cookie the page was asked with.
OpenPage(c) ==
  /\ page' = [page EXCEPT ![c] = [fp |-> jar, exp |-> now + FormTtl,
                                  reader |-> Resolve(jar)]]
  /\ UNCHANGED <<users, nextId, jar, world, req, now, signedAt, askedAt>>

\* Mutant: the binding is not compared.
verify_csrf_unbound(c) == page[c] # NoPage /\ Decodes(page[c])

verify_csrf(c) == page[c] # NoPage /\ Decodes(page[c]) /\ page[c].fp = jar

\* A call of the JSON API has no form token; a form of the browser carries one.
Call(c) == req[c].pc = "idle"
Submit(c) == req[c].pc = "idle" /\ verify_csrf(c)

\* get_current_user, for a bearer token or else the cookie; _require_user, for the cookie.
Bearer(id) == id # NoId /\ \E t \in world \union {jar} : Resolve(t) = id
Visitor(id) == id # NoId /\ Resolve(jar) = id

End(c) == req' = [req EXCEPT ![c] = Idle]

----------------------------------------------------------------------------
(* Signing in with a password.                                             *)

\* authenticate up to the read of the row.
Authenticate(c, web, e, p) ==
  /\ req' = [req EXCEPT ![c] = [Idle EXCEPT !.pc = "compare", !.web = web, !.user = Lookup(e),
       !.typed = p, !.seen = IF Lookup(e) = NoId THEN Random ELSE users[Lookup(e)].password]]
  /\ UNCHANGED <<users, nextId, jar, page, world, now, signedAt, askedAt>>

Login(c, e, p) == Call(c) /\ Authenticate(c, FALSE, e, p)
LoginSubmit(c, e, p) == Submit(c) /\ Authenticate(c, TRUE, e, p)

\* verify_password on the hash that was read, then touch_login and the session.
LoginCompare(c) ==
  /\ req[c].pc = "compare" /\ End(c)
  /\ IF req[c].user # NoId /\ req[c].typed = req[c].seen
     THEN IssueSession(c, req[c].user)
     ELSE UNCHANGED <<world, jar, signedAt>>
  /\ UNCHANGED <<users, nextId, page, now, askedAt>>

\* logout, of an account that is not a sandbox.
Logout(c) ==
  /\ Submit(c) /\ jar' = NoToken
  /\ UNCHANGED <<users, nextId, page, world, req, now, signedAt, askedAt>>

----------------------------------------------------------------------------
(* New accounts: sign-up and single sign-on.                               *)

\* AuthService.signup and provision_org: the address is free so far.
Provision(c, web, e, p) ==
  /\ Lookup(e) = NoId
  /\ req' = [req EXCEPT ![c] = [Idle EXCEPT !.pc = "insert", !.web = web, !.email = e, !.new = p]]
  /\ UNCHANGED <<users, nextId, jar, page, world, now, signedAt, askedAt>>

Signup(c, e, p) == Call(c) /\ Provision(c, FALSE, e, p)
SignupSubmit(c, e, p) == Submit(c) /\ Provision(c, TRUE, e, p)

\* sso_login
SsoLogin(c) ==
  /\ Call(c) /\ HandOut(Encode("oidc_state", NoId, StateTtl))
  /\ UNCHANGED <<users, nextId, jar, page, req, now, signedAt, askedAt>>

\* oidc.verify_state
StateOk(t) == t.typ = "oidc_state" /\ Decodes(t)

\* sso_callback: the state is one of ours, the provider vouches for the address, and
\* login_or_provision_sso finds its row or makes one.
SsoCallback(c, e) ==
  /\ Call(c) /\ \E t \in world : StateOk(t)
  /\ req' = [req EXCEPT ![c] = [Idle EXCEPT !.web = TRUE, !.email = e, !.user = Lookup(e),
                                  !.pc = IF Lookup(e) = NoId THEN "insert" ELSE "feature"]]
  /\ UNCHANGED <<users, nextId, jar, page, world, now, signedAt, askedAt>>

\* users.create of provision_org and of login_or_provision_sso; a taken address raises.
InsertOwner(c) ==
  /\ req[c].pc = "insert"
  /\ IF Lookup(req[c].email) = NoId
     THEN /\ nextId <= MaxId /\ Insert(req[c].email, req[c].new, FALSE)
          /\ req' = [req EXCEPT ![c].pc = "license", ![c].user = nextId]
     ELSE End(c) /\ UNCHANGED <<users, nextId>>
  /\ UNCHANGED <<jar, page, world, now, signedAt, askedAt>>

\* licenses.upsert, then the session.
License(c) ==
  /\ req[c].pc = "license" /\ End(c)
  /\ IF Exists(req[c].user)
     THEN users' = [users EXCEPT ![req[c].user].licensed = TRUE] /\ IssueSession(c, req[c].user)
     ELSE UNCHANGED <<users, world, jar, signedAt>>
  /\ UNCHANGED <<nextId, page, now, askedAt>>

\* require_feature(FEATURE_SSO): an organisation without a licence has no features.
SsoFeature(c) ==
  /\ req[c].pc = "feature" /\ End(c)
  /\ IF Exists(req[c].user) /\ users[req[c].user].licensed
     THEN IssueSession(c, req[c].user)
     ELSE UNCHANGED <<world, jar, signedAt>>
  /\ UNCHANGED <<users, nextId, page, now, askedAt>>

----------------------------------------------------------------------------
(* Passwords.                                                              *)

\* Who is asking, and for whom the form was shown.
AskChange(c, web, id, reader, cur, new) ==
  /\ req' = [req EXCEPT ![c] = [Idle EXCEPT !.pc = "change", !.web = web, !.user = id,
       !.email = users[id].email, !.typed = cur, !.new = new, !.reader = reader]]
  /\ UNCHANGED <<users, nextId, jar, page, world, now, signedAt, askedAt>>

ChangePassword(c, id, cur, new) ==
  Call(c) /\ Bearer(id) /\ AskChange(c, FALSE, id, NoId, cur, new)

ChangePasswordWeb(c, id, cur, new) ==
  Submit(c) /\ Visitor(id) /\ AskChange(c, TRUE, id, page[c].reader, cur, new)

\* AuthService.change_password finds the row by its address.
ChangeVerify(c) ==
  /\ req[c].pc = "change"
  /\ LET row == Lookup(req[c].email) IN
     IF row # NoId /\ users[row].password = req[c].typed
     THEN req' = [req EXCEPT ![c].pc = "set", ![c].proved = row]
     ELSE End(c)
  /\ UNCHANGED <<users, nextId, jar, page, world, now, signedAt, askedAt>>

\* request_password_reset: a link is mailed to the row's address, if there is a row.
MailLink(e) ==
  /\ Lookup(e) # NoId /\ HandOut(Encode("password_reset", Lookup(e), ResetTtl))
  /\ UNCHANGED <<users, nextId, jar, page, req, now, signedAt, askedAt>>

ForgotPassword(c, e) == Call(c) /\ MailLink(e)
ForgotPasswordSubmit(c, e) == Submit(c) /\ MailLink(e)

\* AuthService.reset_password: a live link whose row is there.
TakeLink(c, t, new) ==
  /\ t.typ = "password_reset" /\ Decodes(t) /\ Exists(t.sub)
  /\ req' = [req EXCEPT ![c] = [Idle EXCEPT !.pc = "set", !.user = t.sub, !.new = new,
                                            !.email = users[t.sub].email, !.proved = t.sub]]
  /\ UNCHANGED <<users, nextId, jar, page, world, now, signedAt, askedAt>>

ResetPassword(c, t, new) == Call(c) /\ TakeLink(c, t, new)
ResetPasswordSubmit(c, t, new) == Submit(c) /\ TakeLink(c, t, new)

\* Mutant: the password is stored for whoever has the address now.
PasswordStoreByEmail(c) ==
  /\ req[c].pc = "set" /\ End(c)
  /\ SetPassword(Lookup(req[c].email), req[c].new)
  /\ UNCHANGED <<nextId, jar, page, world, now, signedAt, askedAt>>

\* set_password for the row of the caller, or of the link.
PasswordStore(c) ==
  /\ req[c].pc = "set" /\ End(c)
  /\ SetPassword(req[c].user, req[c].new)
  /\ UNCHANGED <<nextId, jar, page, world, now, signedAt, askedAt>>

----------------------------------------------------------------------------
(* A mailbox's consent: the provider is shown a state that names the asker,*)
(* and whoever comes back with it connects the mailbox in that name.       *)

\* start_connect, oauth.sign_state
StartConnect(id) ==
  /\ HandOut(Encode("oauth_state", id, ConnectTtl))
  /\ askedAt' = [askedAt EXCEPT ![id] = now]
  /\ UNCHANGED <<users, nextId, jar, page, req, now, signedAt>>

Connect(c, id) == Call(c) /\ Bearer(id) /\ StartConnect(id)
ConnectProvider(c, id) == Submit(c) /\ Visitor(id) /\ StartConnect(id)

\* Mutant: the kind of the token is not looked at.
ConnectStateOkAnyKind(t) == Decodes(t)

\* oauth.verify_state
ConnectStateOk(t) == t.typ = "oauth_state" /\ Decodes(t)

\* oauth_callback up to the exchange of the code.
OAuthCallback(c, t) ==
  /\ Call(c) /\ ConnectStateOk(t)
  /\ req' = [req EXCEPT ![c] = [Idle EXCEPT !.pc = "exchange", !.user = t.sub]]
  /\ UNCHANGED <<users, nextId, jar, page, world, now, signedAt, askedAt>>

\* The exchange of the code and upsert_connection, whether or not the asker is still a
\* member.  The row is kept by MailboxConnection, whose Connect this is.
Linked(c) ==
  /\ req[c].pc = "exchange" /\ End(c)
  /\ UNCHANGED <<users, nextId, jar, page, world, now, signedAt, askedAt>>

----------------------------------------------------------------------------
(* Around the requests.                                                    *)

\* A member is removed, and an address is invited, perhaps again.
Remove(id) ==
  /\ Exists(id) /\ users' = [users EXCEPT ![id] = NoRow]
  /\ UNCHANGED <<nextId, jar, page, world, req, now, signedAt, askedAt>>

Invite(e, p) ==
  /\ Lookup(e) = NoId /\ nextId <= MaxId /\ Insert(e, p, TRUE)
  /\ UNCHANGED <<jar, page, world, req, now, signedAt, askedAt>>

\* An expired token is refused wherever it is shown, so it is forgotten here, and so
\* is the ask it came from; the cookie is not, for forms are bound to its very text.
Tick ==
  /\ now < MaxNow /\ now' = now + 1
  /\ world' = {t \in world : now' < t.exp}
  /\ page' = [c \in Clients |-> IF now' < page[c].exp THEN page[c] ELSE NoPage]
  /\ askedAt' = [id \in Ids |-> IF now' < askedAt[id] + ConnectTtl THEN askedAt[id] ELSE Never]
  /\ UNCHANGED <<users, nextId, jar, req, signedAt>>

\* A request ends between two transactions.
Abort(c) ==
  /\ req[c].pc # "idle" /\ End(c)
  /\ UNCHANGED <<users, nextId, jar, page, world, now, signedAt, askedAt>>

Init ==
  /\ users = [id \in Ids |-> NoRow] /\ nextId = 1
  /\ jar = NoToken /\ page = [c \in Clients |-> NoPage] /\ world = {}
  /\ req = [c \in Clients |-> Idle]
  /\ now = 0 /\ signedAt = [id \in Ids |-> Never]
  /\ askedAt = [id \in Ids |-> Never]

SignIn(c) ==
  \/ \E e \in Emails : SsoCallback(c, e)
  \/ \E e \in Emails, p \in Passwords :
       Login(c, e, p) \/ LoginSubmit(c, e, p) \/ Signup(c, e, p) \/ SignupSubmit(c, e, p)
  \/ LoginCompare(c) \/ SsoLogin(c) \/ InsertOwner(c) \/ License(c) \/ SsoFeature(c)
  \/ Logout(c) \/ OpenPage(c)

ManagePassword(c) ==
  \/ \E id \in Ids, cur, new \in Passwords :
       ChangePassword(c, id, cur, new) \/ ChangePasswordWeb(c, id, cur, new)
  \/ \E e \in Emails : ForgotPassword(c, e) \/ ForgotPasswordSubmit(c, e)
  \/ \E t \in world, new \in Passwords : ResetPassword(c, t, new) \/ ResetPasswordSubmit(c, t, new)
  \/ ChangeVerify(c) \/ PasswordStore(c)

LinkMailbox(c) ==
  \/ \E id \in Ids : Connect(c, id) \/ ConnectProvider(c, id)
  \/ \E t \in world : OAuthCallback(c, t)
  \/ Linked(c)

Next ==
  \/ \E c \in Clients : SignIn(c) \/ ManagePassword(c) \/ LinkMailbox(c) \/ Abort(c)
  \/ \E id \in Ids : Remove(id)
  \/ \E e \in Emails, p \in Passwords : Invite(e, p)
  \/ Tick

Spec == Init /\ [][Next]_vars

----------------------------------------------------------------------------
\* The type invariant of the accounts, the tokens and the requests; an address names
\* one row, whichever sign-up, invitation or SSO callback came first.
TypeOK ==
  /\ users \in [Ids -> [email : Emails, password : Passwords \union {Random}, licensed : BOOLEAN]
                        \union {NoRow}]
  /\ \A e \in Emails : Cardinality(RowsOf(e)) <= 1
  /\ nextId \in 1 .. MaxId + 1
  /\ jar \in Token \union {NoToken} /\ world \subseteq Token
  /\ page \in [Clients -> Page \union {NoPage}]
  /\ \A c \in Clients : req[c].user \in Ids \union {NoId} /\ req[c].proved \in Ids \union {NoId}
  /\ now \in 0 .. MaxNow
  /\ signedAt \in [Ids -> 0 .. Never] /\ askedAt \in [Ids -> 0 .. Never]

\* A request runs as an account only while the account exists and within the life of
\* a session that signed in to that very row: not by a reset link or an SSO state
\* that carries the same claims (auth.py:169-174), and not for an address that was
\* removed and invited again (auth.py:161-162).
ActsWithinSession ==
  [][\A c \in Clients : req[c].pc # "change" /\ req'[c].pc = "change" =>
       /\ Exists(req'[c].user)
       /\ signedAt[req'[c].user] # Never /\ now < signedAt[req'[c].user] + SessionTtl]_vars

\* A mailbox is connected in the name of an account that set out to connect one, and
\* came back from the provider within the life of the state it was given, not by a
\* reset link or a session token that names the account too (oauth.py:181-186).
ConnectsWhoAsked ==
  [][\A c \in Clients : req[c].pc # "exchange" /\ req'[c].pc = "exchange" =>
       LET id == req'[c].user IN id \in Ids /\ askedAt[id] # Never /\ now < askedAt[id] + ConnectTtl]_vars

\* A form is carried out as the user it was shown to, although another tab signed
\* out or in as somebody else meanwhile (session.py:13-14, "bound to the session").
FormActsAsItsReader ==
  \A c \in Clients : req[c].pc = "change" /\ req[c].web => req[c].reader = req[c].user

\* Forms are their reader's, an address names one account, and all keep their types,
\* whatever sign-ups, invitations, sign-ins and removals overlap (session.py:72-89).
AccountsHold == TypeOK /\ FormActsAsItsReader

\* A stored password is only ever replaced by a request that proved that row: its
\* password or a link mailed for it.  change_password finds the row by its address
\* and writes it by its id (auth.py:187-190), and the member may have been removed
\* and invited again in between.
PasswordByProof ==
  [][\A id \in Ids : Exists(id) /\ users'[id] # NoRow /\ users'[id].password # users[id].password =>
       \E c \in Clients : req[c].pc = "set" /\ req[c].proved = id]_vars
=============================================================================
