------------------------------ MODULE Accounts ------------------------------
(***************************************************************************)
(* Accounts (services/auth_service.py, services/user_service.py,           *)
(* repositories/user_repository.py, core/deps.py and their routes): the    *)
(* sessions of the browsers, the operators that edit one another's         *)
(* accounts, the links that reset a password, and the administrator that   *)
(* is seeded on startup.  A request checks first and commits later; a      *)
(* reset commits twice.  Passwords themselves are not modelled: whoever    *)
(* signs in knows the right one.                                           *)
(***************************************************************************)
EXTENDS Integers, FiniteSets

CONSTANTS
  Browsers, Requests,
  MaxUsers, MaxTokens,     \* bounds on the accounts and the links ever created
  MaxAsks,                 \* bound on the requests, restarts included
  MaxCrashes               \* bound on the requests that die half-way

ASSUME AccountsAssumption ==
  {MaxUsers, MaxTokens, MaxAsks, MaxCrashes} \subseteq Nat /\ IsFiniteSet(Requests)

VARIABLES
  users,       \* per id, in the order of their creation: the row, NoUser or Deleted
  session,     \* per browser: the user_id of its cookie, or 0
  request,     \* per request: what it is about to commit
  links,       \* the reset links that were sent
  expired,     \* the tokens whose hours are over
  uses,        \* per token: the passwords it has set
  asks, crashes,
  orphaned,    \* an account was switched off or deleted for somebody whose own account had
               \* been since the check: history
  torn         \* per token: how often it was found once more while a reset was half done, or
               \* a reset died between its two commits: history

vars == <<users, session, request, links, expired, uses, asks, crashes, orphaned, torn>>

Ids == 1 .. MaxUsers
Tokens == 1 .. MaxTokens

Addresses == {"legacy", "admin", "ann"}
\* The address "admin" is the ADMIN_EMAIL of the settings, "legacy" is LEGACY_ADMIN_EMAIL.
Emails == [address : Addresses, lower : BOOLEAN]
Lower(address) == [address |-> address, lower |-> TRUE]

\* create() keeps the lower case of an email, update() keeps what it is given.
User(email) == [email |-> email, active |-> TRUE, token |-> 0]
NoUser == [email |-> Lower("none"), active |-> FALSE, token |-> 0]
Deleted == [email |-> Lower("deleted"), active |-> FALSE, token |-> 0]

Exists(u) == users[u] \notin {NoUser, Deleted}
Existing == {u \in Ids : Exists(u)}
Active(u) == Exists(u) /\ users[u].active
NewId == 1 + Cardinality({u \in Ids : users[u] # NoUser})
NewToken == 1 + Cardinality({t \in Tokens : uses[t] >= 0})

\* get_by_email: what is looked up is in lower case, what is stored may not be.
ByEmail(address) == {u \in Existing : users[u].email = Lower(address)}
\* The unique index compares what is stored.
Taken(email, self) == \E u \in Existing \ {self} : users[u].email = email

\* get_by_reset_token
ByToken(t) == {u \in Existing : users[u].token = t /\ t \notin expired}

\* _resolve_user_from_session: 0 when nobody is signed in.
CurrentUser(b) == IF session[b] # 0 /\ Active(session[b]) THEN session[b] ELSE 0

Idle == [op |-> "none", actor |-> 0, id |-> 0, was |-> NoUser, user |-> NoUser, token |-> 0]

Seeded == [u \in Ids |-> CASE u = 1 -> User(Lower("admin")) [] u = 2 -> User(Lower("ann"))
                           [] OTHER -> NoUser]
Legacy == [u \in Ids |-> IF u = 1 THEN User(Lower("legacy")) ELSE NoUser]

Init ==
  /\ users \in {[u \in Ids |-> NoUser], Legacy, Seeded}
  /\ session = [b \in Browsers |-> 0] /\ request = [q \in Requests |-> Idle]
  /\ links = {} /\ expired = {} /\ uses = [t \in Tokens |-> -1]
  /\ asks = 0 /\ crashes = 0 /\ orphaned = FALSE /\ torn = [t \in Tokens |-> 0]

-----------------------------------------------------------------------------
\* authenticate, login_submit, api_login
Login(b) ==
  \E address \in Addresses : \E u \in ByEmail(address) :
    /\ Active(u) /\ session' = [session EXCEPT ![b] = u]
    /\ UNCHANGED <<users, request, links, expired, uses, asks, crashes, orphaned, torn>>

\* logout, and a page that is opened with the session of an account that is gone or
\* disabled.
Logout(b) ==
  /\ session[b] # 0 /\ session' = [session EXCEPT ![b] = 0]
  /\ UNCHANGED <<users, request, links, expired, uses, asks, crashes, orphaned, torn>>

-----------------------------------------------------------------------------
MayAsk(q) == request[q] = Idle /\ asks < MaxAsks

\* A request checks, and goes on to commit `next`.
Ask(q, next) ==
  /\ MayAsk(q) /\ asks' = asks + 1
  /\ request' = [request EXCEPT ![q] = next]
  /\ UNCHANGED <<users, session, links, expired, uses, crashes, orphaned>>

\* create_user
AskCreate(q) ==
  /\ MayAsk(q)
  /\ \E b \in Browsers, address \in Addresses, active \in BOOLEAN :
       /\ CurrentUser(b) # 0 /\ ByEmail(address) = {}
       /\ Ask(q, [Idle EXCEPT !.op = "create", !.user = [User(Lower(address)) EXCEPT !.active = active]])
       /\ UNCHANGED torn

\* Nobody disables the account they are signed in with, nor deletes it.
MaySwitchOff_Anybody(actor, u) == TRUE
MaySwitchOff(actor, u) == u # actor

\* update_user: another email must not be found under another account.
AskUpdate(q) ==
  /\ MayAsk(q)
  /\ \E b \in Browsers, u \in Existing, email \in Emails, active \in BOOLEAN :
       /\ CurrentUser(b) # 0
       /\ email # users[u].email => ByEmail(email.address) \subseteq {u}
       /\ ~active => MaySwitchOff(CurrentUser(b), u)
       /\ Ask(q, [Idle EXCEPT !.op = "update", !.actor = CurrentUser(b), !.id = u, !.was = users[u],
                              !.user = [users[u] EXCEPT !.email = email, !.active = active]])
       /\ UNCHANGED torn

\* delete_user
AskDelete(q) ==
  \E b \in Browsers, u \in Existing :
    /\ CurrentUser(b) # 0 /\ MaySwitchOff(CurrentUser(b), u)
    /\ Ask(q, [Idle EXCEPT !.op = "delete", !.actor = CurrentUser(b), !.id = u])
    /\ UNCHANGED torn

\* request_password_reset, of anybody who knows the address.
AskLink(q) ==
  \E address \in Addresses : \E u \in ByEmail(address) :
    /\ Active(u) /\ Ask(q, [Idle EXCEPT !.op = "issue", !.id = u])
    /\ UNCHANGED torn

\* reset_password_with_token, up to the first commit.
Torn(t) == [torn EXCEPT ![t] = @ + 1]
HalfDone(t) == \E q \in Requests : request[q].op \in {"password", "clear"} /\ request[q].token = t

AskReset(q) ==
  \E t \in links : \E u \in ByToken(t) :
    /\ Active(u) /\ Ask(q, [Idle EXCEPT !.op = "password", !.id = u, !.token = t])
    /\ torn' = IF HalfDone(t) THEN Torn(t) ELSE torn

\* migrate_legacy_admin_email, on every start; then the seeding.
Boot(q) ==
  /\ IF ByEmail("legacy") = {} \/ ByEmail("admin") # {} THEN Ask(q, [Idle EXCEPT !.op = "seed?"])
     ELSE \E u \in ByEmail("legacy") : Ask(q, [Idle EXCEPT !.op = "migrate", !.id = u])
  /\ UNCHANGED torn

\* ensure_admin_user: the table has to be empty.
CheckSeed(q) ==
  /\ request[q].op = "seed?"
  /\ request' = [request EXCEPT ![q] =
       IF Existing = {} THEN [Idle EXCEPT !.op = "seed", !.user = User(Lower("admin"))] ELSE Idle]
  /\ UNCHANGED <<users, session, links, expired, uses, asks, crashes, orphaned, torn>>

-----------------------------------------------------------------------------
\* Who may act was checked when the request came; nobody looks again at the commit.
SwitchesOff(r) == r.op = "delete" \/ (r.op = "update" /\ r.was.active /\ ~r.user.active)
ActsForNobody(r) == SwitchesOff(r) /\ ~Active(r.actor)

Commit(q, newUsers, next) ==
  /\ users' = newUsers
  /\ request' = [request EXCEPT ![q] = next]
  /\ orphaned' = (orphaned \/ ActsForNobody(request[q]))
  /\ UNCHANGED <<session, expired, asks, crashes, torn>>

\* create and seed
Insert(q) ==
  /\ request[q].op \in {"create", "seed"} /\ ~Taken(request[q].user.email, 0) /\ NewId \in Ids
  /\ Commit(q, [users EXCEPT ![NewId] = request[q].user], Idle)
  /\ UNCHANGED <<links, uses>>

\* Only the columns that differ from what was read are written.
Updated(r) ==
  [users[r.id] EXCEPT !.email = IF r.user.email # r.was.email THEN r.user.email ELSE @,
                      !.active = IF r.user.active # r.was.active THEN r.user.active ELSE @]

Update(q) ==
  LET r == request[q] IN
  /\ r.op = "update" /\ Exists(r.id) /\ ~Taken(Updated(r).email, r.id)
  /\ Commit(q, [users EXCEPT ![r.id] = Updated(r)], Idle)
  /\ UNCHANGED <<links, uses>>

Delete(q) ==
  /\ request[q].op = "delete" /\ Exists(request[q].id)
  /\ Commit(q, [users EXCEPT ![request[q].id] = Deleted], Idle)
  /\ UNCHANGED <<links, uses>>

Migrate(q) ==
  LET u == request[q].id IN
  /\ request[q].op = "migrate" /\ Exists(u) /\ ~Taken(Lower("admin"), u)
  /\ Commit(q, [users EXCEPT ![u].email = Lower("admin")], [Idle EXCEPT !.op = "seed?"])
  /\ UNCHANGED <<links, uses>>

\* set_password_reset_token: an older link of the account is forgotten.
Issue(q) ==
  LET r == request[q] IN
  /\ r.op = "issue" /\ Exists(r.id) /\ NewToken \in Tokens
  /\ uses' = [uses EXCEPT ![NewToken] = 0]
  /\ Commit(q, [users EXCEPT ![r.id].token = NewToken],
            [Idle EXCEPT !.op = "mail", !.token = NewToken])
  /\ UNCHANGED links

\* send_password_reset: it may fail, the token stays.
Mail(q) ==
  /\ request[q].op = "mail"
  /\ links' \in {links, links \union {request[q].token}}
  /\ request' = [request EXCEPT ![q] = Idle]
  /\ UNCHANGED <<users, session, expired, uses, asks, crashes, orphaned, torn>>

SetPassword(q) ==
  LET r == request[q] IN
  /\ r.op = "password" /\ Exists(r.id)
  /\ uses' = [uses EXCEPT ![r.token] = @ + 1]
  /\ Commit(q, users, [r EXCEPT !.op = "clear"])
  /\ UNCHANGED links

\* clear_password_reset_token clears whatever token the account has by now.
Cleared_Kept(u) == users
Cleared(u) == [users EXCEPT ![u].token = 0]

ClearToken(q) ==
  /\ request[q].op = "clear" /\ Exists(request[q].id)
  /\ Commit(q, Cleared(request[q].id), Idle)
  /\ UNCHANGED <<links, uses>>

\* The row is gone, or the database refuses a second one with that email.
Refuse(q) ==
  LET r == request[q] IN
  /\ \/ r.op \in {"create", "seed"} /\ Taken(r.user.email, 0)
     \/ r.op = "update" /\ Exists(r.id) /\ Taken(Updated(r).email, r.id)
     \/ r.op = "migrate" /\ Taken(Lower("admin"), r.id)
     \/ r.op \notin {"none", "mail", "seed?"} /\ r.id # 0 /\ ~Exists(r.id)
  /\ request' = [request EXCEPT ![q] = Idle]
  /\ UNCHANGED <<users, session, links, expired, uses, asks, crashes, orphaned, torn>>

-----------------------------------------------------------------------------
Crash(q) ==
  /\ request[q] # Idle /\ crashes < MaxCrashes
  /\ crashes' = crashes + 1 /\ request' = [request EXCEPT ![q] = Idle]
  /\ torn' = IF request[q].op = "clear" THEN Torn(request[q].token) ELSE torn
  /\ UNCHANGED <<users, session, links, expired, uses, asks, orphaned>>

\* password_reset_expires_at goes by.
Expire(t) ==
  /\ uses[t] >= 0 /\ t \notin expired /\ expired' = expired \union {t}
  /\ UNCHANGED <<users, session, request, links, uses, asks, crashes, orphaned, torn>>

Answer(q) ==
  \/ Insert(q) \/ Update(q) \/ Delete(q) \/ Migrate(q) \/ CheckSeed(q) \/ Issue(q) \/ Mail(q)
  \/ SetPassword(q) \/ ClearToken(q) \/ Refuse(q)

Next ==
  \/ \E b \in Browsers : Login(b) \/ Logout(b)
  \/ \E q \in Requests :
       \/ AskCreate(q) \/ AskUpdate(q) \/ AskDelete(q) \/ AskLink(q) \/ AskReset(q) \/ Boot(q)
       \/ Answer(q) \/ Crash(q)
  \/ \E t \in Tokens : Expire(t)

Spec == Init /\ [][Next]_vars

-----------------------------------------------------------------------------
\* Where there are accounts one of them is active, for nobody disables or deletes the
\* account they act with (user_service.py:62-65, 73-76); unless that one was disabled or
\* deleted while the request was on its way.  This does not say that anybody can sign in:
\* ByEmail misses an email that Update stored as it was typed.
SomeoneRemains ==
  ~orphaned /\ Existing # {} => \E u \in Ids : Active(u)

\* A link sets one password (auth_service.py:73-77), and one more for each request that
\* found it before another one had cleared it, or that died before it did.
EachTearSetsOneMore == \A t \in Tokens : uses[t] <= 1 + torn[t]

=============================================================================
