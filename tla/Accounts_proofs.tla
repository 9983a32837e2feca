--------------------------- MODULE Accounts_proofs ---------------------------
(***************************************************************************)
(* What TLAPS proves of Accounts, for any number of browsers, requests,    *)
(* accounts, links and crashes: one account stays active as long as nobody *)
(* acts whose own account is gone, and a link sets one password and one    *)
(* more for each time it is torn.                                          *)
(***************************************************************************)
EXTENDS Accounts, FiniteSetTheorems, TLAPS

Rows == [email : Emails, active : BOOLEAN, token : 0 .. MaxTokens]
AnyRow == Rows \union {NoUser, Deleted}
Ops == {"none", "create", "update", "delete", "issue", "password", "clear", "mail", "migrate",
        "seed?", "seed"}

\* What a request carries; a row to insert or to write has an email, the seeded one is
\* active, and nobody switches off the account they act with.
RequestTyped(r) ==
  /\ r \in [op : Ops, actor : Ids \union {0}, id : Ids \union {0}, was : AnyRow, user : AnyRow,
            token : 0 .. MaxTokens]
  /\ r.op \in {"create", "update", "seed"} => r.user \in Rows
  /\ r.op \in {"create", "seed"} => r.user.token = 0
  /\ r.op = "seed" => r.user.active
  /\ SwitchesOff(r) => r.actor \in Ids /\ r.actor # r.id
  /\ r.op \in {"update", "delete", "issue", "password", "clear", "migrate"} => r.id \in Ids
  /\ r.op \in {"password", "clear", "mail"} => r.token \in Tokens

Typed ==
  /\ users \in [Ids -> AnyRow]
  /\ session \in [Browsers -> Ids \union {0}]
  /\ \A q \in Requests : RequestTyped(request[q])
  /\ request = [q \in Requests |-> request[q]]
  /\ uses \in [Tokens -> Int] /\ links \subseteq Tokens
  /\ torn \in [Tokens -> Nat] /\ orphaned \in BOOLEAN

\* Ids and tokens are given out in order, so the next one is new.
InOrder ==
  /\ \E k \in 0 .. MaxUsers : \A u \in Ids : users[u] # NoUser <=> u <= k
  /\ \E k \in 0 .. MaxTokens : \A t \in Tokens : uses[t] >= 0 <=> t <= k

\* Where there is an account, or one is about to be created, one is active.
Creating == \E q \in Requests : request[q].op = "create"
Someone == ~orphaned /\ (Existing # {} \/ Creating) => \E u \in Ids : Active(u)

\* A token was issued before anybody holds it, mails it or resets with it, and belongs to
\* one account.
Resetting(q, t) == request[q].op \in {"password", "clear"} /\ request[q].token = t
Issued ==
  /\ \A u \in Ids : users[u].token # 0 => uses[users[u].token] >= 0
  /\ \A q \in Requests : request[q].op \in {"password", "clear", "mail"} => uses[request[q].token] >= 0
  /\ \A t \in links : uses[t] >= 0
  /\ \A u, v \in Ids : users[u].token # 0 /\ users[u].token = users[v].token => u = v
  /\ \A q \in Requests, t \in Tokens, u \in Ids :
       Resetting(q, t) /\ users[u].token = t => u = request[q].id

\* Each password that a link has set, or is about to set, but for one, has its tear; and all
\* of them have while the token is in a row and nobody resets with it, so that a reset that
\* finds it then is paid for.
Setting(t) == {q \in Requests : request[q].op = "password" /\ request[q].token = t}
Paid(t) ==
  /\ uses[t] + Cardinality(Setting(t)) <= 1 + torn[t]
  /\ (\E u \in Ids : users[u].token = t) /\ ~HalfDone(t) => uses[t] <= torn[t]
EachPaid == \A t \in Tokens : Paid(t)

AccountsInv == Typed /\ InOrder /\ Someone /\ Issued /\ EachPaid

-----------------------------------------------------------------------------
\* Rows and requests.

\* What the assumption says of each constant.
LEMMA Numbers == MaxUsers \in Nat /\ MaxTokens \in Nat /\ IsFiniteSet(Requests)
  BY AccountsAssumption

\* A row with an email is neither of the two that stand for no row.
LEMMA RowsExist == \A r \in Rows : r # NoUser /\ r # Deleted
  BY DEF Rows, Emails, Addresses, NoUser, Deleted, Lower

\* What a new row has.
LEMMA NewRow ==
  ASSUME NEW address \in Addresses
  PROVE  User(Lower(address)) \in Rows /\ User(Lower(address)).token = 0 /\ User(Lower(address)).active
  BY Numbers DEF Rows, Emails, User, Lower

\* The request that carries nothing.
LEMMA IdleRequest == RequestTyped(Idle) /\ Idle.op = "none"
  BY Numbers DEF RequestTyped, Idle, Ops, AnyRow, SwitchesOff

\* The requests that are about to set a password with a link.
LEMMA SettingIsFinite ==
  ASSUME NEW S, S \subseteq Requests
  PROVE  IsFiniteSet(S) /\ Cardinality(S) \in Nat
  BY Numbers, FS_Subset, FS_CardinalityType

\* One request more, or one less, counts as one.
LEMMA OneMoreOrLess ==
  ASSUME NEW S, S \subseteq Requests, NEW q \in Requests
  PROVE  /\ q \notin S => Cardinality(S \union {q}) = Cardinality(S) + 1
         /\ q \in S => Cardinality(S \ {q}) = Cardinality(S) - 1
         /\ q \in S => Cardinality(S) >= 1
  <1>1. IsFiniteSet(S) /\ Cardinality(S) \in Nat
    BY SettingIsFinite
  <1>2. q \notin S => Cardinality(S \union {q}) = Cardinality(S) + 1
    BY <1>1, FS_AddElement
  <1>3. Cardinality(S \ {q}) = IF q \in S THEN Cardinality(S) - 1 ELSE Cardinality(S)
    BY <1>1, FS_RemoveElement
  <1>4. Cardinality(S \ {q}) \in Nat
    BY SettingIsFinite
  <1>. QED BY <1>1, <1>2, <1>3, <1>4

\* An account that exists has a row with an email.
LEMMA ExistingRows ==
  ASSUME Typed, NEW u \in Ids, Exists(u)
  PROVE  users[u] \in Rows
  BY DEF Typed, Exists, AnyRow

\* The steps with which a request checks, and what they leave for the commit.
CheckStep(q) ==
  \/ AskCreate(q) \/ AskUpdate(q) \/ AskDelete(q) \/ AskLink(q) \/ AskReset(q) \/ Boot(q)
  \/ CheckSeed(q)

Checks(q, n) ==
  /\ request[q].op \in {"none", "seed?"}
  /\ request' = [request EXCEPT ![q] = n]
  /\ UNCHANGED <<users, session, links, uses, orphaned>>
  /\ RequestTyped(n) /\ n.op \notin {"clear", "mail"}
  /\ n.op = "create" => \E a \in Ids : Active(a)
  /\ IF n.op = "password"
     THEN /\ n.token \in links /\ users[n.id].token = n.token
          /\ torn' = IF HalfDone(n.token) THEN Torn(n.token) ELSE torn
     ELSE torn' = torn

\* Whoever is signed in has an account that is not disabled.
LEMMA CurrentUserIsActive ==
  ASSUME Typed, NEW b \in Browsers, CurrentUser(b) # 0
  PROVE  CurrentUser(b) \in Ids /\ Active(CurrentUser(b))
  BY DEF Typed, CurrentUser

\* Every request checks the account it acts with and what it acts on.
LEMMA CheckStepsCheck ==
  ASSUME Typed, NEW q \in Requests, CheckStep(q)
  PROVE  \E n : Checks(q, n)
  <1>. USE DEF Ask, MayAsk
  <1>0. MayAsk(q) => request[q].op = "none"
    BY DEF Idle
  <1>1. CASE AskCreate(q)
    <2>1. PICK b \in Browsers, address \in Addresses, active \in BOOLEAN :
            /\ CurrentUser(b) # 0
            /\ Ask(q, [Idle EXCEPT !.op = "create", !.user = [User(Lower(address)) EXCEPT !.active = active]])
            /\ UNCHANGED torn
      BY <1>1 DEF AskCreate
    <2>r. PICK row : row = [User(Lower(address)) EXCEPT !.active = active]
      OBVIOUS
    <2>2. row \in Rows /\ row.token = 0
      BY <2>r, NewRow DEF Rows
    <2>n. PICK n : n = [Idle EXCEPT !.op = "create", !.user = row]
      OBVIOUS
    <2>3. n = [op |-> "create", actor |-> 0, id |-> 0, was |-> NoUser, user |-> row, token |-> 0]
      BY <2>n DEF Idle
    <2>4. RequestTyped(n)
      BY <2>2, <2>3, Numbers DEF RequestTyped, Ops, AnyRow, SwitchesOff
    <2>5. \E a \in Ids : Active(a)
      BY <2>1, CurrentUserIsActive
    <2>a. Ask(q, n)
      BY <2>r, <2>n, <2>1
    <2>c. Checks(q, n)
      BY <1>0, <2>a, <2>1, <2>3, <2>4, <2>5 DEF Checks
    <2>. QED BY <2>c
  <1>2. CASE AskUpdate(q)
    <2>1. PICK b \in Browsers, u \in Existing, email \in Emails, active \in BOOLEAN :
            /\ CurrentUser(b) # 0 /\ (~active => MaySwitchOff(CurrentUser(b), u))
            /\ Ask(q, [Idle EXCEPT !.op = "update", !.actor = CurrentUser(b), !.id = u,
                              !.was = users[u],
                              !.user = [users[u] EXCEPT !.email = email, !.active = active]])
            /\ UNCHANGED torn
      BY <1>2 DEF AskUpdate
    <2>r. PICK row : row = [users[u] EXCEPT !.email = email, !.active = active]
      OBVIOUS
    <2>k. PICK actor : actor = CurrentUser(b)
      OBVIOUS
    <2>n. PICK n : n = [Idle EXCEPT !.op = "update", !.actor = actor, !.id = u, !.was = users[u],
                                    !.user = row]
      OBVIOUS
    <2>2. u \in Ids /\ Exists(u) /\ users[u] \in Rows
      BY ExistingRows DEF Existing
    <2>3. row \in Rows /\ row.active = active
      BY <2>2, <2>r DEF Rows
    <2>4. n = [op |-> "update", actor |-> actor, id |-> u, was |-> users[u], user |-> row, token |-> 0]
      BY <2>n DEF Idle
    <2>6. actor \in Ids /\ (~active => actor # u)
      BY <2>1, <2>k, CurrentUserIsActive DEF MaySwitchOff
    <2>7. SwitchesOff(n) => ~active
      BY <2>3, <2>4 DEF SwitchesOff
    <2>5. RequestTyped(n)
      BY <2>2, <2>3, <2>4, <2>6, <2>7, Numbers DEF RequestTyped, Ops, AnyRow
    <2>a. Ask(q, n)
      BY <2>n, <2>r, <2>k, <2>1
    <2>c. Checks(q, n)
      BY <1>0, <2>a, <2>1, <2>4, <2>5 DEF Checks
    <2>. QED BY <2>c
  <1>3. CASE AskDelete(q)
    <2>1. PICK b \in Browsers, u \in Existing :
            /\ CurrentUser(b) # 0 /\ MaySwitchOff(CurrentUser(b), u)
            /\ Ask(q, [Idle EXCEPT !.op = "delete", !.actor = CurrentUser(b), !.id = u])
            /\ UNCHANGED torn
      BY <1>3 DEF AskDelete
    <2>k. PICK actor : actor = CurrentUser(b)
      OBVIOUS
    <2>n. PICK n : n = [Idle EXCEPT !.op = "delete", !.actor = actor, !.id = u]
      OBVIOUS
    <2>2. /\ n = [op |-> "delete", actor |-> actor, id |-> u, was |-> NoUser, user |-> NoUser, token |-> 0]
          /\ u \in Ids
      BY <2>n DEF Idle, Existing
    <2>4. actor \in Ids /\ actor # u
      BY <2>1, <2>k, CurrentUserIsActive DEF MaySwitchOff
    <2>3. RequestTyped(n)
      BY <2>2, <2>4, Numbers DEF RequestTyped, Ops, AnyRow
    <2>a. Ask(q, n)
      BY <2>n, <2>k, <2>1
    <2>c. Checks(q, n)
      BY <1>0, <2>a, <2>1, <2>2, <2>3 DEF Checks
    <2>. QED BY <2>c
  <1>4. CASE AskLink(q)
    <2>1. PICK u \in Existing : Ask(q, [Idle EXCEPT !.op = "issue", !.id = u]) /\ UNCHANGED torn
      BY <1>4 DEF AskLink, ByEmail
    <2>n. PICK n : n = [Idle EXCEPT !.op = "issue", !.id = u]
      OBVIOUS
    <2>2. n = [op |-> "issue", actor |-> 0, id |-> u, was |-> NoUser, user |-> NoUser, token |-> 0] /\ u \in Ids
      BY <2>n DEF Idle, Existing
    <2>3. RequestTyped(n)
      BY <2>2, Numbers DEF RequestTyped, Ops, AnyRow, SwitchesOff
    <2>a. Ask(q, n)
      BY <2>n, <2>1
    <2>c. Checks(q, n)
      BY <1>0, <2>a, <2>1, <2>2, <2>3 DEF Checks
    <2>. QED BY <2>c
  <1>5. CASE AskReset(q)
    <2>1. PICK t \in links, u \in Existing :
            /\ users[u].token = t
            /\ Ask(q, [Idle EXCEPT !.op = "password", !.id = u, !.token = t])
            /\ torn' = IF HalfDone(t) THEN Torn(t) ELSE torn
      BY <1>5 DEF AskReset, ByToken
    <2>n. PICK n : n = [Idle EXCEPT !.op = "password", !.id = u, !.token = t]
      OBVIOUS
    <2>3. /\ n = [op |-> "password", actor |-> 0, id |-> u, was |-> NoUser, user |-> NoUser, token |-> t]
          /\ u \in Ids /\ users[u].token = t /\ t \in Tokens
      BY <2>n, <2>1 DEF Idle, Existing, Typed
    <2>4. RequestTyped(n)
      BY <2>3, Numbers DEF RequestTyped, Ops, AnyRow, SwitchesOff, Tokens
    <2>a. Ask(q, n)
      BY <2>n, <2>1
    <2>c. Checks(q, n)
      BY <1>0, <2>a, <2>1, <2>3, <2>4 DEF Checks
    <2>. QED BY <2>c
  <1>6. CASE Boot(q)
    <2>t. torn' = torn
      BY <1>6 DEF Boot
    <2>1. \/ Ask(q, [Idle EXCEPT !.op = "seed?"])
          \/ \E u \in Existing : Ask(q, [Idle EXCEPT !.op = "migrate", !.id = u])
      BY <1>6 DEF Boot, ByEmail
    <2>2. CASE Ask(q, [Idle EXCEPT !.op = "seed?"])
      <3>n. PICK n : n = [Idle EXCEPT !.op = "seed?"]
        OBVIOUS
      <3>1. n = [op |-> "seed?", actor |-> 0, id |-> 0, was |-> NoUser, user |-> NoUser, token |-> 0]
        BY <3>n DEF Idle
      <3>2. RequestTyped(n)
        BY <3>1, Numbers DEF RequestTyped, Ops, AnyRow, SwitchesOff
      <3>a. Ask(q, n)
        BY <2>2, <3>n
      <3>c. Checks(q, n)
        BY <1>0, <2>t, <3>a, <3>1, <3>2 DEF Checks
      <3>. QED BY <3>c
    <2>3. ASSUME NEW u \in Existing, Ask(q, [Idle EXCEPT !.op = "migrate", !.id = u])
          PROVE  \E n : Checks(q, n)
      <3>n. PICK n : n = [Idle EXCEPT !.op = "migrate", !.id = u]
        OBVIOUS
      <3>1. n = [op |-> "migrate", actor |-> 0, id |-> u, was |-> NoUser, user |-> NoUser, token |-> 0] /\ u \in Ids
        BY <3>n DEF Idle, Existing
      <3>2. RequestTyped(n)
        BY <3>1, Numbers DEF RequestTyped, Ops, AnyRow, SwitchesOff
      <3>a. Ask(q, n)
        BY <2>3, <3>n
      <3>c. Checks(q, n)
        BY <1>0, <2>t, <3>a, <3>1, <3>2 DEF Checks
      <3>. QED BY <3>c
    <2>. QED BY <2>1, <2>2, <2>3
  <1>7. CASE CheckSeed(q)
    <2>n. PICK n : n = [Idle EXCEPT !.op = "seed", !.user = User(Lower("admin"))]
      OBVIOUS
    <2>1. n = [op |-> "seed", actor |-> 0, id |-> 0, was |-> NoUser, user |-> User(Lower("admin")), token |-> 0]
      BY <2>n DEF Idle
    <2>2. User(Lower("admin")) \in Rows /\ User(Lower("admin")).active /\ User(Lower("admin")).token = 0
      BY NewRow DEF Addresses
    <2>3. RequestTyped(n)
      BY <2>1, <2>2, Numbers DEF RequestTyped, Ops, AnyRow, SwitchesOff
    <2>4. Checks(q, n) \/ Checks(q, Idle)
      BY <1>7, <2>n, <2>1, <2>3, IdleRequest DEF CheckSeed, Checks
    <2>. QED BY <2>4
  <1>. QED BY <1>1, <1>2, <1>3, <1>4, <1>5, <1>6, <1>7 DEF CheckStep

\* The next id is new: the accounts so far have the ones below it.
LEMMA NewIdIsNew ==
  ASSUME Typed, InOrder, NewId \in Ids
  PROVE  \A u \in Ids : users[u] # NoUser <=> u < NewId
  <1>1. PICK k \in 0 .. MaxUsers : \A u \in Ids : users[u] # NoUser <=> u <= k
    BY DEF InOrder
  <1>2. {u \in Ids : users[u] # NoUser} = 1 .. k
    BY <1>1, Numbers DEF Ids
  <1>3. Cardinality(1 .. k) = k
    BY <1>1, FS_Interval, Numbers
  <1>4. NewId = 1 + Cardinality(1 .. k)
    BY <1>2 DEF NewId
  <1>. QED BY <1>1, <1>3, <1>4, Numbers DEF Ids

\* So is the next token.
LEMMA NewTokenIsNew ==
  ASSUME Typed, InOrder, NewToken \in Tokens
  PROVE  \A t \in Tokens : uses[t] >= 0 <=> t < NewToken
  <1>1. PICK k \in 0 .. MaxTokens : \A t \in Tokens : uses[t] >= 0 <=> t <= k
    BY DEF InOrder
  <1>2. {t \in Tokens : uses[t] >= 0} = 1 .. k
    BY <1>1, Numbers DEF Tokens
  <1>3. Cardinality(1 .. k) = k
    BY <1>1, FS_Interval, Numbers
  <1>4. NewToken = 1 + Cardinality(1 .. k)
    BY <1>2 DEF NewToken
  <1>. QED BY <1>1, <1>3, <1>4, Numbers DEF Tokens

-----------------------------------------------------------------------------
\* Checks.

\* What a request leaves for its commit is typed, whoever creates an account has one, and a
\* reset of a link that another one is half-way through is paid for.
LEMMA ChecksKeepInv ==
  ASSUME AccountsInv, NEW q \in Requests, NEW n, Checks(q, n)
  PROVE  AccountsInv'
  <1>. USE DEF AccountsInv
  <1>1. /\ UNCHANGED <<users, session, links, uses, orphaned>>
        /\ \A p \in Requests : request'[p] = IF p = q THEN n ELSE request[p]
        /\ RequestTyped(n) /\ n.op \notin {"clear", "mail"}
        /\ request[q].op \in {"none", "seed?"}
    BY DEF Checks, Typed
  <1>2. /\ n.op = "password" => n.token \in links /\ users[n.id].token = n.token
        /\ torn' \in [Tokens -> Nat]
        /\ \A t \in Tokens : torn'[t] = IF n.op = "password" /\ n.token = t /\ HalfDone(t)
                                        THEN torn[t] + 1 ELSE torn[t]
    BY <1>1 DEF Checks, Typed, Torn, RequestTyped
  <1>3. Typed'
    <2>1. \A p \in Requests : RequestTyped(request'[p])
      BY <1>1 DEF Typed
    <2>2. \A p \in Requests : RequestTyped(request[p])'
      BY <2>1 DEF RequestTyped, SwitchesOff
    <2>3. request' = [p \in Requests |-> request'[p]]
      BY DEF Checks, Typed
    <2>4. orphaned' \in BOOLEAN
      BY <1>1 DEF Typed
    <2>. QED BY <1>1, <1>2, <2>2, <2>3, <2>4 DEF Typed
  <1>4. InOrder'
    BY <1>1 DEF InOrder
  <1>5. Someone'
    <2>1. n.op = "create" => \E a \in Ids : Active(a)
      BY DEF Checks
    <2>2. Creating' => Creating \/ n.op = "create"
      BY <1>1 DEF Creating
    <2>. QED BY <1>1, <2>1, <2>2 DEF Someone, Existing, Exists, Active
  <1>6. \A p \in Requests : \A t : Resetting(p, t)' <=>
          \/ p # q /\ Resetting(p, t)
          \/ p = q /\ n.op = "password" /\ n.token = t
    BY <1>1 DEF Resetting
  <1>7. \A t : ~Resetting(q, t)
    BY <1>1 DEF Resetting
  <1>8. Issued'
    <2>1. \A u, v \in Ids : users[u].token # 0 /\ users[u].token = users[v].token => u = v
      BY DEF Issued
    <2>2. n.op = "password" => n.id \in Ids /\ n.token \in Tokens /\ n.token # 0
      BY <1>1 DEF RequestTyped, Tokens
    <2>3. \A p \in Requests, t \in Tokens, u \in Ids :
            Resetting(p, t)' /\ users'[u].token = t => u = request'[p].id
      BY <1>1, <1>2, <1>6, <2>1, <2>2 DEF Issued
    <2>4. \A p \in Requests : request'[p].op \in {"password", "clear", "mail"} => uses'[request'[p].token] >= 0
      BY <1>1, <1>2 DEF Issued
    <2>. QED BY <1>1, <2>3, <2>4 DEF Issued
  <1>9. EachPaid'
    <2>1. SUFFICES ASSUME NEW t \in Tokens PROVE Paid(t)'
      BY DEF EachPaid
    <2>2. Paid(t) /\ uses[t] \in Int /\ torn[t] \in Nat /\ Cardinality(Setting(t)) \in Nat
      BY SettingIsFinite DEF EachPaid, Typed, Setting
    <2>3. CASE ~(n.op = "password" /\ n.token = t)
      <3>1. Setting(t)' = Setting(t)
        BY <1>1, <2>3 DEF Setting
      <3>2. HalfDone(t)' <=> HalfDone(t)
        BY <1>6, <1>7, <2>3 DEF HalfDone, Resetting
      <3>3. torn'[t] = torn[t]
        BY <1>2, <2>3
      <3>. QED BY <1>1, <2>2, <3>1, <3>2, <3>3 DEF Paid
    <2>4. CASE n.op = "password" /\ n.token = t
      <3>1. Setting(t)' = Setting(t) \union {q} /\ q \notin Setting(t)
        BY <1>1, <2>4 DEF Setting
      <3>2. Cardinality(Setting(t) \union {q}) = Cardinality(Setting(t)) + 1
        BY <3>1, OneMoreOrLess DEF Setting
      <3>3. HalfDone(t)'
        BY <1>6, <2>4 DEF HalfDone, Resetting
      <3>4. uses[t] + Cardinality(Setting(t)) + 1 <= 1 + torn'[t]
        <4>1. CASE HalfDone(t)
          BY <1>2, <2>2, <2>4, <4>1 DEF Paid
        <4>2. CASE ~HalfDone(t)
          <5>1. Setting(t) = {}
            BY <4>2 DEF HalfDone, Setting
          <5>2. n.id \in Ids /\ users[n.id].token = t
            BY <1>1, <1>2, <2>4 DEF RequestTyped
          <5>3. uses[t] <= torn[t]
            BY <2>2, <4>2, <5>2 DEF Paid
          <5>4. torn'[t] = torn[t] /\ Cardinality(Setting(t)) = 0
            BY <1>2, <4>2, <5>1, FS_EmptySet
          <5>. QED BY <2>2, <5>3, <5>4
        <4>. QED BY <4>1, <4>2
      <3>5. uses'[t] + Cardinality(Setting(t)') <= 1 + torn'[t]
        <4>1. torn'[t] \in Nat
          BY <1>2
        <4>. QED BY <1>1, <2>2, <3>1, <3>2, <3>4, <4>1
      <3>. QED BY <3>3, <3>5 DEF Paid
    <2>. QED BY <2>3, <2>4
  <1>. QED BY <1>3, <1>4, <1>5, <1>8, <1>9

-----------------------------------------------------------------------------
\* Steps that end a request, or that are about none.

\* Sessions and the hours of a token: nobody's row, request or link changes.
LEMMA OthersKeepInv ==
  ASSUME AccountsInv,
         \/ \E b \in Browsers : Login(b) \/ Logout(b)
         \/ \E t \in Tokens : Expire(t)
         \/ UNCHANGED vars
  PROVE  AccountsInv'
  <1>1. UNCHANGED <<users, request, links, uses, orphaned, torn>>
    BY DEF Login, Logout, Expire, vars
  <1>2. session' \in [Browsers -> Ids \union {0}]
    <2>1. session \in [Browsers -> Ids \union {0}]
      BY DEF AccountsInv, Typed
    <2>2. session' = session \/ \E b \in Browsers, u \in Ids \union {0} : session' = [session EXCEPT ![b] = u]
      BY DEF Login, Logout, Expire, vars, ByEmail, Existing
    <2>. QED BY <2>1, <2>2
  <1>3. Typed'
    BY <1>1, <1>2 DEF AccountsInv, Typed, RequestTyped, SwitchesOff
  <1>4. InOrder' /\ Issued'
    BY <1>1 DEF AccountsInv, InOrder, Issued, Resetting
  <1>5. Someone'
    BY <1>1 DEF AccountsInv, Someone, Creating, Existing, Exists, Active
  <1>6. EachPaid'
    <2>1. SUFFICES ASSUME NEW t \in Tokens PROVE Paid(t)'
      BY DEF EachPaid
    <2>2. Setting(t)' = Setting(t) /\ (HalfDone(t)' <=> HalfDone(t))
      BY <1>1 DEF Setting, HalfDone
    <2>. QED BY <1>1, <2>2 DEF AccountsInv, EachPaid, Paid
  <1>. QED BY <1>3, <1>4, <1>5, <1>6 DEF AccountsInv

\* A request ends without a commit: the link is sent, the commit refused, or it dies.
LapseStep(q) == Mail(q) \/ Refuse(q) \/ Crash(q)

\* A reset that dies between its commits is torn; one that is refused there has no account.
LEMMA LapseKeepsInv ==
  ASSUME AccountsInv, NEW q \in Requests, LapseStep(q)
  PROVE  AccountsInv'
  <1>. USE DEF AccountsInv
  <1>1. /\ UNCHANGED <<users, session, uses, orphaned>>
        /\ \A p \in Requests : request'[p] = IF p = q THEN Idle ELSE request[p]
        /\ request' = [request EXCEPT ![q] = Idle]
    BY DEF LapseStep, Mail, Refuse, Crash, Typed
  <1>4. RequestTyped(request[q]) /\ RequestTyped(Idle) /\ Idle.op = "none"
    BY IdleRequest DEF Typed
  <1>2. /\ links' = links \/ (request[q].op = "mail" /\ links' = links \union {request[q].token})
        /\ torn' = torn \/ (request[q].op = "clear" /\ torn' = Torn(request[q].token))
    BY DEF LapseStep, Mail, Refuse, Crash
  <1>3. \/ request[q].op # "clear"
        \/ torn' = Torn(request[q].token)
        \/ ~Exists(request[q].id)
    BY DEF LapseStep, Mail, Refuse, Crash
  <1>t. /\ torn' \in [Tokens -> Nat] /\ \A t \in Tokens : torn[t] <= torn'[t]
        /\ torn' = Torn(request[q].token) /\ request[q].op = "clear" =>
             torn'[request[q].token] = torn[request[q].token] + 1
    BY <1>2, <1>4 DEF Typed, Torn, RequestTyped
  <1>5. Typed'
    <2>1. \A p \in Requests : RequestTyped(request'[p])
      BY <1>1, <1>4 DEF Typed
    <2>2. \A p \in Requests : RequestTyped(request[p])'
      BY <2>1 DEF RequestTyped, SwitchesOff
    <2>3. request' = [p \in Requests |-> request'[p]]
      BY <1>1 DEF Typed
    <2>4. orphaned' \in BOOLEAN
      BY <1>1 DEF Typed
    <2>5. links' \subseteq Tokens
      BY <1>2, <1>4 DEF Typed, RequestTyped
    <2>. QED BY <1>1, <1>t, <2>2, <2>3, <2>4, <2>5 DEF Typed
  <1>6. InOrder'
    BY <1>1 DEF InOrder
  <1>7. Someone'
    <2>1. Creating' => Creating
      BY <1>1, <1>4 DEF Creating
    <2>. QED BY <1>1, <2>1 DEF Someone, Existing, Exists, Active
  <1>8. \A p \in Requests : \A t : Resetting(p, t)' <=> p # q /\ Resetting(p, t)
    BY <1>1, <1>4 DEF Resetting
  <1>9. Issued'
    <2>1. \A t \in links' : uses'[t] >= 0
      BY <1>1, <1>2 DEF Issued
    <2>2. \A p \in Requests, t \in Tokens, u \in Ids :
            Resetting(p, t)' /\ users'[u].token = t => u = request'[p].id
      BY <1>1, <1>8 DEF Issued
    <2>3. \A p \in Requests : request'[p].op \in {"password", "clear", "mail"} => uses'[request'[p].token] >= 0
      BY <1>1, <1>4 DEF Issued
    <2>. QED BY <1>1, <2>1, <2>2, <2>3 DEF Issued
  <1>10. EachPaid'
    <2>1. SUFFICES ASSUME NEW t \in Tokens PROVE Paid(t)'
      BY DEF EachPaid
    <2>2. /\ Paid(t) /\ uses[t] \in Int /\ torn[t] \in Nat /\ Cardinality(Setting(t)) \in Nat
          /\ torn'[t] \in Nat /\ torn[t] <= torn'[t]
      BY <1>t, SettingIsFinite DEF EachPaid, Typed, Setting
    <2>3. Setting(t)' = Setting(t) \ {q}
      BY <1>1, <1>4 DEF Setting
    <2>4. /\ Cardinality(Setting(t) \ {q}) \in Nat
          /\ q \in Setting(t) => Cardinality(Setting(t) \ {q}) = Cardinality(Setting(t)) - 1
          /\ q \notin Setting(t) => Setting(t) \ {q} = Setting(t)
      BY OneMoreOrLess, SettingIsFinite DEF Setting
    <2>5. uses'[t] + Cardinality(Setting(t)') <= 1 + torn'[t]
      <3>1. Cardinality(Setting(t) \ {q}) <= Cardinality(Setting(t))
        <4>1. CASE q \in Setting(t)
          BY <2>2, <2>4, <4>1
        <4>2. CASE q \notin Setting(t)
          <5>1. Setting(t) \ {q} = Setting(t)
            BY <2>4, <4>2
          <5>2. Cardinality(Setting(t) \ {q}) = Cardinality(Setting(t))
            BY <5>1
          <5>. QED BY <2>2, <5>2
        <4>. QED BY <4>1, <4>2
      <3>. QED BY <1>1, <2>2, <2>3, <2>4, <3>1 DEF Paid
    <2>6. ASSUME NEW u \in Ids, users[u].token = t, ~HalfDone(t)' PROVE uses[t] <= torn'[t]
      <3>1. CASE ~Resetting(q, t)
        <4>1. ~HalfDone(t)
          BY <1>8, <2>6, <3>1 DEF HalfDone, Resetting
        <4>. QED BY <2>2, <2>6, <4>1 DEF Paid
      <3>2. CASE Resetting(q, t) /\ request[q].op = "password"
        <4>1. q \in Setting(t)
          BY <3>2 DEF Setting, Resetting
        <4>2. Cardinality(Setting(t)) >= 1
          BY <4>1, OneMoreOrLess DEF Setting
        <4>. QED BY <2>2, <4>2 DEF Paid
      <3>3. CASE Resetting(q, t) /\ request[q].op = "clear"
        <4>1. request[q].id = u /\ request[q].token = t
          BY <2>6, <3>3 DEF Issued, Resetting
        <4>2. Exists(u)
          BY <2>6 DEF Exists, NoUser, Deleted, Tokens
        <4>3. torn'[t] = torn[t] + 1
          BY <1>3, <1>t, <3>3, <4>1, <4>2
        <4>. QED BY <2>2, <4>3 DEF Paid
      <3>. QED BY <3>1, <3>2, <3>3 DEF Resetting
    <2>. QED BY <1>1, <2>5, <2>6 DEF Paid
  <1>. QED BY <1>5, <1>6, <1>7, <1>9, <1>10

-----------------------------------------------------------------------------
\* Commits.

\* What a commit does to the requests, and what it finds in its own.
LEMMA Commits ==
  ASSUME AccountsInv, NEW q \in Requests, NEW rows, NEW next, Commit(q, rows, next),
         RequestTyped(next), next.op \in {"none", "clear", "mail", "seed?"}
  PROVE  /\ orphaned' \in BOOLEAN
         /\ ~orphaned' => ~orphaned /\ (SwitchesOff(request[q]) => Active(request[q].actor))
         /\ SwitchesOff(request[q]) => request[q].actor \in Ids /\ request[q].actor # request[q].id
         /\ request' = [p \in Requests |-> request'[p]]
         /\ \A p \in Requests : RequestTyped(request[p])'
         /\ \A p \in Requests : request'[p] = IF p = q THEN next ELSE request[p]
         /\ Creating' => Creating
         /\ users' = rows /\ UNCHANGED <<session, torn>>
  <1>1. /\ users' = rows /\ UNCHANGED <<session, torn>>
        /\ orphaned' = (orphaned \/ ActsForNobody(request[q]))
        /\ request' = [request EXCEPT ![q] = next]
    BY DEF Commit
  <1>2. /\ request' = [p \in Requests |-> request'[p]]
        /\ \A p \in Requests : request'[p] = IF p = q THEN next ELSE request[p]
    BY <1>1 DEF AccountsInv, Typed
  <1>3. \A p \in Requests : RequestTyped(request[p])'
    BY <1>2 DEF AccountsInv, Typed, RequestTyped, SwitchesOff
  <1>4. Creating' => Creating
    BY <1>2 DEF Creating
  <1>5. orphaned \in BOOLEAN /\ RequestTyped(request[q])
    BY DEF AccountsInv, Typed
  <1>6. ~orphaned' => ~orphaned /\ (SwitchesOff(request[q]) => Active(request[q].actor))
    BY <1>1 DEF ActsForNobody
  <1>7. SwitchesOff(request[q]) => request[q].actor \in Ids /\ request[q].actor # request[q].id
    BY <1>5 DEF RequestTyped
  <1>8. orphaned' \in BOOLEAN
    BY <1>1, <1>5
  <1>. QED BY <1>1, <1>2, <1>3, <1>4, <1>6, <1>7, <1>8

\* A commit keeps the invariant when it keeps the parts that its rows and tokens are about.
LEMMA CommitsKeepInv ==
  ASSUME AccountsInv, NEW q \in Requests, NEW rows, NEW next, Commit(q, rows, next),
         RequestTyped(next), next.op \in {"none", "clear", "mail", "seed?"},
         rows \in [Ids -> AnyRow], links' = links, uses' \in [Tokens -> Int],
         InOrder', Issued', EachPaid', Someone'
  PROVE  AccountsInv'
  <1>1. /\ orphaned' \in BOOLEAN
        /\ request' = [p \in Requests |-> request'[p]]
        /\ \A p \in Requests : RequestTyped(request[p])'
        /\ users' = rows /\ UNCHANGED <<session, torn>>
    BY Commits
  <1>2. session \in [Browsers -> Ids \union {0}] /\ links \subseteq Tokens /\ torn \in [Tokens -> Nat]
    BY DEF AccountsInv, Typed
  <1>3. Typed'
    BY <1>1, <1>2 DEF Typed
  <1>. QED BY <1>1, <1>3 DEF AccountsInv

\* A commit that creates no account leaves one active: it switches none off, or only the
\* one it is about, and whoever asked for that has another.
LeavesOthers(q) ==
  /\ \A u \in Ids : Exists(u)' => Exists(u)
  /\ \A u \in Ids : Active(u) /\ ~(SwitchesOff(request[q]) /\ u = request[q].id) => Active(u)'

LEMMA CommitsLeaveSomeone ==
  ASSUME AccountsInv, NEW q \in Requests, NEW rows, NEW next, Commit(q, rows, next),
         RequestTyped(next), next.op \in {"none", "clear", "mail", "seed?"},
         LeavesOthers(q)
  PROVE  Someone'
  <1>1. SUFFICES ASSUME ~orphaned', Existing' # {} \/ Creating' PROVE \E u \in Ids : Active(u)'
    BY DEF Someone
  <1>2. /\ ~orphaned /\ (SwitchesOff(request[q]) => Active(request[q].actor))
        /\ SwitchesOff(request[q]) => request[q].actor \in Ids /\ request[q].actor # request[q].id
        /\ Creating' => Creating
    BY <1>1, Commits
  <1>3. Existing # {} \/ Creating
    BY <1>1, <1>2 DEF Existing, LeavesOthers
  <1>4. \E u \in Ids : Active(u)
    BY <1>2, <1>3 DEF AccountsInv, Someone
  <1>5. CASE SwitchesOff(request[q])
    BY <1>2, <1>5 DEF LeavesOthers
  <1>6. CASE ~SwitchesOff(request[q])
    BY <1>4, <1>6 DEF LeavesOthers
  <1>. QED BY <1>5, <1>6

\* A commit that gives no row a token, and takes the one of the account it clears, leaves
\* every token where it belongs.
LEMMA TokensStay ==
  ASSUME AccountsInv, NEW q \in Requests, NEW rows, NEW next, Commit(q, rows, next),
         RequestTyped(next), next.op \in {"none", "seed?"},
         request[q].op \notin {"password", "mail"},
         \A u \in Ids : rows[u].token = 0 \/ rows[u].token = users[u].token,
         request[q].op = "clear" => rows[request[q].id].token = 0,
         UNCHANGED <<links, uses>>
  PROVE  Issued' /\ EachPaid'
  <1>1. /\ \A p \in Requests : request'[p] = IF p = q THEN next ELSE request[p]
        /\ users' = rows /\ torn' = torn
    BY Commits
  <1>2. \A p \in Requests : \A t : Resetting(p, t)' <=> p # q /\ Resetting(p, t)
    BY <1>1 DEF Resetting
  <1>3. \A u \in Ids, t \in Tokens : users'[u].token = t => users[u].token = t
    BY <1>1 DEF Tokens
  <1>4. Issued'
    <2>1. Issued
      BY DEF AccountsInv
    <2>2. \A u \in Ids : users'[u].token # 0 => uses[users'[u].token] >= 0
      BY <1>1, <2>1 DEF Issued
    <2>3. \A p \in Requests : request'[p].op \in {"password", "clear", "mail"} => uses[request'[p].token] >= 0
      BY <1>1, <2>1 DEF Issued
    <2>4. \A u, v \in Ids : users'[u].token # 0 /\ users'[u].token = users'[v].token => u = v
      BY <1>1, <2>1 DEF Issued
    <2>5. \A p \in Requests, t \in Tokens, u \in Ids :
            Resetting(p, t)' /\ users'[u].token = t => u = request'[p].id
      BY <1>1, <1>2, <1>3, <2>1 DEF Issued
    <2>6. \A t \in links : uses[t] >= 0
      BY <2>1 DEF Issued
    <2>. QED BY <2>2, <2>3, <2>4, <2>5, <2>6 DEF Issued
  <1>5. EachPaid'
    <2>1. SUFFICES ASSUME NEW t \in Tokens PROVE Paid(t)'
      BY DEF EachPaid
    <2>2. Paid(t)
      BY DEF AccountsInv, EachPaid
    <2>3. Resetting(q, t) => \A u \in Ids : users'[u].token # t
      <3>1. SUFFICES ASSUME Resetting(q, t), NEW u \in Ids, users'[u].token = t PROVE FALSE
        OBVIOUS
      <3>2. users[u].token = t
        BY <1>3, <3>1
      <3>3. u = request[q].id
        BY <3>1, <3>2 DEF AccountsInv, Issued
      <3>4. rows[u].token = 0
        BY <3>1, <3>3 DEF Resetting
      <3>. QED BY <1>1, <3>1, <3>4 DEF Tokens
    <2>4. Setting(t)' = Setting(t)
      BY <1>1 DEF Setting
    <2>5. (\E u \in Ids : users'[u].token = t) /\ ~HalfDone(t)' => uses[t] <= torn[t]
      <3>1. SUFFICES ASSUME NEW u \in Ids, users'[u].token = t, ~HalfDone(t)' PROVE uses[t] <= torn[t]
        OBVIOUS
      <3>2. ~HalfDone(t)
        BY <1>2, <2>3, <3>1 DEF HalfDone, Resetting
      <3>3. users[u].token = t
        BY <1>3, <3>1
      <3>. QED BY <2>2, <3>2, <3>3 DEF Paid
    <2>. QED BY <1>1, <2>2, <2>4, <2>5 DEF Paid
  <1>. QED BY <1>4, <1>5

\* A commit that only changes rows that are there already keeps the order of the ids.
LEMMA RowsStayInOrder ==
  ASSUME AccountsInv, uses' = uses, \A u \in Ids : users'[u] = NoUser <=> users[u] = NoUser
  PROVE  InOrder'
  BY DEF AccountsInv, InOrder

\* A new account: its id is the next one.
LEMMA InsertKeepsInv ==
  ASSUME AccountsInv, NEW q \in Requests, Insert(q)
  PROVE  AccountsInv'
  <1>n. PICK rows : rows = [users EXCEPT ![NewId] = request[q].user]
    OBVIOUS
  <1>1. /\ request[q].op \in {"create", "seed"} /\ NewId \in Ids
        /\ Commit(q, rows, Idle) /\ UNCHANGED <<links, uses>>
    BY <1>n DEF Insert
  <1>2. /\ users \in [Ids -> AnyRow] /\ uses \in [Tokens -> Int]
        /\ request[q].user \in Rows /\ request[q].user.token = 0
    BY <1>1 DEF AccountsInv, Typed, RequestTyped
  <1>3. /\ rows \in [Ids -> AnyRow]
        /\ \A u \in Ids : rows[u] = IF u = NewId THEN request[q].user ELSE users[u]
    BY <1>n, <1>1, <1>2 DEF AnyRow
  <1>4. /\ users' = rows
        /\ RequestTyped(Idle) /\ Idle.op = "none"
    BY <1>1, Commits, IdleRequest
  <1>5. \A u \in Ids : users[u] # NoUser <=> u < NewId
    BY <1>1, NewIdIsNew DEF AccountsInv
  <1>6. InOrder'
    <2>1. \A u \in Ids : users'[u] # NoUser <=> u <= NewId
      BY <1>1, <1>2, <1>3, <1>4, <1>5, RowsExist, Numbers DEF Ids
    <2>2. NewId \in 0 .. MaxUsers
      BY <1>1, Numbers DEF Ids
    <2>. QED BY <1>1, <2>1, <2>2 DEF AccountsInv, InOrder
  <1>7. Issued' /\ EachPaid'
    <2>1. \A u \in Ids : rows[u].token = 0 \/ rows[u].token = users[u].token
      BY <1>2, <1>3
    <2>. QED BY <1>1, <1>4, <2>1, TokensStay
  <1>8. Someone'
    <2>1. SUFFICES ASSUME ~orphaned' PROVE \E u \in Ids : Active(u)'
      BY DEF Someone
    <2>2. ~orphaned /\ RequestTyped(request[q])
      BY <1>1, <1>4, <2>1, Commits DEF AccountsInv, Typed
    <2>3. CASE request[q].op = "create"
      <3>1. PICK a \in Ids : Active(a)
        BY <2>2, <2>3 DEF AccountsInv, Someone, Creating
      <3>2. a # NewId
        BY <1>1, <1>5, <3>1, Numbers DEF Active, Exists, Ids
      <3>3. Active(a)'
        BY <1>3, <1>4, <3>1, <3>2 DEF Active, Exists
      <3>. QED BY <3>3
    <2>4. CASE request[q].op = "seed"
      <3>1. request[q].user.active
        BY <2>2, <2>4 DEF RequestTyped
      <3>2. users'[NewId] = request[q].user
        BY <1>1, <1>3, <1>4
      <3>3. request[q].user # NoUser /\ request[q].user # Deleted
        BY <1>2, RowsExist
      <3>4. PICK id \in Ids : id = NewId
        BY <1>1
      <3>5. Active(id)'
        BY <3>1, <3>2, <3>3, <3>4 DEF Active, Exists
      <3>. QED BY <3>5
    <2>. QED BY <1>1, <2>3, <2>4
  <1>. QED BY <1>1, <1>2, <1>3, <1>4, <1>6, <1>7, <1>8, CommitsKeepInv

\* An update: it only disables an account that was active when it was read.
LEMMA UpdateKeepsInv ==
  ASSUME AccountsInv, NEW q \in Requests, Update(q)
  PROVE  AccountsInv'
  <1>n. PICK row : row = Updated(request[q])
    OBVIOUS
  <1>m. PICK rows : rows = [users EXCEPT ![request[q].id] = row]
    OBVIOUS
  <1>1. /\ request[q].op = "update" /\ Exists(request[q].id)
        /\ Commit(q, rows, Idle) /\ UNCHANGED <<links, uses>>
    BY <1>n, <1>m DEF Update
  <1>2. /\ users \in [Ids -> AnyRow] /\ uses \in [Tokens -> Int]
        /\ request[q].user \in Rows /\ request[q].id \in Ids
    BY <1>1 DEF AccountsInv, Typed, RequestTyped
  <1>3. users[request[q].id] \in Rows
    BY <1>1, <1>2, ExistingRows DEF AccountsInv
  <1>4. /\ row \in Rows /\ row.token = users[request[q].id].token
        /\ users[request[q].id].active /\ ~SwitchesOff(request[q]) => row.active
    <2>1. request[q].was.active \in BOOLEAN
      <3>1. \A r \in AnyRow : r.active \in BOOLEAN
        <4>1. \A r \in Rows : r.active \in BOOLEAN
          BY DEF Rows
        <4>2. NoUser.active = FALSE /\ Deleted.active = FALSE
          BY DEF NoUser, Deleted
        <4>. QED BY <4>1, <4>2 DEF AnyRow
      <3>r. PICK r : r = request[q]
        OBVIOUS
      <3>t. RequestTyped(r)
        BY <3>r DEF AccountsInv, Typed
      <3>w. r.was \in AnyRow
        BY <3>t DEF RequestTyped
      <3>2. request[q].was \in AnyRow
        BY <3>r, <3>w
      <3>. QED BY <3>1, <3>2
    <2>2. row = [users[request[q].id] EXCEPT
                   !.email = IF request[q].user.email # request[q].was.email THEN request[q].user.email ELSE @,
                   !.active = IF request[q].user.active # request[q].was.active
                              THEN request[q].user.active ELSE @]
      BY <1>n DEF Updated
    <2>3. /\ row \in Rows /\ row.token = users[request[q].id].token
          /\ row.active = IF request[q].user.active # request[q].was.active
                          THEN request[q].user.active ELSE users[request[q].id].active
      BY <1>2, <1>3, <2>2 DEF Rows
    <2>4. request[q].user.active \in BOOLEAN
      BY <1>2 DEF Rows
    <2>5. ~SwitchesOff(request[q]) => ~request[q].was.active \/ request[q].user.active
      BY <1>1 DEF SwitchesOff
    <2>. QED BY <2>1, <2>3, <2>4, <2>5
  <1>5. /\ rows \in [Ids -> AnyRow]
        /\ \A u \in Ids : rows[u] = IF u = request[q].id THEN row ELSE users[u]
    BY <1>m, <1>2, <1>4 DEF AnyRow
  <1>6. /\ users' = rows
        /\ RequestTyped(Idle) /\ Idle.op = "none"
    BY <1>1, Commits, IdleRequest
  <1>7. InOrder'
    BY <1>1, <1>3, <1>4, <1>5, <1>6, RowsExist, RowsStayInOrder
  <1>8. Issued' /\ EachPaid'
    <2>1. \A u \in Ids : rows[u].token = 0 \/ rows[u].token = users[u].token
      BY <1>4, <1>5
    <2>. QED BY <1>1, <1>6, <2>1, TokensStay
  <1>9. Someone'
    <2>1. LeavesOthers(q)
      BY <1>1, <1>4, <1>5, <1>6, RowsExist DEF LeavesOthers, Active, Exists
    <2>. QED BY <1>1, <1>6, <2>1, CommitsLeaveSomeone
  <1>. QED BY <1>1, <1>2, <1>5, <1>6, <1>7, <1>8, <1>9, CommitsKeepInv

\* An account is deleted: whoever did it remains.
LEMMA DeleteKeepsInv ==
  ASSUME AccountsInv, NEW q \in Requests, Delete(q)
  PROVE  AccountsInv'
  <1>m. PICK rows : rows = [users EXCEPT ![request[q].id] = Deleted]
    OBVIOUS
  <1>1. /\ request[q].op = "delete" /\ Exists(request[q].id)
        /\ Commit(q, rows, Idle) /\ UNCHANGED <<links, uses>>
    BY <1>m DEF Delete
  <1>2. /\ users \in [Ids -> AnyRow] /\ uses \in [Tokens -> Int] /\ request[q].id \in Ids
    BY <1>1 DEF AccountsInv, Typed, RequestTyped
  <1>3. /\ rows \in [Ids -> AnyRow]
        /\ \A u \in Ids : rows[u] = IF u = request[q].id THEN Deleted ELSE users[u]
    BY <1>m, <1>2 DEF AnyRow
  <1>4. /\ users' = rows
        /\ RequestTyped(Idle) /\ Idle.op = "none"
    BY <1>1, Commits, IdleRequest
  <1>5. Deleted # NoUser /\ Deleted.token = 0
    BY DEF Deleted, NoUser, Lower
  <1>6. InOrder'
    BY <1>1, <1>3, <1>4, <1>5, RowsStayInOrder DEF Exists
  <1>7. Issued' /\ EachPaid'
    <2>1. \A u \in Ids : rows[u].token = 0 \/ rows[u].token = users[u].token
      BY <1>3, <1>5
    <2>. QED BY <1>1, <1>4, <2>1, TokensStay
  <1>8. Someone'
    <2>1. LeavesOthers(q)
      BY <1>1, <1>3, <1>4 DEF LeavesOthers, Active, Exists, SwitchesOff
    <2>. QED BY <1>1, <1>4, <2>1, CommitsLeaveSomeone
  <1>. QED BY <1>1, <1>2, <1>3, <1>4, <1>6, <1>7, <1>8, CommitsKeepInv

\* The legacy administrator gets the new address.
LEMMA MigrateKeepsInv ==
  ASSUME AccountsInv, NEW q \in Requests, Migrate(q)
  PROVE  AccountsInv'
  <1>m. PICK rows : rows = [users EXCEPT ![request[q].id].email = Lower("admin")]
    OBVIOUS
  <1>n. PICK next : next = [Idle EXCEPT !.op = "seed?"]
    OBVIOUS
  <1>1. /\ request[q].op = "migrate" /\ Exists(request[q].id)
        /\ Commit(q, rows, next) /\ UNCHANGED <<links, uses>>
    BY <1>m, <1>n DEF Migrate
  <1>2. /\ users \in [Ids -> AnyRow] /\ uses \in [Tokens -> Int] /\ request[q].id \in Ids
    BY <1>1 DEF AccountsInv, Typed, RequestTyped
  <1>3. users[request[q].id] \in Rows
    BY <1>1, <1>2, ExistingRows DEF AccountsInv
  <1>r. PICK row : row = [users[request[q].id] EXCEPT !.email = Lower("admin")]
    OBVIOUS
  <1>4. /\ row \in Rows /\ row.token = users[request[q].id].token
        /\ row.active = users[request[q].id].active
    BY <1>3, <1>r DEF Rows, Emails, Addresses, Lower
  <1>5. /\ rows \in [Ids -> AnyRow]
        /\ \A u \in Ids : rows[u] = IF u = request[q].id THEN row ELSE users[u]
    BY <1>m, <1>r, <1>2, <1>4 DEF AnyRow
  <1>a. RequestTyped(next) /\ next.op = "seed?"
    <2>1. next = [op |-> "seed?", actor |-> 0, id |-> 0, was |-> NoUser, user |-> NoUser, token |-> 0]
      BY <1>n DEF Idle
    <2>. QED BY <2>1, Numbers DEF RequestTyped, Ops, AnyRow, SwitchesOff
  <1>6. users' = rows
    BY <1>1, <1>a, Commits
  <1>7. InOrder'
    BY <1>1, <1>3, <1>4, <1>5, <1>6, RowsExist, RowsStayInOrder
  <1>8. Issued' /\ EachPaid'
    <2>1. \A u \in Ids : rows[u].token = 0 \/ rows[u].token = users[u].token
      BY <1>4, <1>5
    <2>. QED BY <1>1, <1>a, <2>1, TokensStay
  <1>9. LeavesOthers(q)
    BY <1>3, <1>4, <1>5, <1>6, RowsExist DEF LeavesOthers, Active, Exists
  <1>b. Someone'
    BY <1>1, <1>a, <1>9, CommitsLeaveSomeone
  <1>. QED BY <1>1, <1>2, <1>5, <1>a, <1>7, <1>8, <1>b, CommitsKeepInv

\* The end of a reset: the account has no token any more.
LEMMA ClearTokenKeepsInv ==
  ASSUME AccountsInv, NEW q \in Requests, ClearToken(q)
  PROVE  AccountsInv'
  <1>m. PICK rows : rows = Cleared(request[q].id)
    OBVIOUS
  <1>1. /\ request[q].op = "clear" /\ Exists(request[q].id)
        /\ Commit(q, rows, Idle) /\ UNCHANGED <<links, uses>>
    BY <1>m DEF ClearToken
  <1>2. /\ users \in [Ids -> AnyRow] /\ uses \in [Tokens -> Int] /\ request[q].id \in Ids
    BY <1>1 DEF AccountsInv, Typed, RequestTyped
  <1>3. users[request[q].id] \in Rows
    BY <1>1, <1>2, ExistingRows DEF AccountsInv
  <1>r. PICK row : row = [users[request[q].id] EXCEPT !.token = 0]
    OBVIOUS
  <1>4. row \in Rows /\ row.token = 0 /\ row.active = users[request[q].id].active
    BY <1>3, <1>r, Numbers DEF Rows
  <1>5. /\ rows \in [Ids -> AnyRow]
        /\ \A u \in Ids : rows[u] = IF u = request[q].id THEN row ELSE users[u]
    BY <1>m, <1>r, <1>2, <1>4 DEF AnyRow, Cleared
  <1>6. /\ users' = rows
        /\ RequestTyped(Idle) /\ Idle.op = "none"
    BY <1>1, Commits, IdleRequest
  <1>7. InOrder'
    BY <1>1, <1>3, <1>4, <1>5, <1>6, RowsExist, RowsStayInOrder
  <1>8. Issued' /\ EachPaid'
    <2>1. /\ \A u \in Ids : rows[u].token = 0 \/ rows[u].token = users[u].token
          /\ rows[request[q].id].token = 0
      BY <1>2, <1>4, <1>5
    <2>. QED BY <1>1, <1>6, <2>1, TokensStay
  <1>9. LeavesOthers(q)
    BY <1>3, <1>4, <1>5, <1>6, RowsExist DEF LeavesOthers, Active, Exists
  <1>b. Someone'
    BY <1>1, <1>6, <1>9, CommitsLeaveSomeone
  <1>. QED BY <1>1, <1>2, <1>5, <1>6, <1>7, <1>8, <1>b, CommitsKeepInv

\* A link is issued: its token is in nobody's row, no request has it, and none was mailed.
LEMMA IssueKeepsInv ==
  ASSUME AccountsInv, NEW q \in Requests, Issue(q)
  PROVE  AccountsInv'
  <1>t. PICK new : new = NewToken
    OBVIOUS
  <1>m. PICK rows : rows = [users EXCEPT ![request[q].id].token = new]
    OBVIOUS
  <1>n. PICK next : next = [Idle EXCEPT !.op = "mail", !.token = new]
    OBVIOUS
  <1>1. /\ request[q].op = "issue" /\ Exists(request[q].id) /\ new \in Tokens
        /\ uses' = [uses EXCEPT ![new] = 0]
        /\ Commit(q, rows, next) /\ UNCHANGED links
    BY <1>t, <1>m, <1>n DEF Issue
  <1>2. /\ users \in [Ids -> AnyRow] /\ uses \in [Tokens -> Int] /\ request[q].id \in Ids
        /\ new \in 0 .. MaxTokens /\ new # 0
    BY <1>1, Numbers DEF AccountsInv, Typed, RequestTyped, Tokens
  <1>3. users[request[q].id] \in Rows
    BY <1>1, <1>2, ExistingRows DEF AccountsInv
  <1>r. PICK row : row = [users[request[q].id] EXCEPT !.token = new]
    OBVIOUS
  <1>4. row \in Rows /\ row.token = new /\ row.active = users[request[q].id].active
    BY <1>2, <1>3, <1>r DEF Rows
  <1>5. /\ rows \in [Ids -> AnyRow]
        /\ \A u \in Ids : rows[u] = IF u = request[q].id THEN row ELSE users[u]
    BY <1>m, <1>r, <1>2, <1>4 DEF AnyRow
  <1>a. next = [op |-> "mail", actor |-> 0, id |-> 0, was |-> NoUser, user |-> NoUser, token |-> new]
    BY <1>n DEF Idle
  <1>b. RequestTyped(next) /\ next.op = "mail"
    BY <1>a, <1>1, <1>2, Numbers DEF RequestTyped, Ops, AnyRow, SwitchesOff
  <1>6. /\ users' = rows /\ torn' = torn
        /\ \A p \in Requests : request'[p] = IF p = q THEN next ELSE request[p]
    BY <1>1, <1>b, Commits
  <1>7. \A t \in Tokens : uses[t] >= 0 <=> t < new
    BY <1>1, <1>t, NewTokenIsNew DEF AccountsInv
  <1>8. /\ uses' \in [Tokens -> Int]
        /\ \A t \in Tokens : uses'[t] = IF t = new THEN 0 ELSE uses[t]
    BY <1>1, <1>2
  <1>9. InOrder'
    <2>1. \A u \in Ids : users'[u] = NoUser <=> users[u] = NoUser
      BY <1>3, <1>4, <1>5, <1>6, RowsExist
    <2>2. \A t \in Tokens : uses'[t] >= 0 <=> t <= new
      BY <1>2, <1>7, <1>8, Numbers DEF Tokens
    <2>. QED BY <1>2, <2>1, <2>2 DEF AccountsInv, InOrder
  <1>10. ~(uses[new] >= 0)
    BY <1>1, <1>2, <1>7
  <1>11. /\ \A u \in Ids : users[u].token # new
         /\ \A p \in Requests : ~Resetting(p, new)
         /\ \A p \in Requests : request[p].op \in {"password", "clear", "mail"} => request[p].token # new
         /\ new \notin links
    BY <1>2, <1>10 DEF AccountsInv, Issued, Resetting
  <1>12. \A p \in Requests : \A t : Resetting(p, t)' <=> Resetting(p, t)
    BY <1>1, <1>6, <1>a DEF Resetting
  <1>13. \A u \in Ids : users'[u].token = IF u = request[q].id THEN new ELSE users[u].token
    BY <1>4, <1>5, <1>6
  <1>14. Issued'
    <2>1. Issued /\ \A u \in Ids : users[u].token \in Tokens \union {0}
      <3>1. \A r \in AnyRow : r.token \in Tokens \union {0}
        BY Numbers DEF AnyRow, Rows, NoUser, Deleted, Tokens
      <3>. QED BY <1>2, <3>1 DEF AccountsInv
    <2>2. \A u \in Ids : users'[u].token # 0 => uses'[users'[u].token] >= 0
      BY <1>1, <1>2, <1>8, <1>11, <1>13, <2>1 DEF Issued
    <2>3. \A p \in Requests : request'[p].op \in {"password", "clear", "mail"} => uses'[request'[p].token] >= 0
      <3>1. \A p \in Requests : request[p].op \in {"password", "clear", "mail"} => request[p].token \in Tokens
        BY DEF AccountsInv, Typed, RequestTyped
      <3>. QED BY <1>1, <1>6, <1>8, <1>11, <1>a, <2>1, <3>1 DEF Issued
    <2>4. \A t \in links' : uses'[t] >= 0
      BY <1>1, <1>8, <1>11, <2>1 DEF Issued, AccountsInv, Typed
    <2>5. \A u, v \in Ids : users'[u].token # 0 /\ users'[u].token = users'[v].token => u = v
      BY <1>11, <1>13, <2>1 DEF Issued
    <2>6. \A p \in Requests, t \in Tokens, u \in Ids :
            Resetting(p, t)' /\ users'[u].token = t => u = request'[p].id
      <3>1. SUFFICES ASSUME NEW p \in Requests, NEW t \in Tokens, NEW u \in Ids,
                            Resetting(p, t)', users'[u].token = t
            PROVE  u = request'[p].id
        OBVIOUS
      <3>2. Resetting(p, t) /\ t # new /\ p # q
        BY <1>1, <1>11, <1>12, <3>1 DEF Resetting
      <3>3. users[u].token = t /\ request'[p] = request[p]
        BY <1>6, <1>13, <3>1, <3>2
      <3>. QED BY <2>1, <3>2, <3>3 DEF Issued
    <2>. QED BY <2>2, <2>3, <2>4, <2>5, <2>6 DEF Issued
  <1>15. EachPaid'
    <2>1. SUFFICES ASSUME NEW t \in Tokens PROVE Paid(t)'
      BY DEF EachPaid
    <2>2. Paid(t) /\ torn[t] \in Nat
      BY DEF AccountsInv, EachPaid, Typed
    <2>3. Setting(t)' = Setting(t)
      BY <1>1, <1>6, <1>b DEF Setting
    <2>4. CASE t = new
      <3>1. Setting(t)' = {}
        BY <1>11, <2>3, <2>4 DEF Setting, Resetting
      <3>2. uses'[t] = 0 /\ torn'[t] = torn[t] /\ Cardinality(Setting(t)') = 0
        BY <1>6, <1>8, <2>4, <3>1, FS_EmptySet
      <3>. QED BY <2>2, <3>2 DEF Paid
    <2>5. CASE t # new
      <3>1. /\ uses'[t] = uses[t] /\ torn'[t] = torn[t]
            /\ \A u \in Ids : users'[u].token = t => users[u].token = t
        BY <1>6, <1>8, <1>13, <2>5
      <3>2. HalfDone(t)' <=> HalfDone(t)
        BY <1>12 DEF HalfDone, Resetting
      <3>. QED BY <2>2, <2>3, <3>1, <3>2 DEF Paid
    <2>. QED BY <2>4, <2>5
  <1>16. Someone'
    <2>1. LeavesOthers(q)
      BY <1>3, <1>4, <1>5, <1>6, RowsExist DEF LeavesOthers, Active, Exists
    <2>. QED BY <1>1, <1>b, <2>1, CommitsLeaveSomeone
  <1>. QED BY <1>1, <1>5, <1>8, <1>b, <1>9, <1>14, <1>15, <1>16, CommitsKeepInv

\* The first commit of a reset: a password that was about to be set is set.
LEMMA SetPasswordKeepsInv ==
  ASSUME AccountsInv, NEW q \in Requests, SetPassword(q)
  PROVE  AccountsInv'
  <1>t. PICK tok : tok = request[q].token
    OBVIOUS
  <1>n. PICK next : next = [request[q] EXCEPT !.op = "clear"]
    OBVIOUS
  <1>1. /\ request[q].op = "password" /\ uses' = [uses EXCEPT ![tok] = @ + 1]
        /\ Commit(q, users, next) /\ UNCHANGED links
    BY <1>t, <1>n DEF SetPassword
  <1>2. /\ users \in [Ids -> AnyRow] /\ uses \in [Tokens -> Int] /\ tok \in Tokens
        /\ RequestTyped(request[q])
    BY <1>1, <1>t DEF AccountsInv, Typed, RequestTyped
  <1>3. next.op = "clear" /\ next.token = tok /\ next.id = request[q].id /\ RequestTyped(next)
    BY <1>1, <1>2, <1>n, <1>t DEF RequestTyped, Ops, SwitchesOff
  <1>4. /\ users' = users /\ torn' = torn
        /\ \A p \in Requests : request'[p] = IF p = q THEN next ELSE request[p]
    BY <1>1, <1>3, Commits
  <1>5. /\ uses' \in [Tokens -> Int]
        /\ \A t \in Tokens : uses'[t] = IF t = tok THEN uses[t] + 1 ELSE uses[t]
    BY <1>1, <1>2
  <1>6. uses[tok] >= 0
    BY <1>1, <1>t DEF AccountsInv, Issued
  <1>7. \A t \in Tokens : uses'[t] >= 0 <=> uses[t] >= 0
    BY <1>2, <1>5, <1>6
  <1>8. \A p \in Requests : \A t : Resetting(p, t)' <=> Resetting(p, t)
    BY <1>1, <1>3, <1>4, <1>t DEF Resetting
  <1>9. InOrder'
    BY <1>4, <1>7 DEF AccountsInv, InOrder
  <1>10. Issued'
    <2>1. /\ \A r \in AnyRow : r.token \in Tokens \union {0}
      BY Numbers DEF AnyRow, Rows, NoUser, Deleted, Tokens
    <2>2. \A u \in Ids : users'[u].token # 0 => uses'[users'[u].token] >= 0
      BY <1>2, <1>4, <1>7, <2>1 DEF AccountsInv, Issued
    <2>3. \A p \in Requests : request'[p].op \in {"password", "clear", "mail"} => uses'[request'[p].token] >= 0
      <3>1. \A p \in Requests : request[p].op \in {"password", "clear", "mail"} => request[p].token \in Tokens
        BY DEF AccountsInv, Typed, RequestTyped
      <3>. QED BY <1>2, <1>3, <1>4, <1>6, <1>7, <3>1 DEF AccountsInv, Issued
    <2>4. \A t \in links' : uses'[t] >= 0
      BY <1>1, <1>7 DEF Issued, AccountsInv, Typed
    <2>5. \A p \in Requests : request'[p].id = request[p].id
      BY <1>3, <1>4
    <2>. QED BY <1>4, <1>8, <2>2, <2>3, <2>4, <2>5 DEF AccountsInv, Issued
  <1>11. EachPaid'
    <2>1. SUFFICES ASSUME NEW t \in Tokens PROVE Paid(t)'
      BY DEF EachPaid
    <2>2. Paid(t) /\ uses[t] \in Int /\ torn[t] \in Nat /\ Cardinality(Setting(t)) \in Nat
      BY SettingIsFinite DEF AccountsInv, EachPaid, Typed, Setting
    <2>3. HalfDone(t)' <=> HalfDone(t)
      BY <1>8 DEF HalfDone, Resetting
    <2>4. CASE t = tok
      <3>1. Setting(t)' = Setting(t) \ {q} /\ q \in Setting(t)
        BY <1>1, <1>3, <1>4, <1>t, <2>4 DEF Setting
      <3>2. Cardinality(Setting(t) \ {q}) = Cardinality(Setting(t)) - 1
        BY <3>1, OneMoreOrLess DEF Setting
      <3>3. uses'[t] + Cardinality(Setting(t)') <= 1 + torn'[t]
        BY <1>4, <1>5, <2>2, <2>4, <3>1, <3>2 DEF Paid
      <3>4. HalfDone(t)
        BY <1>1, <1>t, <2>4 DEF HalfDone
      <3>. QED BY <2>3, <3>3, <3>4 DEF Paid
    <2>5. CASE t # tok
      <3>1. Setting(t)' = Setting(t)
        BY <1>1, <1>3, <1>4, <1>t, <2>5 DEF Setting
      <3>. QED BY <1>4, <1>5, <2>2, <2>3, <2>5, <3>1 DEF Paid
    <2>. QED BY <2>4, <2>5
  <1>12. Someone'
    <2>1. LeavesOthers(q)
      BY <1>4 DEF LeavesOthers, Active, Exists
    <2>. QED BY <1>1, <1>3, <2>1, CommitsLeaveSomeone
  <1>. QED BY <1>1, <1>2, <1>3, <1>5, <1>9, <1>10, <1>11, <1>12, CommitsKeepInv

-----------------------------------------------------------------------------
\* The specification.

\* An empty table, the legacy administrator alone, or the seeded ones.
LEMMA InitInv == Init => AccountsInv
  <1>1. SUFFICES ASSUME Init PROVE AccountsInv
    OBVIOUS
  <1>2. /\ users \in [Ids -> AnyRow]
        /\ \A u \in Ids : users[u].token = 0
        /\ \E k \in 0 .. MaxUsers : \A u \in Ids : users[u] # NoUser <=> u <= k
        /\ \A u \in Ids : Exists(u) => Active(u)
    <2>0. /\ User(Lower("admin")) \in Rows /\ User(Lower("ann")) \in Rows /\ User(Lower("legacy")) \in Rows
          /\ User(Lower("admin")).token = 0 /\ User(Lower("ann")).token = 0 /\ User(Lower("legacy")).token = 0
          /\ User(Lower("admin")).active /\ User(Lower("ann")).active /\ User(Lower("legacy")).active
          /\ NoUser.token = 0
      BY NewRow DEF Addresses, NoUser
    <2>1. CASE users = [u \in Ids |-> NoUser]
      <3>1. \A u \in Ids : users[u] # NoUser <=> u <= 0
        BY <2>1 DEF Ids
      <3>. QED BY <2>0, <2>1, <3>1, Numbers DEF AnyRow, Exists
    <2>2. CASE users = Legacy
      <3>1. \A u \in Ids : users[u] = IF u = 1 THEN User(Lower("legacy")) ELSE NoUser
        BY <2>2 DEF Legacy
      <3>2. users \in [Ids -> AnyRow] /\ \A u \in Ids : users[u].token = 0
        BY <2>0, <2>2, <3>1 DEF AnyRow, Legacy
      <3>3. \E k \in 0 .. MaxUsers : \A u \in Ids : users[u] # NoUser <=> u <= k
        <4>1. CASE MaxUsers = 0
          <5>1. 0 \in 0 .. MaxUsers /\ \A u \in Ids : users[u] # NoUser <=> u <= 0
            BY <4>1 DEF Ids
          <5>. QED BY <5>1
        <4>2. CASE MaxUsers # 0
          <5>1. 1 \in 0 .. MaxUsers /\ \A u \in Ids : users[u] # NoUser <=> u <= 1
            BY <2>0, <3>1, <4>2, RowsExist, Numbers DEF Ids
          <5>. QED BY <5>1
        <4>. QED BY <4>1, <4>2
      <3>4. \A u \in Ids : Exists(u) => Active(u)
        BY <2>0, <3>1 DEF Exists, Active
      <3>. QED BY <3>2, <3>3, <3>4
    <2>3. CASE users = Seeded
      <3>1. \A u \in Ids : users[u] = IF u = 1 THEN User(Lower("admin")) ELSE
                                      IF u = 2 THEN User(Lower("ann")) ELSE NoUser
        BY <2>3 DEF Seeded
      <3>2. users \in [Ids -> AnyRow] /\ \A u \in Ids : users[u].token = 0
        <4>1. \A u \in Ids : users[u] \in AnyRow /\ users[u].token = 0
          BY <2>0, <3>1 DEF AnyRow
        <4>2. users = [u \in Ids |-> users[u]]
          BY <2>3 DEF Seeded
        <4>. QED BY <4>1, <4>2
      <3>3. \E k \in 0 .. MaxUsers : \A u \in Ids : users[u] # NoUser <=> u <= k
        <4>1. CASE MaxUsers < 2
          <5>1. MaxUsers \in 0 .. MaxUsers /\ \A u \in Ids : users[u] # NoUser <=> u <= MaxUsers
            BY <2>0, <3>1, <4>1, RowsExist, Numbers DEF Ids
          <5>. QED BY <5>1
        <4>2. CASE MaxUsers >= 2
          <5>1. 2 \in 0 .. MaxUsers /\ \A u \in Ids : users[u] # NoUser <=> u <= 2
            BY <2>0, <3>1, <4>2, RowsExist, Numbers DEF Ids
          <5>. QED BY <5>1
        <4>. QED BY <4>1, <4>2, Numbers
      <3>4. \A u \in Ids : Exists(u) => Active(u)
        BY <2>0, <3>1 DEF Exists, Active
      <3>. QED BY <3>2, <3>3, <3>4
    <2>. QED BY <1>1, <2>1, <2>2, <2>3 DEF Init
  <1>3. /\ \A q \in Requests : request[q] = Idle
        /\ request = [q \in Requests |-> request[q]]
        /\ session \in [Browsers -> Ids \union {0}]
        /\ uses \in [Tokens -> Int] /\ \A t \in Tokens : uses[t] = -1
        /\ links = {} /\ orphaned = FALSE /\ torn \in [Tokens -> Nat] /\ \A t \in Tokens : torn[t] = 0
    BY <1>1 DEF Init
  <1>4. Typed
    BY <1>2, <1>3, IdleRequest DEF Typed
  <1>5. InOrder
    <2>1. 0 \in 0 .. MaxTokens /\ \A t \in Tokens : uses[t] >= 0 <=> t <= 0
      BY <1>3, Numbers DEF Tokens
    <2>. QED BY <1>2, <2>1 DEF InOrder
  <1>7. \A q \in Requests : request[q].op = "none"
    BY <1>3, IdleRequest
  <1>6. Someone
    BY <1>2, <1>7 DEF Someone, Creating, Existing
  <1>8. Issued
    BY <1>2, <1>3, <1>7 DEF Issued, Resetting, Tokens
  <1>9. EachPaid
    <2>1. SUFFICES ASSUME NEW t \in Tokens PROVE Paid(t)
      BY DEF EachPaid
    <2>2. Setting(t) = {}
      BY <1>7 DEF Setting
    <2>. QED BY <1>3, <2>2, FS_EmptySet DEF Paid
  <1>. QED BY <1>4, <1>5, <1>6, <1>8, <1>9 DEF AccountsInv

\* Every step keeps it.
LEMMA StepsKeepInv == AccountsInv /\ [Next]_vars => AccountsInv'
  <1>1. SUFFICES ASSUME AccountsInv, [Next]_vars PROVE AccountsInv'
    OBVIOUS
  <1>2. CASE \/ \E b \in Browsers : Login(b) \/ Logout(b)
             \/ \E t \in Tokens : Expire(t)
             \/ UNCHANGED vars
    BY <1>1, <1>2, OthersKeepInv
  <1>3. ASSUME NEW q \in Requests, CheckStep(q) PROVE AccountsInv'
    BY <1>1, <1>3, CheckStepsCheck, ChecksKeepInv DEF AccountsInv
  <1>4. ASSUME NEW q \in Requests, LapseStep(q) PROVE AccountsInv'
    BY <1>1, <1>4, LapseKeepsInv
  <1>5. ASSUME NEW q \in Requests,
               \/ Insert(q) \/ Update(q) \/ Delete(q) \/ Migrate(q) \/ Issue(q)
               \/ SetPassword(q) \/ ClearToken(q)
        PROVE  AccountsInv'
    BY <1>1, <1>5, InsertKeepsInv, UpdateKeepsInv, DeleteKeepsInv, MigrateKeepsInv, IssueKeepsInv,
       SetPasswordKeepsInv, ClearTokenKeepsInv
  <1>. QED BY <1>1, <1>2, <1>3, <1>4, <1>5 DEF Next, Answer, CheckStep, LapseStep

\* The invariant: rows and requests are well-formed, ids and tokens are given out in order,
\* one account is active where there are accounts, a token belongs to one account, and each
\* password it has set or is about to set, but for one, has its tear.
THEOREM AccountsInvariant == Spec => []AccountsInv
  <1>1. Init => AccountsInv
    BY InitInv
  <1>2. AccountsInv /\ [Next]_vars => AccountsInv'
    BY StepsKeepInv
  <1>. QED BY <1>1, <1>2, PTL DEF Spec

\* Where there are accounts one of them is active: nobody disables or deletes the account
\* they act with (UserService.update_user, delete_user), unless that one was disabled or
\* deleted while the request was on its way.  It does not say that this account can sign in.
THEOREM SomeAccountStaysActive == Spec => []SomeoneRemains
  <1>1. AccountsInv => SomeoneRemains
    BY DEF AccountsInv, Someone, SomeoneRemains
  <1>. QED BY <1>1, AccountsInvariant, PTL

\* A link sets one password (AuthService.reset_password_with_token), and one more at most
\* for each request that found it while another was half-way through its reset, or that
\* died between its two commits.
THEOREM TearsSetOneMore == Spec => []EachTearSetsOneMore
  <1>1. AccountsInv => EachTearSetsOneMore
    <2>1. SUFFICES ASSUME AccountsInv, NEW t \in Tokens PROVE uses[t] <= 1 + torn[t]
      BY DEF EachTearSetsOneMore
    <2>2. /\ uses[t] \in Int /\ torn[t] \in Nat /\ Cardinality(Setting(t)) \in Nat
          /\ uses[t] + Cardinality(Setting(t)) <= 1 + torn[t]
      BY <2>1, SettingIsFinite DEF AccountsInv, Typed, EachPaid, Paid, Setting
    <2>. QED BY <2>2
  <1>. QED BY <1>1, AccountsInvariant, PTL
=============================================================================
