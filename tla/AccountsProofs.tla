--------------------------- MODULE AccountsProofs ---------------------------
(***************************************************************************)
(* Proofs about Accounts for any set of accounts, requests and tickets: a   *)
(* claimed gateway keeps an administrator account, registration makes none, *)
(* a ticket buys one session and every verification slot has an owner.      *)
(***************************************************************************)
EXTENDS Accounts, FiniteSetTheorems, TLAPS

\* Nobody has an account yet, or somebody is an administrator.
Governed(d) == Empty(d) \/ Admins(d) # {}

\* What memory and file may be; once memory shows an account so does the file.
Registry ==
    /\ data \in Doc /\ file \in Doc
    /\ Governed(data) /\ Governed(file)
    /\ ~Empty(data) => ~Empty(file)

\* What a step makes of them, and that no step forgets the last account.
Careful == Registry' /\ (~Empty(data) => ~Empty(data'))

Step == Op \cup Field \cup {"first", "mark", "claimed", "signup", "welcome", "verified",
                            "redeemed", "done", "sync", "push", "reissue"}
Caller == Account \cup {Unclaimed, Nobody}
Call == [step : Step, ask : Ask, caller : Caller,
         user : {None} \cup User \cup SUBSET Account]
Calls ==
    /\ calls \in [Request -> {Idle} \cup Call]
    /\ traffic \in DOMAIN Traffics
    /\ tickets \in [Ticket -> Caller \cup {None}]

\* A request that is about to register saw a gateway that was claimed.
SignupClaimed == \A r \in Request : At(r, "signup") => ~Empty(data)

TicketInv ==
    /\ bought \in [Ticket -> Nat]
    /\ \A t \in Ticket : bought[t] <= 1 /\ (tickets[t] # None => bought[t] = 0)
-----------------------------------------------------------------------------
\* The copy a reader sees is the memory's or the file's.
LEMMA FreshIs == Fresh = data \/ Fresh = file
BY DEF Fresh

\* It is a document that is governed.
LEMMA FreshGood == ASSUME Registry PROVE Fresh \in Doc /\ Governed(Fresh)
BY DEF Fresh, Registry

\* An account that is put into a document.
LEMMA PutUser ==
    ASSUME NEW d \in Doc, NEW a \in Account, NEW u \in User
    PROVE  /\ Put(d, a, u) \in Doc
           /\ Put(d, a, u).users[a] = u /\ a \in Names(Put(d, a, u))
           /\ \A b \in Account \ {a} : Put(d, a, u).users[b] = d.users[b]
           /\ ~Empty(Put(d, a, u))
BY AccountsAssumption DEF Put, Doc, Names, Empty

\* An account that is taken out of a document.
LEMMA PutNone ==
    ASSUME NEW d \in Doc, NEW a \in Account
    PROVE  /\ Put(d, a, None) \in Doc
           /\ \A b \in Account \ {a} : Put(d, a, None).users[b] = d.users[b]
BY DEF Put, Doc

\* The only administrator is alone among the administrators.
LEMMA Another ==
    ASSUME NEW S, NEW a \in S, Cardinality(S) # 1
    PROVE  \E b \in S : b # a
<1> SUFFICES ASSUME \A b \in S : b = a PROVE FALSE
    OBVIOUS
<1>1. S = {a}
    OBVIOUS
<1> QED
    BY <1>1, FS_Singleton

\* A new account is one, with the role it was given.
LEMMA NewUserType ==
    ASSUME NEW p \in Password, NEW role \in Role
    PROVE  NewUser(p, role) \in User /\ NewUser(p, role).role = role
BY AccountsAssumption DEF NewUser, User

\* A change of one account that leaves its role alone keeps a document governed.
LEMMA KeepsRole ==
    ASSUME NEW d \in Doc, Governed(d), NEW a \in Names(d), NEW u \in User,
           u.role = d.users[a].role
    PROVE  Put(d, a, u) \in Doc /\ Governed(Put(d, a, u)) /\ ~Empty(Put(d, a, u))
<1>1. a \in Account
    BY DEF Names
<1>2. PICK b \in Admins(d) : TRUE
    BY DEF Governed, Empty
<1>3. b \in Account /\ d.users[b] # None /\ d.users[b].role = "admin"
    BY <1>2 DEF Admins, Names
<1>4. Put(d, a, u).users[b] # None /\ Put(d, a, u).users[b].role = "admin"
    BY <1>1, <1>3, PutUser, AccountsAssumption DEF Names
<1> QED
    BY <1>1, <1>3, <1>4, PutUser DEF Governed, Admins, Names

\* The first account is an administrator, and others take nothing away.
LEMMA AddsOne ==
    ASSUME NEW d \in Doc, Governed(d), NEW a \in Account, a \notin Names(d), NEW u \in User,
           Empty(d) => u.role = "admin"
    PROVE  Put(d, a, u) \in Doc /\ Governed(Put(d, a, u)) /\ ~Empty(Put(d, a, u))
<1>1. CASE Empty(d)
    BY <1>1, PutUser, AccountsAssumption DEF Governed, Admins, Names
<1>2. CASE ~Empty(d)
    <2>1. PICK b \in Admins(d) : TRUE
        BY <1>2 DEF Governed
    <2>2. b \in Account /\ b # a /\ d.users[b] # None /\ d.users[b].role = "admin"
        BY <2>1 DEF Admins, Names
    <2> QED
        BY <2>2, PutUser DEF Governed, Admins, Names
<1> QED
    BY <1>1, <1>2

\* What is left of the administrators after one of them is demoted or removed.
LEMMA KeepsAnother ==
    ASSUME NEW d \in Doc, Governed(d), NEW a \in Names(d),
           ~(a \in Admins(d) /\ Cardinality(Admins(d)) = 1),
           NEW e \in Doc, \A b \in Account \ {a} : e.users[b] = d.users[b]
    PROVE  Governed(e) /\ ~Empty(e)
<1>1. PICK b \in Admins(d) : b # a
    <2>1. CASE a \in Admins(d)
        BY <2>1, Another
    <2>2. CASE a \notin Admins(d)
        BY <2>2 DEF Governed, Empty
    <2> QED
        BY <2>1, <2>2
<1>2. b \in Admins(e)
    BY <1>1 DEF Admins, Names
<1> QED
    BY <1>2 DEF Governed, Admins, Empty, Names
-----------------------------------------------------------------------------
(* What a step of the registry does to memory and file.                     *)

\* Reading it is careful, and so is leaving it alone.
LEMMA ReadsCarefully ==
    ASSUME Registry, data' \in {data, file}, file' \in {file, data'}
    PROVE  Careful
BY DEF Registry, Careful, Governed, Empty, Names, Admins

\* So is a document with an administrator that reaches the file, or one that
\* does not when the file knows the gateway is claimed.
LEMMA WritesCarefully ==
    ASSUME Registry, NEW d \in Doc, Governed(d), ~Empty(d), data' = d,
           file' = d \/ (file' = file /\ ~Empty(file))
    PROVE  Careful
BY DEF Registry, Careful, Governed, Empty, Names, Admins

\* Where a request goes on, or returns.
Goes(r) ==
    /\ calls' = [calls EXCEPT ![r] = calls'[r]] /\ calls'[r] \in Call
    /\ calls'[r].ask = calls[r].ask
    /\ calls'[r].step = "signup" => ~Empty(data)
    /\ slots' = slots
Handled(r) == (Goes(r) \/ Finish(r)) /\ Careful

\* A step to another station of a handler.
LEMMA StepGoes ==
    ASSUME NEW r \in Request, Calls, calls[r] \in Call, NEW step \in Step \ {"signup"},
           Goto(r, step), UNCHANGED limits
    PROVE  Goes(r)
BY DEF Goto, Goes, Calls, Call, limits

\* The requests that end without a change, or after reading the registry.
LEMMA RefusalHandled ==
    ASSUME Registry, NEW r \in Request, Refuse(r) \/ RefuseAfterRead(r)
    PROVE  Handled(r)
BY ReadsCarefully, FreshIs DEF Refuse, RefuseAfterRead, Read, Handled, store

\* Create with a role, which the first account does not get.
LEMMA CreateHandled ==
    ASSUME Registry, Calls, NEW r \in Request, calls[r] \in Call, NEW a \in Account,
           NEW password \in Password, NEW role \in Role, NEW step \in Step \ {"signup"},
           Create(r, a, password, role, step)
    PROVE  Handled(r)
<1> DEFINE u == NewUser(password, IF Empty(Fresh) THEN "admin" ELSE role)
           d == Put(Fresh, a, u)
<1>1. CASE Finish(r) /\ Read
    BY <1>1, RefusalHandled, ReadsCarefully, FreshIs DEF Read, Handled
<1>2. CASE /\ a \notin Names(Fresh) /\ data' = d /\ file' = d
           /\ Goto(r, step) /\ UNCHANGED limits
    <2>1. (IF Empty(Fresh) THEN "admin" ELSE role) \in Role
        BY DEF Role
    <2>2. u \in User /\ (Empty(Fresh) => u.role = "admin")
        BY <2>1, NewUserType
    <2>3. d \in Doc /\ Governed(d) /\ ~Empty(d)
        BY <1>2, <2>2, AddsOne, FreshGood
    <2> QED
        BY <1>2, <2>3, WritesCarefully, StepGoes DEF Handled
<1> QED
    BY <1>1, <1>2 DEF Create, RefuseAfterRead

\* A save of a document whose predecessor knew accounts.
LEMMA SaveHandled ==
    ASSUME Registry, Calls, NEW r \in Request, calls[r] \in Call, NEW step \in Step \ {"signup"},
           NEW d \in Doc, Governed(d), ~Empty(d), ~Empty(data) \/ ~Empty(file),
           Save(r, d, step)
    PROVE  Handled(r)
<1>1. ~Empty(file)
    BY DEF Registry
<1>2. Careful
    BY <1>1, WritesCarefully DEF Save
<1> QED
    BY <1>2, StepGoes DEF Save, Handled

\* mutate, for a change that keeps the role of its account.
LEMMA MutateHandled ==
    ASSUME Registry, Calls, NEW r \in Request, calls[r] \in Call, NEW step \in Step \ {"signup"},
           NEW a \in Account, NEW u,
           a \in Names(Fresh) => u \in User /\ u.role = Fresh.users[a].role,
           Mutate(r, a, u, step)
    PROVE  Handled(r)
<1>1. CASE a \notin Names(Fresh)
    BY <1>1, RefusalHandled DEF Mutate
<1>2. CASE a \in Names(Fresh)
    <2>1. Put(Fresh, a, u) \in Doc /\ Governed(Put(Fresh, a, u)) /\ ~Empty(Put(Fresh, a, u))
        BY <1>2, KeepsRole, FreshGood
    <2>2. ~Empty(data) \/ ~Empty(file)
        BY <1>2, FreshIs DEF Empty
    <2> QED
        BY <1>2, <2>1, <2>2, SaveHandled DEF Mutate
<1> QED
    BY <1>1, <1>2
-----------------------------------------------------------------------------
(* The handlers.                                                            *)

\* The parts of a change come one after the other, and the last one always.
LEMMA AfterType ==
    ASSUME NEW ask \in Ask, NEW part \in Field \cup {"patch"}
    PROVE  After(ask, part) \in Step \ {"signup"}
<1> DEFINE Later == {p \in Parts(ask) : Rank[p] > Rank[part]}
           Next1(p) == /\ p \in Parts(ask) /\ Rank[p] > Rank[part]
                       /\ \A q \in Parts(ask) : Rank[q] > Rank[part] => Rank[q] >= Rank[p]
<1>1. Parts(ask) \subseteq {"role", "disabled", "password", "proxy", "sync", "reissue"}
    BY DEF Parts, Ask, Field
<1>2. "reissue" \in Parts(ask)
    BY DEF Parts
<1>3. \E p : Next1(p)
    <2>1. CASE "role" \in Later
        BY <1>1, <2>1 DEF Rank, Field
    <2>2. CASE "role" \notin Later /\ "disabled" \in Later
        BY <1>1, <2>2 DEF Rank, Field
    <2>3. CASE {"role", "disabled"} \cap Later = {} /\ "password" \in Later
        BY <1>1, <2>3 DEF Rank, Field
    <2>4. CASE {"role", "disabled", "password"} \cap Later = {} /\ "proxy" \in Later
        BY <1>1, <2>4 DEF Rank, Field
    <2>5. CASE {"role", "disabled", "password", "proxy"} \cap Later = {} /\ "sync" \in Later
        BY <1>1, <2>5 DEF Rank, Field
    <2>6. CASE {"role", "disabled", "password", "proxy", "sync"} \cap Later = {}
        BY <1>1, <1>2, <2>6 DEF Rank, Field
    <2> QED
        BY <2>1, <2>2, <2>3, <2>4, <2>5, <2>6
<1>4. Next1(After(ask, part))
    BY <1>3 DEF After
<1> QED
    BY <1>1, <1>4 DEF Step, Op, Field

\* What a request in flight carries.
LEMMA CallType ==
    ASSUME Calls, NEW r \in Request, calls[r] \in Call
    PROVE  /\ calls[r].ask \in Ask /\ calls[r].ask.target \in Account
           /\ calls[r].ask.password \in Password /\ calls[r].ask.role \in Role
           /\ calls[r].ask.disabled \in BOOLEAN /\ calls[r].ask.proxy \in BOOLEAN
           /\ calls[r].ask.open \in BOOLEAN /\ calls[r].caller \in Caller
BY DEF Call, Ask

\* A change of one account of the copy a handler works on is an account again.
LEMMA UserType ==
    ASSUME NEW d \in Doc, NEW a \in Names(d)
    PROVE  d.users[a] \in User
BY DEF Doc, Names

\* handleBootstrap, whose account gets the administrator's role.
LEMMA BootstrapHandled ==
    ASSUME Registry, Calls, NEW r \in Request, calls[r] \in Call, Bootstrap(r)
    PROVE  Handled(r)
<1> USE CallType DEF Step, Op
<1>1. CASE At(r, "bootstrap")
    <2>1. CASE RefuseAfterRead(r)
        BY <2>1, RefusalHandled
    <2>2. CASE Read /\ Goto(r, "first") /\ UNCHANGED limits
        BY <2>2, StepGoes, ReadsCarefully, FreshIs DEF Read, Handled
    <2> QED
        BY <1>1, <2>1, <2>2 DEF Bootstrap, At
<1>2. CASE At(r, "first")
    <2>1. Create(r, calls[r].ask.target, calls[r].ask.password, "admin",
                 IF calls[r].ask.generated THEN "mark" ELSE "claimed")
        BY <1>2 DEF Bootstrap, At
    <2> QED
        BY <2>1, CreateHandled DEF Role
<1>3. CASE At(r, "mark")
    <2> DEFINE a == calls[r].ask.target
               u == [Fresh.users[a] EXCEPT !.generated = TRUE]
    <2>1. Goto(r, "claimed") /\ UNCHANGED limits
        BY <1>3 DEF Bootstrap, At
    <2>2. CASE a \in Names(Fresh)
        <3>1. u \in User /\ u.role = Fresh.users[a].role
            BY <2>2, FreshGood, UserType DEF User
        <3>2. data' = Put(Fresh, a, u) /\ file' = data'
            BY <1>3, <2>2 DEF Bootstrap, At
        <3>3. Careful
            BY <2>2, <3>1, <3>2, KeepsRole, FreshGood, WritesCarefully
        <3> QED
            BY <2>1, <3>3, StepGoes DEF Handled
    <2>3. CASE a \notin Names(Fresh)
        <3>1. Read
            BY <1>3, <2>3 DEF Bootstrap, At
        <3> QED
            BY <2>1, <3>1, StepGoes, ReadsCarefully, FreshIs DEF Read, Handled
    <2> QED
        BY <2>2, <2>3
<1>4. CASE At(r, "claimed")
    BY <1>4, RefusalHandled DEF Bootstrap, At
<1> QED
    BY <1>1, <1>2, <1>3, <1>4 DEF Bootstrap

\* handleRegister, which goes on only where somebody has claimed the gateway.
LEMMA RegisterHandled ==
    ASSUME Registry, Calls, NEW r \in Request, calls[r] \in Call, Register(r)
    PROVE  Handled(r)
<1> USE CallType DEF Step, Op
<1>1. CASE At(r, "register")
    <2>1. CASE Refuse(r)
        BY <2>1, RefusalHandled
    <2>2. CASE CanRegister /\ Goto(r, "signup") /\ UNCHANGED <<store, limits>>
        <3>1. Careful
            BY <2>2, ReadsCarefully DEF store
        <3> QED
            BY <2>2, <3>1 DEF Goto, Goes, Handled, CanRegister, Calls, Call, limits
    <2> QED
        BY <1>1, <2>1, <2>2 DEF Register, At
<1>2. CASE At(r, "signup")
    BY <1>2, CreateHandled DEF Register, At, Role
<1>3. CASE At(r, "welcome")
    BY <1>3, RefusalHandled DEF Register, At
<1> QED
    BY <1>1, <1>2, <1>3 DEF Register

\* handleLogin, which changes no account.
LEMMA LoginHandled ==
    ASSUME Registry, Calls, NEW r \in Request, calls[r] \in Call, Login(r)
    PROVE  Handled(r)
<1> USE CallType
<1> DEFINE a == calls[r].ask.target
<1>1. CASE At(r, "login")
    <2>1. CASE RefuseAfterRead(r)
        BY <2>1, RefusalHandled
    <2>2. CASE /\ a \in Names(Fresh) /\ Read /\ UNCHANGED limits
               /\ calls' = [calls EXCEPT ![r].step = "verified", ![r].user = Fresh.users[a]]
        <3>1. Fresh.users[a] \in User
            BY <2>2, FreshGood, UserType
        <3>2. Goes(r)
            BY <2>2, <3>1 DEF Goes, Calls, Call, Step, limits
        <3> QED
            BY <2>2, <3>2, ReadsCarefully, FreshIs DEF Read, Handled
    <2> QED
        BY <1>1, <2>1, <2>2 DEF Login, At, Verifies
<1>2. CASE At(r, "verified")
    <2>1. Finish(r) /\ data' = data /\ file' \in {file, data}
        BY <1>2 DEF Login, At, store
    <2> QED
        BY <2>1, ReadsCarefully DEF Handled
<1> QED
    BY <1>1, <1>2 DEF Login

\* The two ticket handlers, which leave the registry alone or read it.
LEMMA TicketHandled ==
    ASSUME Registry, Calls, NEW r \in Request, calls[r] \in Call,
           Redeem(r) \/ Redeemed(r) \/ \E t \in Ticket : Mint(r, t)
    PROVE  Handled(r)
<1>1. CASE Refuse(r) \/ RefuseAfterRead(r)
    BY <1>1, RefusalHandled
<1>2. ASSUME NEW t \in Ticket, tickets[t] # None, UNCHANGED <<store, limits>>,
             calls' = [calls EXCEPT ![r].step = "redeemed", ![r].caller = tickets[t]]
      PROVE  Handled(r)
    BY <1>2, ReadsCarefully DEF Goes, Calls, Call, Step, limits, store, Handled
<1> QED
    BY <1>1, <1>2 DEF Redeem, Redeemed, Mint

\* handleCreateUser, the settings and the last step of a handler.
LEMMA SettingsHandled ==
    ASSUME Registry, Calls, NEW r \in Request, calls[r] \in Call,
           SetAllowRegistration(r) \/ CreateUser(r) \/ Done(r)
    PROVE  Handled(r)
<1> USE CallType
<1>1. CASE SetAllowRegistration(r)
    <2> DEFINE d == [data EXCEPT !.open = calls[r].ask.open]
    <2>1. d \in Doc /\ Governed(d) /\ (Empty(d) <=> Empty(data))
        BY DEF Registry, Doc, Governed, Empty, Names, Admins
    <2>2. Save(r, d, "done")
        BY <1>1 DEF SetAllowRegistration
    <2>3. Careful
        BY <2>1, <2>2 DEF Save, Careful, Registry
    <2> QED
        BY <2>2, <2>3, StepGoes DEF Save, Handled, Step
<1>2. CASE CreateUser(r)
    BY <1>2, CreateHandled DEF CreateUser, Step
<1>3. CASE Done(r)
    BY <1>3, RefusalHandled DEF Done
<1> QED
    BY <1>1, <1>2, <1>3

\* handlePatchUser, up to its first field.
LEMMA PatchStartHandled ==
    ASSUME Registry, Calls, NEW r \in Request, calls[r] \in Call, PatchStart(r)
    PROVE  Handled(r)
<1>1. CASE RefuseAfterRead(r)
    BY <1>1, RefusalHandled
<1>2. CASE ~RefuseAfterRead(r)
    <2>1. PICK caller \in Caller :
             calls' = [calls EXCEPT ![r].step = After(calls[r].ask, "patch"), ![r].caller = caller]
        BY <1>2, CallType DEF PatchStart, Caller
    <2>2. data' = Fresh /\ file' \in {file, Fresh} /\ UNCHANGED limits
        BY <1>2 DEF PatchStart
    <2>3. After(calls[r].ask, "patch") \in Step \ {"signup"}
        BY CallType, AfterType
    <2>4. Goes(r)
        BY <2>1, <2>2, <2>3 DEF Goes, Calls, Call, limits
    <2> QED
        BY <2>2, <2>4, ReadsCarefully, FreshIs DEF Handled
<1> QED
    BY <1>1, <1>2

\* SetRole, SetDisabled and Delete, which leave another administrator.
LEMMA RoleHandled ==
    ASSUME Registry, Calls, NEW r \in Request, calls[r] \in Call,
           SetRole(r) \/ SetDisabled(r) \/ DeleteUser(r)
    PROVE  Handled(r)
<1> DEFINE a == calls[r].ask.target
<1> USE CallType
<1>0. data \in Doc /\ Governed(data)
    BY DEF Registry
<1>1. CASE Refuse(r)
    BY <1>1, RefusalHandled
<1>2. ASSUME a \in Names(data) PROVE data.users[a] \in User /\ ~Empty(data)
    BY <1>0, <1>2, UserType DEF Empty
<1>3. CASE SetRole(r) /\ ~Refuse(r)
    <2> DEFINE u == [data.users[a] EXCEPT !.role = calls[r].ask.role]
               last == /\ a \in Admins(data) /\ calls[r].ask.role # "admin"
                       /\ Cardinality(Admins(data)) = 1
    <2>1. a \in Names(data) /\ ~last /\ Save(r, Put(data, a, u), After(calls[r].ask, "role"))
        BY <1>3 DEF SetRole
    <2>2. u \in User /\ u.role = calls[r].ask.role
        BY <1>2, <2>1 DEF User
    <2>3. Put(data, a, u) \in Doc /\ Governed(Put(data, a, u)) /\ ~Empty(Put(data, a, u))
        <3>1. CASE u.role = "admin"
            <4>1. /\ Put(data, a, u) \in Doc /\ Put(data, a, u).users[a] = u
                  /\ a \in Names(Put(data, a, u)) /\ ~Empty(Put(data, a, u))
                <5>1. a \in Account /\ u \in User
                    BY <2>1, <2>2 DEF Names
                <5> HIDE DEF a, u
                <5> QED
                    BY <1>0, <5>1, PutUser
            <4> QED
                BY <3>1, <4>1 DEF Governed, Admins
        <3>2. CASE u.role # "admin"
            <4>1. ~(a \in Admins(data) /\ Cardinality(Admins(data)) = 1)
                BY <2>1, <2>2, <3>2
            <4> QED
                BY <1>0, <2>1, <2>2, <4>1, PutUser, KeepsAnother
        <3> QED
            BY <3>1, <3>2
    <2>4. After(calls[r].ask, "role") \in Step \ {"signup"}
        BY AfterType DEF Field
    <2> QED
        BY <1>2, <2>1, <2>3, <2>4, SaveHandled
<1>4. CASE SetDisabled(r) /\ ~Refuse(r)
    <2> DEFINE u == [data.users[a] EXCEPT !.disabled = calls[r].ask.disabled]
    <2>1. a \in Names(data) /\ Save(r, Put(data, a, u), After(calls[r].ask, "disabled"))
        BY <1>4 DEF SetDisabled
    <2>2. u \in User /\ u.role = data.users[a].role
        BY <1>2, <2>1 DEF User
    <2>3. Put(data, a, u) \in Doc /\ Governed(Put(data, a, u)) /\ ~Empty(Put(data, a, u))
        BY <1>0, <2>1, <2>2, KeepsRole
    <2>4. After(calls[r].ask, "disabled") \in Step \ {"signup"}
        BY AfterType DEF Field
    <2> QED
        BY <1>2, <2>1, <2>3, <2>4, SaveHandled
<1>5. CASE DeleteUser(r) /\ ~Refuse(r)
    <2>1. /\ a \in Names(data) /\ Save(r, Put(data, a, None), "sync")
          /\ ~(a \in Admins(data) /\ Cardinality(Admins(data)) = 1)
        BY <1>5 DEF DeleteUser
    <2>2. /\ Put(data, a, None) \in Doc
          /\ \A b \in Account \ {a} : Put(data, a, None).users[b] = data.users[b]
        BY <1>0, PutNone
    <2>3. Governed(Put(data, a, None)) /\ ~Empty(Put(data, a, None))
        BY <1>0, <2>1, <2>2, KeepsAnother
    <2> QED
        BY <1>2, <2>1, <2>2, <2>3, SaveHandled DEF Step
<1> QED
    BY <1>1, <1>3, <1>4, <1>5

\* An account with or without its key.
LEMMA KeyType ==
    ASSUME NEW u \in User, NEW key \in BOOLEAN
    PROVE  [u EXCEPT !.key = key] \in User /\ [u EXCEPT !.key = key].role = u.role
BY DEF User

\* An account with another password and the next epoch.
LEMMA PasswordType ==
    ASSUME NEW u \in User, NEW p \in Password, u.epoch # MaxEpoch
    PROVE  LET v == [u EXCEPT !.password = p, !.epoch = @ + 1, !.generated = FALSE] IN
           v \in User /\ v.role = u.role
<1> DEFINE v == [u EXCEPT !.password = p, !.epoch = @ + 1, !.generated = FALSE]
<1>1. u.epoch + 1 \in 0..MaxEpoch
    BY AccountsAssumption DEF User
<1>2. [u EXCEPT !.password = p] \in User
    BY DEF User
<1>3. [[u EXCEPT !.password = p] EXCEPT !.epoch = u.epoch + 1] \in User
    BY <1>1, <1>2 DEF User
<1>4. v = [[[u EXCEPT !.password = p] EXCEPT !.epoch = u.epoch + 1] EXCEPT !.generated = FALSE]
    BY DEF User
<1> QED
    BY <1>3, <1>4 DEF User

\* SetPassword, SetProxyPassword and the keys, which leave the role alone.
LEMMA CredentialsHandled ==
    ASSUME Registry, Calls, NEW r \in Request, calls[r] \in Call,
           SetPassword(r) \/ SetProxyPassword(r) \/ SetKey(r)
    PROVE  Handled(r)
<1> DEFINE a == calls[r].ask.target
<1> USE CallType
<1>0. ASSUME a \in Names(Fresh) PROVE Fresh.users[a] \in User
    BY <1>0, FreshGood, UserType
<1>1. CASE Refuse(r) \/ RefuseAfterRead(r)
    BY <1>1, RefusalHandled
<1>2. CASE SetPassword(r) /\ ~Refuse(r)
    <2> DEFINE u == [Fresh.users[a] EXCEPT !.password = calls[r].ask.password,
                                           !.epoch = @ + 1, !.generated = FALSE]
    <2>1. /\ ~(a \in Names(Fresh) /\ Fresh.users[a].epoch = MaxEpoch)
          /\ Mutate(r, a, u, After(calls[r].ask, "password"))
        BY <1>2 DEF SetPassword
    <2>2. a \in Names(Fresh) => u \in User /\ u.role = Fresh.users[a].role
        BY <1>0, <2>1, PasswordType
    <2>3. After(calls[r].ask, "password") \in Step \ {"signup"}
        BY AfterType DEF Field
    <2> QED
        BY <2>1, <2>2, <2>3, MutateHandled
<1>3. CASE SetProxyPassword(r)
    <2> DEFINE u == [Fresh.users[a] EXCEPT !.proxy = calls[r].ask.proxy]
    <2>1. a \in Names(Fresh) => u \in User /\ u.role = Fresh.users[a].role
        BY <1>0 DEF User
    <2>2. After(calls[r].ask, "proxy") \in Step \ {"signup"}
        BY AfterType DEF Field
    <2> QED
        BY <1>3, <2>1, <2>2, MutateHandled DEF SetProxyPassword
<1>4. CASE SetKey(r) /\ ~RefuseAfterRead(r)
    <2> DEFINE new == At(r, "createKey")
               u == [Fresh.users[a] EXCEPT !.key = new]
    <2>0. new \in BOOLEAN
        BY DEF At
    <2>1. a \in Names(Fresh) => u \in User /\ u.role = Fresh.users[a].role
        BY <1>0, <2>0, KeyType
    <2>2. Mutate(r, a, u, "done")
        BY <1>4 DEF SetKey
    <2> QED
        BY <2>1, <2>2, MutateHandled DEF Step
<1> QED
    BY <1>1, <1>2, <1>3, <1>4

\* syncInboundCredentials and the answer of a change.
LEMMA SyncHandled ==
    ASSUME Registry, Calls, NEW r \in Request, calls[r] \in Call, Sync(r) \/ Push(r) \/ Reissue(r)
    PROVE  Handled(r)
<1>1. CASE Sync(r)
    <2>1. ProxyCredentials(Fresh) \in SUBSET Account
        BY DEF ProxyCredentials, Names
    <2>2. Goes(r)
        BY <1>1, <2>1 DEF Sync, Goes, Calls, Call, Step, limits
    <2> QED
        BY <1>1, <2>2, ReadsCarefully, FreshIs DEF Sync, Read, Handled
<1>2. CASE Push(r)
    <2>1. Careful
        BY <1>2, ReadsCarefully DEF Push, store
    <2>2. (IF calls[r].ask.op = "patch" THEN "reissue" ELSE "done") \in Step \ {"signup"}
        BY DEF Step, Op
    <2> QED
        BY <1>2, <2>1, <2>2, StepGoes DEF Push, Handled
<1>3. CASE Reissue(r)
    BY <1>3, RefusalHandled DEF Reissue
<1> QED
    BY <1>1, <1>2, <1>3

\* Every step of a request is careful, and goes on or gives its slot back.
LEMMA AllHandled ==
    ASSUME Registry, Calls, NEW r \in Request, calls[r] \in Call, Handle(r)
    PROVE  Handled(r)
BY BootstrapHandled, RegisterHandled, LoginHandled, TicketHandled, SettingsHandled,
    PatchStartHandled, RoleHandled, CredentialsHandled, SyncHandled DEF Handle
-----------------------------------------------------------------------------
(* Memory, file, requests and tickets, step by step.                        *)

Ready == Registry /\ Calls /\ SignupClaimed /\ TicketInv

\* A request that is not idle is a call.
LEMMA BusyIsCall ==
    ASSUME Calls, NEW r \in Request, calls[r] # Idle
    PROVE  calls[r] \in Call
BY DEF Calls

\* An idle thread is at no step of a handler.
LEMMA IdleIsNoCall == Idle \notin Call /\ ~(Idle.step \in Step)
BY DEF Idle, Call, Step, Op, Field

\* Every step keeps an administrator, and no step forgets the last account.
LEMMA StepsAreCareful ==
    ASSUME Ready, [Next]_vars
    PROVE  Careful
<1> USE DEF Ready
<1>1. CASE \E r \in Request, ask \in Traffics[traffic], who \in Account \cup {Unclaimed, Nobody} :
                Arrive(r, ask, who)
    BY <1>1, ReadsCarefully, FreshIs DEF Arrive
<1>2. CASE \E ask \in Traffics[traffic] : Busy(ask)
    BY <1>2, ReadsCarefully, FreshIs DEF Busy, Read
<1>3. CASE \E r \in Request : calls[r] # Idle /\ Handle(r)
    BY <1>3, BusyIsCall, AllHandled DEF Handled
<1>4. CASE Expire \/ (\E c \in Address : Window(c)) \/ UNCHANGED vars
    BY <1>4, ReadsCarefully DEF Expire, Window, vars, store
<1>5. ASSUME NEW a \in Account, NEW role \in Role, Edit(a, role) PROVE Careful
    <2> DEFINE p == CHOOSE p \in Password : TRUE
               u == NewUser(p, IF Empty(file) THEN "admin" ELSE role)
    <2>1. (IF Empty(file) THEN "admin" ELSE role) \in Role
        BY DEF Role
    <2>2. p \in Password
        BY AccountsAssumption
    <2>3. u \in User /\ (Empty(file) => u.role = "admin")
        BY <2>1, <2>2, NewUserType
    <2>4. a \notin Names(file)
        BY <1>5 DEF Edit, Names
    <2>5. file \in Doc /\ Governed(file)
        BY DEF Registry
    <2>6. file' = Put(file, a, u) /\ data' = data
        BY <1>5 DEF Edit
    <2>7. file' \in Doc /\ Governed(file') /\ ~Empty(file')
        BY <2>3, <2>4, <2>5, <2>6, AddsOne
    <2> QED
        BY <2>6, <2>7 DEF Registry, Careful, Governed, Empty, Names, Admins
<1>6. CASE Restart
    BY <1>6, ReadsCarefully DEF Restart
<1> QED
    BY <1>1, <1>2, <1>3, <1>4, <1>5, <1>6 DEF Next

\* What every step does to the threads: one arrives, goes on or returns, or all
\* of them stay or are gone.
Arrives(r, ask) ==
    /\ calls[r] = Idle /\ ask \in Ask
    /\ calls' = [calls EXCEPT ![r] = calls'[r]] /\ calls'[r] \in Call
    /\ calls'[r].step = ask.op /\ calls'[r].ask = ask
    /\ slots' = IF Costly(ask) THEN slots + 1 ELSE slots
Threads ==
    \/ \E r \in Request, ask \in Ask : Arrives(r, ask)
    \/ \E r \in Request : calls[r] \in Call /\ (Goes(r) \/ Finish(r))
    \/ UNCHANGED <<calls, slots>>
    \/ calls' = [r \in Request |-> Idle] /\ slots' = 0

\* Every step is one of these.
LEMMA StepsOfThreads ==
    ASSUME Ready, [Next]_vars
    PROVE  Threads
<1> USE DEF Ready
<1>1. ASSUME NEW r \in Request, NEW ask \in Traffics[traffic],
             NEW who \in Account \cup {Unclaimed, Nobody}, Arrive(r, ask, who)
      PROVE  Arrives(r, ask)
    <2>1. ask \in Ask
        BY AccountsAssumption DEF Calls
    <2>2. ask.op \in Op
        BY <2>1 DEF Ask
    <2>3. [step |-> ask.op, ask |-> ask, caller |-> who, user |-> None] \in Call
        BY <2>1, <2>2 DEF Call, Caller, Step
    <2>4. calls'[r] = [step |-> ask.op, ask |-> ask, caller |-> who, user |-> None]
        BY <1>1 DEF Arrive, Calls
    <2>5. slots' = IF Costly(ask) THEN slots + 1 ELSE slots
        BY <1>1 DEF Arrive, limits
    <2>6. calls[r] = Idle /\ calls' = [calls EXCEPT ![r] = calls'[r]]
        BY <1>1, <2>4 DEF Arrive
    <2>7. calls'[r].step = ask.op /\ calls'[r].ask = ask
        BY <2>4
    <2> QED
        BY <2>1, <2>3, <2>4, <2>5, <2>6, <2>7 DEF Arrives
<1>2. ASSUME NEW r \in Request, calls[r] # Idle, Handle(r) PROVE Threads
    BY <1>2, BusyIsCall, AllHandled DEF Handled, Threads
<1>3. CASE \/ \E ask \in Traffics[traffic] : Busy(ask)
           \/ Expire \/ (\E c \in Address : Window(c)) \/ UNCHANGED vars
           \/ \E a \in Account, role \in Role : Edit(a, role)
    BY <1>3 DEF Busy, Expire, Window, Edit, vars, limits, Threads
<1>4. CASE Restart
    BY <1>4 DEF Restart, Threads
<1>5. ASSUME NEW r \in Request, NEW ask \in Traffics[traffic],
             NEW who \in Account \cup {Unclaimed, Nobody}, Arrive(r, ask, who)
      PROVE  Threads
    <2>1. ask \in Ask
        BY AccountsAssumption DEF Calls
    <2> QED
        BY <1>1, <1>5, <2>1 DEF Threads
<1> QED
    BY <1>2, <1>3, <1>4, <1>5 DEF Next

\* What every step does to the tickets: one is minted for a caller, one is spent,
\* or some are gone.
Minted(t) ==
    /\ tickets[t] = None /\ bought[t] = 0 /\ bought' = bought
    /\ \E who \in Caller : tickets' = [tickets EXCEPT ![t] = who]
Spent(t) ==
    /\ tickets[t] # None
    /\ tickets' = [tickets EXCEPT ![t] = None]
    /\ bought' = [bought EXCEPT ![t] = @ + 1]
Gone == bought' = bought /\ \A t \in Ticket : tickets'[t] \in {tickets[t], None}
TicketStep ==
    /\ tickets' \in [Ticket -> Caller \cup {None}]
    /\ (\E t \in Ticket : Minted(t) \/ Spent(t)) \/ Gone

\* Every step is one of these.
LEMMA StepsOfTickets ==
    ASSUME Ready, [Next]_vars
    PROVE  TicketStep
<1> USE DEF Ready
<1>0. tickets \in [Ticket -> Caller \cup {None}]
    BY DEF Calls
<1>1. ASSUME UNCHANGED <<tickets, bought>> PROVE TicketStep
    BY <1>0, <1>1 DEF TicketStep, Gone
<1>2. ASSUME NEW r \in Request, NEW t \in Ticket, calls[r] \in Call, Mint(r, t) PROVE TicketStep
    <2>1. calls[r].caller \in Caller
        BY <1>2 DEF Call
    <2> QED
        BY <1>0, <1>1, <1>2, <2>1 DEF Mint, TicketStep, Minted
<1>3. ASSUME NEW r \in Request, Redeem(r) PROVE TicketStep
    BY <1>0, <1>1, <1>3 DEF Redeem, TicketStep, Spent
<1>4. ASSUME NEW r \in Request, calls[r] # Idle, Handle(r) PROVE TicketStep
    <2>1. CASE Redeem(r) \/ \E t \in Ticket : Mint(r, t)
        BY <1>2, <1>3, <1>4, <2>1, BusyIsCall
    <2>2. CASE \/ Bootstrap(r) \/ Register(r) \/ Login(r) \/ Redeemed(r)
               \/ CreateUser(r) \/ SetAllowRegistration(r) \/ Done(r)
        BY <1>1, <2>2 DEF Bootstrap, Register, Login, Redeemed, CreateUser,
            SetAllowRegistration, Done, Quiet, access
    <2>3. CASE \/ PatchStart(r) \/ SetRole(r) \/ SetDisabled(r) \/ SetPassword(r)
               \/ SetProxyPassword(r) \/ Sync(r) \/ Push(r) \/ Reissue(r)
               \/ DeleteUser(r) \/ SetKey(r)
        BY <1>1, <2>3 DEF PatchStart, SetRole, SetDisabled, SetPassword, SetProxyPassword,
            Sync, Push, Reissue, DeleteUser, SetKey, Quiet, access
    <2> QED
        BY <1>4, <2>1, <2>2, <2>3 DEF Handle
<1>5. CASE Expire
    BY <1>0, <1>5 DEF Expire, TicketStep, Gone
<1>6. CASE Restart
    BY <1>0, <1>6 DEF Restart, TicketStep, Gone
<1>7. CASE \/ \E r \in Request, ask \in Traffics[traffic],
                 who \in Account \cup {Unclaimed, Nobody} : Arrive(r, ask, who)
           \/ \E ask \in Traffics[traffic] : Busy(ask)
           \/ (\E c \in Address : Window(c)) \/ UNCHANGED vars
           \/ \E a \in Account, role \in Role : Edit(a, role)
    BY <1>1, <1>7 DEF Arrive, Busy, Window, Edit, vars, access
<1> QED
    BY <1>4, <1>5, <1>6, <1>7 DEF Next
-----------------------------------------------------------------------------
(* The invariant.                                                           *)

\* The requests that hold a verification slot.
Owners == {r \in Request : calls[r] # Idle /\ Costly(calls[r].ask)}

\* There are finitely many of them.
LEMMA OwnersAreFinite == IsFiniteSet(Owners)
BY AccountsAssumption, FS_Subset DEF Owners

\* A step of the threads keeps requests well-formed.
LEMMA CallsStay ==
    ASSUME Calls, Threads, UNCHANGED traffic, TicketStep
    PROVE  Calls'
<1>1. calls' \in [Request -> {Idle} \cup Call]
    BY DEF Calls, Threads, Arrives, Goes, Finish
<1> QED
    BY <1>1 DEF Calls, TicketStep

\* A request reaches "signup" from a claimed gateway, and the gateway stays claimed.
LEMMA SignupsStay ==
    ASSUME Calls, SignupClaimed, Threads, ~Empty(data) => ~Empty(data')
    PROVE  SignupClaimed'
<1>1. ASSUME NEW r \in Request, calls'[r] = calls[r] PROVE At(r, "signup")' => ~Empty(data)
    BY <1>1 DEF SignupClaimed, At
<1>2. ASSUME NEW r \in Request, NEW ask \in Ask, Arrives(r, ask), NEW q \in Request
      PROVE  At(q, "signup")' => ~Empty(data)
    <2>1. ask.op # "signup"
        BY DEF Ask, Op
    <2> QED
        BY <1>1, <1>2, <2>1 DEF Arrives, Calls, At
<1>3. ASSUME NEW r \in Request, Goes(r) \/ Finish(r), NEW q \in Request
      PROVE  At(q, "signup")' => ~Empty(data)
    BY <1>1, <1>3 DEF Goes, Finish, Calls, At, Idle
<1>4. ASSUME NEW q \in Request PROVE At(q, "signup")' => ~Empty(data)
    <2>1. CASE calls' = [r \in Request |-> Idle]
        BY <2>1 DEF At, Idle
    <2>2. CASE calls' = calls
        BY <1>1, <2>2
    <2> QED
        BY <1>2, <1>3, <2>1, <2>2 DEF Threads
<1> QED
    BY <1>4 DEF SignupClaimed

\* A ticket is bought with once, and only while it is not there.
LEMMA TicketsStay ==
    ASSUME Calls, TicketInv, TicketStep
    PROVE  TicketInv'
<1>1. CASE Gone
    BY <1>1 DEF Gone, TicketInv
<1>2. ASSUME NEW t \in Ticket, Minted(t) PROVE TicketInv'
    BY <1>2 DEF Minted, TicketInv, Calls
<1>3. ASSUME NEW t \in Ticket, Spent(t) PROVE TicketInv'
    <2>1. bought[t] = 0
        BY <1>3 DEF Spent, TicketInv
    <2>2. bought' \in [Ticket -> Nat] /\ bought'[t] = 1
        BY <1>3, <2>1 DEF Spent, TicketInv
    <2>3. \A u \in Ticket \ {t} : bought'[u] = bought[u] /\ tickets'[u] = tickets[u]
        BY <1>3 DEF Spent, TicketInv, Calls
    <2>4. tickets'[t] = None
        BY <1>3 DEF Spent, Calls
    <2> QED
        BY <2>2, <2>3, <2>4 DEF TicketInv
<1> QED
    BY <1>1, <1>2, <1>3 DEF TicketStep

\* The slots are counted with the requests that arrive, go on and return.
LEMMA SlotsStay ==
    ASSUME Calls, SlotsAreReturned, Threads
    PROVE  SlotsAreReturned'
<1>0. slots = Cardinality(Owners) /\ IsFiniteSet(Owners)
    BY OwnersAreFinite DEF SlotsAreReturned, Owners
<1>1. SUFFICES slots' = Cardinality(Owners')
    BY DEF SlotsAreReturned, Owners
<1>2. ASSUME NEW r \in Request, NEW ask \in Ask, Arrives(r, ask)
      PROVE  slots' = Cardinality(Owners')
    <2>1. calls'[r] # Idle /\ calls'[r].ask = ask /\ r \notin Owners
        BY <1>2, IdleIsNoCall DEF Arrives, Owners
    <2>2. \A q \in Request \ {r} : calls'[q] = calls[q]
        BY <1>2 DEF Arrives, Calls
    <2>3. Owners' = IF Costly(ask) THEN Owners \cup {r} ELSE Owners
        BY <2>1, <2>2 DEF Owners, Costly
    <2> QED
        BY <1>0, <1>2, <2>1, <2>3, FS_AddElement DEF Arrives
<1>3. ASSUME NEW r \in Request, calls[r] \in Call, Goes(r)
      PROVE  slots' = Cardinality(Owners')
    <2>1. calls[r] # Idle /\ calls'[r] # Idle /\ calls'[r].ask = calls[r].ask
        BY <1>3, IdleIsNoCall DEF Goes
    <2>2. \A q \in Request \ {r} : calls'[q] = calls[q]
        BY <1>3 DEF Goes, Calls
    <2>3. Owners' = Owners
        BY <2>1, <2>2 DEF Owners, Costly
    <2> QED
        BY <1>0, <1>3, <2>3 DEF Goes
<1>4. ASSUME NEW r \in Request, calls[r] \in Call, Finish(r)
      PROVE  slots' = Cardinality(Owners')
    <2>1. calls[r] # Idle /\ calls'[r] = Idle /\ \A q \in Request \ {r} : calls'[q] = calls[q]
        BY <1>4, IdleIsNoCall DEF Finish, Calls
    <2>2. Owners' = Owners \ {r} /\ (r \in Owners <=> Costly(calls[r].ask))
        BY <2>1 DEF Owners, Costly
    <2> QED
        BY <1>0, <1>4, <2>2, FS_RemoveElement, FS_CardinalityType DEF Finish
<1>5. CASE UNCHANGED <<calls, slots>>
    BY <1>0, <1>5 DEF Owners
<1>6. CASE calls' = [r \in Request |-> Idle] /\ slots' = 0
    <2>1. Owners' = {}
        BY <1>6 DEF Owners
    <2> QED
        BY <1>6, <2>1, FS_EmptySet
<1> QED
    BY <1>2, <1>3, <1>4, <1>5, <1>6 DEF Threads

Invariant == Ready /\ SlotsAreReturned

\* It holds of an installation that has just started.
LEMMA StartsReady == Init => Invariant
<1> SUFFICES ASSUME Init PROVE Invariant
    OBVIOUS
<1>1. Registry
    BY DEF Init, Registry, Doc, Governed, Empty, Names
<1>2. Calls
    BY DEF Init, Calls
<1>3. SignupClaimed /\ TicketInv
    BY DEF Init, SignupClaimed, At, Idle, TicketInv
<1>4. SlotsAreReturned
    <2>1. {r \in Request : calls[r] # Idle /\ Costly(calls[r].ask)} = {}
        BY DEF Init
    <2> QED
        BY <2>1, FS_EmptySet DEF SlotsAreReturned, Init
<1> QED
    BY <1>1, <1>2, <1>3, <1>4 DEF Invariant, Ready

\* The group of requests of a behaviour stays.
LEMMA TrafficStays == ASSUME [Next]_vars PROVE traffic' = traffic
<1>1. ASSUME NEW r \in Request, Handle(r) PROVE traffic' = traffic
    <2>1. CASE \/ Bootstrap(r) \/ Register(r) \/ Login(r) \/ Redeem(r) \/ Redeemed(r)
               \/ \E t \in Ticket : Mint(r, t)
        BY <2>1 DEF Bootstrap, Register, Login, Redeem, Redeemed, Mint, Quiet
    <2>2. CASE CreateUser(r) \/ SetAllowRegistration(r) \/ Done(r)
        BY <2>2 DEF CreateUser, SetAllowRegistration, Done, Quiet
    <2>3. CASE \/ PatchStart(r) \/ SetRole(r) \/ SetDisabled(r) \/ SetPassword(r)
               \/ SetProxyPassword(r) \/ Sync(r) \/ Push(r) \/ Reissue(r)
               \/ DeleteUser(r) \/ SetKey(r)
        BY <2>3 DEF PatchStart, SetRole, SetDisabled, SetPassword, SetProxyPassword,
            Sync, Push, Reissue, DeleteUser, SetKey, Quiet
    <2> QED
        BY <1>1, <2>1, <2>2, <2>3 DEF Handle
<1> QED
    BY <1>1 DEF Next, Arrive, Busy, Expire, Window, Edit, Restart, vars

\* And every step keeps it.
LEMMA StepsKeepInvariant == Invariant /\ [Next]_vars => Invariant'
<1> SUFFICES ASSUME Invariant, [Next]_vars PROVE Invariant'
    OBVIOUS
<1>1. Ready /\ Careful /\ Threads /\ TicketStep
    BY StepsAreCareful, StepsOfThreads, StepsOfTickets DEF Invariant
<1>2. Registry' /\ (~Empty(data) => ~Empty(data'))
    BY <1>1 DEF Careful
<1>3. Calls'
    BY <1>1, CallsStay, TrafficStays DEF Ready
<1>4. SignupClaimed'
    BY <1>1, <1>2, SignupsStay DEF Ready
<1>5. TicketInv'
    BY <1>1, TicketsStay DEF Ready
<1>6. SlotsAreReturned'
    BY <1>1, SlotsStay DEF Invariant, Ready
<1> QED
    BY <1>2, <1>3, <1>4, <1>5, <1>6 DEF Invariant, Ready

\* So it holds for good.
THEOREM AlwaysReady == Spec => []Invariant
BY StartsReady, StepsKeepInvariant, PTL DEF Spec
-----------------------------------------------------------------------------
\* A claimed gateway keeps an administrator account in memory and in the file,
\* for any number of accounts and requests and any number of failing saves,
\* edits and restarts.
THEOREM AdministratorRemains == Spec => []AdminAccountRemains
<1>1. Invariant => AdminAccountRemains
    BY DEF Invariant, Ready, Registry, Governed, AdminAccountRemains
<1> QED
    BY <1>1, AlwaysReady, PTL

\* A ticket buys one session at most.
THEOREM TicketsBuyOnce == Spec => []TicketBuysOnce
<1>1. Invariant => TicketBuysOnce
    BY DEF Invariant, Ready, TicketInv, TicketBuysOnce
<1> QED
    BY <1>1, AlwaysReady, PTL

\* Every verification slot belongs to a request in flight.
THEOREM SlotsHaveOwners == Spec => []SlotsAreReturned
<1>1. Invariant => SlotsAreReturned
    BY DEF Invariant
<1> QED
    BY <1>1, AlwaysReady, PTL

\* The one step from "signup" to "welcome" is Register's Create, which finds the
\* registry claimed.
LEMMA SignupMakesClient ==
    ASSUME Invariant, [Next]_vars, NEW r \in Request,
           At(r, "signup"), calls'[r].step = "welcome"
    PROVE  data'.users[calls[r].ask.target].role = "client"
<1>1. calls[r] \in Call /\ ~Empty(Fresh)
    <2>1. calls[r] # Idle
        BY DEF At, Idle
    <2> QED
        BY <2>1, BusyIsCall, FreshIs DEF Invariant, Ready, SignupClaimed, Registry
<1>2. calls'[r] # calls[r]
    BY DEF At
<1>3. Handle(r)
    <2>1. ASSUME NEW q \in Request, NEW ask, NEW who, Arrive(q, ask, who) PROVE FALSE
        <3>1. q = r
            BY <1>2, <2>1 DEF Arrive, Invariant, Ready, Calls
        <3> QED
            BY <2>1, <3>1 DEF Arrive, At, Idle
    <2>2. CASE Restart
        BY <2>2 DEF Restart, Idle
    <2>3. ASSUME NEW q \in Request, calls[q] # Idle, Handle(q), q # r PROVE FALSE
        <3>1. Goes(q) \/ Finish(q)
            BY <2>3, BusyIsCall, AllHandled DEF Handled, Invariant, Ready
        <3> QED
            BY <1>2, <2>3, <3>1 DEF Goes, Finish, Invariant, Ready, Calls
    <2> QED
        BY <1>2, <2>1, <2>2, <2>3 DEF Next, Busy, Expire, Window, Edit, vars
<1>4. Create(r, calls[r].ask.target, calls[r].ask.password, "client", "welcome")
    <2>1. ~(Bootstrap(r) \/ Login(r) \/ Redeem(r) \/ Redeemed(r) \/ \E t \in Ticket : Mint(r, t))
        BY DEF Bootstrap, Login, Redeem, Redeemed, Mint, At
    <2>2. ~(\/ CreateUser(r) \/ SetAllowRegistration(r) \/ Done(r)
            \/ PatchStart(r) \/ SetRole(r) \/ SetDisabled(r) \/ SetPassword(r)
            \/ SetProxyPassword(r) \/ Sync(r) \/ Push(r) \/ Reissue(r)
            \/ DeleteUser(r) \/ SetKey(r))
        BY DEF CreateUser, SetAllowRegistration, Done, PatchStart, SetRole, SetDisabled,
            SetPassword, SetProxyPassword, Sync, Push, Reissue, DeleteUser, SetKey, At
    <2> QED
        BY <1>3, <2>1, <2>2 DEF Handle, Register, At
<1>5. ~Finish(r)
    BY <1>1 DEF Finish, Invariant, Ready, Calls, Idle
<1>6. data' = Put(Fresh, calls[r].ask.target, NewUser(calls[r].ask.password, "client"))
    BY <1>1, <1>4, <1>5 DEF Create, RefuseAfterRead
<1>7. Fresh \in Doc /\ calls[r].ask.target \in Account
    BY <1>1, FreshGood, CallType DEF Invariant, Ready
<1> QED
    BY <1>6, <1>7 DEF Put, Doc, NewUser

\* Self-registration never makes an administrator.
THEOREM RegistrationIsPlain == Spec => RegistrationMakesClients
<1>1. Invariant /\ [Next]_vars =>
        [\A r \in Request :
            At(r, "signup") /\ calls'[r].step = "welcome"
            => data'.users[calls[r].ask.target].role = "client"]_vars
    BY SignupMakesClient
<1> QED
    BY <1>1, AlwaysReady, PTL DEF Spec, RegistrationMakesClients
=============================================================================
