------------------------------ MODULE Accounts ------------------------------
(***************************************************************************)
(* Who may use the console: the account registry (internal/users), the      *)
(* sessions, tickets and claim code (internal/authn), the access levels,    *)
(* the login throttle and the handlers that create and change accounts      *)
(* (internal/api).                                                         *)
(*                                                                         *)
(* A request is a thread.  The middleware admits it in one step, with the   *)
(* identity its credential has at that moment; every call of the store, one *)
(* critical section of its mutex, is a later step.  users.json can be       *)
(* changed by another program, a save can fail and the daemon can restart.  *)
(***************************************************************************)
EXTENDS Naturals, FiniteSets

CONSTANTS
    Account,   \* account names, which stand for the ids too
    Request,   \* requests in flight
    Password,
    Ticket,
    Address,   \* client addresses
    Local,     \* the loopback address
    Attempts,  \* defaultLoginAttempts
    Verifiers, \* defaultLoginConcurrency
    MaxEpoch,  \* bound on the password changes of one account
    Mishaps,   \* bound on the failing saves and rebuilds, the edits by another
               \* program, the restarts and the expiries of a behaviour together
    Traffics,  \* the groups of requests that meet each other: [name -> requests]
    None

Role == {"admin", "client"}
User == [role : Role, disabled : BOOLEAN, password : Password,
         generated : BOOLEAN, epoch : 0..MaxEpoch, proxy : BOOLEAN, key : BOOLEAN]
Doc == [users : [Account -> User \cup {None}], open : BOOLEAN]

\* What a request asks for; the fields a request does not have are not looked at.
Field == {"role", "disabled", "password", "proxy"}
Op == {"bootstrap", "register", "login", "mint", "redeem", "createUser", "settings",
       "patch", "deleteUser", "createKey", "deleteKey"}
Ask == [op : Op, target : Account, password : Password, role : Role, from : Address,
        knowsCode : BOOLEAN, generated : BOOLEAN, fields : SUBSET Field,
        disabled : BOOLEAN, proxy : BOOLEAN, short : BOOLEAN, current : Password,
        open : BOOLEAN]

ASSUME AccountsAssumption ==
    /\ IsFiniteSet(Request)
    /\ Mishaps \in Nat /\ MaxEpoch \in Nat
    /\ Local \in Address /\ Password # {}
    /\ Attempts \in Nat \ {0} /\ Verifiers \in Nat \ {0}
    /\ None \notin Account \cup User
    /\ \A name \in DOMAIN Traffics : Traffics[name] \subseteq Ask

VARIABLES
    data,     \* Store.data
    file,     \* users.json
    seen,     \* Store.stamp is the stamp of the file
    sessions, \* the signed cookies that have not expired
    tickets,  \* Authn.tickets
    code,     \* Authn.bootstrap is set
    plane,    \* the accounts the running inbound accepts
    bucket,   \* throttle.seen
    slots,    \* verification slots taken
    calls,    \* where each request is
    traffic,  \* the group of requests of this behaviour
    bound,    \* what is left of Mishaps
    bought    \* history: sessions bought with each ticket

store == <<data, file, seen>>
access == <<sessions, tickets, code, bought>>
limits == <<bucket, slots>>
vars == <<store, access, plane, limits, calls, traffic, bound>>

Idle == [step |-> "idle"]
\* The identity of a caller without an account on a gateway nobody has claimed,
\* and of one without a credential.
Unclaimed == "unclaimed"
Nobody == "nobody"
-----------------------------------------------------------------------------
Names(d) == {a \in Account : d.users[a] # None}
Empty(d) == Names(d) = {}
Admins(d) == {a \in Names(d) : d.users[a].role = "admin"}
EnabledAdmins(d) == {a \in Admins(d) : ~d.users[a].disabled}
ProxyCredentials(d) == {a \in Names(d) : d.users[a].proxy /\ ~d.users[a].disabled}

\* reloadIfChangedLocked: what the next reader of the registry sees.
Fresh == IF seen THEN data ELSE file

Read ==
    /\ data' = Fresh
    /\ seen' = TRUE
    /\ UNCHANGED file

\* What Create and SetPassword keep of a password and what a login compares; the
\* hashing in between runs outside the lock.
Verifies(d, a, given) == a \in Names(d) /\ d.users[a].password = given

\* CanRegister, which looks at the copy in memory.
CanRegister == ~Empty(data) /\ data.open

Put(d, a, u) == [d EXCEPT !.users[a] = u]
NewUser(password, role) ==
    [role |-> role, disabled |-> FALSE, password |-> password, generated |-> FALSE,
     epoch |-> 0, proxy |-> FALSE, key |-> FALSE]

Goto(r, step) == calls' = [calls EXCEPT ![r].step = step]

Costly(ask) == ask.op \in {"bootstrap", "login", "register"}

\* The handler returns, and with it the slot it was admitted under.
BugFinish(r) ==
    /\ calls' = [calls EXCEPT ![r] = Idle]
    /\ UNCHANGED limits

Finish(r) ==
    /\ calls' = [calls EXCEPT ![r] = Idle]
    /\ slots' = IF Costly(calls[r].ask) THEN slots - 1 ELSE slots
    /\ UNCHANGED bucket

\* save: the document reaches the file, or the caller gets an error and the
\* change stays in memory.
Save(r, d, step) ==
    \/ /\ data' = d /\ file' = d /\ seen' = TRUE
       /\ Goto(r, step)
       /\ UNCHANGED <<bound, limits>>
    \/ /\ bound > 0
       /\ bound' = bound - 1
       /\ data' = d
       /\ UNCHANGED <<file, seen>>
       /\ Finish(r)

Refuse(r) == Finish(r) /\ UNCHANGED <<store, bound>>
RefuseAfterRead(r) == Read /\ Finish(r) /\ UNCHANGED bound

Init ==
    /\ data = [users |-> [a \in Account |-> None], open |-> FALSE]
    /\ file = data /\ seen = TRUE
    /\ sessions = {}
    /\ tickets = [t \in Ticket |-> None]
    /\ code \in BOOLEAN
    /\ plane = {}
    /\ bucket = [c \in Address |-> 0] /\ slots = 0
    /\ calls = [r \in Request |-> Idle]
    /\ traffic \in DOMAIN Traffics
    /\ bound = Mishaps
    /\ bought = [t \in Ticket |-> 0]
-----------------------------------------------------------------------------
\* authenticate: an API key, a session of the account's current epoch, or the
\* loopback caller of a gateway without accounts.
Accepts(d, s) ==
    /\ d.users[s.who] # None
    /\ ~d.users[s.who].disabled
    /\ s.epoch = d.users[s.who].epoch

ByKey(d, who) == who \in Names(d) /\ d.users[who].key /\ ~d.users[who].disabled
BySession(d, who) == \E s \in sessions : s.who = who /\ Accepts(d, s)
Identified(d, who, from) ==
    \/ who \in Account /\ (ByKey(d, who) \/ BySession(d, who))
    \/ who = Unclaimed /\ Empty(d) /\ from = Local
    \/ who = Nobody

\* routeLevels, with the one exception isSelfService makes.
Level(op) ==
    CASE op \in {"bootstrap", "login", "register", "redeem"} -> "public"
      [] op = "mint" -> "user"
      [] OTHER -> "admin"
IsAdmin(d, who) == who = Unclaimed \/ (who \in Names(d) /\ d.users[who].role = "admin")
SelfService(ask, who) == ask.op \in {"patch", "createKey", "deleteKey"} /\ ask.target = who
Allowed(d, ask, who) ==
    \/ Level(ask.op) = "public"
    \/ Level(ask.op) = "user" /\ who # Nobody
    \/ Level(ask.op) = "admin" /\ (IsAdmin(d, who) \/ SelfService(ask, who))

\* withAuth.  A call with a key records its last use, which saves.
Arrive(r, ask, who) ==
    /\ calls[r] = Idle
    /\ Identified(Fresh, who, ask.from)
    /\ Allowed(Fresh, ask, who)
    /\ data' = Fresh /\ seen' = TRUE
    /\ file' = IF who \in Account /\ ByKey(Fresh, who) THEN Fresh ELSE file
    /\ \/ /\ Costly(ask)
          /\ bucket[ask.from] < Attempts /\ slots < Verifiers
          /\ bucket' = [bucket EXCEPT ![ask.from] = @ + 1]
          /\ slots' = slots + 1
       \/ ~Costly(ask) /\ UNCHANGED limits
    /\ calls' = [calls EXCEPT ![r] =
                    [step |-> ask.op, ask |-> ask, caller |-> who, user |-> None]]
    /\ UNCHANGED <<access, plane, traffic, bound>>

\* withAuth when every verifier is busy: the attempt counts all the same.
Busy(ask) ==
    /\ Costly(ask)
    /\ bucket[ask.from] < Attempts
    /\ slots = Verifiers
    /\ bucket' = [bucket EXCEPT ![ask.from] = @ + 1]
    /\ Read
    /\ UNCHANGED <<access, plane, slots, calls, traffic, bound>>

-----------------------------------------------------------------------------
BugCreate(r, a, password, role, step) ==
    LET first == Cardinality(Names(Fresh)) <= 1 IN
    \/ a \in Names(Fresh) /\ RefuseAfterRead(r)
    \/ /\ a \notin Names(Fresh)
       /\ data' = Put(Fresh, a, NewUser(password, IF first THEN "admin" ELSE role))
       /\ file' = data' /\ seen' = TRUE
       /\ Goto(r, step)
       /\ UNCHANGED <<bound, limits>>

\* Create: refused for a name that is taken; the first account is an admin
\* whatever was asked.  A save that fails takes the account out again.
Create(r, a, password, role, step) ==
    LET first == Empty(Fresh)
        d == Put(Fresh, a, NewUser(password, IF first THEN "admin" ELSE role)) IN
    \/ a \in Names(Fresh) /\ RefuseAfterRead(r)
    \/ /\ a \notin Names(Fresh)
       /\ data' = d /\ file' = d /\ seen' = TRUE
       /\ Goto(r, step)
       /\ UNCHANGED <<bound, limits>>
    \/ /\ a \notin Names(Fresh)
       /\ bound > 0
       /\ bound' = bound - 1
       /\ Read
       /\ Finish(r)

\* mutate: the changes that reload first.
Mutate(r, a, u, step) ==
    \/ a \notin Names(Fresh) /\ RefuseAfterRead(r)
    \/ a \in Names(Fresh) /\ Save(r, Put(Fresh, a, u), step)

Issue(who, epoch) ==
    sessions' = sessions \cup {[who |-> who, epoch |-> epoch]}

At(r, step) == calls[r].step = step
Quiet == UNCHANGED <<access, plane, traffic>>

\* A stranger claims the gateway with the code of its log; the owner's machine
\* needs none.  The first claim clears the code.
MayClaim(ask) == ask.from = Local \/ (code /\ ask.knowsCode)

\* handleBootstrap.
Bootstrap(r) ==
    LET ask == calls[r].ask IN
    \/ /\ At(r, "bootstrap")
       /\ Quiet
       /\ \/ /\ Empty(Fresh)
             /\ MayClaim(ask)
             /\ Read
             /\ Goto(r, "first")
             /\ UNCHANGED <<bound, limits>>
          \/ /\ ~(Empty(Fresh) /\ MayClaim(ask))
             /\ RefuseAfterRead(r)
    \/ /\ At(r, "first")
       /\ Quiet
       /\ Create(r, ask.target, ask.password, "admin",
                 IF ask.generated THEN "mark" ELSE "claimed")
    \/ /\ At(r, "mark")
       /\ Quiet
       /\ LET a == ask.target IN
          IF a \in Names(Fresh)
          THEN /\ data' = Put(Fresh, a, [Fresh.users[a] EXCEPT !.generated = TRUE])
               /\ file' = data' /\ seen' = TRUE
          ELSE Read
       /\ Goto(r, "claimed")
       /\ UNCHANGED <<bound, limits>>
    \/ /\ At(r, "claimed")
       /\ code' = FALSE
       /\ Issue(ask.target, 0)
       /\ Refuse(r)
       /\ UNCHANGED <<tickets, bought, plane, traffic>>

\* handleRegister and Register, which looks at its copy without a reload.
Register(r) ==
    LET ask == calls[r].ask IN
    \/ /\ At(r, "register")
       /\ Quiet
       /\ \/ /\ CanRegister
             /\ Goto(r, "signup")
             /\ UNCHANGED <<store, bound, limits>>
          \/ ~CanRegister /\ Refuse(r)
    \/ /\ At(r, "signup")
       /\ Quiet
       /\ Create(r, ask.target, ask.password, "client", "welcome")
    \/ /\ At(r, "welcome")
       /\ Issue(ask.target, 0)
       /\ Refuse(r)
       /\ UNCHANGED <<tickets, code, bought, plane, traffic>>

\* Authenticate keeps a pointer into the list across its unlock: afterwards it
\* shows the account as it was, as it is, or, when a deletion has moved the
\* list, a neighbour.
Pointed(r) ==
    LET a == calls[r].ask.target IN
    {[who |-> a, user |-> calls[r].user]}
        \cup (IF a \in Names(data) THEN {[who |-> a, user |-> data.users[a]]}
              ELSE {[who |-> b, user |-> data.users[b]] : b \in Names(data)})

\* handleLogin and the two critical sections of Authenticate.
Login(r) ==
    LET a == calls[r].ask.target
        given == calls[r].ask.password IN
    \/ /\ At(r, "login")
       /\ Quiet
       /\ \/ /\ Verifies(Fresh, a, given)
             /\ Read
             /\ calls' = [calls EXCEPT ![r].step = "verified", ![r].user = Fresh.users[a]]
             /\ UNCHANGED <<bound, limits>>
          \/ ~Verifies(Fresh, a, given) /\ RefuseAfterRead(r)
    \/ /\ At(r, "verified")
       /\ UNCHANGED <<tickets, code, bought, plane, traffic, bound>>
       /\ Finish(r)
       /\ \E p \in Pointed(r) :
          \/ p.user.disabled /\ UNCHANGED <<store, sessions>>
          \/ /\ ~p.user.disabled
             /\ a \in Names(data)
             /\ file' = data /\ seen' = TRUE
             /\ Issue(a, data.users[a].epoch)
             /\ UNCHANGED data
          \/ /\ ~p.user.disabled
             /\ a \notin Names(data)   \* answers with whatever it points to
             /\ Issue(p.who, p.user.epoch)
             /\ UNCHANGED store

\* handleMintTicket.
Mint(r, t) ==
    /\ At(r, "mint")
    /\ \/ /\ tickets[t] = None /\ bought[t] = 0
          /\ tickets' = [tickets EXCEPT ![t] = calls[r].caller]
       \/ /\ \A u \in Ticket : tickets[u] # None \/ bought[u] > 0   \* the bound on tickets
          /\ UNCHANGED tickets
    /\ Refuse(r)
    /\ UNCHANGED <<sessions, code, bought, plane, traffic>>

\* handleRedeemTicket: the ticket is consumed under the lock, the account read
\* and the session issued after it.
BugRedeem(r) ==
    /\ At(r, "redeem")
    /\ \/ \E t \in Ticket :
            /\ tickets[t] # None
            /\ bought' = [bought EXCEPT ![t] = @ + 1]
            /\ calls' = [calls EXCEPT ![r].step = "redeemed", ![r].caller = tickets[t]]
            /\ UNCHANGED <<store, bound, limits>>
       \/ Refuse(r) /\ UNCHANGED bought
    /\ UNCHANGED <<sessions, tickets, code, plane, traffic>>

Redeem(r) ==
    /\ At(r, "redeem")
    /\ \/ \E t \in Ticket :
            /\ tickets[t] # None
            /\ tickets' = [tickets EXCEPT ![t] = None]
            /\ bought' = [bought EXCEPT ![t] = @ + 1]
            /\ calls' = [calls EXCEPT ![r].step = "redeemed", ![r].caller = tickets[t]]
            /\ UNCHANGED <<store, bound, limits>>
       \/ Refuse(r) /\ UNCHANGED <<tickets, bought>>
    /\ UNCHANGED <<sessions, code, plane, traffic>>

Redeemed(r) ==
    LET a == calls[r].caller
        lives == a \in Names(Fresh) /\ ~Fresh.users[a].disabled IN
    /\ At(r, "redeemed")
    /\ RefuseAfterRead(r)
    /\ IF lives THEN Issue(a, Fresh.users[a].epoch) ELSE UNCHANGED sessions
    /\ UNCHANGED <<tickets, code, bought, plane, traffic>>
-----------------------------------------------------------------------------
\* handleCreateUser.
CreateUser(r) ==
    /\ At(r, "createUser")
    /\ Create(r, calls[r].ask.target, calls[r].ask.password, calls[r].ask.role, "done")
    /\ Quiet

Done(r) ==
    /\ At(r, "done")
    /\ Refuse(r)
    /\ Quiet

\* handleSetAuthSettings and SetAllowRegistration, which writes its copy.
SetAllowRegistration(r) ==
    /\ At(r, "settings")
    /\ Save(r, [data EXCEPT !.open = calls[r].ask.open], "done")
    /\ Quiet

\* handlePatchUser applies the fields it was sent in this order, pushes the
\* credentials when they may have changed, and answers.
Rank == [patch |-> 0, role |-> 1, disabled |-> 2, password |-> 3, proxy |-> 4,
         sync |-> 5, reissue |-> 6]
Parts(ask) ==
    ask.fields \cup (IF ask.fields \cap {"disabled", "proxy"} # {} THEN {"sync"} ELSE {})
        \cup {"reissue"}
After(ask, part) ==
    CHOOSE p \in Parts(ask) :
        /\ Rank[p] > Rank[part]
        /\ \A q \in Parts(ask) : Rank[q] > Rank[part] => Rank[q] >= Rank[p]

\* The handler asks once more who is calling: an identity revoked meanwhile
\* makes the caller nobody, to whom none of the checks apply.
PatchStart(r) ==
    LET ask == calls[r].ask
        who == calls[r].caller
        still == Identified(Fresh, who, ask.from) /\ who # Nobody
        own == still /\ who = ask.target /\ "password" \in ask.fields
                 /\ ~Fresh.users[who].generated
        refused == \/ still /\ ~IsAdmin(Fresh, who)
                        /\ ask.fields \cap {"role", "disabled", "proxy"} # {}
                   \/ own /\ ~Verifies(Fresh, who, ask.current) IN
    /\ At(r, "patch")
    /\ Quiet
    /\ \/ refused /\ RefuseAfterRead(r)
       \/ /\ ~refused
          /\ data' = Fresh /\ seen' = TRUE
          /\ file' = IF own THEN Fresh ELSE file   \* Authenticate records the login
          /\ calls' = [calls EXCEPT ![r].step = After(ask, "patch"),
                                    ![r].caller = IF still THEN who ELSE Nobody]
          /\ UNCHANGED <<bound, limits>>

\* SetRole and SetDisabled look at the copy in memory without a reload.
BugSetRole(r) ==
    LET ask == calls[r].ask
        a == ask.target
        last == a \in Admins(data) /\ ask.role # "admin" /\ Cardinality(Names(data)) = 1 IN
    /\ At(r, "role")
    /\ Quiet
    /\ \/ (a \notin Names(data) \/ last) /\ Refuse(r)
       \/ /\ a \in Names(data) /\ ~last
          /\ Save(r, Put(data, a, [data.users[a] EXCEPT !.role = ask.role]), After(ask, "role"))

SetRole(r) ==
    LET ask == calls[r].ask
        a == ask.target
        last == /\ a \in Admins(data) /\ ask.role # "admin"
                /\ Cardinality(Admins(data)) = 1 IN
    /\ At(r, "role")
    /\ Quiet
    /\ \/ (a \notin Names(data) \/ last) /\ Refuse(r)
       \/ /\ a \in Names(data) /\ ~last
          /\ Save(r, Put(data, a, [data.users[a] EXCEPT !.role = ask.role]), After(ask, "role"))

SetDisabled(r) ==
    LET ask == calls[r].ask
        a == ask.target
        last == /\ ask.disabled /\ a \in Admins(data)
                /\ Cardinality(EnabledAdmins(data)) = 1 IN
    /\ At(r, "disabled")
    /\ Quiet
    /\ \/ (a \notin Names(data) \/ last) /\ Refuse(r)
       \/ /\ a \in Names(data) /\ ~last
          /\ Save(r, Put(data, a, [data.users[a] EXCEPT !.disabled = ask.disabled]),
                  After(ask, "disabled"))

\* SetPassword: a new epoch ends the sessions; a password that is too short is
\* refused after the fields before it are in force.
SetPassword(r) ==
    LET ask == calls[r].ask
        a == ask.target
        spent == a \in Names(Fresh) /\ Fresh.users[a].epoch = MaxEpoch IN
    /\ At(r, "password")
    /\ Quiet
    /\ \/ (ask.short \/ spent) /\ Refuse(r)
       \/ /\ ~ask.short /\ ~spent
          /\ Mutate(r, a, [Fresh.users[a] EXCEPT !.password = ask.password,
                              !.epoch = @ + 1, !.generated = FALSE], After(ask, "password"))

SetProxyPassword(r) ==
    LET ask == calls[r].ask
        a == ask.target IN
    /\ At(r, "proxy")
    /\ Mutate(r, a, [Fresh.users[a] EXCEPT !.proxy = ask.proxy], After(ask, "proxy"))
    /\ Quiet

\* syncInboundCredentials: the list is read first and applied by a rebuild
\* later, which may refuse it.
Sync(r) ==
    /\ At(r, "sync")
    /\ Read
    /\ calls' = [calls EXCEPT ![r].step = "push", ![r].user = ProxyCredentials(Fresh)]
    /\ UNCHANGED <<bound, limits, access, plane, traffic>>

Push(r) ==
    /\ At(r, "push")
    /\ \/ /\ plane' = calls[r].user
          /\ Goto(r, IF calls[r].ask.op = "patch" THEN "reissue" ELSE "done")
          /\ UNCHANGED <<bound, limits>>
       \/ /\ bound > 0
          /\ bound' = bound - 1
          /\ Finish(r)
          /\ UNCHANGED plane
    /\ UNCHANGED <<store, access, traffic>>

\* The caller that changed its own password gets a session of the new epoch.
Reissue(r) ==
    LET ask == calls[r].ask
        a == ask.target IN
    /\ At(r, "reissue")
    /\ RefuseAfterRead(r)
    /\ IF "password" \in ask.fields /\ calls[r].caller = a /\ a \in Names(Fresh)
       THEN Issue(a, Fresh.users[a].epoch)
       ELSE UNCHANGED sessions
    /\ UNCHANGED <<tickets, code, bought, plane, traffic>>

\* handleDeleteUser and Delete, which looks at the copy in memory.
DeleteUser(r) ==
    LET a == calls[r].ask.target
        last == a \in Admins(data) /\ Cardinality(Admins(data)) = 1 IN
    /\ At(r, "deleteUser")
    /\ Quiet
    /\ \/ (a \notin Names(data) \/ last) /\ Refuse(r)
       \/ a \in Names(data) /\ ~last /\ Save(r, Put(data, a, None), "sync")

\* handleCreateAPIKey and handleDeleteAPIKey, one key to an account.
SetKey(r) ==
    LET a == calls[r].ask.target
        new == At(r, "createKey") IN
    /\ At(r, "createKey") \/ At(r, "deleteKey")
    /\ Quiet
    /\ IF ~new /\ a \in Names(Fresh) /\ ~Fresh.users[a].key
       THEN RefuseAfterRead(r)
       ELSE Mutate(r, a, [Fresh.users[a] EXCEPT !.key = new], "done")
-----------------------------------------------------------------------------
\* A session or a ticket expires.
Expire ==
    /\ bound > 0
    /\ bound' = bound - 1
    /\ \/ /\ \E s \in sessions : sessions' = sessions \ {s}
          /\ UNCHANGED tickets
       \/ /\ \E t \in Ticket : tickets[t] # None /\ tickets' = [tickets EXCEPT ![t] = None]
          /\ UNCHANGED sessions
    /\ UNCHANGED <<store, code, bought, plane, limits, calls, traffic>>

\* allow: an address's window has passed, so that its next attempt counts anew.
Window(c) ==
    /\ bucket[c] > 0
    /\ bucket' = [bucket EXCEPT ![c] = 0]
    /\ UNCHANGED <<store, access, plane, slots, calls, traffic, bound>>

\* Another program writes users.json: it adds an account to what it read.
Edit(a, role) ==
    /\ bound > 0
    /\ file.users[a] = None
    /\ file' = Put(file, a, NewUser(CHOOSE p \in Password : TRUE,
                                    IF Empty(file) THEN "admin" ELSE role))
    /\ seen' = FALSE
    /\ bound' = bound - 1
    /\ UNCHANGED <<data, access, plane, limits, calls, traffic>>

\* The daemon restarts: accounts, the signing key and the claim code are files;
\* announceBootstrap reads the code again only while nobody has claimed the
\* gateway.
Restart ==
    /\ bound > 0
    /\ bound' = bound - 1
    /\ data' = file /\ seen' = TRUE
    /\ tickets' = [t \in Ticket |-> None]
    /\ code' = (code /\ Empty(file))
    /\ plane' = ProxyCredentials(file)
    /\ bucket' = [c \in Address |-> 0] /\ slots' = 0
    /\ calls' = [r \in Request |-> Idle]
    /\ UNCHANGED <<file, sessions, bought, traffic>>

Handle(r) ==
    \/ Bootstrap(r) \/ Register(r) \/ Login(r) \/ Redeem(r) \/ Redeemed(r)
    \/ \E t \in Ticket : Mint(r, t)
    \/ CreateUser(r) \/ SetAllowRegistration(r) \/ Done(r)
    \/ PatchStart(r) \/ SetRole(r) \/ SetDisabled(r) \/ SetPassword(r)
    \/ SetProxyPassword(r) \/ Sync(r) \/ Push(r) \/ Reissue(r)
    \/ DeleteUser(r) \/ SetKey(r)

Next ==
    \/ \E r \in Request, ask \in Traffics[traffic], who \in Account \cup {Unclaimed, Nobody} :
            Arrive(r, ask, who)
    \/ \E ask \in Traffics[traffic] : Busy(ask)
    \/ \E r \in Request : calls[r] # Idle /\ Handle(r)
    \/ Expire
    \/ \E c \in Address : Window(c)
    \/ \E a \in Account, role \in Role : Edit(a, role)
    \/ Restart

Spec == Init /\ [][Next]_vars
-----------------------------------------------------------------------------
\* Once the gateway is claimed it has an administrator account, in memory and
\* in the file, whatever demotions and deletions run at the same time, whatever
\* another program adds and whichever saves fail (users/store.go SetRole,
\* Delete: "refusing to ... the last admin").
AdminAccountRemains ==
    \A d \in {data, file} : ~Empty(d) => Admins(d) # {}

\* Self-registration never makes an administrator, although Create promotes the
\* account that finds the registry empty and Register looked earlier, without a
\* lock in between (users/store.go Register: "it creates a plain user, never an
\* admin").
RegistrationMakesClients ==
    [][\A r \in Request :
            At(r, "signup") /\ calls'[r].step = "welcome"
            => data'.users[calls[r].ask.target].role = "client"]_vars

\* A ticket buys one session at most, with requests redeeming it at the same
\* time, its expiry and restarts in between (authn.go RedeemTicket).
TicketBuysOnce == \A t \in Ticket : bought[t] <= 1

\* Every verification slot belongs to a request in flight: no error path of the
\* handlers keeps one, or two failed logins would lock everybody out
\* (api/throttle.go acquire, api/auth.go withAuth).
SlotsAreReturned ==
    slots = Cardinality({r \in Request : calls[r] # Idle /\ Costly(calls[r].ask)})

\* A claimed gateway has an administrator that can log in: an error text says
\* "refusing to demote the last admin: nobody could administer the gateway"
\* (users/store.go SetRole, SetDisabled).
SomebodyCanAdminister == ~Empty(data) => EnabledAdmins(data) # {}
=============================================================================
