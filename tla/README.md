# trust-proxy in TLA+

trust-proxy is an egress gateway: a Go daemon that embeds sing-box ("the box"),
assembles the box's configuration from a dozen JSON stores, and lets an
operator change them through an HTTP API, a command line and a web console
while traffic flows.  This directory models the parts of it whose correctness
depends on order, failure and time, checks the models with TLC on small
instances, and proves the most important properties with TLAPS for every
instance.

## The system

    CLI, console ──HTTP──> internal/api handlers ──> stores (internal/*, JSON files)
                                   │                    ▲
                                   ▼                    │ boot loads them
     auto-ban (internal/detect) ─> Manager (internal/gateway) ──> box (sing-box)
          ▲                        ▲                    │ dials, bytes, probes
          │ connections      guard timers               ▼
          └──────────────────────────────── scores (internal/proxyscore), stall watchdog

| Component | State it keeps | Operations | What makes it correct |
|---|---|---|---|
| Manager (`gateway.go`) | policy fields under `mu`; the running box, the last good configuration; `rebuildMu` | `Set*`, `Apply`, `ApplyProfile`, `rebuild`, `restoreLastGood` | a change is applied or undone; the gateway keeps forwarding; one box at a time |
| Policy handlers (`internal/api`) and list stores | a list in memory and in a file | add, remove, ban, release, roll back | store, file, Manager and box agree; what is rejected can be released |
| Capture mode | `mode`, `revertTimer`, `revertTo`, `mode.json` | switch, guarded switch, confirm, revert | an unconfirmed switch is undone, a confirmed one is not, a crash boots into a known mode |
| Inbound listen point | `bind`, `inbound.json`, a guard of its own | set, guarded set, confirm, revert hook | file, Manager and listener agree |
| Stall watchdog (`streamstall.go`) | the watch set, one goroutine | add, sweep, kill | watched by exactly one goroutine; nobody demoted for a connection that ended |
| Scores (`proxyscore`) | per node: points, streaks, a circuit breaker; `proxyscores.json` | observe, transfer, probe, stall, flush | bad nodes go last, healed nodes come back, a restart forgets nothing |
| Route layers (`gateway_security.go`, `gateway_allow.go`, `gateway_rulesets.go`, `gateway_mode.go`, `gateway_effective.go`) | none: a function of the policy | `buildMergedConfig` and its injectors, `EffectiveRules` | deny beats permit beats route; what the console shows is what the box does |
| DNS generation (`gateway_dns*.go`) | none | the DNS injectors, `applyInvariants` | every name has a server that can be reached without itself, on the side its connection leaves by |
| Proxy groups | `proxygroups.json` | the group injectors | no automatic choice of a loopback exit, no group without members |
| Custom rules, rule sets, packs, permit requests | a JSON document each | CRUD, apply, switch, delete, file, approve | stores and data plane agree; packs share sets without harm |
| Subscriptions, nodes, endpoints, overrides | node lists, applied flags | refresh, apply, unapply, patch | the running nodes are the applied ones |
| Postures and profiles | two policy slots, named snapshots | switch, activate, save | a switch brings back the policy its posture was left with |
| Users, sessions, keys, tickets, throttle (`users`, `authn`, `api/auth.go`) | `users.json` (also written by the `auth` commands), tokens, slots | register, approve, log in, redeem, revoke | never without an administrator; a ticket buys one session |
| Detection engine (`detect`) | live connections, windows, findings, the Permit index | open, bytes, finalize, ban, report | what is approved is not banned; what is killed is listed; findings neither repeat nor slip |
| History (`history`), events (`serve.go`) | a log that rotates, totals, a ring, `events.json` | append, rotate, snapshot, restart | each connection is counted once |
| Route watcher, service installation, desktop shell, dashboard, generators | observations, the host | install, take over, print | outside the policy |

The behaviours that are hard here: nothing serialises two API calls except
`Manager.mu`, `Manager.rebuildMu` and one mutex per store, none of which is
held across a handler; bans come from connection goroutines; two kinds of
timers call back into the Manager; applying a change closes the running box
before the new one is known to start; stores are saved before the data plane
has agreed; any process may be killed at any point and boots from its files.
`PROJECT.json` lists every such hazard at its line, with the properties that
cover it.

## Modules

| Module | Models | EXTENDS / composes |
|---|---|---|
| `DataPlane` | what the Manager promises about the box: the abstract specification | |
| `Rebuild` | `setAndRebuild`, `ApplyProfile`, `rebuild`, `restoreLastGood` | implements `DataPlane` |
| `PolicyApply` | list handlers, bans, releases, files, crashes | extends `Rebuild`: the Manager's actions are used unchanged |
| `ModeGuard` | the capture mode, its timer and its file | |
| `ListenGuard` | the listen point, its store, its timer and the revert hook | |
| `Guards` | both switches side by side | extends `ModeGuard`, instantiates `ListenGuard` |
| `StallSweep` | the watchdog goroutine and its connections | |
| `ProxyScore` | one node's score, blackhole verdict and breaker | |
| `ScoreFile` | the score file, its three flushers, crash and load | |
| `Health` | the last three side by side | extends `StallSweep`, instantiates `ProxyScore` and `ScoreFile` |
| `RouteLayers` | the generated route rules, first match over them, and the effective-rules view | |
| `Outbounds` | eligible nodes, tags, groups, endpoints | |
| `Resolvers` | the DNS block, resolvers of outbounds, the final checks | extends `RouteLayers`, `Outbounds` |
| `Accounts` | registry, sessions, tickets, claim code, throttle, handlers | |
| `Exits` | subscriptions, other gateways, endpoints, switched-off nodes | |
| `Packs` | custom rules, rule sets, packs, permit requests | |
| `Postures` | posture switches, slots, profiles, boot | extends `Exits`, `Packs` |
| `Disposal` | one connection's life: trust, readiness, ban, kill | |
| `Findings` | the detectors that only report | |
| `Records` | the ring of events, the connection log, totals, pages | |
| `Detection` | the last three side by side | instantiates `Disposal`, `Findings`, `Records` |
| `ManagerProofs`, `GuardsProofs`, `ListenProofs`, `HealthProofs`, `RouteProofs`, `AccountsProofs`, `SettingsProofs`, `DetectionProofs` | theorems | extend the module they are about (`ManagerProofs`: `PolicyApply`; `RouteProofs`: `Resolvers`; `SettingsProofs`: `Postures`) |
| `MC*` | instances for TLC | |

Where several models are small and share nothing, one `MC` module explores
them as *scenes* of one run: the first step chooses the scene, and the
variables of the others stay in one initial state (`MCModeGuard`,
`MCExitHealth`, `MCDetection`; the groups of requests of `MCPostures` and the
traffic of `MCAccounts` are used in the same way).  A behaviour of a scene is
one of the composed specification (`Guards`, `Health`, `Detection`) in which
the other parts rest, and it is the composed specification that the theorems
are about.

### Rebuild
`mem` is the Manager's policy fields, `eligible` the member set refreshed at
the head of every rebuild (used to see which snapshot was used last),
`instance` and `lastGood` the fields of those names, `holder` the owner of
`rebuildMu`.  A caller goes `Set` (the critical section at the head of
`setAndRebuild` or `ApplyProfile`), `Begin` (lock and snapshot), `Build`,
`Swap` (forget and close the old box), `Start`, on failure `Restore`, and on
any failure `Revert` and a second pass with `again` set, whose result is
dropped.  A policy value is opaque; all that matters is whether it builds and
whether it starts.  The base file is read by every rebuild and edited by
others (`EditBase`); the port stands for what the box needs exclusively.
`Boot` is `Manager.Start` in one step, since no request is served before it.

### PolicyApply
A list is a set of entries; each store call changes memory and file in one
step, the file possibly failing (`unsaved`).  `Editors` are the list handlers
of `server.go`; they share one shape, which the map shows at its whitelist,
blacklist and direct-list instances.  `Bans` are `SetOnBan` calls, `Releases`
the quarantine handler with its clear-and-add-again rollback.  `Crash` keeps
the files only and goes back to before `Boot`.

### ModeGuard, ListenGuard, Guards
Callers and timer callbacks are threads over one `mode` or one `bind`.  A
rebuild is one step that either brings the box up with what the Manager holds
or fails, which is what `Rebuild` shows of it.  `Arm` stops the previous timer,
but a callback that has started (`Fire`) still runs `Expire`, as
`time.Timer.Stop` allows.  The mode is recorded after it was applied, and a
guarded one when it is confirmed; the listen point is stored before it is
applied, and only the callback's hook takes it back.  `unconfirmed`, `agreed`
and `upset` are history variables: what awaits confirmation, the point last set
without a guard or confirmed, and whether calls overlapped or a save or a
restoring rebuild failed.

### StallSweep, ProxyScore, ScoreFile
`ripe` and `silent` are the two halves of `shouldKill`: the first only ever
becomes true, the second is reset by every byte.  The sweeper reads them one
connection at a time, between arbitrary steps of the connections.  Points keep
the proportions of the code's defaults on a small scale; counters stop at the
limit they are compared with; `waiting` is the breaker's delay.  failsafe-go's
breaker is external and modelled from the calls and comments of `store.go`.
In `ScoreFile` the ticker, `Reset` and the end of the process flush through one
temporary name: each is a job of copy, create, write and rename, and who is
writing when the file is renamed goes on writing into the renamed one.

### RouteLayers
The state is the policy the Manager holds plus the base config it reads; each
setter is an action, and what a setter does when the rebuild fails is in
`Rebuild`.  `Merged` is `buildMergedConfig`'s rule list: the base rules with
the injectors applied in the order of the calls, each inserting after the
prelude or before the catch-all as the code finds them.  An entry is the set of
names and addresses it covers (`Covers`); suffixes, globs, CIDRs and rule sets
are kept apart because the code writes them to different rules.  A connection
says who dials, by name or by address, and `Verdict` is sing-box's first match,
to which the address of a name is known only below the resolve rule.
`EffectiveRules` is written from `gateway_effective.go` and not from the
injectors.  `Denied`, `Admitted` and `Permits` state what the layers mean from
the policy alone; the properties compare them with `Merged`.

### Outbounds and Resolvers
`Outbounds` follows the nodes from the provider's list to tags, groups and the
selector `proxy`; a node is its name, whether its outbound can be read, whether
it is an advertising line, and its host.  `Resolvers` adds the DNS settings,
endpoints, exits and the capture mode to the state of `RouteLayers`; `Config`
is the whole result, and `Accepted` everything `applyInvariants` and the box
check.  A DNS server is its tag, its type and whether it is dialled through the
proxy group.  `Sound` says what a settings file may hold that an older version
or a person wrote, which `NewStore` takes as it is.

### Accounts
A request is a thread: the middleware admits it in one step (`Arrive`), with
the identity its credential has at that moment, and every critical section of
the store's mutex is a later step of it.  `users.json` can be changed by another
program (`Edit`), a save can fail, a session or ticket can expire, the daemon
can restart.  `traffic` chooses which requests meet.

### Exits, Packs, Postures
A handler of `Exits` changes a store, which saves its file, collects the list
that follows from the stores and pushes it; each is a step of its own.  A
handler of `Packs` is a plan, the sequence of store calls and rebuilds it makes,
with what it does about the first that fails (`Recovery`).  `Postures` adds the
switches and activations, which replace the whole policy in one rebuild and
write the stores one after the other, and meet the handlers of both.  `torn`,
`loose`, `wanted` and `farewell` are history variables: on which axes or stores
something was let slip, which packs are in force, and the policy each posture
was last left with.

### Disposal, Findings, Records
`Disposal` follows one connection through `Track`, its reads and writes, the
mid-stream check, `Close` and `finalize`, while the operator edits lists, rule
sets and settings, passes that build the Permit index finish in any order, and
feeds change.  `Findings` has a clock, the windows and cooldowns of every
reporting detector and the memory bounds that throw records away.  `Records`
numbers connections as they open; a file is its lines, each with the byte it
ends at; the reader of pages shares no lock with the writers.

## Runs

| Run | Instance | Shows |
|---|---|---|
| `rebuild_all` | 2 callers, one field each, 3 values (2 start), 3 base files | `SettledStarts`, `NoLostReload`, `RunningIsLastGood`, `DownOnlyByTheft`, `Returns`, refinement of `DataPlane` |
| `detection` | four scenes: an editor of one list beside a ban and release caller on another, 2 entries (1 poisonous); a connection with three destinations; queries and connections over six moments; three connections in the log | `StoreMatchesManager`, `ServingIsBootable`, `RejectedIsListed`; `KillsAreListed`, `ApprovedIsNotBanned`; `SweepIsSeen`, `QuietBetweenFindings`; `HistoryAddsUp` |
| `guard` | two scenes: 3 modes (1 unavailable), one client, 2 timers; 2 listen points, one client, one timer | `PlaneIsReported`, `UnconfirmedIsTakenBack`, `ConfirmedStays`, `GuardsSettle` |
| `health` | three scenes: 3 connections and 2 goroutine slots; points 0..8 and 8 pieces of bad news; a score file of one node | `WatchedByOne`, `DemotedOnce`, `WatchedUntilItEnds`; `Heals`; `ScoresAreSaved` |
| `routes` | policies that differ from a fresh one in up to 3 parts, 4 base configs, 10 connections | `NothingUnadmittedLeaves`, `DeniedIsRejected`, `AdmittedIsStoppedOnlyOnPurpose`, `NoProxyNameGoesDirect`, `ViewExplainsTheGate` |
| `generation` | up to 3 changed settings of all, 2 of them of the policy | `ConfigIsAccepted`, `AnswersFollowEgress`, `ResolversAreReachable`, `LocalExitsStayManual` |
| `accounts` | 2 accounts, 2 requests at a time, five groups of requests | `AdminAccountRemains`, `RegistrationMakesClients`, `TicketBuysOnce`, `SlotsAreReturned` |
| `settings` | 2 requests at a time in each of eight groups | `ListsAreServed`, `PoliciesAreServed`, `PacksKeepTheirSets`, `SwitchesRestore` |
| `apply_release` | a ban and a release on one list | **violated**: `RejectRulesMatchList` |
| `guard_repeat` | guarded switches of the capture mode only | **violated**: `UnconfirmedNotStored` |
| `events_saved` | the scene of the records | **violated**: `OneIntervalIsLost` |
| `settings_reseed` | the groups of `settings` | **violated**: `SplitReturns` |

### Bounds

Two callers are enough for every pairwise overlap of the two critical sections
and the rebuild, which is where the code can go wrong: a third caller waits for
the same mutex.  Two fields give each caller one of its own and let the other's
revert be seen beside it.  Three values give two good ones (a change and a
change back) and a bad one.  The scene of the lists uses the constraint
`~unsaved`, since nothing is promised after a failed write.

The mode scene of `guard` has two timers because the interesting case is a
callback that has fired next to a guard armed after it; the listen scene has
one timer, which is reused when a guard is armed again, so that this case is
explored in the mode scene only.  The listen scene with two clients (4.3
million states) was explored once, apart from the runs, with the same result.

`health` has three connections so that one can arrive while one ends and one is
being killed, and two goroutine slots so that a second goroutine could exist.
Eight pieces of bad news open the breaker twice and confirm a blackhole in
between.  Nodes share nothing but the score file, so its scene has one node,
three ticks and `StaleAfter` 1; two nodes and four ticks (4.4 million states)
were explored once.  `health`, `detection` and `events_saved` switch the
deadlock check off because every connection ends there.

In `routes` three parts suffice for a list, a source that contradicts it, and
one of posture, Global mode, Final or nodes to change what the contradiction
means (`MaxTouched`); the entries cover a name alone, two names, an address,
the private range, and both a name and an address; the base configs include the
shipped one, one with a hand-written QUIC rule (the look-alike of
`isCatchAllRule`'s comment) and one with neither catch-all nor `route.final`.
`generation` takes the policy in two parts and all settings in three
(`MaxChanged`), with two nodes of one name, one on this machine, one
advertising line and one named like a group, and 19 tags to try for every name
(`NamesAssumption` asks for more than there can be in use).

In `detection` a connection meets one edit (`MaxEdits`), which is enough to
change trust, thresholds, index or feed between any two of its checks; two
edits (1.5 million states) were explored once.  Six moments (`MaxNow` 5) cover
two windows and a cooldown across their border, with one memory record per map
(`MaxRecords`) so that the memory bound bites.  The log has three lines over
files of two or three, and two faults.

`accounts` allows one mishap per behaviour (a failing save or rebuild, an edit
by another program, an expiry or a restart) and one password change per account.
`settings` allows one failing save or rebuild on either side (`Faults`,
`Mishaps`), two rules, one part of the stores of `Exits` in use, and one switch
or activation at a time; only an approval may begin beside another request on
its store (`Overlap`).  Its requests, nodes and those of `accounts` are
symmetric.

### Fairness

In `Rebuild` a caller inside the Manager keeps running (weak fairness), and
waiting for `rebuildMu` is strongly fair because Go's mutexes hand over to a
waiter that has starved for a millisecond.  Requests, file edits and port
thefts are not fair.  In the guards a thread that is running goes on and
`time.AfterFunc` fires; nobody has to confirm.  In `StallSweep` the goroutine
runs, because its ticker ticks; connections need not end.  In `ProxyScore`
probes are fair because sing-box's urltest probes every member periodically
whether or not it carries traffic, and delays pass.  The other runs state
safety only.

## Where the code and its text disagree

Checked as runs:

1. `apply_release`: a ban and a release at the same time can leave the Manager
   with the list that is not the store's, in either direction: an entry listed
   and not rejected, or rejected and no longer listed.
2. `guard_repeat`: repeating a guarded switch inside its guard records the
   unconfirmed mode.
3. `events_saved`: whether the ring of events has changed is judged by its
   oldest id instead of its newest, so that nothing is written after the first
   save until the ring wraps.
4. `settings_reseed`: a Split whose slot was never recorded as seeded is seeded
   again over the operator's policy.

Met while modelling.  The models contain each of them where it concerns
modelled state (as a step that sets `torn`, `loose`, `upset` or a like history
variable, or as a guard of a property), and no run is spent on it:

- *Manager.*  After a failed start `restoreLastGood` may succeed and the error
  says "previous configuration restored, gateway still running"; the caller
  then reverts and rebuilds once more, which closes the restored box and may
  fail (`gateway.go:1003-1016`).  A guard's callback that has already fired
  reverts a newer guard at once (`gateway.go:441`).
- *Listen point.*  An unconfirmed point is stored at once, so that a crash
  inside the guard boots into it; a plain change does not disarm a guard; a
  guard armed over another one reverts to the unconfirmed point in between; a
  request that overlaps the callback leaves file and listener different; the
  hook stores the old point also when the rebuild that should bind it failed.
- *Scores.*  A stall on a node whose breaker is open, but past its delay, does
  not demote it (`proxyscore/store.go:549`, against `streamstall.go:207-209`).
  `Flush` clears the dirty flag before it writes, so that a failed write is not
  retried; concurrent flushes share one temporary name; the breaker's state is
  not persisted.
- *Route.*  No-proxy globs and CIDRs are below the custom rules, although the
  comment on `injectAllow` calls no-proxy the top-priority escape hatch
  (`gateway_allow.go:36-39`, `158-165`); below the gate `EffectiveRules` lists
  the custom rules above the no-proxy names (`gateway_effective.go:201`) and
  `injectAllow` below them, although line 29 says "in the SAME order".
- *DNS and groups.*  The domain rules are mirrored into DNS from the whole
  table, hence also those below a hand-written catch-all, which no connection
  reaches.  `pinDirectDomainResolver` pins outbounds but no endpoints
  (`gateway_dnsdirect.go:59-61`); with the split switched off, or a final
  server of type hosts or fakeip, the default resolver can be behind the proxy;
  `repairProxyGroupLoopbacks` strips the operator's select groups too; switching
  off one of two nodes of one name renames the other; a node or endpoint named
  like a built-in outbound gives duplicate tags.
- *Subscriptions and nodes.*  Deleting a subscription during its refresh
  dereferences a nil entry with the lock held (`subscription/store.go:24`);
  adding an applied subscription again refreshes it without applying;
  `handleDeleteNode` sends nothing to the data plane; `Patch` changes the entry
  before it validates, and a rejected patch of an existing URL deletes it;
  an apply that overlaps deleting and adding again applies no nodes.
- *Packs.*  A client's request for a permitted host switches that rule off
  (`requests.go:74-79`); a switched-off set keeps the last pack's role, so that
  the next pack revives it; switching a pack off switches a set on again that
  was switched off by hand (`customrules.go:376`); a pack applied onto a deny
  set drops the deny; approve and deny have no rollback.
- *Postures.*  A crash or a second switch between `ApplyProfile` and
  `alignLiveStores` or `SetActive` mixes the slots (`posture.go:80-88`,
  `245-263`); a switch writes back nodes it read before its rebuild; a fresh
  install is in Split, unseeded (`posture/store.go:36-49`).
- *Accounts.*  `SetRole` and `Delete` count disabled administrators;
  `SetAllowRegistration` writes its copy without reading the file again, and can
  erase an account another program has just added.
- *Detection.*  Trust can be read while the index is cold and readiness after it
  got warm; UDP hits of the feeds are recorded as banned and are not; the feed
  path ignores `RequireWarmPermit`; an exfiltration finding can be emitted
  twice; the sweep of `bumpWindow` deletes the expired key itself, and with it
  its cooldown; `recordBeacon`'s sweep is shorter than its scaled cooldown;
  concurrent passes over the Permit index may leave the older one; a feed that
  fails takes its indicators with it; CIDR indicators never match.
- *Records.*  `aggSnapshot` omits `Blocked`; `lineCount` only starts over when
  the file shrank; a rotation between snapshots loses what was appended since,
  or skips a file that has grown again; a retention whose old log cannot be
  closed is rolled back in the store and used all the same; ids of events start
  over after a restart.
- *Outside the models.*  `SetEnsureReachable` saves both lists before it applies
  them, without rollback, and returns early the next time (`serve.go:617`);
  `handlePermitQuarantine`'s rollback loses a ban that landed in between
  (`detectconfig.go:190`); `detectcfg.Set` and `inboundcfg.Set` keep the new
  settings in memory when the save fails; the route watcher's `Poll` observes
  again inside `Rebaseline`; ids of the detections log start over after a
  rotation and a crash.

## Proofs

Every theorem is about the specification of its module with all constants
free; the only hypotheses are the modules' named assumptions, which TLC
evaluates in every run (`PROJECT.json` lists the theorems, each with the
property it states).  The type invariants are proved and not run.

`ManagerProofs`.  None of the Manager's invariants is inductive as it stands.
The argument has three layers: `TypeOK`; mutual exclusion (a caller whose `pc`
is between `build` and `restore` is `holder`, and only it); and the state of
the pair (`instance`, `lastGood`) as a function of the holder's `pc`: outside
`start` and `restore` the box runs unless the port was stolen, and what runs is
`lastGood`, which started.  `NoLostReload` needs that any caller that has
changed `mem` since the last snapshot is on its way to another `Begin`.
`SettledFieldsStart` needs that a field with one writer holds a value that
starts, or its writer has not returned and its `prev` holds one.
`ImplementsPlaneSafety` maps every step to a `DataPlane` step or a stutter.

Its second part is about the lists.  It uses those results for every step but
`Crash`, and shows that a crash keeps what its properties need.  `Grounds` says which handler is
at which station (`Post`), that nothing is handled before the gateway serves,
and that the files follow the stores while the disk takes writes.  `InStep`
relates, station by station, a handler's list in the store, the list it will
go back to and the Manager's, which gives `StoreMatchesManager` and, with
`SettledStarts`, `ServingIsBootable`; since a crash breaks `SettledStarts`, the
part of it that is needed is conditioned on a box that has once started.
`RejectedIsListed` is inductive only together with every other copy of a list:
what runs, what ran last, what other callers have taken a snapshot of, and what
a caller would put back are all within the list and the hands of the handlers
that are adding entries again (`Accounted`).

`ListenProofs` and `GuardsProofs`.  As long as no two calls overlap, one thread
at a time is at work and the step it is at says how far box, Manager, store and
file have moved (`Course`); with a guard, that the point to go back to is the
one last agreed (`GuardHolds`), and that a callback which is reverting has
taken its guard away.  For the capture mode, `WantsAMode`, `TickingIsIdle` and
`ArmedIsUnconfirmed` say where modes come from and which timers can fire, and
`RebuildIsComing` that whoever left the box in another mode than the Manager's
is on its way to rebuild.  The theorems listed are about both switches together,
every interleaving of them; the run explores one at a time.

`HealthProofs` proves `TypeOK`, `WatchedByOne` (with it: the goroutine is past
its sweep only with `running` set) and `DemotedOnce` (inductively: a demoted
connection is finished) of the watchdog, and `ScoresAreSaved` of the file.  The
last needs `FileInv`: one flush is under way at a time or an overlap is on
record, and the step at which a flush is that nobody has joined says whether the
temporary file holds the document it took; that document, loaded, is what the
memory holds unless the dirty flag is set again.  A document has at most two
records of a node (the two spellings an old one has), of which the later wins.

`DetectionProofs`.  `KillInv` says, for every place on the way from a connection
to its kill, what has been done by then: listed or released since, reported, in
that order.  `ApprovalInv`: a check that holds an approved destination for
untrusted read the index before disposal was ready, which `straddled` records.
`QuietInv`: whatever was told and not thrown away since is in its record, and the
record's time is that of the telling, for each kind of record.  `SweepInv` is about the last queries of a client that may matter, one
less than twice a burst: those asked before the open window began and those it
has counted; the ones of the window before it, once they are a burst and the
window has been over for less than a window, have been told.  It is what makes
the promise independent of where windows open.  `TotalsInv` relates the snapshot,
the log and what is excused to each line that was appended, over restarts and
failing writes, and `PagesInv` says that `lines` counts the first lines of the
live file, unless it was rotated unnoticed; the remaining bytes then hold the
rest.

`AccountsProofs`.  A registry is `Governed` when it has an administrator or
nobody.  That is kept in memory and in the file by every step, once one also
knows that memory shows an account only if the file does, and that no step
forgets the last account (`Careful`).  The claimed ticket needs that whoever
has redeemed it can be counted; the slots that they are exactly the requests
which own one, through every error path of every handler; registration that a
request at `signup` meets a registry that is not empty.

`RouteProofs` is about sequences: the table is written by a dozen injectors,
each of which looks for a place in what the earlier ones left.  Its lemmas say
what inserting does to positions, where the prelude ends and the catch-all is
(`PreludeWhere`, `CatchAllWhere`), that the injectors keep the table's shape
(`Shaped`: base prelude, floor, gate, route, the base's own rules, catch-all,
`MergedLayered`), that the view has that shape too although it is built apart
(`ViewLayered`), and which layer decides a connection in any table of that
shape (`LayersDecide`).  The five properties then hold in every typed state;
types are the only inductive part.  The lists, sets, nodes, connections and
base configs are arbitrary; a custom rule may name a node that is gone.

Its second part is about the DNS block, under the composed `GenSpec`.  `GenInv`
types the settings; what matters of the DNS settings is that they are `Sound`.
A config then goes through the stages of `applyInvariants`, with a property for
each of them: before `injectDirectDNS` (`Plain`, under TUN `Resolving`) the block
says whether the default resolver asks behind the proxy group; behind it
(`Followed`) everything that dials is pinned to the direct server or the default
is direct already; `healBootstrapDNS` establishes the rest of `Reaches`, for a
gateway without an exit, and the repair of the groups leaves it alone
(`RepairSpares`): taking members out of a group never makes the selector lead to
fewer exits than none.  For `AnswersFollowEgress`, `MirrorAnswers` says that the
mirrored rules stand in the order of the routing rules they were made of (`Rank`
and `OnlyIs`: what is kept of a sequence keeps its order), so that the first DNS
rule for a name comes from the first route rule that names it; if that one is
direct, so is the server.

For `LocalExitsStayManual`, `NamesInv` says which lists and groups the settings
can hold, hence which names the groups can have.  Before the repair the outbounds
have the `Choices`: no automatic group takes the tag of the selector, one that
ends up called "Local", which the repair spares, does not mix the two kinds of
exits, and one group that the selector offers holds exactly the exits on this
machine.  The second part is where `uniq` matters (`LocalIsSecond`): if there are
both kinds, the group of the local ones asks for its tag second, after Auto, so
that nothing else that is automatic can get "Local".  `Stripped`, `AddLocal` and
`OfferLocal` then lead from `Choices` to `Stays` one after the other, and pinning
resolvers leaves both alone.  That `uniq` finds a free tag at all is a count of
those in use (`FewUsed`, `OneIsFree`).

`SettingsProofs`.  A handler of the policy is what is left of its plan, so the
invariant says what holds of a store as a function of that rest: `OpTypes`
lists the rests each operation can have (`Tails`) and what it carries, and
`PackInv` adds, for every store in which nothing was let slip (`StoreCourse`),
that at most one request still has to do with the store, that memory, file and
Manager agree when none has, and otherwise which of them agree at this stage
(`RulesAt`, `SetsAt`): before the first change all three, then memory and file,
and as long as a rollback may come the Manager enforces the policy that was read
at the beginning (`KeptHeld`).  `PoliciesAreServed` is not inductive without
it, because a rollback restores what was read many steps earlier.  The steps of
`Exits` leave the policy alone, a restart establishes the invariant anew.

`ExitInv` is the invariant for the lists of the exits.  `ExitTypes` says which
operation can be at which place on which axis (`Station`), and what it can have
to undo there.  For every axis on which nothing was let slip, `Course` says that
file and stores give the same list, that at most one request is on it, that the
data plane serves the list when none is, and otherwise how far that one has
moved it (`Progress`): before its change the data plane serves the list, with a
rebuild ahead it carries the list itself, and as long as it may roll back the
data plane serves what its rollback will make of the stores (`Back`).  Switches
and activations reach the nodes from outside: from when they have read them
(`Holds`) to their end, `NodesCarried` relates what they carry to the list and to
the data plane; `HeldOnce` says there is only one such request, since the axis is
held for it.  An activation is the step that breaks a simpler invariant: it
pushes the nodes of one subscription before it changes the flags that say so.
A subscription can be added meanwhile, by a request that is on no axis;
`SubsAlike` says that a new one, without nodes, shows in no list.

`PacksKeepTheirSets` rests on `WantedInv`: the packs in force are whole in
memory and in whatever sets a request may still go back to.
`PresetsAssumption` says of the shipped presets what `presets.go:208-216` says
of them: two that share a set ask different things of it.  `SwitchesRestore`
rests on `SwitchInv`: the slot of every posture but the one held keeps what that
posture was left with, where nothing was let slip; how far a switch has come,
from what it loaded, which is alike the farewell, over the stores that take it
one after the other; and that a switch is the only sweep under way and, while
the farewell counts, alone.

The named assumptions say what the code's own input checks establish
(`ResolversAssumption`, `RouteLayersAssumption` and the like: types and shapes),
what its shipped data is (`PresetsAssumption`), that `uniq` counts up without end
(`NamesAssumption`: the supply of tags for a name is larger than the number of
tags that can be in use, and only the name "Local" is tried as "Local"), or what
a file can hold
(`DNSFilesAssumption`: a legacy file with a server of the reserved tag behind the
proxy group names a final server that asks; without this, `dns-direct` could be
what the default resolver falls back to before the injector replaces it).

What stays with TLC: liveness (`Returns`, `GuardsSettle`, `Heals`,
`WatchedUntilItEnds`, and `DataPlane!ComesBack`), which needs fairness and
ENABLED; and `ConfigIsAccepted`, which holds for nodes whose names are not those
of other outbounds and for DNS files that resolve through a server that asks.
Proved for all constants it would say this of every node list and every file, as
assumptions at least as long as the property.

## Not modelled

- *Custom rules*: `refuseIneffectivePermit`; the matching of patterns, which is
  data.  *Rule sets*: their order, decoding, the URLs of the catalog.
- *Postures*: the other lists of a slot, which travel the same way, failures of
  the profile file, the forced Clash mode, and the one-time migration.
- *Exits*: `Prune` of the overrides, `SetEnsureReachable`'s lists, names and
  tokens, the conversion of provider formats.
- *Route*: a base config without a `route` section (the injectors then insert
  nothing at all), `cache_file` and the clash secret.
- *Quarantine*: `handlePermitQuarantine`, notes, validation of entries.
- *Scores*: the latency and throughput windows, which grade nodes that are all
  usable.
- *Listener*: `refuseAnonymousExposure`, which looks at the request only, and
  `credentials.go`.
- *Detection*: the detections log, which travels like the history, the shape of
  single labels, the LAN check, counters that are only shown.
- *History*: filtered pages, the pruning of talkers and hours.
- *Settings stores* of one value each (final route, TUN, DNS, proxy groups):
  their handlers follow the pattern of `PolicyApply`, with a value for a list.
- The route watcher, the daemon's life cycle, service installation, the command
  line, self test and doctor, the proxy generator, fingerprints, the Clash
  client, the API types, the dashboard, the desktop shell, packaging, and the
  insides of sing-box, which is a submodule and not part of this repository.

## Plan

Of the safety properties, `ConfigIsAccepted` is left to prove, part by part: that
tags are used once and that members exist follow from `DistinctGiven` and `Within`
of `RouteProofs`, that every rule's outbound exists from its layers.  Of the system,
the settings stores of one value each and the quarantine handler are the nearest
that are not modelled.
