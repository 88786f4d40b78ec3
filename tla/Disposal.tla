------------------------------ MODULE Disposal ------------------------------
(***************************************************************************)
(* internal/detect with gateway/detector.go, ruleset/permit.go, detectcfg,  *)
(* threatfeed and what cmd/serve.go wires between them: a connection is     *)
(* scored when it opens, while it uploads and when it closes, and what the  *)
(* score condemns is killed and quarantined.                                *)
(*                                                                         *)
(* Actors: the goroutine that reads from a connection and the one that      *)
(* closes it; the operator, who edits lists and thresholds; the decoding of *)
(* rule sets, which builds the Permit index off the hot path, a pass per    *)
(* edit, in any order; and the feed loader.                                 *)
(*                                                                         *)
(* Abstractions.  A destination is what the sniffer said and what was       *)
(* dialled, each a name or an address.  A rule set permits one value.       *)
(* Bytes are counted in units of the smallest threshold, and the lock-free  *)
(* loads that open a check are one step.  What the Manager does with the    *)
(* quarantine, and its file, are in PolicyApply; the heuristics that only   *)
(* alert are in Findings.                                                   *)
(***************************************************************************)
EXTENDS FiniteSets, Naturals

CONSTANTS
    Flow,     \* connections
    Name, Addr, \* what can be dialled
    Dest,     \* destinations: [host, to]
    Settings,   \* detection settings: [auto, limit, ratio, novelty, needWarm]
    Url,      \* threat feeds
    FeedOf,   \* what each of them lists
    Static,   \* LoadThreats: indicators that are always on
    MaxUp,    \* bound: upload of a connection
    MaxEdits  \* bound: edits of lists, sets, settings, and passing of time

\* Assumed of the constants where they get their values.
DisposalAssumption ==
    /\ Name \cap Addr = {}
    /\ Dest \subseteq [host : Name \cup Addr, to : Name \cup Addr]
    /\ Settings \subseteq [auto : BOOLEAN, limit : Nat \ {0}, ratio : Nat, novelty : BOOLEAN, needWarm : BOOLEAN]
    /\ FeedOf \in [Url -> SUBSET (Name \cup Addr)]

Destination == Name \cup Addr

VARIABLES
    flow,       \* the Event of each connection and where its two goroutines are
    seen,       \* Engine.seen: "never", "new" or "old" for each destination
    whitelist,  \* whitelist.Store, with the Permits of custom rules
    sets,       \* what the enabled rule sets that grant Permit cover
    passes,     \* WarmPermitCache calls that are still decoding, with their sets
    index,      \* permitCache
    unmarked,   \* a pass has replaced permitCache and not stored permitWarm yet
    warm,       \* permitWarm
    stored,     \* detectcfg.Store.data
    config,     \* what the engine runs with
    setting,    \* a saved document the handler has not applied yet
    feed,       \* feedDomains and feedIPs
    quarantine, \* quarantine.Store
    released,   \* history: what the operator took off the quarantine
    findings,   \* history: [flow, action]
    approved,   \* history: flows approved from their opening until now
    straddled,  \* history: flows that were being checked when disposal got ready
    edits       \* how many edits there have been

policyVars == <<whitelist, sets, passes, index, unmarked, warm>>
settingVars == <<stored, config, setting>>
vars == <<flow, seen, policyVars, settingVars, feed, quarantine, released, findings, approved, straddled, edits>>

Nowhere == [host |-> "", to |-> ""]
NoFlow == [dest |-> Nowhere, udp |-> FALSE, denied |-> FALSE, up |-> 0, down |-> 0, block |-> FALSE,
           emitted |-> FALSE, reader |-> "off", told |-> FALSE, action |-> "alert", closer |-> "off",
           toldLate |-> FALSE, killed |-> FALSE]
-----------------------------------------------------------------------------
(* What the operator approved.                                             *)

Both(d) == {d.host, d.to}

\* trustedDest: the whitelist or the index; host names it, or the address does.
Trusted(d) == Both(d) \cap (whitelist \cup index) # {}

\* What an operator would call approved: the list says so, or a rule set does
\* that the index holds or has, as long as disposal waits for it, yet to hold.
Approves(d, list, covered, held, passed, waits) ==
    \/ Both(d) \cap (list \cup held) # {}
    \/ ~passed /\ waits /\ Both(d) \cap covered # {}

Passed == warm \/ unmarked
StillApproved(list, covered, held, passed, waits) ==
    {f \in approved : Approves(flow[f].dest, list, covered, held, passed, waits)}

Checking == {f \in Flow : "ready" \in {flow[f].reader, flow[f].closer}}

\* canDispose with the predicate serve registers, which reads the store.
CanDispose == ~stored.needWarm \/ warm

\* exfilShaped: lopsided, or to a destination first met not long ago.
Shaped(f) ==
    LET e == flow[f] IN
    \/ config.ratio = 0 /\ ~config.novelty
    \/ config.ratio > 0 /\ (e.down = 0 \/ e.up >= config.ratio * e.down)
    \/ config.novelty /\ seen[e.dest.host] # "old"

\* The name and the address of old: whatever was dialled goes as the address,
\* and a list that gets an address it cannot parse refuses the whole entry.
BugBanned(d) ==
    IF d.to \in Addr THEN {d.host, d.to}
    ELSE IF d.host \in Name /\ d.host = d.to THEN {} ELSE {d.host}

\* banEvent: the values handed to the quarantine; never none.
Banned(d) ==
    LET name == IF d.host \in Name THEN {d.host} ELSE {d.to} \cap Name
    IN  name \cup ({d.to} \cap Addr)
-----------------------------------------------------------------------------
(* A connection.                                                           *)

Set(f, e) == flow' = [flow EXCEPT ![f] = e]
Report(f, action) == findings' = findings \cup {[flow |-> f, action |-> action]}

\* disposalAction, with a sink for bans, as serve has.
Action == IF config.auto THEN "banned" ELSE "alert"

\* Quarantine.Add of what is new, from the sink of bans.
Ban(f) == quarantine' = quarantine \cup Banned(flow[f].dest)

\* TrackWithFingerprint, and RoutedConnection or RoutedPacketConnection around
\* it: the indicators are compared exactly, and trust does not excuse a hit.
Track(f, d, udp, denied) ==
    LET hit == Both(d) \cap (feed \cup Static) # {}
    IN  /\ flow[f] = NoFlow
        /\ Set(f, [NoFlow EXCEPT
                     !.dest = d, !.udp = udp, !.denied = denied, !.block = hit,
                     !.reader = IF hit /\ config.auto /\ ~udp THEN "intel" ELSE "idle"])
        /\ seen' = [v \in Destination |-> IF v \in Both(d) /\ seen[v] = "never" THEN "new" ELSE seen[v]]
        /\ IF hit THEN Report(f, Action) ELSE UNCHANGED findings
        /\ approved' = IF Approves(d, whitelist, sets, index, Passed, stored.needWarm)
                       THEN approved \cup {f} ELSE approved
        /\ UNCHANGED <<policyVars, settingVars, feed, quarantine, released, straddled, edits>>

\* RoutedConnection's ban of a hit, before it closes the connection.
BanIntel(f) ==
    /\ flow[f].reader = "intel"
    /\ Ban(f)
    /\ Set(f, [flow[f] EXCEPT !.reader = "drop"])
    /\ UNCHANGED <<seen, policyVars, settingVars, feed, released, findings, approved, straddled, edits>>

\* RoutedConnection's Close goes through countConn.Close.
DropIntel(f) ==
    /\ flow[f].reader = "drop"
    /\ Set(f, [flow[f] EXCEPT !.reader = "idle", !.killed = TRUE, !.closer = "score"])
    /\ UNCHANGED <<seen, policyVars, settingVars, feed, quarantine, released, findings, approved, straddled, edits>>

Streaming(f) ==
    /\ flow[f].dest # Nowhere /\ ~flow[f].udp /\ ~flow[f].killed
    /\ flow[f].closer = "off"

\* countConn.Read: a byte more, and the checks of checkExfilMidStream that take
\* no lock.
Read(f) ==
    LET e == [flow[f] EXCEPT !.up = @ + 1]
    IN  /\ Streaming(f) /\ e.reader = "idle" /\ e.up <= MaxUp
        /\ Set(f, [e EXCEPT !.reader =
                     IF config.auto /\ e.up >= config.limit /\ ~e.denied /\ ~e.block
                     THEN "trust" ELSE "idle"])
        /\ UNCHANGED <<seen, policyVars, settingVars, feed, quarantine, released, findings, approved, straddled, edits>>

\* countConn.Write.
Write(f) ==
    /\ Streaming(f) /\ flow[f].down = 0 /\ flow[f].reader \notin {"intel", "drop"}
    /\ Set(f, [flow[f] EXCEPT !.down = 1])
    /\ UNCHANGED <<seen, policyVars, settingVars, feed, quarantine, released, findings, approved, straddled, edits>>

\* checkExfilMidStream's isTrusted.
CheckTrust(f) ==
    /\ flow[f].reader = "trust"
    /\ Set(f, [flow[f] EXCEPT !.reader = IF Trusted(flow[f].dest) THEN "idle" ELSE "ready"])
    /\ UNCHANGED <<seen, policyVars, settingVars, feed, quarantine, released, findings, approved, straddled, edits>>

\* The mid-stream path of old, which asked neither for shape nor readiness.
BugCheckReady(f) ==
    /\ flow[f].reader = "ready"
    /\ Set(f, [flow[f] EXCEPT !.reader = "ban", !.block = TRUE, !.told = flow[f].emitted, !.action = Action])
    /\ UNCHANGED <<seen, policyVars, settingVars, feed, quarantine, released, findings, approved, straddled, edits>>

\* checkExfilMidStream's other two conditions, and the marking of the event.
CheckReady(f) ==
    /\ flow[f].reader = "ready"
    /\ Set(f, IF Shaped(f) /\ CanDispose
              THEN [flow[f] EXCEPT !.reader = "ban", !.block = TRUE, !.told = flow[f].emitted, !.action = Action]
              ELSE [flow[f] EXCEPT !.reader = "idle"])
    /\ UNCHANGED <<seen, policyVars, settingVars, feed, quarantine, released, findings, approved, straddled, edits>>

BanMidStream(f) ==
    /\ flow[f].reader = "ban"
    /\ Ban(f)
    /\ Set(f, [flow[f] EXCEPT !.reader = "emit"])
    /\ UNCHANGED <<seen, policyVars, settingVars, feed, released, findings, approved, straddled, edits>>

\* emitExfil, unless the event said so before the ban.
EmitMidStream(f) ==
    /\ flow[f].reader = "emit"
    /\ Set(f, [flow[f] EXCEPT !.reader = "kill", !.emitted = TRUE])
    /\ IF flow[f].told THEN UNCHANGED findings ELSE Report(f, flow[f].action)
    /\ UNCHANGED <<seen, policyVars, settingVars, feed, quarantine, released, approved, straddled, edits>>

\* Back in Read: the inner connection is closed, and finalize has yet to come.
Kill(f) ==
    /\ flow[f].reader = "kill"
    /\ Set(f, [flow[f] EXCEPT !.reader = "idle", !.killed = TRUE])
    /\ UNCHANGED <<seen, policyVars, settingVars, feed, quarantine, released, findings, approved, straddled, edits>>

\* countConn.Close, once: finalize reads the counters and the settings.
Close(f) ==
    /\ flow[f].dest # Nowhere /\ ~flow[f].udp
    /\ flow[f].reader \notin {"intel", "drop"} /\ flow[f].closer = "off"
    /\ Set(f, [flow[f] EXCEPT !.closer = "score"])
    /\ UNCHANGED <<seen, policyVars, settingVars, feed, quarantine, released, findings, approved, straddled, edits>>

\* finalize's score: the byte count it has read, against settings it reads twice.
Score(f) ==
    LET e == flow[f] IN
    /\ e.closer = "score"
    /\ Set(f, [e EXCEPT
                 !.toldLate = e.emitted,
                 !.closer = CASE e.up < config.limit \/ ~Shaped(f) -> "done"
                              [] e.up >= config.limit /\ Shaped(f) /\ config.auto /\ ~e.denied -> "trust"
                              [] OTHER -> "alert"])
    /\ UNCHANGED <<seen, policyVars, settingVars, feed, quarantine, released, findings, approved, straddled, edits>>

FinalTrust(f) ==
    /\ flow[f].closer = "trust"
    /\ Set(f, [flow[f] EXCEPT !.closer = IF Trusted(flow[f].dest) THEN "alert" ELSE "ready"])
    /\ UNCHANGED <<seen, policyVars, settingVars, feed, quarantine, released, findings, approved, straddled, edits>>

FinalReady(f) ==
    /\ flow[f].closer = "ready"
    /\ Set(f, IF CanDispose THEN [flow[f] EXCEPT !.closer = "ban", !.block = TRUE]
              ELSE [flow[f] EXCEPT !.closer = "alert"])
    /\ UNCHANGED <<seen, policyVars, settingVars, feed, quarantine, released, findings, approved, straddled, edits>>

FinalBan(f) ==
    /\ flow[f].closer = "ban"
    /\ Ban(f)
    /\ Set(f, [flow[f] EXCEPT !.closer = "emit"])
    /\ UNCHANGED <<seen, policyVars, settingVars, feed, released, findings, approved, straddled, edits>>

\* emitExfil of finalize, with the action of now or as an alert.
FinalEmit(f) ==
    /\ flow[f].closer \in {"emit", "alert"}
    /\ IF flow[f].toldLate
       THEN Set(f, [flow[f] EXCEPT !.closer = "done"]) /\ UNCHANGED findings
       ELSE /\ Set(f, [flow[f] EXCEPT !.closer = "done", !.emitted = TRUE])
            /\ Report(f, IF flow[f].closer = "emit" THEN Action ELSE "alert")
    /\ UNCHANGED <<seen, policyVars, settingVars, feed, quarantine, released, approved, straddled, edits>>
-----------------------------------------------------------------------------
(* The rest of the gateway.                                                *)

Edit == edits < MaxEdits /\ edits' = edits + 1
flowVars == <<flow, seen, quarantine, released, findings>>

\* The whitelist's handlers, and custom rules that grant Permit.
EditWhitelist(v) ==
    /\ Edit
    /\ whitelist' = IF v \in whitelist THEN whitelist \ {v} ELSE whitelist \cup {v}
    /\ approved' = StillApproved(whitelist', sets, index, Passed, stored.needWarm)
    /\ UNCHANGED <<flowVars, sets, passes, index, unmarked, warm, settingVars, feed, straddled>>

\* applyRuleSets and alignLiveStores: the store, and a pass over what it holds.
EditSets(v) ==
    /\ Edit
    /\ sets' = IF v \in sets THEN sets \ {v} ELSE sets \cup {v}
    /\ passes' = passes \cup {sets'}
    /\ approved' = StillApproved(whitelist, sets', index, Passed, stored.needWarm)
    /\ UNCHANGED <<flowVars, whitelist, index, unmarked, warm, settingVars, feed, straddled>>

\* WarmPermitCache, at its end: the index becomes what could be decoded of the
\* sets the pass was started with, whatever has been decoded since.
Publish(p, decoded) ==
    /\ p \in passes
    /\ passes' = passes \ {p}
    /\ index' = decoded
    /\ unmarked' = TRUE
    /\ approved' = StillApproved(whitelist, sets, decoded, TRUE, stored.needWarm)
    /\ UNCHANGED <<flowVars, whitelist, sets, warm, settingVars, feed, straddled, edits>>

\* permitWarm.Store, after the lock of the index is given back.
MarkWarm ==
    /\ unmarked
    /\ unmarked' = FALSE
    /\ warm' = TRUE
    /\ straddled' = IF warm THEN straddled ELSE straddled \cup Checking
    /\ UNCHANGED <<flowVars, whitelist, sets, passes, index, settingVars, feed, approved, edits>>

\* handleSetDetectionConfig: Set keeps what it could not save, and then the
\* handler does not apply it.
SaveSettings(c, saved) ==
    /\ Edit /\ setting = {}
    /\ stored' = c
    /\ setting' = IF saved THEN {c} ELSE {}
    /\ approved' = StillApproved(whitelist, sets, index, Passed, c.needWarm)
    /\ straddled' = IF CanDispose \/ c.needWarm THEN straddled ELSE straddled \cup Checking
    /\ UNCHANGED <<flowVars, policyVars, config, feed>>

\* ApplyConfig.
ApplySettings ==
    /\ \E c \in setting : config' = c
    /\ setting' = {}
    /\ UNCHANGED <<flowVars, policyVars, stored, feed, approved, straddled, edits>>

\* Release and Clear of the quarantine, as far as the list goes.
Release(vs) ==
    /\ Edit /\ vs # {}
    /\ quarantine' = quarantine \ vs
    /\ released' = released \cup vs
    /\ UNCHANGED <<flow, seen, findings, policyVars, settingVars, feed, approved, straddled>>

\* Loader.refresh: what the feeds that answered list, and the old indicators
\* only if none did.
Refresh(answered) ==
    /\ Edit
    /\ feed' = IF answered = {} THEN feed ELSE UNION {FeedOf[u] : u \in answered}
    /\ UNCHANGED <<flowVars, policyVars, settingVars, approved, straddled>>

\* The novelty window of a destination passes, or noteSeen has thrown it out.
Age(v) ==
    /\ Edit
    /\ seen[v] # "never"
    /\ \E s \in {"old", "never"} : seen' = [seen EXCEPT ![v] = s]
    /\ UNCHANGED <<flow, quarantine, released, findings, policyVars, settingVars, feed, approved, straddled>>

\* serve: settings from the store, the first pass started, feeds not read yet.
Init ==
    /\ flow = [f \in Flow |-> NoFlow]
    /\ seen = [v \in Destination |-> "never"]
    /\ whitelist = {} /\ sets \in {s \in SUBSET Name : Cardinality(s) <= 1}
    /\ passes = {sets} /\ index = {} /\ unmarked = FALSE /\ warm = FALSE
    /\ stored \in Settings /\ config = stored /\ setting = {}
    /\ feed = {} /\ quarantine = {} /\ released = {} /\ findings = {}
    /\ approved = {} /\ straddled = {}
    /\ edits = 0

Connection(f) ==
    \/ \E d \in Dest, udp, denied \in BOOLEAN : Track(f, d, udp, denied)
    \/ BanIntel(f) \/ DropIntel(f)
    \/ Read(f) \/ Write(f) \/ CheckTrust(f) \/ CheckReady(f)
    \/ BanMidStream(f) \/ EmitMidStream(f) \/ Kill(f)
    \/ Close(f) \/ Score(f) \/ FinalTrust(f) \/ FinalReady(f) \/ FinalBan(f) \/ FinalEmit(f)

Operator ==
    \/ \E v \in Destination : EditWhitelist(v) \/ Age(v)
    \/ \E v \in Name : EditSets(v)
    \/ \E c \in Settings, saved \in BOOLEAN : SaveSettings(c, saved)
    \/ ApplySettings
    \/ \E vs \in {quarantine} \cup {{v} : v \in quarantine} : Release(vs)

Background ==
    \/ \E p \in passes : \E decoded \in SUBSET p : Publish(p, decoded)
    \/ MarkWarm
    \/ \E answered \in SUBSET Url : Refresh(answered)

Next == (\E f \in Flow : Connection(f)) \/ Operator \/ Background

Spec == Init /\ [][Next]_vars
-----------------------------------------------------------------------------
\* What the gateway killed by itself can be found: until the operator releases
\* it, the quarantine holds the name or the address that was killed, whichever
\* the connection had, and there is a finding about it (banEvent, Add, emitExfil,
\* and the order of ban, finding and Close on each of the two paths).
KillsAreListed ==
    \A f \in Flow : flow[f].killed =>
        /\ Both(flow[f].dest) \cap (quarantine \cup released) # {}
        /\ {flow[f].dest.to} \cap Addr \subseteq quarantine \cup released
        /\ \E x \in findings : x.flow = f

UploadBan(f) == BanMidStream(f) \/ FinalBan(f)

\* An upload to what the operator approved, from before the connection opened
\* until now, is not quarantined: neither while the index is built, nor by an
\* older pass or changed settings; only a check that was under way when disposal
\* got ready may get it wrong (isTrusted, canDispose, WarmPermitCache).
ApprovedIsNotBanned == [][\A f \in approved \ straddled : ~UploadBan(f)]_vars
=============================================================================
