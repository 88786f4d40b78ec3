------------------------------ MODULE Findings ------------------------------
(***************************************************************************)
(* internal/detect: the detectors that only report.  DNS queries are        *)
(* counted in windows per client and per parent domain (query.go), distinct *)
(* names per parent and the rhythm of connections are watched               *)
(* (heuristics.go), encrypted DNS past the gateway and unknown TLS stacks   *)
(* are named (bypass.go, fingerprint.go).  Each of them has a cooldown of   *)
(* its own, kept in a record that a memory bound may throw away.            *)
(*                                                                         *)
(* Every handler runs in one critical section of the engine, at a time of   *)
(* the clock; what makes this hard is time.                                 *)
(*                                                                         *)
(* Abstractions.  A name is its parent and one leaf.  Counts stop at the   *)
(* threshold they are compared with.  A detector that its setting disables  *)
(* is not in "on".  The shape of a label (entropy, vowels), which is judged *)
(* anew for each name and has no cooldown, is left out, as are the counters *)
(* that are only shown and LAN addresses that are not on-link, which are    *)
(* reported every time.                                                     *)
(***************************************************************************)
EXTENDS Integers, FiniteSetsExt, SequencesExt

CONSTANTS
    Client, Parent, Leaf, \* who asks, and names
    Stack,                 \* TLS client fingerprints
    Endpoint,              \* addresses of public encrypted DNS
    Enabled,               \* settings: sets of detectors that are on
    Window,                \* queryWindowSec
    Burst, Rate, OddAt,    \* queryNXBurst, queryParentRate, queryOddTypeAt
    SubsAt, VolumeQuiet,   \* subdomainAlertAt, and its ten minutes
    MinSample, KeepTimes,  \* beaconMinSample, beaconWindow
    MinInterval, MaxInterval, \* the cadences of a heartbeat
    ReAlert, Factor,       \* beaconReAlert, beaconReAlertFactor
    BypassQuiet, Learn,    \* dnsBypassReAlertSec, ja4LearnMinutes
    MaxRecords,            \* the size at which a map is swept
    MaxNow, MaxCalls       \* bounds: the time that is looked at, and calls at one time

\* Assumed of the constants where they get their values.
FindingsAssumption ==
    /\ {Window, Burst, Rate, OddAt, SubsAt, VolumeQuiet, ReAlert, Factor} \subseteq Nat \ {0}
    /\ MinSample \in Nat /\ MinSample >= 3 /\ KeepTimes >= MinSample
    /\ MinInterval \in Nat \ {0} /\ MaxInterval > MinInterval
    /\ {VolumeQuiet, BypassQuiet} \subseteq Nat

Detector == {"nx", "parent", "volume", "beacon", "bypass", "ja4"}

\* A subject is what one cooldown is about.
Subject ==
    ({"nx"} \X Client) \cup ({"parent", "volume"} \X Parent) \cup ({"beacon"} \X (Parent \X Leaf))
    \cup ({"bypass"} \X Endpoint) \cup ({"ja4"} \X Stack)

VARIABLES
    now,
    on,      \* the detectors the settings have on
    windows, \* nxWindows and parentWindows
    volume,  \* dnsParents
    beacons,
    bypass,  \* bypassSeen
    stacks,  \* fingerprints
    start,   \* ja4Start
    fired,   \* history: the findings of the last step
    alerted, \* history: when there was a finding about each subject
    forgotten, \* history: subjects whose record was thrown away since
    asked,   \* history: when the last queries came that count for a subject
    calls    \* calls at this time

vars == <<now, on, windows, volume, beacons, bypass, stacks, start, fired, alerted, forgotten, asked, calls>>

Never == -1
Least(m, n) == Min({m, n})
Bind(f, k, v) == [x \in DOMAIN f \cup {k} |-> IF x = k THEN v ELSE f[x]]
Only(f, ks) == [x \in DOMAIN f \cap ks |-> f[x]]
-----------------------------------------------------------------------------
(* Windows of queries.  A map is swept when it is over its bound and a key  *)
(* is new or has expired; the key itself may be among what is swept.        *)

Expired(w) == now - w.start > Window
Fresh(alert) == [start |-> now, count |-> 0, odd |-> 0, alert |-> alert]

OfKind(m, kind) == {k \in DOMAIN m : k[1] = kind}

Swept(m, k) ==
    IF Cardinality(OfKind(m, k[1])) <= MaxRecords THEN {}
    ELSE {x \in OfKind(m, k[1]) : Expired(m[x])}

Rolls(m, k) == k \notin DOMAIN m \/ Expired(m[k])

\* The rollover that starts from nothing, also without a cooldown.
BugBump(m, k) ==
    IF ~Rolls(m, k) THEN m ELSE Bind(Only(m, DOMAIN m \ Swept(m, k)), k, Fresh(Never))

\* bumpWindow.
Bump(m, k) ==
    IF ~Rolls(m, k) THEN m
    ELSE LET kept == Only(m, DOMAIN m \ Swept(m, k))
         IN  Bind(kept, k, Fresh(IF k \in DOMAIN kept THEN kept[k].alert ELSE Never))

\* What a roll of k throws away: records that were on cooldown.
Thrown(m, k) == IF Rolls(m, k) THEN Swept(m, k) ELSE {}

\* A cooldown that starts anew whenever it refuses.
BugAlert(w, hit) ==
    LET ready == w.alert = Never \/ now - w.alert >= Window
    IN  [w |-> IF hit THEN [w EXCEPT !.alert = now] ELSE w, fires |-> hit /\ ready]

\* readyToAlert, asked when the window is over a threshold.
Alert(w, hit) ==
    LET ready == w.alert = Never \/ now - w.alert >= Window
    IN  [w |-> IF hit /\ ready THEN [w EXCEPT !.alert = now] ELSE w, fires |-> hit /\ ready]

Counted(w, n, odd, limit) ==
    [w EXCEPT !.count = Least(@ + n, limit), !.odd = Least(@ + odd, OddAt)]
-----------------------------------------------------------------------------
(* Names, rhythms, endpoints and stacks.                                   *)

\* analyzeDomain's volume part: distinct names under one parent.
Volume(p, l) ==
    LET kept == IF Cardinality(DOMAIN volume) > MaxRecords THEN Only(volume, {}) ELSE volume
        st == IF p \in DOMAIN kept THEN kept[p] ELSE [subs |-> {}, alert |-> Never]
        subs == st.subs \cup {l}
        fires == Cardinality(subs) >= SubsAt /\ (st.alert = Never \/ now - st.alert > VolumeQuiet)
    IN  [map |-> Bind(kept, p, [subs |-> subs, alert |-> IF fires THEN now ELSE st.alert]),
         fires |-> fires, thrown |-> DOMAIN volume \ DOMAIN kept]

\* meanCV against a quarter, in integers: the intervals ds are regular.
Regular(ds) ==
    LET n == Len(ds)
        sum == FoldSeq(LAMBDA d, a : a + d, 0, ds)
        squares == FoldSeq(LAMBDA d, a : a + d * d, 0, ds)
    IN  /\ MinInterval * n <= sum /\ sum <= MaxInterval * n
        /\ 16 * (n * squares - sum * sum) <= sum * sum

\* The cooldown is over: it outlasts the cadence it is about.
Quiet(ds, since) ==
    LET sum == FoldSeq(LAMBDA d, a : a + d, 0, ds)
    IN  since >= ReAlert /\ since >= (sum * Factor) \div Len(ds)

\* recordBeacon; a destination that is permitted is not recorded at all.
Beacon(k) ==
    LET kept == IF Cardinality(DOMAIN beacons) <= MaxRecords THEN beacons
                ELSE Only(beacons, {x \in DOMAIN beacons : now - Last(beacons[x].times) <= MaxInterval})
        st == IF k \in DOMAIN kept THEN kept[k] ELSE [times |-> <<>>, alert |-> Never]
        all == Append(st.times, now)
        times == IF Len(all) > KeepTimes THEN Tail(all) ELSE all
        ds == [i \in 1..(Len(times) - 1) |-> times[i + 1] - times[i]]
        fires == /\ Len(times) >= MinSample
                 /\ Regular(ds)
                 /\ st.alert = Never \/ Quiet(ds, now - st.alert)
    IN  [map |-> Bind(kept, k, [times |-> times, alert |-> IF fires THEN now ELSE st.alert]),
         fires |-> fires, thrown |-> DOMAIN beacons \ DOMAIN kept]

\* checkEncryptedDNSBypassLocked and bypassReadyLocked: what is swept here has
\* no cooldown left.
Bypass(e) ==
    LET refused == e \in DOMAIN bypass /\ now - bypass[e] < BypassQuiet
        kept == IF Cardinality(DOMAIN bypass) <= MaxRecords THEN bypass
                ELSE Only(bypass, {x \in DOMAIN bypass : now - bypass[x] <= BypassQuiet})
    IN  [map |-> IF refused THEN bypass ELSE Bind(kept, e, now), fires |-> ~refused]
-----------------------------------------------------------------------------
(* The handlers.                                                           *)

\* A subject fires, others lose their records.
Tell(subjects, thrown) ==
    /\ fired' = subjects
    /\ alerted' = [s \in Subject |-> IF s \in subjects THEN now ELSE alerted[s]]
    /\ forgotten' = (forgotten \ fired) \cup thrown

Call == calls < MaxCalls /\ calls' = calls + 1

Remember(ks, limit) ==
    asked' = [s \in DOMAIN asked |->
                IF s \in ks /\ limit[s[1]] > 0
                THEN LET all == Append(asked[s], now)
                     IN  IF Len(all) > 2 * limit[s[1]] - 1 THEN Tail(all) ELSE all
                ELSE asked[s]]
Thresholds == [nx |-> Burst, parent |-> Rate]

\* RecordQuery, called for every answer the resolver gives.
RecordQuery(c, p, l, nx, odd) ==
    LET kn == <<"nx", c>>
        kp == <<"parent", p>>
        thrownN == IF "nx" \in on THEN Thrown(windows, kn) ELSE {}
        thrownP == IF "parent" \in on THEN Thrown(windows, kp) ELSE {}
        bumpedN == IF "nx" \in on THEN Bump(windows, kn) ELSE windows
        n == IF "nx" \in on
             THEN LET w == Counted(bumpedN[kn], IF nx THEN 1 ELSE 0, 0, Burst)
                  IN  Alert(w, w.count >= Burst)
             ELSE [w |-> Fresh(Never), fires |-> FALSE]
        bumpedP == IF "parent" \in on THEN Bump(bumpedN, kp) ELSE bumpedN
        counted == IF "parent" \in on
                   THEN Counted(bumpedP[kp], 1, IF odd THEN 1 ELSE 0, Rate) ELSE Fresh(Never)
        q == Alert(counted, "parent" \in on /\ (counted.count >= Rate \/ counted.odd >= OddAt))
        v == Volume(p, l)
        withN == IF "nx" \in on THEN Bind(bumpedP, kn, n.w) ELSE bumpedP
    IN  /\ Call
        /\ windows' = IF "parent" \in on THEN Bind(withN, kp, q.w) ELSE withN
        /\ IF "volume" \in on THEN volume' = v.map ELSE UNCHANGED volume
        /\ Tell((IF n.fires THEN {kn} ELSE {}) \cup (IF q.fires THEN {kp} ELSE {})
                  \cup (IF "volume" \in on /\ v.fires THEN {<<"volume", p>>} ELSE {}),
                thrownN \cup thrownP
                  \cup (IF "volume" \in on THEN {"volume"} \X v.thrown ELSE {}))
        /\ Remember((IF nx /\ "nx" \in on THEN {kn} ELSE {})
                      \cup (IF "parent" \in on THEN {kp} ELSE {}), Thresholds)
        /\ UNCHANGED <<now, on, beacons, bypass, stacks, start>>

\* TrackWithFingerprint's heuristics, for a connection to a name: the sniffer may
\* have seen its TLS stack, and the address may be one of encrypted DNS, for
\* which trust is not asked.
Connect(p, l, trusted, stack, dns) ==
    LET b == Beacon(<<p, l>>)
        v == Volume(p, l)
        rhythm == "beacon" \in on /\ ~trusted
        names == "volume" \in on /\ ~trusted
        first == IF start = Never THEN now ELSE start
        met == IF "ja4" \in on THEN stack ELSE {}
        passed == IF "bypass" \in on THEN {e \in dns : Bypass(e).fires} ELSE {}
    IN  /\ Call
        /\ IF rhythm THEN beacons' = b.map ELSE UNCHANGED beacons
        /\ IF names THEN volume' = v.map ELSE UNCHANGED volume
        /\ stacks' = stacks \cup met
        /\ start' = IF met # {} THEN first ELSE start
        /\ bypass' = IF passed # {} THEN Bypass(CHOOSE e \in passed : TRUE).map ELSE bypass
        /\ Tell((IF rhythm /\ b.fires THEN {<<"beacon", <<p, l>>>>} ELSE {})
                  \cup (IF names /\ v.fires THEN {<<"volume", p>>} ELSE {})
                  \cup ({"bypass"} \X passed)
                  \cup (IF ~trusted /\ now - first >= Learn THEN {"ja4"} \X (met \ stacks) ELSE {}),
                (IF rhythm THEN {"beacon"} \X b.thrown ELSE {})
                  \cup (IF names THEN {"volume"} \X v.thrown ELSE {}))
        /\ UNCHANGED <<now, on, windows, asked>>

Tick ==
    /\ now < MaxNow
    /\ now' = now + 1 /\ calls' = 0
    /\ Tell({}, {})
    /\ UNCHANGED <<on, windows, volume, beacons, bypass, stacks, start, asked>>

Init ==
    /\ now = 0 /\ calls = 0
    /\ on \in Enabled
    /\ windows = <<>> /\ volume = <<>> /\ beacons = <<>> /\ bypass = <<>>
    /\ stacks = {} /\ start = Never
    /\ fired = {} /\ alerted = [s \in Subject |-> Never] /\ forgotten = {}
    /\ asked = [s \in {x \in Subject : x[1] \in {"nx", "parent"}} |-> <<>>]

AtMostOne(S) == {{}} \cup {{x} : x \in S}

Next ==
    \/ \E c \in Client, p \in Parent, l \in Leaf, nx, odd \in BOOLEAN : RecordQuery(c, p, l, nx, odd)
    \/ \E p \in Parent, l \in Leaf, trusted \in BOOLEAN, stack \in AtMostOne(Stack), dns \in AtMostOne(Endpoint) :
           Connect(p, l, trusted, stack, dns)
    \/ Tick

Spec == Init /\ [][Next]_vars
-----------------------------------------------------------------------------
Cooldown == [nx |-> Window, parent |-> Window, volume |-> VolumeQuiet + 1,
             beacon |-> ReAlert, bypass |-> BypassQuiet, ja4 |-> MaxNow + 1]

\* A finding about s is its first, or comes a cooldown after the one before it, or a
\* memory bound has thrown the record of that one away.
Rested(s) ==
    \/ alerted[s] = Never
    \/ now' - alerted[s] >= Cooldown[s[1]]
    \/ s \in forgotten'

\* Nobody is told the same thing twice within its cooldown, across rollovers of
\* the windows and whatever else goes on, unless a memory bound threw the record
\* of it away in between; an unknown TLS stack is named once (readyToAlert,
\* bumpWindow, recordBeacon, analyzeDomain, bypassReadyLocked).
QuietBetweenFindings ==
    [][\A s \in fired' : Rested(s)]_vars

\* A sweep cannot slip between two windows, or hide behind a cooldown: where twice
\* the burst, less one, fell into any stretch as long as a window, there has been a
\* finding not two windows ago (RecordQuery).
SweepIsSeen ==
    \A s \in DOMAIN asked :
        /\ s[1] \in on
        /\ Len(asked[s]) = 2 * Thresholds[s[1]] - 1
        /\ now - asked[s][1] <= Window
        => alerted[s] # Never /\ now - alerted[s] < 2 * Window
=============================================================================
