---------------------------- MODULE RouteLayers ----------------------------
(***************************************************************************)
(* The route table the gateway generates from its policy.  Every Set*      *)
(* method changes one part of the policy and rebuilds; buildMergedConfig   *)
(* starts from the rules of the base config and lets one injector after    *)
(* another insert its rules, either after the prelude or before the        *)
(* catch-all (internal/gateway/gateway.go, gateway_security.go,            *)
(* gateway_rulesets.go, gateway_mode.go, gateway_allow.go).  The box takes *)
(* the first rule that matches a connection.  EffectiveRules, the view     *)
(* "why is this allowed or blocked", computes its list separately          *)
(* (gateway_effective.go).                                                 *)
(*                                                                         *)
(* A list entry (domain suffix, glob, CIDR, rule-set tag) is the set of    *)
(* names and addresses it covers.  A connection dialled by name shows the  *)
(* rules its address only below the resolve rule.  Every change here is    *)
(* one that was applied: what a rebuild that fails does is in Rebuild.     *)
(***************************************************************************)
EXTENDS Integers, Sequences, FiniteSets

CONSTANTS
    Suffix, Glob, CIDR, Tag, \* the entries of each kind
    Covers,     \* the names and addresses each of them covers
    Private,    \* the entry of the built-in private ranges
    Member,     \* tags of nodes, endpoints and groups
    Conn,       \* the connections that are considered
    Bases,      \* base configs: their rules and their route.final
    Whitelists, Denylists, Quarantines, DirectLists, CustomLists, Profiles,
                \* what the callers of the Set* methods may pass
    MaxTouched  \* bound: how many parts of a policy differ from a fresh one

Dest == Suffix \cup Glob \cup CIDR
Entry == Dest \cup Tag
Roles == {"off", "deny", "permit", "route-direct", "route-proxy",
          "permit+route-direct", "permit+route-proxy"}
Builtin == {"direct", "proxy", "blocked"}
Outbound == Builtin \cup Member
Everything == {"tcp", "udp"}

\* The custom rules; the node of one need not exist.
CustomRule == UNION {{l[i] : i \in DOMAIN l} : l \in CustomLists}

\* What a base config may hold: the prelude, rules the operator wrote, the
\* catch-all.
BaseRule == [kind : {"sniff", "any"}, of : SUBSET Entry, out : Outbound \cup {"reject", ""}]
                \cup [kind : {"network"}, of : SUBSET (Everything \cup {"443"}),
                      out : Outbound \cup {"reject", ""}]

ASSUME RouteLayersAssumption ==
    /\ MaxTouched \in Nat
    /\ Private \in CIDR
    /\ Member \cap (Builtin \cup {"reject", ""}) = {}
    /\ \A c \in Conn : c.net \in Everything
    /\ Bases \subseteq [rules : Seq(BaseRule), final : Outbound]
    /\ Denylists \cup Quarantines \subseteq SUBSET Dest
    /\ \A w \in Whitelists : w.dests \subseteq Dest
    /\ DirectLists \subseteq [dests : SUBSET Dest, bypass : BOOLEAN]
    /\ CustomLists \subseteq Seq(CustomRule)
    /\ \A r \in CustomRule :
        /\ r.at \in Dest /\ r.permit \in {"yes", "no", "unset"}
        /\ r.egress \in {"none", "direct", "proxy", "block", "node"}
    /\ \A p \in Profiles :
        /\ p.wl \in Whitelists /\ p.bl \in Denylists /\ p.dl \in DirectLists
        /\ p.cr \in CustomLists /\ p.sets \in [Tag -> Roles] /\ p.members \subseteq Member
        /\ p.final \in Outbound \cup {""} /\ p.posture \in {"strict", "split"}

VARIABLES
    wl,        \* the whitelist: dests, processes, devices
    bl,        \* the deny list
    quar,      \* what the gateway quarantined itself
    sets,      \* the role of each rule set, "off" for a disabled one
    dl,        \* the no-proxy list: dests, and whether it has Private
    cr,        \* the enabled custom rules, in their order
    members,   \* the tags that exist now
    final,     \* the configured Final
    posture,   \* "strict" or "split"
    clientMode,\* this gateway is the client of another one
    clashMode, \* the live "Rule" or "Global" selection
    base       \* the config file

vars == <<wl, bl, quar, sets, dl, cr, members, final, posture, clientMode,
          clashMode, base>>

Fresh == [wl |-> [dests |-> {}, procs |-> {}, devs |-> {}], bl |-> {},
          quar |-> {}, sets |-> [t \in Tag |-> "off"],
          dl |-> [dests |-> {}, bypass |-> TRUE], cr |-> <<>>,
          members |-> {}, final |-> "direct", posture |-> "strict",
          clientMode |-> FALSE, clashMode |-> "Rule"]

Now == [wl |-> wl, bl |-> bl, quar |-> quar, sets |-> sets, dl |-> dl,
        cr |-> cr, members |-> members, final |-> final, posture |-> posture,
        clientMode |-> clientMode, clashMode |-> clashMode]

TypeOK ==
    /\ wl.dests \subseteq Dest
    /\ bl \subseteq Dest /\ quar \subseteq Dest
    /\ sets \in [Tag -> Roles]
    /\ dl \in [dests : SUBSET Dest, bypass : BOOLEAN]
    /\ cr \in Seq(CustomRule)
    /\ members \subseteq Member
    /\ final \in Outbound
    /\ posture \in {"strict", "split"}
    /\ clientMode \in BOOLEAN
    /\ clashMode \in {"Rule", "Global"}
    /\ base \in Bases

(***************************************************************************)
(* Rules and the first match                                               *)
(***************************************************************************)
Rule(kind, of, out) == [kind |-> kind, of |-> of, out |-> out]

\* A rule that is only written when its list has something in it.
RuleIfAny(kind, of, out) == IF of = {} THEN <<>> ELSE <<Rule(kind, of, out)>>

\* Bug: any rule with a network matcher is taken for the catch-all.
BugAnyNetworkRule(r) == r.kind = "network"

isCatchAllRule(r) == r.kind = "network" /\ r.of = Everything

\* Whether entry e covers connection c, whose address may not be known yet.
Hits(e, c, known) == c.name \in Covers[e] \/ (known /\ c.addr \in Covers[e])
HitsAny(S, c, known) == \E e \in S : Hits(e, c, known)

Matches(r, c, known) ==
    \/ r.kind = "port" /\ c.mgmt
    \/ r.kind = "any" /\ HitsAny(r.of, c, known)
    \/ r.kind = "none" /\ ~HitsAny(r.of, c, known)
    \/ r.kind = "process" /\ c.proc \notin r.of
    \/ r.kind = "device" /\ c.dev \notin r.of
    \/ r.kind = "mode" /\ clashMode \in r.of
    \/ r.kind = "network" /\ c.net \in r.of /\ ("443" \in r.of => c.quic)

Least(S) == CHOOSE i \in S : \A j \in S : i <= j

\* The positions of the rules that match c; an address is known to a rule
\* below the resolve rule.
Matching(rules, c) ==
    {i \in DOMAIN rules :
        Matches(rules[i], c,
            c.byAddr \/ \E j \in 1 .. i - 1 : rules[j].kind = "resolve")}

\* Without a match the box uses route.final.
Verdict(rules, c) ==
    IF Matching(rules, c) = {} THEN base.final
    ELSE rules[Least(Matching(rules, c))].out

Stopped == {"reject", "blocked"}

preludeLen(rules) ==
    Least({n \in 0 .. Len(rules) : n = Len(rules) \/ rules[n + 1].kind # "sniff"})

catchAllIdx(rules) ==
    Least({n \in 1 .. Len(rules) + 1 :
              n = Len(rules) + 1 \/ isCatchAllRule(rules[n])})

Insert(rules, n, new) ==
    SubSeq(rules, 1, n) \o new \o SubSeq(rules, n + 1, Len(rules))

AfterPrelude(rules, new) == Insert(rules, preludeLen(rules), new)
BeforeCatchAll(rules, new) == Insert(rules, catchAllIdx(rules) - 1, new)

(***************************************************************************)
(* Roles, custom rules and Final                                           *)
(***************************************************************************)
WithRole(R) == {t \in Tag : sets[t] \in R}
DenySets == WithRole({"deny"})
PermitSets == WithRole({"permit", "permit+route-direct", "permit+route-proxy"})
ProxySets == WithRole({"route-proxy", "permit+route-proxy"})
DirectSets == WithRole({"route-direct", "permit+route-direct"})

GrantsPermit(r) ==
    \/ r.permit = "yes"
    \/ r.permit = "unset" /\ r.egress # "block"

\* A rule whose node is gone is skipped, its permit included.
Live(r) == r.egress = "node" => r.node \in members

CustomEgress(r) ==
    CASE r.egress = "direct" -> "direct"
      [] r.egress = "proxy" -> IF r.node \in members THEN r.node ELSE "proxy"
      [] r.egress = "block" -> "blocked"
      [] r.egress = "node" -> r.node

resolveFinal(f) == IF f \in Builtin \cup members THEN f ELSE "direct"

CustomPermits == {cr[i].at : i \in {j \in DOMAIN cr : Live(cr[j]) /\ GrantsPermit(cr[j])}}

\* A custom rule that routes nothing leaves a rule that covers nothing.
customEgress ==
    [i \in DOMAIN cr |->
        IF Live(cr[i]) /\ cr[i].egress # "none"
        THEN Rule("any", {cr[i].at}, CustomEgress(cr[i])) ELSE Rule("any", {}, "")]

splitOpen == clientMode \/ posture = "split"
hasUserPermit == wl.dests # {} \/ PermitSets # {} \/ CustomPermits # {}
GatePermits == wl.dests \cup {Private} \cup PermitSets \cup CustomPermits
DirectRanges == (dl.dests \cap CIDR) \cup (IF dl.bypass THEN {Private} ELSE {})

(***************************************************************************)
(* The injectors, in the order buildMergedConfig calls them                *)
(***************************************************************************)
Lists(S, out) ==
    RuleIfAny("any", S \cap Suffix, out) \o RuleIfAny("any", S \cap Glob, out)
        \o RuleIfAny("any", S \cap CIDR, out)

injectBlacklist(rules) == AfterPrelude(rules, Lists(bl, "reject"))

injectQuarantine(rules) == AfterPrelude(rules, Lists(quar, "reject"))

injectRuleSets(rules) == AfterPrelude(rules, RuleIfAny("any", DenySets, "reject"))

injectProcessDeviceFloor(rules) ==
    AfterPrelude(rules, RuleIfAny("process", wl.procs, "reject")
                            \o RuleIfAny("device", wl.devs, "reject"))

\* Bug: the bypass is put on top, like the floor.
BugGlobalAfterPrelude(rules) ==
    AfterPrelude(rules, <<Rule("mode", {"Global"}, "proxy")>>)

\* The rule is always there; only the live mode "Global" makes it match.
injectClashModeGlobal(rules) ==
    BeforeCatchAll(rules, <<Rule("mode", {"Global"}, "proxy")>>)

\* Bug: a missing catch-all is not appended.
BugOnlyRewrites(rules, out) ==
    LET at == catchAllIdx(rules)
    IN  IF at <= Len(rules)
        THEN [rules EXCEPT ![at] = Rule("network", Everything, out)] ELSE rules

\* The catch-all with the given outbound: rewritten, or appended.
ensureCatchAll(rules, out) ==
    LET at == catchAllIdx(rules)
        catchAll == Rule("network", Everything, out)
    IN  IF at <= Len(rules) THEN [rules EXCEPT ![at] = catchAll]
        ELSE Append(rules, catchAll)

\* Bug: custom rules above the no-proxy names, as they once were.
BugCustomFirst ==
    customEgress
        \o RuleIfAny("any", dl.dests \cap Suffix, "direct")
        \o RuleIfAny("any", dl.dests \cap Glob, "direct")
        \o RuleIfAny("any", DirectRanges, "direct")
        \o RuleIfAny("any", ProxySets, "proxy")
        \o RuleIfAny("any", DirectSets, "direct")

Egress ==
    RuleIfAny("any", dl.dests \cap Suffix, "direct")
        \o customEgress
        \o RuleIfAny("any", dl.dests \cap Glob, "direct")
        \o RuleIfAny("any", DirectRanges, "direct")
        \o RuleIfAny("any", ProxySets, "proxy")
        \o RuleIfAny("any", DirectSets, "direct")

Gate == IF splitOpen THEN <<>> ELSE <<Rule("none", GatePermits, "blocked")>>

\* With a gate, or in Split, the catch-all sends to Final.
FlipCatchAll(rules) ==
    LET at == catchAllIdx(rules)
    IN  IF at <= Len(rules) THEN [rules EXCEPT ![at].out = resolveFinal(final)]
        ELSE Append(rules, Rule("network", Everything, resolveFinal(final)))

injectAllow(rules) ==
    IF ~hasUserPermit /\ ~splitOpen THEN ensureCatchAll(rules, "blocked")
    ELSE FlipCatchAll(
            BeforeCatchAll(rules, Gate \o <<Rule("resolve", {}, "")>> \o Egress))

injectManagement(rules) ==
    AfterPrelude(rules, <<Rule("port", {"management"}, "direct")>>)

Floor(rules) ==
    injectProcessDeviceFloor(injectRuleSets(injectQuarantine(injectBlacklist(rules))))

Merged == injectManagement(injectAllow(injectClashModeGlobal(Floor(base.rules))))

(***************************************************************************)
(* EffectiveRules: the same policy as the console shows it.  Entries the   *)
(* view marks as skipped are left out.                                     *)
(***************************************************************************)
\* Bug: the view does not read the quarantine, as it once did not.
BugViewFloor ==
    Lists(bl, "reject")
        \o RuleIfAny("any", DenySets, "reject")
        \o RuleIfAny("process", wl.procs, "reject")
        \o RuleIfAny("device", wl.devs, "reject")

ViewFloor ==
    Lists(bl, "reject")
        \o Lists(quar, "reject")
        \o RuleIfAny("any", DenySets, "reject")
        \o RuleIfAny("process", wl.procs, "reject")
        \o RuleIfAny("device", wl.devs, "reject")

ViewRoute ==
    customEgress
        \o RuleIfAny("any", dl.dests \cap Suffix, "direct")
        \o RuleIfAny("any", dl.dests \cap Glob, "direct")
        \o RuleIfAny("any", DirectRanges, "direct")
        \o RuleIfAny("any", ProxySets, "proxy")
        \o RuleIfAny("any", DirectSets, "direct")

EffectiveRules ==
    <<Rule("sniff", {}, ""), Rule("port", {"management"}, "direct")>>
        \o ViewFloor
        \o <<Rule("mode", {"Global"}, "proxy")>>
        \o (IF ~hasUserPermit /\ ~splitOpen
            THEN <<Rule("network", Everything, "blocked")>>
            ELSE Gate \o <<Rule("resolve", {}, "")>> \o ViewRoute
                    \o <<Rule("network", Everything, resolveFinal(final))>>)

(***************************************************************************)
(* The Set* methods                                                        *)
(***************************************************************************)
Init ==
    /\ wl = Fresh.wl /\ bl = Fresh.bl /\ quar = Fresh.quar
    /\ sets = Fresh.sets /\ dl = Fresh.dl /\ cr = Fresh.cr
    /\ members = Fresh.members /\ final = Fresh.final
    /\ posture = Fresh.posture /\ clientMode = Fresh.clientMode
    /\ clashMode = Fresh.clashMode
    /\ base \in Bases

Bounded == Cardinality({k \in DOMAIN Fresh : Now[k] # Fresh[k]}) <= MaxTouched

SetWhitelist ==
    /\ wl' \in Whitelists
    /\ UNCHANGED <<bl, quar, sets, dl, cr, members, final, posture, clientMode, clashMode, base>>
    /\ Bounded'

SetBlacklist ==
    /\ bl' \in Denylists
    /\ UNCHANGED <<wl, quar, sets, dl, cr, members, final, posture, clientMode, clashMode, base>>
    /\ Bounded'

SetQuarantine ==
    /\ quar' \in Quarantines
    /\ UNCHANGED <<wl, bl, sets, dl, cr, members, final, posture, clientMode, clashMode, base>>
    /\ Bounded'

SetDirectList ==
    /\ dl' \in DirectLists
    /\ UNCHANGED <<wl, bl, quar, sets, cr, members, final, posture, clientMode, clashMode, base>>
    /\ Bounded'

SetCustomRules ==
    /\ cr' \in CustomLists
    /\ UNCHANGED <<wl, bl, quar, sets, dl, members, final, posture, clientMode, clashMode, base>>
    /\ Bounded'

SetRuleSets ==
    /\ sets' \in [Tag -> Roles]
    /\ UNCHANGED <<wl, bl, quar, dl, cr, members, final, posture, clientMode, clashMode, base>>
    /\ Bounded'

\* New nodes; the endpoints, gateway exits, disabled nodes and groups change
\* the tags that exist in the same way.
Apply ==
    /\ members' \in SUBSET Member
    /\ UNCHANGED <<wl, bl, quar, sets, dl, cr, final, posture, clientMode, clashMode, base>>
    /\ Bounded'

\* Final may name a tag that does not exist, or no longer does.
SetFinal ==
    /\ final' \in Outbound
    /\ UNCHANGED <<wl, bl, quar, sets, dl, cr, members, posture, clientMode, clashMode, base>>
    /\ Bounded'

SetPosture ==
    /\ posture' \in {"strict", "split"}
    /\ UNCHANGED <<wl, bl, quar, sets, dl, cr, members, final, clientMode, clashMode, base>>
    /\ Bounded'

SetClientMode ==
    /\ clientMode' \in BOOLEAN
    /\ UNCHANGED <<wl, bl, quar, sets, dl, cr, members, final, posture, clashMode, base>>
    /\ Bounded'

\* Live, without a rebuild; "Direct" is refused (internal/api/clashmode.go).
SetClashMode ==
    /\ clashMode' \in {"Rule", "Global"}
    /\ UNCHANGED <<wl, bl, quar, sets, dl, cr, members, final, posture, clientMode, base>>
    /\ Bounded'

\* A whole policy at once; "" keeps the current Final.  The quarantine is not
\* part of a profile.
ApplyProfile ==
    /\ \E p \in Profiles :
        /\ wl' = p.wl /\ bl' = p.bl /\ dl' = p.dl /\ cr' = p.cr
        /\ sets' = p.sets /\ members' = p.members
        /\ final' = IF p.final # "" THEN p.final ELSE final
        /\ posture' = p.posture
    /\ UNCHANGED <<quar, clientMode, clashMode, base>>
    /\ Bounded'

Next ==
    \/ SetWhitelist \/ SetBlacklist \/ SetQuarantine \/ SetDirectList
    \/ SetCustomRules \/ SetRuleSets \/ Apply \/ SetFinal \/ SetPosture
    \/ SetClientMode \/ SetClashMode \/ ApplyProfile

Spec == Init /\ [][Next]_vars

(***************************************************************************)
(* What the layers promise, stated from the policy and not from the rules  *)
(***************************************************************************)
\* Something on the security floor speaks against c, as it was dialled.
Denied(c) ==
    \/ HitsAny(bl \cup quar, c, c.byAddr)
    \/ \E t \in Tag : sets[t] = "deny" /\ Hits(t, c, c.byAddr)
    \/ wl.procs # {} /\ c.proc \notin wl.procs
    \/ wl.devs # {} /\ c.dev \notin wl.devs

\* The permits that count: those of the whitelist, of permitting rule sets and
\* of live custom rules.
Permits ==
    wl.dests \cup {t \in Tag : sets[t] \in {"permit", "permit+route-direct",
                                           "permit+route-proxy"}}
        \cup {cr[i].at : i \in {j \in DOMAIN cr : Live(cr[j]) /\ GrantsPermit(cr[j])}}

\* c may leave: nothing gates it, or it is permitted; the private ranges are
\* permitted as soon as anything is.
Admitted(c) ==
    \/ splitOpen
    \/ clashMode = "Global"
    \/ HitsAny(Permits, c, c.byAddr)
    \/ Permits # {} /\ Hits(Private, c, c.byAddr)

\* A rule the operator wrote in the base config decides c.
DecidedByBase(c) ==
    \E i \in DOMAIN base.rules :
        /\ ~isCatchAllRule(base.rules[i])
        /\ Matches(base.rules[i], c, c.byAddr)

\* Nothing leaves unless it is the box's own management traffic, or is not denied
\* and either admitted or decided by a rule the operator wrote into the base
\* config: whatever the lists, roles, Final, posture, nodes and base config are,
\* Route sources never permit (injectAllow), and a missing catch-all or a
\* catch-all look-alike never opens the gateway (ensureCatchAll,
\* isCatchAllRule).
NothingUnadmittedLeaves ==
    LET rules == Merged IN
    \A c \in Conn :
        Verdict(rules, c) \notin Stopped =>
            c.mgmt \/ (~Denied(c) /\ (Admitted(c) \/ DecidedByBase(c)))

\* What the floor denies is rejected in every posture and in Global mode, and a
\* profile does not release the quarantine: the floor stays above every rule
\* the later injectors write, whichever parts of it exist.
DeniedIsRejected ==
    LET rules == Merged IN
    \A c \in Conn : Denied(c) /\ ~c.mgmt => Verdict(rules, c) = "reject"

\* An admitted connection is stopped only by something the operator said about
\* it: a custom block rule, a rule of the base config, or Final = blocked.  In
\* particular no list, node or catch-all of the base config shuts off what the
\* gate lets through, the private ranges included (injectAllow).
AdmittedIsStoppedOnlyOnPurpose ==
    LET rules == Merged IN
    \A c \in Conn :
        Admitted(c) /\ ~Denied(c) /\ Verdict(rules, c) \in Stopped =>
            \/ final = "blocked"
            \/ DecidedByBase(c)
            \/ \E i \in DOMAIN cr : cr[i].egress = "block" /\ Hits(cr[i].at, c, TRUE)

\* A plain no-proxy name is never overridden by a custom rule, a rule set or
\* Final: once admitted, it goes direct (injectAllow, the order of L4).
NoProxyNameGoesDirect ==
    LET rules == Merged IN
    \A c \in Conn :
        /\ HitsAny(dl.dests \cap Suffix, c, FALSE)
        /\ Admitted(c) /\ ~Denied(c) /\ clashMode = "Rule" /\ ~DecidedByBase(c)
        => Verdict(rules, c) = "direct"

\* What decides c above the Route layer, "route" when nothing does.
AboveRoute(rules, c) ==
    IF \E i \in DOMAIN rules : /\ rules[i].kind = "resolve"
                               /\ \A j \in Matching(rules, c) : i < j
    THEN "route" ELSE Verdict(rules, c)

\* The view and the box agree, down to the gate, on what becomes of every
\* connection no hand-written rule decides: EffectiveRules leaves out no source
\* of a reject or a permit, though it lists the floor in another order
\* (gateway_effective.go).
ViewExplainsTheGate ==
    LET rules == Merged
        view == EffectiveRules
    IN  \A c \in Conn : ~DecidedByBase(c) => AboveRoute(view, c) = AboveRoute(rules, c)
=============================================================================
