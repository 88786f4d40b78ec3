----------------------------- MODULE Resolvers -----------------------------
(***************************************************************************)
(* The rest of the generated config: the DNS block, which outbound         *)
(* resolves through which server, and the checks that end                  *)
(* buildMergedConfig (internal/gateway/gateway_dns.go, gateway_dnsdirect.go, *)
(* gateway_dnsbootstrap.go, gateway_mode.go, invariants.go;                *)
(* internal/dnscfg).  The route rules are RouteLayers', the outbounds      *)
(* Outbounds'.                                                             *)
(*                                                                         *)
(* A DNS server is its tag, its type ("real" for every type that asks      *)
(* another machine) and whether it is dialled through the proxy group.     *)
(***************************************************************************)
EXTENDS RouteLayers, Outbounds

CONSTANTS
    NodeLists, ExitLists, DisabledSets, EndpointLists, GroupConfigs, DNSConfigs,
                   \* what the callers of the Set* methods may pass
    GroupFiles, DNSFiles, \* what the settings files may hold at boot
    SafeTag,       \* the rule sets that hold names only
    MaxChanged     \* bound: how many parts of all settings differ from fresh

\* Nodes, endpoints and groups come in lists.
Listed(lists) == UNION {Elements(l) : l \in lists}
UserGroup == Listed({pg.groups : pg \in GroupConfigs \cup GroupFiles})
Synth == {"fakeip", "hosts"}
ServerTag == {"local", "ali", "doh"} \cup STRING \* those of the defaults, and any other
ServerType ==
    [tag : ServerTag, type : {"local", "real"} \cup Synth, detour : {"", "proxy"}]
DNSType ==
    [servers : Seq(ServerType), rules : Seq([of : SUBSET Entry, server : ServerTag]),
     final : ServerTag, split : BOOLEAN]

ASSUME ResolversAssumption ==
    /\ MaxChanged \in Nat /\ SafeTag \subseteq Tag
    /\ NodeLists \cup ExitLists \subseteq Seq(Listed(NodeLists \cup ExitLists))
    /\ EndpointLists \subseteq Seq(Listed(EndpointLists))
    /\ GroupConfigs \cup GroupFiles \subseteq
         [autoCountry : BOOLEAN, exclude : SUBSET STRING, groups : Seq(UserGroup),
          failover : [interval : Nat, idle : Nat]]
    /\ \A g \in UserGroup :
        /\ g.filter \in {"country", "regex", "manual"}
        /\ g.filter = "manual" => g.value \in Seq(STRING)
    /\ DNSConfigs \cup DNSFiles \subseteq DNSType

\* What a node or a group may be called, and the tags a node may get.
NodeName == {n.tag : n \in Listed(NodeLists \cup ExitLists)}
NodeTag ==
    {e.tag : e \in Listed(EndpointLists)} \cup UNION {Elements(Numbered[name]) : name \in NodeName}
AnyName ==
    NodeName \cup {g.name : g \in UserGroup} \cup {CountryName[Label(t)] : t \in NodeTag}
        \cup {"Auto", "Local", "Overseas"}

\* The tags that can be in use while these get theirs: those of the nodes, the
\* three that are built in, and a group for each node, Auto, Local, Overseas
\* and those of the operator.
MostTags(n, x, e, pg) == 2 * (Len(n) + Len(x) + Len(e)) + Len(pg.groups) + 6

\* uniq counts up from the name and never runs out of tags.
ASSUME NamesAssumption ==
    /\ \A name \in AnyName :
        /\ Numbered[name] \in Seq(STRING) /\ Numbered[name][1] = name
        /\ \A i, j \in DOMAIN Numbered[name] : Numbered[name][i] = Numbered[name][j] => i = j
        /\ "Local" \in Elements(Numbered[name]) => name = "Local"
    /\ \A n \in NodeLists \cup {<<>>}, x \in ExitLists \cup {<<>>}, e \in EndpointLists \cup {<<>>},
          pg \in GroupConfigs \cup GroupFiles, name \in AnyName :
        MostTags(n, x, e, pg) < Len(Numbered[name])

VARIABLES
    nodes,     \* Manager.nodes, the applied nodes
    exits,     \* Manager.gwExits
    disabled,  \* Manager.disabledTags
    endpoints, \* Manager.endpoints
    groups,    \* Manager.pg
    dns,       \* Manager.dns
    mode       \* Manager.mode

settings == <<nodes, exits, disabled, endpoints, groups, dns, mode>>

Server(tag, type, detour) == [tag |-> tag, type |-> type, detour |-> detour]

\* The reserved tag of the resolver that is dialled directly.
Direct == "dns-direct"
DirectServer == Server(Direct, "real", "")

\* Where a tag is among the servers, and what is known of it.
At(block, tag) == {i \in DOMAIN block.servers : block.servers[i].tag = tag}
TypeOf(block, tag) ==
    IF At(block, tag) = {} THEN "" ELSE block.servers[Least(At(block, tag))].type
DetourOf(block, tag) ==
    IF At(block, tag) = {} THEN "" ELSE block.servers[Least(At(block, tag))].detour
Without(servers, tag) == Only(servers, {i \in DOMAIN servers : servers[i].tag # tag})
FirstReal(block) ==
    LET real == {i \in DOMAIN block.servers : block.servers[i].type \notin Synth}
    IN  IF real = {} THEN "" ELSE block.servers[Least(real)].tag

-----------------------------------------------------------------------------
(***************************************************************************)
(* The settings (internal/dnscfg/store.go)                                 *)
(***************************************************************************)
Defaults ==
    [servers |-> <<Server("local", "local", ""), Server("ali", "real", ""),
                   Server("doh", "real", "proxy")>>,
     rules |-> <<>>, final |-> "ali", split |-> TRUE]

AbandonedDefault ==
    [servers |-> <<Server("local", "local", "")>>, rules |-> <<>>, final |-> "local",
     split |-> TRUE]

\* NewStore takes a file as it is, save for the old default.
LoadedDNS(file) == IF file = AbandonedDefault THEN Defaults ELSE file

validate(d) ==
    LET tags == {d.servers[i].tag : i \in DOMAIN d.servers} IN
    /\ d.servers # <<>>
    /\ Direct \notin tags /\ "" \notin tags
    /\ \A i, j \in DOMAIN d.servers : d.servers[i].tag = d.servers[j].tag => i = j
    /\ \A i \in DOMAIN d.rules : d.rules[i].server \in tags /\ d.rules[i].of # {}
    /\ d.final \in tags \cup {""}

\* What a file holds that the API wrote, or an older version: one with the
\* reserved tag behind the proxy group names a final server that asks.
Sound(d) ==
    /\ \A i \in DOMAIN d.servers : d.servers[i].tag # ""
    /\ DetourOf(d, Direct) = "proxy" => d.final # "" /\ TypeOf(d, d.final) \notin Synth

ASSUME DNSFilesAssumption == \A f \in DNSFiles : Sound(f)

-----------------------------------------------------------------------------
(***************************************************************************)
(* The injectors.  A config c has outs, eps, the DNS block, the default    *)
(* resolver and the client that fetches rule sets.                         *)
(***************************************************************************)
Declared == {t \in Tag : sets[t] # "off"}

\* injectDNS: rules keep what exists of their rule sets; the default resolver
\* is one that answers with real addresses.
injectDNS(d) ==
    LET live == [i \in DOMAIN d.rules |->
                    [d.rules[i] EXCEPT !.of = @ \ (Tag \ Declared)]]
        chosen == IF d.final # "" THEN d.final ELSE d.servers[1].tag
        block == [servers |-> d.servers, final |-> d.final,
                  rules |-> Only(live, {i \in DOMAIN live : live[i].of # {}})]
    IN  IF d.servers = <<>> THEN [dns |-> block, resolver |-> ""]
        ELSE [dns |-> block,
              resolver |-> IF TypeOf(block, chosen) \in Synth THEN FirstReal(block) ELSE chosen]

\* declareRuleSetHTTPClient: present as soon as a rule set is fetched.
Client == IF Declared = {} THEN [declared |-> FALSE, resolver |-> ""]
          ELSE [declared |-> TRUE, resolver |-> ""]

\* Bug: the system resolver is replaced, the default that names nothing is not.
BugSanitize(c) ==
    [c EXCEPT !.dns.servers = [i \in DOMAIN c.dns.servers |->
        IF c.dns.servers[i].type = "local" THEN Server(c.dns.servers[i].tag, "real", "proxy")
        ELSE c.dns.servers[i]]]

\* sanitizeTunDNS: under TUN the system resolver would ask the tunnel itself.
TunServer(tag) == Server(tag, "real", "proxy")
sanitizeTunDNS(c) ==
    LET replaced == [i \in DOMAIN c.dns.servers |->
                        IF c.dns.servers[i].type = "local" THEN TunServer(c.dns.servers[i].tag)
                        ELSE c.dns.servers[i]]
        block == [c.dns EXCEPT
                    !.servers = IF \E i \in DOMAIN replaced : replaced[i].type = "real"
                                THEN replaced ELSE Append(replaced, TunServer("tun-dns"))]
        last == IF TypeOf(block, block.final) = "real" THEN block.final ELSE FirstReal(block)
    IN  [c EXCEPT !.dns = [block EXCEPT !.final = last], !.resolver = last]

\* ensureTunHijackAndInterface: DNS queries are taken right below the sniffing.
Hijack == Rule("hijack", {}, "")
ensureTunHijack(rules) ==
    LET sniffs == {i \in DOMAIN rules : rules[i].kind = "sniff"}
        at == IF sniffs = {} THEN 0 ELSE Least(sniffs)
    IN  IF \E i \in DOMAIN rules : rules[i].kind = "hijack" THEN rules
        ELSE Insert(rules, at, <<Hijack>>)

applyMode(c) ==
    IF mode = "tun" THEN sanitizeTunDNS([c EXCEPT !.inbounds = {"tun", "mixed"}]) ELSE c

(***************************************************************************)
(* injectDirectDNS: DNS follows route                                      *)
(***************************************************************************)
\* The resolver a direct dial would use.
Remote(c) ==
    LET real(tag) == tag # "" /\ TypeOf(c.dns, tag) \notin Synth
    IN  CASE real(c.resolver) -> c.resolver
          [] ~real(c.resolver) /\ real(c.dns.final) -> c.dns.final
          [] OTHER -> FirstReal(c.dns)

\* What a route rule says about names: rules that name none, stop the
\* connection or turn their matchers round have no place among the DNS rules.
NameMatchers(r) == r.of \cap (Suffix \cup Glob \cup (SafeTag \cap Declared))
Routes(r) == r.kind = "any" /\ r.out \notin Stopped \cup {""} /\ NameMatchers(r) # {}
Mirrored(rules, remote) ==
    LET routing == Only(rules, {i \in DOMAIN rules : Routes(rules[i])})
    IN  [i \in DOMAIN routing |->
            [of |-> NameMatchers(routing[i]),
             server |-> IF routing[i].out = "direct" THEN Direct ELSE remote]]

\* Bug: unmatched names keep their server whatever the catch-all does.
BugSplitFinal(rules, last) == last

SplitFinal(rules, last) ==
    IF catchAllIdx(rules) \in DOMAIN rules /\ rules[catchAllIdx(rules)].out = "direct"
    THEN Direct ELSE last

\* pinDirectDomainResolver: everything that dials resolves directly.
Pin(o) == IF IsGroup(o) \/ o.type = "block" THEN o ELSE [o EXCEPT !.resolver = Direct]

PinClient(client) == IF client.declared THEN [client EXCEPT !.resolver = Direct] ELSE client

injectDirectDNS(c, d) ==
    LET remote == Remote(c)
        servers == IF At(c.dns, Direct) # {} /\ DetourOf(c.dns, Direct) # "proxy"
                   THEN c.dns.servers
                   ELSE Append(Without(c.dns.servers, Direct), DirectServer)
    IN  IF ~d.split \/ DetourOf(c.dns, remote) # "proxy" THEN c
        ELSE [c EXCEPT
                !.dns = [servers |-> servers,
                         rules |-> c.dns.rules \o Mirrored(c.rules, remote),
                         final |-> SplitFinal(c.rules, c.dns.final)],
                !.outs = [i \in DOMAIN c.outs |-> Pin(c.outs[i])],
                !.client = PinClient(c.client)]

\* Bug: the boot without exits is left alone.
BugHeal(c, d) == c

\* healBootstrapDNS: without an exit the proxy group is a direct dial.
healBootstrapDNS(c, d) ==
    LET servers == IF At(c.dns, Direct) = {} THEN Append(c.dns.servers, DirectServer)
                   ELSE c.dns.servers
    IN  IF \/ ~d.split
           \/ ~proxyHasOnlyDirect(c.outs)
           \/ c.dns.servers = <<>>
           \/ c.dns.final # "" /\ DetourOf(c.dns, c.dns.final) # "proxy"
        THEN c
        ELSE [c EXCEPT
                !.dns = [c.dns EXCEPT !.servers = servers, !.final = Direct],
                !.resolver = Direct]

(***************************************************************************)
(* The checks of applyInvariants                                           *)
(***************************************************************************)
Tags(block) == {block.servers[i].tag : i \in DOMAIN block.servers}

assertDNSRealUpstream(c) ==
    /\ \A i \in DOMAIN c.dns.servers : c.dns.servers[i].type # "local"
    /\ TypeOf(c.dns, c.dns.final) = "real"
    /\ TypeOf(c.dns, c.resolver) = "real"

assertDirectResolverSplit(c, d) ==
    LET first == IF c.resolver # "" THEN c.resolver ELSE c.dns.final IN
    d.split /\ DetourOf(c.dns, first) = "proxy" =>
        /\ At(c.dns, Direct) # {} /\ DetourOf(c.dns, Direct) # "proxy"
        /\ \A i \in DOMAIN c.outs : c.outs[i].type = "direct" =>
                c.outs[i].resolver # "" /\ DetourOf(c.dns, c.outs[i].resolver) # "proxy"

assertResolverReferences(c) ==
    {c.outs[i].resolver : i \in DOMAIN c.outs} \cup {c.client.resolver, c.resolver}
        \subseteq Tags(c.dns) \cup {""}

assertRuleSetReferences(c) ==
    /\ \A i \in DOMAIN c.dns.rules : c.dns.rules[i].of \cap Tag \subseteq Declared
    /\ \A i \in DOMAIN c.rules :
        c.rules[i].kind \in {"any", "none"} => c.rules[i].of \cap Tag \subseteq Declared

\* Manager.rebuild's node list.
Eligible == FilterEligibleNodes(nodes \o exits, disabled)

\* The tags that exist under settings s (Manager.memberTags).
MembersUnder(s) ==
    LET eps == injectEndpoints(s.endpoints)
        eligible == FilterEligibleNodes(s.nodes \o s.exits, s.disabled)
    IN  Targets(injectOutbounds(eligible, eps, s.groups), eps)

(***************************************************************************)
(* applyInvariants, one stage after another; ok says whether every check   *)
(* so far has passed                                                       *)
(***************************************************************************)
EnforceTun(c) ==
    IF mode = "tun" THEN [sanitizeTunDNS(c) EXCEPT !.rules = ensureTunHijack(@)] ELSE c
CheckTun(c) == [c EXCEPT !.ok = mode = "tun" => assertDNSRealUpstream(c)]
CheckSplit(c) == [c EXCEPT !.ok = @ /\ assertDirectResolverSplit(c, dns)]
RepairGroups(c) == [c EXCEPT !.outs = repairProxyGroupLoopbacks(@, loopbackTags(Eligible))]
CheckReferences(c) ==
    [c EXCEPT !.ok = @ /\ assertResolverReferences(c) /\ assertRuleSetReferences(c)]

applyInvariants(c) ==
    CheckReferences(RepairGroups(CheckSplit(
        healBootstrapDNS(injectDirectDNS(CheckTun(EnforceTun(c)), dns), dns))))

\* buildMergedConfig: the injectors of the outbounds, the DNS block and the
\* route rules, then applyInvariants.
Injected(outs, eps, named) ==
    [outs |-> outs, eps |-> eps, dns |-> named.dns, resolver |-> named.resolver,
     client |-> Client, inbounds |-> {"mixed"}, rules |-> Merged, ok |-> TRUE]
WithEndpoints(eps) ==
    applyInvariants(applyMode(Injected(injectOutbounds(Eligible, eps, groups), eps, injectDNS(dns))))
Config == WithEndpoints(injectEndpoints(endpoints))

-----------------------------------------------------------------------------
FreshSettings ==
    [nodes |-> <<>>, exits |-> <<>>, disabled |-> {}, endpoints |-> <<>>,
     groups |-> DefaultGroups, dns |-> Defaults, mode |-> "manual"]
Settings ==
    [nodes |-> nodes, exits |-> exits, disabled |-> disabled, endpoints |-> endpoints,
     groups |-> groups, dns |-> dns, mode |-> mode]

FewChanges(s) ==
    Cardinality({k \in DOMAIN s : s[k] # FreshSettings[k]})
        + Cardinality({k \in DOMAIN Fresh \ {"members"} : Now[k] # Fresh[k]}) <= MaxChanged

GenInit ==
    /\ Init
    /\ nodes = <<>> /\ exits = <<>> /\ disabled = {} /\ endpoints = <<>>
    /\ groups \in {SanitizedGroups(f) : f \in GroupFiles}
    /\ dns \in {LoadedDNS(f) : f \in DNSFiles}
    /\ mode = "manual"

\* A policy setter of RouteLayers.
SetPolicy ==
    /\ \/ SetWhitelist \/ SetBlacklist \/ SetDirectList \/ SetCustomRules
       \/ SetRuleSets \/ SetFinal \/ SetPosture
    /\ UNCHANGED settings
    /\ FewChanges(Settings)'

policy == <<wl, bl, quar, sets, dl, cr, final, posture, clientMode, clashMode, base>>

\* One part of the settings changes, and with it the tags that exist.
Change(part, value) ==
    LET s == [Settings EXCEPT ![part] = value] IN
    /\ FewChanges(s)
    /\ nodes' = s.nodes /\ exits' = s.exits /\ disabled' = s.disabled
    /\ endpoints' = s.endpoints /\ groups' = s.groups /\ dns' = s.dns /\ mode' = s.mode
    /\ UNCHANGED policy
    /\ members' = MembersUnder(s)

SetNodes == \E list \in NodeLists : Change("nodes", list)
SetGatewayExits == \E list \in ExitLists : Change("exits", list)
SetDisabledNodes == \E tags \in DisabledSets : Change("disabled", tags)
SetEndpoints == \E list \in EndpointLists : Change("endpoints", list)
SetProxyGroups == \E pg \in GroupConfigs : ValidGroups(pg) /\ Change("groups", pg)
SetDNS == \E d \in DNSConfigs : validate(d) /\ Change("dns", d)
SetCapture == \E m \in {"manual", "tun"} : Change("mode", m)

GenNext ==
    \/ SetPolicy
    \/ SetNodes \/ SetGatewayExits \/ SetDisabledNodes \/ SetEndpoints
    \/ SetProxyGroups \/ SetDNS \/ SetCapture

GenSpec == GenInit /\ [][GenNext]_<<vars, settings>>
-----------------------------------------------------------------------------
\* The server that answers for a name: the first DNS rule that covers it.
Answer(block, name) ==
    LET hits == {i \in DOMAIN block.rules : \E e \in block.rules[i].of : name \in Covers[e]}
    IN  IF hits = {} THEN block.final ELSE block.rules[Least(hits)].server

TagsOf(c) ==
    [i \in DOMAIN c.outs |-> c.outs[i].tag] \o [i \in DOMAIN c.eps |-> c.eps[i].tag]

\* What is promised of a config c that the settings generate.
Accepted(c) ==
    LET tags == TagsOf(c) IN
    /\ c.ok
    /\ \A i, j \in DOMAIN tags : tags[i] = tags[j] => i = j
    /\ \A i \in DOMAIN c.outs : IsGroup(c.outs[i]) =>
            c.outs[i].members # <<>> /\ Elements(c.outs[i].members) \subseteq Elements(tags)
    /\ \A i \in DOMAIN c.rules : c.rules[i].out \in Elements(tags) \cup {"reject", ""}

\* Rule i sends a connection for name direct: by that name, or as the rest,
\* with no dead rule for the name below.
Named(r, name) == r.kind = "any" /\ \E e \in NameMatchers(r) : name \in Covers[e]
DirectBy(rules, i, name) ==
    /\ rules[i].out = "direct"
    /\ \/ Named(rules[i], name)
       \/ isCatchAllRule(rules[i])
            /\ \A j \in DOMAIN rules : j > i => ~Named(rules[j], name)

\* The server asks, and through the proxy group.
AskedBehind(block, tag) == DetourOf(block, tag) = "proxy" /\ TypeOf(block, tag) \notin Synth

FollowsEgress(c) ==
    \A conn \in {x \in Conn : ~x.byAddr /\ x.name # "" /\ ~x.mgmt} :
        LET hits == Matching(c.rules, conn) IN
        /\ hits # {} /\ DirectBy(c.rules, Least(hits), conn.name)
        /\ \A i \in DOMAIN dns.rules : \A e \in dns.rules[i].of : conn.name \notin Covers[e]
        => ~AskedBehind(c.dns, Answer(c.dns, conn.name))

\* Who resolves by this server, or by the default, asks through the proxy group.
Behind(c, resolver) ==
    DetourOf(c.dns, IF resolver = "" THEN c.resolver ELSE resolver) = "proxy"
Reachable(c) ==
    /\ \A i \in DOMAIN c.outs : c.outs[i].type \in {"direct", "node"} => ~Behind(c, c.outs[i].resolver)
    /\ c.client.declared => ~Behind(c, c.client.resolver)
    /\ proxyHasOnlyDirect(c.outs) => DetourOf(c.dns, c.dns.final) # "proxy"

Chosen(outs) == UNION {Elements(outs[i].members) : i \in {j \in DOMAIN outs : outs[j].tag = "proxy"}}
StayManual(outs, loopback) ==
    /\ \A i \in DOMAIN outs :
        outs[i].type = "urltest" =>
            Elements(outs[i].members) \subseteq loopback
                \/ Elements(outs[i].members) \cap loopback = {}
    /\ \A t \in loopback : \E i \in DOMAIN outs :
        IsGroup(outs[i]) /\ outs[i].tag \in Chosen(outs) /\ t \in Elements(outs[i].members)

-----------------------------------------------------------------------------
\* No accepted setting makes a config the gateway or the box refuses: none of
\* the checks of applyInvariants fires, every group has members and every rule an
\* outbound that exist, every tag is used once, and groups are not probed after
\* they went idle; for nodes whose names are not those of other outbounds
\* (applyInvariants: "a dangling reference now fails where the config is built").
ConfigIsAccepted ==
    Accepted(Config) /\ Interval(groups.failover) <= IdleTimeout(groups.failover)

\* A name whose connection goes direct is resolved by a server that is dialled
\* directly too, whatever the rules, roles, postures and servers are, unless
\* the operator's own DNS rules say otherwise or the address decided the route
\* (injectDirectDNS: "every domain is resolved by the resolver that matches its
\* egress").
AnswersFollowEgress == dns.split /\ clashMode = "Rule" => FollowsEgress(Config)

\* Whoever dials a server by its host name can find it without going through
\* it: no outbound and no rule-set download resolves behind the proxy group, and
\* without an exit nothing does, so that the first subscription can be fetched
\* (injectDirectDNS "Resolving it direct breaks that circle", healBootstrapDNS).
ResolversAreReachable == dns.split => Reachable(Config)

\* No automatic choice falls on an exit on this machine while a group has
\* another member, in the groups of the operator too, and such an exit can still
\* be chosen by hand (isLoopbackHost, repairProxyGroupLoopbacks).
LocalExitsStayManual == StayManual(Config.outs, loopbackTags(Eligible))
=============================================================================
