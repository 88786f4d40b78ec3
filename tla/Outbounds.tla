----------------------------- MODULE Outbounds -----------------------------
(***************************************************************************)
(* The outbounds of the generated config: which of the nodes a provider    *)
(* sends are used and under which tags, the WireGuard and Tailscale        *)
(* endpoints, and the groups over them that end in the selector "proxy"    *)
(* (internal/gateway/gateway_proxygroups.go, invariants.go;                *)
(* internal/proxygroups).                                                  *)
(*                                                                         *)
(* A node is what a provider calls it, whether its outbound can be read    *)
(* ("usable"), whether it is an advertising line ("junk"), and its host:   *)
(* an address, a host name, or this machine ("loop").                      *)
(***************************************************************************)
EXTENDS Integers, Sequences, FiniteSets
Seqs == INSTANCE SequencesExt

CONSTANTS
    Numbered,   \* [name -> the tags tried for it: itself, then -2, -3 ...]
    CountryOf,  \* [tag -> the country its text names, or ""]
    CountryName, \* [country -> the name of its group]
    DefaultExcludeCountries

Elements(s) == {s[i] : i \in DOMAIN s}

\* The entries of s at the positions in S, in their order.
Only(s, S) ==
    [k \in 1 .. Cardinality(S) |-> s[CHOOSE i \in S : Cardinality({j \in S : j <= i}) = k]]

\* uniq: the first tag for this name that is not taken.
FirstFree(used, name) ==
    LET tried == Numbered[name] IN
    tried[CHOOSE i \in DOMAIN tried :
              tried[i] \notin used /\ \A j \in 1 .. i - 1 : tried[j] \in used]

\* The tags these names get one after another, beside those in use.
Distinct(used, names) ==
    LET first[n \in 0 .. Len(names)] ==
            IF n = 0 THEN <<>>
            ELSE Append(first[n - 1], FirstFree(used \cup Elements(first[n - 1]), names[n]))
    IN  first[Len(names)]

Out(tag, type, members, host) ==
    [tag |-> tag, type |-> type, members |-> members, host |-> host, resolver |-> ""]

-----------------------------------------------------------------------------
Usable(nodes) == Only(nodes, {i \in DOMAIN nodes : nodes[i].usable})

\* memberTags: the tags of the usable nodes, in their order.
memberTags(nodes) ==
    LET usable == Usable(nodes) IN
    Distinct({}, [i \in DOMAIN usable |-> usable[i].tag])

\* FilterEligibleNodes: a node is disabled under the tag it has in the whole list.
FilterEligibleNodes(nodes, disabled) ==
    LET usable == Usable(nodes)
        tags == memberTags(nodes)
    IN  Only(usable, {i \in DOMAIN usable : ~usable[i].junk /\ tags[i] \notin disabled})

loopbackTags(nodes) ==
    LET usable == Usable(nodes)
        tags == memberTags(nodes)
    IN  {tags[i] : i \in {j \in DOMAIN usable : usable[j].host = "loop"}}

injectEndpoints(list) ==
    LET enabled == Only(list, {i \in DOMAIN list : list[i].enabled}) IN
    [i \in DOMAIN enabled |-> Out(enabled[i].tag, "endpoint", <<>>, enabled[i].host)]

\* A user group's members, in the order of the pool; by hand in the order given.
groupMembers(g, tags) ==
    CASE g.filter = "country" -> Only(tags, {i \in DOMAIN tags : CountryOf[tags[i]] = g.value})
      [] g.filter = "regex" -> Only(tags, {i \in DOMAIN tags : tags[i] \in g.value})
      [] g.filter = "manual" ->
            Only(g.value, {i \in DOMAIN g.value : g.value[i] \in Elements(tags)})

Group(type, name, members) == [type |-> type, name |-> name, members |-> members]
If(condition, group) == IF condition THEN <<group>> ELSE <<>>

Label(tag) == IF CountryOf[tag] = "" THEN "Other" ELSE CountryOf[tag]

\* Auto holds what is not on this machine, unless there is nothing else.
AutoMembers(remote, tags) == IF remote = <<>> THEN tags ELSE remote

\* Everything abroad, when the exclusion leaves out somebody and somebody in;
\* a node that does not say where it is stays out.
Overseas(remote, excluded) ==
    LET known == {i \in DOMAIN remote : CountryOf[remote[i]] # ""}
        allowed == {i \in known : CountryOf[remote[i]] \notin excluded}
    IN  If(allowed \notin {{}, known}, Group("urltest", "Overseas", Only(remote, allowed)))

\* One group to a country in the order of their first nodes, unless no node
\* says where it is.
Countries(remote) ==
    LET labels == [i \in DOMAIN remote |-> Label(remote[i])]
        order == Only(labels, {i \in DOMAIN labels :
                                  \A j \in 1 .. i - 1 : labels[j] # labels[i]})
    IN  IF Elements(order) \subseteq {"Other"} THEN <<>>
        ELSE [i \in DOMAIN order |->
                Group("urltest", CountryName[order[i]],
                      Only(remote, {j \in DOMAIN remote : labels[j] = order[i]}))]

Strategy(g) == IF g.type = "select" THEN "selector" ELSE "urltest"
UserGroups(pg, tags) ==
    LET made == [i \in DOMAIN pg.groups |->
                    Group(Strategy(pg.groups[i]), pg.groups[i].name,
                          groupMembers(pg.groups[i], tags))]
    IN  Only(made, {i \in DOMAIN made : made[i].members # <<>>})

\* The groups before they have their tags.
Wanted(tags, loopback, pg) ==
    LET remote == Only(tags, {i \in DOMAIN tags : tags[i] \notin loopback})
        local == Only(tags, {i \in DOMAIN tags : tags[i] \in loopback})
    IN  <<Group("urltest", "Auto", AutoMembers(remote, tags))>>
            \o If(local # <<>> /\ remote # <<>>, Group("selector", "Local", local))
            \o (IF pg.exclude = {} THEN <<>> ELSE Overseas(remote, pg.exclude))
            \o (IF pg.autoCountry THEN Countries(remote) ELSE <<>>)
            \o UserGroups(pg, tags)

\* buildProxyGroups: the groups, then the selector over them; no group takes a
\* tag that exists.
buildProxyGroups(tags, loopback, pg) ==
    LET wanted == Wanted(tags, loopback, pg)
        names == Distinct(Elements(tags) \cup {"direct", "blocked", "proxy"},
                          [i \in DOMAIN wanted |-> wanted[i].name])
        groups == [i \in DOMAIN wanted |-> Out(names[i], wanted[i].type, wanted[i].members, "")]
    IN  IF tags = <<>> THEN <<Out("proxy", "selector", <<"direct">>, "")>>
        ELSE Append(groups, Out("proxy", "selector", names, ""))

\* injectOutbounds, on the outbounds of the shipped config.
injectOutbounds(nodes, endpoints, pg) ==
    LET usable == Usable(nodes)
        tags == memberTags(nodes)
    IN  <<Out("direct", "direct", <<>>, ""), Out("blocked", "block", <<>>, "")>>
        \o [i \in DOMAIN usable |-> Out(tags[i], "node", <<>>, usable[i].host)]
        \o buildProxyGroups(tags \o [i \in DOMAIN endpoints |-> endpoints[i].tag],
                            loopbackTags(nodes), pg)

IsGroup(o) == o.type \in {"selector", "urltest"}

\* The tags a rule or Final may name besides the built-in ones.
Targets(outs, endpoints) ==
    ({outs[i].tag : i \in DOMAIN outs} \cup {endpoints[i].tag : i \in DOMAIN endpoints})
        \ {"direct", "blocked", "proxy"}

\* Whether the proxy selector leads to an exit.
proxyHasOnlyDirect(outs) ==
    \A i \in DOMAIN outs : outs[i].tag = "proxy" => Elements(outs[i].members) \subseteq {"direct"}

-----------------------------------------------------------------------------
\* repairProxyGroupLoopbacks: takes the nodes on this machine out of every group
\* that keeps another member, and puts them behind "Local" in the selector.
Stripped(o, loopback) ==
    Only(o.members, {i \in DOMAIN o.members : o.members[i] \notin loopback})

BesideAuto(members) ==
    LET at == IF "Auto" \in Elements(members)
              THEN CHOOSE i \in DOMAIN members : members[i] = "Auto" ELSE Len(members)
    IN  SubSeq(members, 1, at) \o <<"Local">> \o SubSeq(members, at + 1, Len(members))

Repairable(o, loopback) ==
    /\ o.tag = "Auto" \/ (IsGroup(o) /\ o.tag \notin {"Local", "proxy"})
    /\ Stripped(o, loopback) # <<>>
StrippedAll(outs, loopback) ==
    [i \in DOMAIN outs |->
        IF Repairable(outs[i], loopback)
        THEN [outs[i] EXCEPT !.members = Stripped(outs[i], loopback)] ELSE outs[i]]

AddLocal(outs, loopback) ==
    LET at == CHOOSE i \in DOMAIN outs : outs[i].tag = "proxy" IN
    IF \E i \in DOMAIN outs : outs[i].tag = "Local" THEN outs
    ELSE SubSeq(outs, 1, at - 1)
            \o <<Out("Local", "selector", Seqs!SetToSeq(loopback), "")>>
            \o SubSeq(outs, at, Len(outs))

OfferLocal(outs) ==
    [i \in DOMAIN outs |->
        IF outs[i].tag = "proxy" /\ "Local" \notin Elements(outs[i].members)
        THEN [outs[i] EXCEPT !.members = BesideAuto(@)] ELSE outs[i]]

\* Bug: the groups of the operator are left as they are.
BugRepair(outs, loopback) == outs

repairProxyGroupLoopbacks(outs, loopback) ==
    CASE loopback = {} -> outs
      [] /\ loopback # {}
         /\ ~\E i \in DOMAIN outs : outs[i].tag = "Auto" /\ Repairable(outs[i], loopback) ->
            StrippedAll(outs, loopback)
      [] OTHER -> OfferLocal(AddLocal(StrippedAll(outs, loopback), loopback))

-----------------------------------------------------------------------------
(***************************************************************************)
(* The group settings (internal/proxygroups/store.go)                      *)
(***************************************************************************)
DefaultGroups ==
    [autoCountry |-> TRUE, exclude |-> DefaultExcludeCountries, groups |-> <<>>,
     failover |-> [interval |-> 0, idle |-> 0]]

Reserved == {"proxy", "Auto", "direct", "blocked"}

validateGroup(g) ==
    /\ g.name \notin Reserved \cup {""}
    /\ g.filter = "country" => g.value # ""
    /\ g.filter = "manual" => g.value # <<>>

\* 0 stands for the defaults.
Interval(f) == IF f.interval = 0 THEN 30 ELSE f.interval
IdleTimeout(f) == IF f.idle = 0 THEN 1800 ELSE f.idle

validateFailover(f) ==
    /\ f.interval = 0 \/ f.interval >= 10
    /\ Interval(f) <= IdleTimeout(f)

\* Set: everything is valid and no two groups have one name, or nothing changes.
ValidGroups(pg) ==
    /\ \A i \in DOMAIN pg.groups : validateGroup(pg.groups[i])
    /\ \A i, j \in DOMAIN pg.groups : pg.groups[i].name = pg.groups[j].name => i = j
    /\ validateFailover(pg.failover)

\* sanitize: a file's bad groups and bad tuning are dropped when it is loaded.
SanitizedGroups(file) ==
    LET valid == {i \in DOMAIN file.groups : validateGroup(file.groups[i])}
        kept == {i \in valid : \A j \in valid : j < i => file.groups[j].name # file.groups[i].name}
    IN  [file EXCEPT
            !.groups = Only(@, kept),
            !.failover = IF validateFailover(@) THEN @ ELSE [interval |-> 0, idle |-> 0]]
=============================================================================
