---------------------------- MODULE MCResolvers ----------------------------
(* A small instance of Resolvers: five provider nodes (two of one name, one *)
(* on this machine, one advertising line, one called like a group), a       *)
(* gateway exit and an endpoint.                                            *)
EXTENDS Resolvers, TLC

Names == {"hk", "us", "warp", "info", "Auto", "gw", "wg", "Local", "Overseas",
          "Hong Kong", "United States", "Other", "mine", "lan", "proxy"}
\* As many as NamesAssumption asks for.
MCNumbered ==
    [n \in Names |-> [k \in 1 .. 19 |-> IF k = 1 THEN n ELSE n \o "-" \o ToString(k)]]
AllTags == UNION {Elements(MCNumbered[n]) : n \in Names}
MCCountryOf ==
    [t \in AllTags |-> CASE t \in Elements(MCNumbered["hk"]) -> "HK"
                         [] t \in Elements(MCNumbered["us"]) -> "US"
                         [] OTHER -> ""]
MCCountryName == [HK |-> "Hong Kong", US |-> "United States", Other |-> "Other"]
MCMember == {"hk-2", "warp", "wg", "mine", "Overseas"}

Node(tag, host) == [tag |-> tag, host |-> host, usable |-> TRUE, junk |-> FALSE]
HK == Node("hk", "name")
US == Node("us", "address")
Warp == Node("warp", "loop")
Info == [Node("info", "address") EXCEPT !.junk = TRUE]
Broken == [Node("us", "address") EXCEPT !.usable = FALSE]
MCNodeLists ==
    {<<>>, <<US>>, <<Broken, Info>>, <<HK, HK, US>>, <<Warp>>, <<Warp, US, HK>>,
     <<Node("Auto", "loop"), US>>, <<Node("Local", "name"), Warp>>}
MCExitLists == {<<>>, <<Node("gw", "name")>>}
MCDisabledSets == {{}, {"us"}, {"hk"}, {"hk-2", "us"}}
MCEndpointLists ==
    {<<>>, <<[tag |-> "wg", host |-> "name", enabled |-> TRUE]>>,
     <<[tag |-> "wg", host |-> "name", enabled |-> FALSE]>>}

User(name, type, filter, value) ==
    [name |-> name, type |-> type, filter |-> filter, value |-> value]
PG(auto, exclude, user, interval, idle) ==
    [autoCountry |-> auto, exclude |-> exclude, groups |-> user,
     failover |-> [interval |-> interval, idle |-> idle]]
MCGroupConfigs ==
    {DefaultGroups, PG(FALSE, {}, <<>>, 10, 0), PG(TRUE, {"HK"}, <<>>, 2000, 0),
     PG(TRUE, {}, <<User("mine", "urltest", "regex", {"warp", "hk", "us", "wg"})>>, 0, 20),
     PG(TRUE, {}, <<User("mine", "urltest", "regex", {"warp", "hk", "us", "wg"})>>, 0, 0),
     PG(FALSE, {"HK"}, <<User("mine", "select", "manual", <<"warp", "us", "gone">>),
                        User("Overseas", "urltest", "country", "HK")>>, 0, 0),
     PG(FALSE, {}, <<User("proxy", "select", "manual", <<"us">>)>>, 0, 0)}
MCGroupFiles ==
    {DefaultGroups, PG(TRUE, {"HK"}, <<User("proxy", "select", "manual", <<"us">>),
                                 User("mine", "select", "country", "")>>, 2000, 0)}

DNS(servers, rules, last, split) ==
    [servers |-> servers, rules |-> rules, final |-> last, split |-> split]
Doh == Server("doh", "real", "proxy")
Ali == Server("ali", "real", "")
System == Server("local", "local", "")
Hosts == Server("hosts", "hosts", "")
Fake == Server("fake", "fakeip", "")
Ask(of, server) == [of |-> of, server |-> server]
MCDNSConfigs ==
    {DNS(<<Doh>>, <<>>, "", TRUE), DNS(<<System, Doh>>, <<Ask({"set"}, "doh")>>, "doh", TRUE),
     DNS(<<Hosts, Doh, Ali>>, <<Ask({"sfx", "set"}, "ali")>>, "hosts", TRUE),
     DNS(<<Fake>>, <<Ask({"glob"}, "fake")>>, "fake", TRUE), DNS(<<Doh, Ali>>, <<>>, "doh", FALSE),
     DNS(<<Doh, Ali>>, <<Ask({"sfx"}, "doh")>>, "doh", TRUE), DNS(<<System, Fake>>, <<>>, "local", TRUE),
     DNS(<<Server(Direct, "real", "proxy")>>, <<>>, Direct, TRUE), DNS(<<>>, <<>>, "", TRUE)}
MCDNSFiles ==
    {Defaults, AbandonedDefault, DNS(<<Server(Direct, "real", "proxy"), Doh>>, <<>>, "doh", TRUE)}

MCSuffix == {"sfx"}
MCGlob == {"glob"}
MCCIDR == {"cidr", "lan"}
MCTag == {"set", "ips"}
MCCovers == [sfx |-> {"a"}, glob |-> {"a", "b"}, cidr |-> {"pub"}, lan |-> {"priv"},
             set |-> {"a"}, ips |-> {"b", "pub"}]
Dial(name, addr) ==
    [name |-> name, addr |-> addr, byAddr |-> FALSE, mgmt |-> FALSE,
     proc |-> "listed", dev |-> "listed", net |-> "tcp", quic |-> FALSE]
MCConn == {Dial("a", "pub"), Dial("b", "priv")}
Sniff == Rule("sniff", {}, "")
MCBases == {[rules |-> <<Sniff, Rule("network", Everything, "blocked")>>, final |-> "blocked"]}
Allow(dests) == [dests |-> dests, procs |-> {}, devs |-> {}]
MCWhitelists == {Allow({}), Allow({"glob"})}
MCLists == {{}}
MCDirectLists == [dests : {{}, {"sfx"}, {"cidr"}}, bypass : {TRUE}]
Custom(at, egress, node) == [at |-> at, permit |-> "unset", egress |-> egress, node |-> node]
MCCustomLists ==
    {<<>>, <<Custom("glob", "node", "hk-2")>>, <<Custom("sfx", "direct", ""), Custom("glob", "proxy", "Auto")>>}
=============================================================================
