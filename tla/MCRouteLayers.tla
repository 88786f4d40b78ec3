--------------------------- MODULE MCRouteLayers ---------------------------
(* A small instance of RouteLayers: two names, a public and a private      *)
(* address, one entry of each kind and one rule set that covers a name and  *)
(* an address.  "a" resolves to the public address, "b" to the private one. *)
EXTENDS RouteLayers
CONSTANTS exit

MCSuffix == {"sfx"}
MCGlob == {"glob"}
MCCIDR == {"cidr", "lan"}
MCTag == {"set"}
MCCovers == [sfx |-> {"a"}, glob |-> {"a", "b"}, cidr |-> {"pub"}, lan |-> {"priv"},
             set |-> {"a", "pub"}]

Dial(name, addr, byAddr) ==
    [name |-> name, addr |-> addr, byAddr |-> byAddr, mgmt |-> FALSE,
     proc |-> "listed", dev |-> "listed", net |-> "tcp", quic |-> FALSE]

ByName == Dial("a", "pub", FALSE)
Sniffed == Dial("a", "pub", TRUE)
MCConn ==
    {ByName, Sniffed, Dial("b", "priv", FALSE), Dial("", "pub", TRUE),
     Dial("", "priv", TRUE),
     [ByName EXCEPT !.mgmt = TRUE],
     [Sniffed EXCEPT !.proc = "other"],
     [Sniffed EXCEPT !.dev = "other"],
     [ByName EXCEPT !.net = "udp"],
     [Sniffed EXCEPT !.net = "udp", !.quic = TRUE]}

\* The shipped config; one with a hand-written QUIC rule; one without a
\* catch-all and without route.final, whose default outbound is direct; one
\* with a name that the operator lets out by hand.
Sniff == Rule("sniff", {}, "")
CatchAll == Rule("network", Everything, "blocked")
MCBases ==
    {[rules |-> <<Sniff, CatchAll>>, final |-> "blocked"],
     [rules |-> <<Sniff, Rule("network", {"udp", "443"}, "reject"), CatchAll>>,
      final |-> "blocked"],
     [rules |-> <<Sniff>>, final |-> "direct"],
     [rules |-> <<Sniff, Rule("any", {"sfx"}, "direct"), CatchAll>>, final |-> "blocked"]}

Allow(dests, procs, devs) == [dests |-> dests, procs |-> procs, devs |-> devs]
MCWhitelists ==
    {Allow({}, {}, {}), Allow({"sfx"}, {}, {}), Allow({"glob"}, {}, {}),
     Allow({"cidr"}, {}, {}), Allow({"sfx"}, {"listed"}, {}),
     Allow({"glob"}, {}, {"listed"}), Allow({}, {"listed"}, {"listed"})}
MCLists == {{}, {"sfx"}, {"glob"}, {"cidr"}}
MCDirectLists == [dests : MCLists, bypass : BOOLEAN]

Custom(at, permit, egress, node) ==
    [at |-> at, permit |-> permit, egress |-> egress, node |-> node]
MCCustomRules ==
    {Custom("sfx", "unset", "direct", ""), Custom("glob", "unset", "proxy", ""),
     Custom("glob", "no", "proxy", exit), Custom("cidr", "unset", "none", ""),
     Custom("sfx", "unset", "block", ""), Custom("glob", "yes", "block", ""),
     Custom("sfx", "unset", "node", exit), Custom("cidr", "no", "node", exit)}
MCCustomLists ==
    {<<>>} \cup {<<r>> : r \in MCCustomRules}
        \cup {<<Custom("cidr", "unset", "none", ""), Custom("glob", "no", "proxy", exit)>>,
              <<Custom("sfx", "unset", "node", exit), Custom("glob", "yes", "block", "")>>}

FreshProfile ==
    [wl |-> Fresh.wl, bl |-> {}, dl |-> Fresh.dl, cr |-> <<>>, sets |-> Fresh.sets,
     members |-> {}, final |-> "", posture |-> "strict"]
MCProfiles ==
    {FreshProfile,
     [FreshProfile EXCEPT !.wl = Allow({"glob"}, {}, {}), !.final = "proxy"],
     [FreshProfile EXCEPT !.posture = "split", !.members = {exit}, !.final = exit]}
=============================================================================
