----------------------------- MODULE MCPostures -----------------------------
(* A small instance of Postures: two requests at a time, two packs that     *)
(* share a rule set, one rule of the operator, one of a client, a profile.  *)
EXTENDS Postures
Symmetry == Permutations(ExitRequest) \cup Permutations(PolicyRequest) \cup Permutations(Batch)

MCPatches == {[exit |-> TRUE, port |-> 1080], [exit |-> TRUE], [on |-> FALSE, port |-> 0]}

Rule(host, egress, permit, on, pack) ==
    [host |-> host, egress |-> egress, permit |-> permit, on |-> on, pack |-> pack]
MCOwnRule == {Rule("own", "proxy", FALSE, TRUE, "")}
MCAskedRule == {Rule("ask", "none", TRUE, FALSE, "request")}
MCPreset ==
    [wide |-> [rules |-> <<>>, sets |-> [cn |-> {"permit"}]],
     direct |-> [rules |-> <<Rule("bank", "direct", TRUE, TRUE, "direct")>>,
                 sets |-> [cn |-> {"direct"}]]]
MCHandSet == {<<"cn", {"permit", "proxy"}>>}
MCSeed == [rules |-> <<Rule("bank", "direct", TRUE, TRUE, "direct")>>,
           sets |-> [cn |-> [role |-> {"permit", "direct"}, on |-> TRUE]]]
MCScenes ==
    [exits |-> {"exits"},
     packs |-> {"apply", "on", "off", "delete"},
     imports |-> {"set", "apply"},
     requests |-> {"rule", "request", "deny"},
     approvals |-> {"request", "approve", "deny"},
     postures |-> {"set", "switch"},
     profiles |-> {"set", "activate"},
     providers |-> {"activate", "subs"}]
=============================================================================
