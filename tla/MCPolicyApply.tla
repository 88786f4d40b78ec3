--------------------------- MODULE MCPolicyApply ---------------------------
(* Small instances of PolicyApply: two callers, lists over two entries, one *)
(* of which cannot be started.                                              *)
EXTENDS PolicyApply
CONSTANTS r1, r2, acl, dns, ok, bad

MCReq == {r1, r2}
MCBase == {"sound"}
MCAxis == {acl, dns}
MCEntry == {ok, bad}
MCValue == SUBSET MCEntry
MCStarts == SUBSET {ok}
MCInitial == [a \in MCAxis |-> {}]
OwnAxes == [r \in MCReq |-> IF r = r1 THEN {acl} ELSE {dns}]

\* Nothing is promised after a failed write, so nothing is explored after one.
DiskWorks == ~unsaved

\* Both callers work on the same list.
OneAxis == {acl}
OneInitial == [a \in OneAxis |-> {}]
SameAxis == [r \in MCReq |-> OneAxis]
=============================================================================
