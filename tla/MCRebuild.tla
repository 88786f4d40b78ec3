----------------------------- MODULE MCRebuild -----------------------------
(* Small instances of Rebuild: two callers, two axes, two values that start *)
(* and one that only builds; a base file that does not build stands for     *)
(* every way of not building.                                               *)
EXTENDS Rebuild
CONSTANTS r1, r2, acl, nodes, good1, good2, nostart

MCReq == {r1, r2}
MCBase == {"sound", "unbuildable", "unstartable"}
MCAxis == {acl, nodes}
MCValue == {good1, good2, nostart}
MCBuilds == {good1, good2, nostart}
MCStarts == {good1, good2}
MCInitial == [a \in MCAxis |-> good1]

\* One caller per axis.
OwnAxes == [r \in MCReq |-> IF r = r1 THEN {acl} ELSE {nodes}]

\* Two callers of the same single axis.
OneAxis == {acl}
OneInitial == [a \in OneAxis |-> good1]
SameAxis == [r \in MCReq |-> OneAxis]
=============================================================================
