----------------------------- MODULE DataPlane -----------------------------
(***************************************************************************)
(* What the Manager promises about the box, whatever its callers do: at     *)
(* most one box runs; a change closes it for a moment (the same ports are   *)
(* needed again) and ends with the new configuration or with the one that   *)
(* ran before; only losing the port to another program leaves it down.      *)
(* Rebuild implements this (internal/gateway/gateway.go, rebuild).          *)
(***************************************************************************)
CONSTANTS Config, None

VARIABLES
    box,   \* the configuration of the running box
    good,  \* the last one that started
    lost   \* another program took the port since a box last ran

vars == <<box, good, lost>>

Init == box = None /\ good = None /\ lost = FALSE

\* A new configuration comes up, at boot or by a change.
Up(c) ==
    /\ box = None
    /\ box' = c /\ good' = c /\ lost' = FALSE

Close ==
    /\ box # None
    /\ box' = None
    /\ UNCHANGED <<good, lost>>

\* The change is given up: what ran before runs again.
Keep ==
    /\ box = None /\ good # None
    /\ box' = good /\ lost' = FALSE
    /\ UNCHANGED good

Lose ==
    /\ box = None
    /\ lost' = TRUE
    /\ UNCHANGED <<box, good>>

Next == Close \/ Keep \/ Lose \/ \E c \in Config : Up(c)

Safety == Init /\ [][Next]_vars

\* The gateway comes back after a change, if only as what it was.
ComesBack == (box = None /\ good # None) ~> (box # None \/ lost)

Spec == Safety /\ ComesBack
=============================================================================
