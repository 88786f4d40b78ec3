------------------------------- MODULE Guards -------------------------------
(***************************************************************************)
(* The two dead-man's switches of one Manager side by side: the capture     *)
(* mode (ModeGuard) and the inbound listen point (ListenGuard).  They have  *)
(* guards of their own and share no variable; the rebuild of either brings  *)
(* the box up as Rebuild shows, with both the mode and the point held.      *)
(***************************************************************************)
EXTENDS ModeGuard

CONSTANTS
    Point,      \* the listen points a request may ask for
    Default,    \* the base config's own
    ListenTimer \* bound: the timers of the listen point that can be alive at once

VARIABLES bind, serving, data, file, bindTimer, bindRevertTo, running, at, call, agreed, upset
listenVars == <<bind, serving, data, file, bindTimer, bindRevertTo, running, at, call,
                agreed, upset>>

Listen == INSTANCE ListenGuard WITH
    Timer <- ListenTimer, plane <- serving, ticking <- running, pc <- at

ASSUME GuardsAssumption == Listen!ListenGuardAssumption

GuardsInit == Init /\ Listen!Init

GuardsNext ==
    \/ Next /\ UNCHANGED listenVars
    \/ Listen!Next /\ UNCHANGED vars

GuardsSpec == GuardsInit /\ [][GuardsNext]_<<vars, listenVars>>
-----------------------------------------------------------------------------
\* Once nobody is at work the box captures in the mode the Manager reports
\* (ModeGuard) and listens where the Manager, the store and the file say
\* (ListenGuard).
PlaneIsReported == NoStalePlane /\ Listen!PlaneIsReported
\* A guarded listen point nobody confirmed does not stay (ListenGuard).
UnconfirmedIsTakenBack == Listen!UnconfirmedIsTakenBack
\* A callback that finds its guard gone changes nothing (both switches).
ConfirmedStays == NoRevertAfterConfirm /\ Listen!ConfirmedStays
\* No guard stays armed for ever (both switches).
GuardsSettle == GuardSettles /\ Listen!GuardSettles
=============================================================================
