---------------------------- MODULE GuardsProofs ----------------------------
(***************************************************************************)
(* Proofs about the mode guard for any set of modes, callers and timers:    *)
(* the box follows the mode the Manager reports, and only an armed guard    *)
(* reverts.  The last section joins them with the results of ListenProofs.  *)
(***************************************************************************)
EXTENDS Guards, TLAPS

\* What ListenProofs proves, of the listen point of Guards.
ListenP == INSTANCE ListenProofs WITH
    Timer <- ListenTimer, plane <- serving, ticking <- running, pc <- at

\* A thread that asks for a mode has one to ask for, and a thread that may have
\* to put one back remembers it.
WantsAMode ==
    \A t \in Thread :
        /\ pc[t] \in {"switch", "reload", "undo", "persist", "arm"} => want[t] \in Mode
        /\ pc[t] \in {"reload", "undo"} => was[t] \in Mode

\* A timer whose callback is at work has fired.
TickingIsIdle == \A t \in ticking : pc[t] = "idle"

\* A guard that is armed waits for the confirmation of some mode.
ArmedIsUnconfirmed == timer # None => unconfirmed # None

\* Where the box is behind the Manager, somebody is about to rebuild it.
RebuildIsComing ==
    mode \in Works /\ plane # mode => \E t \in Thread : pc[t] \in {"reload", "retry"}
-----------------------------------------------------------------------------
\* Timers and callers are threads, and None is neither of them nor a mode.
LEMMA Threads ==
    /\ Client \subseteq Thread /\ Timer \subseteq Thread
    /\ Plain \subseteq Client /\ Guarding \subseteq Client
    /\ Works \subseteq Mode /\ None \notin Mode /\ None \notin Timer
    /\ Client \cap Timer = {}
BY ModeGuardAssumption DEF Thread

GuardInv == TypeOK /\ WantsAMode /\ TickingIsIdle

\* The Manager starts in a mode this machine can start, and nobody is at work.
LEMMA GuardInit == Init => GuardInv
<1> SUFFICES ASSUME Init PROVE GuardInv
    OBVIOUS
<1>1. pc \in [Thread -> Label] /\ keep \in [Thread -> BOOLEAN]
    BY DEF Init, Label
<1>2. /\ want \in [Thread -> Mode \cup {None}]
      /\ was \in [Thread -> Mode \cup {None}]
      /\ from \in [Thread -> Mode \cup {None}]
    BY DEF Init
<1>3. \A t \in Thread : pc[t] = "idle"
    BY DEF Init
<1> QED
    BY <1>1, <1>2, <1>3, Threads DEF Init, GuardInv, TypeOK, WantsAMode, TickingIsIdle

\* Every critical section, rebuild and write keeps the types, and hands the next
\* one a mode.
LEMMA GuardStep == GuardInv /\ [Next]_vars => GuardInv'
<1> SUFFICES ASSUME GuardInv, [Next]_vars PROVE GuardInv'
    OBVIOUS
<1> USE Threads DEF GuardInv, TypeOK, WantsAMode, TickingIsIdle, Label
<1>1. ASSUME NEW c \in Client, NEW m \in Mode, SetMode(c, m) \/ SetModeGuarded(c, m)
      PROVE  GuardInv'
    <2>1. CASE SetMode(c, m)
        BY <2>1 DEF SetMode, Goto, guardVars
    <2>2. CASE SetModeGuarded(c, m)
        <3>1. (IF mode = m THEN None ELSE mode) \in Mode \cup {None} /\ (mode = m) \in BOOLEAN
            OBVIOUS
        <3>2. keep' \in [Thread -> BOOLEAN]
            BY <2>2, <3>1 DEF SetModeGuarded
        <3> QED
            BY <2>2, <3>1, <3>2 DEF SetModeGuarded, Goto, guardVars
    <2> QED
        BY <1>1, <2>1, <2>2
<1>2. ASSUME NEW c \in Client, Confirm(c) PROVE GuardInv'
    BY <1>2 DEF Confirm, Goto, localVars
<1>3. ASSUME NEW c \in Client, ConfirmRead(c) PROVE GuardInv'
    BY <1>3 DEF ConfirmRead, Goto, guardVars
<1>4. ASSUME NEW c \in Client, NEW t \in Timer, Arm(c, t) PROVE GuardInv'
    BY <1>4 DEF Arm, Finish, Goto
<1>5. ASSUME NEW t \in Thread, Switch(t) PROVE GuardInv'
    BY <1>5 DEF Switch, Settle, Goto, guardVars
<1>6. ASSUME NEW t \in Thread, Reload(t) PROVE GuardInv'
    BY <1>6 DEF Reload, Settle, Goto, guardVars, localVars
<1>7. ASSUME NEW t \in Thread, Undo(t) PROVE GuardInv'
    BY <1>7 DEF Undo, Goto, guardVars
<1>8. ASSUME NEW t \in Thread, Retry(t) \/ Persist(t) PROVE GuardInv'
    <2>1. plane' \in Mode /\ stored' \in Mode /\ UNCHANGED <<mode, guardVars>>
        BY <1>8 DEF Retry, Persist
    <2>2. Finish(t)
        BY <1>8 DEF Retry, Persist
    <2> QED
        BY <2>1, <2>2 DEF Finish, Goto, guardVars
<1>9. ASSUME NEW t \in Timer, Fire(t) PROVE GuardInv'
    BY <1>9 DEF Fire, Goto, localVars
<1>10. ASSUME NEW t \in Timer, Expire(t) PROVE GuardInv'
    <2>1. CASE timer # None /\ revertTo # None
        <3>1. /\ want' = [want EXCEPT ![t] = revertTo] /\ keep' = [keep EXCEPT ![t] = TRUE]
              /\ pc' = [pc EXCEPT ![t] = "switch"] /\ pc[t] = "fired" /\ timer' = None
              /\ revertTo' = None /\ unconfirmed' = None
              /\ UNCHANGED <<mode, plane, stored, ticking, was, from>>
            BY <1>10, <2>1 DEF Expire, Goto
        <3>2. TypeOK'
            BY <2>1, <3>1
        <3>3. WantsAMode' /\ TickingIsIdle'
            BY <2>1, <3>1
        <3> QED
            BY <3>2, <3>3
    <2>2. CASE ~(timer # None /\ revertTo # None)
        BY <1>10, <2>2 DEF Expire, Goto
    <2> QED
        BY <2>1, <2>2
<1>11. CASE Crash
    BY <1>11 DEF Crash
<1>12. CASE UNCHANGED vars
    BY <1>12 DEF vars, guardVars, localVars
<1> QED
    BY <1>1, <1>2, <1>3, <1>4, <1>5, <1>6, <1>7, <1>8, <1>9, <1>10, <1>11, <1>12
    DEF Next, Call, Step

\* Every field of the guard and every local of a thread keeps its type, and no
\* thread switches to, records or goes back to a mode that is none.
THEOREM TypeCorrect == Spec => []GuardInv
BY GuardInit, GuardStep, PTL DEF Spec
-----------------------------------------------------------------------------
\* The guard and the mode it waits for come and go together.
LEMMA ArmedStep == GuardInv /\ ArmedIsUnconfirmed /\ [Next]_vars => ArmedIsUnconfirmed'
<1> SUFFICES ASSUME GuardInv, ArmedIsUnconfirmed, [Next]_vars PROVE ArmedIsUnconfirmed'
    OBVIOUS
<1> USE DEF ArmedIsUnconfirmed
<1>1. ASSUME NEW c \in Client, NEW t \in Timer, Arm(c, t) PROVE ArmedIsUnconfirmed'
    BY <1>1, Threads DEF Arm, GuardInv, WantsAMode
<1>2. CASE UNCHANGED <<timer, unconfirmed>>
    BY <1>2
<1>3. ASSUME NEW c \in Client, Call(c) \/ ConfirmRead(c) PROVE ArmedIsUnconfirmed'
    BY <1>3 DEF Call, SetMode, SetModeGuarded, Confirm, ConfirmRead, guardVars
<1>4. ASSUME NEW t \in Thread, Step(t) PROVE ArmedIsUnconfirmed'
    BY <1>4 DEF Step, Switch, Reload, Undo, Retry, Persist, guardVars
<1>5. ASSUME NEW t \in Timer, Fire(t) \/ Expire(t) PROVE ArmedIsUnconfirmed'
    BY <1>5 DEF Fire, Expire
<1>6. CASE Crash
    BY <1>6 DEF Crash
<1>7. CASE UNCHANGED vars
    BY <1>2, <1>7 DEF vars, guardVars
<1> QED
    BY <1>1, <1>3, <1>4, <1>5, <1>6, <1>7 DEF Next

\* A callback that finds its guard confirmed or replaced by nothing leaves the
\* mode alone (the armed check of SetModeGuarded's callback).
THEOREM OnlyArmedGuardsRevert == Spec => NoRevertAfterConfirm
<1>1. Init => ArmedIsUnconfirmed
    BY DEF Init, ArmedIsUnconfirmed
<1>2. GuardInv /\ ArmedIsUnconfirmed /\ [Next]_vars
          => [\A t \in Timer :
                (pc[t] = "fired" /\ pc'[t] = "switch") => unconfirmed # None]_vars
    <2> SUFFICES ASSUME GuardInv, ArmedIsUnconfirmed, Next,
                        NEW t \in Timer, pc[t] = "fired", pc'[t] = "switch"
                 PROVE  unconfirmed # None
        OBVIOUS
    <2> USE Threads DEF GuardInv, TypeOK, Label
    <2>1. ASSUME NEW c \in Client, Call(c) PROVE FALSE
        BY <2>1 DEF Call, SetMode, SetModeGuarded, Confirm, Goto
    <2>2. ASSUME NEW c \in Client, ConfirmRead(c) PROVE FALSE
        BY <2>2 DEF ConfirmRead, Goto
    <2>3. ASSUME NEW c \in Client, NEW u \in Timer, Arm(c, u) PROVE FALSE
        BY <2>3 DEF Arm, Finish, Goto
    <2>4. ASSUME NEW u \in Thread, Step(u) PROVE FALSE
        BY <2>4 DEF Step, Switch, Settle, Reload, Undo, Retry, Persist, Finish, Goto
    <2>5. ASSUME NEW u \in Timer, Fire(u) PROVE FALSE
        BY <2>5 DEF Fire, Goto
    <2>6. ASSUME NEW u \in Timer, Expire(u) PROVE timer # None
        BY <2>6 DEF Expire, Goto
    <2>7. CASE Crash
        BY <2>7 DEF Crash
    <2> QED
        BY <2>1, <2>2, <2>3, <2>4, <2>5, <2>6, <2>7 DEF Next, ArmedIsUnconfirmed
<1> QED
    BY <1>1, <1>2, ArmedStep, TypeCorrect, PTL DEF Spec, NoRevertAfterConfirm
-----------------------------------------------------------------------------
\* Whoever changes the mode, or puts it back, goes on to rebuild; and a rebuild
\* brings up whatever mode is the Manager's by then.
LEMMA PlaneStep == GuardInv /\ RebuildIsComing /\ [Next]_vars => RebuildIsComing'
<1> SUFFICES ASSUME GuardInv, RebuildIsComing, [Next]_vars PROVE RebuildIsComing'
    OBVIOUS
<1> USE Threads DEF GuardInv, TypeOK, Label, RebuildIsComing
<1>1. ASSUME NEW c \in Client, Call(c) \/ ConfirmRead(c) PROVE RebuildIsComing'
    BY <1>1 DEF Call, SetMode, SetModeGuarded, Confirm, ConfirmRead, Goto
<1>2. ASSUME NEW c \in Client, NEW t \in Timer, Arm(c, t) PROVE RebuildIsComing'
    BY <1>2 DEF Arm, Finish, Goto
<1>3. ASSUME NEW t \in Thread, Switch(t) PROVE RebuildIsComing'
    <2>1. CASE mode = want[t]
        BY <1>3, <2>1 DEF Switch, Settle, Goto
    <2>2. CASE mode # want[t]
        BY <1>3, <2>2 DEF Switch, Goto
    <2> QED
        BY <2>1, <2>2
<1>4. ASSUME NEW t \in Thread, Reload(t) PROVE RebuildIsComing'
    BY <1>4 DEF Reload
<1>5. ASSUME NEW t \in Thread, Undo(t) PROVE RebuildIsComing'
    BY <1>5 DEF Undo, Goto
<1>6. ASSUME NEW t \in Thread, Retry(t) PROVE RebuildIsComing'
    BY <1>6 DEF Retry
<1>7. ASSUME NEW t \in Thread, Persist(t) PROVE RebuildIsComing'
    BY <1>7 DEF Persist, Finish, Goto
<1>8. ASSUME NEW t \in Timer, Fire(t) \/ Expire(t) PROVE RebuildIsComing'
    <2>1. UNCHANGED <<mode, plane>> /\ pc[t] \notin {"reload", "retry"}
        <3>1. CASE Fire(t)
            BY <3>1 DEF Fire, TickingIsIdle
        <3>2. CASE Expire(t)
            BY <3>2 DEF Expire
        <3> QED
            BY <1>8, <3>1, <3>2
    <2>2. \A u \in Thread \ {t} : pc'[u] = pc[u]
        BY <1>8 DEF Fire, Expire, Goto
    <2> QED
        BY <2>1, <2>2
<1>9. CASE Crash \/ UNCHANGED vars
    BY <1>9 DEF Crash, vars
<1> QED
    BY <1>1, <1>2, <1>3, <1>4, <1>5, <1>6, <1>7, <1>8, <1>9 DEF Next, Step

\* When nobody is at work the box captures in the mode the Manager reports,
\* whatever overlapped, failed or was reverted before (setMode).
THEOREM ReportedModeIsServed == Spec => []NoStalePlane
<1>1. Init => RebuildIsComing
    BY DEF Init, RebuildIsComing
<1>2. RebuildIsComing => NoStalePlane
    BY DEF RebuildIsComing, NoStalePlane, Quiescent
<1> QED
    BY <1>1, <1>2, PlaneStep, TypeCorrect, PTL DEF Spec
-----------------------------------------------------------------------------
\* Listen and ListenP name the same instance.
LEMMA SameListen ==
    /\ Listen!Init = ListenP!Init
    /\ Listen!Next = ListenP!Next
    /\ Listen!PlaneIsReported = ListenP!PlaneIsReported
    /\ Listen!UnconfirmedIsTakenBack = ListenP!UnconfirmedIsTakenBack
    /\ Listen!ListenGuardAssumption = ListenP!ListenGuardAssumption
<1>1. Listen!Init = ListenP!Init
    BY DEF Listen!Init, ListenP!Init, Listen!Thread, ListenP!Thread, Listen!NoCall, ListenP!NoCall
<1>2. Listen!Next = ListenP!Next
    BY DEF
    Listen!Next, ListenP!Next, Listen!Request, ListenP!Request, Listen!SetInbound,
    ListenP!SetInbound, Listen!Confirm, ListenP!Confirm, Listen!Arm, ListenP!Arm,
    Listen!Step, ListenP!Step, Listen!Store, ListenP!Store, Listen!Read, ListenP!Read,
    Listen!Change, ListenP!Change, Listen!Reload, ListenP!Reload, Listen!Applied,
    ListenP!Applied, Listen!Undo, ListenP!Undo, Listen!Retry, ListenP!Retry,
    Listen!Restore, ListenP!Restore, Listen!Record, ListenP!Record, Listen!Hook,
    ListenP!Hook, Listen!Fire, ListenP!Fire, Listen!Expire, ListenP!Expire,
    Listen!Crash, ListenP!Crash, Listen!Goto, ListenP!Goto, Listen!Finish,
    ListenP!Finish, Listen!Upset, ListenP!Upset, Listen!Overlaps, ListenP!Overlaps,
    Listen!guardVars, ListenP!guardVars, Listen!Thread, ListenP!Thread, Listen!NoCall,
    ListenP!NoCall
<1>3. Listen!PlaneIsReported = ListenP!PlaneIsReported
    BY DEF Listen!PlaneIsReported, ListenP!PlaneIsReported, Listen!Quiet, ListenP!Quiet,
        Listen!Thread, ListenP!Thread
<1>4. Listen!UnconfirmedIsTakenBack = ListenP!UnconfirmedIsTakenBack
    BY DEF Listen!UnconfirmedIsTakenBack, ListenP!UnconfirmedIsTakenBack, Listen!Quiet,
        ListenP!Quiet, Listen!Thread, ListenP!Thread
<1>5. Listen!ListenGuardAssumption = ListenP!ListenGuardAssumption
    BY DEF Listen!ListenGuardAssumption, ListenP!ListenGuardAssumption
<1> QED
    BY <1>1, <1>2, <1>3, <1>4, <1>5

\* Both switches, side by side, behave as each does alone.
LEMMA BothBehave == GuardsSpec => Spec /\ ListenP!Spec
<1>1. GuardsInit => Init /\ ListenP!Init
    BY SameListen DEF GuardsInit
<1>2. [GuardsNext]_<<vars, listenVars>> => [Next]_vars /\ [ListenP!Next]_ListenP!vars
    BY SameListen DEF GuardsNext, listenVars, ListenP!vars, ListenP!guardVars
<1> QED
    BY <1>1, <1>2, PTL DEF GuardsSpec, Spec, ListenP!Spec

LEMMA ListenAssumed == ListenP!ListenGuardAssumption
BY GuardsAssumption, SameListen DEF GuardsAssumption

\* Once nobody is at work the box captures in the mode the Manager reports and
\* listens where the Manager, the store and the file say, unless calls about the
\* listen point overlapped or one of its saves or restoring rebuilds failed.
THEOREM PlanesAreReported == GuardsSpec => []PlaneIsReported
<1>1. ListenP!Spec => []ListenP!PlaneIsReported
    BY ListenAssumed, ListenP!ListenerIsReported
<1>2. NoStalePlane /\ ListenP!PlaneIsReported => PlaneIsReported
    BY SameListen DEF PlaneIsReported
<1> QED
    BY <1>1, <1>2, BothBehave, ReportedModeIsServed, PTL

\* Without an armed guard the gateway listens where it was last told to without
\* a guard, or where somebody confirmed it.
THEOREM UnconfirmedPointGoes == GuardsSpec => []UnconfirmedIsTakenBack
<1>1. ListenP!Spec => []ListenP!UnconfirmedIsTakenBack
    BY ListenAssumed, ListenP!UnconfirmedPointsGo
<1>2. ListenP!UnconfirmedIsTakenBack => UnconfirmedIsTakenBack
    BY SameListen DEF UnconfirmedIsTakenBack
<1> QED
    BY <1>1, <1>2, BothBehave, PTL

\* A callback of either switch reverts only while a guard is armed.
THEOREM OnlyArmedSwitchesRevert == GuardsSpec => ConfirmedStays
<1>1. ListenP!Spec => ListenP!ConfirmedStays
    BY ListenAssumed, ListenP!ConfirmedPointsStay
<1>2. ListenP!ConfirmedStays <=> Listen!ConfirmedStays
    <2>1. [\A t \in ListenTimer : at[t] = "fired" /\ at'[t] = "change" => bindTimer # None]_(ListenP!vars)
          <=> [\A t \in ListenTimer : at[t] = "fired" /\ at'[t] = "change" => bindTimer # None]_(Listen!vars)
        BY DEF ListenP!vars, Listen!vars, ListenP!guardVars, Listen!guardVars
    <2> QED
        BY <2>1, PTL DEF ListenP!ConfirmedStays, Listen!ConfirmedStays
<1> QED
    BY <1>1, <1>2, BothBehave, OnlyArmedGuardsRevert, PTL DEF ConfirmedStays
=============================================================================
