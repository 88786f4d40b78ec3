---------------------------- MODULE ListenProofs ----------------------------
(***************************************************************************)
(* Proofs about ListenGuard for any set of listen points, callers and       *)
(* timers.  As long as no two calls overlap and no save or restoring        *)
(* rebuild fails ("torn"), one thread at a time is at work, and where it is *)
(* says how far the box, the Manager and the store have moved (Course).     *)
(***************************************************************************)
EXTENDS ListenGuard, TLAPS

ClientLabel == {"idle", "set", "read", "change", "reload", "undo", "retry", "restore", "arm"}
TimerLabel == {"idle", "fired", "change", "reload", "undo", "retry", "hook"}
CallType == [want : Point \cup {None}, prev : Point \cup {None}, was : Point \cup {None},
             from : Point \cup {None}, guarded : BOOLEAN]

TypeOK ==
    /\ bind \in Point /\ plane \in Point /\ data \in Point /\ file \in Point
    /\ agreed \in Point
    /\ bindTimer \in Timer \cup {None}
    /\ bindRevertTo \in Point \cup {None}
    /\ ticking \in SUBSET Timer
    /\ pc \in [Thread -> ClientLabel \cup TimerLabel]
    /\ call \in [Thread -> CallType]
    /\ upset \in {"calm", "nested", "torn"}

\* What a caller and what a callback can be doing, and with which locals.
Places ==
    /\ \A c \in Client : pc[c] \in ClientLabel
    /\ \A c \in Client : pc[c] # "idle" => call[c].want \in Point /\ call[c].prev \in Point
    /\ \A c \in Client : pc[c] = "read" => call[c].guarded
    /\ \A c \in Client : pc[c] = "change" /\ call[c].guarded => call[c].from \in Point
    /\ \A c \in Client : pc[c] = "reload" /\ call[c].guarded => call[c].from \in Point
    /\ \A c \in Client : pc[c] = "arm" => call[c].from \in Point
    /\ \A t \in Timer : pc[t] \in TimerLabel /\ ~call[t].guarded
    /\ \A t \in Timer : pc[t] \in TimerLabel \ {"idle", "fired"} => call[t].want \in Point
    /\ \A t \in Thread : pc[t] \in {"reload", "undo"} => call[t].was \in Point
    /\ \A t \in ticking : pc[t] = "idle"
    /\ bindTimer # None => bindRevertTo \in Point

\* The box, the Manager, the store and the file name one point.
Even == bind = plane /\ bind = data /\ bind = file

\* How far a thread that is the only one has moved them.
Course(t) ==
    LET c == call[t] IN
    /\ file = data
    /\ pc[t] \in {"set", "fired", "arm"} => Even
    /\ pc[t] = "set" => c.prev = data
    /\ pc[t] = "change" /\ t \in Timer => Even
    /\ pc[t] \in {"read", "change", "retry", "restore"} /\ t \in Client =>
           data = c.want /\ bind = c.prev /\ plane = c.prev
    /\ pc[t] \in {"reload", "undo"} => bind = c.want /\ plane = c.was
    /\ pc[t] \in {"reload", "undo"} /\ t \in Client => data = c.want /\ c.prev = c.was
    /\ pc[t] \in {"undo", "retry"} => t \in Client
    /\ pc[t] = "hook" => bind = c.want /\ plane = c.want

LockStep ==
    upset # "torn" =>
        /\ \A t, u \in Thread : pc[t] # "idle" /\ pc[u] # "idle" => t = u
        /\ Quiet => Even
        /\ \A t \in Thread : pc[t] # "idle" => Course(t)

\* While no change was made under an armed guard: what the guard, the caller or
\* the callback at work would go back to is the point that was agreed.
Returns(t) ==
    LET c == call[t] IN
    /\ t \in Client =>
         /\ pc[t] \in {"set", "read", "change", "retry", "restore"} => bind = agreed
         /\ pc[t] \in {"reload", "undo"} => c.was = agreed
         /\ pc[t] \in {"change", "reload", "arm"} /\ c.guarded => c.from = agreed
         /\ pc[t] = "arm" => c.guarded
    /\ t \in Timer =>
         /\ pc[t] = "fired" /\ bindTimer = None => bind = agreed
         /\ pc[t] \in {"change", "reload", "hook"} => c.want = agreed /\ bindTimer = None

GuardHolds ==
    upset = "calm" =>
        /\ bindTimer # None => bindRevertTo = agreed /\ \A c \in Client : pc[c] = "idle"
        /\ Quiet /\ bindTimer = None => bind = agreed
        /\ \A t \in Thread : pc[t] # "idle" => Returns(t)

ListenInv == TypeOK /\ Places /\ LockStep /\ GuardHolds
-----------------------------------------------------------------------------
\* The daemon starts with box, Manager and store at the point of the file.
LEMMA ListenInit == ASSUME ListenGuardAssumption PROVE Init => ListenInv
<1> SUFFICES ASSUME Init PROVE ListenInv
    OBVIOUS
<1> USE DEF ListenGuardAssumption, Init, Thread
<1>1. NoCall \in CallType
    BY DEF NoCall, CallType
<1>2. pc \in [Thread -> ClientLabel \cup TimerLabel] /\ call \in [Thread -> CallType]
    BY <1>1 DEF ClientLabel
<1>3. TypeOK
    BY <1>2 DEF TypeOK
<1>4. \A t \in Thread : pc[t] = "idle" /\ call[t].guarded = FALSE
    BY DEF NoCall
<1>5. Places
    BY <1>4 DEF Places, ClientLabel, TimerLabel
<1>6. LockStep /\ GuardHolds
    BY <1>4 DEF LockStep, GuardHolds, Even
<1> QED
    BY <1>3, <1>5, <1>6 DEF ListenInv

\* Every step keeps all four parts.
LEMMA ListenStep == ASSUME ListenGuardAssumption PROVE ListenInv /\ [Next]_vars => ListenInv'
<1> SUFFICES ASSUME ListenInv, [Next]_vars PROVE ListenInv'
    OBVIOUS
<1> USE DEF ListenGuardAssumption, ListenInv, ClientLabel, TimerLabel, Thread
<1>1. ASSUME NEW c \in Client, NEW l \in Point, NEW g \in BOOLEAN, SetInbound(c, l, g)
      PROVE  ListenInv'
    <2> DEFINE new == [want |-> l, prev |-> data, was |-> None, from |-> None, guarded |-> g]
    <2>1. /\ pc[c] = "idle" /\ pc' = [pc EXCEPT ![c] = "set"]
          /\ call' = [call EXCEPT ![c] = new]
          /\ UNCHANGED <<bind, plane, data, file, bindTimer, bindRevertTo, ticking, agreed>>
        BY <1>1 DEF SetInbound, Goto, guardVars
    <2>2. upset' # "torn" => upset # "torn" /\ \A u \in Thread \ {c} : pc[u] = "idle"
        BY <1>1 DEF SetInbound, Upset, Overlaps
    <2>3. upset' = "calm" => upset = "calm" /\ bindTimer = None
        BY <1>1, <2>2 DEF SetInbound, Upset, Overlaps, TypeOK
    <2>4. upset' \in {"calm", "nested", "torn"}
        BY <1>1 DEF SetInbound, Upset, Overlaps, TypeOK
    <2>5. TypeOK'
        BY <2>1, <2>4 DEF TypeOK, CallType
    <2>6. Places'
        BY <2>1 DEF TypeOK, Places, CallType
    <2>7. upset' # "torn" => Course(c)'
        BY <2>1, <2>2 DEF TypeOK, LockStep, Quiet, Course, Even
    <2>8. LockStep'
        BY <2>1, <2>2, <2>7 DEF LockStep, Quiet, TypeOK
    <2>9. GuardHolds'
        BY <2>1, <2>2, <2>3 DEF GuardHolds, Quiet, TypeOK, Returns
    <2> QED
        BY <2>5, <2>6, <2>8, <2>9
<1>2. ASSUME NEW t \in Thread, Store(t) PROVE ListenInv'
    <2>1. t \in Client /\ pc[t] = "set"
        BY <1>2 DEF Store, Places
    <2>2. \/ pc' = [pc EXCEPT ![t] = "idle"] /\ call' = [call EXCEPT ![t] = NoCall]
          \/ pc' = [pc EXCEPT ![t] = IF call[t].guarded THEN "read" ELSE "change"] /\ call' = call
        BY <1>2 DEF Store, Goto, Finish
    <2>3. UNCHANGED <<bindTimer, bindRevertTo, ticking>>
        BY <1>2 DEF Store, guardVars
    <2>4. data' \in Point /\ file' \in Point /\ upset' \in {"calm", "nested", "torn"}
          /\ UNCHANGED <<bind, plane, agreed>>
        BY <1>2, <2>1 DEF Store, Upset, TypeOK, Places
    <2>5. NoCall \in CallType
        BY DEF NoCall, CallType
    <2>6. TypeOK'
        BY <2>1, <2>2, <2>3, <2>4, <2>5 DEF TypeOK
    <2>7. Places'
        BY <2>1, <2>2, <2>3 DEF TypeOK, Places
    <2>8. LockStep'
        BY <1>2 DEF Store, Goto, Finish, NoCall, Upset, guardVars, TypeOK, Places, CallType, LockStep, Quiet, Course, Even
    <2>9. GuardHolds'
        BY <1>2, <2>8 DEF Store, Goto, Finish, NoCall, Upset, guardVars, TypeOK, Places, CallType, LockStep, Quiet, Course, Even, GuardHolds, Returns
    <2> QED
        BY <2>6, <2>7, <2>8, <2>9
<1>3. ASSUME NEW t \in Thread, Read(t) PROVE ListenInv'
    <2>1. TypeOK' /\ Places'
        BY <1>3 DEF Read, Goto, guardVars, TypeOK, Places, CallType
    <2>2. LockStep'
        BY <1>3 DEF Read, Goto, guardVars, TypeOK, Places, CallType, LockStep, Quiet, Course, Even
    <2>3. GuardHolds'
        BY <1>3, <2>2 DEF Read, Goto, guardVars, TypeOK, Places, CallType, LockStep, Quiet, Course, Even, GuardHolds, Returns
    <2> QED
        BY <2>1, <2>2, <2>3
<1>4. ASSUME NEW t \in Thread, Change(t) PROVE ListenInv'
    <2>1. TypeOK' /\ Places'
        BY <1>4 DEF Change, Goto, guardVars, TypeOK, Places, CallType
    <2>2. LockStep'
        BY <1>4 DEF Change, Goto, guardVars, TypeOK, Places, CallType, LockStep, Quiet, Course, Even
    <2>3. GuardHolds'
        BY <1>4, <2>2 DEF Change, Goto, guardVars, TypeOK, Places, CallType, LockStep, Quiet, Course, Even, GuardHolds, Returns
    <2> QED
        BY <2>1, <2>2, <2>3
<1>5. ASSUME NEW t \in Thread, Reload(t) PROVE ListenInv'
    <2>1. /\ pc[t] = "reload" /\ UNCHANGED <<bindTimer, bindRevertTo, ticking>>
          /\ \/ pc' = [pc EXCEPT ![t] = "idle"] /\ call' = [call EXCEPT ![t] = NoCall]
                   /\ t \in Client
             \/ pc' = [pc EXCEPT ![t] = "undo"] /\ call' = call
             \/ pc' = [pc EXCEPT ![t] = "hook"] /\ call' = call /\ t \in Timer
             \/ pc' = [pc EXCEPT ![t] = "arm"] /\ call' = call /\ call[t].guarded
        BY <1>5 DEF Reload, Applied, Goto, Finish, Places, guardVars
    <2>2. plane' \in Point /\ agreed' \in Point /\ upset' \in {"calm", "nested", "torn"}
          /\ UNCHANGED <<bind, data, file>>
        BY <1>5 DEF Reload, Applied, Upset, TypeOK, Places
    <2>3. NoCall \in CallType
        BY DEF NoCall, CallType
    <2>4. TypeOK'
        BY <2>1, <2>2, <2>3 DEF TypeOK
    <2>5. Places'
        BY <2>1 DEF TypeOK, Places
    <2>6. LockStep'
        BY <1>5 DEF Reload, Applied, Goto, Finish, NoCall, Upset, guardVars, TypeOK, Places, CallType, LockStep, Quiet, Course, Even
    <2>7. GuardHolds'
        BY <1>5, <2>6 DEF Reload, Applied, Goto, Finish, NoCall, Upset, guardVars, TypeOK, Places, CallType, LockStep, Quiet, Course, Even, GuardHolds, Returns
    <2> QED
        BY <2>4, <2>5, <2>6, <2>7
<1>6. ASSUME NEW t \in Thread, Undo(t) PROVE ListenInv'
    <2>1. TypeOK' /\ Places'
        BY <1>6 DEF Undo, Goto, guardVars, TypeOK, Places, CallType
    <2>2. LockStep'
        BY <1>6 DEF Undo, Goto, guardVars, TypeOK, Places, CallType, LockStep, Quiet, Course, Even
    <2>3. GuardHolds'
        BY <1>6, <2>2 DEF Undo, Goto, guardVars, TypeOK, Places, CallType, LockStep, Quiet, Course, Even, GuardHolds, Returns
    <2> QED
        BY <2>1, <2>2, <2>3
<1>7. ASSUME NEW t \in Thread, Retry(t) PROVE ListenInv'
    <2>1. TypeOK' /\ Places'
        BY <1>7 DEF Retry, Goto, Upset, guardVars, TypeOK, Places, CallType
    <2>2. LockStep'
        BY <1>7 DEF Retry, Goto, Upset, guardVars, TypeOK, Places, CallType, LockStep, Quiet, Course, Even
    <2>3. GuardHolds'
        BY <1>7, <2>2 DEF Retry, Goto, Upset, guardVars, TypeOK, Places, CallType, LockStep, Quiet, Course, Even, GuardHolds, Returns
    <2> QED
        BY <2>1, <2>2, <2>3
<1>8. ASSUME NEW t \in Thread, Restore(t) PROVE ListenInv'
    <2>1. TypeOK' /\ Places'
        BY <1>8 DEF Restore, Record, Goto, Finish, NoCall, Upset, guardVars, TypeOK, Places, CallType
    <2>2. LockStep'
        BY <1>8 DEF Restore, Record, Goto, Finish, NoCall, Upset, guardVars, TypeOK, Places, CallType, LockStep, Quiet, Course, Even
    <2>3. GuardHolds'
        BY <1>8, <2>2 DEF Restore, Record, Goto, Finish, NoCall, Upset, guardVars, TypeOK, Places, CallType, LockStep, Quiet, Course, Even, GuardHolds, Returns
    <2> QED
        BY <2>1, <2>2, <2>3
<1>9. ASSUME NEW t \in Thread, Hook(t) PROVE ListenInv'
    <2>1. TypeOK' /\ Places'
        BY <1>9 DEF Hook, Record, Goto, Finish, NoCall, Upset, guardVars, TypeOK, Places, CallType
    <2>2. LockStep'
        BY <1>9 DEF Hook, Record, Goto, Finish, NoCall, Upset, guardVars, TypeOK, Places, CallType, LockStep, Quiet, Course, Even
    <2>3. GuardHolds'
        BY <1>9, <2>2 DEF Hook, Record, Goto, Finish, NoCall, Upset, guardVars, TypeOK, Places, CallType, LockStep, Quiet, Course, Even, GuardHolds, Returns
    <2> QED
        BY <2>1, <2>2, <2>3
<1>10. ASSUME NEW t \in Timer, Fire(t) PROVE ListenInv'
    <2>1. TypeOK' /\ Places'
        BY <1>10 DEF Fire, Goto, Upset, Overlaps, TypeOK, Places, CallType
    <2>2. LockStep'
        BY <1>10 DEF Fire, Goto, Upset, Overlaps, TypeOK, Places, CallType, LockStep, Quiet, Course, Even
    <2>3. GuardHolds'
        BY <1>10, <2>2 DEF Fire, Goto, Upset, Overlaps, TypeOK, Places, CallType, LockStep, Quiet, Course, Even, GuardHolds, Returns
    <2> QED
        BY <2>1, <2>2, <2>3
<1>11. ASSUME NEW t \in Timer, Expire(t) PROVE ListenInv'
    <2>1. TypeOK' /\ Places'
        BY <1>11 DEF Expire, Goto, TypeOK, Places, CallType
    <2>2. LockStep'
        BY <1>11 DEF Expire, Goto, TypeOK, Places, CallType, LockStep, Quiet, Course, Even
    <2>3. GuardHolds'
        BY <1>11, <2>2 DEF Expire, Goto, TypeOK, Places, CallType, LockStep, Quiet, Course, Even, GuardHolds, Returns
    <2> QED
        BY <2>1, <2>2, <2>3
<1>12. ASSUME NEW c \in Client, Confirm(c) PROVE ListenInv'
    <2>1. TypeOK' /\ Places'
        BY <1>12 DEF Confirm, guardVars, TypeOK, Places, CallType
    <2>2. LockStep'
        BY <1>12 DEF Confirm, guardVars, TypeOK, Places, CallType, LockStep, Quiet, Course, Even
    <2>3. GuardHolds'
        BY <1>12, <2>2 DEF Confirm, guardVars, TypeOK, Places, CallType, LockStep, Quiet, Course, Even, GuardHolds, Returns
    <2> QED
        BY <2>1, <2>2, <2>3
<1>13. ASSUME NEW c \in Client, NEW t \in Timer, Arm(c, t) PROVE ListenInv'
    <2>1. TypeOK' /\ Places'
        BY <1>13 DEF Arm, Goto, Finish, NoCall, TypeOK, Places, CallType
    <2>2. LockStep'
        BY <1>13 DEF Arm, Goto, Finish, NoCall, TypeOK, Places, CallType, LockStep, Quiet, Course, Even
    <2>3. GuardHolds'
        BY <1>13, <2>2 DEF Arm, Goto, Finish, NoCall, TypeOK, Places, CallType, LockStep, Quiet, Course, Even, GuardHolds, Returns
    <2> QED
        BY <2>1, <2>2, <2>3
<1>14. CASE Crash
    <2>1. TypeOK' /\ Places'
        BY <1>14 DEF Crash, TypeOK, Places, CallType, NoCall
    <2>2. LockStep' /\ GuardHolds'
        BY <1>14 DEF Crash, LockStep, GuardHolds, Quiet, Even, NoCall
    <2> QED
        BY <2>1, <2>2
<1>15. CASE UNCHANGED vars
    BY <1>15 DEF vars, guardVars, TypeOK, Places, LockStep, Quiet, Even, Course, GuardHolds, Returns
<1> QED
    BY <1>1, <1>2, <1>3, <1>4, <1>5, <1>6, <1>7, <1>8, <1>9, <1>10, <1>11, <1>12, <1>13, <1>14, <1>15
    DEF Next, Request, Step
-----------------------------------------------------------------------------
\* The strengthening holds in every state.
LEMMA ListenInvariant == ASSUME ListenGuardAssumption PROVE Spec => []ListenInv
BY ListenInit, ListenStep, PTL DEF Spec

\* Once no request and no callback is running, the box, the Manager, the store
\* and the file name one listen point, unless calls overlapped or a save or a
\* restoring rebuild failed (handleSetInbound, SetInboundRevertHook).
THEOREM ListenerIsReported == ASSUME ListenGuardAssumption PROVE Spec => []PlaneIsReported
<1>1. ListenInv => PlaneIsReported
    BY DEF ListenInv, LockStep, Even, PlaneIsReported
<1> QED
    BY <1>1, ListenInvariant, PTL

\* Without an armed guard the gateway listens where it was last told to without
\* a guard, or where somebody confirmed it (the callback, ConfirmInboundListen).
THEOREM UnconfirmedPointsGo == ASSUME ListenGuardAssumption PROVE Spec => []UnconfirmedIsTakenBack
<1>1. ListenInv => UnconfirmedIsTakenBack
    BY DEF ListenInv, GuardHolds, UnconfirmedIsTakenBack
<1> QED
    BY <1>1, ListenInvariant, PTL

\* A callback reverts only while a guard is armed (the callback's armed check).
THEOREM ConfirmedPointsStay == ASSUME ListenGuardAssumption PROVE Spec => ConfirmedStays
<1>1. ListenInv /\ [Next]_vars
          => [\A t \in Timer : pc[t] = "fired" /\ pc'[t] = "change" => bindTimer # None]_vars
    <2> SUFFICES ASSUME ListenInv, Next, NEW t \in Timer, pc[t] = "fired", pc'[t] = "change"
                 PROVE  bindTimer # None
        OBVIOUS
    <2> USE DEF ListenGuardAssumption, ListenInv, TypeOK, Places, TimerLabel, ClientLabel, Thread
    <2>1. ASSUME NEW c \in Client, Request(c) PROVE FALSE
        BY <2>1 DEF Request, SetInbound, Confirm, Goto
    <2>2. ASSUME NEW c \in Client, NEW u \in Timer, Arm(c, u) PROVE FALSE
        BY <2>2 DEF Arm, Finish, Goto
    <2>3. ASSUME NEW u \in Thread, Step(u) PROVE FALSE
        <3>1. pc[u] # "fired" /\ \A v \in Thread \ {u} : pc'[v] = pc[v]
            BY <2>3 DEF Step, Store, Read, Change, Reload, Applied, Undo, Retry, Restore, Hook,
                        Record, Finish, Goto
        <3> QED
            BY <3>1
    <2>4. ASSUME NEW u \in Timer, Fire(u) PROVE FALSE
        BY <2>4 DEF Fire, Goto
    <2>5. ASSUME NEW u \in Timer, Expire(u) PROVE bindTimer # None
        BY <2>5 DEF Expire, Goto
    <2>6. CASE Crash
        BY <2>6 DEF Crash
    <2> QED
        BY <2>1, <2>2, <2>3, <2>4, <2>5, <2>6 DEF Next
<1> QED
    BY <1>1, ListenInvariant, PTL DEF Spec, ConfirmedStays
=============================================================================
