---------------------------- MODULE ListenGuard ----------------------------
(***************************************************************************)
(* Where the proxy inbound listens, and the dead-man's switch of its own    *)
(* (internal/gateway/gateway.go SetInboundListenGuarded; internal/api/      *)
(* inbound.go; internal/inboundcfg; the revert hook of cmd/serve.go).       *)
(*                                                                         *)
(* Unlike the capture mode, the listen point is stored BEFORE it is applied *)
(* and it is the callback's hook that takes it back.  Requests and timer    *)
(* callbacks are threads; one action is one critical section of the store,  *)
(* of m.mu or of guardMu, or one rebuild, which binds the point the Manager *)
(* holds when it takes its snapshot or fails and leaves the box as it was.  *)
(***************************************************************************)
EXTENDS Naturals, FiniteSets

CONSTANTS
    Point,   \* the listen points a request may ask for (all valid)
    Default, \* the zero value: the base config's own listen point
    Client,  \* concurrent API callers
    Timer,   \* bound: the timers that can be alive at once
    None

\* Assumed of the constants where they get their values.
ListenGuardAssumption ==
    Default \in Point /\ Client \cap Timer = {} /\ None \notin Point \cup Timer

VARIABLES
    bind,         \* Manager.bind
    plane,        \* where the running box listens
    data,         \* inboundcfg.Store.data
    file,         \* inbound.json
    bindTimer,    \* Manager.bindTimer
    bindRevertTo, \* Manager.bindRevertTo
    ticking,      \* the timers that will still fire
    pc,           \* where each thread is
    call,         \* the thread's locals
    agreed,       \* history: the last point set without a guard, or confirmed
    upset         \* history, since the start: "calm"; "nested" when a change was
                  \* made while a guard was armed; "torn" when calls overlapped,
                  \* or a save or a restoring rebuild failed

guardVars == <<bindTimer, bindRevertTo, ticking>>
vars == <<bind, plane, data, file, guardVars, pc, call, agreed, upset>>

Thread == Client \cup Timer

\* want: the point asked for; prev: what the store held; was: what the Manager
\* held; from: the point a guarded change goes back to.
NoCall == [want |-> None, prev |-> None, was |-> None, from |-> None, guarded |-> FALSE]

Init ==
    /\ file \in Point
    /\ bind = file /\ plane = file /\ data = file /\ agreed = file
    /\ bindTimer = None /\ bindRevertTo = None /\ ticking = {}
    /\ pc = [t \in Thread |-> "idle"]
    /\ call = [t \in Thread |-> NoCall]
    /\ upset = "calm"

Goto(t, l) == pc' = [pc EXCEPT ![t] = l]
Finish(t) == Goto(t, "idle") /\ call' = [call EXCEPT ![t] = NoCall]
Upset(kind) == upset' = IF upset = "torn" \/ kind = "calm" THEN upset ELSE kind
Overlaps(t) == \E u \in Thread \ {t} : pc[u] # "idle"
-----------------------------------------------------------------------------
\* PUT /api/inbound, after the checks that leave no trace: what the store
\* holds is remembered for the error path.
SetInbound(c, l, guarded) ==
    /\ pc[c] = "idle"
    /\ call' = [call EXCEPT ![c] = [want |-> l, prev |-> data, was |-> None, from |-> None,
                                    guarded |-> guarded]]
    /\ Goto(c, "set")
    /\ Upset(CASE Overlaps(c) -> "torn"
               [] ~Overlaps(c) /\ bindTimer # None -> "nested"
               [] OTHER -> "calm")
    /\ UNCHANGED <<bind, plane, data, file, guardVars, agreed>>

\* Store.Set: the memory, then the file; a failed save ends the request.
Store(c) ==
    /\ pc[c] = "set"
    /\ data' = call[c].want
    /\ \/ /\ file' = call[c].want
          /\ Goto(c, IF call[c].guarded THEN "read" ELSE "change")
          /\ UNCHANGED <<call, upset>>
       \/ /\ Finish(c)
          /\ Upset("torn")
          /\ UNCHANGED file
    /\ UNCHANGED <<bind, plane, guardVars, agreed>>

\* SetInboundListenGuarded reads the point it would go back to.
Read(c) ==
    /\ pc[c] = "read"
    /\ call' = [call EXCEPT ![c].from = bind]
    /\ Goto(c, "change")
    /\ UNCHANGED <<bind, plane, data, file, guardVars, agreed, upset>>

\* SetInboundListen through setAndRebuild: the field, ...
Change(t) ==
    /\ pc[t] = "change"
    /\ call' = [call EXCEPT ![t].was = bind]
    /\ bind' = call[t].want
    /\ Goto(t, "reload")
    /\ UNCHANGED <<plane, data, file, guardVars, agreed, upset>>

\* What follows a change that was applied: nothing for a plain one, the guard
\* for one that moved the listener, the hook for a revert.
Applied(t) ==
    \/ /\ t \in Timer
       /\ Goto(t, "hook")
       /\ UNCHANGED <<call, agreed>>
    \/ /\ t \in Client /\ ~call[t].guarded
       /\ Finish(t)
       /\ agreed' = call[t].want
    \/ /\ call[t].guarded /\ call[t].from = call[t].want
       /\ Finish(t)
       /\ UNCHANGED agreed
    \/ /\ call[t].guarded /\ call[t].from # call[t].want
       /\ Goto(t, "arm")
       /\ UNCHANGED <<call, agreed>>

\* ... the rebuild, ...
Reload(t) ==
    /\ pc[t] = "reload"
    /\ \/ /\ plane' = bind
          /\ Applied(t)
          /\ UNCHANGED upset
       \/ /\ Goto(t, "undo")
          /\ Upset(IF t \in Timer THEN "torn" ELSE "calm")
          /\ UNCHANGED <<plane, call, agreed>>
    /\ UNCHANGED <<bind, data, file, guardVars>>

\* ... and when that failed the field again, and one more rebuild whose error
\* nobody looks at.
Undo(t) ==
    /\ pc[t] = "undo"
    /\ bind' = call[t].was
    /\ Goto(t, "retry")
    /\ UNCHANGED <<plane, data, file, guardVars, call, agreed, upset>>

Retry(t) ==
    /\ pc[t] = "retry"
    /\ \/ plane' = bind /\ UNCHANGED upset
       \/ UNCHANGED plane /\ Upset("torn")
    /\ Goto(t, IF t \in Timer THEN "hook" ELSE "restore")
    /\ UNCHANGED <<bind, data, file, guardVars, call, agreed>>

\* Store.Set whose error is dropped or only logged.
Record(t, l) ==
    /\ data' = l
    /\ \/ file' = l /\ UNCHANGED upset
       \/ UNCHANGED file /\ Upset("torn")
    /\ Finish(t)
    /\ UNCHANGED <<bind, plane, guardVars, agreed>>

(* An operator called Bug... is a wrong version of the definition after it,  *)
(* written to see that the properties notice; no specification uses it.     *)

\* A refused change stays in the store.
BugRestore(c) ==
    /\ pc[c] = "restore"
    /\ Finish(c)
    /\ UNCHANGED <<bind, plane, data, file, guardVars, agreed, upset>>

\* handleSetInbound's error path.
Restore(c) == pc[c] = "restore" /\ Record(c, call[c].prev)

\* The daemon never follows the guard.
BugHook(t) ==
    /\ pc[t] = "hook"
    /\ Finish(t)
    /\ UNCHANGED <<bind, plane, data, file, guardVars, agreed, upset>>

\* SetInboundRevertHook: the store follows the guard, also when the rebuild of
\* the revert failed.
Hook(t) == pc[t] = "hook" /\ Record(t, call[t].want)

\* SetInboundListenGuarded's tail: an older timer is stopped, unless its
\* callback has already started.
Arm(c, t) ==
    /\ pc[c] = "arm"
    /\ t \notin ticking \ {bindTimer} /\ pc[t] = "idle"
    /\ ticking' = (ticking \ {bindTimer}) \cup {t}
    /\ bindTimer' = t
    /\ bindRevertTo' = call[c].from
    /\ Finish(c)
    /\ UNCHANGED <<bind, plane, data, file, agreed, upset>>

\* The timer expires: its callback starts on a goroutine of its own.
Fire(t) ==
    /\ t \in ticking
    /\ ticking' = ticking \ {t}
    /\ Goto(t, "fired")
    /\ Upset(IF Overlaps(t) THEN "torn" ELSE "calm")
    /\ UNCHANGED <<bind, plane, data, file, bindTimer, bindRevertTo, call, agreed>>

\* The callback without its armed check.
BugExpireUnarmed(t) ==
    /\ pc[t] = "fired"
    /\ bindTimer' = None /\ bindRevertTo' = None
    /\ call' = [call EXCEPT ![t].want = IF bindRevertTo = None THEN Default ELSE bindRevertTo]
    /\ Goto(t, "change")
    /\ UNCHANGED <<bind, plane, data, file, ticking, agreed, upset>>

\* The callback's critical section.
Expire(t) ==
    /\ pc[t] = "fired"
    /\ bindTimer' = None /\ bindRevertTo' = None
    /\ \/ /\ bindTimer # None
          /\ call' = [call EXCEPT ![t].want = bindRevertTo]
          /\ Goto(t, "change")
       \/ /\ bindTimer = None
          /\ Goto(t, "idle")
          /\ UNCHANGED call
    /\ UNCHANGED <<bind, plane, data, file, ticking, agreed, upset>>

\* The confirmation that leaves the timer running.
BugConfirm(c) ==
    /\ pc[c] = "idle"
    /\ agreed' = IF bindTimer # None THEN bind ELSE agreed
    /\ UNCHANGED <<bind, plane, data, file, guardVars, pc, call, upset>>

\* ConfirmInboundListen: there is nothing to record, the file has it already.
Confirm(c) ==
    /\ pc[c] = "idle"
    /\ ticking' = ticking \ {bindTimer}
    /\ agreed' = IF bindTimer # None THEN bind ELSE agreed
    /\ bindTimer' = None /\ bindRevertTo' = None
    /\ UNCHANGED <<bind, plane, data, file, pc, call, upset>>

\* The process dies, perhaps half way through a write, and starts again: a
\* file that cannot be read is replaced by the default.
Crash ==
    /\ file' \in {file} \cup
           {Default : t \in {u \in Thread : pc[u] \in {"set", "restore", "hook"}}}
    /\ bind' = file' /\ plane' = file' /\ data' = file' /\ agreed' = file'
    /\ bindTimer' = None /\ bindRevertTo' = None /\ ticking' = {}
    /\ pc' = [t \in Thread |-> "idle"]
    /\ call' = [t \in Thread |-> NoCall]
    /\ upset' = "calm"
-----------------------------------------------------------------------------
Request(c) ==
    \/ \E l \in Point, g \in BOOLEAN : SetInbound(c, l, g)
    \/ Confirm(c)

Step(t) ==
    \/ Store(t) \/ Read(t) \/ Change(t) \/ Reload(t) \/ Undo(t) \/ Retry(t)
    \/ Restore(t) \/ Hook(t)

Next ==
    \/ \E c \in Client : Request(c) \/ \E t \in Timer : Arm(c, t)
    \/ \E t \in Thread : Step(t)
    \/ \E t \in Timer : Fire(t) \/ Expire(t)
    \/ Crash

Spec == Init /\ [][Next]_vars
-----------------------------------------------------------------------------
Quiet == \A t \in Thread : pc[t] = "idle"

\* Once no request and no callback is running, the box, the Manager, the store
\* and the file name one listen point, whatever was refused, rolled back or
\* reverted on the way; calls that overlap, and a save or a restoring rebuild
\* that fails, are what can part them (handleSetInbound's "keep the store
\* matching the running plane", and the revert hook).
PlaneIsReported ==
    Quiet /\ upset # "torn" => bind = plane /\ bind = data /\ bind = file

\* When no guard is armed the gateway listens where it was last told to
\* without a guard or where somebody confirmed it: a guarded change nobody
\* confirmed has been taken back, one that was confirmed stays.  A change made
\* while a guard was armed is not covered: the guard takes that back as well.
UnconfirmedIsTakenBack ==
    Quiet /\ upset = "calm" /\ bindTimer = None => bind = agreed

\* A callback that finds no guard, because it was confirmed or reverted while
\* the callback waited for guardMu, leaves the listener alone.
ConfirmedStays ==
    [][\A t \in Timer : pc[t] = "fired" /\ pc'[t] = "change" => bindTimer # None]_vars

\* A guard does not stay armed for ever.
GuardSettles == \A t \in Timer : (bindTimer = t) ~> (bindTimer # t)
=============================================================================
