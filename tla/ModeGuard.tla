----------------------------- MODULE ModeGuard -----------------------------
(***************************************************************************)
(* The capture mode and its dead-man's switch (internal/gateway/gateway.go *)
(* setMode, SetModeGuarded, ConfirmMode; internal/modecfg; cmd/modeflag.go) *)
(*                                                                         *)
(* A guarded switch arms a timer whose callback switches back unless the    *)
(* operator confirms first.  Callers and timer callbacks are threads; one   *)
(* action is one critical section of m.mu or guardMu, one rebuild, or one   *)
(* write of mode.json.  A rebuild is reduced to what Rebuild shows of it:   *)
(* it brings the box up in the mode the Manager holds when it takes its     *)
(* snapshot, or fails and leaves the box as it was.                         *)
(***************************************************************************)
EXTENDS Naturals, FiniteSets

CONSTANTS
    Mode,    \* manual, system, tun
    Works,   \* the modes this machine can start (tun needs root)
    Client,  \* concurrent API callers
    Plain,   \* the ones that switch without guard_seconds
    Guarding,\* the ones that switch with guard_seconds
    Timer,   \* bound: the timers that can be alive at once
    None

ASSUME ModeGuardAssumption ==
    /\ Works \subseteq Mode
    /\ Plain \subseteq Client /\ Guarding \subseteq Client
    /\ Client \cap Timer = {}
    /\ None \notin Mode \cup Timer

VARIABLES
    mode,      \* Manager.mode
    plane,     \* the mode the running box captures in
    stored,    \* mode.json
    timer,     \* Manager.revertTimer
    revertTo,  \* Manager.revertTo
    ticking,   \* the timers that will still fire
    pc,        \* where each thread is
    want,      \* the mode the thread is switching to or recording
    was,       \* the mode it goes back to when the switch fails
    from,      \* the mode a guarded switch will be reverted to
    keep,      \* setMode's persist argument
    unconfirmed \* history: the mode of the guarded switch nobody has settled

guardVars == <<timer, revertTo, ticking, unconfirmed>>
localVars == <<want, was, from, keep>>
vars == <<mode, plane, stored, guardVars, pc, localVars>>

Thread == Client \cup Timer
Label == {"idle", "switch", "reload", "undo", "retry", "persist", "arm",
          "fired", "confirm"}

TypeOK ==
    /\ mode \in Mode /\ plane \in Mode /\ stored \in Mode
    /\ timer \in Timer \cup {None}
    /\ revertTo \in Mode \cup {None}
    /\ ticking \in SUBSET Timer
    /\ unconfirmed \in Mode \cup {None}
    /\ pc \in [Thread -> Label]
    /\ want \in [Thread -> Mode \cup {None}]
    /\ was \in [Thread -> Mode \cup {None}]
    /\ from \in [Thread -> Mode \cup {None}]
    /\ keep \in [Thread -> BOOLEAN]

Init ==
    /\ mode \in Works
    /\ plane = mode
    /\ stored = mode
    /\ timer = None
    /\ revertTo = None
    /\ ticking = {}
    /\ unconfirmed = None
    /\ pc = [t \in Thread |-> "idle"]
    /\ want = [t \in Thread |-> None]
    /\ was = [t \in Thread |-> None]
    /\ from = [t \in Thread |-> None]
    /\ keep = [t \in Thread |-> FALSE]

Goto(t, l) == pc' = [pc EXCEPT ![t] = l]

\* The call returns; its locals are gone.
Finish(t) ==
    /\ Goto(t, "idle")
    /\ want' = [want EXCEPT ![t] = None]
    /\ was' = [was EXCEPT ![t] = None]
    /\ from' = [from EXCEPT ![t] = None]
    /\ keep' = [keep EXCEPT ![t] = FALSE]
-----------------------------------------------------------------------------
\* POST /api/mode without guard_seconds.
SetMode(c, m) ==
    /\ c \in Plain
    /\ pc[c] = "idle"
    /\ want' = [want EXCEPT ![c] = m]
    /\ keep' = [keep EXCEPT ![c] = TRUE]
    /\ Goto(c, "switch")
    /\ UNCHANGED <<mode, plane, stored, guardVars, was, from>>

\* POST /api/mode with guard_seconds: the previous mode is read, and the
\* switch is recorded at once only when it is a no-op.
SetModeGuarded(c, m) ==
    /\ c \in Guarding
    /\ pc[c] = "idle"
    /\ want' = [want EXCEPT ![c] = m]
    /\ from' = [from EXCEPT ![c] = IF mode = m THEN None ELSE mode]
    /\ keep' = [keep EXCEPT ![c] = mode = m]
    /\ Goto(c, "switch")
    /\ UNCHANGED <<mode, plane, stored, guardVars, was>>

\* setMode returns successfully: record the mode, or go on to arm the guard.
Settle(t) ==
    /\ was' = [was EXCEPT ![t] = None]
    /\ Goto(t, IF keep[t] THEN "persist" ELSE "arm")
    /\ UNCHANGED <<want, from, keep>>

\* setMode's first critical section.
Switch(t) ==
    /\ pc[t] = "switch"
    /\ \/ /\ mode = want[t]
          /\ Settle(t)
          /\ UNCHANGED mode
       \/ /\ mode # want[t]
          /\ was' = [was EXCEPT ![t] = mode]
          /\ mode' = want[t]
          /\ Goto(t, "reload")
          /\ UNCHANGED <<want, from, keep>>
    /\ UNCHANGED <<plane, stored, guardVars>>

\* setMode's rebuild.
Reload(t) ==
    /\ pc[t] = "reload"
    /\ \/ /\ mode \in Works
          /\ plane' = mode
          /\ Settle(t)
       \/ /\ mode \notin Works
          /\ Goto(t, "undo")
          /\ UNCHANGED <<plane, localVars>>
    /\ UNCHANGED <<mode, stored, guardVars>>

(* An operator called Bug... is a wrong version of the definition after it,  *)
(* written to see that the properties notice; no specification uses it.     *)

\* The field is put back, the box is not.
BugUndoWithoutRetry(t) ==
    /\ pc[t] = "undo"
    /\ mode' = was[t]
    /\ Finish(t)
    /\ UNCHANGED <<plane, stored, guardVars>>

\* setMode after a failed rebuild: the previous mode, then a best-effort
\* rebuild; the error is returned and no guard is armed.
Undo(t) ==
    /\ pc[t] = "undo"
    /\ mode' = was[t]
    /\ was' = [was EXCEPT ![t] = None]
    /\ Goto(t, "retry")
    /\ UNCHANGED <<plane, stored, guardVars, want, from, keep>>

Retry(t) ==
    /\ pc[t] = "retry"
    /\ plane' = IF mode \in Works THEN mode ELSE plane
    /\ Finish(t)
    /\ UNCHANGED <<mode, stored, guardVars>>

\* persist: the write may fail, which is only logged.
Persist(t) ==
    /\ pc[t] = "persist"
    /\ stored' \in {want[t], stored}
    /\ Finish(t)
    /\ UNCHANGED <<mode, plane, guardVars>>

\* SetModeGuarded's tail.  time.Timer.Stop prevents a callback that has not
\* started; one that has started is waiting for guardMu and still runs.
Arm(c, t) ==
    /\ pc[c] = "arm"
    /\ t \notin ticking /\ pc[t] = "idle"
    /\ ticking' = (ticking \ {timer}) \cup {t}
    /\ timer' = t
    /\ revertTo' = from[c]
    /\ unconfirmed' = want[c]
    /\ Finish(c)
    /\ UNCHANGED <<mode, plane, stored>>

\* The timer expires: its callback starts on a goroutine of its own.
Fire(t) ==
    /\ t \in ticking
    /\ ticking' = ticking \ {t}
    /\ Goto(t, "fired")
    /\ UNCHANGED <<mode, plane, stored, timer, revertTo, unconfirmed, localVars>>

\* The callback without its armed check.
BugExpireUnarmed(t) ==
    /\ pc[t] = "fired"
    /\ timer' = None /\ revertTo' = None /\ unconfirmed' = None
    /\ want' = [want EXCEPT ![t] = IF revertTo = None THEN mode ELSE revertTo]
    /\ keep' = [keep EXCEPT ![t] = TRUE]
    /\ Goto(t, "switch")
    /\ UNCHANGED <<mode, plane, stored, ticking, was, from>>

\* The callback that reverts but leaves the guard armed.
BugExpireStaysArmed(t) ==
    /\ pc[t] = "fired"
    /\ \/ /\ timer # None /\ revertTo # None
          /\ want' = [want EXCEPT ![t] = revertTo]
          /\ keep' = [keep EXCEPT ![t] = TRUE]
          /\ Goto(t, "switch")
       \/ /\ ~(timer # None /\ revertTo # None)
          /\ Goto(t, "idle")
          /\ UNCHANGED <<want, keep>>
    /\ UNCHANGED <<mode, plane, stored, guardVars, was, from>>

\* The callback's critical section.
Expire(t) ==
    /\ pc[t] = "fired"
    /\ timer' = None
    /\ revertTo' = None
    /\ unconfirmed' = None
    /\ \/ /\ timer # None /\ revertTo # None
          /\ want' = [want EXCEPT ![t] = revertTo]
          /\ keep' = [keep EXCEPT ![t] = TRUE]
          /\ Goto(t, "switch")
       \/ /\ ~(timer # None /\ revertTo # None)
          /\ Goto(t, "idle")
          /\ UNCHANGED <<want, keep>>
    /\ UNCHANGED <<mode, plane, stored, ticking, was, from>>

\* ConfirmMode: disarm, and then, outside guardMu, record the mode.
Confirm(c) ==
    /\ pc[c] = "idle"
    /\ ticking' = ticking \ {timer}
    /\ timer' = None
    /\ revertTo' = None
    /\ unconfirmed' = None
    /\ IF timer # None \/ revertTo # None THEN Goto(c, "confirm") ELSE UNCHANGED pc
    /\ UNCHANGED <<mode, plane, stored, localVars>>

ConfirmRead(c) ==
    /\ pc[c] = "confirm"
    /\ want' = [want EXCEPT ![c] = mode]
    /\ Goto(c, "persist")
    /\ UNCHANGED <<mode, plane, stored, guardVars, was, from, keep>>

\* The process dies and is started again in the stored mode.
Crash ==
    /\ stored \in Works
    /\ mode' = stored /\ plane' = stored
    /\ timer' = None
    /\ revertTo' = None
    /\ ticking' = {}
    /\ unconfirmed' = None
    /\ pc' = [t \in Thread |-> "idle"]
    /\ want' = [t \in Thread |-> None]
    /\ was' = [t \in Thread |-> None]
    /\ from' = [t \in Thread |-> None]
    /\ keep' = [t \in Thread |-> FALSE]
    /\ UNCHANGED stored
-----------------------------------------------------------------------------
Call(c) ==
    \/ \E m \in Mode : SetMode(c, m) \/ SetModeGuarded(c, m)
    \/ Confirm(c)

Step(t) ==
    \/ Switch(t) \/ Reload(t) \/ Undo(t) \/ Retry(t) \/ Persist(t)

Next ==
    \/ \E c \in Client : Call(c) \/ ConfirmRead(c) \/ \E t \in Timer : Arm(c, t)
    \/ \E t \in Thread : Step(t)
    \/ \E t \in Timer : Fire(t) \/ Expire(t)
    \/ Crash

Spec == Init /\ [][Next]_vars

\* A thread inside the Manager keeps running, and a timer left alone fires.
Fairness ==
    /\ \A t \in Thread : WF_vars(Step(t))
    /\ \A t \in Timer : WF_vars(Fire(t)) /\ WF_vars(Expire(t))

FairSpec == Spec /\ Fairness
-----------------------------------------------------------------------------
Quiescent == \A t \in Thread : pc[t] = "idle"

\* Once no call and no timer callback is running, the gateway captures in the
\* mode it reports whenever that mode can be started: no overlap of switches,
\* reverts and failures leaves the box in a mode somebody switched away from.
NoStalePlane == Quiescent /\ mode \in Works => plane = mode

\* A confirmed guard never reverts: also a callback that had already fired and
\* was waiting for guardMu when ConfirmMode ran leaves the mode alone (the
\* callback's armed check).
NoRevertAfterConfirm ==
    [][\A t \in Timer :
         (pc[t] = "fired" /\ pc'[t] = "switch") => unconfirmed # None]_vars

\* A guard does not stay armed for ever: its timer reverts it unless it is
\* confirmed or replaced first (SetModeGuarded).
GuardSettles == \A t \in Timer : (timer = t) ~> (timer # t)

\* What SetModePersister says: a guarded switch is not recorded while its
\* timer is armed, so a crash boots into the mode known to work.
UnconfirmedNotStored ==
    [][(timer # None /\ timer' = timer /\ stored' # stored)
           => stored' # unconfirmed]_vars
=============================================================================
