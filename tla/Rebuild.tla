------------------------------ MODULE Rebuild ------------------------------
(***************************************************************************)
(* internal/gateway/gateway.go: how the Manager applies a policy change to *)
(* the running sing-box instance ("the box").                              *)
(*                                                                         *)
(* A request (an API handler, an auto-ban, a guard's timer) overwrites some *)
(* Manager fields under m.mu, rebuilds the box under m.rebuildMu, and, when *)
(* the rebuild fails, puts its own fields back and rebuilds once more,      *)
(* discarding that second result.  Requests run concurrently: nothing       *)
(* serialises two of them except the two mutexes.  One action is one        *)
(* critical section of m.mu, or the work between two of them.               *)
(*                                                                         *)
(* Abstractions.  Policy is a function from axes (whitelist, blacklist,     *)
(* quarantine, nodes, mode, ...) to opaque values.  A value builds when     *)
(* buildMergedConfig and box.New accept it, and starts when the box can     *)
(* also bring it up.  The base config file is re-read by every rebuild and  *)
(* may be edited by others.  "The port" stands for whatever the box needs   *)
(* exclusively; another program can take it only while no box holds it.     *)
(***************************************************************************)
EXTENDS Naturals

CONSTANTS
    Req,      \* concurrent callers of the Manager
    Axis,     \* the policy fields of the Manager
    Value,    \* what a field can hold
    Builds,   \* values that build
    Starts,   \* values that also start
    AxesOf,   \* the fields each caller overwrites (one, or ApplyProfile's many)
    Initial,  \* the policy loaded from the stores at boot
    Base,     \* the states the base config file can be in
    None

ASSUME RebuildAssumption ==
    /\ Starts \subseteq Builds
    /\ Builds \subseteq Value
    /\ AxesOf \in [Req -> SUBSET Axis]
    /\ Initial \in [Axis -> Starts]
    /\ Base \subseteq {"sound", "unbuildable", "unstartable"} /\ "sound" \in Base
    /\ None \notin Req /\ None \notin [base : Base, pol : [Axis -> Value]]

VARIABLES
    base,      \* the base config file: sound, or rejected by build or by start
    portFree,  \* FALSE while another program holds what the box needs
    stolen,    \* history: the port was taken since a box last ran
    mem,       \* the Manager's policy fields
    eligible,  \* Manager.eligible: refreshed from the snapshot of every rebuild
    holder,    \* owner of rebuildMu
    instance,  \* configuration of the running box
    lastGood,  \* the last configuration that started
    pc,        \* where each caller is
    again,     \* the caller is in its second, best-effort rebuild
    prev,      \* the values the caller's revert closure restores
    cand,      \* the rebuild's snapshot, then its merged config
    told       \* what the caller was told

envVars == <<base, portFree, stolen>>
boxVars == <<instance, lastGood>>
reqVars == <<pc, again, prev, cand, told>>
vars == <<envVars, mem, eligible, holder, boxVars, reqVars>>
-----------------------------------------------------------------------------
Policy == [Axis -> Value]
Config == [base : Base, pol : Policy]
Label == {"idle", "reload", "build", "swap", "start", "restore", "revert"}
Report == {"nothing", "applied", "buildFailed", "stillRunning", "notRunning"}

TypeOK ==
    /\ base \in Base
    /\ portFree \in BOOLEAN
    /\ stolen \in BOOLEAN
    /\ mem \in Policy
    /\ eligible \in Policy
    /\ holder \in Req \cup {None}
    /\ instance \in Config \cup {None}
    /\ lastGood \in Config \cup {None}
    /\ pc \in [Req -> Label]
    /\ again \in [Req -> BOOLEAN]
    /\ prev \in [Req -> Policy]
    /\ cand \in [Req -> Config]
    /\ told \in [Req -> Report]

CanBuild(c) == c.base # "unbuildable" /\ \A a \in Axis : c.pol[a] \in Builds
CanStart(c) == c.base = "sound" /\ \A a \in Axis : c.pol[a] \in Starts

\* The policy that takes the axes in S from f and the others from g.
Overlay(f, g, S) == [a \in Axis |-> IF a \in S THEN f[a] ELSE g[a]]

Rest == [base |-> "sound", pol |-> Initial]

Init ==
    /\ base \in Base
    /\ portFree = TRUE
    /\ stolen = FALSE
    /\ mem = Initial
    /\ eligible = Initial
    /\ holder = None
    /\ instance = None
    /\ lastGood = None
    /\ pc = [r \in Req |-> "idle"]
    /\ again = [r \in Req |-> FALSE]
    /\ prev = [r \in Req |-> Initial]
    /\ cand = [r \in Req |-> Rest]
    /\ told = [r \in Req |-> "nothing"]
-----------------------------------------------------------------------------
(* The world outside the process.                                          *)

EditBase(b) ==
    /\ base' = b
    /\ UNCHANGED <<portFree, stolen, mem, eligible, holder, boxVars, reqVars>>

TakePort ==
    /\ instance = None
    /\ portFree
    /\ portFree' = FALSE
    /\ stolen' = TRUE
    /\ UNCHANGED <<base, mem, eligible, holder, boxVars, reqVars>>

FreePort ==
    /\ ~portFree
    /\ portFree' = TRUE
    /\ UNCHANGED <<base, stolen, mem, eligible, holder, boxVars, reqVars>>
-----------------------------------------------------------------------------
(* Manager.Start, called once by runServe before any request can arrive.    *)
(* When it fails the process exits and the service manager runs it again.   *)

Boot ==
    LET c == [base |-> base, pol |-> mem] IN
    /\ lastGood = None
    /\ CanBuild(c) /\ CanStart(c) /\ portFree
    /\ instance' = c
    /\ lastGood' = c
    /\ eligible' = mem
    /\ stolen' = FALSE
    /\ UNCHANGED <<base, portFree, mem, holder, reqVars>>

\* The head of setAndRebuild and of ApplyProfile: swap the new values in.
Set(r, v) ==
    /\ lastGood # None
    /\ pc[r] = "idle"
    /\ prev' = [prev EXCEPT ![r] = Overlay(mem, Initial, AxesOf[r])]
    /\ mem' = Overlay(v, mem, AxesOf[r])
    /\ told' = [told EXCEPT ![r] = "nothing"]
    /\ pc' = [pc EXCEPT ![r] = "reload"]
    /\ UNCHANGED <<envVars, eligible, holder, boxVars, again, cand>>

\* rebuild: take rebuildMu and snapshot the fields; the scorer's member set
\* follows the snapshot before anything can fail.
Begin(r) ==
    /\ pc[r] = "reload"
    /\ holder = None
    /\ holder' = r
    /\ cand' = [cand EXCEPT ![r] = [base |-> "sound", pol |-> mem]]
    /\ eligible' = mem
    /\ pc' = [pc EXCEPT ![r] = "build"]
    /\ UNCHANGED <<envVars, mem, boxVars, again, prev, told>>

\* The caller returns to whoever asked; its locals are gone.
Return(r) ==
    /\ pc' = [pc EXCEPT ![r] = "idle"]
    /\ again' = [again EXCEPT ![r] = FALSE]
    /\ prev' = [prev EXCEPT ![r] = Initial]

\* The error path that forgets to unlock rebuildMu.
BugFailKeepsLock(r, report) ==
    /\ told' = [told EXCEPT ![r] = report]
    /\ pc' = [pc EXCEPT ![r] = "revert"]
    /\ UNCHANGED <<holder, cand, again, prev>>

\* A failed rebuild returns: the first failure is what the caller reports,
\* the failure of the best-effort one is discarded.
Fail(r, report) ==
    /\ holder' = None
    /\ cand' = [cand EXCEPT ![r] = Rest]
    /\ \/ /\ ~again[r]
          /\ told' = [told EXCEPT ![r] = report]
          /\ pc' = [pc EXCEPT ![r] = "revert"]
          /\ UNCHANGED <<again, prev>>
       \/ /\ again[r]
          /\ Return(r)
          /\ UNCHANGED told

\* "It parsed" taken for "it runs": the bytes are recorded when they build.
BugBuildRecords(r) ==
    LET c == [base |-> base, pol |-> cand[r].pol] IN
    /\ pc[r] = "build"
    /\ \/ /\ CanBuild(c)
          /\ cand' = [cand EXCEPT ![r] = c]
          /\ lastGood' = c
          /\ pc' = [pc EXCEPT ![r] = "swap"]
          /\ UNCHANGED <<holder, again, prev, told>>
       \/ /\ ~CanBuild(c)
          /\ Fail(r, "buildFailed")
          /\ UNCHANGED lastGood
    /\ UNCHANGED <<envVars, mem, eligible, instance>>

\* rebuild: read the base config, merge, construct the box.
Build(r) ==
    LET c == [base |-> base, pol |-> cand[r].pol] IN
    /\ pc[r] = "build"
    /\ \/ /\ CanBuild(c)
          /\ cand' = [cand EXCEPT ![r] = c]
          /\ pc' = [pc EXCEPT ![r] = "swap"]
          /\ UNCHANGED <<holder, again, prev, told>>
       \/ /\ ~CanBuild(c)
          /\ Fail(r, "buildFailed")
    /\ UNCHANGED <<envVars, mem, eligible, boxVars>>

\* The new box is started while the old one still runs.
BugSwapKeepsOld(r) ==
    /\ pc[r] = "swap"
    /\ pc' = [pc EXCEPT ![r] = "start"]
    /\ UNCHANGED <<envVars, mem, eligible, holder, boxVars, again, prev, cand, told>>

\* rebuild: forget and close the old box, freeing its listeners.
Swap(r) ==
    /\ pc[r] = "swap"
    /\ instance' = None
    /\ pc' = [pc EXCEPT ![r] = "start"]
    /\ UNCHANGED <<envVars, mem, eligible, holder, lastGood, again, prev, cand, told>>

\* rebuild: start the new box, and record it as the last good one.
Start(r) ==
    /\ pc[r] = "start"
    /\ \/ /\ CanStart(cand[r]) /\ portFree
          /\ instance' = cand[r]
          /\ lastGood' = cand[r]
          /\ stolen' = FALSE
          /\ holder' = None
          /\ told' = [told EXCEPT ![r] = IF again[r] THEN @ ELSE "applied"]
          /\ cand' = [cand EXCEPT ![r] = Rest]
          /\ Return(r)
       \/ /\ ~(CanStart(cand[r]) /\ portFree)
          /\ pc' = [pc EXCEPT ![r] = "restore"]
          /\ UNCHANGED <<boxVars, stolen, holder, again, prev, cand, told>>
    /\ UNCHANGED <<base, portFree, mem, eligible>>

\* A start failure with no recovery but the log line.
BugRestoreNothing(r) ==
    /\ pc[r] = "restore"
    /\ Fail(r, "notRunning")
    /\ UNCHANGED <<envVars, mem, eligible, boxVars>>

\* restoreLastGood, and the error that says which of its outcomes happened.
Restore(r) ==
    /\ pc[r] = "restore"
    /\ \/ /\ lastGood # None /\ portFree
          /\ instance' = lastGood
          /\ stolen' = FALSE
          /\ Fail(r, "stillRunning")
       \/ /\ ~(lastGood # None /\ portFree)
          /\ Fail(r, "notRunning")
          /\ UNCHANGED <<instance, stolen>>
    /\ UNCHANGED <<base, portFree, mem, eligible, lastGood>>

\* The second rebuild without the revert, and the revert without it.
BugRevertNothing(r) ==
    /\ pc[r] = "revert"
    /\ again' = [again EXCEPT ![r] = TRUE]
    /\ pc' = [pc EXCEPT ![r] = "reload"]
    /\ UNCHANGED <<envVars, mem, eligible, holder, boxVars, prev, cand, told>>

BugRevertWithoutRebuild(r) ==
    /\ pc[r] = "revert"
    /\ mem' = Overlay(prev[r], mem, AxesOf[r])
    /\ Return(r)
    /\ UNCHANGED <<envVars, eligible, holder, boxVars, cand, told>>

\* setAndRebuild / ApplyProfile after a failure: put the fields back, go again.
Revert(r) ==
    /\ pc[r] = "revert"
    /\ mem' = Overlay(prev[r], mem, AxesOf[r])
    /\ again' = [again EXCEPT ![r] = TRUE]
    /\ pc' = [pc EXCEPT ![r] = "reload"]
    /\ UNCHANGED <<envVars, eligible, holder, boxVars, prev, cand, told>>
-----------------------------------------------------------------------------
Inside(r) == Build(r) \/ Swap(r) \/ Start(r) \/ Restore(r) \/ Revert(r)

Manager ==
    \E r \in Req :
        \/ \E v \in [AxesOf[r] -> Value] : Set(r, v)
        \/ Begin(r)
        \/ Inside(r)

Environment == TakePort \/ FreePort \/ \E b \in Base : EditBase(b)

Next == Boot \/ Manager \/ Environment

Spec == Init /\ [][Next]_vars

\* A caller that has begun keeps running, and Go's mutexes hand over to a
\* waiter that has been passed over, so Begin is strongly fair.
Fairness == \A r \in Req : WF_vars(Inside(r)) /\ SF_vars(Begin(r))

FairSpec == Spec /\ Fairness
-----------------------------------------------------------------------------
Plane == INSTANCE DataPlane WITH box <- instance, good <- lastGood, lost <- stolen

\* The Manager does what DataPlane promises: no interleaving of changes runs two
\* boxes, brings up anything but a new or the last good configuration, or ends
\* a change with the gateway down (rebuild, restoreLastGood).
ImplementsDataPlane == Plane!Spec

Quiescent == \A r \in Req : pc[r] = "idle"

\* No reload is lost: once every caller has returned, the last rebuild was
\* made from the fields the Manager holds now, whatever the callers'
\* interleaving and failures (rebuild's snapshot, setAndRebuild).
NoLostReload == Quiescent => eligible = mem

\* The box that runs is always the last configuration that really started,
\* also while rebuilds fail and are rolled back (rebuild, restoreLastGood).
RunningIsLastGood ==
    instance # None => instance = lastGood /\ CanStart(instance)

\* Outside a rebuild the gateway is forwarding, unless another program took
\* its port while it was being swapped: a configuration that does not build
\* or does not start never takes the gateway down (rebuild).
DownOnlyByTheft ==
    (holder = None /\ lastGood # None /\ instance = None) => stolen

\* A caller that has returned leaves the fields nobody else writes with values
\* that start: a rejected change does not stay behind to fail everybody's next
\* rebuild (setAndRebuild's and ApplyProfile's revert).
Own(r) == {a \in AxesOf[r] : \A s \in Req : a \in AxesOf[s] => s = r}
SettledStarts ==
    \A r \in Req : pc[r] = "idle" => \A a \in Own(r) : mem[a] \in Starts

\* Every caller returns: neither mutex is kept and the revert does not loop.
Returns == \A r \in Req : (pc[r] # "idle") ~> (pc[r] = "idle")
=============================================================================
