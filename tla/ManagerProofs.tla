--------------------------- MODULE ManagerProofs ---------------------------
(***************************************************************************)
(* Proofs about Rebuild and PolicyApply for any number of callers, fields,  *)
(* values, handlers, lists and entries.                                     *)
(*                                                                         *)
(* First the Manager by itself: each invariant is proved from the           *)
(* strengthening named for it, action by action; the strengthenings rest on *)
(* Mutex, which says who may be where.  Then how a handler's store, the     *)
(* Manager and the box keep up with each other: every step of PolicyApply   *)
(* but Crash is a step of Rebuild, so what was shown of one step is used as *)
(* it is.                                                                   *)
(***************************************************************************)
EXTENDS PolicyApply, TLAPS

\* rebuildMu is held exactly by the caller that is inside rebuild.
Inner == {"build", "swap", "start", "restore"}
Mutex == \A r \in Req : pc[r] \in Inner <=> holder = r

\* A caller that has returned is not in a second rebuild.
FirstTime == \A r \in Req : pc[r] = "idle" => ~again[r]

\* What was once recorded as good did start.
GoodStarts == lastGood # None => CanStart(lastGood)

\* Between the swap and the end of a rebuild no box runs.
OneBox == \A r \in Req : pc[r] \in {"start", "restore"} => instance = None

\* Nobody asks for a change before the first box has started.
BootFirst == lastGood = None => \A r \in Req : pc[r] = "idle"

\* A field that was changed has a caller that is about to rebuild.
ReloadPending == (\A r \in Req : pc[r] # "reload") => eligible = mem

\* A lost port means that no box runs; and a box is missing only in the part of
\* a rebuild after the swap, or because of such a loss.
TheftMeansDown == ~portFree => instance = None /\ stolen
DownInside ==
    (lastGood # None /\ instance = None /\ ~stolen)
        => \E r \in Req : pc[r] \in {"start", "restore"}

\* What a caller has to put back, and what it has tried, on the fields that
\* only it writes.
Settled(r) ==
    \A a \in Own(r) :
        /\ pc[r] = "idle" => mem[a] \in Starts
        /\ pc[r] # "idle" => prev[r][a] \in Starts
        /\ pc[r] # "idle" /\ again[r] => mem[a] \in Starts
        /\ pc[r] \in {"build", "swap", "start"} => cand[r].pol[a] = mem[a]
OwnFields == \A r \in Req : Settled(r)
-----------------------------------------------------------------------------
\* Overlaying part of a policy gives a policy (setAndRebuild swaps one field).
LEMMA OverlayType ==
    ASSUME NEW S \in SUBSET Axis, NEW f \in [S -> Value], NEW g \in Policy
    PROVE  Overlay(f, g, S) \in Policy
BY DEF Overlay, Policy

\* The value a finished caller leaves behind is a configuration.
LEMMA RestType == Rest \in Config /\ Initial \in Policy
BY RebuildAssumption DEF Rest, Config, Policy

\* Every field keeps its type (the whole of Rebuild).
LEMMA TypeInit == Init => TypeOK
<1> SUFFICES ASSUME Init PROVE TypeOK
    OBVIOUS
<1>1. pc \in [Req -> Label] /\ again \in [Req -> BOOLEAN] /\ told \in [Req -> Report]
    BY DEF Init, Label, Report
<1>2. prev \in [Req -> Policy] /\ cand \in [Req -> Config]
    BY RestType DEF Init
<1> QED
    BY <1>1, <1>2, RestType DEF Init, TypeOK

\* Every step of a caller, of the boot and of the world keeps the types.
LEMMA TypeStep == TypeOK /\ [Next]_vars => TypeOK'
<1> SUFFICES ASSUME TypeOK, [Next]_vars PROVE TypeOK'
    OBVIOUS
<1> USE RestType
<1>1. CASE Boot
    BY <1>1 DEF Boot, TypeOK, Config, reqVars
<1>2. ASSUME NEW r \in Req, NEW v \in [AxesOf[r] -> Value], Set(r, v)
      PROVE  TypeOK'
    <2>1. AxesOf[r] \in SUBSET Axis
        BY RebuildAssumption
    <2>2. Overlay(v, mem, AxesOf[r]) \in Policy
        BY <2>1, OverlayType DEF TypeOK
    <2>3. Overlay(mem, Initial, AxesOf[r]) \in Policy
        BY <2>1 DEF TypeOK, Overlay, Policy
    <2> QED
        BY <1>2, <2>2, <2>3 DEF Set, TypeOK, Label, Report, envVars, boxVars
<1>3. ASSUME NEW r \in Req, Begin(r)
      PROVE  TypeOK'
    <2>1. [base |-> "sound", pol |-> mem] \in Config
        BY RebuildAssumption DEF TypeOK, Config
    <2> QED
        BY <1>3, <2>1 DEF Begin, TypeOK, Label, envVars, boxVars
<1>4. ASSUME NEW r \in Req, NEW report \in Report, Fail(r, report)
      PROVE  /\ holder' \in Req \cup {None}
             /\ cand' \in [Req -> Config]
             /\ told' \in [Req -> Report]
             /\ pc' \in [Req -> Label]
             /\ again' \in [Req -> BOOLEAN]
             /\ prev' \in [Req -> Policy]
    BY <1>4 DEF Fail, Return, TypeOK, Label
<1>5. ASSUME NEW r \in Req, Build(r)
      PROVE  TypeOK'
    <2>1. [base |-> base, pol |-> cand[r].pol] \in Config
        BY DEF TypeOK, Config
    <2>2. CASE Fail(r, "buildFailed")
        BY <1>4, <1>5, <2>2 DEF Build, TypeOK, Report, envVars, boxVars
    <2>3. CASE ~Fail(r, "buildFailed")
        BY <1>5, <2>1, <2>3 DEF Build, TypeOK, Label, envVars, boxVars
    <2> QED
        BY <2>2, <2>3
<1>6. ASSUME NEW r \in Req, Swap(r)
      PROVE  TypeOK'
    BY <1>6 DEF Swap, TypeOK, Label, envVars
<1>7. ASSUME NEW r \in Req, Start(r)
      PROVE  TypeOK'
    <2>1. (IF again[r] THEN told[r] ELSE "applied") \in Report
        BY DEF TypeOK, Report
    <2>2. CASE CanStart(cand[r]) /\ portFree
        <3>1. /\ told' = [told EXCEPT ![r] = IF again[r] THEN told[r] ELSE "applied"]
              /\ instance' = cand[r] /\ lastGood' = cand[r]
              /\ stolen' = FALSE /\ holder' = None
              /\ cand' = [cand EXCEPT ![r] = Rest]
              /\ Return(r)
              /\ UNCHANGED <<base, portFree, mem, eligible>>
            BY <1>7, <2>2 DEF Start
        <3> QED
            BY <2>1, <3>1 DEF Return, TypeOK, Label
    <2>3. CASE ~(CanStart(cand[r]) /\ portFree)
        BY <1>7, <2>3 DEF Start, TypeOK, Label, boxVars
    <2> QED
        BY <2>2, <2>3
<1>8. ASSUME NEW r \in Req, Restore(r)
      PROVE  TypeOK'
    <2>1. CASE Fail(r, "stillRunning") \/ Fail(r, "notRunning")
        BY <1>4, <1>8, <2>1 DEF Restore, TypeOK, Report
    <2> QED
        BY <1>8, <2>1 DEF Restore
<1>9. ASSUME NEW r \in Req, Revert(r)
      PROVE  TypeOK'
    <2>1. Overlay(prev[r], mem, AxesOf[r]) \in Policy
        BY RebuildAssumption DEF TypeOK, Overlay, Policy
    <2> QED
        BY <1>9, <2>1 DEF Revert, TypeOK, Label, envVars, boxVars
<1>10. CASE Environment
    BY <1>10 DEF Environment, TakePort, FreePort, EditBase, TypeOK, boxVars, reqVars
<1>11. CASE UNCHANGED vars
    BY <1>11 DEF vars, envVars, boxVars, reqVars, TypeOK
<1> QED
    BY <1>1, <1>2, <1>3, <1>5, <1>6, <1>7, <1>8, <1>9, <1>10, <1>11
    DEF Next, Manager, Inside

\* Every field of the Manager and every local of a caller keeps its type.
THEOREM TypeCorrect == Spec => []TypeOK
BY TypeInit, TypeStep, PTL DEF Spec
-----------------------------------------------------------------------------
(* Who is inside rebuild.                                                   *)

MutexInv == TypeOK /\ Mutex /\ FirstTime

\* Only Begin enters rebuild, and every way out of it unlocks (the deferred
\* Unlock of rebuildMu).
LEMMA MutexStep == MutexInv /\ [Next]_vars => Mutex' /\ FirstTime'
<1> SUFFICES ASSUME TypeOK, Mutex, FirstTime, [Next]_vars
             PROVE  Mutex' /\ FirstTime'
    BY DEF MutexInv
<1> USE RebuildAssumption DEF Mutex, FirstTime, Inner
<1>1. ASSUME NEW r \in Req, NEW v \in [AxesOf[r] -> Value], Set(r, v)
      PROVE  Mutex' /\ FirstTime'
    BY <1>1 DEF Set, TypeOK
<1>2. ASSUME NEW r \in Req, Begin(r)
      PROVE  Mutex' /\ FirstTime'
    BY <1>2 DEF Begin, TypeOK
<1>3. ASSUME NEW r \in Req, pc[r] \in Inner, NEW report, Fail(r, report)
      PROVE  Mutex' /\ FirstTime'
    BY <1>3 DEF Fail, Return, TypeOK
<1>4. ASSUME NEW r \in Req, Build(r)
      PROVE  Mutex' /\ FirstTime'
    <2>1. CASE Fail(r, "buildFailed")
        BY <1>3, <1>4, <2>1 DEF Build
    <2>2. CASE ~Fail(r, "buildFailed")
        BY <1>4, <2>2 DEF Build, TypeOK
    <2> QED
        BY <2>1, <2>2
<1>5. ASSUME NEW r \in Req, Swap(r)
      PROVE  Mutex' /\ FirstTime'
    BY <1>5 DEF Swap, TypeOK
<1>6. ASSUME NEW r \in Req, Start(r)
      PROVE  Mutex' /\ FirstTime'
    <2>1. CASE CanStart(cand[r]) /\ portFree
        BY <1>6, <2>1 DEF Start, Return, TypeOK
    <2>2. CASE ~(CanStart(cand[r]) /\ portFree)
        BY <1>6, <2>2 DEF Start, TypeOK
    <2> QED
        BY <2>1, <2>2
<1>7. ASSUME NEW r \in Req, Restore(r)
      PROVE  Mutex' /\ FirstTime'
    BY <1>3, <1>7 DEF Restore
<1>8. ASSUME NEW r \in Req, Revert(r)
      PROVE  Mutex' /\ FirstTime'
    BY <1>8 DEF Revert, TypeOK
<1>9. CASE Boot \/ Environment \/ UNCHANGED vars
    BY <1>9 DEF Boot, Environment, TakePort, FreePort, EditBase, vars, reqVars
<1> QED
    BY <1>1, <1>2, <1>4, <1>5, <1>6, <1>7, <1>8, <1>9 DEF Next, Manager, Inside

\* At most one caller is inside rebuild, and it is the one that holds
\* rebuildMu.
THEOREM RebuildsAreExclusive == Spec => []MutexInv
<1>1. Init => MutexInv
    BY TypeInit, RebuildAssumption DEF Init, MutexInv, Mutex, FirstTime, Inner
<1> QED
    BY <1>1, TypeStep, MutexStep, PTL DEF Spec, MutexInv
-----------------------------------------------------------------------------
\* The box that runs is always the last configuration that really started
\* (rebuild, restoreLastGood).
THEOREM RunningIsGood == Spec => []RunningIsLastGood
<1> DEFINE Good == RunningIsLastGood /\ GoodStarts
<1>1. Init => Good
    BY DEF Init, RunningIsLastGood, GoodStarts
<1>2. Good /\ [Next]_vars => Good'
    <2> SUFFICES ASSUME Good, [Next]_vars PROVE Good'
        OBVIOUS
    <2> USE DEF RunningIsLastGood, GoodStarts
    <2>1. CASE Boot
        BY <2>1 DEF Boot, CanStart
    <2>2. ASSUME NEW r \in Req, Start(r) PROVE Good'
        BY <2>2 DEF Start, boxVars, CanStart
    <2>3. ASSUME NEW r \in Req, Swap(r) PROVE Good'
        BY <2>3 DEF Swap, CanStart
    <2>4. ASSUME NEW r \in Req, Restore(r) PROVE Good'
        BY <2>4 DEF Restore, CanStart
    <2>5. CASE UNCHANGED boxVars
        BY <2>5 DEF boxVars, CanStart
    <2> QED
        BY <2>1, <2>2, <2>3, <2>4, <2>5
        DEF Next, Manager, Inside, Set, Begin, Build, Revert, Environment,
            TakePort, FreePort, EditBase, vars
<1> QED
    BY <1>1, <1>2, PTL DEF Spec
-----------------------------------------------------------------------------
\* No reload is lost: once every caller has returned, the last rebuild was made
\* from the fields the Manager holds (rebuild's snapshot, setAndRebuild).
THEOREM ReloadsAreNotLost == Spec => []NoLostReload
<1> DEFINE Inv == TypeOK /\ ReloadPending
<1>1. Init => Inv
    BY TypeInit DEF Init, ReloadPending
<1>2. Inv /\ [Next]_vars => Inv'
    <2> SUFFICES ASSUME Inv, [Next]_vars PROVE ReloadPending'
        BY TypeStep
    <2> USE DEF ReloadPending
    <2>1. CASE Boot
        BY <2>1 DEF Boot
    <2>2. ASSUME NEW r \in Req, NEW v \in [AxesOf[r] -> Value], Set(r, v)
          PROVE  ReloadPending'
        BY <2>2 DEF Set, TypeOK
    <2>3. ASSUME NEW r \in Req, Begin(r) PROVE ReloadPending'
        BY <2>3 DEF Begin
    <2>4. ASSUME NEW r \in Req, pc[r] # "reload",
                 UNCHANGED <<mem, eligible>>,
                 NEW l, pc' = [pc EXCEPT ![r] = l]
          PROVE  ReloadPending'
        BY <2>4 DEF TypeOK
    <2>5. ASSUME NEW r \in Req, Build(r) \/ Swap(r) \/ Start(r) \/ Restore(r)
          PROVE  ReloadPending'
        <3>1. pc[r] # "reload" /\ UNCHANGED <<mem, eligible>>
            BY <2>5 DEF Build, Swap, Start, Restore
        <3>2. \E l : pc' = [pc EXCEPT ![r] = l]
            BY <2>5 DEF Build, Swap, Start, Restore, Fail, Return
        <3> QED
            BY <2>4, <3>1, <3>2
    <2>6. ASSUME NEW r \in Req, Revert(r) PROVE ReloadPending'
        BY <2>6 DEF Revert, TypeOK
    <2>7. CASE Environment \/ UNCHANGED vars
        BY <2>7 DEF Environment, TakePort, FreePort, EditBase, vars, reqVars
    <2> QED
        BY <2>1, <2>2, <2>3, <2>5, <2>6, <2>7 DEF Next, Manager, Inside
<1>3. Inv => NoLostReload
    BY DEF ReloadPending, NoLostReload, Quiescent
<1> QED
    BY <1>1, <1>2, <1>3, PTL DEF Spec
-----------------------------------------------------------------------------
\* Outside a rebuild the gateway forwards, unless another program took its port
\* while it was being swapped (rebuild, restoreLastGood).
THEOREM DownOnlyByLosingThePort == Spec => []DownOnlyByTheft
<1> DEFINE Inv == MutexInv /\ TheftMeansDown /\ DownInside
<1>1. Init => TheftMeansDown /\ DownInside
    BY DEF Init, TheftMeansDown, DownInside
<1>2. Inv /\ [Next]_vars => TheftMeansDown' /\ DownInside'
    <2> SUFFICES ASSUME Inv, [Next]_vars PROVE TheftMeansDown' /\ DownInside'
        OBVIOUS
    <2> USE DEF TheftMeansDown, DownInside
    <2>1. CASE Boot
        BY <2>1 DEF Boot, MutexInv, TypeOK
    <2>2. ASSUME NEW r \in Req, pc[r] \notin {"start", "restore"},
                 UNCHANGED <<portFree, stolen, boxVars>>,
                 NEW l, pc' = [pc EXCEPT ![r] = l]
          PROVE  TheftMeansDown' /\ DownInside'
        BY <2>2 DEF MutexInv, TypeOK, boxVars
    <2>3. ASSUME NEW r \in Req,
                 \/ \E v \in [AxesOf[r] -> Value] : Set(r, v)
                 \/ Begin(r) \/ Build(r) \/ Revert(r)
          PROVE  TheftMeansDown' /\ DownInside'
        <3>1. /\ pc[r] \notin {"start", "restore"}
              /\ UNCHANGED <<portFree, stolen, boxVars>>
            BY <2>3 DEF Set, Begin, Build, Revert, envVars
        <3>2. \E l : pc' = [pc EXCEPT ![r] = l]
            BY <2>3 DEF Set, Begin, Build, Revert, Fail, Return
        <3> QED
            BY <2>2, <3>1, <3>2
    <2>4. ASSUME NEW r \in Req, Swap(r) PROVE TheftMeansDown' /\ DownInside'
        BY <2>4 DEF Swap, MutexInv, TypeOK, envVars
    <2>5. ASSUME NEW r \in Req, Start(r) PROVE TheftMeansDown' /\ DownInside'
        BY <2>5 DEF Start, MutexInv, TypeOK, boxVars
    <2>6. ASSUME NEW r \in Req, Restore(r) PROVE TheftMeansDown' /\ DownInside'
        <3>1. \A s \in Req : s # r => pc[s] \notin {"start", "restore"}
            BY <2>6 DEF MutexInv, Mutex, Inner, Restore
        <3>2. CASE lastGood # None /\ portFree
            BY <2>6, <3>2 DEF Restore
        <3>3. CASE lastGood = None \/ ~portFree
            BY <2>6, <3>3 DEF Restore
        <3> QED
            BY <3>2, <3>3 DEF MutexInv, TypeOK
    <2>7. CASE TakePort
        BY <2>7 DEF TakePort, boxVars
    <2>8. CASE FreePort
        BY <2>8 DEF FreePort, boxVars, reqVars
    <2>9. ASSUME NEW b \in Base, EditBase(b) PROVE TheftMeansDown' /\ DownInside'
        BY <2>9 DEF EditBase, boxVars, reqVars
    <2>10. CASE UNCHANGED vars
        BY <2>10 DEF vars, envVars, boxVars, reqVars
    <2> QED
        BY <2>1, <2>3, <2>4, <2>5, <2>6, <2>7, <2>8, <2>9, <2>10
        DEF Next, Manager, Inside, Environment
<1>3. MutexInv /\ DownInside => DownOnlyByTheft
    BY RebuildAssumption DEF MutexInv, TypeOK, Mutex, Inner, DownInside, DownOnlyByTheft
<1> QED
    BY <1>1, <1>2, <1>3, RebuildsAreExclusive, PTL DEF Spec
-----------------------------------------------------------------------------
\* At the start every field holds what was loaded from the stores.
LEMMA OwnInit == Init => OwnFields
BY RebuildAssumption DEF Init, OwnFields, Settled, Own

\* No step of one caller disturbs the fields that only another one writes.
LEMMA OwnStep == MutexInv /\ OwnFields /\ [Next]_vars => OwnFields'
<1> SUFFICES ASSUME MutexInv, OwnFields, [Next]_vars, NEW s \in Req
             PROVE  Settled(s)'
    BY DEF OwnFields
<1>0. /\ Own(s) \subseteq AxesOf[s]
      /\ Own(s) \subseteq Axis
      /\ \A r \in Req : r # s => \A a \in Own(s) : a \notin AxesOf[r]
    BY RebuildAssumption DEF Own
<1>1. Settled(s)
    BY DEF OwnFields
<1>2. ASSUME /\ \A a \in Own(s) : mem'[a] = mem[a]
             /\ pc'[s] = pc[s] /\ prev'[s] = prev[s]
             /\ again'[s] = again[s] /\ cand'[s] = cand[s]
      PROVE  Settled(s)'
    BY <1>1, <1>2 DEF Settled
<1>3. ASSUME NEW r \in Req, NEW v \in [AxesOf[r] -> Value], Set(r, v)
      PROVE  Settled(s)'
    <2>1. CASE r = s
        BY <1>0, <1>1, <1>3, <2>1 DEF Settled, Set, Overlay, MutexInv, TypeOK, FirstTime
    <2>2. CASE r # s
        BY <1>0, <1>2, <1>3, <2>2 DEF Set, Overlay, MutexInv, TypeOK
    <2> QED
        BY <2>1, <2>2
<1>4. ASSUME NEW r \in Req, Begin(r)
      PROVE  Settled(s)'
    BY <1>1, <1>2, <1>4 DEF Settled, Begin, MutexInv, TypeOK
<1>5. ASSUME NEW r \in Req, pc[r] \in Inner, NEW report, Fail(r, report), mem' = mem
      PROVE  Settled(s)'
    <2>1. CASE r = s
        BY <1>1, <1>5, <2>1 DEF Settled, Fail, Return, MutexInv, TypeOK, Inner
    <2>2. CASE r # s
        BY <1>2, <1>5, <2>2 DEF Fail, Return, MutexInv, TypeOK
    <2> QED
        BY <2>1, <2>2
<1>6. ASSUME NEW r \in Req, Build(r)
      PROVE  Settled(s)'
    <2>1. CASE Fail(r, "buildFailed")
        BY <1>5, <1>6, <2>1 DEF Build, Inner
    <2>2. CASE ~Fail(r, "buildFailed")
        BY <1>1, <1>2, <1>6, <2>2 DEF Settled, Build, MutexInv, TypeOK
    <2> QED
        BY <2>1, <2>2
<1>7. ASSUME NEW r \in Req, Swap(r)
      PROVE  Settled(s)'
    BY <1>1, <1>2, <1>7 DEF Settled, Swap, MutexInv, TypeOK
<1>8. ASSUME NEW r \in Req, Start(r)
      PROVE  Settled(s)'
    <2>1. CASE r # s
        BY <1>2, <1>8, <2>1 DEF Start, Return, MutexInv, TypeOK
    <2>2. CASE r = s /\ CanStart(cand[r]) /\ portFree
        <3>1. \A a \in Own(s) : mem[a] \in Starts
            BY <1>0, <1>1, <1>8, <2>2 DEF Settled, Start, CanStart
        <3> QED
            BY <1>8, <2>2, <3>1 DEF Settled, Start, Return, MutexInv, TypeOK
    <2>3. CASE r = s /\ ~(CanStart(cand[r]) /\ portFree)
        BY <1>1, <1>8, <2>3 DEF Settled, Start, MutexInv, TypeOK
    <2> QED
        BY <2>1, <2>2, <2>3
<1>9. ASSUME NEW r \in Req, Restore(r)
      PROVE  Settled(s)'
    BY <1>5, <1>9 DEF Restore, Inner
<1>10. ASSUME NEW r \in Req, Revert(r)
      PROVE  Settled(s)'
    <2>1. CASE r = s
        BY <1>0, <1>1, <1>10, <2>1 DEF Settled, Revert, Overlay, MutexInv, TypeOK
    <2>2. CASE r # s
        BY <1>0, <1>2, <1>10, <2>2 DEF Revert, Overlay, MutexInv, TypeOK
    <2> QED
        BY <2>1, <2>2
<1>11. CASE Boot \/ Environment \/ UNCHANGED vars
    BY <1>2, <1>11 DEF Boot, Environment, TakePort, FreePort, EditBase, vars, reqVars
<1> QED
    BY <1>3, <1>4, <1>6, <1>7, <1>8, <1>9, <1>10, <1>11 DEF Next, Manager, Inside

\* A caller that has returned leaves the fields nobody else writes with values
\* that start (setAndRebuild's revert, ApplyProfile's).
THEOREM SettledFieldsStart == Spec => []SettledStarts
<1>1. OwnFields => SettledStarts
    BY DEF OwnFields, Settled, SettledStarts
<1> QED
    BY <1>1, OwnInit, OwnStep, RebuildsAreExclusive, PTL DEF Spec
-----------------------------------------------------------------------------
\* Only Set leaves "idle", and no step forgets the last good configuration.
LEMMA BootFirstStep == MutexInv /\ BootFirst /\ [Next]_vars => BootFirst'
<1> SUFFICES ASSUME MutexInv, BootFirst, [Next]_vars PROVE BootFirst'
    OBVIOUS
<1> USE DEF BootFirst
<1>1. CASE Boot
    <2>1. [base |-> base, pol |-> mem] # None
        BY RebuildAssumption DEF MutexInv, TypeOK, Policy
    <2> QED
        BY <1>1, <2>1 DEF Boot
<1>2. ASSUME NEW r \in Req, NEW v \in [AxesOf[r] -> Value], Set(r, v)
      PROVE  BootFirst'
    BY <1>2 DEF Set, boxVars
<1>3. ASSUME NEW r \in Req, Begin(r) \/ Inside(r)
      PROVE  BootFirst'
    <2>1. lastGood # None
        BY <1>3 DEF Begin, Inside, Build, Swap, Start, Restore, Revert
    <2>2. cand[r] # None
        BY RebuildAssumption DEF MutexInv, TypeOK, Config, Policy
    <2>3. lastGood' \in {lastGood, cand[r]}
        BY <1>3 DEF Begin, Inside, Build, Swap, Start, Restore, Revert, boxVars
    <2> QED
        BY <2>1, <2>2, <2>3
<1>4. CASE Environment \/ UNCHANGED vars
    BY <1>4 DEF Environment, TakePort, FreePort, EditBase, vars, boxVars, reqVars
<1> QED
    BY <1>1, <1>2, <1>3, <1>4 DEF Next, Manager

\* Where a caller inside rebuild goes, and what it leaves running.
LEMMA OneBoxAfter ==
    ASSUME OneBox, NEW r \in Req, Build(r) \/ Swap(r) \/ Start(r) \/ Restore(r)
    PROVE  \E l : /\ pc' = [pc EXCEPT ![r] = l]
                  /\ l \in {"start", "restore"} => instance' = None
<1>0. ASSUME NEW l, l \notin {"start", "restore"}, pc' = [pc EXCEPT ![r] = l]
      PROVE  \E k : /\ pc' = [pc EXCEPT ![r] = k]
                    /\ k \in {"start", "restore"} => instance' = None
    BY <1>0, Zenon
<1>1. ASSUME NEW report, Fail(r, report)
      PROVE  \E l \in {"revert", "idle"} : pc' = [pc EXCEPT ![r] = l]
    BY <1>1 DEF Fail, Return
<1>2. CASE Build(r)
    <2>1. CASE pc' = [pc EXCEPT ![r] = "swap"]
        BY <1>0, <2>1
    <2>2. CASE Fail(r, "buildFailed")
        BY <1>0, <1>1, <2>2
    <2> QED
        BY <1>2, <2>1, <2>2 DEF Build
<1>3. CASE Swap(r)
    BY <1>3 DEF Swap
<1>4. CASE Start(r)
    <2>1. CASE Return(r)
        <3>1. pc' = [pc EXCEPT ![r] = "idle"]
            BY <2>1 DEF Return
        <3> QED
            BY <1>0, <3>1
    <2>2. CASE pc' = [pc EXCEPT ![r] = "restore"] /\ UNCHANGED boxVars
        <3>1. instance' = None
            BY <1>4, <2>2 DEF Start, OneBox, boxVars
        <3> QED
            BY <2>2, <3>1
    <2> QED
        BY <1>4, <2>1, <2>2 DEF Start
<1>5. CASE Restore(r)
    <2>1. \E report : Fail(r, report)
        BY <1>5 DEF Restore
    <2>2. PICK l \in {"revert", "idle"} : pc' = [pc EXCEPT ![r] = l]
        BY <1>1, <2>1
    <2> QED
        BY <1>0, <2>2
<1> QED
    BY <1>2, <1>3, <1>4, <1>5

\* Only the caller inside rebuild starts or closes a box.
LEMMA OneBoxStep ==
    MutexInv /\ BootFirst /\ OneBox /\ [Next]_vars => OneBox'
<1> SUFFICES ASSUME MutexInv, BootFirst, OneBox, [Next]_vars PROVE OneBox'
    OBVIOUS
<1> USE DEF OneBox
<1>1. ASSUME NEW r \in Req, Build(r) \/ Swap(r) \/ Start(r) \/ Restore(r)
      PROVE  OneBox'
    <2>1. pc[r] \in Inner
        BY <1>1 DEF Build, Swap, Start, Restore, Inner
    <2>2. \A s \in Req : s # r => pc[s] \notin {"start", "restore"}
        BY <2>1 DEF MutexInv, Mutex, Inner
    <2>3. PICK l : /\ pc' = [pc EXCEPT ![r] = l]
                   /\ l \in {"start", "restore"} => instance' = None
        BY <1>1, OneBoxAfter
    <2> QED
        BY <2>2, <2>3 DEF MutexInv, TypeOK
<1>2. ASSUME NEW r \in Req,
             \/ \E v \in [AxesOf[r] -> Value] : Set(r, v)
             \/ Begin(r) \/ Revert(r)
      PROVE  OneBox'
    BY <1>2 DEF Set, Begin, Revert, boxVars, MutexInv, TypeOK
<1>3. CASE Boot
    <2>1. \A r \in Req : pc[r] \notin {"start", "restore"}
        BY <1>3 DEF Boot, BootFirst
    <2> QED
        BY <1>3, <2>1 DEF Boot, reqVars
<1>4. CASE Environment \/ UNCHANGED vars
    BY <1>4 DEF Environment, TakePort, FreePort, EditBase, vars, boxVars, reqVars
<1> QED
    BY <1>1, <1>2, <1>3, <1>4 DEF Next, Manager, Inside

\* While a caller is past the swap no box runs, so a second one never starts.
THEOREM OneBoxAtATime == Spec => [](MutexInv /\ BootFirst /\ OneBox)
<1>1. Init => BootFirst /\ OneBox
    BY DEF Init, BootFirst, OneBox
<1> QED
    BY <1>1, BootFirstStep, OneBoxStep, RebuildsAreExclusive, PTL DEF Spec

\* Every step of the Manager is a step of DataPlane, or none of its business.
LEMMA PlaneStep ==
    MutexInv /\ OneBox /\ RunningIsLastGood /\ [Next]_vars
        => [Plane!Next]_(Plane!vars)
<1> SUFFICES ASSUME MutexInv, OneBox, RunningIsLastGood, [Next]_vars
             PROVE  [Plane!Next]_(Plane!vars)
    OBVIOUS
<1> USE DEF Plane!Next, Plane!vars
<1>1. CASE Boot
    <2>1. [base |-> base, pol |-> mem] \in Config
        BY DEF MutexInv, TypeOK, Config
    <2>2. instance = None
        BY <1>1 DEF Boot, RunningIsLastGood
    <2> QED
        BY <1>1, <2>1, <2>2 DEF Boot, Plane!Up
<1>2. ASSUME NEW r \in Req, Swap(r) PROVE [Plane!Next]_(Plane!vars)
    BY <1>2 DEF Swap, Plane!Close, envVars
<1>3. ASSUME NEW r \in Req, Start(r) PROVE [Plane!Next]_(Plane!vars)
    <2>1. cand[r] \in Config /\ instance = None
        BY <1>3 DEF Start, OneBox, MutexInv, TypeOK
    <2> QED
        BY <1>3, <2>1 DEF Start, Plane!Up, boxVars
<1>4. ASSUME NEW r \in Req, Restore(r) PROVE [Plane!Next]_(Plane!vars)
    BY <1>4 DEF Restore, OneBox, Plane!Keep
<1>5. CASE TakePort
    BY <1>5 DEF TakePort, Plane!Lose, boxVars
<1>6. CASE UNCHANGED <<instance, lastGood, stolen>>
    BY <1>6
<1>7. ASSUME NEW r \in Req,
             \/ \E v \in [AxesOf[r] -> Value] : Set(r, v)
             \/ Begin(r) \/ Build(r) \/ Revert(r)
      PROVE  UNCHANGED <<instance, lastGood, stolen>>
    BY <1>7 DEF Set, Begin, Build, Revert, boxVars, envVars
<1>8. CASE FreePort \/ (\E b \in Base : EditBase(b)) \/ UNCHANGED vars
    BY <1>6, <1>8 DEF FreePort, EditBase, vars, boxVars, envVars
<1> QED
    BY <1>1, <1>2, <1>3, <1>4, <1>5, <1>6, <1>7, <1>8
    DEF Next, Manager, Inside, Environment

\* The Manager implements the safety half of what DataPlane promises.
THEOREM ImplementsPlaneSafety == Spec => Plane!Safety
<1>1. Init => Plane!Init
    BY DEF Init, Plane!Init
<1> QED
    BY <1>1, PlaneStep, OneBoxAtATime, RunningIsGood, PTL DEF Spec, Plane!Safety
-----------------------------------------------------------------------------
(***************************************************************************)
(* Handlers, stores and restarts                                           *)
(***************************************************************************)
HandlerLabel == {"idle", "read", "saved", "banned", "applying", "banning", "rollback", "readd"}

PTypeOK ==
    /\ store \in Policy /\ file \in Policy
    /\ unsaved \in BOOLEAN
    /\ hpc \in [Req -> HandlerLabel]
    /\ saw \in [Req -> SUBSET Entry]
    /\ rules \in [Req -> SUBSET Entry]

\* Who does what; who is inside the Manager; and a change that failed once does
\* not report that it was applied.
Post(r) ==
    /\ pc[r] # "idle" <=> hpc[r] \in {"applying", "banning"}
    /\ hpc[r] \in {"banned", "banning"} => r \in Bans
    /\ hpc[r] \in {"read", "saved", "applying", "rollback"} => r \in Editors \cup Releases
    /\ hpc[r] = "readd" => r \in Releases
    /\ hpc[r] \in {"idle", "banned", "banning"} => saw[r] = {}
    /\ pc[r] = "revert" => ~again[r]
    /\ again[r] \/ pc[r] = "revert" => told[r] # "applied"

\* Nothing is handled before the gateway has started.
ServedFirst == lastGood = None => NoneInFlight

\* As long as the disk takes writes a restart loses nothing.
FileIsStore == ~unsaved => file = store

\* What every step of PolicyApply is proved from.
Grounds ==
    /\ TypeOK /\ Mutex /\ FirstTime /\ PTypeOK /\ ServedFirst /\ FileIsStore
    /\ \A r \in Req : Post(r)

\* How far an editor of its own list has moved the store and the Manager.
InStep(r) ==
    LET a == AxisOf(r) IN
    /\ hpc[r] \in {"idle", "read"} => store[a] = mem[a]
    /\ hpc[r] \in {"read", "saved", "rollback"} => mem[a] = saw[r]
    /\ hpc[r] \in {"saved", "applying"} => store[a] = rules[r]
    /\ hpc[r] = "applying" =>
           /\ prev[r][a] = saw[r]
           /\ mem[a] = IF again[r] THEN saw[r] ELSE rules[r]
    /\ pc[r] \in {"build", "swap", "start"} => cand[r].pol[a] = mem[a]
    /\ lastGood # None => IF hpc[r] = "idle" THEN mem[a] \in Starts ELSE saw[r] \in Starts
EditorsInStep == ~unsaved => \A r \in Req : OwnList(r) => InStep(r)

\* What the box rejects, may go back to or is about to reject on the list r bans
\* on is in the list, or in r's hands to be put back.
Kept(r, list) == list \subseteq store[AxisOf(r)] \cup saw[r]
Accounted(r) ==
    LET a == AxisOf(r) IN
    /\ Kept(r, mem[a])
    /\ instance # None => Kept(r, instance.pol[a])
    /\ lastGood # None => Kept(r, lastGood.pol[a])
    /\ \A s \in Req : pc[s] \in {"build", "swap", "start"} => Kept(r, cand[s].pol[a])
    /\ pc[r] # "idle" => Kept(r, prev[r][a])
    /\ hpc[r] \in {"saved", "banned", "applying", "banning"} => rules[r] = store[a]
    /\ hpc[r] = "read" => saw[r] = store[a]
    /\ hpc[r] \in {"saved", "applying", "rollback"} => store[a] \subseteq saw[r]
    /\ hpc[r] = "applying" /\ ~again[r] /\ pc[r] \in {"build", "swap", "start"} =>
           cand[r].pol[a] \subseteq store[a]
    /\ hpc[r] = "applying" /\ ~again[r] => mem[a] \subseteq store[a]
BansAccounted == ~unsaved => \A r \in Bans : Own(r) # {} => Accounted(r)
-----------------------------------------------------------------------------
(* What one step of a caller inside the Manager does to the caller, the     *)
(* fields and the box.                                                      *)

GoesOn(r) ==
    /\ pc[r] \notin {"idle", "revert"} /\ pc'[r] \notin {"idle", "revert"}
    /\ again'[r] = again[r] /\ told'[r] = told[r] /\ prev'[r] = prev[r]
    /\ pc'[r] \in {"build", "swap", "start"} =>
           \/ pc[r] = "reload" /\ cand'[r].pol = mem
           \/ pc[r] \in {"build", "swap"} /\ cand'[r].pol = cand[r].pol
    /\ mem' = mem /\ lastGood' = lastGood /\ instance' \in {None, instance}

Fails(r) ==
    /\ pc[r] # "idle" /\ pc'[r] = "revert"
    /\ ~again[r] /\ ~again'[r] /\ told'[r] # "applied" /\ prev'[r] = prev[r]
    /\ mem' = mem /\ lastGood' = lastGood /\ instance' \in {instance, lastGood}

Reverts(r) ==
    /\ pc[r] = "revert" /\ pc'[r] = "reload"
    /\ again'[r] /\ told'[r] = told[r] /\ prev'[r] = prev[r]
    /\ mem' = Overlay(prev[r], mem, AxesOf[r])
    /\ lastGood' = lastGood /\ instance' = instance

Applies(r) ==
    /\ pc[r] = "start" /\ pc'[r] = "idle"
    /\ ~again[r] /\ ~again'[r] /\ told'[r] = "applied"
    /\ CanStart(cand[r])
    /\ mem' = mem /\ lastGood' = cand[r] /\ instance' = cand[r]

GivesUp(r) ==
    /\ pc[r] # "idle" /\ pc'[r] = "idle"
    /\ again[r] /\ ~again'[r] /\ told'[r] = told[r]
    /\ mem' = mem
    /\ \/ pc[r] = "start" /\ lastGood' = cand[r] /\ instance' = cand[r]
       \/ lastGood' = lastGood /\ instance' \in {instance, lastGood}

OthersRest(r) ==
    \A s \in Req \ {r} :
        /\ pc'[s] = pc[s] /\ again'[s] = again[s] /\ prev'[s] = prev[s]
        /\ cand'[s] = cand[s] /\ told'[s] = told[s]

\* A step inside the Manager is one of these, and touches no other caller's
\* locals (rebuild, setAndRebuild).
LEMMA InsideManager ==
    ASSUME TypeOK, NEW r \in Req, Begin(r) \/ Inside(r)
    PROVE  /\ GoesOn(r) \/ Fails(r) \/ Reverts(r) \/ Applies(r) \/ GivesUp(r)
           /\ OthersRest(r)
<1> USE DEF TypeOK, Policy, Config, Label
<1>1. CASE Begin(r)
    BY <1>1 DEF Begin, boxVars, GoesOn, OthersRest
<1>2. ASSUME NEW report \in Report \ {"applied"}, Fail(r, report), pc[r] \in Inner,
             mem' = mem, lastGood' = lastGood, instance' \in {instance, lastGood}
      PROVE  (Fails(r) \/ GivesUp(r)) /\ OthersRest(r)
    BY <1>2 DEF Fail, Return, Fails, GivesUp, OthersRest, Inner
<1>3. CASE Build(r)
    <2>1. CASE Fail(r, "buildFailed")
        BY <1>2, <1>3, <2>1 DEF Build, boxVars, Inner, Report
    <2>2. CASE ~Fail(r, "buildFailed")
        BY <1>3, <2>2 DEF Build, boxVars, GoesOn, OthersRest
    <2> QED
        BY <2>1, <2>2
<1>4. CASE Swap(r)
    BY <1>4 DEF Swap, GoesOn, OthersRest
<1>5. CASE Start(r)
    <2>1. CASE CanStart(cand[r]) /\ portFree
        BY <1>5, <2>1 DEF Start, Return, Applies, GivesUp, OthersRest
    <2>2. CASE ~(CanStart(cand[r]) /\ portFree)
        BY <1>5, <2>2 DEF Start, boxVars, GoesOn, OthersRest
    <2> QED
        BY <2>1, <2>2
<1>6. CASE Restore(r)
    BY <1>2, <1>6 DEF Restore, Inner, Report
<1>7. CASE Revert(r)
    BY <1>7 DEF Revert, boxVars, Reverts, OthersRest
<1> QED
    BY <1>1, <1>3, <1>4, <1>5, <1>6, <1>7 DEF Inside
-----------------------------------------------------------------------------
\* Every caller writes one list.
LEMMA AxisType == ASSUME NEW r \in Req PROVE AxisOf(r) \in Axis /\ AxesOf[r] = {AxisOf(r)}
BY PolicyApplyAssumption DEF AxisOf

\* No other caller writes a list that is a caller's own.
LEMMA OwnAxis ==
    ASSUME NEW s \in Req, Own(s) # {}, NEW r \in Req, r # s
    PROVE  AxisOf(s) # AxisOf(r) /\ AxisOf(s) \notin AxesOf[r]
BY AxisType DEF Own

\* An operator's list is nobody's ban list, and the lists are sets of entries.
LEMMA Roles ==
    /\ \A r \in Editors : r \in Req /\ r \notin Bans /\ r \notin Releases
    /\ Policy = [Axis -> SUBSET Entry]
    /\ Initial \in Policy /\ \A a \in Axis : Initial[a] \in Starts
BY PolicyApplyAssumption, RebuildAssumption DEF Policy

Handles(r) ==
    \/ ReadPrev(r)
    \/ \E e \in Entry : Add(r, e) \/ Remove(r, e) \/ Ban(r, e)
    \/ ReleaseAll(r) \/ Unrelease(r) \/ Readd(r)
    \/ Apply(r) \/ Rebuilding(r) \/ Rollback(r)

\* Every step but the crash is one of Rebuild's, or changes nothing there.
LEMMA ManagerStep ==
    ASSUME PTypeOK, PNext \/ UNCHANGED allVars
    PROVE  [Next]_vars \/ Crash
<1> USE DEF Next, Manager
<1>1. ASSUME NEW r \in Req, Apply(r) PROVE Next
    <2>1. [a \in AxesOf[r] |-> rules[r]] \in [AxesOf[r] -> Value]
        BY PolicyApplyAssumption DEF PTypeOK
    <2> QED
        BY <1>1, <2>1 DEF Apply
<1>2. ASSUME NEW r \in Req, Rebuilding(r) PROVE Next
    BY <1>2 DEF Rebuilding
<1>3. ASSUME NEW r \in Req, Handles(r), ~Apply(r), ~Rebuilding(r) PROVE UNCHANGED vars
    BY <1>3 DEF Handles, ReadPrev, Add, Remove, Save, Ban, ReleaseAll, Unrelease, Readd, Rollback
<1>4. CASE Handler
    BY <1>1, <1>2, <1>3, <1>4 DEF Handler, Handles
<1>5. CASE (Boot \/ Environment) /\ UNCHANGED <<storeVars, handlerVars>>
    BY <1>5
<1> QED
    BY <1>4, <1>5 DEF PNext, allVars

\* A crash leaves the Manager as if it had just been started.
LEMMA CrashedMutex == PTypeOK /\ MutexInv /\ Crash => MutexInv'
BY RestType, RebuildAssumption
DEF PTypeOK, MutexInv, TypeOK, Mutex, FirstTime, Inner, Crash, Label, Report, envVars

\* rebuildMu is kept as Rebuild keeps it, through crashes too.
LEMMA PMutexStep == MutexInv /\ PTypeOK /\ [PNext]_allVars => MutexInv'
<1> SUFFICES ASSUME MutexInv, PTypeOK, [PNext]_allVars PROVE MutexInv'
    OBVIOUS
<1>1. CASE [Next]_vars
    BY <1>1, MutexStep, TypeStep DEF MutexInv
<1>2. CASE Crash
    BY <1>2, CrashedMutex
<1> QED
    BY <1>1, <1>2, ManagerStep

\* A store call keeps the lists sets of entries, and the file with the memory.
LEMMA MutateType ==
    ASSUME PTypeOK, NEW a \in Axis, NEW list \in SUBSET Entry, NEW written \in BOOLEAN,
           Mutate(a, list, written)
    PROVE  /\ store' \in Policy /\ file' \in Policy /\ unsaved' \in BOOLEAN
           /\ FileIsStore => FileIsStore'
           /\ ~unsaved' => ~unsaved
           /\ store'[a] = list /\ \A b \in Axis \ {a} : store'[b] = store[b]
BY Roles DEF Mutate, PTypeOK, FileIsStore
-----------------------------------------------------------------------------
\* What the steps of a handler outside the Manager do to the lists: nothing, or
\* one store call on the handler's own list.
LEMMA StoreCall ==
    ASSUME PTypeOK, NEW r \in Req, Handles(r)
    PROVE  \/ UNCHANGED storeVars
           \/ \E list \in SUBSET Entry, written \in BOOLEAN : Mutate(AxisOf(r), list, written)
<1> DEFINE Call == \E list \in SUBSET Entry, written \in BOOLEAN : Mutate(AxisOf(r), list, written)
<1>0. store[AxisOf(r)] \in SUBSET Entry /\ saw[r] \in SUBSET Entry
    BY AxisType, Roles DEF PTypeOK
<1>1. ASSUME NEW list \in SUBSET Entry, Save(r, list) PROVE Call
    BY <1>1 DEF Save
<1>2. CASE ReadPrev(r) \/ Apply(r) \/ Rebuilding(r)
    BY <1>2 DEF ReadPrev, Apply, Rebuilding
<1>3. ASSUME NEW e \in Entry, Add(r, e) \/ Remove(r, e) PROVE Call
    BY <1>0, <1>1, <1>3 DEF Add, Remove
<1>4. ASSUME NEW e \in Entry, Ban(r, e) PROVE Call
    BY <1>0, <1>4 DEF Ban
<1>5. CASE ReleaseAll(r)
    BY <1>1, <1>5 DEF ReleaseAll
<1>6. CASE Unrelease(r) \/ Rollback(r)
    BY <1>0, <1>6 DEF Unrelease, Rollback
<1>7. CASE Readd(r)
    BY <1>0, <1>7 DEF Readd
<1> QED
    BY <1>2, <1>3, <1>4, <1>5, <1>6, <1>7 DEF Handles

\* No handler touches another one's locals, and where each can go.
LEMMA LocalsStep ==
    ASSUME PTypeOK, NEW r \in Req, Handles(r)
    PROVE  /\ \A s \in Req \ {r} : hpc'[s] = hpc[s] /\ saw'[s] = saw[s] /\ rules'[s] = rules[s]
           /\ hpc' \in [Req -> HandlerLabel]
           /\ saw' \in [Req -> SUBSET Entry]
           /\ rules' \in [Req -> SUBSET Entry]
<1> USE DEF PTypeOK, HandlerLabel
<1>0. store[AxisOf(r)] \in SUBSET Entry
    BY AxisType, Roles
<1>1. ASSUME NEW list \in SUBSET Entry, Save(r, list)
      PROVE  /\ \A s \in Req \ {r} : hpc'[s] = hpc[s] /\ saw'[s] = saw[s] /\ rules'[s] = rules[s]
             /\ hpc' \in [Req -> HandlerLabel]
             /\ saw' \in [Req -> SUBSET Entry]
             /\ rules' \in [Req -> SUBSET Entry]
    BY <1>1 DEF Save
<1>2. CASE ReadPrev(r)
    BY <1>0, <1>2 DEF ReadPrev
<1>3. CASE Apply(r)
    BY <1>3 DEF Apply
<1>4. CASE Rebuilding(r)
    <2>1. CASE pc'[r] # "idle"
        BY <1>4, <2>1 DEF Rebuilding, handlerVars
    <2>2. CASE pc'[r] = "idle"
        BY <1>4, <2>2 DEF Rebuilding
    <2> QED
        BY <2>1, <2>2
<1>5. ASSUME NEW e \in Entry, Add(r, e) \/ Remove(r, e)
      PROVE  \E list \in SUBSET Entry : Save(r, list)
    BY <1>0, <1>5 DEF Add, Remove
<1>6. ASSUME NEW e \in Entry, Ban(r, e)
      PROVE  /\ \A s \in Req \ {r} : hpc'[s] = hpc[s] /\ saw'[s] = saw[s] /\ rules'[s] = rules[s]
             /\ hpc' \in [Req -> HandlerLabel]
             /\ saw' \in [Req -> SUBSET Entry]
             /\ rules' \in [Req -> SUBSET Entry]
    BY <1>0, <1>6 DEF Ban
<1>7. CASE ReleaseAll(r)
    BY <1>1, <1>7 DEF ReleaseAll
<1>8. CASE Unrelease(r) \/ Rollback(r)
    BY <1>8 DEF Unrelease, Rollback
<1>9. CASE Readd(r)
    BY <1>9 DEF Readd
<1> QED
    BY <1>1, <1>2, <1>3, <1>4, <1>5, <1>6, <1>7, <1>8, <1>9 DEF Handles

\* Types are kept, and the file follows the memory (liststore.Mutate).
LEMMA PTypeStep ==
    PTypeOK /\ FileIsStore /\ [PNext]_allVars => PTypeOK' /\ FileIsStore'
<1> SUFFICES ASSUME PTypeOK, FileIsStore, [PNext]_allVars PROVE PTypeOK' /\ FileIsStore'
    OBVIOUS
<1>1. ASSUME NEW r \in Req, Handles(r) PROVE PTypeOK' /\ FileIsStore'
    <2>1. CASE UNCHANGED storeVars
        BY <1>1, <2>1, LocalsStep DEF PTypeOK, storeVars, FileIsStore
    <2>2. ASSUME NEW list \in SUBSET Entry, NEW written \in BOOLEAN,
                 Mutate(AxisOf(r), list, written)
          PROVE  PTypeOK' /\ FileIsStore'
        BY <1>1, <2>2, LocalsStep, MutateType, AxisType DEF PTypeOK
    <2> QED
        BY <1>1, <2>1, <2>2, StoreCall
<1>2. CASE Crash
    BY <1>2 DEF Crash, PTypeOK, HandlerLabel, FileIsStore
<1>3. CASE UNCHANGED <<storeVars, handlerVars>>
    BY <1>3 DEF storeVars, handlerVars, PTypeOK, FileIsStore
<1> QED
    BY <1>1, <1>2, <1>3 DEF PNext, Handler, Handles, allVars

\* A handler works on a gateway that has started.
LEMMA GatewayServes ==
    ASSUME ServedFirst, NEW r \in Req, Post(r), Handles(r)
    PROVE  lastGood # None
BY DEF ServedFirst, NoneInFlight, Handles, ReadPrev, Add, Remove, Save, Ban, ReleaseAll, Unrelease,
    Readd, Apply, Rebuilding, Rollback, Begin, Inside, Build, Swap, Start, Restore, Revert, Post

\* Only the boot makes a gateway serve that did not, and a handler needs one.
LEMMA ServedStep ==
    TypeOK /\ PTypeOK /\ ServedFirst /\ [PNext]_allVars /\ (\A r \in Req : Post(r)) => ServedFirst'
<1> SUFFICES ASSUME TypeOK, PTypeOK, ServedFirst, [PNext]_allVars, \A r \in Req : Post(r)
             PROVE  ServedFirst'
    OBVIOUS
<1> USE DEF ServedFirst, NoneInFlight
<1>1. ASSUME NEW r \in Req, Handles(r) PROVE lastGood' # None
    <2>1. lastGood # None
        BY <1>1, GatewayServes
    <2>2. CASE Rebuilding(r)
        <3>1. cand[r] # None
            BY RebuildAssumption DEF TypeOK, Config, Policy
        <3> QED
            BY <2>1, <2>2, <3>1, InsideManager
            DEF Rebuilding, GoesOn, Fails, Reverts, Applies, GivesUp
    <2>3. CASE ~Rebuilding(r)
        BY <1>1, <2>1, <2>3 DEF Handles, ReadPrev, Add, Remove, Save, Ban, ReleaseAll, Unrelease,
            Readd, Apply, Set, Rollback, vars, boxVars
    <2> QED
        BY <2>2, <2>3
<1>2. CASE Crash
    BY <1>2 DEF Crash
<1>3. CASE Boot /\ UNCHANGED <<storeVars, handlerVars>>
    BY <1>3 DEF Boot, handlerVars
<1>4. CASE Environment /\ UNCHANGED <<storeVars, handlerVars>>
    BY <1>4 DEF Environment, TakePort, FreePort, EditBase, boxVars, handlerVars
<1>5. CASE UNCHANGED allVars
    BY <1>5 DEF allVars, vars, boxVars, handlerVars
<1> QED
    BY <1>1, <1>2, <1>3, <1>4, <1>5 DEF PNext, Handler, Handles
-----------------------------------------------------------------------------
\* A handler's step outside the Manager leaves the Manager alone, an Apply
\* enters it, and nothing that a step of r does reaches another handler.
LEMMA OthersKeep ==
    ASSUME TypeOK, PTypeOK, NEW r \in Req, Handles(r), NEW s \in Req, s # r
    PROVE  /\ hpc'[s] = hpc[s] /\ saw'[s] = saw[s] /\ rules'[s] = rules[s]
           /\ pc'[s] = pc[s] /\ again'[s] = again[s] /\ prev'[s] = prev[s]
           /\ cand'[s] = cand[s] /\ told'[s] = told[s]
<1>1. hpc'[s] = hpc[s] /\ saw'[s] = saw[s] /\ rules'[s] = rules[s]
    BY LocalsStep
<1>2. CASE Apply(r)
    BY <1>1, <1>2 DEF Apply, Set, TypeOK
<1>3. CASE Rebuilding(r)
    BY <1>1, <1>3, InsideManager DEF Rebuilding, OthersRest
<1>4. CASE ~Apply(r) /\ ~Rebuilding(r)
    BY <1>1, <1>4 DEF Handles, ReadPrev, Add, Remove, Save, Ban, ReleaseAll, Unrelease, Readd,
        Rollback, vars, reqVars
<1> QED
    BY <1>2, <1>3, <1>4

\* Every handler goes through its stations in order, and one whose change failed
\* does not report it as applied.
LEMMA PostStep ==
    TypeOK /\ FirstTime /\ PTypeOK /\ (\A r \in Req : Post(r)) /\ [PNext]_allVars
        => \A r \in Req : Post(r)'
<1> SUFFICES ASSUME TypeOK, FirstTime, PTypeOK, \A r \in Req : Post(r), [PNext]_allVars,
                    NEW s \in Req
             PROVE  Post(s)'
    OBVIOUS
<1> USE DEF Post
<1>1. ASSUME NEW r \in Req, Handles(r), r # s PROVE Post(s)'
    BY <1>1, OthersKeep
<1>2. CASE ReadPrev(s)
    BY <1>2 DEF ReadPrev, PTypeOK, vars, reqVars
<1>3. ASSUME NEW e \in Entry, Add(s, e) \/ Remove(s, e) PROVE Post(s)'
    BY <1>3 DEF Add, Remove, Save, PTypeOK, vars, reqVars
<1>4. ASSUME NEW e \in Entry, Ban(s, e) PROVE Post(s)'
    BY <1>4 DEF Ban, PTypeOK, vars, reqVars
<1>5. CASE ReleaseAll(s)
    BY <1>5 DEF ReleaseAll, Save, PTypeOK, vars, reqVars
<1>6. CASE Unrelease(s) \/ Rollback(s)
    BY <1>6 DEF Unrelease, Rollback, PTypeOK, vars, reqVars
<1>7. CASE Readd(s)
    BY <1>7 DEF Readd, PTypeOK, vars, reqVars
<1>8. CASE Apply(s)
    BY <1>8 DEF Apply, Set, PTypeOK, TypeOK, FirstTime
<1>9. CASE Rebuilding(s)
    <2>1. CASE pc'[s] # "idle"
        <3>1. GoesOn(s) \/ Fails(s) \/ Reverts(s)
            BY <1>9, <2>1, InsideManager DEF Rebuilding, Applies, GivesUp
        <3>2. hpc' = hpc /\ saw' = saw
            BY <1>9, <2>1 DEF Rebuilding, handlerVars
        <3> QED
            BY <2>1, <3>1, <3>2 DEF GoesOn, Fails, Reverts
    <2>2. CASE pc'[s] = "idle"
        <3>1. Applies(s) \/ GivesUp(s)
            BY <1>9, <2>2, InsideManager DEF Rebuilding, GoesOn, Fails, Reverts
        <3>2. hpc[s] \in {"applying", "banning"} /\ ~again'[s]
            BY <3>1 DEF Applies, GivesUp
        <3>3. IF told'[s] = "applied" \/ hpc[s] = "banning"
              THEN hpc'[s] = "idle" /\ saw'[s] = {}
              ELSE hpc'[s] = "rollback" /\ saw'[s] = saw[s]
            BY <1>9, <2>2 DEF Rebuilding, PTypeOK
        <3> QED
            BY <2>2, <3>2, <3>3
    <2> QED
        BY <2>1, <2>2
<1>10. CASE Crash
    BY <1>10 DEF Crash
<1>11. CASE UNCHANGED <<reqVars, handlerVars>>
    BY <1>11 DEF reqVars, handlerVars
<1>12. (Boot \/ Environment) => UNCHANGED reqVars
    BY DEF Boot, Environment, TakePort, FreePort, EditBase
<1> QED
    BY <1>1, <1>2, <1>3, <1>4, <1>5, <1>6, <1>7, <1>8, <1>9, <1>10, <1>11, <1>12
    DEF PNext, Handler, Handles, allVars, vars
-----------------------------------------------------------------------------
\* A step of another handler leaves a caller's own list alone, in its store and
\* in the Manager.
LEMMA OwnListKeeps ==
    ASSUME TypeOK, PTypeOK, NEW s \in Req, Own(s) # {}, NEW r \in Req, r # s, Handles(r)
    PROVE  store'[AxisOf(s)] = store[AxisOf(s)] /\ mem'[AxisOf(s)] = mem[AxisOf(s)]
<1>0. /\ AxisOf(s) \in Axis /\ AxisOf(r) \in Axis
      /\ AxisOf(s) # AxisOf(r) /\ AxisOf(s) \notin AxesOf[r]
    BY AxisType, OwnAxis
<1>1. store'[AxisOf(s)] = store[AxisOf(s)]
    <2>1. CASE UNCHANGED storeVars
        BY <2>1 DEF storeVars
    <2>2. ASSUME NEW list \in SUBSET Entry, NEW written \in BOOLEAN,
                 Mutate(AxisOf(r), list, written)
          PROVE  store'[AxisOf(s)] = store[AxisOf(s)]
        BY <1>0, <2>2, MutateType
    <2> QED
        BY <2>1, <2>2, StoreCall
<1>2. CASE Apply(r)
    BY <1>0, <1>1, <1>2 DEF Apply, Set, Overlay
<1>3. CASE Rebuilding(r)
    BY <1>0, <1>1, <1>3, InsideManager
    DEF Rebuilding, GoesOn, Fails, Reverts, Applies, GivesUp, Overlay
<1>4. CASE ~Apply(r) /\ ~Rebuilding(r)
    BY <1>1, <1>4 DEF Handles, ReadPrev, Add, Remove, Save, Ban, ReleaseAll, Unrelease, Readd,
        Rollback, vars
<1> QED
    BY <1>2, <1>3, <1>4

\* A step of the editor itself keeps its list, the Manager and the list it
\* remembers in step.
LEMMA EditorStep ==
    ASSUME Grounds, NEW s \in Req, OwnList(s), InStep(s), Handles(s), ~unsaved'
    PROVE  InStep(s)'
<1> DEFINE a == AxisOf(s)
<1>0. /\ a \in Axis /\ AxesOf[s] = {a} /\ s \in Editors /\ s \notin Bans /\ s \notin Releases
      /\ Post(s) /\ lastGood # None
    BY AxisType, Roles, GatewayServes DEF OwnList, Grounds
<1> USE <1>0 DEF Grounds, InStep, Post
<1> HIDE DEF a
<1>1. CASE ReadPrev(s)
    BY <1>1 DEF a, ReadPrev, PTypeOK, vars, boxVars, reqVars, storeVars
<1>2. ASSUME NEW list \in SUBSET Entry, Save(s, list) PROVE InStep(s)'
    <2>1. /\ Mutate(a, list, TRUE) /\ rules'[s] = list /\ saw' = saw
          /\ hpc'[s] = "saved" /\ hpc[s] = "read"
        BY <1>2 DEF a, Save, Mutate, PTypeOK
    <2>2. store'[a] = list
        BY <2>1, MutateType
    <2> QED
        BY <1>2, <2>1, <2>2 DEF a, Save, vars, boxVars, reqVars
<1>3. ASSUME NEW e \in Entry, Add(s, e) \/ Remove(s, e) PROVE InStep(s)'
    <2>1. store[a] \in SUBSET Entry
        BY Roles DEF PTypeOK
    <2> QED
        BY <1>2, <1>3, <2>1 DEF a, Add, Remove
<1>4. CASE Apply(s)
    <2>1. /\ hpc[s] = "saved" /\ hpc'[s] = "applying" /\ ~again[s] /\ pc'[s] = "reload"
          /\ UNCHANGED <<store, saw, rules, again, lastGood>>
        BY <1>4 DEF Apply, Set, PTypeOK, TypeOK, FirstTime, storeVars, boxVars
    <2>2. prev'[s][a] = mem[a] /\ mem'[a] = rules[s]
        BY <1>4 DEF Apply, Set, Overlay, TypeOK
    <2> QED
        BY <2>1, <2>2 DEF a
<1>5. CASE Rebuilding(s)
    <2>1. hpc[s] = "applying" /\ UNCHANGED store
        BY <1>5, InsideManager
        DEF Rebuilding, GoesOn, Fails, Reverts, Applies, GivesUp, storeVars
    <2>2. CASE pc'[s] # "idle"
        <3>1. UNCHANGED <<hpc, saw, rules>>
            BY <1>5, <2>2 DEF Rebuilding, handlerVars
        <3>2. CASE GoesOn(s)
            BY <2>1, <2>2, <3>1, <3>2 DEF a, GoesOn
        <3>3. CASE Fails(s)
            BY <2>1, <2>2, <3>1, <3>3 DEF a, Fails
        <3>4. CASE Reverts(s)
            <4>1. mem'[a] = prev[s][a]
                BY <3>4 DEF Reverts, Overlay
            <4> QED
                BY <2>1, <2>2, <3>1, <3>4, <4>1 DEF a, Reverts
        <3> QED
            BY <1>5, <2>2, <3>2, <3>3, <3>4, InsideManager DEF Rebuilding, Applies, GivesUp
    <2>3. CASE pc'[s] = "idle"
        <3>1. IF told'[s] = "applied"
              THEN hpc'[s] = "idle"
              ELSE hpc'[s] = "rollback" /\ saw'[s] = saw[s]
            BY <1>5, <2>1, <2>3 DEF Rebuilding, PTypeOK
        <3>2. CASE Applies(s)
            <4>1. mem[a] \in Starts
                BY <3>2 DEF a, Applies, CanStart
            <4> QED
                BY <2>1, <2>3, <3>1, <3>2, <4>1 DEF a, Applies
        <3>3. CASE GivesUp(s)
            BY <2>1, <2>3, <3>1, <3>3 DEF a, GivesUp
        <3> QED
            BY <1>5, <2>3, <3>2, <3>3, InsideManager DEF Rebuilding, GoesOn, Fails, Reverts
    <2> QED
        BY <2>2, <2>3
<1>6. CASE Rollback(s)
    <2>2. PICK written \in BOOLEAN : Mutate(a, saw[s], written)
        BY <1>6 DEF a, Rollback
    <2>3. store'[a] = saw[s]
        BY <2>2, Roles DEF Mutate, PTypeOK
    <2>4. hpc[s] = "rollback" /\ hpc'[s] = "idle"
        BY <1>6 DEF Rollback, PTypeOK
    <2> QED
        BY <1>6, <2>3, <2>4 DEF a, Rollback, vars, boxVars, reqVars
<1> QED
    BY <1>1, <1>3, <1>4, <1>5, <1>6 DEF Handles, Ban, ReleaseAll, Unrelease, Readd

\* So does every other step (the list handlers, a boot, a crash).
LEMMA EditorsStep ==
    Grounds /\ EditorsInStep /\ [PNext]_allVars => EditorsInStep'
<1> SUFFICES ASSUME Grounds, EditorsInStep, [PNext]_allVars, ~unsaved',
                    NEW s \in Req, OwnList(s)
             PROVE  InStep(s)'
    BY DEF EditorsInStep, OwnList, Own
<1>0. ~unsaved
    <2>1. CASE Crash \/ UNCHANGED allVars \/ UNCHANGED <<storeVars, handlerVars>>
        BY <2>1 DEF Crash, allVars, storeVars
    <2>2. ASSUME NEW r \in Req, ReadPrev(r) \/ Apply(r) \/ Rebuilding(r) PROVE ~unsaved
        BY <2>2 DEF ReadPrev, Apply, Rebuilding, storeVars
    <2>3. ASSUME NEW r \in Req, NEW e \in Entry, Add(r, e) \/ Remove(r, e) \/ Ban(r, e) PROVE ~unsaved
        BY <2>3 DEF Add, Remove, Ban, Save, Mutate
    <2>4. ASSUME NEW r \in Req, ReleaseAll(r) \/ Unrelease(r) \/ Readd(r) \/ Rollback(r) PROVE ~unsaved
        BY <2>4 DEF ReleaseAll, Unrelease, Readd, Rollback, Save, Mutate, storeVars
    <2> QED
        BY <2>1, <2>2, <2>3, <2>4 DEF PNext, Handler
<1>1. InStep(s) /\ Own(s) # {} /\ AxisOf(s) \in Axis
    BY <1>0, AxisType DEF EditorsInStep, OwnList
<1>2. ASSUME NEW r \in Req, r # s, Handles(r) PROVE InStep(s)'
    <2>1. lastGood # None
        BY <1>2, GatewayServes DEF Grounds
    <2> QED
        BY <1>1, <1>2, <2>1, OthersKeep, OwnListKeeps DEF Grounds, InStep
<1>3. CASE Handles(s)
    BY <1>1, <1>3, EditorStep
<1>4. CASE Crash
    BY <1>1, <1>4 DEF Crash, InStep
<1>5. CASE Boot /\ UNCHANGED <<storeVars, handlerVars>>
    <2>1. mem[AxisOf(s)] \in Starts /\ hpc[s] = "idle"
        BY <1>1, <1>5 DEF Boot, CanStart, Grounds, ServedFirst, NoneInFlight
    <2> QED
        BY <1>1, <1>5, <2>1 DEF Boot, InStep, storeVars, handlerVars, reqVars
<1>6. CASE Environment /\ UNCHANGED <<storeVars, handlerVars>>
    BY <1>1, <1>6 DEF Environment, TakePort, FreePort, EditBase, InStep, boxVars, reqVars,
        storeVars, handlerVars
<1>7. CASE UNCHANGED allVars
    BY <1>1, <1>7 DEF InStep, allVars, vars, boxVars, reqVars, storeVars, handlerVars
<1> QED
    BY <1>2, <1>3, <1>4, <1>5, <1>6, <1>7 DEF PNext, Handler, Handles

\* The common ground is kept by every step.
LEMMA GroundsStep == Grounds /\ [PNext]_allVars => Grounds'
BY PMutexStep, PTypeStep, ServedStep, PostStep DEF Grounds, MutexInv

\* At the first start all of it holds.
LEMMA PolicyInit == PInit => Grounds /\ EditorsInStep /\ BansAccounted
<1> SUFFICES ASSUME PInit PROVE Grounds /\ EditorsInStep /\ BansAccounted
    OBVIOUS
<1>1. TypeOK /\ Mutex /\ FirstTime
    BY TypeInit, RebuildAssumption DEF PInit, Init, Mutex, FirstTime, Inner
<1>2. PTypeOK /\ FileIsStore
    BY Roles DEF PInit, PTypeOK, FileIsStore, HandlerLabel
<1>3. ServedFirst /\ \A r \in Req : Post(r)
    BY DEF PInit, Init, ServedFirst, NoneInFlight, Post
<1>4. ASSUME NEW r \in Req PROVE InStep(r)
    BY Roles, AxisType DEF PInit, Init, InStep
<1>5. ASSUME NEW r \in Req PROVE Accounted(r)
    BY DEF PInit, Init, Accounted, Kept
<1> QED
    BY <1>1, <1>2, <1>3, <1>4, <1>5, PolicyApplyAssumption DEF Grounds, EditorsInStep, BansAccounted
-----------------------------------------------------------------------------
\* The lists of the box that runs, of the one it may go back to and of those
\* being built come from the Manager's list, from each other and from the list a
\* caller puts back.
LEMMA BoxKeeps ==
    ASSUME Grounds, NEW s \in Req, Accounted(s), NEW r \in Req, Rebuilding(r)
    PROVE  /\ instance' # None => Kept(s, instance'.pol[AxisOf(s)])
           /\ lastGood' # None => Kept(s, lastGood'.pol[AxisOf(s)])
           /\ \A u \in Req : pc'[u] \in {"build", "swap", "start"} =>
                 Kept(s, cand'[u].pol[AxisOf(s)])
<1> USE DEF Accounted
<1>1. /\ GoesOn(r) \/ Fails(r) \/ Reverts(r) \/ Applies(r) \/ GivesUp(r)
      /\ OthersRest(r)
    BY InsideManager DEF Rebuilding, Grounds
<1>2. pc[r] = "start" => Kept(s, cand[r].pol[AxisOf(s)])
    OBVIOUS
<1>3. instance' # None => Kept(s, instance'.pol[AxisOf(s)])
    BY <1>1, <1>2 DEF GoesOn, Fails, Reverts, Applies, GivesUp
<1>4. lastGood' # None => Kept(s, lastGood'.pol[AxisOf(s)])
    BY <1>1, <1>2 DEF GoesOn, Fails, Reverts, Applies, GivesUp
<1>5. ASSUME NEW u \in Req, pc'[u] \in {"build", "swap", "start"}
      PROVE  Kept(s, cand'[u].pol[AxisOf(s)])
    <2>1. CASE u # r
        BY <1>1, <1>5, <2>1 DEF OthersRest
    <2>2. CASE u = r
        BY <1>1, <1>5, <2>2 DEF GoesOn, Fails, Reverts, Applies, GivesUp
    <2> QED
        BY <2>1, <2>2
<1> QED
    BY <1>3, <1>4, <1>5

\* Nothing inside the Manager changes: what is kept stays kept when the list and
\* the caller's hands hold no less between them.
LEMMA HandsKeep ==
    ASSUME TypeOK, NEW s \in Req, Accounted(s), UNCHANGED vars,
           store[AxisOf(s)] \cup saw[s] \subseteq store'[AxisOf(s)] \cup saw'[s]
    PROVE  LET a == AxisOf(s) IN
           /\ Kept(s, mem[a])'
           /\ (instance # None => Kept(s, instance.pol[a]))'
           /\ (lastGood # None => Kept(s, lastGood.pol[a]))'
           /\ (\A u \in Req : pc[u] \in {"build", "swap", "start"} => Kept(s, cand[u].pol[a]))'
           /\ (pc[s] # "idle" => Kept(s, prev[s][a]))'
BY DEF Accounted, Kept, vars, boxVars, reqVars

\* A step of the caller that bans and releases keeps what the box rejects in the
\* list or in its hands.
LEMMA BanStep ==
    ASSUME Grounds, NEW s \in Req, s \in Bans, Own(s) # {}, Accounted(s), Handles(s), ~unsaved'
    PROVE  Accounted(s)'
<1> DEFINE a == AxisOf(s)
<1>0. /\ a \in Axis /\ AxesOf[s] = {a} /\ s \notin Editors
      /\ Post(s) /\ store[a] \in SUBSET Entry
    BY AxisType, Roles DEF Grounds, PTypeOK
<1> USE <1>0 DEF Grounds, Post
<1> HIDE DEF a
<1>1. CASE ReadPrev(s)
    <2>1. hpc[s] = "idle" /\ hpc'[s] = "read" /\ saw[s] = {} /\ saw'[s] = store[a] /\ store' = store
        BY <1>1 DEF a, ReadPrev, PTypeOK, storeVars
    <2>2. UNCHANGED vars /\ pc[s] = "idle"
        BY <1>1 DEF ReadPrev
    <2> QED
        BY <2>1, <2>2, HandsKeep DEF a, Accounted, vars, reqVars
<1>2. ASSUME NEW list \in SUBSET Entry, list \subseteq store[a], Save(s, list) PROVE Accounted(s)'
    <2>1. /\ Mutate(a, list, TRUE) /\ rules'[s] = list /\ saw' = saw
          /\ hpc'[s] = "saved" /\ hpc[s] = "read"
        BY <1>2 DEF a, Save, Mutate, PTypeOK
    <2>2. store'[a] = list
        BY <2>1, MutateType
    <2>3. saw[s] = store[a]
        BY <2>1 DEF a, Accounted
    <2>4. UNCHANGED vars /\ pc[s] = "idle"
        BY <1>2, <2>1 DEF Save
    <2> QED
        BY <1>2, <2>1, <2>2, <2>3, <2>4, HandsKeep DEF a, Accounted, vars, reqVars
<1>3. ASSUME NEW e \in Entry, Add(s, e) \/ Remove(s, e) PROVE Accounted(s)'
    BY <1>2, <1>3 DEF a, Add, Remove
<1>4. ASSUME NEW e \in Entry, Ban(s, e) PROVE Accounted(s)'
    <2>1. PICK written \in BOOLEAN : Mutate(a, store[a] \cup {e}, written)
        BY <1>4 DEF a, Ban
    <2>2. store'[a] = store[a] \cup {e}
        BY <2>1, MutateType
    <2>3. hpc'[s] = "banned" /\ rules'[s] = store[a] \cup {e} /\ saw' = saw
        BY <1>4 DEF a, Ban, PTypeOK
    <2>4. UNCHANGED vars /\ pc[s] = "idle"
        BY <1>4 DEF Ban
    <2> QED
        BY <2>2, <2>3, <2>4, HandsKeep DEF a, Accounted, vars, reqVars
<1>5. CASE ReleaseAll(s)
    BY <1>2, <1>5 DEF ReleaseAll
<1>6. CASE Unrelease(s)
    <2>1. PICK written \in BOOLEAN : Mutate(a, {}, written)
        BY <1>6 DEF a, Unrelease
    <2>2. store'[a] = {}
        BY <2>1, Roles DEF Mutate, PTypeOK
    <2>3. hpc[s] = "rollback" /\ hpc'[s] = "readd" /\ saw' = saw
        BY <1>6 DEF Unrelease, PTypeOK
    <2>4. UNCHANGED vars /\ pc[s] = "idle" /\ store[a] \subseteq saw[s]
        BY <1>6, <2>3 DEF a, Unrelease, Accounted
    <2> QED
        BY <2>2, <2>3, <2>4, HandsKeep DEF a, Accounted, vars, reqVars
<1>7. CASE Readd(s)
    <2>0. UNCHANGED vars /\ hpc[s] = "readd" /\ pc[s] = "idle"
        BY <1>7 DEF Readd
    <2>1. ASSUME NEW e \in saw[s], NEW written \in BOOLEAN, Mutate(a, store[a] \cup {e}, written),
                 saw' = [saw EXCEPT ![s] = @ \ {e}], hpc' = hpc
          PROVE  Accounted(s)'
        <3>1. store'[a] = store[a] \cup {e}
            BY <2>1, Roles DEF Mutate, PTypeOK
        <3>2. saw'[s] = saw[s] \ {e}
            BY <2>1 DEF PTypeOK
        <3> QED
            BY <2>0, <2>1, <3>1, <3>2, HandsKeep DEF a, Accounted, vars, reqVars
    <2>2. CASE hpc' = [hpc EXCEPT ![s] = "idle"] /\ UNCHANGED <<storeVars, saw>>
        <3>1. hpc'[s] = "idle" /\ store' = store /\ saw' = saw
            BY <2>2 DEF storeVars, PTypeOK
        <3> QED
            BY <2>0, <3>1, HandsKeep DEF a, Accounted, vars, reqVars
    <2> QED
        BY <1>7, <2>1, <2>2 DEF a, Readd
<1>8. CASE Apply(s)
    <2>1. /\ hpc[s] \in {"saved", "banned"} /\ ~again[s] /\ pc'[s] = "reload"
          /\ hpc'[s] = IF hpc[s] = "saved" THEN "applying" ELSE "banning"
          /\ UNCHANGED <<store, saw, rules, again, cand, instance, lastGood>>
          /\ \A u \in Req : pc'[u] \in {"build", "swap", "start"} => pc[u] = pc'[u]
        BY <1>8 DEF Apply, Set, PTypeOK, TypeOK, FirstTime, storeVars, boxVars
    <2>2. prev'[s][a] = mem[a] /\ mem'[a] = rules[s] /\ rules[s] = store[a]
        BY <1>8, <2>1 DEF a, Apply, Set, Overlay, TypeOK, Accounted
    <2> QED
        BY <2>1, <2>2 DEF a, Accounted, Kept
<1>9. CASE Rebuilding(s)
    <2>1. /\ hpc[s] \in {"applying", "banning"} /\ store' = store
          /\ hpc[s] = "applying" => store[a] \subseteq saw[s]
          /\ hpc[s] = "banning" => saw[s] = {}
          /\ pc[s] # "idle"
        BY <1>9, InsideManager
        DEF a, Rebuilding, GoesOn, Fails, Reverts, Applies, GivesUp, storeVars, Accounted
    <2>2. CASE pc'[s] # "idle"
        <3>1. UNCHANGED <<store, hpc, saw, rules>>
            BY <1>9, <2>1, <2>2 DEF Rebuilding, handlerVars
        <3>2. Kept(s, mem[a]) /\ Kept(s, prev[s][a])
            BY <2>1 DEF a, Accounted
        <3>3. CASE GoesOn(s)
            <4>1. hpc[s] = "applying" /\ ~again[s] /\ pc'[s] \in {"build", "swap", "start"} =>
                     cand'[s].pol[a] \subseteq store[a]
                BY <2>1, <3>3 DEF a, GoesOn, Accounted
            <4> QED
                BY <1>9, <2>1, <2>2, <3>1, <3>2, <3>3, <4>1, BoxKeeps DEF a, GoesOn, Accounted, Kept
        <3>4. CASE Fails(s)
            BY <1>9, <2>1, <2>2, <3>1, <3>2, <3>4, BoxKeeps DEF a, Fails, Accounted, Kept
        <3>5. CASE Reverts(s)
            <4>1. mem'[a] = prev[s][a]
                BY <3>5 DEF Reverts, Overlay
            <4> QED
                BY <1>9, <2>1, <2>2, <3>1, <3>2, <3>5, <4>1, BoxKeeps
                DEF a, Reverts, Accounted, Kept
        <3> QED
            BY <1>9, <2>2, <3>3, <3>4, <3>5, InsideManager DEF Rebuilding, Applies, GivesUp
    <2>3. CASE pc'[s] = "idle"
        <3>1. LET done == told'[s] = "applied" \/ hpc[s] = "banning" IN
              /\ hpc'[s] = IF done THEN "idle" ELSE "rollback"
              /\ saw'[s] = IF done THEN {} ELSE saw[s]
            BY <1>9, <2>3 DEF Rebuilding, PTypeOK
        <3>2. CASE saw'[s] = saw[s]
            <4>1. mem' = mem
                BY <1>9, <2>3, InsideManager
                DEF Rebuilding, GoesOn, Fails, Reverts, Applies, GivesUp
            <4> QED
                BY <1>9, <2>1, <2>3, <3>1, <3>2, <4>1, BoxKeeps DEF a, Accounted, Kept
        <3>3. CASE hpc[s] = "applying" /\ told'[s] = "applied"
            <4>1. Applies(s) /\ OthersRest(s)
                BY <1>9, <2>3, <3>3, InsideManager DEF Rebuilding, GoesOn, Fails, Reverts, GivesUp
            <4>2. cand[s].pol[a] \subseteq store[a] /\ mem[a] \subseteq store[a]
                BY <3>3, <4>1 DEF a, Applies, Accounted
            <4>3. \A u \in Req : pc'[u] \notin {"build", "swap", "start"}
                BY <4>1 DEF Applies, OthersRest, Mutex, Inner
            <4> QED
                BY <2>1, <2>3, <3>1, <3>3, <4>1, <4>2, <4>3 DEF a, Applies, Accounted, Kept
        <3> QED
            BY <2>1, <3>1, <3>2, <3>3
    <2> QED
        BY <2>2, <2>3
<1> QED
    BY <1>1, <1>3, <1>4, <1>5, <1>6, <1>7, <1>8, <1>9 DEF Handles, Rollback

\* So does every other step.
LEMMA BansStep ==
    Grounds /\ BansAccounted /\ [PNext]_allVars => BansAccounted'
<1> SUFFICES ASSUME Grounds, BansAccounted, [PNext]_allVars, ~unsaved',
                    NEW s \in Req, s \in Bans, Own(s) # {}
             PROVE  Accounted(s)'
    BY PolicyApplyAssumption DEF BansAccounted, Own
<1>0. ~unsaved
    <2>1. CASE Crash \/ UNCHANGED allVars \/ UNCHANGED <<storeVars, handlerVars>>
        BY <2>1 DEF Crash, allVars, storeVars
    <2>2. ASSUME NEW r \in Req, ReadPrev(r) \/ Apply(r) \/ Rebuilding(r) PROVE ~unsaved
        BY <2>2 DEF ReadPrev, Apply, Rebuilding, storeVars
    <2>3. ASSUME NEW r \in Req, NEW e \in Entry, Add(r, e) \/ Remove(r, e) \/ Ban(r, e) PROVE ~unsaved
        BY <2>3 DEF Add, Remove, Ban, Save, Mutate
    <2>4. ASSUME NEW r \in Req, ReleaseAll(r) \/ Unrelease(r) \/ Readd(r) \/ Rollback(r) PROVE ~unsaved
        BY <2>4 DEF ReleaseAll, Unrelease, Readd, Rollback, Save, Mutate, storeVars
    <2> QED
        BY <2>1, <2>2, <2>3, <2>4 DEF PNext, Handler
<1>1. Accounted(s) /\ AxisOf(s) \in Axis
    BY <1>0, AxisType DEF BansAccounted
<1>2. ASSUME NEW r \in Req, r # s, Handles(r) PROVE Accounted(s)'
    <2>1. /\ store'[AxisOf(s)] = store[AxisOf(s)] /\ mem'[AxisOf(s)] = mem[AxisOf(s)]
          /\ hpc'[s] = hpc[s] /\ saw'[s] = saw[s] /\ rules'[s] = rules[s] /\ pc'[s] = pc[s]
          /\ again'[s] = again[s] /\ prev'[s] = prev[s] /\ cand'[s] = cand[s]
        BY <1>2, OthersKeep, OwnListKeeps DEF Grounds
    <2>2. CASE Rebuilding(r)
        BY <1>1, <2>1, <2>2, BoxKeeps DEF Accounted, Kept
    <2>3. CASE Apply(r)
        <3>1. /\ UNCHANGED <<cand, instance, lastGood>>
              /\ \A u \in Req : pc'[u] \in {"build", "swap", "start"} => pc[u] = pc'[u]
            BY <2>3 DEF Apply, Set, boxVars, Grounds, TypeOK
        <3> QED
            BY <1>1, <2>1, <3>1 DEF Accounted, Kept
    <2>4. CASE ~Apply(r) /\ ~Rebuilding(r)
        <3>1. UNCHANGED vars
            BY <1>2, <2>4 DEF Handles, ReadPrev, Add, Remove, Save, Ban, ReleaseAll, Unrelease,
                Readd, Rollback
        <3> QED
            BY <1>1, <2>1, <3>1 DEF Accounted, Kept, vars, boxVars, reqVars
    <2> QED
        BY <2>2, <2>3, <2>4
<1>3. CASE Handles(s)
    BY <1>1, <1>3, BanStep
<1>4. CASE Crash
    BY <1>1, <1>0, <1>4 DEF Crash, Accounted, Kept, Grounds, FileIsStore
<1>5. CASE (Boot \/ Environment) /\ UNCHANGED <<storeVars, handlerVars>>
    <2>1. CASE Boot
        BY <1>1, <1>5, <2>1 DEF Boot, Accounted, Kept, reqVars, storeVars, handlerVars
    <2>2. CASE Environment
        BY <1>1, <1>5, <2>2 DEF Environment, TakePort, FreePort, EditBase, Accounted, Kept,
            boxVars, reqVars, storeVars, handlerVars
    <2> QED
        BY <1>5, <2>1, <2>2
<1>6. CASE UNCHANGED allVars
    BY <1>1, <1>6 DEF Accounted, Kept, allVars, vars, boxVars, reqVars, storeVars, handlerVars
<1> QED
    BY <1>2, <1>3, <1>4, <1>5, <1>6 DEF PNext, Handler, Handles
-----------------------------------------------------------------------------
\* Every variable keeps its type, who does what stays fixed, and as long as the
\* disk takes writes a restart loses nothing (liststore, the list handlers).
THEOREM HandlersStayInLine == PSpec => []Grounds
BY PolicyInit, GroundsStep, PTL DEF PSpec

\* Once no handler is in flight, a list only one API handler works on is what
\* the Manager holds (applyOrRollback, setAndRebuild's revert).
THEOREM StoresMatchTheManager == PSpec => []StoreMatchesManager
<1>1. EditorsInStep => StoreMatchesManager
    BY DEF EditorsInStep, InStep, StoreMatchesManager, NoneInFlight
<1> QED
    BY <1>1, PolicyInit, EditorsStep, HandlersStayInLine, PTL DEF PSpec

\* While the gateway serves and no handler is in flight, no API handler has left
\* a list behind that does not start (applyOrRollback's un-poisoning).
THEOREM RestartsComeUp == PSpec => []ServingIsBootable
<1>1. Grounds /\ EditorsInStep => ServingIsBootable
    BY DEF Grounds, FileIsStore, EditorsInStep, InStep, ServingIsBootable, NoneInFlight
<1> QED
    BY <1>1, PolicyInit, EditorsStep, HandlersStayInLine, PTL DEF PSpec

\* What the box rejects is in the list, or in the hands of the handler that puts
\* it back (quarantine.Store.Add, SetOnBan, handleReleaseQuarantine).
THEOREM RejectionsAreListed == PSpec => []RejectedIsListed
<1>1. BansAccounted => RejectedIsListed
    BY DEF BansAccounted, Accounted, Kept, RejectedIsListed
<1> QED
    BY <1>1, PolicyInit, BansStep, HandlersStayInLine, PTL DEF PSpec
=============================================================================
