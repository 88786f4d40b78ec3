------------------------------ MODULE Postures ------------------------------
(***************************************************************************)
(* Strict and Split, the two postures, with the policy kept for each, and  *)
(* the profiles (internal/posture, internal/profile, internal/api).  Both  *)
(* replace the whole policy: one rebuild, then the stores one after the    *)
(* other.  They meet the handlers of Packs on the policy and those of      *)
(* Exits on the nodes.  The policy is the custom rules and the rule sets;  *)
(* the other lists are snapshotted and written back in the same way.       *)
(***************************************************************************)
EXTENDS Exits, Packs

CONSTANTS
    SplitSeed, \* the policy SeedSplit builds: [rules, sets]
    Profile,   \* names of profiles
    Scenes     \* the groups of requests that meet each other: [name -> operations]

VARIABLES
    posture,  \* [mem, file, held]: the posture store, its file, the Manager's posture
    profiles, \* profile.Store.data: [name -> [rules, sets, sub]]
    scene,    \* the group of requests of this behaviour
    farewell  \* auxiliary: for each posture, the policy when it was last left

allVars == <<exitVars, packVars, posture, profiles, scene, farewell>>

Names == {"strict", "split"}
Slot(p, seeded) == [rules |-> p.rules, sets |-> p.sets, seeded |-> seeded]
EmptySlot == Slot(NoPolicy, FALSE)
Content(slot) == [rules |-> slot.rules, sets |-> slot.sets]
Strangers == [p \in Names |-> Nil]

\* PutSlot and SetActive: [active, slots] in memory and, when it saves, in the file.
WithSlot(p, slot) == [posture.mem EXCEPT !.slots[p] = slot]
Stored(state) == [posture EXCEPT !.mem = state, !.file = state]
Unstored(state) == [posture EXCEPT !.mem = state]

\* A switch or an activation takes the nodes it has read through a rebuild: it
\* holds the axis of the nodes meanwhile, as a request of Exits.
Holding == {e \in ExitRequest : inflight[e].op = "policy"}
Hold ==
    /\ \E e \in ExitRequest :
        /\ inflight[e] = Idle
        /\ inflight' = [inflight EXCEPT ![e] = [Idle EXCEPT !.axis = "nodes", !.op = "policy"]]
    /\ torn' = Beside("nodes")
Release ==
    LET e == CHOOSE h \in Holding : TRUE IN
    /\ inflight' = [inflight EXCEPT ![e] = Idle]
    /\ torn' = IF InStep(e, "nodes", plane.nodes) THEN torn \ {"nodes"} ELSE torn

\* The bound: one switch or activation at a time.
Sweeps == {"switch", "back", "activate"}
Sweeping == {r \in PolicyRequest : ops[r].op \in Sweeps}
Alone(r) == \A q \in PolicyRequest \ {r} : ops[q] = Resting
At(r, step) == ops[r].plan # <<>> /\ Head(ops[r].plan) = step
Forth(r, o, p) == Continue(r, [o EXCEPT !.plan = Tail(@)], p, {}) /\ UNCHANGED mishaps
Stop(r) == Continue(r, [ops[r] EXCEPT !.plan = <<>>], policy, {})
StoresStay == UNCHANGED <<subs, gateways, localMode, endpoints, disabled, exitFiles, abandoned, faults>>

-----------------------------------------------------------------------------
(***************************************************************************)
(* A switch of the posture                                                 *)
(***************************************************************************)
SwitchPlan == <<"leave", "load", "plane", "alignSets", "alignRules", "settle">>

BeginSwitch(r) ==
    /\ Sweeping = {}
    /\ \E to \in Names :
        /\ to # posture.held \/ (to = "split" /\ ~posture.mem.slots["split"].seeded)
        /\ Begin(r, "switch", [from |-> posture.held, to |-> to], SwitchPlan)
    /\ farewell' = IF Alone(r) THEN farewell ELSE Strangers
    /\ wanted' = {}
    /\ UNCHANGED <<exitVars, posture, profiles>>

\* The live policy, as the slot of the posture that is left.
Leaving(r) ==
    LET from == ops[r].arg.from IN
    Slot(policy.mem, from = "split" /\ posture.mem.slots[from].seeded)
\* Bug: it goes to the slot of the posture that comes.
BugLeftSlots(r) == WithSlot(ops[r].arg.to, Leaving(r))

LeftSlots(r) == WithSlot(ops[r].arg.from, Leaving(r))

Leave(r) ==
    /\ At(r, "leave")
    /\ \/ /\ posture' = Stored(LeftSlots(r))
          /\ farewell' = [farewell EXCEPT ![ops[r].arg.from] = IF Alone(r) THEN Leaving(r) ELSE Nil]
          /\ Forth(r, ops[r], policy)
       \/ /\ Mishap /\ posture' = Unstored(LeftSlots(r))
          /\ Stop(r) /\ UNCHANGED farewell
    /\ UNCHANGED <<exitVars, profiles>>

\* resolveSlotSources switches off the sets that cannot be fetched, and may give
\* others another URL.
Resolved(slot, lost) ==
    [slot EXCEPT !.sets = [t \in DOMAIN @ |-> [role |-> @[t].role, on |-> @[t].on /\ t \notin lost]]]
Arriving(to) ==
    LET slot == posture.mem.slots[to] IN
    IF to = "split" /\ ~slot.seeded THEN Slot(SplitSeed, TRUE) ELSE slot

\* The slot that comes, and the nodes as they are; the slot is stored when a
\* source of its sets changed.
Load(r) ==
    /\ At(r, "load")
    /\ \E lost \in SUBSET DOMAIN Arriving(ops[r].arg.to).sets, changed \in BOOLEAN :
        LET to == ops[r].arg.to
            slot == Resolved(Arriving(to), lost)
            o == [ops[r] EXCEPT !.next = Content(slot), !.prev = policy.mem, !.list = plane.nodes]
        IN  /\ to = "split" \/ (lost = {} /\ ~changed)
            /\ lost # {} => changed
            /\ \/ /\ posture' = IF changed THEN Stored(WithSlot(to, slot)) ELSE posture
                  /\ Hold /\ Forth(r, o, policy)
               \/ /\ changed /\ Mishap /\ posture' = Unstored(WithSlot(to, slot))
                  /\ Stop(r) /\ UNCHANGED <<inflight, torn>>
    /\ StoresStay /\ UNCHANGED <<plane, farewell, profiles>>

-----------------------------------------------------------------------------
(***************************************************************************)
(* One rebuild with everything, and the stores after it                    *)
(***************************************************************************)
PostureFor(o) ==
    CASE o.op = "switch" -> o.arg.to
      [] o.op = "back" -> o.arg.from
      [] OTHER -> posture.held

\* ApplyProfile.  A refused switch applies what was live before it, with the
\* nodes of now, and that may be refused too.
Plane(r) ==
    /\ At(r, "plane")
    /\ \/ /\ Forth(r, ops[r], [policy EXCEPT !.held = ops[r].next])
          /\ plane' = [plane EXCEPT !.nodes = ops[r].list]
          /\ posture' = [posture EXCEPT !.held = PostureFor(ops[r])]
          /\ UNCHANGED <<inflight, torn>>
       \/ /\ Mishap /\ ops[r].op = "switch"
          /\ Continue(r, [ops[r] EXCEPT !.op = "back", !.next = ops[r].prev, !.list = plane.nodes,
                             !.plan = <<"plane", "alignSets", "alignRules">>], policy, {})
          /\ UNCHANGED <<inflight, torn, plane, posture>>
       \/ /\ Mishap /\ ops[r].op # "switch"
          /\ Stop(r) /\ Release
          /\ UNCHANGED <<plane, posture>>
    /\ StoresStay /\ UNCHANGED <<farewell, profiles>>

\* alignLiveStores: a store that cannot save is reported, and the rest goes on.
Align(r) ==
    /\ At(r, "alignSets") \/ At(r, "alignRules")
    /\ LET store == StoreOf(Head(ops[r].plan))
           p == [policy.mem EXCEPT ![store] = ops[r].next[store]]
       IN \/ Forth(r, ops[r], Saves(p, store))
          \/ /\ Mishap
             /\ Continue(r, [ops[r] EXCEPT !.plan = Tail(@)], [policy EXCEPT !.mem = p], {store})
    /\ IF Len(ops[r].plan) = 1 THEN Release ELSE UNCHANGED <<inflight, torn>>
    /\ StoresStay /\ UNCHANGED <<plane, posture, farewell, profiles>>

\* SetActive; an error is only logged.
Settle(r) ==
    /\ At(r, "settle")
    /\ LET state == [posture.mem EXCEPT !.active = ops[r].arg.to] IN
       \/ posture' = Stored(state) /\ UNCHANGED mishaps
       \/ posture' = Unstored(state) /\ Mishap
    /\ Stop(r) /\ Release
    /\ StoresStay /\ UNCHANGED <<plane, farewell, profiles>>

-----------------------------------------------------------------------------
(***************************************************************************)
(* Profiles                                                                *)
(***************************************************************************)
ProfilePlan == <<"plane", "alignSets", "alignRules", "clear", "mark">>

\* snapshotProfile keeps one applied subscription of those there are.
AddProfile ==
    /\ \E name \in Profile \ DOMAIN profiles,
          sub \in IF \E id \in DOMAIN subs : subs[id].applied
                  THEN {id \in DOMAIN subs : subs[id].applied} ELSE {None} :
        profiles' = (name :> (policy.mem @@ [sub |-> sub])) @@ profiles
    /\ UNCHANGED <<exitVars, packVars, posture, farewell>>

DeleteProfile ==
    /\ \E name \in DOMAIN profiles :
        profiles' = [n \in DOMAIN profiles \ {name} |-> profiles[n]]
    /\ UNCHANGED <<exitVars, packVars, posture, farewell>>

\* handleActivateProfile: the nodes are those of the subscription, applied or not.
BeginActivate(r) ==
    /\ Sweeping = {} /\ Free
    /\ \E name \in DOMAIN profiles :
        LET sub == profiles[name].sub IN
        /\ ops[r] = Resting
        /\ ops' = [ops EXCEPT ![r] =
                [Resting EXCEPT !.op = "activate", !.arg = sub, !.plan = ProfilePlan,
                                !.next = Content(profiles[name]),
                                !.list = IF sub \notin DOMAIN subs \/ subs[sub].nodes = None THEN {}
                                         ELSE {<<sub, subs[sub].nodes>>}]]
    /\ loose' = IF Alone(r) THEN loose ELSE {"rules", "sets"}
    /\ farewell' = IF Alone(r) THEN farewell ELSE Strangers
    /\ wanted' = {}
    /\ Hold
    /\ StoresStay /\ UNCHANGED <<plane, policy, mishaps, posture, profiles>>

\* ClearAllApplied, then SetApplied for the profile's own; errors are logged.
Cleared == [Memory EXCEPT !.subs = [i \in DOMAIN subs |-> [subs[i] EXCEPT !.applied = FALSE]]]
Remark(saves, s) ==
    /\ Free
    /\ \/ ~saves /\ Same /\ Well
       \/ saves /\ Saved({"subs"}, s) /\ Well
       \/ saves /\ Unsaved(s) /\ faults < Faults /\ faults' = faults + 1 /\ torn' = torn \cup {"nodes"}

ClearSubs(r) ==
    /\ At(r, "clear") /\ Remark(\E id \in DOMAIN subs : subs[id].applied, Cleared)
    /\ Forth(r, ops[r], policy)
    /\ UNCHANGED <<plane, inflight, abandoned, posture, farewell, profiles>>
MarkProfile(r) ==
    /\ At(r, "mark")
    /\ LET id == ops[r].arg IN
       IF id \in DOMAIN subs THEN Remark(TRUE, WithApplied(id, TRUE)) ELSE Remark(FALSE, Memory)
    /\ Stop(r) /\ UNCHANGED mishaps
    /\ inflight' = [e \in ExitRequest |-> IF e \in Holding THEN Idle ELSE inflight[e]]
    /\ UNCHANGED <<plane, abandoned, posture, farewell, profiles>>

-----------------------------------------------------------------------------
(***************************************************************************)
(* The daemon                                                              *)
(***************************************************************************)
\* SyncActivePostureSlot: the live policy becomes the active slot, and a Split
\* that is not empty counts as seeded.
Synced(state, live) ==
    LET seeded == /\ state.active = "split"
                  /\ state.slots["split"].seeded \/ live # NoPolicy
    IN  [state EXCEPT !.slots[state.active] = Slot(live, seeded)]

Boot ==
    /\ Restart /\ Reload
    /\ LET state == Synced(posture.file, policy.file) IN
       posture' = [mem |-> state, file |-> state, held |-> state.active]
    /\ farewell' = IF Sweeping = {} /\ posture.mem = posture.file THEN farewell ELSE Strangers
    /\ UNCHANGED profiles

Started(active) == [active |-> active, slots |-> [p \in Names |-> EmptySlot]]
SettingsInit ==
    /\ scene \in DOMAIN Scenes
    /\ ExitInit /\ PackInit
    /\ \E active \in Names :
        /\ active = "split" \/ "switch" \in Scenes[scene]
        /\ posture = [mem |-> Started(active), file |-> Started(active), held |-> active]
    /\ profiles = <<>> /\ farewell = Strangers

\* What may begin in this behaviour.
May(op) == op \in Scenes[scene]
BeginPolicy(r) ==
    /\ \/ \E op \in {"rule", "set", "request"} : May(op) /\ BeginEdit(r, op)
       \/ \E op \in {"approve", "deny"} : May(op) /\ BeginJudgement(r, op)
       \/ \E op \in PackOps : May(op) /\ BeginPack(r, op)
    /\ farewell' = IF Sweeping = {} THEN farewell ELSE Strangers
    /\ UNCHANGED <<exitVars, posture, profiles>>

PolicyStep(r) ==
    \/ BeginPolicy(r)
    \/ PackStep(r) /\ UNCHANGED <<exitVars, posture, profiles, farewell>>
    \/ May("switch") /\ BeginSwitch(r)
    \/ Leave(r) \/ Load(r) \/ Plane(r) \/ Align(r) \/ Settle(r)
    \/ May("activate") /\ BeginActivate(r)
    \/ ClearSubs(r) \/ MarkProfile(r)

SettingsNext ==
    /\ \/ \E r \in PolicyRequest : PolicyStep(r)
       \/ May("activate") /\ (AddProfile \/ DeleteProfile)
       \/ /\ \E r \in ExitRequest :
                (May("exits") /\ OtherStep(r)) \/ (May("subs") /\ SubStep(r))
          /\ UNCHANGED <<packVars, posture, profiles, farewell>>
       \/ Boot
    /\ UNCHANGED scene

SettingsSpec == SettingsInit /\ [][SettingsNext]_allVars
-----------------------------------------------------------------------------
\* The policy a posture comes back with; sets that could not be fetched are off.
Alike(live, slot) ==
    /\ live.rules = slot.rules
    /\ DOMAIN live.sets = DOMAIN slot.sets
    /\ \A t \in DOMAIN live.sets :
        live.sets[t].role = slot.sets[t].role /\ (live.sets[t].on => slot.sets[t].on)
Returns(r) ==
    /\ At(r, "settle") /\ ops[r].arg.from # ops[r].arg.to
    /\ farewell[ops[r].arg.to] # Nil

\* A switch brings back the policy the operator left the posture with, whatever
\* was done under the other one, also after refused switches, failed saves,
\* profiles and restarts (posture/store.go: "slots hold the inactive side so
\* switching does not cross-contaminate").  farewell is given up where it does
\* not hold: requests beside a switch, a crash within one, a name that was not
\* saved; and a Split that is not recorded as seeded is left to SplitReturns.
SwitchesRestore ==
    \A r \in PolicyRequest :
        LET to == ops[r].arg.to IN
        (Returns(r) /\ (to = "strict" \/ farewell[to].seeded)) => Alike(policy.mem, farewell[to])

\* The same of every Split that has a policy, its packs among it, recorded as
\* seeded or not: the packs are imported once, and never over a policy that is
\* there ("mark seeded so we don't wipe user live state on next
\* switch-away/back", api/posture.go:254-255).
SplitReturns ==
    \A r \in PolicyRequest :
        (Returns(r) /\ ops[r].arg.to = "split" /\ Content(farewell["split"]) # NoPolicy)
            => Alike(policy.mem, farewell["split"])
=============================================================================
