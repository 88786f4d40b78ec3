------------------------------- MODULE Exits -------------------------------
(***************************************************************************)
(* Where the exits of the data plane come from: subscriptions, the         *)
(* registry of other gateways, WireGuard and Tailscale endpoints, and the  *)
(* nodes that are switched off (internal/subscription, internal/nodes,     *)
(* internal/endpoints, internal/nodeoverride and their handlers in         *)
(* internal/api).  A handler changes a store, which saves its file, and    *)
(* then hands the list that follows from the store to the gateway; each    *)
(* store call and the rebuild take a lock of their own, so two requests    *)
(* interleave between them.  The rebuild itself is in Rebuild: here it     *)
(* serves the list or, refused, keeps the one before.                      *)
(***************************************************************************)
EXTENDS Integers, FiniteSets

CONSTANTS
    None,        \* nothing: an empty node list, an absent part of a request
    ExitRequest, \* requests that may be in flight at once
    Sub,         \* subscriptions, by the hash of their URL
    Gateway,     \* other gateways, by the hash of their URL
    Endpoint,    \* endpoint tags
    NodeTag,     \* node tags somebody may switch off
    Batch,       \* what a provider may send: non-empty node lists
    GatewayPatch,\* patches of a registry entry: some of its fields
    Faults,      \* bound: how many saves and rebuilds fail
    MaxParts     \* bound: how many parts of the stores are in use

NoEntry == [exit |-> FALSE, port |-> 0, on |-> TRUE]
Axes == {"nodes", "exits", "client", "endpoints", "disabled"}
EndpointStates == UNION {[tags -> BOOLEAN] : tags \in SUBSET Endpoint}

\* None is no list, no state of a store and no name of this module.
ASSUME ExitsAssumption ==
    /\ Faults \in Nat /\ MaxParts \in Nat
    /\ None \notin Batch \cup Axes \cup {"set", "clear", "policy"}
    /\ \A state \in EndpointStates : None # state
    /\ \A tags \in SUBSET NodeTag : None # tags

VARIABLES
    subs,      \* subscription.Store.data: [id -> [nodes, applied]]
    gateways,  \* nodes.Store.data: [id -> [exit, port, on]], without "local"
    localMode, \* the mode of the registry's own entry
    endpoints, \* endpoints.Store.data: [tag -> enabled]
    disabled,  \* nodeoverride.Store.data
    exitFiles, \* what the four files hold
    plane,     \* what the Manager holds: one list for each axis
    inflight,  \* the requests in flight
    abandoned, \* a handler died holding the lock of the subscriptions
    torn,      \* auxiliary: the axes on which something was let slip
    faults     \* bound: failures so far

exitVars == <<subs, gateways, localMode, endpoints, disabled, exitFiles, plane,
              inflight, abandoned, torn, faults>>

Memory == [subs |-> subs, gateways |-> gateways, localMode |-> localMode,
           endpoints |-> endpoints, disabled |-> disabled]

-----------------------------------------------------------------------------
(***************************************************************************)
(* The lists that follow from the stores s                                 *)
(***************************************************************************)
\* AppliedNodes: the nodes of every applied subscription.
AppliedNodes(s) ==
    {<<id, s.subs[id].nodes>> :
        id \in {i \in DOMAIN s.subs : s.subs[i].applied /\ s.subs[i].nodes # None}}

\* ExitNodes: the gateways that are on, wanted as an exit and have a port.
ExitNodes(s) ==
    {<<id, s.gateways[id].port>> :
        id \in {g \in DOMAIN s.gateways :
                    s.gateways[g].on /\ s.gateways[g].exit /\ s.gateways[g].port > 0}}

Derived(s) ==
    [nodes |-> AppliedNodes(s), exits |-> ExitNodes(s),
     client |-> s.localMode = "client", endpoints |-> s.endpoints,
     disabled |-> s.disabled]

Idle == [pc |-> "idle", axis |-> None, op |-> None, id |-> None, list |-> None,
         undo |-> None, then |-> None]
Working(axis) == {r \in ExitRequest : axis \in {inflight[r].axis, inflight[r].then}}

\* A request that begins beside another one on its axis.
Beside(axis) == IF Working(axis) = {} THEN torn ELSE torn \cup {axis}

\* The bound MaxParts.
Fresh == [subs |-> <<>>, gateways |-> <<>>, localMode |-> "gateway",
          endpoints |-> <<>>, disabled |-> {}]
PartOf == [nodes |-> "subs", exits |-> "gateways", client |-> "localMode",
           endpoints |-> "endpoints", disabled |-> "disabled"]
Room(part) ==
    LET used == {f \in DOMAIN Fresh : Memory[f] # Fresh[f] \/ exitFiles[f] # Fresh[f]}
        busy == {PartOf[a] : a \in {b \in Axes : Working(b) # {}}}
    IN  Cardinality({part} \cup used \cup busy) <= MaxParts

Start(r, pc, axis, op, id) ==
    inflight' = [inflight EXCEPT ![r] =
                    [Idle EXCEPT !.pc = pc, !.axis = axis, !.op = op, !.id = id]]
Goto(r, pc) == inflight' = [inflight EXCEPT ![r].pc = pc]
Finish(r) == inflight' = [inflight EXCEPT ![r] = Idle]

\* A failure that leaves the axis of r out of step, within the bound.
Slip(r) ==
    /\ faults < Faults /\ faults' = faults + 1
    /\ torn' = torn \cup {inflight[r].axis}
Well == UNCHANGED <<torn, faults>>

\* The map f with the value of one key set.
Assign(f, key, value) == [k \in DOMAIN f \cup {key} |-> IF k = key THEN value ELSE f[k]]

\* The stores become s and one of them saves, or does not get to save: then
\* memory has the change and the file does not.
Registry == {"gateways", "localMode"}
Put(s) ==
    /\ subs' = s.subs /\ gateways' = s.gateways /\ localMode' = s.localMode
    /\ endpoints' = s.endpoints /\ disabled' = s.disabled
Saved(store, s) ==
    /\ Put(s)
    /\ exitFiles' = [f \in DOMAIN exitFiles |-> IF f \in store THEN s[f] ELSE exitFiles[f]]
Unsaved(s) == Put(s) /\ UNCHANGED exitFiles
Same == UNCHANGED <<subs, gateways, localMode, endpoints, disabled, exitFiles>>

-----------------------------------------------------------------------------
(***************************************************************************)
(* Subscriptions                                                           *)
(***************************************************************************)
With(id, sub) == [Memory EXCEPT !.subs = Assign(@, id, sub)]
WithApplied(id, value) == [Memory EXCEPT !.subs[id].applied = value]

\* Every call of the subscription store waits for its lock.
Free == ~abandoned

\* Add: inserts the subscription, unsaved, and fetches it.
AddSub(r) ==
    /\ inflight[r] = Idle /\ Free /\ Room("subs")
    /\ \E id \in Sub :
        /\ Unsaved(IF id \in DOMAIN subs THEN Memory
                   ELSE With(id, [nodes |-> None, applied |-> FALSE]))
        /\ Start(r, "fetch", None, "add", id)
    /\ UNCHANGED <<plane, abandoned, torn, faults>>

RefreshSub(r) ==
    /\ inflight[r] = Idle /\ Free
    /\ \E id \in DOMAIN subs : Start(r, "fetch", "nodes", "refresh", id)
    /\ torn' = Beside("nodes")
    /\ Same /\ UNCHANGED <<plane, abandoned, faults>>

\* An empty list never replaces a good one.
Received(id, batch) == IF batch = None THEN subs[id] ELSE [subs[id] EXCEPT !.nodes = batch]

\* The rest of Refresh, after a fetch without the lock.  A subscription that is
\* gone by then is a nil entry: the handler dies and leaves the lock taken.  The
\* handler of Add does not look whether what it refreshed is applied.
Fetched(r) ==
    /\ inflight[r].pc = "fetch" /\ Free
    /\ LET id == inflight[r].id IN
       IF id \notin DOMAIN subs
       THEN Finish(r) /\ abandoned' = TRUE /\ Same /\ Well
       ELSE \E batch \in Batch \cup {None} :
            LET missed == inflight[r].op = "add"
                            /\ (subs[id].applied \/ Working("nodes") # {})
            IN
            /\ IF inflight[r].op = "refresh" /\ subs[id].applied
               THEN Goto(r, "collect") ELSE Finish(r)
            /\ \/ /\ Saved({"subs"}, With(id, Received(id, batch)))
                  /\ torn' = IF missed THEN torn \cup {"nodes"} ELSE torn
                  /\ UNCHANGED faults
               \/ /\ Unsaved(With(id, Received(id, batch)))
                  /\ faults < Faults /\ faults' = faults + 1
                  /\ torn' = torn \cup {"nodes"}
            /\ UNCHANGED abandoned
    /\ UNCHANGED plane

\* handleApplySub and handleUnapplySub look first, and refuse a subscription
\* without nodes.
LookSub(r) ==
    /\ inflight[r] = Idle /\ Free
    /\ \E id \in DOMAIN subs :
        \/ subs[id].nodes # None
            /\ Start(r, IF subs[id].applied THEN "collect" ELSE "mark", "nodes", "apply", id)
        \/ subs[id].applied /\ Start(r, "mark", "nodes", "unapply", id)
    /\ torn' = Beside("nodes")
    /\ Same /\ UNCHANGED <<plane, abandoned, faults>>

\* SetApplied, ClearApplied.
MarkSub(r) ==
    /\ inflight[r].pc = "mark" /\ Free
    /\ LET id == inflight[r].id
           apply == inflight[r].op = "apply"
       IN \/ id \notin DOMAIN subs /\ Finish(r) /\ Same /\ Well
          \/ /\ id \in DOMAIN subs
             /\ Saved({"subs"}, WithApplied(id, apply))
             /\ inflight' = [inflight EXCEPT ![r].pc = "collect",
                                             ![r].undo = IF apply THEN "clear" ELSE "set"]
             /\ Well
          \/ id \in DOMAIN subs /\ Unsaved(WithApplied(id, apply)) /\ Finish(r) /\ Slip(r)
    /\ UNCHANGED <<plane, abandoned>>

\* Delete, and the nodes again when the subscription was applied.
DeleteSub(r) ==
    /\ inflight[r] = Idle /\ Free
    /\ \E id \in DOMAIN subs :
        LET rest == [Memory EXCEPT !.subs = [i \in DOMAIN subs \ {id} |-> subs[i]]] IN
        \/ /\ Saved({"subs"}, rest)
           /\ IF subs[id].applied THEN Start(r, "collect", "nodes", "delete", id)
              ELSE UNCHANGED inflight
           /\ torn' = Beside("nodes")
           /\ UNCHANGED faults
        \/ /\ Unsaved(rest)
           /\ faults < Faults /\ faults' = faults + 1
           /\ torn' = torn \cup {"nodes"}
           /\ UNCHANGED inflight
    /\ UNCHANGED <<plane, abandoned>>

-----------------------------------------------------------------------------
(***************************************************************************)
(* The other gateways                                                      *)
(***************************************************************************)
\* What Patch refuses, after it has changed the entry in memory.
Usable(entry) == entry.exit => entry.port > 0

Patched(entry, patch) ==
    [f \in DOMAIN entry |-> IF f \in DOMAIN patch THEN patch[f] ELSE entry[f]]

\* handlePatchNode and handleAddNode with an exit in the body: a rejected patch
\* of a new entry deletes the entry.
PatchGateway(r) ==
    /\ inflight[r] = Idle /\ Room("gateways")
    /\ \E id \in Gateway, patch \in GatewayPatch, add \in BOOLEAN :
        LET before == IF add THEN NoEntry ELSE gateways[id]
            entry == Patched(before, patch)
            changed == [Memory EXCEPT !.gateways = Assign(@, id, entry)]
            removed == [Memory EXCEPT !.gateways =
                            [g \in DOMAIN gateways \ {id} |-> gateways[g]]]
        IN  /\ add \/ id \in DOMAIN gateways
            /\ \/ /\ Usable(entry) /\ Saved(Registry, changed)
                  /\ Start(r, "collect", "exits", "patch", id)
                  /\ torn' = Beside("exits") /\ UNCHANGED faults
               \/ /\ ~Usable(entry) /\ add /\ Saved(Registry, removed)
                  /\ torn' = IF id \in DOMAIN gateways THEN torn \cup {"exits"} ELSE torn
                  /\ UNCHANGED <<inflight, faults>>
               \/ /\ ~Usable(entry) /\ ~add /\ Unsaved(changed)
                  /\ torn' = torn \cup {"exits"} /\ UNCHANGED <<inflight, faults>>
               \/ /\ Usable(entry) /\ Unsaved(changed)
                  /\ faults < Faults /\ faults' = faults + 1
                  /\ torn' = torn \cup {"exits"} /\ UNCHANGED inflight
    /\ UNCHANGED <<plane, abandoned>>

\* handleDeleteNode: nothing is sent to the data plane.
DeleteGateway ==
    /\ \E id \in DOMAIN gateways :
        Saved(Registry, [Memory EXCEPT !.gateways = [g \in DOMAIN gateways \ {id} |-> gateways[g]]])
    /\ torn' = torn \cup {"exits"}
    /\ UNCHANGED <<plane, inflight, abandoned, faults>>

\* handlePatchNode on the own entry: the exits first, the mode after them.
PatchLocal(r) ==
    /\ inflight[r] = Idle /\ Room("localMode")
    /\ \E mode \in {"gateway", "client"} : Saved(Registry, [Memory EXCEPT !.localMode = mode])
    /\ inflight' = [inflight EXCEPT ![r] =
            [Idle EXCEPT !.pc = "collect", !.axis = "exits", !.then = "client"]]
    /\ torn' = Beside("exits") \cup (IF Working("client") = {} THEN {} ELSE {"client"})
    /\ UNCHANGED <<plane, abandoned, faults>>

-----------------------------------------------------------------------------
(***************************************************************************)
(* Endpoints and switched-off nodes                                        *)
(***************************************************************************)
EndpointChanges ==
    {Assign(endpoints, tag, TRUE) : tag \in Endpoint}
    \cup {[endpoints EXCEPT ![tag] = on] : tag \in DOMAIN endpoints, on \in BOOLEAN}
    \cup {[t \in DOMAIN endpoints \ {tag} |-> endpoints[t]] : tag \in DOMAIN endpoints}

\* The handlers read what is there, change it and apply it.
ReadPrevious(r) ==
    /\ inflight[r] = Idle
    /\ \E axis \in {"endpoints", "disabled"} :
        /\ Room(axis)
        /\ inflight' = [inflight EXCEPT ![r] =
                [Idle EXCEPT !.pc = "change", !.axis = axis, !.op = "restore",
                             !.undo = IF axis = "endpoints" THEN endpoints ELSE disabled]]
        /\ torn' = Beside(axis)
    /\ Same /\ UNCHANGED <<plane, abandoned, faults>>

\* Endpoints are read again for the gateway; the overrides pass on what the
\* store returned.
ChangeEndpoints(r) ==
    /\ inflight[r].pc = "change" /\ inflight[r].axis = "endpoints"
    /\ \E new \in EndpointChanges :
        \/ Saved({"endpoints"}, [Memory EXCEPT !.endpoints = new]) /\ Goto(r, "collect") /\ Well
        \/ Unsaved([Memory EXCEPT !.endpoints = new]) /\ Finish(r) /\ Slip(r)
    /\ UNCHANGED <<plane, abandoned>>

ChangeDisabled(r) ==
    /\ inflight[r].pc = "change" /\ inflight[r].axis = "disabled"
    /\ \E new \in SUBSET NodeTag :
        \/ /\ Saved({"disabled"}, [Memory EXCEPT !.disabled = new]) /\ Well
           /\ inflight' = [inflight EXCEPT ![r].pc = "push", ![r].list = new]
        \/ Unsaved([Memory EXCEPT !.disabled = new]) /\ Finish(r) /\ Slip(r)
    /\ UNCHANGED <<plane, abandoned>>

-----------------------------------------------------------------------------
(***************************************************************************)
(* Into the data plane, and back                                           *)
(***************************************************************************)
\* The argument of Apply, SetGatewayExits, SetClientMode or SetEndpoints.
Collect(r) ==
    /\ inflight[r].pc = "collect"
    /\ inflight[r].axis = "nodes" => Free
    /\ inflight' = [inflight EXCEPT ![r].pc = "push",
                                    ![r].list = Derived(Memory)[inflight[r].axis]]
    /\ Same /\ Well /\ UNCHANGED <<plane, abandoned>>

\* Whether a list that r has served puts its axis in step again: nobody else is
\* on it, and memory and file have the list too.
InStep(r, axis, list) ==
    /\ Working(axis) = {r}
    /\ Derived(Memory)[axis] = list /\ Derived(exitFiles)[axis] = list

Push(r) ==
    /\ inflight[r].pc = "push"
    /\ LET axis == inflight[r].axis
           list == inflight[r].list
       IN \/ /\ plane' = [plane EXCEPT ![axis] = list]
             /\ torn' = IF InStep(r, axis, list) THEN torn \ {axis} ELSE torn
             /\ IF inflight[r].then = None THEN Finish(r)
                ELSE inflight' = [inflight EXCEPT ![r] =
                        [Idle EXCEPT !.pc = "collect", !.axis = inflight[r].then]]
             /\ UNCHANGED faults
          \/ /\ faults < Faults /\ faults' = faults + 1
             /\ IF inflight[r].undo # None THEN Goto(r, "undo") /\ UNCHANGED torn
                ELSE /\ Finish(r)
                     /\ torn' = torn \cup {axis} \cup ({inflight[r].then} \ {None})
             /\ UNCHANGED plane
    /\ Same /\ UNCHANGED abandoned

\* Bug: the rollback forgets the flag.
BugUndone(r) == Memory

\* The store as the rollback of r leaves it.
Undone(r) ==
    LET id == inflight[r].id IN
    CASE inflight[r].axis = "endpoints" -> [Memory EXCEPT !.endpoints = inflight[r].undo]
      [] inflight[r].axis = "disabled" -> [Memory EXCEPT !.disabled = inflight[r].undo]
      [] inflight[r].axis = "nodes" /\ id \notin DOMAIN subs -> Memory
      [] OTHER -> WithApplied(id, inflight[r].undo = "set")

Undo(r) ==
    /\ inflight[r].pc = "undo"
    /\ inflight[r].axis = "nodes" => Free
    /\ \/ Saved({IF inflight[r].axis = "nodes" THEN "subs" ELSE inflight[r].axis}, Undone(r)) /\ Well
       \/ Unsaved(Undone(r)) /\ Slip(r)
    /\ Finish(r)
    /\ UNCHANGED <<plane, abandoned>>

\* The daemon starts, also in the middle of requests: runServe reads the files
\* and hands the Manager what they hold.
Restart ==
    /\ Put(exitFiles)
    /\ plane' = Derived(exitFiles)
    /\ inflight' = [r \in ExitRequest |-> Idle]
    /\ abandoned' = FALSE /\ torn' = {}
    /\ UNCHANGED <<exitFiles, faults>>

ExitInit ==
    /\ subs = Fresh.subs /\ gateways = Fresh.gateways /\ localMode = Fresh.localMode
    /\ endpoints = Fresh.endpoints /\ disabled = Fresh.disabled
    /\ exitFiles = Memory
    /\ plane = Derived(Memory)
    /\ inflight = [r \in ExitRequest |-> Idle]
    /\ abandoned = FALSE /\ torn = {} /\ faults = 0

ServeStep(r) == Collect(r) \/ Push(r) \/ Undo(r)
SubStep(r) ==
    \/ AddSub(r) \/ RefreshSub(r) \/ Fetched(r) \/ LookSub(r) \/ MarkSub(r) \/ DeleteSub(r)
    \/ ServeStep(r)
OtherStep(r) ==
    \/ PatchGateway(r) \/ PatchLocal(r) \/ DeleteGateway
    \/ ReadPrevious(r) \/ ChangeEndpoints(r) \/ ChangeDisabled(r)
    \/ ServeStep(r)
-----------------------------------------------------------------------------
\* Whenever no request works on an axis, the data plane serves what the store
\* says and what the file would boot into, also after a rebuild that was refused
\* in the middle of an apply; the exceptions are in torn, and are those where
\* the code lets it slip: overlapping requests, a save that fails, a refused
\* rebuild after a delete, a refresh or a registry change, a subscription that
\* is added again, a deleted gateway, a rejected patch (handleApplySub: "Roll
\* the flag back if Apply fails so store matches the plane").
ListsAreServed ==
    \A axis \in Axes \ torn :
        Working(axis) = {} =>
            /\ plane[axis] = Derived(Memory)[axis]
            /\ plane[axis] = Derived(exitFiles)[axis]
=============================================================================
