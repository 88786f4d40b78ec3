---------------------------- MODULE PolicyApply ----------------------------
(***************************************************************************)
(* The console's policy handlers on top of the Manager: each list handler  *)
(* remembers the stored list, changes and saves it, hands the new list to   *)
(* the Manager (Rebuild), and on failure writes the remembered list back    *)
(* (internal/api/server.go, list_mutate.go; internal/liststore).  Auto-bans *)
(* run the same way from connection goroutines, but never take an entry     *)
(* back (cmd/serve.go SetOnBan, internal/quarantine); a failed release puts *)
(* the remembered entries back one at a time (internal/api/detectconfig.go).*)
(*                                                                         *)
(* A stored list is a set of entries, in memory and in the store's file; a  *)
(* store call changes the memory first and then writes the file, which may  *)
(* fail.  No lock spans a handler: each store call and each Manager step is *)
(* one atomic action.  Crash leaves only the files, and the next boot loads *)
(* the policy from them.                                                    *)
(***************************************************************************)
EXTENDS Rebuild

CONSTANTS
    Entry,   \* what a list can contain
    Editors, \* the callers that are handlers of an operator's list
    Bans,    \* the callers that ban, on the quarantine list
    Releases \* the callers that are handlers of quarantine releases

ASSUME PolicyApplyAssumption ==
    /\ Value = SUBSET Entry
    /\ Editors \subseteq Req /\ Bans \subseteq Req /\ Releases \subseteq Req
    /\ Editors \cap (Bans \cup Releases) = {}
    /\ \A r \in Req : \E a \in Axis : AxesOf[r] = {a}

VARIABLES
    store,   \* the list of each axis, in its store's memory
    file,    \* and in its store's file
    unsaved, \* history: a store's file could not be written
    hpc,     \* where each handler is
    saw,     \* the list the handler remembered before changing it
    rules    \* the list its store call returned

handlerVars == <<hpc, saw, rules>>
storeVars == <<store, file, unsaved>>
allVars == <<vars, storeVars, handlerVars>>

AxisOf(r) == CHOOSE a \in Axis : AxesOf[r] = {a}

PInit ==
    /\ Init
    /\ store = Initial
    /\ file = Initial
    /\ unsaved = FALSE
    /\ hpc = [r \in Req |-> "idle"]
    /\ saw = [r \in Req |-> {}]
    /\ rules = [r \in Req |-> {}]
-----------------------------------------------------------------------------
\* prev := store.Get().  Nothing is handled before the gateway has started.
ReadPrev(r) ==
    /\ lastGood # None
    /\ r \in Editors \cup Releases
    /\ hpc[r] = "idle"
    /\ saw' = [saw EXCEPT ![r] = store[AxisOf(r)]]
    /\ hpc' = [hpc EXCEPT ![r] = "read"]
    /\ UNCHANGED <<vars, storeVars, rules>>

\* liststore.Mutate: change the list in memory, then write the file.
Mutate(a, list, written) ==
    /\ store' = [store EXCEPT ![a] = list]
    /\ file' = IF written THEN [file EXCEPT ![a] = list] ELSE file
    /\ unsaved' = (unsaved \/ ~written)

\* An API handler's store call.  When the file could not be written it
\* answers with that error and does nothing more.
Save(r, list) ==
    /\ hpc[r] = "read"
    /\ \/ /\ Mutate(AxisOf(r), list, TRUE)
          /\ rules' = [rules EXCEPT ![r] = list]
          /\ hpc' = [hpc EXCEPT ![r] = "saved"]
          /\ UNCHANGED saw
       \/ /\ Mutate(AxisOf(r), list, FALSE)
          /\ saw' = [saw EXCEPT ![r] = {}]
          /\ hpc' = [hpc EXCEPT ![r] = "idle"]
          /\ UNCHANGED rules
    /\ UNCHANGED vars

Add(r, e) == r \in Editors /\ Save(r, store[AxisOf(r)] \cup {e})

\* Removing an entry of an operator's list, and releasing a quarantined one.
Remove(r, e) == Save(r, store[AxisOf(r)] \ {e})

ReleaseAll(r) == r \in Releases /\ Save(r, {})

\* The entry is refused by the list, and yet enforced.
BugBanUnlisted(r, e) ==
    /\ lastGood # None
    /\ r \in Bans
    /\ hpc[r] = "idle"
    /\ rules' = [rules EXCEPT ![r] = store[AxisOf(r)] \cup {e}]
    /\ hpc' = [hpc EXCEPT ![r] = "banned"]
    /\ UNCHANGED <<vars, storeVars, saw>>

\* quarStore.Add, called with the destination of a connection just killed; a
\* file that could not be written is logged.
Ban(r, e) ==
    /\ lastGood # None
    /\ r \in Bans
    /\ hpc[r] = "idle"
    /\ \E written \in BOOLEAN : Mutate(AxisOf(r), store[AxisOf(r)] \cup {e}, written)
    /\ rules' = [rules EXCEPT ![r] = store[AxisOf(r)] \cup {e}]
    /\ hpc' = [hpc EXCEPT ![r] = "banned"]
    /\ UNCHANGED <<vars, saw>>

\* apply(rules): enter the Manager with the list the store call returned.
Apply(r) ==
    /\ hpc[r] \in {"saved", "banned"}
    /\ Set(r, [a \in AxesOf[r] |-> rules[r]])
    /\ hpc' = [hpc EXCEPT ![r] = IF @ = "saved" THEN "applying" ELSE "banning"]
    /\ UNCHANGED <<storeVars, saw, rules>>

\* The Manager at work; when it returns, success ends the handler and so
\* does a ban's failure (it is only logged).
Rebuilding(r) ==
    /\ Begin(r) \/ Inside(r)
    /\ IF pc'[r] # "idle" THEN UNCHANGED handlerVars
       ELSE LET done == told'[r] = "applied" \/ hpc[r] = "banning" IN
            /\ hpc' = [hpc EXCEPT ![r] = IF done THEN "idle" ELSE "rollback"]
            /\ saw' = [saw EXCEPT ![r] = IF done THEN {} ELSE @]
            /\ rules' = [rules EXCEPT ![r] = {}]
    /\ UNCHANGED storeVars

\* The rejected list stays in the store, or in its file only.
BugRollbackNothing(r) ==
    /\ hpc[r] = "rollback"
    /\ hpc' = [hpc EXCEPT ![r] = "idle"]
    /\ saw' = [saw EXCEPT ![r] = {}]
    /\ UNCHANGED <<vars, storeVars, rules>>

BugRollbackNotSaved(r) ==
    /\ hpc[r] = "rollback"
    /\ store' = [store EXCEPT ![AxisOf(r)] = saw[r]]
    /\ hpc' = [hpc EXCEPT ![r] = "idle"]
    /\ saw' = [saw EXCEPT ![r] = {}]
    /\ UNCHANGED <<vars, file, unsaved, rules>>

\* applyOrRollback: put the remembered list back, ignoring a failed write.
Rollback(r) ==
    /\ r \in Editors
    /\ hpc[r] = "rollback"
    /\ \E written \in BOOLEAN : Mutate(AxisOf(r), saw[r], written)
    /\ hpc' = [hpc EXCEPT ![r] = "idle"]
    /\ saw' = [saw EXCEPT ![r] = {}]
    /\ UNCHANGED <<vars, rules>>

\* A failed release: clear the list, then add the remembered entries again,
\* each with a store call of its own.
Unrelease(r) ==
    /\ r \in Releases
    /\ hpc[r] = "rollback"
    /\ \E written \in BOOLEAN : Mutate(AxisOf(r), {}, written)
    /\ hpc' = [hpc EXCEPT ![r] = "readd"]
    /\ UNCHANGED <<vars, saw, rules>>

Readd(r) ==
    /\ hpc[r] = "readd"
    /\ \/ \E e \in saw[r], written \in BOOLEAN :
            /\ Mutate(AxisOf(r), store[AxisOf(r)] \cup {e}, written)
            /\ saw' = [saw EXCEPT ![r] = @ \ {e}]
            /\ UNCHANGED hpc
       \/ /\ saw[r] = {}
          /\ hpc' = [hpc EXCEPT ![r] = "idle"]
          /\ UNCHANGED <<storeVars, saw>>
    /\ UNCHANGED <<vars, rules>>

\* The process dies and is started again: the files are all that is left.
Crash ==
    /\ lastGood # None
    /\ mem' = file
    /\ eligible' = file
    /\ store' = file
    /\ holder' = None
    /\ instance' = None
    /\ lastGood' = None
    /\ pc' = [r \in Req |-> "idle"]
    /\ again' = [r \in Req |-> FALSE]
    /\ prev' = [r \in Req |-> Initial]
    /\ cand' = [r \in Req |-> Rest]
    /\ told' = [r \in Req |-> "nothing"]
    /\ hpc' = [r \in Req |-> "idle"]
    /\ saw' = [r \in Req |-> {}]
    /\ rules' = [r \in Req |-> {}]
    /\ UNCHANGED <<envVars, file, unsaved>>

Handler ==
    \E r \in Req :
        \/ ReadPrev(r)
        \/ \E e \in Entry : Add(r, e) \/ Remove(r, e) \/ Ban(r, e)
        \/ ReleaseAll(r) \/ Unrelease(r) \/ Readd(r)
        \/ Apply(r) \/ Rebuilding(r) \/ Rollback(r)

PNext ==
    \/ Handler
    \/ Crash
    \/ (Boot \/ Environment) /\ UNCHANGED <<storeVars, handlerVars>>

PSpec == PInit /\ [][PNext]_allVars
-----------------------------------------------------------------------------
NoneInFlight == \A r \in Req : hpc[r] = "idle"

\* As long as the disk takes writes, and once no handler is in flight, the
\* lists that only one API handler works on are what the Manager holds, after
\* any mixture of successes, failures, rollbacks, bans and crashes
\* (applyOrRollback, setAndRebuild's revert).
OwnList(r) == r \in Editors /\ Own(r) # {}
StoreMatchesManager ==
    (NoneInFlight /\ ~unsaved) =>
        \A r \in Req : OwnList(r) => store[AxisOf(r)] = mem[AxisOf(r)]

\* While the gateway serves and no handler is in flight, a restart would come
\* up: an API handler does not leave a list behind that does not start, not
\* even after crashes (applyOrRollback's un-poisoning).
ServingIsBootable ==
    (NoneInFlight /\ ~unsaved /\ lastGood # None) =>
        \A r \in Req : OwnList(r) => file[AxisOf(r)] \in Starts

\* What the box rejects can be seen in the list and released, or is being
\* released by a handler that puts it back on failure, whatever failed, was
\* rolled back, restored or restarted: no entry is "invisible and impossible
\* to release" (quarantine.Store.Add, SetOnBan, handleReleaseQuarantine).
RejectedIsListed ==
    (instance # None /\ ~unsaved) => \A r \in Bans :
        Own(r) # {} => instance.pol[AxisOf(r)] \subseteq store[AxisOf(r)] \cup saw[r]

\* After a ban and a release that were both applied, the Manager rejects what
\* the list holds: the release rebuilds "so the reject rules match the list"
\* (cmd/serve.go quarantineApplier).
RejectRulesMatchList ==
    (NoneInFlight /\ ~unsaved /\ \A r \in Req : told[r] \in {"nothing", "applied"})
        => store = mem
=============================================================================
