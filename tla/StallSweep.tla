----------------------------- MODULE StallSweep -----------------------------
(***************************************************************************)
(* internal/gateway/streamstall.go: one goroutine watches every proxied     *)
(* connection for "a big upload, then silence", and kills it and demotes    *)
(* its node.  The goroutine is started by the first connection watched and  *)
(* ends with the last one.                                                  *)
(*                                                                         *)
(* Connections end by themselves, and bytes arrive, at any moment of a      *)
(* sweep, which holds the sweeper's mutex only to copy the watch set and to *)
(* delete from it: one action is one such critical section, one atomic      *)
(* access of a connection, or one connection of a loop.                     *)
(***************************************************************************)
EXTENDS FiniteSets, Naturals

CONSTANTS
    Conn,    \* the connections that carry traffic through a proxy node
    Sweeper  \* bound: goroutines that can be alive at once, for "at most one"

ASSUME StallSweepAssumption == Sweeper # {}

VARIABLES
    wrapped,  \* connections handed to wrapStreamStall so far
    finished, \* stallConn.finished
    ripe,     \* old enough and with a big enough upload: both only grow
    silent,   \* no download for stallFor
    conns,    \* stallSweeper.conns
    running,  \* stallSweeper.running
    pc,       \* where each goroutine is
    live,     \* its copy of the watch set, as far as not judged yet
    kill,     \* the connections it judged stalled, not closed yet
    gone,     \* the connections it will delete from the watch set
    demoted   \* history: the demotions a connection caused

connVars == <<wrapped, finished, ripe, silent>>
vars == <<connVars, conns, running, pc, live, kill, gone, demoted>>

TypeOK ==
    /\ wrapped \subseteq Conn /\ finished \subseteq Conn
    /\ ripe \subseteq Conn /\ silent \subseteq Conn
    /\ conns \subseteq Conn
    /\ running \in BOOLEAN
    /\ pc \in [Sweeper -> {"off", "tick", "judge", "kill", "recheck"}]
    /\ live \in [Sweeper -> SUBSET Conn]
    /\ kill \in [Sweeper -> SUBSET Conn]
    /\ gone \in [Sweeper -> SUBSET Conn]
    /\ demoted \in [Conn -> Nat]

(* An operator called Bug... is a wrong version of the definition after it,  *)
(* written to see that the properties notice; no specification uses it.     *)

Init ==
    /\ wrapped = {} /\ finished = {} /\ ripe = {} /\ silent = {}
    /\ conns = {}
    /\ running = FALSE
    /\ pc = [s \in Sweeper |-> "off"]
    /\ live = [s \in Sweeper |-> {}]
    /\ kill = [s \in Sweeper |-> {}]
    /\ gone = [s \in Sweeper |-> {}]
    /\ demoted = [c \in Conn |-> 0]

Goto(s, l) == pc' = [pc EXCEPT ![s] = l]
-----------------------------------------------------------------------------
(* The connections.                                                        *)

\* A goroutine for every connection, as it used to be.
BugWatch(c) ==
    /\ conns' = conns \cup {c}
    /\ running' = TRUE
    /\ \E s \in Sweeper : pc[s] = "off" /\ Goto(s, "tick")

\* add: watch the connection, and start the goroutine if there is none.
Watch(c) ==
    /\ conns' = conns \cup {c}
    /\ \/ running /\ UNCHANGED <<running, pc>>
       \/ /\ ~running
          /\ running' = TRUE
          /\ \E s \in Sweeper : pc[s] = "off" /\ Goto(s, "tick")

\* wrapStreamStall of a connection that leaves through a proxy node.
Wrap(c) ==
    /\ c \notin wrapped
    /\ wrapped' = wrapped \cup {c}
    /\ Watch(c)
    /\ UNCHANGED <<finished, ripe, silent, live, kill, gone, demoted>>

\* The connection has uploaded minUpload and is minAge old.
Ripen(c) ==
    /\ c \in wrapped \ (finished \cup ripe)
    /\ ripe' = ripe \cup {c}
    /\ UNCHANGED <<wrapped, finished, silent, conns, running, pc, live, kill, gone, demoted>>

\* stallFor passes without a download.
FallSilent(c) ==
    /\ c \in wrapped \ (finished \cup silent)
    /\ silent' = silent \cup {c}
    /\ UNCHANGED <<wrapped, finished, ripe, conns, running, pc, live, kill, gone, demoted>>

\* Read returns bytes: the silence is over.
Read(c) ==
    /\ c \in silent \ finished
    /\ silent' = silent \ {c}
    /\ UNCHANGED <<wrapped, finished, ripe, conns, running, pc, live, kill, gone, demoted>>

\* Read fails, or the owner closes: nothing to wait for any more.
End(c) ==
    /\ c \in wrapped \ finished
    /\ finished' = finished \cup {c}
    /\ UNCHANGED <<wrapped, ripe, silent, conns, running, pc, live, kill, gone, demoted>>
-----------------------------------------------------------------------------
(* The sweeper.                                                            *)

\* sweep copies the watch set.
Sweep(s) ==
    /\ pc[s] = "tick"
    /\ live' = [live EXCEPT ![s] = conns]
    /\ Goto(s, "judge")
    /\ UNCHANGED <<connVars, conns, running, kill, gone, demoted>>

\* A failed connection that nobody told apart from a stalled one.
BugJudgeFinished(s) ==
    /\ pc[s] = "judge"
    /\ \/ \E c \in live[s] :
            /\ live' = [live EXCEPT ![s] = @ \ {c}]
            /\ kill' = [kill EXCEPT ![s] = IF c \in ripe \cap silent THEN @ \cup {c} ELSE @]
            /\ gone' = [gone EXCEPT ![s] = IF c \in ripe \cap silent THEN @ \cup {c} ELSE @]
            /\ UNCHANGED pc
       \/ /\ live[s] = {}
          /\ Goto(s, "kill")
          /\ UNCHANGED <<live, kill, gone>>
    /\ UNCHANGED <<connVars, conns, running, demoted>>

\* sweep's first loop, in any order: drop what has ended, kill what stalled.
Judge(s) ==
    /\ pc[s] = "judge"
    /\ \/ \E c \in live[s] :
            /\ live' = [live EXCEPT ![s] = @ \ {c}]
            /\ \/ /\ c \in finished
                  /\ gone' = [gone EXCEPT ![s] = @ \cup {c}]
                  /\ UNCHANGED kill
               \/ /\ c \in (ripe \cap silent) \ finished
                  /\ gone' = [gone EXCEPT ![s] = @ \cup {c}]
                  /\ kill' = [kill EXCEPT ![s] = @ \cup {c}]
               \/ /\ c \notin finished \cup (ripe \cap silent)
                  /\ UNCHANGED <<gone, kill>>
            /\ UNCHANGED pc
       \/ /\ live[s] = {}
          /\ Goto(s, "kill")
          /\ UNCHANGED <<live, kill, gone>>
    /\ UNCHANGED <<connVars, conns, running, demoted>>

\* The verdict of the first loop, not looked at again.
BugKillWithoutSwap(s) ==
    /\ pc[s] = "kill"
    /\ \E c \in kill[s] :
         /\ kill' = [kill EXCEPT ![s] = @ \ {c}]
         /\ finished' = finished \cup {c}
         /\ demoted' = [demoted EXCEPT ![c] = @ + 1]
    /\ UNCHANGED <<wrapped, ripe, silent, conns, running, pc, live, gone>>

\* sweep's second loop: whoever sets finished first decides what the end was.
Kill(s) ==
    /\ pc[s] = "kill"
    /\ \E c \in kill[s] :
         /\ kill' = [kill EXCEPT ![s] = @ \ {c}]
         /\ \/ c \in finished /\ UNCHANGED <<finished, demoted>>
            \/ /\ c \notin finished
               /\ finished' = finished \cup {c}
               /\ demoted' = [demoted EXCEPT ![c] = @ + 1]
    /\ UNCHANGED <<wrapped, ripe, silent, conns, running, pc, live, gone>>

\* sweep deletes what it dropped and killed, and says how much is left.
Forget(s) ==
    /\ pc[s] = "kill" /\ kill[s] = {}
    /\ conns' = conns \ gone[s]
    /\ gone' = [gone EXCEPT ![s] = {}]
    /\ Goto(s, IF conns' = {} THEN "recheck" ELSE "tick")
    /\ UNCHANGED <<connVars, running, live, kill, demoted>>

\* The end of the goroutine without the second look.
BugStop(s) ==
    /\ pc[s] = "recheck"
    /\ running' = FALSE
    /\ Goto(s, "off")
    /\ UNCHANGED <<connVars, conns, live, kill, gone, demoted>>

\* run, after an empty sweep: look again under the lock before ending.
Stop(s) ==
    /\ pc[s] = "recheck"
    /\ \/ /\ conns = {}
          /\ running' = FALSE
          /\ Goto(s, "off")
       \/ /\ conns # {}
          /\ Goto(s, "tick")
          /\ UNCHANGED running
    /\ UNCHANGED <<connVars, conns, live, kill, gone, demoted>>

Run(s) == Sweep(s) \/ Judge(s) \/ Kill(s) \/ Forget(s) \/ Stop(s)

Next ==
    \/ \E c \in Conn : Wrap(c) \/ Ripen(c) \/ FallSilent(c) \/ Read(c) \/ End(c)
    \/ \E s \in Sweeper : Run(s)

Spec == Init /\ [][Next]_vars

\* The ticker keeps ticking and a goroutine that can run is run.
FairSpec == Spec /\ \A s \in Sweeper : WF_vars(Run(s))
-----------------------------------------------------------------------------
Awake == {s \in Sweeper : pc[s] # "off"}

\* Every watched connection is watched by exactly one goroutine: a connection
\* added while the goroutine is on its way out is neither left without one nor
\* given a second one (add, run's re-check).
WatchedByOne ==
    /\ running <=> Awake # {}
    /\ \A s, t \in Awake : s = t
    /\ conns # {} => running

\* A connection that ended, in whatever way, does not demote its node, and no
\* connection demotes it twice (the CompareAndSwap on finished).
DemotedOnce ==
    /\ \A c \in Conn : demoted[c] <= 1
    /\ [][\A c \in Conn : demoted'[c] # demoted[c] => c \notin finished]_vars

\* A connection that ended is not held on to: it leaves the watch set although
\* nobody may ever read from or close it again.
EndedIsForgotten == \A c \in Conn : (c \in conns \cap finished) ~> (c \notin conns)

\* A stalled connection is killed, unless it speaks or ends first.
StalledIsKilled ==
    \A c \in Conn : (c \in conns \cap ripe \cap silent) ~> (c \in finished \/ c \notin silent)
=============================================================================
