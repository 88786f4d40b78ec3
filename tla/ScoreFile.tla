----------------------------- MODULE ScoreFile -----------------------------
(***************************************************************************)
(* proxyscores.json: how the observations of ProxyScore outlive the daemon   *)
(* (internal/proxyscore/store.go load, Reset, Flush; gateway/scorer.go; the  *)
(* ticker and the deferred call of cmd/serve.go).                           *)
(*                                                                         *)
(* A flush copies the records and clears the dirty flag under the lock, and *)
(* writes a file of a fixed name and renames it outside.  Nothing keeps the *)
(* ticker, a reset and the end of the process from flushing together: the   *)
(* later one truncates what the earlier one is writing, and who is writing  *)
(* when the file is renamed goes on writing into the renamed one.           *)
(*                                                                         *)
(* A record is the time it was updated; an observation is a tick.  Files    *)
(* are sets of records, since an old one can name a node in two spellings.  *)
(***************************************************************************)
EXTENDS FiniteSetsExt, Functions, Integers

CONSTANTS
    Node,
    StaleAfter, \* Config.Stale
    MaxNow,     \* bound: ticks
    Torn,       \* a file that does not parse
    None

\* Assumed of the constants where they get their values.
ScoreFileAssumption ==
    /\ StaleAfter \in Nat /\ MaxNow \in Nat \ {0}
    /\ None \notin {"ticker", "reset", "exit"}
    /\ \A doc \in SUBSET [node : Node, at : 0..MaxNow] : doc # Torn

Flusher == {"ticker", "reset", "exit"}

VARIABLES
    up,      \* the daemon runs
    now,
    stats,   \* Store.stats: the time each known node was updated
    dirty,   \* Store.dirty
    disk,    \* proxyscores.json
    tmp,     \* proxyscores.json.tmp
    job,     \* each flush: its step, its copy, and the file it writes to
    alone,   \* history: the flush nobody has joined
    excused  \* history: why the file may not be what the flag says it is

storeVars == <<now, stats, dirty>>
vars == <<up, storeVars, disk, tmp, job, alone, excused>>

NoJob == [step |-> "off", doc |-> {}, on |-> "none"]
Busy == {f \in Flusher : job[f].step \in {"create", "write", "rename"}}
-----------------------------------------------------------------------------
Current(at) == now - at <= StaleAfter

\* What is not stale of the records.
Live == Restrict(stats, {n \in DOMAIN stats : Current(stats[n])})

Records(live) == {[node |-> n, at |-> live[n]] : n \in DOMAIN live}

\* load: a file that cannot be read is no file, stale records are dropped, and
\* of two spellings of one node the one that was updated later stays.
Load(doc) ==
    LET kept == IF doc = Torn THEN {} ELSE {r \in doc : Current(r.at)}
    IN  [n \in {r.node : r \in kept} |-> Max({r.at : r \in {k \in kept : k.node = n}})]
-----------------------------------------------------------------------------
Tick == now < MaxNow /\ now' = now + 1

\* Observe, RecordTransfer, NoteProbe or RecordStreamStall.
Observe(n) ==
    /\ up /\ Tick
    /\ stats' = [m \in DOMAIN stats \cup {n} |-> IF m = n THEN now' ELSE stats[m]]
    /\ dirty' = TRUE
    /\ UNCHANGED <<up, disk, tmp, job, alone, excused>>

\* ResetScores; its flush follows.
Reset ==
    /\ up /\ job["reset"].step = "off"
    /\ stats' = <<>> /\ dirty' = TRUE
    /\ job' = [job EXCEPT !["reset"].step = "begin"]
    /\ UNCHANGED <<up, now, disk, tmp, alone, excused>>

\* Flush's critical section, with something to write.
Flush(f) ==
    /\ up /\ dirty
    /\ job[f].step = IF f = "reset" THEN "begin" ELSE "off"
    /\ stats' = Live
    /\ dirty' = FALSE
    /\ job' = [job EXCEPT ![f] = [step |-> "create", doc |-> Records(Live), on |-> "none"]]
    /\ alone' = IF Busy = {} THEN f ELSE None
    /\ excused' = IF Busy = {} THEN excused ELSE excused \cup {"overlap"}
    /\ UNCHANGED <<up, now, disk, tmp>>

\* Flush with nothing to write; at the end of the process that ends it.
Skip(f) ==
    /\ up /\ ~dirty
    /\ \/ f = "reset" /\ job[f].step = "begin" /\ UNCHANGED up
       \/ f = "exit" /\ job[f].step = "off" /\ up' = FALSE
    /\ job' = IF up' THEN [job EXCEPT ![f] = NoJob] ELSE [g \in Flusher |-> NoJob]
    /\ UNCHANGED <<storeVars, disk, tmp, alone, excused>>

\* The end of a flush: of the process too, if that was its last.
Finish(f, jobs) ==
    /\ up' = (f # "exit")
    /\ job' = IF up' THEN [jobs EXCEPT ![f] = NoJob] ELSE [g \in Flusher |-> NoJob]
    /\ UNCHANGED storeVars

\* The disk may refuse at every step, and the flag stays cleared.
Fail(f) ==
    /\ job[f].step \in {"create", "write", "rename"}
    /\ Finish(f, job)
    /\ excused' = excused \cup {"failed"}
    /\ UNCHANGED <<disk, tmp, alone>>

\* WriteFile opens and truncates.
Create(f) ==
    /\ job[f].step = "create"
    /\ tmp' = Torn
    /\ job' = [job EXCEPT ![f].step = "write", ![f].on = "tmp"]
    /\ UNCHANGED <<up, storeVars, disk, alone, excused>>

\* WriteFile writes; two that write into one file may leave anything in it.
Write(f) ==
    /\ job[f].step = "write"
    /\ \E result \in {job[f].doc} \cup IF alone = f THEN {} ELSE {Torn} :
           /\ tmp' = IF job[f].on = "tmp" THEN result ELSE tmp
           /\ disk' = IF job[f].on = "disk" THEN result ELSE disk
    /\ job' = [job EXCEPT ![f].step = "rename"]
    /\ UNCHANGED <<up, storeVars, alone, excused>>

\* Whatever was observed since the copy was made is taken for written.
BugRename(f) ==
    /\ job[f].step = "rename" /\ tmp # None
    /\ disk' = tmp /\ tmp' = None
    /\ up' = (f # "exit") /\ job' = [g \in Flusher |-> NoJob]
    /\ dirty' = FALSE
    /\ excused' = IF alone = f THEN {} ELSE excused
    /\ UNCHANGED <<now, stats, alone>>

\* Rename moves what is there under the fixed name, whoever wrote it.
Rename(f) ==
    /\ job[f].step = "rename" /\ tmp # None
    /\ disk' = tmp /\ tmp' = None
    /\ Finish(f, [g \in Flusher |->
                    [job[g] EXCEPT !.on = CASE @ = "tmp" -> "disk"
                                            [] @ = "disk" -> "gone"
                                            [] OTHER -> @]])
    /\ excused' = IF alone = f THEN {} ELSE excused
    /\ UNCHANGED alone

\* The process is killed.
Crash ==
    /\ up /\ up' = FALSE
    /\ job' = [f \in Flusher |-> NoJob]
    /\ UNCHANGED <<storeVars, disk, tmp, alone, excused>>

\* New.
Start ==
    /\ ~up /\ up' = TRUE
    /\ stats' = Load(disk)
    /\ dirty' = FALSE
    /\ alone' = None
    /\ excused' = IF disk = Torn THEN excused ELSE {}
    /\ UNCHANGED <<now, disk, tmp, job>>

Init ==
    /\ up = FALSE /\ now = 1 /\ stats = <<>> /\ dirty = FALSE
    /\ disk \in {{}} \cup {{[node |-> n, at |-> i], [node |-> n, at |-> j]} : n \in Node, i, j \in {0, 1}}
    /\ tmp = None
    /\ job = [f \in Flusher |-> NoJob]
    /\ alone = None /\ excused = {}

Next ==
    \/ \E n \in Node : Observe(n)
    \/ Reset \/ Crash \/ Start
    \/ \E f \in Flusher :
          Flush(f) \/ Skip(f) \/ Fail(f) \/ Create(f) \/ Write(f) \/ Rename(f)

Spec == Init /\ [][Next]_vars
-----------------------------------------------------------------------------
\* As long as no flush is under way and the flag is clear, a restart knows what
\* the daemon knows, observations made during a flush included; and at every
\* moment, a kill in the middle of a flush included, the file can be read.  The
\* exceptions are flushes that overlapped and disks that refused, until the next
\* flush that succeeds alone (Flush, load).
ScoresAreSaved ==
    /\ up /\ ~dirty /\ Busy = {} /\ excused = {} => Load(disk) = Live
    /\ disk = Torn => "overlap" \in excused
=============================================================================
