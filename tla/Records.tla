------------------------------ MODULE Records ------------------------------
(***************************************************************************)
(* What the gateway remembers of connections over restarts: the ring of     *)
(* events of the detection engine with its copy in events.json (detect,     *)
(* cmd/serve.go), and the connection log with its totals, their snapshot    *)
(* and the pages read from it (internal/history, retentioncfg).             *)
(*                                                                         *)
(* Actors: connections that open and close, the two savers, a reader that   *)
(* shares no lock with the writers, the operator who changes the retention, *)
(* the rotation (lumberjack, external), and crashes.                        *)
(*                                                                         *)
(* Abstractions.  Connections are numbered as they open; a line of the log  *)
(* has a number of bytes.  Totals, talkers and hours are which connections  *)
(* were folded into them.  A write of a line, or of a file that is renamed  *)
(* into place, is one step.                                                 *)
(***************************************************************************)
EXTENDS Naturals, SequencesExt

CONSTANTS
    Size,      \* bytes of the line of each connection: its length is the
               \* bound on connections
    Limits,    \* history.max_size_mb: sizes the operator may choose
    MaxBackups, \* rotated files that are kept
    Ring,      \* detect.New(2000)
    MaxFaults  \* bound: crashes, and changes of the retention

\* Assumed of the constants where they get their values.
RecordsAssumption ==
    /\ Size \in Seq(Nat \ {0}) /\ Limits \subseteq Nat /\ Limits # {}
    /\ MaxBackups \in Nat \ {0} /\ Ring \in Nat \ {0}

Conn == 1..Len(Size)

VARIABLES
    up,      \* the daemon runs
    opened,  \* connections so far
    open,    \* those that are open
    seq,     \* Engine.seq
    ring,    \* Engine.events, oldest first: [id, conn]
    saved,   \* events.json, newest first as Events gives it
    lastSaved, \* saveEvents: the id it looks at to see whether anything changed
    live,    \* history.jsonl
    old,     \* its rotated generations, oldest first
    limit,   \* the size that retention.json says
    fit,     \* and the one the log is rotated by
    counted, \* how often each connection is in the totals
    snap,    \* history.jsonl.agg: [counted, offset]
    lines,   \* lineCount's [bytes, lines] of the live file
    listed,  \* the generations a reader has found: {} when there is no reader
    page,    \* the total it answered last, and what the files held
    due,     \* history: what the last tick of the saver saw in the ring
    turned,  \* history: the log was rotated since the snapshot
    excused, \* history: connections that no snapshot saw before a rotation
    moved,   \* history: files changed place since the reader listed them
    blind,   \* history: a rotation lineCount has not noticed
    faults

engineVars == <<opened, open, seq, ring>>
savedVars == <<saved, lastSaved, due>>
logVars == <<live, old, turned>>
totalVars == <<counted, snap, excused>>
readVars == <<lines, listed, page, moved, blind>>
policyVars == <<limit, fit>>
vars == <<up, engineVars, savedVars, logVars, totalVars, readVars, policyVars, faults>>

\* A file is the lines written to it, each with the byte it ends at.
Bytes(file) == IF file = <<>> THEN 0 ELSE file[Len(file)].ends
Line(file, c) == [conn |-> c, ends |-> Bytes(file) + Size[c]]

\* The lines of a file that begin at a byte or after it, and those that end past it.
Begins(line) == line.ends - Size[line.conn]
From(file, k) == {file[i].conn : i \in {j \in 1..Len(file) : Begins(file[j]) >= k}}
Past(file, k) == {i \in 1..Len(file) : file[i].ends > k}
-----------------------------------------------------------------------------
(* Events.                                                                 *)

Latest(s) == SubSeq(s, 1 + IF Len(s) > Ring THEN Len(s) - Ring ELSE 0, Len(s))

\* Track: the event of a connection that opens.
Open ==
    /\ up /\ opened < Len(Size)
    /\ opened' = opened + 1
    /\ open' = open \cup {opened + 1}
    /\ seq' = seq + 1
    /\ ring' = Latest(Append(ring, [id |-> seq + 1, conn |-> opened + 1]))
    /\ UNCHANGED <<up, savedVars, logVars, totalVars, readVars, policyVars, faults>>

\* Events, and the id that saveEvents takes for the newest: the last of a list
\* that begins with the newest.
Events == Reverse(ring)
Newest == IF ring = <<>> THEN 0 ELSE Events[Len(Events)].id

\* saveEvents, on its ticker; the write may fail.
SaveEvents(ok) ==
    /\ up
    /\ due' = IF ok THEN {ring[i].conn : i \in DOMAIN ring} ELSE due
    /\ IF ok /\ Newest # lastSaved
       THEN saved' = Events /\ lastSaved' = Newest
       ELSE UNCHANGED <<saved, lastSaved>>
    /\ UNCHANGED <<up, engineVars, logVars, totalVars, readVars, policyVars, faults>>
-----------------------------------------------------------------------------
(* The log and its totals.                                                 *)

Fold(m, cs) == [c \in Conn |-> IF c \in cs THEN m[c] + 1 ELSE m[c]]
Keep(gens) == SubSeq(gens, 1 + IF Len(gens) > MaxBackups THEN Len(gens) - MaxBackups ELSE 0, Len(gens))

\* lumberjack: a line that does not fit goes to a new file, and the oldest of
\* too many is removed.
Written(c) ==
    IF live # <<>> /\ Bytes(live) + Size[c] > fit
    THEN /\ live' = <<Line(<<>>, c)>> /\ old' = Keep(Append(old, live))
         /\ turned' = TRUE /\ moved' = TRUE /\ blind' = TRUE
    ELSE /\ live' = Append(live, Line(live, c))
         /\ UNCHANGED <<old, turned, moved, blind>>

\* Record, of a connection that closes.
Close(c) ==
    /\ up /\ c \in open
    /\ open' = open \ {c}
    /\ Written(c)
    /\ counted' = Fold(counted, {c})
    /\ UNCHANGED <<up, opened, seq, ring, savedVars, snap, excused, lines, listed, page, policyVars, faults>>

\* saveAggregate, on its ticker and in Close.
SaveAggregate ==
    /\ up
    /\ snap' = [counted |-> counted, offset |-> Bytes(live)]
    /\ turned' = FALSE
    /\ UNCHANGED <<up, engineVars, savedVars, live, old, counted, excused, readVars, policyVars, faults>>

Rest == ring' = <<>> /\ seq' = 0 /\ open' = {} /\ counted' = [c \in Conn |-> 0] /\ UNCHANGED opened

\* Lines that no snapshot saw and no start will read: those of rotated files, and
\* any when the live file has grown again past what the snapshot holds of another.
Lost ==
    {c \in 1..opened : snap.counted[c] = 0}
        \ (IF Bytes(live) < snap.offset THEN From(live, 0) ELSE {})

\* The process dies.
Crash ==
    /\ up /\ faults < MaxFaults /\ faults' = faults + 1
    /\ up' = FALSE
    /\ Rest
    /\ excused' = excused \cup open \cup (IF turned THEN Lost ELSE {})
    /\ UNCHANGED <<savedVars, logVars, snap, readVars, policyVars>>

\* serve returns: both savers run once more.
Stop ==
    /\ up /\ faults < MaxFaults /\ faults' = faults + 1
    /\ up' = FALSE
    /\ Rest
    /\ due' = {ring[i].conn : i \in DOMAIN ring}
    /\ IF Newest # lastSaved THEN saved' = Events /\ lastSaved' = Newest ELSE UNCHANGED <<saved, lastSaved>>
    /\ snap' = [counted |-> counted, offset |-> Bytes(live)]
    /\ turned' = FALSE
    /\ excused' = excused \cup open
    /\ UNCHANGED <<live, old, readVars, policyVars>>

\* The offset is a place in whatever file is there now.
BugUnread(s, k) == From(s, k)

\* NewStoreWithOptions: what the snapshot has not seen of the live file, or all
\* of a file that is smaller than it was.
Unread(s, k) == From(s, IF Bytes(s) < k THEN 0 ELSE k)

\* The daemon starts: RestoreEvents, and the totals from snapshot and log.
Start ==
    /\ ~up /\ up' = TRUE
    /\ ring' = Latest(Reverse(saved))
    /\ seq' = IF saved = <<>> THEN 0 ELSE Max({saved[i].id : i \in DOMAIN saved})
    /\ lastSaved' = 0
    /\ counted' = Fold(snap.counted, Unread(live, snap.offset))
    /\ fit' = limit
    /\ lines' = [bytes |-> 0, lines |-> 0] /\ blind' = FALSE
    /\ listed' = {} /\ moved' = FALSE
    /\ UNCHANGED <<opened, open, saved, due, logVars, snap, excused, page, limit, faults>>

\* handleSetRetention: a store that cannot save keeps the new policy in memory and
\* answers with the error; a policy that could not be applied is taken back,
\* though the log is already rotated by it (SetRetention swaps, then closes).
SetRetention(n, saves, closes) ==
    /\ up /\ faults < MaxFaults /\ faults' = faults + 1
    /\ IF saves THEN fit' = n ELSE UNCHANGED fit
    /\ IF saves /\ closes THEN limit' = n ELSE UNCHANGED limit
    /\ UNCHANGED <<up, engineVars, savedVars, logVars, totalVars, readVars>>
-----------------------------------------------------------------------------
(* Pages.  readMu admits one reader; writers do not take it.               *)

NoReader == listed = {}

\* RecentPage: the generations there are.
ListFiles ==
    /\ up /\ NoReader
    /\ listed' = {old}
    /\ moved' = FALSE
    /\ UNCHANGED <<up, engineVars, savedVars, logVars, totalVars, lines, page, blind, policyVars, faults>>

\* lineCount of the live file: from the start if it is smaller than it was.
LineCount(seen) ==
    LET from == IF Bytes(live) < seen.bytes THEN [bytes |-> 0, lines |-> 0] ELSE seen
    IN  [bytes |-> Bytes(live), lines |-> from.lines + Cardinality(Past(live, from.bytes))]

LinesOf(gens) == FoldSeq(LAMBDA g, n : Len(g) + n, 0, gens)

\* The total of an unfiltered page.
CountLines ==
    /\ up
    /\ \E gens \in listed :
           page' = [total |-> LinesOf(gens) + LineCount(lines).lines,
                    held |-> LinesOf(old) + Len(live),
                    exact |-> ~moved /\ (blind => Bytes(live) < lines.bytes)]
    /\ lines' = LineCount(lines)
    /\ blind' = (blind /\ Bytes(live) >= lines.bytes)
    /\ listed' = {}
    /\ UNCHANGED <<up, engineVars, savedVars, logVars, totalVars, moved, policyVars, faults>>

Init ==
    /\ up = TRUE /\ opened = 0 /\ open = {} /\ seq = 0 /\ ring = <<>>
    /\ saved = <<>> /\ lastSaved = 0 /\ due = {}
    /\ live = <<>> /\ old = <<>> /\ turned = FALSE
    /\ limit \in Limits /\ fit = limit
    /\ counted = [c \in Conn |-> 0] /\ snap = [counted |-> counted, offset |-> 0] /\ excused = {}
    /\ lines = [bytes |-> 0, lines |-> 0] /\ listed = {} /\ page = [total |-> 0, held |-> 0, exact |-> TRUE]
    /\ moved = FALSE /\ blind = FALSE
    /\ faults = 0

Next ==
    \/ Open
    \/ \E c \in open : Close(c)
    \/ \E ok \in BOOLEAN : SaveEvents(ok)
    \/ SaveAggregate \/ Crash \/ Stop \/ Start
    \/ \E n \in Limits, saves, closes \in BOOLEAN : SetRetention(n, saves, closes)
    \/ ListFiles \/ CountLines

Spec == Init /\ [][Next]_vars
-----------------------------------------------------------------------------
\* Totals: each connection that has closed is counted once, over any restarts; the
\* exceptions are those a process left open, and what a crash finds in files that
\* were rotated after the last snapshot (NewStoreWithOptions, saveAggregate).
TotalsAddUp ==
    up => \A c \in (1..opened) \ open : counted[c] = 1 \/ (counted[c] = 0 /\ c \in excused)

\* Pages: the total is the number of lines in the files, unless files changed place
\* while it was read, or the live file was rotated and has grown past what was
\* counted of the one before (lineCount, RecentPage).
PagesAddUp == page.exact => page.total = page.held

\* What the console shows of the history adds up, totals and pages.
HistoryAddsUp == TotalsAddUp /\ PagesAddUp

\* "Persist the audit log periodically so a crash loses at most one interval": what
\* was in the ring at the last tick is in the file (saveEvents).
OneIntervalIsLost == due \subseteq {saved[i].conn : i \in DOMAIN saved}
=============================================================================
