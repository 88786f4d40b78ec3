---------------------------- MODULE HealthProofs ----------------------------
(***************************************************************************)
(* Proofs about Health: of the watchdog, for any number of connections, and *)
(* however many goroutines there may be, that there is one when it is       *)
(* needed; of the score file, for any nodes and whenever a flush is joined, *)
(* refused or killed, that it is what the daemon knows.                    *)
(***************************************************************************)
EXTENDS Health, TLAPS

\* What DemotedOnce needs: a demotion is the end of its connection.
Blamed ==
    \A c \in Conn : demoted[c] \in {0, 1} /\ (demoted[c] = 1 => c \in finished)

\* Before the first connection there is nothing to watch.
LEMMA TypeInit == Init => TypeOK
<1> SUFFICES ASSUME Init PROVE TypeOK
    OBVIOUS
<1>1. live \in [Sweeper -> SUBSET Conn] /\ kill \in [Sweeper -> SUBSET Conn]
      /\ gone \in [Sweeper -> SUBSET Conn]
    BY DEF Init
<1>2. demoted \in [Conn -> Nat]
    BY DEF Init
<1> QED
    BY <1>1, <1>2 DEF Init, TypeOK

\* Every step of a connection and of a sweeper keeps the types.
LEMMA TypeStep == TypeOK /\ [Next]_vars => TypeOK'
<1> SUFFICES ASSUME TypeOK, [Next]_vars PROVE TypeOK'
    OBVIOUS
<1>1. ASSUME NEW c \in Conn, Wrap(c) \/ Ripen(c) \/ FallSilent(c) \/ Read(c) \/ End(c)
      PROVE  TypeOK'
    BY <1>1 DEF TypeOK, Wrap, Watch, Ripen, FallSilent, Read, End, Goto
<1>2. ASSUME NEW s \in Sweeper, Sweep(s) PROVE TypeOK'
    BY <1>2 DEF TypeOK, Sweep, Goto, connVars
<1>3. ASSUME NEW s \in Sweeper, Judge(s) PROVE TypeOK'
    BY <1>3 DEF TypeOK, Judge, Goto, connVars
<1>4. ASSUME NEW s \in Sweeper, Kill(s) PROVE TypeOK'
    BY <1>4 DEF TypeOK, Kill
<1>5. ASSUME NEW s \in Sweeper, Forget(s) PROVE TypeOK'
    BY <1>5 DEF TypeOK, Forget, Goto, connVars
<1>6. ASSUME NEW s \in Sweeper, Stop(s) PROVE TypeOK'
    BY <1>6 DEF TypeOK, Stop, Goto, connVars
<1>7. CASE UNCHANGED vars
    BY <1>7 DEF TypeOK, vars, connVars
<1> QED
    BY <1>1, <1>2, <1>3, <1>4, <1>5, <1>6, <1>7 DEF Next, Run

\* The type invariant of the watchdog (the whole of streamstall.go).
THEOREM TypeCorrect == Spec => []TypeOK
BY TypeInit, TypeStep, PTL DEF Spec
-----------------------------------------------------------------------------
\* WatchedByOne is inductive: only add starts a goroutine and only when none
\* runs, and the last look of one that ends is under the lock add takes.
LEMMA WatchedStep == TypeOK /\ WatchedByOne /\ [Next]_vars => WatchedByOne'
<1> SUFFICES ASSUME TypeOK, WatchedByOne, [Next]_vars PROVE WatchedByOne'
    OBVIOUS
<1> USE DEF WatchedByOne, Awake
<1>1. ASSUME NEW c \in Conn, Wrap(c) PROVE WatchedByOne'
    <2>1. CASE running
        BY <1>1, <2>1 DEF Wrap, Watch
    <2>2. CASE ~running
        <3>1. PICK s \in Sweeper : pc' = [pc EXCEPT ![s] = "tick"]
            BY <1>1, <2>2 DEF Wrap, Watch, Goto
        <3>2. \A t \in Sweeper : pc'[t] # "off" <=> t = s
            BY <2>2, <3>1 DEF TypeOK
        <3> QED
            BY <1>1, <2>2, <3>2 DEF Wrap, Watch
    <2> QED
        BY <2>1, <2>2
<1>2. ASSUME NEW s \in Sweeper, Sweep(s) \/ Judge(s) \/ Kill(s) \/ Forget(s)
      PROVE  WatchedByOne'
    <2>1. PICK l \in {"tick", "judge", "kill", "recheck"} : pc' = [pc EXCEPT ![s] = l]
        BY <1>2 DEF Sweep, Judge, Kill, Forget, Goto, TypeOK
    <2>2. pc[s] # "off" /\ running' = running /\ conns' \subseteq conns
        BY <1>2 DEF Sweep, Judge, Kill, Forget
    <2>3. \A t \in Sweeper : pc'[t] # "off" <=> pc[t] # "off"
        BY <2>1, <2>2 DEF TypeOK
    <2> QED
        BY <2>2, <2>3
<1>3. ASSUME NEW s \in Sweeper, Stop(s) PROVE WatchedByOne'
    <2>1. pc[s] # "off" /\ conns' = conns
        BY <1>3 DEF Stop
    <2>2. CASE conns = {}
        <3>1. running' = FALSE /\ pc' = [pc EXCEPT ![s] = "off"]
            BY <1>3, <2>2 DEF Stop, Goto
        <3>2. \A t \in Sweeper : pc'[t] = "off"
            BY <2>1, <3>1 DEF TypeOK
        <3> QED
            BY <2>1, <2>2, <3>1, <3>2
    <2>3. CASE conns # {}
        <3>1. running' = running /\ pc' = [pc EXCEPT ![s] = "tick"]
            BY <1>3, <2>3 DEF Stop, Goto
        <3>2. \A t \in Sweeper : pc'[t] # "off" <=> pc[t] # "off"
            BY <2>1, <3>1 DEF TypeOK
        <3> QED
            BY <2>1, <3>1, <3>2
    <2> QED
        BY <2>2, <2>3
<1>4. ASSUME NEW c \in Conn, Ripen(c) \/ FallSilent(c) \/ Read(c) \/ End(c)
      PROVE  WatchedByOne'
    BY <1>4 DEF Ripen, FallSilent, Read, End
<1>5. CASE UNCHANGED vars
    BY <1>5 DEF vars
<1> QED
    BY <1>1, <1>2, <1>3, <1>4, <1>5 DEF Next, Run

\* Every watched connection is watched by exactly one goroutine (add, run).
THEOREM AlwaysWatchedByOne == Spec => []WatchedByOne
<1>1. Init => WatchedByOne
    BY DEF Init, WatchedByOne, Awake
<1> QED
    BY <1>1, WatchedStep, TypeCorrect, PTL DEF Spec
-----------------------------------------------------------------------------
\* Only the second loop of sweep demotes, and only whoever ended the connection.
LEMMA BlamedStep ==
    TypeOK /\ Blamed /\ [Next]_vars
        => Blamed' /\ \A c \in Conn : demoted'[c] # demoted[c] => c \notin finished
<1> SUFFICES ASSUME TypeOK, Blamed, [Next]_vars
             PROVE  Blamed' /\ \A c \in Conn : demoted'[c] # demoted[c] => c \notin finished
    OBVIOUS
<1> USE DEF Blamed
<1>1. CASE demoted' = demoted /\ finished \subseteq finished'
    BY <1>1
<1>2. ASSUME NEW s \in Sweeper, Kill(s)
      PROVE  Blamed' /\ \A c \in Conn : demoted'[c] # demoted[c] => c \notin finished
    <2>1. PICK d \in kill[s] :
             \/ UNCHANGED <<finished, demoted>>
             \/ /\ d \notin finished
                /\ finished' = finished \cup {d}
                /\ demoted' = [demoted EXCEPT ![d] = @ + 1]
        BY <1>2 DEF Kill
    <2>2. d \in Conn
        BY DEF TypeOK
    <2>3. CASE /\ d \notin finished
               /\ finished' = finished \cup {d}
               /\ demoted' = [demoted EXCEPT ![d] = @ + 1]
        <3>1. demoted[d] = 0
            BY <2>2, <2>3
        <3>2. \A c \in Conn : demoted'[c] = IF c = d THEN 1 ELSE demoted[c]
            BY <2>3, <3>1 DEF TypeOK
        <3> QED
            BY <2>2, <2>3, <3>2
    <2> QED
        BY <2>1, <2>3
<1>3. ASSUME NEW c \in Conn, Wrap(c) \/ Ripen(c) \/ FallSilent(c) \/ Read(c) \/ End(c)
      PROVE  demoted' = demoted /\ finished \subseteq finished'
    BY <1>3 DEF Wrap, Ripen, FallSilent, Read, End
<1>4. ASSUME NEW s \in Sweeper, Sweep(s) \/ Judge(s) \/ Forget(s) \/ Stop(s)
      PROVE  demoted' = demoted /\ finished \subseteq finished'
    BY <1>4 DEF Sweep, Judge, Forget, Stop, connVars
<1>5. CASE UNCHANGED vars
    BY <1>1, <1>5 DEF vars, connVars
<1> QED
    BY <1>1, <1>2, <1>3, <1>4, <1>5 DEF Next, Run

\* A connection that ended never demotes its node, and none demotes it twice
\* (stallConn.finished and its CompareAndSwap).
THEOREM DemotesAtMostOnce == Spec => DemotedOnce
<1>1. Init => Blamed
    BY DEF Init, Blamed
<1>2. Blamed => \A c \in Conn : demoted[c] <= 1
    BY DEF Blamed
<1>3. TypeOK /\ Blamed /\ [Next]_vars
          => [\A c \in Conn : demoted'[c] # demoted[c] => c \notin finished]_vars
    BY BlamedStep
<1> QED
    BY <1>1, <1>2, <1>3, BlamedStep, TypeCorrect, PTL DEF Spec, DemotedOnce
-----------------------------------------------------------------------------
(***************************************************************************)
(* The score file                                                          *)
(***************************************************************************)
Record == [node : Node, at : 0..MaxNow]

\* A document has at most two records of a node, the two spellings an old one has.
Times(doc, n) == {r.at : r \in {k \in doc : k.node = n}}
IsDoc(doc) ==
    /\ doc \in SUBSET Record
    /\ \A n \in Node : \E a, b \in Nat : Times(doc, n) \subseteq {a, b}

Place == {"off", "begin", "create", "write", "rename"}
Job == [step : Place, doc : SUBSET Record, on : {"none", "tmp", "disk", "gone"}]

FileTypes ==
    /\ now \in 0..MaxNow
    /\ DOMAIN stats \subseteq Node /\ \A n \in DOMAIN stats : stats[n] \in 0..MaxNow
    /\ disk = Torn \/ IsDoc(disk)
    /\ tmp = Torn \/ tmp = None \/ IsDoc(tmp)
    /\ job \in [File!Flusher -> Job] /\ \A f \in File!Flusher : IsDoc(job[f].doc)
    /\ dirty \in BOOLEAN /\ up \in BOOLEAN

\* One flush at a time, or an overlap is on record.
OneFlush ==
    /\ File!Busy \subseteq {alone} \/ (alone = None /\ "overlap" \in excused)
    /\ ~up => File!Busy = {}

\* How far a flush that nobody has joined has come.
Flushing ==
    \A f \in File!Busy : alone = f =>
        /\ job[f].step = "write" => job[f].on = "tmp"
        /\ job[f].step = "rename" => tmp = job[f].doc
        /\ up /\ ~dirty => File!Load(job[f].doc) = File!Live

FileInv ==
    /\ FileTypes /\ OneFlush /\ Flushing
    /\ disk = Torn => "overlap" \in excused
    /\ up /\ ~dirty /\ File!Busy = {} /\ excused = {} => File!Load(disk) = File!Live

\* Of the spellings of a node one was updated last.
LEMMA MaxOfPair ==
    ASSUME NEW a \in Nat, NEW b \in Nat, NEW S, S \subseteq {a, b}, S # {}
    PROVE  File!Max(S) \in S
<1>1. \E x \in S : \A y \in S : x >= y
    <2>1. CASE a \in S /\ (b \in S => a >= b)
        BY <2>1
    <2>2. CASE b \in S /\ (a \in S => b >= a)
        BY <2>2
    <2>3. a >= b \/ b >= a
        OBVIOUS
    <2>4. a \in S \/ b \in S
        BY Zenon
    <2> QED
        BY <2>1, <2>2, <2>3, <2>4, Zenon
<1> QED
    BY <1>1 DEF File!Max

LEMMA MaxOfOne == ASSUME NEW a \in Nat PROVE File!Max({a}) = a
<1>1. File!Max({a}) \in {a}
    BY MaxOfPair
<1> QED
    BY <1>1

\* What is loaded is current and as it was recorded.
LEMMA LoadIs ==
    ASSUME NEW doc, IsDoc(doc), now \in 0..MaxNow
    PROVE  LET read == File!Load(doc) IN
           /\ DOMAIN read \subseteq Node
           /\ \A n \in DOMAIN read : read[n] \in 0..MaxNow /\ File!Current(read[n])
           /\ read = [n \in DOMAIN read |-> read[n]]
<1> DEFINE kept == {r \in doc : File!Current(r.at)}
           of(n) == {r.at : r \in {k \in kept : k.node = n}}
<1>1. doc # Torn
    BY HealthAssumption DEF IsDoc, File!ScoreFileAssumption, Record
<1>2. File!Load(doc) = [n \in {r.node : r \in kept} |-> File!Max(of(n))]
    BY <1>1 DEF File!Load
<1>3. ASSUME NEW n \in {r.node : r \in kept}
      PROVE  n \in Node /\ File!Max(of(n)) \in 0..MaxNow /\ File!Current(File!Max(of(n)))
    <2>1. n \in Node
        BY <1>3 DEF IsDoc, Record
    <2>2. PICK a \in Nat, b \in Nat : Times(doc, n) \subseteq {a, b}
        BY <2>1 DEF IsDoc
    <2>3. of(n) \subseteq {a, b} /\ of(n) # {}
        BY <1>3, <2>2 DEF Times
    <2>4. File!Max(of(n)) \in of(n)
        BY <2>3, MaxOfPair
    <2>5. \A t \in of(n) : t \in 0..MaxNow /\ File!Current(t)
        BY DEF IsDoc, Record
    <2> QED
        BY <2>1, <2>4, <2>5
<1> HIDE DEF of
<1> QED
    BY <1>2, <1>3

\* What is written is what is spelt and current, and it is loaded as that.
LEMMA WrittenIs ==
    ASSUME DOMAIN stats \subseteq Node, \A n \in DOMAIN stats : stats[n] \in 0..MaxNow
    PROVE  IsDoc(File!Records(File!Live)) /\ File!Load(File!Records(File!Live)) = File!Live
<1> DEFINE spelt == {n \in DOMAIN stats : File!Current(stats[n])}
           doc == {[node |-> n, at |-> stats[n]] : n \in spelt}
<1>1. File!Live = [n \in spelt |-> stats[n]]
    BY DEF File!Live, File!Restrict
<1>2. File!Records(File!Live) = doc
    <2>1. DOMAIN File!Live = spelt /\ \A n \in spelt : File!Live[n] = stats[n]
        BY <1>1
    <2> HIDE DEF spelt
    <2> QED
        BY <2>1 DEF File!Records
<1>3. doc \in SUBSET Record
    BY DEF Record
<1>4. ASSUME NEW n \in spelt PROVE {r.at : r \in {k \in doc : k.node = n}} = {stats[n]} /\ stats[n] \in Nat
    <2>1. [node |-> n, at |-> stats[n]] \in doc
        BY <1>4
    <2>2. ASSUME NEW r \in doc, r.node = n PROVE r.at = stats[n]
        BY <2>2
    <2>3. stats[n] \in Nat
        BY <1>4
    <2>4. [node |-> n, at |-> stats[n]].node = n /\ [node |-> n, at |-> stats[n]].at = stats[n]
        OBVIOUS
    <2> HIDE DEF doc
    <2> QED
        BY <2>1, <2>2, <2>3, <2>4
<1>5. IsDoc(doc)
    <2>1. ASSUME NEW n \in Node PROVE \E a, b \in Nat : Times(doc, n) \subseteq {a, b}
        <3>1. CASE n \in spelt
            BY <1>4, <3>1 DEF Times
        <3>2. CASE n \notin spelt
            <4>1. Times(doc, n) = {}
                BY <3>2 DEF Times
            <4> QED
                BY <4>1
        <3> QED
            BY <3>1, <3>2
    <2> QED
        BY <1>3, <2>1 DEF IsDoc
<1>6. File!Load(doc) = [n \in spelt |-> stats[n]]
    <2> DEFINE kept == {r \in doc : File!Current(r.at)}
    <2>1. kept = doc
        OBVIOUS
    <2>2. doc # Torn
        BY <1>3, HealthAssumption DEF File!ScoreFileAssumption, Record
    <2>3. {r.node : r \in doc} = spelt
        <3>1. ASSUME NEW n \in spelt PROVE n \in {r.node : r \in doc}
            <4>1. [node |-> n, at |-> stats[n]] \in doc /\ [node |-> n, at |-> stats[n]].node = n
                BY <3>1
            <4> HIDE DEF doc
            <4> QED
                BY <4>1
        <3>2. \A r \in doc : r.node \in spelt
            OBVIOUS
        <3> HIDE DEF doc, spelt
        <3> QED
            BY <3>1, <3>2
    <2>4. \A n \in spelt : File!Max({r.at : r \in {k \in doc : k.node = n}}) = stats[n]
        BY <1>4, MaxOfOne
    <2>5. File!Load(doc) = [n \in {r.node : r \in kept} |->
                                File!Max({r.at : r \in {k \in kept : k.node = n}})]
        BY <2>2 DEF File!Load
    <2> HIDE DEF doc, spelt, kept
    <2> QED
        BY <2>1, <2>3, <2>4, <2>5
<1> QED
    BY <1>1, <1>2, <1>5, <1>6

\* The daemon has not run, and the file has a node in at most two spellings.
LEMMA ScoresStart == File!Init => FileInv
<1> SUFFICES ASSUME File!Init PROVE FileInv
    OBVIOUS
<1>1. MaxNow \in Nat /\ 1 \in 0..MaxNow /\ 0 \in 0..MaxNow
    BY HealthAssumption DEF File!ScoreFileAssumption
<1>2. IsDoc({})
    BY DEF IsDoc, Times
<1>3. ASSUME NEW n \in Node, NEW i \in {0, 1}, NEW j \in {0, 1}
      PROVE  IsDoc({[node |-> n, at |-> i], [node |-> n, at |-> j]})
    <2>1. \A m \in Node : Times({[node |-> n, at |-> i], [node |-> n, at |-> j]}, m) \subseteq {i, j}
        BY DEF Times
    <2> QED
        BY <1>1, <2>1 DEF IsDoc, Record
<1>4. IsDoc(disk)
    <2>1. \/ disk = {}
          \/ \E n \in Node, i \in {0, 1}, j \in {0, 1} :
                disk = {[node |-> n, at |-> i], [node |-> n, at |-> j]}
        BY DEF File!Init
    <2> QED
        BY <2>1, <1>2, <1>3, Zenon
<1>5. disk # Torn
    BY <1>4, HealthAssumption DEF IsDoc, File!ScoreFileAssumption, Record
<1>6. DOMAIN stats = {}
    BY DEF File!Init
<1>7. job \in [File!Flusher -> Job] /\ \A f \in File!Flusher : job[f].doc = {} /\ job[f].step = "off"
    BY DEF File!Init, File!NoJob, Job, Place
<1> QED
    BY <1>1, <1>2, <1>4, <1>5, <1>6, <1>7 DEF File!Init, FileInv, FileTypes, OneFlush, Flushing,
        File!Busy

\* An observation sets the flag.
LEMMA ObserveKeeps == ASSUME FileInv, NEW n \in Node, File!Observe(n) PROVE FileInv'
<1>1. now' \in 0..MaxNow /\ dirty' /\ dirty' \in BOOLEAN /\ UNCHANGED <<up, disk, tmp, job, alone, excused>>
    BY HealthAssumption DEF File!Observe, File!Tick, FileInv, FileTypes, File!ScoreFileAssumption
<1>2. stats' = [m \in DOMAIN stats \cup {n} |-> IF m = n THEN now' ELSE stats[m]]
    BY DEF File!Observe
<1>3. DOMAIN stats' \subseteq Node /\ \A m \in DOMAIN stats' : stats'[m] \in 0..MaxNow
    BY <1>1, <1>2 DEF FileInv, FileTypes
<1>4. File!Busy' = File!Busy
    BY <1>1 DEF File!Busy
<1> QED
    BY <1>1, <1>3, <1>4 DEF FileInv, FileTypes, OneFlush, Flushing

\* So does a reset.
LEMMA ResetKeeps == FileInv /\ File!Reset => FileInv'
<1> SUFFICES ASSUME FileInv, File!Reset PROVE FileInv'
    OBVIOUS
<1>1. dirty' = TRUE /\ UNCHANGED <<up, now, disk, tmp, alone, excused>> /\ stats' = <<>>
      /\ job' = [job EXCEPT !["reset"].step = "begin"] /\ job["reset"].step = "off"
    BY DEF File!Reset
<1>2. DOMAIN stats' = {}
    BY <1>1
<1>3. job' \in [File!Flusher -> Job] /\ \A f \in File!Flusher : (job'[f]).doc = job[f].doc
    BY <1>1 DEF FileInv, FileTypes, Job, Place, File!Flusher
<1>4. File!Busy' = File!Busy /\ \A f \in File!Busy : job'[f] = job[f]
    BY <1>1 DEF FileInv, FileTypes, Job, File!Busy, File!Flusher
<1> QED
    BY <1>1, <1>2, <1>3, <1>4 DEF FileInv, FileTypes, OneFlush, Flushing

\* A flush copies what a load of the copy gives back; one that joins another is
\* on record.
LEMMA FlushKeeps == ASSUME FileInv, NEW f \in File!Flusher, File!Flush(f) PROVE FileInv'
<1> DEFINE new == [step |-> "create", doc |-> File!Records(File!Live), on |-> "none"]
<1>1. /\ up /\ UNCHANGED <<up, now, disk, tmp>> /\ stats' = File!Live /\ dirty' = FALSE
      /\ job' = [job EXCEPT ![f] = new]
      /\ alone' = IF File!Busy = {} THEN f ELSE None
      /\ excused' = IF File!Busy = {} THEN excused ELSE excused \cup {"overlap"}
    BY DEF File!Flush
<1>2. IsDoc(File!Records(File!Live)) /\ File!Load(File!Records(File!Live)) = File!Live
    BY WrittenIs DEF FileInv, FileTypes
<1>3. DOMAIN File!Live \subseteq Node /\ \A n \in DOMAIN File!Live : File!Live[n] \in 0..MaxNow
    BY DEF FileInv, FileTypes, File!Live, File!Restrict
<1>4. File!Live' = File!Live
    <2>1. File!Live = [n \in {m \in DOMAIN stats : File!Current(stats[m])} |-> stats[n]]
        BY DEF File!Live, File!Restrict
    <2>2. File!Live' = [n \in {m \in DOMAIN File!Live : File!Current(File!Live[m])} |-> File!Live[n]]
        BY <1>1 DEF File!Live, File!Restrict, File!Current
    <2>3. {m \in DOMAIN File!Live : File!Current(File!Live[m])} = DOMAIN File!Live
        BY <2>1
    <2> QED
        BY <2>1, <2>2, <2>3
<1>5. new \in Job /\ new.step = "create" /\ new.doc = File!Records(File!Live)
    BY <1>2 DEF IsDoc, Job, Place
<1>6. /\ job' \in [File!Flusher -> Job] /\ job'[f] = new
      /\ \A g \in File!Flusher : g # f => job'[g] = job[g]
    BY <1>1, <1>5 DEF FileInv, FileTypes
<1> HIDE DEF new
<1>7. File!Busy' = File!Busy \cup {f}
    BY <1>5, <1>6 DEF File!Busy
<1>8. FileTypes'
    BY <1>1, <1>2, <1>3, <1>5, <1>6 DEF FileInv, FileTypes
<1>9. OneFlush'
    BY <1>1, <1>7 DEF FileInv, OneFlush
<1>10. File!Load(File!Records(File!Live))' = File!Load(File!Records(File!Live))
    BY <1>1, <1>4 DEF File!Load, File!Current
<1>11. Flushing'
    <2>1. ASSUME NEW g \in File!Busy', alone' = g
          PROVE  /\ (job'[g]).step = "create"
                 /\ File!Load(job[g].doc)' = File!Live'
        <3>1. g = f
            BY <1>1, <2>1, HealthAssumption DEF File!ScoreFileAssumption, File!Busy, File!Flusher
        <3>2. (job'[g]).doc = File!Records(File!Live) /\ (job'[g]).step = "create"
            BY <3>1, <1>5, <1>6
        <3>3. File!Load(job[g].doc)' = File!Load(job'[g].doc)
            BY <1>1 DEF File!Load, File!Current
        <3> QED
            BY <3>2, <3>3, <1>2, <1>4
    <2> QED
        BY <2>1 DEF Flushing
<1> QED
    BY <1>1, <1>7, <1>8, <1>9, <1>11 DEF FileInv

\* What a file says depends on the clock alone.
LEMMA LoadsSame ==
    ASSUME UNCHANGED File!storeVars
    PROVE  /\ File!Live' = File!Live /\ File!Load(disk)' = File!Load(disk')
           /\ \A g \in File!Flusher : File!Load(job[g].doc)' = File!Load(job'[g].doc)
<1>1. File!Live' = File!Live
    BY DEF File!storeVars, File!Live, File!Restrict, File!Current
<1>2. File!Load(disk)' = File!Load(disk')
    BY DEF File!storeVars, File!Load, File!Current
<1>3. ASSUME NEW g \in File!Flusher PROVE File!Load(job[g].doc)' = File!Load(job'[g].doc)
    BY DEF File!storeVars, File!Load, File!Current
<1> QED
    BY <1>1, <1>2, <1>3

LEMMA NoJobIs ==
    /\ File!NoJob \in Job /\ File!NoJob.step = "off"
    /\ File!NoJob.doc = {} /\ IsDoc(File!NoJob.doc)
BY DEF File!NoJob, Job, Place, IsDoc, Times

Working(jobs) == {g \in File!Flusher : jobs[g].step \in {"create", "write", "rename"}}

\* A flush that ends leaves no step behind, and none at all at the end of the
\* process.
LEMMA FinishIs ==
    ASSUME NEW f \in File!Flusher, NEW jobs \in [File!Flusher -> Job],
           \A g \in File!Flusher : IsDoc(jobs[g].doc),
           File!Finish(f, jobs)
    PROVE  /\ job' \in [File!Flusher -> Job] /\ \A g \in File!Flusher : IsDoc((job'[g]).doc)
           /\ up' \in BOOLEAN /\ UNCHANGED File!storeVars
           /\ File!Busy' \subseteq Working(jobs) \ {f} /\ (~up' => File!Busy' = {})
           /\ \A g \in File!Busy' : job'[g] = jobs[g]
<1>1. up' \in BOOLEAN /\ UNCHANGED File!storeVars
    BY DEF File!Finish
<1>2. CASE up'
    <2>1. job' = [jobs EXCEPT ![f] = File!NoJob]
        BY <1>2 DEF File!Finish
    <2>2. /\ job' \in [File!Flusher -> Job] /\ job'[f] = File!NoJob
          /\ \A g \in File!Flusher : g # f => job'[g] = jobs[g]
        BY <2>1, NoJobIs
    <2> QED
        BY <1>1, <1>2, <2>2, NoJobIs DEF File!Busy, Working
<1>3. CASE ~up'
    <2>1. job' = [g \in File!Flusher |-> File!NoJob]
        BY <1>3 DEF File!Finish
    <2>2. File!Busy' = {}
        BY <2>1, NoJobIs DEF File!Busy
    <2> QED
        BY <1>1, <1>3, <2>1, <2>2, NoJobIs
<1> QED
    BY <1>2, <1>3

\* Nothing but the jobs changes, and no job begins or goes on.
LEMMA JobsEnd ==
    ASSUME FileInv, UNCHANGED <<File!storeVars, disk, tmp, alone>>,
           excused \subseteq excused', up' \in BOOLEAN,
           job' \in [File!Flusher -> Job], \A g \in File!Flusher : IsDoc((job'[g]).doc),
           File!Busy' \subseteq File!Busy, ~up' => File!Busy' = {}, up' => up,
           \A g \in File!Busy' : job'[g] = job[g],
           File!Busy' # File!Busy => excused' # {} \/ ~up'
    PROVE  FileInv'
<1>1. /\ File!Live' = File!Live /\ File!Load(disk)' = File!Load(disk)
      /\ \A g \in File!Flusher : File!Load(job[g].doc)' = File!Load(job'[g].doc)
    BY LoadsSame
<1>2. FileTypes'
    BY DEF FileInv, FileTypes, File!storeVars
<1>3. OneFlush'
    BY DEF FileInv, OneFlush
<1>4. Flushing'
    <2>1. ASSUME NEW g \in File!Busy', alone' = g
          PROVE  /\ (job'[g]).step = "write" => (job'[g]).on = "tmp"
                 /\ (job'[g]).step = "rename" => tmp' = (job'[g]).doc
                 /\ up' /\ ~dirty' => File!Load(job[g].doc)' = File!Live'
        <3>1. g \in File!Busy /\ g \in File!Flusher /\ job'[g] = job[g] /\ alone = g
            BY <2>1 DEF File!Busy
        <3>2. File!Load(job'[g].doc) = File!Load(job[g].doc)
            BY <3>1
        <3> QED
            BY <1>1, <3>1, <3>2 DEF FileInv, Flushing, File!storeVars
    <2> QED
        BY <2>1 DEF Flushing
<1>5. excused' = {} => excused = {}
    OBVIOUS
<1>6. up' /\ ~dirty' /\ File!Busy' = {} /\ excused' = {} => File!Load(disk)' = File!Live'
    BY <1>1, <1>5 DEF FileInv, File!storeVars
<1> QED
    BY <1>2, <1>3, <1>4, <1>6 DEF FileInv

\* A refusal is on record.
LEMMA FailKeeps == ASSUME FileInv, NEW f \in File!Flusher, File!Fail(f) PROVE FileInv'
<1>1. /\ f \in File!Busy /\ File!Finish(f, job) /\ excused' = excused \cup {"failed"}
      /\ UNCHANGED <<disk, tmp, alone>>
    BY DEF File!Fail, File!Busy
<1>2. job \in [File!Flusher -> Job] /\ \A g \in File!Flusher : IsDoc(job[g].doc)
    BY DEF FileInv, FileTypes
<1>3. File!Busy = Working(job) /\ up
    BY <1>1 DEF FileInv, OneFlush, File!Busy, Working
<1> QED
    BY <1>1, <1>2, <1>3, FinishIs, JobsEnd

\* Nothing to write is no change, but for the end of the process.
LEMMA SkipKeeps == ASSUME FileInv, NEW f \in File!Flusher, File!Skip(f) PROVE FileInv'
<1>1. up /\ UNCHANGED <<File!storeVars, disk, tmp, alone, excused>> /\ job[f].step \in {"off", "begin"}
      /\ job \in [File!Flusher -> Job] /\ \A g \in File!Flusher : IsDoc(job[g].doc)
    BY DEF File!Skip, FileInv, FileTypes
<1>2. CASE f = "reset" /\ UNCHANGED up
    <2>1. job' = [job EXCEPT ![f] = File!NoJob]
        BY <1>1, <1>2 DEF File!Skip
    <2>2. /\ job' \in [File!Flusher -> Job] /\ job'[f] = File!NoJob
          /\ \A g \in File!Flusher : g # f => job'[g] = job[g]
        BY <1>1, <2>1, NoJobIs
    <2>3. File!Busy' = File!Busy /\ f \notin File!Busy
        BY <1>1, <2>2, NoJobIs DEF File!Busy
    <2>4. \A g \in File!Busy' : job'[g] = job[g]
        BY <2>2, <2>3 DEF File!Busy
    <2>5. \A g \in File!Flusher : IsDoc((job'[g]).doc)
        BY <1>1, <2>2, NoJobIs
    <2> QED
        BY <1>1, <1>2, <2>2, <2>3, <2>4, <2>5, JobsEnd DEF FileInv, FileTypes
<1>3. CASE up' = FALSE
    <2>1. job' = [g \in File!Flusher |-> File!NoJob]
        BY <1>1, <1>3 DEF File!Skip
    <2>2. File!Busy' = {}
        BY <2>1, NoJobIs DEF File!Busy
    <2> QED
        BY <1>1, <1>3, <2>1, <2>2, NoJobIs, JobsEnd
<1> QED
    BY <1>2, <1>3 DEF File!Skip

\* A kill ends every flush where it is.
LEMMA DeathKeeps == FileInv /\ File!Crash => FileInv'
<1> SUFFICES ASSUME FileInv, File!Crash PROVE FileInv'
    OBVIOUS
<1>1. /\ up' = FALSE /\ job' = [g \in File!Flusher |-> File!NoJob]
      /\ UNCHANGED <<File!storeVars, disk, tmp, alone, excused>>
    BY DEF File!Crash
<1>2. File!Busy' = {}
    BY <1>1, NoJobIs DEF File!Busy
<1> QED
    BY <1>1, <1>2, NoJobIs, JobsEnd

\* Truncating tears the temporary file only.
LEMMA CreateKeeps == ASSUME FileInv, NEW f \in File!Flusher, File!Create(f) PROVE FileInv'
<1> DEFINE new == [job[f] EXCEPT !.step = "write", !.on = "tmp"]
<1>1. /\ job' = [job EXCEPT ![f] = new] /\ tmp' = Torn /\ f \in File!Busy
      /\ UNCHANGED <<up, File!storeVars, disk, alone, excused>>
    BY DEF File!Create, File!Busy, FileInv, FileTypes, Job
<1>2. new \in Job /\ new.step = "write" /\ new.on = "tmp" /\ new.doc = job[f].doc
    BY DEF FileInv, FileTypes, Job, Place
<1>3. /\ job' \in [File!Flusher -> Job] /\ job'[f] = new
      /\ \A g \in File!Flusher : g # f => job'[g] = job[g]
    BY <1>1, <1>2 DEF FileInv, FileTypes
<1> HIDE DEF new
<1>4. File!Busy' = File!Busy
    BY <1>1, <1>2, <1>3 DEF File!Busy
<1>5. /\ File!Live' = File!Live /\ File!Load(disk)' = File!Load(disk)
      /\ \A g \in File!Flusher : File!Load(job[g].doc)' = File!Load(job'[g].doc)
    BY <1>1, LoadsSame
<1>6. FileTypes'
    BY <1>1, <1>2, <1>3 DEF FileInv, FileTypes, File!storeVars
<1>7. ASSUME NEW g \in File!Busy', alone' = g
      PROVE  /\ (job'[g]).step = "write" /\ (job'[g]).on = "tmp"
             /\ up' /\ ~dirty' => File!Load(job[g].doc)' = File!Live'
    <2>1. g = f
        BY <1>1, <1>4, <1>7, HealthAssumption DEF FileInv, OneFlush,
            File!ScoreFileAssumption, File!Busy, File!Flusher
    <2>2. File!Load(job[g].doc)' = File!Load(job[g].doc)
        BY <2>1, <1>2, <1>3, <1>5
    <2> QED
        BY <1>1, <1>2, <1>3, <1>4, <1>5, <1>7, <2>1, <2>2 DEF FileInv, Flushing, File!storeVars
<1>8. Flushing'
    BY <1>7 DEF Flushing
<1> QED
    BY <1>1, <1>4, <1>5, <1>6, <1>8 DEF FileInv, OneFlush, File!storeVars

\* What a flush on its own writes is its copy, in the temporary file.
LEMMA WriteKeeps == ASSUME FileInv, NEW f \in File!Flusher, File!Write(f) PROVE FileInv'
<1> DEFINE new == [job[f] EXCEPT !.step = "rename"]
<1>0. f \in File!Busy /\ job[f].step = "write" /\ job[f] \in Job /\ IsDoc(job[f].doc)
    BY DEF File!Write, File!Busy, FileInv, FileTypes
<1>1. PICK result \in {job[f].doc} \cup (IF alone = f THEN {} ELSE {Torn}) :
        /\ tmp' = IF job[f].on = "tmp" THEN result ELSE tmp
        /\ disk' = IF job[f].on = "disk" THEN result ELSE disk
    BY DEF File!Write
<1>2. job' = [job EXCEPT ![f] = new] /\ UNCHANGED <<up, File!storeVars, alone, excused>>
    BY DEF File!Write, FileInv, FileTypes, Job
<1>3. new \in Job /\ new.step = "rename" /\ new.doc = job[f].doc
    BY <1>0 DEF Job, Place
<1>4. /\ job' \in [File!Flusher -> Job] /\ job'[f] = new
      /\ \A g \in File!Flusher : g # f => job'[g] = job[g]
    BY <1>2, <1>3 DEF FileInv, FileTypes
<1> HIDE DEF new
<1>5. File!Busy' = File!Busy
    BY <1>0, <1>3, <1>4 DEF File!Busy
<1>6. result = Torn \/ IsDoc(result)
    BY <1>0, <1>1
<1>7. FileTypes'
    BY <1>0, <1>1, <1>2, <1>3, <1>4, <1>6 DEF FileInv, FileTypes, File!storeVars
<1>8. /\ File!Live' = File!Live /\ File!Load(disk)' = File!Load(disk')
      /\ \A g \in File!Flusher : File!Load(job[g].doc)' = File!Load(job'[g].doc)
    BY <1>2, LoadsSame
<1>9. ASSUME NEW g \in File!Busy', alone' = g
      PROVE  /\ (job'[g]).step = "rename" /\ tmp' = (job'[g]).doc
             /\ up' /\ ~dirty' => File!Load(job[g].doc)' = File!Live'
    <2>1. g = f /\ alone = f
        BY <1>0, <1>2, <1>5, <1>9, HealthAssumption DEF FileInv, OneFlush,
            File!ScoreFileAssumption, File!Busy, File!Flusher
    <2>2. job[f].on = "tmp" /\ result = job[f].doc
        BY <1>0, <1>1, <2>1 DEF FileInv, Flushing
    <2>3. File!Load(job[g].doc)' = File!Load(job[g].doc)
        BY <2>1, <1>3, <1>4, <1>8
    <2> QED
        BY <1>0, <1>1, <1>2, <1>3, <1>4, <1>8, <2>1, <2>2, <2>3 DEF FileInv, Flushing,
            File!storeVars
<1>10. Flushing'
    BY <1>9 DEF Flushing
\* Only a flush that is not alone can have a file of that name under it, or leave it torn.
<1>11. disk' = Torn => "overlap" \in excused
    <2>1. CASE alone = f
        <3>1. disk' = disk
            BY <1>0, <1>1, <2>1 DEF FileInv, Flushing
        <3> QED
            BY <3>1 DEF FileInv
    <2>2. CASE alone # f
        BY <1>0, <2>2 DEF FileInv, OneFlush
    <2> QED
        BY <2>1, <2>2
<1> QED
    BY <1>0, <1>2, <1>5, <1>7, <1>10, <1>11 DEF FileInv, OneFlush

\* The rename of a flush on its own makes the file its copy; any other may tear
\* it, but then an overlap is on record.
LEMMA RenameKeeps == ASSUME FileInv, NEW f \in File!Flusher, File!Rename(f) PROVE FileInv'
<1> DEFINE moved(g) == [job[g] EXCEPT !.on = CASE @ = "tmp" -> "disk"
                                               [] @ = "disk" -> "gone"
                                               [] OTHER -> @]
           jobs == [g \in File!Flusher |-> moved(g)]
<1>1. /\ f \in File!Busy /\ job[f].step = "rename" /\ tmp # None /\ disk' = tmp /\ tmp' = None
      /\ File!Finish(f, [g \in File!Flusher |-> [job[g] EXCEPT !.on = CASE @ = "tmp" -> "disk"
                                                            [] @ = "disk" -> "gone"
                                                            [] OTHER -> @]])
      /\ excused' = IF alone = f THEN {} ELSE excused
      /\ alone' = alone
    BY DEF File!Rename, File!Busy
<1>2. ASSUME NEW g \in File!Flusher
      PROVE  moved(g) \in Job /\ moved(g).step = job[g].step /\ moved(g).doc = job[g].doc
    <2> DEFINE to == CASE job[g].on = "tmp" -> "disk" [] job[g].on = "disk" -> "gone" [] OTHER -> job[g].on
    <2>1. job[g] \in Job
        BY DEF FileInv, FileTypes
    <2>2. to \in {"none", "tmp", "disk", "gone"}
        BY <2>1 DEF Job
    <2>3. moved(g) = [job[g] EXCEPT !.on = to]
        BY <2>1 DEF Job
    <2> HIDE DEF to, moved
    <2> QED
        BY <2>1, <2>2, <2>3 DEF Job
<1>3. File!Finish(f, jobs)
    BY <1>1 DEF FileInv, FileTypes, Job
<1> HIDE DEF moved
<1>4. /\ jobs \in [File!Flusher -> Job] /\ \A g \in File!Flusher : IsDoc(jobs[g].doc)
      /\ Working(jobs) = File!Busy
    BY <1>2 DEF FileInv, FileTypes, Working, File!Busy
<1> HIDE DEF jobs
<1>5. /\ job' \in [File!Flusher -> Job] /\ \A g \in File!Flusher : IsDoc((job'[g]).doc)
      /\ up' \in BOOLEAN /\ UNCHANGED File!storeVars
      /\ File!Busy' \subseteq File!Busy \ {f} /\ (~up' => File!Busy' = {})
    BY <1>3, <1>4, FinishIs
<1>6. FileTypes'
    BY <1>1, <1>5 DEF FileInv, FileTypes, File!storeVars
<1>7. up
    BY <1>1 DEF FileInv, OneFlush
<1>8. CASE alone = f
    <2>0. alone # None
        BY <1>8, HealthAssumption DEF File!ScoreFileAssumption, File!Flusher
    <2>1. File!Busy' = {} /\ disk' = job[f].doc /\ excused' = {}
        BY <1>1, <1>5, <1>8, <2>0 DEF FileInv, OneFlush, Flushing
    <2>2. disk' # Torn
        BY <2>1, HealthAssumption DEF FileInv, FileTypes, IsDoc, File!ScoreFileAssumption, Record
    <2>3. ~dirty' => File!Load(disk)' = File!Live'
        <3>1. File!Live' = File!Live /\ File!Load(disk)' = File!Load(disk')
            BY <1>5, LoadsSame
        <3>2. ~dirty => File!Load(job[f].doc) = File!Live
            BY <1>1, <1>7, <1>8 DEF FileInv, Flushing
        <3> QED
            BY <3>1, <3>2, <2>1, <1>5 DEF File!storeVars
    <2> QED
        BY <1>6, <2>1, <2>2, <2>3 DEF FileInv, OneFlush, Flushing
<1>9. CASE alone # f
    <2>1. alone = None /\ "overlap" \in excused /\ excused' = excused
        BY <1>1, <1>9 DEF FileInv, OneFlush
    <2>2. \A g \in File!Busy' : alone' # g
        BY <1>1, <2>1, HealthAssumption DEF File!ScoreFileAssumption, File!Busy, File!Flusher
    <2> QED
        BY <1>1, <1>5, <1>6, <2>1, <2>2 DEF FileInv, OneFlush, Flushing
<1> QED
    BY <1>8, <1>9

\* A start knows what the file says.
LEMMA StartReads == FileInv /\ File!Start => FileInv'
<1> SUFFICES ASSUME FileInv, File!Start PROVE FileInv'
    OBVIOUS
<1>1. /\ ~up /\ up' = TRUE /\ stats' = File!Load(disk) /\ dirty' = FALSE /\ alone' = None
      /\ excused' = (IF disk = Torn THEN excused ELSE {})
      /\ UNCHANGED <<now, disk, tmp, job>>
    BY DEF File!Start
<1>2. File!Busy = {} /\ File!Busy' = {}
    BY <1>1 DEF FileInv, OneFlush, File!Busy
<1> DEFINE read == File!Load(disk)
<1>3. /\ DOMAIN read \subseteq Node
      /\ \A n \in DOMAIN read : read[n] \in 0..MaxNow /\ File!Current(read[n])
      /\ read = [n \in DOMAIN read |-> read[n]]
    <2>1. CASE disk = Torn
        <3>1. read = [n \in {} |-> File!Max({r.at : r \in {k \in {} : k.node = n}})]
            BY <2>1 DEF File!Load
        <3> HIDE DEF read
        <3> QED
            BY <3>1
    <2>2. CASE disk # Torn
        BY <2>2, LoadIs DEF FileInv, FileTypes
    <2> QED
        BY <2>1, <2>2
<1>4. File!Load(disk)' = read
    BY <1>1 DEF File!Load, File!Current
<1> HIDE DEF read
<1>5. stats' = read
    BY <1>1 DEF read
<1>6. File!Live' = [n \in {m \in DOMAIN read : File!Current(read[m])} |-> read[n]]
    BY <1>1, <1>5 DEF File!Live, File!Restrict, File!Current
<1>7. File!Live' = read
    <2>1. {m \in DOMAIN read : File!Current(read[m])} = DOMAIN read
        BY <1>3
    <2> QED
        BY <1>3, <1>6, <2>1
<1>8. FileTypes'
    BY <1>1, <1>3, <1>5 DEF FileInv, FileTypes
<1>9. disk' = Torn => "overlap" \in excused'
    BY <1>1 DEF FileInv
<1> QED
    BY <1>1, <1>2, <1>4, <1>7, <1>8, <1>9 DEF FileInv, OneFlush, Flushing

\* Every step of the store keeps FileInv.
LEMMA ScoresStep == FileInv /\ [File!Next]_(File!vars) => FileInv'
<1> SUFFICES ASSUME FileInv, [File!Next]_(File!vars) PROVE FileInv'
    OBVIOUS
<1>1. CASE UNCHANGED File!vars
    <2>1. File!Busy' = File!Busy /\ File!Live' = File!Live /\ File!Load(disk)' = File!Load(disk)
          /\ \A g \in File!Flusher : File!Load(job[g].doc)' = File!Load(job[g].doc)
        BY <1>1, LoadsSame DEF File!vars, File!Busy
    <2>2. UNCHANGED <<File!storeVars, disk, tmp, alone, excused, job, up>>
        BY <1>1 DEF File!vars
    <2> QED
        BY <2>1, <2>2, JobsEnd DEF FileInv, FileTypes, OneFlush
<1> QED
    BY <1>1, ObserveKeeps, ResetKeeps, FlushKeeps, SkipKeeps, FailKeeps, CreateKeeps, WriteKeeps,
       RenameKeeps, DeathKeeps, StartReads
    DEF File!Next

LEMMA SavedThen == FileInv => File!ScoresAreSaved
BY DEF FileInv, File!ScoresAreSaved
-----------------------------------------------------------------------------
(* Side by side.                                                           *)

\* The score file behaves as it does alone.
LEMMA FileBehaves == HealthSpec => File!Spec
<1>1. HealthInit => File!Init
    BY DEF HealthInit
<1>2. [HealthNext]_<<vars, scoreVars, fileVars>> => [File!Next]_(File!vars)
    BY DEF HealthNext, fileVars, File!vars, File!storeVars
<1> QED
    BY <1>1, <1>2, PTL DEF HealthSpec, File!Spec

\* A restart knows what the daemon knew, unless it was not flushed yet, and the
\* file can be read at every moment, with the exceptions ScoresAreSaved names
\* (Flush, load).
THEOREM ScoresOutliveRestarts == HealthSpec => []ScoresAreSaved
<1>1. FileInv => ScoresAreSaved
    BY SavedThen DEF ScoresAreSaved
<1> QED
    BY <1>1, FileBehaves, ScoresStart, ScoresStep, PTL DEF File!Spec
=============================================================================
