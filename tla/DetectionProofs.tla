-------------------------- MODULE DetectionProofs --------------------------
(***************************************************************************)
(* Proofs about Detection for any connections, lists, feeds, thresholds and *)
(* files: the connections that are judged, then the log and its totals.     *)
(* Each part is proved by itself and, at the end, side by side.             *)
(***************************************************************************)
EXTENDS Detection, FiniteSetTheorems, SequenceTheorems, TLAPS
-----------------------------------------------------------------------------
(***************************************************************************)
(* Connections that are judged                                             *)
(***************************************************************************)
Listed(f) == Judged!Banned(flow[f].dest) \subseteq quarantine \cup released
Told(f) == \E x \in findings : x.flow = f

\* Records of connections, where their fields are looked at.
Fields == {"dest", "udp", "denied", "up", "down", "block", "emitted", "reader", "told", "action",
           "closer", "toldLate", "killed"}
IsFlow(e) == e = [x \in Fields |-> e[x]]

FlowTypes ==
    /\ DOMAIN flow = Flow
    /\ \A f \in Flow : IsFlow(flow[f]) /\ (flow[f].reader # "off" => flow[f].dest \in Dest)

\* What has been done when a connection is killed, and what is still to be done
\* on the way there.
OnTheWay(f) ==
    /\ flow[f].emitted \/ flow[f].reader \in {"intel", "drop", "kill"} \/ flow[f].killed => Told(f)
    /\ flow[f].reader \in {"ban", "emit"} /\ flow[f].told => Told(f)
    /\ flow[f].reader \in {"drop", "emit", "kill"} \/ flow[f].killed => Listed(f)
    /\ flow[f].reader = "off" => flow[f] = Judged!NoFlow

KillInv == FlowTypes /\ \A f \in Flow : OnTheWay(f)

\* The quarantine holds at least one of the values of a destination.
LEMMA BannedIsSome ==
    ASSUME NEW d \in Dest
    PROVE  /\ Judged!Both(d) \cap Judged!Banned(d) # {}
           /\ {d.to} \cap Addr \subseteq Judged!Banned(d)
<1>1. d.host \in Name \cup Addr /\ d.to \in Name \cup Addr
    BY DetectionAssumption DEF Judged!DisposalAssumption
<1> QED
    BY <1>1 DEF Judged!Both, Judged!Banned

\* Nothing leaves the two lists together, and no finding is taken back.
Kept ==
    /\ quarantine \cup released \subseteq quarantine' \cup released'
    /\ findings \subseteq findings'

LEMMA ReportTells == ASSUME NEW f, NEW action, Judged!Report(f, action) PROVE Told(f)'
<1>1. [flow |-> f, action |-> action] \in findings'
    BY DEF Judged!Report
<1> QED
    BY <1>1 DEF Told

LEMMA KeptStays ==
    ASSUME Kept, NEW f
    PROVE  /\ Told(f) => Told(f)'
           /\ Listed(f) /\ flow'[f].dest = flow[f].dest => Listed(f)'
BY DEF Kept, Told, Listed

\* The other connections are what they were.
LEMMA OthersStay ==
    ASSUME KillInv, Kept, NEW f \in Flow, NEW e, flow' = [flow EXCEPT ![f] = e], IsFlow(e),
           e.reader # "off" => e.dest \in Dest, OnTheWay(f)'
    PROVE  KillInv'
<1>1. FlowTypes'
    BY DEF KillInv, FlowTypes
<1>2. ASSUME NEW g \in Flow, g # f PROVE OnTheWay(g)'
    <2>1. flow'[g] = flow[g]
        BY <1>2 DEF KillInv, FlowTypes
    <2> QED
        BY <2>1, <1>2, KeptStays DEF KillInv, OnTheWay
<1> QED
    BY <1>1, <1>2 DEF KillInv

LEMMA JudgedStays == KillInv /\ UNCHANGED flow /\ Kept => KillInv'
<1> SUFFICES ASSUME KillInv, UNCHANGED flow, Kept PROVE KillInv'
    OBVIOUS
<1>1. FlowTypes'
    BY DEF KillInv, FlowTypes
<1>2. ASSUME NEW f \in Flow PROVE OnTheWay(f)'
    BY KeptStays DEF KillInv, OnTheWay
<1> QED
    BY <1>1, <1>2 DEF KillInv

LEMMA FlowIs == IsFlow(Judged!NoFlow)
BY DEF IsFlow, Judged!NoFlow, Fields

\* Each step of a connection.
LEMMA ConnectionKeeps == ASSUME KillInv, NEW f \in Flow, Judged!Connection(f) PROVE KillInv'
<1> DEFINE e == flow[f]
<1>0. IsFlow(e) /\ OnTheWay(f) /\ (e.reader # "off" => e.dest \in Dest) /\ DOMAIN flow = Flow
    BY DEF KillInv, FlowTypes
<1>1. ASSUME NEW d \in Dest, NEW udp \in BOOLEAN, NEW denied \in BOOLEAN,
          Judged!Track(f, d, udp, denied)
      PROVE  KillInv'
    <2> DEFINE hit == Judged!Both(d) \cap (feed \cup Static) # {}
               n == [Judged!NoFlow EXCEPT
                       !.dest = d, !.udp = udp, !.denied = denied, !.block = hit,
                       !.reader = IF hit /\ config.auto /\ ~udp THEN "intel" ELSE "idle"]
    <2>1. flow' = [flow EXCEPT ![f] = n] /\ Kept
        BY <1>1 DEF Judged!Track, Judged!Set, Kept, Judged!Report
    <2>2. IsFlow(n) /\ n.dest = d /\ n.reader \in {"intel", "idle"} /\ ~n.emitted /\ ~n.killed
        BY DEF IsFlow, Judged!NoFlow, Fields
    <2>3. n.reader = "intel" => Told(f)'
        BY <1>1, <2>2, ReportTells DEF Judged!Track
    <2>4. flow'[f] = n
        BY <2>1, <1>0
    <2>5. OnTheWay(f)'
        BY <2>2, <2>3, <2>4 DEF OnTheWay
    <2> QED
        BY <2>1, <2>2, <2>5, OthersStay
<1>2. CASE Judged!BanIntel(f)
    <2> DEFINE n == [e EXCEPT !.reader = "drop"]
    <2>1. flow' = [flow EXCEPT ![f] = n] /\ Kept /\ e.reader = "intel"
        BY <1>2 DEF Judged!BanIntel, Judged!Set, Kept, Judged!Ban
    <2>2. IsFlow(n) /\ n.dest = e.dest /\ n.reader = "drop" /\ n.emitted = e.emitted
              /\ n.killed = e.killed
        BY <1>0 DEF IsFlow, Fields
    <2>3. flow'[f] = n
        BY <2>1, <1>0
    <2>4. Told(f)'
        BY <1>0, <2>1, KeptStays DEF OnTheWay
    <2>5. Listed(f)'
        BY <1>2, <2>2, <2>3 DEF Judged!BanIntel, Judged!Ban, Listed
    <2>6. OnTheWay(f)'
        BY <2>2, <2>3, <2>4, <2>5 DEF OnTheWay
    <2> QED
        BY <2>1, <2>2, <2>6, <1>0, OthersStay
<1>3. CASE Judged!DropIntel(f)
    <2> DEFINE n == [e EXCEPT !.reader = "idle", !.killed = TRUE, !.closer = "score"]
    <2>1. flow' = [flow EXCEPT ![f] = n] /\ Kept /\ e.reader = "drop"
        BY <1>3 DEF Judged!DropIntel, Judged!Set, Kept
    <2>2. IsFlow(n) /\ n.dest = e.dest /\ n.reader = "idle"
        BY <1>0 DEF IsFlow, Fields
    <2>3. flow'[f] = n
        BY <2>1, <1>0
    <2>4. Told(f)' /\ Listed(f)'
        BY <1>0, <2>1, <2>2, <2>3, KeptStays DEF OnTheWay
    <2>5. OnTheWay(f)'
        BY <2>2, <2>3, <2>4 DEF OnTheWay
    <2> QED
        BY <2>1, <2>2, <2>5, <1>0, OthersStay
<1>4. CASE Judged!BanMidStream(f)
    <2> DEFINE n == [e EXCEPT !.reader = "emit"]
    <2>1. flow' = [flow EXCEPT ![f] = n] /\ Kept /\ e.reader = "ban"
        BY <1>4 DEF Judged!BanMidStream, Judged!Set, Kept, Judged!Ban
    <2>2. /\ IsFlow(n) /\ n.dest = e.dest /\ n.reader = "emit"
          /\ n.emitted = e.emitted /\ n.killed = e.killed /\ n.told = e.told
        BY <1>0 DEF IsFlow, Fields
    <2>3. flow'[f] = n
        BY <2>1, <1>0
    <2>4. Listed(f)'
        BY <1>4, <2>2, <2>3 DEF Judged!BanMidStream, Judged!Ban, Listed
    <2>5. OnTheWay(f)'
        BY <1>0, <2>1, <2>2, <2>3, <2>4, KeptStays DEF OnTheWay
    <2> QED
        BY <2>1, <2>2, <2>5, <1>0, OthersStay
<1>5. CASE Judged!EmitMidStream(f)
    <2> DEFINE n == [e EXCEPT !.reader = "kill", !.emitted = TRUE]
    <2>1. flow' = [flow EXCEPT ![f] = n] /\ Kept /\ e.reader = "emit"
        BY <1>5 DEF Judged!EmitMidStream, Judged!Set, Kept, Judged!Report
    <2>2. /\ IsFlow(n) /\ n.dest = e.dest /\ n.reader = "kill" /\ n.killed = e.killed
        BY <1>0 DEF IsFlow, Fields
    <2>3. flow'[f] = n
        BY <2>1, <1>0
    <2>4. Told(f)'
        <3>1. CASE e.told
            BY <1>0, <2>1, <3>1, KeptStays DEF OnTheWay
        <3>2. CASE ~e.told
            BY <1>5, <3>2, ReportTells DEF Judged!EmitMidStream
        <3> QED
            BY <3>1, <3>2
    <2>5. Listed(f)'
        BY <1>0, <2>1, <2>2, <2>3, KeptStays DEF OnTheWay
    <2>6. OnTheWay(f)'
        BY <2>2, <2>3, <2>4, <2>5 DEF OnTheWay
    <2> QED
        BY <2>1, <2>2, <2>6, <1>0, OthersStay
<1>6. CASE Judged!Kill(f)
    <2> DEFINE n == [e EXCEPT !.reader = "idle", !.killed = TRUE]
    <2>1. flow' = [flow EXCEPT ![f] = n] /\ Kept /\ e.reader = "kill"
        BY <1>6 DEF Judged!Kill, Judged!Set, Kept
    <2>2. IsFlow(n) /\ n.dest = e.dest /\ n.reader = "idle"
        BY <1>0 DEF IsFlow, Fields
    <2>3. flow'[f] = n
        BY <2>1, <1>0
    <2>4. Told(f)' /\ Listed(f)'
        BY <1>0, <2>1, <2>2, <2>3, KeptStays DEF OnTheWay
    <2>5. OnTheWay(f)'
        BY <2>2, <2>3, <2>4 DEF OnTheWay
    <2> QED
        BY <2>1, <2>2, <2>5, <1>0, OthersStay
<1>7. CASE Judged!FinalEmit(f)
    <2> DEFINE n == IF e.toldLate THEN [e EXCEPT !.closer = "done"]
                    ELSE [e EXCEPT !.closer = "done", !.emitted = TRUE]
    <2>1. flow' = [flow EXCEPT ![f] = n] /\ Kept /\ e.closer \in {"emit", "alert"}
        BY <1>7 DEF Judged!FinalEmit, Judged!Set, Kept, Judged!Report
    <2>2. /\ IsFlow(n) /\ n.dest = e.dest /\ n.reader = e.reader /\ n.killed = e.killed
          /\ n.told = e.told /\ (e.toldLate => n.emitted = e.emitted)
        BY <1>0 DEF IsFlow, Fields
    <2>3. flow'[f] = n
        BY <2>1, <1>0
    <2>4. n.emitted => Told(f)'
        <3>1. CASE e.toldLate
            BY <1>0, <2>1, <2>2, <3>1, KeptStays DEF OnTheWay
        <3>2. CASE ~e.toldLate
            BY <1>7, <3>2, ReportTells DEF Judged!FinalEmit
        <3> QED
            BY <3>1, <3>2
    <2>5. e.reader # "off"
        BY <1>0, <2>1 DEF OnTheWay, Judged!NoFlow
    <2>6. OnTheWay(f)'
        BY <1>0, <2>1, <2>2, <2>3, <2>4, <2>5, KeptStays DEF OnTheWay
    <2> QED
        BY <2>1, <2>2, <2>6, <1>0, OthersStay
\* Steps that look and decide: nothing is emitted or killed by them.
<1>8. ASSUME NEW n, flow' = [flow EXCEPT ![f] = n], Kept, IsFlow(n), n.dest = e.dest,
             n.emitted = e.emitted, n.killed = e.killed, e.reader # "off",
             \/ n.reader = e.reader /\ n.told = e.told
             \/ n.reader \in {"idle", "trust", "ready"}
             \/ n.reader = "ban" /\ n.told = e.emitted
      PROVE  KillInv'
    <2>1. flow'[f] = n
        BY <1>8, <1>0
    <2>2. OnTheWay(f)'
        BY <1>0, <1>8, <2>1, KeptStays DEF OnTheWay
    <2> QED
        BY <1>0, <1>8, <2>2, OthersStay
<1>9. CASE Judged!Read(f)
    <2> DEFINE more == [e EXCEPT !.up = @ + 1]
               n == [more EXCEPT
                         !.reader = IF config.auto /\ more.up >= config.limit /\ ~more.denied
                             /\ ~more.block
                                          THEN "trust" ELSE "idle"]
    <2>1. flow' = [flow EXCEPT ![f] = n] /\ Kept /\ e.reader = "idle"
        BY <1>9, <1>0 DEF Judged!Read, Judged!Set, Kept, IsFlow
    <2>2. /\ IsFlow(n) /\ n.dest = e.dest /\ n.emitted = e.emitted /\ n.killed = e.killed
          /\ n.reader \in {"idle", "trust"}
        BY <1>0 DEF IsFlow, Fields
    <2> QED
        BY <2>1, <2>2, <1>8
<1>10. CASE Judged!Write(f)
    <2> DEFINE n == [e EXCEPT !.down = 1]
    <2>1. flow' = [flow EXCEPT ![f] = n] /\ Kept /\ e.reader # "off"
        BY <1>10, <1>0 DEF Judged!Write, Judged!Set, Kept, Judged!Streaming, OnTheWay, Judged!NoFlow
    <2>2. /\ IsFlow(n) /\ n.dest = e.dest /\ n.emitted = e.emitted /\ n.killed = e.killed
          /\ n.reader = e.reader /\ n.told = e.told
        BY <1>0 DEF IsFlow, Fields
    <2> QED
        BY <2>1, <2>2, <1>8
<1>11. CASE Judged!CheckTrust(f)
    <2> DEFINE n == [e EXCEPT !.reader = IF Judged!Trusted(e.dest) THEN "idle" ELSE "ready"]
    <2>1. flow' = [flow EXCEPT ![f] = n] /\ Kept /\ e.reader = "trust"
        BY <1>11 DEF Judged!CheckTrust, Judged!Set, Kept
    <2>2. /\ IsFlow(n) /\ n.dest = e.dest /\ n.emitted = e.emitted /\ n.killed = e.killed
          /\ n.reader \in {"idle", "ready"}
        BY <1>0 DEF IsFlow, Fields
    <2> QED
        BY <2>1, <2>2, <1>8
<1>12. CASE Judged!CheckReady(f)
    <2> DEFINE n == IF Judged!Shaped(f) /\ Judged!CanDispose
                    THEN [e EXCEPT !.reader = "ban", !.block = TRUE, !.told = e.emitted,
                                   !.action = Judged!Action]
                    ELSE [e EXCEPT !.reader = "idle"]
    <2>1. flow' = [flow EXCEPT ![f] = n] /\ Kept /\ e.reader = "ready"
        BY <1>12 DEF Judged!CheckReady, Judged!Set, Kept
    <2>2. /\ IsFlow(n) /\ n.dest = e.dest /\ n.emitted = e.emitted /\ n.killed = e.killed
          /\ (n.reader = "idle" \/ (n.reader = "ban" /\ n.told = e.emitted))
        BY <1>0 DEF IsFlow, Fields
    <2> QED
        BY <2>1, <2>2, <1>8
<1>13. CASE Judged!Close(f)
    <2> DEFINE n == [e EXCEPT !.closer = "score"]
    <2>1. flow' = [flow EXCEPT ![f] = n] /\ Kept /\ e.reader # "off"
        BY <1>13, <1>0 DEF Judged!Close, Judged!Set, Kept, OnTheWay, Judged!NoFlow
    <2>2. /\ IsFlow(n) /\ n.dest = e.dest /\ n.emitted = e.emitted /\ n.killed = e.killed
          /\ n.reader = e.reader /\ n.told = e.told
        BY <1>0 DEF IsFlow, Fields
    <2> QED
        BY <2>1, <2>2, <1>8
<1>14. CASE Judged!Score(f)
    <2> DEFINE place == CASE e.up < config.limit \/ ~Judged!Shaped(f) -> "done"
                          [] e.up >= config.limit /\ Judged!Shaped(f) /\ config.auto
                              /\ ~e.denied -> "trust"
                          [] OTHER -> "alert"
               n == [e EXCEPT !.toldLate = e.emitted, !.closer = place]
    <2>1. flow' = [flow EXCEPT ![f] = n] /\ Kept /\ e.reader # "off"
        BY <1>14, <1>0 DEF Judged!Score, Judged!Set, Kept, OnTheWay, Judged!NoFlow
    <2> HIDE DEF place
    <2>2. /\ IsFlow(n) /\ n.dest = e.dest /\ n.emitted = e.emitted /\ n.killed = e.killed
          /\ n.reader = e.reader /\ n.told = e.told
        BY <1>0 DEF IsFlow, Fields
    <2> QED
        BY <2>1, <2>2, <1>8
<1>15. CASE Judged!FinalTrust(f)
    <2> DEFINE n == [e EXCEPT !.closer = IF Judged!Trusted(e.dest) THEN "alert" ELSE "ready"]
    <2>1. flow' = [flow EXCEPT ![f] = n] /\ Kept /\ e.reader # "off"
        BY <1>15, <1>0 DEF Judged!FinalTrust, Judged!Set, Kept, OnTheWay, Judged!NoFlow
    <2>2. /\ IsFlow(n) /\ n.dest = e.dest /\ n.emitted = e.emitted /\ n.killed = e.killed
          /\ n.reader = e.reader /\ n.told = e.told
        BY <1>0 DEF IsFlow, Fields
    <2> QED
        BY <2>1, <2>2, <1>8
<1>16. CASE Judged!FinalReady(f)
    <2> DEFINE n == IF Judged!CanDispose THEN [e EXCEPT !.closer = "ban", !.block = TRUE]
                    ELSE [e EXCEPT !.closer = "alert"]
    <2>1. flow' = [flow EXCEPT ![f] = n] /\ Kept /\ e.reader # "off"
        BY <1>16, <1>0 DEF Judged!FinalReady, Judged!Set, Kept, OnTheWay, Judged!NoFlow
    <2>2. /\ IsFlow(n) /\ n.dest = e.dest /\ n.emitted = e.emitted /\ n.killed = e.killed
          /\ n.reader = e.reader /\ n.told = e.told
        BY <1>0 DEF IsFlow, Fields
    <2> QED
        BY <2>1, <2>2, <1>8
<1>17. CASE Judged!FinalBan(f)
    <2> DEFINE n == [e EXCEPT !.closer = "emit"]
    <2>1. flow' = [flow EXCEPT ![f] = n] /\ Kept /\ e.reader # "off"
        BY <1>17, <1>0 DEF Judged!FinalBan, Judged!Set, Kept, Judged!Ban, OnTheWay, Judged!NoFlow
    <2>2. /\ IsFlow(n) /\ n.dest = e.dest /\ n.emitted = e.emitted /\ n.killed = e.killed
          /\ n.reader = e.reader /\ n.told = e.told
        BY <1>0 DEF IsFlow, Fields
    <2> QED
        BY <2>1, <2>2, <1>8
<1> QED
    BY <1>1, <1>2, <1>3, <1>4, <1>5, <1>6, <1>7, <1>9, <1>10, <1>11, <1>12, <1>13, <1>14, <1>15,
       <1>16, <1>17
    DEF Judged!Connection

LEMMA KillStart == Judged!Init => KillInv
<1> SUFFICES ASSUME Judged!Init PROVE KillInv
    OBVIOUS
<1>1. ASSUME NEW f \in Flow PROVE flow[f] = Judged!NoFlow
    BY DEF Judged!Init
<1>2. ASSUME NEW f \in Flow PROVE IsFlow(flow[f]) /\ OnTheWay(f) /\ flow[f].reader = "off"
    <2>1. /\ Judged!NoFlow.reader = "off" /\ ~Judged!NoFlow.emitted /\ ~Judged!NoFlow.killed
        BY DEF Judged!NoFlow
    <2> QED
        BY <1>1, <1>2, <2>1, FlowIs DEF OnTheWay
<1> QED
    BY <1>2 DEF KillInv, FlowTypes, Judged!Init

LEMMA KillStep == KillInv /\ [Judged!Next]_(Judged!vars) => KillInv'
<1> SUFFICES ASSUME KillInv, [Judged!Next]_(Judged!vars) PROVE KillInv'
    OBVIOUS
<1>1. ASSUME NEW f \in Flow, Judged!Connection(f) PROVE KillInv'
    BY <1>1, ConnectionKeeps
<1>2. CASE Judged!Operator \/ Judged!Background \/ UNCHANGED Judged!vars
    <2>1. UNCHANGED flow
        BY <1>2 DEF Judged!Operator, Judged!Background, Judged!EditWhitelist, Judged!EditSets,
            Judged!Age, Judged!SaveSettings, Judged!ApplySettings, Judged!Release,
            Judged!Publish, Judged!MarkWarm, Judged!Refresh, Judged!vars, Judged!flowVars
    <2>2. Kept
        BY <1>2 DEF Judged!Operator, Judged!Background, Judged!EditWhitelist, Judged!EditSets,
            Judged!Age, Judged!SaveSettings, Judged!ApplySettings, Judged!Release,
            Judged!Publish, Judged!MarkWarm, Judged!Refresh, Judged!vars, Judged!flowVars, Kept
    <2> QED
        BY <2>1, <2>2, JudgedStays
<1> QED
    BY <1>1, <1>2 DEF Judged!Next

LEMMA KillsAre == KillInv => Judged!KillsAreListed
<1> SUFFICES ASSUME KillInv, NEW f \in Flow, flow[f].killed
             PROVE  /\ Judged!Both(flow[f].dest) \cap (quarantine \cup released) # {}
                    /\ {flow[f].dest.to} \cap Addr \subseteq quarantine \cup released
                    /\ \E x \in findings : x.flow = f
    BY DEF Judged!KillsAreListed
<1>1. Told(f) /\ Listed(f)
    BY DEF KillInv, OnTheWay
<1>2. flow[f].dest \in Dest
    BY DEF KillInv, FlowTypes, OnTheWay, Judged!NoFlow
<1> QED
    BY <1>1, <1>2, BannedIsSome DEF Told, Listed
-----------------------------------------------------------------------------
(* What is approved.  A check that has found an approved destination not to *)
(* be trusted has come before disposal was ready, and unless it has gone on  *)
(* while disposal got ready (straddled) it finds that disposal is not.       *)

Excused(f) ==
    /\ flow[f].reader # "ban" /\ flow[f].closer # "ban"
    /\ "ready" \in {flow[f].reader, flow[f].closer} => ~Judged!CanDispose
StandsApproved(f) ==
    Judged!Approves(flow[f].dest, whitelist, sets, index, Judged!Passed, stored.needWarm)

ApprovalInv ==
    /\ \A f \in approved : f \in Flow /\ flow[f].reader # "off" /\ StandsApproved(f)
    /\ \A f \in approved \ straddled : Excused(f)

\* Nothing that trust or readiness depends on changes.
ListsStay == UNCHANGED <<Judged!policyVars, stored, straddled>>

LEMMA ListsStayOn ==
    ASSUME ListsStay, NEW f, flow'[f] = flow[f]
    PROVE  /\ StandsApproved(f) => StandsApproved(f)'
           /\ Excused(f) => Excused(f)'
BY DEF ListsStay, Judged!policyVars, StandsApproved, Excused, Judged!CanDispose,
    Judged!Approves, Judged!Passed

\* A step of a connection that was there before.
LEMMA StepKeeps ==
    ASSUME KillInv, ApprovalInv, ListsStay, UNCHANGED approved, NEW f \in Flow, NEW n,
           flow' = [flow EXCEPT ![f] = n], n.dest = flow[f].dest, n.reader # "off",
           f \in approved \ straddled => Excused(f)'
    PROVE  ApprovalInv'
<1>1. DOMAIN flow = Flow
    BY DEF KillInv, FlowTypes
<1>2. ASSUME NEW g \in approved'
      PROVE  g \in Flow /\ flow'[g].reader # "off" /\ StandsApproved(g)'
    <2>1. CASE g = f
        <3>1. StandsApproved(f)
            BY <1>2, <2>1 DEF ApprovalInv
        <3>2. flow'[f].dest = flow[f].dest /\ flow'[f].reader # "off"
            BY <1>1
        <3>3. StandsApproved(f)'
            BY <3>1, <3>2 DEF ListsStay, Judged!policyVars, StandsApproved, Judged!Approves,
                Judged!Passed
        <3> QED
            BY <2>1, <3>2, <3>3
    <2>2. CASE g # f
        <3>1. flow'[g] = flow[g]
            BY <1>1, <1>2, <2>2 DEF ApprovalInv
        <3> QED
            BY <1>2, <3>1, ListsStayOn DEF ApprovalInv
    <2> QED
        BY <2>1, <2>2
<1>3. ASSUME NEW g \in approved' \ straddled' PROVE Excused(g)'
    <2>1. g \in approved \ straddled
        BY <1>3 DEF ListsStay
    <2>2. CASE g = f
        BY <2>1, <2>2
    <2>3. CASE g # f
        <3>1. flow'[g] = flow[g]
            BY <1>1, <2>1, <2>3 DEF ApprovalInv
        <3> QED
            BY <2>1, <3>1, ListsStayOn DEF ApprovalInv
    <2> QED
        BY <2>2, <2>3
<1> QED
    BY <1>2, <1>3 DEF ApprovalInv

\* Whoever is approved and not trusted is so because disposal waits.
LEMMA UntrustedWaits ==
    ASSUME NEW f, StandsApproved(f), ~Judged!Trusted(flow[f].dest)
    PROVE  ~Judged!CanDispose
BY DEF StandsApproved, Judged!Approves, Judged!Trusted, Judged!CanDispose, Judged!Passed

LEMMA TrackApproves ==
    ASSUME KillInv, ApprovalInv, NEW f \in Flow, NEW d \in Dest, NEW udp \in BOOLEAN,
           NEW denied \in BOOLEAN, Judged!Track(f, d, udp, denied)
    PROVE  ApprovalInv'
<1> DEFINE hit == Judged!Both(d) \cap (feed \cup Static) # {}
           n == [Judged!NoFlow EXCEPT
                   !.dest = d, !.udp = udp, !.denied = denied, !.block = hit,
                   !.reader = IF hit /\ config.auto /\ ~udp THEN "intel" ELSE "idle"]
<1>1. flow' = [flow EXCEPT ![f] = n] /\ flow[f] = Judged!NoFlow /\ DOMAIN flow = Flow /\ ListsStay
    BY DEF Judged!Track, Judged!Set, KillInv, FlowTypes, ListsStay, Judged!settingVars
<1>2. n.dest = d /\ n.reader \in {"intel", "idle"} /\ n.closer = "off"
    BY DEF Judged!NoFlow
<1>3. f \notin approved
    BY <1>1 DEF ApprovalInv, Judged!NoFlow
<1>4. flow'[f] = n
    BY <1>1
<1>5. ASSUME f \in approved' PROVE StandsApproved(f)'
    <2>1. Judged!Approves(d, whitelist, sets, index, Judged!Passed, stored.needWarm)
        BY <1>3, <1>5 DEF Judged!Track
    <2> QED
        BY <2>1, <1>1, <1>2, <1>4 DEF ListsStay, Judged!policyVars, StandsApproved,
            Judged!Approves, Judged!Passed
<1>6. Excused(f)'
    BY <1>2, <1>4 DEF Excused
<1>7. approved' \subseteq approved \cup {f}
    BY DEF Judged!Track
<1>8. ASSUME NEW g \in approved', g # f
      PROVE  /\ g \in Flow /\ flow'[g].reader # "off" /\ StandsApproved(g)'
             /\ g \notin straddled' => Excused(g)'
    <2>1. g \in approved /\ g \in Flow
        BY <1>7, <1>8 DEF ApprovalInv
    <2>2. flow'[g] = flow[g]
        BY <1>1, <1>8, <2>1
    <2>3. StandsApproved(g)' /\ (Excused(g) => Excused(g)')
        BY <2>1, <2>2, <1>1, ListsStayOn DEF ApprovalInv
    <2> QED
        BY <1>1, <2>1, <2>2, <2>3 DEF ApprovalInv, ListsStay
<1> QED
    BY <1>2, <1>4, <1>5, <1>6, <1>8 DEF ApprovalInv

LEMMA ConnectionApproves ==
    ASSUME KillInv, ApprovalInv, NEW f \in Flow, Judged!Connection(f)
    PROVE  ApprovalInv'
<1> DEFINE e == flow[f]
<1>0. IsFlow(e) /\ OnTheWay(f) /\ DOMAIN flow = Flow
    BY DEF KillInv, FlowTypes
<1>1. CASE \E d \in Dest, udp, denied \in BOOLEAN : Judged!Track(f, d, udp, denied)
    BY <1>1, TrackApproves
\* No step comes nearer to a ban but those that ask.
<1>2. ASSUME ListsStay, UNCHANGED approved, NEW n, flow' = [flow EXCEPT ![f] = n], IsFlow(e),
             n.dest = e.dest, n.reader # "off",
             n.reader \notin {"ban", "ready"} \/ n.reader = e.reader,
             n.closer \notin {"ban", "ready"} \/ n.closer = e.closer
      PROVE  ApprovalInv'
    <2>1. flow'[f] = n
        BY <1>0, <1>2
    <2>2. ASSUME f \in approved \ straddled PROVE Excused(f)'
        <3>1. Excused(f)
            BY <2>2 DEF ApprovalInv
        <3> QED
            BY <3>1, <1>2, <2>1 DEF Excused, ListsStay, Judged!policyVars, Judged!CanDispose
    <2> QED
        BY <1>2, <2>2, StepKeeps
<1>4. CASE \/ Judged!BanIntel(f) \/ Judged!DropIntel(f) \/ Judged!BanMidStream(f)
          \/ Judged!EmitMidStream(f)
           \/ Judged!Kill(f) \/ Judged!Read(f) \/ Judged!Write(f) \/ Judged!Close(f)
                  \/ Judged!FinalBan(f)
    <2>1. ListsStay /\ UNCHANGED approved
        BY <1>4 DEF Judged!BanIntel, Judged!DropIntel, Judged!BanMidStream,
            Judged!EmitMidStream, Judged!Kill, Judged!Read, Judged!Write, Judged!Close,
            Judged!FinalBan, ListsStay, Judged!settingVars
    <2>2. CASE Judged!BanIntel(f)
        <3> DEFINE n == [e EXCEPT !.reader = "drop"]
        <3>1. flow' = [flow EXCEPT ![f] = n]
            BY <2>2 DEF Judged!BanIntel, Judged!Set
        <3>2. n.dest = e.dest /\ n.reader = "drop" /\ n.closer = e.closer
            BY <1>0 DEF IsFlow, Fields
        <3> QED
            BY <1>0, <2>1, <3>1, <3>2, <1>2
    <2>3. CASE Judged!DropIntel(f)
        <3> DEFINE n == [e EXCEPT !.reader = "idle", !.killed = TRUE, !.closer = "score"]
        <3>1. flow' = [flow EXCEPT ![f] = n]
            BY <2>3 DEF Judged!DropIntel, Judged!Set
        <3>2. n.dest = e.dest /\ n.reader = "idle" /\ n.closer = "score"
            BY <1>0 DEF IsFlow, Fields
        <3> QED
            BY <1>0, <2>1, <3>1, <3>2, <1>2
    <2>4. CASE Judged!BanMidStream(f)
        <3> DEFINE n == [e EXCEPT !.reader = "emit"]
        <3>1. flow' = [flow EXCEPT ![f] = n]
            BY <2>4 DEF Judged!BanMidStream, Judged!Set
        <3>2. n.dest = e.dest /\ n.reader = "emit" /\ n.closer = e.closer
            BY <1>0 DEF IsFlow, Fields
        <3> QED
            BY <1>0, <2>1, <3>1, <3>2, <1>2
    <2>5. CASE Judged!EmitMidStream(f)
        <3> DEFINE n == [e EXCEPT !.reader = "kill", !.emitted = TRUE]
        <3>1. flow' = [flow EXCEPT ![f] = n]
            BY <2>5 DEF Judged!EmitMidStream, Judged!Set
        <3>2. n.dest = e.dest /\ n.reader = "kill" /\ n.closer = e.closer
            BY <1>0 DEF IsFlow, Fields
        <3> QED
            BY <1>0, <2>1, <3>1, <3>2, <1>2
    <2>6. CASE Judged!Kill(f)
        <3> DEFINE n == [e EXCEPT !.reader = "idle", !.killed = TRUE]
        <3>1. flow' = [flow EXCEPT ![f] = n]
            BY <2>6 DEF Judged!Kill, Judged!Set
        <3>2. n.dest = e.dest /\ n.reader = "idle" /\ n.closer = e.closer
            BY <1>0 DEF IsFlow, Fields
        <3> QED
            BY <1>0, <2>1, <3>1, <3>2, <1>2
    <2>7. CASE Judged!Read(f)
        <3> DEFINE more == [e EXCEPT !.up = @ + 1]
                   n == [more EXCEPT
                         !.reader = IF config.auto /\ more.up >= config.limit /\ ~more.denied
                             /\ ~more.block
                                              THEN "trust" ELSE "idle"]
        <3>1. flow' = [flow EXCEPT ![f] = n]
            BY <2>7 DEF Judged!Read, Judged!Set
        <3>2. n.dest = e.dest /\ n.reader \in {"trust", "idle"} /\ n.closer = e.closer
            BY <1>0 DEF IsFlow, Fields
        <3> QED
            BY <1>0, <2>1, <3>1, <3>2, <1>2
    <2>8. CASE Judged!Write(f)
        <3> DEFINE n == [e EXCEPT !.down = 1]
        <3>1. flow' = [flow EXCEPT ![f] = n] /\ e.reader # "off"
            BY <2>8, <1>0 DEF Judged!Write, Judged!Set, Judged!Streaming, OnTheWay, Judged!NoFlow
        <3>2. n.dest = e.dest /\ n.reader = e.reader /\ n.closer = e.closer
            BY <1>0 DEF IsFlow, Fields
        <3> QED
            BY <1>0, <2>1, <3>1, <3>2, <1>2
    <2>9. CASE Judged!Close(f)
        <3> DEFINE n == [e EXCEPT !.closer = "score"]
        <3>1. flow' = [flow EXCEPT ![f] = n] /\ e.reader # "off"
            BY <2>9, <1>0 DEF Judged!Close, Judged!Set, OnTheWay, Judged!NoFlow
        <3>2. n.dest = e.dest /\ n.reader = e.reader /\ n.closer = "score"
            BY <1>0 DEF IsFlow, Fields
        <3> QED
            BY <1>0, <2>1, <3>1, <3>2, <1>2
    <2>10. CASE Judged!FinalBan(f)
        <3> DEFINE n == [e EXCEPT !.closer = "emit"]
        <3>1. flow' = [flow EXCEPT ![f] = n] /\ e.reader # "off"
            BY <2>10, <1>0 DEF Judged!FinalBan, Judged!Set, OnTheWay, Judged!NoFlow
        <3>2. n.dest = e.dest /\ n.reader = e.reader /\ n.closer = "emit"
            BY <1>0 DEF IsFlow, Fields
        <3> QED
            BY <1>0, <2>1, <3>1, <3>2, <1>2
    <2> QED
        BY <1>4, <2>2, <2>3, <2>4, <2>5, <2>6, <2>7, <2>8, <2>9, <2>10
<1>5. CASE Judged!Score(f)
    <2> DEFINE place == CASE e.up < config.limit \/ ~Judged!Shaped(f) -> "done"
                          [] e.up >= config.limit /\ Judged!Shaped(f) /\ config.auto
                              /\ ~e.denied -> "trust"
                          [] OTHER -> "alert"
               n == [e EXCEPT !.toldLate = e.emitted, !.closer = place]
    <2>1. /\ flow' = [flow EXCEPT ![f] = n] /\ e.reader # "off"
          /\ ListsStay /\ UNCHANGED approved
        BY <1>5, <1>0 DEF Judged!Score, Judged!Set, OnTheWay, Judged!NoFlow, ListsStay,
            Judged!settingVars
    <2>2. place \in {"done", "trust", "alert"}
        OBVIOUS
    <2> HIDE DEF place
    <2>3. n.dest = e.dest /\ n.reader = e.reader /\ n.closer = place
        BY <1>0 DEF IsFlow, Fields
    <2> QED
        BY <1>0, <2>1, <2>2, <2>3, <1>2
<1>6. CASE Judged!FinalEmit(f)
    <2> DEFINE n == IF e.toldLate THEN [e EXCEPT !.closer = "done"]
                    ELSE [e EXCEPT !.closer = "done", !.emitted = TRUE]
    <2>1. /\ flow' = [flow EXCEPT ![f] = n] /\ e.reader # "off"
          /\ ListsStay /\ UNCHANGED approved
        BY <1>6, <1>0 DEF Judged!FinalEmit, Judged!Set, OnTheWay, Judged!NoFlow, ListsStay,
            Judged!settingVars
    <2>2. n.dest = e.dest /\ n.reader = e.reader /\ n.closer = "done"
        BY <1>0 DEF IsFlow, Fields
    <2> QED
        BY <1>0, <2>1, <2>2, <1>2
\* The two questions, in this order.
<1>7. CASE Judged!CheckTrust(f)
    <2> DEFINE n == [e EXCEPT !.reader = IF Judged!Trusted(e.dest) THEN "idle" ELSE "ready"]
    <2>1. /\ flow' = [flow EXCEPT ![f] = n] /\ ListsStay /\ UNCHANGED approved
        BY <1>7 DEF Judged!CheckTrust, Judged!Set, ListsStay, Judged!settingVars
    <2>2. /\ n.dest = e.dest /\ n.closer = e.closer
          /\ n.reader = IF Judged!Trusted(e.dest) THEN "idle" ELSE "ready"
        BY <1>0 DEF IsFlow, Fields
    <2>3. flow'[f] = n
        BY <1>0, <2>1
    <2>4. ASSUME f \in approved \ straddled PROVE Excused(f)'
        <3>1. Excused(f) /\ StandsApproved(f)
            BY <2>4 DEF ApprovalInv
        <3>2. Judged!Trusted(e.dest) \/ ~Judged!CanDispose
            BY <3>1, UntrustedWaits
        <3>3. Judged!CanDispose' <=> Judged!CanDispose
            BY <2>1 DEF ListsStay, Judged!policyVars, Judged!CanDispose
        <3> QED
            BY <3>1, <3>2, <3>3, <2>2, <2>3 DEF Excused
    <2> HIDE DEF n
    <2> QED
        BY <1>0, <2>1, <2>2, <2>4, StepKeeps
<1>8. CASE Judged!FinalTrust(f)
    <2> DEFINE n == [e EXCEPT !.closer = IF Judged!Trusted(e.dest) THEN "alert" ELSE "ready"]
    <2>1. /\ flow' = [flow EXCEPT ![f] = n] /\ ListsStay /\ UNCHANGED approved /\ e.reader # "off"
        BY <1>8, <1>0 DEF Judged!FinalTrust, Judged!Set, ListsStay, Judged!settingVars,
            OnTheWay, Judged!NoFlow
    <2>2. /\ n.dest = e.dest /\ n.reader = e.reader
          /\ n.closer = IF Judged!Trusted(e.dest) THEN "alert" ELSE "ready"
        BY <1>0 DEF IsFlow, Fields
    <2>3. flow'[f] = n
        BY <1>0, <2>1
    <2>4. ASSUME f \in approved \ straddled PROVE Excused(f)'
        <3>1. Excused(f) /\ StandsApproved(f)
            BY <2>4 DEF ApprovalInv
        <3>2. Judged!Trusted(e.dest) \/ ~Judged!CanDispose
            BY <3>1, UntrustedWaits
        <3>3. Judged!CanDispose' <=> Judged!CanDispose
            BY <2>1 DEF ListsStay, Judged!policyVars, Judged!CanDispose
        <3> QED
            BY <3>1, <3>2, <3>3, <2>2, <2>3 DEF Excused
    <2> HIDE DEF n
    <2> QED
        BY <1>0, <2>1, <2>2, <2>4, StepKeeps
<1>9. CASE Judged!CheckReady(f)
    <2> DEFINE n == IF Judged!Shaped(f) /\ Judged!CanDispose
                    THEN [e EXCEPT !.reader = "ban", !.block = TRUE, !.told = e.emitted,
                                   !.action = Judged!Action]
                    ELSE [e EXCEPT !.reader = "idle"]
    <2>1. /\ flow' = [flow EXCEPT ![f] = n] /\ ListsStay /\ UNCHANGED approved /\ e.reader = "ready"
        BY <1>9 DEF Judged!CheckReady, Judged!Set, ListsStay, Judged!settingVars
    <2>2. /\ n.dest = e.dest /\ n.closer = e.closer
          /\ n.reader = IF Judged!Shaped(f) /\ Judged!CanDispose THEN "ban" ELSE "idle"
        BY <1>0 DEF IsFlow, Fields
    <2>3. flow'[f] = n
        BY <1>0, <2>1
    <2>4. ASSUME f \in approved \ straddled PROVE Excused(f)'
        <3>1. Excused(f)
            BY <2>4 DEF ApprovalInv
        <3>2. Judged!CanDispose' <=> Judged!CanDispose
            BY <2>1 DEF ListsStay, Judged!policyVars, Judged!CanDispose
        <3> QED
            BY <3>1, <3>2, <2>1, <2>2, <2>3 DEF Excused
    <2> HIDE DEF n
    <2> QED
        BY <1>0, <2>1, <2>2, <2>4, StepKeeps
<1>10. CASE Judged!FinalReady(f)
    <2> DEFINE n == IF Judged!CanDispose THEN [e EXCEPT !.closer = "ban", !.block = TRUE]
                    ELSE [e EXCEPT !.closer = "alert"]
    <2>1. /\ flow' = [flow EXCEPT ![f] = n] /\ ListsStay /\ UNCHANGED approved /\ e.closer = "ready"
          /\ e.reader # "off"
        BY <1>10, <1>0 DEF Judged!FinalReady, Judged!Set, ListsStay, Judged!settingVars,
            OnTheWay, Judged!NoFlow
    <2>2. /\ n.dest = e.dest /\ n.reader = e.reader
          /\ n.closer = IF Judged!CanDispose THEN "ban" ELSE "alert"
        BY <1>0 DEF IsFlow, Fields
    <2>3. flow'[f] = n
        BY <1>0, <2>1
    <2>4. ASSUME f \in approved \ straddled PROVE Excused(f)'
        <3>1. Excused(f)
            BY <2>4 DEF ApprovalInv
        <3>2. Judged!CanDispose' <=> Judged!CanDispose
            BY <2>1 DEF ListsStay, Judged!policyVars, Judged!CanDispose
        <3> QED
            BY <3>1, <3>2, <2>1, <2>2, <2>3 DEF Excused
    <2> HIDE DEF n
    <2> QED
        BY <1>0, <2>1, <2>2, <2>4, StepKeeps
<1> QED
    BY <1>1, <1>4, <1>5, <1>6, <1>7, <1>8, <1>9, <1>10 DEF Judged!Connection

\* Whoever is in a check is among those that are counted as checking.
LEMMA NotChecking ==
    ASSUME NEW f \in Flow, f \notin Judged!Checking
    PROVE  "ready" \notin {flow[f].reader, flow[f].closer}
BY DEF Judged!Checking

\* What the operator and the background change.
LEMMA RestApproves == ASSUME ApprovalInv, Judged!Operator \/ Judged!Background PROVE ApprovalInv'
<1>1. UNCHANGED flow
    BY DEF Judged!Operator, Judged!Background, Judged!EditWhitelist, Judged!EditSets,
        Judged!Age, Judged!SaveSettings, Judged!ApplySettings, Judged!Release, Judged!Publish,
        Judged!MarkWarm, Judged!Refresh, Judged!flowVars
\* An edit keeps those that are approved after it, and does not make disposal ready.
<1>2. ASSUME straddled' = straddled, Judged!CanDispose' => Judged!CanDispose,
             approved' = Judged!StillApproved(whitelist', sets', index', Judged!Passed',
                 (stored').needWarm)
      PROVE  ApprovalInv'
    <2>1. ASSUME NEW f \in approved'
          PROVE  f \in approved /\ f \in Flow /\ flow'[f].reader # "off" /\ StandsApproved(f)'
        BY <1>1, <1>2, <2>1 DEF ApprovalInv, Judged!StillApproved, StandsApproved
    <2>2. ASSUME NEW f \in approved' \ straddled' PROVE Excused(f)'
        <3>1. f \in approved \ straddled
            BY <1>2, <2>1, <2>2
        <3>2. Excused(f)
            BY <3>1 DEF ApprovalInv
        <3> QED
            BY <3>2, <1>1, <1>2 DEF Excused
    <2> QED
        BY <2>1, <2>2 DEF ApprovalInv
<1>3. ASSUME NEW v \in Judged!Destination, Judged!EditWhitelist(v) PROVE ApprovalInv'
    <2>1. UNCHANGED <<sets, index, unmarked, warm, stored, straddled>>
        BY <1>3 DEF Judged!EditWhitelist, Judged!settingVars
    <2>2. approved' = Judged!StillApproved(whitelist', sets, index, Judged!Passed, stored.needWarm)
        BY <1>3 DEF Judged!EditWhitelist
    <2> QED
        BY <1>2, <2>1, <2>2 DEF Judged!CanDispose, Judged!Passed
<1>4. ASSUME NEW v \in Name, Judged!EditSets(v) PROVE ApprovalInv'
    <2>1. UNCHANGED <<whitelist, index, unmarked, warm, stored, straddled>>
        BY <1>4 DEF Judged!EditSets, Judged!settingVars
    <2>2. approved' = Judged!StillApproved(whitelist, sets', index, Judged!Passed, stored.needWarm)
        BY <1>4 DEF Judged!EditSets
    <2> QED
        BY <1>2, <2>1, <2>2 DEF Judged!CanDispose, Judged!Passed
<1>5. ASSUME NEW p \in passes, NEW decoded \in SUBSET p, Judged!Publish(p, decoded) PROVE ApprovalInv'
    <2>1. UNCHANGED <<whitelist, sets, warm, stored, straddled>> /\ index' = decoded /\ unmarked' = TRUE
        BY <1>5 DEF Judged!Publish, Judged!settingVars
    <2>2. approved' = Judged!StillApproved(whitelist, sets, decoded, TRUE, stored.needWarm)
        BY <1>5 DEF Judged!Publish
    <2>3. Judged!Passed' = TRUE
        BY <2>1 DEF Judged!Passed
    <2> QED
        BY <1>2, <2>1, <2>2, <2>3 DEF Judged!CanDispose
<1>6. ASSUME NEW c \in Settings, NEW ok \in BOOLEAN, Judged!SaveSettings(c, ok) PROVE ApprovalInv'
    <2>1. /\ UNCHANGED <<whitelist, sets, index, unmarked, warm>> /\ stored' = c
          /\ straddled' = IF Judged!CanDispose \/ c.needWarm THEN straddled
                          ELSE straddled \cup Judged!Checking
        BY <1>6 DEF Judged!SaveSettings, Judged!policyVars
    <2>2. approved' = Judged!StillApproved(whitelist, sets, index, Judged!Passed, c.needWarm)
        BY <1>6 DEF Judged!SaveSettings
    <2>3. CASE Judged!CanDispose \/ c.needWarm
        <3>1. Judged!CanDispose' => Judged!CanDispose
            BY <2>1, <2>3 DEF Judged!CanDispose
        <3> QED
            BY <1>2, <2>1, <2>2, <2>3, <3>1 DEF Judged!Passed
    <2>4. CASE ~Judged!CanDispose /\ ~c.needWarm
        <3>1. straddled' = straddled \cup Judged!Checking
            BY <2>1, <2>4
        <3>2. ASSUME NEW f \in approved'
              PROVE  f \in approved /\ f \in Flow /\ flow'[f].reader # "off" /\ StandsApproved(f)'
            BY <1>1, <2>1, <2>2, <3>2 DEF ApprovalInv, Judged!StillApproved, StandsApproved,
                Judged!Passed
        <3>3. ASSUME NEW f \in approved' \ straddled' PROVE Excused(f)'
            <4>1. f \in approved \ straddled /\ f \in Flow /\ f \notin Judged!Checking
                BY <3>1, <3>2, <3>3
            <4>2. Excused(f)
                BY <4>1 DEF ApprovalInv
            <4>3. "ready" \notin {flow[f].reader, flow[f].closer}
                BY <4>1, NotChecking
            <4> QED
                BY <4>2, <4>3, <1>1 DEF Excused
        <3> QED
            BY <3>2, <3>3 DEF ApprovalInv
    <2> QED
        BY <2>3, <2>4
<1>7. CASE Judged!MarkWarm
    <2>1. /\ UNCHANGED <<whitelist, sets, index, stored, approved>> /\ warm' = TRUE /\ unmarked
          /\ straddled' = IF warm THEN straddled ELSE straddled \cup Judged!Checking
        BY <1>7 DEF Judged!MarkWarm, Judged!settingVars
    <2>2. Judged!Passed' <=> Judged!Passed
        BY <2>1 DEF Judged!Passed
    <2>3. ASSUME NEW f \in approved'
          PROVE  f \in approved /\ f \in Flow /\ flow'[f].reader # "off" /\ StandsApproved(f)'
        BY <1>1, <2>1, <2>2, <2>3 DEF ApprovalInv, StandsApproved, Judged!Approves
    <2>4. ASSUME NEW f \in approved' \ straddled' PROVE Excused(f)'
        <3>1. f \in approved \ straddled /\ f \in Flow
            BY <2>1, <2>3, <2>4
        <3>2. Excused(f)
            BY <3>1 DEF ApprovalInv
        <3>3. CASE warm
            BY <3>2, <3>3, <1>1, <2>1 DEF Excused, Judged!CanDispose
        <3>4. CASE ~warm
            <4>1. f \notin Judged!Checking
                BY <2>1, <2>4, <3>4
            <4>2. "ready" \notin {flow[f].reader, flow[f].closer}
                BY <3>1, <4>1, NotChecking
            <4> QED
                BY <3>2, <4>2, <1>1 DEF Excused
        <3> QED
            BY <3>3, <3>4
    <2> QED
        BY <2>3, <2>4 DEF ApprovalInv
<1>8. ASSUME ListsStay, UNCHANGED approved PROVE ApprovalInv'
    <2>1. ASSUME NEW f \in approved' PROVE f \in Flow /\ flow'[f].reader # "off" /\ StandsApproved(f)'
        BY <1>1, <1>8, <2>1, ListsStayOn DEF ApprovalInv
    <2>2. ASSUME NEW f \in approved' \ straddled' PROVE Excused(f)'
        BY <1>1, <1>8, <2>2, ListsStayOn DEF ApprovalInv, ListsStay
    <2> QED
        BY <2>1, <2>2 DEF ApprovalInv
<1>9. CASE \/ \E v \in Judged!Destination : Judged!Age(v)
           \/ Judged!ApplySettings
           \/ \E vs \in {quarantine} \cup {{v} : v \in quarantine} : Judged!Release(vs)
           \/ \E answered \in SUBSET Url : Judged!Refresh(answered)
    BY <1>8, <1>9 DEF Judged!Age, Judged!ApplySettings, Judged!Release, Judged!Refresh,
        ListsStay, Judged!settingVars
<1> QED
    BY <1>3, <1>4, <1>5, <1>6, <1>7, <1>9 DEF Judged!Operator, Judged!Background

LEMMA ApprovalStart == Judged!Init => ApprovalInv
BY DEF Judged!Init, ApprovalInv

LEMMA ApprovalStep == KillInv /\ ApprovalInv /\ [Judged!Next]_(Judged!vars) => ApprovalInv'
<1> SUFFICES ASSUME KillInv, ApprovalInv, [Judged!Next]_(Judged!vars) PROVE ApprovalInv'
    OBVIOUS
<1>1. ASSUME NEW f \in Flow, Judged!Connection(f) PROVE ApprovalInv'
    BY <1>1, ConnectionApproves
<1>2. CASE UNCHANGED Judged!vars
    <2>1. UNCHANGED flow /\ ListsStay /\ UNCHANGED approved
        BY <1>2 DEF Judged!vars, ListsStay, Judged!settingVars
    <2>2. ASSUME NEW f \in approved' PROVE f \in Flow /\ flow'[f].reader # "off" /\ StandsApproved(f)'
        BY <2>1, <2>2, ListsStayOn DEF ApprovalInv
    <2>3. ASSUME NEW f \in approved' \ straddled' PROVE Excused(f)'
        BY <2>1, <2>3, ListsStayOn DEF ApprovalInv, ListsStay
    <2> QED
        BY <2>2, <2>3 DEF ApprovalInv
<1> QED
    BY <1>1, <1>2, RestApproves DEF Judged!Next

LEMMA ApprovedNot == ApprovalInv => \A f \in approved \ straddled : ~Judged!UploadBan(f)
BY DEF ApprovalInv, Excused, Judged!UploadBan, Judged!BanMidStream, Judged!FinalBan
-----------------------------------------------------------------------------
(* The log and its totals.                                                 *)

\* The live file: lines of closed connections, each after the one before.
IsFile(file) ==
    /\ file \in Seq([conn : Log!Conn, ends : Nat])
    /\ \A i \in 1..Len(file) : Log!Begins(file[i]) \in Nat
    /\ \A i, j \in 1..Len(file) : i < j => file[i].ends < file[j].ends

RecordTypes ==
    /\ opened \in Nat /\ opened <= Len(Size) /\ open \subseteq 1..opened
    /\ counted \in [Log!Conn -> {0, 1}]
    /\ snap = [counted |-> snap.counted, offset |-> snap.offset]
    /\ snap.counted \in [Log!Conn -> {0, 1}] /\ snap.offset \in Nat
    /\ IsFile(live)

LEMMA Sizes ==
    /\ Size \in Seq(Nat \ {0}) /\ Len(Size) \in Nat
    /\ \A c \in Log!Conn : Size[c] \in Nat /\ Size[c] > 0
BY DetectionAssumption DEF Log!RecordsAssumption, Log!Conn

LEMMA FileBytes ==
    ASSUME NEW file, IsFile(file)
    PROVE  /\ Log!Bytes(file) \in Nat
           /\ \A i \in 1..Len(file) : /\ file[i].conn \in Log!Conn /\ file[i].ends \in Nat
                                      /\ file[i].ends <= Log!Bytes(file)
                                      /\ Log!Begins(file[i]) \in Nat
                                             /\ Log!Begins(file[i]) < Log!Bytes(file)
                                      /\ 0 < file[i].ends
<1>1. ASSUME NEW i \in 1..Len(file)
      PROVE  /\ file[i].conn \in Log!Conn /\ file[i].ends \in Nat
             /\ file[i].ends <= Log!Bytes(file)
    <2>1. Len(file) \in 1..Len(file) /\ file # <<>>
        BY <1>1 DEF IsFile
    <2>2. i = Len(file) \/ i < Len(file)
        BY <1>1, <2>1 DEF IsFile
    <2>3. file[i] \in [conn : Log!Conn, ends : Nat] /\ file[Len(file)] \in [conn : Log!Conn, ends : Nat]
        BY <1>1, <2>1, ElementOfSeq DEF IsFile
    <2> QED
        BY <1>1, <2>1, <2>2, <2>3 DEF IsFile, Log!Bytes
<1>2. ASSUME NEW i \in 1..Len(file)
      PROVE  Log!Begins(file[i]) \in Nat /\ Log!Begins(file[i]) < file[i].ends
    <2>1. file[i].conn \in Log!Conn /\ file[i].ends \in Nat /\ Log!Begins(file[i]) \in Nat
        BY <1>1, <1>2 DEF IsFile
    <2>2. Size[file[i].conn] \in Nat /\ Size[file[i].conn] > 0
        BY <2>1, Sizes
    <2> QED
        BY <2>1, <2>2 DEF Log!Begins
<1>3. Log!Bytes(file) \in Nat
    <2>1. CASE file = <<>>
        BY <2>1 DEF Log!Bytes
    <2>2. CASE file # <<>>
        <3>1. Len(file) \in 1..Len(file)
            BY <2>2 DEF IsFile
        <3> QED
            BY <2>2, <3>1, <1>1 DEF Log!Bytes
    <2> QED
        BY <2>1, <2>2
<1> QED
    BY <1>1, <1>2, <1>3

\* A line at the end of a file.
LEMMA FileGrows ==
    ASSUME NEW file, IsFile(file), NEW c \in Log!Conn
    PROVE  /\ IsFile(Append(file, Log!Line(file, c)))
           /\ Log!Bytes(Append(file, Log!Line(file, c))) = Log!Bytes(file) + Size[c]
           /\ \A k \in Nat : Log!From(Append(file, Log!Line(file, c)), k)
                              = Log!From(file, k) \cup (IF Log!Bytes(file) >= k THEN {c} ELSE {})
<1> DEFINE more == Append(file, Log!Line(file, c))
<1>1. Log!Bytes(file) \in Nat /\ Size[c] \in Nat /\ Size[c] > 0
    BY FileBytes, Sizes
<1>2. /\ Log!Line(file, c) \in [conn : Log!Conn, ends : Nat]
      /\ Log!Line(file, c).conn = c /\ Log!Line(file, c).ends = Log!Bytes(file) + Size[c]
    BY <1>1 DEF Log!Line
<1>3. /\ more \in Seq([conn : Log!Conn, ends : Nat]) /\ Len(more) = Len(file) + 1
      /\ more[Len(more)] = Log!Line(file, c) /\ Len(file) \in Nat
      /\ \A i \in 1..Len(file) : more[i] = file[i]
    BY <1>2 DEF IsFile
<1>4. 1..Len(more) = 1..Len(file) \cup {Len(more)}
    BY <1>3
<1>5. Log!Begins(Log!Line(file, c)) = Log!Bytes(file)
    BY <1>1, <1>2 DEF Log!Begins
<1>6. IsFile(more)
    <2>1. \A i \in 1..Len(more) : Log!Begins(more[i]) \in Nat
        BY <1>1, <1>3, <1>4, <1>5, FileBytes
    <2>2. ASSUME NEW i \in 1..Len(more), NEW j \in 1..Len(more), i < j
          PROVE  more[i].ends < more[j].ends
        <3>1. i \in 1..Len(file)
            BY <1>3, <2>2
        <3>2. CASE j = Len(more)
            BY <1>1, <1>2, <1>3, <3>1, <3>2, FileBytes
        <3>3. CASE j \in 1..Len(file)
            BY <1>3, <2>2, <3>1, <3>3 DEF IsFile
        <3> QED
            BY <1>4, <3>2, <3>3
    <2> QED
        BY <1>3, <2>1, <2>2 DEF IsFile
<1>7. Log!Bytes(more) = Log!Bytes(file) + Size[c]
    BY <1>2, <1>3 DEF Log!Bytes
<1>8. ASSUME NEW k \in Nat
      PROVE  Log!From(more, k) = Log!From(file, k) \cup (IF Log!Bytes(file) >= k THEN {c} ELSE {})
    <2>1. \A i \in 1..Len(file) : more[i].conn = file[i].conn
              /\ Log!Begins(more[i]) = Log!Begins(file[i])
        BY <1>3
    <2>2. more[Len(more)].conn = c /\ Log!Begins(more[Len(more)]) = Log!Bytes(file)
        BY <1>2, <1>3, <1>5
    <2> HIDE DEF more
    <2> QED
        BY <1>4, <2>1, <2>2 DEF Log!From
<1> QED
    BY <1>6, <1>7, <1>8

LEMMA EmptyFile == IsFile(<<>>) /\ Log!Bytes(<<>>) = 0 /\ \A k : Log!From(<<>>, k) = {}
BY DEF IsFile, Log!Bytes, Log!From

\* What a start would find in the log that the snapshot does not know.
Found == Log!Unread(live, snap.offset)

TotalsInv ==
    /\ RecordTypes
    /\ \A c \in Log!Conn : c \in open \/ c > opened => counted[c] = 0 /\ snap.counted[c] = 0
    /\ ~turned => snap.offset <= Log!Bytes(live)
    /\ \A i \in 1..Len(live) :
        /\ live[i].conn <= opened
        /\ turned \/ Log!Begins(live[i]) >= snap.offset => snap.counted[live[i].conn] = 0
    /\ up => \A c \in (1..opened) \ open : counted[c] = 1 \/ c \in excused
    /\ up /\ ~turned =>
        \A c \in Log!Conn : counted[c] = 1 /\ snap.counted[c] = 0 => c \in Log!From(live, snap.offset)
    /\ ~up => open = {} /\ \A c \in 1..opened : snap.counted[c] = 1 \/ c \in Found \/ c \in excused

LEMMA TotalsThen == TotalsInv => Log!TotalsAddUp
<1> SUFFICES ASSUME TotalsInv, up, NEW c \in (1..opened) \ open
             PROVE  counted[c] = 1 \/ (counted[c] = 0 /\ c \in excused)
    BY DEF Log!TotalsAddUp
<1>1. c \in Log!Conn
    BY Sizes DEF TotalsInv, RecordTypes, Log!Conn
<1> QED
    BY <1>1 DEF TotalsInv, RecordTypes

LEMMA TotalsStart == Log!Init => TotalsInv
<1> SUFFICES ASSUME Log!Init PROVE TotalsInv
    OBVIOUS
<1>1. RecordTypes
    BY Sizes, EmptyFile DEF Log!Init, RecordTypes
<1>2. snap.counted = [c \in Log!Conn |-> 0] /\ snap.offset = 0
    BY DEF Log!Init
<1> QED
    BY <1>1, <1>2, EmptyFile DEF Log!Init, TotalsInv

TotalsStay == UNCHANGED <<up, opened, open, counted, snap, live, turned, excused>>

LEMMA TotalsStayOn == TotalsInv /\ TotalsStay => TotalsInv'
BY DEF TotalsInv, TotalsStay, RecordTypes, Found

LEMMA OpenKeeps == TotalsInv /\ Log!Open => TotalsInv'
<1> SUFFICES ASSUME TotalsInv, Log!Open PROVE TotalsInv'
    OBVIOUS
<1>1. /\ opened' = opened + 1 /\ open' = open \cup {opened + 1} /\ opened < Len(Size) /\ up /\ up'
      /\ UNCHANGED <<counted, snap, live, turned, excused>>
    BY DEF Log!Open, Log!logVars, Log!totalVars
<1>2. RecordTypes'
    BY <1>1, Sizes DEF TotalsInv, RecordTypes
<1>3. (1..opened') \ open' = (1..opened) \ open
    BY <1>1 DEF TotalsInv, RecordTypes
<1>4. \A c \in Log!Conn : c \in open' \/ c > opened' => c \in open \/ c > opened
    BY <1>1 DEF TotalsInv, RecordTypes, Log!Conn
<1>5. \A i \in 1..Len(live) : live[i].conn <= opened'
    BY <1>1, FileBytes DEF TotalsInv, RecordTypes, Log!Conn
<1> QED
    BY <1>1, <1>2, <1>3, <1>4, <1>5 DEF TotalsInv

LEMMA CloseKeeps == ASSUME TotalsInv, NEW c \in open, Log!Close(c) PROVE TotalsInv'
<1>1. /\ open' = open \ {c} /\ counted' = Log!Fold(counted, {c}) /\ up /\ up' /\ Log!Written(c)
      /\ UNCHANGED <<opened, snap, excused>>
    BY DEF Log!Close
<1>2. c \in Log!Conn /\ c <= opened /\ counted[c] = 0 /\ snap.counted[c] = 0
    BY Sizes DEF TotalsInv, RecordTypes, Log!Conn
<1>3. counted' = [counted EXCEPT ![c] = 1]
    <2>1. \A d \in Log!Conn : d \in {c} => counted[d] + 1 = 1
        BY <1>2
    <2>2. [d \in Log!Conn |-> IF d \in {c} THEN counted[d] + 1 ELSE counted[d]]
          = [d \in Log!Conn |-> IF d = c THEN 1 ELSE counted[d]]
        BY <2>1
    <2> QED
        BY <1>1, <2>2 DEF Log!Fold, TotalsInv, RecordTypes
<1>31. \A d \in Log!Conn : counted'[d] = IF d = c THEN 1 ELSE counted[d]
    BY <1>3 DEF TotalsInv, RecordTypes
<1>4. \A d \in (1..opened') \ open' : counted'[d] = 1 \/ d \in excused'
    <2> SUFFICES ASSUME NEW d \in (1..opened') \ open' PROVE counted'[d] = 1 \/ d \in excused'
        OBVIOUS
    <2>1. d \in Log!Conn /\ (d = c \/ d \in (1..opened) \ open)
        BY <1>1, Sizes DEF TotalsInv, RecordTypes, Log!Conn
    <2> QED
        BY <1>1, <1>31, <2>1 DEF TotalsInv
<1>5. \A d \in Log!Conn : d \in open' \/ d > opened' => counted'[d] = 0 /\ (snap').counted[d] = 0
    <2> SUFFICES ASSUME NEW d \in Log!Conn, d \in open' \/ d > opened'
                 PROVE  counted'[d] = 0 /\ (snap').counted[d] = 0
        OBVIOUS
    <2>1. d # c
        BY <1>1, <1>2 DEF TotalsInv, RecordTypes, Log!Conn
    <2>2. d \in open \/ d > opened
        BY <1>1
    <2>3. counted[d] = 0 /\ snap.counted[d] = 0
        BY <2>2 DEF TotalsInv
    <2> QED
        BY <1>1, <1>31, <2>1, <2>3
<1>6. /\ opened' \in Nat /\ opened' <= Len(Size) /\ open' \subseteq 1..opened'
      /\ counted' \in [Log!Conn -> {0, 1}]
      /\ snap' = [counted |-> (snap').counted, offset |-> (snap').offset]
      /\ (snap').counted \in [Log!Conn -> {0, 1}] /\ (snap').offset \in Nat
    BY <1>1, <1>3 DEF TotalsInv, RecordTypes
<1>7. CASE live # <<>> /\ Log!Bytes(live) + Size[c] > fit
    <2>1. live' = <<Log!Line(<<>>, c)>> /\ turned' = TRUE
        BY <1>1, <1>7 DEF Log!Written
    <2>2. live' = Append(<<>>, Log!Line(<<>>, c)) /\ Len(live') = 1 /\ live'[1].conn = c
        BY <2>1 DEF Log!Line
    <2>3. IsFile(live')
        BY <2>2, <1>2, EmptyFile, FileGrows
    <2>4. \A i \in 1..Len(live') : live'[i].conn <= opened' /\ (snap').counted[live'[i].conn] = 0
        BY <1>1, <1>2, <2>2
    <2> QED
        BY <1>1, <1>4, <1>5, <1>6, <2>1, <2>3, <2>4 DEF TotalsInv, RecordTypes
<1>8. CASE ~(live # <<>> /\ Log!Bytes(live) + Size[c] > fit)
    <2>1. live' = Append(live, Log!Line(live, c)) /\ turned' = turned
        BY <1>1, <1>8 DEF Log!Written
    <2>2. /\ IsFile(live') /\ Log!Bytes(live') = Log!Bytes(live) + Size[c]
          /\ Log!Bytes(live) \in Nat /\ Size[c] \in Nat
        BY <1>2, <2>1, FileGrows, FileBytes, Sizes DEF TotalsInv, RecordTypes
    <2>3. Log!From(live', snap.offset)
          = Log!From(live, snap.offset) \cup (IF Log!Bytes(live) >= snap.offset THEN {c} ELSE {})
        BY <1>2, <2>1, FileGrows DEF TotalsInv, RecordTypes
    <2>4. ~turned => snap.offset <= Log!Bytes(live')
        BY <2>2, Sizes DEF TotalsInv, RecordTypes
    <2>5. ASSUME NEW i \in 1..Len(live')
          PROVE  /\ live'[i].conn <= opened
                 /\ turned \/ Log!Begins(live'[i]) >= snap.offset => snap.counted[live'[i].conn] = 0
        <3>1. live \in Seq([conn : Log!Conn, ends : Nat]) /\ Len(live) \in Nat
            BY DEF TotalsInv, RecordTypes, IsFile
        <3>2. Log!Line(live, c).conn = c /\ Log!Line(live, c) \in [conn : Log!Conn, ends : Nat]
            BY <1>2, <2>2 DEF Log!Line
        <3>3. \/ i \in 1..Len(live) /\ live'[i] = live[i]
              \/ live'[i].conn = c
            BY <2>1, <3>1, <3>2
        <3> QED
            BY <1>2, <3>3 DEF TotalsInv
    <2>6. ~turned => \A d \in Log!Conn : counted'[d] = 1 /\ snap.counted[d] = 0
              => d \in Log!From(live', snap.offset)
        BY <1>1, <1>2, <1>3, <2>3 DEF TotalsInv, RecordTypes
    <2> QED
        BY <1>1, <1>4, <1>5, <1>6, <2>1, <2>2, <2>4, <2>5, <2>6 DEF TotalsInv, RecordTypes
<1> QED
    BY <1>7, <1>8

\* What lies before the end of a file does not begin after it.
LEMMA NothingPast == ASSUME NEW file, IsFile(file) PROVE Log!From(file, Log!Bytes(file)) = {}
BY FileBytes DEF Log!From

LEMMA SnapshotKeeps ==
    ASSUME TotalsInv, up, snap' = [counted |-> counted, offset |-> Log!Bytes(live)], turned' = FALSE,
           UNCHANGED <<up, opened, open, counted, live, excused>>
    PROVE  TotalsInv'
<1>1. /\ Log!Bytes(live) \in Nat
      /\ \A i \in 1..Len(live) : Log!Begins(live[i]) \in Nat /\ Log!Begins(live[i]) < Log!Bytes(live)
    BY FileBytes DEF TotalsInv, RecordTypes
<1>2. (snap').counted = counted /\ (snap').offset = Log!Bytes(live)
    OBVIOUS
<1>3. \A i \in 1..Len(live) : ~(Log!Begins(live[i]) >= Log!Bytes(live))
    BY <1>1
<1> QED
    BY <1>1, <1>2, <1>3 DEF TotalsInv, RecordTypes

LEMMA CrashKeeps == TotalsInv /\ Log!Crash => TotalsInv'
<1> SUFFICES ASSUME TotalsInv, Log!Crash PROVE TotalsInv'
    OBVIOUS
<1>1. /\ up /\ ~up' /\ open' = {} /\ counted' = [c \in Log!Conn |-> 0]
      /\ excused' = excused \cup open \cup (IF turned THEN Log!Lost ELSE {})
      /\ UNCHANGED <<opened, snap, live, turned>>
    BY DEF Log!Crash, Log!Rest, Log!logVars
<1>2. RecordTypes'
    BY <1>1 DEF TotalsInv, RecordTypes
<1>3. ASSUME NEW c \in 1..opened, snap.counted[c] # 1, c \notin excused'
      PROVE  c \in Found
    <2>1. c \in Log!Conn /\ c \notin open /\ counted[c] = 1 /\ snap.counted[c] = 0
        BY <1>1, <1>3, Sizes DEF TotalsInv, RecordTypes, Log!Conn
    <2>2. CASE turned
        <3>1. c \notin Log!Lost
            BY <1>1, <1>3, <2>2
        <3>2. Log!Bytes(live) < snap.offset /\ c \in Log!From(live, 0)
            BY <1>3, <2>1, <3>1 DEF Log!Lost
        <3> QED
            BY <3>2 DEF Found, Log!Unread
    <2>3. CASE ~turned
        <3>1. c \in Log!From(live, snap.offset) /\ ~(Log!Bytes(live) < snap.offset)
            BY <1>1, <2>1, <2>3, FileBytes DEF TotalsInv, RecordTypes
        <3> QED
            BY <3>1 DEF Found, Log!Unread
    <2> QED
        BY <2>2, <2>3
<1>4. Found' = Found
    BY <1>1 DEF Found
<1> QED
    BY <1>1, <1>2, <1>3, <1>4 DEF TotalsInv

LEMMA StopKeeps == TotalsInv /\ Log!Stop => TotalsInv'
<1> SUFFICES ASSUME TotalsInv, Log!Stop PROVE TotalsInv'
    OBVIOUS
<1>1. /\ up /\ ~up' /\ open' = {} /\ counted' = [c \in Log!Conn |-> 0] /\ turned' = FALSE
      /\ snap' = [counted |-> counted, offset |-> Log!Bytes(live)]
      /\ excused' = excused \cup open
      /\ UNCHANGED <<opened, live>>
    BY DEF Log!Stop, Log!Rest
<1>2. /\ Log!Bytes(live) \in Nat
      /\ \A i \in 1..Len(live) : Log!Begins(live[i]) \in Nat /\ Log!Begins(live[i]) < Log!Bytes(live)
    BY FileBytes DEF TotalsInv, RecordTypes
<1>3. (snap').counted = counted /\ (snap').offset = Log!Bytes(live)
    BY <1>1
<1>4. \A i \in 1..Len(live) : ~(Log!Begins(live[i]) >= Log!Bytes(live))
    BY <1>2
<1>5. \A c \in 1..opened : counted[c] = 1 \/ c \in excused'
    BY <1>1 DEF TotalsInv
<1> QED
    BY <1>1, <1>2, <1>3, <1>4, <1>5 DEF TotalsInv, RecordTypes

LEMMA StartKeeps == TotalsInv /\ Log!Start => TotalsInv'
<1> SUFFICES ASSUME TotalsInv, Log!Start PROVE TotalsInv'
    OBVIOUS
<1>1. /\ ~up /\ up' /\ counted' = Log!Fold(snap.counted, Found)
      /\ UNCHANGED <<opened, open, snap, live, turned, excused>>
    BY DEF Log!Start, Log!logVars, Found
<1>2. open = {} /\ \A c \in 1..opened : snap.counted[c] = 1 \/ c \in Found \/ c \in excused
    BY <1>1 DEF TotalsInv
<1>3. /\ Log!Bytes(live) \in Nat /\ snap.offset \in Nat
      /\ \A i \in 1..Len(live) : live[i].conn \in Log!Conn
    BY FileBytes DEF TotalsInv, RecordTypes
<1>4. ASSUME NEW c \in Found PROVE c \in Log!Conn /\ snap.counted[c] = 0 /\ c <= opened
    <2>1. PICK i \in 1..Len(live) : /\ live[i].conn = c
                                    /\ Log!Begins(live[i]) >= IF Log!Bytes(live) < snap.offset
                                           THEN 0 ELSE snap.offset
        BY <1>4 DEF Found, Log!Unread, Log!From
    <2>2. turned \/ Log!Begins(live[i]) >= snap.offset
        BY <1>3, <2>1 DEF TotalsInv
    <2> QED
        BY <1>3, <2>1, <2>2 DEF TotalsInv
<1>5. counted' = [c \in Log!Conn |-> IF c \in Found THEN 1 ELSE snap.counted[c]]
    BY <1>1, <1>4 DEF Log!Fold
<1>6. counted' \in [Log!Conn -> {0, 1}]
    BY <1>5 DEF TotalsInv, RecordTypes
<1>7. \A c \in Log!Conn : c \in open' \/ c > opened' => counted'[c] = 0 /\ (snap').counted[c] = 0
    BY <1>1, <1>2, <1>4, <1>5 DEF TotalsInv, RecordTypes, Log!Conn
<1>8. \A c \in (1..opened') \ open' : counted'[c] = 1 \/ c \in excused'
    BY <1>1, <1>2, <1>5, Sizes DEF TotalsInv, RecordTypes, Log!Conn
<1>9. ~turned => \A c \in Log!Conn : counted'[c] = 1 /\ snap.counted[c] = 0
          => c \in Log!From(live, snap.offset)
    <2>1. ~turned => Found = Log!From(live, snap.offset)
        BY <1>3 DEF TotalsInv, Found, Log!Unread
    <2> QED
        BY <1>5, <2>1
<1> QED
    BY <1>1, <1>6, <1>7, <1>8, <1>9 DEF TotalsInv, RecordTypes

LEMMA TotalsStep == TotalsInv /\ [Log!Next]_(Log!vars) => TotalsInv'
<1> SUFFICES ASSUME TotalsInv, [Log!Next]_(Log!vars) PROVE TotalsInv'
    OBVIOUS
<1>1. CASE Log!SaveAggregate
    BY <1>1, SnapshotKeeps DEF Log!SaveAggregate, Log!engineVars
<1>2. ASSUME NEW c \in open, Log!Close(c) PROVE TotalsInv'
    BY <1>2, CloseKeeps
<1>3. CASE \/ \E ok \in BOOLEAN : Log!SaveEvents(ok)
           \/ \E n \in Limits, saves, closes \in BOOLEAN : Log!SetRetention(n, saves, closes)
           \/ Log!ListFiles \/ Log!CountLines \/ UNCHANGED Log!vars
    <2>1. TotalsStay
        BY <1>3 DEF Log!SaveEvents, Log!SetRetention, Log!ListFiles, Log!CountLines, Log!vars,
            Log!engineVars, Log!logVars, Log!totalVars, TotalsStay
    <2> QED
        BY <2>1, TotalsStayOn
<1> QED
    BY <1>1, <1>2, <1>3, OpenKeeps, CrashKeeps, StopKeeps, StartKeeps DEF Log!Next
-----------------------------------------------------------------------------
(* Pages.                                                                  *)

\* Unless the file was rotated unnoticed, lines counts the first of its lines.
Counts(count) ==
    /\ count.lines \in 0..Len(live)
    /\ count.bytes = IF count.lines = 0 THEN 0 ELSE live[count.lines].ends

PagesInv ==
    /\ lines = [bytes |-> lines.bytes, lines |-> lines.lines]
    /\ lines.bytes \in Nat /\ lines.lines \in Nat
    /\ ~blind => Counts(lines)
    /\ ~moved => \A gens \in listed : gens = old
    /\ Log!PagesAddUp

\* What is counted from a place that was counted up to is all there is.
LEMMA CountsRest ==
    ASSUME IsFile(live), NEW count, Counts(count)
    PROVE  count.lines + Cardinality(Log!Past(live, count.bytes)) = Len(live)
<1> DEFINE m == count.lines  n == Len(live)
<1>1. m \in 0..n /\ n \in Nat
    BY DEF Counts, IsFile
<1>2. \A i \in 1..n : live[i].ends \in Nat /\ live[i].ends > 0
    BY FileBytes
<1>3. Log!Past(live, count.bytes) = (m + 1)..n
    <2>1. ASSUME NEW i \in 1..n PROVE live[i].ends > count.bytes <=> i > m
        <3>1. CASE m = 0
            BY <1>2, <2>1, <3>1 DEF Counts
        <3>2. CASE m # 0
            <4>1. m \in 1..n /\ count.bytes = live[m].ends
                BY <1>1, <3>2 DEF Counts
            <4>2. CASE i < m
                BY <1>2, <2>1, <4>1, <4>2 DEF IsFile
            <4>3. CASE i = m
                BY <1>2, <2>1, <4>1, <4>3
            <4>4. CASE i > m
                BY <1>2, <2>1, <4>1, <4>4 DEF IsFile
            <4> QED
                BY <1>1, <2>1, <4>2, <4>3, <4>4
        <3> QED
            BY <3>1, <3>2
    <2> QED
        BY <1>1, <2>1 DEF Log!Past
<1>4. Cardinality((m + 1)..n) = n - m
    <2>1. ASSUME NEW a \in Int, NEW b \in Int
          PROVE  Cardinality(a..b) = IF a > b THEN 0 ELSE b - a + 1
        BY FS_Interval
    <2>2. m + 1 \in Int /\ n \in Int
        BY <1>1
    <2> HIDE DEF m, n
    <2>3. Cardinality((m + 1)..n) = IF m + 1 > n THEN 0 ELSE n - (m + 1) + 1
        BY <2>1, <2>2
    <2> QED
        BY <1>1, <2>3
<1> QED
    BY <1>1, <1>3, <1>4

\* Records has the operators of FiniteSets by a name of its own.
LEMMA SameCardinality == ASSUME NEW S PROVE Log!Cardinality(S) = Cardinality(S)
BY DEF Log!Cardinality, Cardinality

LEMMA CountsWhole ==
    ASSUME IsFile(live), NEW count, count.lines = Len(live), count.bytes = Log!Bytes(live)
    PROVE  Counts(count)
BY EmptySeq DEF Counts, Log!Bytes, IsFile

LEMMA CountKeeps == RecordTypes /\ PagesInv /\ Log!CountLines => PagesInv'
<1> SUFFICES ASSUME RecordTypes, PagesInv, Log!CountLines PROVE PagesInv'
    OBVIOUS
<1> DEFINE from == IF Log!Bytes(live) < lines.bytes THEN [bytes |-> 0, lines |-> 0] ELSE lines
           exact == blind => Log!Bytes(live) < lines.bytes
<1>0. IsFile(live) /\ Log!Bytes(live) \in Nat /\ Len(live) \in Nat
    <2>1. IsFile(live)
        BY DEF RecordTypes
    <2>2. Len(live) \in Nat
        BY <2>1 DEF IsFile
    <2> QED
        BY <2>1, <2>2, FileBytes
<1>1. /\ lines' = Log!LineCount(lines) /\ listed' = {} /\ UNCHANGED <<live, old, moved>>
      /\ blind' = (blind /\ Log!Bytes(live) >= lines.bytes)
      /\ \E gens \in listed :
            page' = [total |-> Log!LinesOf(gens) + Log!LineCount(lines).lines,
                     held |-> Log!LinesOf(old) + Len(live),
                     exact |-> ~moved /\ exact]
    BY DEF Log!CountLines, Log!logVars
<1>2. Log!LineCount(lines) =
          [bytes |-> Log!Bytes(live), lines |-> from.lines + Cardinality(Log!Past(live, from.bytes))]
    BY SameCardinality DEF Log!LineCount
<1>3. from.lines \in Nat /\ from.bytes \in Nat
    BY DEF PagesInv
<1>4. Cardinality(Log!Past(live, from.bytes)) \in Nat
    <2>1. Log!Past(live, from.bytes) \subseteq 1..Len(live)
        BY DEF Log!Past
    <2>2. IsFiniteSet(1..Len(live))
        BY <1>0, FS_Interval
    <2>3. IsFiniteSet(Log!Past(live, from.bytes))
        BY <2>1, <2>2, FS_Subset
    <2> QED
        BY <2>3, FS_CardinalityType
<1>5. ASSUME exact PROVE Log!LineCount(lines).lines = Len(live)
    <2>1. Counts(from)
        <3>1. CASE Log!Bytes(live) < lines.bytes
            <4>1. from = [bytes |-> 0, lines |-> 0]
                BY <3>1
            <4> QED
                BY <1>0, <4>1 DEF Counts
        <3>2. CASE ~(Log!Bytes(live) < lines.bytes)
            BY <1>5, <3>2 DEF PagesInv
        <3> QED
            BY <3>1, <3>2
    <2> HIDE DEF from
    <2> QED
        BY <1>0, <1>2, <2>1, CountsRest
<1>6. lines' = [bytes |-> (lines').bytes, lines |-> (lines').lines] /\ (lines').bytes = Log!Bytes(live)
      /\ (lines').lines = Log!LineCount(lines).lines /\ (lines').lines \in Nat
    <2> HIDE DEF from
    <2> QED
        BY <1>0, <1>1, <1>2, <1>3, <1>4
<1>7. ~blind' => Counts(lines)'
    <2>0. Log!Bytes(live) \in Nat /\ lines.bytes \in Nat
        BY <1>0 DEF PagesInv
    <2>1. ~blind' => exact
        <3>1. ~(Log!Bytes(live) >= lines.bytes) => Log!Bytes(live) < lines.bytes
            BY <2>0
        <3>2. ~blind' => (~blind \/ ~(Log!Bytes(live) >= lines.bytes))
            BY <1>1, Zenon
        <3> QED
            BY <3>1, <3>2, Zenon
    <2>2. ~blind' => (lines').lines = Len(live)
        BY <1>5, <1>6, <2>1
    <2>3. ~blind' => Counts(lines')
        BY <1>0, <1>6, <2>2, CountsWhole
    <2> QED
        BY <1>1, <2>3 DEF Counts
<1>8. Log!PagesAddUp'
    <2>1. PICK gens \in listed : page' = [total |-> Log!LinesOf(gens) + Log!LineCount(lines).lines,
                                          held |-> Log!LinesOf(old) + Len(live),
                                          exact |-> ~moved /\ exact]
        BY <1>1
    <2>2. ~moved => gens = old
        BY DEF PagesInv
    <2>3. (page').exact => (page').total = (page').held
        BY <2>1, <2>2, <1>5
    <2> QED
        BY <2>3 DEF Log!PagesAddUp
<1> QED
    BY <1>1, <1>6, <1>7, <1>8, <1>0 DEF PagesInv

LEMMA PagesStart == Log!Init => PagesInv
<1> SUFFICES ASSUME Log!Init PROVE PagesInv
    OBVIOUS
<1>1. lines = [bytes |-> 0, lines |-> 0] /\ page = [total |-> 0, held |-> 0, exact |-> TRUE]
      /\ listed = {} /\ live = <<>>
    BY DEF Log!Init
<1>2. lines.bytes = 0 /\ lines.lines = 0 /\ page.total = page.held
    BY <1>1
<1> QED
    BY <1>1, <1>2 DEF PagesInv, Log!PagesAddUp, Counts

LEMMA PagesStep == TotalsInv /\ PagesInv /\ [Log!Next]_(Log!vars) => PagesInv'
<1> SUFFICES ASSUME TotalsInv, PagesInv, [Log!Next]_(Log!vars) PROVE PagesInv'
    OBVIOUS
<1>0. RecordTypes /\ live \in Seq([conn : Log!Conn, ends : Nat]) /\ Len(live) \in Nat
    BY DEF TotalsInv, RecordTypes, IsFile
<1>1. ASSUME NEW c \in open, Log!Close(c) PROVE PagesInv'
    <2>1. Log!Written(c) /\ UNCHANGED <<lines, listed, page>>
        BY <1>1 DEF Log!Close
    <2>2. CASE live # <<>> /\ Log!Bytes(live) + Size[c] > fit
        BY <2>1, <2>2 DEF Log!Written, PagesInv, Log!PagesAddUp
    <2>3. CASE ~(live # <<>> /\ Log!Bytes(live) + Size[c] > fit)
        <3>1. live' = Append(live, Log!Line(live, c)) /\ UNCHANGED <<old, moved, blind>>
            BY <2>1, <2>3 DEF Log!Written
        <3>2. Log!Line(live, c) \in [conn : Log!Conn, ends : Nat]
            BY <1>1, FileBytes, Sizes DEF TotalsInv, RecordTypes, Log!Conn, Log!Line
        <3>3. Len(live') = Len(live) + 1 /\ \A i \in 1..Len(live) : live'[i] = live[i]
            BY <1>0, <3>1, <3>2
        <3>4. Counts(lines) => Counts(lines)'
            BY <1>0, <2>1, <3>3 DEF Counts
        <3> QED
            BY <2>1, <3>1, <3>4 DEF PagesInv, Log!PagesAddUp
    <2> QED
        BY <2>2, <2>3
<1>2. CASE Log!Start
    <2>1. lines' = [bytes |-> 0, lines |-> 0] /\ listed' = {} /\ UNCHANGED <<page, live>>
        BY <1>2 DEF Log!Start, Log!logVars
    <2>2. (lines').bytes = 0 /\ (lines').lines = 0
        BY <2>1
    <2> QED
        BY <1>0, <2>1, <2>2 DEF PagesInv, Log!PagesAddUp, Counts
<1>3. CASE Log!ListFiles
    BY <1>3 DEF Log!ListFiles, Log!logVars, PagesInv, Log!PagesAddUp, Counts
<1>4. CASE \/ Log!Open \/ Log!SaveAggregate \/ Log!Crash \/ Log!Stop \/ UNCHANGED Log!vars
           \/ \E ok \in BOOLEAN : Log!SaveEvents(ok)
           \/ \E n \in Limits, saves, closes \in BOOLEAN : Log!SetRetention(n, saves, closes)
    <2>1. UNCHANGED <<lines, listed, page, moved, blind, live, old>>
        BY <1>4 DEF Log!Open, Log!SaveAggregate, Log!Crash, Log!Stop, Log!SaveEvents,
            Log!SetRetention, Log!vars, Log!logVars, Log!readVars
    <2> QED
        BY <2>1 DEF PagesInv, Log!PagesAddUp, Counts
<1> QED
    BY <1>0, <1>1, <1>2, <1>3, <1>4, CountKeeps DEF Log!Next
-----------------------------------------------------------------------------
(***************************************************************************)
(* Cooldowns                                                               *)
(***************************************************************************)
Time == Nat \cup {Reported!Never}

QuerySubject == ({"nx"} \X Client) \cup ({"parent"} \X Parent)
Counting == [start : Nat, count : Nat, odd : Nat, alert : Time]

FindTypes ==
    /\ now \in Nat
    /\ windows \in [DOMAIN windows -> Counting] /\ DOMAIN windows \subseteq QuerySubject
    /\ \A k \in DOMAIN windows : windows[k].start <= now
    /\ \A p \in DOMAIN volume : volume[p].alert \in Time
    /\ \A b \in DOMAIN beacons : beacons[b].alert \in Time
    /\ \A e \in DOMAIN bypass : bypass[e] \in Nat
    /\ alerted \in [Reported!Subject -> Time] /\ \A s \in Reported!Subject : alerted[s] <= now

\* There was a finding about a subject, and its record was not thrown away since.
Recalled(s) == alerted[s] # Reported!Never /\ s \notin forgotten \ fired

QuietInv ==
    /\ FindTypes
    /\ \A s \in QuerySubject : Recalled(s) => s \in DOMAIN windows /\ windows[s].alert = alerted[s]
    /\ \A p \in Parent : Recalled(<<"volume", p>>) =>
           p \in DOMAIN volume /\ volume[p].alert = alerted[<<"volume", p>>]
    /\ \A b \in Parent \X Leaf : Recalled(<<"beacon", b>>) =>
           b \in DOMAIN beacons /\ beacons[b].alert = alerted[<<"beacon", b>>]
    /\ \A e \in Endpoint : alerted[<<"bypass", e>>] # Reported!Never =>
           \/ e \in DOMAIN bypass /\ bypass[e] = alerted[<<"bypass", e>>]
           \/ now - alerted[<<"bypass", e>>] >= BypassQuiet
    /\ \A t \in Stack : alerted[<<"ja4", t>>] # Reported!Never => t \in stacks

\* What was said about a subject of a window is in its record, or the record is new.
AlertInv ==
    \A s \in DOMAIN windows : windows[s].alert \in {Reported!Never, alerted[s]}

Limit(k) == Reported!Thresholds[k[1]]

\* Said at some moment, or not a window before it.
Voiced(alert, t) == alert # Reported!Never /\ t - alert < Window

\* The last queries, in the order in which they came.
InOrder(q, t, bound) ==
    /\ q \in Seq(Nat) /\ Len(q) <= 2 * bound - 1
    /\ \A i, j \in 1..Len(q) : i <= j => q[i] <= q[j]
    /\ \A i \in 1..Len(q) : q[i] <= t

\* With no window open: a burst that is not over for a window has been told.
Closed(q, alert, t, bound) ==
    Len(q) >= bound /\ q[Len(q) - bound + 1] >= t - Window => Voiced(alert, q[Len(q)])

\* The first k came before the window was opened, and are as they were then; the
\* others it has counted.
Opened(q, w, alert, bound) ==
    /\ w.count >= bound => Len(q) > 0 /\ Voiced(alert, q[Len(q)])
    /\ \E k \in 0..Len(q) :
          /\ \A i \in 1..k : q[i] <= w.start
          /\ w.count >= bound \/ w.count >= Len(q) - k
          /\ k >= bound /\ q[k - bound + 1] >= w.start - Window => Voiced(alert, q[k])

SweepInv ==
    /\ AlertInv
    /\ asked = [s \in QuerySubject |-> asked[s]]
    /\ \A s \in QuerySubject : s[1] \in on =>
          /\ InOrder(asked[s], now, Limit(s))
          /\ IF s \in DOMAIN windows
             THEN Opened(asked[s], windows[s], alerted[s], Limit(s))
             ELSE Closed(asked[s], alerted[s], now, Limit(s))
-----------------------------------------------------------------------------
LEMMA LeastIs ==
    ASSUME NEW m \in Int, NEW n \in Int
    PROVE  Reported!Least(m, n) = IF m <= n THEN m ELSE n
<1>1. \E x \in {m, n} : \A y \in {m, n} : x <= y
    <2>1. CASE m <= n
        BY <2>1
    <2>2. CASE n <= m
        BY <2>2
    <2> QED
        BY <2>1, <2>2
<1>2. Reported!Least(m, n) \in {m, n} /\ \A y \in {m, n} : Reported!Least(m, n) <= y
    BY <1>1 DEF Reported!Least, Reported!Min
<1> QED
    BY <1>2

\* What a bump leaves of the records, for any map of windows.
IsBumped(m, k, after, out) ==
    /\ after \in [(DOMAIN m \ out) \cup {k} -> Counting]
    /\ \A x \in DOMAIN m \ out : x # k => after[x] = m[x]
    /\ \A x \in out : x \in DOMAIN m /\ x[1] = k[1] /\ Reported!Expired(m[x])
    /\ after[k] = IF Reported!Rolls(m, k) THEN Reported!Fresh(IF k \in DOMAIN m \ out
           THEN m[k].alert ELSE Reported!Never)
                  ELSE m[k]

LEMMA BumpIs ==
    ASSUME NEW m, m \in [DOMAIN m -> Counting], NEW k, now \in Nat
    PROVE  IsBumped(m, k, Reported!Bump(m, k), Reported!Thrown(m, k))
<1> DEFINE kept == Reported!Only(m, DOMAIN m \ Reported!Swept(m, k))
           w == Reported!Fresh(IF k \in DOMAIN kept THEN kept[k].alert ELSE Reported!Never)
<1>1. Reported!Swept(m, k) \subseteq DOMAIN m /\ \A x \in Reported!Swept(m, k) : x[1] = k[1]
          /\ Reported!Expired(m[x])
    BY DEF Reported!Swept, Reported!OfKind
<1>2. kept = [x \in DOMAIN m \ Reported!Swept(m, k) |-> m[x]]
    <2>1. DOMAIN m \cap (DOMAIN m \ Reported!Swept(m, k)) = DOMAIN m \ Reported!Swept(m, k)
        BY Zenon
    <2> QED
        BY <2>1, Zenon DEF Reported!Only
<1>3. CASE ~Reported!Rolls(m, k)
    <2>1. Reported!Bump(m, k) = m /\ Reported!Thrown(m, k) = {} /\ k \in DOMAIN m
        BY <1>3, Zenon DEF Reported!Bump, Reported!Thrown, Reported!Rolls
    <2>2. (DOMAIN m \ {}) \cup {k} = DOMAIN m
        BY <2>1, Zenon
    <2> QED
        BY <1>3, <2>1, <2>2 DEF IsBumped
<1>4. CASE Reported!Rolls(m, k)
    <2>1. Reported!Thrown(m, k) = Reported!Swept(m, k)
        BY <1>4, Zenon DEF Reported!Thrown
    <2>2. Reported!Bump(m, k) = [x \in DOMAIN kept \cup {k} |-> IF x = k THEN w ELSE kept[x]]
        BY <1>4, Zenon DEF Reported!Bump, Reported!Bind
    <2>3. w \in Counting
        <3>1. k \in DOMAIN kept => kept[k].alert \in Time
            BY <1>2 DEF Counting
        <3> HIDE DEF kept
        <3> QED
            BY <3>1 DEF Reported!Fresh, Counting, Time
    <2>4. w = Reported!Fresh(IF k \in DOMAIN m \ Reported!Thrown(m, k)
              THEN m[k].alert ELSE Reported!Never)
        BY <1>2, <2>1
    <2>5. DOMAIN kept = DOMAIN m \ Reported!Thrown(m, k) /\ \A x \in DOMAIN kept : kept[x] = m[x]
        BY <1>2, <2>1
    <2>6. \A x \in DOMAIN kept : kept[x] \in Counting
        BY <2>5
    <2> HIDE DEF kept, w
    <2>7. Reported!Bump(m, k) \in [DOMAIN kept \cup {k} -> Counting]
        BY <2>2, <2>3, <2>6
    <2>8. \A x \in DOMAIN kept : x # k => Reported!Bump(m, k)[x] = kept[x]
        BY <2>2
    <2>9. Reported!Bump(m, k)[k] = w
        BY <2>2
    <2> QED
        BY <1>1, <1>4, <2>1, <2>4, <2>5, <2>7, <2>8, <2>9, Zenon DEF IsBumped
<1> QED
    BY <1>3, <1>4

\* One query in a window, and whether it is told.
IsAlert(b, n, bound, hit, a) ==
    /\ a.w \in Counting /\ a.fires \in BOOLEAN
    /\ a.w.start = b.start
    /\ a.w.count = Reported!Least(b.count + n, bound)
    /\ a.w.alert = IF a.fires THEN now ELSE b.alert
    /\ a.fires => b.alert = Reported!Never \/ now - b.alert >= Window
    /\ hit => a.fires \/ (b.alert # Reported!Never /\ ~(now - b.alert >= Window))

LEMMA TurnIs ==
    ASSUME NEW b \in Counting, NEW n \in {0, 1}, NEW o \in {0, 1}, NEW bound \in Nat,
           NEW hit \in BOOLEAN, now \in Nat
    PROVE  IsAlert(b, n, bound, hit, Reported!Alert(Reported!Counted(b, n, o, bound), hit))
<1> DEFINE w == Reported!Counted(b, n, o, bound)
           ready == w.alert = Reported!Never \/ now - w.alert >= Window
           a == Reported!Alert(w, hit)
<1>1. OddAt \in Nat
    BY DetectionAssumption DEF Reported!FindingsAssumption
<1>2. Reported!Least(b.count + n, bound) \in Nat /\ Reported!Least(b.odd + o, OddAt) \in Nat
    BY <1>1, LeastIs DEF Counting
<1>3. /\ w \in Counting
      /\ w.start = b.start /\ w.alert = b.alert
      /\ w.count = Reported!Least(b.count + n, bound)
    BY <1>2 DEF Reported!Counted, Counting
<1>4. a.w = (IF hit /\ ready THEN [w EXCEPT !.alert = now] ELSE w) /\ a.fires = (hit /\ ready)
    BY DEF Reported!Alert
<1>5. [w EXCEPT !.alert = now] \in Counting
    BY <1>3 DEF Counting, Time
<1>6. LET v == [w EXCEPT !.alert = now]
      IN  v.start = w.start /\ v.count = w.count /\ v.alert = now
    BY <1>3 DEF Counting
<1> HIDE DEF a, w
<1> QED
    <2>1. CASE hit /\ ready
        BY <1>3, <1>4, <1>5, <1>6, <2>1 DEF a, w, IsAlert
    <2>2. CASE ~(hit /\ ready)
        BY <1>3, <1>4, <2>2 DEF a, w, IsAlert
    <2> QED
        BY <2>1, <2>2

\* The subjects a query is counted for, and the records its bumps throw away.
CountsFor(c, p) == {s \in {<<"nx", c>>, <<"parent", p>>} : s[1] \in on}
ThrownBy(c, p) == UNION {Reported!Thrown(windows, k) : k \in CountsFor(c, p)}

\* The record of a subject after its bump.
Turned(k) ==
    IF Reported!Rolls(windows, k)
    THEN Reported!Fresh(IF k \in DOMAIN windows \ Reported!Thrown(windows, k)
        THEN windows[k].alert ELSE Reported!Never)
    ELSE windows[k]

\* What a query does to the record of a subject it is counted for.
IsCounted(k, n) ==
    /\ windows'[k].start = Turned(k).start
    /\ windows'[k].count = Reported!Least(Turned(k).count + n, Limit(k))
    /\ windows'[k].alert = IF k \in fired' THEN now ELSE Turned(k).alert
    /\ k \in fired' => Turned(k).alert = Reported!Never \/ now - Turned(k).alert >= Window
    /\ windows'[k].count >= Limit(k)
         => k \in fired' \/ (Turned(k).alert # Reported!Never /\ ~(now - Turned(k).alert >= Window))

\* The names under a parent were counted, or nothing was said of any.
Named(p, l) ==
    \/ volume' = volume /\ \A x : <<"volume", x>> \notin fired'
    \/ /\ volume' = Reported!Volume(p, l).map
       /\ \A x \in Reported!Volume(p, l).thrown : <<"volume", x>> \in forgotten'
       /\ \A x : <<"volume", x>> \in fired' <=> x = p /\ Reported!Volume(p, l).fires

Tells ==
    /\ alerted' = [s \in Reported!Subject |-> IF s \in fired' THEN now ELSE alerted[s]]
    /\ forgotten \ fired \subseteq forgotten'

\* What a query for a name under p does to the records.
QueryDone(c, p, l, nx) ==
    /\ windows' \in [(DOMAIN windows \ ThrownBy(c, p)) \cup CountsFor(c, p) -> Counting]
    /\ \A x \in DOMAIN windows \ ThrownBy(c, p) : x \notin CountsFor(c, p) => windows'[x] = windows[x]
    /\ \A x \in ThrownBy(c, p) : x \in DOMAIN windows /\ Reported!Expired(windows[x])
    /\ \A k \in CountsFor(c, p) : IsCounted(k, IF k[1] = "nx" /\ ~nx THEN 0 ELSE 1)
    /\ fired' \subseteq CountsFor(c, p) \cup {<<"volume", p>>}
    /\ ThrownBy(c, p) \subseteq forgotten'
    /\ Named(p, l) /\ Tells

LEMMA QueryIs ==
    ASSUME FindTypes, NEW c \in Client, NEW p \in Parent, NEW l \in Leaf,
           NEW nx \in BOOLEAN, NEW odd \in BOOLEAN, Reported!RecordQuery(c, p, l, nx, odd)
    PROVE  QueryDone(c, p, l, nx)
<1> DEFINE kn == <<"nx", c>>
           kp == <<"parent", p>>
           thrownN == IF "nx" \in on THEN Reported!Thrown(windows, kn) ELSE {}
           thrownP == IF "parent" \in on THEN Reported!Thrown(windows, kp) ELSE {}
           bumpedN == IF "nx" \in on THEN Reported!Bump(windows, kn) ELSE windows
           w == Reported!Counted(bumpedN[kn], IF nx THEN 1 ELSE 0, 0, Burst)
           n == IF "nx" \in on THEN Reported!Alert(w, w.count >= Burst)
                ELSE [w |-> Reported!Fresh(Reported!Never), fires |-> FALSE]
           bumpedP == IF "parent" \in on THEN Reported!Bump(bumpedN, kp) ELSE bumpedN
           asks == IF "parent" \in on
                      THEN Reported!Counted(bumpedP[kp], 1, IF odd THEN 1 ELSE 0, Rate)
                          ELSE Reported!Fresh(Reported!Never)
           q == Reported!Alert(asks, "parent" \in on /\ (asks.count >= Rate \/ asks.odd >= OddAt))
           v == Reported!Volume(p, l)
           withN == IF "nx" \in on THEN Reported!Bind(bumpedP, kn, n.w) ELSE bumpedP
<1>1. /\ windows' = IF "parent" \in on THEN Reported!Bind(withN, kp, q.w) ELSE withN
      /\ fired' = (IF n.fires THEN {kn} ELSE {}) \cup (IF q.fires THEN {kp} ELSE {})
                    \cup (IF "volume" \in on /\ v.fires THEN {<<"volume", p>>} ELSE {})
      /\ forgotten' = (forgotten \ fired) \cup (thrownN \cup thrownP
                        \cup (IF "volume" \in on THEN {"volume"} \X v.thrown ELSE {}))
    BY Zenon DEF Reported!RecordQuery, Reported!Tell
<1>2. CountsFor(c, p) = (IF "nx" \in on THEN {kn} ELSE {}) \cup (IF "parent" \in on THEN {kp} ELSE {})
    BY DEF CountsFor
<1>3. ThrownBy(c, p) = thrownN \cup thrownP
    BY <1>2 DEF ThrownBy
<1>4. windows \in [DOMAIN windows -> Counting] /\ now \in Nat
    BY DEF FindTypes
<1>5. Burst \in Nat /\ Rate \in Nat /\ Limit(kn) = Burst /\ Limit(kp) = Rate
    BY DetectionAssumption DEF Reported!FindingsAssumption, Limit, Reported!Thresholds
<1>6. /\ bumpedN \in [(DOMAIN windows \ thrownN) \cup (IF "nx" \in on THEN {kn} ELSE {}) -> Counting]
      /\ \A x \in DOMAIN windows \ thrownN : x # kn => bumpedN[x] = windows[x]
      /\ \A x \in thrownN : x \in DOMAIN windows /\ x[1] = "nx" /\ Reported!Expired(windows[x])
      /\ "nx" \in on => bumpedN[kn] = Turned(kn)
    <2>1. CASE "nx" \in on
        <3>1. bumpedN = Reported!Bump(windows, kn) /\ thrownN = Reported!Thrown(windows, kn)
                  /\ kn[1] = "nx"
              /\ (IF "nx" \in on THEN {kn} ELSE {}) = {kn}
            BY <2>1
        <3> HIDE DEF bumpedN, thrownN, kn
        <3>2. IsBumped(windows, kn, bumpedN, thrownN)
            BY <1>4, <3>1, BumpIs
        <3> QED
            BY <3>1, <3>2 DEF IsBumped, Turned
    <2>2. CASE "nx" \notin on
        BY <1>4, <2>2
    <2> QED
        BY <2>1, <2>2
<1>7. Reported!OfKind(bumpedN, "parent") = Reported!OfKind(windows, "parent")
      /\ \A x \in Reported!OfKind(windows, "parent") : bumpedN[x] = windows[x]
    <2>1. ASSUME NEW x, x[1] = "parent" PROVE x \in DOMAIN bumpedN <=> x \in DOMAIN windows
        BY <1>6, <2>1
    <2>2. \A x \in DOMAIN windows : x[1] = "parent" => x \notin thrownN /\ x # kn
        BY <1>6
    <2> HIDE DEF bumpedN, thrownN
    <2> QED
        BY <1>6, <2>1, <2>2 DEF Reported!OfKind
<1>8. Reported!Rolls(bumpedN, kp) <=> Reported!Rolls(windows, kp)
    <2>1. kp \in DOMAIN bumpedN <=> kp \in DOMAIN windows
        BY <1>7 DEF Reported!OfKind
    <2>2. kp \in DOMAIN windows => bumpedN[kp] = windows[kp]
        BY <1>7 DEF Reported!OfKind
    <2> HIDE DEF bumpedN, kp
    <2> QED
        BY <2>1, <2>2, Zenon DEF Reported!Rolls
<1>9. Reported!Thrown(bumpedN, kp) = Reported!Thrown(windows, kp)
    <2>1. Reported!Swept(bumpedN, kp) = Reported!Swept(windows, kp)
        <3>1. {x \in Reported!OfKind(bumpedN, "parent") : Reported!Expired(bumpedN[x])}
                = {x \in Reported!OfKind(windows, "parent") : Reported!Expired(windows[x])}
            BY <1>7
        <3>2. kp[1] = "parent"
            OBVIOUS
        <3> HIDE DEF bumpedN, kp
        <3> QED
            BY <1>7, <3>1, <3>2, Zenon DEF Reported!Swept
    <2> QED
        BY <1>8, <2>1, Zenon DEF Reported!Thrown
<1>10. /\ bumpedP \in [(DOMAIN bumpedN \ thrownP) \cup (IF "parent" \in on
              THEN {kp} ELSE {}) -> Counting]
       /\ \A x \in DOMAIN bumpedN \ thrownP : x # kp => bumpedP[x] = bumpedN[x]
       /\ \A x \in thrownP : x \in DOMAIN bumpedN /\ x[1] = "parent" /\ Reported!Expired(bumpedN[x])
       /\ "parent" \in on => bumpedP[kp] = Turned(kp)
    <2>1. CASE "parent" \in on
        <3>1. bumpedN \in [DOMAIN bumpedN -> Counting]
            BY <1>6
        <3>2. bumpedP = Reported!Bump(bumpedN, kp) /\ thrownP = Reported!Thrown(bumpedN, kp)
            BY <1>9, <2>1
        <3>3. bumpedP[kp] = IF Reported!Rolls(bumpedN, kp)
                THEN Reported!Fresh(IF kp \in DOMAIN bumpedN \ Reported!Thrown(bumpedN, kp)
                    THEN bumpedN[kp].alert ELSE Reported!Never)
                ELSE bumpedN[kp]
            BY <1>4, <3>1, <3>2, BumpIs DEF IsBumped
        <3>4. (kp \in DOMAIN bumpedN <=> kp \in DOMAIN windows)
              /\ (kp \in DOMAIN windows => bumpedN[kp] = windows[kp])
            BY <1>7 DEF Reported!OfKind
        <3>5. ~Reported!Rolls(windows, kp) => kp \in DOMAIN windows
            BY DEF Reported!Rolls
        <3>6. bumpedP[kp] = Turned(kp)
            <4> HIDE DEF bumpedN, bumpedP, kp
            <4> QED
                BY <1>8, <1>9, <3>3, <3>4, <3>5, Zenon DEF Turned
        <3>7. kp[1] = "parent" /\ (IF "parent" \in on THEN {kp} ELSE {}) = {kp}
            BY <2>1
        <3> HIDE DEF bumpedN, bumpedP, kp, thrownP
        <3>8. IsBumped(bumpedN, kp, bumpedP, thrownP)
            BY <1>4, <3>1, <3>2, BumpIs
        <3> QED
            BY <3>6, <3>7, <3>8 DEF IsBumped
    <2>2. CASE "parent" \notin on
        BY <1>6, <2>2
    <2> QED
        BY <2>1, <2>2
<1>11. "nx" \in on =>
          /\ n.w \in Counting /\ n.fires \in BOOLEAN
          /\ n.w.start = Turned(kn).start
          /\ n.w.count = Reported!Least(Turned(kn).count + (IF nx THEN 1 ELSE 0), Burst)
          /\ n.w.alert = IF n.fires THEN now ELSE Turned(kn).alert
          /\ n.fires => Turned(kn).alert = Reported!Never \/ now - Turned(kn).alert >= Window
          /\ n.w.count >= Burst
               => n.fires \/ (Turned(kn).alert # Reported!Never /\ ~(now - Turned(kn).alert >= Window))
    <2> SUFFICES ASSUME "nx" \in on
                 PROVE  /\ n.w \in Counting /\ n.fires \in BOOLEAN
                        /\ n.w.start = Turned(kn).start
                        /\ n.w.count = Reported!Least(Turned(kn).count + (IF nx THEN 1 ELSE 0), Burst)
                        /\ n.w.alert = IF n.fires THEN now ELSE Turned(kn).alert
                        /\ n.fires => Turned(kn).alert = Reported!Never
                               \/ now - Turned(kn).alert >= Window
                        /\ n.w.count >= Burst
                             => n.fires \/ (Turned(kn).alert # Reported!Never
                                 /\ ~(now - Turned(kn).alert >= Window))
        BY Zenon
    <2>1. bumpedN[kn] \in Counting /\ bumpedN[kn] = Turned(kn)
        BY <1>6
    <2>2. n = Reported!Alert(Reported!Counted(Turned(kn), IF nx THEN 1 ELSE 0, 0, Burst),
              w.count >= Burst)
        BY <2>1
    <2>3. w.count = Reported!Least(Turned(kn).count + (IF nx THEN 1 ELSE 0), Burst)
        <3>1. w = Reported!Counted(Turned(kn), IF nx THEN 1 ELSE 0, 0, Burst)
            BY <2>1
        <3> HIDE DEF w, kn
        <3> QED
            BY <2>1, <3>1 DEF Reported!Counted, Counting
    <2>4. (w.count >= Burst) \in BOOLEAN /\ (IF nx THEN 1 ELSE 0) \in {0, 1} /\ 0 \in {0, 1}
        OBVIOUS
    <2> DEFINE b == Turned(kn)
               i == IF nx THEN 1 ELSE 0
               hit == w.count >= Burst
               a == Reported!Alert(Reported!Counted(b, i, 0, Burst), hit)
    <2>5. b \in Counting /\ i \in {0, 1} /\ hit \in BOOLEAN /\ n = a
        BY <2>1, <2>2, <2>4
    <2> HIDE DEF n, w, kn, bumpedN, b, i, hit
    <2>6. IsAlert(b, i, Burst, hit, a)
        BY <1>4, <1>5, <2>4, <2>5, TurnIs
    <2> HIDE DEF a
    <2>7. n.w.count >= Burst => hit
        BY <2>3, <2>5, <2>6 DEF hit, b, i, IsAlert
    <2> QED
        BY <2>5, <2>6, <2>7, Zenon DEF b, i, IsAlert
<1>12. "parent" \in on =>
          /\ q.w \in Counting /\ q.fires \in BOOLEAN
          /\ q.w.start = Turned(kp).start
          /\ q.w.count = Reported!Least(Turned(kp).count + 1, Rate)
          /\ q.w.alert = IF q.fires THEN now ELSE Turned(kp).alert
          /\ q.fires => Turned(kp).alert = Reported!Never \/ now - Turned(kp).alert >= Window
          /\ q.w.count >= Rate
               => q.fires \/ (Turned(kp).alert # Reported!Never /\ ~(now - Turned(kp).alert >= Window))
    <2> SUFFICES ASSUME "parent" \in on
                 PROVE  /\ q.w \in Counting /\ q.fires \in BOOLEAN
                        /\ q.w.start = Turned(kp).start
                        /\ q.w.count = Reported!Least(Turned(kp).count + 1, Rate)
                        /\ q.w.alert = IF q.fires THEN now ELSE Turned(kp).alert
                        /\ q.fires => Turned(kp).alert = Reported!Never
                               \/ now - Turned(kp).alert >= Window
                        /\ q.w.count >= Rate
                             => q.fires \/ (Turned(kp).alert # Reported!Never
                                 /\ ~(now - Turned(kp).alert >= Window))
        BY Zenon
    <2> DEFINE hit == "parent" \in on /\ (asks.count >= Rate \/ asks.odd >= OddAt)
    <2>1. bumpedP[kp] \in Counting /\ bumpedP[kp] = Turned(kp)
        BY <1>10
    <2>2. asks = Reported!Counted(Turned(kp), 1, IF odd THEN 1 ELSE 0, Rate)
              /\ q = Reported!Alert(asks, hit)
        BY <2>1
    <2>3. asks.count = Reported!Least(Turned(kp).count + 1, Rate)
        <3> HIDE DEF asks, kp
        <3> QED
            BY <2>1, <2>2 DEF Reported!Counted, Counting
    <2>4. hit \in BOOLEAN /\ (asks.count >= Rate => hit) /\ (IF odd THEN 1 ELSE 0) \in {0, 1}
              /\ 1 \in {0, 1}
        OBVIOUS
    <2> DEFINE b == Turned(kp)
               i == IF odd THEN 1 ELSE 0
               a == Reported!Alert(Reported!Counted(b, 1, i, Rate), hit)
    <2>5. b \in Counting /\ i \in {0, 1} /\ q = a
        BY <2>1, <2>2, <2>4
    <2> HIDE DEF q, asks, kp, bumpedP, hit, b, i
    <2>6. IsAlert(b, 1, Rate, hit, a)
        BY <1>4, <1>5, <2>4, <2>5, TurnIs
    <2> HIDE DEF a
    <2>7. q.w.count >= Rate => hit
        BY <2>3, <2>4, <2>5, <2>6 DEF b, IsAlert
    <2> QED
        BY <2>5, <2>6, <2>7, Zenon DEF b, IsAlert
<1>13. q.fires => "parent" \in on
    BY DEF Reported!Alert
<1>14. n.fires => "nx" \in on
    OBVIOUS
<1>15. windows' = [x \in (DOMAIN windows \ (thrownN \cup thrownP)) \cup CountsFor(c, p) |->
                     IF "parent" \in on /\ x = kp THEN q.w ELSE IF "nx" \in on /\ x = kn
                         THEN n.w ELSE windows[x]]
    <2> DEFINE dom == (DOMAIN windows \ (thrownN \cup thrownP)) \cup CountsFor(c, p)
    <2>1. kn # kp /\ kn[1] = "nx" /\ kp[1] = "parent"
        OBVIOUS
    <2>2. DOMAIN bumpedP = (((DOMAIN windows \ thrownN) \cup (IF "nx" \in on
              THEN {kn} ELSE {})) \ thrownP)
                              \cup (IF "parent" \in on THEN {kp} ELSE {})
        BY <1>6, <1>10
    <2>3. kn \notin thrownP
        BY <1>10, <2>1
    <2>4. DOMAIN bumpedP = dom
        BY <1>2, <2>2, <2>3
    <2>5. \A x \in dom : x # kp /\ x # kn => bumpedP[x] = windows[x]
        BY <1>2, <1>6, <1>10
    <2>6. windows' = IF "parent" \in on THEN Reported!Bind(withN, kp, q.w) ELSE withN
        BY <1>1
    <2>7. bumpedP = [x \in dom |-> bumpedP[x]]
        BY <1>10, <2>4
    <2>8. ("nx" \in on => kn \in dom) /\ ("parent" \in on => kp \in dom)
          /\ ("nx" \notin on => kn \notin dom \/ bumpedP[kn] = windows[kn])
          /\ ("parent" \notin on => kp \notin dom \/ bumpedP[kp] = windows[kp])
        BY <1>2, <1>6, <1>10, <2>1, <2>4
    <2>9. withN = [x \in dom |-> IF "nx" \in on /\ x = kn THEN n.w ELSE bumpedP[x]]
        <3>1. CASE "nx" \in on
            <4>1. dom \cup {kn} = dom
                BY <2>8, <3>1
            <4>2. withN = Reported!Bind(bumpedP, kn, n.w)
                BY <3>1
            <4> HIDE DEF dom, bumpedP, n, kn, withN
            <4> QED
                BY <2>4, <3>1, <4>1, <4>2 DEF Reported!Bind
        <3>2. CASE "nx" \notin on
            <4>1. withN = bumpedP
                BY <3>2
            <4> HIDE DEF dom, bumpedP, n, kn, withN
            <4> QED
                BY <2>7, <3>2, <4>1
        <3> QED
            BY <3>1, <3>2
    <2> HIDE DEF dom, bumpedP, bumpedN, n, q, withN, kn, kp
    <2>10. CASE "parent" \in on
        <3>1. dom \cup {kp} = dom /\ DOMAIN withN = dom
            BY <2>8, <2>9, <2>10
        <3>2. windows' = [x \in dom |-> IF x = kp THEN q.w ELSE withN[x]]
            BY <2>6, <2>10, <3>1 DEF Reported!Bind
        <3> QED
            BY <2>5, <2>8, <2>9, <2>10, <3>2 DEF dom
    <2>11. CASE "parent" \notin on
        BY <2>5, <2>6, <2>8, <2>9, <2>11 DEF dom
    <2> QED
        BY <2>10, <2>11
<1> HIDE DEF n, q, w, asks, bumpedN, bumpedP, withN, v
<1>16. windows' \in [(DOMAIN windows \ ThrownBy(c, p)) \cup CountsFor(c, p) -> Counting]
    BY <1>2, <1>3, <1>4, <1>11, <1>12, <1>15
<1>17. \A x \in DOMAIN windows \ ThrownBy(c, p) : x \notin CountsFor(c, p) => windows'[x] = windows[x]
    BY <1>2, <1>3, <1>15
<1>18. \A x \in ThrownBy(c, p) : x \in DOMAIN windows /\ Reported!Expired(windows[x])
    BY <1>3, <1>6, <1>7, <1>10 DEF Reported!OfKind
<1>19. /\ kn \in fired' <=> n.fires
       /\ kp \in fired' <=> q.fires
       /\ fired' \subseteq CountsFor(c, p) \cup {<<"volume", p>>}
    BY <1>1, <1>2, <1>13, <1>14
<1>20. ThrownBy(c, p) \subseteq forgotten'
    BY <1>1, <1>3
<1>23. Tells
    <2>1. alerted' = [s \in Reported!Subject |-> IF s \in fired' THEN now ELSE alerted[s]]
        BY Zenon DEF Reported!RecordQuery, Reported!Tell
    <2> QED
        BY <1>1, <2>1 DEF Tells
<1>24. Named(p, l)
    <2>1. IF "volume" \in on THEN volume' = Reported!Volume(p, l).map ELSE UNCHANGED volume
        BY Zenon DEF Reported!RecordQuery
    <2>2. \A x : <<"volume", x>> \in fired' <=> x = p /\ "volume" \in on /\ Reported!Volume(p, l).fires
        BY <1>1 DEF v
    <2>3. "volume" \in on => \A x \in Reported!Volume(p, l).thrown : <<"volume", x>> \in forgotten'
        BY <1>1 DEF v
    <2> QED
        BY <2>1, <2>2, <2>3 DEF Named
<1>21. ASSUME "nx" \in on PROVE IsCounted(kn, IF kn[1] = "nx" /\ ~nx THEN 0 ELSE 1)
    <2>1. windows'[kn] = n.w
        BY <1>2, <1>15, <1>21
    <2>2. (IF kn[1] = "nx" /\ ~nx THEN 0 ELSE 1) = IF nx THEN 1 ELSE 0
        OBVIOUS
    <2> HIDE DEF kn
    <2> QED
        BY <1>5, <1>11, <1>19, <1>21, <2>1, <2>2, Zenon DEF IsCounted
<1>22. ASSUME "parent" \in on PROVE IsCounted(kp, IF kp[1] = "nx" /\ ~nx THEN 0 ELSE 1)
    <2>1. windows'[kp] = q.w
        BY <1>2, <1>15, <1>22
    <2>2. (IF kp[1] = "nx" /\ ~nx THEN 0 ELSE 1) = 1
        OBVIOUS
    <2> HIDE DEF kp
    <2> QED
        BY <1>5, <1>12, <1>19, <1>22, <2>1, <2>2, Zenon DEF IsCounted
<1> QED
    BY <1>2, <1>16, <1>17, <1>18, <1>19, <1>20, <1>21, <1>22, <1>23, <1>24 DEF QueryDone
-----------------------------------------------------------------------------
(* Names, rhythms, endpoints and stacks.                                   *)

\* A record of when there was a finding about k, and what was thrown away for it.
IsTold(m, k, r, wait) ==
    /\ \A x \in DOMAIN r.map : r.map[x].alert \in Time
    /\ \A x \in DOMAIN m \ r.thrown : x \in DOMAIN r.map /\ (x # k => r.map[x].alert = m[x].alert)
    /\ k \in DOMAIN r.map
    /\ LET last == IF k \in DOMAIN m \ r.thrown THEN m[k].alert ELSE Reported!Never
       IN  /\ r.map[k].alert = IF r.fires THEN now ELSE last
           /\ r.fires => last = Reported!Never \/ now - last >= wait

LEMMA VolumeIs ==
    ASSUME FindTypes, NEW p, NEW l
    PROVE  IsTold(volume, p, Reported!Volume(p, l), VolumeQuiet + 1)
<1> DEFINE kept == IF Reported!Cardinality(DOMAIN volume) > MaxRecords
        THEN Reported!Only(volume, {}) ELSE volume
           st == IF p \in DOMAIN kept THEN kept[p] ELSE [subs |-> {}, alert |-> Reported!Never]
           subs == st.subs \cup {l}
           fires == Reported!Cardinality(subs) >= SubsAt
               /\ (st.alert = Reported!Never \/ now - st.alert > VolumeQuiet)
           r == [subs |-> subs, alert |-> IF fires THEN now ELSE st.alert]
           v == Reported!Volume(p, l)
<1>1. /\ v.map = Reported!Bind(kept, p, r)
      /\ v.fires = fires
      /\ v.thrown = DOMAIN volume \ DOMAIN kept
    BY DEF Reported!Volume
<1>2. DOMAIN kept \subseteq DOMAIN volume /\ \A x \in DOMAIN kept : kept[x].alert = volume[x].alert
    BY DEF Reported!Only
<1>3. DOMAIN volume \ v.thrown = DOMAIN kept
    BY <1>1, <1>2
<1>4. st.alert = IF p \in DOMAIN volume \ v.thrown THEN volume[p].alert ELSE Reported!Never
    BY <1>2, <1>3
<1>5. st.alert \in Time
    BY <1>2, <1>4 DEF FindTypes, Time
<1>6. r.alert = IF fires THEN now ELSE st.alert
    OBVIOUS
<1>7. r.alert \in Time
    BY <1>5, <1>6 DEF FindTypes, Time
<1>8. fires => st.alert = Reported!Never \/ now - st.alert >= VolumeQuiet + 1
    <2>1. fires => st.alert = Reported!Never \/ now - st.alert > VolumeQuiet
        OBVIOUS
    <2>2. VolumeQuiet \in Nat /\ now \in Nat
        BY DetectionAssumption DEF Reported!FindingsAssumption, FindTypes
    <2> HIDE DEF st, fires
    <2> QED
        BY <1>5, <2>1, <2>2 DEF Time, Reported!Never
<1> HIDE DEF kept, st, fires, r, v
<1>9. /\ DOMAIN v.map = DOMAIN kept \cup {p} /\ v.map[p] = r
      /\ \A x \in DOMAIN kept : x # p => v.map[x] = kept[x]
    BY <1>1 DEF Reported!Bind
<1>10. \A x \in DOMAIN v.map : v.map[x].alert \in Time
    BY <1>2, <1>7, <1>9 DEF FindTypes
<1>11. \A x \in DOMAIN volume \ v.thrown : x \in DOMAIN v.map
           /\ (x # p => v.map[x].alert = volume[x].alert)
    BY <1>2, <1>3, <1>9
<1>12. p \in DOMAIN v.map /\ v.map[p].alert = IF v.fires THEN now ELSE st.alert
    BY <1>1, <1>6, <1>9
<1> QED
    BY <1>1, <1>4, <1>8, <1>10, <1>11, <1>12, Zenon DEF IsTold, v

LEMMA BeaconIs ==
    ASSUME FindTypes, NEW k
    PROVE  IsTold(beacons, k, Reported!Beacon(k), ReAlert)
<1> DEFINE kept == IF Reported!Cardinality(DOMAIN beacons) <= MaxRecords THEN beacons
                   ELSE Reported!Only(beacons, {x \in DOMAIN beacons :
                       now - Reported!Last(beacons[x].times) <= MaxInterval})
           st == IF k \in DOMAIN kept THEN kept[k] ELSE [times |-> <<>>, alert |-> Reported!Never]
           all == Append(st.times, now)
           times == IF Len(all) > KeepTimes THEN Tail(all) ELSE all
           ds == [i \in 1..(Len(times) - 1) |-> times[i + 1] - times[i]]
           fires == /\ Len(times) >= MinSample
                    /\ Reported!Regular(ds)
                    /\ st.alert = Reported!Never \/ Reported!Quiet(ds, now - st.alert)
           r == [times |-> times, alert |-> IF fires THEN now ELSE st.alert]
           v == Reported!Beacon(k)
<1>1. /\ v.map = Reported!Bind(kept, k, r)
      /\ v.fires = fires
      /\ v.thrown = DOMAIN beacons \ DOMAIN kept
    BY DEF Reported!Beacon
<1>2. DOMAIN kept \subseteq DOMAIN beacons /\ \A x \in DOMAIN kept : kept[x].alert = beacons[x].alert
    BY DEF Reported!Only
<1>3. DOMAIN beacons \ v.thrown = DOMAIN kept
    BY <1>1, <1>2
<1>4. st.alert = IF k \in DOMAIN beacons \ v.thrown THEN beacons[k].alert ELSE Reported!Never
    BY <1>2, <1>3
<1>5. st.alert \in Time
    BY <1>2, <1>4 DEF FindTypes, Time
<1>6. r.alert = IF fires THEN now ELSE st.alert
    OBVIOUS
<1>7. r.alert \in Time
    BY <1>5, <1>6 DEF FindTypes, Time
<1>8. fires => st.alert = Reported!Never \/ now - st.alert >= ReAlert
    BY DEF Reported!Quiet
<1> HIDE DEF kept, st, fires, r, v
<1>9. /\ DOMAIN v.map = DOMAIN kept \cup {k} /\ v.map[k] = r
      /\ \A x \in DOMAIN kept : x # k => v.map[x] = kept[x]
    BY <1>1 DEF Reported!Bind
<1>10. \A x \in DOMAIN v.map : v.map[x].alert \in Time
    BY <1>2, <1>7, <1>9 DEF FindTypes
<1>11. \A x \in DOMAIN beacons \ v.thrown : x \in DOMAIN v.map
           /\ (x # k => v.map[x].alert = beacons[x].alert)
    BY <1>2, <1>3, <1>9
<1>12. k \in DOMAIN v.map /\ v.map[k].alert = IF v.fires THEN now ELSE st.alert
    BY <1>1, <1>6, <1>9
<1> QED
    BY <1>1, <1>4, <1>8, <1>10, <1>11, <1>12, Zenon DEF IsTold, v

\* The rhythm of a destination was looked at, or nothing was said of any.
Listened(k) ==
    \/ beacons' = beacons /\ \A x : <<"beacon", x>> \notin fired'
    \/ /\ beacons' = Reported!Beacon(k).map
       /\ \A x \in Reported!Beacon(k).thrown : <<"beacon", x>> \in forgotten'
       /\ \A x : <<"beacon", x>> \in fired' <=> x = k /\ Reported!Beacon(k).fires

\* An endpoint was named, or none.
Passed ==
    \/ bypass' = bypass /\ \A x : <<"bypass", x>> \notin fired'
    \/ \E e \in Endpoint :
          /\ bypass' = Reported!Bypass(e).map /\ Reported!Bypass(e).fires
          /\ \A x : <<"bypass", x>> \in fired' <=> x = e

Others ==
    ({"volume"} \X Parent) \cup ({"beacon"} \X (Parent \X Leaf))
        \cup ({"bypass"} \X Endpoint) \cup ({"ja4"} \X Stack)

LEMMA ConnectIs ==
    ASSUME NEW p \in Parent, NEW l \in Leaf, NEW trusted \in BOOLEAN,
           NEW stack \in Reported!AtMostOne(Stack), NEW dns \in Reported!AtMostOne(Endpoint),
           Reported!Connect(p, l, trusted, stack, dns)
    PROVE  /\ Tells /\ Named(p, l) /\ Listened(<<p, l>>) /\ Passed
           /\ stacks \subseteq stacks'
           /\ \A t : <<"ja4", t>> \in fired' => t \in stacks' \ stacks
           /\ fired' \subseteq Others
           /\ UNCHANGED <<now, on, windows, asked>>
<1> DEFINE b == Reported!Beacon(<<p, l>>)
           v == Reported!Volume(p, l)
           rhythm == "beacon" \in on /\ ~trusted
           names == "volume" \in on /\ ~trusted
           first == IF start = Reported!Never THEN now ELSE start
           met == IF "ja4" \in on THEN stack ELSE {}
           passed == IF "bypass" \in on THEN {e \in dns : Reported!Bypass(e).fires} ELSE {}
<1>1. /\ IF rhythm THEN beacons' = b.map ELSE UNCHANGED beacons
      /\ IF names THEN volume' = v.map ELSE UNCHANGED volume
      /\ stacks' = stacks \cup met
      /\ bypass' = IF passed # {} THEN Reported!Bypass(CHOOSE e \in passed : TRUE).map ELSE bypass
      /\ UNCHANGED <<now, on, windows, asked>>
    BY Zenon DEF Reported!Connect
<1>2. /\ fired' = (IF rhythm /\ b.fires THEN {<<"beacon", <<p, l>>>>} ELSE {})
                    \cup (IF names /\ v.fires THEN {<<"volume", p>>} ELSE {})
                    \cup ({"bypass"} \X passed)
                    \cup (IF ~trusted /\ now - first >= Learn THEN {"ja4"} \X (met \ stacks) ELSE {})
      /\ forgotten' = (forgotten \ fired) \cup ((IF rhythm THEN {"beacon"} \X b.thrown ELSE {})
                                                \cup (IF names THEN {"volume"} \X v.thrown ELSE {}))
      /\ alerted' = [s \in Reported!Subject |-> IF s \in fired' THEN now ELSE alerted[s]]
    BY Zenon DEF Reported!Connect, Reported!Tell
<1>3. met \subseteq Stack /\ passed \subseteq Endpoint /\ \A e \in passed : passed = {e}
    BY DEF Reported!AtMostOne
<1> HIDE DEF b, v, rhythm, names, first, met, passed
<1>4. Tells
    BY <1>2 DEF Tells
<1>5. Named(p, l)
    <2>1. \A x : <<"volume", x>> \in fired' <=> x = p /\ names /\ v.fires
        BY <1>2
    <2>2. names => \A x \in v.thrown : <<"volume", x>> \in forgotten'
        BY <1>2
    <2> QED
        BY <1>1, <2>1, <2>2 DEF Named, v
<1>6. Listened(<<p, l>>)
    <2> DEFINE k == <<p, l>>
    <2>1. \A x : <<"beacon", x>> \in fired' <=> x = k /\ rhythm /\ b.fires
        BY <1>2
    <2>2. rhythm => \A x \in b.thrown : <<"beacon", x>> \in forgotten'
        BY <1>2
    <2>3. b = Reported!Beacon(k)
        BY DEF b
    <2> HIDE DEF k
    <2>4. Listened(k)
        BY <1>1, <2>1, <2>2, <2>3 DEF Listened
    <2> QED
        BY <2>4 DEF k
<1>7. Passed
    <2>1. \A x : <<"bypass", x>> \in fired' <=> x \in passed
        BY <1>2
    <2>2. CASE passed = {}
        BY <1>1, <2>1, <2>2 DEF Passed
    <2>3. CASE passed # {}
        <3>1. PICK e \in passed : TRUE
            BY <2>3
        <3>2. passed = {e} /\ e \in Endpoint
            BY <1>3, <3>1
        <3>3. (CHOOSE x \in passed : TRUE) = e
            BY <3>2
        <3>4. Reported!Bypass(e).fires
            BY <3>1 DEF passed
        <3>5. bypass' = Reported!Bypass(e).map
            BY <1>1, <2>3, <3>3, Zenon
        <3>6. \A x : <<"bypass", x>> \in fired' <=> x = e
            BY <2>1, <3>2
        <3> QED
            BY <3>2, <3>4, <3>5, <3>6 DEF Passed
    <2> QED
        BY <2>2, <2>3
<1>8. \A t : <<"ja4", t>> \in fired' => t \in met \ stacks
    BY <1>2
<1>9. stacks \subseteq stacks' /\ met \subseteq stacks'
    BY <1>1
<1>10. fired' \subseteq Others
    <2>1. (IF rhythm /\ b.fires THEN {<<"beacon", <<p, l>>>>}
              ELSE {}) \subseteq {"beacon"} \X (Parent \X Leaf)
        OBVIOUS
    <2>2. (IF names /\ v.fires THEN {<<"volume", p>>} ELSE {}) \subseteq {"volume"} \X Parent
        OBVIOUS
    <2>3. {"bypass"} \X passed \subseteq {"bypass"} \X Endpoint
        BY <1>3
    <2>4. (IF ~trusted /\ now - first >= Learn THEN {"ja4"} \X (met \ stacks)
              ELSE {}) \subseteq {"ja4"} \X Stack
        BY <1>3
    <2> QED
        BY <1>2, <2>1, <2>2, <2>3, <2>4 DEF Others
<1> QED
    BY <1>1, <1>4, <1>5, <1>6, <1>7, <1>8, <1>9, <1>10

\* Its finding is still on record.
Still(s) == alerted'[s] # Reported!Never /\ (s \in forgotten' => s \in fired')

\* A name is not told twice within its cooldown.
LEMMA VolumeKeeps ==
    ASSUME QuietInv, NEW p, NEW l, Named(p, l), Tells, now' = now
    PROVE  /\ \A x \in DOMAIN volume' : volume'[x].alert \in Time
           /\ \A x \in Parent :
                 /\ Still(<<"volume", x>>) => x \in DOMAIN volume'
                        /\ volume'[x].alert = alerted'[<<"volume", x>>]
                 /\ <<"volume", x>> \in fired' => Reported!Rested(<<"volume", x>>)
<1>1. CASE volume' = volume /\ \A x : <<"volume", x>> \notin fired'
    <2>1. \A x \in DOMAIN volume' : volume'[x].alert \in Time
        BY <1>1 DEF QuietInv, FindTypes
    <2>2. ASSUME NEW x \in Parent, Still(<<"volume", x>>)
          PROVE  x \in DOMAIN volume' /\ volume'[x].alert = alerted'[<<"volume", x>>]
        <3>1. <<"volume", x>> \in Reported!Subject
            BY DEF Reported!Subject
        <3>2. alerted'[<<"volume", x>>] = alerted[<<"volume", x>>]
            BY <1>1, <3>1 DEF Tells
        <3>3. Recalled(<<"volume", x>>)
            BY <1>1, <2>2, <3>2 DEF Still, Recalled, Tells
        <3> QED
            BY <1>1, <3>2, <3>3 DEF QuietInv
    <2> QED
        BY <1>1, <2>1, <2>2
<1>2. CASE /\ volume' = Reported!Volume(p, l).map
           /\ \A x \in Reported!Volume(p, l).thrown : <<"volume", x>> \in forgotten'
           /\ \A x : <<"volume", x>> \in fired' <=> x = p /\ Reported!Volume(p, l).fires
    <2> DEFINE v == Reported!Volume(p, l)
    <2>1. IsTold(volume, p, v, VolumeQuiet + 1)
        BY VolumeIs DEF QuietInv
    <2>2. volume' = v.map /\ (\A x \in v.thrown : <<"volume", x>> \in forgotten')
          /\ \A x : <<"volume", x>> \in fired' <=> x = p /\ v.fires
        BY <1>2
    <2> HIDE DEF v
    <2>3. ASSUME NEW x \in Parent
          PROVE  /\ Still(<<"volume", x>>) => x \in DOMAIN volume'
                        /\ volume'[x].alert = alerted'[<<"volume", x>>]
                 /\ <<"volume", x>> \in fired' => Reported!Rested(<<"volume", x>>)
        <3> DEFINE s == <<"volume", x>>
                   last == IF x \in DOMAIN volume \ v.thrown THEN volume[x].alert ELSE Reported!Never
        <3>1. s \in Reported!Subject /\ s[1] = "volume" /\ Reported!Cooldown[s[1]] = VolumeQuiet + 1
            BY DEF Reported!Subject, Reported!Cooldown
        <3>2. alerted'[s] = IF s \in fired' THEN now ELSE alerted[s]
            BY <3>1 DEF Tells
        <3>3. Recalled(s) => x \in DOMAIN volume /\ volume[x].alert = alerted[s]
            BY DEF QuietInv
        <3>4. s \notin forgotten' /\ alerted[s] # Reported!Never => Recalled(s) /\ x \notin v.thrown
            BY <2>2 DEF Recalled, Tells
        <3>5. (s \in fired') <=> x = p /\ v.fires
            BY <2>2
        <3>6. s \notin forgotten' /\ alerted[s] # Reported!Never
                  => last = alerted[s] /\ x \in DOMAIN volume \ v.thrown
            BY <3>3, <3>4
        <3> HIDE DEF s
        <3>7. ASSUME s \in fired' PROVE Reported!Rested(s)
            <4>1. x = p /\ v.fires
                BY <3>5, <3>7
            <4>2. last = Reported!Never \/ now - last >= VolumeQuiet + 1
                BY <2>1, <4>1 DEF IsTold
            <4> HIDE DEF last
            <4> QED
                BY <3>1, <3>6, <4>2 DEF Reported!Rested
        <3>8. ASSUME Still(s) PROVE x \in DOMAIN volume' /\ volume'[x].alert = alerted'[s]
            <4>1. CASE s \in fired'
                BY <2>1, <2>2, <3>2, <3>5, <4>1 DEF IsTold
            <4>2. CASE s \notin fired'
                <5>1. s \notin forgotten' /\ alerted[s] # Reported!Never /\ alerted'[s] = alerted[s]
                    BY <3>2, <3>8, <4>2 DEF Still
                <5>2. last = alerted[s] /\ x \in DOMAIN volume \ v.thrown
                    BY <3>6, <5>1
                <5>3. CASE x = p
                    <6>1. ~v.fires /\ p \in DOMAIN v.map /\ v.map[p].alert = last
                        BY <2>1, <3>5, <4>2, <5>3 DEF IsTold
                    <6> QED
                        BY <2>2, <5>1, <5>2, <5>3, <6>1
                <5>4. CASE x # p
                    BY <2>1, <2>2, <5>1, <5>2, <5>4 DEF IsTold
                <5> QED
                    BY <5>3, <5>4
            <4> QED
                BY <4>1, <4>2
        <3> QED
            BY <3>7, <3>8 DEF s
    <2>4. \A x \in DOMAIN volume' : volume'[x].alert \in Time
        BY <2>1, <2>2 DEF IsTold
    <2> QED
        BY <2>3, <2>4
<1> QED
    BY <1>1, <1>2 DEF Named

\* Nor is a rhythm.
LEMMA BeaconKeeps ==
    ASSUME QuietInv, NEW k, Listened(k), Tells, now' = now
    PROVE  /\ \A x \in DOMAIN beacons' : beacons'[x].alert \in Time
           /\ \A x \in Parent \X Leaf :
                 /\ Still(<<"beacon", x>>) => x \in DOMAIN beacons'
                        /\ beacons'[x].alert = alerted'[<<"beacon", x>>]
                 /\ <<"beacon", x>> \in fired' => Reported!Rested(<<"beacon", x>>)
<1>1. CASE beacons' = beacons /\ \A x : <<"beacon", x>> \notin fired'
    <2>1. \A x \in DOMAIN beacons' : beacons'[x].alert \in Time
        BY <1>1 DEF QuietInv, FindTypes
    <2>2. ASSUME NEW x \in Parent \X Leaf, Still(<<"beacon", x>>)
          PROVE  x \in DOMAIN beacons' /\ beacons'[x].alert = alerted'[<<"beacon", x>>]
        <3>1. <<"beacon", x>> \in Reported!Subject
            BY DEF Reported!Subject
        <3>2. alerted'[<<"beacon", x>>] = alerted[<<"beacon", x>>]
            BY <1>1, <3>1 DEF Tells
        <3>3. Recalled(<<"beacon", x>>)
            BY <1>1, <2>2, <3>2 DEF Still, Recalled, Tells
        <3> QED
            BY <1>1, <3>2, <3>3 DEF QuietInv
    <2> QED
        BY <1>1, <2>1, <2>2
<1>2. CASE /\ beacons' = Reported!Beacon(k).map
           /\ \A x \in Reported!Beacon(k).thrown : <<"beacon", x>> \in forgotten'
           /\ \A x : <<"beacon", x>> \in fired' <=> x = k /\ Reported!Beacon(k).fires
    <2> DEFINE v == Reported!Beacon(k)
    <2>1. IsTold(beacons, k, v, ReAlert)
        BY BeaconIs DEF QuietInv
    <2>2. beacons' = v.map /\ (\A x \in v.thrown : <<"beacon", x>> \in forgotten')
          /\ \A x : <<"beacon", x>> \in fired' <=> x = k /\ v.fires
        BY <1>2
    <2> HIDE DEF v
    <2>3. ASSUME NEW x \in Parent \X Leaf
          PROVE  /\ Still(<<"beacon", x>>) => x \in DOMAIN beacons'
                        /\ beacons'[x].alert = alerted'[<<"beacon", x>>]
                 /\ <<"beacon", x>> \in fired' => Reported!Rested(<<"beacon", x>>)
        <3> DEFINE s == <<"beacon", x>>
                   last == IF x \in DOMAIN beacons \ v.thrown THEN beacons[x].alert ELSE Reported!Never
        <3>1. s \in Reported!Subject /\ s[1] = "beacon" /\ Reported!Cooldown[s[1]] = ReAlert
            BY DEF Reported!Subject, Reported!Cooldown
        <3>2. alerted'[s] = IF s \in fired' THEN now ELSE alerted[s]
            BY <3>1 DEF Tells
        <3>3. Recalled(s) => x \in DOMAIN beacons /\ beacons[x].alert = alerted[s]
            BY DEF QuietInv
        <3>4. s \notin forgotten' /\ alerted[s] # Reported!Never => Recalled(s) /\ x \notin v.thrown
            BY <2>2 DEF Recalled, Tells
        <3>5. (s \in fired') <=> x = k /\ v.fires
            BY <2>2
        <3>6. s \notin forgotten' /\ alerted[s] # Reported!Never
                  => last = alerted[s] /\ x \in DOMAIN beacons \ v.thrown
            BY <3>3, <3>4
        <3> HIDE DEF s
        <3>7. ASSUME s \in fired' PROVE Reported!Rested(s)
            <4>1. x = k /\ v.fires
                BY <3>5, <3>7
            <4>2. last = Reported!Never \/ now - last >= ReAlert
                BY <2>1, <4>1 DEF IsTold
            <4> HIDE DEF last
            <4> QED
                BY <3>1, <3>6, <4>2 DEF Reported!Rested
        <3>8. ASSUME Still(s) PROVE x \in DOMAIN beacons' /\ beacons'[x].alert = alerted'[s]
            <4>1. CASE s \in fired'
                BY <2>1, <2>2, <3>2, <3>5, <4>1 DEF IsTold
            <4>2. CASE s \notin fired'
                <5>1. s \notin forgotten' /\ alerted[s] # Reported!Never /\ alerted'[s] = alerted[s]
                    BY <3>2, <3>8, <4>2 DEF Still
                <5>2. last = alerted[s] /\ x \in DOMAIN beacons \ v.thrown
                    BY <3>6, <5>1
                <5>3. CASE x = k
                    <6>1. ~v.fires /\ k \in DOMAIN v.map /\ v.map[k].alert = last
                        BY <2>1, <3>5, <4>2, <5>3 DEF IsTold
                    <6> QED
                        BY <2>2, <5>1, <5>2, <5>3, <6>1
                <5>4. CASE x # k
                    BY <2>1, <2>2, <5>1, <5>2, <5>4 DEF IsTold
                <5> QED
                    BY <5>3, <5>4
            <4> QED
                BY <4>1, <4>2
        <3> QED
            BY <3>7, <3>8 DEF s
    <2>4. \A x \in DOMAIN beacons' : beacons'[x].alert \in Time
        BY <2>1, <2>2 DEF IsTold
    <2> QED
        BY <2>3, <2>4
<1> QED
    BY <1>1, <1>2 DEF Listened

\* Nor an endpoint.
LEMMA BypassKeeps ==
    ASSUME QuietInv, Passed, Tells, now' = now
    PROVE  /\ \A x \in DOMAIN bypass' : bypass'[x] \in Nat
           /\ \A x \in Endpoint :
                 /\ alerted'[<<"bypass", x>>] # Reported!Never =>
                       \/ x \in DOMAIN bypass' /\ bypass'[x] = alerted'[<<"bypass", x>>]
                       \/ now - alerted'[<<"bypass", x>>] >= BypassQuiet
                 /\ <<"bypass", x>> \in fired' => Reported!Rested(<<"bypass", x>>)
<1>1. \A x \in Endpoint : <<"bypass", x>> \in Reported!Subject
    BY DEF Reported!Subject
<1>2. \A x \in Endpoint : alerted'[<<"bypass", x>>] =
            IF <<"bypass", x>> \in fired' THEN now ELSE alerted[<<"bypass", x>>]
    BY <1>1 DEF Tells
<1>3. CASE bypass' = bypass /\ \A x : <<"bypass", x>> \notin fired'
    BY <1>2, <1>3 DEF QuietInv, FindTypes
<1>4. ASSUME NEW e \in Endpoint, bypass' = Reported!Bypass(e).map, Reported!Bypass(e).fires,
             \A x : <<"bypass", x>> \in fired' <=> x = e
      PROVE  /\ \A x \in DOMAIN bypass' : bypass'[x] \in Nat
             /\ \A x \in Endpoint :
                   /\ alerted'[<<"bypass", x>>] # Reported!Never =>
                         \/ x \in DOMAIN bypass' /\ bypass'[x] = alerted'[<<"bypass", x>>]
                         \/ now - alerted'[<<"bypass", x>>] >= BypassQuiet
                   /\ <<"bypass", x>> \in fired' => Reported!Rested(<<"bypass", x>>)
    <2> DEFINE refused == e \in DOMAIN bypass /\ now - bypass[e] < BypassQuiet
               kept == IF Reported!Cardinality(DOMAIN bypass) <= MaxRecords THEN bypass
                       ELSE Reported!Only(bypass, {x \in DOMAIN bypass :
                           now - bypass[x] <= BypassQuiet})
    <2>1. ~refused /\ bypass' = Reported!Bind(kept, e, now)
        BY <1>4 DEF Reported!Bypass
    <2>2. /\ DOMAIN kept \subseteq DOMAIN bypass
          /\ \A x \in DOMAIN kept : kept[x] = bypass[x]
          /\ \A x \in DOMAIN bypass : x \in DOMAIN kept \/ ~(now - bypass[x] <= BypassQuiet)
        BY DEF Reported!Only
    <2>3. BypassQuiet \in Nat /\ now \in Nat /\ \A x \in DOMAIN bypass : bypass[x] \in Nat
        BY DetectionAssumption DEF Reported!FindingsAssumption, QuietInv, FindTypes
    <2>4. e \in DOMAIN bypass => now - bypass[e] >= BypassQuiet
        <3> HIDE DEF kept
        <3> QED
            BY <2>1, <2>3
    <2> HIDE DEF kept, refused
    <2>5. /\ DOMAIN bypass' = DOMAIN kept \cup {e} /\ bypass'[e] = now
          /\ \A x \in DOMAIN kept : x # e => bypass'[x] = kept[x]
        BY <2>1 DEF Reported!Bind
    <2>6. \A x \in DOMAIN bypass' : bypass'[x] \in Nat
        BY <2>2, <2>3, <2>5
    <2>7. ASSUME NEW x \in Endpoint
          PROVE  /\ alerted'[<<"bypass", x>>] # Reported!Never =>
                       \/ x \in DOMAIN bypass' /\ bypass'[x] = alerted'[<<"bypass", x>>]
                       \/ now - alerted'[<<"bypass", x>>] >= BypassQuiet
                 /\ <<"bypass", x>> \in fired' => Reported!Rested(<<"bypass", x>>)
        <3> DEFINE s == <<"bypass", x>>
        <3>1. /\ s[1] = "bypass" /\ Reported!Cooldown[s[1]] = BypassQuiet /\ (s \in fired' <=> x = e)
              /\ alerted'[s] = IF s \in fired' THEN now ELSE alerted[s]
              /\ alerted[s] # Reported!Never => \/ x \in DOMAIN bypass /\ bypass[x] = alerted[s]
                                       \/ now - alerted[s] >= BypassQuiet
            BY <1>2, <1>4 DEF Reported!Cooldown, QuietInv
        <3> HIDE DEF s
        <3>2. CASE x = e
            <4>1. x \in DOMAIN bypass' /\ bypass'[x] = alerted'[s]
                BY <2>5, <3>1, <3>2
            <4>2. Reported!Rested(s)
                BY <2>4, <3>1, <3>2 DEF Reported!Rested
            <4> QED
                BY <4>1, <4>2 DEF s
        <3>3. CASE x # e
            <4>1. alerted'[s] = alerted[s] /\ s \notin fired'
                BY <3>1, <3>3
            <4>2. CASE x \in DOMAIN bypass /\ bypass[x] = alerted[s]
                <5>1. CASE x \in DOMAIN kept
                    BY <2>2, <2>5, <3>3, <4>1, <4>2, <5>1 DEF s
                <5>2. CASE ~(now - bypass[x] <= BypassQuiet)
                    <6>1. now - bypass[x] >= BypassQuiet
                        BY <2>3, <4>2, <5>2
                    <6> QED
                        BY <4>1, <4>2, <6>1 DEF s
                <5> QED
                    BY <2>2, <4>2, <5>1, <5>2
            <4> QED
                BY <3>1, <4>1, <4>2 DEF s
        <3> QED
            BY <3>2, <3>3
    <2> QED
        BY <2>6, <2>7
<1> QED
    BY <1>3, <1>4 DEF Passed
-----------------------------------------------------------------------------
\* A window never forgets what it told while it is kept.
LEMMA QueriesKeep ==
    ASSUME QuietInv, NEW c \in Client, NEW p \in Parent, NEW l \in Leaf,
           NEW nx \in BOOLEAN, NEW odd \in BOOLEAN, Reported!RecordQuery(c, p, l, nx, odd)
    PROVE  \A s \in QuerySubject :
              /\ Still(s) => s \in DOMAIN windows' /\ windows'[s].alert = alerted'[s]
              /\ s \in fired' => Reported!Rested(s)
<1> DEFINE ks == CountsFor(c, p)
           out == ThrownBy(c, p)
<1>0. QueryDone(c, p, l, nx)
    BY QueryIs DEF QuietInv
<1>1. /\ windows' \in [(DOMAIN windows \ out) \cup ks -> Counting]
      /\ \A x \in DOMAIN windows \ out : x \notin ks => windows'[x] = windows[x]
      /\ \A k \in ks : IsCounted(k, IF k[1] = "nx" /\ ~nx THEN 0 ELSE 1)
      /\ fired' \subseteq ks \cup {<<"volume", p>>}
      /\ out \subseteq forgotten'
      /\ Tells
    BY <1>0 DEF QueryDone
<1>2. \A k \in ks : Reported!Thrown(windows, k) \subseteq out
    BY DEF ThrownBy
<1>3. ASSUME NEW s \in QuerySubject
      PROVE  /\ Still(s) => s \in DOMAIN windows' /\ windows'[s].alert = alerted'[s]
             /\ s \in fired' => Reported!Rested(s)
    <2>1. s \in Reported!Subject /\ s # <<"volume", p>> /\ Reported!Cooldown[s[1]] = Window
        BY DEF QuerySubject, Reported!Subject, Reported!Cooldown
    <2>2. alerted'[s] = IF s \in fired' THEN now ELSE alerted[s]
        BY <1>1, <2>1 DEF Tells
    <2>3. s \notin forgotten' /\ alerted[s] # Reported!Never
            => s \in DOMAIN windows \ out /\ windows[s].alert = alerted[s]
        BY <1>1 DEF QuietInv, Recalled, Tells
    <2>4. now' = now
        BY DEF Reported!RecordQuery
    <2> HIDE DEF ks, out
    <2>5. CASE s \in ks
        <3>1. IsCounted(s, IF s[1] = "nx" /\ ~nx THEN 0 ELSE 1) /\ s \in DOMAIN windows'
            BY <1>1, <2>5
        <3>2. s \notin forgotten' /\ alerted[s] # Reported!Never => Turned(s).alert = alerted[s]
            <4>1. s \in DOMAIN windows \ out => s \in DOMAIN windows \ Reported!Thrown(windows, s)
                BY <1>2, <2>5
            <4>2. s \in DOMAIN windows \ Reported!Thrown(windows, s)
                      => Turned(s).alert = windows[s].alert
                BY DEF Turned, Reported!Fresh
            <4> QED
                BY <2>3, <4>1, <4>2
        <3>3. /\ windows'[s].alert = IF s \in fired' THEN now ELSE Turned(s).alert
              /\ s \in fired' => Turned(s).alert = Reported!Never \/ now - Turned(s).alert >= Window
            BY <3>1, Zenon DEF IsCounted
        <3>4. s \in fired' => Reported!Rested(s)
            BY <2>1, <2>4, <3>2, <3>3 DEF Reported!Rested
        <3>5. Still(s) => windows'[s].alert = alerted'[s]
            BY <2>2, <3>2, <3>3 DEF Still
        <3> QED
            BY <3>1, <3>4, <3>5
    <2>6. CASE s \notin ks
        <3>1. s \notin fired' /\ alerted'[s] = alerted[s]
            BY <1>1, <2>1, <2>2, <2>6
        <3>2. s \in DOMAIN windows \ out => s \in DOMAIN windows' /\ windows'[s] = windows[s]
            BY <1>1, <2>6
        <3> QED
            BY <2>3, <3>1, <3>2 DEF Still
    <2> QED
        BY <2>5, <2>6
<1> QED
    BY <1>3

\* What is told is told now.
LEMMA TellKeeps ==
    ASSUME FindTypes, Tells, now' = now
    PROVE  alerted' \in [Reported!Subject -> Time] /\ \A s \in Reported!Subject : alerted'[s] <= now'
BY DEF FindTypes, Tells, Time, Reported!Never

\* Nothing has happened, and nothing has been said.
LEMMA QuietStart == Reported!Init => QuietInv
<1> SUFFICES ASSUME Reported!Init PROVE QuietInv
    OBVIOUS
<1>1. \A s \in Reported!Subject : alerted[s] = Reported!Never
    BY DEF Reported!Init
<1>2. alerted \in [Reported!Subject -> Time] /\ \A s \in Reported!Subject : alerted[s] <= now
    BY DEF Reported!Init, Time, Reported!Never
<1>3. FindTypes
    BY <1>2 DEF Reported!Init, FindTypes, Counting
<1>4. /\ QuerySubject \subseteq Reported!Subject
      /\ \A x \in Parent : <<"volume", x>> \in Reported!Subject
      /\ \A x \in Parent \X Leaf : <<"beacon", x>> \in Reported!Subject
      /\ \A x \in Endpoint : <<"bypass", x>> \in Reported!Subject
      /\ \A x \in Stack : <<"ja4", x>> \in Reported!Subject
    BY DEF QuerySubject, Reported!Subject
<1> QED
    BY <1>1, <1>3, <1>4 DEF QuietInv, Recalled

\* Every query keeps the cooldowns.
LEMMA RecordQuiet ==
    ASSUME QuietInv, NEW c \in Client, NEW p \in Parent, NEW l \in Leaf,
           NEW nx \in BOOLEAN, NEW odd \in BOOLEAN, Reported!RecordQuery(c, p, l, nx, odd)
    PROVE  QuietInv' /\ \A s \in fired' : Reported!Rested(s)
<1>0. QueryDone(c, p, l, nx)
    BY QueryIs DEF QuietInv
<1>1. /\ windows' \in [(DOMAIN windows \ ThrownBy(c, p)) \cup CountsFor(c, p) -> Counting]
      /\ \A x \in DOMAIN windows \ ThrownBy(c, p) : x \notin CountsFor(c, p) => windows'[x] = windows[x]
      /\ \A k \in CountsFor(c, p) : IsCounted(k, IF k[1] = "nx" /\ ~nx THEN 0 ELSE 1)
      /\ fired' \subseteq CountsFor(c, p) \cup {<<"volume", p>>}
      /\ Named(p, l) /\ Tells
    BY <1>0 DEF QueryDone
<1>2. UNCHANGED <<now, on, beacons, bypass, stacks>>
    BY DEF Reported!RecordQuery
<1>3. CountsFor(c, p) \subseteq QuerySubject
    BY DEF CountsFor, QuerySubject
<1>4. \A s \in QuerySubject :
         /\ Still(s) => s \in DOMAIN windows' /\ windows'[s].alert = alerted'[s]
         /\ s \in fired' => Reported!Rested(s)
    BY QueriesKeep
<1>5. /\ \A x \in DOMAIN volume' : volume'[x].alert \in Time
      /\ \A x \in Parent :
            /\ Still(<<"volume", x>>) => x \in DOMAIN volume'
                   /\ volume'[x].alert = alerted'[<<"volume", x>>]
            /\ <<"volume", x>> \in fired' => Reported!Rested(<<"volume", x>>)
    BY <1>1, <1>2, VolumeKeeps
<1>6. alerted' \in [Reported!Subject -> Time] /\ \A s \in Reported!Subject : alerted'[s] <= now'
    BY <1>1, <1>2, TellKeeps DEF QuietInv
<1>7. ASSUME NEW s \in Reported!Subject, s[1] \in {"beacon", "bypass", "ja4"}
      PROVE  s \notin fired' /\ alerted'[s] = alerted[s] /\ (Still(s) => Recalled(s))
    <2>1. s \notin fired'
        BY <1>1, <1>7 DEF CountsFor
    <2>2. alerted'[s] = alerted[s]
        BY <1>1, <2>1 DEF Tells
    <2> QED
        BY <1>1, <2>1, <2>2 DEF Still, Recalled, Tells
<1>8. /\ \A x \in Parent \X Leaf : <<"beacon", x>> \in Reported!Subject
      /\ \A x \in Endpoint : <<"bypass", x>> \in Reported!Subject
      /\ \A x \in Stack : <<"ja4", x>> \in Reported!Subject
    BY DEF Reported!Subject
<1>9. \A b \in Parent \X Leaf : Still(<<"beacon", b>>) =>
           b \in DOMAIN beacons' /\ beacons'[b].alert = alerted'[<<"beacon", b>>]
    <2> SUFFICES ASSUME NEW b \in Parent \X Leaf, Still(<<"beacon", b>>)
                 PROVE  b \in DOMAIN beacons' /\ beacons'[b].alert = alerted'[<<"beacon", b>>]
        OBVIOUS
    <2> DEFINE s == <<"beacon", b>>
    <2>1. s \in Reported!Subject /\ s[1] = "beacon"
        BY <1>8
    <2>2. Recalled(s) /\ alerted'[s] = alerted[s]
        BY <1>7, <2>1
    <2> QED
        BY <1>2, <2>2 DEF QuietInv
<1>10. \A e \in Endpoint : alerted'[<<"bypass", e>>] # Reported!Never =>
           \/ e \in DOMAIN bypass' /\ bypass'[e] = alerted'[<<"bypass", e>>]
           \/ now' - alerted'[<<"bypass", e>>] >= BypassQuiet
    <2> SUFFICES ASSUME NEW e \in Endpoint, alerted'[<<"bypass", e>>] # Reported!Never
                 PROVE  \/ e \in DOMAIN bypass' /\ bypass'[e] = alerted'[<<"bypass", e>>]
                        \/ now' - alerted'[<<"bypass", e>>] >= BypassQuiet
        OBVIOUS
    <2> DEFINE s == <<"bypass", e>>
    <2>1. s \in Reported!Subject /\ s[1] = "bypass"
        BY <1>8
    <2>2. alerted'[s] = alerted[s]
        BY <1>7, <2>1
    <2> QED
        BY <1>2, <2>2 DEF QuietInv
<1>11. \A t \in Stack : alerted'[<<"ja4", t>>] # Reported!Never => t \in stacks'
    <2> SUFFICES ASSUME NEW t \in Stack, alerted'[<<"ja4", t>>] # Reported!Never PROVE t \in stacks'
        OBVIOUS
    <2> DEFINE s == <<"ja4", t>>
    <2>1. s \in Reported!Subject /\ s[1] = "ja4"
        BY <1>8
    <2>2. alerted'[s] = alerted[s]
        BY <1>7, <2>1
    <2> QED
        BY <1>2, <2>2 DEF QuietInv
<1>12. FindTypes'
    <2>1. DOMAIN windows' \subseteq QuerySubject /\ windows' \in [DOMAIN windows' -> Counting]
        BY <1>1, <1>3 DEF QuietInv, FindTypes
    <2>2. \A k \in DOMAIN windows' : windows'[k].start <= now'
        <3>1. ASSUME NEW k \in CountsFor(c, p) PROVE windows'[k].start <= now'
            <4>1. windows'[k].start = Turned(k).start
                BY <1>1 DEF IsCounted
            <4>2. Turned(k).start <= now
                BY DEF Turned, Reported!Fresh, Reported!Rolls, QuietInv, FindTypes
            <4> QED
                BY <1>2, <4>1, <4>2
        <3>2. ASSUME NEW k \in DOMAIN windows \ ThrownBy(c, p), k \notin CountsFor(c, p)
              PROVE  windows'[k].start <= now'
            BY <1>1, <1>2, <3>2 DEF QuietInv, FindTypes
        <3>3. DOMAIN windows' = (DOMAIN windows \ ThrownBy(c, p)) \cup CountsFor(c, p)
            BY <1>1
        <3> QED
            BY <3>1, <3>2, <3>3
    <2> QED
        BY <1>2, <1>5, <1>6, <2>1, <2>2 DEF FindTypes, QuietInv
<1>13. QuietInv'
    <2>1. \A s : Recalled(s)' => Still(s)
        BY DEF Recalled, Still
    <2> QED
        BY <1>4, <1>5, <1>9, <1>10, <1>11, <1>12, <2>1 DEF QuietInv, Recalled, Still
<1> QED
    BY <1>1, <1>3, <1>4, <1>5, <1>13

\* So does every connection.
LEMMA ConnectQuiet ==
    ASSUME QuietInv, NEW p \in Parent, NEW l \in Leaf, NEW trusted \in BOOLEAN,
           NEW stack \in Reported!AtMostOne(Stack), NEW dns \in Reported!AtMostOne(Endpoint),
           Reported!Connect(p, l, trusted, stack, dns)
    PROVE  QuietInv' /\ \A s \in fired' : Reported!Rested(s)
<1>1. /\ Tells /\ Named(p, l) /\ Listened(<<p, l>>) /\ Passed
      /\ stacks \subseteq stacks'
      /\ \A t : <<"ja4", t>> \in fired' => t \in stacks' \ stacks
      /\ fired' \subseteq Others
      /\ UNCHANGED <<now, on, windows, asked>>
    BY ConnectIs
<1>2. /\ \A x \in DOMAIN volume' : volume'[x].alert \in Time
      /\ \A x \in Parent :
            /\ Still(<<"volume", x>>) => x \in DOMAIN volume'
                   /\ volume'[x].alert = alerted'[<<"volume", x>>]
            /\ <<"volume", x>> \in fired' => Reported!Rested(<<"volume", x>>)
    BY <1>1, VolumeKeeps
<1>3. /\ \A x \in DOMAIN beacons' : beacons'[x].alert \in Time
      /\ \A x \in Parent \X Leaf :
            /\ Still(<<"beacon", x>>) => x \in DOMAIN beacons'
                   /\ beacons'[x].alert = alerted'[<<"beacon", x>>]
            /\ <<"beacon", x>> \in fired' => Reported!Rested(<<"beacon", x>>)
    BY <1>1, BeaconKeeps
<1>4. /\ \A x \in DOMAIN bypass' : bypass'[x] \in Nat
      /\ \A x \in Endpoint :
            /\ alerted'[<<"bypass", x>>] # Reported!Never =>
                  \/ x \in DOMAIN bypass' /\ bypass'[x] = alerted'[<<"bypass", x>>]
                  \/ now - alerted'[<<"bypass", x>>] >= BypassQuiet
            /\ <<"bypass", x>> \in fired' => Reported!Rested(<<"bypass", x>>)
    BY <1>1, BypassKeeps
<1>5. alerted' \in [Reported!Subject -> Time] /\ \A s \in Reported!Subject : alerted'[s] <= now'
    BY <1>1, TellKeeps DEF QuietInv
<1>6. ASSUME NEW s \in QuerySubject
      PROVE  s \notin fired' /\ alerted'[s] = alerted[s] /\ (Still(s) => Recalled(s))
    <2>1. s \in Reported!Subject /\ s \notin fired'
        BY <1>1 DEF Others, QuerySubject, Reported!Subject
    <2>2. alerted'[s] = alerted[s]
        BY <1>1, <2>1 DEF Tells
    <2> QED
        BY <1>1, <2>1, <2>2 DEF Still, Recalled, Tells
<1>7. \A s \in QuerySubject : Still(s) => s \in DOMAIN windows' /\ windows'[s].alert = alerted'[s]
    BY <1>1, <1>6 DEF QuietInv
<1>8. ASSUME NEW t \in Stack
      PROVE  /\ alerted'[<<"ja4", t>>] # Reported!Never => t \in stacks'
             /\ <<"ja4", t>> \in fired' => Reported!Rested(<<"ja4", t>>)
    <2> DEFINE s == <<"ja4", t>>
    <2>1. s \in Reported!Subject
        BY DEF Reported!Subject
    <2>2. alerted'[s] = IF s \in fired' THEN now ELSE alerted[s]
        BY <1>1, <2>1 DEF Tells
    <2>3. alerted[s] # Reported!Never => t \in stacks
        BY DEF QuietInv
    <2>4. s \in fired' => t \in stacks' \ stacks
        BY <1>1
    <2> HIDE DEF s
    <2>5. (alerted'[s] # Reported!Never => t \in stacks') /\ (s \in fired' => Reported!Rested(s))
        BY <1>1, <2>2, <2>3, <2>4 DEF Reported!Rested
    <2> QED
        BY <2>5 DEF s
<1>9. FindTypes'
    BY <1>1, <1>2, <1>3, <1>4, <1>5 DEF QuietInv, FindTypes
<1>10. QuietInv'
    <2>1. \A s : Recalled(s)' => Still(s)
        BY DEF Recalled, Still
    <2>2. \A e \in Endpoint : alerted'[<<"bypass", e>>] # Reported!Never =>
             \/ e \in DOMAIN bypass' /\ bypass'[e] = alerted'[<<"bypass", e>>]
             \/ now' - alerted'[<<"bypass", e>>] >= BypassQuiet
        BY <1>1, <1>4
    <2> QED
        BY <1>2, <1>3, <1>7, <1>8, <1>9, <2>1, <2>2 DEF QuietInv, Recalled, Still
<1>11. \A s \in fired' : Reported!Rested(s)
    BY <1>1, <1>2, <1>3, <1>4, <1>8 DEF Others
<1> QED
    BY <1>10, <1>11

\* Time only passes.
LEMMA TickQuiet == QuietInv /\ Reported!Tick => QuietInv' /\ \A s \in fired' : Reported!Rested(s)
<1> SUFFICES ASSUME QuietInv, Reported!Tick PROVE QuietInv' /\ \A s \in fired' : Reported!Rested(s)
    OBVIOUS
<1>1. /\ now' = now + 1 /\ now \in Nat
      /\ fired' = {} /\ forgotten \ fired \subseteq forgotten'
      /\ alerted' = alerted
      /\ UNCHANGED <<on, windows, volume, beacons, bypass, stacks, start, asked>>
    BY DEF Reported!Tick, Reported!Tell, QuietInv, FindTypes
<1>2. \A s : Recalled(s)' => Recalled(s)
    BY <1>1 DEF Recalled
<1>3. FindTypes'
    BY <1>1 DEF QuietInv, FindTypes, Counting, Time, Reported!Never
<1>4. \A e \in Endpoint : now - alerted[<<"bypass", e>>] >= BypassQuiet
        => now' - alerted'[<<"bypass", e>>] >= BypassQuiet
    <2>1. BypassQuiet \in Nat
        BY DetectionAssumption DEF Reported!FindingsAssumption
    <2>2. \A e \in Endpoint : alerted[<<"bypass", e>>] \in Int
        <3>1. \A e \in Endpoint : <<"bypass", e>> \in Reported!Subject
            BY DEF Reported!Subject
        <3>2. \A s \in Reported!Subject : alerted[s] \in Int
            BY DEF QuietInv, FindTypes, Time, Reported!Never
        <3> QED
            BY <3>1, <3>2
    <2> QED
        BY <1>1, <2>1, <2>2
<1> QED
    BY <1>1, <1>2, <1>3, <1>4 DEF QuietInv, Recalled

\* Every step keeps the cooldowns.
LEMMA QuietStep ==
    QuietInv /\ [Reported!Next]_(Reported!vars) => QuietInv'
        /\ [\A s \in fired' : Reported!Rested(s)]_(Reported!vars)
<1> SUFFICES ASSUME QuietInv, [Reported!Next]_(Reported!vars)
    PROVE QuietInv' /\ [\A s \in fired' : Reported!Rested(s)]_(Reported!vars)
    OBVIOUS
<1>1. CASE UNCHANGED Reported!vars
    BY <1>1 DEF Reported!vars, QuietInv, FindTypes, Recalled
<1>2. CASE Reported!Next
    BY <1>2, RecordQuiet, ConnectQuiet, TickQuiet DEF Reported!Next
<1> QED
    BY <1>1, <1>2
-----------------------------------------------------------------------------
(***************************************************************************)
(* Sweeps                                                                  *)
(***************************************************************************)
LEMMA WindowIs == Window \in Nat \ {0}
BY DetectionAssumption DEF Reported!FindingsAssumption

LEMMA InOrderIs ==
    ASSUME NEW t, NEW bound, NEW q, InOrder(q, t, bound)
    PROVE  /\ q \in Seq(Nat) /\ Len(q) \in Nat /\ Len(q) <= 2 * bound - 1
           /\ \A i \in 1..Len(q) : q[i] \in Nat /\ q[i] <= t
<1>1. q \in Seq(Nat)
    BY DEF InOrder
<1>2. \A i \in 1..Len(q) : q[i] \in Nat
    BY <1>1
<1> QED
    BY <1>1, <1>2 DEF InOrder

\* A window that is over leaves nothing untold behind.
LEMMA WindowCloses ==
    ASSUME NEW t \in Nat, NEW bound \in Nat \ {0}, NEW q, InOrder(q, t, bound),
           NEW w \in Counting, NEW alert, t - w.start > Window, Opened(q, w, alert, bound)
    PROVE  Closed(q, alert, t, bound)
<1> SUFFICES ASSUME Len(q) >= bound, q[Len(q) - bound + 1] >= t - Window
             PROVE  Voiced(alert, q[Len(q)])
    BY DEF Closed
<1>1. PICK k \in 0..Len(q) :
         /\ \A i \in 1..k : q[i] <= w.start
         /\ w.count >= bound \/ w.count >= Len(q) - k
    BY DEF Opened
<1>2. Len(q) \in Nat /\ w.start \in Nat /\ w.count \in Nat /\ Window \in Nat
      /\ \A i \in 1..Len(q) : q[i] \in Nat
    BY WindowIs, InOrderIs DEF Counting
<1>3. Len(q) - bound + 1 \in 1..Len(q)
    BY <1>2
<1>4. k < Len(q) - bound + 1
    BY <1>1, <1>2, <1>3
<1>5. w.count >= bound
    BY <1>1, <1>2, <1>4
<1> QED
    BY <1>5 DEF Opened

\* A window opens on what the one before it left.
LEMMA WindowOpens ==
    ASSUME NEW t \in Nat, NEW bound \in Nat \ {0}, NEW q, InOrder(q, t, bound),
           NEW w, w.start = t, w.count = 0, NEW alert, Closed(q, alert, t, bound)
    PROVE  Opened(q, w, alert, bound)
<1>1. Len(q) \in 0..Len(q) /\ Len(q) \in Nat
    BY DEF InOrder
<1>2. \A i \in 1..Len(q) : q[i] <= w.start
    BY DEF InOrder
<1>3. w.count >= Len(q) - Len(q) /\ ~(w.count >= bound)
    BY <1>1
<1>4. Len(q) >= bound /\ q[Len(q) - bound + 1] >= w.start - Window => Voiced(alert, q[Len(q)])
    BY DEF Closed
<1> QED
    BY <1>1, <1>2, <1>3, <1>4 DEF Opened

\* A query that is not counted changes nothing but what is told.
LEMMA WindowWaits ==
    ASSUME NEW t \in Nat, NEW bound \in Nat \ {0}, NEW q, InOrder(q, t, bound),
           NEW w \in Counting, NEW v \in Counting, v.start = w.start,
           v.count = Reported!Least(w.count, bound),
           NEW alert, NEW said \in {alert, t}, Opened(q, w, alert, bound)
    PROVE  Opened(q, v, said, bound)
<1>1. v.count = IF w.count <= bound THEN w.count ELSE bound
    BY LeastIs DEF Counting
<1>2. Len(q) \in Nat /\ w.count \in Nat /\ Window \in Nat \ {0} /\ \A i \in 1..Len(q) : q[i] \in Nat
          /\ q[i] <= t
    BY WindowIs, InOrderIs DEF Counting
<1>3. \A i \in 1..Len(q) : Voiced(alert, q[i]) => Voiced(said, q[i])
    BY <1>2 DEF Voiced, Reported!Never
<1>4. v.count >= bound => w.count >= bound
    BY <1>1, <1>2
<1>5. PICK k \in 0..Len(q) :
         /\ \A i \in 1..k : q[i] <= w.start
         /\ w.count >= bound \/ w.count >= Len(q) - k
         /\ k >= bound /\ q[k - bound + 1] >= w.start - Window => Voiced(alert, q[k])
    BY DEF Opened
<1>6. v.count >= bound \/ v.count >= Len(q) - k
    BY <1>1, <1>2, <1>5
<1>7. v.count >= bound => Len(q) > 0 /\ Voiced(said, q[Len(q)])
    BY <1>2, <1>3, <1>4 DEF Opened
<1>8. k >= bound /\ q[k - bound + 1] >= v.start - Window => Voiced(said, q[k])
    BY <1>2, <1>3, <1>5
<1> QED
    BY <1>5, <1>6, <1>7, <1>8 DEF Opened

\* Remember for one subject.
Remembered(q, t, bound) ==
    LET all == Append(q, t) IN IF Len(all) > 2 * bound - 1 THEN Tail(all) ELSE all

LEMMA RememberedIs ==
    ASSUME NEW t \in Nat, NEW bound \in Nat \ {0}, NEW q, InOrder(q, t, bound)
    PROVE  LET r == Remembered(q, t, bound)
               d == IF Len(q) = 2 * bound - 1 THEN 1 ELSE 0
           IN  /\ InOrder(r, t, bound)
               /\ Len(r) = Len(q) + 1 - d
               /\ Len(r) > 0 /\ r[Len(r)] = t
               /\ \A i \in 1..(Len(r) - 1) : r[i] = q[i + d]
<1> DEFINE all == Append(q, t)
           r == Remembered(q, t, bound)
           d == IF Len(q) = 2 * bound - 1 THEN 1 ELSE 0
<1>1. q \in Seq(Nat) /\ Len(q) \in Nat /\ Len(q) <= 2 * bound - 1
    BY DEF InOrder
<1>2. /\ all \in Seq(Nat) /\ Len(all) = Len(q) + 1 /\ all[Len(q) + 1] = t
      /\ \A i \in 1..Len(q) : all[i] = q[i]
    BY <1>1
<1>3. \A i, j \in 1..Len(all) : i <= j => all[i] <= all[j]
    BY <1>1, <1>2 DEF InOrder
<1>4. \A i \in 1..Len(all) : all[i] <= t
    BY <1>1, <1>2 DEF InOrder
<1> HIDE DEF all
<1>5. CASE Len(q) = 2 * bound - 1
    <2>1. r = Tail(all) /\ d = 1
        BY <1>2, <1>5 DEF Remembered, all
    <2>2. r \in Seq(Nat) /\ Len(r) = Len(q) /\ \A i \in 1..Len(r) : r[i] = all[i + 1]
        BY <1>1, <1>2, <2>1
    <2> HIDE DEF r, d
    <2>6. \A i \in 1..Len(r) : i + 1 \in 1..Len(all)
        BY <1>1, <1>2, <2>2
    <2>3. InOrder(r, t, bound)
        <3>1. \A i \in 1..Len(r) : r[i] <= t
            BY <1>4, <2>2, <2>6
        <3>2. ASSUME NEW i \in 1..Len(r), NEW j \in 1..Len(r), i <= j PROVE r[i] <= r[j]
            BY <1>3, <2>2, <2>6, <3>2
        <3> QED
            BY <1>1, <2>2, <3>1, <3>2 DEF InOrder
    <2>4. Len(r) > 0 /\ r[Len(r)] = t
        <3>1. Len(r) \in 1..Len(r) /\ Len(r) + 1 = Len(q) + 1
            BY <1>1, <1>5, <2>2
        <3> QED
            BY <1>2, <2>2, <3>1
    <2>5. \A i \in 1..(Len(r) - 1) : r[i] = q[i + d]
        <3>1. ASSUME NEW i \in 1..(Len(r) - 1) PROVE r[i] = q[i + d]
            <4>1. i \in 1..Len(r) /\ i + 1 \in 1..Len(q)
                BY <1>1, <2>2
            <4> QED
                BY <1>2, <2>1, <2>2, <4>1
        <3> QED
            BY <3>1
    <2> QED
        BY <1>5, <2>1, <2>2, <2>3, <2>4, <2>5 DEF r, d
<1>6. CASE Len(q) # 2 * bound - 1
    <2>1. r = all /\ d = 0
        BY <1>1, <1>2, <1>6 DEF Remembered, all
    <2> HIDE DEF r, d
    <2>2. InOrder(r, t, bound)
        BY <1>1, <1>2, <1>3, <1>4, <1>6, <2>1 DEF InOrder
    <2>3. /\ Len(r) = Len(q) + 1 - d
          /\ Len(r) > 0 /\ r[Len(r)] = t
          /\ \A i \in 1..(Len(r) - 1) : r[i] = q[i + d]
        BY <1>1, <1>2, <2>1
    <2> QED
        BY <2>2, <2>3 DEF r, d
<1> QED
    BY <1>5, <1>6

\* A query that is counted is told with a burst, or the burst has been told.
LEMMA WindowCounts ==
    ASSUME NEW t \in Nat, NEW bound \in Nat \ {0}, NEW q, InOrder(q, t, bound),
           NEW w \in Counting, NEW v \in Counting, v.start = w.start, w.start <= t,
           v.count = Reported!Least(w.count + 1, bound),
           NEW alert, NEW said \in {alert, t}, Opened(q, w, alert, bound),
           v.count >= bound => Voiced(said, t)
    PROVE  Opened(Remembered(q, t, bound), v, said, bound)
<1> DEFINE r == Remembered(q, t, bound)
           d == IF Len(q) = 2 * bound - 1 THEN 1 ELSE 0
<1>1. /\ InOrder(r, t, bound)
      /\ Len(r) = Len(q) + 1 - d
      /\ Len(r) > 0 /\ r[Len(r)] = t
      /\ \A i \in 1..(Len(r) - 1) : r[i] = q[i + d]
    BY RememberedIs
<1>2. /\ Len(q) \in Nat /\ Len(r) \in Nat /\ w.count \in Nat /\ Window \in Nat \ {0} /\ w.start \in Nat
      /\ \A i \in 1..Len(q) : q[i] \in Nat /\ q[i] <= t
      /\ Len(q) <= 2 * bound - 1
    <2>1. Len(r) \in Nat
        BY <1>1, InOrderIs
    <2> HIDE DEF r
    <2> QED
        BY <2>1, WindowIs, InOrderIs DEF Counting
<1>3. v.count = IF w.count + 1 <= bound THEN w.count + 1 ELSE bound
    BY <1>2, LeastIs
<1>4. \A i \in 1..Len(q) : Voiced(alert, q[i]) => Voiced(said, q[i])
    BY <1>2 DEF Voiced, Reported!Never
<1>5. PICK k \in 0..Len(q) :
         /\ \A i \in 1..k : q[i] <= w.start
         /\ w.count >= bound \/ w.count >= Len(q) - k
         /\ k >= bound /\ q[k - bound + 1] >= w.start - Window => Voiced(alert, q[k])
    BY DEF Opened
<1> DEFINE j == IF k >= d THEN k - d ELSE 0
<1>6. d \in {0, 1}
    OBVIOUS
<1> HIDE DEF r, d
<1>7. j \in 0..Len(r) /\ j <= Len(r) - 1 /\ j + d <= Len(q) /\ (j > 0 => j + d = k) /\ (j = 0 => k <= d)
    <2>1. Len(q) = 2 * bound - 1 => Len(q) >= 1
        BY <1>2
    <2>2. d = 1 => Len(q) >= 1
        BY <2>1 DEF d
    <2>3. CASE d = 0
        BY <1>1, <1>2, <1>5, <2>3
    <2>4. CASE d = 1
        BY <1>1, <1>2, <1>5, <2>2, <2>4
    <2> QED
        BY <1>6, <2>3, <2>4
<1>8. \A i \in 1..j : r[i] <= v.start
    <2>1. ASSUME NEW i \in 1..j PROVE r[i] <= v.start
        <3>1. i + d \in 1..k /\ i \in 1..(Len(r) - 1) /\ k \in Nat
            BY <1>2, <1>6, <1>7
        <3>2. r[i] = q[i + d] /\ q[i + d] <= w.start
            BY <1>1, <1>5, <3>1
        <3> QED
            BY <3>2
    <2> QED
        BY <2>1
<1>9. v.count >= bound \/ v.count >= Len(r) - j
    BY <1>1, <1>2, <1>3, <1>5, <1>6, <1>7
<1>10. j >= bound /\ r[j - bound + 1] >= v.start - Window => Voiced(said, r[j])
    <2> SUFFICES ASSUME j >= bound, r[j - bound + 1] >= v.start - Window PROVE Voiced(said, r[j])
        OBVIOUS
    <2>1. j + d = k /\ j \in 1..(Len(r) - 1) /\ j - bound + 1 \in 1..(Len(r) - 1) /\ k \in Nat
        BY <1>2, <1>6, <1>7
    <2>2. r[j] = q[k] /\ r[j - bound + 1] = q[j - bound + 1 + d] /\ j - bound + 1 + d = k - bound + 1
        BY <1>1, <1>2, <1>6, <2>1
    <2>3. Voiced(alert, q[k])
        <3>1. k >= bound
            BY <1>6, <2>1
        <3>2. q[k - bound + 1] >= w.start - Window
            BY <2>2
        <3> QED
            BY <1>5, <3>1, <3>2
    <2>4. k \in 1..Len(q)
        BY <1>2, <1>6, <2>1
    <2> QED
        BY <1>4, <2>2, <2>3, <2>4
<1>11. v.count >= bound => Len(r) > 0 /\ Voiced(said, r[Len(r)])
    BY <1>1
<1> HIDE DEF j
<1> QED
    BY <1>7, <1>8, <1>9, <1>10, <1>11 DEF Opened, r

\* A burst in any stretch as long as a window has been told within two.
LEMMA StretchIsTold ==
    ASSUME NEW t \in Nat, NEW bound \in Nat \ {0}, NEW q, InOrder(q, t, bound),
           Len(q) = 2 * bound - 1, t - q[1] <= Window, NEW alert \in Time,
           \/ Closed(q, alert, t, bound)
           \/ \E w \in Counting : w.start <= t /\ Opened(q, w, alert, bound)
    PROVE  alert # Reported!Never /\ t - alert < 2 * Window
<1>1. /\ Len(q) \in Nat /\ Len(q) >= 1 /\ Window \in Nat \ {0}
      /\ \A i \in 1..Len(q) : q[i] \in Nat /\ q[i] <= t /\ q[i] >= t - Window
    <2>1. Len(q) \in Nat /\ Len(q) >= 1 /\ Window \in Nat \ {0}
        BY DetectionAssumption DEF InOrder, Reported!FindingsAssumption
    <2>2. \A i \in 1..Len(q) : q[i] \in Nat /\ q[i] <= t /\ q[1] <= q[i] /\ q[1] \in Nat
        BY <2>1 DEF InOrder
    <2> QED
        BY <2>1, <2>2
<1>2. ASSUME NEW i \in 1..Len(q), Voiced(alert, q[i])
      PROVE alert # Reported!Never /\ t - alert < 2 * Window
    BY <1>1, <1>2 DEF Voiced, Time, Reported!Never
<1>3. CASE Closed(q, alert, t, bound)
    <2>1. Len(q) - bound + 1 \in 1..Len(q) /\ Len(q) >= bound /\ Len(q) \in 1..Len(q)
        BY <1>1
    <2>2. Voiced(alert, q[Len(q)])
        BY <1>1, <1>3, <2>1 DEF Closed
    <2> QED
        BY <1>2, <2>1, <2>2
<1>4. ASSUME NEW w \in Counting, w.start <= t, Opened(q, w, alert, bound)
      PROVE  alert # Reported!Never /\ t - alert < 2 * Window
    <2>1. PICK k \in 0..Len(q) :
             /\ w.count >= bound \/ w.count >= Len(q) - k
             /\ k >= bound /\ q[k - bound + 1] >= w.start - Window => Voiced(alert, q[k])
        BY <1>4 DEF Opened
    <2>2. CASE w.count >= bound
        BY <1>1, <1>2, <1>4, <2>2 DEF Opened
    <2>3. CASE ~(w.count >= bound)
        <3>1. k >= bound /\ k \in 1..Len(q) /\ k - bound + 1 \in 1..Len(q)
            BY <1>1, <2>1, <2>3 DEF Counting
        <3>2. q[k - bound + 1] >= w.start - Window
            BY <1>1, <1>4, <3>1 DEF Counting
        <3> QED
            BY <1>2, <2>1, <3>1, <3>2
    <2> QED
        BY <2>2, <2>3
<1> QED
    BY <1>3, <1>4

LEMMA LimitIs ==
    ASSUME NEW s \in QuerySubject
    PROVE  Limit(s) \in Nat \ {0} /\ Reported!Thresholds[s[1]] = Limit(s) /\ s \in Reported!Subject
<1>1. Burst \in Nat \ {0} /\ Rate \in Nat \ {0}
    BY DetectionAssumption DEF Reported!FindingsAssumption
<1>2. s[1] \in {"nx", "parent"} /\ s \in Reported!Subject
    BY DEF QuerySubject, Reported!Subject
<1> QED
    BY <1>1, <1>2 DEF Limit, Reported!Thresholds

\* Before any query nothing has to have been told.
LEMMA SweepStart == Reported!Init => SweepInv
<1> SUFFICES ASSUME Reported!Init PROVE SweepInv
    OBVIOUS
<1>1. {x \in Reported!Subject : x[1] \in {"nx", "parent"}} = QuerySubject
    BY DEF Reported!Subject, QuerySubject
<1>2. asked = [s \in QuerySubject |-> <<>>] /\ windows = <<>> /\ now = 0
    BY <1>1 DEF Reported!Init
<1>3. asked = [s \in QuerySubject |-> asked[s]] /\ \A s \in QuerySubject : asked[s] = <<>>
    BY <1>2
<1>4. ASSUME NEW s \in QuerySubject
      PROVE  InOrder(asked[s], now, Limit(s)) /\ Closed(asked[s], alerted[s], now, Limit(s))
    BY <1>2, <1>3, LimitIs DEF InOrder, Closed
<1>5. DOMAIN windows = {}
    BY <1>2
<1> QED
    BY <1>3, <1>4, <1>5 DEF SweepInv, AlertInv

\* What a record of a window is after its bump: it is open on what came before.
LEMMA TurnedOpens ==
    ASSUME FindTypes, SweepInv, NEW s \in QuerySubject, s[1] \in on
    PROVE  /\ Turned(s) \in Counting /\ Turned(s).start <= now
           /\ Turned(s).alert \in {Reported!Never, alerted[s]}
           /\ Opened(asked[s], Turned(s), alerted[s], Limit(s))
<1>1. /\ InOrder(asked[s], now, Limit(s))
      /\ s \in DOMAIN windows => Opened(asked[s], windows[s], alerted[s], Limit(s))
      /\ s \notin DOMAIN windows => Closed(asked[s], alerted[s], now, Limit(s))
      /\ s \in DOMAIN windows => windows[s].alert \in {Reported!Never, alerted[s]}
    BY DEF SweepInv, AlertInv
<1>2. now \in Nat /\ Limit(s) \in Nat \ {0}
    BY LimitIs DEF FindTypes
<1>3. s \in DOMAIN windows => windows[s] \in Counting /\ windows[s].start <= now
    BY DEF FindTypes
<1>4. CASE ~Reported!Rolls(windows, s)
    BY <1>1, <1>3, <1>4 DEF Turned, Reported!Rolls
<1>5. CASE Reported!Rolls(windows, s)
    <2> DEFINE last == IF s \in DOMAIN windows \ Reported!Thrown(windows, s)
            THEN windows[s].alert ELSE Reported!Never
               w == Turned(s)
    <2>1. w = [start |-> now, count |-> 0, odd |-> 0, alert |-> last]
        BY <1>5 DEF Turned, Reported!Fresh
    <2>2. last \in {Reported!Never, alerted[s]} /\ last \in Time
        <3>1. s \in DOMAIN windows => windows[s].alert \in Time
            BY <1>3 DEF Counting
        <3> QED
            BY <1>1, <3>1 DEF Time
    <2> HIDE DEF last, w
    <2>3. w \in Counting /\ w.start = now /\ w.count = 0 /\ w.alert = last
        BY <1>2, <2>1, <2>2 DEF Counting
    <2>4. Closed(asked[s], alerted[s], now, Limit(s))
        <3>1. CASE s \in DOMAIN windows
            <4>1. now - windows[s].start > Window
                BY <1>5, <3>1 DEF Reported!Rolls, Reported!Expired
            <4> QED
                BY <1>1, <1>2, <1>3, <3>1, <4>1, WindowCloses
        <3> QED
            BY <1>1, <3>1
    <2>5. Opened(asked[s], w, alerted[s], Limit(s))
        BY <1>1, <1>2, <2>3, <2>4, WindowOpens
    <2> QED
        BY <1>2, <2>2, <2>3, <2>5 DEF w
<1> QED
    BY <1>4, <1>5

\* Every query keeps its sweeps in view.
LEMMA RecordSweeps ==
    ASSUME QuietInv, SweepInv, NEW c \in Client, NEW p \in Parent, NEW l \in Leaf,
           NEW nx \in BOOLEAN, NEW odd \in BOOLEAN, Reported!RecordQuery(c, p, l, nx, odd)
    PROVE  SweepInv'
<1> DEFINE ks == CountsFor(c, p)
           out == ThrownBy(c, p)
           n(s) == IF s[1] = "nx" /\ ~nx THEN 0 ELSE 1
           new == {s \in ks : n(s) = 1}
<1>0. QueryDone(c, p, l, nx)
    BY QueryIs DEF QuietInv
<1>1. /\ windows' \in [(DOMAIN windows \ out) \cup ks -> Counting]
      /\ \A x \in DOMAIN windows \ out : x \notin ks => windows'[x] = windows[x]
      /\ \A x \in out : x \in DOMAIN windows /\ Reported!Expired(windows[x])
      /\ \A k \in ks : IsCounted(k, n(k))
      /\ fired' \subseteq ks \cup {<<"volume", p>>}
      /\ Tells
    BY <1>0 DEF QueryDone
<1>2. now' = now /\ on' = on /\ now \in Nat
    BY DEF Reported!RecordQuery, QuietInv, FindTypes
<1>3. ks \subseteq QuerySubject /\ \A s \in ks : s[1] \in on
    BY DEF CountsFor, QuerySubject
<1>4. new = (IF nx /\ "nx" \in on THEN {<<"nx", c>>} ELSE {})
               \cup (IF "parent" \in on THEN {<<"parent", p>>} ELSE {})
    BY DEF CountsFor
<1>5. asked' = [s \in QuerySubject |->
                   IF s \in new THEN Remembered(asked[s], now, Limit(s)) ELSE asked[s]]
    <2>1. DOMAIN asked = QuerySubject
        BY DEF SweepInv
    <2>2. asked' = [s \in DOMAIN asked |->
                IF s \in new /\ Reported!Thresholds[s[1]] > 0
                THEN LET all == Append(asked[s], now)
                     IN  IF Len(all) > 2 * Reported!Thresholds[s[1]] - 1 THEN Tail(all) ELSE all
                ELSE asked[s]]
        <3> HIDE DEF new
        <3> QED
            BY <1>4, Zenon DEF Reported!RecordQuery, Reported!Remember
    <2> HIDE DEF new
    <2>3. \A s \in QuerySubject : Reported!Thresholds[s[1]] = Limit(s) /\ Limit(s) > 0
        BY LimitIs
    <2> QED
        BY <2>1, <2>2, <2>3 DEF Remembered
<1> HIDE DEF ks, out, n, new
<1>6. ASSUME NEW s \in QuerySubject
      PROVE  /\ alerted'[s] = IF s \in fired' THEN now ELSE alerted[s]
             /\ s \notin ks => s \notin fired'
    BY <1>1, LimitIs DEF Tells, QuerySubject
<1>7. ASSUME NEW s \in QuerySubject, s \in ks
      PROVE  /\ windows'[s].alert \in {Reported!Never, alerted'[s]}
             /\ InOrder(asked'[s], now, Limit(s))
             /\ Opened(asked'[s], windows'[s], alerted'[s], Limit(s))
    <2> DEFINE w == Turned(s)
               v == windows'[s]
               q == asked[s]
               alert == alerted[s]
               said == alerted'[s]
               bound == Limit(s)
    <2>1. /\ w \in Counting /\ w.start <= now /\ w.alert \in {Reported!Never, alert}
          /\ Opened(q, w, alert, bound)
        BY <1>3, <1>7, TurnedOpens DEF QuietInv
    <2>2. InOrder(q, now, bound) /\ bound \in Nat \ {0}
        BY <1>3, <1>7, LimitIs DEF SweepInv
    <2>3. v \in Counting
        BY <1>1, <1>7
    <2>4. IsCounted(s, n(s))
        BY <1>1, <1>7
    <2>5. /\ v.start = w.start /\ v.count = Reported!Least(w.count + n(s), bound)
          /\ v.alert = IF s \in fired' THEN now ELSE w.alert
          /\ v.count >= bound => s \in fired' \/ (w.alert # Reported!Never
                 /\ ~(now - w.alert >= Window))
        BY <2>4 DEF IsCounted
    <2>6. said = IF s \in fired' THEN now ELSE alert
        BY <1>6
    <2> HIDE DEF w, v, q, alert, said, bound
    <2>7. v.alert \in {Reported!Never, said} /\ said \in {alert, now}
        BY <2>1, <2>5, <2>6
    <2>8. v.count >= bound => Voiced(said, now)
        <3>1. s \in fired' => Voiced(said, now)
            BY <1>2, <2>6, WindowIs DEF Voiced, Reported!Never
        <3>2. w.alert # Reported!Never /\ ~(now - w.alert >= Window) /\ s \notin fired'
                  => Voiced(said, now)
            <4> SUFFICES ASSUME w.alert # Reported!Never, ~(now - w.alert >= Window), s \notin fired'
                         PROVE  Voiced(said, now)
                OBVIOUS
            <4>1. said = w.alert /\ w.alert \in Nat
                BY <2>1, <2>6 DEF Counting, Time, Reported!Never
            <4> QED
                BY <1>2, <4>1, WindowIs DEF Voiced
        <3> QED
            BY <2>5, <3>1, <3>2
    <2>9. CASE s \in new
        <3>1. n(s) = 1
            BY <2>9 DEF new
        <3>2. asked'[s] = Remembered(q, now, bound)
            BY <1>5, <2>9 DEF q, bound
        <3>3. Opened(Remembered(q, now, bound), v, said, bound)
            BY <1>2, <2>1, <2>2, <2>3, <2>5, <2>7, <2>8, <3>1, WindowCounts
        <3>4. InOrder(Remembered(q, now, bound), now, bound)
            BY <1>2, <2>2, RememberedIs
        <3> QED
            BY <2>7, <3>2, <3>3, <3>4 DEF v, said, bound
    <2>10. CASE s \notin new
        <3>1. n(s) = 0
            BY <1>7, <2>10 DEF new, n
        <3>2. asked'[s] = q
            BY <1>5, <2>10 DEF q
        <3>3. v.count = Reported!Least(w.count, bound)
            BY <2>1, <2>5, <3>1 DEF Counting
        <3>4. Opened(q, v, said, bound)
            BY <1>2, <2>1, <2>2, <2>3, <2>5, <2>7, <3>3, WindowWaits
        <3> QED
            BY <2>2, <2>7, <3>2, <3>4 DEF v, said, bound, q
    <2> QED
        BY <2>9, <2>10
<1>8. ASSUME NEW s \in QuerySubject, s \notin ks, s[1] \in on
      PROVE  /\ InOrder(asked'[s], now, Limit(s))
             /\ IF s \in DOMAIN windows'
                THEN Opened(asked'[s], windows'[s], alerted'[s], Limit(s))
                ELSE Closed(asked'[s], alerted'[s], now, Limit(s))
    <2>1. asked'[s] = asked[s] /\ alerted'[s] = alerted[s]
        BY <1>5, <1>6, <1>8 DEF new
    <2>2. InOrder(asked[s], now, Limit(s)) /\ Limit(s) \in Nat \ {0}
        BY <1>8, LimitIs DEF SweepInv
    <2>3. CASE s \in DOMAIN windows \ out
        <3>1. s \in DOMAIN windows' /\ windows'[s] = windows[s]
            BY <1>1, <1>8, <2>3
        <3> QED
            BY <1>8, <2>1, <2>2, <2>3, <3>1 DEF SweepInv
    <2>4. CASE s \in out
        <3>1. s \in DOMAIN windows /\ now - windows[s].start > Window /\ windows[s] \in Counting
            BY <1>1, <2>4 DEF Reported!Expired, QuietInv, FindTypes
        <3>2. Opened(asked[s], windows[s], alerted[s], Limit(s))
            BY <1>8, <3>1 DEF SweepInv
        <3>3. Closed(asked[s], alerted[s], now, Limit(s))
            BY <1>2, <2>2, <3>1, <3>2, WindowCloses
        <3>4. s \notin DOMAIN windows'
            BY <1>1, <1>8, <2>4
        <3> QED
            BY <2>1, <2>2, <3>3, <3>4
    <2>5. CASE s \notin DOMAIN windows
        <3>1. s \notin DOMAIN windows'
            BY <1>1, <1>8, <2>5
        <3> QED
            BY <1>8, <2>1, <2>2, <2>5, <3>1 DEF SweepInv
    <2> QED
        BY <2>3, <2>4, <2>5
<1>9. AlertInv'
    <2>1. ASSUME NEW s \in DOMAIN windows', s \notin ks
          PROVE  windows'[s].alert \in {Reported!Never, alerted'[s]}
        <3>1. s \in DOMAIN windows \ out /\ windows'[s] = windows[s] /\ s \in QuerySubject
            BY <1>1, <2>1 DEF QuietInv, FindTypes
        <3>2. alerted'[s] = alerted[s]
            BY <1>6, <2>1, <3>1
        <3> QED
            BY <3>1, <3>2 DEF SweepInv, AlertInv
    <2> QED
        BY <1>3, <1>7, <2>1 DEF AlertInv
<1>10. asked' = [s \in QuerySubject |-> asked'[s]]
    BY <1>5
<1>11. \A s \in ks : s \in DOMAIN windows'
    BY <1>1
<1> QED
    BY <1>2, <1>7, <1>8, <1>9, <1>10, <1>11 DEF SweepInv

\* Whatever else happens keeps them in view too.
LEMMA RestSweeps ==
    ASSUME SweepInv, UNCHANGED <<windows, asked, on>>, now \in Nat, now' \in {now, now + 1},
           \A s \in QuerySubject : alerted'[s] = alerted[s], DOMAIN windows \subseteq QuerySubject
    PROVE  SweepInv'
<1>1. ASSUME NEW s \in QuerySubject, s[1] \in on
      PROVE  /\ InOrder(asked'[s], now', Limit(s))
             /\ IF s \in DOMAIN windows'
                THEN Opened(asked'[s], windows'[s], alerted'[s], Limit(s))
                ELSE Closed(asked'[s], alerted'[s], now', Limit(s))
    <2> DEFINE q == asked[s]
               bound == Limit(s)
    <2>1. InOrder(q, now, bound) /\ bound \in Nat \ {0}
        BY <1>1, LimitIs DEF SweepInv
    <2>2. now <= now' /\ now' \in Nat
        OBVIOUS
    <2>3. InOrder(q, now', bound)
        <3>1. \A i \in 1..Len(q) : q[i] \in Nat /\ q[i] <= now
            BY <2>1, InOrderIs
        <3>2. \A i \in 1..Len(q) : q[i] <= now'
            BY <2>2, <3>1
        <3> HIDE DEF q, bound
        <3> QED
            BY <2>1, <3>2 DEF InOrder
    <2>4. ASSUME Closed(q, alerted[s], now, bound) PROVE Closed(q, alerted[s], now', bound)
        <3> SUFFICES ASSUME Len(q) >= bound, q[Len(q) - bound + 1] >= now' - Window
                     PROVE  Voiced(alerted[s], q[Len(q)])
            BY DEF Closed
        <3>1. Len(q) - bound + 1 \in 1..Len(q)
            BY <2>1, InOrderIs
        <3>2. q[Len(q) - bound + 1] \in Nat
            BY <2>1, <3>1, InOrderIs
        <3>3. q[Len(q) - bound + 1] >= now - Window
            BY <2>2, <3>2, WindowIs
        <3> QED
            BY <2>4, <3>3 DEF Closed
    <2>5. IF s \in DOMAIN windows THEN Opened(q, windows[s], alerted[s], bound)
          ELSE Closed(q, alerted[s], now, bound)
        BY <1>1 DEF SweepInv
    <2>6. asked'[s] = q /\ alerted'[s] = alerted[s] /\ windows' = windows
        OBVIOUS
    <2> HIDE DEF q
    <2> QED
        BY <2>3, <2>4, <2>5, <2>6
<1>2. AlertInv'
    BY DEF SweepInv, AlertInv
<1>3. asked' = [s \in QuerySubject |-> asked'[s]]
    BY DEF SweepInv
<1> QED
    BY <1>1, <1>2, <1>3 DEF SweepInv

LEMMA SweepStep == QuietInv /\ SweepInv /\ [Reported!Next]_(Reported!vars) => SweepInv'
<1> SUFFICES ASSUME QuietInv, SweepInv, [Reported!Next]_(Reported!vars) PROVE SweepInv'
    OBVIOUS
<1>1. now \in Nat /\ DOMAIN windows \subseteq QuerySubject
    BY DEF QuietInv, FindTypes
<1>2. CASE UNCHANGED Reported!vars
    BY <1>1, <1>2, RestSweeps DEF Reported!vars
<1>3. CASE Reported!Tick
    BY <1>1, <1>3, RestSweeps DEF Reported!Tick, Reported!Tell, QuietInv, FindTypes,
        QuerySubject, Reported!Subject
<1>4. ASSUME NEW p \in Parent, NEW l \in Leaf, NEW trusted \in BOOLEAN,
             NEW stack \in Reported!AtMostOne(Stack), NEW dns \in Reported!AtMostOne(Endpoint),
             Reported!Connect(p, l, trusted, stack, dns)
      PROVE  SweepInv'
    <2>1. UNCHANGED <<now, on, windows, asked>> /\ Tells /\ fired' \subseteq Others
        BY <1>4, ConnectIs
    <2>2. ASSUME NEW s \in QuerySubject PROVE alerted'[s] = alerted[s]
        <3>1. s \notin fired' /\ s \in Reported!Subject
            BY <2>1 DEF Others, QuerySubject, Reported!Subject
        <3> QED
            BY <2>1, <3>1 DEF Tells
    <2> QED
        BY <1>1, <2>1, <2>2, RestSweeps
<1> QED
    BY <1>2, <1>3, <1>4, RecordSweeps DEF Reported!Next

\* And what is in view has been told.
LEMMA SweepThen == QuietInv /\ SweepInv => Reported!SweepIsSeen
<1> SUFFICES ASSUME QuietInv, SweepInv, NEW s \in DOMAIN asked,
                    s[1] \in on, Len(asked[s]) = 2 * Reported!Thresholds[s[1]] - 1,
                    now - asked[s][1] <= Window
             PROVE  alerted[s] # Reported!Never /\ now - alerted[s] < 2 * Window
    BY DEF Reported!SweepIsSeen
<1>1. s \in QuerySubject
    BY DEF SweepInv
<1>2. /\ Limit(s) \in Nat \ {0} /\ Len(asked[s]) = 2 * Limit(s) - 1 /\ alerted[s] \in Time
      /\ now \in Nat
    BY <1>1, LimitIs DEF QuietInv, FindTypes
<1>3. InOrder(asked[s], now, Limit(s))
      /\ IF s \in DOMAIN windows THEN Opened(asked[s], windows[s], alerted[s], Limit(s))
         ELSE Closed(asked[s], alerted[s], now, Limit(s))
    BY <1>1 DEF SweepInv
<1>4. s \in DOMAIN windows => windows[s] \in Counting /\ windows[s].start <= now
    BY DEF QuietInv, FindTypes
<1> DEFINE q == asked[s]
           alert == alerted[s]
           bound == Limit(s)
<1>5. Closed(q, alert, now, bound) \/ \E w \in Counting : w.start <= now /\ Opened(q, w, alert, bound)
    BY <1>3, <1>4
<1>6. now - q[1] <= Window
    OBVIOUS
<1> HIDE DEF q, alert, bound
<1>7. alert # Reported!Never /\ now - alert < 2 * Window
    BY <1>2, <1>3, <1>5, <1>6, StretchIsTold DEF q, alert, bound
<1> QED
    BY <1>7 DEF alert
-----------------------------------------------------------------------------
(* Side by side.                                                           *)

\* Each part behaves as it does alone.
LEMMA PartsBehave == DetectionSpec => Judged!Spec /\ Reported!Spec /\ Log!Spec
<1>1. DetectionInit => Judged!Init /\ Reported!Init /\ Log!Init
    BY DEF DetectionInit
<1>2. [DetectionNext]_<<judgedVars, reportedVars, rememberedVars>>
      => /\ [Judged!Next]_(Judged!vars)
         /\ [Reported!Next]_(Reported!vars)
         /\ [Log!Next]_(Log!vars)
    BY DEF DetectionNext, judgedVars, reportedVars, rememberedVars, Reported!vars, Judged!vars,
        Judged!policyVars, Judged!settingVars,
        Log!vars, Log!engineVars, Log!savedVars, Log!logVars, Log!totalVars, Log!readVars,
            Log!policyVars
<1> QED
    BY <1>1, <1>2, PTL DEF DetectionSpec, Judged!Spec, Reported!Spec, Log!Spec

\* What the gateway killed is in the quarantine, or was until the operator
\* released it, and there is a finding about it.
THEOREM KillsEndOnTheLists == DetectionSpec => []KillsAreListed
<1>1. KillInv => KillsAreListed
    BY KillsAre DEF KillsAreListed
<1> QED
    BY <1>1, PartsBehave, KillStart, KillStep, PTL DEF Judged!Spec

\* An upload to an approved destination is not banned, except by a check that was
\* under way when disposal got ready.
THEOREM ApprovedUploadsPass == DetectionSpec => ApprovedIsNotBanned
<1>1. Judged!Spec => [](KillInv /\ ApprovalInv)
    BY KillStart, KillStep, ApprovalStart, ApprovalStep, PTL DEF Judged!Spec
<1>2. ApprovalInv => [\A f \in approved \ straddled : ~Judged!UploadBan(f)]_(Judged!vars)
    BY ApprovedNot
<1> QED
    BY <1>1, <1>2, PartsBehave, PTL DEF ApprovedIsNotBanned, Judged!ApprovedIsNotBanned

\* Nobody is told the same thing twice within its cooldown, whatever the windows
\* and thresholds, unless a memory bound threw the record of it away.
THEOREM CooldownsHold == DetectionSpec => QuietBetweenFindings
<1>1. Reported!Spec => [][\A s \in fired' : Reported!Rested(s)]_(Reported!vars)
    BY QuietStart, QuietStep, PTL DEF Reported!Spec
<1> QED
    BY <1>1, PartsBehave, PTL DEF QuietBetweenFindings, Reported!QuietBetweenFindings

\* Twice a burst, less one, in any stretch as long as a window has been told within
\* two windows, wherever the windows opened and whatever a full map threw away.
THEOREM SweepsAreSeen == DetectionSpec => []SweepIsSeen
<1>1. QuietInv /\ SweepInv => SweepIsSeen
    BY SweepThen DEF SweepIsSeen
<1> QED
    BY <1>1, QuietStart, QuietStep, SweepStart, SweepStep, PartsBehave, PTL DEF Reported!Spec

\* Each closed connection is counted once over any restarts, with the exceptions
\* TotalsAddUp names, and the total of a page is the number of lines in the files.
THEOREM HistoryStaysWhole == DetectionSpec => []HistoryAddsUp
<1>1. PagesInv => Log!PagesAddUp
    BY DEF PagesInv
<1>2. Log!TotalsAddUp /\ Log!PagesAddUp => HistoryAddsUp
    BY DEF HistoryAddsUp, Log!HistoryAddsUp
<1>3. Log!Spec => [](TotalsInv /\ PagesInv)
    BY TotalsStart, TotalsStep, PagesStart, PagesStep, PTL DEF Log!Spec
<1> QED
    BY <1>1, <1>2, <1>3, TotalsThen, PartsBehave, PTL
=============================================================================
