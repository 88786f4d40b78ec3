---------------------------- MODULE MCExitHealth ----------------------------
(* How the health of an exit is learned, in three scenes of one run: three   *)
(* connections one after the other or together, and two goroutines, to see   *)
(* that there is never more than one (StallSweep); and a node with points    *)
(* from 0 to 8, a streak that weighs at most 3, three failures that open the *)
(* breaker, two successes that close it, and two dead connections that are a *)
(* blackhole (ProxyScore); and the file the scores are kept in, of one node, *)
(* since nodes share nothing but the file (ScoreFile).                      *)
EXTENDS Health

VARIABLE scene

\* A part that is not the scene stays in one initial state.
ScenesInit ==
    /\ scene \in {"stall", "score", "file"}
    /\ HealthInit
    /\ scene # "file" => disk = {}

ScenesNext ==
    \/ scene = "stall" /\ Next /\ UNCHANGED <<scene, scoreVars, fileVars>>
    \/ scene = "score" /\ Score!Next /\ UNCHANGED <<scene, vars, fileVars>>
    \/ scene = "file" /\ File!Next /\ UNCHANGED <<scene, vars, scoreVars>>

\* The fairness of each scene: StallSweep's FairSpec and ProxyScore's.
ScenesSpec ==
    /\ ScenesInit /\ [][ScenesNext]_<<scene, vars, scoreVars, fileVars>>
    /\ \A s \in Sweeper :
         WF_vars(scene = "stall" /\ Run(s) /\ UNCHANGED <<scene, scoreVars, fileVars>>)
    /\ WF_scoreVars(scene = "score" /\ Score!NoteProbe /\ UNCHANGED <<scene, vars, fileVars>>)
    /\ WF_scoreVars(scene = "score" /\ Score!Elapse /\ UNCHANGED <<scene, vars, fileVars>>)

\* Every node heals by probes alone (ProxyScore); a score that is not the scene
\* stays as it began.
Heals == scene = "score" => Score!Heals
=============================================================================
