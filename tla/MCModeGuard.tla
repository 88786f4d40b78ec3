---------------------------- MODULE MCModeGuard ----------------------------
(* The two dead-man's switches of Guards in two scenes of one run: three     *)
(* capture modes, of which this machine cannot start tun, or two listen      *)
(* points.  The switches share no variable and no lock that is held while    *)
(* one of their steps runs, so a scene leaves the other one where it began.  *)
EXTENDS Guards
CONSTANTS manual, system, tun, g, t1, t2

MCMode == {manual, system, tun}
MCWorks == {manual, system}

VARIABLE scene

\* A switch that is not the scene stays in one initial state.
ScenesInit ==
    /\ GuardsInit
    /\ \/ scene = "mode" /\ file = Default
       \/ scene = "listen" /\ mode = manual

ScenesNext ==
    \/ scene = "mode" /\ Next /\ UNCHANGED <<scene, listenVars>>
    \/ scene = "listen" /\ Listen!Next /\ UNCHANGED <<scene, vars>>

\* A thread inside the Manager keeps running, and a timer left alone fires.
ScenesSpec ==
    /\ ScenesInit /\ [][ScenesNext]_<<scene, vars, listenVars>>
    /\ \A t \in Thread :
         WF_vars(scene = "mode" /\ Step(t) /\ UNCHANGED <<scene, listenVars>>)
    /\ \A t \in Timer :
         /\ WF_vars(scene = "mode" /\ Fire(t) /\ UNCHANGED <<scene, listenVars>>)
         /\ WF_vars(scene = "mode" /\ Expire(t) /\ UNCHANGED <<scene, listenVars>>)
    /\ \A t \in ListenTimer :
         /\ WF_listenVars(scene = "listen" /\ Listen!Fire(t) /\ UNCHANGED <<scene, vars>>)
         /\ WF_listenVars(scene = "listen" /\ Listen!Expire(t) /\ UNCHANGED <<scene, vars>>)
=============================================================================
