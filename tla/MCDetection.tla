---------------------------- MODULE MCDetection ----------------------------
(* From a connection to the lists it ends on and the records it leaves, in  *)
(* four scenes, one after another in one run: lists that are edited, banned  *)
(* on and applied (PolicyApply), and the three parts of Detection.  The      *)
(* parts share nothing, so what one can do while another rests is all it     *)
(* can do.                                                                   *)
EXTENDS MCPolicyApply, Detection

CONSTANT Scenes

\* A name, an address that was dialled by name, and one that was not.
MCDest == {[host |-> "a", to |-> "a"], [host |-> "a", to |-> "x"], [host |-> "x", to |-> "x"]}

\* The defaults, with disposal on; and everything off that can be.
MCSettings ==
    {[auto |-> TRUE, limit |-> 1, ratio |-> 2, novelty |-> TRUE, needWarm |-> TRUE],
     [auto |-> FALSE, limit |-> 2, ratio |-> 0, novelty |-> FALSE, needWarm |-> FALSE]}
MCFeedOf == [u \in Url |-> IF u = "listing" THEN {"x"} ELSE {}]

MCEnabled == {{"nx"}, {"parent"}, {"volume"}, {"beacon"}, {"bypass", "ja4"}}
MCSize == <<2, 1, 1>>

VARIABLE scene

ScenesInit ==
    /\ scene \in Scenes
    /\ PInit /\ DetectionInit
    /\ scene # "judged" => sets = {} /\ stored = CHOOSE c \in Settings : c.auto
    /\ scene # "reported" => on = {"nx"}
    /\ scene # "remembered" => limit = CHOOSE n \in Limits : TRUE

ScenesNext ==
    \/ /\ scene = "lists" /\ PNext
       /\ UNCHANGED <<scene, judgedVars, reportedVars, rememberedVars>>
    \/ /\ scene = "judged" /\ Judged!Next
       /\ UNCHANGED <<scene, allVars, reportedVars, rememberedVars>>
    \/ /\ scene = "reported" /\ Reported!Next
       /\ UNCHANGED <<scene, allVars, judgedVars, rememberedVars>>
    \/ /\ scene = "remembered" /\ Log!Next
       /\ UNCHANGED <<scene, allVars, judgedVars, reportedVars>>

ScenesSpec == ScenesInit /\ [][ScenesNext]_<<scene, allVars, judgedVars, reportedVars, rememberedVars>>
=============================================================================
