------------------------------- MODULE Health -------------------------------
(***************************************************************************)
(* How the gateway learns which exits are good, side by side: the watchdog  *)
(* over streams (StallSweep), the score of a node with its breaker          *)
(* (ProxyScore) and the file the scores are kept in (ScoreFile).  The       *)
(* watchdog only calls the scores, one node's score does not look at        *)
(* another's, and the file takes what it is given; they share no variable.  *)
(***************************************************************************)
EXTENDS StallSweep

CONSTANTS
    Full, Neutral, Reward, Penalty, MaxStreak, MinSamples, Limit, BreakFails, BreakOKs,
    MaxTrip, MaxBad,                    \* ProxyScore
    Node, StaleAfter, MaxNow, Torn, None \* ScoreFile

VARIABLES known, rel, samples, okStreak, failStreak, hole, breaker, bad
scoreVars == <<known, rel, samples, okStreak, failStreak, hole, breaker, bad>>

VARIABLES up, now, stats, dirty, disk, tmp, job, alone, excused
fileVars == <<up, now, stats, dirty, disk, tmp, job, alone, excused>>

Score == INSTANCE ProxyScore
File == INSTANCE ScoreFile

ASSUME HealthAssumption == Score!ProxyScoreAssumption /\ File!ScoreFileAssumption

HealthInit == Init /\ Score!Init /\ File!Init

HealthNext ==
    \/ Next /\ UNCHANGED <<scoreVars, fileVars>>
    \/ Score!Next /\ UNCHANGED <<vars, fileVars>>
    \/ File!Next /\ UNCHANGED <<vars, scoreVars>>

HealthSpec == HealthInit /\ [][HealthNext]_<<vars, scoreVars, fileVars>>
-----------------------------------------------------------------------------
\* A connection is watched until it ends: one that stalled is killed, and one
\* that ended is not held on to (StallSweep).
WatchedUntilItEnds == EndedIsForgotten /\ StalledIsKilled
\* What was observed is in the file once it was flushed (ScoreFile).
ScoresAreSaved == File!ScoresAreSaved
=============================================================================
