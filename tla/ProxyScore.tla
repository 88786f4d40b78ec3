----------------------------- MODULE ProxyScore -----------------------------
(***************************************************************************)
(* internal/proxyscore/store.go: what the gateway remembers of one exit     *)
(* node, and when it puts the node last.  The store is one such record per  *)
(* node under one mutex; the records do not influence each other, so the    *)
(* model is of one.  Dials, finished connections, latency probes and the    *)
(* stall watchdog report from goroutines of their own, in any order.        *)
(*                                                                         *)
(* Abstractions.  Points are small integers with the proportions of the     *)
(* real ones.  The latency and throughput windows, which only grade nodes   *)
(* that are all usable, are left out; the file is in ScoreFile.  Counters that the    *)
(* code only compares with a limit stop at that limit.  The circuit breaker *)
(* is failsafe-go's, as the code and its comments use it: the last          *)
(* BreakFails outcomes all failures open it, it stays open until a permit   *)
(* is acquired after its delay, and then BreakOKs successes in a row close  *)
(* it and one failure opens it again.                                       *)
(***************************************************************************)
EXTENDS Integers, FiniteSetsExt

CONSTANTS
    Full, Neutral,     \* points: the best reliability, and no opinion
    Reward, Penalty,   \* points per outcome, times the streak
    MaxStreak,         \* the streak's largest weight
    MinSamples,        \* outcomes before a score is more than neutral
    Limit,             \* swallowed connections in a row that confirm a blackhole
    BreakFails, BreakOKs, \* the breaker's thresholds
    MaxTrip,           \* maxBreakerTrip
    MaxBad             \* bound: bad news in a behaviour

\* Assumed of the constants where they get their values.
ProxyScoreAssumption ==
    /\ Full \in Nat /\ Neutral \in 1..Full
    /\ Reward \in Nat \ {0} /\ Penalty \in Nat \ {0}
    /\ MaxStreak \in Nat \ {0} /\ MinSamples \in Nat \ {0} /\ Limit \in Nat \ {0}
    /\ BreakFails \in Nat \ {0} /\ BreakOKs \in Nat \ {0} /\ MaxTrip \in Nat
    /\ MaxBad \in Nat

VARIABLES
    known,      \* there is a record
    rel,        \* Reliability
    samples,    \* Samples, up to MinSamples
    okStreak,   \* OKStreak, up to MaxStreak
    failStreak, \* FailStreak
    hole,       \* BlackholeStreak, up to Limit
    breaker,    \* the circuit breaker: state, count, delay still running
    bad         \* how much bad news there has been

vars == <<known, rel, samples, okStreak, failStreak, hole, breaker, bad>>

Least(m, n) == Min({m, n})

(* An operator called Bug... is a wrong version of the definition after it,  *)
(* written to see that the properties notice; no specification uses it.     *)

Clamp(v) == Max({0, Min({v, Full})})
-----------------------------------------------------------------------------
(* The circuit breaker.                                                    *)

NoBreaker == [state |-> "none", count |-> 0, waiting |-> FALSE]
Closed(n) == [state |-> "closed", count |-> n, waiting |-> FALSE]
Half(n) == [state |-> "half", count |-> n, waiting |-> FALSE]
Open == [state |-> "open", count |-> 0, waiting |-> TRUE]

\* statLocked: a record that is written to has a breaker.
Made == IF breaker.state = "none" THEN Closed(0) ELSE breaker

\* TryAcquirePermit: only here does a breaker whose delay is over half-open.
Permit(b) == IF b.state = "open" /\ ~b.waiting THEN Half(0) ELSE b

RecordSuccess(b) ==
    CASE b.state = "closed" -> Closed(0)
      [] b.state = "half" /\ b.count + 1 < BreakOKs -> Half(b.count + 1)
      [] b.state = "half" /\ b.count + 1 >= BreakOKs -> Closed(0)
      [] OTHER -> b

RecordFailure(b) ==
    CASE b.state = "closed" /\ b.count + 1 < BreakFails -> Closed(b.count + 1)
      [] b.state = "closed" /\ b.count + 1 >= BreakFails -> Open
      [] b.state = "half" -> Open
      [] OTHER -> b

\* forceBreakerOpen: failures until the breaker says open, MaxTrip at most.
ForceOpen(b) ==
    CASE b.state = "closed" /\ BreakFails - b.count > MaxTrip -> Closed(b.count + MaxTrip)
      [] b.state = "closed" /\ BreakFails - b.count <= MaxTrip -> Open
      [] b.state = "half" -> Open
      [] OTHER -> b

\* preferredOf: false only while an open breaker is inside its delay.
Preferred == ~(known /\ breaker.state = "open" /\ breaker.waiting)

\* scoreLocked, as far as it does not grade.
Score ==
    CASE known /\ hole >= Limit -> "zero"
      [] known /\ hole < Limit /\ samples >= MinSamples -> "graded"
      [] OTHER -> "neutral"
-----------------------------------------------------------------------------
Init ==
    /\ known = FALSE
    /\ rel = Full
    /\ samples = 0 /\ okStreak = 0 /\ failStreak = 0 /\ hole = 0
    /\ breaker = NoBreaker
    /\ bad = 0

BadNews == bad < MaxBad /\ bad' = bad + 1

\* Observe: the outcome of one dial.
Observe(ok) ==
    /\ known' = TRUE
    /\ samples' = Least(samples + 1, MinSamples)
    /\ \/ /\ ok
          /\ failStreak' = 0
          /\ okStreak' = Least(okStreak + 1, MaxStreak)
          /\ rel' = Clamp(rel + Reward * okStreak')
          /\ breaker' = RecordSuccess(Permit(Made))
          /\ UNCHANGED bad
       \/ /\ ~ok
          /\ BadNews
          /\ okStreak' = 0
          /\ failStreak' = failStreak + 1
          /\ rel' = Clamp(rel - Penalty * Least(failStreak', MaxStreak))
          /\ breaker' = RecordFailure(Permit(Made))
    /\ UNCHANGED hole

\* RecordTransfer of a connection that only counts for throughput.
Transferred ==
    /\ known' = TRUE
    /\ breaker' = Made
    /\ UNCHANGED <<rel, samples, okStreak, failStreak, hole, bad>>

\* RecordTransfer, handshake done and bytes came back.
Relayed ==
    /\ known' = TRUE
    /\ hole' = 0
    /\ breaker' = Made
    /\ UNCHANGED <<rel, samples, okStreak, failStreak, bad>>

\* RecordTransfer, handshake done, bytes sent, nothing came back.
Swallowed ==
    /\ BadNews
    /\ known' = TRUE
    /\ hole' = Least(hole + 1, Limit)
    /\ \/ /\ hole' < Limit
          /\ breaker' = Made
          /\ UNCHANGED <<rel, okStreak>>
       \/ /\ hole' >= Limit
          /\ rel' = 0 /\ okStreak' = 0
          /\ breaker' = ForceOpen(Made)
    /\ UNCHANGED <<samples, failStreak>>

\* The probe that healed only a blackhole.
BugProbeHealsBlackholesOnly ==
    LET healed == hole >= Limit IN
    /\ known' = TRUE
    /\ hole' = 0
    /\ failStreak' = IF healed THEN 0 ELSE failStreak
    /\ rel' = IF healed THEN Max({rel, Neutral}) ELSE rel
    /\ breaker' = RecordSuccess(Permit(Made))
    /\ UNCHANGED <<samples, okStreak, bad>>

\* NoteProbe of a probe that succeeded; a failed one is ignored.
NoteProbe ==
    /\ known' = TRUE
    /\ hole' = 0
    /\ failStreak' = Max({0, failStreak - 1})
    /\ rel' = Max({rel, Neutral})
    /\ breaker' = RecordSuccess(Permit(Made))
    /\ UNCHANGED <<samples, okStreak, bad>>

\* RecordStreamStall: the watchdog killed a connection through the node.
RecordStreamStall ==
    /\ BadNews
    /\ known' = TRUE
    /\ okStreak' = 0
    /\ failStreak' = failStreak + 1
    /\ rel' = Clamp(rel - Penalty * Least(failStreak', MaxStreak))
    /\ samples' = Least(samples + 1, MinSamples)
    /\ breaker' = ForceOpen(Made)
    /\ UNCHANGED hole

\* The breaker's delay passes.
Elapse ==
    /\ breaker.waiting
    /\ breaker' = [breaker EXCEPT !.waiting = FALSE]
    /\ UNCHANGED <<known, rel, samples, okStreak, failStreak, hole, bad>>

\* A restart from a flushed file, and SetConfig with other breaker thresholds.
DropBreaker ==
    /\ breaker' = NoBreaker
    /\ UNCHANGED <<known, rel, samples, okStreak, failStreak, hole, bad>>

\* Reset, the expiry of a stale record, and a restart with nothing flushed.
Forget ==
    /\ known' = FALSE
    /\ rel' = Full
    /\ samples' = 0 /\ okStreak' = 0 /\ failStreak' = 0 /\ hole' = 0
    /\ breaker' = NoBreaker
    /\ UNCHANGED bad

Next ==
    \/ \E ok \in BOOLEAN : Observe(ok)
    \/ Transferred \/ Relayed \/ Swallowed
    \/ NoteProbe
    \/ RecordStreamStall
    \/ Elapse
    \/ DropBreaker
    \/ Forget

Spec == Init /\ [][Next]_vars

\* urltest probes every member forever, also the ones no traffic goes to, and
\* delays pass.
FairSpec == Spec /\ WF_vars(NoteProbe) /\ WF_vars(Elapse)
-----------------------------------------------------------------------------
\* No ratchet: once the bad news stops, every node gets back to at least no
\* opinion, no failures and a closed breaker, without carrying any traffic, and
\* so among the preferred with a score that is not the blackhole's (NoteProbe).
Healthy ==
    /\ rel >= Neutral /\ failStreak = 0 /\ hole = 0
    /\ breaker.state \in {"none", "closed"}
    /\ Preferred /\ Score # "zero"
Heals == <>[]Healthy
=============================================================================
