----------------------------- MODULE Detection -----------------------------
(***************************************************************************)
(* internal/detect and internal/history side by side: connections that are  *)
(* judged (Disposal), what is only reported (Findings) and what is          *)
(* remembered (Records).  The three look at the same connections and        *)
(* queries, each under a lock of its own, and none reads what another       *)
(* decides; so they share no variable.                                      *)
(***************************************************************************)
CONSTANTS
    Flow, Name, Addr, Dest, Settings, Url, FeedOf, Static, MaxUp, MaxEdits,  \* Disposal
    Client, Parent, Leaf, Stack, Endpoint, Enabled, Window, Burst, Rate, OddAt, SubsAt,
    VolumeQuiet, MinSample, KeepTimes, MinInterval, MaxInterval, ReAlert, Factor,
    BypassQuiet, Learn, MaxRecords, MaxNow, MaxCalls,                         \* Findings
    Size, Limits, MaxBackups, Ring, MaxFaults                                 \* Records

VARIABLES
    flow, seen, whitelist, sets, passes, index, unmarked, warm, stored, config, setting,
    feed, quarantine, released, findings, approved, straddled, edits
judgedVars ==
    <<flow, seen, whitelist, sets, passes, index, unmarked, warm, stored, config, setting,
      feed, quarantine, released, findings, approved, straddled, edits>>

VARIABLES
    now, on, windows, volume, beacons, bypass, stacks, start, fired, alerted, forgotten,
    asked, calls
reportedVars ==
    <<now, on, windows, volume, beacons, bypass, stacks, start, fired, alerted, forgotten,
      asked, calls>>

VARIABLES
    up, opened, open, seq, ring, saved, lastSaved, live, old, limit, fit, counted, snap,
    lines, listed, page, due, turned, excused, moved, blind, faults
rememberedVars ==
    <<up, opened, open, seq, ring, saved, lastSaved, live, old, limit, fit, counted, snap,
      lines, listed, page, due, turned, excused, moved, blind, faults>>

Judged == INSTANCE Disposal
Reported == INSTANCE Findings
Log == INSTANCE Records

ASSUME DetectionAssumption ==
    Judged!DisposalAssumption /\ Reported!FindingsAssumption /\ Log!RecordsAssumption

DetectionInit == Judged!Init /\ Reported!Init /\ Log!Init

DetectionNext ==
    \/ Judged!Next /\ UNCHANGED <<reportedVars, rememberedVars>>
    \/ Reported!Next /\ UNCHANGED <<judgedVars, rememberedVars>>
    \/ Log!Next /\ UNCHANGED <<judgedVars, reportedVars>>

DetectionSpec ==
    DetectionInit /\ [][DetectionNext]_<<judgedVars, reportedVars, rememberedVars>>
-----------------------------------------------------------------------------
\* What was killed can be found on a list and among the findings (Disposal).
KillsAreListed == Judged!KillsAreListed
\* Approved uploads are not quarantined (Disposal).
ApprovedIsNotBanned == Judged!ApprovedIsNotBanned
\* Cooldowns hold unless a memory bound threw their record away (Findings).
QuietBetweenFindings == Reported!QuietBetweenFindings
\* A sweep of queries is reported within two windows (Findings).
SweepIsSeen == Reported!SweepIsSeen
\* Totals and pages of the history add up (Records).
HistoryAddsUp == Log!HistoryAddsUp
\* A crash loses at most one interval of events (Records).
OneIntervalIsLost == Log!OneIntervalIsLost
=============================================================================
