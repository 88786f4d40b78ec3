SPECIFICATION ScenesSpec
CONSTANTS
    Conn = {c1, c2, c3}
    Sweeper = {s1, s2}
    Full = 8
    Neutral = 4
    Reward = 1
    Penalty = 1
    MaxStreak = 3
    MinSamples = 3
    Limit = 2
    BreakFails = 3
    BreakOKs = 2
    MaxTrip = 8
    MaxBad = 8
    Node = {n1}
    StaleAfter = 1
    MaxNow = 3
    Torn = Torn
    None = None
INVARIANTS
    WatchedByOne
    
PROPERTIES
    DemotedOnce
    WatchedUntilItEnds
    Heals
CHECK_DEADLOCK FALSE
