SPECIFICATION ScenesSpec
CONSTANTS
    r1 = r1  r2 = r2
    acl = acl  dns = dns
    ok = ok  bad = bad
    None = None
    Base <- MCBase
    Req <- MCReq
    Axis <- MCAxis
    Entry <- MCEntry
    Value <- MCValue
    Builds <- MCValue
    Starts <- MCStarts
    Initial <- MCInitial
    AxesOf <- OwnAxes
    Editors = {r1}
    Bans = {r2}
    Releases = {r2}
    Flow = {f1}
    Name = {"a"}
    Addr = {"x"}
    Dest <- MCDest
    Settings <- MCSettings
    FeedOf <- MCFeedOf
    Url = {"listing", "empty"}
    Static = {}
    MaxUp = 2
    MaxEdits = 1
    Client = {c1, c2}
    Parent = {p1, p2}
    Leaf = {l1, l2}
    Stack = {j1}
    Enabled <- MCEnabled
    Endpoint = {e1, e2}
    Window = 2
    Burst = 2
    Rate = 2
    OddAt = 1
    SubsAt = 2
    VolumeQuiet = 2
    MinSample = 3
    KeepTimes = 3
    MinInterval = 1
    MaxInterval = 2
    ReAlert = 3
    Factor = 2
    BypassQuiet = 2
    Learn = 2
    MaxRecords = 1
    MaxNow = 5
    MaxCalls = 1
    Size <- MCSize
    Limits = {2, 3}
    MaxBackups = 1
    Ring = 2
    MaxFaults = 2
    Scenes = {"lists", "judged", "reported", "remembered"}
INVARIANTS
    StoreMatchesManager
    ServingIsBootable
    
    KillsAreListed
    SweepIsSeen
    
PROPERTIES
    
    QuietBetweenFindings
CONSTRAINT
    DiskWorks
CHECK_DEADLOCK FALSE
