SPECIFICATION FairSpec
CONSTANTS
    r1 = r1  r2 = r2
    acl = acl  nodes = nodes
    good1 = good1  good2 = good2  nostart = nostart
    None = None
    Base <- MCBase
    Req <- MCReq
    Axis <- MCAxis
    Value <- MCValue
    Builds <- MCBuilds
    Starts <- MCStarts
    Initial <- MCInitial
    AxesOf <- OwnAxes
INVARIANTS
    SettledStarts
    NoLostReload
    RunningIsLastGood
    DownOnlyByTheft
PROPERTY
    Returns
    ImplementsDataPlane
