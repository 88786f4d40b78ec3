SPECIFICATION PSpec
CONSTANTS
    r1 = r1  r2 = r2
    acl = acl  dns = dns
    ok = ok  bad = bad
    None = None
    Base <- MCBase
    Req <- MCReq
    Axis <- OneAxis
    Entry <- MCEntry
    Value <- MCValue
    Builds <- MCValue
    Starts <- MCStarts
    Initial <- OneInitial
    AxesOf <- SameAxis
    Editors = {}
    Bans = {r1}
    Releases = {r2}
INVARIANT
    RejectRulesMatchList
