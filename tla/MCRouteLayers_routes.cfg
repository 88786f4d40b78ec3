SPECIFICATION Spec
CONSTANTS
    exit = exit
    Suffix <- MCSuffix
    Glob <- MCGlob
    CIDR <- MCCIDR
    Tag <- MCTag
    Covers <- MCCovers
    Private = "lan"
    Member = {exit}
    Conn <- MCConn
    Bases <- MCBases
    Whitelists <- MCWhitelists
    Denylists <- MCLists
    Quarantines <- MCLists
    DirectLists <- MCDirectLists
    CustomLists <- MCCustomLists
    Profiles <- MCProfiles
    MaxTouched = 3
INVARIANTS
    NothingUnadmittedLeaves
    DeniedIsRejected
    
    NoProxyNameGoesDirect
    ViewExplainsTheGate
