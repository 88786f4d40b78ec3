SPECIFICATION GenSpec
CONSTANTS
    Suffix <- MCSuffix
    Glob <- MCGlob
    CIDR <- MCCIDR
    Tag <- MCTag
    Covers <- MCCovers
    Private = "lan"
    Member <- MCMember
    Conn <- MCConn
    Bases <- MCBases
    Whitelists <- MCWhitelists
    Denylists <- MCLists
    Quarantines <- MCLists
    DirectLists <- MCDirectLists
    CustomLists <- MCCustomLists
    Profiles = {}
    MaxTouched = 2
    Numbered <- MCNumbered
    CountryOf <- MCCountryOf
    CountryName <- MCCountryName
    DefaultExcludeCountries = {"HK"}
    NodeLists <- MCNodeLists
    ExitLists <- MCExitLists
    DisabledSets <- MCDisabledSets
    EndpointLists <- MCEndpointLists
    GroupConfigs <- MCGroupConfigs
    DNSConfigs <- MCDNSConfigs
    GroupFiles <- MCGroupFiles
    DNSFiles <- MCDNSFiles
    SafeTag = {"set"}
    MaxChanged = 3
INVARIANTS
    ConfigIsAccepted
    AnswersFollowEgress
    ResolversAreReachable
    LocalExitsStayManual
