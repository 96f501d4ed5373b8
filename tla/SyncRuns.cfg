SPECIFICATION FairSpec
CONSTANTS
    Scans = {s1}
    Generates = {g1}
    NoOne = NoOne
    NoOrg = NoOrg
    Services <- MCServices
    Orgs <- MCOrgs
    Upstream <- MCUpstream
    Patterns <- MCPatterns
    Secondary = {"github", "gitflic"}
    Threshold = 2
    ProcessPrivate = FALSE
    MaxInactivity = TRUE
    MaxFaults = 2
    MaxStops = 1
INVARIANTS TypeOK SyncExclusive AllAccountedFor
PROPERTIES LockComesFree
