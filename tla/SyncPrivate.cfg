SPECIFICATION Spec
CONSTANTS
    Scans = {s1}
    Generates = {}
    NoOne = NoOne
    NoOrg = NoOrg
    Services <- MCOneService
    Orgs <- MCOneOrg
    Upstream <- MCPrivate
    Patterns <- MCNoPatterns
    Secondary = {}
    Threshold = 3
    ProcessPrivate = FALSE
    MaxInactivity = TRUE
    MaxFaults = 0
    MaxStops = 0
INVARIANTS PrivateStaysOut
