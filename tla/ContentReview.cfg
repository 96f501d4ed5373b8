SPECIFICATION FairSpec
CONSTANTS
    NoRev = NoRev
    NoPost = NoPost
    NoBody = NoBody
    EmptyPost = EmptyPost
    NoRepo = NoRepo
    Repos = {r1}
    RevIds = {v1, v2, v3}
    PostIds = {x1, x2}
    Bodies = {b1, b2}
    MaxSha = 3
    VersionBound = 3
    ForeignKeys = FALSE
    Workers = {w1}
    MaxArticlesPerRepo = 2
    MaxArticlesPerRun = 1
    KeepTop = 1
    MayArchive = FALSE
    Faults = {}
    Publishers = {p1}
    PublishFaults = {"fetch"}
    MaxEdits = 0
    Reviewers = {u1, u2}
    Operations = {"approve", "reject"}
INVARIANTS TypeOK ReviewGate ShownNeverPruned OnePostPerRepo LiveMatches
PROPERTIES ApprovedGoesLive
