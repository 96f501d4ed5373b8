SPECIFICATION Spec
CONSTANTS
    NoRev = NoRev
    NoPost = NoPost
    NoBody = NoBody
    EmptyPost = EmptyPost
    NoRepo = NoRepo
    Repos = {r1}
    RevIds = {v1, v2, v3}
    PostIds = {x1, x2}
    Bodies = {b1, b2, b3}
    MaxSha = 1
    VersionBound = 3
    ForeignKeys = TRUE
    Workers = {w1, w2}
    MaxArticlesPerRepo = 1
    MaxArticlesPerRun = 0
    KeepTop = 1
    MayArchive = FALSE
    Faults = {"crash", "db", "llm"}
    Publishers = {}
    PublishFaults = {}
    MaxEdits = 0
    Reviewers = {u1}
    Operations = {"edit", "reject"}
SYMMETRY Symmetry
INVARIANTS NewestAreKept VersionsNeverReused DraftCap
PROPERTIES AppendOnly
