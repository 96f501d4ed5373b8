SPECIFICATION Spec
CONSTANTS
    NoRev = NoRev
    NoPost = NoPost
    NoBody = NoBody
    EmptyPost = EmptyPost
    NoRepo = NoRepo
    Repos = {r1}
    RevIds = {v1, v2, v3}
    PostIds = {x1}
    Bodies = {b1, b2, b3}
    MaxSha = 2
    VersionBound = 3
    ForeignKeys = FALSE
    Workers = {w1}
    MaxArticlesPerRepo = 2
    MaxArticlesPerRun = 0
    KeepTop = 1
    MayArchive = TRUE
    Faults = {}
    Publishers = {p1}
    PublishFaults = {"crash", "db", "fetch", "push", "lost", "refused"}
    MaxEdits = 1
    Reviewers = {u1}
    Operations = {"approve", "keep_ours", "keep_theirs"}
SYMMETRY Symmetry
PROPERTIES DraftsNeverBuried
