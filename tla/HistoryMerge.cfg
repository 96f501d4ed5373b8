SPECIFICATION FairSpec
CONSTANTS
    r1 = r1
    r2 = r2
    x1 = x1
    x2 = x2
    RepoList <- MCRepoList
    Pages <- MCPages
    Hits <- MCHits
    Painters = {"dalle", "stability"}
    Bodies = {b1}
    RevIds = {1, 2}
    NoRev = 0
    NoPost = NoPost
    Runs = {p1}
    Merges = {m1}
    MaxArticlesPerRun = 2
    KeepTop = 1
    MaxStops = 1
INVARIANTS TypeOK OneHistory
PROPERTIES PostRecordedOnce RowHasFile UndecidedSurvives ImportCompletes
