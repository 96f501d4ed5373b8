\* Runners may stall past StaleAfter and come back.
SPECIFICATION FairSpec
CONSTANTS
    Runners = {r1, r2}
    RunIds = {a, b, c}
    NoRun = NoRun
    StaleAfter = 2
    MaxLag = 4
INVARIANTS TypeOK SingleActive HoldersOwnTheirRow
PROPERTIES WorkersTakeTurns EndedStaysEnded OrphanReclaimed
