SPECIFICATION FairSpec
CONSTANTS
    Files <- MCFiles
    Dialect = "sqlite"
    AnyDialect = AnyDialect
    NoFile = NoFile
    LegacySchema = {1, 2, 3}
    Procs = {p1, p2}
    MaxStops = 2
    MaxDowns = 1
INVARIANT BookkeepingAgrees
PROPERTIES SchemaCompletes
