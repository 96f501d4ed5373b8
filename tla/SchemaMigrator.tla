--------------------------- MODULE SchemaMigrator ---------------------------
(***************************************************************************)
(* The versioned schema: Migrator (internal/database/migrator.go), the     *)
(* seeding of pre-refactor databases (bootstrap.go) and `migrate down`     *)
(* (cmd/cli/migrate.go, backup.go).  Every command and the server run      *)
(* Migrate when they start; nothing is locked, and the SQL of a migration, *)
(* the DELETE and the INSERT of its row are separate statements.           *)
(*                                                                         *)
(* A file stands for what its SQL does to the schema.  A statement that    *)
(* fails, an expired context and a crash all end the command where it is:  *)
(* Stop.                                                                   *)
(***************************************************************************)
EXTENDS Naturals, FiniteSets

CONSTANTS
    Files,          \* the embedded .sql files: [version, dialect, dir, sql, atomic]
    Dialect,        \* "sqlite" or "postgres"
    AnyDialect,     \* a file name without a dialect suffix
    NoFile,         \* UpPath or DownPath is empty
    LegacySchema,   \* versions the pre-refactor Migrate() had created
    Procs,          \* commands and server at work on the database
    MaxStops,       \* bound: how often a command ends early
    MaxDowns        \* bound: how often `migrate down` is called

-----------------------------------------------------------------------------
(***************************************************************************)
(* Discover: per version and direction, this dialect's file or else the    *)
(* one without a suffix; files of the other dialect are left aside.  What  *)
(* a file's SQL does is its "sql": "again" may run twice (IF NOT EXISTS,   *)
(* IF EXISTS, a rebuild), "once" may not (ADD COLUMN, DROP COLUMN), "none" *)
(* is empty; "atomic" files are one transaction or one statement.          *)
(***************************************************************************)
Viable == {f \in Files : f.dialect \in {AnyDialect, Dialect}}
Candidates(v, dir) == {f \in Viable : f.version = v /\ f.dir = dir}

Winner(v, dir) ==
    LET own == {f \in Candidates(v, dir) : f.dialect = Dialect}
    IN  IF Candidates(v, dir) = {} THEN NoFile
        ELSE CHOOSE f \in IF own # {} THEN own ELSE Candidates(v, dir) : TRUE

Discover ==
    [v \in {f.version : f \in Viable} |-> [up |-> Winner(v, "up"), down |-> Winner(v, "down")]]

Versions == DOMAIN Discover
N == Cardinality(Versions)

ASSUME SchemaAssumption ==
    /\ Files \subseteq [version : Nat, dialect : {AnyDialect, "sqlite", "postgres"},
                        dir : {"up", "down"}, sql : {"again", "once", "none"}, atomic : BOOLEAN]
    /\ Dialect \in {"sqlite", "postgres"} /\ NoFile \notin Files
    /\ Versions = 1..N /\ N \in Nat \ {0}
    /\ Discover[1].up # NoFile
    /\ LegacySchema \subseteq Versions
    /\ MaxStops \in Nat /\ MaxDowns \in Nat

VARIABLES
    table,      \* the shape of schema_migrations
    rows,       \* version -> [dir, sum]: its row
    schema,     \* version -> what there is of it in the database
    edited,     \* versions whose up file the installed release has changed
    procs,      \* process -> [pc, at, done, target]
    exclusive,  \* environment: no two commands at once
    seeded,     \* history: versions recorded by the bootstrap, not by running them
    gap,        \* history: versions whose SQL ran and whose row was not written since
    stops, downs

vars == <<table, rows, schema, edited, procs, exclusive, seeded, gap, stops, downs>>

Unrecorded == [dir |-> "none", sum |-> FALSE]
Idle == [pc |-> "idle", at |-> 1, done |-> {}, target |-> 0]

PCs == {"idle", "shape", "drop", "ensure", "count", "probe", "seed", "seedInsert", "snapshot",
        "up", "upDelete", "upInsert", "ready", "backup", "downSnapshot", "down", "downDelete", "downInsert"}

TypeOK ==
    /\ table \in {"missing", "old", "new"}
    /\ rows \in [Versions -> [dir : {"none", "up", "down"}, sum : BOOLEAN]]
    /\ schema \in [Versions -> {"absent", "partial", "present"}]
    /\ edited \subseteq Versions
    /\ procs \in [Procs -> [pc : PCs, at : 0..(N + 1), done : SUBSET Versions, target : 0..N]]
    /\ exclusive \in BOOLEAN
    /\ seeded \subseteq Versions /\ gap \subseteq Versions
    /\ stops \in 0..MaxStops /\ downs \in 0..MaxDowns

\* A new database, or one the pre-refactor Migrate() left behind.
Init ==
    /\ \/ table = "missing" /\ schema = [v \in Versions |-> "absent"]
       \/ table = "old"
          /\ schema = [v \in Versions |-> IF v \in LegacySchema THEN "present" ELSE "absent"]
    /\ rows = [v \in Versions |-> Unrecorded]
    /\ edited = {}
    /\ procs = [p \in Procs |-> Idle]
    /\ exclusive \in BOOLEAN
    /\ seeded = {} /\ gap = {} /\ stops = 0 /\ downs = 0

-----------------------------------------------------------------------------
(***************************************************************************)
(* Helpers.                                                                *)
(***************************************************************************)
At(p, pc) == procs[p].pc = pc
Goto(p, pc) == procs' = [procs EXCEPT ![p].pc = pc]
MoveTo(p, pc, at) == procs' = [procs EXCEPT ![p].pc = pc, ![p].at = at]

\* applied(): the versions whose row says up, whichever file they were run from.
Applied == {v \in Versions : rows[v].dir = "up"}

HasUp(v) == Discover[v].up # NoFile
Pending(p) == {v \in Versions \ procs[p].done : HasUp(v)}

\* A stored checksum that is not the file's.
Mismatch(v) == rows[v].sum # (v \in edited)

\* The up file of v runs through: an ALTER needs its table, and no second column.
Runs(v) == Discover[v].up.sql = "once" => schema[v] = "absent" /\ schema[1] = "present"

\* There is a down file of v (else ErrMissingDownMigration) and it runs through.
Undoes(v) ==
    /\ Discover[v].down # NoFile
    /\ Discover[v].down.sql = "once" => schema[v] # "absent"

\* recordMigration: DELETE the version's row, then INSERT one (PRIMARY KEY).
DeleteRow(v) ==
    /\ table = "new"
    /\ rows' = [rows EXCEPT ![v] = Unrecorded]

\* Mutant: INSERT OR REPLACE under the other direction.
MutRecordsUp(v, dir) ==
    /\ table = "new" /\ rows[v].dir = "none"
    /\ rows' = [rows EXCEPT ![v] = [dir |-> "up", sum |-> v \in edited]]

InsertRow(v, dir) ==
    /\ table = "new" /\ rows[v].dir = "none"
    /\ rows' = [rows EXCEPT ![v] = [dir |-> dir, sum |-> v \in edited]]

-----------------------------------------------------------------------------
(***************************************************************************)
(* Migrate, first half: bootstrapSchemaMigrations.                         *)
(***************************************************************************)
Start(p) ==
    /\ At(p, "idle")
    /\ exclusive => \A q \in Procs : At(q, "idle")
    /\ Goto(p, "shape")
    /\ UNCHANGED <<table, rows, schema, edited, exclusive, seeded, gap, stops, downs>>

\* schemaMigrationsHasChecksum.
Shape(p) ==
    /\ At(p, "shape")
    /\ Goto(p, IF table = "old" THEN "drop" ELSE "ensure")
    /\ UNCHANGED <<table, rows, schema, edited, exclusive, seeded, gap, stops, downs>>

\* DROP TABLE schema_migrations.
DropOld(p) ==
    /\ At(p, "drop")
    /\ table # "missing"
    /\ table' = "missing"
    /\ rows' = [v \in Versions |-> Unrecorded]
    /\ Goto(p, "ensure")
    /\ UNCHANGED <<schema, edited, exclusive, seeded, gap, stops, downs>>

\* CREATE TABLE IF NOT EXISTS.
EnsureTable(p) ==
    /\ At(p, "ensure")
    /\ table' = IF table = "missing" THEN "new" ELSE table
    /\ Goto(p, "count")
    /\ UNCHANGED <<rows, schema, edited, exclusive, seeded, gap, stops, downs>>

\* SELECT COUNT(*): any row, a "down" row too, means the bookkeeping is trusted.
CountRows(p) ==
    /\ At(p, "count")
    /\ table = "new"
    /\ Goto(p, IF \E v \in Versions : rows[v].dir # "none" THEN "snapshot" ELSE "probe")
    /\ UNCHANGED <<table, rows, schema, edited, exclusive, seeded, gap, stops, downs>>

\* repositoriesTableExists: the first statement of version 1 creates it.
Probe(p) ==
    /\ At(p, "probe")
    /\ Goto(p, IF schema[1] = "absent" THEN "snapshot" ELSE "seed")
    /\ UNCHANGED <<table, rows, schema, edited, exclusive, seeded, gap, stops, downs>>

\* The seeding loop records every discovered version with an up file as "up".
SeedDelete(p) ==
    /\ At(p, "seed") /\ procs[p].at \in Versions
    /\ IF HasUp(procs[p].at)
       THEN DeleteRow(procs[p].at) /\ Goto(p, "seedInsert")
       ELSE MoveTo(p, "seed", procs[p].at + 1) /\ UNCHANGED rows
    /\ UNCHANGED <<table, schema, edited, exclusive, seeded, gap, stops, downs>>

SeedEnds(p) ==
    /\ At(p, "seed") /\ procs[p].at > N
    /\ Goto(p, "snapshot")
    /\ UNCHANGED <<table, rows, schema, edited, exclusive, seeded, gap, stops, downs>>

SeedInsert(p) ==
    /\ At(p, "seedInsert")
    /\ InsertRow(procs[p].at, "up")
    /\ seeded' = seeded \cup {procs[p].at}
    /\ MoveTo(p, "seed", procs[p].at + 1)
    /\ UNCHANGED <<table, schema, edited, exclusive, gap, stops, downs>>

-----------------------------------------------------------------------------
(***************************************************************************)
(* Migrate, second half: migrateUpInternal.                                *)
(***************************************************************************)
\* EnsureTable, Discover and the one read of the applied versions.
Snapshot(p) ==
    /\ At(p, "snapshot")
    /\ table = "new"
    /\ procs' = [procs EXCEPT ![p].pc = "up", ![p].at = 1, ![p].done = Applied]
    /\ UNCHANGED <<table, rows, schema, edited, exclusive, seeded, gap, stops, downs>>

\* A version without an up file is skipped, and so is one of the snapshot when
\* its checksum is the file's.
SkipApplied(p) ==
    /\ At(p, "up") /\ procs[p].at \in Versions \ Pending(p)
    /\ procs[p].at \in procs[p].done => ~ Mismatch(procs[p].at)
    /\ MoveTo(p, "up", procs[p].at + 1)
    /\ UNCHANGED <<table, rows, schema, edited, exclusive, seeded, gap, stops, downs>>

\* ErrMigrationChecksumMismatch: the command (or the server) does not start.
ChecksumMismatch(p) ==
    /\ At(p, "up") /\ procs[p].at \in procs[p].done \cap Versions
    /\ Mismatch(procs[p].at)
    /\ procs' = [procs EXCEPT ![p] = Idle]
    /\ UNCHANGED <<table, rows, schema, edited, exclusive, seeded, gap, stops, downs>>

ExecUp(p) ==
    /\ At(p, "up") /\ procs[p].at \in Pending(p)
    /\ Runs(procs[p].at)
    /\ schema' = [schema EXCEPT ![procs[p].at] = "present"]
    /\ gap' = gap \cup {procs[p].at}
    /\ Goto(p, "upDelete")
    /\ UNCHANGED <<table, rows, edited, exclusive, seeded, stops, downs>>

\* A crash between two statements of a file that is no transaction.
ExecUpTorn(p) ==
    /\ At(p, "up") /\ procs[p].at \in Pending(p)
    /\ ~ Discover[procs[p].at].up.atomic
    /\ Runs(procs[p].at) /\ schema[procs[p].at] = "absent"
    /\ stops < MaxStops /\ stops' = stops + 1
    /\ schema' = [schema EXCEPT ![procs[p].at] = "partial"]
    /\ gap' = gap \cup {procs[p].at}
    /\ procs' = [procs EXCEPT ![p] = Idle]
    /\ UNCHANGED <<table, rows, edited, exclusive, seeded, downs>>

\* Mutant: the row of a version that is not seen yet is not replaced.
MutNoDelete(p) ==
    /\ At(p, "upDelete")
    /\ Goto(p, "upInsert")
    /\ UNCHANGED <<table, rows, schema, edited, exclusive, seeded, gap, stops, downs>>

UpDelete(p) ==
    /\ At(p, "upDelete")
    /\ DeleteRow(procs[p].at)
    /\ Goto(p, "upInsert")
    /\ UNCHANGED <<table, schema, edited, exclusive, seeded, gap, stops, downs>>

UpInsert(p) ==
    /\ At(p, "upInsert")
    /\ InsertRow(procs[p].at, "up")
    /\ gap' = gap \ {procs[p].at}
    /\ MoveTo(p, "up", procs[p].at + 1)
    /\ UNCHANGED <<table, schema, edited, exclusive, seeded, stops, downs>>

\* The schema is up to date; the server serves, the command does its work.
UpEnds(p) ==
    /\ At(p, "up") /\ procs[p].at > N
    /\ Goto(p, "ready")
    /\ UNCHANGED <<table, rows, schema, edited, exclusive, seeded, gap, stops, downs>>

-----------------------------------------------------------------------------
(***************************************************************************)
(* `migrate down`.                                                         *)
(***************************************************************************)
\* runMigrateDown with --force: the plan from MigrationsStatus is not empty and
\* the target is not newer than what is applied; otherwise nothing happens.
PlanDown(p, target, backup) ==
    /\ At(p, "ready")
    /\ downs < MaxDowns /\ exclusive
    /\ target \in 0..N /\ \E v \in Applied : v > target
    /\ downs' = downs + 1
    /\ procs' = [procs EXCEPT ![p].pc = IF backup THEN "backup" ELSE "downSnapshot",
                              ![p].target = target]
    /\ UNCHANGED <<table, rows, schema, edited, exclusive, seeded, gap, stops>>

\* --backup-to: the snapshot of the whole database is written first; one that
\* fails ends the command here (Stop).
Backup(p) ==
    /\ At(p, "backup")
    /\ Goto(p, "downSnapshot")
    /\ UNCHANGED <<table, rows, schema, edited, exclusive, seeded, gap, stops, downs>>

\* MigrateDownTo reads the applied versions again.
DownSnapshot(p) ==
    /\ At(p, "downSnapshot")
    /\ procs' = [procs EXCEPT ![p].pc = "down", ![p].at = N, ![p].done = Applied]
    /\ UNCHANGED <<table, rows, schema, edited, exclusive, seeded, gap, stops, downs>>

\* Newest first.  The loop's "already rolled back / never applied" case does not
\* arise: the command brought every version up when it started, and nothing else
\* runs beside a rollback here.
ExecDown(p) ==
    /\ At(p, "down") /\ procs[p].at > procs[p].target
    /\ procs[p].at \in procs[p].done
    /\ Undoes(procs[p].at)
    /\ schema' = IF Discover[procs[p].at].down.sql = "none" THEN schema
                 ELSE [schema EXCEPT ![procs[p].at] = "absent"]
    /\ gap' = gap \cup {procs[p].at}
    /\ Goto(p, "downDelete")
    /\ UNCHANGED <<table, rows, edited, exclusive, seeded, stops, downs>>

DownDelete(p) ==
    /\ At(p, "downDelete")
    /\ DeleteRow(procs[p].at)
    /\ Goto(p, "downInsert")
    /\ UNCHANGED <<table, schema, edited, exclusive, seeded, gap, stops, downs>>

DownInsert(p) ==
    /\ At(p, "downInsert")
    /\ InsertRow(procs[p].at, "down")
    /\ gap' = gap \ {procs[p].at}
    /\ seeded' = seeded \ {procs[p].at}
    /\ MoveTo(p, "down", procs[p].at - 1)
    /\ UNCHANGED <<table, schema, edited, exclusive, stops, downs>>

DownEnds(p) ==
    /\ At(p, "down") /\ procs[p].at <= procs[p].target
    /\ procs' = [procs EXCEPT ![p] = Idle]
    /\ UNCHANGED <<table, rows, schema, edited, exclusive, seeded, gap, stops, downs>>

-----------------------------------------------------------------------------
\* A command that is through with its work ends; the server shuts down.
Finish(p) ==
    /\ At(p, "ready")
    /\ procs' = [procs EXCEPT ![p] = Idle]
    /\ UNCHANGED <<table, rows, schema, edited, exclusive, seeded, gap, stops, downs>>

\* A statement fails, the context expires or the process dies.
Stop(p) ==
    /\ procs[p].pc \notin {"idle", "ready"}
    /\ stops < MaxStops /\ stops' = stops + 1
    /\ procs' = [procs EXCEPT ![p] = Idle]
    /\ UNCHANGED <<table, rows, schema, edited, exclusive, seeded, gap, downs>>

\* A statement that can never succeed here: duplicate column, no such table or
\* column, a row that another process inserted first.
Refused(p) ==
    /\ \/ At(p, "drop") /\ table = "missing"
       \/ procs[p].pc \in {"count", "snapshot"} /\ table # "new"
       \/ At(p, "seed") /\ procs[p].at <= N /\ table # "new"
       \/ procs[p].pc \in {"upDelete", "downDelete"} /\ table # "new"
       \/ procs[p].pc \in {"seedInsert", "upInsert", "downInsert"}
          /\ (table # "new" \/ rows[procs[p].at].dir # "none")
       \/ At(p, "up") /\ procs[p].at \in Pending(p) /\ ~ Runs(procs[p].at)
       \/ At(p, "down") /\ procs[p].at > procs[p].target
          /\ procs[p].at \in procs[p].done /\ ~ Undoes(procs[p].at)
    /\ procs' = [procs EXCEPT ![p] = Idle]
    /\ UNCHANGED <<table, rows, schema, edited, exclusive, seeded, gap, stops, downs>>

\* A release whose file of version v differs from the one that was applied.
EditFile(v) ==
    /\ edited = {} /\ v \in Versions
    /\ \A p \in Procs : At(p, "idle")
    /\ edited' = {v}
    /\ UNCHANGED <<table, rows, schema, procs, exclusive, seeded, gap, stops, downs>>

Migrate(p) ==
    \/ Start(p) \/ Shape(p) \/ DropOld(p) \/ EnsureTable(p) \/ CountRows(p) \/ Probe(p)
    \/ SeedDelete(p) \/ SeedInsert(p) \/ SeedEnds(p)
    \/ Snapshot(p) \/ SkipApplied(p) \/ ChecksumMismatch(p)
    \/ ExecUp(p) \/ UpDelete(p) \/ UpInsert(p) \/ UpEnds(p)
    \/ Refused(p)

MigrateDown(p) ==
    \/ Backup(p) \/ DownSnapshot(p)
    \/ ExecDown(p) \/ DownDelete(p) \/ DownInsert(p) \/ DownEnds(p)

Next ==
    \/ \E p \in Procs :
        \/ Migrate(p) \/ MigrateDown(p) \/ Finish(p)
        \/ ExecUpTorn(p) \/ Stop(p)
        \/ \E target \in 0..N, backup \in BOOLEAN : PlanDown(p, target, backup)
    \/ \E v \in Versions : EditFile(v)

Spec == Init /\ [][Next]_vars

\* Commands are started again and again and each runs on unless it is stopped.
Fairness == \A p \in Procs : SF_vars(Migrate(p)) /\ WF_vars(MigrateDown(p) \/ Finish(p))

FairSpec == Spec /\ Fairness

-----------------------------------------------------------------------------
(***************************************************************************)
(* Properties.                                                             *)
(***************************************************************************)
\* Between two starters, or with one command at a time and rollbacks, each
\* stopped anywhere, the bookkeeping and the schema only disagree about a
\* version whose row a command was about to write when it stopped, or about one
\* the bootstrap vouched for: every other row that says "up" stands for a
\* version that is there, and every other row that says "down" for one that is
\* gone (a rollback without statements leaves it).
BookkeepingAgrees ==
    \A v \in Versions \ (gap \cup seeded) :
        /\ rows[v].dir = "up" => schema[v] = "present"
        /\ rows[v].dir = "down" => schema[v] = "absent" \/ Discover[v].down.sql = "none"

\* What no number of restarts repairs: an edited file; a file that must run
\* once, stopped between its SQL and its row, or half-way; a version the
\* bootstrap or an unfinished rollback left recorded but not there.
Wedged ==
    \/ \E v \in edited : v \in Applied /\ Mismatch(v)
    \/ \E v \in Versions \ Applied : Discover[v].up.sql = "once" /\ schema[v] # "absent"
    \/ \E v \in Applied : schema[v] # "present"

\* Starting again and again brings the whole schema up, whatever the starts
\* before were stopped at, unless one of them wedged it.
SchemaCompletes == []<>(Wedged \/ \A v \in Versions : schema[v] = "present")
=============================================================================
