-------------------------- MODULE MCSchemaMigrator --------------------------
(* Model-checking instances of SchemaMigrator. *)
EXTENDS SchemaMigrator, TLC

File(v, dialect, dir, sql, atomic) ==
    [version |-> v, dialect |-> dialect, dir |-> dir, sql |-> sql, atomic |-> atomic]

\* The kinds of files there are: 0001 (CREATE ... IF NOT EXISTS), 0005 (four
\* ALTER TABLE) and 0008 (a rebuild in one transaction, without a way back),
\* the last also with a file for every dialect.
MCFiles == {
    File(1, "sqlite", "up", "again", FALSE),
    File(1, "sqlite", "down", "again", TRUE),
    File(1, "postgres", "up", "again", TRUE),
    File(2, "sqlite", "up", "once", FALSE),
    File(2, "sqlite", "down", "again", TRUE),
    File(2, "postgres", "up", "again", TRUE),
    File(3, AnyDialect, "up", "once", FALSE),
    File(3, "sqlite", "up", "again", TRUE),
    File(3, AnyDialect, "down", "none", TRUE)}
=============================================================================
