----------------------------- MODULE Migrations ------------------------------
(***************************************************************************)
(* db/pool.rs: how a start brings the database to the schema of the app.   *)
(* A database that is older than the history of migrations is repaired and *)
(* given one (bootstrap_legacy_schema); any other is left to the migrator  *)
(* of SQLx.  The process may stop, or a statement fail, between any two    *)
(* transactions, and the next start may be that of another app.            *)
(***************************************************************************)
EXTENDS Integers, Sequences, FiniteSets

CONSTANTS MgApps,      \* the apps: how many of the migrations each one bundles
          MgMaxStarts  \* bound: starts

\* The migrations of migrations/*.sql in which a replay matters: what each creates and fails on
\* when it is there (CREATE TABLE, ADD COLUMN), creates if missing, and drops.
MigrationSql ==
    <<[version |-> 1, strict |-> {}, lenient |-> {"servers"}, drops |-> {}],
      [version |-> 7, strict |-> {"name"}, lenient |-> {}, drops |-> {}],
      [version |-> 12, strict |-> {"quote_id", "quote_url"}, lenient |-> {}, drops |-> {}],
      [version |-> 20, strict |-> {}, lenient |-> {"status_trigger", "account_trigger"},
                       drops |-> {}],
      [version |-> 26, strict |-> {}, lenient |-> {"global_columns"}, drops |-> {"sound"}],
      [version |-> 31, strict |-> {"short_fts"}, lenient |-> {}, drops |-> {"account_trigger"}],
      [version |-> 32, strict |-> {"icu_fts"}, lenient |-> {}, drops |-> {"status_trigger"}],
      [version |-> 40, strict |-> {"sound"}, lenient |-> {}, drops |-> {}]>>

\* A database of before the history: the migrations it has seen, and the first statement of
\* the next one if that was cut off.
Found == [seen : 0 .. Len(MigrationSql), half : {FALSE}] \union [seen : {2}, half : {TRUE}]

VARIABLES
    mgFound,     \* the database the first start finds; nothing seen is no database
    mgObjects,   \* its tables, columns and triggers
    mgHistory,   \* _sqlx_migrations
    mgHasHistory,
    mgMode,      \* _awayuki_schema_metadata: "none", "empty", "legacy-bootstrap", "managed-v1"
    mgStep, mgApp, mgStarts,
    mgUnmarked   \* ghost: a bootstrap ended between its second and its third statement

mgVars == <<mgFound, mgObjects, mgHistory, mgHasHistory, mgMode, mgStep, mgApp, mgStarts,
            mgUnmarked>>
mgFile == <<mgObjects, mgHistory, mgHasHistory, mgMode>>
mgRest == <<mgFound, mgApp, mgStarts>>

Bundle == 1 .. mgApp

PlainRuns(i, objects) == MigrationSql[i].strict \intersect objects = {}

Plain(i, objects) ==
    (objects \ MigrationSql[i].drops) \union MigrationSql[i].strict \union MigrationSql[i].lenient

\* The schema of a new database after some migrations.
SchemaAt[n \in 0 .. Len(MigrationSql)] == IF n = 0 THEN {} ELSE Plain(n, SchemaAt[n - 1])

\* ensure_column: migrations that become one check for each of their columns.
EnsuresColumns(i) == MigrationSql[i].version \in {7, 12}

\* The tables that show a migration has run: 31 and 32 are skipped when they are there.
AlreadyApplied(i, objects) ==
    /\ MigrationSql[i].version \in {31, 32}
    /\ MigrationSql[i].strict \subseteq objects

\* Mutant of Compat: a migration is skipped when one of its columns is there.
CompatByAny(i, objects) ==
    IF \/ AlreadyApplied(i, objects)
       \/ EnsuresColumns(i) /\ MigrationSql[i].strict \intersect objects # {}
    THEN objects ELSE Plain(i, objects)

\* apply_legacy_migration: one migration on a database that may have it already.
Compat(i, objects) == IF AlreadyApplied(i, objects) THEN objects ELSE Plain(i, objects)

CompatRuns(i, objects) ==
    EnsuresColumns(i) \/ AlreadyApplied(i, objects) \/ PlainRuns(i, objects)

-----------------------------------------------------------------------------

\* Mutant of Detected: the history is asked for before the mode.
DetectedByHistory ==
    CASE mgHasHistory -> "managed"
      [] mgMode = "legacy-bootstrap" -> "legacy"
      [] "servers" \in mgObjects -> "legacy"
      [] OTHER -> "new"

\* migration_mode
Detected ==
    CASE mgMode = "legacy-bootstrap" -> "legacy"
      [] mgMode = "managed-v1" -> "managed"
      [] mgMode \in {"none", "empty"} /\ mgHasHistory -> "managed"
      [] mgMode \in {"none", "empty"} /\ ~mgHasHistory /\ "servers" \in mgObjects -> "legacy"
      [] OTHER -> "new"

\* run_migrations: which of the two ways the database goes.  An app that keeps a history has
\* all the migrations of the apps that did not.
RunMigrations ==
    /\ mgStep = "stopped" /\ mgStarts < MgMaxStarts
    /\ \E app \in MgApps : mgFound.seen <= app /\ mgApp' = app
    /\ mgStarts' = mgStarts + 1
    /\ mgStep' = IF Detected = "legacy" THEN "metadata" ELSE "migrator"
    /\ UNCHANGED <<mgFound, mgFile, mgUnmarked>>

\* ensure_metadata_table, ensure_sqlx_migrations_table and set_migration_mode, each on its own.
BootstrapMetadata ==
    /\ mgStep = "metadata"
    /\ mgMode' = IF mgMode = "none" THEN "empty" ELSE mgMode
    /\ mgStep' = "history"
    /\ UNCHANGED <<mgObjects, mgHistory, mgHasHistory, mgRest, mgUnmarked>>

BootstrapHistory ==
    /\ mgStep = "history"
    /\ mgHasHistory' = TRUE /\ mgStep' = "mark"
    /\ UNCHANGED <<mgObjects, mgHistory, mgMode, mgRest, mgUnmarked>>

BootstrapMark ==
    /\ mgStep = "mark"
    /\ mgMode' = "legacy-bootstrap" /\ mgStep' = "compat"
    /\ UNCHANGED <<mgObjects, mgHistory, mgHasHistory, mgRest, mgUnmarked>>

NextCompat == Bundle \ mgHistory

\* bootstrap_legacy_schema: the next migration that has no row, and its row, in a transaction.
BootstrapOne ==
    /\ mgStep = "compat"
    /\ IF NextCompat = {}
       THEN /\ mgMode' = "managed-v1" /\ mgStep' = "migrator"
            /\ UNCHANGED <<mgObjects, mgHistory>>
       ELSE LET i == CHOOSE i \in NextCompat : \A j \in NextCompat : i <= j IN
            /\ UNCHANGED mgMode
            /\ IF CompatRuns(i, mgObjects)
               THEN /\ mgObjects' = Compat(i, mgObjects)
                    /\ mgHistory' = mgHistory \union {i}
                    /\ UNCHANGED mgStep
               ELSE mgStep' = "refused" /\ UNCHANGED <<mgObjects, mgHistory>>
    /\ UNCHANGED <<mgHasHistory, mgRest, mgUnmarked>>

\* MIGRATOR.run: it makes the history, refuses versions the app does not bundle, and runs the
\* migrations without a row, each with its row in a transaction.
MigratorOne ==
    /\ mgStep = "migrator"
    /\ mgHasHistory' = TRUE
    /\ LET missing == Bundle \ mgHistory
           i == CHOOSE i \in missing : \A j \in missing : i <= j
       IN CASE ~(mgHistory \subseteq Bundle) ->
                  mgStep' = "refused" /\ UNCHANGED <<mgObjects, mgHistory>>
            [] mgHistory \subseteq Bundle /\ missing = {} ->
                  mgStep' = "managed" /\ UNCHANGED <<mgObjects, mgHistory>>
            [] mgHistory \subseteq Bundle /\ missing # {} /\ ~PlainRuns(i, mgObjects) ->
                  mgStep' = "refused" /\ UNCHANGED <<mgObjects, mgHistory>>
            [] OTHER -> /\ mgObjects' = Plain(i, mgObjects)
                        /\ mgHistory' = mgHistory \union {i}
                        /\ UNCHANGED mgStep
    /\ UNCHANGED <<mgMode, mgRest, mgUnmarked>>

\* run_migrations: the mode is written and the start goes on.
MarkManaged ==
    /\ mgStep = "managed"
    /\ mgMode' = "managed-v1" /\ mgStep' = "ready"
    /\ UNCHANGED <<mgObjects, mgHistory, mgHasHistory, mgRest, mgUnmarked>>

\* The process stops, or a statement fails and the start ends with the error.
StartEnds ==
    /\ mgStep # "stopped"
    /\ mgStep' = "stopped"
    /\ mgUnmarked' = (mgUnmarked \/ (mgStep = "mark" /\ mgMode = "empty"))
    /\ UNCHANGED <<mgFile, mgRest>>

MigrationsInit ==
    /\ mgFound \in Found
    /\ mgObjects = SchemaAt[mgFound.seen] \union IF mgFound.half THEN {"quote_id"} ELSE {}
    /\ mgHistory = {} /\ mgHasHistory = FALSE /\ mgMode = "none"
    /\ mgStep = "stopped" /\ mgApp = 0 /\ mgStarts = 0 /\ mgUnmarked = FALSE

MigrationsNext ==
    \/ RunMigrations \/ BootstrapMetadata \/ BootstrapHistory \/ BootstrapMark
    \/ BootstrapOne \/ MigratorOne \/ MarkManaged \/ StartEnds

-----------------------------------------------------------------------------

\* However often a start is cut off, the next one brings the database up: the only database an
\* app refuses is one a newer app has had.  A bootstrap that ends after it has made the history
\* and before it has written its mode is the exception: it is taken for a managed database.
InterruptedStartsResume ==
    mgStep = "refused" => mgUnmarked \/ mgHistory \ Bundle # {}

\* A repaired database has the schema of a new one: no column is missing and no trigger that a
\* later migration removed is back.  A database that had 31 without a history is the exception:
\* 20 is replayed and 31 is taken to have run, so the dropped triggers return.
RepairedIsLikeNew ==
    mgStep = "ready" /\ mgFound.seen < 6 => mgObjects = SchemaAt[mgApp]
=============================================================================
