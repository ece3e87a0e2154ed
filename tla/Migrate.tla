------------------------------ MODULE Migrate ------------------------------
(***************************************************************************)
(* ncps migrate up (pkg/database/migrate): the state of the database is    *)
(* detected by queries, an empty one gets the schema of ent, a tracking    *)
(* table of dbmate is converted to that of goose, and goose applies what   *)
(* is pending. On MySQL the conversion is a sequence of statements that    *)
(* the next run resumes wherever it was cut off.                           *)
(*                                                                         *)
(* The command runs as an init container of every pod; a run that fails or *)
(* dies is started again. A statement is one step, and so is a transaction *)
(* of SQLite or PostgreSQL. --dry-run only reads and is left out.          *)
(***************************************************************************)
EXTENDS Naturals, FiniteSets, FiniteSetsExt

CONSTANTS
    Pods,
    Versions,       \* of the migrations embedded in the program
    Rollouts       \* the database found, the pods started and their crashes

Rollout == [dialect : {"standard", "mysql"},   \* standard: SQLite, PostgreSQL
            start : {"empty", "dbmate", "goose"},
            old : SUBSET Versions,             \* recorded at first
            plain : SUBSET Versions,           \* files with NO TRANSACTION
            pods : SUBSET Pods, crashes : Nat]

ASSUME VersionAssumption == Versions \subseteq Nat \ {0} /\ IsFiniteSet(Versions)
ASSUME PodAssumption == IsFiniteSet(Pods)
ASSUME RolloutAssumption ==
    /\ Rollouts \subseteq Rollout
    /\ \A s \in Rollouts : s.start = "empty" => s.old = {}

VARIABLES
    rollout,
    schema,         \* the migrations whose changes are in the schema
    main, backup,   \* schema_migrations, schema_migrations_dbmate_backup
    step,           \* where the run of each pod is
    seen,           \* the tables its first queries found
    count,          \* the rows it counted in the backup
    left,           \* versions it has still to insert or to apply
    crashes,        \* crashes so far
    torn            \* one came between a migration and its record

db == <<schema, main, backup>>
local == <<seen, count, left>>
mvars == <<rollout, db, step, local, crashes, torn>>

MySQL == rollout.dialect = "mysql"
Rows == [Versions \cup {0} -> Nat]
NoRows == [v \in Versions \cup {0} |-> 0]
Table == [shape : {"none", "dbmate", "goose"}, rows : Rows]
NoTable == [shape |-> "none", rows |-> NoRows]
Holding(shape, V) ==
    [shape |-> shape, rows |-> [v \in Versions \cup {0} |-> IF v \in V THEN 1 ELSE 0]]

TableExists(t) == t.shape # "none"
ColumnExists(t) == t.shape = "goose"            \* is_applied
AnyAppTableExists == schema # {}
Recorded(t) == {v \in Versions : t.rows[v] > 0}
RowCount(t) == Cardinality(UNION {{v} \X (1 .. t.rows[v]) : v \in Versions \cup {0}})

MigrateInit ==
    /\ rollout \in Rollouts
    /\ schema = rollout.old
    /\ main = CASE rollout.start = "empty" -> NoTable
                [] rollout.start = "dbmate" -> Holding("dbmate", rollout.old)
                [] rollout.start = "goose" -> Holding("goose", rollout.old \cup {0})
    /\ backup = NoTable
    /\ step = [p \in Pods |-> IF p \in rollout.pods THEN "main" ELSE "off"]
    /\ seen = [p \in Pods |-> {}] /\ count = [p \in Pods |-> 0]
    /\ left = [p \in Pods |-> {}]
    /\ crashes = 0 /\ torn = FALSE

Go(p, s) == step' = [step EXCEPT ![p] = s]
Fail(p) == Go(p, "failed") /\ UNCHANGED db
Rest == UNCHANGED <<rollout, crashes, torn>>
Kept == UNCHANGED local /\ Rest

-----------------------------------------------------------------------------
(* Detect, one query after the other.                                      *)
ProbeMain(p) ==
    /\ step[p] = "main"
    /\ seen' = [seen EXCEPT ![p] = IF TableExists(main) THEN {"main"} ELSE {}]
    /\ Go(p, IF MySQL THEN "backup" ELSE IF TableExists(main) THEN "shape" ELSE "app")
    /\ UNCHANGED <<db, count, left>> /\ Rest

(* Mutant: the state between the renaming and the new table, S4, is not    *)
(* told from a database without tracking table.                            *)
ProbeBackupNoS4(p) ==
    /\ step[p] = "backup"
    /\ seen' = [seen EXCEPT ![p] = IF TableExists(backup) THEN @ \cup {"backup"} ELSE @]
    /\ Go(p, IF "main" \in seen[p] THEN "shape" ELSE "app")
    /\ UNCHANGED <<db, count, left>> /\ Rest

ProbeBackup(p) ==
    /\ step[p] = "backup"
    /\ seen' = [seen EXCEPT ![p] = IF TableExists(backup) THEN @ \cup {"backup"} ELSE @]
    /\ Go(p, IF "main" \in seen[p] THEN "shape"
             ELSE IF TableExists(backup) THEN "create" ELSE "app")
    /\ UNCHANGED <<db, count, left>> /\ Rest

(* The column decides; both tables with dbmate's columns are the state S6, *)
(* which adopt refuses.                                                    *)
ProbeShape(p) ==
    /\ step[p] = "shape"
    /\ Go(p, IF ColumnExists(main)
             THEN IF "backup" \in seen[p] THEN "count" ELSE "goose"
             ELSE IF "backup" \in seen[p] THEN "failed"
             ELSE IF MySQL THEN "rename" ELSE "convert")
    /\ UNCHANGED db /\ Kept

(* Mutant: tables without a tracking table are taken for an installation.  *)
ProbeAppTrusting(p) ==
    /\ step[p] = "app"
    /\ Go(p, IF AnyAppTableExists THEN "table" ELSE "install")
    /\ UNCHANGED db /\ Kept

ProbeApp(p) ==
    /\ step[p] = "app"
    /\ Go(p, IF AnyAppTableExists THEN "failed" ELSE "install")
    /\ UNCHANGED db /\ Kept

Detect(p) == ProbeMain(p) \/ ProbeBackup(p) \/ ProbeShape(p) \/ ProbeApp(p)

-----------------------------------------------------------------------------
(* freshInstall.                                                           *)

(* Schema.Create makes the tables that are missing, in one transaction but *)
(* for MySQL; it may collide with another that does the same.              *)
SchemaCreate(p) ==
    /\ step[p] = "install"
    /\ \/ /\ schema' = Versions /\ Go(p, "table") /\ UNCHANGED <<main, backup>>
       \/ /\ MySQL /\ schema' \in {S \in SUBSET Versions : schema \subseteq S /\ S # schema}
          /\ schema' # Versions /\ UNCHANGED <<main, backup, step>>
       \/ AnyAppTableExists /\ rollout.pods # {p} /\ Fail(p)
    /\ Kept

(* CreateVersionTable of goose's store fails on a table that exists.       *)
CreateVersionTable(p) ==
    /\ step[p] = "table"
    /\ \/ /\ ~TableExists(main)
          /\ main' = Holding("goose", {}) /\ Go(p, "seed")
          /\ left' = [left EXCEPT ![p] = Versions \cup {0}]
          /\ UNCHANGED <<schema, backup>>
       \/ TableExists(main) /\ Fail(p) /\ UNCHANGED left
    /\ UNCHANGED <<seen, count>> /\ Rest

(* The sentinel and the versions of listEmbeddedVersions, a row at a time. *)
Seed(p) ==
    /\ step[p] = "seed"
    /\ LET v == Min(left[p]) IN
       /\ main' = [main EXCEPT !.rows[v] = @ + 1]
       /\ left' = [left EXCEPT ![p] = @ \ {v}]
       /\ Go(p, IF left[p] = {v} THEN "done" ELSE "seed")
    /\ UNCHANGED <<schema, backup, seen, count>> /\ Rest

FreshInstall(p) == SchemaCreate(p) \/ CreateVersionTable(p) \/ Seed(p)

-----------------------------------------------------------------------------
(* adopt.                                                                  *)

(* SQLite and PostgreSQL: one transaction, which fails on a table that has *)
(* no version column any more.                                             *)
AdoptTransactional(p) ==
    /\ step[p] = "convert"
    /\ \/ /\ main.shape = "dbmate"
          /\ main' = Holding("goose", Recorded(main) \cup {0})
          /\ Go(p, "goose") /\ UNCHANGED <<schema, backup>>
       \/ main.shape # "dbmate" /\ Fail(p)
    /\ Kept

(* MySQL, S3: the renaming does not look at the columns.                   *)
Rename(p) ==
    /\ step[p] = "rename"
    /\ \/ /\ TableExists(main) /\ ~TableExists(backup)
          /\ backup' = main /\ main' = NoTable
          /\ Go(p, "create") /\ UNCHANGED schema
       \/ (~TableExists(main) \/ TableExists(backup)) /\ Fail(p)
    /\ Kept

(* S4.                                                                     *)
CreateTable(p) ==
    /\ step[p] = "create"
    /\ \/ /\ ~TableExists(main)
          /\ main' = Holding("goose", {}) /\ Go(p, "sentinel") /\ UNCHANGED <<schema, backup>>
       \/ TableExists(main) /\ Fail(p)
    /\ Kept

(* The sentinel and the copy, in S4 and again in the recovery of S5.       *)
InsertSentinel(p) ==
    /\ step[p] \in {"sentinel", "resentinel"}
    /\ IF ColumnExists(main)
       THEN /\ main' = [main EXCEPT !.rows[0] = @ + 1]
            /\ Go(p, IF step[p] = "sentinel" THEN "copy" ELSE "recopy")
            /\ UNCHANGED <<schema, backup>>
       ELSE Fail(p)
    /\ Kept

Copy(p) ==
    /\ step[p] \in {"copy", "recopy"}
    /\ \/ /\ ColumnExists(main) /\ backup.shape = "dbmate"
          /\ main' = [main EXCEPT !.rows = [v \in DOMAIN @ |-> @[v] + backup.rows[v]]]
          /\ Go(p, IF step[p] = "copy" THEN "count" ELSE "recount")
          /\ UNCHANGED <<schema, backup>>
       \/ ~(ColumnExists(main) /\ backup.shape = "dbmate") /\ Fail(p)
    /\ Kept

(* S5: mysqlAdoptionCounts.                                                *)
CountBackup(p) ==
    /\ step[p] \in {"count", "recount"}
    /\ \/ /\ TableExists(backup)
          /\ count' = [count EXCEPT ![p] = RowCount(backup)]
          /\ Go(p, IF step[p] = "count" THEN "compare" ELSE "recompare") /\ UNCHANGED db
       \/ ~TableExists(backup) /\ Fail(p) /\ UNCHANGED count
    /\ UNCHANGED <<seen, left>> /\ Rest

(* Mutant: the backup is dropped without a look at the copy.               *)
CompareNothing(p) ==
    /\ step[p] \in {"compare", "recompare"}
    /\ TableExists(main) /\ Go(p, "drop") /\ UNCHANGED db
    /\ Kept

(* Without parity the copy is made again; a second time it is an error.    *)
Compare(p) ==
    /\ step[p] \in {"compare", "recompare"}
    /\ Go(p, IF ~TableExists(main) THEN "failed"
             ELSE IF RowCount(main) = count[p] + 1 THEN "drop"
             ELSE IF step[p] = "compare" THEN "truncate" ELSE "failed")
    /\ UNCHANGED db /\ Kept

Truncate(p) ==
    /\ step[p] = "truncate"
    /\ IF TableExists(main)
       THEN /\ main' = [main EXCEPT !.rows = NoRows]
            /\ Go(p, "resentinel") /\ UNCHANGED <<schema, backup>>
       ELSE Fail(p)
    /\ Kept

DropBackup(p) ==
    /\ step[p] = "drop"
    /\ \/ /\ TableExists(backup)
          /\ backup' = NoTable /\ Go(p, "goose") /\ UNCHANGED <<schema, main>>
       \/ ~TableExists(backup) /\ Fail(p)
    /\ Kept

Adopt(p) ==
    \/ AdoptTransactional(p) \/ Rename(p) \/ CreateTable(p) \/ InsertSentinel(p) \/ Copy(p)
    \/ CountBackup(p) \/ Compare(p) \/ Truncate(p) \/ DropBackup(p)

-----------------------------------------------------------------------------
(* runGoose: what the provider's Up does. It asks for the sentinel, makes  *)
(* the table if it is not there, and refuses to apply a version before one *)
(* that is recorded.                                                       *)
GooseBegin(p) ==
    LET pending == Versions \ Recorded(main)
        ordered == \A v \in pending, w \in Recorded(main) : w < v
    IN  /\ step[p] = "goose"
        /\ \/ /\ ColumnExists(main) /\ main.rows[0] > 0 /\ ordered
              /\ left' = [left EXCEPT ![p] = pending]
              /\ Go(p, "apply") /\ UNCHANGED db
           \/ /\ ~TableExists(main)
              /\ main' = Holding("goose", {0}) /\ UNCHANGED <<schema, backup, step, left>>
           \/ /\ TableExists(main) /\ ~(ColumnExists(main) /\ main.rows[0] > 0 /\ ordered)
              /\ Fail(p) /\ UNCHANGED left
        /\ UNCHANGED <<seen, count>> /\ Rest

Inserted(p, v) == main' = [main EXCEPT !.rows[v] = @ + 1] /\ left' = [left EXCEPT ![p] = @ \ {v}]
GooseDone(p) == step[p] = "apply" /\ left[p] = {} /\ Go(p, "done") /\ UNCHANGED db /\ Kept

(* A migration and its record: together, or one after the other where DDL  *)
(* commits by itself or the file says NO TRANSACTION. Most statements fail *)
(* when their change is there already, some do not.                        *)
GooseApply(p) ==
    /\ step[p] = "apply" /\ left[p] # {}
    /\ LET v == Min(left[p]) IN
       \/ /\ schema' = schema \cup {v}
          /\ IF MySQL \/ v \in rollout.plain
             THEN Go(p, "record") /\ UNCHANGED <<main, left>>
             ELSE Inserted(p, v) /\ UNCHANGED step
          /\ UNCHANGED backup
       \/ v \in schema /\ Fail(p) /\ UNCHANGED left
    /\ UNCHANGED <<seen, count>> /\ Rest

GooseRecord(p) ==
    /\ step[p] = "record"
    /\ IF ColumnExists(main)
       THEN Inserted(p, Min(left[p])) /\ Go(p, "apply") /\ UNCHANGED <<schema, backup>>
       ELSE Fail(p) /\ UNCHANGED left
    /\ UNCHANGED <<seen, count>> /\ Rest

RunGoose(p) == GooseBegin(p) \/ GooseApply(p) \/ GooseRecord(p) \/ GooseDone(p)

-----------------------------------------------------------------------------
(* The process dies, or a statement fails, which ends it as well.          *)
Crash(p) ==
    /\ crashes < rollout.crashes /\ step[p] \notin {"off", "done", "failed"}
    /\ crashes' = crashes + 1 /\ Go(p, "failed")
    /\ torn' = (torn \/ step[p] = "record")
    /\ UNCHANGED <<rollout, db, local>>

(* The container, or its operator, starts it again.                        *)
Restart(p) ==
    /\ step[p] = "failed" /\ Go(p, "main")
    /\ seen' = [seen EXCEPT ![p] = {}] /\ count' = [count EXCEPT ![p] = 0]
    /\ left' = [left EXCEPT ![p] = {}]
    /\ UNCHANGED db /\ Rest

Up(p) == Detect(p) \/ FreshInstall(p) \/ Adopt(p) \/ RunGoose(p)

MigrateNext == \E p \in Pods : Up(p) \/ Crash(p) \/ Restart(p)

MigrateSpec == MigrateInit /\ [][MigrateNext]_mvars

(* A run goes on, and one that failed is started again.                    *)
MigrateFairSpec == MigrateSpec /\ \A p \in Pods : WF_mvars(Up(p) \/ Restart(p))

-----------------------------------------------------------------------------
TypeOK ==
    /\ rollout \in Rollouts /\ schema \subseteq Versions
    /\ main \in Table /\ backup \in Table
    /\ step \in [Pods -> STRING] /\ seen \in [Pods -> SUBSET {"main", "backup"}]
    /\ count \in [Pods -> Nat] /\ left \in [Pods -> SUBSET (Versions \cup {0})]
    /\ crashes \in 0 .. rollout.crashes /\ torn \in BOOLEAN

(* One pod at a time, or a database whose DDL is transactional.            *)
Serial == Cardinality(rollout.pods) = 1 \/ ~MySQL

(* Adoption preserves all version records: wherever a run is cut off, each *)
(* version recorded at first is in the tracking table or in the backup the *)
(* next run returns to.                                                    *)
VersionsKept == Serial => rollout.old \subseteq Recorded(main) \cup Recorded(backup)

(* A run that reports success leaves every migration recorded and in the   *)
(* schema, whatever state an earlier run, or one beside it, left behind.   *)
DoneMeansCurrent ==
    Serial /\ (\E p \in Pods : step[p] = "done") =>
        schema = Versions /\ Recorded(main) = Versions

(* Detect recognises every state a run can be cut off in, so that the runs *)
(* that follow finish the upgrade: of an installation without crashes, of  *)
(* an adoption with any, and with pods beside each other. (A crash between *)
(* a migration and its record is goose's, and stays.)                      *)
Upgraded ==
    Serial /\ (rollout.start = "empty" => rollout.crashes = 0) =>
        <>torn \/ <>[](\A p \in rollout.pods : step[p] = "done")

(* The same of pods beside each other on MySQL. Not so in the code         *)
(* (README, section 3).                                                    *)
RecordsPreserved == rollout.old \subseteq Recorded(main) \cup Recorded(backup)
=============================================================================
