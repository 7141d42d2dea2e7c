-------------------------- MODULE AuditLogMigration --------------------------
(***************************************************************************)
(* The alembic revision 18d8eddd6be5 (add audit_logs table) run against    *)
(* PostgreSQL.  upgrade() and downgrade() are sequences of DDL operations; *)
(* one step of the model is one operation.  Alembic runs a revision in one *)
(* transaction and PostgreSQL DDL is transactional, so an operation that   *)
(* fails, or a crash of the migrating process, rolls the schema back to    *)
(* what it was when the command began and leaves the version unchanged.    *)
(* The schema is abstracted to what these operations touch: the table, the *)
(* enum type its `action' column creates, and its indexes, each named by   *)
(* the column it indexes.                                                  *)
(***************************************************************************)
EXTENDS Naturals, Sequences

CONSTANT MaxRuns   \* how many alembic commands the operator issues

ASSUME MaxRunsAssumption == MaxRuns \in Nat

Revision == "18d8eddd6be5"
DownRevision == "81c264528f20"
AuditLogs == "audit_logs"
AuditAction == "auditlogs_action"

\* The indexed columns, in the order upgrade() creates their indexes.
IndexedColumns ==
    <<"access_key", "action", "created_at", "email", "target", "user_id">>

Column == {IndexedColumns[j] : j \in 1..6}

\* Mutant: the create_index of one column is missing.
UpgradeOps_missing_index ==
    <<[op |-> "create_table", col |-> AuditLogs]>>
    \o [j \in 1..5 |-> [op |-> "create_index", col |-> IndexedColumns[j]]]

\* upgrade(): create_table, then one create_index per column.
UpgradeOps ==
    <<[op |-> "create_table", col |-> AuditLogs]>>
    \o [j \in 1..6 |-> [op |-> "create_index", col |-> IndexedColumns[j]]]

\* downgrade(): the indexes dropped in reverse order, then drop_table.
DowngradeOps ==
    [j \in 1..6 |-> [op |-> "drop_index", col |-> IndexedColumns[7 - j]]]
    \o <<[op |-> "drop_table", col |-> AuditLogs]>>

VARIABLES
    version,  \* the revision recorded in alembic_version
    tables,   \* the tables of the schema this revision touches
    types,    \* the PostgreSQL enum types
    indexes,  \* the columns of audit_logs that carry an index
    cmd,      \* "none", or the command in progress: "upgrade", "downgrade"
    k,        \* the index of the operation the command executes next
    saved,    \* the schema when the command's transaction began
    runs      \* the commands issued so far

vars == <<version, tables, types, indexes, cmd, k, saved, runs>>

Schema == [tables : SUBSET {AuditLogs}, types : SUBSET {AuditAction},
           indexes : SUBSET Column]

TypeOK ==
    /\ version \in {Revision, DownRevision}
    /\ tables \subseteq {AuditLogs}
    /\ types \subseteq {AuditAction}
    /\ indexes \subseteq Column
    /\ cmd \in {"none", "upgrade", "downgrade"}
    /\ k \in 1..8
    /\ saved \in Schema
    /\ runs \in 0..MaxRuns

\* The database at the previous revision: nothing of audit_logs exists.
Init ==
    /\ version = DownRevision
    /\ tables = {}
    /\ types = {}
    /\ indexes = {}
    /\ cmd = "none"
    /\ k = 1
    /\ saved = [tables |-> {}, types |-> {}, indexes |-> {}]
    /\ runs = 0

Ops(c) == IF c = "upgrade" THEN UpgradeOps ELSE DowngradeOps

\* The operation the command in progress executes next.
Current == Ops(cmd)[k]

Running(o) == cmd # "none" /\ k <= Len(Ops(cmd)) /\ Current.op = o

Begin(c) ==
    /\ cmd = "none"
    /\ runs < MaxRuns
    /\ cmd' = c
    /\ k' = 1
    /\ saved' = [tables |-> tables, types |-> types, indexes |-> indexes]
    /\ runs' = runs + 1
    /\ UNCHANGED <<version, tables, types, indexes>>

\* alembic upgrade: runs upgrade() when the database is at down_revision.
BeginUpgrade == version = DownRevision /\ Begin("upgrade")

\* alembic downgrade: runs downgrade() when the database is at revision.
BeginDowngrade == version = Revision /\ Begin("downgrade")

\* op.create_table: the table's before_create event issues CREATE TYPE for
\* the sa.Enum column (without checking whether it exists), then CREATE
\* TABLE.
CreateTable ==
    /\ Running("create_table")
    /\ AuditAction \notin types
    /\ AuditLogs \notin tables
    /\ types' = types \cup {AuditAction}
    /\ tables' = tables \cup {AuditLogs}
    /\ k' = k + 1
    /\ UNCHANGED <<version, indexes, cmd, saved, runs>>

\* op.create_index on audit_logs.
CreateIndex ==
    /\ Running("create_index")
    /\ AuditLogs \in tables
    /\ Current.col \notin indexes
    /\ indexes' = indexes \cup {Current.col}
    /\ k' = k + 1
    /\ UNCHANGED <<version, tables, types, cmd, saved, runs>>

\* op.drop_index.
DropIndex ==
    /\ Running("drop_index")
    /\ Current.col \in indexes
    /\ indexes' = indexes \ {Current.col}
    /\ k' = k + 1
    /\ UNCHANGED <<version, tables, types, cmd, saved, runs>>

\* op.drop_table: alembic builds a Table without columns, so DROP TABLE
\* removes the table and its indexes and no event drops the enum type.
DropTable ==
    /\ Running("drop_table")
    /\ AuditLogs \in tables
    /\ tables' = tables \ {AuditLogs}
    /\ indexes' = {}
    /\ k' = k + 1
    /\ UNCHANGED <<version, types, cmd, saved, runs>>

\* Whether the next operation succeeds on the current schema.
Applicable ==
    CASE Current.op = "create_table" ->
             AuditAction \notin types /\ AuditLogs \notin tables
      [] Current.op = "create_index" ->
             AuditLogs \in tables /\ Current.col \notin indexes
      [] Current.op = "drop_index" -> Current.col \in indexes
      [] Current.op = "drop_table" -> AuditLogs \in tables

\* Mutant: the schema changes already made are kept.
Rollback_none ==
    /\ cmd' = "none"
    /\ UNCHANGED <<version, tables, types, indexes, k, saved, runs>>

\* The transaction is rolled back: the schema is what it was when the
\* command began, and alembic_version is not updated.
Rollback ==
    /\ tables' = saved.tables
    /\ types' = saved.types
    /\ indexes' = saved.indexes
    /\ cmd' = "none"
    /\ UNCHANGED <<version, k, saved, runs>>

\* The next operation raises (DuplicateObject, UndefinedTable, ...): the
\* command fails.
OpFails ==
    /\ cmd # "none"
    /\ k <= Len(Ops(cmd))
    /\ ~Applicable
    /\ Rollback

\* The migrating process or its connection dies in the middle of the command.
Crash ==
    /\ cmd # "none"
    /\ Rollback

\* Every operation done: alembic records the new revision and commits.
Commit ==
    /\ cmd # "none"
    /\ k = Len(Ops(cmd)) + 1
    /\ version' = IF cmd = "upgrade" THEN Revision ELSE DownRevision
    /\ cmd' = "none"
    /\ UNCHANGED <<tables, types, indexes, k, saved, runs>>

Next ==
    \/ BeginUpgrade \/ BeginDowngrade
    \/ CreateTable \/ CreateIndex \/ DropIndex \/ DropTable
    \/ OpFails \/ Crash \/ Commit

Spec == Init /\ [][Next]_vars

-----------------------------------------------------------------------------
(* Properties.                                                             *)

\* Whatever commands ran, failed or were cut short by a crash, whenever no
\* command is in progress the schema is the one alembic_version names:
\* audit_logs exists exactly at revision 18d8eddd6be5, with an index on
\* each of its six columns and its enum type, and no index of it exists
\* otherwise (spec 4.9 and 8.9, as far as table and indexes go).
IdleSchemaMatchesVersion ==
    cmd = "none" =>
        /\ (version = Revision) = (AuditLogs \in tables)
        /\ indexes = IF AuditLogs \in tables THEN Column ELSE {}
        /\ version = Revision => AuditAction \in types

\* Spec 8.9: upgrade then downgrade leaves the schema in its pre-upgrade
\* state; at down_revision nothing that upgrade() created remains.
RoundTripRestoresSchema ==
    cmd = "none" /\ version = DownRevision =>
        tables = {} /\ indexes = {} /\ types = {}

=============================================================================
