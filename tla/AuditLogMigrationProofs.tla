----------------------- MODULE AuditLogMigrationProofs -----------------------
(***************************************************************************)
(* IdleSchemaMatchesVersion holds for any number of alembic commands, any  *)
(* of which may fail or crash.  It is not inductive as it stands: in the   *)
(* middle of a command the schema is partly migrated.  The strengthening   *)
(* MigInv says what the schema is after each prefix of upgrade() and of    *)
(* downgrade(), and that the schema saved when the command began is the    *)
(* one alembic_version names, which is what a rollback restores.           *)
(***************************************************************************)
EXTENDS AuditLogMigration, SequenceTheorems, TLAPS

\* The schema t, i, ty is the one revision v names.
Consistent(v, t, i, ty) ==
    /\ (v = Revision) = (AuditLogs \in t)
    /\ i = IF AuditLogs \in t THEN Column ELSE {}
    /\ v = Revision => AuditAction \in ty

\* The indexes on the first n columns of IndexedColumns.
FirstIndexes(n) == {IndexedColumns[j] : j \in 1..n}

MigInv ==
    /\ TypeOK
    /\ cmd = "none" => Consistent(version, tables, indexes, types)
    /\ cmd # "none" =>
           Consistent(version, saved.tables, saved.indexes, saved.types)
    /\ cmd = "upgrade" =>
           /\ version = DownRevision
           /\ k = 1 => /\ tables = saved.tables
                       /\ indexes = saved.indexes
                       /\ types = saved.types
           /\ k >= 2 => /\ tables = {AuditLogs}
                        /\ AuditAction \in types
                        /\ indexes = FirstIndexes(k - 2)
    /\ cmd = "downgrade" =>
           /\ version = Revision
           /\ AuditAction \in types
           /\ k <= 7 => tables = {AuditLogs} /\ indexes = FirstIndexes(7 - k)
           /\ k = 8 => tables = {} /\ indexes = {}

-----------------------------------------------------------------------------
(* The operation sequences.                                                *)

LEMMA UpgradeOpsAt ==
    /\ Len(UpgradeOps) = 7
    /\ UpgradeOps[1] = [op |-> "create_table", col |-> AuditLogs]
    /\ \A j \in 2..7 :
          UpgradeOps[j] = [op |-> "create_index", col |-> IndexedColumns[j - 1]]
BY DEF UpgradeOps

LEMMA DowngradeOpsAt ==
    /\ Len(DowngradeOps) = 7
    /\ \A j \in 1..6 :
          DowngradeOps[j] = [op |-> "drop_index", col |-> IndexedColumns[7 - j]]
    /\ DowngradeOps[7] = [op |-> "drop_table", col |-> AuditLogs]
BY DEF DowngradeOps

LEMMA LenOps == \A c \in {"upgrade", "downgrade"} : Len(Ops(c)) = 7
BY UpgradeOpsAt, DowngradeOpsAt DEF Ops

\* A command runs one of its seven operations.
LEMMA RunningAt ==
    ASSUME TypeOK, NEW o, Running(o)
    PROVE  cmd \in {"upgrade", "downgrade"} /\ k \in 1..7 /\ Current.op = o
<1>1. cmd \in {"upgrade", "downgrade"}
    BY DEF TypeOK, Running
<1>2. Len(Ops(cmd)) = 7
    BY <1>1, LenOps
<1>3. QED
    BY <1>1, <1>2 DEF TypeOK, Running

\* What the j-th operation of each command is.
LEMMA OpAt ==
    ASSUME NEW c \in {"upgrade", "downgrade"}, NEW j \in 1..7
    PROVE  /\ Len(Ops(c)) = 7
           /\ (Ops(c)[j].op = "create_table") <=> (c = "upgrade" /\ j = 1)
           /\ (Ops(c)[j].op = "create_index") <=> (c = "upgrade" /\ j \in 2..7)
           /\ (Ops(c)[j].op = "drop_index") <=> (c = "downgrade" /\ j \in 1..6)
           /\ (Ops(c)[j].op = "drop_table") <=> (c = "downgrade" /\ j = 7)
           /\ c = "upgrade" /\ j \in 2..7 => Ops(c)[j].col = IndexedColumns[j - 1]
           /\ c = "downgrade" /\ j \in 1..6 => Ops(c)[j].col = IndexedColumns[7 - j]
<1>1. CASE c = "upgrade" /\ j = 1
    BY <1>1, UpgradeOpsAt DEF Ops
<1>2. CASE c = "upgrade" /\ j \in 2..7
    BY <1>2, UpgradeOpsAt DEF Ops
<1>3. CASE c = "downgrade" /\ j \in 1..6
    BY <1>3, DowngradeOpsAt DEF Ops
<1>4. CASE c = "downgrade" /\ j = 7
    BY <1>4, DowngradeOpsAt DEF Ops
<1>5. QED
    BY <1>1, <1>2, <1>3, <1>4

LEMMA FirstIndexesAll == FirstIndexes(6) = Column /\ FirstIndexes(0) = {}
BY DEF FirstIndexes, Column

LEMMA FirstIndexesGrow ==
    ASSUME NEW n \in 0..5
    PROVE  FirstIndexes(n) \cup {IndexedColumns[n + 1]} = FirstIndexes(n + 1)
BY DEF FirstIndexes

\* The six columns are distinct, so dropping the last index of a prefix
\* leaves the shorter prefix.
LEMMA FirstIndexesShrink ==
    ASSUME NEW n \in 1..6
    PROVE  FirstIndexes(n) \ {IndexedColumns[n]} = FirstIndexes(n - 1)
BY DEF FirstIndexes, IndexedColumns

-----------------------------------------------------------------------------
(* The inductive invariant.                                                *)

LEMMA MigInit == Init => MigInv
BY MaxRunsAssumption, FirstIndexesAll
DEF Init, MigInv, TypeOK, Consistent, Schema, Revision, DownRevision

LEMMA MigStep == MigInv /\ [Next]_vars => MigInv'
<1> SUFFICES ASSUME MigInv, [Next]_vars PROVE MigInv'
    OBVIOUS
<1> USE DEF MigInv, TypeOK, Revision, DownRevision, AuditLogs, AuditAction
<1>1. CASE BeginUpgrade
    <2>1. tables = {} /\ indexes = {} /\ cmd = "none" /\ version = DownRevision
        BY <1>1 DEF BeginUpgrade, Begin, Consistent
    <2>2. saved' \in Schema
        BY <1>1 DEF BeginUpgrade, Begin, Schema
    <2>3. TypeOK'
        <3>1. runs' \in 0..MaxRuns /\ k' \in 1..8
            BY <1>1, MaxRunsAssumption DEF BeginUpgrade, Begin
        <3>2. cmd' \in {"none", "upgrade", "downgrade"}
            BY <1>1 DEF BeginUpgrade, Begin
        <3>3. UNCHANGED <<version, tables, types, indexes>>
            BY <1>1 DEF BeginUpgrade, Begin
        <3>4. QED
            BY <2>2, <3>1, <3>2, <3>3
    <2>4. QED
        BY <1>1, <2>1, <2>3 DEF BeginUpgrade, Begin, Consistent
<1>2. CASE BeginDowngrade
    <2>1. /\ tables = {AuditLogs} /\ indexes = FirstIndexes(6)
          /\ AuditAction \in types /\ cmd = "none" /\ version = Revision
        BY <1>2, FirstIndexesAll DEF BeginDowngrade, Begin, Consistent
    <2>2. saved' \in Schema
        BY <1>2 DEF BeginDowngrade, Begin, Schema
    <2>3. TypeOK'
        <3>1. runs' \in 0..MaxRuns /\ k' \in 1..8
            BY <1>2, MaxRunsAssumption DEF BeginDowngrade, Begin
        <3>2. cmd' \in {"none", "upgrade", "downgrade"}
            BY <1>2 DEF BeginDowngrade, Begin
        <3>3. UNCHANGED <<version, tables, types, indexes>>
            BY <1>2 DEF BeginDowngrade, Begin
        <3>4. QED
            BY <2>2, <3>1, <3>2, <3>3
    <2>4. QED
        BY <1>2, <2>1, <2>3 DEF BeginDowngrade, Begin, Consistent
<1>3. CASE CreateTable
    <2>0. Running("create_table")
        BY <1>3 DEF CreateTable
    <2>1. cmd \in {"upgrade", "downgrade"} /\ k \in 1..7
          /\ Current.op = "create_table"
        BY <2>0, RunningAt
    <2>2. cmd = "upgrade" /\ k = 1
        BY <2>1, OpAt DEF Current
    <2>3. tables' = {AuditLogs} /\ indexes' = FirstIndexes(0)
          /\ AuditAction \in types'
        BY <1>3, <2>2, FirstIndexesAll DEF CreateTable, Consistent
    <2>4. QED
        BY <1>3, <2>2, <2>3 DEF CreateTable
<1>4. CASE CreateIndex
    <2>0. Running("create_index")
        BY <1>4 DEF CreateIndex
    <2>1. cmd \in {"upgrade", "downgrade"} /\ k \in 1..7
          /\ Current.op = "create_index"
        BY <2>0, RunningAt
    <2>2. cmd = "upgrade" /\ k \in 2..7 /\ Current.col = IndexedColumns[k - 1]
        BY <2>1, OpAt DEF Current
    <2>3. indexes' = FirstIndexes(k - 1)
        BY <1>4, <2>2, FirstIndexesGrow DEF CreateIndex
    <2>4. IndexedColumns[k - 1] \in Column
        BY <2>2 DEF Column
    <2>5. TypeOK'
        BY <1>4, <2>2, <2>4 DEF CreateIndex
    <2>6. QED
        BY <1>4, <2>2, <2>3, <2>5 DEF CreateIndex
<1>5. CASE DropIndex
    <2>0. Running("drop_index")
        BY <1>5 DEF DropIndex
    <2>1. cmd \in {"upgrade", "downgrade"} /\ k \in 1..7
          /\ Current.op = "drop_index"
        BY <2>0, RunningAt
    <2>2. cmd = "downgrade" /\ k \in 1..6 /\ Current.col = IndexedColumns[7 - k]
        BY <2>1, OpAt DEF Current
    <2>3. indexes' = FirstIndexes(7 - (k + 1))
        BY <1>5, <2>2, FirstIndexesShrink DEF DropIndex
    <2>4. QED
        BY <1>5, <2>2, <2>3 DEF DropIndex
<1>6. CASE DropTable
    <2>0. Running("drop_table")
        BY <1>6 DEF DropTable
    <2>1. cmd \in {"upgrade", "downgrade"} /\ k \in 1..7
          /\ Current.op = "drop_table"
        BY <2>0, RunningAt
    <2>2. cmd = "downgrade" /\ k = 7
        BY <2>1, OpAt DEF Current
    <2>3. QED
        BY <1>6, <2>2 DEF DropTable
<1>7. CASE OpFails \/ Crash
    <2>1. Rollback /\ cmd # "none"
        BY <1>7 DEF OpFails, Crash
    <2>2. QED
        BY <2>1 DEF Rollback, Schema
<1>8. CASE Commit
    <2>0. cmd # "none" /\ k = Len(Ops(cmd)) + 1
        BY <1>8 DEF Commit
    <2>1. cmd \in {"upgrade", "downgrade"}
        BY <2>0
    <2>2. k = 8
        <3>1. Len(Ops(cmd)) = 7
            BY <2>1, LenOps
        <3>2. QED
            BY <2>0, <3>1
    <2>3. CASE cmd = "upgrade"
        BY <1>8, <2>2, <2>3, FirstIndexesAll DEF Commit, Consistent
    <2>4. CASE cmd = "downgrade"
        BY <1>8, <2>2, <2>4 DEF Commit, Consistent
    <2>5. QED
        BY <2>1, <2>3, <2>4
<1>9. CASE UNCHANGED vars
    BY <1>9 DEF vars, Consistent
<1>10. QED
    BY <1>1, <1>2, <1>3, <1>4, <1>5, <1>6, <1>7, <1>8, <1>9 DEF Next

\* Whatever alembic commands are issued, and whichever of them fail on the
\* schema or are cut short by a crash, whenever none is in progress the
\* audit_logs table, its six indexes and its enum type are present exactly
\* as alembic_version says: the property the run MC_AuditLogMigration
\* checks, for any number of commands.
THEOREM SchemaMatchesVersion == Spec => []IdleSchemaMatchesVersion
<1>1. MigInv => IdleSchemaMatchesVersion
    BY DEF MigInv, Consistent, IdleSchemaMatchesVersion
<1>2. QED
    BY MigInit, MigStep, <1>1, PTL DEF Spec

=============================================================================
