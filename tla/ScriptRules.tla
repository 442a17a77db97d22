----------------------------- MODULE ScriptRules -----------------------------
(***************************************************************************)
(* What Zapadka makes of a migration's SQL: how a parsed statement is      *)
(* classified, which statements a script may not hold, and which risks it  *)
(* is told about.                                                          *)
(*                                                                         *)
(* A parse-tree node is a record with its type in "node" and the upstream  *)
(* fields that are not zero: the parser leaves the others out.             *)
(***************************************************************************)
EXTENDS Naturals, Sequences, TLC

(***************************************************************************)
(* Reading a node.                                                         *)
(***************************************************************************)
Flag(body, key) == key \in DOMAIN body /\ body[key]

Text(body, key) == IF key \in DOMAIN body THEN body[key] ELSE "none"

Items(body, key) == IF key \in DOMAIN body THEN body[key] ELSE <<>>

(***************************************************************************)
(* Classification.                                                         *)
(***************************************************************************)

\* The statements that only ever fail inside a transaction block.
Constructs ==
    [CreatedbStmt |-> "CREATE DATABASE", DropdbStmt |-> "DROP DATABASE",
     CreateTableSpaceStmt |-> "CREATE TABLESPACE",
     DropTableSpaceStmt |-> "DROP TABLESPACE",
     AlterSystemStmt |-> "ALTER SYSTEM", DiscardStmt |-> "DISCARD"]

Operations ==
    [TRANS_STMT_BEGIN |-> "Begin", TRANS_STMT_START |-> "Begin",
     TRANS_STMT_COMMIT |-> "Commit", TRANS_STMT_ROLLBACK |-> "Rollback",
     TRANS_STMT_SAVEPOINT |-> "Savepoint", TRANS_STMT_RELEASE |-> "ReleaseSavepoint",
     TRANS_STMT_ROLLBACK_TO |-> "RollbackToSavepoint",
     TRANS_STMT_PREPARE |-> "PrepareTransaction",
     TRANS_STMT_COMMIT_PREPARED |-> "CommitPrepared",
     TRANS_STMT_ROLLBACK_PREPARED |-> "RollbackPrepared"]

\* A statement of a kind not known yet is still transaction control.
Operation(body) ==
    IF body.kind \in DOMAIN Operations THEN Operations[body.kind] ELSE "Begin"

Setting ==
    ("TRANSACTION" :> "SetTransaction") @@ ("SESSION CHARACTERISTICS" :> "SetSessionCharacteristics")

Objects ==
    [OBJECT_TABLE |-> "Table", OBJECT_INDEX |-> "Index", OBJECT_VIEW |-> "View",
     OBJECT_MATVIEW |-> "MaterializedView", OBJECT_SEQUENCE |-> "Sequence",
     OBJECT_SCHEMA |-> "Schema", OBJECT_COLUMN |-> "Column"]

Object(type) == IF type \in DOMAIN Objects THEN Objects[type] ELSE "Other"

ConstraintKinds ==
    [CONSTR_PRIMARY |-> "PrimaryKey", CONSTR_UNIQUE |-> "Unique",
     CONSTR_FOREIGN |-> "ForeignKey", CONSTR_CHECK |-> "Check",
     CONSTR_NOTNULL |-> "NotNull", CONSTR_EXCLUSION |-> "Exclusion"]

ConstraintKind(type) ==
    IF type \in DOMAIN ConstraintKinds THEN ConstraintKinds[type] ELSE "Other"

\* A default is the one given by the column's first DEFAULT constraint.
DefaultCallsFunction(column) ==
    LET given == SelectSeq(Items(column, "constraints"), LAMBDA c : Text(c, "contype") = "CONSTR_DEFAULT")
    IN  given # <<>> /\ Flag(Head(given), "calls_function")

Action(cmd) ==
    CASE cmd.subtype = "AT_AddColumn" ->
            [is |-> "AddColumn", default_calls_function |-> DefaultCallsFunction(cmd)]
      [] cmd.subtype = "AT_AddConstraint" ->
            [is |-> "AddConstraint", kind |-> ConstraintKind(Text(cmd, "contype")),
             not_valid |-> Flag(cmd, "skip_validation")]
      [] cmd.subtype = "AT_DropColumn" -> [is |-> "DropColumn"]
      [] cmd.subtype = "AT_AlterColumnType" -> [is |-> "AlterColumnType"]
      [] cmd.subtype = "AT_SetNotNull" -> [is |-> "SetNotNull"]
      [] OTHER -> [is |-> "Other"]

Kind(n) ==
    CASE n.node = "TransactionStmt" /\ "kind" \in DOMAIN n ->
            [is |-> "TransactionControl", operation |-> Operation(n)]
      [] n.node = "VariableSetStmt" /\ Text(n, "name") \in DOMAIN Setting ->
            [is |-> "TransactionControl", operation |-> Setting[n.name]]
      [] n.node = "IndexStmt" -> [is |-> "CreateIndex", concurrent |-> Flag(n, "concurrent")]
      [] n.node = "DropStmt" ->
            [is |-> "Drop", object |-> Object(Text(n, "removeType")),
             concurrent |-> Flag(n, "concurrent")]
      [] n.node = "AlterTableStmt" ->
            [is |-> "AlterTable",
             actions |-> {Action(Items(n, "cmds")[i]) : i \in DOMAIN Items(n, "cmds")}]
      [] n.node = "RenameStmt" -> [is |-> "Rename"]
      [] n.node = "TruncateStmt" -> [is |-> "Truncate"]
      [] n.node = "VacuumStmt" /\ Flag(n, "is_vacuumcmd") -> [is |-> "Vacuum"]
      [] n.node \in DOMAIN Constructs -> [is |-> "NonTransactional", construct |-> Constructs[n.node]]
      [] n.node = "ReindexStmt" ->
            [is |-> "Reindex", concurrent |-> \E i \in DOMAIN Items(n, "params") :
                                                 n.params[i] = "concurrently"]
      [] OTHER -> [is |-> "Other"]

(***************************************************************************)
(* What a kind of statement means to the runner.                           *)
(***************************************************************************)
IsTransactionControl(k) == k.is = "TransactionControl"

\* Mutant: VACUUM is forgotten.
ForbiddenButVacuum(k) ==
    \/ k.is = "NonTransactional"
    \/ k.is \in {"CreateIndex", "Reindex"} /\ k.concurrent
    \/ k.is = "Drop" /\ k.object = "Index" /\ k.concurrent

ForbiddenInTransaction(k) ==
    \/ k.is \in {"Vacuum", "NonTransactional"}
    \/ k.is \in {"CreateIndex", "Reindex"} /\ k.concurrent
    \/ k.is = "Drop" /\ k.object = "Index" /\ k.concurrent

\* Mutant: any single statement will do.
BreaksNothing(k) == FALSE

BreaksRunnerSession(k) == k.is = "NonTransactional" /\ k.construct = "DISCARD"

\* Mutant: what a schema holds is forgotten.
DataBearingTables == {"Table", "MaterializedView", "Sequence", "Column"}

DataBearing == {"Table", "MaterializedView", "Sequence", "Schema", "Column"}

ScansExistingRows == {"PrimaryKey", "Unique", "ForeignKey", "Check", "Exclusion"}

(***************************************************************************)
(* Warnings.  Each is the lint code of a risk.                             *)
(***************************************************************************)
AlterRisks(a) ==
    CASE a.is = "DropColumn" -> {"destructive"}
      [] a.is = "AlterColumnType" -> {"table_rewrite"}
      [] a.is = "AddColumn" /\ a.default_calls_function -> {"table_rewrite"}
      [] a.is = "SetNotNull" -> {"constraint_scans_table"}
      [] a.is = "AddConstraint" /\ ~a.not_valid /\ a.kind \in ScansExistingRows ->
            {"constraint_scans_table"}
      [] OTHER -> {}

Risks(k) ==
    CASE k.is = "Drop" /\ k.object \in DataBearing -> {"destructive"}
      [] k.is = "Truncate" -> {"destructive"}
      [] k.is = "CreateIndex" /\ ~k.concurrent -> {"index_without_concurrently"}
      [] k.is = "Rename" -> {"compatibility_window"}
      [] k.is = "AlterTable" -> UNION {AlterRisks(a) : a \in k.actions}
      [] OTHER -> {}

(***************************************************************************)
(* A script is a text that parses to a sequence of nodes, or does not.     *)
(***************************************************************************)
Kinds(script) == {Kind(script.body[i]) : i \in DOMAIN script.body}

RunsNothing(script) == script.parses /\ script.body = <<>>

\* ensure_runner_owns_transaction
RunnerOwnsTransaction(script) ==
    script.parses /\ \A k \in Kinds(script) : ~IsTransactionControl(k)

ModeErrors(mode, script) ==
    IF mode = "required"
    THEN {e \in {"ScriptStatementCount"} : \E k \in Kinds(script) : ForbiddenInTransaction(k)}
    ELSE {e \in {"ScriptStatementCount"} : Len(script.body) # 1}
            \cup {e \in {"ExecutionModeUnsupported"} :
                    /\ Len(script.body) = 1
                    /\ \E k \in Kinds(script) : BreaksRunnerSession(k) \/ ~ForbiddenInTransaction(k)}

\* Everything that fails the command, whatever the project's policy.
ScriptErrors(role, mode, script) ==
    CASE RunsNothing(script) -> {e \in {"ScriptEmpty"} : role = "verify"}
      [] ~script.parses -> {"ScriptParseError"}
      [] OTHER -> {e \in {"ScriptTransactionControl"} :
                        \E k \in Kinds(script) : IsTransactionControl(k)}
                    \cup ModeErrors(mode, script)

\* Where each risk is: the statement's place, and the code.
Warnings(role, script) ==
    IF RunsNothing(script) THEN IF role = "verify" THEN {} ELSE {<<0, "empty_script">>}
    ELSE UNION {{<<i, c>> : c \in Risks(Kind(script.body[i]))} :
                i \in {j \in DOMAIN script.body : script.parses /\ role = "deploy"}}

\* A reason given in the migration counts for more than the project's policy.
Severity(code, allow, deny) ==
    CASE code \in allow -> "note"
      [] code \in deny \ allow -> "error"
      [] OTHER -> "warning"

===============================================================================
