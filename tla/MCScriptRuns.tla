----------------------------- MODULE MCScriptRuns -----------------------------
(* A script for every kind of statement that is treated in a way of its own. *)
EXTENDS ScriptRuns

Node(type) == [node |-> type]
Control(kind) == [node |-> "TransactionStmt", kind |-> kind]
Set(name) == [node |-> "VariableSetStmt", name |-> name]
Alter(action) == [node |-> "AlterTableStmt", cmds |-> <<action>>]
Drop(type) == [node |-> "DropStmt", removeType |-> type]

Insert == Node("InsertStmt")
Select == Node("SelectStmt")
Nextval == [node |-> "SelectStmt", nextval |-> TRUE]
Index == Node("IndexStmt")
IndexConcurrently == [node |-> "IndexStmt", concurrent |-> TRUE]
DropIndexConcurrently == Drop("OBJECT_INDEX") @@ [concurrent |-> TRUE]
Vacuum == [node |-> "VacuumStmt", is_vacuumcmd |-> TRUE]
ReindexConcurrently == [node |-> "ReindexStmt", params |-> <<"concurrently">>]

Volatile == [contype |-> "CONSTR_DEFAULT", calls_function |-> TRUE]

Altering ==
    {Alter([subtype |-> "AT_DropColumn"]), Alter([subtype |-> "AT_SetNotNull"]),
     Alter([subtype |-> "AT_AlterColumnType"]), Alter([subtype |-> "AT_AddIdentity"]),
     Alter([subtype |-> "AT_AddColumn", constraints |-> <<Volatile>>]),
     Alter([subtype |-> "AT_AddConstraint", contype |-> "CONSTR_FOREIGN", skip_validation |-> TRUE]),
     Alter([subtype |-> "AT_AddConstraint", contype |-> "CONSTR_CHECK"])}

MCRefusedInBlock ==
    {IndexConcurrently, DropIndexConcurrently, Vacuum, ReindexConcurrently,
     Node("ReindexStmt"), Node("DropdbStmt"), Node("AlterSystemStmt"), Node("DiscardStmt")}

Single ==
    MCRefusedInBlock \cup Altering \cup
    {Insert, Nextval, Index, Node("VacuumStmt"), Node("RenameStmt"), Node("TruncateStmt"),
     Drop("OBJECT_TABLE"), Drop("OBJECT_SCHEMA"), Drop("OBJECT_VIEW"),
     Control("TRANS_STMT_COMMIT"), Set("TRANSACTION"), Set("work_mem")}

Several ==
    {<<Insert, Control("TRANS_STMT_COMMIT")>>, <<Control("TRANS_STMT_ROLLBACK"), Insert>>,
     <<Insert, Drop("OBJECT_TABLE")>>, <<Insert, IndexConcurrently>>, <<Vacuum, Vacuum>>}

Parsed(body) == [parses |-> TRUE, body |-> body]
Unparsed == [parses |-> FALSE, body |-> <<Insert>>]
Empty == Parsed(<<>>)

Escaping == Parsed(<<Insert, Control("TRANS_STMT_COMMIT"), Insert>>)

MCScripts ==
    [deploy |-> {Unparsed, Empty} \cup {Parsed(<<n>>) : n \in Single} \cup {Parsed(b) : b \in Several},
     verify |-> {Unparsed, Empty, Parsed(<<Select>>), Parsed(<<Nextval>>), Escaping,
                 Parsed(<<Control("TRANS_STMT_COMMIT"), Insert>>),
                 Parsed(<<Set("transaction_read_only"), Nextval>>), Parsed(<<Vacuum>>)},
     revert |-> {Unparsed, Empty, Escaping, Parsed(<<Drop("OBJECT_TABLE")>>)},
     test |-> {Unparsed, Empty, Escaping, Parsed(<<Insert, Nextval>>)}]

MCTerms ==
    [mode : {"required", "forbidden"}, allow : SUBSET {"destructive"}, deny : SUBSET {"destructive"}]

===============================================================================
