------------------------------ MODULE ScriptRuns ------------------------------
(***************************************************************************)
(* The scripts of one migration, from the files to the server: what is     *)
(* checked before a script is sent, what the server then does with it      *)
(* statement by statement, and which of the server's messages the report   *)
(* gives to which script.                                                  *)
(*                                                                         *)
(* A process reads each file once, and any file it reads may have been     *)
(* edited since the last command: verify.sql, revert.sql and the test      *)
(* files are mutable, and deploy.sql is until it is deployed.  So the      *)
(* files are what the next command finds, and Start picks them.            *)
(***************************************************************************)
EXTENDS ScriptRules

CONSTANTS
    Scripts,         \* per role, the texts its file may have
    Terms,           \* manifests and policies: [mode, allow, deny]
    RefusedInBlock,  \* the nodes PostgreSQL refuses inside a transaction block
    MaxMessages,     \* bounds what one script says
    Absent

Roles == {"deploy", "verify", "revert", "test"}

ASSUME ScriptsAssumption ==
    /\ DOMAIN Scripts = Roles
    /\ \A r \in Roles : Absent \notin Scripts[r] /\ \A s \in Scripts[r] :
          s.parses \in BOOLEAN /\ s.body \in Seq({s.body[i] : i \in DOMAIN s.body})
    /\ \A t \in Terms : t.mode \in {"required", "forbidden"}
    /\ MaxMessages \in Nat

\* PostgreSQL refuses DISCARD ALL in a block, before it discards anything.
ASSUME DiscardAssumption ==
    \A r \in Roles : \A s \in Scripts[r] : \A i \in DOMAIN s.body :
        s.body[i].node = "DiscardStmt" => s.body[i] \in RefusedInBlock

\* The statements PostgreSQL refuses in a block, by their parse trees.
RefusedByName(n) ==
    \/ n.node \in {"CreatedbStmt", "DropdbStmt", "CreateTableSpaceStmt", "DropTableSpaceStmt",
                   "AlterSystemStmt", "DiscardStmt"}
    \/ n.node = "VacuumStmt" /\ Flag(n, "is_vacuumcmd")
    \/ n.node = "IndexStmt" /\ Flag(n, "concurrent")
    \/ n.node = "DropStmt" /\ Text(n, "removeType") = "OBJECT_INDEX" /\ Flag(n, "concurrent")
    \/ n.node = "ReindexStmt" /\ \E i \in DOMAIN Items(n, "params") : n.params[i] = "concurrently"

\* REINDEX of a schema or a database, which is refused too, has nothing in the
\* tree but its kind to tell it from REINDEX of a table.
Nameless(n) == n.node = "ReindexStmt" /\ Items(n, "params") = <<>>

\* A deployment holds no other that is refused.  DISCARD is DISCARD ALL, and
\* CREATE SUBSCRIPTION and a few more are left out, which the classifier does
\* not know.
ASSUME RefusedAssumption ==
    \A s \in Scripts["deploy"] : \A i \in DOMAIN s.body :
        /\ RefusedByName(s.body[i]) => s.body[i] \in RefusedInBlock
        /\ s.body[i] \in RefusedInBlock => RefusedByName(s.body[i]) \/ Nameless(s.body[i])

VARIABLES
    row,        \* of the migration in the registry: none, attempt or applied
    pc, cmd,
    files,      \* what the process read
    terms,
    queue,      \* the roles it has still to run
    report,     \* the scripts that ran
    tx,         \* the server's transaction block: none or open
    readonly,
    dirty,      \* it holds rows that are not committed
    at,         \* how many statements have run
    lock,       \* the session's advisory lock
    stream,     \* the notices the server has sent and the driver has not read
    inbox,      \* ServerMessages
    cursor,     \* message_cursor
    kept,       \* history: the scripts that left rows, by place in the report
    drew,       \* history: the scripts that drew from a sequence
    said        \* history: how many notices each script raised

process == <<pc, cmd, files, terms, queue, report>>
server == <<tx, readonly, dirty, at, lock>>
messages == <<stream, inbox, cursor>>
history == <<kept, drew, said>>
vars == <<row, process, server, messages, history>>

Role == Head(queue)
Sql == files[Role]
Mode == IF Role = "deploy" THEN terms.mode ELSE "required"
Present(r) == files[r] # Absent

\* The place in the report of the script in hand.
This == Len(report) + 1

NoFiles == [r \in Roles |-> Absent]
NoTerms == [mode |-> "required", allow |-> {}, deny |-> {}]

Init ==
    /\ row = "none"
    /\ pc = "idle" /\ cmd = "none" /\ files = NoFiles /\ terms = NoTerms
    /\ queue = <<>> /\ report = <<>>
    /\ tx = "none" /\ readonly = FALSE /\ dirty = FALSE /\ at = 0 /\ lock = FALSE
    /\ stream = <<>> /\ inbox = <<>> /\ cursor = 0
    /\ kept = {} /\ drew = {} /\ said = <<>>

-----------------------------------------------------------------------------
(***************************************************************************)
(* Starting a command.                                                     *)
(***************************************************************************)

\* Only deploy.sql is warned about its statements; any script may be empty.
Findings ==
    UNION {{[role |-> r, at |-> w[1], code |-> w[2],
             severity |-> Severity(w[2], terms.allow, terms.deny)] : w \in Warnings(r, files[r])} :
           r \in {x \in {"deploy", "revert", "verify"} : Present(x)}}

\* check, then apply_policy.
Valid ==
    /\ ScriptErrors("deploy", terms.mode, files["deploy"]) = {}
    /\ \A r \in {"revert", "verify"} :
          Present(r) => ScriptErrors(r, "required", files[r]) = {}
    /\ \A f \in Findings : f.severity # "error"

\* The files a command's outcome can turn on; it ignores the others.
Reads(c) == IF c = "deploy" THEN {"deploy", "verify", "revert"} ELSE {c}

MayRun(c) ==
    CASE c = "deploy" -> row = "none" /\ Present(c) /\ Valid
      [] c = "verify" -> row = "applied" /\ Present(c)
      [] c = "revert" -> row = "applied" /\ Present(c) /\ ~RunsNothing(files[c])
      [] OTHER -> Present(c)

\* deploy verifies what it deploys, unless told not to.
Jobs(c) ==
    IF c = "deploy" /\ Present("verify") THEN {<<"deploy">>, <<"deploy", "verify">>} ELSE {<<c>>}

\* What the command may find of a file it reads.
Texts(r, c) == IF r \in Reads(c) THEN Scripts[r] \cup {Absent} ELSE {Absent}

\* The server may have spoken before the runner exists.
Start(c) ==
    /\ pc = "idle"
    /\ \E d \in Texts("deploy", c), v \in Texts("verify", c),
          x \in Texts("revert", c), t \in Texts("test", c) :
          files' = [deploy |-> d, verify |-> v, revert |-> x, test |-> t]
    /\ terms' \in IF c = "deploy" THEN Terms ELSE {NoTerms}
    /\ UNCHANGED <<row, report, tx, readonly, dirty, at, stream, history>>
    /\ MayRun(c)'
    /\ queue' \in Jobs(c)'
    /\ pc' = "gate" /\ cmd' = c
    /\ lock' = TRUE
    /\ inbox' \in {<<>>, <<0>>} /\ cursor' = Len(inbox')

-----------------------------------------------------------------------------
(***************************************************************************)
(* Sending a script.                                                       *)
(***************************************************************************)

\* Mutant: only what lint has checked, when it has, keeps a script in its transaction.
SoundWhenNotEmpty == Role = "verify" => ~RunsNothing(Sql)

\* Mutant: only lint knows that an empty verification verifies nothing.
SoundWhenOwned == (Role = "deploy" /\ Mode = "forbidden") \/ RunnerOwnsTransaction(Sql)

\* Checked again before every script but a nontransactional one.
Sound ==
    \/ Role = "deploy" /\ Mode = "forbidden"
    \/ RunnerOwnsTransaction(Sql) /\ (Role = "verify" => ~RunsNothing(Sql))

\* Mutant: the messages are taken from the beginning of the connection.
TakenFromTheStart == IF Role = "test" THEN <<>> ELSE inbox

\* take_server_messages: a test file's run has no runner to collect them.
Taken == IF Role = "test" THEN <<>> ELSE SubSeq(inbox, cursor + 1, Len(inbox))

\* Nothing more is run after a script that failed.
Ended(status) ==
    /\ report' = Append(report, [role |-> Role, status |-> status, ran |-> at', messages |-> Taken])
    /\ cursor' = IF Role = "test" THEN cursor ELSE Len(inbox)
    /\ queue' = IF status = "succeeded" THEN Tail(queue) ELSE <<>>
    /\ pc' = IF queue' = <<>> THEN "done" ELSE "gate"
    /\ tx' = "none" /\ readonly' = FALSE /\ dirty' = FALSE
    /\ UNCHANGED <<cmd, files, terms, inbox>>

\* A nontransactional deploy writes down its attempt first.
Send ==
    /\ pc = "gate" /\ Sound
    /\ pc' = "running"
    /\ row' = IF Mode = "forbidden" THEN "attempt" ELSE row
    /\ tx' = IF Mode = "required" THEN "open" ELSE "none"
    /\ readonly' = (Role = "verify")
    /\ dirty' = FALSE /\ at' = 0
    /\ said' = Append(said, 0)
    /\ UNCHANGED <<cmd, files, terms, queue, report, lock, messages, kept, drew>>

Unsound ==
    /\ pc = "gate" /\ ~Sound
    /\ at' = 0 /\ said' = Append(said, 0)
    /\ Ended("failed")
    /\ UNCHANGED <<row, lock, stream, kept, drew>>

-----------------------------------------------------------------------------
(***************************************************************************)
(* The server, of which the runner sees only messages and a response.      *)
(***************************************************************************)
Reading == {"SelectStmt", "VariableSetStmt", "TransactionStmt", "DiscardStmt"}

Writes(n) == n.node \notin Reading
Draws(n) == Flag(n, "nextval")

\* A script of several statements is a block of its own.
InBlock == tx = "open" \/ Len(Sql.body) > 1

Refused(n) ==
    \/ InBlock /\ n \in RefusedInBlock
    \/ readonly /\ (Writes(n) \/ Draws(n))

\* SET TRANSACTION READ WRITE, or the setting behind it, while nothing has been
\* read or written.
LiftsReadOnly(n) ==
    /\ Text(n, "name") \in {"transaction_read_only", "TRANSACTION"}
    /\ \A i \in 1 .. at : Sql.body[i].node = "VariableSetStmt"

\* What ends a block.
Closing ==
    [TRANS_STMT_COMMIT |-> "commit", TRANS_STMT_ROLLBACK |-> "rollback",
     TRANS_STMT_PREPARE |-> "rollback"]

Leaves(n) ==
    IF n.node = "TransactionStmt" /\ Text(n, "kind") \in DOMAIN Closing
    THEN Closing[n.kind] ELSE "statement"

\* What is written outside a block is there at once.
Effect(n) ==
    /\ tx' = IF Leaves(n) = "statement" THEN tx ELSE "none"
    /\ dirty' = (Leaves(n) = "statement" /\ (dirty \/ (tx = "open" /\ Writes(n))))
    /\ kept' = IF (Leaves(n) = "commit" /\ dirty) \/ (tx = "none" /\ Writes(n))
               THEN kept \cup {This} ELSE kept
    /\ drew' = IF Draws(n) THEN drew \cup {This} ELSE drew
    /\ readonly' = (readonly /\ Leaves(n) = "statement" /\ ~LiftsReadOnly(n))
    /\ lock' = (lock /\ n.node # "DiscardStmt")

\* Notices are numbered by the script that raised them.
Say(k) ==
    /\ said[This] + k <= MaxMessages
    /\ said' = [said EXCEPT ![This] = @ + k]
    /\ stream' = stream \o [i \in 1 .. k |-> This]

\* The server runs one statement, and may raise a notice.
Execute ==
    /\ pc = "running" /\ at < Len(Sql.body)
    /\ LET n == Sql.body[at + 1]
       IN  ~Refused(n) /\ Effect(n)
    /\ at' = at + 1
    /\ \E k \in 0 .. 1 : Say(k)
    /\ UNCHANGED <<row, process, inbox, cursor>>

\* A refused statement fails, and any other may.  A failed statement outside a
\* block may leave something behind, such as an invalid index.
Reject ==
    /\ pc = "running" /\ at < Len(Sql.body)
    /\ pc' = "rejected"
    /\ kept' \in IF tx = "none" /\ ~Refused(Sql.body[at + 1])
                 THEN {kept, kept \cup {This}} ELSE {kept}
    /\ \E k \in 0 .. 1 : Say(k)
    /\ UNCHANGED <<row, cmd, files, terms, queue, report, server, inbox, cursor, drew>>

\* The driver hands over one message at a time.
Pump ==
    /\ stream # <<>>
    /\ inbox' = Append(inbox, Head(stream)) /\ stream' = Tail(stream)
    /\ UNCHANGED <<row, process, server, cursor, history>>

-----------------------------------------------------------------------------
(***************************************************************************)
(* The runner, once the response has come.  The driver hands it over after *)
(* every notice that precedes it.                                          *)
(***************************************************************************)
Answered == stream = <<>>

Commits == Role \in {"deploy", "revert"}

\* The script's rows and the migration's row.  After an attempt that ran
\* outside a transaction, only the second is left to write.
Commit ==
    /\ row' = IF Role = "deploy" THEN "applied" ELSE "none"
    /\ kept' = IF dirty THEN kept \cup {This} ELSE kept

Succeed ==
    /\ pc = "running" /\ at = Len(Sql.body) /\ Answered
    /\ at' = at
    /\ IF Commits THEN Commit ELSE UNCHANGED <<row, kept>>
    /\ Ended("succeeded")
    /\ UNCHANGED <<lock, stream, drew, said>>

\* It also fails when the row cannot be written or the commit is refused.
Fail ==
    /\ \/ pc = "rejected"
       \/ pc = "running" /\ at = Len(Sql.body) /\ Commits
    /\ Answered
    /\ at' = at
    /\ Ended("failed")
    /\ UNCHANGED <<row, lock, stream, kept, drew, said>>

\* The connection goes: the runner keeps the messages it has been given, and a
\* commit it was waiting for has happened or not.
Lose ==
    /\ pc \in {"running", "rejected"}
    /\ \/ UNCHANGED <<row, kept>>
       \/ pc = "running" /\ at = Len(Sql.body) /\ Commits /\ Commit
    /\ at' = at /\ stream' = <<>> /\ lock' = FALSE
    /\ Ended("failed")
    /\ UNCHANGED <<drew, said>>

\* The lock is given back, and the report is the run's.
End ==
    /\ pc = "done"
    /\ pc' = "idle" /\ cmd' = "none" /\ files' = NoFiles /\ terms' = NoTerms
    /\ report' = <<>> /\ lock' = FALSE /\ at' = 0
    /\ inbox' = <<>> /\ cursor' = 0
    /\ kept' = {} /\ drew' = {} /\ said' = <<>>
    /\ UNCHANGED <<row, queue, tx, readonly, dirty, stream>>

\* zapadka resolve records what an operator says became of an attempt.
Resolve ==
    /\ pc = "idle" /\ row = "attempt"
    /\ row' \in {"applied", "none"}
    /\ UNCHANGED <<process, server, messages, history>>

Next ==
    \/ \E c \in Roles : Start(c)
    \/ Send \/ Unsound \/ Execute \/ Reject \/ Pump \/ Succeed \/ Fail \/ Lose
    \/ End \/ Resolve

Spec == Init /\ [][Next]_vars

-----------------------------------------------------------------------------
(***************************************************************************)
(* Properties.                                                             *)
(***************************************************************************)

\* Every variable has its type.
TypeOK ==
    /\ row \in {"none", "attempt", "applied"}
    /\ pc \in {"idle", "gate", "running", "rejected", "done"}
    /\ cmd \in Roles \cup {"none"}
    /\ \A r \in Roles : files[r] \in Scripts[r] \cup {Absent}
    /\ terms \in Terms \cup {NoTerms}
    /\ Len(queue) + Len(report) <= 2
    /\ \A i \in DOMAIN queue : queue[i] \in Roles /\ Present(queue[i])
    /\ \A i \in DOMAIN report :
          report[i].role \in Roles /\ report[i].status \in {"succeeded", "failed"}
    /\ tx \in {"none", "open"} /\ {readonly, dirty, lock} \subseteq BOOLEAN
    /\ at \in Nat /\ cursor \in 0 .. Len(inbox)
    /\ kept \cup drew \subseteq DOMAIN said

\* A script's rows and the row that says it ran are there together: what a
\* transactional deploy or revert wrote is kept exactly when the registry says
\* so, and a verification or a test leaves no rows whatever its file holds.
RowsAndRowAgree ==
    /\ \A i \in kept :
          /\ cmd \in {"deploy", "revert"} /\ i = 1
          /\ cmd = "deploy" => row \in IF terms.mode = "required" THEN {"applied"}
                                       ELSE {"attempt", "applied"}
          /\ cmd = "revert" => row = "none"
    /\ \A i \in DOMAIN report :
          report[i].role \in {"deploy", "revert"} /\ report[i].status = "succeeded" =>
             /\ row = IF report[i].role = "deploy" THEN "applied" ELSE "none"
             /\ (\E s \in 1 .. report[i].ran : Writes(files[report[i].role].body[s])) => i \in kept

\* As long as the connection lives, no script makes the session give up the
\* deployment lock while the command has something left to run or to record.
LockOutlivesTheScripts == pc \in {"gate", "running", "rejected"} => lock

\* A verification or a revert is never reported to have succeeded without
\* having run a statement, and success means that every statement ran.
NoFalseGreen ==
    \A i \in DOMAIN report :
        report[i].status = "succeeded" =>
            /\ report[i].ran = Len(files[report[i].role].body)
            /\ report[i].role \in {"verify", "revert"} => report[i].ran > 0

\* The messages of an entry of the report are those the server raised for that
\* very script, and all of them unless the connection was lost.
MessagesBelong ==
    \A i \in DOMAIN report :
        report[i].role # "test" =>
            /\ \A k \in DOMAIN report[i].messages : report[i].messages[k] = i
            /\ Len(report[i].messages) <= said[i]
            /\ lock => Len(report[i].messages) = said[i]

\* What loses rows of this database for good.
Destroys(n) ==
    \/ n.node = "TruncateStmt"
    \/ /\ n.node = "DropStmt"
       /\ Text(n, "removeType") \in {"OBJECT_TABLE", "OBJECT_MATVIEW", "OBJECT_SCHEMA"}
    \/ /\ n.node = "AlterTableStmt"
       /\ \E i \in DOMAIN Items(n, "cmds") : n.cmds[i].subtype = "AT_DropColumn"

\* Every statement of a deployment that destroyed rows is on the run's record
\* as destructive, and none ran that the policy denies and the migration gives
\* no reason for.
LossIsOnRecord ==
    cmd = "deploy" =>
        \A i \in 1 .. (IF report = <<>> THEN at ELSE report[1].ran) :
            Destroys(files["deploy"].body[i]) =>
                /\ \E f \in Findings : f.role = "deploy" /\ f.at = i /\ f.code = "destructive"
                /\ "destructive" \in terms.deny => "destructive" \in terms.allow

\* No deployment is refused by the server for the mode it runs in, but for a
\* statement the classifier has no name for, and the mode without a transaction
\* never runs a second statement, nor one that does not need it.
ModesFit ==
    pc = "running" /\ Role = "deploy" =>
        /\ \A i \in DOMAIN Sql.body :
              InBlock /\ Sql.body[i] \in RefusedInBlock => Nameless(Sql.body[i])
        /\ Mode = "forbidden" => Len(Sql.body) <= 1 /\ \A i \in DOMAIN Sql.body :
                                                            Sql.body[i] \in RefusedInBlock

===============================================================================
