------------------------------- MODULE RunReport -------------------------------
(***************************************************************************)
(* One invocation of the program, seen from outside: what it did to the    *)
(* target's registry, what its session recorded of that, the report made   *)
(* of the session, what was printed of the report, and the exit code.      *)
(*                                                                         *)
(* What the commands do in detail is modelled by other modules.  Here a    *)
(* step of a command is the set of its outcomes: what it leaves in the     *)
(* registry, what it records, and the error with which it stops the run.   *)
(***************************************************************************)
EXTENDS Naturals, Sequences, FiniteSets, SequencesExt

CONSTANTS
    Migrations,
    Order,          \* the migrations in the order of deployment
    Files           \* the test files in the order of their paths

ASSUME ReportAssumption ==
    /\ Order \in Seq(Migrations) /\ ToSet(Order) = Migrations
    /\ \A i, j \in DOMAIN Order : Order[i] = Order[j] => i = j
    /\ Files \in Seq(ToSet(Files))
    /\ ToSet(Files) \cap {"connect", "count", "release"} = {}  \* see Error

VARIABLES
    args,           \* the command, and what the run finds in the project
    at,             \* the stage the run is in, then "work", "release", ...
    registry,       \* what the target's registry says of each migration
    session,        \* what the command recorded
    todo,           \* migrations or test files not yet acted on
    failure,        \* the error with which the run fails
    printed,        \* what reached the standard streams, item by item
    exit,           \* the exit code of the process
    before          \* history: the registry when the run began

vars == <<args, at, registry, session, todo, failure, printed, exit, before>>

Local == {"init", "new", "lint", "format"}
Commands ==
    Local \cup {"status", "deploy", "verify", "revert", "baseline", "resolve", "rehash", "test"}

-----------------------------------------------------------------------------
(* Errors *)

ExitOf == [
    project |-> 3, validation |-> 4, history |-> 5, lock |-> 6, target |-> 7,
    registry |-> 8, execution |-> 9, internal |-> 70]

CodesOf == [
    project |-> {"ConfigNotFound", "ConfigInvalid", "ConfigUnsupportedFormatVersion", "TargetUnknown",
        "TargetInvalid", "AlreadyExists", "SelectorMatchedNothing", "Io"},
    validation |-> {"ManifestInvalid", "ManifestUnsupportedFormatVersion", "MigrationMissingScript",
        "MigrationDirectoryMismatch", "MigrationDuplicateId", "MigrationUnknownDependency",
        "MigrationReversibilityInvalid", "MigrationIdInvalid", "GraphCycle", "GraphSelfDependency",
        "ScriptParseError", "ScriptTransactionControl", "ScriptStatementCount", "ScriptEmpty",
        "ExecutionModeUnsupported", "LintFailed", "FormatCheckFailed", "FormatDeployRewriteDenied"},
    history |-> {"HistoryMigrationMissing", "HistoryDefinitionChanged", "HistoryDependenciesChanged"},
    registry |-> {"RegistryFormatTooNew", "RegistryProjectMismatch", "RegistryNotInitialized",
        "RegistryUpgradeFailed", "RegistryBlocked", "NothingToResolve"},
    lock |-> {"LockUnavailable"},
    target |-> {"ConnectionFailed", "ServerUnsupported"},
    execution |-> {"DeployFailed", "VerifyFailed", "RevertFailed", "DeployOutcomeUnknown"},
    internal |-> {"Internal"}]

ExitCode(code) == ExitOf[CHOOSE class \in DOMAIN CodesOf : code \in CodesOf[class]]

\* An error is its code and its message, of which all that matters is what it
\* is about: a migration, a test file, or what the run was doing.
NoError == [code |-> "none", about |-> "nothing"]
Error(code, about) == [code |-> code, about |-> about]

-----------------------------------------------------------------------------
(* The stages a command passes before it does its work, and what may stop it *)

Place == [load |-> 1, ask |-> 2, validate |-> 3, open |-> 4, lock |-> 5, check |-> 6, work |-> 7]
Stage == DOMAIN Place \ {"work"}

Stages(c) == {s \in Stage :
    CASE s = "load" -> c # "init"
      [] s = "ask" -> c \in {"baseline", "rehash", "test"}
      [] s = "validate" -> c \in {"lint", "deploy", "baseline"}
      [] s = "open" -> c \notin Local
      [] OTHER -> c \notin Local \cup {"status"}}

\* Mutant: the commands that validate do not.
PassesUnchecked(c, dry) == Stages(c) \ ({"validate"} \cup IF dry THEN {"lock"} ELSE {})

\* A rehash that only previews takes no lock.
Passes(c, dry) == Stages(c) \ IF c = "rehash" /\ dry THEN {"lock"} ELSE {}

\* What comes after a stage, or first of all.
Following(passed, place) ==
    CHOOSE s \in passed \cup {"work"} :
        /\ Place[s] > place
        /\ \A t \in passed : Place[t] > place => Place[t] >= Place[s]

Unsound == {"ScriptEmpty", "ScriptTransactionControl", "ScriptParseError"}

Registered == {"RegistryUpgradeFailed", "RegistryFormatTooNew", "RegistryProjectMismatch"}

\* These need a registry that is there already.
Acting == {"verify", "revert", "resolve", "test"}

Refusals(stage) ==
    CASE stage = "load" -> {"Io", "ConfigNotFound", "ConfigInvalid", "ConfigUnsupportedFormatVersion"}
            \cup (CodesOf.validation \ (Unsound \cup {"ScriptStatementCount", "ExecutionModeUnsupported",
                "LintFailed", "FormatCheckFailed", "FormatDeployRewriteDenied"}))
      [] stage = "ask" -> IF args.cmd = "test" THEN {"TargetUnknown", "SelectorMatchedNothing", "Io"}
                          ELSE {"ConfigInvalid"}
      [] stage = "validate" -> Unsound \cup {"ScriptStatementCount", "LintFailed"}
      [] stage = "open" -> Registered \cup CodesOf.target \cup {"TargetUnknown", "TargetInvalid"}
            \cup (IF args.cmd \in Acting \ {"resolve"} THEN {"RegistryNotInitialized"} ELSE {})
            \cup (IF args.cmd = "baseline" THEN {"SelectorMatchedNothing"} ELSE {})
      [] stage = "lock" -> {"LockUnavailable", "RegistryUpgradeFailed"}
      [] stage = "check" -> Registered \cup CodesOf.history \cup {"LockUnavailable"}
            \cup (IF args.cmd \in Acting \cup {"rehash"} THEN {"RegistryNotInitialized"} ELSE {})
            \cup (IF args.cmd = "revert"
                  THEN {"MigrationReversibilityInvalid", "MigrationMissingScript", "ScriptEmpty"} ELSE {})
            \cup (IF args.cmd \in {"verify", "revert"} THEN {"SelectorMatchedNothing"} ELSE {})
            \cup (IF args.cmd = "resolve" THEN {"NothingToResolve"} ELSE {})

In(state) == {m \in Migrations : registry[m] = state}
Recorded == In("applied") \cup In("legacy")

\* The members of S in that order: the i-th is the one up to which there are i.
Rank(m) == CHOOSE i \in DOMAIN Order : Order[i] = m
UpTo(m, S) == {n \in S : Rank(n) <= Rank(m)}
Ordered(S) == [i \in 1 .. Cardinality(S) |-> CHOOSE m \in S : Cardinality(UpTo(m, S)) = i]

\* What a stage finds out for certain.
MustRefuse(stage, code) ==
    \/ /\ stage = "validate" /\ ~args.sound /\ code \in Unsound
    \/ /\ stage = "check" /\ In("attempt") # {} /\ args.cmd # "resolve"
       /\ code = "RegistryBlocked"
    \/ /\ stage = "check" /\ In("attempt") = {} /\ args.cmd = "resolve"
       /\ code = "NothingToResolve"
    \/ /\ stage = "check" /\ In("pending") # {} /\ args.cmd = "test"
       /\ code = "RegistryNotInitialized"
    \/ /\ stage = "check" /\ Recorded = {} /\ args.cmd = "revert"
       /\ code = "SelectorMatchedNothing"

Entry(m, action, status, error) == [id |-> m, action |-> action, status |-> status, error |-> error]
Listed(S, action, status) ==
    [i \in 1 .. Len(Ordered(S)) |-> Entry(Ordered(S)[i], action, status, NoError)]

Note(codes) == session' = [session EXCEPT !.diagnostics = @ \o codes]
Push(entries) == session' = [session EXCEPT !.migrations = @ \o entries]

NewSession == [migrations |-> <<>>, tests |-> <<>>, diagnostics |-> <<>>]

Init ==
    /\ \E c \in Commands, d \in BOOLEAN, s \in BOOLEAN, o \in {"json", "human", "quiet"} :
        /\ d => c \in {"deploy", "rehash"}
        /\ args = [cmd |-> c, dry |-> d, sound |-> s, output |-> o]
        /\ at = Following(Passes(c, d), 0)
    /\ registry \in [Migrations -> {"pending", "applied", "legacy", "attempt"}]
    /\ \A m, n \in In("attempt") : m = n
    /\ before = registry
    /\ session = NewSession
    /\ todo = <<>> /\ failure = NoError /\ printed = <<>> /\ exit = 0

\* Once the lock is held it is released, whatever happened.
Leave(error) ==
    /\ failure' = error
    /\ at' = IF "lock" \in Passes(args.cmd, args.dry) /\ Place[at] > Place.lock
             THEN "release" ELSE "emit"

\* Warnings of the linter, and of the connection, are recorded in passing:
\* also by a run that the same stage refuses.
Remarks(stage) ==
    IF stage \in {"validate", "open"} THEN {<<>>, <<"warning">>} ELSE {<<>>}

Begins ==
    todo' = CASE args.cmd = "deploy" -> Ordered(In("pending"))
              [] args.cmd = "verify" -> Ordered(Recorded)
              [] args.cmd = "test" -> Files
              [] OTHER -> <<>>

Pass ==
    /\ at \in Stage
    /\ ~\E c \in UNION {CodesOf[x] : x \in DOMAIN CodesOf} : MustRefuse(at, c)
    /\ \E r \in Remarks(at) : Note(r)
    /\ at' = Following(Passes(args.cmd, args.dry), Place[at])
    /\ IF at' = "work" THEN Begins ELSE UNCHANGED todo
    /\ UNCHANGED <<args, registry, failure, printed, exit, before>>

\* What open finds out once it has a connection to remark on.
Late == {"RegistryNotInitialized", "SelectorMatchedNothing"}

Refuse ==
    /\ at \in Stage
    /\ \E c \in UNION {CodesOf[x] : x \in DOMAIN CodesOf}, r \in Remarks(at) :
        /\ c \in Refusals(at) \/ MustRefuse(at, c)
        /\ at = "open" /\ c \notin Late => r = <<>>
        /\ Leave(Error(c, at)) /\ Note(r)
    /\ UNCHANGED <<args, registry, todo, printed, exit, before>>

\* A project without tests has nothing to run, and needs no target.
TestsNothing ==
    /\ args.cmd = "test" /\ at = "ask" /\ Leave(NoError)
    /\ UNCHANGED <<args, registry, session, todo, printed, exit, before>>

-----------------------------------------------------------------------------
(* The work *)

Working(c) == at = "work" /\ args.cmd = c
Stays == UNCHANGED <<args, todo, printed, exit, before>>

LocalRefusals ==
    CASE args.cmd = "init" -> {"AlreadyExists", "Io"}
      [] args.cmd = "new" -> {"AlreadyExists", "Io", "ManifestInvalid", "MigrationUnknownDependency",
                              "MigrationReversibilityInvalid"}
      [] args.cmd = "format" -> {"Io", "ConfigInvalid", "SelectorMatchedNothing", "ScriptParseError",
                                 "FormatCheckFailed", "FormatDeployRewriteDenied"}
      [] OTHER -> {}

\* Commands on the working tree leave only remarks, some perhaps before they fail.
LocalRemarks ==
    {<<>>, <<"note">>, <<"warning">>} \cup (IF args.cmd = "format" THEN {<<"written">>} ELSE {})

LocalWork ==
    /\ at = "work" /\ args.cmd \in Local
    /\ \E r \in LocalRemarks : Note(r)
    /\ Leave(NoError) \/ \E c \in LocalRefusals : Leave(Error(c, args.cmd))
    /\ Stays /\ UNCHANGED registry

\* status warns of attempts before it checks the history, and lists them after.
StatusWork ==
    /\ Working("status")
    /\ LET warned == [i \in 1 .. Len(Ordered(In("attempt"))) |-> "warning"]
           all == Listed(Recorded, "Plan", "Applied") \o Listed(In("pending"), "Plan", "Pending")
                    \o Listed(In("attempt"), "Plan", "Blocked")
       IN \/ /\ session' = [session EXCEPT !.diagnostics = @ \o warned, !.migrations = all]
             /\ Leave(NoError)
          \/ /\ Note(warned)
             /\ \E c \in CodesOf.history : Leave(Error(c, "check"))
    /\ Stays /\ UNCHANGED registry

VerifyErrors == {"VerifyFailed", "RegistryUpgradeFailed"} \cup (IF args.sound THEN {} ELSE Unsound)

\* What deploying one migration may come to: what the registry then says, and
\* the status and error of its entry.  A verification that fails leaves it
\* deployed; a commit may have happened although it was not acknowledged; a
\* statement outside a transaction leaves its attempt on every failure.
DeployOutcomes ==
    {[now |-> "applied", status |-> "Succeeded", code |-> c] : c \in {"none"} \cup VerifyErrors}
    \cup {[now |-> "pending", status |-> "Failed", code |-> c] : c \in {"DeployFailed", "RegistryUpgradeFailed"}}
    \cup {[now |-> "applied", status |-> "Failed", code |-> "RegistryUpgradeFailed"]}
    \cup {[now |-> "attempt", status |-> "Failed", code |-> c] :
            c \in {"DeployFailed", "DeployOutcomeUnknown", "RegistryUpgradeFailed"}}

Failed(code, about) == IF code = "none" THEN NoError ELSE Error(code, about)

DeployPlans ==
    /\ Working("deploy") /\ args.dry
    /\ Push(Listed(ToSet(todo), "Plan", "Pending")) /\ Leave(NoError)
    /\ Stays /\ UNCHANGED registry

DeployOne ==
    /\ Working("deploy") /\ ~args.dry /\ todo # <<>> /\ failure = NoError
    /\ \E o \in DeployOutcomes :
        /\ registry' = [registry EXCEPT ![todo[1]] = o.now]
        /\ failure' = Failed(o.code, todo[1])
        /\ Push(<<Entry(todo[1], "Deploy", o.status, failure')>>)
    /\ todo' = Tail(todo)
    /\ UNCHANGED <<args, at, printed, exit, before>>

DeploySkips ==
    /\ Working("deploy") /\ ~args.dry /\ todo # <<>> /\ failure # NoError
    /\ Push(<<Entry(todo[1], "Plan", "Skipped", NoError)>>) /\ todo' = Tail(todo)
    /\ UNCHANGED <<args, at, registry, failure, printed, exit, before>>

DeployEnds ==
    /\ Working("deploy") /\ ~args.dry /\ todo = <<>>
    /\ Leave(failure) /\ Stays /\ UNCHANGED <<registry, session>>

\* Selected migrations are verified in order, those without verify.sql are
\* skipped, and the first failure ends the run.
VerifyOne ==
    /\ Working("verify") /\ todo # <<>> /\ todo' = Tail(todo)
    /\ \/ UNCHANGED <<session, failure, at>>       \* not selected
       \/ /\ \E s \in {"Succeeded", "Skipped"} : Push(<<Entry(todo[1], "Verify", s, NoError)>>)
          /\ UNCHANGED <<failure, at>>
       \/ \E c \in VerifyErrors :
            /\ Leave(Error(c, todo[1]))
            /\ Push(<<Entry(todo[1], "Verify", "Failed", failure')>>)
    /\ UNCHANGED <<args, registry, printed, exit, before>>

VerifyEnds ==
    /\ Working("verify") /\ todo = <<>>
    /\ Leave(NoError) /\ Stays /\ UNCHANGED <<registry, session>>

RevertWork ==
    /\ Working("revert")
    /\ \E m \in Recorded :
        \/ /\ registry' = [registry EXCEPT ![m] = "pending"] /\ Leave(NoError)
           /\ Push(<<Entry(m, "Revert", "Succeeded", NoError)>>)
        \/ /\ \E c \in {"RevertFailed"} \cup (VerifyErrors \ {"VerifyFailed"}) :
                /\ Leave(Error(c, m))
                /\ registry' \in {registry} \cup
                    (IF c = "RegistryUpgradeFailed" THEN {[registry EXCEPT ![m] = "pending"]} ELSE {})
           /\ Push(<<Entry(m, "Revert", "Failed", failure')>>)
    /\ Stays

\* Mutant: the entries are recorded before the commit.
BaselineReportEarly(S, ok) == Listed(S, "Baseline", "Succeeded")

\* Entries for the whole closure, once it is committed.
BaselineReport(S, ok) == IF ok THEN Listed(S, "Baseline", "Succeeded") ELSE <<>>

BaselineWork ==
    /\ Working("baseline")
    /\ \E S \in SUBSET In("pending"), ok \in BOOLEAN :
        /\ ~ok => S # {}
        /\ LET all == [m \in Migrations |-> IF m \in S THEN "applied" ELSE registry[m]]
           IN registry' \in (IF ok THEN {all} ELSE {registry, all})
        /\ Push(BaselineReport(S, ok))
        /\ Leave(IF ok THEN NoError ELSE Error("RegistryUpgradeFailed", "baseline"))
    /\ Stays

ResolveWork ==
    /\ Working("resolve")
    /\ \E m \in In("attempt"), now \in {"applied", "pending"}, ok \in BOOLEAN :
        /\ IF ok
           THEN session' = [session EXCEPT !.migrations = @ \o <<Entry(m, "Resolve", "Succeeded", NoError)>>,
                                           !.diagnostics = @ \o <<"warning">>]
           ELSE UNCHANGED session
        /\ registry' \in {[registry EXCEPT ![m] = now]} \cup (IF ok THEN {} ELSE {registry})
        /\ Leave(IF ok THEN NoError ELSE Error("RegistryUpgradeFailed", "resolve"))
    /\ Stays

\* One entry for every applied migration; "bad" are those that cannot change.
RehashReport(bad, committed) ==
    [i \in 1 .. Len(Ordered(Recorded)) |->
        LET m == Ordered(Recorded)[i] IN
        IF m \in bad THEN Entry(m, "Rehash", "Blocked", Error("HistoryDefinitionChanged", m))
        ELSE Entry(m, "Rehash", IF registry[m] = "applied" THEN "Applied"
                                ELSE IF committed THEN "Succeeded" ELSE "Skipped", NoError)]

RehashWork ==
    /\ Working("rehash")
    /\ LET all == [m \in Migrations |-> IF registry[m] = "legacy" THEN "applied" ELSE registry[m]]
       IN \/ \E bad \in (SUBSET Recorded) \ {{}} :
                /\ Push(RehashReport(bad, FALSE)) /\ UNCHANGED registry
                /\ Leave(Error("HistoryDefinitionChanged", Ordered(bad)[1]))
          \/ /\ args.dry /\ Push(RehashReport({}, FALSE)) /\ UNCHANGED registry
             /\ Leave(NoError)
          \/ /\ ~args.dry /\ Push(RehashReport({}, TRUE)) /\ registry' = all
             /\ Leave(NoError)
          \/ /\ ~args.dry /\ all # registry /\ registry' \in {registry, all}
             /\ Push(RehashReport({}, FALSE)) /\ Leave(Error("RegistryUpgradeFailed", "rehash"))
    /\ Stays

\* A file fails by its assertions or by an error.
TestEntry(file, c) ==
    [file |-> file, passed |-> c = "none",
     error |-> IF c = "assertions" THEN NoError ELSE Failed(c, file)]

\* Every file has a connection of its own; without one the suite stops.
TestOne ==
    /\ Working("test") /\ todo # <<>>
    /\ \/ \E c \in {"none", "assertions", "VerifyFailed", "ScriptTransactionControl", "RegistryUpgradeFailed"},
             advanced \in {<<>>, <<"warning">>} :
            /\ session' = [session EXCEPT
                    !.diagnostics = @ \o advanced,
                    !.tests = Append(@, TestEntry(todo[1], c))]
            /\ todo' = Tail(todo) /\ UNCHANGED <<at, failure>>
       \/ /\ \E c \in {"ConnectionFailed", "TargetInvalid"} : Leave(Error(c, "connect"))
          /\ UNCHANGED <<session, todo>>
    /\ UNCHANGED <<args, registry, printed, exit, before>>

TestEnds ==
    /\ Working("test") /\ todo = <<>>
    /\ LET allPassed == \A i \in DOMAIN session.tests : session.tests[i].passed
       IN Leave(IF allPassed THEN NoError ELSE Error("VerifyFailed", "count"))
    /\ Stays /\ UNCHANGED <<registry, session>>

-----------------------------------------------------------------------------
(* The end of the run *)

\* The error of the work, when there is one, is the one reported.
Release ==
    /\ at = "release" /\ at' = "emit"
    /\ failure' \in {failure} \cup
        (IF failure = NoError THEN {Error("RegistryUpgradeFailed", "release")} ELSE {})
    /\ UNCHANGED <<args, registry, session, todo, printed, exit, before>>

Report == [exit_code |-> IF failure = NoError THEN 0 ELSE ExitCode(failure.code), error |-> failure]

\* Mutant: errors are compared by their codes.
AlreadyShownByCode ==
    LET Like(other) == other.code = failure.code
    IN  \/ \E i \in DOMAIN session.migrations : Like(session.migrations[i].error)
        \/ \E i \in DOMAIN session.tests : Like(session.tests[i].error)

AlreadyShown ==
    \/ \E i \in DOMAIN session.migrations : session.migrations[i].error = failure
    \/ \E i \in DOMAIN session.tests : session.tests[i].error = failure

Item(kind, error) == [kind |-> kind, shows |-> error]

DiagnosticItem(d) == Item("diagnostic", NoError)
MigrationItem(m) == Item("migration", m.error)

\* A test file's line names its failed assertions, and not its error.
TestItem(t) == Item("test", NoError)
ErrorItem(e) == Item("error", e)

\* A report with no counts has nothing to say after "Done" or "Failed".
Counts ==
    \/ \E i \in DOMAIN session.diagnostics : session.diagnostics[i] \in {"warning", "written"}
    \/ session.tests # <<>>
    \/ \E i \in DOMAIN session.migrations : LET e == session.migrations[i] IN
        \/ e.action \in {"Deploy", "Verify"} /\ e.status = "Succeeded"
        \/ e.action = "Plan" /\ e.status \in {"Applied", "Pending"}
        \/ e.action = "Rehash"

Summary ==
    CASE failure = NoError /\ Counts -> "done"
      [] failure = NoError /\ ~Counts -> IF args.cmd \in {"init", "new", "lint"} THEN "done" ELSE "nothing to do"
      [] failure # NoError /\ Counts -> "failed after"
      [] OTHER -> "failed"

Render ==
    [i \in DOMAIN session.diagnostics |-> DiagnosticItem(session.diagnostics[i])]
    \o [i \in DOMAIN session.migrations |-> MigrationItem(session.migrations[i])]
    \o [i \in DOMAIN session.tests |-> TestItem(session.tests[i])]
    \o (IF failure = NoError \/ AlreadyShown THEN <<>> ELSE <<ErrorItem(failure)>>)
    \o <<Item(Summary, NoError)>>

Output ==
    CASE args.output = "json" -> <<Item("document", NoError)>>
      [] args.output = "human" -> Render
      [] args.output = "quiet" -> IF failure = NoError THEN <<>> ELSE <<ErrorItem(failure)>>

\* Mutant: the result of writing is dropped.
EmitRegardless ==
    /\ at = "emit" /\ at' = "exited"
    /\ \E n \in 0 .. Len(Output) : printed' = SubSeq(Output, 1, n)
    /\ exit' = Report.exit_code
    /\ UNCHANGED <<args, registry, session, todo, failure, before>>

\* Any write may fail, and so may the flush after the last.
Emit ==
    /\ at = "emit" /\ at' = "exited"
    /\ \E n \in 0 .. Len(Output), flushed \in BOOLEAN :
        /\ n < Len(Output) => ~flushed
        /\ printed' = SubSeq(Output, 1, n)
        /\ exit' = IF flushed THEN Report.exit_code ELSE ExitOf.internal
    /\ UNCHANGED <<args, registry, session, todo, failure, before>>

Next ==
    \/ Pass \/ Refuse \/ TestsNothing \/ LocalWork \/ StatusWork
    \/ DeployPlans \/ DeployOne \/ DeploySkips \/ DeployEnds
    \/ VerifyOne \/ VerifyEnds \/ RevertWork \/ BaselineWork \/ ResolveWork
    \/ RehashWork \/ TestOne \/ TestEnds \/ Release \/ Emit

Spec == Init /\ [][Next]_vars

-----------------------------------------------------------------------------
(* Properties *)

Exited == at = "exited"
Touched == {m \in Migrations : registry[m] # before[m]}
Shown(e) == {i \in DOMAIN printed : printed[i].shows = e}
Whole == Exited /\ printed = Output
Errors(entries) == {entries[i].error : i \in DOMAIN entries} \ {NoError}

\* A process that exits zero has printed the whole of a report of success, and
\* the last line a person reads never disagrees with the exit code.
ExitTellsTheOutcome ==
    Exited =>
        /\ exit = 0 => failure = NoError /\ printed = Output
        /\ failure = NoError => exit \in {0, ExitOf.internal}
        /\ Whole /\ args.output = "human" =>
            (Last(printed).kind \in {"failed", "failed after"} <=> failure # NoError)

\* The exit codes on which a caller may simply try again (the project, the
\* validation, the history, the lock, the target) come only from runs that
\* changed no migration.
RetryIsSafe == Exited /\ exit \in 3 .. 7 => Touched = {}

\* What a report claims was done was done, and a successful report leaves out
\* nothing that was.
EntriesAreTrue ==
    Exited => LET entries == session.migrations IN
        /\ \A i \in DOMAIN entries :
            /\ entries[i].status = "Succeeded" /\ entries[i].action # "Verify" => entries[i].id \in Touched
            /\ entries[i].status = "Skipped" /\ entries[i].action = "Plan" => entries[i].id \notin Touched
        /\ failure = NoError =>
            \A m \in Touched : \E i \in DOMAIN entries : entries[i].id = m /\ entries[i].status = "Succeeded"

\* A person who reads the whole output reads the error of the run, and the
\* error of every migration, once.
ErrorsAreShownOnce ==
    Whole /\ args.output = "human" =>
        \A e \in Errors(session.migrations) \cup ({failure} \ {NoError}) :
            \E i \in DOMAIN printed : Shown(e) = {i}

\* "This is a view over the report": what failed a test file, too, can be read
\* (crates/zapadka/src/human.rs:3).
TestErrorsAreShown ==
    Whole /\ args.output = "human" => \A e \in Errors(session.tests) : Shown(e) # {}

===============================================================================
