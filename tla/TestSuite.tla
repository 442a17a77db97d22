------------------------------ MODULE TestSuite ------------------------------
(***************************************************************************)
(* zapadka test: suites of files against one target, each under the        *)
(* project's lock but every file on a connection of its own, beside        *)
(* deployments of the project and clients that know nothing of Zapadka.    *)
(***************************************************************************)
EXTENDS Naturals, Sequences

CONSTANTS
    Suites,
    FileCount,     \* the files a suite selects
    Wanted,        \* the schema each suite's checkout describes, a number
    LibraryOf,     \* the assertion library each suite's binary carries
    Schemas,       \* the schemas deployments make, 0 before the first
    MaxDrawn,      \* bounds the sequence
    Absent, Foreign, Nobody

ASSUME SuitesAssumption ==
    /\ FileCount \in Nat /\ MaxDrawn \in Nat
    /\ Schemas \subseteq Nat /\ Wanted \in [Suites -> Schemas \ {0}]
    /\ \A s \in Suites : LibraryOf[s] \notin {Absent, Foreign}
    /\ Absent # Foreign
    /\ Nobody \notin Suites

VARIABLES
    schema,        \* what is deployed on the target
    library,       \* what is in the schema zapadka_test
    drawn,         \* the position of a sequence of the application
    granted,       \* whether the suites' role has USAGE or UPDATE on it
    holder,        \* the suite whose session has the project's lock
    pc,
    session,       \* the connection that took the lock
    saw,           \* the library it found
    before,        \* the list snapshot_sequences made: the sequence's position, or nothing
    document,      \* what the file recorded, before it is known whether it counts
    reports,       \* session.tests
    outcome,
    drew,          \* history: what the running file drew, what others did meanwhile,
                   \* and whether it began with the sequence granted
    moved          \* history: suites beside which a deployment ran

target == <<schema, library, drawn, granted, holder>>
suite == <<pc, session, saw, before, document, reports, outcome>>
history == <<drew, moved>>
vars == <<target, suite, history>>

Libraries == {LibraryOf[s] : s \in Suites}

\* Between the check of the target and the end of the last file.
AtWork == {"checked", "installing", "ready", "testing", "tested"}

Documents == {"passed", "failed", "none"}

Nothing == [own |-> 0, others |-> 0, granted |-> FALSE]

Move(s, from, to) == pc[s] = from /\ pc' = [pc EXCEPT ![s] = to]

Init ==
    /\ schema \in Schemas
    /\ library \in Libraries \cup {Absent, Foreign}
    /\ drawn = 0 /\ granted \in BOOLEAN
    /\ holder = Nobody
    /\ pc = [s \in Suites |-> "idle"]
    /\ session = [s \in Suites |-> "none"]
    /\ saw = [s \in Suites |-> Absent]
    /\ before = [s \in Suites |-> {}]
    /\ document = [s \in Suites |-> "none"]
    /\ reports = [s \in Suites |-> <<>>]
    /\ outcome = [s \in Suites |-> "none"]
    /\ drew = [s \in Suites |-> Nothing]
    /\ moved = {}

(***************************************************************************)
(* A suite.                                                                *)
(***************************************************************************)

\* target::open, and a registry that exists.
Open(s) ==
    /\ Move(s, "idle", "opened")
    /\ schema # 0
    /\ session' = [session EXCEPT ![s] = "open"]
    /\ UNCHANGED <<target, saw, before, document, reports, outcome, history>>

Acquire(s) ==
    /\ Move(s, "opened", "locked")
    /\ session[s] = "open"
    /\ holder = Nobody
    /\ holder' = s
    /\ UNCHANGED <<schema, library, drawn, granted, session, saw, before, document, reports, outcome, history>>

\* refresh_state, require_not_blocked, and nothing pending.
Check(s) ==
    /\ Move(s, "locked", "checked")
    /\ session[s] = "open"
    /\ schema = Wanted[s]
    /\ moved' = moved \ {s}
    /\ UNCHANGED <<target, session, saw, before, document, reports, outcome, drew>>

\* is_legacy_installation or has_native_fingerprint, or no schema at all.
Recognizes(found) == found # Foreign

\* Mutation: any library will do.
AnyIsCurrent(s, found) == found # Absent

IsCurrent(s, found) == found = LibraryOf[s]

\* testlib::installed
LookAtLibrary(s) ==
    /\ session[s] = "open"
    /\ Recognizes(library)
    /\ saw' = [saw EXCEPT ![s] = library]
    /\ IF IsCurrent(s, library) THEN Move(s, "checked", "ready") ELSE Move(s, "checked", "installing")
    /\ UNCHANGED <<target, session, before, document, reports, outcome, history>>

\* testlib::install: whatever has the name is dropped.
Install(s) ==
    /\ Move(s, "installing", "ready")
    /\ session[s] = "open"
    /\ library' = LibraryOf[s]
    /\ UNCHANGED <<schema, drawn, granted, holder, session, saw, before, document, reports, outcome, history>>

\* The sequences that the role may advance by their names.
Listed == IF granted THEN {drawn} ELSE {}

\* Mutation: positions are read when the transaction has begun to draw.
StartFileLate(s) ==
    /\ Move(s, "ready", "testing")
    /\ Len(reports[s]) < FileCount
    /\ drawn < MaxDrawn /\ drawn' = drawn + 1
    /\ before' = [before EXCEPT ![s] = IF granted THEN {drawn'} ELSE {}]
    /\ drew' = [drew EXCEPT ![s] = [own |-> 1, others |-> 0, granted |-> granted]]
    /\ UNCHANGED <<schema, library, granted, holder, session, saw, document, reports, outcome, moved>>

\* A fresh connection, snapshot_sequences, and the runner's transaction.
StartFile(s) ==
    /\ Move(s, "ready", "testing")
    /\ Len(reports[s]) < FileCount
    /\ before' = [before EXCEPT ![s] = Listed]
    /\ drew' = [drew EXCEPT ![s] = [own |-> 0, others |-> 0, granted |-> granted]]
    /\ UNCHANGED <<target, session, saw, document, reports, outcome, moved>>

\* nextval(), by the file of a suite or by an application.  An identity column
\* and a function of the sequence's owner draw for a role it is not granted to.
Draw(by) ==
    /\ drawn < MaxDrawn
    /\ drawn' = drawn + 1
    /\ drew' = [s \in Suites |->
                   CASE pc[s] \notin {"testing", "tested"} -> drew[s]
                     [] s = by -> [drew[s] EXCEPT !.own = @ + 1]
                     [] OTHER -> [drew[s] EXCEPT !.others = @ + 1]]
    /\ UNCHANGED <<schema, library, granted, holder, suite, moved>>

FileDraws(s) == pc[s] = "testing" /\ Draw(s)

\* The file's statements end, in an error or with what was captured of them.
TestFile(s) ==
    /\ Move(s, "testing", "tested")
    /\ \E found \in Documents : document' = [document EXCEPT ![s] = found]
    /\ UNCHANGED <<target, session, saw, before, reports, outcome, history>>

\* looked is history: that the file was rolled back and the sequences were read.
Report(s, found, advanced, looked) ==
    /\ reports' = [reports EXCEPT ![s] =
                       Append(@, [document |-> found, advanced |-> advanced, looked |-> looked])]
    /\ before' = [before EXCEPT ![s] = {}]
    /\ document' = [document EXCEPT ![s] = "none"]
    /\ drew' = [drew EXCEPT ![s] = Nothing]
    /\ UNCHANGED <<target, session, saw, outcome, moved>>

\* sequences_advanced: every sequence on the list is read again.
Advanced(s) == \E was \in before[s] : drawn # was

\* After the rollback.
EndFile(s) ==
    /\ Move(s, "tested", "ready")
    /\ Report(s, document[s], Advanced(s), TRUE)

\* Mutation: what the file recorded counts although its rollback failed.
FileFailsUnnoticed(s) ==
    /\ Move(s, "testing", "ready") \/ Move(s, "tested", "ready")
    /\ Report(s, document[s], FALSE, FALSE)

\* A position cannot be read, the file's connection is lost, its rollback or the
\* second look fails: nothing is known to have advanced, and what the file
\* recorded does not count.
FileFails(s) ==
    /\ Move(s, "testing", "ready") \/ Move(s, "tested", "ready")
    /\ Report(s, "none", FALSE, FALSE)

FilePassed(report) == report.document = "passed"

\* run_suite comes to an end.
EndSuite(s) ==
    /\ Move(s, "ready", "releasing")
    /\ Len(reports[s]) = FileCount
    /\ outcome' = [outcome EXCEPT ![s] =
                       IF \A i \in DOMAIN reports[s] : FilePassed(reports[s][i]) THEN "ok" ELSE "failed"]
    /\ UNCHANGED <<target, session, saw, before, document, reports, history>>

\* Every early return under the lock: a target that is blocked or not as the
\* checkout describes it, a schema that is not recognized, a query or a
\* connection that fails.
Refuse(s) ==
    /\ \E from \in {"locked", "checked", "installing", "ready"} : Move(s, from, "releasing")
    /\ pc[s] = "ready" => Len(reports[s]) < FileCount
    /\ outcome' = [outcome EXCEPT ![s] = "failed"]
    /\ UNCHANGED <<target, session, saw, before, document, reports, history>>

Released(s) == holder' = IF holder = s THEN Nobody ELSE holder

\* Mutation: the answer to the release is not waited for.
ReleaseUnheard(s) ==
    /\ Move(s, "releasing", "done")
    /\ Released(s)
    /\ session' = [session EXCEPT ![s] = "none"]
    /\ UNCHANGED <<schema, library, drawn, granted, saw, before, document, reports, outcome, history>>

\* outcome.and(released): a session that is gone cannot release.
Release(s) ==
    /\ Move(s, "releasing", "done")
    /\ Released(s)
    /\ outcome' = [outcome EXCEPT ![s] = IF session[s] = "open" THEN @ ELSE "failed"]
    /\ session' = [session EXCEPT ![s] = "none"]
    /\ UNCHANGED <<schema, library, drawn, granted, saw, before, document, reports, history>>

\* Giving up before the lock, or on it.
Leave(s) ==
    /\ Move(s, "opened", "done")
    /\ session' = [session EXCEPT ![s] = "none"]
    /\ outcome' = [outcome EXCEPT ![s] = "failed"]
    /\ UNCHANGED <<target, saw, before, document, reports, history>>

(***************************************************************************)
(* Everybody else.                                                         *)
(***************************************************************************)

\* The session that took the lock ends; a suite between two uses of it does
\* not notice.
LoseSession(s) ==
    /\ session[s] = "open"
    /\ session' = [session EXCEPT ![s] = "lost"]
    /\ Released(s)
    /\ UNCHANGED <<schema, library, drawn, granted, pc, saw, before, document, reports, outcome, history>>

\* Another command of the project, under the lock: Deployment.
Deploy ==
    /\ holder = Nobody
    /\ \E n \in Schemas \ {0, schema} : schema' = n
    /\ moved' = moved \cup {s \in Suites : pc[s] # "done"}
    /\ UNCHANGED <<library, drawn, granted, holder, suite, drew>>

ApplicationDraws == Draw(Nobody)

\* The sequence's owner grants or revokes.
Grants ==
    /\ granted' = ~granted
    /\ UNCHANGED <<schema, library, drawn, holder, suite, history>>

\* Somebody takes the reserved name.
TakeName ==
    /\ library = Absent
    /\ library' = Foreign
    /\ UNCHANGED <<schema, drawn, granted, holder, suite, history>>

SuiteStep(s) ==
    \/ Open(s) \/ Acquire(s) \/ Check(s) \/ LookAtLibrary(s) \/ Install(s)
    \/ StartFile(s) \/ TestFile(s) \/ EndFile(s) \/ FileFails(s)
    \/ EndSuite(s) \/ Refuse(s) \/ Release(s) \/ Leave(s)

Next ==
    \/ \E s \in Suites : SuiteStep(s) \/ FileDraws(s) \/ LoseSession(s)
    \/ Deploy \/ ApplicationDraws \/ Grants \/ TakeName

Spec == Init /\ [][Next]_vars

-----------------------------------------------------------------------------
TypeOK ==
    /\ schema \in Schemas
    /\ library \in Libraries \cup {Absent, Foreign}
    /\ drawn \in 0 .. MaxDrawn /\ granted \in BOOLEAN
    /\ holder \in Suites \cup {Nobody}
    /\ pc \in [Suites -> AtWork \cup {"idle", "opened", "locked", "releasing", "done"}]
    /\ session \in [Suites -> {"none", "open", "lost"}]
    /\ saw \in [Suites -> Libraries \cup {Absent}]
    /\ before \in [Suites -> SUBSET (0 .. MaxDrawn)]
    /\ document \in [Suites -> Documents]
    /\ reports \in [Suites -> Seq([document : Documents, advanced : BOOLEAN, looked : BOOLEAN])]
    /\ outcome \in [Suites -> {"none", "ok", "failed"}]
    /\ drew \in [Suites -> [own : Nat, others : Nat, granted : BOOLEAN]]
    /\ moved \subseteq Suites

\* A suite's success is about the schema its checkout describes: nothing was
\* deployed between its check and its end, although its files do not hold the
\* lock and its lock's connection may have been lost meanwhile.  And it is about
\* every file: each recorded that it passed, was rolled back, and had its
\* sequences read again, whatever failed after its last statement.
SuccessIsOfWhatWasChecked ==
    \A s \in Suites : pc[s] = "done" /\ outcome[s] = "ok" =>
        /\ s \notin moved
        /\ Len(reports[s]) = FileCount
        /\ \A i \in DOMAIN reports[s] : reports[s][i].document = "passed" /\ reports[s][i].looked

\* While a suite's session lives, its files run against the schema it checked
\* and the library of its own binary, whatever suites of other releases do.
FilesSeeTheirOwn ==
    \A s \in Suites : pc[s] \in {"testing", "tested"} /\ session[s] = "open" =>
        schema = Wanted[s] /\ library = LibraryOf[s]

\* A file that advanced a sequence is reported to have, unless the runner could
\* not look, or did not list the sequence because the role had no privilege on
\* it when the file began; and no file is, of a sequence that nobody moved.
AdvancesAreReported ==
    [][\A s \in Suites : reports'[s] # reports[s] =>
          LET report == reports'[s][Len(reports'[s])]
          IN  /\ report.looked /\ drew[s].granted /\ drew[s].own > 0 => report.advanced
              /\ report.advanced => drew[s].own + drew[s].others > 0]_vars

\* A schema that is not Zapadka's is dropped only by a suite that looked when
\* there was none.
ForeignIsRefused ==
    [][library = Foreign /\ library' # Foreign =>
          \E s \in Suites : pc[s] = "installing" /\ saw[s] = Absent]_vars

===============================================================================
