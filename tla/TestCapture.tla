----------------------------- MODULE TestCapture -----------------------------
(***************************************************************************)
(* One test file, as the assertion library records it in the database and  *)
(* as the runner reads it back.  A file is any sequence of calls of the    *)
(* library, with exception blocks around some of them: each is a           *)
(* subtransaction, and what the library wrote in it goes when it raises.   *)
(***************************************************************************)
EXTENDS Naturals, Sequences, FiniteSets

CONSTANTS
    Counts,        \* the numbers a file gives to plan, todo and skip
    MaxCalls,      \* the calls a file makes
    None, Skipped

ASSUME CallsAssumption == Counts \subseteq Nat /\ MaxCalls \in Nat /\ {None, Skipped} \cap Nat = {}

VARIABLES
    db,            \* the capture tables
    blocks,        \* the exception blocks the file is in, outermost first
    verdict,       \* what the runner made of the file
    ran,           \* history: whether each assertion held, in order
    undone,        \* history: the assertions in blocks that raised
    covers,        \* history: the how_many of each todo, None if unlimited
    plans          \* history: the plans declared in blocks that did not raise

capture == <<db, blocks, verdict>>
history == <<ran, undone, covers, plans>>
vars == <<capture, history>>

Kinds == {"throws_ok", "lives_ok", "plain"}

\* What an assertion's comparison comes to.
Outcomes == {"true", "false", "null"}

\* A row of __zapadka_assertion, with the assertion it is of and its directive.
Assertion(number, of, passed, directive) ==
    [number |-> number, of |-> of, passed |-> passed, directive |-> directive]

Numbers(rows) == {rows[i].number : i \in DOMAIN rows}

Highest(rows) == CHOOSE n \in Numbers(rows) \cup {0} : \A k \in Numbers(rows) : k <= n

NextNumber(rows) == Highest(rows) + 1

NoTodo == [reason |-> None, remaining |-> None]

\* _begin_run
Init ==
    /\ db = [assertions |-> <<>>, notes |-> <<>>, plan |-> None, declared |-> FALSE,
             todo |-> NoTodo, present |-> TRUE]
    /\ blocks = <<>>
    /\ verdict = "running"
    /\ ran = <<>>
    /\ undone = {}
    /\ covers = <<>>
    /\ plans = {}

Calls == Len(ran) + Len(covers) + Len(db.notes) + Len(blocks)

Running == verdict = "running" /\ Calls < MaxCalls

(***************************************************************************)
(* The library.                                                            *)
(***************************************************************************)

\* Mutation: the last of the assertions a todo covers does not end it.
RemainingOnce(todo) ==
    IF todo.reason = None \/ todo.remaining = None THEN todo
    ELSE IF todo.remaining < 1 THEN NoTodo
    ELSE [todo EXCEPT !.remaining = @ - 1]

Remaining(todo) ==
    IF todo.reason = None \/ todo.remaining = None THEN todo
    ELSE IF todo.remaining <= 1 THEN NoTodo
    ELSE [todo EXCEPT !.remaining = @ - 1]

\* Mutation: only what is known to be false fails.
NullPasses(outcome) == outcome # "false"

\* coalesce(passed, false)
Holds(outcome) == outcome = "true"

\* _record, into the tables as they are.
Record(tables, outcome) ==
    /\ db' = [tables EXCEPT
                 !.assertions = Append(@, Assertion(NextNumber(@), Len(ran) + 1, Holds(outcome),
                                                    tables.todo.reason)),
                 !.todo = Remaining(@)]
    /\ ran' = Append(ran, outcome = "true")

Check(outcome) ==
    /\ Running
    /\ Record(db, outcome)
    /\ UNCHANGED <<blocks, verdict, undone, covers, plans>>

\* todo(why, how_many) and todo_start(why): the reason names the call.
Todo(howMany) ==
    /\ Running /\ db.present
    /\ covers' = Append(covers, howMany)
    /\ db' = [db EXCEPT !.todo = [reason |-> Len(covers) + 1, remaining |-> howMany]]
    /\ UNCHANGED <<blocks, verdict, ran, undone, plans>>

TodoEnd ==
    /\ Running
    /\ db' = [db EXCEPT !.todo = NoTodo]
    /\ UNCHANGED <<blocks, verdict, history>>

Skip(howMany) ==
    /\ Running
    /\ db' = [db EXCEPT !.assertions =
                  @ \o [i \in 1 .. howMany |-> Assertion(NextNumber(@) + i - 1, Len(ran) + i, TRUE, Skipped)]]
    /\ ran' = ran \o [i \in 1 .. howMany |-> TRUE]
    /\ UNCHANGED <<blocks, verdict, undone, covers, plans>>

\* plan(n), and no_plan() when the count is None.
Plan(count) ==
    /\ Running /\ db.present
    /\ ~db.declared
    /\ db' = [db EXCEPT !.plan = count, !.declared = TRUE]
    /\ plans' = plans \cup {count}
    /\ UNCHANGED <<blocks, verdict, ran, undone, covers>>

Diag ==
    /\ Running
    /\ db' = [db EXCEPT !.notes = Append(@, [after |-> Highest(db.assertions), written |-> Len(ran)])]
    /\ UNCHANGED <<blocks, verdict, history>>

(***************************************************************************)
(* Exception blocks: the library's own, around the statement that          *)
(* throws_ok or lives_ok was given, and a file's.  A statement may call the *)
(* library in its turn.                                                    *)
(***************************************************************************)
Enter(kind) ==
    /\ Running
    /\ blocks' = Append(blocks, [kind |-> kind, saved |-> db, from |-> Len(ran), plans |-> plans])
    /\ UNCHANGED <<db, verdict, history>>

Innermost == blocks[Len(blocks)]

\* A block's last word, recorded outside it under the todo in force there.
Leave(tables, outcome) ==
    /\ verdict = "running"
    /\ IF Innermost.kind = "plain" THEN db' = tables /\ UNCHANGED ran
                                    ELSE Record(tables, outcome)
    /\ blocks' = SubSeq(blocks, 1, Len(blocks) - 1)
    /\ UNCHANGED <<verdict, covers>>

\* The statement ends: for throws_ok that is the failure.
Return ==
    /\ blocks # <<>>
    /\ Leave(db, IF Innermost.kind = "lives_ok" THEN "true" ELSE "false")
    /\ UNCHANGED <<undone, plans>>

\* It raises: the subtransaction is undone and the handler goes on.  What
\* throws_ok was told to expect matches or not, or the comparison is NULL.
Raise ==
    /\ blocks # <<>>
    /\ \E outcome \in Outcomes :
          /\ Innermost.kind = "lives_ok" => outcome = "false"
          /\ Leave(Innermost.saved, outcome)
    /\ undone' = undone \cup (Innermost.from + 1 .. Len(ran))
    /\ plans' = Innermost.plans

\* Whatever the file does to the row the runner made.
Destroy ==
    /\ Running
    /\ db' = [db EXCEPT !.present = FALSE, !.plan = None, !.declared = FALSE, !.todo = NoTodo]
    /\ UNCHANGED <<blocks, verdict, history>>

(***************************************************************************)
(* The runner.                                                             *)
(***************************************************************************)
FailsTheRun(assertion) == ~assertion.passed /\ assertion.directive = None

Valid(document) ==
    /\ \A i \in DOMAIN document.assertions : document.assertions[i].number = i
    /\ document.plan # None => document.plan = Len(document.assertions)

Passed(document) ==
    /\ Valid(document)
    /\ \A i \in DOMAIN document.assertions : ~FailsTheRun(document.assertions[i])

\* The file's last statement has ended; its rows are read before the rollback.
Finish ==
    /\ verdict = "running"
    /\ blocks = <<>>
    /\ verdict' = IF db.present /\ Passed(db) THEN "passed" ELSE "failed"
    /\ UNCHANGED <<db, blocks, history>>

\* An error nothing caught, or a cancelled statement, which no block catches.
Abort ==
    /\ verdict = "running"
    /\ verdict' = "failed"
    /\ UNCHANGED <<db, blocks, history>>

Next ==
    \/ \E outcome \in Outcomes : Check(outcome)
    \/ \E howMany \in Counts : Todo(howMany) \/ Skip(howMany)
    \/ \E count \in Counts \cup {None} : Plan(count)
    \/ Todo(None) \/ TodoEnd \/ Diag \/ Destroy
    \/ \E kind \in Kinds : Enter(kind)
    \/ Return \/ Raise
    \/ Finish \/ Abort

Spec == Init /\ [][Next]_vars

-----------------------------------------------------------------------------
Kept == DOMAIN ran \ undone

TypeOK ==
    /\ \A i \in DOMAIN db.assertions :
          db.assertions[i] \in [number : Nat \ {0}, of : Nat \ {0}, passed : BOOLEAN,
                                directive : Nat \cup {None, Skipped}]
    /\ db.todo.remaining # None => db.todo.remaining \in Nat
    /\ db.plan \in Counts \cup {None}
    /\ verdict \in {"running", "passed", "failed"}
    /\ ran \in Seq(BOOLEAN)

\* "The assertion library numbers rows consecutively from one", whatever was
\* undone between them, so that validate finds a gap only if rows were removed.
NumberingNeverJumps ==
    \A i \in DOMAIN db.assertions : db.assertions[i].number = i

\* A file that passed has in its report every assertion it ran outside blocks
\* that raised, as it turned out, and no failure a todo did not announce.
PassedReportIsWhole ==
    verdict = "passed" =>
        /\ {db.assertions[i].of : i \in DOMAIN db.assertions} = Kept
        /\ Len(db.assertions) = Cardinality(Kept)
        /\ \A i \in DOMAIN db.assertions :
              LET assertion == db.assertions[i]
              IN  /\ assertion.passed = ran[assertion.of]
                  /\ assertion.passed \/ assertion.directive \in DOMAIN covers

\* A todo covers what follows it, and no more than it was declared for.
TodoIsBounded ==
    \A t \in DOMAIN covers : covers[t] \notin {None, 0} =>
        Cardinality({i \in DOMAIN db.assertions : db.assertions[i].directive = t}) <= covers[t]

\* A plan that was declared and stands is the number that ran and stands.
PlanIsHonoured ==
    verdict = "passed" => \A count \in plans \ {None} : count = Cardinality(Kept)

\* A note is of the assertion before it, which is in the report when it is.
NotesFollowTheirAssertion ==
    \A i \in DOMAIN db.notes :
        LET note == db.notes[i]
        IN  /\ note.after \in Numbers(db.assertions) \cup {0}
            /\ \A k \in DOMAIN db.assertions :
                  db.assertions[k].number <= note.after <=> db.assertions[k].of <= note.written

\* The rows the runner reads tell one story, whatever blocks were undone while
\* they were written: their numbers, what the todos and the plan say of them,
\* and which of them each note is about.
RecordsAreRight ==
    /\ NumberingNeverJumps
    /\ TodoIsBounded
    /\ PlanIsHonoured
    /\ NotesFollowTheirAssertion

\* "silently reporting fewer assertions than actually ran is the one failure
\* mode worth engineering against": a file that passed has reported them all.
NothingIsLost == verdict = "passed" => Len(db.assertions) = Len(ran)

===============================================================================
