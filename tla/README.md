# Zapadka, in TLA+

Zapadka applies SQL migrations to PostgreSQL databases. This directory holds a
specification of the protocol by which its commands share a target database
and a working tree, of what becomes of a migration's scripts between the file
and the server, and of what a run reports; the TLC models that check it; and
proofs of its main safety properties that hold for any number of runs,
checkouts, migrations and scripts.

Paths below are relative to `src/`, the repository.

- [The system](#the-system)
- [What is modelled](#what-is-modelled)
- [What is checked](#what-is-checked)
- [What is proved](#what-is-proved)
- [Disagreements with the comments](#disagreements-with-the-comments)
- [What is not modelled](#what-is-not-modelled)
- [Plan](#plan)

## The system

One binary, no daemon. Every invocation is a process of its own that talks to
PostgreSQL over one connection; the only state processes share is in the
database and in the files of the project. Inside a process one task drives the
connection while the command waits for it, so what can go wrong happens
*between* processes, *between* a process and its PostgreSQL backend, and in the
order in which the backend's messages and its answers arrive.

| Component | Code (`crates/...`) | State it keeps | Operations | What makes it correct |
|---|---|---|---|---|
| Deployment runs | `zapadka/src/commands/{deploy,revert,resolve,baseline,verify}.rs`, `zapadka-pg/src/execute.rs` | the snapshot and the plan of a run; its report | apply, attempt, verify, revert, resolve, baseline | what was planned is still justified when it is executed; rows and evidence change together; nothing is executed twice or lost |
| Deployment lock | `zapadka-pg/src/lock.rs` | a session-scoped advisory lock per project, and one for the ownership of the database | try, poll until a deadline, queue, release | one holder; released however the holder ends |
| Registry | `zapadka-pg/src/registry.rs` | `applied_migrations`, `nontransactional_attempts`, `runs`/`run_events`, the format version, the owning project | create, upgrade, read in one snapshot, record, clear, remove | history is append-only and explains the rows; one project owns a database |
| History check | `zapadka-pg/src/history.rs` | none | plan, compare definitions, check dependencies | nothing is planned on a history the checkout does not agree with |
| Target | `zapadka/src/commands/target.rs` | the opened connection and the state last read | open, refresh, claim and upgrade, preconditions | decisions use the state read under the lock |
| Dependency graph | `zapadka-core/src/graph.rs` | none | build, order, closure, heads, cycles | dependencies first; same order everywhere; every cycle refused |
| Rehash | `zapadka-pg/src/rehash.rs`, `zapadka/src/commands/rehash.rs` | recorded identities | classify, replace all in one transaction | an identity is replaced only by one of the same definition |
| Test suite | `zapadka/src/commands/test.rs`, `zapadka-pg/src/{testrun,capture,testlib}.rs`, `zapadka-pg/sql/*.sql`, `zapadka-core/src/testresult.rs` | temporary tables in a session, a counter, the suite's lock | begin, assert, plan, todo, skip, finish, roll back | every assertion is counted once; no test leaves a trace |
| Status | `zapadka/src/commands/status.rs` | none | read one snapshot without the lock | the report is of one state |
| Discovery, scaffolding, formatting | `zapadka-core/src/migration.rs`, `zapadka/src/commands/{new,init,format}.rs` | files | find and read packages, create them, rewrite scripts | commands leave a project that loads; nothing is rewritten into something else |
| Manifest, configuration, durations | `zapadka-core/src/{manifest,config,duration}.rs` | none | parse, validate | a pure function of the text |
| Lint, classification, parser | `zapadka-core/src/lint.rs`, `zapadka-parser/src` | none | parse, classify, refuse, warn, apply the policy | no script leaves the transaction it is run in; losses are announced |
| Connection | `zapadka-pg/src/{connect,service}.rs` | the server's messages and a cursor in them | resolve options, connect, collect and hand out messages | each message is reported with the script that caused it |
| Session, reports | `zapadka/src/{session,human,main,cli}.rs`, `zapadka-core/src/{report,error}.rs` | the report of a run | collect, render, exit | exit code, output and database tell the same story |
| Tooling | `xtask`, `fuzz` | none | build, fuzz | not part of the program |

How they interact: a command opens a *target* (connection plus a first read of
the *registry*), takes the *lock*, reads the registry again, plans with
*history* and *graph*, executes one migration at a time through *execute*,
which writes rows and events in the same transaction as the migration's SQL
wherever PostgreSQL permits, and releases the lock by an explicit call whose
failure is irrelevant because closing the connection does the same.

What is hard about it:

- **Interleavings.** Two people deploy, revert and verify at once, from
  checkouts that differ. The first read of the registry is before the lock.
- **Orphans.** A client that dies leaves a backend behind. The backend holds
  the lock and goes on executing the statement it was given. A nontransactional
  statement (`CREATE INDEX CONCURRENTLY`) may take effect, in whole or in part,
  after nobody is listening.
- **Unknown outcomes.** The answer to a `COMMIT` or to a nontransactional
  statement may never arrive.
- **Partial failure.** The third of five migrations fails: two are applied, one
  failed, two must be reported as skipped.
- **Scripts.** A file written by somebody else is sent to the server as it is.
  `COMMIT` in a verification, `DISCARD ALL` in a nontransactional deploy or a
  statement that a block refuses would each break something the run relies on.
- **Files.** Nothing locks the working tree. Commands read and write it file by
  file beside each other, an editor, failing disks and kills.
- **Waiting.** A run polls for the lock until a deadline or queues without one;
  neither may wait for something that does not happen.

Each hazard, with its line and the properties that are about it, is in
`PROJECT.json` under `hazards`.

## What is modelled

### `MigrationLedger`: the abstract specification

What the registry promises when nobody races: a ledger in which each migration
is absent, attempted or applied, and four operations on it (`Apply`, `Attempt`,
`Settle`, `Revert`) whose guards read the ledger itself. There are no runs,
snapshots, locks or connections in it. Its guards are the policy: nothing
happens beside an unresolved attempt, dependencies are applied first, a
dependency is not reverted under its dependents.

### `Deployment`: the protocol

All five commands, any number of runs (`Runs`), each from one checkout
(`CheckoutOf`). A *definition* is one immutable version of one migration
(`IdOf`), so two checkouts that disagree hold different definitions of the same
id; comparing recorded hashes becomes comparing definitions.

State and where it lives:

| Variables | In the code |
|---|---|
| `initialized`, `applied`, `attempts`, `history` | the registry's tables, as committed; one element of `history` is the set of events one transaction wrote |
| `effect` | what a migration's SQL has done to the schema: a ghost of the user's tables, which no code reads |
| `holder` | the advisory lock in the server |
| `session` | a run's backend: none, live, or orphan (its client is gone) |
| `pc`, `cmd` | where a run is in its command |
| `snap`, `todo` | the `RegistryState` it last read, and what it has selected and not finished |
| `report` | the per-migration results it will print |

An action is one point at which another process could observe a difference: a
committed transaction, a lock call, a read of the registry, or the client's
decision after an answer. A transaction with several statements is one action,
because nobody else can see inside it; the nontransactional deploy is six
(`AttemptRecorded`, `SendStatement`, `StatementEnds`, `FinishAttempt`,
`RecordFailure`, `OutcomeUnknown`), because everybody can. `DeployCommits` ends
in `"committed"`, where the server has committed and the client does not know:
`DeployAcknowledged` is the answer, and `Disconnect` may come instead.

Choices that are the environment's are nondeterministic: a script succeeds or
fails; a statement that fails leaves nothing or part of its work; a best-effort
event (`let _ = self.record(...)`) is written or not; `wait_for_lock` is zero
(queue) or not (poll), and a poll may expire at any time; a claim of the
registry fails because its own lock is contended. `Refuse` stands for every
early return between the read under the lock and the first write, dry runs
included: a dry run decides nothing the real run does not, and stops there.

`Disconnect` may happen in any state in which the connection is open.
`OrphanExits` ends the backend, killed in the middle of its statement or not.
An orphan takes no client's step, but `StatementEnds` and `GrantQueued` are the
server's and go on without a client.

`Init` starts from an empty database, with or without a registry; every other
state is reached by running commands. A graph is what `Graph::build` accepts
(`GraphAssumption`): unique ids, dependencies present, an order that puts them
first.

### `DatabaseClaim` and `OwnershipClaim`: whose database it is

`Deployment` is one project in one schema. `OwnershipClaim` is what comes
before that: projects that have agreed on nothing, not even what the registry's
schema is called, run against one database with binaries of different releases.
A project's runs take turns on a lock derived from the project's id; creating
or upgrading the registry happens under a second lock, common to all projects,
taken while the first is held and given back before the command goes on
(`claim_and_upgrade`).

| Variables | In the code |
|---|---|
| `registry` | the row of `meta` in each schema: project and format |
| `held` | both kinds of advisory lock, by key |
| `session`, `pc`, `cmd` | as in `Deployment` |
| `snap` | the part of `RegistryState` that `read_snapshot` took from `meta` |

A read of the registry and the search of the whole database for an owner are
two actions, in `open` and in `refresh_state` alike (`Open`/`OpenChecked`,
`Refresh`/`RefreshChecked`), because nothing holds the two together. `acquire`
of either lock is `Acquire`, `AwaitTurn` and `Grant`, with the key and the
places in the command as parameters. `Upgraded` decides from the *snapshot*
which steps run, as `upgrade` does; the steps create tables and columns without
`IF NOT EXISTS`, so they succeed only on the registry the snapshot described.
`rehash` upgrades without the ownership lock, in its own transaction, and only
a registry that exists. What a command does once the registry is its own is the
single state `"working"` here: that is `Deployment`.

`DatabaseClaim` is the promise: claimed once, by one project, in one schema;
afterwards only the format moves, upward.

### `MigrationGraph`: build and closure

`Graph::build` and `closure_of`, one action per turn of each loop, over every
set of manifests that `Migration::read` and `discover` accept (`Init`):
dependencies on migrations that do not exist and cycles included. Ids are
numbers, in the order UUIDv7 gives them. `Place` is the body of Kahn's loop
with the choice of `next` left open; `PlaceNext` makes the choice the code
makes. The depth-first stack of `closure_of` is a set, of which any element may
be next, and `find_cycle` may follow any stuck dependency rather than the first
listed: the properties hold for either order, so the order of a manifest's list
is not modelled.

### `DefinitionIdentity`: what a definition is compared by

In `Deployment` a definition is a model value, equal to itself. Here it is what
the registry holds: a hash with the name of its algorithm. A source is one
version of a migration's manifest and `deploy.sql`; `Shape` is its canonical
parse tree and `Terms` its dependencies and transaction mode, so `Raw(s)`
identifies the source and `Structural(s)` everything of the same shape and
terms. Hashes are injective; nothing else is assumed of the parser.

| Variables | In the code |
|---|---|
| `format`, `applied`, `attempts` | `meta` and the two tables, each row with the source that ran and its identity |
| `events` | `rehash_events` |
| `holder`, `pc`, `graph`, `snap` | the lock; where each rehash is, the sources it read and the state it planned from |

`Acquire`, `Plan`, `Commit`, `Abort`, `End` are `commands::rehash::run`: the
state is read again under the lock, classified (`Fits`, `AlreadyCurrent`,
`MayMove`), refused as a whole or converted in one transaction with its audit.
The other commands keep the lock from their read to their commit, so each is one
step (`Record`, `Resolve`, `Revert`); what happens inside them is `Deployment`.
`Init` is any registry an older release may have left: no algorithm column yet,
and maybe one interrupted attempt.

### `TestCapture`: one test file

The assertion library is PL/pgSQL that writes rows into temporary tables; the
runner reads them in the same transaction and rolls it back. A file is any
sequence of calls, some of them in exception blocks: the library's own, around
the statement that `throws_ok`, `throws_like`, `throws_matching` and `lives_ok`
are given, and a file's. PostgreSQL makes each block a subtransaction, so
`Enter` saves the tables, `Return` keeps what was written, and `Raise` restores
what was saved; in both cases the assertion records its own row outside the
block, under the todo in force there.

| Variables | In the code |
|---|---|
| `db` | `__zapadka_assertion`, `__zapadka_note` and the one row of `__zapadka_run` (`declared` is `plan_mode`; `present` is false once the file removed the row) |
| `blocks` | PL/pgSQL's blocks, with the tables as they were on entry |
| `verdict` | what `run_inner` and `TestDocument::passed` make of the file |
| `ran`, `undone`, `covers`, `plans` | history: each assertion's real outcome, which of them were undone, what each todo was declared for, which plans stand |

An assertion's comparison is true, false or NULL; which comparison it is, and
what it reports of its operands, is not modelled. `Abort` is an error that
leaves the file: then nothing is read at all. What a file writes into the
library's tables behind its back is limited to removing the runner's row, which
the runner expects (`Destroy`). Calls that a missing row makes void (an `UPDATE`
of nothing) change nothing, and are left out.

### `TestSuite`: the suite and its surroundings

`zapadka test` from several machines, each with the library its binary carries
(`LibraryOf`) and the schema its checkout describes (`Wanted`), beside
deployments of the same project, applications that draw from the same sequence,
and somebody who takes the name `zapadka_test`.

| Variables | In the code |
|---|---|
| `schema` | what is deployed, a number; 0 if nothing ever was |
| `library` | what is in the schema `zapadka_test`: nothing, somebody's own, or the library of a release |
| `drawn`, `granted` | the position of one sequence, and whether the suites' role has `USAGE` or `UPDATE` on it |
| `holder`, `session`, `pc` | the project's lock, the connection that took it, and where the suite is |
| `saw`, `before` | what `installed` found; the list `snapshot_sequences` made, with the position it read or empty |
| `document` | what the file recorded, in `captured`, before its rollback |
| `reports`, `outcome` | `session.tests` and the result of `run` |
| `drew`, `moved` | history: who drew while a file ran and whether it began with the sequence granted; beside whom a deployment ran |

A file runs on a connection of its own, so `StartFile`, `FileDraws`, `TestFile`
and `EndFile` do not need `session`; `LoseSession` may happen anywhere, and the
suite only notices when it uses that connection again, which after the
installation is at `Release`. `Deploy` is another command of the project and
takes the lock for its whole length (`Deployment`), so it is one step that needs
the lock to be free.

`snapshot_sequences` lists the sequences on which the role holds `USAGE` or
`UPDATE`, outside of `zapadka_test`, and `sequences_advanced` reads those on the
list again (`Listed`, `Advanced`). What a file can draw from is another matter:
PostgreSQL asks for no privilege on the sequence of an identity column, and a
function of the owner draws as its owner, so `FileDraws` does not ask for
`granted`, and `Grants` may change it at any time. A file is taken in three steps,
since what it recorded counts only after its rollback and the second look:
`TestFile` ends its statements, `EndFile` is the rest of `run_inner`, and
`FileFails` every early return of it, at which nothing is known to have advanced
and there is no document. In a report, `looked` is history and says which it was.

### `ScriptRules` and `ScriptRuns`: from a file to the server

`ScriptRules` is the classification of statements, the errors of `lint`, its
warnings and the policy on them, as operators: `Kind` is `classify`, `Risks` is
`risks`, `ScriptErrors` and `Warnings` are what `check` collects, `Severity` is
`apply_policy`. A parse-tree node is a record with its type and the fields that
are not zero, as the parser writes it; names, positions and hints are left out.

`ScriptRuns` sends scripts. One migration is deployed, verified, reverted and
tested; a process reads each file once, and any file may have been edited since
the last command, so `Start` picks what the command finds. What is refused
there (`MayRun`) is what the commands refuse before they have begun; `Sound` is
the second look, just before a script is sent.

| Variables | In the code |
|---|---|
| `row` | the migration in the registry: none, an attempt, applied |
| `pc`, `cmd`, `files`, `terms`, `queue`, `report` | the process: what it read, the scripts it has still to run, the entries it made |
| `tx`, `readonly`, `dirty`, `at`, `lock` | the backend: its transaction block, what is in it, the statement it has reached, the session's advisory lock |
| `stream`, `inbox`, `cursor` | notices on their way, `ServerMessages`, `message_cursor` |
| `kept`, `drew`, `said` | history: which scripts left rows, drew from a sequence, raised how many notices |

`Execute` and `Reject` are PostgreSQL on one statement, and external: a simple
query of several statements is a block, some statements are refused in a block
or in a read-only transaction, `COMMIT` ends a block that the runner believes to
be its own. `Pump` is the driver task, which hands over one message at a time;
the answer comes after every notice before it, but the connection may go
(`Lose`) with notices still under way. `DiscardStmt` is `DISCARD ALL`, the only
form that releases locks; that `pg_advisory_unlock` can be called from a script
is not modelled, nor are notifications from other sessions.

### `Checkout`: the working tree

`init`, `new`, `format` and the loading with which every command begins, by
processes that know nothing of each other. Directories are numbered in the order
of their names, and `NameId` is the id a name begins with: in the instance two
directories claim the same one.

| Variables | In the code |
|---|---|
| `config`, `folders`, `packages` | `zapadka.toml`, the two folders that `init` makes, the directories under `migrations` with their files |
| `procs` | each process, and in it what it has read |
| `runs`, `edits` | bounds |
| `used`, `spoilt` | history: the directories there have been, and those an author, or a kill or a failure in the middle of `new`, left in a state no command answers for; `Root` among them if it was `zapadka.toml`, by a kill or a failed write of `init` |

A read or a write of a file is one action, except that creating a file and
filling it are two, so that others find it `Cut`. The names that
`MigrationGraph` has too carry the module's (`CheckoutSpec`, `checkoutVars`),
since one module of proofs extends both. `format` writes to a
temporary name and renames, which is one step (`Writes`). An author saves a
script, changes a manifest, deletes a script or copies a package (`Saves`,
`Edits`, `Copies`), and any process may be killed (`Dies`). Every file and folder
that `init` makes may fail (`InitFails`): it cleans nothing up, so a
configuration that was created and not filled stays. A file that cannot be read,
arguments that are refused and a package directory that cannot be made end a
command before it has changed anything (`GivesUp`). The formatter is one function, `Pretty`, and the
canonical tree another; in the instance one text needs a second pass and one is
formatted into something else. That the deparser has nothing to change in what
it has written four times (`Settles`) is assumed of it, as the comment in
`zapadka-parser/src/lib.rs:118` expects and the corpus tests there show of their
texts: it is a property of libpg_query, and all that the model takes from it.
`verify.sql`, the SQL of test files and the
normalisation of slugs are left out.

### `RunReport`: one invocation, from outside

What a run did to the registry, what it recorded, what it printed, and with
which code it exited. The other modules say how a command does its work; here a
step of a command is the set of its outcomes, with the entry it records and the
error it stops with. A command passes its `Stages` in order, each of which may
refuse it with the errors that the code there can return (`Refusals`) and must
when it finds the reason (`MustRefuse`). The rest is the reporting itself:
`Report`, `Render` (human output, item by item), `Output` (human, quiet or
JSON), and `Emit`, in which any write and the flush may fail.

`status` reads one repeatable-read snapshot without the lock and writes nothing,
so beside other runs it is a single step; `StatusWork` is that step.

### Modules

| Module | What it is |
|---|---|
| `MigrationLedger` | abstract specification |
| `Deployment` | the protocol, its properties, the inductive invariant |
| `MCDeployment` | finite instances for TLC |
| `DeploymentProofs` | types, the inductive invariant, every safety property and the refinement, proved |
| `DatabaseClaim` | abstract specification |
| `OwnershipClaim` | the claim under two locks, its properties, the inductive invariant |
| `MCOwnershipClaim` | finite instances for TLC |
| `OwnershipProofs` | all its safety properties and the refinement, proved |
| `MigrationGraph` | the graph's algorithms, what they mean, their loop invariants |
| `MCMigrationGraph` | all small graphs, for TLC |
| `DefinitionIdentity` | hashes, their algorithms, and rehash |
| `MCDefinitionIdentity` | two migrations with six sources, for TLC |
| `IdentityProofs` | the inductive invariant and all six properties, proved |
| `TestCapture` | one test file: the library's rows under exception blocks, and the runner's verdict |
| `MCTestCapture` | all short files, for TLC |
| `CaptureProofs` | what the rows of a file of any length say, proved |
| `TestSuite` | suites, their lock, the library's installation, sequences |
| `MCTestSuite` | two suites of different releases, for TLC |
| `SuiteProofs` | the inductive invariant and all properties of `TestSuite`, proved |
| `ScriptRules` | classification, errors, warnings and policy, as operators |
| `ScriptRuns` | scripts before, on and after the server; messages |
| `MCScriptRuns` | a script for every kind of statement treated in a way of its own, for TLC |
| `ScriptProofs` | the inductive invariant and all six properties of `ScriptRuns`, proved |
| `Checkout` | the working tree under `init`, `new`, `format`, loading, authors and kills |
| `MCCheckout` | four directories, five texts, for TLC |
| `ProjectProofs` | what the graph's algorithms compute, the four properties of `Checkout`, and that both mean the same by a graph that is accepted, proved |
| `RunReport` | one invocation: outcomes, report, output, exit code |
| `MCRunReport` | two migrations and two test files, for TLC |
| `ReportProofs` | all four properties of `RunReport`, proved |

Definitions whose comment begins with `Mutation:` or `Mutant:` are wrong on purpose: each is a
plausible mistake in the definition after it, and exists to show that the
property named in `PROJECT.json` would notice.

## What is checked

The runs of `Deployment` use two migrations, `b` depending on `a`, the least for
which order, dependents and skipping exist. `"b1"` and `"b2"` are two versions of `b`.

| Run | Instance | Question |
|---|---|---|
| `deployment` | two runs, all five commands, checkouts `main` (b1, nontransactional) and `edited` (b2, transactional), under `FairSpec` | Does what a run planned stay justified while it executes (`LockedPlansHold`)? Are rows closed under dependencies and attempts exclusive (`RegistryIsSound`)? Does only the lock's holder write (`OnlyHolderWrites`)? Does a run's report account for what it did (`ReportAccountsForAll`)? Do the rows implement `MigrationLedger` (`ImplementsLedger`)? Does every run end (`EveryRunEnds`)? |
| `recovery` | three runs from one checkout, all commands but baseline, b nontransactional | After any losses, does the history explain the rows (`HistoryExplainsRows`), is every effect on the schema accounted for (`EffectsAccountedFor`), is a verification ever recorded of something not applied (`VerifiedWhileApplied`)? |
| `ownership` | runs `r1`, `r2` of project p, formats 2 and 3, schema s; `r3` of project q, schema t; under `FairSpec` | Is there ever more than one registry (`SoleRegistry`), does anyone work in a database that is not its own, or beside someone else (`WorkersOwnTheDatabase`), and do the claims implement `DatabaseClaim` (`ImplementsClaim`)? Can two nested locks and clients that die in their queues leave anyone waiting for good (`EveryRunEnds`)? |
| `graphs` | every graph over ids 1 to 4, and over every subset of them, under fairness of the function's own steps | Is the order sound and the same everywhere (`OrderIsRight`: dependencies first, ties by age)? Is every cycle refused, and no other graph, and is the cycle reported one (`VerdictIsRight`)? Is a closure least and in order (`ClosureIsLeast`), and do `build` and `closure_of` return (`Terminates`)? |
| `rehash` | two runs of rehash, any number of other commands; a1, a2 (other comments), a3 (other SQL), a4 (does not parse); b1 depends on a, b2 does not | Does a hash of bytes ever come back after a conversion (`OneWay`)? Is each identity that of the source which ran, or on record as an operator's word (`IdentityIsExplained`)? Is the plan current when it commits (`PlanIsCurrent`), and can everyone who could deploy still do so (`RehashKeepsCheckouts`)? |
| `test_file` | every file of up to four calls, with the numbers 0, 1 and 2 for plan, todo and skip | Does a file that passed report everything it ran outside blocks that raised, as it was (`PassedReportIsWhole`)? Are numbers, todos, plans and notes what the rows that stand say, whatever was undone (`RecordsAreRight`)? |
| `test_suite` | two suites of two files, of different libraries and checkouts; one draw from the sequence, granted and revoked at any time | Is a success about the schema that was checked and about every file, whole and rolled back (`SuccessIsOfWhatWasChecked`)? Does a file ever run on another release's library (`FilesSeeTheirOwn`)? Is an advance of a sequence on the list reported, and nothing else (`AdvancesAreReported`)? |
| `scripts` | one migration, every command any number of times; 34 scripts for `deploy.sql` and the ones that matter for the others; both modes, every policy on destructive statements | Are a script's rows and the row that says it ran there together (`RowsAndRowAgree`)? Does any script make the session give up the deployment lock (`LockOutlivesTheScripts`)? Can a verification pass that ran nothing (`NoFalseGreen`)? Does every message reach the entry of its own script (`MessagesBelong`)? Is every loss of rows on record, and none that was denied (`LossIsOnRecord`)? Does a script that passed the checks fit the mode it runs in (`ModesFit`)? |
| `checkout` | two processes, two commands and one author's edit; four directories, two of which claim one id; five texts | When all is quiet, does the project load, its configuration included, and is every script whole (`CommandsLeaveAProject`)? Does `format` keep what a script says (`FormatKeepsStructure`)? Does an `init` ever replace the identity of a project (`InitLeavesAProjectAlone`)? Does a new migration come after every one it read, by as few dependencies as that takes, whatever was added meanwhile (`NewComesLast`)? |
| `reports` | every command, from every registry of two migrations in which at most one attempt is open, with two test files | Do exit code, last line and outcome agree (`ExitTellsTheOutcome`)? Has a run that may simply be repeated changed anything (`RetryIsSafe`)? Is every entry true and every change an entry (`EntriesAreTrue`)? Is every error of a migration shown, once (`ErrorsAreShownOnce`)? |
| `lost_results`, `hidden_error` | the same files; the same reports | see [Disagreements with the comments](#disagreements-with-the-comments) |

No run checks a type invariant. Those of `Deployment`, `OwnershipClaim`,
`MigrationGraph`, `DefinitionIdentity`, `TestSuite` and `Checkout` are proved as
theorems, and what the variables of `TestCapture`, `ScriptRuns` and `RunReport`
hold is part of the invariants proved of them.

**Bounds.** Each run performs one command, as an invocation does, so behaviours
are finite without any cap: `history` is not bounded by a guard. Two runs are
enough for one run to act on what another has changed; `recovery` has a third,
so that something can be deployed, dropped and found again. A run stops when its command has ended, and when all have ended the
system stops: hence `CHECK_DEADLOCK FALSE`. That no run stops *earlier* is
`EveryRunEnds`. Symmetry is used where all runs start from one checkout and no
liveness is checked. Formats 2 and 3 are the last two that were written; two of
them give an upgrade, a refusal of the newer, and a creation in either. Four
migrations are enough for two that are ready at once, a diamond, a cycle with a
way into it, and a cycle beside an acyclic part. `MCMigrationGraph` starts
`current` and `asked`, which have no value before they are first assigned, at
one arbitrary id rather than at each. `MaxCalls` bounds the length of a test file:
four calls hold a todo of two with an assertion beyond it, an assertion in a
block in a block, and an assertion undone with a note, a plan or a todo of its
own beside it (the calls that end a block are not counted). `MaxDrawn` bounds
the sequence: what matters is whether it moved while a file ran, and by whom it
was moved. `FileCount` 2 is a file after
another. `MaxMessages` 2 is a script that speaks before and after another
message is read. In `Checkout`, `MaxRuns` 2 and `MaxEdits` 1 give each pair of
commands beside each other with an edit anywhere between; the processes are
interchangeable, hence the symmetry (no liveness is checked). The texts are one
that is formatted already, one that takes two passes, the one between, one the
formatter gets wrong and one that does not parse. `RunReport` needs no bound: a
run ends. Two migrations are one that failed and one that is skipped, or one
that succeeded and one that fails. The largest run is `test_suite`, with seven and a
quarter million distinct states in a minute and a half; `checkout` has four and a
half.

**Fairness.** `Fairness` asks only for what the processes and the server do by
themselves: a connected client takes its next step; a free lock is granted to a
backend queued for it; a statement ends (PostgreSQL's own progress, or
`statement_timeout`); a backend whose client is gone notices when it next has
to talk to it. That no run has to be started, no connection has to fail and no
backend has to be killed is the other half: none of `Open`, `Disconnect`, or
`OrphanExits` in the middle of a statement is fair. All of it is weak fairness. A queued run needs no
more: PostgreSQL grants the lock to a queued backend before anyone who tries
later can have it only if it is free at that instant, and there are finitely
many runs to overtake it. In `OwnershipClaim` the same is asked of both
locks: `ClientStep` is what a connected client does by itself, `OrphanNotices`
excepts a backend that waits in either queue. In `MigrationGraph` fairness says
that a function, once called, goes on. `ScriptRuns`, `Checkout` and `RunReport`
state none: what they could add is that a process which is not killed goes on.

## What is proved

With TLAPS, for every set of runs, checkouts, migrations and definitions that
satisfies `CatalogAssumption` and `GraphAssumption`:

- `TypeCorrect`: `Spec => []TypeOK`.
- `PlansHold`: `Spec => []LockedPlansHold`, the inductive invariant.
- `DependenciesStayApplied`, `AttemptsAreExclusive`, `PlansStayCurrent`: the
  invariants `AppliedClosed`, `OneUnresolved`, `PlanStaysCurrent`; and
  `RegistriesAreSound`, the first two together, as the run checks them.
- `Implements`: `Spec => Ledger!Spec`.
- `NothingBesideAnAttempt`, `WritersHoldTheLock`: the action properties
  `BlockedUntilSettled`, `OnlyHolderWrites`.
- `HistoryIsTrue`, `VerificationIsOfTheApplied`, `EffectsAreAccountedFor`,
  `DeploysAccountForAll`: the invariants about the history,
  `HistoryExplainsRows`, `VerifiedWhileApplied`, `EffectsAccountedFor`,
  `ReportAccountsForAll`.

**The argument.** `AppliedClosed` is not inductive. To keep it over a deploy one
must know that the migration about to be applied has its dependencies applied,
which is so because it is the *first* of the run's list (`IsNext`), the list is
*exactly* the migrations missing from the rows (`todo[r] = Lacking(r)`), and in
a checkout's order dependencies come first (`GraphAssumption`). The second of
these is a fact about a list made earlier from a snapshot; it survives because
only the run whose backend holds the lock writes (`pc[r] \in UnderLock =>
holder = r`), and it was true when the list was made because the snapshot was
taken under the lock (`pc[r] = "refreshed" => snap[r] = Registry`). `RunInv`
says this for each point of each command: what the next transaction needs in
order to be right. `LockedPlansHold` is `RunInv` of every run, and what the rows
satisfy by themselves (`RowsInv`).

The proof is in two halves. `LedgerStep` shows that from a state that satisfies
the invariant every step of the protocol is a step of the ledger or leaves it
alone; `LedgerKeepsRows` shows that every step of the ledger preserves
`RowsInv`. What remains is that each run's knowledge survives:
`OthersWaitForTheHolder` and `OthersUndisturbed` dispose of all runs but the
one that moved, and `PlanJustified`, `MigrationStepJustified` and
`OtherStepJustified` treat that one. The refinement is then `LedgerStep` again.

**The history.** What a migration's last decision in the history was is a
`CHOOSE` over its positions, so the first half (`VerdictsStand`,
`VerdictAfter`, `LogTells`) is about what one more batch of events changes of it. `Told`
then says of a transaction that its batch tells exactly what it does to each
row, and `StepTells` that every step of the protocol tells or changes neither
rows nor decisions; by which `HistoryExplainsRows` follows, and is the ground
for the rest. `VerificationSound` says what keeps a verification from being
recorded of something else: what a run verifies is still applied, as nobody
else writes while it has the lock. `EffectsHold` adds that an
answer is given after its statement has had all of its effect, and that a
migration in doubt is none that was observed to succeed. `Progress` relates a
deploy's report to its list and to what the run has written, at each point, and
`Accounted` is what is left of it when the run stops.

**Ownership.** For any projects, schemas, formats and runs that satisfy
`SettingsAssumption`: `TypeCorrect`; `ClaimsAreSafe`, the inductive invariant
`ClaimsHold`; `OneRegistry` and `WorkersAlone`, the invariants `SoleRegistry`
and `WorkersOwnTheDatabase`; `ClaimsAreOne`: `Spec => ImplementsClaim`. The
invariant says what a run knows at each point. The part that is easy to miss is
what it knows *between* its read of the registry and its claim, without the
ownership lock: if its own schema no longer looks as it did, then nothing was
there and another *project* has claimed it, since the runs of its own project
are locked out. The check under the ownership lock then refuses, and if it does
not, what is in the schema is what the snapshot said (`LooksLearn`,
`WritesLearn`); `OthersStillKnow` carries that over the steps of others.

**The graph.** For every finite set of ids: `GraphTypes`, `OrderIsSound`,
`OrderIsByAge`, `AcceptsAcyclic`, `WalkFindsItsWay`, `CyclesAreReal`,
`ClosuresAreLeast`, `HeadsAreEnough`, and the invariants of the run,
`OrdersAreRight` and `VerdictsAreRight`, from the loop invariants `LoopsInv`, which
`LoopsAreRight` shows inductive. Kahn's loop keeps each count at the number of
dependencies not placed and `ready` at the stuck migrations with none; for
`TiesBreakByAge`, that whatever is older than what was placed at turn i was
waiting at turn i. That a graph with a cycle is never accepted does not need the
cycle's first migration in the order: a set in which everything depends on
something in the set is never begun (`SetsInv`), and dually a set in which
everything has a dependent in it is never finished, which gives the heads. The
closure is the filter of the order, without recursion: a position comes at the
turn that says how many have come (`Turns`), so what is kept keeps its order
(`ClosureInOrder`).
`OrderIsSound` and `AcceptsAcyclic` together are what `Deployment` assumes of
its graphs (`GraphAssumption`).

**The working tree.** For any number of processes, directories, texts, runs and
edits that satisfy `CheckoutAssumption`: `CheckoutTypes`,
`CommandsAlwaysLeaveAProject`, `InitsLeaveAProjectAlone`, `NewAlwaysComesLast`,
`FormatAlwaysKeepsStructure`. Nothing is locked, so a process can only count on
what nobody can take back. The invariant (`TreeInv`) says what that is.

- `Shaped`: where a process stands says what it holds.
- `LearnedAll`: what each has learned and no one can change. An init that found
  a configuration never writes one; a `new` without `--depends` depends on the
  heads of the graph it read; a `format` read each script once, and every change
  it is about to write was judged against the text it read. The three action
  properties follow from this part.
- `CutsExplained`: a script that is there in part is in a package that somebody
  is filling or taking away, or that is spoilt.
- `Tidy`: while nothing is spoilt, each package that is there is whole or has
  exactly one owner, ids are used in their order, and a manifest names only
  earlier ids (`Fits`). A script that a load or a format has seen stays
  (`Kept`) until its package goes: otherwise a rename could bring one back
  beside a manifest that has none.

When all processes are idle no package has an owner, so all are whole; and the
oldest migration of any part of the graph depends on none of the part
(`WholePackagesLoad`), which is what makes it acyclic without a search. What is
left is the exception that `LoadsWhenQuiet` states: a dependency that was read
while its `new` was failing. `ConfigKnown` says the same of the configuration: one
that is there in part has an `init` about to fill it, or its directory is spoilt,
and nobody has a package before there is one.

`Checkout` takes a graph at once (`GraphValid`) and `MigrationGraph` sorts it.
`LoadersAgree` proves that the verdict is the same on every graph, so that what
the first says of loading holds of the algorithm.

**Identities.** For any runs, migrations, sources, shapes and terms that satisfy
`SourcesAssumption`: `TypeCorrect`, `ConversionIsOneWay`,
`IdentitiesAreExplained`, `PlansStayCurrent`, `StructuralStays`,
`CheckoutsAreKept`. The invariant (`Inv`) adds that a planned batch is still
valid for the rows as they are, that an unresolved attempt is of a migration
that is not applied and has the identity of its own source, and that only runs
past their transaction are in the audit. The last is what tells the events of
*this* commit from older ones in `VerifiedKeepsAll`: a row that was verified
was matched by one source only, so whoever had another could not deploy before.

**Test suites.** For any suites, files, libraries, schemas and length of the
sequence that satisfy `SuitesAssumption`: `TypeCorrect`, `SuccessMeansChecked`,
`FilesRunOnTheirOwn`, `AdvancesReported`, `ForeignRefused`. A success is not
safe at the moment it is decided (`EndSuite`): the session may be gone by then.
`VerdictStands` says that it is deserved *if* the session still lives, which
`Release` finds out; while it lives nothing was deployed, since its suite has
the lock (`LockHeld`). For `AdvancesReported` the position of the sequence is
the one on the list plus every draw since, a file's own or another's
(`DrawsAddUp`), and the list has it if the sequence was granted when the file
began. That a success is of whole files needs `PassesLooked`: a report with a
document that passed is of a file that was looked at. For `ForeignRefused`, a
library that was there when a suite looked is never replaced by anything but a
library (`LookStands`).

**Test files.** For any numbers (`CallsAssumption`) and any length of a file:
`PassedMeansWhole`, `RecordsStayRight`. What is said of the tables must be said
of every copy of them that a block may bring back: `Sound(tables, n, plans, ...)`
says that a set of tables is the record of the first `n` assertions that stand,
and `CaptureInv` that the current tables are it of all assertions, and the ones
saved by each open block of those that had run when it was entered. A block that
raises undoes exactly the assertions since (`RanOn`, `BlocksOn`), which makes
the saved tables the record again.

**Scripts.** For any scripts, manifests, policies and number of messages that
satisfy `ScriptsAssumption`, whatever statements PostgreSQL refuses in a block
besides `DISCARD ALL` (`DiscardAssumption`): `RowsAlwaysAgree`,
`LocksOutliveScripts`, `GreensAreTrue`, `MessagesAlwaysBelong`,
`LossesAreOnRecord`. The invariant (`ScriptsInv`) has three parts, each
inductive beside those before it. `Control` says where a run is, and that the
script in hand has passed its checks: a script in a transaction holds no
transaction control, so the block is still open when the server has executed
it, and the session keeps its lock, since the one statement that drops it is
refused in a block and by the linter outside of one. `Messages` says that what
is in the buffer past the cursor, and what is on its way, is the script's own,
and how many there are. `Rows` says that what a script has written is in its
open block, or is there already when it has none and then beside an attempt.
`ModesAlwaysFit`, the invariant `ModesFit`, needs more of PostgreSQL:
`RefusedAssumption` names the statements that it refuses in a block
(`RefusedByName`), and leaves open those that cannot be told by their parse tree
(`Nameless`). `ForbiddenIsRefused` is that the classifier forbids the same ones.

**Reports.** For any migrations and test files, each listed once
(`ReportAssumption`):

- `RetriesAreSafe`: `RetryIsSafe`. Only a deploy changes the registry before it
  knows how it ends (`Moved`), and of the errors it may meet after that only
  those of an unsound script have a code that invites a retry. A deploy of an
  unsound project does not get past its validation (`Stopped`).
- `ExitIsTheOutcome`: `ExitTellsTheOutcome`, from what the output ends with and
  from `WrittenOrSaid`: a run whose output was not all written exits with 70.
- `ReportsAreTrue`: `EntriesAreTrue`. `EntriesInv` says of each entry what it
  claims, that nothing changed is left out while nothing has failed, and that
  what a deploy has yet to do is as the run found it.
- `ErrorsAreReadOnce`: `ErrorsAreShownOnce`. A run that has not failed has
  blamed no migration (`ErrorsInv`), so that the first to be blamed is the only
  one of which the run's error speaks.

**Only model-checked.** Liveness (`EveryRunEnds`, `Terminates`), which this
prover does not treat. The two properties that the code does not have.

## Disagreements with the comments

Two are shown by a run each.

- `lost_results`. `testresult.rs:11` calls reporting fewer assertions than ran
  "the one failure mode worth engineering against", and `behaviour.sql:11` says
  that the rows "live in the outer transaction and survive". Those of an
  assertion *inside* the statement do not, and because the next number is one
  more than the highest left, `validate` cannot see that they are missing. A
  declared plan that counts them does.
- `hidden_error`. `human.rs:3` calls the human output "a view over the report".
  When a test file fails by an error and not by an assertion (a SQL error, a
  timeout), its line says that it failed and the run's error says how many did;
  the error itself is in the JSON document only.

The others were met while modelling and need no run.

Of deployments:

- `execute.rs:238` says on the failure path of `Runner::deploy` that the
  transaction "has already rolled back". When the `COMMIT` takes effect and its
  answer is lost, it has not: the report says failed, the registry says
  succeeded. The next run sees the migration applied, so nothing is repeated
  (`HistoryExplainsRows`, `ImplementsLedger`).
- `registry.rs:899` says `clear_attempt` is called when "the server refused it
  outright"; no path does that. The attempt of a refused statement stays and has
  to be resolved, which is what `EffectsAccountedFor` needs, as a refused
  statement can leave part of its work.

Of scripts:

- A nontransactional deploy is to be "exactly one statement", but an empty
  `deploy.sql` with `transaction = "forbidden"` is only warned of
  (`lint.rs:217-262`): it is recorded as applied.
- An empty `revert.sql` is a warning when it is deployed and an error when it
  is to be run.
- `SET transaction_read_only = off` is not transaction control to
  `classify.rs:409-418`, so a verification can lift its read-only transaction
  and draw from a sequence, which `execute.rs:789-792` says it cannot. Its rows
  are rolled back all the same (`RowsAndRowAgree`).
- `DROP DATABASE` is not warned of as destructive; `Destroys` is about rows of
  the target's own database.

Of reports:

- After a successful revert, baseline or resolve, the last line of the human
  output is "Nothing to do" (`human.rs:58-156`), since these are not counted.

Of files:

- An `init` that creates `zapadka.toml` and cannot write all of it (`init.rs:67`)
  fails and leaves a file that no command loads; the next `init` answers "this
  project is already initialized" (`init.rs:30`), and with `--allow-existing`
  leaves the file as it is. `new` takes its package away in the same case
  (`new.rs:84`). `LoadsWhenQuiet` has to except it (`Root`): otherwise an `init`
  that opens the file and fails to fill it violates `CommandsLeaveAProject`.
- `new.rs:84-87` writes a package "as a unit" in that a failure takes it away
  again. A command that loads the project meanwhile sees it half made, and is
  refused; a `new` beside it may come to depend on a migration that is then
  taken away, which is the exception in `LoadsWhenQuiet`.
- An `init` that is interrupted between a folder and its `.gitkeep` never writes
  that file: the next one finds the folder there.
- `format` replaces a file by the formatted form of what it *read*: an edit
  saved between is lost. The exception in `FormatKeepsStructure` says so.

Of tests:

- `testrun.rs:27` says that "a run that advances a sequence says so, naming it",
  and `testrun.rs:209` that no test could move a sequence which is not listed. An
  identity column or a function of the owner does, without a privilege of the
  role, and the run does not name it. `AdvancesAreReported` has to except it
  (`granted`): without, it is violated by a file that begins without the grant,
  draws and ends.
- `core.sql:133` says a todo "covers a fixed number of assertions";
  `todo(why, 0)` covers one.
- `testlib.rs:278` says that `installed` has proved the schema to be Zapadka's
  before `install` drops it. If there was none, it proved nothing of the one
  that is there by then.
- `test.rs:21` says that a suite "restores sequence positions after each file";
  `testrun.rs:20` explains why it only reports them.
- `test.rs:25` says that "every per-file connection runs inside" the lock;
  nothing ties the two connections together, and when the lock's is lost the
  files go on without it, in a suite that can no longer succeed
  (`SuccessIsOfWhatWasChecked`).

## What is not modelled

- Collisions of hashes: that equal hashes mean equal definitions is assumed.
- The text of errors and reports, beyond which error is shown where.
- Parsing of TOML, durations, policies, connection strings and SQL: pure
  functions of a text, of which the models take the result. The grammar and the
  binding to it (`zapadka-parser/src/lib.rs`, the FFI) are libpg_query's. The
  deparser is an assumed function of texts.
- Choosing a target, TLS, and PostgreSQL's own protocol.
- An operator who changes the registry by hand, or drops the schema.
- A PostgreSQL crash that loses committed transactions.
- Scripts that call the server's own functions on locks or sessions, and
  notifications of other sessions.
- Which comparison an assertion makes, and how its operands are shown (the other
  files of `zapadka-pg/sql`).
- `xtask` and `fuzz`, which are not part of the program.

## Plan

Done, in this order, each with its runs:

1. `MigrationLedger`, `Deployment`, `DeploymentProofs`.
2. `DatabaseClaim`, `OwnershipClaim`, `OwnershipProofs`.
3. `MigrationGraph`.
4. `DefinitionIdentity`, `IdentityProofs`.
5. `TestCapture`, `CaptureProofs`; `TestSuite`, `SuiteProofs`.
6. `ScriptRules`, `ScriptRuns`, `ScriptProofs`.
7. `Checkout`; `ProjectProofs`, of it and of `MigrationGraph`.
8. `RunReport`, `ReportProofs`.

Left:

- `duration`: arithmetic at its bounds.
