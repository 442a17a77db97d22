------------------------------ MODULE Deployment ------------------------------
(***************************************************************************)
(* The deployment protocol of Zapadka: every command that changes a target *)
(* (deploy, revert, resolve, baseline) or writes its history (verify),     *)
(* run concurrently from several checkouts against one database.           *)
(*                                                                         *)
(* A run opens a connection, takes the session-scoped advisory lock, reads *)
(* the registry again, plans from what it read, and then executes one      *)
(* migration at a time.  A run can lose its connection at any point: the   *)
(* client then reports a failure while its PostgreSQL backend, still       *)
(* holding the lock, may go on executing a nontransactional statement.     *)
(***************************************************************************)
EXTENDS Naturals, Sequences, FiniteSets

CONSTANTS
    Runs,          \* invocations of the command line
    Commands,      \* the subcommands they may be given
    Checkouts,     \* working trees of the project
    CheckoutOf,    \* the working tree a run starts from
    Migrations,    \* migration ids
    Definitions,   \* immutable definitions: one version of one migration
    IdOf,          \* the migration a definition is a version of
    DependsOf,     \* the ids a definition depends on
    Forbidden,     \* definitions whose manifest says transaction = "forbidden"
    GraphOf,       \* the definitions a checkout holds
    Rank,          \* a checkout's deployment order, as a position per id
    NoRun, NoDef

AllCommands == {"deploy", "revert", "resolve", "baseline", "verify"}

\* What Migration::read gives every definition.
ASSUME CatalogAssumption ==
    /\ Commands \subseteq AllCommands
    /\ IdOf \in [Definitions -> Migrations]
    /\ DependsOf \in [Definitions -> SUBSET Migrations]
    /\ Forbidden \subseteq Definitions
    /\ NoRun \notin Runs
    /\ NoDef \notin Definitions

\* What Graph::build guarantees of a checkout it accepts: one definition per
\* id, every dependency present, and an order with dependencies first.
ASSUME GraphAssumption ==
    /\ CheckoutOf \in [Runs -> Checkouts]
    /\ GraphOf \in [Checkouts -> SUBSET Definitions]
    /\ Rank \in [Checkouts -> [Migrations -> Nat]]
    /\ \A c \in Checkouts : \A d, e \in GraphOf[c] :
          /\ IdOf[d] = IdOf[e] => d = e
          /\ Rank[c][IdOf[d]] = Rank[c][IdOf[e]] => d = e
    /\ \A c \in Checkouts : \A d \in GraphOf[c] : \A m \in DependsOf[d] :
          \E e \in GraphOf[c] : IdOf[e] = m /\ Rank[c][m] < Rank[c][IdOf[d]]

VARIABLES
    \* the database: what COMMIT made durable
    initialized,   \* the registry exists
    applied,       \* applied_migrations: id -> definition recorded
    attempts,      \* nontransactional_attempts: id -> definition attempted
    history,       \* run_events, grouped by the transaction that wrote them
    effect,        \* what each migration's SQL has really done to the schema
    \* the server's sessions
    holder,        \* the session holding the advisory lock
    session,       \* each run's backend: none, live, or orphan (no client)
    \* the clients
    pc, cmd,
    snap,          \* the RegistryState the run last read
    todo,          \* definitions selected and not yet finished
    report         \* per-migration result the run reports

database == <<initialized, applied, attempts, history, effect>>
sessions == <<holder, session>>
vars == <<database, sessions, pc, cmd, snap, todo, report>>

-----------------------------------------------------------------------------
Outside   == {"idle", "opened", "polling", "queued", "done"}
InHand    == {"working", "committed", "attempted", "executing",
              "answered", "refused", "unanswered"}
UnderLock == {"locked", "refreshed", "verifying", "releasing"} \cup InHand

Effects == {"none", "partial", "full"}
Results == {"unreported", "succeeded", "failed", "skipped"}
Outcomes == {"succeeded", "failed", "attempted", "unknown",
             "asserted_applied", "asserted_not_applied"}
Event == [run : Runs, action : AllCommands, outcome : Outcomes, id : Migrations]

Rows == [Migrations -> Definitions \cup {NoDef}]
RegistryState == [initialized : BOOLEAN, applied : Rows, attempts : Rows]

(***************************************************************************)
(* Reading the registry, and the checks the commands make on what they     *)
(* read.                                                                   *)
(***************************************************************************)
Registry == [initialized |-> initialized, applied |-> applied, attempts |-> attempts]

\* history::plan accepts: every applied row is in the checkout, unchanged, and
\* its dependencies are applied too.
PlanOk(c, s) ==
    \A m \in Migrations : s.applied[m] # NoDef =>
        /\ s.applied[m] \in GraphOf[c]
        /\ \A n \in DependsOf[s.applied[m]] : s.applied[n] # NoDef

Pending(c, s) == {d \in GraphOf[c] : s.applied[IdOf[d]] = NoDef}

\* Mutation: verify and revert select from the checkout, not from what is applied.
AppliedUnfiltered(c, s) == GraphOf[c]

Applied(c, s) == {d \in GraphOf[c] : s.applied[IdOf[d]] # NoDef}

Blocked(s) == \E m \in Migrations : s.attempts[m] # NoDef

\* check_revertible's structural half: nothing applied depends on d.
IsLeaf(c, s, d) ==
    \A e \in GraphOf[c] : IdOf[d] \in DependsOf[e] => s.applied[IdOf[e]] = NoDef

DependencyClosed(c, S) ==
    \A d \in S : \A e \in GraphOf[c] : IdOf[e] \in DependsOf[d] => e \in S

\* Mutation: baseline records the named migration without its closure.
NamedOnly(c, d) == {d}

\* closure_of: the least set holding d and the dependencies of its members.
ClosureOf(c, d) ==
    {e \in GraphOf[c] :
        \A S \in SUBSET GraphOf[c] : d \in S /\ DependencyClosed(c, S) => e \in S}

\* Mutation: the migrations are taken in any order.
AnyNext(r, d) == d \in todo[r]

\* The first of the definitions still to do, in deployment order.
IsNext(r, d) ==
    /\ d \in todo[r]
    /\ \A e \in todo[r] : Rank[CheckoutOf[r]][IdOf[d]] <= Rank[CheckoutOf[r]][IdOf[e]]

Log(r, action, outcome, S) ==
    history' = Append(history,
        {[run |-> r, action |-> action, outcome |-> outcome, id |-> IdOf[d]] : d \in S})

\* An event whose failure to be written is swallowed: `let _ = self.record(..)`.
LogBestEffort(r, action, outcome, d) ==
    Log(r, action, outcome, {d}) \/ history' = history

Move(r, from, to) ==
    /\ pc[r] = from
    /\ session[r] = "live"
    /\ pc' = [pc EXCEPT ![r] = to]

\* Mutation: the migrations after a failure are omitted from the report.
StoppedSilently(r, d, result) ==
    [m \in Migrations |-> IF m = IdOf[d] THEN result ELSE report[r][m]]

\* The report after d ends as `result` and the run stops: the rest is skipped.
Stopped(r, d, result) ==
    [m \in Migrations |->
        IF m = IdOf[d] THEN result
        ELSE IF \E e \in todo[r] : IdOf[e] = m THEN "skipped"
        ELSE report[r][m]]

Reported(r, S, result) ==
    [m \in Migrations |-> IF \E d \in S : IdOf[d] = m THEN result ELSE report[r][m]]

-----------------------------------------------------------------------------
Init ==
    /\ initialized \in BOOLEAN
    /\ applied = [m \in Migrations |-> NoDef]
    /\ attempts = [m \in Migrations |-> NoDef]
    /\ history = << >>
    /\ effect = [m \in Migrations |-> "none"]
    /\ holder = NoRun
    /\ session = [r \in Runs |-> "none"]
    /\ pc = [r \in Runs |-> "idle"]
    /\ cmd = [r \in Runs |-> "none"]
    /\ snap = [r \in Runs |-> Registry]
    /\ todo = [r \in Runs |-> {}]
    /\ report = [r \in Runs |-> [m \in Migrations |-> "unreported"]]

(***************************************************************************)
(* Connecting and taking the lock.                                         *)
(***************************************************************************)

\* target::open reads the registry once, without the lock.
Open(r) ==
    /\ pc[r] = "idle"
    /\ \E c \in Commands : cmd' = [cmd EXCEPT ![r] = c]
    /\ snap' = [snap EXCEPT ![r] = Registry]
    /\ IF cmd'[r] \in {"revert", "verify"} /\ ~initialized
         THEN pc' = [pc EXCEPT ![r] = "done"] /\ UNCHANGED session
         ELSE /\ pc' = [pc EXCEPT ![r] = "opened"]
              /\ session' = [session EXCEPT ![r] = "live"]
    /\ UNCHANGED <<database, holder, todo, report>>

\* Mutation: the answer of pg_try_advisory_lock is not looked at.
TryLockUnchecked(r) ==
    /\ Move(r, "opened", "locked")
    /\ holder' = IF holder = NoRun THEN r ELSE holder
    /\ UNCHANGED <<database, session, cmd, snap, todo, report>>

\* The first pg_try_advisory_lock.  When it fails, a zero wait queues in
\* pg_advisory_lock and any other wait polls.
TryLock(r) ==
    /\ IF holder = NoRun
         THEN Move(r, "opened", "locked") /\ holder' = r
         ELSE /\ \E to \in {"queued", "polling"} : Move(r, "opened", to)
              /\ UNCHANGED holder
    /\ UNCHANGED <<database, session, cmd, snap, todo, report>>

Poll(r) ==
    /\ holder = NoRun
    /\ holder' = r
    /\ Move(r, "polling", "locked")
    /\ UNCHANGED <<database, session, cmd, snap, todo, report>>

\* The deadline passes: contention_error, and the connection closes.
PollExpires(r) ==
    /\ Move(r, "polling", "done")
    /\ session' = [session EXCEPT ![r] = "none"]
    /\ UNCHANGED <<database, holder, cmd, snap, todo, report>>

\* PostgreSQL grants the lock to a waiting backend, whose client may be gone.
GrantQueued(r) ==
    /\ pc[r] = "queued"
    /\ holder = NoRun
    /\ holder' = r
    /\ pc' = IF session[r] = "live" THEN [pc EXCEPT ![r] = "locked"] ELSE pc
    /\ UNCHANGED <<database, session, cmd, snap, todo, report>>

\* Mutation: the state read before the lock was taken is trusted.
RefreshSkipped(r) ==
    /\ Move(r, "locked", "refreshed")
    /\ UNCHANGED <<database, sessions, cmd, snap, todo, report>>

\* refresh_state: read again, now that nobody else can change the registry.
Refresh(r) ==
    /\ Move(r, "locked", "refreshed")
    /\ snap' = [snap EXCEPT ![r] = Registry]
    /\ UNCHANGED <<database, sessions, cmd, todo, report>>

\* Mutation: the lock outlives the run.
ReleaseForgotten(r) ==
    /\ Move(r, "releasing", "done")
    /\ session' = [session EXCEPT ![r] = "none"]
    /\ UNCHANGED <<database, holder, cmd, snap, todo, report>>

\* DeploymentLock::release on every path, then the connection closes.
Release(r) ==
    /\ Move(r, "releasing", "done")
    /\ holder' = NoRun
    /\ session' = [session EXCEPT ![r] = "none"]
    /\ UNCHANGED <<database, cmd, snap, todo, report>>

(***************************************************************************)
(* Planning, one action per command.  claim_and_upgrade creates the        *)
(* registry, or fails: its own lock may be contended.                      *)
(***************************************************************************)
Claimed == initialized' = TRUE

Select(r, S) ==
    /\ Move(r, "refreshed", "working")
    /\ todo' = [todo EXCEPT ![r] = S]

\* A check refused, the claim failed, or all that was asked for was a preview.
Refuse(r) == Move(r, "refreshed", "releasing") /\ UNCHANGED todo

PlanDeploy(r) ==
    /\ cmd[r] = "deploy"
    /\ \/ Refuse(r) /\ (UNCHANGED initialized \/ Claimed)
       \/ /\ Claimed
          /\ ~Blocked(snap[r])
          /\ PlanOk(CheckoutOf[r], snap[r])
          /\ Select(r, Pending(CheckoutOf[r], snap[r]))
    /\ UNCHANGED <<applied, attempts, history, effect, sessions,
                   cmd, snap, report>>

PlanRevert(r) ==
    /\ cmd[r] = "revert"
    /\ \/ Refuse(r) /\ UNCHANGED initialized
       \/ /\ snap[r].initialized
          /\ ~Blocked(snap[r])
          /\ PlanOk(CheckoutOf[r], snap[r])
          /\ \E d \in Applied(CheckoutOf[r], snap[r]) :
                IsLeaf(CheckoutOf[r], snap[r], d) /\ Select(r, {d})
          /\ Claimed
    /\ UNCHANGED <<applied, attempts, history, effect, sessions,
                   cmd, snap, report>>

\* The attempt is found in the registry, never in the checkout.
PlanResolve(r) ==
    /\ cmd[r] = "resolve"
    /\ \/ Refuse(r) /\ UNCHANGED initialized
       \/ /\ snap[r].initialized
          /\ \E m \in Migrations :
                snap[r].attempts[m] # NoDef /\ Select(r, {snap[r].attempts[m]})
          /\ Claimed
    /\ UNCHANGED <<applied, attempts, history, effect, sessions,
                   cmd, snap, report>>

PlanBaseline(r) ==
    /\ cmd[r] = "baseline"
    /\ \/ Refuse(r) /\ (UNCHANGED initialized \/ (~Blocked(snap[r]) /\ Claimed))
       \/ /\ ~Blocked(snap[r])
          /\ Claimed
          /\ PlanOk(CheckoutOf[r], snap[r])
          /\ \E d \in GraphOf[CheckoutOf[r]] :
                LET S == ClosureOf(CheckoutOf[r], d) \cap Pending(CheckoutOf[r], snap[r])
                IN  S # {} /\ Select(r, S)
    /\ UNCHANGED <<applied, attempts, history, effect, sessions,
                   cmd, snap, report>>

PlanVerify(r) ==
    /\ cmd[r] = "verify"
    /\ \/ Refuse(r) /\ UNCHANGED initialized
       \/ /\ snap[r].initialized
          /\ ~Blocked(snap[r])
          /\ PlanOk(CheckoutOf[r], snap[r])
          /\ \E S \in SUBSET Applied(CheckoutOf[r], snap[r]) :
                /\ S = {} => Applied(CheckoutOf[r], snap[r]) = {}
                /\ Select(r, S)
          /\ Claimed
    /\ UNCHANGED <<applied, attempts, history, effect, sessions,
                   cmd, snap, report>>

Plan(r) ==
    PlanDeploy(r) \/ PlanRevert(r) \/ PlanResolve(r) \/ PlanBaseline(r) \/ PlanVerify(r)

-----------------------------------------------------------------------------
(***************************************************************************)
(* Runner::deploy: script, applied row and success event in one            *)
(* transaction.  "committed" means the server has committed and the client *)
(* has not yet heard.                                                      *)
(***************************************************************************)
DeployCommits(r, d) ==
    /\ cmd[r] = "deploy" /\ IsNext(r, d) /\ d \notin Forbidden
    /\ Move(r, "working", "committed")
    /\ applied[IdOf[d]] = NoDef                      \* the primary key
    /\ applied' = [applied EXCEPT ![IdOf[d]] = d]
    /\ effect' = [effect EXCEPT ![IdOf[d]] = "full"]
    /\ Log(r, "deploy", "succeeded", {d})
    /\ UNCHANGED <<initialized, attempts, sessions, cmd, snap, todo, report>>

\* The script, or anything after it, fails and the transaction rolls back.
DeployFails(r, d) ==
    /\ cmd[r] = "deploy" /\ IsNext(r, d) /\ d \notin Forbidden
    /\ Move(r, "working", "releasing")
    /\ LogBestEffort(r, "deploy", "failed", d)
    /\ report' = [report EXCEPT ![r] = Stopped(r, d, "failed")]
    /\ UNCHANGED <<initialized, applied, attempts, effect, sessions, cmd, snap, todo>>

(***************************************************************************)
(* Runner::deploy_nontransactional: attempt, statement, outcome, each      *)
(* committed on its own.                                                   *)
(***************************************************************************)
AttemptRecorded(r, d) ==
    /\ cmd[r] = "deploy" /\ IsNext(r, d) /\ d \in Forbidden
    /\ Move(r, "working", "attempted")
    /\ attempts[IdOf[d]] = NoDef                     \* the primary key
    /\ attempts' = [attempts EXCEPT ![IdOf[d]] = d]
    /\ Log(r, "deploy", "attempted", {d})
    /\ UNCHANGED <<initialized, applied, effect, sessions, cmd, snap, todo, report>>

\* A session timeout is rejected, or the attempt cannot be written.
AttemptRefused(r, d) ==
    /\ cmd[r] = "deploy" /\ IsNext(r, d) /\ d \in Forbidden
    /\ Move(r, "working", "releasing")
    /\ report' = [report EXCEPT ![r] = Stopped(r, d, "failed")]
    /\ UNCHANGED <<database, sessions, cmd, snap, todo>>

SendStatement(r) ==
    /\ Move(r, "attempted", "executing")
    /\ UNCHANGED <<database, sessions, cmd, snap, todo, report>>

\* The backend finishes the statement, whether or not a client is listening.
\* A refused statement may leave part of its work behind, as a failed CREATE
\* INDEX CONCURRENTLY does; "unanswered" is an error with no server reply.
StatementEnds(r, d) ==
    /\ pc[r] = "executing" /\ session[r] # "none" /\ IsNext(r, d)
    /\ \/ /\ effect' = [effect EXCEPT ![IdOf[d]] = "full"]
          /\ \E to \in {"answered", "unanswered"} : pc' = [pc EXCEPT ![r] = to]
       \/ /\ \E left \in {effect[IdOf[d]], "partial"} :
                effect' = [effect EXCEPT ![IdOf[d]] = left]
          /\ \E to \in {"refused", "unanswered"} : pc' = [pc EXCEPT ![r] = to]
    /\ UNCHANGED <<initialized, applied, attempts, history, sessions,
                   cmd, snap, todo, report>>

\* finish_attempt: applied row, cleared attempt and success event together.
FinishAttempt(r, d) ==
    /\ IsNext(r, d)
    /\ Move(r, "answered", "committed")
    /\ applied[IdOf[d]] = NoDef                      \* the primary key
    /\ applied' = [applied EXCEPT ![IdOf[d]] = d]
    /\ attempts' = [attempts EXCEPT ![IdOf[d]] = NoDef]
    /\ Log(r, "deploy", "succeeded", {d})
    /\ UNCHANGED <<initialized, effect, sessions, cmd, snap, todo, report>>

\* finish_attempt's transaction fails: no event, and the attempt stays.
FinishFails(r, d) ==
    /\ IsNext(r, d)
    /\ Move(r, "answered", "releasing")
    /\ report' = [report EXCEPT ![r] = Stopped(r, d, "failed")]
    /\ UNCHANGED <<database, sessions, cmd, snap, todo>>

\* Mutation: a refused statement is taken to have done nothing.
RecordFailureAndClear(r, d) ==
    /\ IsNext(r, d)
    /\ Move(r, "refused", "releasing")
    /\ attempts' = [attempts EXCEPT ![IdOf[d]] = NoDef]
    /\ Log(r, "deploy", "failed", {d})
    /\ report' = [report EXCEPT ![r] = Stopped(r, d, "failed")]
    /\ UNCHANGED <<initialized, applied, effect, sessions, cmd, snap, todo>>

\* record_failure: the server refused the statement, and the attempt stays.
RecordFailure(r, d) ==
    /\ IsNext(r, d)
    /\ Move(r, "refused", "releasing")
    /\ LogBestEffort(r, "deploy", "failed", d)
    /\ report' = [report EXCEPT ![r] = Stopped(r, d, "failed")]
    /\ UNCHANGED <<initialized, applied, attempts, effect, sessions, cmd, snap, todo>>

\* outcome_unknown: nobody saw the answer, and the attempt stays.
OutcomeUnknown(r, d) ==
    /\ IsNext(r, d)
    /\ Move(r, "unanswered", "releasing")
    /\ LogBestEffort(r, "deploy", "unknown", d)
    /\ report' = [report EXCEPT ![r] = Stopped(r, d, "failed")]
    /\ UNCHANGED <<initialized, applied, attempts, effect, sessions, cmd, snap, todo>>

\* apply_one: the deploy succeeded, and verification follows unless declined.
DeployAcknowledged(r, d) ==
    /\ cmd[r] = "deploy" /\ IsNext(r, d)
    /\ report' = [report EXCEPT ![r] = Reported(r, {d}, "succeeded")]
    /\ \/ Move(r, "committed", "verifying") /\ UNCHANGED todo
       \/ Move(r, "committed", "working") /\ todo' = [todo EXCEPT ![r] = @ \ {d}]
    /\ UNCHANGED <<database, sessions, cmd, snap>>

\* Verification inside a deploy.  A failure leaves the migration applied.
VerifyDeployed(r, d) ==
    /\ IsNext(r, d)
    /\ \/ /\ Move(r, "verifying", "working")
          /\ todo' = [todo EXCEPT ![r] = @ \ {d}]
          /\ Log(r, "verify", "succeeded", {d}) \/ UNCHANGED history  \* no verify.sql
          /\ UNCHANGED report
       \/ /\ Move(r, "verifying", "releasing")
          /\ LogBestEffort(r, "verify", "failed", d)
          /\ report' = [report EXCEPT ![r] = Stopped(r, d, report[r][IdOf[d]])]
          /\ UNCHANGED todo
    /\ UNCHANGED <<initialized, applied, attempts, effect, sessions, cmd, snap>>

(***************************************************************************)
(* The other commands' transactions.                                       *)
(***************************************************************************)

\* Runner::revert: script, event and removal of the row in one transaction.
RevertCommits(r, d) ==
    /\ cmd[r] = "revert" /\ IsNext(r, d)
    /\ Move(r, "working", "committed")
    /\ applied' = [applied EXCEPT ![IdOf[d]] = NoDef]
    /\ effect' = [effect EXCEPT ![IdOf[d]] = "none"]
    /\ Log(r, "revert", "succeeded", {d})
    /\ UNCHANGED <<initialized, attempts, sessions, cmd, snap, todo, report>>

RevertFails(r, d) ==
    /\ cmd[r] = "revert" /\ IsNext(r, d)
    /\ Move(r, "working", "releasing")
    /\ LogBestEffort(r, "revert", "failed", d)
    /\ report' = [report EXCEPT ![r] = Stopped(r, d, "failed")]
    /\ UNCHANGED <<initialized, applied, attempts, effect, sessions, cmd, snap, todo>>

\* Runner::resolve: the operator's answer replaces the attempt.
ResolveCommits(r, d) ==
    /\ cmd[r] = "resolve" /\ IsNext(r, d)
    /\ Move(r, "working", "committed")
    /\ attempts' = [attempts EXCEPT ![IdOf[d]] = NoDef]
    /\ \/ /\ applied[IdOf[d]] = NoDef                \* the primary key
          /\ applied' = [applied EXCEPT ![IdOf[d]] = d]
          /\ Log(r, "resolve", "asserted_applied", {d})
       \/ Log(r, "resolve", "asserted_not_applied", {d}) /\ UNCHANGED applied
    /\ UNCHANGED <<initialized, effect, sessions, cmd, snap, todo, report>>

\* Runner::baseline: the whole closure in one transaction, no SQL run.
BaselineCommits(r) ==
    /\ cmd[r] = "baseline"
    /\ Move(r, "working", "committed")
    /\ \A d \in todo[r] : applied[IdOf[d]] = NoDef   \* the primary key
    /\ applied' = [m \in Migrations |->
                      IF \E d \in todo[r] : IdOf[d] = m
                        THEN CHOOSE d \in todo[r] : IdOf[d] = m
                        ELSE applied[m]]
    /\ Log(r, "baseline", "succeeded", todo[r])
    /\ UNCHANGED <<initialized, attempts, effect, sessions, cmd, snap, todo, report>>

\* The transaction of a resolve or a baseline fails; nothing is reported.
AssertionFails(r) ==
    /\ cmd[r] \in {"resolve", "baseline"}
    /\ Move(r, "working", "releasing")
    /\ UNCHANGED <<database, sessions, cmd, snap, todo, report>>

\* A revert, a resolve or a baseline is acknowledged, and it was all there was.
Acknowledged(r) ==
    /\ cmd[r] # "deploy"
    /\ Move(r, "committed", "releasing")
    /\ report' = [report EXCEPT ![r] = Reported(r, todo[r], "succeeded")]
    /\ UNCHANGED <<database, sessions, cmd, snap, todo>>

\* verify_all, one migration: passed, no verify.sql, or failed and stopped.
VerifyNext(r, d) ==
    /\ cmd[r] = "verify" /\ IsNext(r, d)
    /\ \/ /\ Move(r, "working", "working")
          /\ todo' = [todo EXCEPT ![r] = @ \ {d}]
          /\ \/ /\ Log(r, "verify", "succeeded", {d})
                /\ report' = [report EXCEPT ![r] = Reported(r, {d}, "succeeded")]
             \/ /\ UNCHANGED history
                /\ report' = [report EXCEPT ![r] = Reported(r, {d}, "skipped")]
       \/ /\ Move(r, "working", "releasing")
          /\ LogBestEffort(r, "verify", "failed", d)
          /\ report' = [report EXCEPT ![r] = Reported(r, {d}, "failed")]
          /\ UNCHANGED todo
    /\ UNCHANGED <<initialized, applied, attempts, effect, sessions, cmd, snap>>

\* Nothing left to do.
Finish(r) ==
    /\ todo[r] = {}
    /\ Move(r, "working", "releasing")
    /\ UNCHANGED <<database, sessions, cmd, snap, todo, report>>

-----------------------------------------------------------------------------
(***************************************************************************)
(* Losing the connection.  The client, if it lives, reports what it knows; *)
(* the backend finishes what it was asked and then ends its session, which *)
(* is what releases the lock.                                              *)
(***************************************************************************)
ReportOnLoss(r) ==
    LET lost(d) ==
            IF cmd[r] = "verify" THEN Reported(r, {d}, "failed")
            ELSE Stopped(r, d, IF pc[r] = "verifying" THEN report[r][IdOf[d]] ELSE "failed")
        working == /\ cmd[r] \in {"deploy", "revert", "verify"}
                   /\ pc[r] \in InHand \cup {"verifying"}
                   /\ todo[r] # {}
    IN  IF working
          THEN \E d \in todo[r] : IsNext(r, d) /\ report' = [report EXCEPT ![r] = lost(d)]
          ELSE report' = report

Disconnect(r) ==
    /\ session[r] = "live"
    /\ session' = [session EXCEPT ![r] = "orphan"]
    /\ ReportOnLoss(r)
    /\ UNCHANGED <<database, holder, pc, cmd, snap, todo>>

\* The orphaned backend ends, killed mid-statement if it was running one.
OrphanExits(r) ==
    /\ session[r] = "orphan"
    /\ session' = [session EXCEPT ![r] = "none"]
    /\ holder' = IF holder = r THEN NoRun ELSE holder
    /\ pc' = [pc EXCEPT ![r] = "done"]
    /\ \/ UNCHANGED effect
       \/ /\ pc[r] = "executing"
          /\ \E d \in todo[r] :
                IsNext(r, d) /\ effect' = [effect EXCEPT ![IdOf[d]] = "partial"]
    /\ UNCHANGED <<initialized, applied, attempts, history, cmd, snap, todo, report>>

-----------------------------------------------------------------------------
\* One migration's step, on the client's side of the connection.
MigrationStep(r, d) ==
    \/ DeployCommits(r, d) \/ DeployFails(r, d)
    \/ AttemptRecorded(r, d) \/ AttemptRefused(r, d)
    \/ FinishAttempt(r, d) \/ FinishFails(r, d)
    \/ RecordFailure(r, d) \/ OutcomeUnknown(r, d)
    \/ DeployAcknowledged(r, d) \/ VerifyDeployed(r, d)
    \/ RevertCommits(r, d) \/ RevertFails(r, d)
    \/ ResolveCommits(r, d) \/ VerifyNext(r, d)

ClientStep(r) ==
    \/ TryLock(r) \/ Poll(r) \/ PollExpires(r) \/ Refresh(r) \/ Plan(r)
    \/ \E d \in todo[r] : MigrationStep(r, d)
    \/ SendStatement(r) \/ BaselineCommits(r) \/ AssertionFails(r)
    \/ Acknowledged(r) \/ Finish(r) \/ Release(r)

ServerStep(r) ==
    \/ GrantQueued(r)
    \/ \E d \in todo[r] : StatementEnds(r, d)
    \/ OrphanExits(r)

Next == \E r \in Runs : Open(r) \/ ClientStep(r) \/ ServerStep(r) \/ Disconnect(r)

Spec == Init /\ [][Next]_vars

(***************************************************************************)
(* A client that is connected goes on; a statement ends (statement_timeout *)
(* or PostgreSQL's own progress); a free lock is granted to a waiter; a    *)
(* backend without a client notices once it has nothing left to execute or *)
(* wait for.  Nobody has to start a run, no connection has to fail, and    *)
(* nothing has to kill a backend.                                          *)
(***************************************************************************)
OrphanNotices(r) ==
    /\ pc[r] # "executing"
    /\ pc[r] = "queued" => holder = r
    /\ OrphanExits(r)

Fairness ==
    \A r \in Runs :
        /\ WF_vars(ClientStep(r))
        /\ WF_vars(GrantQueued(r))
        /\ WF_vars(\E d \in todo[r] : StatementEnds(r, d))
        /\ WF_vars(OrphanNotices(r))

FairSpec == Spec /\ Fairness

-----------------------------------------------------------------------------
TypeOK ==
    /\ initialized \in BOOLEAN
    /\ applied \in Rows
    /\ attempts \in Rows
    /\ history \in Seq(SUBSET Event)
    /\ effect \in [Migrations -> Effects]
    /\ holder \in Runs \cup {NoRun}
    /\ session \in [Runs -> {"none", "live", "orphan"}]
    /\ pc \in [Runs -> Outside \cup UnderLock]
    /\ cmd \in [Runs -> AllCommands \cup {"none"}]
    /\ snap \in [Runs -> RegistryState]
    /\ todo \in [Runs -> SUBSET Definitions]
    /\ report \in [Runs -> [Migrations -> Results]]


-----------------------------------------------------------------------------
(***************************************************************************)
(* Safety.                                                                 *)
(***************************************************************************)

\* A migration is recorded as applied only while everything it depends on is:
\* the claim history::check_dependencies_applied makes of every registry that
\* only Zapadka has written.
AppliedClosed ==
    \A m \in Migrations : applied[m] # NoDef =>
        \A n \in DependsOf[applied[m]] : applied[n] # NoDef

\* At most one nontransactional statement is unaccounted for, it is not also
\* recorded as applied, and what it depends on cannot be reverted under it.
OneUnresolved ==
    \A m \in Migrations : attempts[m] # NoDef =>
        /\ applied[m] = NoDef
        /\ \A n \in DependsOf[attempts[m]] : applied[n] # NoDef
        /\ \A n \in Migrations : attempts[n] # NoDef => n = m

\* The registry a run finds is one a deploy can go on from, whoever wrote it:
\* what is applied stands on what is applied, and at most one statement is in
\* doubt, on top of it.
RegistryIsSound == AppliedClosed /\ OneUnresolved

\* What a deploy is about to run is exactly what the database still lacks:
\* the plan made from the refreshed state stays true while the lock is held.
PlanStaysCurrent ==
    \A r \in Runs :
        cmd[r] = "deploy" /\ pc[r] = "working" =>
            /\ holder = r
            /\ \A m \in Migrations : attempts[m] = NoDef
            /\ todo[r] = {d \in GraphOf[CheckoutOf[r]] : applied[IdOf[d]] = NoDef}

\* Event e decides whether its migration counts as applied from then on.
Decides(e) ==
    \/ e.action \in {"deploy", "baseline", "revert"} /\ e.outcome \in {"succeeded", "attempted"}
    \/ e.action = "resolve"

StatusAfter(e) ==
    IF e.outcome = "attempted" THEN "attempted"
    ELSE IF e.outcome = "asserted_not_applied" \/ e.action = "revert" THEN "absent"
    ELSE "applied"

\* What the first n transactions of the history say of migration m.
StatusAt(n, m) ==
    LET told == {i \in 1..n : \E e \in history[i] : e.id = m /\ Decides(e)}
        last == CHOOSE i \in told : \A j \in told : j <= i
    IN  IF told = {} THEN "absent"
        ELSE StatusAfter(CHOOSE e \in history[last] : e.id = m /\ Decides(e))

StatusOf(m) ==
    IF attempts[m] # NoDef THEN "attempted"
    ELSE IF applied[m] # NoDef THEN "applied" ELSE "absent"

\* The append-only history, read from the start, gives exactly the rows the
\* registry holds: no row appears or disappears without its evidence, however
\* the runs interleave and wherever they are cut off.
HistoryExplainsRows ==
    \A m \in Migrations : StatusOf(m) = StatusAt(Len(history), m)

\* Verification is recorded only of a migration that was applied when it ran.
VerifiedWhileApplied ==
    \A i \in DOMAIN history : \A e \in history[i] :
        e.action = "verify" => StatusAt(i, e.id) = "applied"

LastDecision(m) ==
    LET told == {i \in DOMAIN history : \E e \in history[i] : e.id = m /\ Decides(e)}
        last == CHOOSE i \in told : \A j \in told : j <= i
    IN  IF told = {} THEN "none"
        ELSE (CHOOSE e \in history[last] : e.id = m /\ Decides(e)).outcome

Observed(m) == \E i \in DOMAIN history : \E e \in history[i] :
    /\ e.id = m /\ e.action = "deploy" /\ e.outcome = "succeeded"
    /\ \A j \in i + 1 .. Len(history) : \A f \in history[j] : f.id = m => ~Decides(f)

\* Nothing the project ran is unaccounted for: a schema effect is applied,
\* under an unresolved attempt, or denied by an operator on the record.  And a
\* success that Zapadka observed is a real one.
EffectsAccountedFor ==
    \A m \in Migrations :
        /\ effect[m] # "none" =>
              \/ applied[m] # NoDef
              \/ attempts[m] # NoDef
              \/ LastDecision(m) = "asserted_not_applied"
        /\ Observed(m) => effect[m] = "full"

\* A deploy that planned reports every migration it selected and no other, and
\* calls none of them succeeded or skipped against the history it wrote.
ReportAccountsForAll ==
    \A r \in Runs :
        cmd[r] = "deploy" /\ (pc[r] \in {"releasing", "done"} \/ session[r] = "orphan") =>
            LET told == {m \in Migrations : report[r][m] # "unreported"}
                wrote(m, o) == \E i \in DOMAIN history : \E e \in history[i] :
                    e.run = r /\ e.id = m /\ e.action = "deploy" /\ e.outcome \in o
            IN  /\ told = {} \/ told = {IdOf[d] : d \in Pending(CheckoutOf[r], snap[r])}
                /\ \A m \in told :
                      /\ report[r][m] = "succeeded" => wrote(m, {"succeeded"})
                      /\ report[r][m] = "skipped" => ~wrote(m, Outcomes)

(***************************************************************************)
(* What a step may never do.                                               *)
(***************************************************************************)

WrittenByHolder ==
    <<applied, attempts, history, effect>>' # <<applied, attempts, history, effect>> =>
        \E r \in Runs :
            /\ holder = r
            /\ \A q \in Runs \ {r} :
                  pc'[q] = pc[q] /\ session'[q] = session[q] /\ todo'[q] = todo[q]

\* Whatever changes the registry or the schema is done by the run whose session
\* holds the lock, the statements of a backend whose client is gone included.
OnlyHolderWrites == [][WrittenByHolder]_vars

SettledFirst ==
    \A m \in Migrations : attempts[m] # NoDef =>
        /\ \A n \in Migrations \ {m} :
              applied'[n] = applied[n] /\ attempts'[n] = attempts[n] /\ effect'[n] = effect[n]
        /\ attempts'[m] # attempts[m] =>
              \E e \in history'[Len(history')] :
                  e.id = m /\ (e.outcome = "succeeded" \/ e.action = "resolve")

\* While an attempt is unresolved nothing else is deployed, reverted or
\* baselined, and only its own success or an operator's answer settles it.
BlockedUntilSettled == [][SettledFirst]_vars

\* The rows evolve as the ledger promises: decisions taken from a snapshot are
\* decisions the rows themselves would have justified.
Ledger == INSTANCE MigrationLedger

ImplementsLedger == Ledger!Spec

(***************************************************************************)
(* Why it is safe: the invariant the proofs carry from step to step.       *)
(***************************************************************************)

\* What the rows alone satisfy.
RowsInv ==
    /\ \A m \in Migrations :
          /\ applied[m] # NoDef => IdOf[applied[m]] = m
          /\ attempts[m] # NoDef => IdOf[attempts[m]] = m
    /\ AppliedClosed
    /\ OneUnresolved

Lacking(r) == Pending(CheckoutOf[r], Registry)

AttemptOpen == {"attempted", "executing", "answered", "refused", "unanswered"}

\* What a run under the lock knows of the rows at each point of its command:
\* each clause is what the next transaction needs in order to be right.
RunInv(r) ==
    /\ pc[r] \in UnderLock => holder = r
    /\ pc[r] = "refreshed" => snap[r] = Registry
    /\ cmd[r] = "deploy" /\ pc[r] = "working" =>
          Ledger!Settled /\ todo[r] = Lacking(r)
    /\ pc[r] \in AttemptOpen =>
          /\ cmd[r] = "deploy" /\ todo[r] = Lacking(r)
          /\ \A d \in todo[r] : IsNext(r, d) => attempts[IdOf[d]] = d
    /\ pc[r] = "verifying" \/ (cmd[r] = "deploy" /\ pc[r] = "committed") =>
          /\ cmd[r] = "deploy" /\ Ledger!Settled
          /\ \A d \in todo[r] : IsNext(r, d) => todo[r] \ {d} = Lacking(r)
    /\ cmd[r] = "revert" /\ pc[r] = "working" =>
          /\ Ledger!Settled
          /\ \A d \in todo[r] :
                /\ applied[IdOf[d]] = d
                /\ \A m \in Migrations :
                      applied[m] # NoDef => IdOf[d] \notin DependsOf[applied[m]]
    /\ cmd[r] = "resolve" /\ pc[r] = "working" =>
          \A d \in todo[r] : attempts[IdOf[d]] = d
    /\ cmd[r] = "baseline" /\ pc[r] = "working" =>
          Ledger!Settled /\ Ledger!Ready(todo[r])

\* One run at a time is under the lock, and what it planned from its snapshot is
\* still what the rows justify.
LockedPlansHold == RowsInv /\ \A r \in Runs : RunInv(r)

(***************************************************************************)
(* Liveness.                                                               *)
(***************************************************************************)

\* Every run that opens its connection ends, whoever else dies meanwhile.
EveryRunEnds == \A r \in Runs : pc[r] = "opened" ~> pc[r] = "done"

===============================================================================
