-------------------------- MODULE DefinitionIdentity --------------------------
(***************************************************************************)
(* What an applied migration is compared with.  Older releases recorded a  *)
(* hash of its exact bytes; this one records a hash of its parse tree, and *)
(* rehash moves what was recorded from the first to the second, in one     *)
(* transaction, without running any SQL.  A source is one version of a     *)
(* migration's manifest and deploy.sql; hashes are taken to be injective.  *)
(***************************************************************************)
EXTENDS Naturals, FiniteSets

CONSTANTS
    Runs,          \* invocations of rehash
    Migrations,
    Versions,      \* the sources each migration has had
    Shape,         \* the canonical parse tree of a source
    Unparsed,      \* the Shape of one that has none
    Terms,         \* its dependencies and its transaction mode
    Sound,         \* the sources whose deploy.sql lint accepts
    Gone, NoRow, NoRun, Nothing

Sources == UNION {Versions[m] : m \in Migrations}

ASSUME SourcesAssumption ==
    /\ \A s \in Sources : Terms[s].depends \subseteq Migrations
    /\ \A s \in Sources : Terms[s].mode \in {"required", "forbidden"}
    /\ \A s \in Sound : Shape[s] # Unparsed
    /\ Sound \subseteq Sources
    /\ Gone \notin Sources
    /\ NoRun \notin Runs

VARIABLES
    format,        \* the registry's: 0 is none, 3 the first with an algorithm
    applied,       \* the row of each applied migration
    attempts,      \* the row of each unresolved attempt
    events,        \* rehash_events
    holder,        \* the run holding the deployment lock
    pc,
    graph, snap    \* the sources and the RegistryState a run made its plan of

registry == <<format, applied, attempts>>
vars == <<registry, events, holder, pc, graph, snap>>

REGISTRY_FORMAT_VERSION == 3

Raw(s) == [algorithm |-> "raw-v1", of |-> s]
Structural(s) == [algorithm |-> "structural-v1", of |-> <<Shape[s], Terms[s]>>]

\* deploy_sha256, depends and transaction_mode are of the source that ran, and
\* stay; the identity is the definition hash with its algorithm.
Row(s, identity) == [source |-> s, identity |-> identity]

Rows == {Row(s, identity) : s \in Sources,
                            identity \in {Raw(s) : s \in Sources} \cup {Structural(s) : s \in Sources}}

ASSUME NoRowAssumption == NoRow \notin Rows

RegistryState == [format |-> format, applied |-> applied, attempts |-> attempts]

Recorded(rows) == {m \in Migrations : rows[m] # NoRow}

Converted(row) == row.identity.algorithm = "structural-v1"

\* Any project discover and build accept; the order of its graph is not needed.
Trees == {t \in [Migrations -> Sources \cup {Gone}] :
             \A m \in Migrations : t[m] # Gone =>
                 /\ t[m] \in Versions[m]
                 /\ \A n \in Terms[t[m]].depends : t[n] # Gone}

-----------------------------------------------------------------------------
(***************************************************************************)
(* history::plan and check_unchanged.                                      *)
(***************************************************************************)
Unchanged(s, row) ==
    IF Converted(row) THEN Shape[s] # Unparsed /\ row.identity = Structural(s)
                      ELSE row.identity = Raw(s)

PlanOk(t, rows) ==
    \A m \in Recorded(rows) :
        /\ t[m] # Gone
        /\ Unchanged(t[m], rows[m])
        /\ Terms[t[m]].depends \subseteq Recorded(rows)

(***************************************************************************)
(* rehash::plan and classify.                                              *)
(***************************************************************************)
Fits(t, rows, m) ==
    /\ t[m] # Gone
    /\ Terms[t[m]].depends \subseteq Recorded(rows)
    /\ Terms[t[m]] = Terms[rows[m].source]
    /\ t[m] \in Sound

\* Verified, or Accepted.
MayMove(row, s, accepts) == ~Converted(row) /\ (row.identity = Raw(s) \/ accepts)

AlreadyCurrent(row, s) == Converted(row) /\ Unchanged(s, row)

\* plan and validate: one row that cannot transition refuses the batch.
Valid(t, rows, accepts) ==
    \A m \in Recorded(rows) :
        /\ Fits(t, rows, m)
        /\ AlreadyCurrent(rows[m], t[m]) \/ MayMove(rows[m], t[m], accepts)

Moving(t, rows) == {m \in Recorded(rows) : ~AlreadyCurrent(rows[m], t[m])}

\* Mutation: the unresolved attempts are not looked at.
NeverUnresolved(state) == state.format # 0

Rehashable(state) == state.format # 0 /\ Recorded(state.attempts) = {}

-----------------------------------------------------------------------------
\* What an older release has left, whole or interrupted; or nothing.
Init ==
    /\ format \in 0 .. 2
    /\ applied \in [Migrations -> {Row(s, Raw(s)) : s \in Sources} \cup {NoRow}]
    /\ attempts \in [Migrations -> {Row(s, Raw(s)) : s \in Sources} \cup {NoRow}]
    /\ \A m \in Recorded(applied) : /\ applied[m].source \in Versions[m]
                                     /\ Terms[applied[m].source].depends \subseteq Recorded(applied)
    /\ \A m \in Recorded(attempts) : /\ attempts[m].source \in Versions[m]
                                       /\ Terms[attempts[m].source].mode = "forbidden"
                                       /\ Terms[attempts[m].source].depends \subseteq Recorded(applied)
                                       /\ applied[m] = NoRow
                                       /\ Recorded(attempts) = {m}
    /\ format = 0 => Recorded(applied) = {}
    /\ format < 2 => Recorded(attempts) = {}
    /\ events = {}
    /\ holder = NoRun
    /\ pc = [r \in Runs |-> "idle"]
    /\ graph = [r \in Runs |-> Nothing]
    /\ snap = [r \in Runs |-> Nothing]

Upgraded == format' = REGISTRY_FORMAT_VERSION

(***************************************************************************)
(* The other commands, each under the lock from its read to its commit and *)
(* so one step here: Deployment is about what is inside them.              *)
(***************************************************************************)

\* deploy or baseline of one migration; or the attempt a deploy leaves behind.
Record(t, m) ==
    /\ holder = NoRun
    /\ Recorded(attempts) = {}
    /\ PlanOk(t, applied)
    /\ t[m] \in Sound
    /\ applied[m] = NoRow
    /\ Terms[t[m]].depends \subseteq Recorded(applied)
    /\ \/ /\ applied' = [applied EXCEPT ![m] = Row(t[m], Structural(t[m]))]
          /\ UNCHANGED attempts
       \/ /\ Terms[t[m]].mode = "forbidden"
          /\ attempts' = [attempts EXCEPT ![m] = Row(t[m], Structural(t[m]))]
          /\ UNCHANGED applied
    /\ Upgraded
    /\ UNCHANGED <<events, holder, pc, graph, snap>>

\* resolve: the row is the attempt's own, its algorithm included.
Resolve(m) ==
    /\ holder = NoRun
    /\ attempts[m] # NoRow
    /\ attempts' = [attempts EXCEPT ![m] = NoRow]
    /\ applied' = [applied EXCEPT ![m] = attempts[m]] \/ UNCHANGED applied
    /\ Upgraded
    /\ UNCHANGED <<events, holder, pc, graph, snap>>

Revert(t, m) ==
    /\ holder = NoRun
    /\ Recorded(attempts) = {}
    /\ PlanOk(t, applied)
    /\ m \in Recorded(applied)
    /\ \A n \in Recorded(applied) : m \notin Terms[t[n]].depends
    /\ applied' = [applied EXCEPT ![m] = NoRow]
    /\ Upgraded
    /\ UNCHANGED <<attempts, events, holder, pc, graph, snap>>

(***************************************************************************)
(* rehash.  Its sources are read when it starts and do not change; which   *)
(* they are matters first when it plans.                                   *)
(***************************************************************************)
Move(r, from, to) == pc[r] = from /\ pc' = [pc EXCEPT ![r] = to]

\* Mutation: the lock is taken by whoever asks.
AcquireUnchecked(r) ==
    /\ Move(r, "idle", "locked")
    /\ holder' = r
    /\ UNCHANGED <<registry, events, graph, snap>>

Acquire(r) ==
    /\ Move(r, "idle", "locked")
    /\ holder = NoRun
    /\ holder' = r
    /\ UNCHANGED <<registry, events, graph, snap>>

\* refresh_state, and a batch that is neither refused nor empty.
Plan(r) ==
    /\ Move(r, "locked", "planned")
    /\ Rehashable(RegistryState)
    /\ \E t \in Trees, acceptCurrent \in BOOLEAN :
          /\ Valid(t, applied, acceptCurrent)
          /\ Moving(t, applied) # {}
          /\ graph' = [graph EXCEPT ![r] = t]
    /\ snap' = [snap EXCEPT ![r] = RegistryState]
    /\ UNCHANGED <<registry, events, holder>>

\* Mutation: the old hash is kept under the new algorithm's name.
Relabelled(row, s) == [row EXCEPT !.identity = [algorithm |-> "structural-v1", of |-> row.identity.of]]

Rehashed(row, s) == [row EXCEPT !.identity = Structural(s)]

\* Mutation: proof is not asked for what differs in its SQL alone.
ProvenanceByTerms(row, s) ==
    IF Terms[s] = Terms[row.source] THEN "verified" ELSE "operator-accepted"

Provenance(row, s) == IF row.identity = Raw(s) THEN "verified" ELSE "operator-accepted"

Audit(r, m) ==
    LET old == snap[r].applied[m]
        s == graph[r][m]
    IN  [run |-> r, migration |-> m, old |-> old.identity, new |-> Rehashed(old, s).identity,
         original |-> old.source, current |-> s, provenance |-> Provenance(old, s)]

\* Runner::rehash: the upgrade, and every UPDATE and its event, together.
Commit(r) ==
    LET moving == Moving(graph[r], snap[r].applied)
    IN  /\ Move(r, "planned", "releasing")
        /\ \A m \in moving : applied[m] # NoRow /\ applied[m].identity = snap[r].applied[m].identity
        /\ applied' = [m \in Migrations |->
                          IF m \in moving THEN Rehashed(applied[m], graph[r][m]) ELSE applied[m]]
        /\ events' = events \cup {Audit(r, m) : m \in moving}
        /\ Upgraded
        /\ UNCHANGED <<attempts, holder, graph, snap>>

\* A refused or an empty batch, an UPDATE that finds no row, a failed query.
Abort(r) ==
    /\ Move(r, "locked", "releasing") \/ Move(r, "planned", "releasing")
    /\ UNCHANGED <<registry, events, holder, graph, snap>>

\* The lock is released, or goes with the connection.
End(r) ==
    /\ \E from \in {"locked", "planned", "releasing"} : Move(r, from, "done")
    /\ holder' = IF holder = r THEN NoRun ELSE holder
    /\ graph' = [graph EXCEPT ![r] = Nothing]
    /\ snap' = [snap EXCEPT ![r] = Nothing]
    /\ UNCHANGED <<registry, events>>

Next ==
    \/ \E t \in Trees, m \in Migrations : Record(t, m) \/ Revert(t, m)
    \/ \E m \in Migrations : Resolve(m)
    \/ \E r \in Runs : Acquire(r) \/ Plan(r) \/ Commit(r) \/ Abort(r) \/ End(r)

Spec == Init /\ [][Next]_vars

-----------------------------------------------------------------------------
EventType ==
    [run : Runs, migration : Migrations,
     old : {Raw(s) : s \in Sources}, new : {Structural(s) : s \in Sources},
     original : Sources, current : Sources,
     provenance : {"verified", "operator-accepted"}]

TypeOK ==
    /\ format \in 0 .. REGISTRY_FORMAT_VERSION
    /\ applied \in [Migrations -> Rows \cup {NoRow}]
    /\ attempts \in [Migrations -> Rows \cup {NoRow}]
    /\ events \subseteq EventType
    /\ holder \in Runs \cup {NoRun}
    /\ pc \in [Runs -> {"idle", "locked", "planned", "releasing", "done"}]
    /\ graph \in [Runs -> Trees \cup {Nothing}]
    /\ snap \in [Runs -> [format : 0 .. REGISTRY_FORMAT_VERSION,
                          applied : [Migrations -> Rows \cup {NoRow}],
                          attempts : [Migrations -> Rows \cup {NoRow}]] \cup {Nothing}]

\* The "one-way transition": once a batch is converted nothing is compared by
\* its bytes again, not even what is settled later.
OneWay ==
    events # {} => /\ \A m \in Recorded(applied) : Converted(applied[m])
                   /\ \A m \in Recorded(attempts) : Converted(attempts[m])

\* An identity is that of the source which ran, as far as anybody has proved,
\* or an operator is on record for having said that it is.
IdentityIsExplained ==
    \A m \in Recorded(applied) :
        LET row == applied[m]
        IN  \/ row.identity = Raw(row.source)
            \/ row.identity = Structural(row.source)
            \/ \E e \in events : /\ e.migration = m
                                 /\ e.provenance = "operator-accepted"
                                 /\ e.original = row.source
                                 /\ e.new = row.identity

\* Nothing has changed between the plan and its transaction, so that "registry
\* changed while rehashing" never happens.
PlanIsCurrent ==
    \A r \in Runs : pc[r] = "planned" => holder = r /\ snap[r] = RegistryState

\* After a rehash the project it was run from can be deployed from; and if all
\* of it was verified, every checkout that could be still can.
RehashKeepsCheckouts ==
    [][events' # events =>
          /\ \A r \in Runs : pc[r] = "planned" /\ pc'[r] = "releasing" => PlanOk(graph[r], applied')
          /\ (\A e \in events' \ events : e.provenance = "verified") =>
                \A t \in Trees : PlanOk(t, applied) => PlanOk(t, applied')]_vars

\* "Structural rows cannot be reaccepted": a migration keeps a structural
\* identity for as long as it is applied.
StructuralIsFinal ==
    [][\A m \in Recorded(applied) :
          Converted(applied[m]) /\ applied'[m] # NoRow => applied'[m] = applied[m]]_vars

===============================================================================
