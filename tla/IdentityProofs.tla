---------------------------- MODULE IdentityProofs ----------------------------
(***************************************************************************)
(* Proofs about DefinitionIdentity, for any number of runs, migrations and *)
(* sources, whatever their parse trees.                                    *)
(***************************************************************************)
EXTENDS DefinitionIdentity, TLAPS

USE SourcesAssumption, NoRowAssumption DEF registry

(***************************************************************************)
(* The inductive invariant.                                                *)
(***************************************************************************)
LockHeld == \A r \in Runs : pc[r] \in {"locked", "planned", "releasing"} => holder = r

\* What a run decided on still is what it would decide.
PlanHolds ==
    \A r \in Runs : pc[r] = "planned" =>
        /\ graph[r] \in Trees
        /\ Rehashable(RegistryState)
        /\ \E accepts \in BOOLEAN : Valid(graph[r], applied, accepts)

\* Only a run that is past its transaction is in the audit.
EventsAreOver == \A e \in events : pc[e.run] \in {"releasing", "done"}

\* An attempt is of a migration that is not applied, and is its own source's.
AttemptsApart ==
    \A m \in Recorded(attempts) :
        /\ applied[m] = NoRow
        /\ attempts[m].identity \in {Raw(attempts[m].source), Structural(attempts[m].source)}

Inv == TypeOK /\ LockHeld /\ PlanIsCurrent /\ PlanHolds /\ EventsAreOver /\ AttemptsApart
       /\ OneWay /\ IdentityIsExplained

(***************************************************************************)
(* Rows and their identities.                                              *)
(***************************************************************************)

\* What is not converted is identified by the bytes of some source.
LEMMA RowFacts ==
    ASSUME NEW row \in Rows
    PROVE  /\ row.source \in Sources
           /\ ~Converted(row) => \E s \in Sources : row.identity = Raw(s)
           /\ Converted(row) => \E s \in Sources : row.identity = Structural(s)
           /\ row # NoRow
BY DEF Rows, Row, Converted, Raw, Structural

\* A row written for a source is one, and converted.
LEMMA NewRow ==
    ASSUME NEW s \in Sources
    PROVE  /\ Row(s, Structural(s)) \in Rows
           /\ Row(s, Structural(s)) # NoRow
           /\ Converted(Row(s, Structural(s)))
           /\ Row(s, Structural(s)).source = s
           /\ Row(s, Structural(s)).identity = Structural(s)
BY DEF Rows, Row, Converted, Structural

\* Two sources of the same bytes are one source, and bytes are not a tree.
LEMMA Injective ==
    /\ \A s, t : Raw(s) = Raw(t) => s = t
    /\ \A s, t : Raw(s) # Structural(t)
BY DEF Raw, Structural

\* A row that moves keeps its source and takes a structural identity.
LEMMA RehashedRow ==
    ASSUME NEW row \in Rows, NEW s \in Sources
    PROVE  /\ Rehashed(row, s) \in Rows
           /\ Rehashed(row, s) # NoRow
           /\ Converted(Rehashed(row, s))
           /\ Rehashed(row, s).source = row.source
           /\ Rehashed(row, s).identity = Structural(s)
BY DEF Rows, Row, Rehashed, Converted, Structural

(***************************************************************************)
(* What the transaction of a rehash does.                                  *)
(***************************************************************************)

\* The rows that move are those compared by their bytes, each to the source
\* the run read; every other row stays.
LEMMA CommitMoves ==
    ASSUME Inv, NEW r \in Runs, Commit(r)
    PROVE  LET moving == Moving(graph[r], applied)
           IN  /\ \A m \in moving : /\ m \in Recorded(applied)
                                    /\ applied[m] \in Rows
                                    /\ ~Converted(applied[m])
                                    /\ graph[r][m] \in Sound
                                    /\ applied'[m] = Rehashed(applied[m], graph[r][m])
               /\ \A m \in Migrations \ moving : applied'[m] = applied[m]
               /\ \A m \in Recorded(applied) \ moving : /\ AlreadyCurrent(applied[m], graph[r][m])
                                                        /\ Converted(applied[m])
               /\ Recorded(applied') = Recorded(applied)
               /\ events' = events \cup {Audit(r, m) : m \in moving}
               /\ graph[r] \in Trees
               /\ snap[r].applied = applied
               /\ pc[r] = "planned"
               /\ attempts' = attempts
               /\ Recorded(attempts) = {}
               /\ \A m \in Recorded(applied) : Fits(graph[r], applied, m)
<1> DEFINE moving == Moving(graph[r], applied)
<1>1. pc[r] = "planned"
    BY DEF Commit, Move
<1>2. snap[r].applied = applied
    BY <1>1 DEF Inv, PlanIsCurrent, RegistryState
<1>3. graph[r] \in Trees /\ Rehashable(RegistryState)
    BY <1>1 DEF Inv, PlanHolds
<1>4. PICK accepts \in BOOLEAN : Valid(graph[r], applied, accepts)
    BY <1>1 DEF Inv, PlanHolds
<1>5. \A m \in Recorded(applied) : m \in Migrations /\ applied[m] \in Rows
    BY DEF Inv, TypeOK, Recorded
<1>6. /\ applied' = [m \in Migrations |->
                        IF m \in moving THEN Rehashed(applied[m], graph[r][m]) ELSE applied[m]]
      /\ events' = events \cup {Audit(r, m) : m \in moving}
      /\ attempts' = attempts
    BY <1>2 DEF Commit
<1>7. \A m \in moving : /\ m \in Recorded(applied)
                        /\ ~Converted(applied[m])
                        /\ graph[r][m] \in Sound
    BY <1>4 DEF Moving, Valid, MayMove, Fits
<1>8. \A m \in Recorded(applied) \ moving : /\ AlreadyCurrent(applied[m], graph[r][m])
                                            /\ Converted(applied[m])
    BY DEF Moving, AlreadyCurrent
<1>9. \A m \in moving : applied'[m] # NoRow
    BY <1>5, <1>6, <1>7, RehashedRow
<1>10. Recorded(applied') = Recorded(applied)
    BY <1>6, <1>7, <1>9 DEF Recorded
<1>11. Recorded(attempts) = {}
    BY <1>3 DEF Rehashable, RegistryState
<1>12. \A m \in Recorded(applied) : Fits(graph[r], applied, m)
    BY <1>4 DEF Valid
<1> QED BY <1>1, <1>2, <1>3, <1>5, <1>6, <1>7, <1>8, <1>10, <1>11, <1>12

\* Each event is of the run, and of the row as it was and as it will be.
LEMMA AuditFacts ==
    ASSUME Inv, NEW r \in Runs, Commit(r), NEW m \in Moving(graph[r], applied)
    PROVE  LET e == Audit(r, m)
               s == graph[r][m]
           IN  /\ e \in EventType
               /\ e.run = r
               /\ e.migration = m
               /\ e.original = applied[m].source
               /\ e.new = Structural(s)
               /\ applied[m].identity = Raw(s) => e.provenance = "verified"
               /\ applied[m].identity # Raw(s) => e.provenance = "operator-accepted"
<1> DEFINE s == graph[r][m]
<1>1. /\ snap[r].applied = applied /\ m \in Migrations
      /\ applied[m] \in Rows /\ ~Converted(applied[m]) /\ s \in Sources
    BY CommitMoves DEF Recorded
<1>2. Rehashed(applied[m], s).identity = Structural(s)
    BY <1>1, RehashedRow
<1>3. \E o \in Sources : applied[m].identity = Raw(o)
    BY <1>1, RowFacts
<1>4. applied[m].source \in Sources
    BY <1>1, RowFacts
<1>5. Audit(r, m) = [run |-> r, migration |-> m, old |-> applied[m].identity, new |-> Structural(s),
                     original |-> applied[m].source, current |-> s,
                     provenance |-> Provenance(applied[m], s)]
    BY <1>1, <1>2 DEF Audit
<1>6. Provenance(applied[m], s) = IF applied[m].identity = Raw(s) THEN "verified" ELSE "operator-accepted"
    BY DEF Provenance
<1> HIDE DEF s
<1> QED BY <1>1, <1>3, <1>4, <1>5, <1>6 DEF EventType, s

(***************************************************************************)
(* Types.                                                                  *)
(***************************************************************************)

\* A source of a project is a source, and one lint accepts is one.
LEMMA TreeFacts ==
    ASSUME NEW t \in Trees, NEW m \in Migrations
    PROVE  /\ t[m] \in Sources \cup {Gone}
           /\ t[m] \in Sound => t[m] \in Sources
BY DEF Trees

\* Every step keeps every variable in its type.
LEMMA TypeStep == Inv /\ [Next]_vars => TypeOK'
<1> USE DEF Upgraded, REGISTRY_FORMAT_VERSION, Move
<1> SUFFICES ASSUME Inv, [Next]_vars PROVE TypeOK'
    OBVIOUS
<1> USE DEF TypeOK
<1>0. TypeOK
    BY DEF Inv
<1>1. CASE UNCHANGED vars
    BY <1>0, <1>1 DEF vars
<1>2. ASSUME NEW t \in Trees, NEW m \in Migrations, Record(t, m) PROVE TypeOK'
    <2>1. Row(t[m], Structural(t[m])) \in Rows
        BY <1>2, TreeFacts, NewRow DEF Record
    <2>2. /\ applied' \in [Migrations -> Rows \cup {NoRow}]
          /\ attempts' \in [Migrations -> Rows \cup {NoRow}]
        BY <1>0, <1>2, <2>1 DEF Record
    <2> QED BY <1>0, <1>2, <2>2 DEF Record
<1>3. ASSUME NEW t \in Trees, NEW m \in Migrations, Revert(t, m) PROVE TypeOK'
    BY <1>0, <1>3 DEF Revert
<1>4. ASSUME NEW m \in Migrations, Resolve(m) PROVE TypeOK'
    <2>1. attempts[m] \in Rows \cup {NoRow}
        BY <1>0
    <2>2. /\ applied' \in [Migrations -> Rows \cup {NoRow}]
          /\ attempts' \in [Migrations -> Rows \cup {NoRow}]
        BY <1>0, <1>4, <2>1 DEF Resolve
    <2> QED BY <1>0, <1>4, <2>2 DEF Resolve
<1>5. ASSUME NEW r \in Runs, Acquire(r) PROVE TypeOK'
    BY <1>0, <1>5 DEF Acquire
<1>6. ASSUME NEW r \in Runs, Plan(r) PROVE TypeOK'
    BY <1>0, <1>6 DEF Plan, RegistryState
<1>7. ASSUME NEW r \in Runs, Commit(r) PROVE TypeOK'
    <2> DEFINE moving == Moving(graph[r], applied)
    <2>1. moving \subseteq Migrations
        BY DEF Moving, Recorded
    <2>2. \A m \in moving : Audit(r, m) \in EventType
        BY <1>7, AuditFacts
    <2>3. events' \subseteq EventType
        BY <1>0, <1>7, <2>2, CommitMoves
    <2>4. \A m \in moving : applied'[m] \in Rows
        <3> SUFFICES ASSUME NEW m \in moving PROVE applied'[m] \in Rows
            OBVIOUS
        <3>1. /\ applied[m] \in Rows /\ graph[r][m] \in Sources
              /\ applied'[m] = Rehashed(applied[m], graph[r][m])
            BY <1>7, CommitMoves
        <3> QED BY <3>1, RehashedRow
    <2>5. \A m \in Migrations : applied'[m] \in Rows \cup {NoRow}
        BY <1>0, <1>7, <2>4, CommitMoves
    <2>6. applied' \in [Migrations -> Rows \cup {NoRow}]
        BY <1>7, <2>5 DEF Commit
    <2> QED BY <1>0, <1>7, <2>3, <2>6 DEF Commit
<1>8. ASSUME NEW r \in Runs, Abort(r) PROVE TypeOK'
    BY <1>0, <1>8 DEF Abort
<1>9. ASSUME NEW r \in Runs, End(r) PROVE TypeOK'
    BY <1>0, <1>9 DEF End
<1> QED BY <1>1, <1>2, <1>3, <1>4, <1>5, <1>6, <1>7, <1>8, <1>9 DEF Next

(***************************************************************************)
(* The lock, and what is decided under it.                                 *)
(***************************************************************************)

\* Every step but a commit leaves the decisions and the lock as they must be.
LEMMA LockStep ==
    Inv /\ [Next]_vars => LockHeld' /\ PlanIsCurrent' /\ PlanHolds' /\ EventsAreOver'
<1> DEFINE Locked == LockHeld /\ PlanIsCurrent /\ PlanHolds /\ EventsAreOver
<1> USE DEF LockHeld, PlanIsCurrent, PlanHolds, EventsAreOver, Move
<1> SUFFICES ASSUME Inv, [Next]_vars PROVE Locked'
    OBVIOUS
<1>0. TypeOK /\ Locked
    BY DEF Inv
<1>t. pc \in [Runs -> {"idle", "locked", "planned", "releasing", "done"}] /\ NoRun \notin Runs
      /\ graph \in [Runs -> Trees \cup {Nothing}] /\ DOMAIN snap = Runs
      /\ \A e \in events : e.run \in Runs
    BY <1>0 DEF TypeOK, EventType
<1>1. CASE UNCHANGED vars
    BY <1>0, <1>1 DEF vars, RegistryState
<1>2. ASSUME holder = NoRun, UNCHANGED <<events, holder, pc, graph, snap>> PROVE Locked'
    BY <1>0, <1>t, <1>2
<1>3. ASSUME NEW t \in Trees, NEW m \in Migrations, Record(t, m) PROVE Locked'
    BY <1>2, <1>3 DEF Record
<1>4. ASSUME NEW t \in Trees, NEW m \in Migrations, Revert(t, m) PROVE Locked'
    BY <1>2, <1>4 DEF Revert
<1>5. ASSUME NEW m \in Migrations, Resolve(m) PROVE Locked'
    BY <1>2, <1>5 DEF Resolve
<1>6. ASSUME NEW r \in Runs, Acquire(r) PROVE Locked'
    BY <1>0, <1>t, <1>6 DEF Acquire, RegistryState
<1>7. ASSUME NEW r \in Runs, Plan(r) PROVE Locked'
    <2>1. holder = r
        BY <1>0, <1>t, <1>7 DEF Plan
    <2>2. LockHeld' /\ EventsAreOver'
        BY <1>0, <1>t, <1>7, <2>1 DEF Plan
    <2>3. RegistryState' = RegistryState /\ applied' = applied
        BY <1>7 DEF Plan, RegistryState
    <2>4. PlanIsCurrent'
        BY <1>0, <1>t, <1>7, <2>1, <2>3 DEF Plan
    <2>5. PlanHolds'
        <3>1. \A p \in Runs \ {r} : pc'[p] = "planned" => pc[p] = "planned" /\ graph'[p] = graph[p]
            BY <1>t, <1>7 DEF Plan
        <3>2. /\ graph'[r] \in Trees /\ Rehashable(RegistryState)
              /\ \E accepts \in BOOLEAN : Valid(graph'[r], applied, accepts)
            BY <1>t, <1>7 DEF Plan
        <3> QED BY <1>0, <2>3, <3>1, <3>2
    <2> QED BY <2>2, <2>4, <2>5
<1>8. ASSUME NEW r \in Runs, Commit(r) PROVE Locked'
    <2>1. pc[r] = "planned" /\ holder = r
        BY <1>0, <1>8, CommitMoves
    <2>2. LockHeld'
        BY <1>0, <1>t, <1>8, <2>1 DEF Commit
    <2>3. \A p \in Runs : pc'[p] # "planned"
        BY <1>0, <1>t, <1>8, <2>1 DEF Commit
    <2>4. \A m \in Moving(graph[r], applied) : Audit(r, m).run = r
        BY <1>8, AuditFacts
    <2>5. \A e \in events' : e \in events \/ e.run = r
        BY <1>8, <2>4, CommitMoves
    <2>6. \A p \in Runs : pc'[p] = IF p = r THEN "releasing" ELSE pc[p]
        BY <1>t, <1>8 DEF Commit
    <2>7. EventsAreOver'
        BY <1>0, <1>t, <2>1, <2>5, <2>6
    <2> QED BY <2>2, <2>3, <2>7
<1>9. ASSUME NEW r \in Runs, Abort(r) PROVE Locked'
    BY <1>0, <1>t, <1>9 DEF Abort, RegistryState
<1>10. ASSUME NEW r \in Runs, End(r) PROVE Locked'
    <2>1. pc[r] \in {"locked", "planned", "releasing"} /\ holder = r
        BY <1>0, <1>10 DEF End
    <2>2. RegistryState' = RegistryState /\ applied' = applied /\ holder' = NoRun
        BY <1>10, <2>1 DEF End, RegistryState
    <2>3. \A p \in Runs : pc'[p] \notin {"locked", "planned", "releasing"}
        BY <1>0, <1>t, <1>10, <2>1 DEF End
    <2>4. EventsAreOver'
        BY <1>0, <1>t, <1>10 DEF End
    <2> QED BY <2>3, <2>4
<1> QED BY <1>1, <1>3, <1>4, <1>5, <1>6, <1>7, <1>8, <1>9, <1>10 DEF Next

(***************************************************************************)
(* Identities.                                                             *)
(***************************************************************************)

\* An attempt is recorded of what is not applied, and settled by its own row.
LEMMA AttemptsStep == Inv /\ [Next]_vars => AttemptsApart'
<1> SUFFICES ASSUME Inv, [Next]_vars PROVE AttemptsApart'
    OBVIOUS
<1> USE DEF AttemptsApart, Recorded
<1>0. /\ AttemptsApart
      /\ applied \in [Migrations -> Rows \cup {NoRow}]
      /\ attempts \in [Migrations -> Rows \cup {NoRow}]
    BY DEF Inv, TypeOK
<1>1. CASE UNCHANGED vars
    BY <1>0, <1>1 DEF vars
<1>2. ASSUME NEW t \in Trees, NEW m \in Migrations, Record(t, m) PROVE AttemptsApart'
    <2> DEFINE row == Row(t[m], Structural(t[m]))
    <2>1. row # NoRow /\ row.identity = Structural(row.source)
        BY <1>2, TreeFacts, NewRow DEF Record
    <2>2. Recorded(attempts) = {} /\ applied[m] = NoRow
        BY <1>2 DEF Record
    <2>3. CASE attempts' = attempts
        BY <2>2, <2>3
    <2>4. CASE attempts' = [attempts EXCEPT ![m] = row] /\ applied' = applied
        BY <1>0, <2>1, <2>2, <2>4
    <2> QED BY <1>2, <2>3, <2>4 DEF Record
<1>3. ASSUME NEW t \in Trees, NEW m \in Migrations, Revert(t, m) PROVE AttemptsApart'
    BY <1>3 DEF Revert
<1>4. ASSUME NEW m \in Migrations, Resolve(m) PROVE AttemptsApart'
    BY <1>0, <1>4 DEF Resolve
<1>5. ASSUME NEW r \in Runs, Commit(r) PROVE AttemptsApart'
    BY <1>5, CommitMoves
<1>6. ASSUME NEW r \in Runs, Acquire(r) \/ Plan(r) \/ Abort(r) \/ End(r) PROVE AttemptsApart'
    BY <1>0, <1>6 DEF Acquire, Plan, Abort, End
<1> QED BY <1>1, <1>2, <1>3, <1>4, <1>5, <1>6 DEF Next

\* No step brings a hash of bytes back.
LEMMA OneWayStep == Inv /\ [Next]_vars => OneWay'
<1> SUFFICES ASSUME Inv, [Next]_vars PROVE OneWay'
    OBVIOUS
<1> USE DEF OneWay, Recorded
<1>0. /\ OneWay
      /\ applied \in [Migrations -> Rows \cup {NoRow}]
      /\ attempts \in [Migrations -> Rows \cup {NoRow}]
    BY DEF Inv, TypeOK
<1>1. CASE UNCHANGED vars
    BY <1>0, <1>1 DEF vars
<1>2. ASSUME NEW t \in Trees, NEW m \in Migrations, Record(t, m) PROVE OneWay'
    <2> DEFINE row == Row(t[m], Structural(t[m]))
    <2>1. row # NoRow /\ Converted(row)
        BY <1>2, TreeFacts, NewRow DEF Record
    <2> HIDE DEF row
    <2>2. CASE attempts' = attempts /\ applied' = [applied EXCEPT ![m] = row]
        BY <1>0, <1>2, <2>1, <2>2 DEF Record
    <2>3. CASE attempts' = [attempts EXCEPT ![m] = row] /\ applied' = applied
        BY <1>0, <1>2, <2>1, <2>3 DEF Record
    <2> QED BY <1>2, <2>2, <2>3 DEF Record, row
<1>3. ASSUME NEW t \in Trees, NEW m \in Migrations, Revert(t, m) PROVE OneWay'
    BY <1>0, <1>3 DEF Revert
<1>4. ASSUME NEW m \in Migrations, Resolve(m) PROVE OneWay'
    BY <1>0, <1>4 DEF Resolve
<1>5. ASSUME NEW r \in Runs, Commit(r) PROVE OneWay'
    <2> DEFINE moving == Moving(graph[r], applied)
    <2>1. ASSUME NEW m \in moving PROVE Converted(applied'[m])
        <3>1. /\ applied[m] \in Rows /\ graph[r][m] \in Sources
              /\ applied'[m] = Rehashed(applied[m], graph[r][m])
            BY <1>5, CommitMoves
        <3> QED BY <3>1, RehashedRow
    <2>2. \A m \in Recorded(applied) \ moving : Converted(applied'[m])
        BY <1>5, CommitMoves
    <2>3. Recorded(applied') = Recorded(applied) /\ Recorded(attempts) = {} /\ attempts' = attempts
        BY <1>5, CommitMoves
    <2> QED BY <2>1, <2>2, <2>3
<1>6. ASSUME NEW r \in Runs, Acquire(r) \/ Plan(r) \/ Abort(r) \/ End(r) PROVE OneWay'
    BY <1>0, <1>6 DEF Acquire, Plan, Abort, End
<1> QED BY <1>1, <1>2, <1>3, <1>4, <1>5, <1>6 DEF Next

\* No step gives a row an identity nobody can account for.
LEMMA ExplainedStep == Inv /\ [Next]_vars => IdentityIsExplained'
<1> SUFFICES ASSUME Inv, [Next]_vars PROVE IdentityIsExplained'
    OBVIOUS
<1> USE DEF IdentityIsExplained, Recorded
<1>0. /\ IdentityIsExplained
      /\ AttemptsApart
      /\ applied \in [Migrations -> Rows \cup {NoRow}]
      /\ attempts \in [Migrations -> Rows \cup {NoRow}]
    BY DEF Inv, TypeOK
<1>1. CASE UNCHANGED vars
    BY <1>0, <1>1 DEF vars
<1>2. ASSUME NEW t \in Trees, NEW m \in Migrations, Record(t, m) PROVE IdentityIsExplained'
    <2> DEFINE row == Row(t[m], Structural(t[m]))
    <2>1. row.identity = Structural(row.source)
        BY <1>2, TreeFacts, NewRow DEF Record
    <2> HIDE DEF row
    <2>2. applied' = applied \/ applied' = [applied EXCEPT ![m] = row]
        BY <1>2 DEF Record, row
    <2> QED BY <1>0, <1>2, <2>1, <2>2 DEF Record
<1>3. ASSUME NEW t \in Trees, NEW m \in Migrations, Revert(t, m) PROVE IdentityIsExplained'
    BY <1>0, <1>3 DEF Revert
<1>4. ASSUME NEW m \in Migrations, Resolve(m) PROVE IdentityIsExplained'
    BY <1>0, <1>4 DEF Resolve, AttemptsApart
<1>5. ASSUME NEW r \in Runs, Commit(r) PROVE IdentityIsExplained'
    <2> DEFINE moving == Moving(graph[r], applied)
               Explained(row, m) ==
                  \/ row.identity = Raw(row.source)
                  \/ row.identity = Structural(row.source)
                  \/ \E e \in events' : /\ e.migration = m
                                        /\ e.provenance = "operator-accepted"
                                        /\ e.original = row.source
                                        /\ e.new = row.identity
    <2>1. ASSUME NEW m \in moving PROVE Explained(applied'[m], m)
        <3> DEFINE s == graph[r][m]
                   e == Audit(r, m)
        <3>1. /\ m \in Recorded(applied) /\ applied[m] \in Rows /\ s \in Sources
              /\ ~Converted(applied[m])
              /\ applied'[m] = Rehashed(applied[m], s)
            BY <1>5, CommitMoves
        <3>2. applied'[m].source = applied[m].source /\ applied'[m].identity = Structural(s)
            BY <3>1, RehashedRow
        <3>3. CASE applied[m].identity = Raw(s)
            <4>1. PICK o \in Sources : applied[m].identity = Raw(o)
                BY <3>1, RowFacts
            <4>2. applied[m].identity = Raw(applied[m].source)
                <5>1. \A q \in Sources : applied[m].identity # Structural(q)
                    BY <4>1, Injective
                <5>2. \A f \in events : f.new # applied[m].identity
                    BY <5>1 DEF Inv, TypeOK, EventType
                <5> QED BY <1>0, <3>1, <5>1, <5>2, RowFacts
            <4>3. s = applied[m].source
                BY <3>3, <4>2, Injective
            <4> QED BY <3>2, <4>3
        <3>4. CASE applied[m].identity # Raw(s)
            <4>1. e \in events'
                BY <1>5, CommitMoves
            <4>2. /\ e.migration = m /\ e.provenance = "operator-accepted"
                  /\ e.original = applied[m].source /\ e.new = Structural(s)
                BY <1>5, <3>4, AuditFacts
            <4> HIDE DEF e, s
            <4> QED BY <3>2, <4>1, <4>2
        <3> QED BY <3>3, <3>4
    <2>2. ASSUME NEW m \in Recorded(applied) \ moving PROVE Explained(applied'[m], m)
        <3>1. applied'[m] = applied[m] /\ events \subseteq events'
            BY <1>5, CommitMoves
        <3> QED BY <1>0, <3>1
    <2>3. Recorded(applied') = Recorded(applied)
        BY <1>5, CommitMoves
    <2> QED BY <2>1, <2>2, <2>3
<1>6. ASSUME NEW r \in Runs, Acquire(r) \/ Plan(r) \/ Abort(r) \/ End(r) PROVE IdentityIsExplained'
    BY <1>0, <1>6 DEF Acquire, Plan, Abort, End
<1> QED BY <1>1, <1>2, <1>3, <1>4, <1>5, <1>6 DEF Next

(***************************************************************************)
(* The theorems.                                                           *)
(***************************************************************************)

\* What an older release leaves is its own source's, and unconverted.
LEMMA InitInv == Init => Inv
<1> SUFFICES ASSUME Init PROVE Inv
    OBVIOUS
<1>1. /\ applied \in [Migrations -> {Row(s, Raw(s)) : s \in Sources} \cup {NoRow}]
      /\ attempts \in [Migrations -> {Row(s, Raw(s)) : s \in Sources} \cup {NoRow}]
    BY DEF Init
<1>2. {Row(s, Raw(s)) : s \in Sources} \subseteq Rows
    BY DEF Rows
<1>3. \A s \in Sources : Row(s, Raw(s)).identity = Raw(Row(s, Raw(s)).source)
    BY DEF Row
<1>4. TypeOK
    BY <1>1, <1>2 DEF Init, TypeOK, REGISTRY_FORMAT_VERSION
<1>5. LockHeld /\ PlanIsCurrent /\ PlanHolds /\ EventsAreOver /\ OneWay
    BY DEF Init, LockHeld, PlanIsCurrent, PlanHolds, EventsAreOver, OneWay
<1>6. AttemptsApart
    BY <1>1, <1>3 DEF Init, AttemptsApart, Recorded
<1>7. IdentityIsExplained
    BY <1>1, <1>3 DEF IdentityIsExplained, Recorded
<1> QED BY <1>4, <1>5, <1>6, <1>7 DEF Inv

\* Every step keeps the invariant, part by part.
LEMMA InvStep == Inv /\ [Next]_vars => Inv'
BY TypeStep, LockStep, AttemptsStep, OneWayStep, ExplainedStep DEF Inv

\* The invariant holds of every reachable state.
LEMMA Invariant == Spec => []Inv
BY InitInv, InvStep, PTL DEF Spec

\* Every variable keeps its type, whatever the run and whoever it races.
THEOREM TypeCorrect == Spec => []TypeOK
BY Invariant, PTL DEF Inv

\* After one conversion every identity in the registry is structural.
THEOREM ConversionIsOneWay == Spec => []OneWay
BY Invariant, PTL DEF Inv

\* Every identity is that of the source which ran, or an operator's word.
THEOREM IdentitiesAreExplained == Spec => []IdentityIsExplained
BY Invariant, PTL DEF Inv

\* The state a rehash made its plan of is the state its transaction finds.
THEOREM PlansStayCurrent == Spec => []PlanIsCurrent
BY Invariant, PTL DEF Inv

\* No step touches a structural identity but by taking its row away.
THEOREM StructuralStays == Spec => StructuralIsFinal
<1> DEFINE Final == \A m \in Recorded(applied) :
                        Converted(applied[m]) /\ applied'[m] # NoRow => applied'[m] = applied[m]
<1>1. Inv /\ [Next]_vars => [Final]_vars
    <2> SUFFICES ASSUME Inv, Next PROVE Final
        BY DEF vars
    <2> USE DEF Recorded
    <2>0. applied \in [Migrations -> Rows \cup {NoRow}] /\ AttemptsApart
        BY DEF Inv, TypeOK
    <2>1. ASSUME NEW t \in Trees, NEW m \in Migrations, Record(t, m) PROVE Final
        BY <2>0, <2>1 DEF Record
    <2>2. ASSUME NEW t \in Trees, NEW m \in Migrations, Revert(t, m) PROVE Final
        BY <2>0, <2>2 DEF Revert
    <2>3. ASSUME NEW m \in Migrations, Resolve(m) PROVE Final
        BY <2>0, <2>3 DEF Resolve, AttemptsApart
    <2>4. ASSUME NEW r \in Runs, Commit(r) PROVE Final
        BY <2>4, CommitMoves
    <2>5. ASSUME NEW r \in Runs, Acquire(r) \/ Plan(r) \/ Abort(r) \/ End(r) PROVE Final
        BY <2>5 DEF Acquire, Plan, Abort, End, registry
    <2> QED BY <2>1, <2>2, <2>3, <2>4, <2>5 DEF Next
<1> QED BY <1>1, Invariant, PTL DEF Spec, StructuralIsFinal

\* A converted row is matched by the source it was converted to.
LEMMA RehashedIsUnchanged ==
    ASSUME NEW row \in Rows, NEW s \in Sound
    PROVE  Unchanged(s, Rehashed(row, s))
<1>1. s \in Sources /\ Shape[s] # Unparsed
    OBVIOUS
<1>2. Converted(Rehashed(row, s)) /\ Rehashed(row, s).identity = Structural(s)
    BY <1>1, RehashedRow
<1> QED BY <1>1, <1>2 DEF Unchanged

\* The project a rehash was run from stays deployable.
LEMMA OwnProjectFits ==
    ASSUME Inv, NEW r \in Runs, Commit(r)
    PROVE  PlanOk(graph[r], applied')
<1> DEFINE moving == Moving(graph[r], applied)
<1>1. Recorded(applied') = Recorded(applied)
    BY CommitMoves
<1>2. \A m \in Recorded(applied) : /\ graph[r][m] # Gone
                                   /\ Terms[graph[r][m]].depends \subseteq Recorded(applied)
    BY CommitMoves DEF Fits
<1>3. ASSUME NEW m \in moving PROVE Unchanged(graph[r][m], applied'[m])
    <2>1. /\ applied[m] \in Rows /\ graph[r][m] \in Sound
          /\ applied'[m] = Rehashed(applied[m], graph[r][m])
        BY CommitMoves
    <2> QED BY <2>1, RehashedIsUnchanged
<1>4. ASSUME NEW m \in Recorded(applied) \ moving PROVE Unchanged(graph[r][m], applied'[m])
    BY CommitMoves DEF AlreadyCurrent, Recorded
<1> QED BY <1>1, <1>2, <1>3, <1>4 DEF PlanOk

\* What was verified is matched by every source that matched before.
LEMMA VerifiedKeepsAll ==
    ASSUME Inv, NEW r \in Runs, Commit(r),
           \A e \in events' \ events : e.provenance = "verified",
           NEW t \in Trees, PlanOk(t, applied)
    PROVE  PlanOk(t, applied')
<1> DEFINE moving == Moving(graph[r], applied)
<1>1. Recorded(applied') = Recorded(applied)
    BY CommitMoves
<1>2. ASSUME NEW m \in moving PROVE Unchanged(t[m], applied'[m])
    <2> DEFINE s == graph[r][m]
               e == Audit(r, m)
    <2>1. /\ m \in Recorded(applied) /\ applied[m] \in Rows /\ s \in Sound
          /\ ~Converted(applied[m])
          /\ applied'[m] = Rehashed(applied[m], s)
        BY CommitMoves
    <2>2. e \in events' \ events
        <3>1. e \in events' /\ e.run = r /\ pc[r] = "planned"
            BY CommitMoves, AuditFacts
        <3> HIDE DEF e
        <3> QED BY <3>1 DEF Inv, EventsAreOver
    <2>3. e.provenance = "verified"
        BY <2>2
    <2>4. applied[m].identity = Raw(s)
        BY <2>3, AuditFacts
    <2>5. applied[m].identity = Raw(t[m])
        BY <2>1 DEF PlanOk, Unchanged
    <2>6. t[m] = s
        BY <2>4, <2>5, Injective
    <2> QED BY <2>1, <2>6, RehashedIsUnchanged
<1>3. ASSUME NEW m \in Recorded(applied) \ moving PROVE Unchanged(t[m], applied'[m])
    <2>1. applied'[m] = applied[m]
        BY CommitMoves DEF Recorded
    <2> QED BY <2>1 DEF PlanOk
<1> QED BY <1>1, <1>2, <1>3 DEF PlanOk

\* After a rehash its own project is deployable, and after one that was all
\* verified so is every project that was.
THEOREM CheckoutsAreKept == Spec => RehashKeepsCheckouts
<1> DEFINE Kept ==
        events' # events =>
            /\ \A r \in Runs : pc[r] = "planned" /\ pc'[r] = "releasing" => PlanOk(graph[r], applied')
            /\ (\A e \in events' \ events : e.provenance = "verified") =>
                  \A t \in Trees : PlanOk(t, applied) => PlanOk(t, applied')
<1>1. Inv /\ [Next]_vars => [Kept]_vars
    <2> SUFFICES ASSUME Inv, Next, events' # events PROVE Kept
        BY DEF vars
    <2>1. PICK r \in Runs : Commit(r)
        BY DEF Next, Record, Revert, Resolve, Acquire, Plan, Abort, End
    <2>2. ASSUME NEW p \in Runs, pc[p] = "planned", pc'[p] = "releasing" PROVE PlanOk(graph[p], applied')
        <3>1. p = r
            BY <2>1, <2>2 DEF Inv, TypeOK, Commit, Move
        <3> QED BY <2>1, <3>1, OwnProjectFits
    <2>3. ASSUME \A e \in events' \ events : e.provenance = "verified",
                 NEW t \in Trees, PlanOk(t, applied)
          PROVE  PlanOk(t, applied')
        BY <2>1, <2>3, VerifiedKeepsAll
    <2> QED BY <2>2, <2>3
<1> QED BY <1>1, Invariant, PTL DEF Spec, RehashKeepsCheckouts

===============================================================================
