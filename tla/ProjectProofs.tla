---------------------------- MODULE ProjectProofs ----------------------------
(***************************************************************************)
(* Proofs about a project on disk: about MigrationGraph, for any finite    *)
(* set of ids; about Checkout, for any number of processes and            *)
(* directories and whatever scripts say; and that the two agree on what a  *)
(* graph must be.  Their variables are apart.                              *)
(***************************************************************************)
EXTENDS Checkout, MigrationGraph, FiniteSetTheorems, FunctionTheorems,
        WellFoundedInduction, TLAPS

\* The inductive invariant of the graph's loops.
GInv == TypeOK /\ LoopsInv

\* The manifests that were read, before build looks at them, satisfy the loop invariants.
LEMMA FirstStates == Init => GInv
<1> SUFFICES ASSUME Init PROVE GInv
    OBVIOUS
<1> USE DEF Init
<1>1. TypeOK
    BY DEF TypeOK, Phases
<1>2. Placed = {}
    BY DEF Placed
<1>3. SortInv /\ DependenciesFirst
    BY DEF SortInv, DependenciesFirst
<1>4. WalkInv /\ CycleIsReal /\ ClosureInv
    BY DEF WalkInv, CycleIsReal, ClosureInv
<1> QED BY <1>1, <1>3, <1>4 DEF GInv, LoopsInv

(***************************************************************************)
(* Sorting.                                                                *)
(***************************************************************************)

\* A project has finitely many migrations.
LEMMA FiniteProject == TypeOK =>
    /\ IsFiniteSet(declared)
    /\ \A S \in SUBSET declared : IsFiniteSet(S) /\ Cardinality(S) \in Nat
<1> SUFFICES ASSUME TypeOK PROVE /\ IsFiniteSet(declared)
                                 /\ \A S \in SUBSET declared :
                                       IsFiniteSet(S) /\ Cardinality(S) \in Nat
    OBVIOUS
<1>1. IsFiniteSet(declared)
    BY IdsAssumption, FS_Subset DEF TypeOK
<1> QED BY <1>1, FS_Subset, FS_CardinalityType

\* The counts with which the sort begins are right.
LEMMA StartSortStep == GInv /\ StartSort => GInv'
<1> SUFFICES ASSUME GInv, StartSort PROVE GInv'
    OBVIOUS
<1> USE DEF GInv, LoopsInv
<1>1. /\ order = << >> /\ order' = << >> /\ Placed = {} /\ Placed' = {}
      /\ UNCHANGED <<graph, walk, closure>> /\ phase = "building" /\ phase' = "sorting"
      /\ \A m \in declared : depends[m] \subseteq declared
    BY DEF StartSort, SortInv, Placed
<1>2. \A m \in declared : /\ IsFiniteSet(depends[m]) /\ Cardinality(depends[m]) \in Nat
                          /\ Cardinality(depends[m]) = 0 <=> depends[m] = {}
    BY <1>1, FiniteProject, FS_EmptySet
<1>3. /\ remaining' = [m \in declared |-> Cardinality(depends[m])]
      /\ ready' = {m \in declared : depends[m] = {}}
    BY <1>2 DEF StartSort
<1>4. TypeOK'
    BY <1>1, <1>2, <1>3 DEF TypeOK, graph, walk, closure, Phases
<1>5. SortInv' /\ DependenciesFirst'
    <2>1. Stuck' = declared /\ Cardinality(Placed') = 0
        BY <1>1, FS_EmptySet DEF Stuck, graph
    <2>2. \A m \in declared : depends[m] \ Placed' = depends[m]
        BY <1>1
    <2> QED BY <1>1, <1>3, <2>1, <2>2 DEF SortInv, DependenciesFirst, graph
<1>6. WalkInv' /\ CycleIsReal' /\ ClosureInv'
    BY <1>1 DEF WalkInv, CycleIsReal, ClosureInv, graph, walk, closure
<1> QED BY <1>4, <1>5, <1>6

\* One turn of Kahn's loop.
LEMMA PlaceStep ==
    ASSUME GInv, NEW next \in ready, Place(next), \A other \in ready : next <= other
    PROVE  GInv'
<1> USE DEF GInv, LoopsInv
<1>1. /\ phase = "sorting" /\ phase' = "sorting"
      /\ UNCHANGED <<declared, depends, path, current, cycle, asked, included, stack>>
      /\ order' = Append(order, next)
      /\ path = << >>
    BY DEF Place, WalkInv, graph, walk, closure
<1>2. /\ \A m \in declared : depends[m] \subseteq declared /\ m \notin depends[m]
      /\ DOMAIN remaining = Stuck
      /\ \A m \in Stuck : remaining[m] = Cardinality(depends[m] \ Placed)
      /\ ready = {m \in Stuck : depends[m] \subseteq Placed}
      /\ Len(order) = Cardinality(Placed)
      /\ \A i \in DOMAIN order : \A m \in declared :
            ~Before(i + 1, m) /\ m < order[i] => \E n \in depends[m] : ~Before(i, n)
    BY <1>1 DEF SortInv
<1>3. /\ next \in declared /\ next \notin Placed /\ depends[next] \subseteq Placed
      /\ Placed \subseteq declared
    BY <1>2 DEF Stuck, Placed, TypeOK
<1> DEFINE k == Len(order) + 1
<1>4. /\ order' \in Seq(declared) /\ k \in Nat
      /\ DOMAIN order = 1 .. k - 1 /\ DOMAIN order' = 1 .. k /\ Len(order') = k
      /\ \A i \in 1 .. k - 1 : order'[i] = order[i]
      /\ order'[k] = next
    BY <1>1, <1>3 DEF TypeOK
<1>5. Placed' = Placed \cup {next}
    BY <1>4 DEF Placed
<1>6. Stuck' = Stuck \ {next}
    BY <1>1, <1>5 DEF Stuck
<1>7. \A m \in Stuck \ {next} :
          /\ (depends[m] \ Placed') \in SUBSET declared
          /\ Cardinality(depends[m] \ Placed') =
                IF m \in Dependents(next) THEN remaining[m] - 1 ELSE remaining[m]
          /\ Cardinality(depends[m] \ Placed') \in Nat
          /\ Cardinality(depends[m] \ Placed') = 0 <=> depends[m] \subseteq Placed'
    <2> SUFFICES ASSUME NEW m \in Stuck \ {next}
                 PROVE  /\ (depends[m] \ Placed') \in SUBSET declared
                        /\ Cardinality(depends[m] \ Placed') =
                              IF m \in Dependents(next) THEN remaining[m] - 1 ELSE remaining[m]
                        /\ Cardinality(depends[m] \ Placed') \in Nat
                        /\ Cardinality(depends[m] \ Placed') = 0 <=> depends[m] \subseteq Placed'
        OBVIOUS
    <2>1. /\ m \in declared /\ depends[m] \subseteq declared
          /\ remaining[m] = Cardinality(depends[m] \ Placed)
        BY <1>2 DEF Stuck
    <2>2. depends[m] \ Placed' = (depends[m] \ Placed) \ {next}
        BY <1>5
    <2>3. IsFiniteSet(depends[m] \ Placed) /\ IsFiniteSet(depends[m] \ Placed')
        BY <2>1, FiniteProject
    <2>4. m \in Dependents(next) <=> next \in depends[m] \ Placed
        BY <1>3, <2>1 DEF Dependents
    <2>5. Cardinality(depends[m] \ Placed') =
              IF next \in depends[m] \ Placed
                THEN Cardinality(depends[m] \ Placed) - 1 ELSE Cardinality(depends[m] \ Placed)
        <3> DEFINE missing == depends[m] \ Placed
        <3> HIDE DEF missing
        <3>1. IsFiniteSet(missing) =>
                Cardinality(missing \ {next}) =
                    IF next \in missing THEN Cardinality(missing) - 1 ELSE Cardinality(missing)
            BY FS_RemoveElement
        <3>2. depends[m] \ Placed' = missing \ {next} /\ IsFiniteSet(missing)
            BY <2>2, <2>3 DEF missing
        <3> QED BY <3>1, <3>2 DEF missing
    <2>6. Cardinality(depends[m] \ Placed') \in Nat
        BY <2>1, FiniteProject
    <2>7. Cardinality(depends[m] \ Placed') = 0 <=> depends[m] \ Placed' = {}
        BY <2>3, FS_EmptySet
    <2> QED BY <2>1, <2>4, <2>5, <2>6, <2>7
<1>8. /\ DOMAIN remaining' = Stuck'
      /\ \A m \in Stuck' : remaining'[m] = Cardinality(depends[m] \ Placed')
                           /\ remaining'[m] \in Nat
    BY <1>2, <1>6, <1>7 DEF Place
<1>9. ready' = {m \in Stuck' : depends[m] \subseteq Placed'}
    <2>1. ready' = (ready \ {next}) \cup
                   {m \in Dependents(next) : m \in Stuck' /\ depends[m] \subseteq Placed'}
        BY <1>6, <1>7, <1>8 DEF Place
    <2>2. \A m \in Stuck' \ Dependents(next) :
              depends[m] \subseteq Placed' <=> depends[m] \subseteq Placed
        BY <1>1, <1>5 DEF Dependents, Stuck
    <2> QED BY <1>1, <1>2, <1>5, <1>6, <2>1, <2>2 DEF Stuck, Dependents
<1>10. Len(order') = Cardinality(Placed')
    <2>1. IsFiniteSet(Placed) /\ Cardinality(Placed) \in Nat
        BY <1>3, FiniteProject
    <2>2. Cardinality(Placed \cup {next}) = Cardinality(Placed) + 1
        BY <1>3, <2>1, FS_AddElement
    <2> QED BY <1>2, <1>4, <1>5, <2>2
<1> DEFINE Now(i, id) == \E j \in 1 .. i - 1 : order'[j] = id
<1>11. \A i \in 1 .. k : \A id : Now(i, id) <=> Before(i, id)
    BY <1>4 DEF Before
<1>12. /\ \A id : Before(k, id) <=> id \in Placed
       /\ \A id : Now(k + 1, id) <=> id \in Placed'
    <2>1. \A id : Before(k, id) <=> id \in Placed
        BY <1>4 DEF Before, Placed
    <2>2. (k + 1) - 1 = k
        BY <1>4
    <2>3. \A id : Now(k + 1, id) <=> id \in Placed'
        BY <1>4, <2>2 DEF Placed
    <2> QED BY <2>1, <2>3
<1> HIDE DEF Now
<1>13. TypeOK'
    <2>1. ready' \subseteq declared /\ Stuck' \subseteq declared
        BY <1>1, <1>9 DEF Stuck
    <2> QED BY <1>1, <1>4, <1>8, <2>1 DEF TypeOK
<1>14. ASSUME NEW i \in DOMAIN order', NEW m \in declared,
              ~Now(i + 1, m), m < order'[i]
       PROVE  \E n \in depends[m] : ~Now(i, n)
    <2>1. CASE i \in 1 .. k - 1
        <3>1. ~Before(i + 1, m) /\ m < order[i]
            BY <1>4, <1>11, <1>14, <2>1
        <3>2. \E n \in depends[m] : ~Before(i, n)
            BY <1>2, <1>4, <2>1, <3>1
        <3> QED BY <1>4, <1>11, <2>1, <3>2
    <2>2. CASE i = k
        <3>1. m \notin Placed' /\ m < next
            BY <1>4, <1>12, <1>14, <2>2
        <3>2. m \notin ready
            BY <1>3, <3>1, IdsAssumption DEF TypeOK
        <3>3. ~(depends[m] \subseteq Placed)
            BY <1>2, <1>5, <3>1, <3>2 DEF Stuck
        <3> QED BY <1>11, <1>12, <1>4, <2>2, <3>3
    <2> QED BY <1>4, <2>1, <2>2
<1>15. SortInv'
    <2>1. \A i \in DOMAIN order' : \A m \in declared :
              ~Before(i + 1, m)' /\ m < order'[i] => \E n \in depends[m] : ~Before(i, n)'
        BY <1>14 DEF Before, Now
    <2> QED BY <1>1, <1>2, <1>8, <1>9, <1>10, <2>1 DEF SortInv
<1>16. DependenciesFirst'
    <2>1. ASSUME NEW i \in DOMAIN order'
          PROVE  ~Now(i, order'[i]) /\ \A n \in depends[order'[i]] : Now(i, n)
        <3>1. CASE i \in 1 .. k - 1
            <4>1. i \in DOMAIN order /\ order'[i] = order[i]
                BY <1>4, <3>1
            <4>2. ~Before(i, order[i]) /\ \A n \in depends[order[i]] : Before(i, n)
                BY <4>1 DEF DependenciesFirst
            <4> QED BY <1>4, <1>11, <3>1, <4>1, <4>2
        <3>2. CASE i = k
            BY <1>3, <1>4, <1>11, <1>12, <3>2
        <3> QED BY <1>4, <3>1, <3>2
    <2> QED BY <1>1, <2>1 DEF DependenciesFirst, Before, Now
<1>17. WalkInv' /\ CycleIsReal' /\ ClosureInv'
    BY <1>1 DEF WalkInv, CycleIsReal, ClosureInv
<1> QED BY <1>13, <1>15, <1>16, <1>17

(***************************************************************************)
(* Accepting, or looking for the cycle.                                    *)
(***************************************************************************)

\* When nothing is ready, every stuck migration waits for another stuck one.
LEMMA StuckWaitsForStuck ==
    GInv /\ phase \notin {"building", "unknown"} /\ ready = {} =>
        \A m \in Stuck : depends[m] \cap Stuck # {}
BY DEF GInv, LoopsInv, SortInv, Stuck

\* What holds of the order is not about the walk or the search.
LEMMA SortKept ==
    ASSUME GInv, UNCHANGED <<graph, sort>>,
           phase \in {"building", "unknown"} <=> phase' \in {"building", "unknown"}
    PROVE  SortInv' /\ DependenciesFirst' /\ Stuck' = Stuck
<1> USE DEF GInv, LoopsInv
<1>1. UNCHANGED <<declared, depends, remaining, ready, order>>
    BY DEF graph, sort
<1>2. Placed' = Placed
    BY <1>1 DEF Placed
<1>3. Stuck' = Stuck
    BY <1>1, <1>2 DEF Stuck
<1>4. DependenciesFirst'
    BY <1>1 DEF DependenciesFirst, Before
<1>5. SortInv'
    <2>1. /\ \A m \in declared' : m \notin depends'[m]
          /\ phase' \in {"building", "unknown"} => order' = << >>
        BY <1>1 DEF SortInv
    <2>2. ASSUME phase' \notin {"building", "unknown"}
          PROVE  /\ \A m \in declared' : depends'[m] \subseteq declared'
                 /\ DOMAIN remaining' = Stuck'
                 /\ \A m \in Stuck' : remaining'[m] = Cardinality(depends'[m] \ Placed')
                 /\ ready' = {m \in Stuck' : depends'[m] \subseteq Placed'}
                 /\ Len(order') = Cardinality(Placed')
        BY <1>1, <1>2, <1>3, <2>2 DEF SortInv
    <2>3. ASSUME phase' \notin {"building", "unknown"}
          PROVE  \A i \in DOMAIN order' : \A m \in declared' :
                    ~Before(i + 1, m)' /\ m < order'[i] => \E n \in depends'[m] : ~Before(i, n)'
        BY <1>1, <2>3 DEF SortInv, Before
    <2> QED BY <2>1, <2>2, <2>3 DEF SortInv
<1> QED BY <1>3, <1>4, <1>5

\* Neither accepting a graph nor refusing one for an unknown dependency disturbs
\* the loop invariants.
LEMMA AcceptStep == GInv /\ (Accept \/ UnknownDependency) => GInv'
<1> SUFFICES ASSUME GInv, Accept \/ UnknownDependency PROVE GInv'
    OBVIOUS
<1> USE DEF GInv, LoopsInv
<1>1. CASE UnknownDependency
    <2>1. phase = "building" /\ phase' = "unknown" /\ UNCHANGED <<graph, sort, walk, closure>>
        BY <1>1 DEF UnknownDependency
    <2>2. TypeOK'
        BY <2>1 DEF TypeOK, Phases, graph, sort, walk, closure
    <2>3. SortInv' /\ DependenciesFirst'
        BY <2>1, SortKept
    <2>4. WalkInv' /\ CycleIsReal' /\ ClosureInv'
        BY <2>1 DEF WalkInv, CycleIsReal, ClosureInv, walk
    <2> QED BY <2>2, <2>3, <2>4
<1>2. CASE Accept
    <2>1. /\ phase = "sorting" /\ phase' = "accepted" /\ UNCHANGED <<graph, sort, walk, closure>>
          /\ Len(order) = Cardinality(declared)
        BY <1>2 DEF Accept
    <2>2. Placed = declared
        <3>1. Placed \in SUBSET declared
            BY DEF Placed, TypeOK
        <3>2. Cardinality(declared) = Cardinality(Placed)
            BY <2>1 DEF SortInv
        <3> QED BY <3>1, <3>2, FiniteProject, FS_Subset
    <2>3. TypeOK'
        BY <2>1 DEF TypeOK, Phases, graph, sort, walk, closure
    <2>4. SortInv' /\ DependenciesFirst'
        BY <2>1, SortKept
    <2>5. WalkInv' /\ CycleIsReal' /\ ClosureInv'
        BY <2>1, <2>2 DEF WalkInv, CycleIsReal, ClosureInv, Placed, graph, sort, walk, closure
    <2> QED BY <2>3, <2>4, <2>5
<1> QED BY <1>1, <1>2

\* The walk for a cycle begins at a migration that is stuck.
LEMMA StartWalkStep == GInv /\ StartWalk => GInv'
<1> SUFFICES ASSUME GInv, StartWalk PROVE GInv'
    OBVIOUS
<1> USE DEF GInv, LoopsInv
<1>1. /\ phase = "sorting" /\ phase' = "walking" /\ ready = {}
      /\ UNCHANGED <<declared, depends, remaining, ready, order, path, cycle,
                     asked, included, stack>>
      /\ current' \in Stuck
      /\ path = << >>
    BY DEF StartWalk, WalkInv, graph, sort, closure
<1>2. TypeOK'
    BY <1>1 DEF TypeOK, Phases, Stuck
<1>3. SortInv' /\ DependenciesFirst'
    BY <1>1, SortKept DEF graph, sort
<1>4. WalkInv' /\ CycleIsReal' /\ ClosureInv'
    BY <1>1 DEF WalkInv, CycleIsReal, ClosureInv, Stuck, Placed
<1> QED BY <1>2, <1>3, <1>4

\* A turn of the walk stays among the stuck and on the graph's edges.
LEMMA WalkStep == GInv /\ Walk => GInv'
<1> SUFFICES ASSUME GInv, Walk PROVE GInv'
    OBVIOUS
<1> USE DEF GInv, LoopsInv
<1>1. /\ phase = "walking" /\ phase' = "walking"
      /\ UNCHANGED <<declared, depends, remaining, ready, order, cycle,
                     asked, included, stack>>
      /\ current' \in depends[current] /\ current' \in Stuck
      /\ path' = Append(path, current)
      /\ \A i \in DOMAIN path : path[i] # current
    BY DEF Walk, graph, sort, closure
<1>2. /\ Stuck' = Stuck /\ Stuck \subseteq declared /\ Stuck # {} /\ ready = {}
      /\ current \in Stuck
      /\ \A i \in DOMAIN path :
            /\ path[i] \in Stuck
            /\ \A j \in DOMAIN path : path[i] = path[j] => i = j
            /\ (IF i = Len(path) THEN current ELSE path[i + 1]) \in depends[path[i]]
    BY <1>1 DEF WalkInv, Stuck, Placed
<1> DEFINE k == Len(path) + 1
<1>3. /\ path' \in Seq(declared) /\ k \in Nat
      /\ DOMAIN path = 1 .. k - 1 /\ DOMAIN path' = 1 .. k /\ Len(path') = k
      /\ \A i \in 1 .. k - 1 : path'[i] = path[i]
      /\ path'[k] = current
    BY <1>1, <1>2 DEF TypeOK
<1>4. TypeOK'
    BY <1>1, <1>2, <1>3 DEF TypeOK
<1>5. SortInv' /\ DependenciesFirst'
    BY <1>1, SortKept DEF graph, sort
<1>6. ASSUME NEW i \in DOMAIN path'
      PROVE  /\ path'[i] \in Stuck
             /\ \A j \in DOMAIN path' : path'[i] = path'[j] => i = j
             /\ (IF i = Len(path') THEN current' ELSE path'[i + 1]) \in depends[path'[i]]
    <2>1. CASE i = k
        BY <1>1, <1>2, <1>3, <2>1
    <2>2. CASE i \in 1 .. k - 1
        <3>1. path'[i] = path[i] /\ i # k /\ i + 1 \in 1 .. k
            BY <1>3, <2>2
        <3>2. path[i] \in Stuck /\ \A j \in DOMAIN path' : path'[i] = path'[j] => i = j
            BY <1>1, <1>2, <1>3, <2>2, <3>1
        <3>3. path'[i + 1] = IF i = Len(path) THEN current ELSE path[i + 1]
            BY <1>3, <2>2, <3>1
        <3> QED BY <1>2, <1>3, <2>2, <3>1, <3>2, <3>3
    <2> QED BY <1>3, <2>1, <2>2
<1>7. WalkInv'
    BY <1>1, <1>2, <1>6 DEF WalkInv
<1>8. CycleIsReal' /\ ClosureInv'
    BY <1>1 DEF CycleIsReal, ClosureInv
<1> QED BY <1>4, <1>5, <1>7, <1>8

\* The walk closes: from where it stands, the path leads back to where it stands.
LEMMA RefuseStep == GInv /\ Refuse => GInv'
<1> SUFFICES ASSUME GInv, Refuse PROVE GInv'
    OBVIOUS
<1> USE DEF GInv, LoopsInv
<1>1. /\ phase = "walking" /\ phase' = "refused"
      /\ UNCHANGED <<declared, depends, remaining, ready, order, path, current,
                     asked, included, stack>>
    BY DEF Refuse, graph, sort, closure
<1>2. PICK entry \in DOMAIN path : /\ path[entry] = current
                                   /\ cycle' = SubSeq(path, entry, Len(path))
    BY DEF Refuse
<1>3. \A i \in DOMAIN path :
          /\ \A j \in DOMAIN path : path[i] = path[j] => i = j
          /\ (IF i = Len(path) THEN current ELSE path[i + 1]) \in depends[path[i]]
    BY <1>1 DEF WalkInv
<1> DEFINE n == Len(path) - entry + 1
<1>4. /\ path \in Seq(declared) /\ DOMAIN path = 1 .. Len(path)
      /\ entry \in 1 .. Len(path) /\ Len(path) \in Nat
    BY DEF TypeOK
<1>5. /\ cycle' \in Seq(declared) /\ n \in Nat \ {0}
      /\ DOMAIN cycle' = 1 .. n /\ Len(cycle') = n
      /\ \A i \in 1 .. n : cycle'[i] = path[entry + i - 1]
    BY <1>2, <1>4
<1>6. TypeOK'
    BY <1>1, <1>5 DEF TypeOK, Phases
<1>7. SortInv' /\ DependenciesFirst'
    BY <1>1, SortKept DEF graph, sort
<1>8. CycleIsReal'
    <2>1. ASSUME NEW i \in 1 .. n
          PROVE  /\ cycle'[IF i = n THEN 1 ELSE i + 1] \in depends[cycle'[i]]
                 /\ \A j \in 1 .. n : cycle'[i] = cycle'[j] => i = j
        <3>1. /\ cycle'[i] = path[entry + i - 1]
              /\ entry + i - 1 \in DOMAIN path
            BY <1>4, <1>5
        <3>2. ASSUME i = n PROVE cycle'[1] \in depends[cycle'[i]]
            <4>1. entry + i - 1 = Len(path) /\ cycle'[1] = current
                BY <1>2, <1>4, <1>5, <3>2
            <4>2. current \in depends[path[Len(path)]]
                BY <1>3, <3>1, <4>1
            <4> QED BY <3>1, <3>2, <4>1, <4>2
        <3>3. ASSUME i # n PROVE cycle'[i + 1] \in depends[cycle'[i]]
            <4>1. /\ entry + i - 1 # Len(path) /\ i + 1 \in 1 .. n
                  /\ entry + (i + 1) - 1 = (entry + i - 1) + 1
                BY <1>4, <1>5, <3>3
            <4>2. cycle'[i + 1] = path[(entry + i - 1) + 1]
                BY <1>5, <4>1
            <4>3. path[(entry + i - 1) + 1] \in depends[path[entry + i - 1]]
                BY <1>3, <3>1, <4>1
            <4> QED BY <3>1, <3>3, <4>2, <4>3
        <3>4. ASSUME NEW j \in 1 .. n, cycle'[i] = cycle'[j] PROVE i = j
            <4>1. cycle'[j] = path[entry + j - 1] /\ entry + j - 1 \in DOMAIN path
                BY <1>4, <1>5
            <4>2. entry + i - 1 = entry + j - 1
                BY <1>3, <3>1, <3>4, <4>1
            <4> QED BY <1>4, <4>2
        <3> QED BY <3>2, <3>3, <3>4
    <2>2. cycle' # << >>
        BY <1>5
    <2> QED BY <1>1, <1>5, <2>1, <2>2 DEF CycleIsReal
<1>9. WalkInv' /\ ClosureInv'
    BY <1>1 DEF WalkInv, ClosureInv, Stuck, Placed
<1> QED BY <1>6, <1>7, <1>8, <1>9

(***************************************************************************)
(* The closure.                                                            *)
(***************************************************************************)

\* Every turn of closure_of keeps what its stack and its set mean.
LEMMA ClosureStep == GInv /\ ((\E id \in declared : Ask(id)) \/ Visit \/ Close) => GInv'
<1> SUFFICES ASSUME GInv, (\E id \in declared : Ask(id)) \/ Visit \/ Close PROVE GInv'
    OBVIOUS
<1> USE DEF GInv, LoopsInv
<1>1. /\ UNCHANGED <<declared, depends, remaining, ready, order, path, current, cycle>>
      /\ phase \in {"accepted", "closing"} /\ phase' \in {"closing", "closed"}
    BY DEF Ask, Visit, Close, graph, sort, walk, closure
<1>2. SortInv' /\ DependenciesFirst'
    BY <1>1, SortKept DEF graph, sort
<1>3. WalkInv' /\ CycleIsReal' /\ Placed' = Placed /\ Placed = declared
    BY <1>1 DEF WalkInv, CycleIsReal, ClosureInv, Placed
<1>4. \A d \in declared : depends[d] \subseteq declared
    BY <1>1 DEF SortInv
<1>5. CASE \E id \in declared : Ask(id)
    <2>1. PICK id \in declared : Ask(id)
        BY <1>5
    <2>2. asked' = id /\ included' = {} /\ stack' = {id} /\ phase' = "closing"
        BY <2>1 DEF Ask
    <2>3. TypeOK'
        <3>1. id \in Ids
            BY DEF TypeOK
        <3> QED BY <1>1, <2>2, <3>1 DEF TypeOK, Phases
    <2>4. ClosureInv'
        BY <1>1, <1>3, <2>2 DEF ClosureInv
    <2> QED BY <1>2, <1>3, <2>3, <2>4
<1>6. CASE Visit
    <2>1. PICK top \in stack :
              /\ included' = included \cup {top}
              /\ stack' = (stack \ {top}) \cup
                          (IF top \in included THEN {} ELSE depends[top])
              /\ asked' = asked /\ phase = "closing" /\ phase' = "closing"
        BY <1>6 DEF Visit
    <2>2. top \in declared /\ stack' \subseteq declared /\ included' \subseteq declared
        BY <1>4, <2>1 DEF TypeOK
    <2>3. TypeOK'
        BY <1>1, <2>1, <2>2 DEF TypeOK
    <2>4. asked' \in included' \cup stack'
        BY <2>1 DEF ClosureInv
    <2>5. \A d \in included' : depends[d] \subseteq included' \cup stack'
        BY <2>1 DEF ClosureInv
    <2>6. \A S \in SUBSET declared :
              asked \in S /\ DependencyClosed(S) => included' \cup stack' \subseteq S
        BY <2>1 DEF ClosureInv, DependencyClosed
    <2>7. ClosureInv'
        BY <1>1, <1>3, <2>1, <2>4, <2>5, <2>6 DEF ClosureInv, DependencyClosed
    <2> QED BY <1>2, <1>3, <2>3, <2>7
<1>7. CASE Close
    <2>1. stack = {} /\ phase = "closing" /\ phase' = "closed" /\ UNCHANGED <<asked, included, stack>>
        BY <1>7 DEF Close, closure
    <2>2. TypeOK'
        BY <1>1, <2>1 DEF TypeOK, Phases
    <2>3. ClosureInv'
        BY <1>1, <1>3, <2>1 DEF ClosureInv, DependencyClosed
    <2> QED BY <1>2, <1>3, <2>2, <2>3
<1> QED BY <1>5, <1>6, <1>7

(***************************************************************************)
(* The theorems.                                                           *)
(***************************************************************************)

\* Every step keeps the loop invariants.
LEMMA GStep == GInv /\ [Next]_vars => GInv'
<1> SUFFICES ASSUME GInv, [Next]_vars PROVE GInv'
    OBVIOUS
<1>1. CASE UNCHANGED vars
    <2> USE DEF GInv, LoopsInv
    <2>1. TypeOK'
        BY <1>1 DEF TypeOK, vars, graph, sort, walk, closure
    <2>2. SortInv' /\ DependenciesFirst' /\ Stuck' = Stuck
        BY <1>1, SortKept DEF vars
    <2>3. WalkInv' /\ CycleIsReal'
        BY <1>1, <2>2 DEF WalkInv, CycleIsReal, vars, graph, sort, walk
    <2>4. ClosureInv'
        BY <1>1 DEF ClosureInv, DependencyClosed, Placed, vars, graph, sort, closure
    <2> QED BY <2>1, <2>2, <2>3, <2>4
<1>2. CASE PlaceNext
    BY <1>2, PlaceStep DEF PlaceNext
<1> QED BY <1>1, <1>2, StartSortStep, AcceptStep, StartWalkStep, WalkStep, RefuseStep,
        ClosureStep DEF Next

\* What each loop keeps true, of any graph.
THEOREM LoopsAreRight == Spec => []GInv
BY FirstStates, GStep, PTL DEF Spec

\* Counts never fall below zero, and every variable keeps its type.
THEOREM GraphTypes == Spec => []TypeOK
<1>1. GInv => TypeOK
    BY DEF GInv
<1> QED BY <1>1, LoopsAreRight, PTL

\* In the order of any graph, dependencies come first.
THEOREM OrderIsSound == Spec => []DependenciesFirst
<1>1. GInv => DependenciesFirst
    BY DEF GInv, LoopsInv
<1> QED BY <1>1, LoopsAreRight, PTL

\* And among those that could come next, the oldest does.
THEOREM OrderIsByAge == Spec => []TiesBreakByAge
<1>1. GInv => TiesBreakByAge
    <2> SUFFICES ASSUME GInv, NEW i \in DOMAIN order, NEW j \in DOMAIN order,
                        i < j, order[j] < order[i]
                 PROVE  \E n \in depends[order[j]] : ~Before(i, n)
        BY DEF TiesBreakByAge
    <2>1. order \in Seq(declared) /\ DOMAIN order = 1 .. Len(order)
          /\ i \in Nat /\ j \in Nat /\ order[j] \in declared
        BY DEF GInv, TypeOK
    <2>2. ~Before(j, order[j])
        BY DEF GInv, LoopsInv, DependenciesFirst
    <2>3. ~Before(i + 1, order[j])
        BY <2>1, <2>2 DEF Before
    <2> QED BY <2>1, <2>3 DEF GInv, LoopsInv, SortInv
<1> QED BY <1>1, LoopsAreRight, PTL

\* The search for a cycle always has somewhere to go.
THEOREM WalkFindsItsWay == Spec => []WalkGoesOn
<1>1. GInv => WalkGoesOn
    BY StuckWaitsForStuck DEF GInv, LoopsInv, WalkInv, WalkGoesOn
<1> QED BY <1>1, LoopsAreRight, PTL

\* And the cycle it reports is one.
THEOREM CyclesAreReal == Spec => []CycleIsReal
<1>1. GInv => CycleIsReal
    BY DEF GInv, LoopsInv
<1> QED BY <1>1, LoopsAreRight, PTL

\* The order is the one order that dependencies and age decide.
THEOREM OrdersAreRight == Spec => []OrderIsRight
BY OrderIsSound, OrderIsByAge, PTL DEF OrderIsRight

\* A member of a set of positions comes at the turn that says how many have come.
LEMMA Turns ==
    ASSUME NEW N \in Nat, NEW I \in SUBSET (1 .. N)
    PROVE  /\ Cardinality(I) \in Nat
           /\ \A i \in I : Turn(i, I) \in 1 .. Cardinality(I)
           /\ \A i, j \in I : i < j => Turn(i, I) < Turn(j, I)
           /\ \A k \in 1 .. Cardinality(I) : \E i \in I : Turn(i, I) = k
<1> DEFINE upto(i) == {j \in I : j <= i}
           T == 1 .. Cardinality(I)
<1>1. IsFiniteSet(I) /\ Cardinality(I) \in Nat
    <2>1. IsFiniteSet(1 .. N)
        BY FS_Interval
    <2>2. IsFiniteSet(I)
        BY <2>1, FS_Subset
    <2> QED BY <2>2, FS_CardinalityType
<1>2. \A i \in I : IsFiniteSet(upto(i)) /\ Cardinality(upto(i)) \in Nat
    <2> SUFFICES ASSUME NEW i \in I PROVE IsFiniteSet(upto(i)) /\ Cardinality(upto(i)) \in Nat
        OBVIOUS
    <2>1. upto(i) \in SUBSET I
        OBVIOUS
    <2> QED BY <1>1, <2>1, FS_Subset, FS_CardinalityType
<1>3. \A i \in I : Turn(i, I) = Cardinality(upto(i))
    BY DEF Turn
<1>4. \A i \in I : Turn(i, I) \in T
    <2> SUFFICES ASSUME NEW i \in I PROVE Cardinality(upto(i)) \in T
        BY <1>3
    <2>1. upto(i) \in SUBSET I /\ i \in upto(i)
        OBVIOUS
    <2>2. Cardinality(upto(i)) <= Cardinality(I) /\ Cardinality(upto(i)) # 0
        BY <1>1, <1>2, <2>1, FS_Subset, FS_EmptySet
    <2> QED BY <1>1, <1>2, <2>2
<1>5. \A i, j \in I : i < j => Turn(i, I) < Turn(j, I)
    <2> SUFFICES ASSUME NEW i \in I, NEW j \in I, i < j
                 PROVE  Cardinality(upto(i)) < Cardinality(upto(j))
        BY <1>3
    <2>1. upto(i) \in SUBSET upto(j) /\ j \in upto(j) /\ j \notin upto(i)
        <3>1. \A l \in I : l \in Nat
            OBVIOUS
        <3>2. i \in Nat /\ j \in Nat /\ \A l \in I : l <= i => l <= j
            BY <3>1
        <3>3. j \in upto(j)
            BY <3>2
        <3>4. j \notin upto(i)
            BY <3>2
        <3>5. upto(i) \subseteq upto(j)
            BY <3>2
        <3> QED BY <3>3, <3>4, <3>5
    <2>2. /\ Cardinality(upto(i)) <= Cardinality(upto(j))
          /\ Cardinality(upto(i)) # Cardinality(upto(j))
        BY <1>2, <2>1, FS_Subset
    <2> QED BY <1>2, <2>2
<1>6. \A k \in T : \E i \in I : Turn(i, I) = k
    <2>1. Cardinality(T) = Cardinality(I) /\ IsFiniteSet(T)
        BY <1>1, FS_Interval
    <2> DEFINE turn == [i \in I |-> Turn(i, I)]
    <2>2. \A i \in I : turn[i] = Turn(i, I)
        OBVIOUS
    <2>3. turn \in [I -> T]
        BY <1>4
    <2>4. \A i, j \in I : turn[i] = turn[j] => i = j
        <3> SUFFICES ASSUME NEW i \in I, NEW j \in I, Turn(i, I) = Turn(j, I) PROVE i = j
            OBVIOUS
        <3>1. Turn(i, I) \in Int /\ i \in Int /\ j \in Int
            BY <1>1, <1>4
        <3> QED BY <1>5, <3>1
    <2> HIDE DEF T, turn
    <2>5. turn \in Injection(I, T)
        BY <2>3, <2>4, Fun_IsInj
    <2>6. turn \in Surjection(I, T)
        BY <2>1, <2>5, FS_Injection
    <2>7. \A k \in T : \E i \in I : turn[i] = k
        BY <2>6 DEF Surjection
    <2> QED BY <2>2, <2>7
<1> QED BY <1>1, <1>4, <1>5, <1>6

\* The filter of the order keeps what was included, each once, and in that order.
LEMMA ClosureInOrder ==
    ASSUME GInv, included \subseteq Placed, DependencyClosed(included)
    PROVE  /\ included \subseteq {Closure[k] : k \in DOMAIN Closure}
           /\ \A k \in DOMAIN Closure :
                 /\ Closure[k] \in included
                 /\ \A l \in DOMAIN Closure : Closure[k] = Closure[l] => k = l
                 /\ \A n \in depends[Closure[k]] : \E l \in 1 .. k - 1 : Closure[l] = n
<1> DEFINE I == IncludedAt
           T == 1 .. Cardinality(I)
           at == [k \in T |-> CHOOSE i \in I : Turn(i, I) = k]
<1>1. Len(order) \in Nat /\ DOMAIN order = 1 .. Len(order) /\ I \in SUBSET (1 .. Len(order))
    BY DEF GInv, TypeOK, IncludedAt
<1>2. Closure = [k \in T |-> order[at[k]]] /\ DOMAIN Closure = T
    BY DEF Closure
<1>3. \A i \in I : order[i] \in included
    BY DEF IncludedAt
<1>4. \A d \in included : \E i \in I : order[i] = d
    BY DEF Placed, IncludedAt
<1>5. \A i \in I : /\ \A n \in depends[order[i]] : \E j \in I : j < i /\ order[j] = n
                   /\ \A j \in I : order[i] = order[j] => i = j
    <2>1. \A i \in I : \A j \in 1 .. i - 1 : order[j] # order[i]
        BY DEF GInv, LoopsInv, DependenciesFirst, Before, IncludedAt
    <2>2. ASSUME NEW i \in I, NEW n \in depends[order[i]] PROVE \E j \in I : j < i /\ order[j] = n
        <3>1. PICK j \in 1 .. i - 1 : order[j] = n
            BY DEF GInv, LoopsInv, DependenciesFirst, Before, IncludedAt
        <3>2. n \in included
            BY <1>3 DEF DependencyClosed
        <3>3. j \in DOMAIN order /\ j < i
            BY <1>1, <3>1
        <3> QED BY <3>1, <3>2, <3>3 DEF IncludedAt
    <2> HIDE DEF I
    <2>3. ASSUME NEW i \in I, NEW j \in I, order[i] = order[j] PROVE i = j
        BY <1>1, <2>1, <2>3
    <2> QED BY <2>2, <2>3
<1> HIDE DEF I
<1>6. /\ Cardinality(I) \in Nat
      /\ \A i \in I : Turn(i, I) \in T
      /\ \A i, j \in I : i < j => Turn(i, I) < Turn(j, I)
      /\ \A k \in T : \E i \in I : Turn(i, I) = k
    <2>1. Len(order) \in Nat /\ I \in SUBSET (1 .. Len(order))
        BY <1>1
    <2> HIDE DEF T
    <2>2. /\ Cardinality(I) \in Nat
          /\ \A i \in I : Turn(i, I) \in 1 .. Cardinality(I)
          /\ \A i, j \in I : i < j => Turn(i, I) < Turn(j, I)
          /\ \A k \in 1 .. Cardinality(I) : \E i \in I : Turn(i, I) = k
        BY <2>1, Turns
    <2> QED BY <2>2 DEF T
<1>7. \A k \in T : at[k] \in I /\ Turn(at[k], I) = k
    BY <1>6
<1>8. \A i \in I : Turn(i, I) \in T /\ at[Turn(i, I)] = i
    <2> SUFFICES ASSUME NEW i \in I PROVE Turn(i, I) \in T /\ at[Turn(i, I)] = i
        OBVIOUS
    <2> HIDE DEF at
    <2>1. Turn(i, I) \in T /\ at[Turn(i, I)] \in I /\ Turn(at[Turn(i, I)], I) = Turn(i, I)
        BY <1>6, <1>7
    <2>2. i \in 1 .. Len(order) /\ at[Turn(i, I)] \in 1 .. Len(order)
        BY <1>1, <2>1
    <2> QED BY <1>6, <2>1, <2>2
<1> HIDE DEF at
<1>9. ASSUME NEW k \in T
       PROVE  /\ Closure[k] \in included
              /\ \A l \in T : Closure[k] = Closure[l] => k = l
              /\ \A n \in depends[Closure[k]] : \E l \in 1 .. k - 1 : Closure[l] = n
    <2>1. Closure[k] = order[at[k]] /\ at[k] \in I
        BY <1>2, <1>7
    <2>2. Closure[k] \in included
        BY <1>3, <2>1
    <2>3. ASSUME NEW l \in T, Closure[k] = Closure[l] PROVE k = l
        BY <1>2, <1>5, <1>7, <2>1, <2>3
    <2>4. ASSUME NEW n \in depends[Closure[k]] PROVE \E l \in 1 .. k - 1 : Closure[l] = n
        <3>1. PICK j \in I : j < at[k] /\ order[j] = n
            BY <1>5, <2>1
        <3>2. Turn(j, I) \in T /\ Turn(j, I) < k /\ at[Turn(j, I)] = j
            BY <1>6, <1>7, <1>8, <2>1, <3>1
        <3>3. Turn(j, I) \in 1 .. k - 1 /\ Closure[Turn(j, I)] = n
            BY <1>2, <1>6, <3>1, <3>2
        <3> QED BY <3>3
    <2> QED BY <2>2, <2>3, <2>4
<1>10. ASSUME NEW d \in included PROVE \E k \in T : Closure[k] = d
    <2>1. PICK i \in I : order[i] = d
        BY <1>4
    <2> QED BY <1>2, <1>8, <2>1
<1> HIDE DEF T
<1> QED BY <1>2, <1>9, <1>10

\* What closure_of selects is the least closed set with what was asked for, each
\* of it after what it depends on.
THEOREM ClosuresAreLeast == Spec => []ClosureIsLeast
<1>1. GInv => ClosureIsLeast
    <2> SUFFICES ASSUME GInv, phase = "closed" PROVE ClosureIsLeast
        BY DEF ClosureIsLeast
    <2>1. included \subseteq Placed /\ DependencyClosed(included)
        BY DEF GInv, TypeOK, LoopsInv, ClosureInv, DependencyClosed
    <2>2. /\ asked \in included
          /\ \A S \in SUBSET declared :
                asked \in S /\ DependencyClosed(S) => included \subseteq S
        BY DEF GInv, LoopsInv, ClosureInv
    <2> QED BY <2>1, <2>2, ClosureInOrder DEF ClosureIsLeast
<1> QED BY <1>1, LoopsAreRight, PTL

(***************************************************************************)
(* Cycles and heads.  A set in which everything waits for something in it  *)
(* is never begun; a set in which something waits for everything is never  *)
(* finished.  Neither needs a least element to be picked.                  *)
(***************************************************************************)

\* Each waits for another.
Knot(S) == \A m \in S : depends[m] \cap S # {}

\* For each, another waits.
Endless(S) == S # {} /\ \A m \in S : Dependents(m) \cap S # {}

\* The first is never begun, and the second never finished.
SetsInv ==
    \A S \in SUBSET declared :
        /\ Knot(S) => S \cap Placed = {}
        /\ Endless(S) => ~(S \subseteq Placed)

\* Nothing is placed at first, so no set has been begun.
LEMMA SetsAtFirst == Init => SetsInv
BY DEF Init, SetsInv, Endless, Placed

\* No step begins a set in which each definition depends on another of the set,
\* nor completes one in which each has a dependent in the set.
LEMMA SetsStep == GInv /\ SetsInv /\ [Next]_vars => SetsInv'
<1> SUFFICES ASSUME GInv, SetsInv, [Next]_vars PROVE SetsInv'
    OBVIOUS
<1>1. CASE UNCHANGED <<declared, depends, order>>
    <2>1. Placed' = Placed /\ \A S : (Knot(S)' <=> Knot(S)) /\ (Endless(S)' <=> Endless(S))
        BY <1>1 DEF Placed, Knot, Endless, Dependents
    <2> QED BY <1>1, <2>1 DEF SetsInv
<1>2. CASE PlaceNext
    <2>1. PICK next \in ready : Place(next)
        BY <1>2 DEF PlaceNext
    <2>2. /\ UNCHANGED <<declared, depends>> /\ phase = "sorting"
          /\ order' = Append(order, next) /\ order \in Seq(declared)
        BY <2>1 DEF Place, graph, GInv, TypeOK
    <2>3. /\ next \in declared /\ next \notin Placed
          /\ next \notin depends[next] /\ depends[next] \subseteq Placed
        BY <2>2 DEF GInv, LoopsInv, SortInv, Stuck
    <2>4. Placed' = Placed \cup {next}
        BY <2>2, <2>3 DEF Placed
    <2>5. \A d \in Placed : depends[d] \subseteq Placed
        BY <2>2 DEF GInv, LoopsInv, DependenciesFirst, Before, Placed
    <2>6. ASSUME NEW S \in SUBSET declared, Knot(S) PROVE S \cap Placed' = {}
        BY <2>3, <2>4, <2>6 DEF SetsInv, Knot
    <2>7. ASSUME NEW S \in SUBSET declared, Endless(S) PROVE ~(S \subseteq Placed')
        <3>1. SUFFICES ASSUME S \subseteq Placed' PROVE FALSE
            OBVIOUS
        <3>2. next \in S
            BY <2>4, <2>7, <3>1 DEF SetsInv
        <3>3. PICK d \in S : next \in depends[d]
            BY <2>7, <3>2 DEF Endless, Dependents
        <3>4. d \in Placed
            BY <2>3, <2>4, <3>1, <3>3
        <3> QED BY <2>3, <2>5, <3>3, <3>4
    <2>8. \A S : (Knot(S)' <=> Knot(S)) /\ (Endless(S)' <=> Endless(S))
        BY <2>2 DEF Knot, Endless, Dependents
    <2> QED BY <2>2, <2>6, <2>7, <2>8 DEF SetsInv
<1>3. [Next]_vars => PlaceNext \/ UNCHANGED <<declared, depends, order>>
    BY DEF Next, UnknownDependency, StartSort, Accept, StartWalk, Walk, Refuse, Ask, Visit, Close,
        vars, graph, sort
<1> QED BY <1>1, <1>2, <1>3

\* So it is in every reachable state.
LEMMA SetsAreRight == Spec => []SetsInv
<1>1. GInv /\ SetsInv /\ [Next]_vars => SetsInv'
    BY SetsStep
<1> QED BY <1>1, LoopsAreRight, SetsAtFirst, PTL DEF Spec

\* A project is accepted only without a cycle, and refused only with one.
THEOREM AcceptsAcyclic == Spec => []AcceptedWhenAcyclic
<1>1. GInv /\ SetsInv => AcceptedWhenAcyclic
    <2> SUFFICES ASSUME GInv, SetsInv PROVE AcceptedWhenAcyclic
        OBVIOUS
    <2> DEFINE cyclic == \E S \in (SUBSET declared) \ {{}} : Knot(S)
    <2>1. ASSUME phase \in {"accepted", "closing", "closed"} PROVE Placed = declared /\ ~cyclic
        BY <2>1 DEF GInv, LoopsInv, ClosureInv, SetsInv
    <2>2. ASSUME phase \in {"walking", "refused"} PROVE cyclic
        <3>1. ready = {} /\ Stuck # {} /\ Stuck \in SUBSET declared
            BY <2>2 DEF GInv, LoopsInv, WalkInv, Stuck
        <3>2. Knot(Stuck)
            BY <2>2, <3>1, StuckWaitsForStuck DEF Knot
        <3> QED BY <3>1, <3>2
    <2> QED BY <2>1, <2>2 DEF AcceptedWhenAcyclic, Knot
<1> QED BY <1>1, LoopsAreRight, SetsAreRight, PTL

\* A graph that is accepted can be ordered, and one that is refused could not be.
THEOREM VerdictsAreRight == Spec => []VerdictIsRight
BY AcceptsAcyclic, CyclesAreReal, PTL DEF VerdictIsRight

\* What depends on every head depends on the whole project.
THEOREM HeadsAreEnough == Spec => []HeadsCoverTheGraph
<1>1. GInv /\ SetsInv => HeadsCoverTheGraph
    <2> SUFFICES ASSUME GInv, SetsInv, phase = "accepted", NEW S \in SUBSET declared,
                        Heads \subseteq S, DependencyClosed(S)
                 PROVE  S = declared
        BY DEF HeadsCoverTheGraph
    <2>1. Placed = declared
        BY DEF GInv, LoopsInv, ClosureInv
    <2> DEFINE T == declared \ S
    <2>2. ASSUME NEW m \in T PROVE Dependents(m) \cap T # {}
        <3>1. Dependents(m) # {}
            BY DEF Heads
        <3>2. \A d \in Dependents(m) : d \in T
            BY DEF Dependents, DependencyClosed
        <3> QED BY <3>1, <3>2
    <2>3. ~Endless(T)
        BY <2>1 DEF SetsInv
    <2> QED BY <2>2, <2>3 DEF Endless
<1> QED BY <1>1, LoopsAreRight, SetsAreRight, PTL

(***************************************************************************)
(* The loader's view.  Checkout takes the graph of a project at once, by   *)
(* what makes it acceptable; MigrationGraph sorts it.                      *)
(***************************************************************************)

\* The manifests that were read, as Checkout sees them.
Read == {[id |-> m, depends |-> depends[m]] : m \in declared}

\* A graph was found to name an unknown migration only if it does.
UnknownIsSo == phase = "unknown" => \E m \in declared : ~(depends[m] \subseteq declared)

\* It is only said after having looked.
LEMMA UnknownsAreSo == Spec => []UnknownIsSo
<1>1. Init => UnknownIsSo
    BY DEF Init, UnknownIsSo
<1>2. UnknownIsSo /\ [Next]_vars => UnknownIsSo'
    <2> SUFFICES ASSUME UnknownIsSo, [Next]_vars PROVE UnknownIsSo'
        OBVIOUS
    <2>1. UNCHANGED <<declared, depends>>
        BY DEF Next, UnknownDependency, StartSort, PlaceNext, Place, Accept, StartWalk, Walk, Refuse,
               Ask, Visit, Close, vars, graph
    <2>2. phase' = "unknown" => phase = "unknown" \/ UnknownDependency
        BY DEF Next, UnknownDependency, StartSort, PlaceNext, Place, Accept, StartWalk, Walk, Refuse,
               Ask, Visit, Close, vars
    <2>. QED
        BY <2>1, <2>2 DEF UnknownIsSo, UnknownDependency
<1>. QED
    BY <1>1, <1>2, PTL DEF Spec

\* A set of manifests is a set of ids of which each is one's.
LEMMA ReadIds ==
    /\ {o.id : o \in Read} = declared
    /\ \A S \in SUBSET declared : \E part \in SUBSET Read :
          {o.id : o \in part} = S /\ \A o \in part : o.depends = depends[o.id]
    /\ \A part \in SUBSET Read :
          {o.id : o \in part} \subseteq declared /\ \A o \in part : o.depends = depends[o.id]
<1>1. ASSUME NEW S \in SUBSET declared
      PROVE  \E part \in SUBSET Read :
                {o.id : o \in part} = S /\ \A o \in part : o.depends = depends[o.id]
    <2> DEFINE part == {[id |-> m, depends |-> depends[m]] : m \in S}
    <2>1. part \in SUBSET Read
        BY DEF Read
    <2>2. \A o \in part : o.id \in S /\ o.depends = depends[o.id]
        OBVIOUS
    <2>3. ASSUME NEW m \in S PROVE \E o \in part : o.id = m
        <3>1. [id |-> m, depends |-> depends[m]] \in part /\ [id |-> m, depends |-> depends[m]].id = m
            OBVIOUS
        <3>. QED
            BY <3>1
    <2> HIDE DEF part
    <2>. QED
        BY <2>1, <2>2, <2>3
<1>2. \A o \in Read : o.id \in declared /\ o.depends = depends[o.id]
    BY DEF Read
<1>3. ASSUME NEW m \in declared PROVE \E o \in Read : o.id = m
    <2>1. [id |-> m, depends |-> depends[m]] \in Read /\ [id |-> m, depends |-> depends[m]].id = m
        BY DEF Read
    <2>. QED
        BY <2>1
<1>4. {o.id : o \in Read} = declared
    BY <1>2, <1>3
<1>. QED
    BY <1>1, <1>2, <1>4

\* What the loader asks of a graph is that each migration it names is there, and that
\* it has no knot.
LEMMA ValidIsKnotless ==
    GraphValid(Read) <=>
        /\ \A m \in declared : depends[m] \subseteq declared
        /\ \A S \in (SUBSET declared) \ {{}} : ~Knot(S)
<1>1. (\A o \in Read : o.depends \subseteq {n.id : n \in Read})
          <=> \A m \in declared : depends[m] \subseteq declared
    BY ReadIds DEF Read
<1> DEFINE First(part) == \E m \in part : m.depends \cap {o.id : o \in part} = {}
<1>2. ASSUME \A part \in SUBSET Read : part # {} => First(part),
             NEW S \in (SUBSET declared) \ {{}}
      PROVE  ~Knot(S)
    <2>1. PICK part \in SUBSET Read :
              {o.id : o \in part} = S /\ \A o \in part : o.depends = depends[o.id]
        BY ReadIds
    <2>2. part # {}
        BY <2>1
    <2>3. PICK m \in part : m.depends \cap S = {}
        BY <1>2, <2>1, <2>2
    <2>4. m.id \in S /\ depends[m.id] \cap S = {}
        BY <2>1, <2>3
    <2>. QED
        BY <2>4 DEF Knot
<1>3. ASSUME \A S \in (SUBSET declared) \ {{}} : ~Knot(S), NEW part \in SUBSET Read, part # {}
      PROVE  First(part)
    <2> DEFINE S == {o.id : o \in part}
    <2>1. S \in (SUBSET declared) \ {{}} /\ \A o \in part : o.depends = depends[o.id]
        <3>1. S \subseteq declared /\ \A o \in part : o.depends = depends[o.id]
            BY ReadIds
        <3>2. S # {}
            BY <1>3
        <3>. QED
            BY <3>1, <3>2
    <2>2. PICK m \in S : depends[m] \cap S = {}
        BY <1>3, <2>1 DEF Knot
    <2>3. PICK o \in part : o.id = m
        BY <2>2
    <2>. QED
        BY <2>1, <2>2, <2>3
<1>. QED
    BY <1>1, <1>2, <1>3 DEF GraphValid

\* Graph::build accepts what the loader takes it to accept, and refuses the rest.
BuildsWhatLoads ==
    /\ phase \in {"accepted", "closing", "closed"} => GraphValid(Read)
    /\ phase \in {"unknown", "walking", "refused"} => ~GraphValid(Read)

\* The verdict of the sort is the one Checkout's load goes by.
THEOREM LoadersAgree == Spec => []BuildsWhatLoads
<1>1. GInv /\ AcceptedWhenAcyclic /\ UnknownIsSo => BuildsWhatLoads
    <2> SUFFICES ASSUME GInv, AcceptedWhenAcyclic, UnknownIsSo PROVE BuildsWhatLoads
        OBVIOUS
    <2>1. phase = "unknown" => ~GraphValid(Read)
        BY ValidIsKnotless DEF UnknownIsSo
    <2>2. phase \in {"walking", "refused"} => ~GraphValid(Read)
        BY ValidIsKnotless DEF AcceptedWhenAcyclic, Knot
    <2>3. phase \in {"accepted", "closing", "closed"} => \A m \in declared : depends[m] \subseteq declared
        BY DEF GInv, LoopsInv, SortInv
    <2>4. phase \in {"accepted", "closing", "closed"} => \A S \in (SUBSET declared) \ {{}} : ~Knot(S)
        BY DEF AcceptedWhenAcyclic, Knot
    <2>. QED
        BY <2>1, <2>2, <2>3, <2>4, ValidIsKnotless DEF BuildsWhatLoads
<1>. QED
    BY <1>1, LoopsAreRight, AcceptsAcyclic, UnknownsAreSo, PTL

(***************************************************************************)
(* Checkout.  What a process holds where it stands.                        *)
(***************************************************************************)

\* The files of a package.
Contents == {"manifest", "deploy", "revert"}

\* What a package may be.
Packages == [there : BOOLEAN, manifest : Manifests \cup {NoFile, Cut},
             deploy : Texts \cup {NoFile, Cut}, revert : Texts \cup {NoFile, Cut}]

\* What a process holds, by how far it is.
Starts == [cmd : {"init"}, pc : {"check"}, outcome : {"none"}]
          \cup [cmd : {"new", "format", "other"}, pc : {"config"}, outcome : {"none"}]
Inits == [cmd : {"init"}, pc : {"again", "open", "fill", "folders", "migrations", "tests"},
          outcome : {"none"}, found : BOOLEAN]
Loads == {w \in [cmd : {"new", "format", "other"}, pc : {"manifest", "deploy", "revert", "new", "select"},
                 outcome : {"none"}, todo : SUBSET Dirs, graph : SUBSET Manifests, sql : SUBSET Files] :
             w.pc \in {"deploy", "revert"} => w.todo # {}}
Makes == [cmd : {"new"}, pc : {"opens", "fills"}, outcome : {"none"}, after : SUBSET Manifests,
          dir : Dirs, file : Contents, manifest : Manifests]
Cleans == [cmd : {"new"}, pc : {"cleans"}, outcome : {"none"}, dir : Dirs]
Found == [file : Files, text : Texts \cup {Cut}]
Formats == {w \in [cmd : {"format"}, pc : {"reads", "writes"}, outcome : {"none"}, todo : SUBSET Files,
                   read : SUBSET Found, wrote : SUBSET Files] :
               w.pc = "writes" => w.todo # {} /\ \A f \in w.todo : \E r \in w.read : r.file = f}
Idles == [cmd : {"none"}, pc : {"idle"}, outcome : Outcomes]

\* All of them.
States == Idles \cup Starts \cup Inits \cup Loads \cup Makes \cup Cleans \cup Formats

\* Every variable has its type, and every process the shape of where it stands.
Shaped == Setting /\ CheckoutTypeOK /\ procs \in [Procs -> States]

\* How far a process is says what it holds.
LEMMA Shapes ==
    ASSUME NEW w \in States
    PROVE  /\ w.pc \in {"check", "config"} => w \in Starts
           /\ w.pc \in {"again", "open", "fill", "folders", "migrations", "tests"} => w \in Inits
           /\ w.pc \in {"manifest", "deploy", "revert", "new", "select"} => w \in Loads
           /\ w.pc \in {"opens", "fills"} => w \in Makes
           /\ w.pc = "cleans" => w \in Cleans
           /\ w.pc \in {"reads", "writes"} => w \in Formats
           /\ w.pc = "idle" <=> w.cmd = "none"
           /\ w.outcome \in Outcomes
  BY DEF States, Starts, Inits, Loads, Makes, Cleans, Formats, Idles, Outcomes

\* A file that is set leaves packages packages.
LEMMA PutTypes ==
    ASSUME NEW P \in [Dirs -> Packages], NEW d \in Dirs, NEW f \in Contents, NEW v,
           f = "manifest" => v \in Manifests \cup {NoFile, Cut},
           f # "manifest" => v \in Texts \cup {NoFile, Cut},
           NEW Q, Q = [P EXCEPT ![d][f] = v]
    PROVE  Q \in [Dirs -> Packages]
<1>1. [P[d] EXCEPT ![f] = v] \in Packages
  BY DEF Packages, Contents
<1>. QED
  BY <1>1

(***************************************************************************)
(* What is kept true of the tree and of what processes know of it.  Tidy is *)
(* the strengthening that makes a project loadable: it speaks of a tree that *)
(* nobody has spoilt, in which a package is whole or has an owner.         *)
(***************************************************************************)

\* A package is being taken away.
Cleaning(d) == \E p \in Procs : procs[p].pc = "cleans" /\ procs[p].dir = d

\* An empty script is being written, or was.
CutsExplained ==
    \A d \in Dirs, role \in Roles :
        packages[d][role] = Cut =>
            \/ d \in spoilt
            \/ Cleaning(d)
            \/ \E p \in Procs : procs[p].pc = "fills" /\ procs[p].dir = d /\ procs[p].file = role

\* A script that was read, and means what it will be written as.
Judged(r) == r.text \in Texts /\ Tree(Formatted(r.text)) = Tree(r.text)

\* What a process knows that nobody can change.
Learned(w) ==
    /\ w \in Inits => (w.found => config # NoFile /\ w.pc \notin {"open", "fill"})
    /\ w \in Makes => (w.after # {} => w.manifest.depends = HeadsOf(w.after))
    /\ w \in Formats => \A r \in w.read :
          /\ r.text \notin Broken
          /\ \A s \in w.read : s.file = r.file => s = r
          /\ w.pc = "reads" => r.file \notin w.todo
    /\ w.pc = "writes" => \A f \in w.todo : \E r \in w.read : r.file = f /\ Judged(r)

\* All that is known by all.
LearnedAll == \A p \in Procs : Learned(procs[p])

\* The ids in use are the first ones.
Numbered ==
    \A u \in used : NameId[u] = u /\ \A d \in Dirs : NameId[d] = d /\ d < u => d \in used

\* A manifest under its own id, which came after those it names.
Fits(m, d) == m \in Manifests /\ m.id = d /\ \A e \in m.depends : e < d /\ e \in used

\* A package every later command can load.
Whole(d) ==
    /\ Fits(packages[d].manifest, d)
    /\ packages[d].deploy # NoFile
    /\ packages[d].manifest.reversible <=> packages[d].revert # NoFile

\* A package in the making, as far as it has come.
HalfMade(w) ==
    LET made == packages[w.dir]
    IN  /\ made.there /\ Fits(w.manifest, w.dir)
        /\ w.file # "manifest" => made.manifest = w.manifest
        /\ w.file = "revert" => w.manifest.reversible /\ made.deploy # NoFile
        /\ w.file # "revert" => made.revert = NoFile

\* A script that was there is there, if its package is.
Kept(d, role) ==
    d \in used /\ (packages[d][role] # NoFile \/ ~packages[d].there \/ Cleaning(d))

\* What a process counts on in the tree.
Held(w) ==
    /\ w \in Makes => HalfMade(w)
    /\ w \in Loads => /\ w.todo \subseteq used
                      /\ \A m \in w.graph : m.id \in used
                      /\ \A d \in Dirs, role \in Roles : <<d, role>> \in w.sql => Kept(d, role)
    /\ w \in Formats => \A d \in Dirs, role \in Roles :
          <<d, role>> \in w.todo \cup {r.file : r \in w.read} => Kept(d, role)

\* A process with a package of its own making.
Owner(w) == w.pc \in {"opens", "fills", "cleans"}

\* A package somebody is making, or taking away.
Owned(d) == \E p \in Procs : Owner(procs[p]) /\ procs[p].dir = d

\* What there is has an id in its turn, and is whole or in somebody's hands.
Neat ==
    /\ Numbered
    /\ \A d \in Dirs : packages[d].there \/ packages[d] = NoPackage
    /\ \A p \in Procs : Held(procs[p])
    /\ \A p \in Procs : Owner(procs[p]) => procs[p].dir \in used
    /\ \A p, q \in Procs :
          Owner(procs[p]) /\ Owner(procs[q]) /\ procs[p].dir = procs[q].dir => p = q
    /\ \A d \in Dirs : packages[d].there => Whole(d) \/ Owned(d)

\* Whoever has loaded a project found a configuration.
Loaded(w) == w.pc \in {"manifest", "deploy", "revert", "select", "new", "opens", "fills", "cleans",
                       "reads", "writes"}

\* A configuration that was cut short is being written, or its writing failed; and
\* where there is none, there is no project and nobody has loaded one.
ConfigKnown ==
    /\ config = Cut => Root \in spoilt \/ \E p \in Procs : procs[p].pc = "fill"
    /\ config = NoFile => There = {} /\ \A p \in Procs : ~Loaded(procs[p])

\* As long as nobody has spoilt anything.
Tidy == spoilt = {} => Neat

(***************************************************************************)
(* Numbers, files and types.                                               *)
(***************************************************************************)

\* Directories are numbers, and so are ids.
LEMMA DirsAreNumbers ==
    ASSUME Setting
    PROVE  Dirs \subseteq Nat \ {0} /\ NameId \in [Dirs -> Dirs]
<1>1. Cardinality(Dirs) \in Nat
  BY FS_CardinalityType DEF Setting
<1>. QED
  BY <1>1 DEF Setting

\* The order of the directories.
LessThan == {p \in Nat \X Nat : p[1] < p[2]}

\* Of directories there is a first one.
LEMMA LeastIs ==
    ASSUME Setting, NEW S, S \subseteq Dirs, S # {}
    PROVE  Least(S) \in S /\ \A e \in S : Least(S) <= e
<1>1. S \in SUBSET Nat
  BY DirsAreNumbers
<1>2. IsWellFoundedOn(LessThan, Nat)
  BY NatLessThanWellFounded DEF OpToRel, LessThan
<1>3. PICK d \in S : \A e \in S : <<e, d>> \notin LessThan
  BY <1>1, <1>2, WFMin
<1>4. ASSUME NEW e \in S PROVE d <= e
  <2>1. <<e, d>> \in Nat \X Nat
    BY <1>1
  <2>2. ~(e < d)
    BY <1>3, <2>1 DEF LessThan
  <2>. QED
    BY <1>1, <2>2
<1>. QED
  BY <1>4 DEF Least

\* What the setting says of the constants, where it is needed.
LEMMA Distinctness ==
    ASSUME Setting
    PROVE  /\ NoFile # Cut /\ NoFile \notin Texts /\ Cut \notin Texts /\ NoFile \notin Procs
           /\ NoFile # "given" /\ Template \in Texts /\ Cut \notin Procs /\ Cut # "given"
  BY DEF Setting

\* What the type invariant says of packages.
LEMMA PackageTypes ==
    ASSUME CheckoutTypeOK
    PROVE  /\ packages \in [Dirs -> Packages]
           /\ \A d \in Dirs : packages[d].there => d \in used
  BY DEF CheckoutTypeOK, Packages, There

\* The type of a tree that a command or an author changes.
TreeTypes ==
    /\ config \in Procs \cup {"given", NoFile, Cut}
    /\ folders \in [Folders -> {"absent", "bare", "kept"}]
    /\ packages \in [Dirs -> Packages]
    /\ There \subseteq used /\ used \subseteq Dirs /\ spoilt \subseteq Dirs \cup {Root}

\* The shape is that of the tree and of the processes.
LEMMA ShapedFollows ==
    ASSUME Setting, TreeTypes, procs \in [Procs -> States], runs \in 0 .. MaxRuns, edits \in 0 .. MaxEdits
    PROVE  Shaped
<1>1. \A p \in Procs : procs[p].outcome \in Outcomes /\ (procs[p].pc = "idle" <=> procs[p].cmd = "none")
  BY Shapes
<1>2. CheckoutTypeOK
  BY <1>1 DEF CheckoutTypeOK, TreeTypes, Packages
<1>. QED
  BY <1>2 DEF Shaped

\* And says so of both.
LEMMA ShapedSays ==
    ASSUME Shaped
    PROVE  TreeTypes /\ procs \in [Procs -> States] /\ runs \in 0 .. MaxRuns /\ edits \in 0 .. MaxEdits
  BY DEF Shaped, CheckoutTypeOK, TreeTypes, Packages

\* A package to begin with.
FirstPackage(text, reversible) ==
    [there |-> TRUE, deploy |-> text,
     manifest |-> [id |-> 1, depends |-> {}, reversible |-> reversible],
     revert |-> IF reversible THEN text ELSE NoFile]

\* A tree nobody has initialised, or a project with one migration or none.
LEMMA FirstTree ==
    ASSUME Setting, CheckoutInit
    PROVE  /\ TreeTypes /\ used = There /\ spoilt = {}
           /\ \A d \in Dirs :
                 packages[d] = NoPackage
                 \/ \E text \in Texts, reversible \in BOOLEAN :
                       d = 1 /\ packages[d] = FirstPackage(text, reversible)
<1>1. PICK project, migration, reversible \in BOOLEAN, text \in Texts :
          /\ migration => project
          /\ config = IF project THEN "given" ELSE NoFile
          /\ folders = [f \in Folders |-> IF project THEN "kept" ELSE "absent"]
          /\ packages =
                [d \in Dirs |->
                    IF migration /\ d = 1
                    THEN [there |-> TRUE, deploy |-> text,
                          manifest |-> [id |-> 1, depends |-> {}, reversible |-> reversible],
                          revert |-> IF reversible THEN text ELSE NoFile]
                    ELSE NoPackage]
  BY Zenon DEF CheckoutInit
<1>2. packages = [d \in Dirs |-> IF migration /\ d = 1 THEN FirstPackage(text, reversible) ELSE NoPackage]
  BY <1>1 DEF FirstPackage
<1>3. packages \in [Dirs -> Packages]
  <2>1. NoPackage \in Packages
    BY DEF NoPackage, Packages
  <2>2. 1 \in Dirs => FirstPackage(text, reversible) \in Packages
    BY DEF Packages, Manifests, FirstPackage
  <2>. QED
    BY <1>2, <2>1, <2>2
<1>4. TreeTypes
  <2>1. config \in Procs \cup {"given", NoFile, Cut}
    BY <1>1
  <2>2. folders \in [Folders -> {"absent", "bare", "kept"}]
    BY <1>1
  <2>3. There \subseteq used /\ used \subseteq Dirs /\ spoilt \subseteq Dirs \cup {Root}
    BY DEF CheckoutInit, There
  <2>. QED
    BY <1>3, <2>1, <2>2, <2>3 DEF TreeTypes
<1>. QED
  BY <1>2, <1>4 DEF CheckoutInit

\* It has its shape.
LEMMA FirstShapes == Setting /\ CheckoutInit => Shaped
<1> SUFFICES ASSUME Setting, CheckoutInit PROVE Shaped
  OBVIOUS
<1>1. Idle \in States
  BY DEF Idle, States, Idles, Outcomes
<1>2. procs \in [Procs -> States]
  BY <1>1 DEF CheckoutInit
<1>3. runs \in 0 .. MaxRuns /\ edits \in 0 .. MaxEdits
  BY DEF CheckoutInit, Setting
<1>. QED
  BY <1>2, <1>3, FirstTree, ShapedFollows

\* A step keeps the shape if it keeps that of what it changes.
LEMMA ShapedNext ==
    ASSUME Shaped, TreeTypes', procs' \in [Procs -> States], runs' \in 0 .. MaxRuns, edits' \in 0 .. MaxEdits
    PROVE  Shaped'
<1>1. \A p \in Procs : procs'[p].outcome \in Outcomes /\ (procs'[p].pc = "idle" <=> procs'[p].cmd = "none")
  BY Shapes
<1>2. CheckoutTypeOK'
  BY <1>1 DEF CheckoutTypeOK, TreeTypes, Packages
<1>. QED
  BY <1>2 DEF Shaped

\* Only p's state changes.
Others(p) == \A q \in Procs : q # p => procs'[q] = procs[q]

\* p goes on to one of the given states.
Goes(p, next) == procs' \in [Procs -> States] /\ Others(p) /\ procs'[p] \in next

\* The step changes no file and counts nothing.
Still == UNCHANGED <<config, folders, packages, used, runs, edits, spoilt>>

\* A process that becomes something of a shape has it.
LEMMA Arrives ==
    ASSUME Shaped, NEW p \in Procs, NEW S \in SUBSET States, NEW w \in S, Becomes(p, w)
    PROVE  Goes(p, S) /\ procs'[p] = w
  BY ShapedSays DEF Becomes, Goes, Others

\* One that ends is idle.
LEMMA EndsIdle ==
    ASSUME Shaped, NEW p \in Procs, NEW o \in Outcomes, Ends(p, o)
    PROVE  Goes(p, Idles)
<1> DEFINE w == [Idle EXCEPT !.outcome = o]
<1>1. w \in Idles /\ Idles \in SUBSET States
  BY DEF Idle, States, Idles
<1>2. Becomes(p, w)
  BY DEF Ends
<1> HIDE DEF w
<1>. QED
  BY <1>1, <1>2, Arrives

\* The shapes are those a process may have.
LEMMA Parts ==
    /\ Starts \in SUBSET States /\ Inits \in SUBSET States /\ Loads \in SUBSET States
    /\ Makes \in SUBSET States /\ Cleans \in SUBSET States /\ Formats \in SUBSET States
    /\ Idles \in SUBSET States
    /\ {"refused", "done", "failed", "killed"} \subseteq Outcomes
  BY DEF States, Outcomes

\* What a command's start changes.
LEMMA StartGoes ==
    ASSUME Shaped, NEW p \in Procs, NEW c \in {"init", "new", "format", "other"}, Start(p, c)
    PROVE  /\ UNCHANGED <<config, folders, packages, used, edits, spoilt>>
           /\ runs' \in 0 .. MaxRuns
           /\ Goes(p, Starts)
           /\ procs[p].pc = "idle"
<1> DEFINE w == [cmd |-> c, pc |-> IF c = "init" THEN "check" ELSE "config", outcome |-> "none"]
<1>1. w \in Starts
  BY DEF Starts
<1>2. Becomes(p, w)
  BY DEF Start
<1> HIDE DEF w
<1>3. runs' \in 0 .. MaxRuns
  BY ShapedSays DEF Start, Shaped, Setting
<1>. QED
  BY <1>1, <1>2, <1>3, Arrives, Parts DEF Start, tree

\* The package in hand is one of those left to read.
LEMMA ReadingIs ==
    ASSUME Shaped, NEW p \in Procs, procs[p] \in Loads, procs[p].todo # {}
    PROVE  Reading(p) \in procs[p].todo /\ Reading(p) \in Dirs
<1>1. procs[p].todo \subseteq Dirs
  BY DEF Loads
<1>. QED
  BY <1>1, LeastIs DEF Reading, Shaped

\* Loading a project changes no file.
LEMMA LoadGoes ==
    ASSUME Shaped, NEW p \in Procs, LoadStep(p)
    PROVE  Still /\ Goes(p, Idles \cup Loads)
<1>1. procs \in [Procs -> States] /\ There \subseteq Dirs
  BY ShapedSays DEF There
<1>2. Still
  BY DEF LoadStep, LoadsConfig, ReadsManifest, ReadsDeploy, ReadsRevert, BuildsGraph, GivesUp, tree, Still
<1>3. ASSUME Ends(p, "refused") \/ Ends(p, "done") PROVE Goes(p, Idles \cup Loads)
  BY <1>3, EndsIdle, Parts DEF Goes
<1>4. ASSUME NEW w \in Loads, Becomes(p, w) PROVE Goes(p, Idles \cup Loads)
  BY <1>4, Arrives, Parts DEF Goes
<1>5. procs[p] \in States
  BY <1>1
<1>6. CASE LoadsConfig(p)
  <2>1. procs[p] \in Starts
    BY <1>5, <1>6, Shapes DEF LoadsConfig, At
  <2>2. [cmd |-> procs[p].cmd, pc |-> "manifest", outcome |-> "none",
         todo |-> There, graph |-> {}, sql |-> {}] \in Loads
    BY <1>1, <1>6, <2>1 DEF Starts, Loads, LoadsConfig, At
  <2>. QED
    BY <1>2, <1>3, <1>4, <1>6, <2>2 DEF LoadsConfig
<1>7. CASE ReadsManifest(p)
  <2> DEFINE m == packages[Reading(p)].manifest
  <2>1. procs[p] \in Loads /\ procs[p].todo # {}
    BY <1>5, <1>7, Shapes DEF ReadsManifest, At
  <2>2. ManifestValid(m) => [procs[p] EXCEPT !.pc = "deploy", !.graph = @ \cup {m}] \in Loads
    BY <2>1 DEF Loads, ManifestValid
  <2>. QED
    BY <1>2, <1>3, <1>4, <1>7, <2>2 DEF ReadsManifest
<1>8. CASE ReadsDeploy(p)
  <2>1. procs[p] \in Loads
    BY <1>5, <1>8, Shapes DEF ReadsDeploy, At
  <2>2. procs[p].todo # {} /\ Reading(p) \in Dirs
    BY <1>8, <2>1, ReadingIs DEF ReadsDeploy, At, Loads
  <2>3. <<Reading(p), "deploy">> \in Files
    BY <2>2 DEF Files, Roles
  <2>4. [procs[p] EXCEPT !.pc = "revert", !.sql = @ \cup {<<Reading(p), "deploy">>}] \in Loads
    BY <2>1, <2>2, <2>3 DEF Loads
  <2>. QED
    BY <1>2, <1>3, <1>4, <1>8, <2>4 DEF ReadsDeploy
<1>9. CASE ReadsRevert(p)
  <2> DEFINE d == Reading(p)
             present == packages[d].revert # NoFile
             w == [procs[p] EXCEPT !.pc = "manifest", !.todo = @ \ {d},
                              !.sql = IF present THEN @ \cup {<<d, "revert">>} ELSE @]
  <2>1. procs[p] \in Loads
    BY <1>5, <1>9, Shapes DEF ReadsRevert, At
  <2>2. Reading(p) \in Dirs
    BY <1>9, <2>1, ReadingIs DEF ReadsRevert, At, Loads
  <2>0. <<d, "revert">> \in Files
    BY <2>2 DEF Files, Roles
  <2>3. w \in Loads
    BY <2>0, <2>1, <2>2 DEF Loads
  <2>4. Ends(p, "refused") \/ Becomes(p, w)
    BY <1>9 DEF ReadsRevert
  <2> HIDE DEF w
  <2>. QED
    BY <1>2, <1>3, <1>4, <2>3, <2>4
<1>10. CASE BuildsGraph(p)
  <2>1. procs[p] \in Loads
    BY <1>5, <1>10, Shapes DEF BuildsGraph, At
  <2>2. [procs[p] EXCEPT !.pc = "new"] \in Loads /\ [procs[p] EXCEPT !.pc = "select"] \in Loads
    BY <2>1 DEF Loads
  <2>. QED
    BY <1>2, <1>3, <1>4, <1>10, <2>2 DEF BuildsGraph
<1>11. CASE GivesUp(p)
  BY <1>2, <1>3, <1>11 DEF GivesUp
<1>. QED
  BY <1>2, <1>6, <1>7, <1>8, <1>9, <1>10, <1>11 DEF LoadStep

\* How an init goes on.
InitGoesOn(w, x) ==
    \/ x \in Idles
    \/ x \in Inits /\ x.pc = "again" /\ (x.found => config # NoFile)
    \/ /\ x \in Inits /\ w \in Inits /\ x.found = w.found
       /\ x.pc = "open" => config = NoFile
       /\ x.pc = "fill" => w.pc = "open"

\* What a step of init changes.
LEMMA InitGoes ==
    ASSUME Shaped, NEW p \in Procs, InitStep(p)
    PROVE  /\ UNCHANGED <<packages, used, runs, edits>>
           /\ spoilt \subseteq spoilt' /\ spoilt' \subseteq Dirs \cup {Root}
           /\ config' \in Procs \cup {"given", NoFile, Cut}
           /\ folders' \in [Folders -> {"absent", "bare", "kept"}]
           /\ Goes(p, Idles \cup Inits)
           /\ config # NoFile => config' # NoFile
           /\ config' # config => procs[p] \in Inits /\ procs[p].pc \in {"open", "fill"}
           /\ InitGoesOn(procs[p], procs'[p])
<1>1. /\ procs \in [Procs -> States] /\ config \in Procs \cup {"given", NoFile, Cut}
      /\ folders \in [Folders -> {"absent", "bare", "kept"}] /\ procs[p] \in States
      /\ NoFile # Cut /\ NoFile \notin Procs /\ Cut \notin Procs /\ spoilt \subseteq Dirs \cup {Root}
  BY ShapedSays, Distinctness DEF TreeTypes, Shaped
<1>2. ASSUME Ends(p, "refused") \/ Ends(p, "done") \/ Ends(p, "failed")
      PROVE  Goes(p, Idles \cup Inits) /\ InitGoesOn(procs[p], procs'[p])
  BY <1>2, EndsIdle, Parts DEF Goes, InitGoesOn
<1>3. ASSUME NEW w \in Inits, Becomes(p, w) PROVE Goes(p, Idles \cup Inits) /\ procs'[p] = w
  BY <1>3, Arrives, Parts DEF Goes
<1>4. CASE InitChecks(p)
  <2> DEFINE w == [cmd |-> "init", pc |-> "again", outcome |-> "none", found |-> config # NoFile]
  <2>1. UNCHANGED <<config, folders, packages, used, runs, edits, spoilt>>
    BY <1>4 DEF InitChecks, tree
  <2>2. w \in Inits /\ w.pc = "again" /\ (w.found => config # NoFile)
    BY DEF Inits
  <2>3. Ends(p, "refused") \/ Becomes(p, w)
    BY <1>4 DEF InitChecks
  <2> HIDE DEF w
  <2>4. CASE Becomes(p, w)
    <3>1. Goes(p, Idles \cup Inits) /\ procs'[p] = w
      BY <1>3, <2>2, <2>4
    <3>. QED
      BY <1>1, <2>1, <2>2, <3>1 DEF InitGoesOn
  <2>. QED
    BY <1>1, <1>2, <2>1, <2>3, <2>4
<1>5. ASSUME NEW next \in {"open", "fill", "folders", "migrations", "tests"},
             procs[p] \in Inits, Becomes(p, [procs[p] EXCEPT !.pc = next]),
             next = "open" => config = NoFile, next = "fill" => procs[p].pc = "open"
      PROVE  Goes(p, Idles \cup Inits) /\ InitGoesOn(procs[p], procs'[p])
  <2> DEFINE w == [procs[p] EXCEPT !.pc = next]
  <2>1. w \in Inits /\ w.found = procs[p].found /\ w.pc = next
    BY <1>5 DEF Inits
  <2> HIDE DEF w
  <2>2. Goes(p, Idles \cup Inits) /\ procs'[p] = w
    BY <1>3, <1>5, <2>1 DEF w
  <2>. QED
    BY <1>5, <2>1, <2>2 DEF InitGoesOn
<1>6. CASE InitLooksAgain(p)
  <2>1. procs[p] \in Inits
    BY <1>1, <1>6, Shapes DEF InitLooksAgain, At
  <2>2. Still
    BY <1>6 DEF InitLooksAgain, tree, Still
  <2>3. \/ config = NoFile /\ Becomes(p, [procs[p] EXCEPT !.pc = "open"])
        \/ Becomes(p, [procs[p] EXCEPT !.pc = "folders"])
    BY <1>6 DEF InitLooksAgain
  <2>. QED
    BY <1>1, <1>5, <2>1, <2>2, <2>3 DEF Still
<1>7. CASE InitOpensConfig(p)
  <2>1. procs[p] \in Inits /\ procs[p].pc = "open"
    BY <1>1, <1>7, Shapes DEF InitOpensConfig, At
  <2>. QED
    BY <1>1, <1>5, <1>7, <2>1 DEF InitOpensConfig
<1>8. CASE InitFillsConfig(p)
  <2>1. procs[p] \in Inits /\ procs[p].pc = "fill"
    BY <1>1, <1>8, Shapes DEF InitFillsConfig, At
  <2>. QED
    BY <1>1, <1>5, <1>8, <2>1 DEF InitFillsConfig
<1>9. CASE InitMakesFolder(p)
  <2>1. procs[p] \in Inits
    BY <1>1, <1>9, Shapes DEF InitMakesFolder, At
  <2>2. PICK f \in Folders :
            folders' = [folders EXCEPT ![f] = "bare"] /\ Becomes(p, [procs[p] EXCEPT !.pc = f])
    BY <1>9 DEF InitMakesFolder
  <2>3. Goes(p, Idles \cup Inits) /\ InitGoesOn(procs[p], procs'[p])
    BY <1>5, <2>1, <2>2 DEF Folders
  <2>. QED
    BY <1>1, <1>9, <2>2, <2>3 DEF InitMakesFolder
<1>10. CASE InitKeepsFolder(p)
  <2>1. procs[p] \in Inits
    BY <1>1, <1>10, Shapes DEF InitKeepsFolder, Folders
  <2>2. Goes(p, Idles \cup Inits) /\ InitGoesOn(procs[p], procs'[p])
    BY <1>5, <1>10, <2>1 DEF InitKeepsFolder
  <2>. QED
    BY <1>1, <1>10, <2>2 DEF InitKeepsFolder
<1>11. CASE InitEnds(p)
  BY <1>1, <1>2, <1>11 DEF InitEnds, tree, At
<1>12. CASE InitFails(p)
  <2>1. /\ UNCHANGED <<config, folders, packages, used, runs, edits>> /\ Ends(p, "failed")
        /\ spoilt' = spoilt \cup IF procs[p].pc = "fill" THEN {Root} ELSE {}
    BY <1>12 DEF InitFails, tree, At
  <2>. QED
    BY <1>1, <1>2, <2>1
<1>. QED
  BY <1>4, <1>6, <1>7, <1>8, <1>9, <1>10, <1>11, <1>12 DEF InitStep

\* Who stops writing the configuration has written it, or spoilt it.
LEMMA InitConfigs ==
    ASSUME Shaped, NEW p \in Procs, InitStep(p)
    PROVE  /\ procs[p].pc = "fill" => Root \in spoilt' \/ config' = p
           /\ config' = Cut => config = Cut \/ procs'[p].pc = "fill"
<1>1. Cut \notin Procs /\ procs \in [Procs -> States]
  BY Distinctness, ShapedSays DEF Shaped
<1>2. CASE InitOpensConfig(p)
  <2>1. procs[p] \in Inits /\ procs[p].pc = "open"
    BY <1>1, <1>2, Shapes DEF InitOpensConfig, At
  <2>2. procs'[p] = [procs[p] EXCEPT !.pc = "fill"]
    BY <1>1, <1>2 DEF InitOpensConfig, Becomes
  <2>. QED
    BY <2>1, <2>2 DEF Inits
<1>3. CASE InitFillsConfig(p)
  BY <1>1, <1>3 DEF InitFillsConfig
<1>4. CASE InitFails(p)
  BY <1>4 DEF InitFails, At, tree
<1>5. CASE InitChecks(p) \/ InitLooksAgain(p) \/ InitMakesFolder(p) \/ InitKeepsFolder(p) \/ InitEnds(p)
  BY <1>5 DEF InitChecks, InitLooksAgain, InitMakesFolder, InitKeepsFolder, InitEnds, At, Folders, tree
<1>. QED
  BY <1>2, <1>3, <1>4, <1>5 DEF InitStep

\* The first of some scripts is one of them.
LEMMA LeastFileIs ==
    ASSUME Setting, NEW S \in SUBSET Files, S # {}
    PROVE  LeastFile(S) \in S
<1> DEFINE D == {f[1] : f \in S}
           d == Least(D)
           First(f) == \A g \in S : f[1] < g[1] \/ (f[1] = g[1] /\ (f[2] = "deploy" \/ f = g))
<1>1. D \subseteq Dirs /\ D # {} /\ Dirs \subseteq Nat
  BY DirsAreNumbers DEF Files
<1>2. d \in D /\ \A e \in D : d <= e
  BY <1>1, LeastIs
<1> HIDE DEF d
<1>3. \A g \in S : g[1] \in Nat /\ g[2] \in Roles /\ g = <<g[1], g[2]>> /\ d <= g[1] /\ d \in Nat
  <2> TAKE g \in S
  <2>1. g[1] \in Dirs /\ g[2] \in Roles /\ g = <<g[1], g[2]>>
    BY DEF Files
  <2>2. g[1] \in D
    OBVIOUS
  <2> HIDE DEF D
  <2>. QED
    BY <1>1, <1>2, <2>1, <2>2
<1>4. CASE <<d, "deploy">> \in S
  <2>1. First(<<d, "deploy">>)
    BY <1>3
  <2>. QED
    BY <1>4, <2>1 DEF LeastFile
<1>5. CASE <<d, "deploy">> \notin S
  <2>1. PICK f \in S : f[1] = d
    BY <1>2
  <2>2. \A g \in S : g[1] = d => g[2] = "revert"
    BY <1>3, <1>5 DEF Roles
  <2>3. First(f)
    BY <1>3, <2>1, <2>2
  <2>. QED
    BY <2>3 DEF LeastFile
<1>. QED
  BY <1>4, <1>5

\* What is read and what is formatted is a text, or nothing.
LEMMA TextTypes ==
    ASSUME Shaped
    PROVE  /\ \A f \in Files : /\ Sql(f) \in Texts \cup {NoFile, Cut}
                               /\ f[1] \in Dirs /\ f[2] \in Roles /\ f[2] \in Contents /\ f[2] # "manifest"
                               /\ f = <<f[1], f[2]>>
           /\ \A t \in Texts : Formatted(t) \in Texts /\ Pretty[t] \in Texts
           /\ Formatted(Cut) = Cut
<1>1. Pretty \in [Texts -> Texts] /\ Cut \notin Texts
  BY Distinctness DEF Shaped, Setting
<1>2. \A d \in Dirs : packages[d] \in Packages
  BY PackageTypes DEF Shaped
<1>3. ASSUME NEW f \in Files
      PROVE  /\ Sql(f) \in Texts \cup {NoFile, Cut}
             /\ f[1] \in Dirs /\ f[2] \in Roles /\ f[2] \in Contents /\ f[2] # "manifest"
             /\ f = <<f[1], f[2]>>
  <2>1. f[1] \in Dirs /\ f[2] \in Roles /\ f = <<f[1], f[2]>>
    BY DEF Files
  <2>2. packages[f[1]].deploy \in Texts \cup {NoFile, Cut} /\ packages[f[1]].revert \in Texts \cup {NoFile, Cut}
    BY <1>2, <2>1 DEF Packages
  <2>. QED
    BY <2>1, <2>2 DEF Sql, Roles, Contents
<1>4. Formatted(Cut) = Cut
  BY DEF Formatted
<1>5. \A t \in Texts : Formatted(t) \in Texts /\ Pretty[t] \in Texts
  BY <1>1 DEF Formatted
<1>. QED
  BY <1>3, <1>4, <1>5

\* How a format goes on.
FormatGoesOn(w, x) ==
    \/ x \in Idles
    \/ w \in Loads /\ x \in Formats /\ x.pc = "reads" /\ x.read = {} /\ x.todo \subseteq w.sql
    \/ /\ w \in Formats /\ x \in Formats /\ w.pc = "reads" /\ x.pc = "reads"
       /\ \E f \in w.todo : /\ x.todo = w.todo \ {f} /\ Sql(f) \notin Broken /\ Sql(f) # NoFile
                            /\ x.read = w.read \cup {[file |-> f, text |-> Sql(f)]}
    \/ /\ w \in Formats /\ x \in Formats /\ w.pc = "reads" /\ x.pc = "writes" /\ x.read = w.read
       /\ \A f \in x.todo : \E r \in w.read : r.file = f /\ Judged(r)
    \/ /\ w \in Formats /\ x \in Formats /\ w.pc = "writes" /\ x.pc = "writes"
       /\ x.read = w.read /\ x.todo \subseteq w.todo

\* What a format writes.
Rewrites(w, f, r) ==
    /\ w \in Formats /\ w.pc = "writes" /\ f \in w.todo /\ f \in Files
    /\ r \in w.read /\ r.file = f
    /\ packages[f[1]].there
    /\ packages' = [packages EXCEPT ![f[1]][f[2]] = Formatted(r.text)]

\* What a step of format changes: one script at most, and only once all were judged.
LEMMA FormatGoes ==
    ASSUME Shaped, NEW p \in Procs, FormatStep(p)
    PROVE  /\ UNCHANGED <<config, folders, used, runs, edits, spoilt>>
           /\ \/ UNCHANGED packages
              \/ \E f \in Files, r \in Found : Rewrites(procs[p], f, r)
           /\ Goes(p, Idles \cup Formats)
           /\ FormatGoesOn(procs[p], procs'[p])
<1> DEFINE Done == Goes(p, Idles \cup Formats) /\ FormatGoesOn(procs[p], procs'[p])
<1>1. procs \in [Procs -> States] /\ procs[p] \in States
  BY ShapedSays
<1>2. ASSUME NEW o \in {"refused", "done", "failed"}, Ends(p, o) PROVE Done
  BY <1>2, EndsIdle, Parts DEF Goes, FormatGoesOn
<1>3. ASSUME NEW w \in Formats, Becomes(p, w) PROVE Goes(p, Idles \cup Formats) /\ procs'[p] = w
  BY <1>3, Arrives, Parts DEF Goes
<1>4. CASE Selects(p)
  <2>1. Still /\ procs[p] \in Loads
    BY <1>1, <1>4, Shapes DEF Selects, At, tree, Still
  <2>2. PICK files \in {procs[p].sql} \cup {{file} : file \in procs[p].sql} :
            Becomes(p, [cmd |-> "format", pc |-> "reads", outcome |-> "none",
                        todo |-> files, read |-> {}, wrote |-> {}])
    BY <1>4 DEF Selects
  <2> DEFINE w == [cmd |-> "format", pc |-> "reads", outcome |-> "none",
                   todo |-> files, read |-> {}, wrote |-> {}]
  <2>3. files \subseteq procs[p].sql /\ files \subseteq Files
    BY <2>1 DEF Loads
  <2>4. w \in Formats /\ w.pc = "reads" /\ w.read = {} /\ w.todo = files
    BY <2>3 DEF Formats
  <2>5. Becomes(p, w)
    BY <2>2
  <2> HIDE DEF w
  <2>6. Goes(p, Idles \cup Formats) /\ procs'[p] = w
    BY <1>3, <2>4, <2>5
  <2>. QED
    BY <2>1, <2>3, <2>4, <2>6 DEF FormatGoesOn, Still
<1>5. CASE Reads(p)
  <2>1. Still /\ procs[p] \in Formats /\ procs[p].pc = "reads" /\ procs[p].todo # {}
    BY <1>1, <1>5, Shapes DEF Reads, At, tree, Still
  <2> DEFINE f == LeastFile(procs[p].todo)
             found == [file |-> f, text |-> Sql(f)]
             w == [procs[p] EXCEPT !.todo = @ \ {f}, !.read = @ \cup {found}]
  <2>2. f \in procs[p].todo /\ f \in Files
    BY <2>1, LeastFileIs DEF Formats, Shaped
  <2>3. Ends(p, "refused") \/ (Sql(f) \notin Broken /\ Sql(f) # NoFile /\ Becomes(p, w))
    BY <1>5 DEF Reads
  <2> HIDE DEF f
  <2>4. CASE Sql(f) \notin Broken /\ Sql(f) # NoFile /\ Becomes(p, w)
    <3>1. found \in Found
      BY <2>2, <2>4, TextTypes DEF Found
    <3>2. w \in Formats /\ w.pc = "reads" /\ w.todo = procs[p].todo \ {f}
          /\ w.read = procs[p].read \cup {found}
      <4> HIDE DEF found
      <4>. QED
        BY <2>1, <3>1 DEF Formats
    <3> HIDE DEF w
    <3>3. Goes(p, Idles \cup Formats) /\ procs'[p] = w
      BY <1>3, <2>4, <3>2
    <3>. QED
      BY <2>1, <2>2, <2>4, <3>2, <3>3 DEF FormatGoesOn, Still
  <2>. QED
    BY <1>2, <2>1, <2>3, <2>4 DEF Still
<1>6. CASE Judges(p)
  <2> DEFINE w == [procs[p] EXCEPT !.pc = "writes", !.todo = {r.file : r \in Changed(p)}]
  <2>1. Still /\ procs[p] \in Formats /\ procs[p].pc = "reads"
    BY <1>1, <1>6, Shapes DEF Judges, At, tree, Still
  <2>2. \/ Ends(p, "refused") \/ Ends(p, "done")
        \/ /\ \A r \in Changed(p) : Tree(Formatted(r.text)) = Tree(r.text)
           /\ Changed(p) # {} /\ Becomes(p, w)
    BY <1>6 DEF Judges
  <2>3. Changed(p) \subseteq procs[p].read /\ \A r \in Changed(p) : r.text \in Texts
    <3>1. \A r \in procs[p].read : r.text \in Texts \cup {Cut}
      BY <2>1 DEF Formats, Found
    <3>. QED
      BY <3>1, TextTypes DEF Changed
  <2>4. CASE /\ \A r \in Changed(p) : Tree(Formatted(r.text)) = Tree(r.text)
             /\ Changed(p) # {} /\ Becomes(p, w)
    <3>1. {r.file : r \in Changed(p)} \subseteq Files /\ {r.file : r \in Changed(p)} # {}
      BY <2>1, <2>3, <2>4 DEF Formats, Found
    <3>2. w \in Formats /\ w.pc = "writes" /\ w.read = procs[p].read
          /\ w.todo = {r.file : r \in Changed(p)}
      <4>1. \A f \in {r.file : r \in Changed(p)} : \E r \in procs[p].read : r.file = f
        BY <2>3
      <4>2. ASSUME NEW T \in SUBSET Files, T # {}, \A f \in T : \E r \in procs[p].read : r.file = f,
                   NEW x, x = [procs[p] EXCEPT !.pc = "writes", !.todo = T]
            PROVE  x \in Formats /\ x.pc = "writes" /\ x.read = procs[p].read /\ x.todo = T
        BY <2>1, <4>2 DEF Formats
      <4>. QED
        BY <3>1, <4>1, <4>2
    <3>3. \A f \in w.todo : \E r \in procs[p].read : r.file = f /\ Judged(r)
      BY <2>3, <2>4, <3>2 DEF Judged
    <3> HIDE DEF w
    <3>4. Goes(p, Idles \cup Formats) /\ procs'[p] = w
      BY <1>3, <2>4, <3>2
    <3>. QED
      BY <2>1, <3>2, <3>3, <3>4 DEF FormatGoesOn, Still
  <2>. QED
    BY <1>2, <2>1, <2>2, <2>4 DEF Still
<1>7. CASE Writes(p)
  <2> DEFINE f == LeastFile(procs[p].todo)
             r == CHOOSE r \in procs[p].read : r.file = f
             w == [procs[p] EXCEPT !.todo = @ \ {f}, !.wrote = @ \cup {f}]
  <2>1. procs[p] \in Formats /\ procs[p].pc = "writes" /\ procs[p].todo # {}
        /\ UNCHANGED <<config, folders, used, runs, edits, spoilt>>
    BY <1>1, <1>7, Shapes DEF Writes, At, Formats
  <2>2. f \in procs[p].todo /\ f \in Files
    BY <2>1, LeastFileIs DEF Formats, Shaped
  <2>3. /\ packages[f[1]].there
        /\ packages' = [packages EXCEPT ![f[1]][f[2]] = Formatted(r.text)]
        /\ Ends(p, "done") \/ (procs[p].todo # {f} /\ Becomes(p, w))
    BY <1>7 DEF Writes
  <2> HIDE DEF f
  <2>4. r \in procs[p].read /\ r.file = f /\ r \in Found
    <3>1. \E s \in procs[p].read : s.file = f
      BY <2>1, <2>2 DEF Formats
    <3>. QED
      BY <2>1, <3>1 DEF Formats
  <2> HIDE DEF r
  <2>5. Rewrites(procs[p], f, r)
    BY <2>1, <2>2, <2>3, <2>4 DEF Rewrites
  <2>6. ASSUME procs[p].todo # {f}, Becomes(p, w) PROVE Done
    <3>1. procs[p].todo \ {f} # {}
      BY <2>2, <2>6
    <3>2. w \in Formats /\ w.pc = "writes" /\ w.read = procs[p].read /\ w.todo \subseteq procs[p].todo
      BY <2>1, <2>2, <3>1 DEF Formats
    <3> HIDE DEF w
    <3>3. Goes(p, Idles \cup Formats) /\ procs'[p] = w
      BY <1>3, <2>6, <3>2
    <3>. QED
      BY <2>1, <3>2, <3>3 DEF FormatGoesOn
  <2>7. Done
    BY <1>2, <2>3, <2>6
  <2>. QED
    BY <2>1, <2>2, <2>4, <2>5, <2>7
<1>8. CASE WriteFails(p)
  BY <1>2, <1>8 DEF WriteFails, tree
<1>. QED
  BY <1>4, <1>5, <1>6, <1>7, <1>8 DEF FormatStep

\* The next id is the first of those never used.
LEMMA FreeIs ==
    ASSUME Shaped, NEW d \in NextId
    PROVE  /\ d \in Dirs \ used /\ NameId[d] = d
           /\ \A e \in Dirs \ used : NameId[e] = e => d <= e
<1> DEFINE free == {e \in Dirs \ used : NameId[e] = e}
<1>1. d \in free /\ d = Least(free)
  BY DEF NextId
<1>2. Least(free) \in free /\ \A e \in free : Least(free) <= e
  BY <1>1, LeastIs DEF Shaped
<1>. QED
  BY <1>1, <1>2

\* How a migration is begun.
Begins(w, x, d) ==
    /\ w \in Loads /\ w.pc = "new" /\ x \in Makes /\ x.pc = "opens" /\ x.dir = d /\ x.file = "manifest"
    /\ x.manifest.id = d /\ x.manifest.depends \subseteq {m.id : m \in w.graph}
    /\ x.after # {} => x.manifest.depends = HeadsOf(x.after)

\* What new changes when it makes a directory.
LEMMA MakeGoes ==
    ASSUME Shaped, NEW p \in Procs, MakesPackage(p)
    PROVE  /\ UNCHANGED <<config, runs, edits, spoilt>>
           /\ folders' \in [Folders -> {"absent", "bare", "kept"}]
           /\ Goes(p, Makes)
           /\ \E d \in NextId : /\ packages' = [packages EXCEPT ![d].there = TRUE]
                                /\ used' = used \cup {d}
                                /\ Begins(procs[p], procs'[p], d)
<1>1. procs[p] \in Loads /\ procs[p].pc = "new" /\ procs[p].graph \in SUBSET Manifests
  <2>1. procs[p] \in Loads /\ procs[p].pc = "new"
    BY ShapedSays, Shapes DEF MakesPackage, At
  <2>. QED
    BY <2>1 DEF Loads
<1>2. PICK d \in NextId, reversible \in BOOLEAN, named \in BOOLEAN :
      \E needs \in Dependencies(procs[p].graph, named) :
          /\ packages' = [packages EXCEPT ![d].there = TRUE]
          /\ used' = used \cup {d}
          /\ Becomes(p, [cmd |-> "new", pc |-> "opens", outcome |-> "none",
                         after |-> IF named THEN {} ELSE procs[p].graph,
                         dir |-> d, file |-> "manifest", manifest |->
                         [id |-> d, depends |-> needs, reversible |-> reversible]])
  BY DEF MakesPackage
<1>3. PICK needs \in Dependencies(procs[p].graph, named) :
          /\ packages' = [packages EXCEPT ![d].there = TRUE]
          /\ used' = used \cup {d}
          /\ Becomes(p, [cmd |-> "new", pc |-> "opens", outcome |-> "none",
                         after |-> IF named THEN {} ELSE procs[p].graph,
                         dir |-> d, file |-> "manifest", manifest |->
                         [id |-> d, depends |-> needs, reversible |-> reversible]])
  BY <1>2
<1> DEFINE after == IF named THEN {} ELSE procs[p].graph
           manifest == [id |-> d, depends |-> needs, reversible |-> reversible]
           w == [cmd |-> "new", pc |-> "opens", outcome |-> "none", after |-> after,
                 dir |-> d, file |-> "manifest", manifest |-> manifest]
<1>4. d \in Dirs
  BY FreeIs
<1>5. needs \subseteq {m.id : m \in procs[p].graph}
  BY <1>3 DEF Dependencies, HeadsOf
<1>6. {m.id : m \in procs[p].graph} \subseteq Dirs
  BY <1>1 DEF Manifests
<1>7. manifest \in Manifests /\ manifest.id = d /\ manifest.depends = needs
  BY <1>4, <1>5, <1>6 DEF Manifests
<1>8. after \in SUBSET Manifests /\ (after # {} => needs = HeadsOf(after))
  BY <1>1, <1>3 DEF Dependencies
<1>9. Becomes(p, w)
  BY <1>3
<1> HIDE DEF manifest, after
<1>10. w \in Makes /\ w.pc = "opens" /\ w.dir = d /\ w.file = "manifest" /\ w.manifest = manifest
       /\ w.after = after
  BY <1>4, <1>7, <1>8 DEF Makes, Contents
<1> HIDE DEF w
<1>11. Goes(p, Makes) /\ procs'[p] = w
  BY <1>9, <1>10, Arrives, Parts
<1>12. Begins(procs[p], procs'[p], d)
  BY <1>1, <1>5, <1>7, <1>8, <1>10, <1>11 DEF Begins
<1>13. folders' \in [Folders -> {"absent", "bare", "kept"}]
  BY ShapedSays DEF MakesPackage, TreeTypes, Folders
<1>. QED
  BY <1>3, <1>11, <1>12, <1>13 DEF MakesPackage

\* What it changes when it creates a file.
LEMMA OpenGoes ==
    ASSUME Shaped, NEW p \in Procs, NewOpens(p)
    PROVE  /\ UNCHANGED <<config, folders, used, runs, edits, spoilt>>
           /\ procs[p] \in Makes /\ procs[p].pc = "opens"
           /\ packages' = [packages EXCEPT ![procs[p].dir][procs[p].file] = Cut]
           /\ Goes(p, Makes)
           /\ procs'[p] = [procs[p] EXCEPT !.pc = "fills"]
<1>1. procs[p] \in Makes /\ procs[p].pc = "opens"
  BY ShapedSays, Shapes DEF NewOpens, At
<1>2. [procs[p] EXCEPT !.pc = "fills"] \in Makes
  BY <1>1 DEF Makes
<1>. QED
  BY <1>1, <1>2, Arrives, Parts DEF NewOpens

\* How a file that is written is followed by the next.
Fills(w, x) ==
    \/ x \in Idles /\ NextFile(w.manifest, w.file) = "none"
    \/ /\ x \in Makes /\ x.pc = "opens" /\ x.dir = w.dir /\ x.after = w.after /\ x.manifest = w.manifest
       /\ x.file = NextFile(w.manifest, w.file) /\ x.file # "none"

\* And when it writes one.
LEMMA FillGoes ==
    ASSUME Shaped, NEW p \in Procs, NewFills(p)
    PROVE  /\ UNCHANGED <<config, folders, used, runs, edits, spoilt>>
           /\ procs[p] \in Makes /\ procs[p].pc = "fills"
           /\ packages' = [packages EXCEPT ![procs[p].dir][procs[p].file] =
                              IF procs[p].file = "manifest" THEN procs[p].manifest ELSE Template]
           /\ Goes(p, Idles \cup Makes)
           /\ Fills(procs[p], procs'[p])
<1> DEFINE next == NextFile(procs[p].manifest, procs[p].file)
           w == [procs[p] EXCEPT !.pc = "opens", !.file = next]
<1>1. procs[p] \in Makes /\ procs[p].pc = "fills"
  BY ShapedSays, Shapes DEF NewFills, At
<1>2. CASE next = "none"
  <2>1. Ends(p, "done")
    BY <1>2 DEF NewFills
  <2>. QED
    BY <1>1, <1>2, <2>1, EndsIdle, Parts DEF NewFills, Goes, Fills
<1>3. CASE next # "none"
  <2>1. Becomes(p, w)
    BY <1>3 DEF NewFills
  <2>2. next \in Contents
    BY <1>3 DEF NextFile, Contents
  <2> HIDE DEF next
  <2>3. w \in Makes /\ w.pc = "opens" /\ w.dir = procs[p].dir /\ w.after = procs[p].after
        /\ w.manifest = procs[p].manifest /\ w.file = next
    BY <1>1, <2>2 DEF Makes
  <2> HIDE DEF w
  <2>4. Goes(p, Makes) /\ procs'[p] = w
    BY <2>1, <2>3, Arrives, Parts
  <2>5. Fills(procs[p], procs'[p])
    BY <1>3, <2>3, <2>4 DEF Fills, next
  <2>. QED
    BY <1>1, <2>4, <2>5 DEF NewFills, Goes
<1>. QED
  BY <1>2, <1>3

\* A new that fails goes on to clean up.
LEMMA FailGoes ==
    ASSUME Shaped, NEW p \in Procs, NewFails(p)
    PROVE  /\ Still
           /\ procs[p] \in Makes
           /\ Goes(p, Cleans)
           /\ procs'[p].dir = procs[p].dir
<1> DEFINE w == [cmd |-> "new", pc |-> "cleans", outcome |-> "none", dir |-> procs[p].dir]
<1>1. procs[p] \in Makes
  BY ShapedSays, Shapes DEF NewFails
<1>2. w \in Cleans /\ w.dir = procs[p].dir
  BY <1>1 DEF Cleans, Makes
<1>3. Becomes(p, w)
  BY DEF NewFails
<1> HIDE DEF w
<1>. QED
  BY <1>1, <1>2, <1>3, Arrives, Parts DEF NewFails, tree, Still

\* It takes away one file, or the directory.
LEMMA CleanGoes ==
    ASSUME Shaped, NEW p \in Procs, NewCleans(p)
    PROVE  /\ UNCHANGED <<config, folders, used, runs, edits, spoilt>>
           /\ procs[p] \in Cleans
           /\ \/ /\ packages' = [packages EXCEPT ![procs[p].dir] = NoPackage]
                 /\ Goes(p, Idles)
              \/ \E f \in Contents : /\ packages' = [packages EXCEPT ![procs[p].dir][f] = NoFile]
                                     /\ UNCHANGED procs
<1>1. procs[p] \in Cleans
  BY ShapedSays, Shapes DEF NewCleans, At
<1>. QED
  BY <1>1, EndsIdle, Parts DEF NewCleans, Contents

\* One that cannot leaves a spoilt package.
LEMMA GiveUpGoes ==
    ASSUME Shaped, NEW p \in Procs, NewGivesUp(p)
    PROVE  /\ UNCHANGED <<config, folders, packages, used, runs, edits>>
           /\ procs[p] \in Cleans
           /\ Goes(p, Idles)
           /\ spoilt' = spoilt \cup {procs[p].dir}
<1>1. procs[p] \in Cleans
  BY ShapedSays, Shapes DEF NewGivesUp, At
<1>. QED
  BY <1>1, EndsIdle, Parts DEF NewGivesUp, tree

\* A process that is killed spoils what it was making, and changes nothing.
LEMMA DieGoes ==
    ASSUME Shaped, NEW p \in Procs, Dies(p)
    PROVE  /\ UNCHANGED <<config, folders, packages, used, runs, edits>>
           /\ Goes(p, Idles)
           /\ spoilt \subseteq spoilt' /\ spoilt' \subseteq Dirs \cup {Root}
           /\ Owner(procs[p]) => procs[p].dir \in spoilt'
           /\ procs[p].pc = "fill" => Root \in spoilt'
<1>1. procs[p].pc \in {"opens", "fills", "cleans"} => procs[p].dir \in Dirs
  BY ShapedSays, Shapes DEF Makes, Cleans
<1>2. spoilt \subseteq Dirs \cup {Root}
  BY ShapedSays DEF TreeTypes
<1>3. CASE Owner(procs[p])
  <2>1. spoilt' = spoilt \cup {procs[p].dir} /\ procs[p].pc # "fill"
    BY <1>3 DEF Dies, Owner, At
  <2>. QED
    BY <1>1, <1>2, <1>3, <2>1, EndsIdle, Parts DEF Dies, tree, Owner
<1>4. CASE ~Owner(procs[p])
  <2>1. spoilt' = spoilt \cup IF procs[p].pc = "fill" THEN {Root} ELSE {}
    BY <1>4 DEF Dies, Owner, At
  <2>. QED
    BY <1>2, <1>4, <2>1, EndsIdle, Parts DEF Dies, tree
<1>. QED
  BY <1>3, <1>4

\* How a load goes on.
LoadGoesOn(w, x) ==
    \/ x \in Idles
    \/ w \in Starts /\ x \in Loads /\ x.todo \subseteq There /\ x.graph = {} /\ x.sql = {}
    \/ /\ w \in Loads /\ x \in Loads /\ x.todo \subseteq w.todo
       /\ \A m \in x.graph : m \in w.graph \/ \E d \in w.todo : m.id = NameId[d]
       /\ \A f \in x.sql : f \in w.sql \/ (f[1] \in w.todo /\ Sql(f) # NoFile)

\* What was read is what was there.
LEMMA LoadLearns ==
    ASSUME Shaped, NEW p \in Procs, LoadStep(p)
    PROVE  LoadGoesOn(procs[p], procs'[p])
<1>1. procs \in [Procs -> States] /\ procs[p] \in States
  BY ShapedSays
<1>2. procs'[p] \in Idles \cup Loads
  BY LoadGoes DEF Goes
<1>3. ASSUME NEW o \in {"refused", "done"}, Ends(p, o) PROVE procs'[p] \in Idles
  BY <1>3, EndsIdle, Parts DEF Goes
<1>4. ASSUME NEW w, Becomes(p, w) PROVE procs'[p] = w
  BY <1>1, <1>4 DEF Becomes
<1> DEFINE w == procs[p]
           d == Reading(p)
<1>5. CASE LoadsConfig(p)
  <2>1. w \in Starts
    BY <1>1, <1>5, Shapes DEF LoadsConfig, At
  <2>2. procs'[p] \in Idles \/ (procs'[p].todo = There /\ procs'[p].graph = {} /\ procs'[p].sql = {})
    BY <1>3, <1>4, <1>5 DEF LoadsConfig
  <2>. QED
    BY <1>2, <2>1, <2>2 DEF LoadGoesOn
<1>6. CASE ReadsManifest(p)
  <2>1. w \in Loads /\ w.todo # {}
    BY <1>1, <1>6, Shapes DEF ReadsManifest, At
  <2>2. d \in w.todo
    BY <2>1, ReadingIs
  <2>3. \/ procs'[p] \in Idles
        \/ /\ packages[d].manifest.id = NameId[d]
           /\ procs'[p] = [w EXCEPT !.pc = "deploy", !.graph = @ \cup {packages[d].manifest}]
    BY <1>3, <1>4, <1>6 DEF ReadsManifest
  <2> HIDE DEF d
  <2>4. procs'[p] \in Idles \/ ( /\ procs'[p].todo = w.todo /\ procs'[p].sql = w.sql
                                 /\ packages[d].manifest.id = NameId[d]
                                 /\ procs'[p].graph = w.graph \cup {packages[d].manifest})
    BY <2>1, <2>3 DEF Loads
  <2>. QED
    BY <1>2, <2>1, <2>2, <2>4 DEF LoadGoesOn
<1>7. CASE ReadsDeploy(p)
  <2>1. w \in Loads /\ w.todo # {}
    BY <1>1, <1>7, Shapes DEF ReadsDeploy, At, Loads
  <2>2. d \in w.todo
    BY <2>1, ReadingIs
  <2>3. \/ procs'[p] \in Idles
        \/ /\ packages[d].deploy # NoFile
           /\ procs'[p] = [w EXCEPT !.pc = "revert", !.sql = @ \cup {<<d, "deploy">>}]
    BY <1>3, <1>4, <1>7 DEF ReadsDeploy
  <2> HIDE DEF d
  <2>4. procs'[p] \in Idles \/ ( /\ procs'[p].todo = w.todo /\ procs'[p].graph = w.graph
                                 /\ Sql(<<d, "deploy">>) # NoFile
                                 /\ procs'[p].sql = w.sql \cup {<<d, "deploy">>})
    BY <2>1, <2>3 DEF Loads, Sql
  <2>. QED
    BY <1>2, <2>1, <2>2, <2>4 DEF LoadGoesOn
<1>8. CASE ReadsRevert(p)
  <2> DEFINE present == packages[d].revert # NoFile
             todo == w.todo \ {d}
             sql == IF present THEN w.sql \cup {<<d, "revert">>} ELSE w.sql
  <2>1. w \in Loads /\ w.todo # {}
    BY <1>1, <1>8, Shapes DEF ReadsRevert, At, Loads
  <2>2. d \in w.todo
    BY <2>1, ReadingIs
  <2>3. \/ procs'[p] \in Idles
        \/ procs'[p] = [w EXCEPT !.pc = "manifest", !.todo = todo, !.sql = sql]
    BY <1>3, <1>4, <1>8 DEF ReadsRevert
  <2> HIDE DEF d
  <2>4. \A f \in sql : f \in w.sql \/ (f[1] \in w.todo /\ Sql(f) # NoFile)
    BY <2>2 DEF Sql
  <2> HIDE DEF sql
  <2>5. procs'[p] \in Idles \/ ( /\ procs'[p].todo = todo /\ procs'[p].graph = w.graph
                                 /\ procs'[p].sql = sql)
    BY <2>1, <2>3 DEF Loads
  <2>. QED
    BY <1>2, <2>1, <2>4, <2>5 DEF LoadGoesOn
<1>9. CASE BuildsGraph(p)
  <2>1. w \in Loads
    BY <1>1, <1>9, Shapes DEF BuildsGraph, At
  <2>2. \/ procs'[p] \in Idles
        \/ procs'[p] = [w EXCEPT !.pc = "new"]
        \/ procs'[p] = [w EXCEPT !.pc = "select"]
    BY <1>3, <1>4, <1>9 DEF BuildsGraph
  <2>3. procs'[p] \in Idles \/ (procs'[p].todo = w.todo /\ procs'[p].graph = w.graph /\ procs'[p].sql = w.sql)
    BY <2>1, <2>2 DEF Loads
  <2>. QED
    BY <1>2, <2>1, <2>3 DEF LoadGoesOn
<1>10. CASE GivesUp(p)
  <2>1. procs'[p] \in Idles
    BY <1>10, EndsIdle, Parts DEF GivesUp, Goes
  <2>. QED
    BY <2>1 DEF LoadGoesOn
<1>. QED
  BY <1>5, <1>6, <1>7, <1>8, <1>9, <1>10 DEF LoadStep

(***************************************************************************)
(* What authors do.                                                        *)
(***************************************************************************)

\* What an author does.
LEMMA SavesGoes ==
    ASSUME Shaped, NEW f \in Files, NEW t \in Texts, Saves(f, t)
    PROVE  /\ UNCHANGED <<config, folders, used, procs, runs, spoilt>>
           /\ edits' \in 0 .. MaxEdits
           /\ Sql(f) # NoFile
           /\ packages' = [packages EXCEPT ![f[1]][f[2]] = t]
  BY ShapedSays DEF Saves, Shaped, Setting

\* And by editing a manifest or deleting a script.
LEMMA EditsGoes ==
    ASSUME Shaped, NEW d \in Dirs, Edits(d)
    PROVE  /\ UNCHANGED <<config, folders, used, procs, runs>>
           /\ edits' \in 0 .. MaxEdits
           /\ spoilt' = spoilt \cup {d}
           /\ \E f \in Contents, v \in Manifests \cup {NoFile, Cut} :
                 /\ packages' = [packages EXCEPT ![d][f] = v]
                 /\ f # "manifest" => v = NoFile
<1> DEFINE M == Manifests \cup {NoFile, Cut}
           m == packages[d].manifest
           Sets(f, v) == /\ packages' = [packages EXCEPT ![d][f] = v]
                         /\ f # "manifest" => v = NoFile
<1>1. m \in Manifests
  BY DEF Edits
<1>2. "manifest" \in Contents /\ Roles \subseteq Contents /\ NoFile \in M
  BY DEF Contents, Roles
<1>3. ASSUME NEW v \in M, packages' = [packages EXCEPT ![d].manifest = v]
      PROVE  Sets("manifest", v)
  BY <1>3
<1>4. ASSUME NEW role \in Roles, packages' = [packages EXCEPT ![d][role] = NoFile]
      PROVE  Sets(role, NoFile)
  BY <1>4
<1>5. [m EXCEPT !.reversible = ~@] \in M /\ Cut \in M
  BY <1>1 DEF Manifests
<1>6. \A e \in Dirs : [m EXCEPT !.depends = @ \cup {e}] \in M
  BY <1>1 DEF Manifests
<1>7. \/ packages' = [packages EXCEPT ![d].manifest = Cut]
      \/ packages' = [packages EXCEPT ![d].manifest = [m EXCEPT !.reversible = ~@]]
      \/ \E e \in Dirs : packages' = [packages EXCEPT ![d].manifest = [m EXCEPT !.depends = @ \cup {e}]]
      \/ \E role \in Roles : packages' = [packages EXCEPT ![d][role] = NoFile]
  BY DEF Edits
<1> HIDE DEF M, m, Sets
<1>8. \E f \in Contents, v \in M : Sets(f, v)
  BY <1>2, <1>3, <1>4, <1>5, <1>6, <1>7
<1>9. edits' \in 0 .. MaxEdits
  BY ShapedSays DEF Edits, Shaped, Setting
<1>. QED
  BY <1>8, <1>9 DEF Edits, M, Sets

\* And by copying a package.
LEMMA CopiesGoes ==
    ASSUME Shaped, NEW d \in Dirs, NEW e \in Dirs, Copies(d, e)
    PROVE  /\ UNCHANGED <<config, folders, procs, runs>>
           /\ edits' \in 0 .. MaxEdits
           /\ packages[d].there /\ e \notin used
           /\ packages' = [packages EXCEPT ![e] = packages[d]]
           /\ used' = used \cup {e} /\ spoilt' = spoilt \cup {e}
  BY ShapedSays DEF Copies, Shaped, Setting, There

(***************************************************************************)
(* The types.                                                              *)
(***************************************************************************)

\* One file of one package was written, or removed.
FileSet(d, f, v) ==
    /\ packages' = [packages EXCEPT ![d][f] = v]
    /\ v \in IF f = "manifest" THEN Manifests \cup {NoFile, Cut} ELSE Texts \cup {NoFile, Cut}

\* Nothing else of the tree has changed.
LEMMA FileSetTypes ==
    ASSUME Shaped, NEW d \in Dirs, NEW f \in Contents, NEW v, FileSet(d, f, v)
    PROVE  /\ packages' \in [Dirs -> Packages]
           /\ There' = There
           /\ \A e \in Dirs : e # d => packages'[e] = packages[e]
           /\ packages'[d][f] = v
           /\ \A g \in Contents : g # f => packages'[d][g] = packages[d][g]
<1>1. packages \in [Dirs -> Packages]
  BY ShapedSays DEF TreeTypes
<1>2. packages' = [packages EXCEPT ![d][f] = v]
  BY DEF FileSet
<1>3. /\ f = "manifest" => v \in Manifests \cup {NoFile, Cut}
      /\ f # "manifest" => v \in Texts \cup {NoFile, Cut}
  BY DEF FileSet
<1>4. packages' \in [Dirs -> Packages]
  BY <1>1, <1>2, <1>3, PutTypes
<1>5. /\ \A e \in Dirs : e # d => packages'[e] = packages[e]
      /\ packages'[d].there = packages[d].there
      /\ packages'[d][f] = v
      /\ \A g \in Contents : g # f => packages'[d][g] = packages[d][g]
  BY <1>1, <1>2 DEF Packages, Contents
<1>. QED
  BY <1>4, <1>5 DEF There

\* The tree keeps its type if what is written has one.
LEMMA TreeAfter ==
    ASSUME Shaped,
           config' \in Procs \cup {"given", NoFile, Cut},
           folders' \in [Folders -> {"absent", "bare", "kept"}],
           packages' \in [Dirs -> Packages],
           There' \subseteq used', used' \subseteq Dirs, spoilt' \subseteq Dirs \cup {Root}
    PROVE  TreeTypes'
  BY DEF TreeTypes

\* What every step leaves.
LEMMA ShapedKept ==
    ASSUME Shaped, [CheckoutNext]_checkoutVars
    PROVE  Shaped'
<1> DEFINE Typed == /\ TreeTypes' /\ procs' \in [Procs -> States]
                    /\ runs' \in 0 .. MaxRuns /\ edits' \in 0 .. MaxEdits
<1>1. /\ config \in Procs \cup {"given", NoFile, Cut}
      /\ folders \in [Folders -> {"absent", "bare", "kept"}]
      /\ packages \in [Dirs -> Packages]
      /\ There \subseteq used /\ used \subseteq Dirs /\ spoilt \subseteq Dirs \cup {Root}
      /\ procs \in [Procs -> States] /\ runs \in 0 .. MaxRuns /\ edits \in 0 .. MaxEdits
  BY ShapedSays DEF TreeTypes
<1>2. ASSUME UNCHANGED <<config, folders, packages, used, spoilt>> PROVE TreeTypes'
  BY <1>1, <1>2, TreeAfter DEF There
<1>3. ASSUME UNCHANGED <<config, folders, used>>, NEW d \in Dirs, NEW f \in Contents, NEW v, FileSet(d, f, v),
             spoilt' \subseteq Dirs \cup {Root}
      PROVE  TreeTypes'
  <2>1. packages' \in [Dirs -> Packages] /\ There' = There
    BY <1>3, FileSetTypes
  <2>. QED
    BY <1>1, <1>3, <2>1, TreeAfter
<1>4. ASSUME NEW p \in Procs, NEW c \in {"init", "new", "format", "other"}, Start(p, c) PROVE Typed
  BY <1>1, <1>2, <1>4, StartGoes DEF Goes
<1>5. ASSUME NEW p \in Procs, InitStep(p) PROVE Typed
  <2>1. There' = There
    BY <1>5, InitGoes DEF There
  <2>. QED
    BY <1>1, <1>5, <2>1, InitGoes, TreeAfter DEF Goes
<1>6. ASSUME NEW p \in Procs, LoadStep(p) PROVE Typed
  BY <1>1, <1>2, <1>6, LoadGoes DEF Goes, Still
<1>7. ASSUME NEW p \in Procs, MakesPackage(p) PROVE Typed
  <2>1. PICK d \in NextId : packages' = [packages EXCEPT ![d].there = TRUE] /\ used' = used \cup {d}
    BY <1>7, MakeGoes
  <2>2. d \in Dirs
    BY FreeIs
  <2>3. packages' \in [Dirs -> Packages]
    <3>1. [packages[d] EXCEPT !.there = TRUE] \in Packages
      BY <1>1, <2>2 DEF Packages
    <3>. QED
      BY <1>1, <2>1, <3>1
  <2>4. There' \subseteq used' /\ used' \subseteq Dirs
    BY <1>1, <2>1, <2>2 DEF There
  <2>. QED
    BY <1>1, <1>7, <2>3, <2>4, MakeGoes, TreeAfter DEF Goes
<1>8. ASSUME NEW p \in Procs, NewOpens(p) PROVE Typed
  <2>1. procs[p].dir \in Dirs /\ procs[p].file \in Contents
    BY <1>8, OpenGoes DEF Makes
  <2>2. FileSet(procs[p].dir, procs[p].file, Cut)
    BY <1>8, OpenGoes DEF FileSet
  <2>. QED
    BY <1>1, <1>3, <1>8, <2>1, <2>2, OpenGoes DEF Goes
<1>9. ASSUME NEW p \in Procs, NewFills(p) PROVE Typed
  <2>1. procs[p].dir \in Dirs /\ procs[p].file \in Contents /\ procs[p].manifest \in Manifests
    BY <1>9, FillGoes DEF Makes
  <2>2. FileSet(procs[p].dir, procs[p].file,
                IF procs[p].file = "manifest" THEN procs[p].manifest ELSE Template)
    BY <1>9, <2>1, FillGoes, Distinctness DEF FileSet, Shaped
  <2>. QED
    BY <1>1, <1>3, <1>9, <2>1, <2>2, FillGoes DEF Goes
<1>10. ASSUME NEW p \in Procs, NewFails(p) PROVE Typed
  BY <1>1, <1>2, <1>10, FailGoes DEF Goes, Still
<1>11. ASSUME NEW p \in Procs, NewCleans(p) PROVE Typed
  <2>1. procs[p].dir \in Dirs
    BY <1>11, CleanGoes DEF Cleans
  <2>2. CASE /\ packages' = [packages EXCEPT ![procs[p].dir] = NoPackage]
             /\ Goes(p, Idles)
    <3>1. NoPackage \in Packages /\ ~NoPackage.there
      BY DEF NoPackage, Packages
    <3>2. packages' \in [Dirs -> Packages] /\ There' \subseteq There
      BY <1>1, <2>1, <2>2, <3>1 DEF There
    <3>. QED
      BY <1>1, <1>11, <2>2, <3>2, CleanGoes, TreeAfter DEF Goes
  <2>3. CASE \E f \in Contents : /\ packages' = [packages EXCEPT ![procs[p].dir][f] = NoFile]
                                 /\ UNCHANGED procs
    <3>1. PICK f \in Contents : packages' = [packages EXCEPT ![procs[p].dir][f] = NoFile]
      BY <2>3
    <3>2. FileSet(procs[p].dir, f, NoFile)
      BY <3>1 DEF FileSet
    <3>. QED
      BY <1>1, <1>3, <1>11, <2>1, <2>3, <3>2, CleanGoes
  <2>. QED
    BY <1>11, <2>2, <2>3, CleanGoes
<1>12. ASSUME NEW p \in Procs, NewGivesUp(p) PROVE Typed
  <2>1. procs[p].dir \in Dirs /\ There' = There
    BY <1>12, GiveUpGoes DEF Cleans, There
  <2>. QED
    BY <1>1, <1>12, <2>1, GiveUpGoes, TreeAfter DEF Goes
<1>13. ASSUME NEW p \in Procs, FormatStep(p) PROVE Typed
  <2>1. CASE UNCHANGED packages
    BY <1>1, <1>2, <1>13, <2>1, FormatGoes DEF Goes
  <2>2. CASE \E f \in Files, r \in Found : Rewrites(procs[p], f, r)
    <3>1. PICK f \in Files, r \in Found : Rewrites(procs[p], f, r)
      BY <2>2
    <3>2. f[1] \in Dirs /\ f[2] \in Contents /\ f[2] # "manifest" /\ Formatted(r.text) \in Texts \cup {Cut}
      BY TextTypes DEF Found
    <3>3. FileSet(f[1], f[2], Formatted(r.text))
      BY <3>1, <3>2 DEF FileSet, Rewrites
    <3>. QED
      BY <1>1, <1>3, <1>13, <3>2, <3>3, FormatGoes DEF Goes
  <2>. QED
    BY <1>13, <2>1, <2>2, FormatGoes
<1>14. ASSUME NEW p \in Procs, Dies(p) PROVE Typed
  <2>1. There' = There
    BY <1>14, DieGoes DEF There
  <2>. QED
    BY <1>1, <1>14, <2>1, DieGoes, TreeAfter DEF Goes
<1>15. ASSUME NEW f \in Files, NEW t \in Texts, Saves(f, t) PROVE Typed
  <2>1. f[1] \in Dirs /\ f[2] \in Contents /\ f[2] # "manifest"
    BY TextTypes
  <2>2. FileSet(f[1], f[2], t)
    BY <1>15, <2>1, SavesGoes DEF FileSet
  <2>. QED
    BY <1>1, <1>3, <1>15, <2>1, <2>2, SavesGoes
<1>16. ASSUME NEW d \in Dirs, Edits(d) PROVE Typed
  <2>1. PICK f \in Contents, v \in Manifests \cup {NoFile, Cut} :
           packages' = [packages EXCEPT ![d][f] = v] /\ (f # "manifest" => v = NoFile)
    BY <1>16, EditsGoes
  <2>2. FileSet(d, f, v)
    BY <2>1 DEF FileSet
  <2>. QED
    BY <1>1, <1>3, <1>16, <2>2, EditsGoes
<1>17. ASSUME NEW d \in Dirs, NEW e \in Dirs, Copies(d, e) PROVE Typed
  <2>1. packages' \in [Dirs -> Packages]
    BY <1>1, <1>17, CopiesGoes
  <2>2. There' \subseteq used' /\ used' \subseteq Dirs
    BY <1>1, <1>17, CopiesGoes DEF There
  <2>. QED
    BY <1>1, <1>17, <2>1, <2>2, CopiesGoes, TreeAfter
<1>18. ASSUME UNCHANGED checkoutVars PROVE Typed
  BY <1>1, <1>2, <1>18 DEF checkoutVars, tree
<1>19. Typed
  BY <1>4, <1>5, <1>6, <1>7, <1>8, <1>9, <1>10, <1>11, <1>12, <1>13, <1>14, <1>15, <1>16, <1>17, <1>18
     DEF CheckoutNext, NewStep
<1>. QED
  BY <1>19, ShapedNext

(***************************************************************************)
(* What processes know.                                                    *)
(***************************************************************************)

\* What a process holds says how far it is.
LEMMA Places ==
    ASSUME NEW w
    PROVE  /\ w \in Idles => w.pc = "idle" /\ w.outcome \in Outcomes
           /\ w \in Starts => w.pc \in {"check", "config"}
           /\ w \in Inits => w.pc \in {"again", "open", "fill", "folders", "migrations", "tests"}
           /\ w \in Loads => w.pc \in {"manifest", "deploy", "revert", "new", "select"}
           /\ w \in Makes => w.pc \in {"opens", "fills"}
           /\ w \in Cleans => w.pc = "cleans"
           /\ w \in Formats => w.pc \in {"reads", "writes"}
  BY DEF Idles, Starts, Inits, Loads, Makes, Cleans, Formats

\* At first nobody knows anything.
LEMMA FirstLearned == CheckoutInit => LearnedAll
<1>1. Idle \in Idles
  BY DEF Idle, Idles, Outcomes
<1>. QED
  BY <1>1, Places DEF CheckoutInit, LearnedAll, Learned

\* What a format has read, and what it is to write.
LEMMA FormatLearns ==
    ASSUME NEW w, NEW x, FormatGoesOn(w, x), Learned(w), x \in Formats
    PROVE  /\ \A r \in x.read : /\ r.text \notin Broken
                                /\ \A s \in x.read : s.file = r.file => s = r
                                /\ x.pc = "reads" => r.file \notin x.todo
           /\ x.pc = "writes" => \A f \in x.todo : \E r \in x.read : r.file = f /\ Judged(r)
<1>0. x \notin Idles
  BY Places
<1>1. CASE w \in Loads
  <2>1. w \notin Formats
    BY <1>1, Places
  <2>. QED
    BY <1>0, <1>1, <2>1 DEF FormatGoesOn
<1>2. CASE w \in Formats /\ w.pc = "reads" /\ x.pc = "reads"
  <2>1. w \notin Loads
    BY <1>2, Places
  <2>2. PICK f \in w.todo : /\ x.todo = w.todo \ {f} /\ Sql(f) \notin Broken
                            /\ x.read = w.read \cup {[file |-> f, text |-> Sql(f)]}
    BY <1>0, <1>2, <2>1 DEF FormatGoesOn
  <2> DEFINE new == [file |-> f, text |-> Sql(f)]
  <2>3. new.file = f /\ new.text \notin Broken /\ x.read = w.read \cup {new}
    BY <2>2
  <2> HIDE DEF new
  <2>4. \A r \in w.read : /\ r.text \notin Broken /\ r.file \notin w.todo
                          /\ \A s \in w.read : s.file = r.file => s = r
    BY <1>2 DEF Learned
  <2>. QED
    BY <1>2, <2>2, <2>3, <2>4
<1>3. CASE w \in Formats /\ w.pc = "reads" /\ x.pc = "writes"
  <2>1. w \notin Loads
    BY <1>3, Places
  <2>. QED
    BY <1>0, <1>3, <2>1 DEF FormatGoesOn, Learned
<1>4. CASE w \in Formats /\ w.pc = "writes" /\ x.pc = "writes"
  <2>1. w \notin Loads
    BY <1>4, Places
  <2>. QED
    BY <1>0, <1>4, <2>1 DEF FormatGoesOn, Learned
<1>. QED
  BY <1>0, <1>1, <1>2, <1>3, <1>4 DEF FormatGoesOn

\* What a process knows stays true, whatever others do.
LEMMA LearnedKept ==
    ASSUME Shaped, LearnedAll, [CheckoutNext]_checkoutVars
    PROVE  LearnedAll'
<1>1. \A p \in Procs : Learned(procs[p]) /\ procs[p] \in States
  BY ShapedSays DEF LearnedAll, Learned
<1>2. ASSUME NEW p \in Procs, Others(p), config # NoFile => config' # NoFile,
             Learned(procs[p])'
      PROVE  LearnedAll'
  <2>1. ASSUME NEW q \in Procs PROVE Learned(procs[q])'
    <3>1. CASE q = p
      BY <1>2, <3>1 DEF Learned
    <3>2. CASE q # p
      <4>1. procs'[q] = procs[q]
        BY <1>2, <3>2 DEF Others
      <4>2. Learned(procs[q])
        BY DEF LearnedAll
      <4>3. /\ procs[q] \in Inits => (procs[q].found => config' # NoFile /\ procs[q].pc \notin {"open", "fill"})
        BY <1>2, <4>2 DEF Learned
      <4>. QED
        BY <4>1, <4>2, <4>3 DEF Learned, Judged, Tree
    <3>. QED
      BY <3>1, <3>2
  <2>. QED
    BY <2>1 DEF LearnedAll
<1>3. ASSUME procs' = procs, config' = config PROVE LearnedAll'
  BY <1>3 DEF LearnedAll, Learned, Judged, Tree
<1>4. ASSUME NEW p \in Procs, procs'[p] \in Idles \cup Starts \cup Loads \cup Cleans PROVE Learned(procs[p])'
  BY <1>4, Places DEF Learned
<1>5. ASSUME NEW p \in Procs, NEW c \in {"init", "new", "format", "other"}, Start(p, c) PROVE LearnedAll'
  BY <1>2, <1>4, <1>5, StartGoes DEF Goes
<1>6. ASSUME NEW p \in Procs, InitStep(p) PROVE LearnedAll'
  <2>1. Others(p) /\ procs'[p] \in Idles \cup Inits /\ (config # NoFile => config' # NoFile)
        /\ InitGoesOn(procs[p], procs'[p])
    BY <1>6, InitGoes DEF Goes
  <2>2. CASE procs'[p] \in Idles
    BY <1>2, <1>4, <2>1, <2>2
  <2>3. CASE procs'[p] \in Inits
    <3>1. procs'[p] \notin Idles /\ procs'[p] \notin Makes /\ procs'[p] \notin Formats /\ procs'[p].pc # "writes"
      BY <2>3, Places
    <3>2. procs'[p].found => config' # NoFile /\ procs'[p].pc \notin {"open", "fill"}
      BY <1>1, <2>1, <3>1 DEF InitGoesOn, Learned
    <3>3. Learned(procs[p])'
      BY <3>1, <3>2 DEF Learned
    <3>. QED
      BY <1>2, <2>1, <3>3
  <2>. QED
    BY <2>1, <2>2, <2>3
<1>7. ASSUME NEW p \in Procs, LoadStep(p) PROVE LearnedAll'
  BY <1>2, <1>4, <1>7, LoadGoes DEF Goes, Still
<1>8. ASSUME NEW p \in Procs, procs'[p] \in Makes,
             procs'[p].after # {} => procs'[p].manifest.depends = HeadsOf(procs'[p].after)
      PROVE  Learned(procs[p])'
  <2>1. procs'[p] \notin Inits /\ procs'[p] \notin Formats /\ procs'[p].pc # "writes"
    BY <1>8, Places
  <2>. QED
    BY <1>8, <2>1 DEF Learned
<1>9. ASSUME NEW p \in Procs, MakesPackage(p) PROVE LearnedAll'
  <2>1. config' = config /\ Others(p)
    BY <1>9, MakeGoes DEF Goes
  <2>2. \E d \in NextId : Begins(procs[p], procs'[p], d)
    BY <1>9, MakeGoes
  <2>. QED
    BY <1>2, <1>8, <2>1, <2>2 DEF Begins
<1>10. ASSUME NEW p \in Procs, NewOpens(p) PROVE LearnedAll'
  <2>1. config' = config /\ Others(p) /\ procs[p] \in Makes /\ procs'[p] \in Makes
        /\ procs'[p] = [procs[p] EXCEPT !.pc = "fills"]
    BY <1>10, OpenGoes DEF Goes
  <2>2. procs'[p].after = procs[p].after /\ procs'[p].manifest = procs[p].manifest
    BY <2>1 DEF Makes
  <2>3. Learned(procs[p])
    BY <1>1
  <2>. QED
    BY <1>2, <1>8, <2>1, <2>2, <2>3 DEF Learned
<1>11. ASSUME NEW p \in Procs, NewFills(p) PROVE LearnedAll'
  <2>1. config' = config /\ Others(p) /\ procs[p] \in Makes /\ Fills(procs[p], procs'[p])
    BY <1>11, FillGoes DEF Goes
  <2>2. Learned(procs[p])
    BY <1>1
  <2>3. Learned(procs[p])'
    BY <1>4, <1>8, <2>1, <2>2 DEF Fills, Learned
  <2>. QED
    BY <1>2, <2>1, <2>3
<1>12. ASSUME NEW p \in Procs, NewFails(p) PROVE LearnedAll'
  BY <1>2, <1>4, <1>12, FailGoes DEF Goes, Still
<1>13. ASSUME NEW p \in Procs, NewCleans(p) PROVE LearnedAll'
  BY <1>2, <1>3, <1>4, <1>13, CleanGoes DEF Goes
<1>14. ASSUME NEW p \in Procs, NewGivesUp(p) PROVE LearnedAll'
  BY <1>2, <1>4, <1>14, GiveUpGoes DEF Goes
<1>15. ASSUME NEW p \in Procs, FormatStep(p) PROVE LearnedAll'
  <2>1. config' = config /\ Others(p) /\ procs'[p] \in Idles \cup Formats /\ FormatGoesOn(procs[p], procs'[p])
    BY <1>15, FormatGoes DEF Goes
  <2>2. CASE procs'[p] \in Idles
    BY <1>2, <1>4, <2>1, <2>2
  <2>3. CASE procs'[p] \in Formats
    <3>1. procs'[p] \notin Inits /\ procs'[p] \notin Makes
      BY <2>3, Places
    <3>2. Learned(procs[p])'
      BY <1>1, <2>1, <2>3, <3>1, FormatLearns DEF Learned, Judged, Tree
    <3>. QED
      BY <1>2, <2>1, <3>2
  <2>. QED
    BY <2>1, <2>2, <2>3
<1>16. ASSUME NEW p \in Procs, Dies(p) PROVE LearnedAll'
  BY <1>2, <1>4, <1>16, DieGoes DEF Goes
<1>17. ASSUME NEW f \in Files, NEW t \in Texts, Saves(f, t) PROVE LearnedAll'
  BY <1>3, <1>17, SavesGoes
<1>18. ASSUME NEW d \in Dirs, Edits(d) PROVE LearnedAll'
  BY <1>3, <1>18, EditsGoes
<1>19. ASSUME NEW d \in Dirs, NEW e \in Dirs, Copies(d, e) PROVE LearnedAll'
  BY <1>3, <1>19, CopiesGoes
<1>20. CASE UNCHANGED checkoutVars
  BY <1>3, <1>20 DEF checkoutVars, tree
<1>. QED
  BY <1>5, <1>6, <1>7, <1>9, <1>10, <1>11, <1>12, <1>13, <1>14, <1>15, <1>16, <1>17, <1>18, <1>19, <1>20
     DEF CheckoutNext, NewStep

(***************************************************************************)
(* Scripts that are there in part.                                         *)
(***************************************************************************)

\* What excuses an empty script.
Excused(d, role) ==
    \/ d \in spoilt
    \/ Cleaning(d)
    \/ \E p \in Procs : procs[p].pc = "fills" /\ procs[p].dir = d /\ procs[p].file = role

\* An excuse stands as long as the process that gives it does not end otherwise.
LEMMA ExcusesStand ==
    ASSUME NEW p \in Procs, Others(p), spoilt \subseteq spoilt', NEW d, NEW role, Excused(d, role),
           procs[p].pc = "fills" /\ procs[p].dir = d /\ procs[p].file = role =>
               d \in spoilt' \/ (procs'[p].pc = "cleans" /\ procs'[p].dir = d),
           procs[p].pc = "cleans" /\ procs[p].dir = d => d \in spoilt'
    PROVE  Excused(d, role)'
<1>1. CASE d \in spoilt
  BY <1>1 DEF Excused
<1>2. CASE Cleaning(d)
  <2>1. PICK q \in Procs : procs[q].pc = "cleans" /\ procs[q].dir = d
    BY <1>2 DEF Cleaning
  <2>. QED
    BY <2>1 DEF Excused, Cleaning, Others
<1>3. CASE \E q \in Procs : procs[q].pc = "fills" /\ procs[q].dir = d /\ procs[q].file = role
  <2>1. PICK q \in Procs : procs[q].pc = "fills" /\ procs[q].dir = d /\ procs[q].file = role
    BY <1>3
  <2>. QED
    BY <2>1 DEF Excused, Cleaning, Others
<1>. QED
  BY <1>1, <1>2, <1>3 DEF Excused

\* At first no script is empty.
LEMMA FirstCuts == Setting /\ CheckoutInit => CutsExplained
<1> SUFFICES ASSUME Setting, CheckoutInit, NEW d \in Dirs, NEW role \in Roles PROVE packages[d][role] # Cut
  BY DEF CutsExplained
<1>1. Cut \notin Texts /\ Cut # NoFile
  BY Distinctness
<1>2. CASE packages[d] = NoPackage
  BY <1>1, <1>2 DEF NoPackage, Roles
<1>3. ASSUME NEW text \in Texts, NEW reversible \in BOOLEAN, packages[d] = FirstPackage(text, reversible)
      PROVE  packages[d][role] # Cut
  BY <1>1, <1>3 DEF FirstPackage, Roles
<1>. QED
  BY <1>2, <1>3, FirstTree

\* No step leaves an empty script behind without an excuse.
LEMMA CutsKept ==
    ASSUME Shaped, LearnedAll, CutsExplained, [CheckoutNext]_checkoutVars
    PROVE  CutsExplained'
<1> SUFFICES ASSUME NEW d \in Dirs, NEW role \in Roles, packages'[d][role] = Cut
             PROVE  Excused(d, role)'
  BY DEF CutsExplained, Excused, Cleaning
<1>1. packages[d][role] = Cut => Excused(d, role)
  BY DEF CutsExplained, Excused
<1>2. role \in Contents /\ role # "manifest"
  BY DEF Roles, Contents
<1>3. /\ NoFile # Cut /\ Template # Cut /\ \A t \in Texts : t # Cut
      /\ procs \in [Procs -> States] /\ packages \in [Dirs -> Packages]
  BY Distinctness, ShapedSays DEF Shaped, TreeTypes
<1>4. ASSUME NEW p \in Procs, UNCHANGED packages, spoilt \subseteq spoilt', Others(p),
             procs[p].pc \notin {"fills", "cleans"}
      PROVE  Excused(d, role)'
  BY <1>1, <1>4, ExcusesStand
<1>5. ASSUME NEW p \in Procs, NEW c \in {"init", "new", "format", "other"}, Start(p, c) PROVE Excused(d, role)'
  BY <1>4, <1>5, StartGoes DEF Goes
<1>6. ASSUME NEW p \in Procs, InitStep(p) PROVE Excused(d, role)'
  <2>1. procs[p].pc \notin {"fills", "cleans"}
    BY <1>6 DEF InitStep, InitChecks, InitLooksAgain, InitOpensConfig, InitFillsConfig, InitMakesFolder,
                InitKeepsFolder, InitEnds, InitFails, At, Folders
  <2>. QED
    BY <1>4, <1>6, <2>1, InitGoes DEF Goes
<1>7. ASSUME NEW p \in Procs, LoadStep(p) PROVE Excused(d, role)'
  <2>1. procs[p].pc \notin {"fills", "cleans"}
    BY <1>7 DEF LoadStep, LoadsConfig, ReadsManifest, ReadsDeploy, ReadsRevert, BuildsGraph, GivesUp, At
  <2>. QED
    BY <1>4, <1>7, <2>1, LoadGoes DEF Goes, Still
<1>8. ASSUME NEW p \in Procs, MakesPackage(p) PROVE Excused(d, role)'
  <2>1. PICK e \in NextId : packages' = [packages EXCEPT ![e].there = TRUE] /\ Begins(procs[p], procs'[p], e)
    BY <1>8, MakeGoes
  <2>2. packages'[d][role] = packages[d][role]
    BY <1>3, <2>1, FreeIs DEF Packages, Roles
  <2>3. procs[p].pc = "new"
    BY <2>1 DEF Begins
  <2>4. UNCHANGED spoilt /\ Others(p)
    BY <1>8, MakeGoes DEF Goes
  <2>. QED
    BY <1>1, <2>2, <2>3, <2>4, ExcusesStand
<1>9. ASSUME NEW p \in Procs, NewOpens(p) PROVE Excused(d, role)'
  <2>1. /\ procs[p] \in Makes /\ procs[p].pc = "opens" /\ UNCHANGED spoilt /\ Others(p)
        /\ packages' = [packages EXCEPT ![procs[p].dir][procs[p].file] = Cut]
        /\ procs'[p] = [procs[p] EXCEPT !.pc = "fills"]
    BY <1>9, OpenGoes DEF Goes
  <2>2. /\ procs[p].dir \in Dirs /\ procs[p].file \in Contents
        /\ procs'[p].pc = "fills" /\ procs'[p].dir = procs[p].dir /\ procs'[p].file = procs[p].file
    BY <2>1 DEF Makes
  <2>3. CASE d = procs[p].dir /\ role = procs[p].file
    BY <2>2, <2>3 DEF Excused
  <2>4. CASE ~(d = procs[p].dir /\ role = procs[p].file)
    <3>1. FileSet(procs[p].dir, procs[p].file, Cut)
      BY <2>1 DEF FileSet
    <3>2. packages'[d][role] = packages[d][role]
      BY <1>2, <2>2, <2>4, <3>1, FileSetTypes
    <3>. QED
      BY <1>1, <2>1, <3>2, ExcusesStand
  <2>. QED
    BY <2>3, <2>4
<1>10. ASSUME NEW p \in Procs, NewFills(p) PROVE Excused(d, role)'
  <2> DEFINE v == IF procs[p].file = "manifest" THEN procs[p].manifest ELSE Template
  <2>1. /\ procs[p] \in Makes /\ procs[p].pc = "fills" /\ UNCHANGED spoilt /\ Others(p)
        /\ packages' = [packages EXCEPT ![procs[p].dir][procs[p].file] = v]
    BY <1>10, FillGoes DEF Goes
  <2>2. procs[p].dir \in Dirs /\ procs[p].file \in Contents /\ procs[p].manifest \in Manifests
    BY <2>1 DEF Makes
  <2>3. FileSet(procs[p].dir, procs[p].file, v)
    BY <2>1, <2>2, Distinctness DEF FileSet, Shaped
  <2>4. ~(d = procs[p].dir /\ role = procs[p].file)
    <3>1. packages'[procs[p].dir][procs[p].file] = v
      BY <2>2, <2>3, FileSetTypes
    <3>. QED
      BY <1>2, <1>3, <3>1
  <2>5. packages'[d][role] = packages[d][role]
    BY <1>2, <2>2, <2>3, <2>4, FileSetTypes
  <2>. QED
    BY <1>1, <2>1, <2>4, <2>5, ExcusesStand
<1>11. ASSUME NEW p \in Procs, NewFails(p) PROVE Excused(d, role)'
  <2>1. /\ Still /\ procs[p] \in Makes /\ Others(p) /\ procs'[p] \in Cleans /\ procs'[p].dir = procs[p].dir
    BY <1>11, FailGoes DEF Goes
  <2>2. procs'[p].pc = "cleans" /\ procs[p].pc # "cleans"
    BY <2>1, Places
  <2>. QED
    BY <1>1, <2>1, <2>2, ExcusesStand DEF Still
<1>12. ASSUME NEW p \in Procs, NewCleans(p) PROVE Excused(d, role)'
  <2>1. procs[p].dir \in Dirs /\ procs[p].pc = "cleans" /\ UNCHANGED spoilt
    BY <1>12, CleanGoes DEF Cleans
  <2>2. CASE /\ packages' = [packages EXCEPT ![procs[p].dir] = NoPackage]
             /\ Goes(p, Idles)
    <3>1. d # procs[p].dir /\ packages'[d] = packages[d]
      BY <1>3, <2>1, <2>2 DEF NoPackage, Roles
    <3>. QED
      BY <1>1, <2>1, <2>2, <3>1, ExcusesStand DEF Goes
  <2>3. CASE \E f \in Contents : /\ packages' = [packages EXCEPT ![procs[p].dir][f] = NoFile]
                                 /\ UNCHANGED procs
    <3>1. PICK f \in Contents : packages' = [packages EXCEPT ![procs[p].dir][f] = NoFile]
      BY <2>3
    <3>2. FileSet(procs[p].dir, f, NoFile)
      BY <3>1 DEF FileSet
    <3>3. packages'[d][role] = packages[d][role]
      BY <1>2, <1>3, <2>1, <3>2, FileSetTypes
    <3>. QED
      BY <1>1, <2>1, <2>3, <3>3 DEF Excused, Cleaning
  <2>. QED
    BY <1>12, <2>2, <2>3, CleanGoes
<1>13. ASSUME NEW p \in Procs, NewGivesUp(p) PROVE Excused(d, role)'
  <2>1. UNCHANGED packages /\ Others(p) /\ spoilt' = spoilt \cup {procs[p].dir} /\ procs[p] \in Cleans
    BY <1>13, GiveUpGoes DEF Goes
  <2>2. procs[p].pc = "cleans"
    BY <2>1, Places
  <2>. QED
    BY <1>1, <2>1, <2>2, ExcusesStand
<1>14. ASSUME NEW p \in Procs, FormatStep(p) PROVE Excused(d, role)'
  <2>1. procs[p].pc \notin {"fills", "cleans"} /\ Others(p) /\ UNCHANGED spoilt
    <3>1. procs[p].pc \in {"select", "reads", "writes"}
      BY <1>14 DEF FormatStep, Selects, Reads, Judges, Writes, WriteFails, At
    <3>. QED
      BY <1>14, <3>1, FormatGoes DEF Goes
  <2>2. CASE UNCHANGED packages
    BY <1>4, <2>1, <2>2
  <2>3. CASE \E f \in Files, r \in Found : Rewrites(procs[p], f, r)
    <3>1. PICK f \in Files, r \in Found : Rewrites(procs[p], f, r)
      BY <2>3
    <3>2. /\ procs[p] \in Formats /\ procs[p].pc = "writes" /\ f \in procs[p].todo
          /\ r \in procs[p].read /\ r.file = f
          /\ packages' = [packages EXCEPT ![f[1]][f[2]] = Formatted(r.text)]
      BY <3>1 DEF Rewrites
    <3>3. r.text \in Texts
      <4>1. Learned(procs[p])
        BY DEF LearnedAll
      <4>2. PICK s \in procs[p].read : s.file = f /\ Judged(s)
        BY <3>2, <4>1 DEF Learned
      <4>3. s = r
        BY <3>2, <4>1, <4>2 DEF Learned
      <4>. QED
        BY <4>2, <4>3 DEF Judged
    <3>4. f[1] \in Dirs /\ f[2] \in Contents /\ f[2] # "manifest" /\ Formatted(r.text) \in Texts
      BY <3>3, TextTypes
    <3>5. FileSet(f[1], f[2], Formatted(r.text))
      BY <3>2, <3>4 DEF FileSet
    <3>6. packages'[d][role] = packages[d][role]
      BY <1>2, <1>3, <3>4, <3>5, FileSetTypes
    <3>. QED
      BY <1>1, <2>1, <3>6, ExcusesStand
  <2>. QED
    BY <1>14, <2>2, <2>3, FormatGoes
<1>15. ASSUME NEW p \in Procs, Dies(p) PROVE Excused(d, role)'
  <2>1. UNCHANGED packages /\ Others(p) /\ spoilt \subseteq spoilt'
        /\ (Owner(procs[p]) => procs[p].dir \in spoilt')
    BY <1>15, DieGoes DEF Goes
  <2>. QED
    BY <1>1, <2>1, ExcusesStand DEF Owner
<1>16. ASSUME UNCHANGED procs, spoilt \subseteq spoilt', packages'[d][role] = packages[d][role] \/ d \in spoilt'
       PROVE  Excused(d, role)'
  BY <1>1, <1>16 DEF Excused, Cleaning
<1>17. ASSUME NEW f \in Files, NEW t \in Texts, Saves(f, t) PROVE Excused(d, role)'
  <2>1. f[1] \in Dirs /\ f[2] \in Contents /\ f[2] # "manifest"
    BY TextTypes
  <2>2. FileSet(f[1], f[2], t)
    BY <1>17, <2>1, SavesGoes DEF FileSet
  <2>3. packages'[d][role] = packages[d][role]
    BY <1>2, <1>3, <2>1, <2>2, FileSetTypes
  <2>. QED
    BY <1>16, <1>17, <2>3, SavesGoes
<1>18. ASSUME NEW e \in Dirs, Edits(e) PROVE Excused(d, role)'
  <2>1. PICK f \in Contents, v \in Manifests \cup {NoFile, Cut} :
           packages' = [packages EXCEPT ![e][f] = v] /\ (f # "manifest" => v = NoFile)
    BY <1>18, EditsGoes
  <2>2. FileSet(e, f, v)
    BY <2>1 DEF FileSet
  <2>3. packages'[d][role] = packages[d][role] \/ d = e
    BY <1>2, <2>2, FileSetTypes
  <2>. QED
    BY <1>16, <1>18, <2>3, EditsGoes
<1>19. ASSUME NEW c \in Dirs, NEW e \in Dirs, Copies(c, e) PROVE Excused(d, role)'
  <2>1. packages'[d] = packages[d] \/ d = e
    BY <1>3, <1>19, CopiesGoes
  <2>. QED
    BY <1>16, <1>19, <2>1, CopiesGoes
<1>20. CASE UNCHANGED checkoutVars
  BY <1>16, <1>20 DEF checkoutVars, tree
<1>. QED
  BY <1>5, <1>6, <1>7, <1>8, <1>9, <1>10, <1>11, <1>12, <1>13, <1>14, <1>15, <1>17, <1>18, <1>19, <1>20
     DEF CheckoutNext, NewStep

(***************************************************************************)
(* A tidy tree, action by action.                                          *)
(***************************************************************************)

\* A step keeps what was kept.
KeptOn == \A d \in Dirs, role \in Roles : Kept(d, role) => Kept(d, role)'

\* A package being taken away is so until its process is done with it.
LEMMA CleaningStays ==
    ASSUME NEW p, Others(p), NEW d,
           p \in Procs /\ procs[p].pc = "cleans" /\ procs[p].dir = d =>
               procs'[p].pc = "cleans" /\ procs'[p].dir = d
    PROVE  Cleaning(d) => Cleaning(d)'
<1> SUFFICES ASSUME Cleaning(d) PROVE Cleaning(d)'
  OBVIOUS
<1>1. PICK q \in Procs : procs[q].pc = "cleans" /\ procs[q].dir = d
  BY DEF Cleaning
<1>. QED
  BY <1>1 DEF Cleaning, Others

\* What was kept is kept, if what is there is.
LEMMA KeptStays ==
    ASSUME used \subseteq used',
           \A d \in used \cap Dirs :
              /\ ~packages[d].there => ~packages'[d].there
              /\ Cleaning(d) => Cleaning(d)' \/ ~packages'[d].there
              /\ \A role \in Roles : packages[d][role] # NoFile =>
                    packages'[d][role] # NoFile \/ ~packages'[d].there \/ Cleaning(d)'
    PROVE  KeptOn
<1> SUFFICES ASSUME NEW d \in Dirs, NEW role \in Roles, Kept(d, role) PROVE Kept(d, role)'
  BY DEF KeptOn
<1>1. d \in used /\ d \in used' /\ (packages[d][role] # NoFile \/ ~packages[d].there \/ Cleaning(d))
  BY DEF Kept
<1>2. packages'[d][role] # NoFile \/ ~packages'[d].there \/ Cleaning(d)'
  BY <1>1
<1>. QED
  BY <1>1, <1>2 DEF Kept

\* Nobody else disturbs a package in the making.
LEMMA HalfMadeStays ==
    ASSUME NEW q, procs'[q] = procs[q], HalfMade(procs[q]), used \subseteq used',
           packages'[procs[q].dir] = packages[procs[q].dir]
    PROVE  HalfMade(procs[q])'
  BY DEF HalfMade, Fits

\* Nor one that was made.
LEMMA WholeStays ==
    ASSUME NEW d, Whole(d), used \subseteq used', packages'[d] = packages[d]
    PROVE  Whole(d)'
  BY DEF Whole, Fits

\* What a process counts on stays, if what was kept is.
LEMMA HeldStays ==
    ASSUME NEW q, procs'[q] = procs[q], Held(procs[q]), KeptOn, used \subseteq used',
           procs[q] \in Makes => HalfMade(procs[q])'
    PROVE  Held(procs[q])'
  BY DEF Held, KeptOn

\* A process that has made nothing, and is to read what is there.
LEMMA NotOwner ==
    ASSUME NEW w \in Idles \cup Starts \cup Inits \cup Loads \cup Formats
    PROVE  ~Owner(w) /\ w \notin Makes
  BY Places DEF Owner

\* A process that has just begun or ended counts on nothing.
LEMMA HeldByNobody ==
    ASSUME NEW p, procs'[p] \in Idles \cup Starts \cup Inits \cup Cleans
    PROVE  Held(procs[p])'
  BY Places DEF Held

\* What a step of one process, or of an author, has to see to.
LEMMA NeatAfter ==
    ASSUME Shaped, Neat, NEW p, Others(p), used \subseteq used', Numbered', KeptOn,
           \A d \in Dirs : packages'[d] # packages[d] =>
              /\ packages'[d].there \/ packages'[d] = NoPackage
              /\ packages'[d].there => Whole(d)' \/ Owned(d)'
              /\ \A q \in Procs : q # p /\ procs[q] \in Makes /\ procs[q].dir = d => HalfMade(procs[q])',
           p \in Procs =>
              /\ Held(procs[p])'
              /\ Owner(procs[p]) => \A d \in Dirs : procs[p].dir = d =>
                    \/ Owner(procs'[p]) /\ procs'[p].dir = d
                    \/ ~packages'[d].there
                    \/ Whole(d)'
              /\ Owner(procs'[p]) =>
                    /\ procs'[p].dir \in used'
                    /\ (Owner(procs[p]) /\ procs[p].dir = procs'[p].dir) \/ procs'[p].dir \notin used
    PROVE  Neat'
<1>1. \A d \in Dirs : packages'[d].there \/ packages'[d] = NoPackage
  BY DEF Neat
<1>2. ASSUME NEW q \in Procs PROVE Held(procs[q])'
  <2>1. CASE q = p
    BY <2>1
  <2>2. CASE q # p
    <3>1. procs'[q] = procs[q] /\ Held(procs[q])
      BY <2>2 DEF Others, Neat
    <3>2. ASSUME procs[q] \in Makes PROVE HalfMade(procs[q])'
      <4>1. procs[q].dir \in Dirs /\ HalfMade(procs[q])
        BY <3>1, <3>2 DEF Makes, Held
      <4>2. CASE packages'[procs[q].dir] = packages[procs[q].dir]
        BY <3>1, <4>1, <4>2, HalfMadeStays
      <4>3. CASE packages'[procs[q].dir] # packages[procs[q].dir]
        BY <2>2, <3>2, <4>1, <4>3
      <4>. QED
        BY <4>2, <4>3
    <3>. QED
      BY <3>1, <3>2, HeldStays
  <2>. QED
    BY <2>1, <2>2
<1>3. ASSUME NEW q \in Procs, Owner(procs'[q]) PROVE procs'[q].dir \in used'
  <2>1. CASE q = p
    BY <1>3, <2>1
  <2>2. CASE q # p
    BY <1>3, <2>2 DEF Others, Neat
  <2>. QED
    BY <2>1, <2>2
<1>4. ASSUME NEW q \in Procs, NEW r \in Procs, Owner(procs'[q]), Owner(procs'[r]),
             procs'[q].dir = procs'[r].dir
      PROVE  q = r
  <2>1. \A a, b \in Procs : Owner(procs[a]) /\ Owner(procs[b]) /\ procs[a].dir = procs[b].dir => a = b
    BY DEF Neat
  <2>2. \A a \in Procs : Owner(procs[a]) => procs[a].dir \in used
    BY DEF Neat
  <2>3. ASSUME NEW a \in Procs, a # p, p \in Procs, Owner(procs'[a]), Owner(procs'[p]),
               procs'[a].dir = procs'[p].dir
        PROVE  FALSE
    BY <2>1, <2>2, <2>3 DEF Others
  <2>4. CASE q # p /\ r # p
    BY <1>4, <2>1, <2>4 DEF Others
  <2>. QED
    BY <1>4, <2>3, <2>4
<1>5. ASSUME NEW d \in Dirs, packages'[d].there PROVE Whole(d)' \/ Owned(d)'
  <2>1. CASE packages'[d] # packages[d]
    BY <1>5, <2>1
  <2>2. CASE packages'[d] = packages[d]
    <3>1. Whole(d) \/ Owned(d)
      BY <1>5, <2>2 DEF Neat
    <3>2. CASE Whole(d)
      BY <2>2, <3>2, WholeStays
    <3>3. CASE Owned(d)
      <4>1. PICK q \in Procs : Owner(procs[q]) /\ procs[q].dir = d
        BY <3>3 DEF Owned
      <4>2. CASE q # p
        BY <4>1, <4>2 DEF Owned, Others
      <4>3. CASE q = p
        BY <1>5, <4>1, <4>3 DEF Owned
      <4>. QED
        BY <4>2, <4>3
    <3>. QED
      BY <3>1, <3>2, <3>3
  <2>. QED
    BY <2>1, <2>2
<1>6. /\ Numbered'
      /\ \A q \in Procs : Owner(procs[q])' => procs'[q].dir \in used'
      /\ \A q, r \in Procs : Owner(procs[q])' /\ Owner(procs[r])' /\ procs'[q].dir = procs'[r].dir => q = r
  BY <1>3, <1>4 DEF Owner
<1>. QED
  BY <1>1, <1>2, <1>5, <1>6 DEF Neat

\* Reading leaves a tidy tree tidy, and so does a process that ends.
LEMMA NeatStill ==
    ASSUME Shaped, Neat, NEW p \in Procs, Others(p), UNCHANGED <<packages, used>>,
           Held(procs[p])', ~Owner(procs[p]), ~Owner(procs'[p])
    PROVE  Neat'
<1>1. Numbered'
  BY DEF Neat, Numbered
<1>2. KeptOn
  <2>1. \A d \in Dirs : Cleaning(d) => Cleaning(d)'
    BY CleaningStays DEF Owner
  <2>. QED
    BY <2>1, KeptStays
<1>. QED
  BY <1>1, <1>2, NeatAfter

\* A load counts only on what it saw.
LEMMA LoadHeld ==
    ASSUME Shaped, Neat, NEW p \in Procs, LoadStep(p)
    PROVE  Held(procs[p])' /\ ~Owner(procs[p]) /\ ~Owner(procs'[p])
<1>1. /\ Still /\ Others(p) /\ procs'[p] \in Idles \cup Loads /\ LoadGoesOn(procs[p], procs'[p])
      /\ procs[p] \in States /\ There \subseteq used
  BY LoadGoes, LoadLearns, ShapedSays DEF Goes, TreeTypes
<1>2. ~Owner(procs[p])
  BY DEF LoadStep, LoadsConfig, ReadsManifest, ReadsDeploy, ReadsRevert, BuildsGraph, GivesUp, At, Owner
<1>3. ~Owner(procs'[p])
  BY <1>1, NotOwner
<1>4. KeptOn
  <2>1. \A d \in Dirs : Cleaning(d) => Cleaning(d)'
    BY <1>1, <1>2, CleaningStays DEF Owner
  <2>. QED
    BY <1>1, <2>1, KeptStays DEF Still
<1>5. CASE procs'[p] \in Idles
  BY <1>2, <1>3, <1>5, HeldByNobody
<1>6. CASE procs'[p] \in Loads
  <2> DEFINE w == procs[p]
             x == procs'[p]
  <2>1. x \notin Idles /\ x \notin Makes /\ x \notin Formats
    BY <1>6, Places
  <2>2. CASE w \in Starts /\ x.todo \subseteq There /\ x.graph = {} /\ x.sql = {}
    BY <1>1, <1>2, <1>3, <2>1, <2>2 DEF Held, Still
  <2>3. CASE /\ w \in Loads /\ x.todo \subseteq w.todo
             /\ \A m \in x.graph : m \in w.graph \/ \E d \in w.todo : m.id = NameId[d]
             /\ \A f \in x.sql : f \in w.sql \/ (f[1] \in w.todo /\ Sql(f) # NoFile)
    <3>1. /\ w.todo \subseteq used
          /\ \A m \in w.graph : m.id \in used
          /\ \A d \in Dirs, role \in Roles : <<d, role>> \in w.sql => Kept(d, role)
      BY <2>3 DEF Neat, Held
    <3>2. \A d \in used : NameId[d] = d
      BY DEF Neat, Numbered
    <3>3. x.todo \subseteq used' /\ \A m \in x.graph : m.id \in used'
      BY <1>1, <2>3, <3>1, <3>2 DEF Still
    <3>4. ASSUME NEW d \in Dirs, NEW role \in Roles, <<d, role>> \in x.sql PROVE Kept(d, role)'
      <4>1. Kept(d, role)
        BY <2>3, <3>1, <3>4 DEF Kept, Sql
      <4>. QED
        BY <1>4, <4>1 DEF KeptOn
    <3>5. Held(procs[p])'
      BY <2>1, <3>3, <3>4 DEF Held
    <3>. QED
      BY <1>2, <1>3, <3>5
  <2>. QED
    BY <1>1, <2>1, <2>2, <2>3 DEF LoadGoesOn
<1>. QED
  BY <1>1, <1>5, <1>6

\* And so does a format.
LEMMA FormatHeld ==
    ASSUME Shaped, Neat, NEW p \in Procs, FormatStep(p), KeptOn
    PROVE  Held(procs[p])' /\ ~Owner(procs[p]) /\ ~Owner(procs'[p])
<1> DEFINE w == procs[p]
           x == procs'[p]
<1>1. x \in Idles \cup Formats /\ FormatGoesOn(w, x) /\ used' = used
  BY FormatGoes DEF Goes
<1>2. ~Owner(w)
  BY DEF FormatStep, Selects, Reads, Judges, Writes, WriteFails, At, Owner
<1>3. ~Owner(x)
  BY <1>1, NotOwner
<1>4. CASE x \in Idles
  BY <1>2, <1>3, <1>4, HeldByNobody
<1>5. CASE x \in Formats
  <2>1. x \notin Idles /\ x \notin Makes /\ x \notin Loads
    BY <1>5, Places
  <2>2. /\ w \in Loads => \A d \in Dirs, role \in Roles : <<d, role>> \in w.sql => Kept(d, role)
        /\ w \in Formats => \A d \in Dirs, role \in Roles :
              <<d, role>> \in w.todo \cup {r.file : r \in w.read} => Kept(d, role)
    BY DEF Neat, Held
  <2>3. ASSUME NEW f \in x.todo \cup {r.file : r \in x.read}
        PROVE  \/ w \in Loads /\ f \in w.sql
               \/ w \in Formats /\ f \in w.todo \cup {r.file : r \in w.read}
    <3>1. CASE w \in Loads /\ x.read = {} /\ x.todo \subseteq w.sql
      BY <3>1
    <3>2. CASE /\ w \in Formats
               /\ \E g \in w.todo : /\ x.todo = w.todo \ {g}
                                    /\ x.read = w.read \cup {[file |-> g, text |-> Sql(g)]}
      <4>1. PICK g \in w.todo : /\ x.todo = w.todo \ {g}
                                /\ x.read = w.read \cup {[file |-> g, text |-> Sql(g)]}
        BY <3>2
      <4>2. \A r \in x.read : r \in w.read \/ r.file = g
        BY <4>1
      <4>. QED
        BY <3>2, <4>1, <4>2
    <3>3. CASE w \in Formats /\ x.read = w.read /\ \A g \in x.todo : \E r \in w.read : r.file = g
      BY <3>3
    <3>4. CASE w \in Formats /\ x.read = w.read /\ x.todo \subseteq w.todo
      BY <3>4
    <3>. QED
      BY <1>1, <2>1, <3>1, <3>2, <3>3, <3>4 DEF FormatGoesOn
  <2>4. ASSUME NEW d \in Dirs, NEW role \in Roles,
               <<d, role>> \in x.todo \cup {r.file : r \in x.read}
        PROVE  Kept(d, role)'
    <3>1. Kept(d, role)
      BY <2>2, <2>3, <2>4
    <3>. QED
      BY <3>1 DEF KeptOn
  <2>5. Held(procs[p])'
    BY <2>1, <2>4 DEF Held
  <2>. QED
    BY <1>2, <1>3, <2>5
<1>. QED
  BY <1>1, <1>4, <1>5

\* Writing into a file keeps what was kept.
LEMMA WritingKeeps ==
    ASSUME Shaped, NEW p, Others(p), p \in Procs => ~(procs[p].pc = "cleans"), used' = used,
           NEW d \in Dirs, NEW f \in Contents, NEW v, FileSet(d, f, v), f \in Roles => v # NoFile
    PROVE  KeptOn
<1>1. \A e \in Dirs : Cleaning(e) => Cleaning(e)'
  BY CleaningStays
<1>2. /\ There' = There
      /\ \A e \in Dirs : e # d => packages'[e] = packages[e]
      /\ packages'[d][f] = v
      /\ \A g \in Contents : g # f => packages'[d][g] = packages[d][g]
  BY FileSetTypes
<1>3. \A e \in Dirs : packages'[e].there <=> packages[e].there
  BY <1>2 DEF There
<1>4. ASSUME NEW e \in Dirs, NEW role \in Roles, packages[e][role] # NoFile
      PROVE  packages'[e][role] # NoFile
  <2>1. role \in Contents
    BY DEF Roles, Contents
  <2>. QED
    BY <1>2, <1>4, <2>1
<1>. QED
  BY <1>1, <1>3, <1>4, KeptStays

\* A script that was there, or is in somebody's hands, is written over.
LEMMA NeatOverwritten ==
    ASSUME Shaped, Neat, NEW p, Others(p), used' = used,
           NEW d \in Dirs, NEW role \in Roles, NEW v, FileSet(d, role, v), v # NoFile,
           packages[d].there, packages[d][role] # NoFile \/ Cleaning(d),
           p \in Procs => Held(procs[p])' /\ ~Owner(procs[p]) /\ ~Owner(procs'[p])
    PROVE  Neat'
<1>1. role \in Contents /\ role # "manifest"
  BY DEF Roles, Contents
<1>2. /\ packages' \in [Dirs -> Packages]
      /\ There' = There
      /\ \A e \in Dirs : e # d => packages'[e] = packages[e]
      /\ packages'[d][role] = v
      /\ \A g \in Contents : g # role => packages'[d][g] = packages[d][g]
  BY <1>1, FileSetTypes
<1>3. KeptOn
  BY <1>1, WritingKeeps DEF Owner
<1>4. packages'[d].there
  BY <1>2 DEF There
<1>5. packages'[d].manifest = packages[d].manifest
  BY <1>1, <1>2 DEF Contents
<1>6. ASSUME packages[d][role] # NoFile, NEW r \in Roles
      PROVE  packages'[d][r] = NoFile <=> packages[d][r] = NoFile
  <2>1. r \in Contents
    BY DEF Roles, Contents
  <2>. QED
    BY <1>2, <1>6, <2>1
<1>7. ASSUME Cleaning(d) PROVE Owned(d)
  BY <1>7 DEF Cleaning, Owned, Owner
<1>8. ASSUME Owned(d) PROVE Owned(d)'
  <2>1. PICK q \in Procs : Owner(procs[q]) /\ procs[q].dir = d
    BY <1>8 DEF Owned
  <2>2. q # p /\ procs'[q] = procs[q]
    BY <2>1 DEF Others
  <2>. QED
    BY <2>1, <2>2 DEF Owned, Owner
<1>9. Whole(d)' \/ Owned(d)'
  <2>1. CASE Owned(d)
    BY <1>8, <2>1
  <2>2. CASE Whole(d) /\ packages[d][role] # NoFile
    <3>1. Whole(d)'
      BY <1>5, <1>6, <2>2 DEF Whole, Fits, Roles
    <3>. QED
      BY <3>1
  <2>3. Whole(d) \/ Owned(d)
    BY DEF Neat
  <2>. QED
    BY <1>7, <2>1, <2>2, <2>3
<1>10. ASSUME NEW q \in Procs, q # p, procs[q] \in Makes, procs[q].dir = d PROVE HalfMade(procs[q])'
  <2>1. procs'[q] = procs[q] /\ HalfMade(procs[q])
    BY <1>10 DEF Others, Neat, Held
  <2>2. ~Cleaning(d)
    <3> SUFFICES ASSUME Cleaning(d) PROVE FALSE
      OBVIOUS
    <3>1. PICK c \in Procs : procs[c].pc = "cleans" /\ procs[c].dir = d
      BY DEF Cleaning
    <3>2. Owner(procs[c]) /\ Owner(procs[q]) /\ procs[q].pc # "cleans"
      BY <1>10, <3>1, Places DEF Owner
    <3>3. c = q
      BY <1>10, <3>1, <3>2 DEF Neat
    <3>. QED
      BY <3>1, <3>2, <3>3
  <2>3. \A r \in Roles : packages'[d][r] = NoFile <=> packages[d][r] = NoFile
    BY <1>6, <2>2
  <2>. QED
    BY <1>4, <1>5, <1>10, <2>1, <2>3 DEF HalfMade, Fits, Roles
<1>11. \A e \in Dirs : packages'[e] # packages[e] => e = d
  BY <1>2
<1>12. Numbered'
  BY DEF Neat, Numbered
<1>. QED
  BY <1>3, <1>4, <1>9, <1>10, <1>11, <1>12, NeatAfter

\* new makes a directory under an id in its turn, and nobody else's.
LEMMA NeatMade ==
    ASSUME Shaped, Neat, NEW p \in Procs, MakesPackage(p)
    PROVE  Neat'
<1>1. PICK d \in NextId : /\ packages' = [packages EXCEPT ![d].there = TRUE]
                          /\ used' = used \cup {d}
                          /\ Begins(procs[p], procs'[p], d)
  BY MakeGoes
<1>2. /\ d \in Dirs \ used /\ NameId[d] = d
      /\ \A e \in Dirs \ used : NameId[e] = e => d <= e
  BY FreeIs
<1>3. /\ packages \in [Dirs -> Packages] /\ There \subseteq used /\ used \subseteq Dirs
      /\ Others(p) /\ procs'[p] \in Makes
  BY ShapedSays, MakeGoes DEF TreeTypes, Goes
<1> DEFINE w == procs[p]
           x == procs'[p]
<1>4. /\ w \in Loads /\ w.pc = "new" /\ x.pc = "opens" /\ x.dir = d /\ x.file = "manifest"
      /\ x.manifest.id = d /\ x.manifest.depends \subseteq {m.id : m \in w.graph}
      /\ x.manifest \in Manifests
  BY <1>1, <1>3 DEF Begins, Makes
<1>5. ~Owner(w) /\ Owner(x)
  BY <1>4 DEF Owner
<1>6. packages[d] = NoPackage
  BY <1>2, <1>3 DEF There, Neat
<1>7. /\ packages'[d].there /\ packages'[d].revert = NoFile
      /\ \A e \in Dirs : e # d => packages'[e] = packages[e]
  BY <1>1, <1>2, <1>3, <1>6 DEF NoPackage, Packages
<1>8. Numbered'
  <2>1. \A u \in used : NameId[u] = u /\ \A e \in Dirs : NameId[e] = e /\ e < u => e \in used
    BY DEF Neat, Numbered
  <2>2. ASSUME NEW e \in Dirs, NameId[e] = e, e < d PROVE e \in used
    BY <1>2, <2>2, DirsAreNumbers DEF Shaped
  <2>. QED
    BY <1>1, <1>2, <2>1, <2>2 DEF Numbered
<1>9. KeptOn
  <2>1. \A e \in Dirs : Cleaning(e) => Cleaning(e)'
    BY <1>3, <1>5, CleaningStays DEF Owner
  <2>. QED
    BY <1>1, <1>2, <1>7, <2>1, KeptStays
<1>10. Fits(procs[p].manifest, d)'
  <2>1. ASSUME NEW e \in x.manifest.depends PROVE e < d /\ e \in used
    <3>1. e \in used /\ e \in Dirs
      BY <1>3, <1>4 DEF Neat, Held
    <3>2. NameId[e] = e /\ (d < e => d \in used)
      BY <1>2, <3>1 DEF Neat, Numbered
    <3>3. e \in Nat /\ d \in Nat /\ e # d
      BY <1>2, <3>1, DirsAreNumbers DEF Shaped
    <3>. QED
      BY <1>2, <3>1, <3>2, <3>3
  <2>. QED
    BY <1>1, <1>4, <2>1 DEF Fits
<1>11. Held(procs[p])'
  <2>1. x \notin Loads /\ x \notin Formats
    BY <1>3, Places
  <2>2. HalfMade(procs[p])'
    BY <1>4, <1>7, <1>10 DEF HalfMade, Fits
  <2>. QED
    BY <2>1, <2>2 DEF Held
<1>12. Owned(d)'
  BY <1>4, <1>5 DEF Owned, Owner
<1>13. ASSUME NEW q \in Procs, procs[q] \in Makes PROVE procs[q].dir # d
  <2>1. Owner(procs[q])
    BY <1>13, Places DEF Owner
  <2>. QED
    BY <1>2, <2>1 DEF Neat
<1>14. \A e \in Dirs : packages'[e] # packages[e] => e = d
  BY <1>7
<1>. QED
  BY <1>1, <1>2, <1>3, <1>4, <1>5, <1>7, <1>8, <1>9, <1>11, <1>12, <1>13, <1>14, NeatAfter

\* A file of a package in the making is written: nobody else has a hand in it.
LEMMA MakingIsAlone ==
    ASSUME Neat, NEW p \in Procs, Owner(procs[p])
    PROVE  \A q \in Procs : q # p /\ procs[q] \in Makes => procs[q].dir # procs[p].dir
<1> SUFFICES ASSUME NEW q \in Procs, q # p, procs[q] \in Makes, procs[q].dir = procs[p].dir PROVE FALSE
  OBVIOUS
<1>1. Owner(procs[q])
  BY Places DEF Owner
<1>. QED
  BY <1>1 DEF Neat

\* Creating its files leaves the package in its hands.
LEMMA NeatOpened ==
    ASSUME Shaped, Neat, NEW p \in Procs, NewOpens(p)
    PROVE  Neat'
<1> DEFINE w == procs[p]
<1>1. /\ UNCHANGED used /\ w \in Makes /\ w.pc = "opens"
      /\ packages' = [packages EXCEPT ![w.dir][w.file] = Cut]
      /\ Others(p) /\ procs'[p] \in Makes
      /\ procs'[p] = [w EXCEPT !.pc = "fills"]
  BY OpenGoes DEF Goes
<1>2. /\ w.dir \in Dirs /\ w.file \in Contents
      /\ procs'[p].pc = "fills" /\ procs'[p].dir = w.dir /\ procs'[p].file = w.file
      /\ procs'[p].manifest = w.manifest
  BY <1>1 DEF Makes
<1>3. Owner(w) /\ Owner(procs'[p])
  BY <1>1, <1>2 DEF Owner
<1>4. FileSet(w.dir, w.file, Cut)
  BY <1>1 DEF FileSet
<1>5. /\ There' = There
      /\ \A e \in Dirs : e # w.dir => packages'[e] = packages[e]
      /\ \A g \in Contents : g # w.file => packages'[w.dir][g] = packages[w.dir][g]
  BY <1>2, <1>4, FileSetTypes
<1>6. HalfMade(w) /\ w.dir \in used
  BY <1>1, <1>3 DEF Neat, Held
<1>7. packages[w.dir].there /\ packages'[w.dir].there
  BY <1>2, <1>5, <1>6 DEF HalfMade, There
<1>8. HalfMade(procs[p])'
  <2>1. /\ w.file # "manifest" => packages'[w.dir].manifest = packages[w.dir].manifest
        /\ w.file # "deploy" => packages'[w.dir].deploy = packages[w.dir].deploy
        /\ w.file # "revert" => packages'[w.dir].revert = packages[w.dir].revert
    BY <1>5 DEF Contents
  <2>. QED
    BY <1>1, <1>2, <1>6, <1>7, <2>1 DEF HalfMade, Fits
<1>9. Held(procs[p])'
  <2>1. procs'[p] \notin Loads /\ procs'[p] \notin Formats
    BY <1>1, Places
  <2>. QED
    BY <1>8, <2>1 DEF Held
<1>10. KeptOn
  BY <1>1, <1>2, <1>4, WritingKeeps, Distinctness DEF Shaped
<1>11. \A d \in Dirs : d = w.dir => Owned(d)'
  BY <1>2, <1>3 DEF Owned, Owner
<1>12. Numbered'
  BY <1>1 DEF Neat, Numbered
<1>13. \A q \in Procs : q # p /\ procs[q] \in Makes => procs[q].dir # w.dir
  BY <1>3, MakingIsAlone
<1>14. \A d \in Dirs : packages'[d] # packages[d] => d = w.dir
  BY <1>5
<1>15. \A d \in Dirs : packages'[d] # packages[d] =>
          /\ packages'[d].there \/ packages'[d] = NoPackage
          /\ packages'[d].there => Whole(d)' \/ Owned(d)'
          /\ \A q \in Procs : q # p /\ procs[q] \in Makes /\ procs[q].dir = d => HalfMade(procs[q])'
  BY <1>7, <1>11, <1>13, <1>14
<1>. QED
  BY <1>1, <1>2, <1>3, <1>6, <1>9, <1>10, <1>12, <1>15, NeatAfter

\* The last file it writes makes the package whole.
LEMMA NeatFilled ==
    ASSUME Shaped, Neat, NEW p \in Procs, NewFills(p)
    PROVE  Neat'
<1> DEFINE w == procs[p]
           v == IF w.file = "manifest" THEN w.manifest ELSE Template
           next == NextFile(w.manifest, w.file)
<1>1. /\ UNCHANGED used /\ w \in Makes /\ w.pc = "fills"
      /\ packages' = [packages EXCEPT ![w.dir][w.file] = v]
      /\ Others(p) /\ procs'[p] \in Idles \cup Makes
      /\ Fills(w, procs'[p])
  BY FillGoes DEF Goes
<1>2. w.dir \in Dirs /\ w.file \in Contents /\ w.manifest \in Manifests
  BY <1>1 DEF Makes
<1>3. Owner(w)
  BY <1>1 DEF Owner
<1>4. FileSet(w.dir, w.file, v) /\ (w.file \in Roles => v # NoFile)
  BY <1>1, <1>2, Distinctness DEF FileSet, Shaped, Roles
<1>5. /\ There' = There
      /\ \A e \in Dirs : e # w.dir => packages'[e] = packages[e]
      /\ packages'[w.dir][w.file] = v
      /\ \A g \in Contents : g # w.file => packages'[w.dir][g] = packages[w.dir][g]
  BY <1>2, <1>4, FileSetTypes
<1>6. HalfMade(w) /\ w.dir \in used
  BY <1>1, <1>3 DEF Neat, Held
<1>7. packages[w.dir].there /\ packages'[w.dir].there
  BY <1>2, <1>5, <1>6 DEF HalfMade, There
<1>8. /\ w.file = "manifest" => packages'[w.dir].manifest = w.manifest
      /\ w.file # "manifest" => packages'[w.dir].manifest = packages[w.dir].manifest
      /\ w.file # "deploy" => packages'[w.dir].deploy = packages[w.dir].deploy
      /\ w.file # "revert" => packages'[w.dir].revert = packages[w.dir].revert
      /\ w.file = "deploy" => packages'[w.dir].deploy # NoFile
      /\ w.file = "revert" => packages'[w.dir].revert # NoFile
  BY <1>4, <1>5 DEF Contents, Roles
<1>9. KeptOn
  BY <1>1, <1>2, <1>4, WritingKeeps
<1>10. Numbered'
  BY <1>1 DEF Neat, Numbered
<1>11. \A q \in Procs : q # p /\ procs[q] \in Makes => procs[q].dir # w.dir
  BY <1>3, MakingIsAlone
<1>12. packages'[w.dir].manifest = w.manifest /\ Fits(w.manifest, w.dir)
  BY <1>6, <1>8 DEF HalfMade
<1>13. CASE next = "none"
  <2>1. procs'[p] \in Idles
    BY <1>1, <1>13 DEF Fills
  <2>2. ~Owner(procs'[p])
    BY <2>1, NotOwner
  <2>3. w.file = "revert" \/ (w.file = "deploy" /\ ~w.manifest.reversible)
    BY <1>2, <1>13 DEF NextFile, Contents
  <2>4. \A d \in Dirs : d = w.dir => Whole(d)'
    BY <1>1, <1>6, <1>8, <1>12, <2>3 DEF Whole, HalfMade, Fits
  <2>5. Held(procs[p])'
    BY <2>1, HeldByNobody
  <2>. QED
    BY <1>1, <1>5, <1>7, <1>9, <1>10, <1>11, <2>2, <2>4, <2>5, NeatAfter
<1>14. CASE next # "none"
  <2>1. /\ procs'[p] \in Makes /\ procs'[p].pc = "opens" /\ procs'[p].dir = w.dir
        /\ procs'[p].manifest = w.manifest /\ procs'[p].file = next
    BY <1>1, <1>14 DEF Fills
  <2>2. \/ w.file = "manifest" /\ next = "deploy"
        \/ w.file = "deploy" /\ w.manifest.reversible /\ next = "revert"
    BY <1>2, <1>14 DEF NextFile, Contents
  <2> HIDE DEF next
  <2>3. Owner(procs'[p])
    BY <2>1 DEF Owner
  <2>4. HalfMade(procs[p])'
    BY <1>1, <1>6, <1>7, <1>8, <1>12, <2>1, <2>2 DEF HalfMade, Fits
  <2>5. Held(procs[p])'
    <3>1. procs'[p] \notin Loads /\ procs'[p] \notin Formats
      BY <2>1, Places
    <3>. QED
      BY <2>4, <3>1 DEF Held
  <2>6. \A d \in Dirs : d = w.dir => Owned(d)'
    BY <2>1, <2>3 DEF Owned, Owner
  <2>. QED
    BY <1>1, <1>3, <1>5, <1>6, <1>7, <1>9, <1>10, <1>11, <2>1, <2>3, <2>5, <2>6, NeatAfter
<1>. QED
  BY <1>13, <1>14

\* A new that fails keeps the package in its hands.
LEMMA NeatFailed ==
    ASSUME Shaped, Neat, NEW p \in Procs, NewFails(p)
    PROVE  Neat'
<1> DEFINE w == procs[p]
<1>1. /\ UNCHANGED <<packages, used>> /\ w \in Makes
      /\ Others(p) /\ procs'[p] \in Cleans /\ procs'[p].dir = w.dir
  BY FailGoes DEF Goes, Still
<1>2. w.pc # "cleans" /\ Owner(w) /\ Owner(procs'[p])
  BY <1>1, Places DEF Owner
<1>3. w.dir \in used
  BY <1>2 DEF Neat
<1>4. KeptOn
  <2>1. \A d \in Dirs : Cleaning(d) => Cleaning(d)'
    BY <1>1, <1>2, CleaningStays
  <2>. QED
    BY <1>1, <2>1, KeptStays
<1>5. Held(procs[p])'
  BY <1>1, HeldByNobody
<1>6. Numbered'
  BY <1>1 DEF Neat, Numbered
<1>. QED
  BY <1>1, <1>2, <1>3, <1>4, <1>5, <1>6, NeatAfter

\* Until it is gone.
LEMMA NeatCleaned ==
    ASSUME Shaped, Neat, NEW p \in Procs, NewCleans(p)
    PROVE  Neat'
<1> DEFINE w == procs[p]
<1>1. /\ UNCHANGED used /\ w \in Cleans /\ w.dir \in Dirs /\ w.pc = "cleans" /\ Owner(w)
  BY CleanGoes DEF Cleans, Owner
<1>2. w.dir \in used /\ (packages[w.dir].there \/ packages[w.dir] = NoPackage)
  BY <1>1 DEF Neat
<1>3. Numbered'
  BY <1>1 DEF Neat, Numbered
<1>4. \A q \in Procs : q # p /\ procs[q] \in Makes => procs[q].dir # w.dir
  BY <1>1, MakingIsAlone
<1>5. packages \in [Dirs -> Packages] /\ procs \in [Procs -> States]
  BY ShapedSays DEF TreeTypes
<1>6. CASE packages' = [packages EXCEPT ![w.dir] = NoPackage] /\ Goes(p, Idles)
  <2>1. /\ packages'[w.dir] = NoPackage /\ ~packages'[w.dir].there
        /\ \A d \in Dirs : d # w.dir => packages'[d] = packages[d]
    BY <1>1, <1>5, <1>6 DEF NoPackage
  <2>2. Others(p) /\ procs'[p] \in Idles
    BY <1>6 DEF Goes
  <2>3. ~Owner(procs'[p]) /\ Held(procs[p])'
    BY <2>2, NotOwner, HeldByNobody
  <2>4. KeptOn
    <3>1. \A d \in Dirs : d # w.dir => (Cleaning(d) => Cleaning(d)')
      BY <2>2, CleaningStays
    <3>. QED
      BY <1>1, <2>1, <3>1, KeptStays
  <2>5. \A d \in Dirs : packages'[d] # packages[d] =>
          /\ packages'[d].there \/ packages'[d] = NoPackage
          /\ packages'[d].there => Whole(d)' \/ Owned(d)'
          /\ \A q \in Procs : q # p /\ procs[q] \in Makes /\ procs[q].dir = d => HalfMade(procs[q])'
    BY <1>4, <2>1
  <2>. QED
    BY <1>1, <1>3, <2>1, <2>2, <2>3, <2>4, <2>5, NeatAfter
<1>7. CASE \E f \in Contents : packages' = [packages EXCEPT ![w.dir][f] = NoFile] /\ UNCHANGED procs
  <2>1. PICK f \in Contents : packages' = [packages EXCEPT ![w.dir][f] = NoFile] /\ UNCHANGED procs
    BY <1>7
  <2>2. FileSet(w.dir, f, NoFile)
    BY <2>1 DEF FileSet
  <2>3. /\ There' = There
        /\ \A d \in Dirs : d # w.dir => packages'[d] = packages[d]
    BY <1>1, <2>2, FileSetTypes
  <2>4. Others(p) /\ procs'[p] = w /\ Owner(procs'[p])
    BY <1>1, <2>1 DEF Others
  <2>5. packages'[w.dir].there \/ packages'[w.dir] = NoPackage
    <3>1. CASE packages[w.dir].there
      BY <1>1, <2>3, <3>1 DEF There
    <3>2. CASE packages[w.dir] = NoPackage
      <4>1. packages'[w.dir] = [NoPackage EXCEPT ![f] = NoFile]
        BY <1>1, <1>5, <2>1, <3>2
      <4>2. f = "manifest" \/ f = "deploy" \/ f = "revert"
        BY <2>1 DEF Contents
      <4>. QED
        BY <4>1, <4>2 DEF NoPackage
    <3>. QED
      BY <1>2, <3>1, <3>2
  <2>6. KeptOn
    <3>1. \A d \in Dirs : Cleaning(d) => Cleaning(d)'
      BY <2>1 DEF Cleaning
    <3>2. \A d \in Dirs : d = w.dir => Cleaning(d)'
      BY <1>1, <2>1 DEF Cleaning
    <3>3. \A d \in Dirs : ~packages[d].there => ~packages'[d].there
      BY <1>5, <2>3 DEF There
    <3>. QED
      BY <1>1, <2>3, <3>1, <3>2, <3>3, KeptStays
  <2>7. Held(procs[p])'
    BY <1>1, <2>4, HeldByNobody
  <2>8. \A d \in Dirs : d = w.dir => Owned(d)'
    BY <2>4 DEF Owned, Owner
  <2>9. \A d \in Dirs : packages'[d] # packages[d] =>
          /\ packages'[d].there \/ packages'[d] = NoPackage
          /\ packages'[d].there => Whole(d)' \/ Owned(d)'
          /\ \A q \in Procs : q # p /\ procs[q] \in Makes /\ procs[q].dir = d => HalfMade(procs[q])'
    BY <1>4, <2>3, <2>5, <2>8
  <2>. QED
    BY <1>1, <1>2, <1>3, <2>4, <2>6, <2>7, <2>9, NeatAfter
<1>. QED
  BY <1>6, <1>7, CleanGoes

\* What format writes takes no script away.
LEMMA NeatFormatted ==
    ASSUME Shaped, LearnedAll, Neat, NEW p \in Procs, FormatStep(p)
    PROVE  Neat'
<1>1. UNCHANGED used /\ Others(p)
  BY FormatGoes DEF Goes
<1>2. procs[p].pc \notin {"opens", "fills", "cleans"}
  BY DEF FormatStep, Selects, Reads, Judges, Writes, WriteFails, At
<1>3. CASE UNCHANGED packages
  <2>1. KeptOn
    <3>1. \A d \in Dirs : Cleaning(d) => Cleaning(d)'
      BY <1>1, <1>2, CleaningStays
    <3>. QED
      BY <1>1, <1>3, <3>1, KeptStays
  <2>. QED
    BY <1>1, <1>3, <2>1, FormatHeld, NeatStill
<1>4. CASE \E f \in Files, r \in Found : Rewrites(procs[p], f, r)
  <2>1. PICK f \in Files, r \in Found : Rewrites(procs[p], f, r)
    BY <1>4
  <2>2. /\ procs[p] \in Formats /\ f \in procs[p].todo /\ packages[f[1]].there
        /\ packages' = [packages EXCEPT ![f[1]][f[2]] = Formatted(r.text)]
    BY <2>1 DEF Rewrites
  <2>3. /\ f[1] \in Dirs /\ f[2] \in Roles /\ f[2] \in Contents /\ f[2] # "manifest" /\ f = <<f[1], f[2]>>
        /\ Formatted(r.text) \in Texts \cup {Cut}
    BY TextTypes DEF Found
  <2>4. FileSet(f[1], f[2], Formatted(r.text)) /\ Formatted(r.text) # NoFile
    BY <2>2, <2>3, Distinctness DEF FileSet, Shaped
  <2>5. KeptOn
    BY <1>1, <1>2, <2>3, <2>4, WritingKeeps
  <2>6. Kept(f[1], f[2])
    BY <2>2, <2>3 DEF Neat, Held
  <2>7. packages[f[1]][f[2]] # NoFile \/ Cleaning(f[1])
    BY <2>2, <2>6 DEF Kept
  <2>. QED
    BY <1>1, <2>2, <2>3, <2>4, <2>5, <2>7, FormatHeld, NeatOverwritten
<1>. QED
  BY <1>3, <1>4, FormatGoes

\* As long as nothing is spoilt, every step leaves a tidy tree.
LEMMA TidyKept ==
    ASSUME Shaped, LearnedAll, Tidy, [CheckoutNext]_checkoutVars
    PROVE  Tidy'
<1> SUFFICES ASSUME spoilt' = {} PROVE Neat'
  BY DEF Tidy
<1>1. ASSUME spoilt \subseteq spoilt' PROVE Neat
  BY <1>1 DEF Tidy
<1>2. ASSUME NEW p \in Procs, NEW c \in {"init", "new", "format", "other"}, Start(p, c) PROVE Neat'
  <2>1. UNCHANGED <<packages, used, spoilt>> /\ Others(p) /\ procs'[p] \in Starts /\ procs[p].pc = "idle"
    BY <1>2, StartGoes DEF Goes
  <2>2. ~Owner(procs[p]) /\ ~Owner(procs'[p]) /\ Held(procs[p])'
    BY <2>1, NotOwner, HeldByNobody DEF Owner
  <2>. QED
    BY <1>1, <2>1, <2>2, NeatStill
<1>3. ASSUME NEW p \in Procs, InitStep(p) PROVE Neat'
  <2>1. UNCHANGED <<packages, used>> /\ spoilt \subseteq spoilt' /\ Others(p)
        /\ procs'[p] \in Idles \cup Inits
    BY <1>3, InitGoes DEF Goes
  <2>2. ~Owner(procs[p])
    BY <1>3 DEF InitStep, InitChecks, InitLooksAgain, InitOpensConfig, InitFillsConfig, InitMakesFolder,
                InitKeepsFolder, InitEnds, InitFails, At, Folders, Owner
  <2>3. ~Owner(procs'[p]) /\ Held(procs[p])'
    BY <2>1, NotOwner, HeldByNobody
  <2>. QED
    BY <1>1, <2>1, <2>2, <2>3, NeatStill
<1>4. ASSUME NEW p \in Procs, LoadStep(p) PROVE Neat'
  <2>1. UNCHANGED <<packages, used, spoilt>> /\ Others(p)
    BY <1>4, LoadGoes DEF Goes, Still
  <2>. QED
    BY <1>1, <1>4, <2>1, LoadHeld, NeatStill
<1>5. ASSUME NEW p \in Procs, MakesPackage(p) PROVE Neat'
  BY <1>1, <1>5, MakeGoes, NeatMade
<1>6. ASSUME NEW p \in Procs, NewOpens(p) PROVE Neat'
  BY <1>1, <1>6, OpenGoes, NeatOpened
<1>7. ASSUME NEW p \in Procs, NewFills(p) PROVE Neat'
  BY <1>1, <1>7, FillGoes, NeatFilled
<1>8. ASSUME NEW p \in Procs, NewFails(p) PROVE Neat'
  BY <1>1, <1>8, FailGoes, NeatFailed DEF Still
<1>9. ASSUME NEW p \in Procs, NewCleans(p) PROVE Neat'
  BY <1>1, <1>9, CleanGoes, NeatCleaned
<1>10. ASSUME NEW p \in Procs, NewGivesUp(p) PROVE Neat'
  BY <1>10, GiveUpGoes
<1>11. ASSUME NEW p \in Procs, FormatStep(p) PROVE Neat'
  BY <1>1, <1>11, FormatGoes, NeatFormatted
<1>12. ASSUME NEW p \in Procs, Dies(p) PROVE Neat'
  <2>1. UNCHANGED <<packages, used>> /\ Others(p) /\ procs'[p] \in Idles /\ spoilt \subseteq spoilt'
        /\ ~Owner(procs[p])
    BY <1>12, DieGoes DEF Goes
  <2>2. ~Owner(procs'[p]) /\ Held(procs[p])'
    BY <2>1, NotOwner, HeldByNobody
  <2>. QED
    BY <1>1, <2>1, <2>2, NeatStill
<1>13. ASSUME NEW f \in Files, NEW t \in Texts, Saves(f, t) PROVE Neat'
  <2>1. /\ UNCHANGED <<used, procs, spoilt>> /\ packages[f[1]][f[2]] # NoFile
        /\ packages' = [packages EXCEPT ![f[1]][f[2]] = t]
    BY <1>13, SavesGoes DEF Sql
  <2>2. f[1] \in Dirs /\ f[2] \in Roles /\ f[2] # "manifest"
    BY TextTypes
  <2>3. FileSet(f[1], f[2], t) /\ t # NoFile
    BY <2>1, <2>2, Distinctness DEF FileSet, Shaped
  <2>4. packages[f[1]].there
    BY <1>1, <2>1, <2>2 DEF Neat, NoPackage, Roles
  <2>5. Others(NoFile) /\ NoFile \notin Procs
    BY <2>1, Distinctness DEF Others, Shaped
  <2>. QED
    BY <1>1, <2>1, <2>2, <2>3, <2>4, <2>5, NeatOverwritten
<1>14. ASSUME NEW d \in Dirs, Edits(d) PROVE Neat'
  BY <1>14, EditsGoes
<1>15. ASSUME NEW d \in Dirs, NEW e \in Dirs, Copies(d, e) PROVE Neat'
  BY <1>15, CopiesGoes
<1>16. CASE UNCHANGED checkoutVars
  BY <1>1, <1>16 DEF checkoutVars, tree, Neat, Numbered, Held, HalfMade, Fits, Kept, Cleaning, Owned, Owner, Whole
<1>. QED
  BY <1>2, <1>3, <1>4, <1>5, <1>6, <1>7, <1>8, <1>9, <1>10, <1>11, <1>12, <1>13, <1>14, <1>15, <1>16
     DEF CheckoutNext, NewStep

(***************************************************************************)
(* At first.                                                               *)
(***************************************************************************)

\* The first tree is tidy.
LEMMA FirstTidy == Setting /\ CheckoutInit => Tidy
<1> SUFFICES ASSUME Setting, CheckoutInit PROVE Neat
  BY DEF Tidy
<1>1. packages \in [Dirs -> Packages] /\ used = There /\ There \subseteq Dirs
  BY FirstTree DEF TreeTypes, There
<1>2. \A p \in Procs : procs[p] \in Idles
  BY DEF CheckoutInit, Idle, Idles, Outcomes
<1>3. \A p \in Procs : Held(procs[p]) /\ ~Owner(procs[p])
  BY <1>2, Places DEF Held, Owner
<1>4. \A d \in Dirs : packages[d].there => d = 1 /\ Whole(d)
  <2> SUFFICES ASSUME NEW d \in Dirs, packages[d].there PROVE d = 1 /\ Whole(d)
    OBVIOUS
  <2>1. packages[d] # NoPackage
    BY DEF NoPackage
  <2>2. PICK text \in Texts, reversible \in BOOLEAN : d = 1 /\ packages[d] = FirstPackage(text, reversible)
    BY <2>1, FirstTree
  <2>3. text # NoFile
    BY Distinctness
  <2>4. packages[d].manifest = [id |-> 1, depends |-> {}, reversible |-> reversible]
        /\ packages[d].deploy = text /\ packages[d].revert = IF reversible THEN text ELSE NoFile
    BY <2>2 DEF FirstPackage
  <2>5. Fits(packages[d].manifest, d)
    BY <2>2, <2>4 DEF Fits, Manifests
  <2>. QED
    BY <2>2, <2>3, <2>4, <2>5 DEF Whole
<1>5. Numbered
  <2>1. \A u \in used : u = 1 /\ u \in Dirs
    BY <1>1, <1>4 DEF There
  <2>2. 1 \in Dirs => NameId[1] = 1
    <3>1. 1 \in Dirs => NameId[1] \in Dirs /\ NameId[1] <= 1
      BY DEF Setting
    <3>. QED
      BY <3>1, DirsAreNumbers
  <2>3. \A d \in Dirs : ~(d < 1)
    BY DirsAreNumbers
  <2>. QED
    BY <2>1, <2>2, <2>3 DEF Numbered
<1>6. \A d \in Dirs : packages[d].there \/ packages[d] = NoPackage
  <2>1. \A text, reversible : FirstPackage(text, reversible).there
    BY DEF FirstPackage
  <2>. QED
    BY <2>1, FirstTree
<1>. QED
  BY <1>3, <1>4, <1>5, <1>6 DEF Neat

(***************************************************************************)
(* A tidy tree can be loaded: a migration came after those it depends on, so *)
(* that the oldest of any set of them depends on none of the set.          *)
(***************************************************************************)

\* Of manifests there is one with the least id.
LEMMA LeastManifestIs ==
    ASSUME Setting, NEW part \in SUBSET Manifests, part # {}
    PROVE  \E m \in part : \A o \in part : m.id <= o.id
<1> DEFINE ids == {m.id : m \in part}
<1>1. ids \subseteq Dirs /\ ids # {}
  BY DEF Manifests
<1>2. Least(ids) \in ids /\ \A e \in ids : Least(ids) <= e
  BY <1>1, LeastIs
<1>. QED
  BY <1>2

\* At first there is a project, or no package.
LEMMA FirstConfig == Setting /\ CheckoutInit => ConfigKnown
<1> SUFFICES ASSUME Setting, CheckoutInit PROVE ConfigKnown
  OBVIOUS
<1>1. PICK project, migration, reversible \in BOOLEAN, text \in Texts :
          /\ migration => project
          /\ config = IF project THEN "given" ELSE NoFile
          /\ folders = [f \in Folders |-> IF project THEN "kept" ELSE "absent"]
          /\ packages =
                [d \in Dirs |->
                    IF migration /\ d = 1
                    THEN [there |-> TRUE, deploy |-> text,
                          manifest |-> [id |-> 1, depends |-> {}, reversible |-> reversible],
                          revert |-> IF reversible THEN text ELSE NoFile]
                    ELSE NoPackage]
  BY Zenon DEF CheckoutInit
<1>2. config # Cut /\ (config = NoFile => ~migration)
  BY <1>1, Distinctness
<1>3. ~migration => There = {}
  BY <1>1 DEF There, NoPackage
<1>4. \A p \in Procs : ~Loaded(procs[p])
  BY DEF CheckoutInit, Idle, Loaded
<1>. QED
  BY <1>2, <1>3, <1>4 DEF ConfigKnown

\* A process that was not writing the configuration, or has spoilt it, explains
\* nothing that it leaves.
LEMMA ConfigStands ==
    ASSUME ConfigKnown, NEW p \in Procs, Others(p), UNCHANGED config, spoilt \subseteq spoilt',
           procs[p].pc = "fill" => Root \in spoilt',
           config = NoFile => There' = {} /\ ~Loaded(procs'[p])
    PROVE  ConfigKnown'
<1>1. ASSUME config' = Cut PROVE Root \in spoilt' \/ \E q \in Procs : procs'[q].pc = "fill"
  BY <1>1 DEF ConfigKnown, Others
<1>2. ASSUME config' = NoFile, NEW q \in Procs PROVE ~Loaded(procs'[q])
  BY <1>2 DEF ConfigKnown, Others
<1>. QED
  BY <1>1, <1>2 DEF ConfigKnown, Loaded

\* Every step leaves it so.
LEMMA ConfigKept ==
    ASSUME Shaped, ConfigKnown, [CheckoutNext]_checkoutVars
    PROVE  ConfigKnown'
<1>1. /\ NoFile # Cut /\ NoFile \notin Procs /\ Cut \notin Procs
      /\ procs \in [Procs -> States]
  BY Distinctness, ShapedSays DEF Shaped
<1>2. \A w : w \in Idles \cup Starts \cup Inits => ~Loaded(w)
  BY Places DEF Loaded
<1>3. ASSUME NEW p \in Procs, NEW c \in {"init", "new", "format", "other"}, Start(p, c)
      PROVE  ConfigKnown'
  <2>1. /\ UNCHANGED <<config, packages, spoilt>> /\ Others(p)
        /\ procs'[p] \in Starts /\ procs[p].pc = "idle"
    BY <1>3, StartGoes DEF Goes
  <2>. QED
    BY <1>2, <2>1, ConfigStands DEF ConfigKnown, There
<1>4. ASSUME NEW p \in Procs, InitStep(p) PROVE ConfigKnown'
  <2>1. /\ UNCHANGED packages /\ spoilt \subseteq spoilt' /\ Others(p)
        /\ procs'[p] \in Idles \cup Inits
        /\ config # NoFile => config' # NoFile
        /\ config' # config => procs[p].pc \in {"open", "fill"}
        /\ procs[p].pc = "fill" => Root \in spoilt' \/ config' = p
        /\ config' = Cut => config = Cut \/ procs'[p].pc = "fill"
    BY <1>4, InitGoes, InitConfigs DEF Goes
  <2>2. ASSUME config' = NoFile PROVE There' = {} /\ \A q \in Procs : ~Loaded(procs'[q])
    BY <1>2, <2>1, <2>2 DEF ConfigKnown, There, Others
  <2>3. ASSUME config' = Cut PROVE Root \in spoilt' \/ \E q \in Procs : procs'[q].pc = "fill"
    <3>1. CASE procs'[p].pc = "fill"
      BY <3>1
    <3>2. CASE procs'[p].pc # "fill"
      <4>1. config = Cut /\ (procs[p].pc = "fill" => Root \in spoilt')
        BY <1>1, <2>1, <2>3, <3>2
      <4>. QED
        BY <2>1, <4>1 DEF ConfigKnown, Others
    <3>. QED
      BY <3>1, <3>2
  <2>. QED
    BY <2>2, <2>3 DEF ConfigKnown, Loaded
<1>5. ASSUME NEW p \in Procs, LoadStep(p) PROVE ConfigKnown'
  <2>1. Still /\ Others(p) /\ procs'[p] \in Idles \cup Loads
    BY <1>5, LoadGoes DEF Goes
  <2>2. procs[p].pc # "fill"
    BY <1>5 DEF LoadStep, LoadsConfig, ReadsManifest, ReadsDeploy, ReadsRevert, BuildsGraph, GivesUp, At
  <2>3. ASSUME config = NoFile PROVE procs'[p] \in Idles
    <3>1. procs[p].pc = "config"
      BY <1>5, <2>3 DEF LoadStep, LoadsConfig, ReadsManifest, ReadsDeploy, ReadsRevert, BuildsGraph,
                        GivesUp, At, ConfigKnown, Loaded
    <3>2. Ends(p, "refused")
      BY <1>5, <2>3, <3>1 DEF LoadStep, LoadsConfig, ReadsManifest, ReadsDeploy, ReadsRevert,
                              BuildsGraph, GivesUp, At
    <3>. QED
      BY <3>2, EndsIdle, Parts DEF Goes
  <2>. QED
    BY <1>2, <2>1, <2>2, <2>3, ConfigStands DEF ConfigKnown, There, Still
<1>6. ASSUME NEW p \in Procs, Loaded(procs[p]), UNCHANGED config, spoilt \subseteq spoilt', Others(p)
      PROVE  ConfigKnown'
  <2>1. config # NoFile /\ procs[p].pc # "fill"
    BY <1>6 DEF ConfigKnown, Loaded
  <2>. QED
    BY <1>6, <2>1, ConfigStands
<1>7. ASSUME NEW p \in Procs, NewStep(p) PROVE ConfigKnown'
  <2>1. Loaded(procs[p])
    BY <1>7 DEF NewStep, MakesPackage, NewOpens, NewFills, NewFails, NewCleans, NewGivesUp, At, Loaded
  <2>2. UNCHANGED config /\ spoilt \subseteq spoilt'
    BY <1>7 DEF NewStep, MakesPackage, NewOpens, NewFills, NewFails, NewCleans, NewGivesUp, tree
  <2>3. Others(p)
    BY <1>1, <1>7 DEF NewStep, MakesPackage, NewOpens, NewFills, NewFails, NewCleans, NewGivesUp, Ends,
                      Becomes, Others
  <2>. QED
    BY <1>6, <2>1, <2>2, <2>3
<1>8. ASSUME NEW p \in Procs, FormatStep(p) PROVE ConfigKnown'
  <2>1. Loaded(procs[p])
    BY <1>8 DEF FormatStep, Selects, Reads, Judges, Writes, WriteFails, At, Loaded
  <2>2. UNCHANGED config /\ spoilt \subseteq spoilt'
    BY <1>8 DEF FormatStep, Selects, Reads, Judges, Writes, WriteFails, tree
  <2>3. Others(p)
    BY <1>8, FormatGoes DEF Goes
  <2>. QED
    BY <1>6, <2>1, <2>2, <2>3
<1>9. ASSUME NEW p \in Procs, Dies(p) PROVE ConfigKnown'
  <2>1. /\ UNCHANGED <<config, packages>> /\ Others(p) /\ procs'[p] \in Idles
        /\ spoilt \subseteq spoilt' /\ (procs[p].pc = "fill" => Root \in spoilt')
    BY <1>9, DieGoes DEF Goes
  <2>. QED
    BY <1>2, <2>1, ConfigStands DEF ConfigKnown, There
<1>10. ASSUME UNCHANGED <<config, procs>>, spoilt \subseteq spoilt', There' = There \/ There # {}
       PROVE  ConfigKnown'
  BY <1>10 DEF ConfigKnown, Loaded
<1>11. ASSUME NEW f \in Files, NEW text \in Texts, Saves(f, text) PROVE ConfigKnown'
  <2>1. f[1] \in Dirs /\ f[2] \in Contents /\ f[2] # "manifest"
    BY TextTypes
  <2>2. FileSet(f[1], f[2], text)
    BY <1>11, <2>1, SavesGoes DEF FileSet
  <2>3. There' = There
    BY <2>1, <2>2, FileSetTypes
  <2>. QED
    BY <1>10, <1>11, <2>3, SavesGoes
<1>12. ASSUME NEW d \in Dirs, Edits(d) PROVE ConfigKnown'
  <2>1. PICK f \in Contents, v \in Manifests \cup {NoFile, Cut} :
           packages' = [packages EXCEPT ![d][f] = v] /\ (f # "manifest" => v = NoFile)
    BY <1>12, EditsGoes
  <2>2. FileSet(d, f, v)
    BY <2>1 DEF FileSet
  <2>3. There' = There
    BY <2>2, FileSetTypes
  <2>. QED
    BY <1>10, <1>12, <2>3, EditsGoes
<1>13. ASSUME NEW d \in Dirs, NEW e \in Dirs, Copies(d, e) PROVE ConfigKnown'
  BY <1>10, <1>13, CopiesGoes DEF There
<1>14. CASE UNCHANGED checkoutVars
  BY <1>10, <1>14 DEF checkoutVars, tree, There
<1>. QED
  BY <1>3, <1>4, <1>5, <1>7, <1>8, <1>9, <1>11, <1>12, <1>13, <1>14 DEF CheckoutNext

\* Whole packages can be loaded, unless one of them names a migration that is not there any more.
LEMMA WholePackagesLoad ==
    ASSUME Shaped, Numbered, \A d \in There : Whole(d), config \notin {NoFile, Cut}
    PROVE  \/ Loadable
           \/ \E d \in There : /\ packages[d].manifest \in Manifests
                               /\ packages[d].manifest.depends \cap (used \ There) # {}
<1> DEFINE loaded == {packages[d].manifest : d \in There}
<1>1. There \subseteq Dirs /\ There \subseteq used /\ Dirs \subseteq Nat
  BY ShapedSays, DirsAreNumbers DEF TreeTypes, There, Shaped
<1>2. \A d \in There : /\ packages[d].manifest \in Manifests /\ packages[d].manifest.id = d
                       /\ \A e \in packages[d].manifest.depends : e < d /\ e \in used
  BY DEF Whole, Fits
<1>3. \A d \in There : PackageValid(d)
  <2> SUFFICES ASSUME NEW d \in There PROVE PackageValid(d)
    OBVIOUS
  <2>1. NameId[d] = d
    BY <1>1 DEF Numbered
  <2>2. d \notin packages[d].manifest.depends
    BY <1>1, <1>2
  <2>3. ManifestValid(packages[d].manifest)
    BY <1>2, <2>2 DEF ManifestValid
  <2>. QED
    BY <1>2, <2>1, <2>3 DEF PackageValid, Whole
<1>4. Distinct(There)
  BY <1>1 DEF Distinct, Numbered
<1>5. loaded \subseteq Manifests /\ \A m \in loaded : \A e \in m.depends : e < m.id
  BY <1>2
<1>6. \A part \in SUBSET loaded :
          part # {} => \E m \in part : m.depends \cap {o.id : o \in part} = {}
  <2> SUFFICES ASSUME NEW part \in SUBSET loaded, part # {}
               PROVE  \E m \in part : m.depends \cap {o.id : o \in part} = {}
    OBVIOUS
  <2> HIDE DEF loaded
  <2>1. PICK m \in part : \A o \in part : m.id <= o.id
    BY <1>5, LeastManifestIs DEF Shaped
  <2>2. \A o \in part : o.id \in Nat /\ m.id <= o.id
    BY <1>1, <1>5, <2>1 DEF Manifests
  <2>3. \A e \in m.depends : e \in Nat /\ e < m.id
    BY <1>1, <1>5 DEF Manifests
  <2>4. \A e \in m.depends : e \notin {o.id : o \in part}
    BY <2>2, <2>3
  <2>. QED
    BY <2>4
<1>7. CASE \A d \in There : packages[d].manifest.depends \subseteq There
  <2>1. \A m \in loaded : m.depends \subseteq {n.id : n \in loaded}
    BY <1>2, <1>7
  <2>2. GraphValid(loaded)
    BY <1>6, <2>1 DEF GraphValid
  <2>. QED
    BY <1>3, <1>4, <2>2 DEF Loadable
<1>8. CASE \E d \in There : ~(packages[d].manifest.depends \subseteq There)
  BY <1>2, <1>8
<1>. QED
  BY <1>7, <1>8

\* A tidy tree in nobody's hands is no project, or one that can be loaded.
LEMMA TidyLoads == Shaped /\ Tidy /\ ConfigKnown => LoadsWhenQuiet
<1> SUFFICES ASSUME Shaped, Tidy, ConfigKnown, Quiet, spoilt = {}
             PROVE  \/ config = NoFile /\ There = {}
                    \/ Loadable
                    \/ /\ config \notin {NoFile, Cut}
                       /\ \E d \in There : /\ packages[d].manifest \in Manifests
                                           /\ packages[d].manifest.depends \cap (used \ There) # {}
  BY DEF LoadsWhenQuiet
<1>1. \A d \in Dirs : ~Owned(d)
  BY DEF Quiet, Owned, Owner
<1>2. Numbered /\ \A d \in There : Whole(d)
  BY <1>1 DEF Tidy, Neat, There
<1>3. config # Cut
  BY DEF Quiet, ConfigKnown
<1>4. CASE config = NoFile
  BY <1>4 DEF ConfigKnown
<1>5. CASE config # NoFile
  BY <1>2, <1>3, <1>5, WholePackagesLoad
<1>. QED
  BY <1>4, <1>5

\* Explained is what the property asks for.
LEMMA CutsAreExplained == CutsExplained => ScriptsAreWhole
<1> SUFFICES ASSUME CutsExplained, NEW file \in Files, Sql(file) = Cut
             PROVE  \/ file[1] \in spoilt
                    \/ \E p \in Procs : procs[p].pc \in {"fills", "cleans"} /\ procs[p].dir = file[1]
  BY DEF ScriptsAreWhole
<1>1. file[1] \in Dirs /\ file[2] \in Roles
  BY DEF Files
<1>. QED
  BY <1>1 DEF CutsExplained, Cleaning, Sql

(***************************************************************************)
(* The theorems about Checkout.                                            *)
(***************************************************************************)

\* The inductive invariant.
TreeInv == Shaped /\ LearnedAll /\ CutsExplained /\ ConfigKnown /\ Tidy

\* It holds of every tree.
LEMMA TreeInvHolds == CheckoutSpec => []TreeInv
<1>1. CheckoutInit => TreeInv
  BY CheckoutAssumption, FirstShapes, FirstLearned, FirstCuts, FirstConfig, FirstTidy DEF TreeInv
<1>2. TreeInv /\ [CheckoutNext]_checkoutVars => TreeInv'
  BY ShapedKept, LearnedKept, CutsKept, ConfigKept, TidyKept DEF TreeInv
<1>. QED
  BY <1>1, <1>2, PTL DEF CheckoutSpec

\* Every variable keeps its type.
THEOREM CheckoutTypes == CheckoutSpec => []CheckoutTypeOK
<1>1. TreeInv => CheckoutTypeOK
  BY DEF TreeInv, Shaped
<1>. QED
  BY <1>1, TreeInvHolds, PTL

\* Once the commands have ended there is no project yet, or one that loads, its
\* configuration included, whatever failed: but for a file whose creation was cut
\* short by a kill, or by a failure that new could not or init does not clean up
\* after, a package broken by hand, and a migration that was read while it was
\* being taken away.  And no script is there in part, but in a package somebody is
\* making or a process that was killed was.
THEOREM CommandsAlwaysLeaveAProject == CheckoutSpec => []CommandsLeaveAProject
<1>1. TreeInv => CommandsLeaveAProject
  BY TidyLoads, CutsAreExplained DEF TreeInv, CommandsLeaveAProject
<1>. QED
  BY <1>1, TreeInvHolds, PTL

(***************************************************************************)
(* What steps do.                                                          *)
(***************************************************************************)

\* A step that takes a process on is that process's own.
LEMMA OwnStep ==
    ASSUME Shaped, [CheckoutNext]_checkoutVars, NEW p \in Procs, procs'[p] # procs[p]
    PROVE  \/ \E c \in {"init", "new", "format", "other"} : Start(p, c)
           \/ InitStep(p) \/ LoadStep(p) \/ NewStep(p) \/ FormatStep(p) \/ Dies(p)
<1>1. ASSUME NEW q \in Procs, NEW c \in {"init", "new", "format", "other"}, Start(q, c) PROVE q = p
  BY <1>1, StartGoes DEF Goes, Others
<1>2. ASSUME NEW q \in Procs, InitStep(q) PROVE q = p
  BY <1>2, InitGoes DEF Goes, Others
<1>3. ASSUME NEW q \in Procs, LoadStep(q) PROVE q = p
  BY <1>3, LoadGoes DEF Goes, Others
<1>4. ASSUME NEW q \in Procs, NewStep(q) PROVE q = p
  <2>1. ASSUME MakesPackage(q) PROVE q = p
    BY <2>1, MakeGoes DEF Goes, Others
  <2>2. ASSUME NewOpens(q) PROVE q = p
    BY <2>2, OpenGoes DEF Goes, Others
  <2>3. ASSUME NewFills(q) PROVE q = p
    BY <2>3, FillGoes DEF Goes, Others
  <2>4. ASSUME NewFails(q) PROVE q = p
    BY <2>4, FailGoes DEF Goes, Others
  <2>5. ASSUME NewCleans(q) PROVE q = p
    BY <2>5, CleanGoes DEF Goes, Others
  <2>6. ASSUME NewGivesUp(q) PROVE q = p
    BY <2>6, GiveUpGoes DEF Goes, Others
  <2>. QED
    BY <1>4, <2>1, <2>2, <2>3, <2>4, <2>5, <2>6 DEF NewStep
<1>5. ASSUME NEW q \in Procs, FormatStep(q) PROVE q = p
  BY <1>5, FormatGoes DEF Goes, Others
<1>6. ASSUME NEW q \in Procs, Dies(q) PROVE q = p
  BY <1>6, DieGoes DEF Goes, Others
<1>7. ~UNCHANGED procs
  OBVIOUS
<1>8. /\ \A f \in Files, t \in Texts : ~Saves(f, t)
      /\ \A d \in Dirs : ~Edits(d)
      /\ \A d, e \in Dirs : ~Copies(d, e)
  BY <1>7 DEF Saves, Edits, Copies
<1>. QED
  BY <1>1, <1>2, <1>3, <1>4, <1>5, <1>6, <1>7, <1>8 DEF CheckoutNext, checkoutVars

\* The identity of a project is never replaced by an init that began after it had one.
THEOREM InitsLeaveAProjectAlone == CheckoutSpec => InitLeavesAProjectAlone
<1>1. ASSUME TreeInv, [CheckoutNext]_checkoutVars, NEW p \in Procs, config' # config, procs'[p] # procs[p]
      PROVE  ~procs[p].found
  <2>1. Shaped /\ Learned(procs[p])
    BY <1>1 DEF TreeInv, LearnedAll
  <2>2. \A c \in {"init", "new", "format", "other"} : ~Start(p, c)
    BY <1>1 DEF Start, tree
  <2>3. ~LoadStep(p)
    BY <1>1, <2>1, LoadGoes DEF Still
  <2>4. ~NewStep(p) /\ ~FormatStep(p) /\ ~Dies(p)
    BY <1>1 DEF NewStep, MakesPackage, NewOpens, NewFills, NewFails, NewCleans, NewGivesUp,
                FormatStep, Selects, Reads, Judges, Writes, WriteFails, Dies, tree
  <2>5. InitStep(p)
    BY <1>1, <2>1, <2>2, <2>3, <2>4, OwnStep
  <2>6. procs[p] \in Inits /\ procs[p].pc \in {"open", "fill"}
    BY <1>1, <2>1, <2>5, InitGoes
  <2>. QED
    BY <2>1, <2>6 DEF Learned
<1>2. TreeInv /\ [CheckoutNext]_checkoutVars =>
        [\A p \in Procs : config' # config /\ procs'[p] # procs[p] => ~procs[p].found]_checkoutVars
  BY <1>1
<1>. QED
  BY <1>2, TreeInvHolds, PTL DEF CheckoutSpec, InitLeavesAProjectAlone

\* A new migration comes after all that new found and is there still, each of
\* which is needed through it, whatever was added meanwhile.
THEOREM NewAlwaysComesLast == CheckoutSpec => NewComesLast
<1> DEFINE Needed(ms) == UNION {m.depends : m \in ms}
           Last(p) ==
      LET w == procs[p]
          others == {packages[d].manifest : d \in There \ {w.dir}} \cap Manifests
      IN  w.cmd = "new" /\ w.pc = "fills" /\ procs'[p].outcome = "done"
          /\ w.after # {} /\ w.after \subseteq others =>
             /\ w.manifest.depends \cap Needed(w.after) = {}
             /\ {m.id : m \in w.after} \subseteq Needed(others) \cup w.manifest.depends
<1>1. ASSUME TreeInv, NEW p \in Procs PROVE Last(p)
  <2> DEFINE others == {packages[d].manifest : d \in There \ {procs[p].dir}} \cap Manifests
             after == procs[p].after
  <2>1. CASE procs[p].pc = "fills"
    <3>1. procs[p] \in Makes
      BY <1>1, <2>1, ShapedSays, Shapes DEF TreeInv
    <3>2. after # {} => procs[p].manifest.depends = HeadsOf(after)
      BY <1>1, <3>1 DEF TreeInv, LearnedAll, Learned
    <3>3. /\ HeadsOf(after) \cap Needed(after) = {}
          /\ {m.id : m \in after} \subseteq Needed(after) \cup HeadsOf(after)
      BY DEF HeadsOf
    <3>4. after \subseteq others => Needed(after) \subseteq Needed(others)
      OBVIOUS
    <3>. HIDE DEF others, after, Needed
    <3>5. after # {} /\ after \subseteq others =>
              /\ procs[p].manifest.depends \cap Needed(after) = {}
              /\ {m.id : m \in after} \subseteq Needed(others) \cup procs[p].manifest.depends
      BY <3>2, <3>3, <3>4
    <3>. QED
      BY <3>5 DEF others, after
  <2>2. CASE procs[p].pc # "fills"
    BY <2>2
  <2>. QED
    BY <2>1, <2>2
<1>2. TreeInv => \A p \in Procs : Last(p)
  BY <1>1
<1>3. TreeInv /\ [CheckoutNext]_checkoutVars => [\A p \in Procs : Last(p)]_checkoutVars
  BY <1>2
<1>. QED
  BY <1>3, TreeInvHolds, PTL DEF CheckoutSpec, NewComesLast

\* What one step of a format writes.
LEMMA FormatWrites ==
    ASSUME TreeInv, [CheckoutNext]_checkoutVars, NEW p \in Procs, NEW file \in Files,
           procs[p].pc = "writes", procs'[p] # procs[p], Sql(file)' # Sql(file)
    PROVE  /\ [file |-> file, text |-> Sql(file)] \in procs[p].read =>
                 Tree(Sql(file)') = Tree(Sql(file))
           /\ Sql(file)' \in Texts => Pretty[Sql(file)'] = Sql(file)'
<1>1. Shaped /\ Learned(procs[p]) /\ procs[p] \in Formats
  BY ShapedSays, Shapes DEF TreeInv, LearnedAll
<1>2. packages' # packages
  BY DEF Sql
<1>3. FormatStep(p)
  <2>1. \A c \in {"init", "new", "format", "other"} : ~Start(p, c)
    BY DEF Start
  <2>2. ~InitStep(p)
    BY <1>1, <1>2, InitGoes
  <2>3. ~LoadStep(p)
    BY <1>1, <1>2, LoadGoes DEF Still
  <2>4. ~NewStep(p) /\ ~Dies(p)
    BY <1>2 DEF NewStep, MakesPackage, NewOpens, NewFills, NewFails, NewCleans, NewGivesUp, At, Dies, tree
  <2>. QED
    BY <1>1, <2>1, <2>2, <2>3, <2>4, OwnStep
<1>4. PICK f \in Files, r \in Found : Rewrites(procs[p], f, r)
  BY <1>1, <1>2, <1>3, FormatGoes
<1>5. packages \in [Dirs -> Packages] /\ file[1] \in Dirs /\ f[1] \in Dirs /\ file[2] \in Roles /\ f[2] \in Roles
  BY <1>1, ShapedSays DEF TreeTypes, Files
<1>6. packages'[f[1]] = [packages[f[1]] EXCEPT ![f[2]] = Formatted(r.text)]
      /\ \A d \in Dirs : d # f[1] => packages'[d] = packages[d]
  BY <1>4, <1>5 DEF Rewrites
<1>7. file = f
  <2>1. file[1] = f[1]
    BY <1>5, <1>6 DEF Sql
  <2>2. file[2] = f[2]
    BY <1>5, <1>6, <2>1 DEF Sql, Packages, Roles
  <2>. QED
    BY <2>1, <2>2 DEF Files
<1>8. Sql(file)' = Formatted(r.text)
  BY <1>5, <1>6, <1>7 DEF Sql, Packages, Roles
<1>9. /\ r \in procs[p].read /\ r.file = f /\ f \in procs[p].todo
      /\ \A s \in procs[p].read : s.file = r.file => s = r
      /\ r.text \notin Broken
  BY <1>1, <1>4 DEF Learned, Rewrites
<1>10. Judged(r)
  BY <1>1, <1>9 DEF Learned
<1>11. r.text \in Texts /\ r.text # Cut /\ Settles(r.text)
  BY <1>1, <1>9, <1>10, Distinctness DEF Judged, Shaped, Setting
<1>12. Pretty[Formatted(r.text)] = Formatted(r.text)
  BY <1>11 DEF Formatted, Settles
<1>13. ASSUME [file |-> file, text |-> Sql(file)] \in procs[p].read PROVE Sql(file) = r.text
  BY <1>7, <1>9, <1>13
<1>. QED
  BY <1>8, <1>10, <1>12, <1>13 DEF Judged

\* What format writes says what it read, and would not be formatted again.
THEOREM FormatAlwaysKeepsStructure == CheckoutSpec => FormatKeepsStructure
<1> DEFINE Keeps(p, file) ==
      procs[p].pc = "writes" /\ procs'[p] # procs[p] /\ Sql(file)' # Sql(file) =>
         /\ [file |-> file, text |-> Sql(file)] \in procs[p].read => Tree(Sql(file)') = Tree(Sql(file))
         /\ Sql(file)' \in Texts => Pretty[Sql(file)'] = Sql(file)'
<1>1. TreeInv /\ [CheckoutNext]_checkoutVars => [\A p \in Procs : \A file \in Files : Keeps(p, file)]_checkoutVars
  BY FormatWrites
<1>. QED
  BY <1>1, TreeInvHolds, PTL DEF CheckoutSpec, FormatKeepsStructure

==============================================================================
