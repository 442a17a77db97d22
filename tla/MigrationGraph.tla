---------------------------- MODULE MigrationGraph ----------------------------
(***************************************************************************)
(* The dependency graph, from the migrations found on disk to the order    *)
(* they are deployed in: Graph::build with its search for cycles, and      *)
(* closure_of on a graph it accepted.  One action is one turn of a loop.   *)
(***************************************************************************)
EXTENDS Integers, Sequences, FiniteSets

CONSTANT Ids       \* UUIDv7 ids, ordered as they were created

ASSUME IdsAssumption == Ids \subseteq Nat /\ IsFiniteSet(Ids)

VARIABLES
    declared,      \* the migrations in the project
    depends,       \* what each manifest depends on
    phase,
    remaining,     \* topological_sort: how many dependencies are not placed
    ready,         \* topological_sort: those with none left
    order,         \* topological_sort: the result so far
    path, current, \* find_cycle: the walk so far and where it stands
    cycle,         \* find_cycle: the loop it found
    asked,         \* closure_of: the id asked for
    included, stack

graph == <<declared, depends>>
sort == <<remaining, ready, order>>
walk == <<path, current, cycle>>
closure == <<asked, included, stack>>
vars == <<graph, phase, sort, walk, closure>>

Phases == {"building", "unknown", "sorting", "walking", "refused",
           "accepted", "closing", "closed"}

Placed == {order[i] : i \in DOMAIN order}

\* The graph's reverse edges.
Dependents(id) == {m \in declared : id \in depends[m]}

Heads == {id \in declared : Dependents(id) = {}}

\* Any manifest Migration::read accepts: no id twice, none depending on itself,
\* no dependency listed twice.
Init ==
    /\ declared \in SUBSET Ids
    /\ depends \in [declared -> SUBSET Ids]
    /\ \A m \in declared : m \notin depends[m]
    /\ phase = "building"
    /\ remaining = << >> /\ ready = {} /\ order = << >>
    /\ path = << >> /\ current \in Ids /\ cycle = << >>
    /\ asked \in Ids /\ included = {} /\ stack = {}

(***************************************************************************)
(* build: every dependency is in the project.                              *)
(***************************************************************************)
UnknownDependency ==
    /\ phase = "building"
    /\ \E m \in declared : ~(depends[m] \subseteq declared)
    /\ phase' = "unknown"
    /\ UNCHANGED <<graph, sort, walk, closure>>

StartSort ==
    /\ phase = "building"
    /\ \A m \in declared : depends[m] \subseteq declared
    /\ remaining' = [m \in declared |-> Cardinality(depends[m])]
    /\ ready' = {m \in declared : remaining'[m] = 0}
    /\ phase' = "sorting"
    /\ UNCHANGED <<graph, order, walk, closure>>

(***************************************************************************)
(* topological_sort: Kahn's algorithm.                                     *)
(***************************************************************************)
Place(next) ==
    /\ phase = "sorting"
    /\ order' = Append(order, next)
    /\ remaining' = [m \in DOMAIN remaining \ {next} |->
                        IF m \in Dependents(next) THEN remaining[m] - 1 ELSE remaining[m]]
    /\ ready' = (ready \ {next}) \cup
                {m \in Dependents(next) : m \in DOMAIN remaining' /\ remaining'[m] = 0}
    /\ UNCHANGED <<graph, phase, walk, closure>>

\* Mutation: ready is a queue or a hash set, and any of it may go next.
PlaceAny == \E next \in ready : Place(next)

\* Of all that are ready, the one created first.
PlaceNext == \E next \in ready : Place(next) /\ \A other \in ready : next <= other

Stuck == declared \ Placed

\* check_for_cycles: everything was placed.
Accept ==
    /\ phase = "sorting"
    /\ ready = {}
    /\ Len(order) = Cardinality(declared)
    /\ phase' = "accepted"
    /\ UNCHANGED <<graph, sort, walk, closure>>

StartWalk ==
    /\ phase = "sorting"
    /\ ready = {}
    /\ Len(order) # Cardinality(declared)
    /\ current' \in Stuck
    /\ \A m \in Stuck : current' <= m
    /\ phase' = "walking"
    /\ UNCHANGED <<graph, sort, path, cycle, closure>>

(***************************************************************************)
(* find_cycle: follow dependencies that are stuck too until one repeats.   *)
(* Which of them a manifest lists first is not modelled: any may be.       *)
(***************************************************************************)

\* Mutation: the walk does not remember where it has been.
WalkForgetful ==
    /\ phase = "walking"
    /\ current' \in depends[current] \cap Stuck
    /\ UNCHANGED <<graph, phase, sort, path, cycle, closure>>

Walk ==
    /\ phase = "walking"
    /\ \A i \in DOMAIN path : path[i] # current
    /\ path' = Append(path, current)
    /\ current' \in depends[current] \cap Stuck
    /\ UNCHANGED <<graph, phase, sort, cycle, closure>>

\* Mutation: the approach to the loop is reported as part of it.
RefuseUntrimmed ==
    /\ phase = "walking"
    /\ \E i \in DOMAIN path : path[i] = current
    /\ cycle' = path
    /\ phase' = "refused"
    /\ UNCHANGED <<graph, sort, path, current, closure>>

\* The walk is back where it was: the loop is the path without its approach.
Refuse ==
    /\ phase = "walking"
    /\ \E entry \in DOMAIN path :
          /\ path[entry] = current
          /\ cycle' = SubSeq(path, entry, Len(path))
    /\ phase' = "refused"
    /\ UNCHANGED <<graph, sort, path, current, closure>>

(***************************************************************************)
(* closure_of: a depth-first search, whose stack is modelled as a set.     *)
(***************************************************************************)
Ask(id) ==
    /\ phase = "accepted"
    /\ asked' = id
    /\ included' = {}
    /\ stack' = {id}
    /\ phase' = "closing"
    /\ UNCHANGED <<graph, sort, walk>>

\* Mutation: the search follows the edges the wrong way.
VisitDependents ==
    /\ phase = "closing"
    /\ \E top \in stack :
          /\ included' = included \cup {top}
          /\ stack' = (stack \ {top}) \cup
                      (IF top \in included THEN {} ELSE Dependents(top))
    /\ UNCHANGED <<graph, phase, sort, walk, asked>>

Visit ==
    /\ phase = "closing"
    /\ \E top \in stack :
          /\ included' = included \cup {top}
          /\ stack' = (stack \ {top}) \cup
                      (IF top \in included THEN {} ELSE depends[top])
    /\ UNCHANGED <<graph, phase, sort, walk, asked>>

\* What was included, in deployment order: the filter of that order.
IncludedAt == {i \in DOMAIN order : order[i] \in included}
Turn(i, S) == Cardinality({j \in S : j <= i})
Closure ==
    [k \in 1 .. Cardinality(IncludedAt) |->
        order[CHOOSE i \in IncludedAt : Turn(i, IncludedAt) = k]]

Close ==
    /\ phase = "closing"
    /\ stack = {}
    /\ phase' = "closed"
    /\ UNCHANGED <<graph, sort, walk, closure>>

-----------------------------------------------------------------------------
Next ==
    \/ UnknownDependency \/ StartSort \/ PlaceNext \/ Accept \/ StartWalk
    \/ Walk \/ Refuse
    \/ \E id \in declared : Ask(id)
    \/ Visit \/ Close

Spec == Init /\ [][Next]_vars

\* A function that was called runs to its end; nobody has to ask for a closure.
Working == UnknownDependency \/ StartSort \/ PlaceNext \/ Accept \/ StartWalk
           \/ Walk \/ Refuse \/ Visit \/ Close

FairSpec == Spec /\ WF_vars(Working)

-----------------------------------------------------------------------------
TypeOK ==
    /\ declared \subseteq Ids
    /\ depends \in [declared -> SUBSET Ids]
    /\ phase \in Phases
    /\ DOMAIN remaining \subseteq declared
    /\ \A m \in DOMAIN remaining : remaining[m] \in Nat
    /\ ready \subseteq declared
    /\ order \in Seq(declared)
    /\ path \in Seq(declared)
    /\ current \in Ids
    /\ cycle \in Seq(declared)
    /\ asked \in Ids
    /\ included \subseteq declared
    /\ stack \subseteq declared

Before(i, id) == \E j \in 1 .. i - 1 : order[j] = id

\* Nothing is placed twice, and nothing before what it depends on.
DependenciesFirst ==
    \A i \in DOMAIN order :
        /\ ~Before(i, order[i])
        /\ \A n \in depends[order[i]] : Before(i, n)

\* An older migration stands after a younger one only because something it
\* depends on does not stand before that one: the order is the one order that
\* creation decides, "on every machine and in every run".
TiesBreakByAge ==
    \A i, j \in DOMAIN order : i < j /\ order[j] < order[i] =>
        \E n \in depends[order[j]] : ~Before(i, n)

\* Everything runs after what it needs, and otherwise in the order in which it
\* was created: two machines deploy one project in one order.
OrderIsRight == DependenciesFirst /\ TiesBreakByAge

\* A graph is accepted exactly when it is whole and has no cycle: nothing in it
\* waits for itself.
AcceptedWhenAcyclic ==
    LET cyclic == \E S \in (SUBSET declared) \ {{}} :
                      \A m \in S : depends[m] \cap S # {}
    IN  /\ phase \in {"accepted", "closing", "closed"} =>
              Placed = declared /\ ~cyclic
        /\ phase \in {"walking", "refused"} => cyclic

\* The cycle reported is one, and "the actual loop" rather than a way into it.
CycleIsReal ==
    phase = "refused" =>
        /\ cycle # << >>
        /\ \A i \in DOMAIN cycle :
              /\ cycle[IF i = Len(cycle) THEN 1 ELSE i + 1] \in depends[cycle[i]]
              /\ \A j \in DOMAIN cycle : cycle[i] = cycle[j] => i = j

\* What Graph::build says of a graph is true: that it can be ordered, or that
\* this is why it cannot.
VerdictIsRight == AcceptedWhenAcyclic /\ CycleIsReal

\* The walk never ends at a migration without a stuck dependency, so the whole
\* remainder never has to be reported in place of a cycle.
WalkGoesOn == phase = "walking" => depends[current] \cap Stuck # {}

DependencyClosed(S) == \A d \in S : depends[d] \subseteq S

\* "A dependency closure, never everything created before this": what closure_of
\* selects is in every dependency-closed set with the id asked for, and is one.
\* It lists each of them once, after what that one depends on.
ClosureIsLeast ==
    phase = "closed" =>
        /\ asked \in included
        /\ DependencyClosed(included)
        /\ \A S \in SUBSET declared :
              asked \in S /\ DependencyClosed(S) => included \subseteq S
        /\ included \subseteq {Closure[k] : k \in DOMAIN Closure}
        /\ \A k \in DOMAIN Closure :
              /\ Closure[k] \in included
              /\ \A l \in DOMAIN Closure : Closure[k] = Closure[l] => k = l
              /\ \A n \in depends[Closure[k]] : \E l \in 1 .. k - 1 : Closure[l] = n

\* A migration that depends on every head has the whole project behind it, which
\* is what lets `new` converge branches.
HeadsCoverTheGraph ==
    phase = "accepted" =>
        \A S \in SUBSET declared : Heads \subseteq S /\ DependencyClosed(S) => S = declared

(***************************************************************************)
(* Why it is right: what each loop keeps true.                             *)
(***************************************************************************)

\* Of topological_sort.  A migration not placed by turn i that is older than the
\* one that was, was waiting for something.
SortInv ==
    /\ \A m \in declared : m \notin depends[m]
    /\ phase \in {"building", "unknown"} => order = << >>
    /\ phase \notin {"building", "unknown"} =>
          /\ \A m \in declared : depends[m] \subseteq declared
          /\ DOMAIN remaining = Stuck
          /\ \A m \in Stuck : remaining[m] = Cardinality(depends[m] \ Placed)
          /\ ready = {m \in Stuck : depends[m] \subseteq Placed}
          /\ Len(order) = Cardinality(Placed)
    /\ \A i \in DOMAIN order : \A m \in declared :
          ~Before(i + 1, m) /\ m < order[i] => \E n \in depends[m] : ~Before(i, n)

\* Of find_cycle.  Each step of the walk is an edge among what is stuck.
WalkInv ==
    /\ phase \in {"building", "sorting"} => path = << >>
    /\ phase \in {"walking", "refused"} => Stuck # {} /\ ready = {}
    /\ phase = "walking" =>
          /\ current \in Stuck
          /\ \A i \in DOMAIN path :
                /\ path[i] \in Stuck
                /\ \A j \in DOMAIN path : path[i] = path[j] => i = j
                /\ (IF i = Len(path) THEN current ELSE path[i + 1]) \in depends[path[i]]

\* Of closure_of.  What was reached is needed, and what it needs is on the stack.
ClosureInv ==
    /\ phase \in {"accepted", "closing", "closed"} => Placed = declared
    /\ phase \in {"closing", "closed"} =>
          /\ asked \in included \cup stack
          /\ \A d \in included : depends[d] \subseteq included \cup stack
          /\ \A S \in SUBSET declared :
                asked \in S /\ DependencyClosed(S) => included \cup stack \subseteq S
    /\ phase = "closed" => stack = {}

LoopsInv == SortInv /\ DependenciesFirst /\ WalkInv /\ CycleIsReal /\ ClosureInv

\* Every build ends, accepted or refused, and so does every closure.
Terminates ==
    /\ phase = "building" ~> phase \in {"unknown", "refused", "accepted"}
    /\ phase = "closing" ~> phase = "closed"

===============================================================================
