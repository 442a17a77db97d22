----------------------------- MODULE ReportProofs -----------------------------
(***************************************************************************)
(* Proofs about RunReport, for any migrations and test files.              *)
(***************************************************************************)
EXTENDS RunReport, FiniteSetTheorems, FunctionTheorems, SequenceTheorems, TLAPS

(***************************************************************************)
(* Exit codes.                                                             *)
(***************************************************************************)

\* How a run may end that has changed a migration.
AfterChange ==
    {"DeployFailed", "DeployOutcomeUnknown", "VerifyFailed", "RevertFailed", "RegistryUpgradeFailed"}
Explained(error) == error = NoError \/ error.code \in AfterChange

\* Each has the exit code of the registry or of an execution.
LEMMA Exits ==
    ASSUME NEW code \in AfterChange
    PROVE  ExitCode(code) \in {8, 9}
<1> DEFINE class == CHOOSE c \in DOMAIN CodesOf : code \in CodesOf[c]
<1>1. code \in CodesOf["execution"] \/ code \in CodesOf["registry"]
  BY DEF CodesOf, AfterChange
<1>2. \A c \in DOMAIN CodesOf : code \in CodesOf[c] => c \in {"execution", "registry"}
  BY DEF CodesOf, AfterChange
<1>3. {"execution", "registry"} \subseteq DOMAIN CodesOf
  BY DEF CodesOf
<1>4. class \in {"execution", "registry"}
  BY <1>1, <1>2, <1>3
<1>5. ExitCode(code) = ExitOf[class]
  BY DEF ExitCode
<1> HIDE DEF class
<1>. QED
  BY <1>4, <1>5 DEF ExitOf

(***************************************************************************)
(* The inductive invariant.                                                *)
(***************************************************************************)
Over == at \in {"release", "emit", "exited"}
Deploying == args.cmd = "deploy" /\ at = "work"

\* A deploy of a project that is not sound does not get past validation.
Stopped == args.cmd = "deploy" /\ ~args.sound => at \in {"load", "validate"} \/ Over

\* Only a deploy changes the registry before it knows how it ends.
Moved ==
    registry # before =>
        /\ Over \/ Deploying
        /\ Explained(failure)

ExitIsItsCode == at = "exited" => exit \in {Report.exit_code, 70}

RetryInv ==
    /\ args.sound \in BOOLEAN
    /\ at \in DOMAIN Place \/ Over
    /\ Stopped
    /\ Moved
    /\ ExitIsItsCode

\* The stage that follows is one of the stages, or the work.
LEMMA FollowingExists ==
    ASSUME NEW passed \in SUBSET Stage, NEW place \in 0 .. 6
    PROVE  /\ Following(passed, place) \in passed \cup {"work"}
           /\ Place[Following(passed, place)] > place
           /\ \A t \in passed : Place[t] > place => Place[t] >= Place[Following(passed, place)]
<1> DEFINE Next1(s) == /\ Place[s] > place
                      /\ \A t \in passed : Place[t] > place => Place[t] >= Place[s]
<1>1. \E s \in passed \cup {"work"} : Next1(s)
  <2> DEFINE later == {s \in passed \cup {"work"} : Place[s] > place}
  <2>1. "work" \in later /\ \A s \in later : Place[s] \in 1 .. 7
    BY DEF Place, Stage
  <2>2. \E s \in later : \A t \in later : Place[t] >= Place[s]
    <3> DEFINE At(n) == \E s \in later : Place[s] = n
    <3>1. CASE At(1) BY <3>1, <2>1
    <3>2. CASE ~At(1) /\ At(2) BY <3>2, <2>1
    <3>3. CASE ~At(1) /\ ~At(2) /\ At(3) BY <3>3, <2>1
    <3>4. CASE ~At(1) /\ ~At(2) /\ ~At(3) /\ At(4) BY <3>4, <2>1
    <3>5. CASE ~At(1) /\ ~At(2) /\ ~At(3) /\ ~At(4) /\ At(5) BY <3>5, <2>1
    <3>6. CASE ~At(1) /\ ~At(2) /\ ~At(3) /\ ~At(4) /\ ~At(5) BY <3>6, <2>1 DEF Place, Stage
    <3>. QED
      BY <3>1, <3>2, <3>3, <3>4, <3>5, <3>6
  <2>. QED
    BY <2>2
<1>. QED
  BY <1>1 DEF Following

\* A deploy loads the project first, and validates it next.
LEMMA DeployValidates ==
    ASSUME NEW dry \in BOOLEAN
    PROVE  /\ Following(Passes("deploy", dry), 0) = "load"
           /\ Following(Passes("deploy", dry), Place.load) = "validate"
<1> DEFINE passed == Passes("deploy", dry)
<1>1. passed = {"load", "validate", "open", "lock", "check"}
  <2>1. passed = Stages("deploy")
    BY DEF Passes
  <2>2. \A s \in Stage : s \in Stages("deploy") <=> s # "ask"
    BY DEF Stages, Stage, Place, Local
  <2>3. Stages("deploy") \subseteq Stage
    BY DEF Stages
  <2>. QED
    BY <2>1, <2>2, <2>3 DEF Stage, Place
<1>2. passed \in SUBSET Stage
  BY <1>1 DEF Stage, Place
<1> HIDE DEF passed
<1>3. Following(passed, 0) = "load"
  BY <1>1, <1>2, FollowingExists DEF Place
<1>4. Following(passed, 1) = "validate"
  BY <1>1, <1>2, FollowingExists DEF Place
<1>. QED
  BY <1>3, <1>4 DEF passed, Place

\* A run starts at one of the stages; init has none to pass.
LEMMA StartsInPlace ==
    ASSUME Init
    PROVE  at \in Stage \cup {"work"} /\ (args.cmd = "deploy" => at = "load")
<1>1. PICK c \in Commands, d \in BOOLEAN, s \in BOOLEAN, o \in {"json", "human", "quiet"} :
        /\ args = [cmd |-> c, dry |-> d, sound |-> s, output |-> o]
        /\ at = Following(Passes(c, d), 0)
  BY DEF Init
<1>2. Passes(c, d) \in SUBSET Stage
  BY DEF Passes, Stages
<1>3. at \in Stage \cup {"work"}
  BY <1>1, <1>2, FollowingExists
<1>4. args.cmd = "deploy" => at = "load"
  BY <1>1, DeployValidates
<1>. QED
  BY <1>3, <1>4

LEMMA RetryStarts == Init => RetryInv
<1> SUFFICES ASSUME Init PROVE RetryInv
  OBVIOUS
<1>1. registry = before /\ args.sound \in BOOLEAN
  BY DEF Init
<1>. QED
  BY <1>1, StartsInPlace DEF RetryInv, Stopped, Moved, ExitIsItsCode, Stage, Place

(***************************************************************************)
(* The steps.                                                              *)
(***************************************************************************)

\* A run may stop with any error, if it has not changed the registry.
LEMMA StopsSafely ==
    ASSUME RetryInv, NEW error, Leave(error), UNCHANGED <<args, before>>,
           registry' # before => Explained(error)
    PROVE  RetryInv'
<1>1. failure' = error /\ at' \in {"release", "emit"}
  BY DEF Leave
<1>. QED
  BY <1>1 DEF RetryInv, Stopped, Moved, ExitIsItsCode, Over

\* The work of any command but deploy finds the registry as it was.
LEMMA WorkStarts ==
    ASSUME RetryInv, at \in Stage \cup {"work"}, ~Deploying
    PROVE  registry = before
BY DEF RetryInv, Moved, Over, Stage, Place

LEMMA StagesKeep ==
    ASSUME RetryInv, Pass \/ Refuse \/ TestsNothing
    PROVE  RetryInv'
<1>1. CASE Pass
  <2>1. at \in Stage /\ registry' = registry /\ before' = before /\ args' = args
    BY <1>1 DEF Pass
  <2>2. registry = before
    BY <2>1, WorkStarts DEF Deploying, Stage
  <2>3. at' = Following(Passes(args.cmd, args.dry), Place[at])
    BY <1>1 DEF Pass
  <2>4. at' \in Stage \cup {"work"}
    <3>1. Passes(args.cmd, args.dry) \in SUBSET Stage
      BY DEF Passes, Stages
    <3>2. Place[at] \in 0 .. 6
      BY <2>1 DEF Stage, Place
    <3>. QED
      BY <2>3, <3>1, <3>2, FollowingExists
  <2>5. Stopped'
    <3> SUFFICES ASSUME args.cmd = "deploy", ~args.sound
                 PROVE  at' = "validate"
      BY <2>1 DEF Stopped
    <3>1. at # "validate"
      <4>1. "ScriptEmpty" \in UNION {CodesOf[x] : x \in DOMAIN CodesOf}
        BY DEF CodesOf
      <4>. QED
        BY <1>1, <4>1 DEF Pass, MustRefuse, Unsound
    <3>2. at = "load"
      BY <2>1, <3>1 DEF RetryInv, Stopped, Over, Stage, Place
    <3>. QED
      BY <2>3, <3>2, DeployValidates DEF Passes
  <2>. QED
    BY <2>1, <2>2, <2>4, <2>5 DEF RetryInv, Moved, ExitIsItsCode, Stage, Place
<1>2. CASE Refuse
  <2>1. at \in Stage /\ registry' = registry /\ UNCHANGED <<args, before>>
    BY <1>2 DEF Refuse
  <2>2. PICK error : Leave(error)
    BY <1>2 DEF Refuse
  <2>. QED
    BY <2>1, <2>2, WorkStarts, StopsSafely DEF Deploying, Stage
<1>3. CASE TestsNothing
  <2>1. Leave(NoError) /\ UNCHANGED <<args, before>>
    BY <1>3 DEF TestsNothing
  <2>. QED
    BY <2>1, StopsSafely DEF Explained
<1>. QED
  BY <1>1, <1>2, <1>3

LEMMA NoErrorIsFine == Explained(NoError)
BY DEF Explained

LEMMA CodeOfError == ASSUME NEW code, NEW about PROVE Error(code, about).code = code
BY DEF Error

LEMMA DeployKeeps ==
    ASSUME RetryInv, DeployPlans \/ DeployOne \/ DeploySkips \/ DeployEnds
    PROVE  RetryInv'
<1>1. CASE DeployPlans
  <2>1. Leave(NoError) /\ UNCHANGED <<args, before>>
    BY <1>1 DEF DeployPlans, Stays
  <2>. QED
    BY <2>1, StopsSafely, NoErrorIsFine
<1>2. CASE DeployOne
  <2>1. Deploying /\ UNCHANGED <<args, at, before>>
    BY <1>2 DEF DeployOne, Working, Deploying
  <2>2. args.sound
    BY <2>1 DEF RetryInv, Stopped, Deploying, Over
  <2>3. PICK o \in DeployOutcomes : failure' = Failed(o.code, todo[1])
    BY <1>2 DEF DeployOne
  <2>4. o.code \in AfterChange \cup {"none"}
    BY <2>2 DEF DeployOutcomes, VerifyErrors, AfterChange
  <2>5. Explained(failure')
    BY <2>3, <2>4, CodeOfError DEF Failed, Explained
  <2>. QED
    BY <2>1, <2>2, <2>5 DEF RetryInv, Stopped, Moved, ExitIsItsCode, Deploying, Over
<1>3. CASE DeploySkips
  <2>1. Deploying /\ UNCHANGED <<args, at, registry, failure, before>>
    BY <1>3 DEF DeploySkips, Working, Deploying
  <2>. QED
    BY <2>1 DEF RetryInv, Stopped, Moved, ExitIsItsCode, Deploying, Over
<1>4. CASE DeployEnds
  <2>1. Leave(failure) /\ UNCHANGED <<args, before, registry>>
    BY <1>4 DEF DeployEnds, Stays
  <2>. QED
    BY <2>1, StopsSafely DEF RetryInv, Moved
<1>. QED
  BY <1>1, <1>2, <1>3, <1>4

\* A step of any other command leaves the run at work, with the registry and
\* the failure as they were, or stops it.
LEMMA WorkKeeps ==
    ASSUME RetryInv, at = "work", ~Deploying, UNCHANGED <<args, before>>,
           \/ UNCHANGED <<at, registry, failure>>
           \/ \E error : Leave(error) /\ (registry' = registry \/ Explained(error))
    PROVE  RetryInv'
<1>1. registry = before
  BY WorkStarts
<1>2. CASE UNCHANGED <<at, registry, failure>>
  BY <1>1, <1>2 DEF RetryInv, Stopped, Moved, ExitIsItsCode, Deploying, Over
<1>3. CASE \E error : Leave(error) /\ (registry' = registry \/ Explained(error))
  BY <1>1, <1>3, StopsSafely
<1>. QED
  BY <1>2, <1>3

LEMMA UpgradeIsExplained ==
    ASSUME NEW about PROVE Explained(Error("RegistryUpgradeFailed", about))
BY CodeOfError DEF Explained, AfterChange

\* These never write the registry.
LEMMA ReadersKeep ==
    ASSUME RetryInv, LocalWork \/ StatusWork \/ VerifyOne \/ VerifyEnds \/ TestOne \/ TestEnds
    PROVE  RetryInv'
<1>1. at = "work" /\ ~Deploying /\ UNCHANGED <<args, before, registry>>
  BY DEF LocalWork, StatusWork, VerifyOne, VerifyEnds, TestOne, TestEnds,
         Working, Deploying, Stays, Local
<1>2. UNCHANGED <<at, failure>> \/ \E error : Leave(error)
  BY DEF LocalWork, StatusWork, VerifyOne, VerifyEnds, TestOne, TestEnds
<1>. QED
  BY <1>1, <1>2, WorkKeeps

\* And these write it once, at their end.
LEMMA WritersKeep ==
    ASSUME RetryInv, RevertWork \/ BaselineWork \/ ResolveWork \/ RehashWork
    PROVE  RetryInv'
<1>1. at = "work" /\ ~Deploying /\ UNCHANGED <<args, before>>
  BY DEF RevertWork, BaselineWork, ResolveWork, RehashWork, Working, Deploying, Stays
<1>2. \E error : Leave(error) /\ (registry' = registry \/ Explained(error))
  <2>1. CASE RevertWork
    BY <2>1, NoErrorIsFine, UpgradeIsExplained DEF RevertWork
  <2>2. CASE BaselineWork
    BY <2>2, NoErrorIsFine, UpgradeIsExplained DEF BaselineWork
  <2>3. CASE ResolveWork
    BY <2>3, NoErrorIsFine, UpgradeIsExplained DEF ResolveWork
  <2>4. CASE RehashWork
    BY <2>4, NoErrorIsFine, UpgradeIsExplained DEF RehashWork
  <2>. QED
    BY <2>1, <2>2, <2>3, <2>4
<1>. QED
  BY <1>1, <1>2, WorkKeeps

\* A lock that cannot be released is reported as the registry's failure, and
\* the exit code, once there is one, is the code of the failure.
LEMMA EndKeeps ==
    ASSUME RetryInv, Release \/ Emit
    PROVE  RetryInv'
<1>1. CASE Release
  <2>1. at' = "emit" /\ UNCHANGED <<args, registry, before>>
    BY <1>1 DEF Release
  <2>2. failure' = failure \/ failure' = Error("RegistryUpgradeFailed", "release")
    BY <1>1 DEF Release
  <2>3. registry' # before => Explained(failure')
    BY <2>1, <2>2, UpgradeIsExplained DEF RetryInv, Moved
  <2>. QED
    BY <2>1, <2>3 DEF RetryInv, Stopped, Moved, ExitIsItsCode, Over
<1>2. CASE Emit
  <2>1. at' = "exited" /\ UNCHANGED <<args, registry, failure, before>>
    BY <1>2 DEF Emit
  <2>2. exit' \in {Report'.exit_code, 70}
    BY <1>2, <2>1 DEF Emit, ExitOf, Report
  <2>. QED
    BY <2>1, <2>2 DEF RetryInv, Stopped, Moved, ExitIsItsCode, Over
<1>. QED
  BY <1>1, <1>2

LEMMA StutterKeeps == RetryInv /\ UNCHANGED vars => RetryInv'
BY DEF RetryInv, vars, Stopped, Moved, ExitIsItsCode, Over, Deploying, Report

\* The exit codes of the project, the validation, the history, the lock and
\* the target come only from runs that changed no migration.
LEMMA RetryFollows == RetryInv => RetryIsSafe
<1> SUFFICES ASSUME RetryInv, at = "exited", exit \in 3 .. 7, registry # before
             PROVE  FALSE
  BY DEF RetryIsSafe, Exited, Touched
<1>1. Explained(failure)
  BY DEF RetryInv, Moved
<1>2. exit = Report.exit_code
  BY DEF RetryInv, ExitIsItsCode
<1>3. Report.exit_code \in {0, 8, 9}
  <2>1. CASE failure = NoError
    BY <2>1 DEF Report
  <2>2. CASE failure # NoError
    BY <1>1, <2>2, Exits DEF Report, Explained
  <2>. QED
    BY <2>1, <2>2
<1>. QED
  BY <1>2, <1>3

\* A caller of the program who sees one of these exit codes may simply try
\* again, whatever the project, the registry and the server did.
THEOREM RetriesAreSafe == Spec => []RetryIsSafe
<1>1. RetryInv /\ [Next]_vars => RetryInv'
  BY StagesKeep, DeployKeeps, ReadersKeep, WritersKeep, EndKeeps, StutterKeeps DEF Next
<1>. QED
  BY <1>1, RetryStarts, RetryFollows, PTL DEF Spec

(***************************************************************************)
(* The order of deployment.                                                *)
(***************************************************************************)
LEMMA OrderIs ==
    /\ IsFiniteSet(Migrations)
    /\ \A m \in Migrations : Rank(m) \in DOMAIN Order /\ Rank(m) \in Nat /\ Order[Rank(m)] = m
<1>1. Order \in Seq(Migrations) /\ \A m \in Migrations : \E i \in DOMAIN Order : Order[i] = m
  BY ReportAssumption DEF ToSet
<1>2. Order \in [1 .. Len(Order) -> Migrations] /\ Len(Order) \in Nat /\ DOMAIN Order = 1 .. Len(Order)
  BY <1>1, LenProperties
<1>3. Order \in Surjection(1 .. Len(Order), Migrations)
  BY <1>1, <1>2, Fun_IsSurj
<1>4. IsFiniteSet(1 .. Len(Order))
  BY <1>2, FS_Interval
<1>5. IsFiniteSet(Migrations)
  BY <1>3, <1>4, FS_Surjection
<1>. QED
  BY <1>1, <1>2, <1>5 DEF Rank

LEMMA SomeAreFinite ==
    ASSUME NEW S \in SUBSET Migrations
    PROVE  IsFiniteSet(S) /\ Cardinality(S) \in Nat
BY OrderIs, FS_Subset, FS_CardinalityType

\* One of them has more before it than another that comes earlier.
LEMMA LaterHasMore ==
    ASSUME NEW S \in SUBSET Migrations, NEW m \in S, NEW n \in S, Rank(m) < Rank(n)
    PROVE  Cardinality(UpTo(m, S)) < Cardinality(UpTo(n, S))
<1>1. Rank(m) \in Nat /\ Rank(n) \in Nat /\ \A l \in S : Rank(l) \in Nat
  BY OrderIs
<1>2. UpTo(m, S) \subseteq UpTo(n, S) /\ n \in UpTo(n, S) /\ n \notin UpTo(m, S)
  BY <1>1 DEF UpTo
<1>3. UpTo(n, S) \in SUBSET Migrations /\ UpTo(m, S) \in SUBSET UpTo(n, S)
  BY <1>2 DEF UpTo
<1>4. /\ Cardinality(UpTo(m, S)) <= Cardinality(UpTo(n, S))
      /\ Cardinality(UpTo(n, S)) # Cardinality(UpTo(m, S))
  BY <1>2, <1>3, SomeAreFinite, FS_Subset
<1>5. Cardinality(UpTo(m, S)) \in Nat /\ Cardinality(UpTo(n, S)) \in Nat
  <2>1. UpTo(m, S) \in SUBSET Migrations
    BY DEF UpTo
  <2>. QED
    BY <1>3, <2>1, SomeAreFinite
<1>. QED
  BY <1>4, <1>5

\* The members of S, each of them once, are in a sequence.
IsListOf(list, S) ==
    /\ list \in Seq(S)
    /\ \A m \in S : \E i \in DOMAIN list : list[i] = m
    /\ \A i, j \in DOMAIN list : list[i] = list[j] => i = j

LEMMA OrderedIs ==
    ASSUME NEW S \in SUBSET Migrations
    PROVE  IsListOf(Ordered(S), S)
<1> DEFINE f == [m \in S |-> Cardinality(UpTo(m, S))]
           T == 1 .. Cardinality(S)
<1>1. IsFiniteSet(S) /\ Cardinality(S) \in Nat
  BY SomeAreFinite
<1>2. f \in [S -> T]
  <2> SUFFICES ASSUME NEW m \in S PROVE Cardinality(UpTo(m, S)) \in T
    OBVIOUS
  <2>1. UpTo(m, S) \in SUBSET S /\ m \in UpTo(m, S)
    BY OrderIs DEF UpTo
  <2>2. IsFiniteSet(UpTo(m, S)) /\ Cardinality(UpTo(m, S)) <= Cardinality(S)
    BY <1>1, <2>1, FS_Subset
  <2>3. Cardinality(UpTo(m, S)) \in Nat /\ Cardinality(UpTo(m, S)) # 0
    BY <2>1, <2>2, FS_CardinalityType, FS_EmptySet
  <2>. QED
    BY <1>1, <2>2, <2>3
<1>3. \A m, n \in S : f[m] = f[n] => m = n
  <2> SUFFICES ASSUME NEW m \in S, NEW n \in S, m # n
               PROVE  Cardinality(UpTo(m, S)) # Cardinality(UpTo(n, S))
    OBVIOUS
  <2>1. Rank(m) # Rank(n) /\ Rank(m) \in Nat /\ Rank(n) \in Nat
    BY OrderIs
  <2>2. Cardinality(UpTo(m, S)) \in T /\ Cardinality(UpTo(n, S)) \in T
    BY <1>2
  <2>3. CASE Rank(m) < Rank(n)
    BY <1>1, <2>2, <2>3, LaterHasMore
  <2>4. CASE Rank(n) < Rank(m)
    BY <1>1, <2>2, <2>4, LaterHasMore
  <2>. QED
    BY <2>1, <2>3, <2>4
<1>4. \A i \in T : \E m \in S : f[m] = i
  <2>1. Cardinality(T) = Cardinality(S) /\ IsFiniteSet(T)
    BY <1>1, FS_Interval
  <2> HIDE DEF f, T
  <2>2. f \in Injection(S, T)
    BY <1>2, <1>3, Fun_IsInj
  <2>3. f \in Surjection(S, T)
    BY <2>1, <2>2, FS_Injection
  <2>. QED
    BY <2>3, Fun_SurjectionProperties
<1>5. \A m \in S : f[m] = Cardinality(UpTo(m, S))
  OBVIOUS
<1>6. Ordered(S) = [i \in T |-> CHOOSE m \in S : f[m] = i]
  BY DEF Ordered
<1> HIDE DEF f, T
<1>7. \A i \in T : Ordered(S)[i] \in S /\ f[Ordered(S)[i]] = i
  BY <1>4, <1>6
<1>8. Ordered(S) \in Seq(S) /\ DOMAIN Ordered(S) = T
  <2>1. Ordered(S) \in [T -> S]
    BY <1>6, <1>7
  <2>. QED
    BY <1>1, <2>1, SeqDef DEF T
<1>9. \A m \in S : \E i \in T : Ordered(S)[i] = m
  BY <1>2, <1>3, <1>7
<1>10. \A i, j \in T : Ordered(S)[i] = Ordered(S)[j] => i = j
  BY <1>7
<1>. QED
  BY <1>8, <1>9, <1>10 DEF IsListOf

(***************************************************************************)
(* Types.                                                                  *)
(***************************************************************************)
States == {"pending", "applied", "legacy", "attempt"}
Codes == UNION {CodesOf[x] : x \in DOMAIN CodesOf}
Actions == {"Plan", "Deploy", "Verify", "Revert", "Baseline", "Resolve", "Rehash"}
Statuses == {"Applied", "Pending", "Blocked", "Succeeded", "Failed", "Skipped"}
Remarked == {"warning", "note", "written"}
Doing ==
    DOMAIN Place \cup Local
    \cup {"nothing", "check", "connect", "count", "baseline", "resolve", "rehash", "release"}
Subjects == Migrations \cup ToSet(Files) \cup Doing
AllErrors == [code : Codes \cup {"none"}, about : Subjects]
Entries == [id : Migrations, action : Actions, status : Statuses, error : AllErrors]
TestEntries == [file : ToSet(Files), passed : BOOLEAN, error : AllErrors]
Sessions == [migrations : Seq(Entries), tests : Seq(TestEntries), diagnostics : Seq(Remarked)]

Real(error) == error \in AllErrors /\ (error = NoError \/ error.code \in Codes)

Work == IF args.cmd = "test" THEN ToSet(Files) ELSE Migrations

ReportTypes ==
    /\ args \in [cmd : Commands, dry : BOOLEAN, sound : BOOLEAN, output : {"json", "human", "quiet"}]
    /\ registry \in [Migrations -> States] /\ before \in [Migrations -> States]
    /\ session \in Sessions
    /\ todo \in Seq(Work)
    /\ Real(failure)

LEMMA ClassesAreCodes == ASSUME NEW class \in DOMAIN CodesOf PROVE CodesOf[class] \subseteq Codes
BY DEF Codes

Told ==
    AfterChange \cup CodesOf.history \cup CodesOf.validation
    \cup {"AlreadyExists", "Io", "ConfigInvalid", "SelectorMatchedNothing", "ConnectionFailed", "TargetInvalid"}

LEMMA ToldAreCodes == Told \subseteq Codes
<1> DEFINE classes == {"project", "validation", "history", "registry", "target", "execution"}
<1>1. classes \subseteq DOMAIN CodesOf
  BY DEF CodesOf
<1>2. Told \subseteq UNION {CodesOf[x] : x \in classes}
  BY DEF Told, CodesOf, AfterChange
<1>. QED
  BY <1>1, <1>2 DEF Codes

LEMMA NothingIsReal == Real(NoError)
<1>1. "nothing" \in Subjects
  BY DEF Subjects, Doing
<1>2. NoError \in AllErrors
  BY <1>1 DEF NoError, AllErrors
<1>. QED
  BY <1>2 DEF Real

LEMMA ErrorIsReal ==
    ASSUME NEW code \in Codes, NEW about \in Subjects
    PROVE  Real(Error(code, about)) /\ Error(code, about) # NoError
<1>1. code # "none"
  BY DEF Codes, CodesOf
<1>. QED
  BY <1>1 DEF Real, Error, NoError, AllErrors

LEMMA ErrorsDiffer ==
    ASSUME NEW code, NEW m, NEW n, Error(code, m) = Error(code, n)
    PROVE  m = n
BY DEF Error

LEMMA FailedIsReal ==
    ASSUME NEW code \in Codes \cup {"none"}, NEW about \in Subjects
    PROVE  Real(Failed(code, about)) /\ (Failed(code, about) = NoError <=> code = "none")
<1>1. "none" \notin Codes
  BY DEF Codes, CodesOf
<1>. QED
  BY <1>1, NothingIsReal, ErrorIsReal DEF Failed

LEMMA RealIsError == ASSUME NEW error, Real(error) PROVE error \in AllErrors
BY DEF Real

LEMMA EntryIs ==
    ASSUME NEW m \in Migrations, NEW action \in Actions, NEW status \in Statuses, NEW error \in AllErrors
    PROVE  /\ Entry(m, action, status, error) \in Entries
           /\ Entry(m, action, status, error).id = m
           /\ Entry(m, action, status, error).action = action
           /\ Entry(m, action, status, error).status = status
           /\ Entry(m, action, status, error).error = error
BY DEF Entry, Entries

LEMMA ListIsSeq ==
    ASSUME NEW n \in Nat, NEW T, NEW list \in [1 .. n -> T]
    PROVE  list \in Seq(T) /\ Len(list) = n
BY SeqDef, LenProperties

LEMMA ListedIs ==
    ASSUME NEW S \in SUBSET Migrations, NEW action \in Actions, NEW status \in Statuses
    PROVE  /\ Listed(S, action, status) \in Seq(Entries)
           /\ DOMAIN Listed(S, action, status) = DOMAIN Ordered(S)
           /\ \A i \in DOMAIN Ordered(S) :
                  Ordered(S)[i] \in S
                  /\ Listed(S, action, status)[i] = Entry(Ordered(S)[i], action, status, NoError)
<1>1. Ordered(S) \in Seq(S)
  BY OrderedIs DEF IsListOf
<1>2. Len(Ordered(S)) \in Nat /\ DOMAIN Ordered(S) = 1 .. Len(Ordered(S))
  BY <1>1
<1>3. \A i \in DOMAIN Ordered(S) : Ordered(S)[i] \in S
  BY <1>1
<1>4. NoError \in AllErrors
  BY NothingIsReal DEF Real
<1>5. \A i \in DOMAIN Ordered(S) : Entry(Ordered(S)[i], action, status, NoError) \in Entries
  BY <1>3, <1>4, EntryIs
<1>6. Listed(S, action, status) \in [1 .. Len(Ordered(S)) -> Entries]
  BY <1>2, <1>5 DEF Listed
<1>7. Listed(S, action, status) \in Seq(Entries)
  BY <1>2, <1>6, ListIsSeq
<1>. QED
  BY <1>2, <1>3, <1>7 DEF Listed

LEMMA SessionIs ==
    ASSUME NEW one \in Sessions
    PROVE  /\ one.migrations \in Seq(Entries) /\ one.tests \in Seq(TestEntries)
           /\ one.diagnostics \in Seq(Remarked)
BY DEF Sessions

LEMMA PushTypes ==
    ASSUME session \in Sessions, NEW entries \in Seq(Entries), Push(entries)
    PROVE  /\ session' \in Sessions
           /\ session'.migrations = session.migrations \o entries
           /\ session'.tests = session.tests
<1>1. session.migrations \o entries \in Seq(Entries)
  BY SessionIs, ConcatProperties
<1>2. session' = [session EXCEPT !.migrations = session.migrations \o entries]
  BY DEF Push, Sessions
<1>. QED
  BY <1>1, <1>2 DEF Sessions

LEMMA PushesOne ==
    ASSUME session \in Sessions, NEW entry \in Entries, Push(<<entry>>)
    PROVE  /\ session' \in Sessions
           /\ session'.migrations = session.migrations \o <<entry>>
           /\ session'.tests = session.tests
<1>1. <<entry>> \in Seq(Entries)
  OBVIOUS
<1>. QED
  BY <1>1, PushTypes

LEMMA NoteTypes ==
    ASSUME session \in Sessions, NEW codes \in Seq(Remarked), Note(codes)
    PROVE  /\ session' \in Sessions
           /\ session'.migrations = session.migrations
           /\ session'.tests = session.tests
<1>1. session.diagnostics \o codes \in Seq(Remarked)
  BY SessionIs, ConcatProperties
<1>2. session' = [session EXCEPT !.diagnostics = session.diagnostics \o codes]
  BY DEF Note, Sessions
<1>. QED
  BY <1>1, <1>2 DEF Sessions

LEMMA TypesStart == Init => ReportTypes
<1> SUFFICES ASSUME Init PROVE ReportTypes
  OBVIOUS
<1>1. args \in [cmd : Commands, dry : BOOLEAN, sound : BOOLEAN, output : {"json", "human", "quiet"}]
  BY DEF Init
<1>2. registry \in [Migrations -> States] /\ before \in [Migrations -> States]
  BY DEF Init, States
<1>3. session \in Sessions
  BY DEF Init, NewSession, Sessions
<1>. QED
  BY <1>1, <1>2, <1>3, NothingIsReal DEF Init, ReportTypes

LEMMA TypesStay ==
    ASSUME ReportTypes, UNCHANGED <<args, before>>, todo' \in Seq(Work),
           registry' \in [Migrations -> States], session' \in Sessions, Real(failure')
    PROVE  ReportTypes'
BY DEF ReportTypes, Work

LEMMA TypedIs ==
    ASSUME ReportTypes
    PROVE  /\ session \in Sessions /\ Real(failure) /\ todo \in Seq(Work) /\ args.cmd \in Commands
           /\ registry \in [Migrations -> States] /\ In("pending") \in SUBSET Migrations
           /\ Recorded \in SUBSET Migrations /\ In("attempt") \in SUBSET Migrations
BY DEF ReportTypes, In, Recorded

LEMMA LeaveIs == ASSUME NEW error, Leave(error) PROVE failure' = error
BY DEF Leave

\* What is done next is a migration, or a test file.
LEMMA TailTypes ==
    ASSUME NEW S, NEW list \in Seq(S), list # <<>>
    PROVE  list[1] \in S /\ Tail(list) \in Seq(S)
OBVIOUS

LEMMA RemarksAre == ASSUME NEW r \in Remarks(at) PROVE r \in Seq(Remarked)
<1>1. <<>> \in Seq(Remarked) /\ <<"warning">> \in Seq(Remarked)
  BY DEF Remarked
<1>. QED
  BY <1>1 DEF Remarks

\* The work that begins is what the command acts on.
LEMMA BeginsTypes ==
    ASSUME ReportTypes, Begins
    PROVE  todo' \in Seq(Work)
<1>1. CASE args.cmd = "deploy"
  <2>1. todo' = Ordered(In("pending"))
    BY <1>1 DEF Begins
  <2>2. todo' \in Seq(In("pending")) /\ Work = Migrations
    BY <1>1, <2>1, TypedIs, OrderedIs DEF IsListOf, Work
  <2>. QED
    BY <2>2, TypedIs, SeqMonotonic
<1>2. CASE args.cmd = "verify"
  <2>1. todo' = Ordered(Recorded)
    BY <1>2 DEF Begins
  <2>2. todo' \in Seq(Recorded) /\ Work = Migrations
    BY <1>2, <2>1, TypedIs, OrderedIs DEF IsListOf, Work
  <2>. QED
    BY <2>2, TypedIs, SeqMonotonic
<1>3. CASE args.cmd = "test"
  BY <1>3, ReportAssumption DEF Begins, Work
<1>4. CASE args.cmd \notin {"deploy", "verify", "test"}
  <2>1. todo' = <<>>
    BY <1>4 DEF Begins
  <2>. QED
    BY <2>1
<1>. QED
  BY <1>1, <1>2, <1>3, <1>4

LEMMA StagesKeepTypes ==
    ASSUME ReportTypes, Pass \/ Refuse \/ TestsNothing
    PROVE  ReportTypes'
<1>1. UNCHANGED <<args, registry, before>> /\ session \in Sessions
      /\ registry \in [Migrations -> States] /\ todo \in Seq(Work) /\ Real(failure)
  BY TypedIs DEF Pass, Refuse, TestsNothing
<1>2. CASE Pass
  <2>1. session' \in Sessions
    <3>1. PICK r \in Remarks(at) : Note(r)
      BY <1>2 DEF Pass
    <3>. QED
      BY <1>1, <3>1, RemarksAre, NoteTypes
  <2>2. todo' \in Seq(Work)
    BY <1>1, <1>2, BeginsTypes DEF Pass
  <2>3. failure' = failure
    BY <1>2 DEF Pass
  <2>. QED
    BY <1>1, <2>1, <2>2, <2>3, TypesStay
<1>3. CASE Refuse
  <2>1. PICK c \in Codes, r \in Remarks(at) : Leave(Error(c, at)) /\ Note(r)
    BY <1>3 DEF Refuse, Codes
  <2>2. session' \in Sessions
    BY <1>1, <2>1, RemarksAre, NoteTypes
  <2>3. at \in Subjects
    BY <1>3 DEF Refuse, Stage, Subjects, Doing
  <2>4. Real(failure')
    BY <2>1, <2>3, LeaveIs, ErrorIsReal
  <2>5. todo' = todo
    BY <1>3 DEF Refuse
  <2>. QED
    BY <1>1, <2>2, <2>4, <2>5, TypesStay
<1>4. CASE TestsNothing
  <2>1. UNCHANGED <<session, todo>> /\ failure' = NoError
    BY <1>4, LeaveIs DEF TestsNothing
  <2>. QED
    BY <1>1, <2>1, NothingIsReal, TypesStay
<1>. QED
  BY <1>2, <1>3, <1>4

LEMMA DeployKeepsTypes ==
    ASSUME ReportTypes, DeployPlans \/ DeployOne \/ DeploySkips \/ DeployEnds
    PROVE  ReportTypes'
<1>1. /\ args.cmd = "deploy" /\ Work = Migrations /\ UNCHANGED <<args, before>>
      /\ session \in Sessions /\ registry \in [Migrations -> States]
      /\ todo \in Seq(Migrations) /\ todo \in Seq(Work) /\ Real(failure)
  <2>1. args.cmd = "deploy" /\ UNCHANGED <<args, before>>
    BY DEF DeployPlans, DeployOne, DeploySkips, DeployEnds, Working, Stays
  <2>. QED
    BY <2>1, TypedIs DEF Work
<1>2. CASE DeployPlans
  <2>1. ToSet(todo) \in SUBSET Migrations
    BY <1>1 DEF ToSet
  <2>2. "Plan" \in Actions /\ "Pending" \in Statuses
    BY DEF Actions, Statuses
  <2>3. Listed(ToSet(todo), "Plan", "Pending") \in Seq(Entries)
    BY <2>1, <2>2, ListedIs
  <2>4. session' \in Sessions
    BY <1>1, <1>2, <2>3, PushTypes DEF DeployPlans
  <2>5. UNCHANGED <<registry, todo>> /\ failure' = NoError
    BY <1>2, LeaveIs DEF DeployPlans, Stays
  <2>. QED
    BY <1>1, <2>4, <2>5, NothingIsReal, TypesStay
<1>3. CASE DeployOne
  <2>1. todo[1] \in Migrations /\ todo' \in Seq(Work)
    BY <1>1, <1>3, TailTypes DEF DeployOne
  <2>2. PICK o \in DeployOutcomes :
          /\ registry' = [registry EXCEPT ![todo[1]] = o.now]
          /\ failure' = Failed(o.code, todo[1])
          /\ Push(<<Entry(todo[1], "Deploy", o.status, failure')>>)
    BY <1>3 DEF DeployOne
  <2>3. o.now \in States /\ o.status \in Statuses
    BY <2>2 DEF DeployOutcomes, States, Statuses
  <2>4. o.code \in Codes \cup {"none"}
    <3>1. o.code \in Told \cup {"none"}
      <4>1. Unsound \subseteq Told
        BY DEF Unsound, Told, CodesOf
      <4>2. VerifyErrors \subseteq Told
        BY <4>1 DEF VerifyErrors, Told, AfterChange
      <4>. QED
        BY <2>2, <4>2 DEF DeployOutcomes, Told, AfterChange
    <3>. QED
      BY <3>1, ToldAreCodes
  <2>5. Real(failure')
    BY <2>1, <2>2, <2>4, FailedIsReal DEF Subjects
  <2>6. "Deploy" \in Actions
    BY DEF Actions
  <2>7. Entry(todo[1], "Deploy", o.status, failure') \in Entries
    BY <2>1, <2>3, <2>5, <2>6, RealIsError, EntryIs
  <2>8. session' \in Sessions
    BY <1>1, <2>2, <2>7, PushesOne
  <2>9. registry' \in [Migrations -> States]
    BY <1>1, <2>2, <2>3
  <2>. QED
    BY <1>1, <2>1, <2>5, <2>8, <2>9, TypesStay
<1>4. CASE DeploySkips
  <2>1. todo[1] \in Migrations /\ todo' \in Seq(Work)
    BY <1>1, <1>4, TailTypes DEF DeploySkips
  <2>2. "Plan" \in Actions /\ "Skipped" \in Statuses
    BY DEF Actions, Statuses
  <2>3. Entry(todo[1], "Plan", "Skipped", NoError) \in Entries
    BY <2>1, <2>2, NothingIsReal, RealIsError, EntryIs
  <2>4. session' \in Sessions
    BY <1>1, <1>4, <2>3, PushesOne DEF DeploySkips
  <2>5. UNCHANGED <<registry, failure>>
    BY <1>4 DEF DeploySkips
  <2>. QED
    BY <1>1, <2>1, <2>4, <2>5, TypesStay
<1>5. CASE DeployEnds
  <2>1. UNCHANGED <<registry, session, todo>> /\ failure' = failure
    BY <1>5, LeaveIs DEF DeployEnds, Stays
  <2>. QED
    BY <1>1, <2>1, TypesStay
<1>. QED
  BY <1>2, <1>3, <1>4, <1>5

LEMMA LocalKeepsTypes ==
    ASSUME ReportTypes, LocalWork
    PROVE  ReportTypes'
<1>1. UNCHANGED <<args, before, registry, todo>> /\ session \in Sessions
      /\ registry \in [Migrations -> States] /\ todo \in Seq(Work)
  BY TypedIs DEF LocalWork, Stays
<1>2. session' \in Sessions
  <2>1. PICK r \in LocalRemarks : Note(r)
    BY DEF LocalWork
  <2>2. r \in Seq(Remarked)
    <3>1. \A x \in Remarked : <<x>> \in Seq(Remarked)
      OBVIOUS
    <3>2. <<>> \in Seq(Remarked)
      OBVIOUS
    <3>. QED
      BY <3>1, <3>2 DEF LocalRemarks, Remarked
  <2>. QED
    BY <1>1, <2>1, <2>2, NoteTypes
<1>3. Real(failure')
  <2>1. CASE Leave(NoError)
    BY <2>1, LeaveIs, NothingIsReal
  <2>2. ASSUME NEW c \in LocalRefusals, Leave(Error(c, args.cmd))
        PROVE  Real(failure')
    <3>1. c \in Told
      BY <2>2 DEF LocalRefusals, Told, CodesOf
    <3>2. args.cmd \in Subjects
      BY DEF LocalWork, Subjects, Doing
    <3>. QED
      BY <2>2, <3>1, <3>2, ToldAreCodes, LeaveIs, ErrorIsReal
  <2>. QED
    BY <2>1, <2>2 DEF LocalWork
<1>. QED
  BY <1>1, <1>2, <1>3, TypesStay

\* What status says of the migrations, and of how many it warns.
Warned == [i \in 1 .. Len(Ordered(In("attempt"))) |-> "warning"]
Statused ==
    Listed(Recorded, "Plan", "Applied") \o Listed(In("pending"), "Plan", "Pending")
        \o Listed(In("attempt"), "Plan", "Blocked")

LEMMA StatusLists ==
    ASSUME ReportTypes
    PROVE  Warned \in Seq(Remarked) /\ Statused \in Seq(Entries)
<1>1. In("attempt") \in SUBSET Migrations /\ In("pending") \in SUBSET Migrations
      /\ Recorded \in SUBSET Migrations
  BY TypedIs
<1>2. Warned \in Seq(Remarked)
  <2>1. Ordered(In("attempt")) \in Seq(In("attempt"))
    BY <1>1, OrderedIs DEF IsListOf
  <2>2. Len(Ordered(In("attempt"))) \in Nat
    BY <2>1, LenProperties
  <2>3. Warned \in [1 .. Len(Ordered(In("attempt"))) -> Remarked]
    BY DEF Warned, Remarked
  <2>. QED
    BY <2>2, <2>3, ListIsSeq
<1>3. "Plan" \in Actions /\ {"Applied", "Pending", "Blocked"} \subseteq Statuses
  BY DEF Actions, Statuses
<1>4. /\ Listed(Recorded, "Plan", "Applied") \in Seq(Entries)
      /\ Listed(In("pending"), "Plan", "Pending") \in Seq(Entries)
      /\ Listed(In("attempt"), "Plan", "Blocked") \in Seq(Entries)
  BY <1>1, <1>3, ListedIs
<1>. QED
  BY <1>2, <1>4, ConcatProperties DEF Statused

LEMMA StatusIs ==
    ASSUME ReportTypes, StatusWork
    PROVE  /\ UNCHANGED <<args, before, registry, todo>> /\ Working("status")
           /\ \/ /\ session' = [session EXCEPT !.diagnostics = session.diagnostics \o Warned,
                                               !.migrations = Statused]
                 /\ Leave(NoError)
              \/ Note(Warned) /\ \E c \in CodesOf.history : Leave(Error(c, "check"))
<1>1. UNCHANGED <<args, before, registry, todo>> /\ Working("status")
  BY DEF StatusWork, Stays
<1>. QED
  BY <1>1, TypedIs DEF StatusWork, Warned, Statused, Sessions

LEMMA StatusKeepsTypes ==
    ASSUME ReportTypes, StatusWork
    PROVE  ReportTypes'
<1>1. UNCHANGED <<args, before, registry, todo>> /\ session \in Sessions
      /\ registry \in [Migrations -> States] /\ todo \in Seq(Work)
  BY StatusIs, TypedIs
<1>2. CASE /\ session' = [session EXCEPT !.diagnostics = session.diagnostics \o Warned,
                                         !.migrations = Statused]
           /\ Leave(NoError)
  <2>1. session.diagnostics \o Warned \in Seq(Remarked)
    BY <1>1, SessionIs, StatusLists, ConcatProperties
  <2>2. session' \in Sessions
    BY <1>1, <1>2, <2>1, StatusLists DEF Sessions
  <2>. QED
    BY <1>1, <1>2, <2>2, LeaveIs, NothingIsReal, TypesStay
<1>3. CASE Note(Warned) /\ \E c \in CodesOf.history : Leave(Error(c, "check"))
  <2>1. session' \in Sessions
    BY <1>1, <1>3, StatusLists, NoteTypes
  <2>2. PICK c \in CodesOf.history : Leave(Error(c, "check"))
    BY <1>3
  <2>3. c \in Codes
    BY ToldAreCodes DEF Told
  <2>4. "check" \in Subjects
    BY DEF Subjects, Doing
  <2>. QED
    BY <1>1, <2>1, <2>2, <2>3, <2>4, LeaveIs, ErrorIsReal, TypesStay
<1>. QED
  BY <1>2, <1>3, StatusIs

LEMMA VerifyErrorsAre == VerifyErrors \subseteq Codes
<1>1. Unsound \subseteq Told
  BY DEF Unsound, Told, CodesOf
<1>2. VerifyErrors \subseteq Told
  BY <1>1 DEF VerifyErrors, Told, AfterChange
<1>. QED
  BY <1>2, ToldAreCodes

LEMMA VerifyKeepsTypes ==
    ASSUME ReportTypes, VerifyOne \/ VerifyEnds
    PROVE  ReportTypes'
<1>1. /\ UNCHANGED <<args, before, registry>> /\ session \in Sessions
      /\ registry \in [Migrations -> States] /\ todo \in Seq(Work)
      /\ todo \in Seq(Migrations) /\ Real(failure)
  <2>1. args.cmd = "verify" /\ UNCHANGED <<args, before, registry>>
    BY DEF VerifyOne, VerifyEnds, Working, Stays
  <2>. QED
    BY <2>1, TypedIs DEF Work
<1>2. CASE VerifyOne
  <2>1. todo[1] \in Migrations /\ todo' \in Seq(Work)
    BY <1>1, <1>2, TailTypes DEF VerifyOne
  <2>2. "Verify" \in Actions /\ {"Succeeded", "Skipped", "Failed"} \subseteq Statuses
    BY DEF Actions, Statuses
  <2>3. CASE UNCHANGED <<session, failure, at>>
    BY <1>1, <2>1, <2>3, TypesStay
  <2>4. CASE (\E s \in {"Succeeded", "Skipped"} : Push(<<Entry(todo[1], "Verify", s, NoError)>>))
             /\ UNCHANGED <<failure, at>>
    <3>1. PICK s \in {"Succeeded", "Skipped"} : Push(<<Entry(todo[1], "Verify", s, NoError)>>)
      BY <2>4
    <3>2. Entry(todo[1], "Verify", s, NoError) \in Entries
      BY <2>1, <2>2, NothingIsReal, RealIsError, EntryIs
    <3>. QED
      BY <1>1, <2>1, <2>4, <3>1, <3>2, PushesOne, TypesStay
  <2>5. ASSUME NEW c \in VerifyErrors, Leave(Error(c, todo[1])),
               Push(<<Entry(todo[1], "Verify", "Failed", failure')>>)
        PROVE  ReportTypes'
    <3>1. Real(failure')
      BY <2>1, <2>5, LeaveIs, VerifyErrorsAre, ErrorIsReal DEF Subjects
    <3>2. Entry(todo[1], "Verify", "Failed", failure') \in Entries
      BY <2>1, <2>2, <3>1, RealIsError, EntryIs
    <3>. QED
      BY <1>1, <2>1, <2>5, <3>1, <3>2, PushesOne, TypesStay
  <2>. QED
    BY <1>2, <2>3, <2>4, <2>5 DEF VerifyOne
<1>3. CASE VerifyEnds
  BY <1>1, <1>3, LeaveIs, NothingIsReal, TypesStay DEF VerifyEnds, Stays
<1>. QED
  BY <1>2, <1>3

\* What a test file may come to, and how a suite may stop.
LEMMA TestEntryIs ==
    ASSUME NEW file \in ToSet(Files),
           NEW c \in {"none", "assertions", "VerifyFailed", "ScriptTransactionControl", "RegistryUpgradeFailed"}
    PROVE  /\ TestEntry(file, c) \in TestEntries
           /\ TestEntry(file, c).error # NoError => TestEntry(file, c).error.about = file
<1>1. file \in Subjects
  BY DEF Subjects
<1>2. CASE c = "assertions"
  BY <1>2, NothingIsReal, RealIsError DEF TestEntry, TestEntries
<1>3. CASE c # "assertions"
  <2>1. c \in Told \cup {"none"}
    BY <1>3 DEF Told, AfterChange, CodesOf
  <2>2. c \in Codes \cup {"none"}
    BY <2>1, ToldAreCodes
  <2>3. Real(Failed(c, file))
    BY <1>1, <2>2, FailedIsReal
  <2>4. TestEntry(file, c).error = Failed(c, file)
    BY <1>3 DEF TestEntry
  <2>5. TestEntry(file, c) \in TestEntries
    BY <1>3, <2>3, RealIsError DEF TestEntry, TestEntries
  <2>. QED
    BY <2>4, <2>5 DEF Failed, Error
<1>. QED
  BY <1>2, <1>3

LEMMA TestIs ==
    ASSUME ReportTypes, TestOne
    PROVE  \/ /\ session' \in Sessions /\ todo' \in Seq(Work)
              /\ UNCHANGED <<at, failure>>
              /\ session'.migrations = session.migrations
              /\ \E entry \in TestEntries :
                    /\ session'.tests = Append(session.tests, entry)
                    /\ entry.error # NoError => entry.error.about \in ToSet(Files)
           \/ /\ UNCHANGED <<session, todo>> /\ Real(failure')
              /\ failure'.about = "connect"
              /\ \E error : Leave(error)
<1>1. args.cmd = "test" /\ todo # <<>> /\ session \in Sessions /\ todo \in Seq(Work)
  BY TypedIs DEF TestOne, Working
<1>2. todo[1] \in ToSet(Files) /\ Tail(todo) \in Seq(Work)
  <2>1. todo[1] \in Work /\ Tail(todo) \in Seq(Work)
    BY <1>1, TailTypes
  <2>. QED
    BY <1>1, <2>1 DEF Work
<1>3. ASSUME NEW c \in {"none", "assertions", "VerifyFailed", "ScriptTransactionControl", "RegistryUpgradeFailed"},
             NEW advanced \in {<<>>, <<"warning">>},
             session' = [session EXCEPT
                    !.diagnostics = @ \o advanced,
                    !.tests = Append(@, TestEntry(todo[1], c))]
      PROVE  /\ session' \in Sessions
             /\ session'.migrations = session.migrations
             /\ \E entry \in TestEntries :
                    /\ session'.tests = Append(session.tests, entry)
                    /\ entry.error # NoError => entry.error.about \in ToSet(Files)
  <2> DEFINE entry == TestEntry(todo[1], c)
  <2>1. entry \in TestEntries /\ (entry.error # NoError => entry.error.about \in ToSet(Files))
    BY <1>2, TestEntryIs
  <2> HIDE DEF entry
  <2>2. advanced \in Seq(Remarked)
    <3>1. <<>> \in Seq(Remarked) /\ <<"warning">> \in Seq(Remarked)
      BY DEF Remarked
    <3>. QED
      BY <3>1
  <2>3. session.diagnostics \o advanced \in Seq(Remarked)
    BY <1>1, <2>2, SessionIs, ConcatProperties
  <2>4. Append(session.tests, entry) \in Seq(TestEntries)
    BY <1>1, <2>1, SessionIs, AppendProperties
  <2>5. session' = [session EXCEPT !.diagnostics = session.diagnostics \o advanced,
                                   !.tests = Append(session.tests, entry)]
    BY <1>1, <1>3 DEF Sessions, entry
  <2>6. /\ session' \in Sessions /\ session'.migrations = session.migrations
        /\ session'.tests = Append(session.tests, entry)
    BY <1>1, <2>3, <2>4, <2>5 DEF Sessions
  <2>. QED
    BY <2>1, <2>6
<1>4. ASSUME NEW c \in {"ConnectionFailed", "TargetInvalid"}, Leave(Error(c, "connect"))
      PROVE  Real(failure') /\ failure'.about = "connect" /\ \E error : Leave(error)
  <2>1. c \in Codes
    BY ToldAreCodes DEF Told
  <2>2. "connect" \in Subjects
    BY DEF Subjects, Doing
  <2>3. failure' = Error(c, "connect")
    BY <1>4, LeaveIs
  <2>4. failure'.about = "connect"
    BY <2>3 DEF Error
  <2>. QED
    BY <1>4, <2>1, <2>2, <2>3, <2>4, ErrorIsReal
<1>. QED
  BY <1>2, <1>3, <1>4 DEF TestOne

LEMMA TestKeepsTypes ==
    ASSUME ReportTypes, TestOne \/ TestEnds
    PROVE  ReportTypes'
<1>1. /\ UNCHANGED <<args, before, registry>> /\ session \in Sessions
      /\ registry \in [Migrations -> States] /\ todo \in Seq(Work) /\ Real(failure)
  BY TypedIs DEF TestOne, TestEnds, Stays
<1>2. CASE TestOne
  BY <1>1, <1>2, TestIs, TypesStay
<1>3. CASE TestEnds
  <2>1. UNCHANGED <<session, todo>>
    BY <1>3 DEF TestEnds, Stays
  <2>2. failure' = NoError \/ failure' = Error("VerifyFailed", "count")
    BY <1>3, LeaveIs DEF TestEnds
  <2>3. "VerifyFailed" \in Codes
    BY ToldAreCodes DEF Told, AfterChange
  <2>4. "count" \in Subjects
    BY DEF Subjects, Doing
  <2>. QED
    BY <1>1, <2>1, <2>2, <2>3, <2>4, NothingIsReal, ErrorIsReal, TypesStay
<1>. QED
  BY <1>2, <1>3

LEMMA UpgradeIsReal ==
    ASSUME NEW about \in Subjects PROVE Real(Error("RegistryUpgradeFailed", about))
<1>1. "RegistryUpgradeFailed" \in Codes
  BY ToldAreCodes DEF Told, AfterChange
<1>. QED
  BY <1>1, ErrorIsReal

(***************************************************************************)
(* What the commands that write the registry once may come to: what they   *)
(* report, what the registry then says, and how they end.                  *)
(***************************************************************************)
Only(m, now) == [registry EXCEPT ![m] = now]

LEMMA RevertIs ==
    ASSUME ReportTypes, RevertWork
    PROVE  \E m \in Recorded, status \in {"Succeeded", "Failed"} :
              /\ Push(<<Entry(m, "Revert", status, failure')>>) /\ Leave(failure')
              /\ Real(failure') /\ (failure' = NoError <=> status = "Succeeded")
              /\ registry' \in {registry, Only(m, "pending")}
              /\ status = "Succeeded" => registry' = Only(m, "pending")
<1>1. PICK m \in Recorded :
        \/ /\ registry' = [registry EXCEPT ![m] = "pending"] /\ Leave(NoError)
           /\ Push(<<Entry(m, "Revert", "Succeeded", NoError)>>)
        \/ /\ \E c \in {"RevertFailed"} \cup (VerifyErrors \ {"VerifyFailed"}) :
                /\ Leave(Error(c, m))
                /\ registry' \in {registry} \cup
                    (IF c = "RegistryUpgradeFailed" THEN {[registry EXCEPT ![m] = "pending"]} ELSE {})
           /\ Push(<<Entry(m, "Revert", "Failed", failure')>>)
  BY DEF RevertWork
<1>2. CASE /\ registry' = [registry EXCEPT ![m] = "pending"] /\ Leave(NoError)
           /\ Push(<<Entry(m, "Revert", "Succeeded", NoError)>>)
  BY <1>2, LeaveIs, NothingIsReal DEF Only
<1>3. ASSUME NEW c \in {"RevertFailed"} \cup (VerifyErrors \ {"VerifyFailed"}), Leave(Error(c, m)),
             registry' \in {registry} \cup
                (IF c = "RegistryUpgradeFailed" THEN {[registry EXCEPT ![m] = "pending"]} ELSE {}),
             Push(<<Entry(m, "Revert", "Failed", failure')>>)
      PROVE  /\ Push(<<Entry(m, "Revert", "Failed", failure')>>) /\ Leave(failure')
             /\ Real(failure') /\ failure' # NoError
             /\ registry' \in {registry, Only(m, "pending")}
  <2>1. c \in Codes
    <3>1. "RevertFailed" \in Codes
      BY ToldAreCodes DEF Told, AfterChange
    <3>. QED
      BY <3>1, VerifyErrorsAre
  <2>2. m \in Subjects
    BY TypedIs DEF Subjects
  <2>3. failure' = Error(c, m)
    BY <1>3, LeaveIs
  <2>. QED
    BY <1>3, <2>1, <2>2, <2>3, ErrorIsReal DEF Only
<1>. QED
  BY <1>1, <1>2, <1>3

\* How such a command ends, having added these entries to its session.
EndsWith(new) ==
    /\ session' \in Sessions
    /\ session'.migrations = session.migrations \o new /\ session'.tests = session.tests
    /\ registry' \in [Migrations -> States]
    /\ Real(failure') /\ Leave(failure')

\* They claim no change that was not made and, when it succeeds, every change
\* that was.
Claims(new) ==
    /\ \A i \in DOMAIN new :
        /\ new[i].action \notin {"Plan", "Verify"}
        /\ new[i].status = "Succeeded" => registry'[new[i].id] # registry[new[i].id]
    /\ failure' = NoError =>
        \A m \in Migrations : registry'[m] # registry[m] =>
            \E i \in DOMAIN new : new[i].id = m /\ new[i].status = "Succeeded"

\* No two of them show the same error, and none does when it succeeds.
Blames(new) ==
    /\ failure' = NoError => \A i \in DOMAIN new : new[i].error = NoError
    /\ \A i, j \in DOMAIN new : new[i].error # NoError /\ new[i].error = new[j].error => i = j

LEMMA OneEntry ==
    ASSUME NEW entry \in Entries
    PROVE  <<entry>> \in Seq(Entries) /\ DOMAIN <<entry>> = {1} /\ <<entry>>[1] = entry
OBVIOUS

LEMMA RevertTells ==
    ASSUME ReportTypes, RevertWork
    PROVE  \E new \in Seq(Entries) : EndsWith(new) /\ Claims(new) /\ Blames(new)
<1>1. session \in Sessions /\ registry \in [Migrations -> States]
  BY TypedIs
<1>2. PICK m \in Recorded, status \in {"Succeeded", "Failed"} :
        /\ Push(<<Entry(m, "Revert", status, failure')>>) /\ Leave(failure')
        /\ Real(failure') /\ (failure' = NoError <=> status = "Succeeded")
        /\ registry' \in {registry, Only(m, "pending")}
        /\ status = "Succeeded" => registry' = Only(m, "pending")
  BY RevertIs
<1>3. m \in Migrations /\ registry[m] # "pending"
  BY DEF Recorded, In
<1> DEFINE entry == Entry(m, "Revert", status, failure')
<1>4. /\ entry \in Entries /\ entry.id = m /\ entry.action = "Revert"
      /\ entry.status = status /\ entry.error = failure'
  <2>1. "Revert" \in Actions /\ status \in Statuses /\ failure' \in AllErrors
    BY <1>2, RealIsError DEF Actions, Statuses
  <2>. QED
    BY <1>3, <2>1, EntryIs
<1>5. Push(<<entry>>)
  BY <1>2
<1> HIDE DEF entry
<1>6. registry' \in [Migrations -> States] /\ \A n \in Migrations : registry'[n] # registry[n] => n = m
  BY <1>1, <1>2 DEF Only, States
<1>7. status = "Succeeded" => registry'[m] # registry[m]
  BY <1>1, <1>2, <1>3 DEF Only
<1>8. <<entry>> \in Seq(Entries) /\ DOMAIN <<entry>> = {1} /\ <<entry>>[1] = entry
  BY <1>4, OneEntry
<1>9. EndsWith(<<entry>>)
  BY <1>1, <1>2, <1>4, <1>5, <1>6, PushesOne DEF EndsWith
<1>10. Claims(<<entry>>)
  BY <1>2, <1>4, <1>6, <1>7, <1>8 DEF Claims
<1>11. Blames(<<entry>>)
  BY <1>4, <1>8 DEF Blames
<1>. QED
  BY <1>8, <1>9, <1>10, <1>11

\* A baseline records the migrations S, or fails, perhaps after its commit.
LEMMA BaselineTells ==
    ASSUME ReportTypes, BaselineWork
    PROVE  \E new \in Seq(Entries) : EndsWith(new) /\ Claims(new) /\ Blames(new)
<1> DEFINE all(S) == [m \in Migrations |-> IF m \in S THEN "applied" ELSE registry[m]]
           Ends(S, ok) ==
              /\ registry' \in (IF ok THEN {all(S)} ELSE {registry, all(S)})
              /\ Push(BaselineReport(S, ok))
              /\ Leave(IF ok THEN NoError ELSE Error("RegistryUpgradeFailed", "baseline"))
<1>1. session \in Sessions /\ registry \in [Migrations -> States]
  BY TypedIs
<1>2. PICK S \in SUBSET In("pending"), ok \in BOOLEAN : Ends(S, ok)
  BY DEF BaselineWork
<1>3. S \in SUBSET Migrations /\ \A m \in S : registry[m] = "pending"
  BY DEF In
<1>4. registry' \in [Migrations -> States]
  BY <1>1, <1>2 DEF States
<1>5. CASE ok
  <2> DEFINE new == Listed(S, "Baseline", "Succeeded")
  <2>1. "Baseline" \in Actions /\ "Succeeded" \in Statuses
    BY DEF Actions, Statuses
  <2>2. new \in Seq(Entries) /\ DOMAIN new = DOMAIN Ordered(S)
    BY <1>3, <2>1, ListedIs
  <2>3. \A i \in DOMAIN new : /\ Ordered(S)[i] \in S /\ new[i].id = Ordered(S)[i]
                              /\ new[i].action = "Baseline" /\ new[i].status = "Succeeded"
                              /\ new[i].error = NoError
    <3> SUFFICES ASSUME NEW i \in DOMAIN Ordered(S)
                 PROVE  /\ Ordered(S)[i] \in S /\ new[i].id = Ordered(S)[i]
                        /\ new[i].action = "Baseline" /\ new[i].status = "Succeeded"
                        /\ new[i].error = NoError
      BY <2>2
    <3>1. Ordered(S)[i] \in S /\ new[i] = Entry(Ordered(S)[i], "Baseline", "Succeeded", NoError)
      BY <1>3, <2>1, ListedIs
    <3>2. Ordered(S)[i] \in Migrations /\ NoError \in AllErrors
      BY <1>3, <3>1, NothingIsReal, RealIsError
    <3> HIDE DEF new
    <3>. QED
      BY <2>1, <3>1, <3>2, EntryIs
  <2>4. \A m \in S : \E i \in DOMAIN new : Ordered(S)[i] = m
    BY <1>3, <2>2, OrderedIs DEF IsListOf
  <2>5. Push(new) /\ failure' = NoError /\ Leave(failure')
    BY <1>2, <1>5, LeaveIs DEF BaselineReport
  <2>6. registry' = all(S)
    BY <1>2, <1>5
  <2> HIDE DEF new
  <2>7. EndsWith(new)
    BY <1>1, <1>4, <2>2, <2>5, PushTypes, NothingIsReal DEF EndsWith
  <2>8. \A m \in Migrations : registry'[m] # registry[m] <=> m \in S
    BY <1>1, <1>3, <2>6
  <2>9. Claims(new)
    BY <1>3, <2>3, <2>4, <2>8 DEF Claims
  <2>10. Blames(new)
    BY <2>3 DEF Blames
  <2>. QED
    BY <2>2, <2>7, <2>9, <2>10
<1>6. CASE ~ok
  <2>1. Push(<<>>) /\ failure' = Error("RegistryUpgradeFailed", "baseline") /\ Leave(failure')
    BY <1>2, <1>6, LeaveIs DEF BaselineReport
  <2>2. "baseline" \in Subjects
    BY DEF Subjects, Doing
  <2>3. Real(failure') /\ failure' # NoError
    BY <2>1, <2>2, UpgradeIsReal DEF Error, NoError
  <2>4. <<>> \in Seq(Entries) /\ DOMAIN <<>> = {}
    OBVIOUS
  <2>5. EndsWith(<<>>)
    BY <1>1, <1>4, <2>1, <2>3, <2>4, PushTypes DEF EndsWith
  <2>6. Claims(<<>>) /\ Blames(<<>>)
    BY <2>3, <2>4 DEF Claims, Blames
  <2>. QED
    BY <2>4, <2>5, <2>6
<1>. QED
  BY <1>5, <1>6

LEMMA ResolveTells ==
    ASSUME ReportTypes, ResolveWork
    PROVE  \E new \in Seq(Entries) : EndsWith(new) /\ Claims(new) /\ Blames(new)
<1>1. session \in Sessions /\ registry \in [Migrations -> States]
  BY TypedIs
<1>2. PICK m \in In("attempt"), now \in {"applied", "pending"}, ok \in BOOLEAN :
        /\ IF ok
           THEN session' = [session EXCEPT !.migrations = @ \o <<Entry(m, "Resolve", "Succeeded", NoError)>>,
                                           !.diagnostics = @ \o <<"warning">>]
           ELSE UNCHANGED session
        /\ registry' \in {[registry EXCEPT ![m] = now]} \cup (IF ok THEN {} ELSE {registry})
        /\ Leave(IF ok THEN NoError ELSE Error("RegistryUpgradeFailed", "resolve"))
  BY DEF ResolveWork
<1>3. m \in Migrations /\ registry[m] = "attempt"
  BY DEF In
<1>4. registry' \in [Migrations -> States] /\ \A n \in Migrations : registry'[n] # registry[n] => n = m
  BY <1>1, <1>2 DEF States
<1>5. CASE ok
  <2> DEFINE entry == Entry(m, "Resolve", "Succeeded", NoError)
  <2>1. /\ entry \in Entries /\ entry.id = m /\ entry.action = "Resolve"
        /\ entry.status = "Succeeded" /\ entry.error = NoError
    <3>1. "Resolve" \in Actions /\ "Succeeded" \in Statuses /\ NoError \in AllErrors
      BY NothingIsReal, RealIsError DEF Actions, Statuses
    <3>. QED
      BY <1>3, <3>1, EntryIs
  <2>2. session' = [session EXCEPT !.migrations = session.migrations \o <<entry>>,
                                   !.diagnostics = session.diagnostics \o <<"warning">>]
    BY <1>1, <1>2, <1>5 DEF Sessions
  <2>3. failure' = NoError /\ Leave(failure')
    BY <1>2, <1>5, LeaveIs
  <2>4. registry'[m] # registry[m]
    BY <1>1, <1>2, <1>3, <1>5
  <2> HIDE DEF entry
  <2>5. <<entry>> \in Seq(Entries) /\ DOMAIN <<entry>> = {1} /\ <<entry>>[1] = entry
    BY <2>1, OneEntry
  <2>6. <<"warning">> \in Seq(Remarked)
    BY DEF Remarked
  <2>7. /\ session.migrations \o <<entry>> \in Seq(Entries)
        /\ session.diagnostics \o <<"warning">> \in Seq(Remarked)
    BY <1>1, <2>5, <2>6, SessionIs, ConcatProperties
  <2>8. /\ session' \in Sessions /\ session'.tests = session.tests
        /\ session'.migrations = session.migrations \o <<entry>>
    BY <1>1, <2>2, <2>7 DEF Sessions
  <2>9. EndsWith(<<entry>>)
    BY <1>4, <2>3, <2>8, NothingIsReal DEF EndsWith
  <2>10. Claims(<<entry>>)
    BY <1>4, <2>1, <2>4, <2>5 DEF Claims
  <2>11. Blames(<<entry>>)
    BY <2>1, <2>5 DEF Blames
  <2>. QED
    BY <2>5, <2>9, <2>10, <2>11
<1>6. CASE ~ok
  <2>1. session' = session /\ failure' = Error("RegistryUpgradeFailed", "resolve") /\ Leave(failure')
    BY <1>2, <1>6, LeaveIs
  <2>2. "resolve" \in Subjects
    BY DEF Subjects, Doing
  <2>3. Real(failure') /\ failure' # NoError
    BY <2>1, <2>2, UpgradeIsReal DEF Error, NoError
  <2>4. <<>> \in Seq(Entries) /\ DOMAIN <<>> = {} /\ session.migrations \o <<>> = session.migrations
    BY <1>1, SessionIs, ConcatEmptySeq
  <2>5. EndsWith(<<>>)
    BY <1>1, <1>4, <2>1, <2>3, <2>4 DEF EndsWith
  <2>6. Claims(<<>>) /\ Blames(<<>>)
    BY <2>3, <2>4 DEF Claims, Blames
  <2>. QED
    BY <2>4, <2>5, <2>6
<1>. QED
  BY <1>5, <1>6

\* What a rehash says of the i-th of the migrations that are recorded.
LEMMA RehashReportIs ==
    ASSUME ReportTypes, NEW bad \in SUBSET Recorded, NEW committed \in BOOLEAN
    PROVE  LET list == Ordered(Recorded)
               new == RehashReport(bad, committed)
           IN  /\ new \in Seq(Entries) /\ DOMAIN new = DOMAIN list
               /\ \A i \in DOMAIN list :
                    /\ list[i] \in Recorded /\ new[i].id = list[i] /\ new[i].action = "Rehash"
                    /\ new[i].status = "Succeeded" <=>
                            committed /\ list[i] \notin bad /\ registry[list[i]] # "applied"
                    /\ new[i].error =
                            IF list[i] \in bad THEN Error("HistoryDefinitionChanged", list[i]) ELSE NoError
<1> DEFINE list == Ordered(Recorded)
           new == RehashReport(bad, committed)
<1>1. list \in Seq(Recorded) /\ Len(list) \in Nat /\ DOMAIN list = 1 .. Len(list)
  BY TypedIs, OrderedIs DEF IsListOf
<1>2. new = [i \in 1 .. Len(list) |->
        IF list[i] \in bad THEN Entry(list[i], "Rehash", "Blocked", Error("HistoryDefinitionChanged", list[i]))
        ELSE Entry(list[i], "Rehash", IF registry[list[i]] = "applied" THEN "Applied"
                                      ELSE IF committed THEN "Succeeded" ELSE "Skipped", NoError)]
  BY DEF RehashReport
<1> HIDE DEF new, list
<1>3. \A i \in DOMAIN list :
        /\ list[i] \in Recorded /\ new[i] \in Entries /\ new[i].id = list[i] /\ new[i].action = "Rehash"
        /\ new[i].status = "Succeeded" <=> committed /\ list[i] \notin bad /\ registry[list[i]] # "applied"
        /\ new[i].error = IF list[i] \in bad THEN Error("HistoryDefinitionChanged", list[i]) ELSE NoError
  <2> SUFFICES ASSUME NEW i \in DOMAIN list
      PROVE
        /\ list[i] \in Recorded /\ new[i] \in Entries /\ new[i].id = list[i] /\ new[i].action = "Rehash"
        /\ new[i].status = "Succeeded" <=> committed /\ list[i] \notin bad /\ registry[list[i]] # "applied"
        /\ new[i].error = IF list[i] \in bad THEN Error("HistoryDefinitionChanged", list[i]) ELSE NoError
    OBVIOUS
  <2>1. list[i] \in Recorded /\ list[i] \in Migrations
    <3>1. list[i] \in Recorded
      BY <1>1
    <3>. QED
      BY <3>1, TypedIs
  <2>2. "Rehash" \in Actions /\ {"Blocked", "Applied", "Succeeded", "Skipped"} \subseteq Statuses
    BY DEF Actions, Statuses
  <2>3. CASE list[i] \in bad
    <3>1. new[i] = Entry(list[i], "Rehash", "Blocked", Error("HistoryDefinitionChanged", list[i]))
      BY <1>1, <1>2, <2>3
    <3>2. Error("HistoryDefinitionChanged", list[i]) \in AllErrors
      <4>1. "HistoryDefinitionChanged" \in Codes
        BY ToldAreCodes DEF Told, CodesOf
      <4>2. list[i] \in Subjects
        BY <2>1 DEF Subjects
      <4>. QED
        BY <4>1, <4>2, ErrorIsReal, RealIsError
    <3>. QED
      BY <2>1, <2>2, <2>3, <3>1, <3>2, EntryIs
  <2>4. CASE list[i] \notin bad
    <3> DEFINE status == IF registry[list[i]] = "applied" THEN "Applied"
                         ELSE IF committed THEN "Succeeded" ELSE "Skipped"
    <3>1. new[i] = Entry(list[i], "Rehash", status, NoError)
      BY <1>1, <1>2, <2>4
    <3>2. status \in Statuses
      BY <2>2
    <3>3. status = "Succeeded" <=> committed /\ registry[list[i]] # "applied"
      OBVIOUS
    <3> HIDE DEF status
    <3>4. NoError \in AllErrors
      BY NothingIsReal, RealIsError
    <3>. QED
      BY <2>1, <2>2, <2>4, <3>1, <3>2, <3>3, <3>4, EntryIs
  <2>. QED
    BY <2>3, <2>4
<1>4. new \in [1 .. Len(list) -> Entries]
  BY <1>1, <1>2, <1>3
<1>5. new \in Seq(Entries) /\ DOMAIN new = DOMAIN list
  BY <1>1, <1>4, ListIsSeq
<1>. QED
  BY <1>3, <1>5 DEF new, list

\* A rehash updates what is recorded in the form of an earlier release.
Updated == [m \in Migrations |-> IF registry[m] = "legacy" THEN "applied" ELSE registry[m]]

LEMMA UpdatedIs ==
    ASSUME ReportTypes
    PROVE  /\ Updated \in [Migrations -> States]
           /\ \A m \in Migrations : Updated[m] # registry[m] <=> m \in Recorded /\ registry[m] # "applied"
<1>1. registry \in [Migrations -> States]
  BY TypedIs
<1>. QED
  BY <1>1 DEF Updated, States, Recorded, In

LEMMA RehashIs ==
    ASSUME ReportTypes, RehashWork
    PROVE  \E bad \in SUBSET Recorded, committed \in BOOLEAN :
              /\ Push(RehashReport(bad, committed)) /\ Leave(failure') /\ Real(failure')
              /\ registry' \in {registry, Updated}
              /\ committed => registry' = Updated
              /\ failure' = NoError => bad = {} /\ (registry' = registry \/ committed)
<1>1. "HistoryDefinitionChanged" \in Codes
  BY ToldAreCodes DEF Told, CodesOf
<1>2. ASSUME NEW bad \in (SUBSET Recorded) \ {{}},
             Leave(Error("HistoryDefinitionChanged", Ordered(bad)[1]))
      PROVE  Leave(failure') /\ Real(failure') /\ failure' # NoError
  <2>1. bad \in SUBSET Migrations /\ bad # {}
    BY TypedIs
  <2>2. IsListOf(Ordered(bad), bad)
    BY <2>1, OrderedIs
  <2>3. Ordered(bad) \in Seq(bad) /\ Ordered(bad) # <<>>
    BY <2>1, <2>2 DEF IsListOf
  <2>4. Ordered(bad)[1] \in bad
    BY <2>3, TailTypes
  <2>5. Ordered(bad)[1] \in Subjects
    BY <2>1, <2>4 DEF Subjects
  <2>6. failure' = Error("HistoryDefinitionChanged", Ordered(bad)[1])
    BY <1>2, LeaveIs
  <2>. QED
    BY <1>1, <1>2, <2>5, <2>6, ErrorIsReal
<1>3. ASSUME Leave(Error("RegistryUpgradeFailed", "rehash"))
      PROVE  Leave(failure') /\ Real(failure') /\ failure' # NoError
  <2>1. "rehash" \in Subjects
    BY DEF Subjects, Doing
  <2>2. failure' = Error("RegistryUpgradeFailed", "rehash")
    BY <1>3, LeaveIs
  <2>. QED
    BY <1>3, <2>1, <2>2, UpgradeIsReal DEF Error, NoError
<1>4. ASSUME Leave(NoError) PROVE Leave(failure') /\ Real(failure')
  BY <1>4, LeaveIs, NothingIsReal
<1>5. {} \in SUBSET Recorded
  OBVIOUS
<1>6. \/ \E bad \in (SUBSET Recorded) \ {{}} :
            /\ Push(RehashReport(bad, FALSE)) /\ UNCHANGED registry
            /\ Leave(Error("HistoryDefinitionChanged", Ordered(bad)[1]))
      \/ Push(RehashReport({}, FALSE)) /\ UNCHANGED registry /\ Leave(NoError)
      \/ Push(RehashReport({}, TRUE)) /\ registry' = Updated /\ Leave(NoError)
      \/ /\ registry' \in {registry, Updated}
         /\ Push(RehashReport({}, FALSE)) /\ Leave(Error("RegistryUpgradeFailed", "rehash"))
  BY DEF RehashWork, Updated
<1>7. CASE \E bad \in (SUBSET Recorded) \ {{}} :
            /\ Push(RehashReport(bad, FALSE)) /\ UNCHANGED registry
            /\ Leave(Error("HistoryDefinitionChanged", Ordered(bad)[1]))
  BY <1>2, <1>7
<1>8. CASE Push(RehashReport({}, FALSE)) /\ UNCHANGED registry /\ Leave(NoError)
  BY <1>4, <1>5, <1>8
<1>9. CASE Push(RehashReport({}, TRUE)) /\ registry' = Updated /\ Leave(NoError)
  BY <1>4, <1>5, <1>9
<1>10. CASE /\ registry' \in {registry, Updated}
            /\ Push(RehashReport({}, FALSE)) /\ Leave(Error("RegistryUpgradeFailed", "rehash"))
  BY <1>3, <1>5, <1>10
<1>. QED
  BY <1>6, <1>7, <1>8, <1>9, <1>10

LEMMA RehashTells ==
    ASSUME ReportTypes, RehashWork
    PROVE  \E new \in Seq(Entries) : EndsWith(new) /\ Claims(new) /\ Blames(new)
<1>1. session \in Sessions /\ registry \in [Migrations -> States]
  BY TypedIs
<1>2. PICK bad \in SUBSET Recorded, committed \in BOOLEAN :
        /\ Push(RehashReport(bad, committed)) /\ Leave(failure') /\ Real(failure')
        /\ registry' \in {registry, Updated}
        /\ committed => registry' = Updated
        /\ failure' = NoError => bad = {} /\ (registry' = registry \/ committed)
  BY RehashIs
<1> DEFINE new == RehashReport(bad, committed)
           list == Ordered(Recorded)
<1>3. /\ new \in Seq(Entries) /\ DOMAIN new = DOMAIN list
      /\ \A i \in DOMAIN list :
            /\ list[i] \in Recorded /\ new[i].id = list[i] /\ new[i].action = "Rehash"
            /\ new[i].status = "Succeeded" <=>
                    committed /\ list[i] \notin bad /\ registry[list[i]] # "applied"
            /\ new[i].error =
                    IF list[i] \in bad THEN Error("HistoryDefinitionChanged", list[i]) ELSE NoError
  BY RehashReportIs
<1>4. /\ \A m \in Recorded : \E i \in DOMAIN list : list[i] = m
      /\ \A i, j \in DOMAIN list : list[i] = list[j] => i = j
  BY TypedIs, OrderedIs DEF IsListOf
<1>5. Push(new)
  BY <1>2
<1> HIDE DEF new, list
<1>6. registry' \in [Migrations -> States]
  BY <1>1, <1>2, UpdatedIs
<1>7. EndsWith(new)
  BY <1>1, <1>2, <1>3, <1>5, <1>6, PushTypes DEF EndsWith
<1>8. Claims(new)
  <2>1. \A i \in DOMAIN new :
          /\ new[i].action \notin {"Plan", "Verify"}
          /\ new[i].status = "Succeeded" => registry'[new[i].id] # registry[new[i].id]
    BY <1>2, <1>3, UpdatedIs, TypedIs
  <2>2. ASSUME failure' = NoError, NEW m \in Migrations, registry'[m] # registry[m]
        PROVE  \E i \in DOMAIN new : new[i].id = m /\ new[i].status = "Succeeded"
    <3>1. committed /\ bad = {} /\ registry' = Updated
      BY <1>2, <2>2
    <3>2. m \in Recorded /\ registry[m] # "applied"
      BY <2>2, <3>1, UpdatedIs
    <3>3. PICK i \in DOMAIN list : list[i] = m
      BY <1>4, <3>2
    <3>. QED
      BY <1>3, <3>1, <3>2, <3>3
  <2>. QED
    BY <2>1, <2>2 DEF Claims
<1>9. Blames(new)
  <2>1. failure' = NoError => \A i \in DOMAIN new : new[i].error = NoError
    BY <1>2, <1>3
  <2>2. \A i, j \in DOMAIN new : new[i].error # NoError /\ new[i].error = new[j].error => i = j
    <3> SUFFICES ASSUME NEW i \in DOMAIN list, NEW j \in DOMAIN list,
                        new[i].error # NoError, new[i].error = new[j].error
                 PROVE  list[i] = list[j]
      BY <1>3, <1>4
    <3>1. Error("HistoryDefinitionChanged", list[i]) = Error("HistoryDefinitionChanged", list[j])
      BY <1>3
    <3>. QED
      BY <3>1, ErrorsDiffer
  <2>. QED
    BY <2>1, <2>2 DEF Blames
<1>. QED
  BY <1>3, <1>7, <1>8, <1>9

\* What a command did that writes the registry once.
Writes == RevertWork \/ BaselineWork \/ ResolveWork \/ RehashWork

LEMMA WritersTell ==
    ASSUME ReportTypes, Writes
    PROVE  /\ at = "work" /\ ~Deploying /\ UNCHANGED <<args, before, todo>>
           /\ \E new \in Seq(Entries) : EndsWith(new) /\ Claims(new) /\ Blames(new)
<1>1. at = "work" /\ ~Deploying /\ UNCHANGED <<args, before, todo>>
  BY DEF Writes, RevertWork, BaselineWork, ResolveWork, RehashWork, Working, Deploying, Stays
<1>2. CASE RevertWork
  BY <1>1, <1>2, RevertTells
<1>3. CASE BaselineWork
  BY <1>1, <1>3, BaselineTells
<1>4. CASE ResolveWork
  BY <1>1, <1>4, ResolveTells
<1>5. CASE RehashWork
  BY <1>1, <1>5, RehashTells
<1>. QED
  BY <1>2, <1>3, <1>4, <1>5 DEF Writes

LEMMA WritersKeepTypes ==
    ASSUME ReportTypes, Writes
    PROVE  ReportTypes'
<1>1. UNCHANGED <<args, before, todo>> /\ todo \in Seq(Work)
  BY WritersTell, TypedIs
<1>2. session' \in Sessions /\ registry' \in [Migrations -> States] /\ Real(failure')
  BY WritersTell DEF EndsWith
<1>. QED
  BY <1>1, <1>2, TypesStay

LEMMA EndKeepsTypes ==
    ASSUME ReportTypes, Release \/ Emit \/ UNCHANGED vars
    PROVE  ReportTypes'
<1>1. UNCHANGED <<args, before, registry, session, todo>>
  BY DEF Release, Emit, vars
<1>2. session \in Sessions /\ registry \in [Migrations -> States] /\ todo \in Seq(Work) /\ Real(failure)
  BY TypedIs
<1>3. Real(failure')
  <2>1. failure' = failure \/ failure' = Error("RegistryUpgradeFailed", "release")
    BY DEF Release, Emit, vars
  <2>2. "release" \in Subjects
    BY DEF Subjects, Doing
  <2>. QED
    BY <1>2, <2>1, <2>2, UpgradeIsReal
<1>. QED
  BY <1>1, <1>2, <1>3, TypesStay

LEMMA TypesKept == ReportTypes /\ [Next]_vars => ReportTypes'
BY StagesKeepTypes, LocalKeepsTypes, StatusKeepsTypes, DeployKeepsTypes, VerifyKeepsTypes,
   WritersKeepTypes, TestKeepsTypes, EndKeepsTypes DEF Next, Writes

(***************************************************************************)
(* What is printed.                                                        *)
(***************************************************************************)
Kinds == {"diagnostic", "migration", "test", "error", "document",
          "done", "nothing to do", "failed after", "failed"}
Items == [kind : Kinds, shows : AllErrors]

\* A report that is rendered has five parts.
Diagnosed == [i \in DOMAIN session.diagnostics |-> DiagnosticItem(session.diagnostics[i])]
Migrated == [i \in DOMAIN session.migrations |-> MigrationItem(session.migrations[i])]
Tested == [i \in DOMAIN session.tests |-> TestItem(session.tests[i])]
Erred == IF failure = NoError \/ AlreadyShown THEN <<>> ELSE <<ErrorItem(failure)>>
Summed == <<Item(Summary, NoError)>>

LEMMA ItemIs ==
    ASSUME NEW kind \in Kinds, NEW error \in AllErrors
    PROVE  /\ Item(kind, error) \in Items
           /\ Item(kind, error).kind = kind /\ Item(kind, error).shows = error
BY DEF Item, Items

LEMMA SummaryIs ==
    Summary \in Kinds /\ (Summary \in {"failed", "failed after"} <=> failure # NoError)
BY DEF Summary, Kinds

LEMMA SessionParts ==
    ASSUME ReportTypes
    PROVE  /\ Diagnosed \in Seq(Items) /\ \A i \in DOMAIN Diagnosed : Diagnosed[i].shows = NoError
           /\ Tested \in Seq(Items) /\ \A i \in DOMAIN Tested : Tested[i].shows = NoError
           /\ Migrated \in Seq(Items) /\ DOMAIN Migrated = DOMAIN session.migrations
           /\ \A i \in DOMAIN Migrated : Migrated[i].shows = session.migrations[i].error
<1>1. /\ session.migrations \in Seq(Entries) /\ session.tests \in Seq(TestEntries)
      /\ session.diagnostics \in Seq(Remarked)
  BY TypedIs, SessionIs
<1>2. NoError \in AllErrors /\ {"diagnostic", "migration", "test"} \subseteq Kinds
  BY NothingIsReal, RealIsError DEF Kinds
<1>3. Diagnosed \in Seq(Items) /\ \A i \in DOMAIN Diagnosed : Diagnosed[i].shows = NoError
  <2>1. Len(session.diagnostics) \in Nat /\ DOMAIN session.diagnostics = 1 .. Len(session.diagnostics)
    BY <1>1, LenProperties
  <2>2. Item("diagnostic", NoError) \in Items /\ Item("diagnostic", NoError).shows = NoError
    BY <1>2, ItemIs
  <2>3. Diagnosed \in [1 .. Len(session.diagnostics) -> Items]
    BY <2>1, <2>2 DEF Diagnosed, DiagnosticItem
  <2>. QED
    BY <2>1, <2>2, <2>3, ListIsSeq DEF Diagnosed, DiagnosticItem
<1>4. Tested \in Seq(Items) /\ \A i \in DOMAIN Tested : Tested[i].shows = NoError
  <2>1. Len(session.tests) \in Nat /\ DOMAIN session.tests = 1 .. Len(session.tests)
    BY <1>1, LenProperties
  <2>2. Item("test", NoError) \in Items /\ Item("test", NoError).shows = NoError
    BY <1>2, ItemIs
  <2>3. Tested \in [1 .. Len(session.tests) -> Items]
    BY <2>1, <2>2 DEF Tested, TestItem
  <2>. QED
    BY <2>1, <2>2, <2>3, ListIsSeq DEF Tested, TestItem
<1>5. /\ Migrated \in Seq(Items) /\ DOMAIN Migrated = DOMAIN session.migrations
      /\ \A i \in DOMAIN Migrated : Migrated[i].shows = session.migrations[i].error
  <2>1. Len(session.migrations) \in Nat /\ DOMAIN session.migrations = 1 .. Len(session.migrations)
    BY <1>1, LenProperties
  <2>2. \A i \in DOMAIN session.migrations : session.migrations[i].error \in AllErrors
    <3>1. \A i \in DOMAIN session.migrations : session.migrations[i] \in Entries
      BY <1>1
    <3>. QED
      BY <3>1 DEF Entries
  <2>3. \A i \in DOMAIN session.migrations :
            /\ MigrationItem(session.migrations[i]) \in Items
            /\ MigrationItem(session.migrations[i]).shows = session.migrations[i].error
    BY <1>2, <2>2, ItemIs DEF MigrationItem
  <2>4. Migrated \in [1 .. Len(session.migrations) -> Items]
    BY <2>1, <2>3 DEF Migrated
  <2>. QED
    BY <2>1, <2>3, <2>4, ListIsSeq DEF Migrated
<1>. QED
  BY <1>3, <1>4, <1>5

LEMMA EndParts ==
    ASSUME ReportTypes
    PROVE  /\ Erred \in Seq(Items) /\ \A i \in DOMAIN Erred : Erred[i].shows = failure
           /\ failure # NoError /\ ~AlreadyShown => DOMAIN Erred = {1}
           /\ failure = NoError \/ AlreadyShown => DOMAIN Erred = {}
           /\ Summed \in Seq(Items) /\ DOMAIN Summed = {1} /\ Summed[1] = Item(Summary, NoError)
           /\ Summed[1].shows = NoError /\ Summed[1].kind = Summary
<1>1. NoError \in AllErrors /\ failure \in AllErrors /\ "error" \in Kinds
  BY NothingIsReal, TypedIs, RealIsError DEF Kinds
<1>2. Item(Summary, NoError) \in Items /\ Item(Summary, NoError).shows = NoError
      /\ Item(Summary, NoError).kind = Summary
  BY <1>1, SummaryIs, ItemIs
<1>3. Item("error", failure) \in Items /\ Item("error", failure).shows = failure
  BY <1>1, ItemIs
<1>4. CASE failure = NoError \/ AlreadyShown
  <2>1. Erred = <<>>
    BY <1>4 DEF Erred
  <2>. QED
    BY <1>2, <1>4, <2>1 DEF Summed
<1>5. CASE ~(failure = NoError \/ AlreadyShown)
  <2>1. Erred = <<Item("error", failure)>>
    BY <1>5 DEF Erred, ErrorItem
  <2>. QED
    BY <1>2, <1>3, <1>5, <2>1 DEF Summed
<1>. QED
  BY <1>4, <1>5

Body == Diagnosed \o Migrated \o Tested \o Erred

LEMMA RenderIs ==
    ASSUME ReportTypes
    PROVE  /\ Body \in Seq(Items) /\ Render = Body \o Summed
           /\ Render \in Seq(Items) /\ Render # <<>> /\ Last(Render).kind = Summary
<1>1. Diagnosed \in Seq(Items) /\ Migrated \in Seq(Items) /\ Tested \in Seq(Items)
  BY SessionParts
<1>2. Erred \in Seq(Items) /\ Summed \in Seq(Items) /\ DOMAIN Summed = {1} /\ Summed[1].kind = Summary
  BY EndParts
<1>3. Body \in Seq(Items)
  BY <1>1, <1>2, ConcatProperties DEF Body
<1>4. Render = Body \o Summed
  BY DEF Render, Body, Diagnosed, Migrated, Tested, Erred, Summed
<1>5. Len(Body) \in Nat /\ Len(Summed) = 1
  BY <1>3, LenProperties DEF Summed
<1>6. /\ Render \in Seq(Items) /\ Len(Render) = Len(Body) + 1
      /\ \A i \in 1 .. Len(Body) + 1 : Render[i] = IF i <= Len(Body) THEN Body[i] ELSE Summed[i - Len(Body)]
  BY <1>2, <1>3, <1>4, <1>5, ConcatProperties
<1>7. Render[Len(Body) + 1] = Summed[1]
  <2>1. Len(Body) + 1 \in 1 .. Len(Body) + 1 /\ ~(Len(Body) + 1 <= Len(Body))
        /\ (Len(Body) + 1) - Len(Body) = 1
    BY <1>5
  <2>. QED
    BY <1>6, <2>1
<1>8. Render # <<>>
  BY <1>5, <1>6
<1>. QED
  BY <1>2, <1>3, <1>4, <1>6, <1>7, <1>8 DEF Last

LEMMA OutputIs ==
    ASSUME ReportTypes
    PROVE  Output \in Seq(Items) /\ (args.output = "human" => Output = Render)
<1>1. args.output \in {"json", "human", "quiet"}
  BY DEF ReportTypes
<1>2. CASE args.output = "json"
  <2>1. Item("document", NoError) \in Items
    BY NothingIsReal, RealIsError, ItemIs DEF Kinds
  <2>2. Output = <<Item("document", NoError)>>
    BY <1>2 DEF Output
  <2>3. <<Item("document", NoError)>> \in Seq(Items)
    BY <2>1
  <2>. QED
    BY <1>2, <2>2, <2>3
<1>3. CASE args.output = "human"
  <2>1. Output = Render
    BY <1>3 DEF Output
  <2>. QED
    BY <2>1, RenderIs
<1>4. CASE args.output = "quiet"
  <2>1. Item("error", failure) \in Items
    BY TypedIs, RealIsError, ItemIs DEF Kinds
  <2>2. Output \in {<<>>, <<Item("error", failure)>>}
    BY <1>4 DEF Output, ErrorItem
  <2>3. <<>> \in Seq(Items) /\ <<Item("error", failure)>> \in Seq(Items)
    BY <2>1
  <2>. QED
    BY <1>4, <2>2, <2>3
<1>. QED
  BY <1>1, <1>2, <1>3, <1>4

(***************************************************************************)
(* The exit code and the last line.                                        *)
(***************************************************************************)

\* An exit code other than the one of the report means that not all of it
\* was written.
WrittenOrSaid == at = "exited" => exit = 70 \/ (exit = Report.exit_code /\ printed = Output)

LEMMA NoneExitsZero ==
    ASSUME NEW code \in Codes
    PROVE  ExitCode(code) \in 3 .. 9 \cup {70}
<1> DEFINE class == CHOOSE c \in DOMAIN CodesOf : code \in CodesOf[c]
<1>1. class \in DOMAIN CodesOf
  BY DEF Codes
<1>2. ExitCode(code) = ExitOf[class]
  BY DEF ExitCode
<1> HIDE DEF class
<1>3. class \in {"project", "validation", "history", "registry", "lock", "target", "execution", "internal"}
  BY <1>1 DEF CodesOf
<1>. QED
  BY <1>2, <1>3 DEF ExitOf

\* A run exits by emitting its report.
LEMMA OnlyEmitExits ==
    ASSUME Next, at' = "exited"
    PROVE  Emit
<1>1. CASE Pass
  <2>1. at \in Stage /\ at' = Following(Passes(args.cmd, args.dry), Place[at])
    BY <1>1 DEF Pass
  <2>2. Passes(args.cmd, args.dry) \in SUBSET Stage /\ Place[at] \in 0 .. 6
    BY <2>1 DEF Passes, Stages, Stage, Place
  <2>3. at' \in Stage \cup {"work"}
    BY <2>1, <2>2, FollowingExists
  <2>. QED
    BY <2>3 DEF Stage, Place
<1>2. ASSUME \E error : Leave(error) PROVE FALSE
  BY <1>2 DEF Leave
<1>3. ASSUME at' = at, at = "work" PROVE FALSE
  BY <1>3
<1>4. CASE Refuse \/ TestsNothing \/ LocalWork \/ StatusWork \/ DeployPlans \/ DeployEnds
  BY <1>2, <1>4 DEF Refuse, TestsNothing, LocalWork, StatusWork, DeployPlans, DeployEnds
<1>5. CASE DeployOne \/ DeploySkips
  BY <1>3, <1>5 DEF DeployOne, DeploySkips, Working
<1>6. CASE VerifyOne \/ VerifyEnds \/ TestOne \/ TestEnds
  BY <1>2, <1>3, <1>6 DEF VerifyOne, VerifyEnds, TestOne, TestEnds, Working
<1>7. CASE RevertWork \/ BaselineWork \/ ResolveWork \/ RehashWork
  BY <1>2, <1>7 DEF RevertWork, BaselineWork, ResolveWork, RehashWork
<1>8. CASE Release
  BY <1>8 DEF Release
<1>. QED
  BY <1>1, <1>4, <1>5, <1>6, <1>7, <1>8 DEF Next

LEMMA WrittenStays ==
    ASSUME ReportTypes, WrittenOrSaid, [Next]_vars
    PROVE  WrittenOrSaid'
<1>1. CASE UNCHANGED vars
  <2>1. UNCHANGED <<at, exit, printed>> /\ Report' = Report /\ Output' = Output
    BY <1>1 DEF vars, Report, Output, Render, AlreadyShown, Summary, Counts
  <2>. QED
    BY <2>1 DEF WrittenOrSaid
<1>2. CASE Next
  <2> SUFFICES ASSUME at' = "exited", exit' # 70
               PROVE  exit' = Report'.exit_code /\ printed' = Output'
    BY DEF WrittenOrSaid
  <2>1. Emit
    BY <1>2, OnlyEmitExits
  <2>2. PICK n \in 0 .. Len(Output), flushed \in BOOLEAN :
          /\ n < Len(Output) => ~flushed
          /\ printed' = SubSeq(Output, 1, n)
          /\ exit' = IF flushed THEN Report.exit_code ELSE ExitOf.internal
    BY <2>1 DEF Emit
  <2>3. flushed
    BY <2>2 DEF ExitOf
  <2>4. Output \in Seq(Items) /\ Len(Output) \in Nat
    BY OutputIs, LenProperties
  <2>5. n = Len(Output)
    BY <2>2, <2>3, <2>4
  <2>6. printed' = Output
    BY <2>2, <2>4, <2>5, SubSeqFull
  <2>7. UNCHANGED <<args, session, failure>>
    BY <2>1 DEF Emit
  <2>8. Report' = Report /\ Output' = Output
    BY <2>7 DEF Report, Output, Render, AlreadyShown, Summary, Counts
  <2>. QED
    BY <2>2, <2>3, <2>6, <2>8
<1>. QED
  BY <1>1, <1>2

LEMMA OutcomeFollows == ReportTypes /\ WrittenOrSaid => ExitTellsTheOutcome
<1> SUFFICES ASSUME ReportTypes, WrittenOrSaid, at = "exited"
             PROVE  /\ exit = 0 => failure = NoError /\ printed = Output
                    /\ failure = NoError => exit \in {0, ExitOf.internal}
                    /\ Whole /\ args.output = "human" =>
                        (Last(printed).kind \in {"failed", "failed after"} <=> failure # NoError)
  BY DEF ExitTellsTheOutcome, Exited
<1>1. exit = 70 \/ (exit = Report.exit_code /\ printed = Output)
  BY DEF WrittenOrSaid
<1>2. failure = NoError => Report.exit_code = 0
  BY DEF Report
<1>3. failure # NoError => Report.exit_code # 0
  <2> SUFFICES ASSUME failure # NoError PROVE ExitCode(failure.code) # 0
    BY DEF Report
  <2>1. failure.code \in Codes
    BY TypedIs DEF Real
  <2>2. ExitCode(failure.code) \in 3 .. 9 \cup {70}
    BY <2>1, NoneExitsZero
  <2>. QED
    BY <2>2
<1>4. exit = 0 => failure = NoError /\ printed = Output
  BY <1>1, <1>3
<1>5. failure = NoError => exit \in {0, ExitOf.internal}
  BY <1>1, <1>2 DEF ExitOf
<1>6. Whole /\ args.output = "human" =>
        (Last(printed).kind \in {"failed", "failed after"} <=> failure # NoError)
  BY OutputIs, RenderIs, SummaryIs DEF Whole
<1>. QED
  BY <1>4, <1>5, <1>6

\* A caller may rely on exit code zero: the run succeeded and its report was
\* written whole.  A failure to write it is the only way in which a run that
\* succeeded exits otherwise, and the last line never disagrees.
THEOREM ExitIsTheOutcome == Spec => []ExitTellsTheOutcome
<1>1. Init => WrittenOrSaid
  <2> SUFFICES ASSUME Init PROVE at # "exited"
    BY DEF WrittenOrSaid
  <2>. QED
    BY StartsInPlace DEF Stage, Place
<1>2. ReportTypes /\ WrittenOrSaid /\ [Next]_vars => ReportTypes' /\ WrittenOrSaid'
  BY TypesKept, WrittenStays
<1>. QED
  BY <1>1, <1>2, TypesStart, OutcomeFollows, PTL DEF Spec

(***************************************************************************)
(* What the entries claim.                                                 *)
(***************************************************************************)
Claimed(entry) == entry.status = "Succeeded" /\ entry.action # "Verify"
Omitted(entry) == entry.status = "Skipped" /\ entry.action = "Plan"
Plain(entry) == ~Claimed(entry) /\ ~Omitted(entry)

\* Only a deploy goes on after it has failed, and only to list what it skips.
Unfailed == failure # NoError => Over \/ (Deploying /\ ~args.dry)

TrueEntries ==
    \A i \in DOMAIN session.migrations :
        /\ Claimed(session.migrations[i]) => session.migrations[i].id \in Touched
        /\ Omitted(session.migrations[i]) => session.migrations[i].id \notin Touched /\ failure # NoError

NothingLeftOut ==
    failure = NoError =>
        \A m \in Touched : \E i \in DOMAIN session.migrations :
            session.migrations[i].id = m /\ session.migrations[i].status = "Succeeded"

\* What a deploy has yet to do is pending, as it was, and is done once.
ToDeploy ==
    Deploying =>
        /\ args.dry => registry = before
        /\ \A i \in DOMAIN todo : todo[i] \notin Touched /\ registry[todo[i]] = "pending"
        /\ \A i, j \in DOMAIN todo : todo[i] = todo[j] => i = j

EntriesInv == TrueEntries /\ NothingLeftOut /\ Unfailed /\ ToDeploy

\* The rows of a list that was appended to are the old ones and the new ones.
Joins(all, old, new) ==
    /\ \A i \in DOMAIN all :
        \/ i \in DOMAIN old /\ all[i] = old[i]
        \/ i - Len(old) \in DOMAIN new /\ all[i] = new[i - Len(old)]
    /\ \A i \in DOMAIN old : i \in DOMAIN all /\ all[i] = old[i]
    /\ \A i \in DOMAIN new : Len(old) + i \in DOMAIN all /\ all[Len(old) + i] = new[i]

Adds(all, old, entry) ==
    /\ \A i \in DOMAIN all : (i \in DOMAIN old /\ all[i] = old[i]) \/ all[i] = entry
    /\ \A i \in DOMAIN old : i \in DOMAIN all /\ all[i] = old[i]
    /\ \E i \in DOMAIN all : all[i] = entry

LEMMA Appended ==
    ASSUME NEW S, NEW old \in Seq(S), NEW new \in Seq(S)
    PROVE  Joins(old \o new, old, new)
<1>1. /\ Len(old) \in Nat /\ DOMAIN old = 1 .. Len(old)
      /\ Len(new) \in Nat /\ DOMAIN new = 1 .. Len(new)
  BY LenProperties
<1>2. /\ DOMAIN (old \o new) = 1 .. Len(old) + Len(new)
      /\ \A i \in 1 .. Len(old) + Len(new) :
            (old \o new)[i] = IF i <= Len(old) THEN old[i] ELSE new[i - Len(old)]
  BY ConcatProperties, LenProperties
<1>3. ASSUME NEW i \in 1 .. Len(old) + Len(new)
      PROVE  \/ i \in DOMAIN old /\ (old \o new)[i] = old[i]
             \/ i - Len(old) \in DOMAIN new /\ (old \o new)[i] = new[i - Len(old)]
  BY <1>1, <1>2
<1>4. ASSUME NEW i \in 1 .. Len(old)
      PROVE  i \in DOMAIN (old \o new) /\ (old \o new)[i] = old[i]
  BY <1>1, <1>2
<1>5. ASSUME NEW i \in 1 .. Len(new)
      PROVE  Len(old) + i \in DOMAIN (old \o new) /\ (old \o new)[Len(old) + i] = new[i]
  <2>1. Len(old) + i \in 1 .. Len(old) + Len(new) /\ ~(Len(old) + i <= Len(old))
        /\ (Len(old) + i) - Len(old) = i
    BY <1>1
  <2>2. (old \o new)[Len(old) + i] = new[(Len(old) + i) - Len(old)]
    BY <1>2, <2>1
  <2>. QED
    BY <1>2, <2>1, <2>2
<1>. QED
  BY <1>1, <1>2, <1>3, <1>4, <1>5 DEF Joins

\* Whoever stops has nothing more to deploy.
LEMMA StoppedIsDone ==
    ASSUME \E error : Leave(error)
    PROVE  Unfailed' /\ ToDeploy' /\ at' \in {"release", "emit"}
<1>1. at' \in {"release", "emit"}
  BY DEF Leave
<1>. QED
  BY <1>1 DEF Unfailed, ToDeploy, Over, Deploying

\* Nobody else has failed before it stops.
LEMMA NoFailure ==
    ASSUME Unfailed, at \in Stage \cup {"work"}, ~Deploying \/ args.dry
    PROVE  failure = NoError
BY DEF Unfailed, Over, Stage, Place

\* A step that leaves the registry alone, and claims nothing.
LEMMA ClaimsNothing ==
    ASSUME TrueEntries, NothingLeftOut, UNCHANGED <<before, registry>>,
           failure' = NoError <=> failure = NoError,
           session'.migrations = session.migrations
    PROVE  TrueEntries' /\ NothingLeftOut'
<1>1. Touched' = Touched
  BY DEF Touched
<1>. QED
  BY <1>1 DEF TrueEntries, NothingLeftOut

LEMMA PlainEntries ==
    ASSUME TrueEntries, NothingLeftOut, UNCHANGED <<before, registry>>,
           failure = NoError,
           session.migrations \in Seq(Entries), NEW new \in Seq(Entries),
           session'.migrations = session.migrations \o new,
           \A i \in DOMAIN new : Plain(new[i])
    PROVE  TrueEntries' /\ NothingLeftOut'
<1> DEFINE old == session.migrations
<1>1. Touched' = Touched
  BY DEF Touched
<1>2. Joins(session'.migrations, old, new)
  BY Appended
<1>3. TrueEntries'
  <2> SUFFICES ASSUME NEW i \in DOMAIN session'.migrations
               PROVE  /\ Claimed(session'.migrations[i]) => session'.migrations[i].id \in Touched
                      /\ ~Omitted(session'.migrations[i])
    BY <1>1 DEF TrueEntries
  <2>1. CASE i \in DOMAIN old /\ session'.migrations[i] = old[i]
    BY <2>1 DEF TrueEntries
  <2>2. CASE i - Len(old) \in DOMAIN new /\ session'.migrations[i] = new[i - Len(old)]
    BY <2>2 DEF Plain
  <2>. QED
    BY <1>2, <2>1, <2>2 DEF Joins
<1>4. NothingLeftOut'
  BY <1>1, <1>2 DEF NothingLeftOut, Joins
<1>. QED
  BY <1>3, <1>4

\* Before a command does its work, it has touched nothing.
LEMMA Untouched == registry = before => Touched = {}
BY DEF Touched

LEMMA StagesKeepEntries ==
    ASSUME ReportTypes, RetryInv, EntriesInv, Pass \/ Refuse \/ TestsNothing
    PROVE  EntriesInv'
<1>1. /\ at \in Stage /\ UNCHANGED <<args, before, registry>> /\ session \in Sessions
      /\ failure = NoError /\ ~Deploying /\ registry = before
  <2>1. at \in Stage
    BY DEF Pass, Refuse, TestsNothing, Stage, Place
  <2>2. ~Deploying
    BY <2>1 DEF Deploying, Stage
  <2>. QED
    BY <2>1, <2>2, TypedIs, WorkStarts, NoFailure DEF Pass, Refuse, TestsNothing, EntriesInv
<1>2. session'.migrations = session.migrations
  <2>1. UNCHANGED session \/ \E r \in Remarks(at) : Note(r)
    BY DEF Pass, Refuse, TestsNothing
  <2>. QED
    BY <1>1, <2>1, RemarksAre, NoteTypes
<1>3. \A i \in DOMAIN session.migrations : Plain(session.migrations[i])
  BY <1>1, Untouched DEF EntriesInv, TrueEntries, Plain
<1>4. Touched' = {}
  BY <1>1 DEF Touched
<1>5. TrueEntries' /\ NothingLeftOut'
  BY <1>2, <1>3, <1>4 DEF TrueEntries, NothingLeftOut, Plain
<1>6. CASE Pass
  <2>1. failure' = failure
    BY <1>6 DEF Pass
  <2>2. ASSUME Deploying'
        PROVE  todo' = Ordered(In("pending"))
    BY <1>1, <1>6, <2>2 DEF Pass, Begins, Deploying
  <2>3. IsListOf(Ordered(In("pending")), In("pending"))
    BY TypedIs, OrderedIs
  <2>4. ASSUME Deploying'
        PROVE  /\ \A i \in DOMAIN todo' : todo'[i] \in In("pending")
               /\ \A i, j \in DOMAIN todo' : todo'[i] = todo'[j] => i = j
    BY <2>2, <2>3, <2>4 DEF IsListOf
  <2>5. ToDeploy'
    BY <1>1, <1>4, <2>4 DEF ToDeploy, In
  <2>. QED
    BY <1>1, <1>5, <2>1, <2>5 DEF EntriesInv, Unfailed
<1>7. CASE Refuse \/ TestsNothing
  BY <1>5, <1>7, StoppedIsDone DEF Refuse, TestsNothing, EntriesInv
<1>. QED
  BY <1>6, <1>7

\* What a listing says of migrations is neither claimed nor omitted.
LEMMA ListedIsPlain ==
    ASSUME NEW S \in SUBSET Migrations, NEW status \in {"Applied", "Pending", "Blocked"}
    PROVE  /\ Listed(S, "Plan", status) \in Seq(Entries)
           /\ \A i \in DOMAIN Listed(S, "Plan", status) :
                Plain(Listed(S, "Plan", status)[i]) /\ Listed(S, "Plan", status)[i].error = NoError
<1> DEFINE list == Listed(S, "Plan", status)
<1>1. "Plan" \in Actions /\ status \in Statuses /\ NoError \in AllErrors
  BY NothingIsReal, RealIsError DEF Actions, Statuses
<1>2. /\ list \in Seq(Entries) /\ DOMAIN list = DOMAIN Ordered(S)
      /\ \A i \in DOMAIN Ordered(S) :
            Ordered(S)[i] \in S /\ list[i] = Entry(Ordered(S)[i], "Plan", status, NoError)
  BY <1>1, ListedIs
<1> HIDE DEF list
<1>3. ASSUME NEW i \in DOMAIN list
      PROVE  Plain(list[i]) /\ list[i].error = NoError
  <2>1. Ordered(S)[i] \in Migrations /\ list[i] = Entry(Ordered(S)[i], "Plan", status, NoError)
    BY <1>2
  <2>2. list[i].status = status /\ list[i].error = NoError
    BY <1>1, <2>1, EntryIs
  <2>. QED
    BY <2>2 DEF Plain, Claimed, Omitted
<1>. QED
  BY <1>2, <1>3 DEF list

LEMMA StatusIsPlain ==
    ASSUME ReportTypes
    PROVE  \A i \in DOMAIN Statused : Plain(Statused[i]) /\ Statused[i].error = NoError
<1> DEFINE Calm(list) == list \in Seq(Entries) /\ \A i \in DOMAIN list : Plain(list[i]) /\ list[i].error = NoError
<1>1. /\ Calm(Listed(Recorded, "Plan", "Applied"))
      /\ Calm(Listed(In("pending"), "Plan", "Pending"))
      /\ Calm(Listed(In("attempt"), "Plan", "Blocked"))
  BY TypedIs, ListedIsPlain
<1>2. ASSUME NEW a, NEW b, Calm(a), Calm(b) PROVE Calm(a \o b)
  <2>1. a \o b \in Seq(Entries)
    BY <1>2, ConcatProperties
  <2>2. Joins(a \o b, a, b)
    BY <1>2, Appended
  <2>. QED
    BY <1>2, <2>1, <2>2 DEF Joins
<1> HIDE DEF Calm
<1>3. Calm(Statused)
  BY <1>1, <1>2 DEF Statused
<1>. QED
  BY <1>3 DEF Calm

LEMMA VerifyIs ==
    ASSUME ReportTypes, VerifyOne
    PROVE  \/ UNCHANGED <<session, failure>>
           \/ \E entry \in Entries :
                /\ entry.action = "Verify" /\ Push(<<entry>>)
                /\ failure' = NoError => entry.error = NoError
<1>1. todo[1] \in Migrations
  <2>1. args.cmd = "verify" /\ todo # <<>>
    BY DEF VerifyOne, Working
  <2>2. todo \in Seq(Migrations)
    BY <2>1, TypedIs DEF Work
  <2>. QED
    BY <2>1, <2>2, TailTypes
<1>2. failure' \in AllErrors
  BY VerifyKeepsTypes, RealIsError DEF ReportTypes
<1>3. "Verify" \in Actions /\ {"Succeeded", "Skipped", "Failed"} \subseteq Statuses /\ NoError \in AllErrors
  BY NothingIsReal, RealIsError DEF Actions, Statuses
<1>4. CASE UNCHANGED <<session, failure>>
  BY <1>4
<1>5. ASSUME NEW status \in {"Succeeded", "Skipped"}, Push(<<Entry(todo[1], "Verify", status, NoError)>>)
      PROVE  \E entry \in Entries : entry.action = "Verify" /\ Push(<<entry>>) /\ entry.error = NoError
  <2> DEFINE entry == Entry(todo[1], "Verify", status, NoError)
  <2>1. entry \in Entries /\ entry.action = "Verify" /\ entry.error = NoError
    BY <1>1, <1>3, EntryIs
  <2>2. Push(<<entry>>)
    BY <1>5
  <2> HIDE DEF entry
  <2>. QED
    BY <2>1, <2>2
<1>6. ASSUME Push(<<Entry(todo[1], "Verify", "Failed", failure')>>)
      PROVE  \E entry \in Entries : entry.action = "Verify" /\ Push(<<entry>>) /\ entry.error = failure'
  <2> DEFINE entry == Entry(todo[1], "Verify", "Failed", failure')
  <2>1. entry \in Entries /\ entry.action = "Verify" /\ entry.error = failure'
    BY <1>1, <1>2, <1>3, EntryIs
  <2>2. Push(<<entry>>)
    BY <1>6
  <2> HIDE DEF entry
  <2>. QED
    BY <2>1, <2>2
<1>. QED
  BY <1>4, <1>5, <1>6 DEF VerifyOne

\* The commands that do not write the registry.
LEMMA ReadersKeepEntries ==
    ASSUME ReportTypes, RetryInv, EntriesInv,
           LocalWork \/ StatusWork \/ VerifyOne \/ VerifyEnds \/ TestOne \/ TestEnds
    PROVE  EntriesInv'
<1>1. /\ at = "work" /\ ~Deploying /\ UNCHANGED <<args, before, registry>> /\ session \in Sessions
      /\ failure = NoError /\ registry = before /\ session.migrations \in Seq(Entries)
  <2>1. at = "work" /\ ~Deploying /\ UNCHANGED <<args, before, registry>>
    BY DEF LocalWork, StatusWork, VerifyOne, VerifyEnds, TestOne, TestEnds, Working, Deploying, Stays, Local
  <2>. QED
    BY <2>1, TypedIs, SessionIs, WorkStarts, NoFailure DEF EntriesInv
<1>2. TrueEntries /\ NothingLeftOut
  BY DEF EntriesInv
<1>3. Unfailed' /\ ToDeploy'
  <2>1. UNCHANGED <<at, failure>> \/ \E error : Leave(error)
    BY DEF LocalWork, StatusWork, VerifyOne, VerifyEnds, TestOne, TestEnds
  <2>2. CASE UNCHANGED <<at, failure>>
    BY <1>1, <2>2 DEF Unfailed, ToDeploy, Deploying
  <2>. QED
    BY <2>1, <2>2, StoppedIsDone
<1>4. Touched = {} /\ Touched' = {}
  BY <1>1 DEF Touched
<1>5. \A i \in DOMAIN session.migrations : Plain(session.migrations[i])
  BY <1>1, <1>2, <1>4 DEF TrueEntries, Plain
<1>6. CASE session'.migrations = session.migrations
  BY <1>3, <1>4, <1>5, <1>6 DEF EntriesInv, TrueEntries, NothingLeftOut, Plain
<1>7. CASE LocalWork
  <2>1. PICK r \in LocalRemarks : Note(r)
    BY <1>7 DEF LocalWork
  <2>2. r \in Seq(Remarked)
    <3>1. \A x \in Remarked : <<x>> \in Seq(Remarked)
      OBVIOUS
    <3>2. <<>> \in Seq(Remarked)
      OBVIOUS
    <3>. QED
      BY <3>1, <3>2 DEF LocalRemarks, Remarked
  <2>. QED
    BY <1>1, <1>6, <2>1, <2>2, NoteTypes
<1>8. CASE StatusWork
  <2>1. CASE Note(Warned)
    BY <1>1, <1>6, <2>1, StatusLists, NoteTypes
  <2>2. CASE session' = [session EXCEPT !.diagnostics = session.diagnostics \o Warned,
                                        !.migrations = Statused]
    <3>1. session'.migrations = Statused
      BY <1>1, <2>2 DEF Sessions
    <3>2. \A i \in DOMAIN Statused : Plain(Statused[i])
      BY StatusIsPlain
    <3>. QED
      BY <1>3, <1>4, <3>1, <3>2 DEF EntriesInv, TrueEntries, NothingLeftOut, Plain
  <2>. QED
    BY <1>8, <2>1, <2>2, StatusIs
<1>9. CASE VerifyOne
  <2>1. CASE UNCHANGED session
    BY <1>6, <2>1
  <2>2. ASSUME NEW entry \in Entries, entry.action = "Verify", Push(<<entry>>)
        PROVE  TrueEntries' /\ NothingLeftOut'
    <3>1. <<entry>> \in Seq(Entries) /\ DOMAIN <<entry>> = {1} /\ <<entry>>[1] = entry
      BY OneEntry
    <3>2. \A i \in DOMAIN <<entry>> : Plain(<<entry>>[i])
      BY <2>2, <3>1 DEF Plain, Claimed, Omitted
    <3>3. session'.migrations = session.migrations \o <<entry>>
      BY <1>1, <2>2, PushesOne
    <3>. QED
      BY <1>1, <1>2, <3>1, <3>2, <3>3, PlainEntries
  <2>. QED
    BY <1>3, <1>9, <2>1, <2>2, VerifyIs DEF EntriesInv
<1>10. CASE VerifyEnds \/ TestEnds
  BY <1>6, <1>10 DEF VerifyEnds, TestEnds
<1>11. CASE TestOne
  BY <1>6, <1>11, TestIs
<1>. QED
  BY <1>7, <1>8, <1>9, <1>10, <1>11

\* The commands that write the registry once.
LEMMA WritersKeepEntries ==
    ASSUME ReportTypes, RetryInv, EntriesInv, Writes
    PROVE  EntriesInv'
<1>1. at = "work" /\ ~Deploying /\ UNCHANGED <<args, before, todo>>
  BY WritersTell
<1>2. PICK new \in Seq(Entries) : EndsWith(new) /\ Claims(new)
  BY WritersTell
<1>3. registry = before /\ Touched = {} /\ session.migrations \in Seq(Entries)
  BY <1>1, WorkStarts, TypedIs, SessionIs, Untouched
<1>4. Unfailed' /\ ToDeploy'
  BY <1>2, StoppedIsDone DEF EndsWith
<1> DEFINE old == session.migrations
<1>5. Joins(session'.migrations, old, new)
  BY <1>2, <1>3, Appended DEF EndsWith
<1>6. \A m \in Migrations : m \in Touched' <=> registry'[m] # registry[m]
  BY <1>1, <1>3 DEF Touched
<1>7. \A i \in DOMAIN new : new[i].id \in Migrations
  <2>1. \A i \in DOMAIN new : new[i] \in Entries
    OBVIOUS
  <2>. QED
    BY <2>1 DEF Entries
<1>8. TrueEntries'
  <2> SUFFICES ASSUME NEW i \in DOMAIN session'.migrations
               PROVE  /\ Claimed(session'.migrations[i]) => session'.migrations[i].id \in Touched'
                      /\ ~Omitted(session'.migrations[i])
    BY DEF TrueEntries
  <2>1. CASE i \in DOMAIN old /\ session'.migrations[i] = old[i]
    <3>1. failure = NoError
      BY <1>1, NoFailure DEF EntriesInv
    <3>. QED
      BY <1>3, <2>1, <3>1 DEF EntriesInv, TrueEntries
  <2>2. CASE i - Len(old) \in DOMAIN new /\ session'.migrations[i] = new[i - Len(old)]
    BY <1>2, <1>6, <1>7, <2>2 DEF Claims, Claimed, Omitted
  <2>. QED
    BY <1>5, <2>1, <2>2 DEF Joins
<1>9. NothingLeftOut'
  <2> SUFFICES ASSUME failure' = NoError, NEW m \in Touched'
               PROVE  \E i \in DOMAIN session'.migrations :
                        session'.migrations[i].id = m /\ session'.migrations[i].status = "Succeeded"
    BY DEF NothingLeftOut
  <2>1. m \in Migrations /\ registry'[m] # registry[m]
    BY <1>6 DEF Touched
  <2>2. PICK i \in DOMAIN new : new[i].id = m /\ new[i].status = "Succeeded"
    BY <1>2, <2>1 DEF Claims
  <2>. QED
    BY <1>5, <2>2 DEF Joins
<1>. QED
  BY <1>4, <1>8, <1>9 DEF EntriesInv

\* What may come of one migration: it succeeds when it is applied, and when
\* there is no error.
LEMMA OutcomesAre ==
    ASSUME NEW o \in DeployOutcomes
    PROVE  /\ o.now \in States /\ o.status \in {"Succeeded", "Failed"}
           /\ o.code \in Codes \cup {"none"}
           /\ o.status = "Succeeded" => o.now = "applied"
           /\ o.code = "none" => o.status = "Succeeded"
<1>1. VerifyErrors \subseteq Codes /\ "none" \notin Codes
  BY VerifyErrorsAre DEF Codes, CodesOf
<1>2. {"DeployFailed", "DeployOutcomeUnknown", "RegistryUpgradeFailed"} \subseteq Codes
  BY ToldAreCodes DEF Told, AfterChange
<1>. QED
  BY <1>1, <1>2 DEF DeployOutcomes, States

LEMMA AppendedOne ==
    ASSUME NEW S, NEW old \in Seq(S), NEW entry \in S
    PROVE  Adds(old \o <<entry>>, old, entry)
<1> DEFINE new == <<entry>>
           all == old \o new
<1>1. new \in Seq(S) /\ DOMAIN new = {1} /\ new[1] = entry
  OBVIOUS
<1> HIDE DEF new
<1>2. Joins(all, old, new)
  BY <1>1, Appended
<1> HIDE DEF all
<1>3. \A i \in DOMAIN all : (i \in DOMAIN old /\ all[i] = old[i]) \/ all[i] = entry
  <2> SUFFICES ASSUME NEW i \in DOMAIN all, i - Len(old) \in DOMAIN new
               PROVE  new[i - Len(old)] = entry
    BY <1>2 DEF Joins
  <2>1. i - Len(old) = 1
    BY <1>1
  <2>. QED
    BY <1>1, <2>1
<1>4. \A i \in DOMAIN old : i \in DOMAIN all /\ all[i] = old[i]
  BY <1>2 DEF Joins
<1>5. \E i \in DOMAIN all : all[i] = entry
  BY <1>1, <1>2 DEF Joins
<1>. QED
  BY <1>3, <1>4, <1>5 DEF Adds, all, new

\* What is left of a list without repetitions.
LEMMA RestIsDistinct ==
    ASSUME NEW S, NEW list \in Seq(S), list # <<>>,
           \A i, j \in DOMAIN list : list[i] = list[j] => i = j
    PROVE  /\ 1 \in DOMAIN list
           /\ \A i \in DOMAIN Tail(list) :
                i + 1 \in DOMAIN list /\ Tail(list)[i] = list[i + 1] /\ Tail(list)[i] # list[1]
           /\ \A i, j \in DOMAIN Tail(list) : Tail(list)[i] = Tail(list)[j] => i = j
<1>1. /\ Len(list) \in Nat \ {0} /\ DOMAIN list = 1 .. Len(list)
      /\ DOMAIN Tail(list) = 1 .. Len(list) - 1
      /\ \A i \in 1 .. Len(list) - 1 : Tail(list)[i] = list[i + 1]
  BY HeadTailProperties, LenProperties, EmptySeq
<1>2. \A i \in 1 .. Len(list) - 1 : i + 1 \in 1 .. Len(list) /\ i + 1 # 1
  BY <1>1
<1>3. \A i, j \in 1 .. Len(list) - 1 : i + 1 = j + 1 => i = j
  BY <1>1
<1>. QED
  BY <1>1, <1>2, <1>3

LEMMA DeployOneKeepsEntries ==
    ASSUME ReportTypes, EntriesInv, DeployOne
    PROVE  EntriesInv'
<1> DEFINE m == todo[1]
           old == session.migrations
<1>1. /\ Deploying /\ Deploying' /\ ~args.dry /\ todo # <<>> /\ failure = NoError
      /\ UNCHANGED <<args, at, before>> /\ todo' = Tail(todo)
  BY DEF DeployOne, Working, Deploying
<1>2. /\ session \in Sessions /\ old \in Seq(Entries) /\ registry \in [Migrations -> States]
      /\ todo \in Seq(Migrations)
  BY <1>1, TypedIs, SessionIs DEF Deploying, Work
<1>3. /\ \A i \in DOMAIN todo : todo[i] \notin Touched /\ registry[todo[i]] = "pending"
      /\ \A i, j \in DOMAIN todo : todo[i] = todo[j] => i = j
  BY <1>1 DEF EntriesInv, ToDeploy
<1>4. /\ 1 \in DOMAIN todo /\ m \in Migrations
      /\ \A i \in DOMAIN todo' : i + 1 \in DOMAIN todo /\ todo'[i] = todo[i + 1] /\ todo'[i] # m
      /\ \A i, j \in DOMAIN todo' : todo'[i] = todo'[j] => i = j
  BY <1>1, <1>2, <1>3, RestIsDistinct, TailTypes
<1>5. PICK o \in DeployOutcomes :
        /\ registry' = [registry EXCEPT ![m] = o.now]
        /\ failure' = Failed(o.code, m)
        /\ Push(<<Entry(m, "Deploy", o.status, failure')>>)
  BY DEF DeployOne
<1>6. /\ o.now \in States /\ o.status \in {"Succeeded", "Failed"}
      /\ o.status = "Succeeded" => o.now = "applied"
      /\ Real(failure') /\ (failure' = NoError => o.status = "Succeeded")
  BY <1>4, <1>5, OutcomesAre, FailedIsReal DEF Subjects
<1> DEFINE entry == Entry(m, "Deploy", o.status, failure')
<1>7. /\ entry \in Entries /\ entry.id = m /\ entry.action = "Deploy" /\ entry.status = o.status
      /\ Push(<<entry>>)
  <2>1. "Deploy" \in Actions /\ o.status \in Statuses /\ failure' \in AllErrors
    BY <1>6, RealIsError DEF Actions, Statuses
  <2>. QED
    BY <1>4, <1>5, <2>1, EntryIs
<1> HIDE DEF entry
<1>8. session'.migrations = old \o <<entry>>
  BY <1>2, <1>7, PushesOne
<1>9. Adds(session'.migrations, old, entry)
  BY <1>2, <1>7, <1>8, AppendedOne
<1>10. /\ \A i \in DOMAIN session'.migrations :
            \/ i \in DOMAIN old /\ session'.migrations[i] = old[i]
            \/ session'.migrations[i] = entry
       /\ \A i \in DOMAIN old : i \in DOMAIN session'.migrations /\ session'.migrations[i] = old[i]
       /\ \E i \in DOMAIN session'.migrations : session'.migrations[i] = entry
  BY <1>9 DEF Adds
<1>11. registry[m] = "pending" /\ before[m] = "pending"
  BY <1>3, <1>4 DEF Touched
<1>12. /\ \A n \in Migrations : n # m => (n \in Touched' <=> n \in Touched)
       /\ m \in Touched' <=> o.now # "pending"
       /\ \A n \in Migrations : n # m => registry'[n] = registry[n]
  BY <1>1, <1>2, <1>4, <1>5, <1>11 DEF Touched
<1>13. TrueEntries'
  <2> SUFFICES ASSUME NEW i \in DOMAIN session'.migrations
               PROVE  /\ Claimed(session'.migrations[i]) => session'.migrations[i].id \in Touched'
                      /\ ~Omitted(session'.migrations[i])
    BY DEF TrueEntries
  <2>1. CASE i \in DOMAIN old /\ session'.migrations[i] = old[i]
    <3>1. ~Omitted(old[i]) /\ (Claimed(old[i]) => old[i].id \in Touched)
      BY <1>1, <2>1 DEF EntriesInv, TrueEntries
    <3>2. m \notin Touched
      BY <1>3, <1>4
    <3>3. Touched \subseteq Migrations
      BY DEF Touched
    <3>. QED
      BY <1>12, <2>1, <3>1, <3>2, <3>3
  <2>2. CASE session'.migrations[i] = entry
    <3>1. o.status = "Succeeded" => m \in Touched'
      BY <1>6, <1>12
    <3>. QED
      BY <1>7, <2>2, <3>1 DEF Claimed, Omitted
  <2>. QED
    BY <1>10, <2>1, <2>2
<1>14. NothingLeftOut'
  <2> SUFFICES ASSUME failure' = NoError, NEW n \in Touched'
               PROVE  \E i \in DOMAIN session'.migrations :
                        session'.migrations[i].id = n /\ session'.migrations[i].status = "Succeeded"
    BY DEF NothingLeftOut
  <2>1. n \in Migrations
    BY DEF Touched
  <2>2. CASE n = m
    BY <1>6, <1>7, <1>10, <2>2
  <2>3. CASE n # m
    <3>1. PICK i \in DOMAIN old : old[i].id = n /\ old[i].status = "Succeeded"
      BY <1>1, <1>12, <2>1, <2>3 DEF EntriesInv, NothingLeftOut
    <3>. QED
      BY <1>10, <3>1
  <2>. QED
    BY <2>2, <2>3
<1>15. ToDeploy'
  <2>1. \A i \in DOMAIN todo' : todo'[i] \in Migrations
    BY <1>2, <1>4
  <2>2. \A i \in DOMAIN todo' : todo'[i] \notin Touched' /\ registry'[todo'[i]] = "pending"
    BY <1>3, <1>4, <1>12, <2>1
  <2>. QED
    BY <1>1, <1>4, <2>2 DEF ToDeploy
<1>16. Unfailed'
  BY <1>1 DEF Unfailed
<1>. QED
  BY <1>13, <1>14, <1>15, <1>16 DEF EntriesInv

LEMMA DeployKeepsEntries ==
    ASSUME ReportTypes, RetryInv, EntriesInv, DeployPlans \/ DeploySkips \/ DeployEnds
    PROVE  EntriesInv'
<1> DEFINE m == todo[1]
           old == session.migrations
<1>1. /\ Deploying /\ UNCHANGED <<args, before, registry>> /\ session \in Sessions
      /\ old \in Seq(Entries) /\ todo \in Seq(Migrations)
  <2>1. Deploying /\ UNCHANGED <<args, before, registry>>
    BY DEF DeployPlans, DeploySkips, DeployEnds, Working, Deploying, Stays
  <2>. QED
    BY <2>1, TypedIs, SessionIs DEF Deploying, Work
<1>2. Touched' = Touched
  BY <1>1 DEF Touched
<1>3. CASE DeployPlans
  <2>1. failure = NoError
    BY <1>1, <1>3, NoFailure DEF DeployPlans, Deploying, EntriesInv
  <2> DEFINE new == Listed(ToSet(todo), "Plan", "Pending")
  <2>2. ToSet(todo) \in SUBSET Migrations
    BY <1>1 DEF ToSet
  <2>3. new \in Seq(Entries) /\ \A i \in DOMAIN new : Plain(new[i])
    BY <2>2, ListedIsPlain
  <2>4. Push(new)
    BY <1>3 DEF DeployPlans
  <2> HIDE DEF new
  <2>5. session'.migrations = old \o new
    BY <1>1, <2>3, <2>4, PushTypes
  <2>6. TrueEntries' /\ NothingLeftOut'
    BY <1>1, <2>1, <2>3, <2>5, PlainEntries DEF EntriesInv
  <2>. QED
    BY <1>3, <2>6, StoppedIsDone DEF EntriesInv, DeployPlans
<1>4. CASE DeploySkips
  <2>1. /\ ~args.dry /\ todo # <<>> /\ failure # NoError /\ UNCHANGED <<at, failure>>
        /\ todo' = Tail(todo) /\ Push(<<Entry(m, "Plan", "Skipped", NoError)>>)
    BY <1>4 DEF DeploySkips
  <2>2. /\ \A i \in DOMAIN todo : todo[i] \notin Touched /\ registry[todo[i]] = "pending"
        /\ \A i, j \in DOMAIN todo : todo[i] = todo[j] => i = j
    BY <1>1 DEF EntriesInv, ToDeploy
  <2>3. /\ 1 \in DOMAIN todo /\ m \in Migrations
        /\ \A i \in DOMAIN todo' : i + 1 \in DOMAIN todo /\ todo'[i] = todo[i + 1]
        /\ \A i, j \in DOMAIN todo' : todo'[i] = todo'[j] => i = j
    BY <1>1, <2>1, <2>2, RestIsDistinct, TailTypes
  <2> DEFINE entry == Entry(m, "Plan", "Skipped", NoError)
  <2>4. entry \in Entries /\ entry.id = m /\ entry.status = "Skipped" /\ Push(<<entry>>)
    <3>1. "Plan" \in Actions /\ "Skipped" \in Statuses /\ NoError \in AllErrors
      BY NothingIsReal, RealIsError DEF Actions, Statuses
    <3>. QED
      BY <2>1, <2>3, <3>1, EntryIs
  <2> HIDE DEF entry
  <2>5. session'.migrations = old \o <<entry>>
    BY <1>1, <2>4, PushesOne
  <2>6. Adds(session'.migrations, old, entry)
    BY <1>1, <2>4, <2>5, AppendedOne
  <2>7. TrueEntries'
    <3> SUFFICES ASSUME NEW i \in DOMAIN session'.migrations
                 PROVE  /\ Claimed(session'.migrations[i]) => session'.migrations[i].id \in Touched
                        /\ Omitted(session'.migrations[i]) => session'.migrations[i].id \notin Touched
      BY <1>2, <2>1 DEF TrueEntries
    <3>1. CASE i \in DOMAIN old /\ session'.migrations[i] = old[i]
      BY <3>1 DEF EntriesInv, TrueEntries
    <3>2. CASE session'.migrations[i] = entry
      BY <2>2, <2>3, <2>4, <3>2 DEF Claimed
    <3>. QED
      BY <2>6, <3>1, <3>2 DEF Adds
  <2>8. NothingLeftOut'
    BY <2>1 DEF NothingLeftOut
  <2>9. Unfailed' /\ ToDeploy'
    BY <1>1, <1>2, <2>1, <2>2, <2>3 DEF Unfailed, ToDeploy, Deploying
  <2>. QED
    BY <2>7, <2>8, <2>9 DEF EntriesInv
<1>5. CASE DeployEnds
  <2>1. session' = session /\ failure' = failure
    BY <1>5, LeaveIs DEF DeployEnds
  <2>2. TrueEntries' /\ NothingLeftOut'
    BY <1>1, <2>1, ClaimsNothing DEF EntriesInv
  <2>. QED
    BY <1>5, <2>2, StoppedIsDone DEF EntriesInv, DeployEnds
<1>. QED
  BY <1>3, <1>4, <1>5

\* A failed release takes nothing back, and can only be added to a success.
LEMMA EndKeepsEntries ==
    ASSUME EntriesInv, Release \/ Emit \/ UNCHANGED vars
    PROVE  EntriesInv'
<1>1. /\ UNCHANGED <<args, before, registry, session, todo>>
      /\ failure # NoError => failure' = failure
  BY DEF Release, Emit, vars
<1>2. Touched' = Touched
  BY <1>1 DEF Touched
<1>3. TrueEntries' /\ NothingLeftOut'
  BY <1>1, <1>2 DEF EntriesInv, TrueEntries, NothingLeftOut
<1>4. CASE Release \/ Emit
  <2>1. at' \in {"emit", "exited"}
    BY <1>4 DEF Release, Emit
  <2>. QED
    BY <1>3, <2>1 DEF EntriesInv, Unfailed, ToDeploy, Over, Deploying
<1>5. CASE UNCHANGED vars
  <2>1. Unfailed' /\ ToDeploy'
    BY <1>2, <1>5 DEF EntriesInv, Unfailed, ToDeploy, Over, Deploying, vars
  <2>. QED
    BY <1>3, <2>1 DEF EntriesInv
<1>. QED
  BY <1>4, <1>5

LEMMA EntriesStart == Init => EntriesInv
<1> SUFFICES ASSUME Init PROVE EntriesInv
  OBVIOUS
<1>1. session.migrations = <<>> /\ registry = before /\ failure = NoError /\ todo = <<>>
  BY DEF Init, NewSession
<1>2. DOMAIN session.migrations = {} /\ DOMAIN todo = {} /\ Touched = {}
  BY <1>1, Untouched
<1>. QED
  BY <1>1, <1>2 DEF EntriesInv, TrueEntries, NothingLeftOut, Unfailed, ToDeploy

LEMMA EntriesFollow == EntriesInv => EntriesAreTrue
BY DEF EntriesInv, TrueEntries, NothingLeftOut, EntriesAreTrue, Claimed, Omitted

LEMMA RetryKept == RetryInv /\ [Next]_vars => RetryInv'
BY StagesKeep, DeployKeeps, ReadersKeep, WritersKeep, EndKeeps, StutterKeeps DEF Next

LEMMA EntriesKept == ReportTypes /\ RetryInv /\ EntriesInv /\ [Next]_vars => EntriesInv'
BY StagesKeepEntries, ReadersKeepEntries, DeployOneKeepsEntries, DeployKeepsEntries,
   WritersKeepEntries, EndKeepsEntries DEF Next, Writes

\* What a report says was done was done, what it says was skipped was not,
\* and a report of success leaves out nothing that was.
THEOREM ReportsAreTrue == Spec => []EntriesAreTrue
<1>. QED
  BY TypesStart, RetryStarts, EntriesStart, TypesKept, RetryKept, EntriesKept, EntriesFollow, PTL DEF Spec

(***************************************************************************)
(* What is blamed, and how often it is shown.                              *)
(***************************************************************************)
Faultless == failure = NoError => \A i \in DOMAIN session.migrations : session.migrations[i].error = NoError

Distinct == \A i, j \in DOMAIN session.migrations :
    session.migrations[i].error # NoError /\ session.migrations[i].error = session.migrations[j].error
        => i = j

\* The failure of a run that ran tests is about none of the files.
TestsApart ==
    /\ session.tests # <<>> => args.cmd = "test" /\ at \notin Stage
    /\ session.tests # <<>> /\ failure # NoError => failure.about \in {"connect", "count", "release"}
    /\ \A i \in DOMAIN session.tests :
        session.tests[i].error # NoError => session.tests[i].error.about \in ToSet(Files)

ErrorsInv == Faultless /\ Distinct /\ TestsApart

\* The first to be blamed ends it for everybody.
LEMMA BlamesOnce ==
    ASSUME Faultless, failure = NoError, session.migrations \in Seq(Entries),
           NEW new \in Seq(Entries), session'.migrations = session.migrations \o new, Blames(new)
    PROVE  Faultless' /\ Distinct'
<1> DEFINE old == session.migrations
           grown == session.migrations \o new
<1>1. Joins(grown, old, new)
  BY Appended
<1>2. \A i \in DOMAIN old : old[i].error = NoError
  BY DEF Faultless
<1>3. Len(old) \in Nat /\ \A i \in DOMAIN grown : i \in Nat
  <2>1. grown \in Seq(Entries)
    BY ConcatProperties
  <2>. QED
    BY <2>1, LenProperties
<1>4. session'.migrations = grown
  OBVIOUS
<1> HIDE DEF grown, old
<1>5. Faultless'
  BY <1>1, <1>2, <1>4 DEF Faultless, Blames, Joins
<1>6. Distinct'
  <2> SUFFICES ASSUME NEW i \in DOMAIN grown, NEW j \in DOMAIN grown,
                      grown[i].error # NoError, grown[i].error = grown[j].error
               PROVE  i = j
    BY <1>4 DEF Distinct
  <2>1. i - Len(old) \in DOMAIN new /\ grown[i] = new[i - Len(old)]
    BY <1>1, <1>2 DEF Joins
  <2>2. j - Len(old) \in DOMAIN new /\ grown[j] = new[j - Len(old)]
    BY <1>1, <1>2 DEF Joins
  <2>3. i - Len(old) = j - Len(old)
    BY <2>1, <2>2 DEF Blames
  <2>. QED
    BY <1>3, <2>3
<1>. QED
  BY <1>5, <1>6

\* An entry without an error changes nothing of this.
LEMMA BlamesNobody ==
    ASSUME Distinct, failure' # NoError, session.migrations \in Seq(Entries),
           NEW entry \in Entries, entry.error = NoError,
           session'.migrations = session.migrations \o <<entry>>
    PROVE  Faultless' /\ Distinct'
<1> DEFINE old == session.migrations
           grown == session.migrations \o <<entry>>
<1>1. Adds(grown, old, entry)
  BY AppendedOne
<1>2. session'.migrations = grown
  OBVIOUS
<1> HIDE DEF grown
<1>. QED
  BY <1>1, <1>2 DEF Faultless, Distinct, Adds

LEMMA OneBlame ==
    ASSUME NEW entry \in Entries, failure' = NoError => entry.error = NoError
    PROVE  Blames(<<entry>>)
BY OneEntry DEF Blames

LEMMA NobodysBlame ==
    ASSUME NEW new \in Seq(Entries), \A i \in DOMAIN new : new[i].error = NoError
    PROVE  Blames(new)
BY DEF Blames

\* A step that records neither an entry nor a test.
LEMMA BlamesStay ==
    ASSUME Faultless, Distinct, session'.migrations = session.migrations, failure' = NoError => failure = NoError
    PROVE  Faultless' /\ Distinct'
BY DEF Faultless, Distinct

LEMMA NoTests ==
    ASSUME TestsApart, session'.tests = session.tests, args.cmd # "test" \/ at \in Stage
    PROVE  TestsApart'
<1>1. session.tests = <<>>
  BY DEF TestsApart
<1>2. session'.tests = <<>> /\ DOMAIN session'.tests = {}
  BY <1>1
<1>. QED
  BY <1>2 DEF TestsApart

LEMMA StagesKeepErrors ==
    ASSUME ReportTypes, EntriesInv, ErrorsInv, Pass \/ Refuse \/ TestsNothing
    PROVE  ErrorsInv'
<1>1. at \in Stage /\ session \in Sessions /\ failure = NoError
  <2>1. at \in Stage
    BY DEF Pass, Refuse, TestsNothing, Stage, Place
  <2>2. ~Deploying
    BY <2>1 DEF Deploying, Stage
  <2>. QED
    BY <2>1, <2>2, TypedIs, NoFailure DEF EntriesInv
<1>2. session'.migrations = session.migrations /\ session'.tests = session.tests
  <2>1. UNCHANGED session \/ \E r \in Remarks(at) : Note(r)
    BY DEF Pass, Refuse, TestsNothing
  <2>. QED
    BY <1>1, <2>1, RemarksAre, NoteTypes
<1>. QED
  BY <1>1, <1>2, NoTests, BlamesStay DEF ErrorsInv

LEMMA WritersKeepErrors ==
    ASSUME ReportTypes, EntriesInv, ErrorsInv, Writes
    PROVE  ErrorsInv'
<1>1. at = "work" /\ ~Deploying /\ args.cmd # "test"
  <2>1. args.cmd # "test"
    BY DEF Writes, RevertWork, BaselineWork, ResolveWork, RehashWork, Working
  <2>. QED
    BY <2>1, WritersTell
<1>2. PICK new \in Seq(Entries) : EndsWith(new) /\ Blames(new)
  BY WritersTell
<1>3. failure = NoError /\ session.migrations \in Seq(Entries)
  BY <1>1, NoFailure, TypedIs, SessionIs DEF EntriesInv
<1>. QED
  BY <1>1, <1>2, <1>3, BlamesOnce, NoTests DEF ErrorsInv, EndsWith

LEMMA DeployKeepsErrors ==
    ASSUME ReportTypes, EntriesInv, ErrorsInv, DeployPlans \/ DeployOne \/ DeploySkips \/ DeployEnds
    PROVE  ErrorsInv'
<1>1. /\ args.cmd = "deploy" /\ at = "work" /\ session \in Sessions
      /\ session.migrations \in Seq(Entries) /\ todo \in Seq(Migrations)
  <2>1. args.cmd = "deploy" /\ at = "work"
    BY DEF DeployPlans, DeployOne, DeploySkips, DeployEnds, Working
  <2>. QED
    BY <2>1, TypedIs, SessionIs DEF Work
<1>2. CASE DeployPlans
  <2> DEFINE new == Listed(ToSet(todo), "Plan", "Pending")
  <2>1. failure = NoError
    BY <1>1, <1>2, NoFailure DEF DeployPlans, EntriesInv
  <2>2. ToSet(todo) \in SUBSET Migrations
    BY <1>1 DEF ToSet
  <2>3. new \in Seq(Entries) /\ \A i \in DOMAIN new : new[i].error = NoError
    BY <2>2, ListedIsPlain
  <2>4. Push(new)
    BY <1>2 DEF DeployPlans
  <2> HIDE DEF new
  <2>5. session'.migrations = session.migrations \o new /\ session'.tests = session.tests
    BY <1>1, <2>3, <2>4, PushTypes
  <2>6. Blames(new)
    BY <2>3, NobodysBlame
  <2>. QED
    BY <1>1, <2>1, <2>3, <2>5, <2>6, BlamesOnce, NoTests DEF ErrorsInv
<1>3. CASE DeployOne
  <2>1. failure = NoError /\ todo[1] \in Migrations
    BY <1>1, <1>3, TailTypes DEF DeployOne
  <2>2. PICK o \in DeployOutcomes :
            failure' = Failed(o.code, todo[1]) /\ Push(<<Entry(todo[1], "Deploy", o.status, failure')>>)
    BY <1>3 DEF DeployOne
  <2> DEFINE entry == Entry(todo[1], "Deploy", o.status, failure')
  <2>3. entry \in Entries /\ entry.error = failure' /\ Push(<<entry>>)
    <3>1. o.status \in Statuses /\ "Deploy" \in Actions /\ Real(failure')
      BY <2>1, <2>2, OutcomesAre, FailedIsReal DEF Statuses, Actions, Subjects
    <3>. QED
      BY <2>1, <2>2, <3>1, RealIsError, EntryIs
  <2> HIDE DEF entry
  <2>4. session'.migrations = session.migrations \o <<entry>> /\ session'.tests = session.tests
    BY <1>1, <2>3, PushesOne
  <2>5. <<entry>> \in Seq(Entries) /\ Blames(<<entry>>)
    BY <2>3, OneEntry, OneBlame
  <2>. QED
    BY <1>1, <2>1, <2>4, <2>5, BlamesOnce, NoTests DEF ErrorsInv
<1>4. CASE DeploySkips
  <2>1. failure' # NoError /\ todo[1] \in Migrations /\ Push(<<Entry(todo[1], "Plan", "Skipped", NoError)>>)
    BY <1>1, <1>4, TailTypes DEF DeploySkips
  <2> DEFINE entry == Entry(todo[1], "Plan", "Skipped", NoError)
  <2>2. entry \in Entries /\ entry.error = NoError /\ Push(<<entry>>)
    <3>1. "Plan" \in Actions /\ "Skipped" \in Statuses /\ NoError \in AllErrors
      BY NothingIsReal, RealIsError DEF Actions, Statuses
    <3>. QED
      BY <2>1, <3>1, EntryIs
  <2> HIDE DEF entry
  <2>3. session'.migrations = session.migrations \o <<entry>> /\ session'.tests = session.tests
    BY <1>1, <2>2, PushesOne
  <2>. QED
    BY <1>1, <2>1, <2>2, <2>3, BlamesNobody, NoTests DEF ErrorsInv
<1>5. CASE DeployEnds
  <2>1. session' = session /\ failure' = failure
    BY <1>5, LeaveIs DEF DeployEnds
  <2>. QED
    BY <1>1, <2>1, BlamesStay, NoTests DEF ErrorsInv
<1>. QED
  BY <1>2, <1>3, <1>4, <1>5

LEMMA ReadersKeepErrors ==
    ASSUME ReportTypes, EntriesInv, ErrorsInv, LocalWork \/ StatusWork \/ VerifyOne \/ VerifyEnds
    PROVE  ErrorsInv'
<1>1. at = "work" /\ ~Deploying /\ args.cmd # "test"
  BY DEF LocalWork, StatusWork, VerifyOne, VerifyEnds, Working, Deploying, Local
<1>2. failure = NoError /\ session \in Sessions /\ session.migrations \in Seq(Entries)
  BY <1>1, NoFailure, TypedIs, SessionIs DEF EntriesInv
<1>3. CASE session'.migrations = session.migrations /\ session'.tests = session.tests
  BY <1>1, <1>2, <1>3, BlamesStay, NoTests DEF ErrorsInv
<1>4. CASE LocalWork
  <2>1. PICK r \in LocalRemarks : Note(r)
    BY <1>4 DEF LocalWork
  <2>2. r \in Seq(Remarked)
    <3>1. \A x \in Remarked : <<x>> \in Seq(Remarked)
      OBVIOUS
    <3>2. <<>> \in Seq(Remarked)
      OBVIOUS
    <3>. QED
      BY <3>1, <3>2 DEF LocalRemarks, Remarked
  <2>. QED
    BY <1>2, <1>3, <2>1, <2>2, NoteTypes
<1>5. CASE StatusWork
  <2>1. CASE Note(Warned)
    BY <1>2, <1>3, <2>1, StatusLists, NoteTypes
  <2>2. CASE session' = [session EXCEPT !.diagnostics = session.diagnostics \o Warned,
                                        !.migrations = Statused]
    <3>1. session'.migrations = Statused /\ session'.tests = session.tests
      BY <1>2, <2>2 DEF Sessions
    <3>2. \A i \in DOMAIN session'.migrations : session'.migrations[i].error = NoError
      BY <3>1, StatusIsPlain
    <3>. QED
      BY <1>1, <3>1, <3>2, NoTests DEF ErrorsInv, Faultless, Distinct
  <2>. QED
    BY <1>5, <2>1, <2>2, StatusIs
<1>6. CASE VerifyOne
  <2>1. CASE UNCHANGED <<session, failure>>
    BY <1>3, <2>1
  <2>2. ASSUME NEW entry \in Entries, Push(<<entry>>), failure' = NoError => entry.error = NoError
        PROVE  ErrorsInv'
    <3>1. session'.migrations = session.migrations \o <<entry>> /\ session'.tests = session.tests
      BY <1>2, <2>2, PushesOne
    <3>2. <<entry>> \in Seq(Entries) /\ Blames(<<entry>>)
      BY <2>2, OneEntry, OneBlame
    <3>. QED
      BY <1>1, <1>2, <3>1, <3>2, BlamesOnce, NoTests DEF ErrorsInv
  <2>. QED
    BY <1>6, <2>1, <2>2, VerifyIs
<1>7. CASE VerifyEnds
  BY <1>3, <1>7 DEF VerifyEnds
<1>. QED
  BY <1>4, <1>5, <1>6, <1>7

LEMMA TestsKeepErrors ==
    ASSUME ReportTypes, EntriesInv, ErrorsInv, TestOne \/ TestEnds
    PROVE  ErrorsInv'
<1>1. at = "work" /\ args.cmd = "test" /\ UNCHANGED args /\ failure = NoError /\ session \in Sessions
  <2>1. at = "work" /\ args.cmd = "test" /\ UNCHANGED args
    BY DEF TestOne, TestEnds, Working, Stays
  <2>. QED
    BY <2>1, NoFailure, TypedIs DEF EntriesInv, Deploying
<1>2. at' \notin Stage
  <2>1. at' = at \/ \E error : Leave(error)
    BY DEF TestOne, TestEnds
  <2>. QED
    BY <1>1, <2>1, StoppedIsDone DEF Stage, Place
<1>3. session'.migrations = session.migrations
  BY TestIs DEF TestEnds
<1>4. Faultless' /\ Distinct'
  BY <1>1, <1>3, BlamesStay DEF ErrorsInv
<1>5. CASE TestEnds
  <2>1. session' = session /\ (failure' = NoError \/ failure' = Error("VerifyFailed", "count"))
    BY <1>5, LeaveIs DEF TestEnds
  <2>2. failure' # NoError => failure'.about = "count"
    BY <2>1 DEF Error
  <2>. QED
    BY <1>1, <1>2, <1>4, <2>1, <2>2 DEF ErrorsInv, TestsApart
<1>6. CASE TestOne
  <2>1. CASE session' = session /\ failure'.about = "connect"
    BY <1>1, <1>2, <1>4, <2>1 DEF ErrorsInv, TestsApart
  <2>2. ASSUME failure' = failure, NEW entry \in TestEntries, session'.tests = Append(session.tests, entry),
               entry.error # NoError => entry.error.about \in ToSet(Files)
        PROVE  ErrorsInv'
    <3> DEFINE old == session.tests
               grown == old \o <<entry>>
    <3>1. old \in Seq(TestEntries)
      BY <1>1, SessionIs
    <3>2. session'.tests = grown
      BY <2>2, <3>1, AppendIsConcat
    <3>3. Adds(grown, old, entry)
      BY <3>1, AppendedOne
    <3> HIDE DEF grown
    <3>4. TestsApart'
      BY <1>1, <1>2, <2>2, <3>2, <3>3 DEF ErrorsInv, TestsApart, Adds
    <3>. QED
      BY <1>4, <3>4 DEF ErrorsInv
  <2>. QED
    BY <1>6, <2>1, <2>2, TestIs
<1>. QED
  BY <1>5, <1>6

LEMMA EndKeepsErrors ==
    ASSUME ErrorsInv, Release \/ Emit \/ UNCHANGED vars
    PROVE  ErrorsInv'
<1>1. /\ UNCHANGED <<args, session>>
      /\ at' = at \/ at' \in {"emit", "exited"}
      /\ failure' = failure \/ failure' = Error("RegistryUpgradeFailed", "release")
      /\ failure # NoError => failure' = failure
  BY DEF Release, Emit, vars
<1>2. Error("RegistryUpgradeFailed", "release").about = "release"
  BY DEF Error
<1>3. at' \in Stage => at \in Stage
  BY <1>1 DEF Stage, Place
<1>4. NoError # Error("RegistryUpgradeFailed", "release")
  BY DEF NoError, Error
<1>5. args' = args /\ session' = session /\ session'.migrations = session.migrations
  BY <1>1
<1>6. failure' = NoError => failure = NoError
  BY <1>1, <1>4
<1>7. Faultless' /\ Distinct'
  BY <1>5, <1>6, BlamesStay DEF ErrorsInv
<1>8. session.tests # <<>> /\ failure' # NoError => failure'.about \in {"connect", "count", "release"}
  BY <1>1, <1>2 DEF ErrorsInv, TestsApart
<1>9. TestsApart'
  BY <1>3, <1>5, <1>8 DEF ErrorsInv, TestsApart
<1>. QED
  BY <1>7, <1>9 DEF ErrorsInv

LEMMA ErrorsStart == Init => ErrorsInv
<1> SUFFICES ASSUME Init PROVE ErrorsInv
  OBVIOUS
<1>1. session.migrations = <<>> /\ session.tests = <<>>
  BY DEF Init, NewSession
<1>2. DOMAIN session.migrations = {} /\ DOMAIN session.tests = {}
  BY <1>1
<1>. QED
  BY <1>1, <1>2 DEF ErrorsInv, Faultless, Distinct, TestsApart

LEMMA ErrorsKept == ReportTypes /\ EntriesInv /\ ErrorsInv /\ [Next]_vars => ErrorsInv'
BY StagesKeepErrors, ReadersKeepErrors, TestsKeepErrors, DeployKeepsErrors,
   WritersKeepErrors, EndKeepsErrors DEF Next, Writes

(***************************************************************************)
(* How often a list of items shows an error.                               *)
(***************************************************************************)
Never(list, e) == \A i \in DOMAIN list : list[i].shows # e
Once(list, e) ==
    \E i \in DOMAIN list : list[i].shows = e /\ \A j \in DOMAIN list : list[j].shows = e => j = i

LEMMA NeverAfter ==
    ASSUME NEW a \in Seq(Items), NEW b \in Seq(Items), NEW e, Never(b, e)
    PROVE  /\ a \o b \in Seq(Items)
           /\ Never(a, e) => Never(a \o b, e)
           /\ Once(a, e) => Once(a \o b, e)
<1> DEFINE all == a \o b
<1>1. all \in Seq(Items)
  BY ConcatProperties
<1>2. Joins(all, a, b)
  BY Appended
<1> HIDE DEF all
<1>3. \A i \in DOMAIN all : all[i].shows = e => i \in DOMAIN a /\ all[i] = a[i]
  BY <1>2 DEF Never, Joins
<1>4. Never(a, e) => Never(all, e)
  BY <1>3 DEF Never
<1>5. Once(a, e) => Once(all, e)
  BY <1>2, <1>3 DEF Once, Joins
<1>. QED
  BY <1>1, <1>4, <1>5 DEF all

LEMMA NeverBefore ==
    ASSUME NEW a \in Seq(Items), NEW b \in Seq(Items), NEW e, Never(a, e), Once(b, e)
    PROVE  a \o b \in Seq(Items) /\ Once(a \o b, e)
<1> DEFINE all == a \o b
<1>1. all \in Seq(Items)
  BY ConcatProperties
<1>2. Joins(all, a, b)
  BY Appended
<1>3. Len(a) \in Nat /\ (\A i \in DOMAIN all : i \in Nat) /\ (\A i \in DOMAIN b : i \in Nat)
  BY <1>1, LenProperties
<1> HIDE DEF all
<1>4. PICK k \in DOMAIN b : b[k].shows = e /\ \A j \in DOMAIN b : b[j].shows = e => j = k
  BY DEF Once
<1>5. \A i \in DOMAIN all : all[i].shows = e => i = Len(a) + k
  <2> SUFFICES ASSUME NEW i \in DOMAIN all, all[i].shows = e PROVE i = Len(a) + k
    OBVIOUS
  <2>1. i - Len(a) \in DOMAIN b /\ all[i] = b[i - Len(a)]
    BY <1>2 DEF Never, Joins
  <2>2. i - Len(a) = k
    BY <1>4, <2>1
  <2>. QED
    BY <1>3, <1>4, <2>2
<1>6. Once(all, e)
  BY <1>2, <1>4, <1>5 DEF Once, Joins
<1>. QED
  BY <1>1, <1>6 DEF all

\* The error of the run is shown by its own line, or by the entry it is about.
LEMMA ErrorsFollow == ReportTypes /\ ErrorsInv => ErrorsAreShownOnce
<1> SUFFICES ASSUME ReportTypes, ErrorsInv, printed = Output, args.output = "human",
                    NEW e \in Errors(session.migrations) \cup ({failure} \ {NoError})
             PROVE  \E i \in DOMAIN printed : Shown(e) = {i}
  BY DEF ErrorsAreShownOnce, Whole
<1>1. /\ Diagnosed \in Seq(Items) /\ Migrated \in Seq(Items) /\ Tested \in Seq(Items)
      /\ Erred \in Seq(Items) /\ Summed \in Seq(Items)
  BY SessionParts, EndParts
<1>2. e # NoError
  BY DEF Errors
<1>3. Never(Diagnosed, e) /\ Never(Tested, e) /\ Never(Summed, e)
  BY <1>2, SessionParts, EndParts DEF Never
<1>4. CASE e \in Errors(session.migrations)
  <2>1. PICK i \in DOMAIN session.migrations : session.migrations[i].error = e
    BY <1>4 DEF Errors
  <2>2. Once(Migrated, e)
    BY <1>2, <2>1, SessionParts DEF ErrorsInv, Distinct, Once
  <2>3. Never(Erred, e)
    <3>1. e = failure => AlreadyShown
      BY <2>1 DEF AlreadyShown
    <3>. QED
      BY <1>2, <3>1, EndParts DEF Never
  <2>4. Diagnosed \o Migrated \in Seq(Items) /\ Once(Diagnosed \o Migrated, e)
    BY <1>1, <1>3, <2>2, NeverBefore
  <2>5. Diagnosed \o Migrated \o Tested \in Seq(Items) /\ Once(Diagnosed \o Migrated \o Tested, e)
    BY <1>1, <1>3, <2>4, NeverAfter
  <2>6. Body \in Seq(Items) /\ Once(Body, e)
    BY <1>1, <2>3, <2>5, NeverAfter DEF Body
  <2>7. Once(Body \o Summed, e)
    BY <1>1, <1>3, <2>6, NeverAfter
  <2>. QED
    BY <2>7, OutputIs, RenderIs DEF Once, Shown
<1>5. CASE e = failure /\ e \notin Errors(session.migrations)
  <2>1. \A i \in DOMAIN session.migrations : session.migrations[i].error # e
    BY <1>2, <1>5 DEF Errors
  <2>2. Never(Migrated, e)
    BY <2>1, SessionParts DEF Never
  <2>3. ~AlreadyShown
    <3>1. \A i \in DOMAIN session.tests : session.tests[i].error # failure
      <4> SUFFICES ASSUME NEW i \in DOMAIN session.tests, session.tests[i].error = failure
                   PROVE  FALSE
        OBVIOUS
      <4>1. failure.about \in ToSet(Files)
        BY <1>2, <1>5 DEF ErrorsInv, TestsApart
      <4>2. session.tests # <<>>
        OBVIOUS
      <4>3. failure.about \in {"connect", "count", "release"}
        BY <1>2, <1>5, <4>2 DEF ErrorsInv, TestsApart
      <4>. QED
        BY <4>1, <4>3, ReportAssumption
    <3>. QED
      BY <1>5, <2>1, <3>1 DEF AlreadyShown
  <2>4. Once(Erred, e)
    BY <1>2, <1>5, <2>3, EndParts DEF Once
  <2>5. Diagnosed \o Migrated \in Seq(Items) /\ Never(Diagnosed \o Migrated, e)
    BY <1>1, <1>3, <2>2, NeverAfter
  <2>6. Diagnosed \o Migrated \o Tested \in Seq(Items) /\ Never(Diagnosed \o Migrated \o Tested, e)
    BY <1>1, <1>3, <2>5, NeverAfter
  <2>7. Body \in Seq(Items) /\ Once(Body, e)
    BY <1>1, <2>4, <2>6, NeverBefore DEF Body
  <2>8. Once(Body \o Summed, e)
    BY <1>1, <1>3, <2>7, NeverAfter
  <2>. QED
    BY <2>8, OutputIs, RenderIs DEF Once, Shown
<1>. QED
  BY <1>4, <1>5

\* Whoever reads the whole output reads the error of the run, and that of every
\* migration, exactly once.
THEOREM ErrorsAreReadOnce == Spec => []ErrorsAreShownOnce
<1>. QED
  BY TypesStart, RetryStarts, EntriesStart, ErrorsStart, TypesKept, RetryKept, EntriesKept, ErrorsKept,
     ErrorsFollow, PTL DEF Spec

=============================================================================
