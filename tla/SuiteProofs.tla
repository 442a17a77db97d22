----------------------------- MODULE SuiteProofs -----------------------------
(***************************************************************************)
(* Proofs about TestSuite, for any number of suites and files.             *)
(***************************************************************************)
EXTENDS TestSuite, TLAPS

USE SuitesAssumption

(***************************************************************************)
(* The inductive invariant.                                                *)
(***************************************************************************)
UnderLock == AtWork \cup {"locked", "releasing"}

\* While its session lives, a suite under the lock has it.
LockHeld == \A s \in Suites : session[s] = "open" /\ pc[s] \in UnderLock => holder = s

\* What it checked under the lock still is so.
CheckStands ==
    \A s \in Suites : session[s] = "open" /\ pc[s] \in AtWork =>
        schema = Wanted[s] /\ s \notin moved

\* And nobody has replaced its library.
LibraryStands ==
    \A s \in Suites : session[s] = "open" /\ pc[s] \in {"ready", "testing", "tested"} =>
        library = LibraryOf[s]

\* A library that was there when a suite looked is not somebody's own.
LookStands ==
    \A s \in Suites : pc[s] = "installing" /\ saw[s] # Absent => library \in Libraries

\* What a listed sequence moved while a file ran is what was drawn, and one that
\* was granted when the file began is listed.
DrawsAddUp ==
    \A s \in Suites : pc[s] \in {"testing", "tested"} =>
        /\ drew[s].granted => before[s] # {}
        /\ \A was \in before[s] : drawn = was + drew[s].own + drew[s].others

\* A file that passed was rolled back, and its sequences were read again.
PassesLooked ==
    \A s \in Suites : \A i \in DOMAIN reports[s] :
        reports[s][i].document = "passed" => reports[s][i].looked

\* What a success was decided on, until the release confirms it.
Deserved(s) ==
    /\ s \notin moved
    /\ Len(reports[s]) = FileCount
    /\ \A i \in DOMAIN reports[s] : reports[s][i].document = "passed" /\ reports[s][i].looked

VerdictStands ==
    \A s \in Suites : outcome[s] = "ok" =>
        /\ pc[s] \in {"releasing", "done"}
        /\ pc[s] = "done" \/ session[s] = "open" => Deserved(s)

Inv == TypeOK /\ LockHeld /\ CheckStands /\ LibraryStands /\ LookStands /\ DrawsAddUp
       /\ PassesLooked /\ VerdictStands

(***************************************************************************)
(* Types.                                                                  *)
(***************************************************************************)
\* A suite that has reported nothing has a sequence of reports.
LEMMA EmptySequence ==
    ASSUME NEW S
    PROVE  <<>> \in Seq(S)
OBVIOUS

\* Every variable starts with its type.
LEMMA InitTypes == Init => TypeOK
<1> SUFFICES ASSUME Init PROVE TypeOK
    OBVIOUS
<1>1. \A s \in Suites : <<>> \in Seq([document : Documents, advanced : BOOLEAN, looked : BOOLEAN])
    BY EmptySequence
<1> QED BY <1>1 DEF Init, TypeOK, AtWork, Libraries, Documents, Nothing

\* Only a report grows a sequence.
LEMMA ReportTypes ==
    ASSUME TypeOK, NEW s \in Suites, NEW found \in Documents, NEW advanced \in BOOLEAN,
           NEW looked \in BOOLEAN, Report(s, found, advanced, looked), NEW from, Move(s, from, "ready")
    PROVE  TypeOK'
<1> DEFINE R == [document : Documents, advanced : BOOLEAN, looked : BOOLEAN]
<1>1. reports[s] \in Seq(R)
    BY DEF TypeOK
<1>2. [document |-> found, advanced |-> advanced, looked |-> looked] \in R
    OBVIOUS
<1>3. Append(reports[s], [document |-> found, advanced |-> advanced, looked |-> looked]) \in Seq(R)
    BY <1>1, <1>2
<1>4. reports' \in [Suites -> Seq(R)]
    BY <1>3 DEF Report, TypeOK
<1>5. Nothing \in [own : Nat, others : Nat, granted : BOOLEAN] /\ "none" \in Documents
    BY DEF Nothing, Documents
<1>6. drew' \in [Suites -> [own : Nat, others : Nat, granted : BOOLEAN]]
    BY <1>5 DEF Report, TypeOK
<1>7. document' \in [Suites -> Documents] /\ before' \in [Suites -> SUBSET (0 .. MaxDrawn)]
    BY <1>5 DEF Report, TypeOK
<1> QED BY <1>4, <1>6, <1>7 DEF Report, TypeOK, Move, AtWork, target

\* However a file ends, its report is one.
LEMMA EndOfFileTypes ==
    ASSUME TypeOK, NEW s \in Suites, EndFile(s) \/ FileFails(s)
    PROVE  TypeOK'
<1>1. CASE EndFile(s)
    <2>1. document[s] \in Documents /\ Advanced(s) \in BOOLEAN /\ TRUE \in BOOLEAN
        BY DEF TypeOK, Advanced
    <2> QED BY <1>1, <2>1, ReportTypes DEF EndFile
<1>2. CASE FileFails(s)
    <2>1. "none" \in Documents /\ FALSE \in BOOLEAN
        BY DEF Documents
    <2> QED BY <1>2, <2>1, ReportTypes DEF FileFails
<1> QED BY <1>1, <1>2

\* What a draw does to the counts.
LEMMA DrawTypes ==
    ASSUME TypeOK, NEW by, Draw(by)
    PROVE  TypeOK'
<1> DEFINE D == [own : Nat, others : Nat, granted : BOOLEAN]
<1>1. ASSUME NEW s \in Suites
      PROVE  /\ drew[s] \in D
             /\ [drew[s] EXCEPT !.own = @ + 1] \in D
             /\ [drew[s] EXCEPT !.others = @ + 1] \in D
    <2>1. drew[s] \in D
        BY DEF TypeOK
    <2> QED BY <2>1
<1>2. drawn' \in 0 .. MaxDrawn
    BY DEF Draw, TypeOK
<1>3. drew' \in [Suites -> D]
    <2> HIDE DEF D
    <2> QED BY <1>1 DEF Draw
<1> QED BY <1>2, <1>3 DEF Draw, TypeOK, suite

\* Every step keeps the types.
LEMMA StepTypes ==
    ASSUME TypeOK, [Next]_vars
    PROVE  TypeOK'
<1> USE DEF TypeOK
<1>1. ASSUME NEW s \in Suites, SuiteStep(s) PROVE TypeOK'
    <2>1. CASE Open(s)
        BY <2>1 DEF Open, Move, AtWork, target, history
    <2>2. CASE Acquire(s)
        BY <2>2 DEF Acquire, Move, AtWork, history
    <2>3. CASE Check(s)
        BY <2>3 DEF Check, Move, AtWork, target
    <2>4. CASE LookAtLibrary(s)
        BY <2>4 DEF LookAtLibrary, Recognizes, IsCurrent, Move, AtWork, target, history
    <2>5. CASE Install(s)
        BY <2>5 DEF Install, Move, AtWork, Libraries, history
    <2>6. CASE StartFile(s)
        <3>1. Listed \in SUBSET (0 .. MaxDrawn)
            BY DEF Listed
        <3>2. drew' \in [Suites -> [own : Nat, others : Nat, granted : BOOLEAN]]
            <4>1. [own |-> 0, others |-> 0, granted |-> granted]
                      \in [own : Nat, others : Nat, granted : BOOLEAN]
                OBVIOUS
            <4> QED BY <2>6, <4>1 DEF StartFile
        <3> QED BY <2>6, <3>1, <3>2 DEF StartFile, Move, AtWork, target
    <2>7. CASE EndFile(s)
        BY <2>7, EndOfFileTypes
    <2>8. CASE FileFails(s)
        BY <2>8, EndOfFileTypes
    <2>9. CASE EndSuite(s)
        BY <2>9 DEF EndSuite, Move, AtWork, target, history
    <2>10. CASE Refuse(s)
        BY <2>10 DEF Refuse, Move, AtWork, target, history
    <2>11. CASE Release(s)
        BY <2>11 DEF Release, Released, Move, AtWork, history
    <2>12. CASE Leave(s)
        BY <2>12 DEF Leave, Move, AtWork, target, history
    <2>13. CASE TestFile(s)
        <3>1. document' \in [Suites -> Documents]
            BY <2>13 DEF TestFile
        <3> QED BY <2>13, <3>1 DEF TestFile, Move, AtWork, target, history
    <2> QED BY <1>1, <2>1, <2>2, <2>3, <2>4, <2>5, <2>6, <2>7, <2>8, <2>9, <2>10, <2>11, <2>12,
               <2>13 DEF SuiteStep
<1>2. ASSUME NEW s \in Suites, LoseSession(s) PROVE TypeOK'
    BY <1>2 DEF LoseSession, Released, history
<1>3. CASE Deploy
    BY <1>3 DEF Deploy, suite
<1>4. CASE TakeName
    BY <1>4 DEF TakeName, suite, history
<1>5. ASSUME NEW s \in Suites, FileDraws(s) PROVE TypeOK'
    BY <1>5, DrawTypes DEF FileDraws
<1>6. CASE ApplicationDraws
    BY <1>6, DrawTypes DEF ApplicationDraws
<1>7. CASE UNCHANGED vars
    BY <1>7 DEF vars, target, suite, history
<1>8. CASE Grants
    BY <1>8 DEF Grants, suite, history
<1> QED BY <1>1, <1>2, <1>3, <1>4, <1>5, <1>6, <1>7, <1>8 DEF Next

\* Every variable of the suites, and of what they share, keeps its type.
THEOREM TypeCorrect == Spec => []TypeOK
<1>1. Init => TypeOK
    BY InitTypes
<1>2. TypeOK /\ [Next]_vars => TypeOK'
    BY StepTypes
<1> QED BY <1>1, <1>2, PTL DEF Spec

(***************************************************************************)
(* Each part of the invariant.                                             *)
(***************************************************************************)

\* The lock goes to a suite when it is free and leaves it at its release, or with
\* its session.
LEMMA LockStaysHeld ==
    ASSUME Inv, [Next]_vars
    PROVE  LockHeld'
<1> USE DEF Inv, TypeOK, LockHeld, UnderLock, AtWork
<1>1. ASSUME NEW s \in Suites, SuiteStep(s) PROVE LockHeld'
    <2>1. CASE Open(s)
        BY <2>1 DEF Open, Move, target
    <2>2. CASE Acquire(s)
        BY <2>2 DEF Acquire, Move
    <2>3. CASE Check(s)
        BY <2>3 DEF Check, Move, target
    <2>4. CASE LookAtLibrary(s)
        BY <2>4 DEF LookAtLibrary, Move, target
    <2>5. CASE Install(s)
        BY <2>5 DEF Install, Move
    <2>6. CASE StartFile(s)
        BY <2>6 DEF StartFile, Move, target
    <2>7. CASE EndFile(s)
        BY <2>7 DEF EndFile, Report, Move, target
    <2>8. CASE FileFails(s)
        BY <2>8 DEF FileFails, Report, Move, target
    <2>9. CASE EndSuite(s)
        BY <2>9 DEF EndSuite, Move, target
    <2>10. CASE Refuse(s)
        BY <2>10 DEF Refuse, Move, target
    <2>11. CASE Release(s)
        BY <2>11 DEF Release, Released, Move
    <2>12. CASE Leave(s)
        BY <2>12 DEF Leave, Move, target
    <2>13. CASE TestFile(s)
        BY <2>13 DEF TestFile, Move, target, history
    <2> QED BY <1>1, <2>1, <2>2, <2>3, <2>4, <2>5, <2>6, <2>7, <2>8, <2>9, <2>10, <2>11, <2>12,
               <2>13 DEF SuiteStep
<1>2. ASSUME NEW s \in Suites, LoseSession(s) PROVE LockHeld'
    BY <1>2 DEF LoseSession, Released
<1>3. CASE Deploy
    BY <1>3 DEF Deploy, suite
<1>4. CASE TakeName
    BY <1>4 DEF TakeName, suite
<1>5. ASSUME NEW s \in Suites, FileDraws(s) PROVE LockHeld'
    BY <1>5 DEF FileDraws, Draw, suite
<1>6. CASE ApplicationDraws
    BY <1>6 DEF ApplicationDraws, Draw, suite
<1>7. CASE UNCHANGED vars
    BY <1>7 DEF vars, target, suite
<1>8. CASE Grants
    BY <1>8 DEF Grants, suite, history
<1> QED BY <1>1, <1>2, <1>3, <1>4, <1>5, <1>6, <1>7, <1>8 DEF Next

\* A deployment finds the lock free, so no suite is under it with a session.
LEMMA ChecksStand ==
    ASSUME Inv, [Next]_vars
    PROVE  CheckStands'
<1> USE DEF Inv, TypeOK, CheckStands, AtWork
<1>1. ASSUME NEW s \in Suites, SuiteStep(s) PROVE CheckStands'
    <2>1. CASE Open(s)
        BY <2>1 DEF Open, Move, target, history
    <2>2. CASE Acquire(s)
        BY <2>2 DEF Acquire, Move, history
    <2>3. CASE Check(s)
        BY <2>3 DEF Check, Move, target
    <2>4. CASE LookAtLibrary(s)
        BY <2>4 DEF LookAtLibrary, Move, target, history
    <2>5. CASE Install(s)
        BY <2>5 DEF Install, Move, history
    <2>6. CASE StartFile(s)
        BY <2>6 DEF StartFile, Move, target
    <2>7. CASE EndFile(s)
        BY <2>7 DEF EndFile, Report, Move, target, history
    <2>8. CASE FileFails(s)
        BY <2>8 DEF FileFails, Report, Move, target, history
    <2>9. CASE EndSuite(s)
        BY <2>9 DEF EndSuite, Move, target, history
    <2>10. CASE Refuse(s)
        BY <2>10 DEF Refuse, Move, target, history
    <2>11. CASE Release(s)
        BY <2>11 DEF Release, Move, history
    <2>12. CASE Leave(s)
        BY <2>12 DEF Leave, Move, target, history
    <2>13. CASE TestFile(s)
        BY <2>13 DEF TestFile, Move, target, history
    <2> QED BY <1>1, <2>1, <2>2, <2>3, <2>4, <2>5, <2>6, <2>7, <2>8, <2>9, <2>10, <2>11, <2>12,
               <2>13 DEF SuiteStep
<1>2. ASSUME NEW s \in Suites, LoseSession(s) PROVE CheckStands'
    BY <1>2 DEF LoseSession, history
<1>3. CASE Deploy
    BY <1>3 DEF Deploy, LockHeld, UnderLock, suite
<1>4. CASE TakeName
    BY <1>4 DEF TakeName, suite, history
<1>5. ASSUME NEW s \in Suites, FileDraws(s) PROVE CheckStands'
    BY <1>5 DEF FileDraws, Draw, suite
<1>6. CASE ApplicationDraws
    BY <1>6 DEF ApplicationDraws, Draw, suite
<1>7. CASE UNCHANGED vars
    BY <1>7 DEF vars, target, suite, history
<1>8. CASE Grants
    BY <1>8 DEF Grants, suite, history
<1> QED BY <1>1, <1>2, <1>3, <1>4, <1>5, <1>6, <1>7, <1>8 DEF Next

\* Only a suite that has the lock replaces a library, and nobody a library by
\* something else.
LEMMA LibrariesStand ==
    ASSUME Inv, [Next]_vars
    PROVE  LibraryStands'
<1> USE DEF Inv, TypeOK, LibraryStands
<1>1. ASSUME NEW s \in Suites, SuiteStep(s) PROVE LibraryStands'
    <2>1. CASE Open(s)
        BY <2>1 DEF Open, Move, target, history
    <2>2. CASE Acquire(s)
        BY <2>2 DEF Acquire, Move, history
    <2>3. CASE Check(s)
        BY <2>3 DEF Check, Move, target
    <2>4. CASE LookAtLibrary(s)
        BY <2>4 DEF LookAtLibrary, Move, target, history, IsCurrent
    <2>5. CASE Install(s)
        BY <2>5 DEF Install, Move, history, LockHeld, UnderLock, AtWork
    <2>6. CASE StartFile(s)
        BY <2>6 DEF StartFile, Move, target
    <2>7. CASE EndFile(s)
        BY <2>7 DEF EndFile, Report, Move, target, history
    <2>8. CASE FileFails(s)
        BY <2>8 DEF FileFails, Report, Move, target, history
    <2>9. CASE EndSuite(s)
        BY <2>9 DEF EndSuite, Move, target, history
    <2>10. CASE Refuse(s)
        BY <2>10 DEF Refuse, Move, target, history
    <2>11. CASE Release(s)
        BY <2>11 DEF Release, Move, history
    <2>12. CASE Leave(s)
        BY <2>12 DEF Leave, Move, target, history
    <2>13. CASE TestFile(s)
        BY <2>13 DEF TestFile, Move, target, history
    <2> QED BY <1>1, <2>1, <2>2, <2>3, <2>4, <2>5, <2>6, <2>7, <2>8, <2>9, <2>10, <2>11, <2>12,
               <2>13 DEF SuiteStep
<1>2. ASSUME NEW s \in Suites, LoseSession(s) PROVE LibraryStands'
    BY <1>2 DEF LoseSession, history
<1>3. CASE Deploy
    BY <1>3 DEF Deploy, suite
<1>4. CASE TakeName
    BY <1>4 DEF TakeName, suite, history, Libraries
<1>5. ASSUME NEW s \in Suites, FileDraws(s) PROVE LibraryStands'
    BY <1>5 DEF FileDraws, Draw, suite
<1>6. CASE ApplicationDraws
    BY <1>6 DEF ApplicationDraws, Draw, suite
<1>7. CASE UNCHANGED vars
    BY <1>7 DEF vars, target, suite, history
<1>8. CASE Grants
    BY <1>8 DEF Grants, suite, history
<1> QED BY <1>1, <1>2, <1>3, <1>4, <1>5, <1>6, <1>7, <1>8 DEF Next

\* A library stays one.
LEMMA LooksStand ==
    ASSUME Inv, [Next]_vars
    PROVE  LookStands'
<1> USE DEF Inv, TypeOK, LookStands, Libraries
<1>1. ASSUME NEW s \in Suites, SuiteStep(s) PROVE LookStands'
    <2>1. CASE Open(s)
        BY <2>1 DEF Open, Move, target, history
    <2>2. CASE Acquire(s)
        BY <2>2 DEF Acquire, Move, history
    <2>3. CASE Check(s)
        BY <2>3 DEF Check, Move, target
    <2>4. CASE LookAtLibrary(s)
        BY <2>4 DEF LookAtLibrary, Move, target, history, Recognizes, IsCurrent
    <2>5. CASE Install(s)
        BY <2>5 DEF Install, Move, history
    <2>6. CASE StartFile(s)
        BY <2>6 DEF StartFile, Move, target
    <2>7. CASE EndFile(s)
        BY <2>7 DEF EndFile, Report, Move, target, history
    <2>8. CASE FileFails(s)
        BY <2>8 DEF FileFails, Report, Move, target, history
    <2>9. CASE EndSuite(s)
        BY <2>9 DEF EndSuite, Move, target, history
    <2>10. CASE Refuse(s)
        BY <2>10 DEF Refuse, Move, target, history
    <2>11. CASE Release(s)
        BY <2>11 DEF Release, Move, history
    <2>12. CASE Leave(s)
        BY <2>12 DEF Leave, Move, target, history
    <2>13. CASE TestFile(s)
        BY <2>13 DEF TestFile, Move, target, history
    <2> QED BY <1>1, <2>1, <2>2, <2>3, <2>4, <2>5, <2>6, <2>7, <2>8, <2>9, <2>10, <2>11, <2>12,
               <2>13 DEF SuiteStep
<1>2. ASSUME NEW s \in Suites, LoseSession(s) PROVE LookStands'
    BY <1>2 DEF LoseSession, history
<1>3. CASE Deploy
    BY <1>3 DEF Deploy, suite
<1>4. CASE TakeName
    BY <1>4 DEF TakeName, suite, history
<1>5. ASSUME NEW s \in Suites, FileDraws(s) PROVE LookStands'
    BY <1>5 DEF FileDraws, Draw, suite
<1>6. CASE ApplicationDraws
    BY <1>6 DEF ApplicationDraws, Draw, suite
<1>7. CASE UNCHANGED vars
    BY <1>7 DEF vars, target, suite, history
<1>8. CASE Grants
    BY <1>8 DEF Grants, suite, history
<1> QED BY <1>1, <1>2, <1>3, <1>4, <1>5, <1>6, <1>7, <1>8 DEF Next

\* A draw counts once for every suite, as its file's own or as another's.
LEMMA DrawCounts ==
    ASSUME TypeOK, DrawsAddUp, NEW by, Draw(by)
    PROVE  DrawsAddUp'
<1> SUFFICES ASSUME NEW s \in Suites, pc[s] \in {"testing", "tested"}
             PROVE  /\ drew'[s].granted => before[s] # {}
                    /\ \A was \in before[s] : drawn' = was + drew'[s].own + drew'[s].others
    BY DEF DrawsAddUp, Draw, suite
<1>1. drew[s] \in [own : Nat, others : Nat, granted : BOOLEAN] /\ before[s] \subseteq Nat
    BY DEF TypeOK
<1>2. /\ drew'[s].own + drew'[s].others = drew[s].own + drew[s].others + 1
      /\ drew'[s].own \in Nat /\ drew'[s].others \in Nat
      /\ drew'[s].granted = drew[s].granted
    <2>1. CASE s = by
        <3>1. drew'[s] = [drew[s] EXCEPT !.own = @ + 1]
            BY <2>1 DEF Draw
        <3> QED BY <1>1, <3>1
    <2>2. CASE s # by
        <3>1. drew'[s] = [drew[s] EXCEPT !.others = @ + 1]
            BY <2>2 DEF Draw
        <3> QED BY <1>1, <3>1
    <2> QED BY <2>1, <2>2
<1>3. drawn' = drawn + 1 /\ drawn \in Nat
    BY DEF Draw, TypeOK
<1>4. ASSUME NEW was \in before[s]
      PROVE  drawn' = was + drew'[s].own + drew'[s].others
    <2>1. drawn = was + drew[s].own + drew[s].others
        BY DEF DrawsAddUp
    <2>2. was \in Nat /\ drew[s].own \in Nat /\ drew[s].others \in Nat
        BY <1>1
    <2> QED BY <1>2, <1>3, <2>1, <2>2
<1>5. drew[s].granted => before[s] # {}
    BY DEF DrawsAddUp
<1> QED BY <1>2, <1>4, <1>5

\* Every draw while a file runs is counted once.
LEMMA DrawsStayCounted ==
    ASSUME Inv, [Next]_vars
    PROVE  DrawsAddUp'
<1> USE DEF Inv, TypeOK, DrawsAddUp
<1>1. ASSUME NEW s \in Suites, SuiteStep(s) PROVE DrawsAddUp'
    <2>1. CASE Open(s)
        BY <2>1 DEF Open, Move, target, history
    <2>2. CASE Acquire(s)
        BY <2>2 DEF Acquire, Move, history
    <2>3. CASE Check(s)
        BY <2>3 DEF Check, Move, target
    <2>4. CASE LookAtLibrary(s)
        BY <2>4 DEF LookAtLibrary, Move, target, history
    <2>5. CASE Install(s)
        BY <2>5 DEF Install, Move, history
    <2>6. CASE StartFile(s)
        <3>1. /\ before'[s] = Listed
              /\ drew'[s].own = 0 /\ drew'[s].others = 0 /\ drew'[s].granted = granted
            BY <2>6 DEF StartFile
        <3>2. /\ drew'[s].granted => before'[s] # {}
              /\ \A was \in before'[s] : drawn = was + drew'[s].own + drew'[s].others
            BY <3>1 DEF Listed
        <3>3. drawn' = drawn
            BY <2>6 DEF StartFile, target
        <3>4. ASSUME NEW t \in Suites, t # s
              PROVE  before'[t] = before[t] /\ drew'[t] = drew[t] /\ pc'[t] = pc[t]
            BY <2>6, <3>4 DEF StartFile, Move
        <3> QED BY <3>2, <3>3, <3>4
    <2>7. CASE EndFile(s)
        BY <2>7 DEF EndFile, Report, Move, target, history
    <2>8. CASE FileFails(s)
        BY <2>8 DEF FileFails, Report, Move, target, history
    <2>9. CASE EndSuite(s)
        BY <2>9 DEF EndSuite, Move, target, history
    <2>10. CASE Refuse(s)
        BY <2>10 DEF Refuse, Move, target, history
    <2>11. CASE Release(s)
        BY <2>11 DEF Release, Move, history
    <2>12. CASE Leave(s)
        BY <2>12 DEF Leave, Move, target, history
    <2>13. CASE TestFile(s)
        BY <2>13 DEF TestFile, Move, target, history
    <2> QED BY <1>1, <2>1, <2>2, <2>3, <2>4, <2>5, <2>6, <2>7, <2>8, <2>9, <2>10, <2>11, <2>12,
               <2>13 DEF SuiteStep
<1>2. ASSUME NEW s \in Suites, LoseSession(s) PROVE DrawsAddUp'
    BY <1>2 DEF LoseSession, history
<1>3. CASE Deploy
    BY <1>3 DEF Deploy, suite
<1>4. CASE TakeName
    BY <1>4 DEF TakeName, suite, history
<1>5. ASSUME NEW s \in Suites, FileDraws(s) PROVE DrawsAddUp'
    BY <1>5, DrawCounts DEF FileDraws
<1>6. CASE ApplicationDraws
    BY <1>6, DrawCounts DEF ApplicationDraws
<1>7. CASE UNCHANGED vars
    BY <1>7 DEF vars, target, suite, history
<1>8. CASE Grants
    BY <1>8 DEF Grants, suite, history
<1> QED BY <1>1, <1>2, <1>3, <1>4, <1>5, <1>6, <1>7, <1>8 DEF Next

\* What one step does to the reports: nothing, or one more at the end of a file.
LEMMA ReportsGrow ==
    ASSUME Inv, [Next]_vars, NEW s \in Suites, reports'[s] # reports[s]
    PROVE  EndFile(s) \/ FileFails(s)
<1> USE DEF Inv, TypeOK
<1>1. ASSUME NEW t \in Suites, SuiteStep(t), t # s PROVE FALSE
    BY <1>1 DEF SuiteStep, Open, Acquire, Check, LookAtLibrary, Install, StartFile, TestFile,
                EndFile, FileFails, Report, EndSuite, Refuse, Release, Leave
<1>2. CASE SuiteStep(s)
    BY <1>2 DEF SuiteStep, Open, Acquire, Check, LookAtLibrary, Install, StartFile, TestFile,
                EndSuite, Refuse, Release, Leave
<1>3. CASE \E t \in Suites : FileDraws(t) \/ LoseSession(t)
    BY <1>3 DEF FileDraws, Draw, LoseSession, suite
<1>4. CASE Deploy \/ ApplicationDraws \/ Grants \/ TakeName
    BY <1>4 DEF Deploy, ApplicationDraws, Draw, Grants, TakeName, suite
<1>5. CASE UNCHANGED vars
    BY <1>5 DEF vars, suite
<1> QED BY <1>1, <1>2, <1>3, <1>4, <1>5 DEF Next

\* The last report is the one appended.
LEMMA LastReport ==
    ASSUME TypeOK, NEW s \in Suites, NEW found \in Documents, NEW advanced \in BOOLEAN,
           NEW looked \in BOOLEAN, Report(s, found, advanced, looked)
    PROVE  reports'[s][Len(reports'[s])] =
               [document |-> found, advanced |-> advanced, looked |-> looked]
<1> DEFINE R == [document : Documents, advanced : BOOLEAN, looked : BOOLEAN]
           r == [document |-> found, advanced |-> advanced, looked |-> looked]
<1>1. reports[s] \in Seq(R) /\ r \in R
    BY DEF TypeOK
<1>2. reports'[s] = Append(reports[s], r)
    BY DEF Report, TypeOK
<1>3. Append(reports[s], r)[Len(Append(reports[s], r))] = r
    <2> HIDE DEF R, r
    <2> QED BY <1>1
<1> QED BY <1>2, <1>3

\* Only a file that was looked at is reported with what it recorded.
LEMMA PassesStayLooked ==
    ASSUME Inv, [Next]_vars
    PROVE  PassesLooked'
<1> SUFFICES ASSUME NEW s \in Suites
             PROVE  \A i \in DOMAIN reports'[s] :
                        reports'[s][i].document = "passed" => reports'[s][i].looked
    BY DEF PassesLooked
<1>1. CASE reports'[s] = reports[s]
    BY <1>1 DEF Inv, PassesLooked
<1>2. ASSUME NEW found \in Documents, NEW advanced \in BOOLEAN, NEW looked \in BOOLEAN,
             Report(s, found, advanced, looked), found = "passed" => looked
      PROVE  \A i \in DOMAIN reports'[s] :
                 reports'[s][i].document = "passed" => reports'[s][i].looked
    <2> DEFINE R == [document : Documents, advanced : BOOLEAN, looked : BOOLEAN]
               r == [document |-> found, advanced |-> advanced, looked |-> looked]
    <2>1. reports[s] \in Seq(R) /\ r \in R
        BY DEF Inv, TypeOK
    <2>2. reports'[s] = Append(reports[s], r)
        BY <1>2 DEF Inv, Report, TypeOK
    <2>3. \A i \in DOMAIN reports'[s] :
              \/ reports'[s][i] = r
              \/ i \in DOMAIN reports[s] /\ reports'[s][i] = reports[s][i]
        <3> HIDE DEF R, r
        <3> QED BY <2>1, <2>2
    <2>4. r.document = "passed" => r.looked
        BY <1>2
    <2> HIDE DEF r
    <2> QED BY <2>3, <2>4 DEF Inv, PassesLooked
<1>3. CASE EndFile(s)
    <2>1. document[s] \in Documents /\ Advanced(s) \in BOOLEAN /\ TRUE \in BOOLEAN
        BY DEF Inv, TypeOK, Advanced
    <2> QED BY <1>2, <1>3, <2>1 DEF EndFile
<1>4. CASE FileFails(s)
    <2>1. "none" \in Documents /\ FALSE \in BOOLEAN /\ "none" # "passed"
        BY DEF Documents
    <2> QED BY <1>2, <1>4, <2>1 DEF FileFails
<1> QED BY <1>1, <1>3, <1>4, ReportsGrow

\* A success that may still be confirmed was earned under the lock.
LEMMA VerdictsStand ==
    ASSUME Inv, [Next]_vars
    PROVE  VerdictStands'
<1> USE DEF Inv, TypeOK, VerdictStands, Deserved
<1>1. ASSUME NEW s \in Suites, SuiteStep(s) PROVE VerdictStands'
    <2>1. CASE Open(s)
        BY <2>1 DEF Open, Move, target, history
    <2>2. CASE Acquire(s)
        BY <2>2 DEF Acquire, Move, history
    <2>3. CASE Check(s)
        BY <2>3 DEF Check, Move, target
    <2>4. CASE LookAtLibrary(s)
        BY <2>4 DEF LookAtLibrary, Move, target, history
    <2>5. CASE Install(s)
        BY <2>5 DEF Install, Move, history
    <2>6. CASE StartFile(s)
        BY <2>6 DEF StartFile, Move, target
    <2>7. CASE EndFile(s)
        BY <2>7 DEF EndFile, Report, Move, target, history
    <2>8. CASE FileFails(s)
        BY <2>8 DEF FileFails, Report, Move, target, history
    <2>9. CASE EndSuite(s)
        <3>1. ASSUME outcome'[s] = "ok" PROVE Deserved(s)' \/ session[s] # "open"
            <4>1. \A i \in DOMAIN reports[s] : FilePassed(reports[s][i])
                BY <2>9, <3>1 DEF EndSuite
            <4>2. \A i \in DOMAIN reports[s] : reports[s][i].document = "passed" /\ reports[s][i].looked
                BY <4>1 DEF FilePassed, PassesLooked
            <4>3. Len(reports[s]) = FileCount /\ (session[s] = "open" => s \notin moved)
                BY <2>9 DEF EndSuite, Move, CheckStands, AtWork
            <4>4. reports' = reports /\ moved' = moved
                BY <2>9 DEF EndSuite, history
            <4> QED BY <4>2, <4>3, <4>4
        <3> QED BY <2>9, <3>1 DEF EndSuite, Move, target, history
    <2>10. CASE Refuse(s)
        BY <2>10 DEF Refuse, Move, target, history
    <2>11. CASE Release(s)
        BY <2>11 DEF Release, Move, history
    <2>12. CASE Leave(s)
        BY <2>12 DEF Leave, Move, target, history
    <2>13. CASE TestFile(s)
        BY <2>13 DEF TestFile, Move, target, history
    <2> QED BY <1>1, <2>1, <2>2, <2>3, <2>4, <2>5, <2>6, <2>7, <2>8, <2>9, <2>10, <2>11, <2>12,
               <2>13 DEF SuiteStep
<1>2. ASSUME NEW s \in Suites, LoseSession(s) PROVE VerdictStands'
    BY <1>2 DEF LoseSession, history
<1>3. CASE Deploy
    BY <1>3 DEF Deploy, suite, LockHeld, UnderLock
<1>4. CASE TakeName
    BY <1>4 DEF TakeName, suite, history
<1>5. ASSUME NEW s \in Suites, FileDraws(s) PROVE VerdictStands'
    BY <1>5 DEF FileDraws, Draw, suite
<1>6. CASE ApplicationDraws
    BY <1>6 DEF ApplicationDraws, Draw, suite
<1>7. CASE UNCHANGED vars
    BY <1>7 DEF vars, target, suite, history
<1>8. CASE Grants
    BY <1>8 DEF Grants, suite, history
<1> QED BY <1>1, <1>2, <1>3, <1>4, <1>5, <1>6, <1>7, <1>8 DEF Next

(***************************************************************************)
(* The theorems.                                                           *)
(***************************************************************************)
\* Nothing has been checked or decided at first.
LEMMA InitInv == Init => Inv
<1> SUFFICES ASSUME Init PROVE Inv
    OBVIOUS
<1>1. TypeOK
    BY InitTypes
<1>2. LockHeld /\ CheckStands /\ LibraryStands /\ LookStands /\ DrawsAddUp /\ PassesLooked
      /\ VerdictStands
    BY DEF Init, LockHeld, UnderLock, AtWork, CheckStands, LibraryStands, LookStands, DrawsAddUp,
           PassesLooked, VerdictStands
<1> QED BY <1>1, <1>2 DEF Inv

\* Every step keeps the invariant, part by part.
LEMMA StepInv == Inv /\ [Next]_vars => Inv'
<1> SUFFICES ASSUME Inv, [Next]_vars PROVE Inv'
    OBVIOUS
<1>1. TypeOK'
    BY StepTypes DEF Inv
<1> QED BY <1>1, LockStaysHeld, ChecksStand, LibrariesStand, LooksStand, DrawsStayCounted,
           PassesStayLooked, VerdictsStand DEF Inv

\* What a suite knows under the lock holds while its session lives: the invariant
\* of run_suite.
THEOREM SuitesAreRight == Spec => []Inv
BY InitInv, StepInv, PTL DEF Spec

\* What a success says is so, for any number of suites, files and deployments: the
\* release, which needs the session, confirms it, and no file counts that could
\* not be rolled back or whose sequences could not be read again.
THEOREM SuccessMeansChecked == Spec => []SuccessIsOfWhatWasChecked
<1>1. Inv => SuccessIsOfWhatWasChecked
    BY DEF Inv, VerdictStands, Deserved, SuccessIsOfWhatWasChecked
<1> QED BY <1>1, SuitesAreRight, PTL

\* No file runs on another release's library while its suite has the lock.
THEOREM FilesRunOnTheirOwn == Spec => []FilesSeeTheirOwn
<1>1. Inv => FilesSeeTheirOwn
    BY DEF Inv, CheckStands, LibraryStands, AtWork, FilesSeeTheirOwn
<1> QED BY <1>1, SuitesAreRight, PTL

\* What is read again after a file is what was drawn while it ran.
LEMMA AdvanceIsADraw ==
    ASSUME Inv, NEW s \in Suites, pc[s] = "tested"
    PROVE  /\ drew[s].granted /\ drew[s].own > 0 => Advanced(s)
           /\ Advanced(s) => drew[s].own + drew[s].others > 0
<1>1. drew[s] \in [own : Nat, others : Nat, granted : BOOLEAN] /\ before[s] \subseteq Nat
    BY DEF Inv, TypeOK
<1>2. drew[s].own \in Nat /\ drew[s].others \in Nat
    BY <1>1
<1>3. /\ drew[s].granted => before[s] # {}
      /\ \A was \in before[s] : drawn = was + drew[s].own + drew[s].others
    BY DEF Inv, DrawsAddUp
<1>4. ASSUME NEW was \in before[s]
      PROVE  /\ drew[s].own > 0 => drawn # was
             /\ drawn # was => drew[s].own + drew[s].others > 0
    <2>1. was \in Nat
        BY <1>1
    <2> QED BY <1>2, <1>3, <2>1
<1> QED BY <1>3, <1>4 DEF Advanced

\* A file's report says that a sequence advanced if the file drew from one that
\* its role was granted when it began, and only if somebody did, for any number
\* of draws by anyone and of grants and revocations.
THEOREM AdvancesReported == Spec => AdvancesAreReported
<1>1. ASSUME Inv, [Next]_vars, NEW s \in Suites, reports'[s] # reports[s]
      PROVE  LET report == reports'[s][Len(reports'[s])]
             IN  /\ report.looked /\ drew[s].granted /\ drew[s].own > 0 => report.advanced
                 /\ report.advanced => drew[s].own + drew[s].others > 0
    <2>1. CASE FileFails(s)
        <3>1. reports'[s][Len(reports'[s])] =
                  [document |-> "none", advanced |-> FALSE, looked |-> FALSE]
            BY <1>1, <2>1, LastReport DEF FileFails, Inv, Documents
        <3>2. /\ reports'[s][Len(reports'[s])].looked = FALSE
              /\ reports'[s][Len(reports'[s])].advanced = FALSE
            BY <3>1
        <3> QED BY <3>2
    <2>2. CASE EndFile(s)
        <3>1. document[s] \in Documents /\ Advanced(s) \in BOOLEAN
            BY <1>1 DEF Inv, TypeOK, Advanced
        <3>2. reports'[s][Len(reports'[s])] =
                  [document |-> document[s], advanced |-> Advanced(s), looked |-> TRUE]
            BY <1>1, <2>2, <3>1, LastReport DEF EndFile, Inv
        <3>3. reports'[s][Len(reports'[s])].advanced = Advanced(s)
            BY <3>2
        <3>4. pc[s] = "tested"
            BY <2>2 DEF EndFile, Move
        <3> QED BY <1>1, <3>3, <3>4, AdvanceIsADraw, Zenon
    <2> QED BY <1>1, <2>1, <2>2, ReportsGrow
<1>2. Inv /\ [Next]_vars =>
        [\A s \in Suites : reports'[s] # reports[s] =>
            LET report == reports'[s][Len(reports'[s])]
            IN  /\ report.looked /\ drew[s].granted /\ drew[s].own > 0 => report.advanced
                /\ report.advanced => drew[s].own + drew[s].others > 0]_vars
    BY <1>1
<1> QED BY <1>2, SuitesAreRight, PTL DEF Spec, AdvancesAreReported

\* Somebody's own schema is dropped only by a suite that found none there.
THEOREM ForeignRefused == Spec => ForeignIsRefused
<1>1. ASSUME Inv, [Next]_vars, library = Foreign, library' # Foreign
      PROVE  \E s \in Suites : pc[s] = "installing" /\ saw[s] = Absent
    <2>1. PICK s \in Suites : Install(s)
        BY <1>1 DEF Next, SuiteStep, Open, Acquire, Check, LookAtLibrary, StartFile, TestFile,
                    EndFile, FileFails, Report, EndSuite, Refuse, Release, Leave, FileDraws, Draw,
                    LoseSession, Deploy, ApplicationDraws, Grants, TakeName, vars, target
    <2>2. pc[s] = "installing"
        BY <2>1 DEF Install, Move
    <2>3. Foreign \notin Libraries
        BY DEF Libraries
    <2> QED BY <1>1, <2>2, <2>3 DEF Inv, LookStands
<1>2. Inv /\ [Next]_vars =>
        [library = Foreign /\ library' # Foreign =>
            \E s \in Suites : pc[s] = "installing" /\ saw[s] = Absent]_vars
    BY <1>1
<1> QED BY <1>2, SuitesAreRight, PTL DEF Spec, ForeignIsRefused

===============================================================================
