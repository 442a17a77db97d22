--------------------------- MODULE DeploymentProofs ---------------------------
(***************************************************************************)
(* Theorems about Deployment, for every set of runs, checkouts and         *)
(* definitions.                                                            *)
(*                                                                         *)
(* First the types.  Then the safety of the protocol: the plan of the run  *)
(* under the lock stays justified by the rows, so every transaction is a   *)
(* step of the ledger, and what the ledger's steps preserve holds of the   *)
(* registry.  Then the records: each transaction tells in the history what *)
(* it does to the rows, so the history explains them, and what is written  *)
(* of verification, of the schema and in a deploy's report agrees with it. *)
(***************************************************************************)
EXTENDS Deployment, WellFoundedInduction, TLAPS

-----------------------------------------------------------------------------
(***************************************************************************)
(* Types of the helpers.                                                   *)
(***************************************************************************)

\* An appended batch of events is a set of events.
LEMMA LogTyped ==
    ASSUME history \in Seq(SUBSET Event), NEW r \in Runs,
           NEW S \in SUBSET Definitions,
           NEW action \in AllCommands, NEW outcome \in Outcomes,
           Log(r, action, outcome, S)
    PROVE  history' \in Seq(SUBSET Event)
<1> DEFINE batch == {[run |-> r, action |-> action, outcome |-> outcome, id |-> IdOf[d]] : d \in S}
<1>1. batch \in SUBSET Event
  BY CatalogAssumption DEF Event
<1>2. QED
  BY <1>1 DEF Log

\* The two ways of updating a report keep it a report.
LEMMA ReportTyped ==
    ASSUME NEW r \in Runs, report \in [Runs -> [Migrations -> Results]],
           NEW result \in Results
    PROVE  /\ \A d \in Definitions : Stopped(r, d, result) \in [Migrations -> Results]
           /\ \A S \in SUBSET Definitions : Reported(r, S, result) \in [Migrations -> Results]
BY DEF Stopped, Reported, Results

\* A snapshot of the registry is a registry state.
LEMMA RegistryTyped ==
    ASSUME initialized \in BOOLEAN, applied \in Rows, attempts \in Rows
    PROVE  Registry \in RegistryState
BY DEF Registry, RegistryState

\* A baseline's rows are rows.
LEMMA BaselineTyped ==
    ASSUME applied \in Rows, NEW S \in SUBSET Definitions
    PROVE  [m \in Migrations |-> IF \E d \in S : IdOf[d] = m
                                   THEN CHOOSE d \in S : IdOf[d] = m
                                   ELSE applied[m]] \in Rows
<1>1. ASSUME NEW m \in Migrations, \E d \in S : IdOf[d] = m
      PROVE  (CHOOSE d \in S : IdOf[d] = m) \in Definitions
  BY <1>1
<1>2. QED
  BY <1>1 DEF Rows

\* A list that loses one definition, or none, is a list.
LEMMA ListTyped ==
    ASSUME todo \in [Runs -> SUBSET Definitions], NEW r \in Runs, NEW d,
           todo' = todo \/ todo' = [todo EXCEPT ![r] = @ \ {d}]
    PROVE  todo' \in [Runs -> SUBSET Definitions]
<1>1. todo[r] \ {d} \in SUBSET Definitions
  OBVIOUS
<1>2. QED
  BY <1>1

\* A run that opens its connection has a command and a snapshot.
LEMMA OpenTyped ==
    ASSUME TypeOK, NEW r \in Runs, Open(r)
    PROVE  TypeOK'
<1>1. cmd' \in [Runs -> AllCommands \cup {"none"}]
  BY CatalogAssumption DEF Open, TypeOK
<1>2. snap' \in [Runs -> RegistryState]
  <2>1. Registry \in RegistryState
    BY RegistryTyped DEF TypeOK
  <2>2. QED
    BY <2>1 DEF Open, TypeOK
<1>3. /\ pc' = [pc EXCEPT ![r] = "done"] \/ pc' = [pc EXCEPT ![r] = "opened"]
      /\ session' = session \/ session' = [session EXCEPT ![r] = "live"]
  BY DEF Open
<1>4. pc' \in [Runs -> Outside \cup UnderLock]
  <2>1. {"done", "opened"} \subseteq Outside \cup UnderLock
    BY DEF Outside
  <2>2. pc \in [Runs -> Outside \cup UnderLock]
    BY DEF TypeOK
  <2>3. QED
    BY <1>3, <2>1, <2>2
<1>5. session' \in [Runs -> {"none", "live", "orphan"}]
  BY <1>3 DEF TypeOK
<1>6. UNCHANGED <<initialized, applied, attempts, history, effect, holder, todo, report>>
  BY DEF Open, database
<1>7. QED
  BY <1>1, <1>2, <1>4, <1>5, <1>6 DEF TypeOK

-----------------------------------------------------------------------------
(***************************************************************************)
(* Planning changes nothing but the plan, and perhaps creates the registry.*)
(***************************************************************************)
PlanShape(r) ==
    /\ Refuse(r) \/ \E S \in SUBSET Definitions : Select(r, S)
    /\ initialized' = initialized \/ initialized' = TRUE
    /\ UNCHANGED <<applied, attempts, history, effect, holder, session, cmd, snap, report>>

\* What planning leaves on a run's list is a set of definitions, and its next place is one.
LEMMA PlanHasShape ==
    ASSUME TypeOK, NEW r \in Runs, Plan(r)
    PROVE  PlanShape(r)
<1> USE DEF PlanShape, sessions, Claimed
<1>0. CheckoutOf[r] \in Checkouts /\ GraphOf[CheckoutOf[r]] \in SUBSET Definitions
  BY GraphAssumption
<1>1. CASE PlanDeploy(r)
  BY <1>0, <1>1 DEF PlanDeploy, Pending
<1>2. CASE PlanRevert(r)
  BY <1>0, <1>2 DEF PlanRevert, Applied
<1>3. CASE PlanResolve(r)
  <2>1. snap[r].attempts \in Rows
    BY DEF TypeOK, RegistryState
  <2>2. \A m \in Migrations : snap[r].attempts[m] # NoDef => snap[r].attempts[m] \in Definitions
    BY <2>1 DEF Rows
  <2>3. QED
    BY <1>3, <2>2 DEF PlanResolve
<1>4. CASE PlanBaseline(r)
  BY <1>0, <1>4 DEF PlanBaseline, Pending
<1>5. CASE PlanVerify(r)
  BY <1>0, <1>5 DEF PlanVerify, Applied
<1>6. QED
  BY <1>1, <1>2, <1>3, <1>4, <1>5 DEF Plan

-----------------------------------------------------------------------------
\* Every variable keeps its type.
THEOREM TypeCorrect == Spec => []TypeOK
<1>1. Init => TypeOK
  BY RegistryTyped DEF Init, TypeOK, Rows, Effects, Outside, Results
<1>2. TypeOK /\ [Next]_vars => TypeOK'
  <2> SUFFICES ASSUME TypeOK, [Next]_vars PROVE TypeOK'
    OBVIOUS
  <2> USE DEF TypeOK, database, sessions, Move, UnderLock, InHand, Outside
  <2>1. CASE UNCHANGED vars
    BY <2>1 DEF vars
  <2>2. ASSUME NEW r \in Runs, Open(r) PROVE TypeOK'
    BY <2>2, OpenTyped
  <2>3. ASSUME NEW r \in Runs,
               TryLock(r) \/ Poll(r) \/ PollExpires(r) \/ GrantQueued(r) \/ Release(r)
        PROVE  TypeOK'
    BY <2>3 DEF TryLock, Poll, PollExpires, GrantQueued, Release
  <2>4. ASSUME NEW r \in Runs, Refresh(r) PROVE TypeOK'
    BY <2>4, RegistryTyped DEF Refresh
  <2>5. ASSUME NEW r \in Runs, Plan(r) PROVE TypeOK'
    <3>1. PlanShape(r)
      BY <2>5, PlanHasShape
    <3>2. CASE Refuse(r)
      BY <3>1, <3>2 DEF PlanShape, Refuse
    <3>3. ASSUME NEW S \in SUBSET Definitions, Select(r, S) PROVE TypeOK'
      BY <3>1, <3>3 DEF PlanShape, Select
    <3>4. QED
      BY <3>1, <3>2, <3>3 DEF PlanShape
  <2>6. ASSUME NEW r \in Runs, NEW d \in todo[r], MigrationStep(r, d) PROVE TypeOK'
    <3> USE CatalogAssumption DEF LogBestEffort, Outcomes, AllCommands
    <3>0. d \in Definitions /\ {d} \in SUBSET Definitions
      OBVIOUS
    <3>1. CASE DeployCommits(r, d)
      BY <3>0, <3>1, LogTyped DEF DeployCommits, Rows, Effects
    <3>2. CASE DeployFails(r, d)
      BY <3>0, <3>2, LogTyped, ReportTyped DEF DeployFails, Results
    <3>3. CASE AttemptRecorded(r, d)
      BY <3>0, <3>3, LogTyped DEF AttemptRecorded, Rows
    <3>4. CASE AttemptRefused(r, d)
      BY <3>0, <3>4, ReportTyped DEF AttemptRefused, Results
    <3>5. CASE FinishAttempt(r, d)
      BY <3>0, <3>5, LogTyped DEF FinishAttempt, Rows
    <3>6. CASE FinishFails(r, d)
      BY <3>0, <3>6, ReportTyped DEF FinishFails, Results
    <3>7. CASE RecordFailure(r, d)
      BY <3>0, <3>7, LogTyped, ReportTyped DEF RecordFailure, Results
    <3>8. CASE OutcomeUnknown(r, d)
      BY <3>0, <3>8, LogTyped, ReportTyped DEF OutcomeUnknown, Results
    <3>9. CASE DeployAcknowledged(r, d)
      <4>1. report' \in [Runs -> [Migrations -> Results]]
        BY <3>0, <3>9, ReportTyped DEF DeployAcknowledged, Results
      <4>2. CASE Move(r, "committed", "verifying") /\ UNCHANGED todo
        BY <3>9, <4>1, <4>2 DEF DeployAcknowledged
      <4>3. CASE Move(r, "committed", "working") /\ todo' = [todo EXCEPT ![r] = @ \ {d}]
        BY <3>9, <4>1, <4>3 DEF DeployAcknowledged
      <4>4. QED
        BY <3>9, <4>2, <4>3 DEF DeployAcknowledged
    <3>10. CASE VerifyDeployed(r, d)
      <4>1. report[r][IdOf[d]] \in Results
        BY <3>0
      <4>2. history' \in Seq(SUBSET Event)
        BY <3>0, <3>10, LogTyped DEF VerifyDeployed
      <4>3. Stopped(r, d, report[r][IdOf[d]]) \in [Migrations -> Results]
        BY <3>0, <4>1, ReportTyped
      <4>4. \/ /\ Move(r, "verifying", "working")
               /\ todo' = [todo EXCEPT ![r] = @ \ {d}]
               /\ report' = report
            \/ /\ Move(r, "verifying", "releasing")
               /\ todo' = todo
               /\ report' = [report EXCEPT ![r] = Stopped(r, d, report[r][IdOf[d]])]
        BY <3>10 DEF VerifyDeployed
      <4>5. report' \in [Runs -> [Migrations -> Results]]
        BY <4>3, <4>4
      <4>6. pc' \in [Runs -> Outside \cup UnderLock]
        BY <4>4
      <4>7. todo' \in [Runs -> SUBSET Definitions]
        BY <4>4, ListTyped
      <4>8. QED
        BY <3>10, <4>2, <4>5, <4>6, <4>7 DEF VerifyDeployed
    <3>11. CASE RevertCommits(r, d)
      BY <3>0, <3>11, LogTyped DEF RevertCommits, Rows, Effects
    <3>12. CASE RevertFails(r, d)
      BY <3>0, <3>12, LogTyped, ReportTyped DEF RevertFails, Results
    <3>13. CASE ResolveCommits(r, d)
      <4>1. history' \in Seq(SUBSET Event)
        BY <3>0, <3>13, LogTyped DEF ResolveCommits
      <4>2. applied' \in Rows /\ attempts' \in Rows
        BY <3>0, <3>13 DEF ResolveCommits, Rows
      <4>3. QED
        BY <3>13, <4>1, <4>2 DEF ResolveCommits
    <3>14. CASE VerifyNext(r, d)
      <4>1. history' \in Seq(SUBSET Event)
        BY <3>0, <3>14, LogTyped DEF VerifyNext
      <4>2. \A result \in {"succeeded", "skipped", "failed"} :
               Reported(r, {d}, result) \in [Migrations -> Results]
        BY <3>0, ReportTyped DEF Results
      <4>3. /\ \/ Move(r, "working", "working") /\ todo' = [todo EXCEPT ![r] = @ \ {d}]
               \/ Move(r, "working", "releasing") /\ todo' = todo
            /\ \E result \in {"succeeded", "skipped", "failed"} :
                  report' = [report EXCEPT ![r] = Reported(r, {d}, result)]
        BY <3>14 DEF VerifyNext
      <4>4. report' \in [Runs -> [Migrations -> Results]]
        <5>1. PICK result \in {"succeeded", "skipped", "failed"} :
                 report' = [report EXCEPT ![r] = Reported(r, {d}, result)]
          BY <4>3
        <5>2. Reported(r, {d}, result) \in [Migrations -> Results]
          BY <4>2
        <5>3. QED
          BY <5>1, <5>2
      <4>5. pc' \in [Runs -> Outside \cup UnderLock]
        BY <4>3
      <4>6. todo' \in [Runs -> SUBSET Definitions]
        BY <4>3, ListTyped
      <4>7. QED
        BY <3>14, <4>1, <4>4, <4>5, <4>6 DEF VerifyNext
    <3>15. QED
      BY <2>6, <3>1, <3>2, <3>3, <3>4, <3>5, <3>6, <3>7, <3>8, <3>9, <3>10,
         <3>11, <3>12, <3>13, <3>14 DEF MigrationStep
  <2>7. ASSUME NEW r \in Runs, SendStatement(r) \/ AssertionFails(r) \/ Finish(r) PROVE TypeOK'
    BY <2>7 DEF SendStatement, AssertionFails, Finish
  <2>8. ASSUME NEW r \in Runs, BaselineCommits(r) PROVE TypeOK'
    BY <2>8, BaselineTyped, LogTyped DEF BaselineCommits, AllCommands, Outcomes
  <2>9. ASSUME NEW r \in Runs, Acknowledged(r) PROVE TypeOK'
    BY <2>9, ReportTyped DEF Acknowledged, Results
  <2>10. ASSUME NEW r \in Runs, NEW d \in todo[r], StatementEnds(r, d) PROVE TypeOK'
    <3>1. IdOf[d] \in Migrations /\ effect[IdOf[d]] \in Effects
      BY CatalogAssumption
    <3>2. effect' \in [Migrations -> Effects]
      <4>1. CASE effect' = [effect EXCEPT ![IdOf[d]] = "full"]
        BY <4>1 DEF Effects
      <4>2. CASE \E left \in {effect[IdOf[d]], "partial"} :
                    effect' = [effect EXCEPT ![IdOf[d]] = left]
        BY <3>1, <4>2 DEF Effects
      <4>3. QED
        BY <2>10, <4>1, <4>2 DEF StatementEnds
    <3>3. pc' \in [Runs -> Outside \cup UnderLock]
      BY <2>10 DEF StatementEnds
    <3>4. QED
      BY <2>10, <3>2, <3>3 DEF StatementEnds
  <2>11. ASSUME NEW r \in Runs, OrphanExits(r) PROVE TypeOK'
    BY <2>11, CatalogAssumption DEF OrphanExits, Effects
  <2>12. ASSUME NEW r \in Runs, Disconnect(r) PROVE TypeOK'
    <3>1. report' \in [Runs -> [Migrations -> Results]]
      <4>1. \A d \in todo[r] : d \in Definitions /\ report[r][IdOf[d]] \in Results
        BY CatalogAssumption
      <4>2. CASE report' = report
        BY <4>2
      <4>3. ASSUME NEW d \in todo[r], NEW result \in Results,
                   \/ report' = [report EXCEPT ![r] = Stopped(r, d, result)]
                   \/ report' = [report EXCEPT ![r] = Reported(r, {d}, result)]
            PROVE  report' \in [Runs -> [Migrations -> Results]]
        <5>1. {d} \in SUBSET Definitions
          OBVIOUS
        <5>2. /\ Stopped(r, d, result) \in [Migrations -> Results]
              /\ Reported(r, {d}, result) \in [Migrations -> Results]
          BY <5>1, ReportTyped
        <5>3. QED
          BY <4>3, <5>2
      <4>4. \/ report' = report
            \/ \E d \in todo[r] : \E result \in Results :
                  \/ report' = [report EXCEPT ![r] = Stopped(r, d, result)]
                  \/ report' = [report EXCEPT ![r] = Reported(r, {d}, result)]
        <5>1. "failed" \in Results
          BY DEF Results
        <5>2. QED
          BY <2>12, <4>1, <5>1 DEF Disconnect, ReportOnLoss
      <4>5. QED
        BY <4>2, <4>3, <4>4
    <3>2. QED
      BY <2>12, <3>1 DEF Disconnect
  <2>13. QED
    BY <2>1, <2>2, <2>3, <2>4, <2>5, <2>6, <2>7, <2>8, <2>9, <2>10, <2>11, <2>12
    DEF Next, ClientStep, ServerStep
<1>3. QED
  BY <1>1, <1>2, PTL DEF Spec

-----------------------------------------------------------------------------
(***************************************************************************)
(* The ledger's steps keep the rows closed under dependencies.             *)
(***************************************************************************)
\* What the rows satisfy by themselves survives every step of the ledger.
LEMMA LedgerKeepsRows ==
    ASSUME applied \in Rows, attempts \in Rows, RowsInv,
           [Ledger!Next]_<<applied, attempts>>
    PROVE  RowsInv'
<1> USE CatalogAssumption DEF RowsInv, AppliedClosed, OneUnresolved
<1>1. CASE UNCHANGED <<applied, attempts>>
  BY <1>1
<1>2. ASSUME NEW S \in SUBSET Definitions, Ledger!Apply(S) PROVE RowsInv'
  <2>1. \A m \in Migrations : attempts'[m] = NoDef
    BY <1>2 DEF Ledger!Apply, Ledger!Settled
  <2>2. \A m \in Migrations :
          \/ \E d \in S : IdOf[d] = m /\ applied'[m] = d
          \/ applied'[m] = applied[m] /\ \A d \in S : IdOf[d] # m
    <3>1. ASSUME NEW m \in Migrations, NEW d \in S, IdOf[d] = m
          PROVE  \E e \in S : IdOf[e] = m /\ applied'[m] = e
      BY <1>2, <3>1 DEF Ledger!Apply
    <3>2. QED
      BY <1>2, <3>1 DEF Ledger!Apply
  <2>3. \A m \in Migrations : applied[m] # NoDef => applied'[m] # NoDef
    BY <1>2, <2>2
  <2>4. \A d \in S : applied'[IdOf[d]] # NoDef
    BY <2>2
  <2>5. ASSUME NEW m \in Migrations, applied'[m] # NoDef, NEW n \in DependsOf[applied'[m]]
        PROVE  applied'[n] # NoDef
    <3>1. CASE \E d \in S : IdOf[d] = m /\ applied'[m] = d
      <4>1. applied'[m] \in S /\ n \in Migrations
        BY <2>5, <3>1
      <4>2. applied[n] # NoDef \/ \E e \in S : IdOf[e] = n
        BY <1>2, <2>5, <4>1 DEF Ledger!Apply, Ledger!Ready
      <4>3. QED
        BY <2>3, <2>4, <4>1, <4>2
    <3>2. CASE applied'[m] = applied[m]
      <4>1. applied[m] \in Definitions /\ n \in Migrations
        BY <2>5, <3>2 DEF Rows
      <4>2. QED
        BY <2>3, <2>5, <3>2, <4>1
    <3>3. QED
      BY <2>2, <3>1, <3>2
  <2>6. QED
    BY <2>1, <2>2, <2>5
<1>3. ASSUME NEW d \in Definitions, Ledger!Attempt(d) PROVE RowsInv'
  <2>1. /\ applied' = applied
        /\ attempts' = [attempts EXCEPT ![IdOf[d]] = d]
        /\ \A m \in Migrations : attempts[m] = NoDef
        /\ applied[IdOf[d]] = NoDef
    BY <1>3 DEF Ledger!Attempt, Ledger!Settled
  <2>2. \A m \in Migrations : attempts'[m] = IF m = IdOf[d] THEN d ELSE NoDef
    BY <2>1 DEF Rows
  <2>3. \A n \in DependsOf[d] : n \in Migrations /\ applied[n] # NoDef
    BY <1>3 DEF Ledger!Attempt
  <2>4. QED
    BY <2>1, <2>2, <2>3
<1>4. ASSUME NEW d \in Definitions, Ledger!Settle(d) PROVE RowsInv'
  <2>1. IdOf[d] \in Migrations /\ attempts[IdOf[d]] = d /\ d # NoDef
    BY <1>4 DEF Ledger!Settle
  <2>2. \A m \in Migrations : attempts'[m] = NoDef
    BY <1>4, <2>1 DEF Ledger!Settle, Rows
  <2>3. \A n \in DependsOf[d] : n \in Migrations /\ applied[n] # NoDef
    BY <2>1
  <2>4. CASE applied' = [applied EXCEPT ![IdOf[d]] = d]
    <3>1. \A m \in Migrations : applied'[m] = IF m = IdOf[d] THEN d ELSE applied[m]
      BY <2>4 DEF Rows
    <3>2. ASSUME NEW m \in Migrations, applied'[m] # NoDef, NEW n \in DependsOf[applied'[m]]
          PROVE  applied'[n] # NoDef
      <4>1. applied'[m] \in Definitions
        BY <3>1, <3>2 DEF Rows
      <4>2. n \in Migrations /\ applied[n] # NoDef
        BY <2>3, <3>1, <3>2, <4>1
      <4>3. QED
        BY <2>1, <3>1, <4>2
    <3>3. QED
      BY <2>2, <3>1, <3>2
  <2>5. CASE applied' = applied
    BY <2>2, <2>5
  <2>6. QED
    BY <1>4, <2>4, <2>5 DEF Ledger!Settle
<1>5. ASSUME NEW d \in Definitions, Ledger!Revert(d) PROVE RowsInv'
  <2>1. \A m \in Migrations : attempts'[m] = NoDef
    BY <1>5 DEF Ledger!Revert, Ledger!Settled
  <2>2. \A m \in Migrations : applied'[m] = IF m = IdOf[d] THEN NoDef ELSE applied[m]
    BY <1>5 DEF Ledger!Revert, Rows
  <2>3. ASSUME NEW m \in Migrations, applied'[m] # NoDef, NEW n \in DependsOf[applied'[m]]
        PROVE  applied'[n] # NoDef
    <3>1. applied'[m] = applied[m] /\ applied[m] \in Definitions
      BY <2>2, <2>3 DEF Rows
    <3>2. n \in Migrations /\ applied[n] # NoDef /\ n # IdOf[d]
      BY <1>5, <2>3, <3>1 DEF Ledger!Revert
    <3>3. QED
      BY <2>2, <3>2
  <2>4. QED
    BY <2>1, <2>2, <2>3
<1>6. QED
  BY <1>1, <1>2, <1>3, <1>4, <1>5 DEF Ledger!Next

-----------------------------------------------------------------------------
(***************************************************************************)
(* The runs that do not step.                                              *)
(***************************************************************************)
OthersStill(r) ==
    \A q \in Runs \ {r} :
        pc'[q] = pc[q] /\ cmd'[q] = cmd[q] /\ snap'[q] = snap[q] /\ todo'[q] = todo[q]

\* While r is under the lock nobody else is, so nobody else knows anything r
\* could falsify.
LEMMA OthersWaitForTheHolder ==
    ASSUME LockedPlansHold, NEW r \in Runs, pc[r] \in UnderLock, OthersStill(r)
    PROVE  \A q \in Runs \ {r} : RunInv(q)'
<1>1. ASSUME NEW q \in Runs \ {r} PROVE pc'[q] = pc[q] /\ pc[q] \notin UnderLock
  <2>1. holder = r /\ q # r
    BY DEF LockedPlansHold, RunInv
  <2>2. pc[q] \in UnderLock => holder = q
    BY DEF LockedPlansHold, RunInv
  <2>3. QED
    BY <2>1, <2>2 DEF OthersStill
<1>2. QED
  BY <1>1 DEF RunInv, UnderLock, InHand, AttemptOpen

\* A step that leaves the registry alone, and takes the lock from nobody but r,
\* leaves what the others know.
LEMMA OthersUndisturbed ==
    ASSUME LockedPlansHold, NEW r \in Runs, NoRun \notin Runs, OthersStill(r),
           UNCHANGED <<initialized, applied, attempts>>,
           holder' = holder \/ holder \in {NoRun, r}
    PROVE  \A q \in Runs \ {r} : RunInv(q)'
<1> TAKE q \in Runs \ {r}
<1>1. RunInv(q) /\ pc'[q] = pc[q] /\ cmd'[q] = cmd[q] /\ snap'[q] = snap[q] /\ todo'[q] = todo[q]
  BY DEF LockedPlansHold, OthersStill
<1>2. pc[q] \in UnderLock => holder = q /\ holder' = q
  BY <1>1 DEF RunInv
<1>3. Lacking(q)' = Lacking(q) /\ Registry' = Registry
  BY DEF Lacking, Registry, Pending
<1>4. \A d : IsNext(q, d)' <=> IsNext(q, d)
  BY <1>1 DEF IsNext
<1>5. (Ledger!Settled <=> Ledger!Settled') /\ (Ledger!Ready(todo[q]) => Ledger!Ready(todo[q])')
  BY <1>1 DEF Ledger!Settled, Ledger!Ready
<1>6. QED
  BY <1>1, <1>2, <1>3, <1>4, <1>5 DEF RunInv

-----------------------------------------------------------------------------
(***************************************************************************)
(* What a checkout's order gives the migration whose turn it is.           *)
(***************************************************************************)
\* The first on a list of all that is missing has its dependencies applied.
LEMMA NextIsReady ==
    ASSUME TypeOK, NEW r \in Runs, todo[r] = Lacking(r),
           NEW d \in todo[r], IsNext(r, d)
    PROVE  /\ d \in Definitions
           /\ d \in GraphOf[CheckoutOf[r]]
           /\ applied[IdOf[d]] = NoDef
           /\ \A n \in DependsOf[d] : applied[n] # NoDef
           /\ \A e \in todo[r] : IsNext(r, e) => e = d
<1> DEFINE c == CheckoutOf[r]
<1>1. c \in Checkouts /\ GraphOf[c] \subseteq Definitions /\ Rank[c] \in [Migrations -> Nat]
  BY GraphAssumption
<1>2. todo[r] = {e \in GraphOf[c] : applied[IdOf[e]] = NoDef}
  BY DEF Lacking, Pending, Registry
<1>3. ASSUME NEW n \in DependsOf[d] PROVE applied[n] # NoDef
  <2>1. d \in GraphOf[c]
    BY <1>2
  <2>2. PICK e \in GraphOf[c] : IdOf[e] = n /\ Rank[c][n] < Rank[c][IdOf[d]]
    BY <1>1, <1>3, <2>1, GraphAssumption
  <2>3. Rank[c][IdOf[d]] \in Nat /\ Rank[c][IdOf[e]] \in Nat
    BY <1>1, <2>1, CatalogAssumption
  <2>4. e \notin todo[r]
    BY <2>2, <2>3 DEF IsNext
  <2>5. QED
    BY <1>2, <2>2, <2>4
<1>4. ASSUME NEW e \in todo[r], IsNext(r, e) PROVE e = d
  <2>1. d \in GraphOf[c] /\ e \in GraphOf[c]
    BY <1>2
  <2>2. Rank[c][IdOf[d]] \in Nat /\ Rank[c][IdOf[e]] \in Nat
    BY <1>1, <2>1, CatalogAssumption
  <2>3. Rank[c][IdOf[d]] <= Rank[c][IdOf[e]] /\ Rank[c][IdOf[e]] <= Rank[c][IdOf[d]]
    BY <1>4 DEF IsNext
  <2>4. Rank[c][IdOf[d]] = Rank[c][IdOf[e]]
    BY <2>2, <2>3
  <2>5. QED
    BY <1>1, <2>1, <2>4, GraphAssumption
<1>5. QED
  BY <1>1, <1>2, <1>3, <1>4

\* Applying or removing d's row takes d, and nothing else, off or onto the list
\* of what the checkout lacks.
LEMMA LackingAfterApply ==
    ASSUME TypeOK, NEW r \in Runs, NEW d \in GraphOf[CheckoutOf[r]],
           applied' = [applied EXCEPT ![IdOf[d]] = d]
    PROVE  Lacking(r)' = Lacking(r) \ {d}
<1> DEFINE c == CheckoutOf[r]
<1>1. c \in Checkouts /\ GraphOf[c] \subseteq Definitions
  BY GraphAssumption
<1>2. Lacking(r) = {e \in GraphOf[c] : applied[IdOf[e]] = NoDef}
  BY DEF Lacking, Pending, Registry
<1>3. Lacking(r)' = {e \in GraphOf[c] : applied'[IdOf[e]] = NoDef}
  BY DEF Lacking, Pending, Registry
<1>4. ASSUME NEW e \in GraphOf[c]
      PROVE  applied'[IdOf[e]] = NoDef <=> applied[IdOf[e]] = NoDef /\ e # d
  <2>1. IdOf[e] \in Migrations /\ d # NoDef
    BY <1>1, CatalogAssumption
  <2>2. applied'[IdOf[e]] = IF IdOf[e] = IdOf[d] THEN d ELSE applied[IdOf[e]]
    BY <2>1 DEF TypeOK, Rows
  <2>3. IdOf[e] = IdOf[d] <=> e = d
    BY <1>1, GraphAssumption
  <2>4. QED
    BY <2>1, <2>2, <2>3
<1>5. QED
  BY <1>2, <1>3, <1>4

\* closure_of takes in everything its members depend on.
LEMMA ClosureIsClosed ==
    ASSUME NEW c \in Checkouts, NEW d, NEW e \in ClosureOf(c, d), NEW n \in DependsOf[e]
    PROVE  \E f \in ClosureOf(c, d) : IdOf[f] = n
<1>1. e \in GraphOf[c]
  BY DEF ClosureOf
<1>2. PICK f \in GraphOf[c] : IdOf[f] = n
  BY <1>1, GraphAssumption
<1>3. ASSUME NEW S \in SUBSET GraphOf[c], d \in S, DependencyClosed(c, S) PROVE f \in S
  <2>1. e \in S
    BY <1>3 DEF ClosureOf
  <2>2. QED
    BY <1>2, <1>3, <2>1 DEF DependencyClosed
<1>4. QED
  BY <1>2, <1>3 DEF ClosureOf

-----------------------------------------------------------------------------
(***************************************************************************)
(* Every step of the protocol is a step of the ledger, or leaves it alone. *)
(***************************************************************************)
\* From a state of the invariant, a step of the protocol is one of the ledger.
LEMMA LedgerStep ==
    ASSUME TypeOK, LockedPlansHold, [Next]_vars
    PROVE  [Ledger!Next]_<<applied, attempts>>
<1> USE DEF database, sessions
<1>1. CASE UNCHANGED vars
  BY <1>1 DEF vars
<1>2. ASSUME NEW r \in Runs, UNCHANGED <<applied, attempts>>
      PROVE  [Ledger!Next]_<<applied, attempts>>
  BY <1>2
<1>3. ASSUME NEW r \in Runs, NEW d \in todo[r], DeployCommits(r, d)
      PROVE  Ledger!Apply({d})
  <2>1. Ledger!Settled /\ todo[r] = Lacking(r) /\ IsNext(r, d)
    BY <1>3 DEF LockedPlansHold, RunInv, DeployCommits, Move
  <2>2. /\ d \in Definitions /\ applied[IdOf[d]] = NoDef
        /\ \A n \in DependsOf[d] : applied[n] # NoDef
    BY <2>1, NextIsReady
  <2>3. applied' = [m \in Migrations |->
                       IF \E e \in {d} : IdOf[e] = m
                         THEN CHOOSE e \in {d} : IdOf[e] = m ELSE applied[m]]
    BY <1>3, <2>2 DEF DeployCommits, TypeOK, Rows
  <2>4. QED
    BY <1>3, <2>1, <2>2, <2>3 DEF DeployCommits, Ledger!Apply, Ledger!Ready
<1>4. ASSUME NEW r \in Runs, NEW d \in todo[r], AttemptRecorded(r, d)
      PROVE  d \in Definitions /\ Ledger!Attempt(d)
  <2>1. Ledger!Settled /\ todo[r] = Lacking(r) /\ IsNext(r, d)
    BY <1>4 DEF LockedPlansHold, RunInv, AttemptRecorded, Move
  <2>2. /\ d \in Definitions /\ applied[IdOf[d]] = NoDef
        /\ \A n \in DependsOf[d] : applied[n] # NoDef
    BY <2>1, NextIsReady
  <2>3. QED
    BY <1>4, <2>1, <2>2 DEF AttemptRecorded, Ledger!Attempt
<1>5. ASSUME NEW r \in Runs, NEW d \in todo[r], FinishAttempt(r, d)
      PROVE  d \in Definitions /\ Ledger!Settle(d)
  <2>1. IsNext(r, d) /\ attempts[IdOf[d]] = d
    BY <1>5 DEF LockedPlansHold, RunInv, FinishAttempt, Move, AttemptOpen
  <2>2. QED
    BY <1>5, <2>1 DEF FinishAttempt, Ledger!Settle, TypeOK
<1>6. ASSUME NEW r \in Runs, NEW d \in todo[r], RevertCommits(r, d)
      PROVE  d \in Definitions /\ Ledger!Revert(d)
  <2>1. /\ Ledger!Settled /\ applied[IdOf[d]] = d
        /\ \A m \in Migrations : applied[m] # NoDef => IdOf[d] \notin DependsOf[applied[m]]
    BY <1>6 DEF LockedPlansHold, RunInv, RevertCommits, Move
  <2>2. QED
    BY <1>6, <2>1 DEF RevertCommits, Ledger!Revert, TypeOK
<1>7. ASSUME NEW r \in Runs, NEW d \in todo[r], ResolveCommits(r, d)
      PROVE  d \in Definitions /\ Ledger!Settle(d)
  <2>1. attempts[IdOf[d]] = d
    BY <1>7 DEF LockedPlansHold, RunInv, ResolveCommits, Move
  <2>2. QED
    BY <1>7, <2>1 DEF ResolveCommits, Ledger!Settle, TypeOK
<1>8. ASSUME NEW r \in Runs, BaselineCommits(r)
      PROVE  todo[r] \in SUBSET Definitions /\ Ledger!Apply(todo[r])
  <2>1. Ledger!Settled /\ Ledger!Ready(todo[r])
    BY <1>8 DEF LockedPlansHold, RunInv, BaselineCommits, Move
  <2>2. QED
    BY <1>8, <2>1 DEF BaselineCommits, Ledger!Apply, TypeOK
<1>9. ASSUME NEW r \in Runs, NEW d \in todo[r], MigrationStep(r, d)
      PROVE  \/ UNCHANGED <<applied, attempts>>
             \/ DeployCommits(r, d) \/ AttemptRecorded(r, d) \/ FinishAttempt(r, d)
             \/ RevertCommits(r, d) \/ ResolveCommits(r, d)
  BY <1>9 DEF MigrationStep, DeployFails, AttemptRefused, FinishFails, RecordFailure,
     OutcomeUnknown, DeployAcknowledged, VerifyDeployed, RevertFails, VerifyNext
<1>10. ASSUME NEW r \in Runs, Plan(r) PROVE UNCHANGED <<applied, attempts>>
  BY <1>10, PlanHasShape DEF PlanShape
<1>11. ASSUME NEW r \in Runs,
              Open(r) \/ TryLock(r) \/ Poll(r) \/ PollExpires(r) \/ Refresh(r)
              \/ SendStatement(r) \/ AssertionFails(r) \/ Acknowledged(r) \/ Finish(r)
              \/ Release(r) \/ ServerStep(r) \/ Disconnect(r)
       PROVE  UNCHANGED <<applied, attempts>>
  BY <1>11 DEF Open, TryLock, Poll, PollExpires, Refresh, SendStatement, AssertionFails,
     Acknowledged, Finish, Release, ServerStep, GrantQueued, StatementEnds, OrphanExits,
     Disconnect
<1>12. \A r \in Runs : \A d \in todo[r] : d \in Definitions
  BY DEF TypeOK
<1>13. ASSUME NEW r \in Runs, NEW d \in todo[r], MigrationStep(r, d)
       PROVE  [Ledger!Next]_<<applied, attempts>>
  <2>1. d \in Definitions /\ {d} \in SUBSET Definitions
    BY <1>12
  <2>2. QED
    BY <1>3, <1>4, <1>5, <1>6, <1>7, <1>9, <1>13, <2>1 DEF Ledger!Next
<1>14. QED
  BY <1>1, <1>8, <1>10, <1>11, <1>13 DEF Next, ClientStep, Ledger!Next

-----------------------------------------------------------------------------
(***************************************************************************)
(* What a run knows after each of its own steps.                           *)
(***************************************************************************)

\* A step is one run's, and no other run notices.
LEMMA StepIsOneRuns ==
    ASSUME TypeOK, NEW r \in Runs,
           Open(r) \/ ClientStep(r) \/ ServerStep(r) \/ Disconnect(r)
    PROVE  OthersStill(r)
<1>0. Plan(r) => PlanShape(r)
  BY PlanHasShape
<1> USE DEF OthersStill, TypeOK, Move, sessions, database
<1>1. CASE Open(r)
  BY <1>1 DEF Open
<1>2. CASE TryLock(r) \/ Poll(r) \/ PollExpires(r) \/ Refresh(r) \/ Release(r)
  BY <1>2 DEF TryLock, Poll, PollExpires, Refresh, Release
<1>3. CASE Plan(r)
  BY <1>0, <1>3 DEF PlanShape, Refuse, Select
<1>4. ASSUME NEW d \in todo[r], MigrationStep(r, d) PROVE OthersStill(r)
  BY <1>4 DEF MigrationStep, DeployCommits, DeployFails, AttemptRecorded, AttemptRefused,
     FinishAttempt, FinishFails, RecordFailure, OutcomeUnknown, DeployAcknowledged,
     VerifyDeployed, RevertCommits, RevertFails, ResolveCommits, VerifyNext
<1>5. CASE SendStatement(r) \/ BaselineCommits(r) \/ AssertionFails(r)
           \/ Acknowledged(r) \/ Finish(r)
  BY <1>5 DEF SendStatement, BaselineCommits, AssertionFails, Acknowledged, Finish
<1>6. CASE ServerStep(r)
  BY <1>6 DEF ServerStep, GrantQueued, StatementEnds, OrphanExits
<1>7. CASE Disconnect(r)
  BY <1>7 DEF Disconnect
<1>8. QED
  BY <1>1, <1>2, <1>3, <1>4, <1>5, <1>6, <1>7 DEF ClientStep

\* Planning from a snapshot that is current yields a plan that is justified.
LEMMA PlanJustified ==
    ASSUME TypeOK, LockedPlansHold, NEW r \in Runs, Plan(r)
    PROVE  RunInv(r)'
<1> DEFINE c == CheckoutOf[r]
<1>1. c \in Checkouts /\ GraphOf[c] \subseteq Definitions
  BY GraphAssumption
<1>2. PlanShape(r)
  BY PlanHasShape
<1>3. pc[r] = "refreshed" /\ holder = r /\ snap[r] = Registry
  <2>1. pc[r] = "refreshed"
    BY <1>2 DEF PlanShape, Refuse, Select, Move
  <2>2. QED
    BY <2>1 DEF LockedPlansHold, RunInv, UnderLock
<1>4. /\ cmd' = cmd /\ holder' = holder /\ snap' = snap
      /\ applied' = applied /\ attempts' = attempts
  BY <1>2 DEF PlanShape
<1>5. CASE Refuse(r)
  <2>1. pc'[r] = "releasing"
    BY <1>5 DEF Refuse, Move, TypeOK
  <2>2. QED
    BY <1>3, <1>4, <2>1 DEF RunInv, AttemptOpen
<1>6. ASSUME NEW S, Select(r, S) PROVE pc'[r] = "working" /\ todo'[r] = S /\ ~Refuse(r)
  BY <1>6 DEF Select, Refuse, Move, TypeOK
<1>7. snap[r].applied = applied /\ snap[r].attempts = attempts
  BY <1>3 DEF Registry
<1>8. ~Blocked(snap[r]) => Ledger!Settled'
  BY <1>4, <1>7 DEF Blocked, Ledger!Settled
<1>9. Lacking(r)' = Pending(c, snap[r])
  BY <1>4, <1>7 DEF Lacking, Pending, Registry
<1>10. CASE PlanDeploy(r) /\ ~Refuse(r)
  <2>1. ~Blocked(snap[r]) /\ Select(r, Pending(c, snap[r])) /\ cmd[r] = "deploy"
    BY <1>10 DEF PlanDeploy
  <2>2. pc'[r] = "working" /\ todo'[r] = Pending(c, snap[r])
    BY <1>6, <2>1
  <2>3. QED
    BY <1>3, <1>4, <1>8, <1>9, <2>1, <2>2 DEF RunInv, AttemptOpen
<1>11. CASE PlanRevert(r) /\ ~Refuse(r)
  <2>1. PICK d \in Applied(c, snap[r]) :
           /\ ~Blocked(snap[r]) /\ PlanOk(c, snap[r]) /\ IsLeaf(c, snap[r], d)
           /\ Select(r, {d}) /\ cmd[r] = "revert"
    BY <1>11 DEF PlanRevert
  <2>2. pc'[r] = "working" /\ todo'[r] = {d}
    BY <1>6, <2>1
  <2>3. d \in GraphOf[c] /\ applied[IdOf[d]] # NoDef /\ IdOf[d] \in Migrations
    BY <1>1, <1>7, CatalogAssumption DEF Applied
  <2>4. \A m \in Migrations : applied[m] # NoDef => applied[m] \in GraphOf[c] /\ IdOf[applied[m]] = m
    BY <1>7, <2>1 DEF PlanOk, LockedPlansHold, RowsInv
  <2>5. applied[IdOf[d]] = d
    BY <1>1, <2>3, <2>4, GraphAssumption
  <2>6. ASSUME NEW m \in Migrations, applied[m] # NoDef
        PROVE  IdOf[d] \notin DependsOf[applied[m]]
    BY <1>7, <2>1, <2>4, <2>6 DEF IsLeaf
  <2>7. QED
    BY <1>3, <1>4, <1>8, <2>1, <2>2, <2>5, <2>6 DEF RunInv, AttemptOpen
<1>12. CASE PlanResolve(r) /\ ~Refuse(r)
  <2>1. PICK m \in Migrations : snap[r].attempts[m] # NoDef /\ Select(r, {snap[r].attempts[m]})
    BY <1>12 DEF PlanResolve
  <2>2. pc'[r] = "working" /\ todo'[r] = {attempts[m]} /\ cmd[r] = "resolve"
    BY <1>6, <1>7, <1>12, <2>1 DEF PlanResolve
  <2>3. IdOf[attempts[m]] = m
    BY <1>7, <2>1 DEF LockedPlansHold, RowsInv
  <2>4. QED
    BY <1>3, <1>4, <2>2, <2>3 DEF RunInv, AttemptOpen
<1>13. CASE PlanBaseline(r) /\ ~Refuse(r)
  <2>1. PICK d \in GraphOf[c] :
           /\ ~Blocked(snap[r]) /\ cmd[r] = "baseline"
           /\ Select(r, ClosureOf(c, d) \cap Pending(c, snap[r]))
    BY <1>13 DEF PlanBaseline
  <2> DEFINE S == ClosureOf(c, d) \cap Pending(c, snap[r])
  <2>2. pc'[r] = "working" /\ todo'[r] = S
    BY <1>6, <2>1
  <2>3. \A e \in S : e \in GraphOf[c] /\ applied[IdOf[e]] = NoDef
    BY <1>7 DEF Pending
  <2>4. \A e, f \in S : IdOf[e] = IdOf[f] => e = f
    BY <1>1, <2>3, GraphAssumption
  <2>5. ASSUME NEW e \in S, NEW n \in DependsOf[e]
        PROVE  applied[n] # NoDef \/ \E f \in S : IdOf[f] = n
    <3>1. PICK f \in ClosureOf(c, d) : IdOf[f] = n
      BY <1>1, ClosureIsClosed
    <3>2. f \in GraphOf[c]
      BY DEF ClosureOf
    <3>3. applied[n] = NoDef => f \in Pending(c, snap[r])
      BY <1>7, <3>1, <3>2 DEF Pending
    <3>4. QED
      BY <3>1, <3>3
  <2>6. Ledger!Ready(todo[r])'
    BY <1>4, <2>2, <2>3, <2>4, <2>5 DEF Ledger!Ready
  <2>7. QED
    BY <1>3, <1>4, <1>8, <2>1, <2>2, <2>6 DEF RunInv, AttemptOpen
<1>14. CASE PlanVerify(r) /\ ~Refuse(r)
  <2>1. PICK S : Select(r, S) /\ cmd[r] = "verify"
    BY <1>14 DEF PlanVerify
  <2>2. pc'[r] = "working"
    BY <1>6, <2>1
  <2>3. QED
    BY <1>3, <1>4, <2>1, <2>2 DEF RunInv, AttemptOpen
<1>15. QED
  BY <1>5, <1>10, <1>11, <1>12, <1>13, <1>14 DEF Plan

\* Each step of one migration leaves the run knowing what its next one needs.
LEMMA MigrationStepJustified ==
    ASSUME TypeOK, LockedPlansHold, NEW r \in Runs, NEW d \in todo[r], MigrationStep(r, d)
    PROVE  RunInv(r)' /\ pc[r] \in UnderLock
<1> USE DEF Move, sessions, database
<1>1. RunInv(r) /\ d \in Definitions /\ d # NoDef /\ IdOf[d] \in Migrations
  BY CatalogAssumption DEF LockedPlansHold, TypeOK
<1>2. pc \in [Runs -> Outside \cup UnderLock] /\ todo \in [Runs -> SUBSET Definitions]
  BY DEF TypeOK
<1>3. ASSUME holder' = holder, pc[r] \in UnderLock, pc'[r] = "releasing"
      PROVE  RunInv(r)' /\ pc[r] \in UnderLock
  BY <1>1, <1>3 DEF RunInv, AttemptOpen
<1>4. CASE DeployFails(r, d) \/ AttemptRefused(r, d) \/ FinishFails(r, d)
           \/ RecordFailure(r, d) \/ OutcomeUnknown(r, d) \/ RevertFails(r, d)
  BY <1>2, <1>3, <1>4 DEF DeployFails, AttemptRefused, FinishFails, RecordFailure,
     OutcomeUnknown, RevertFails, UnderLock, InHand
<1>5. CASE DeployCommits(r, d)
  <2>1. /\ cmd[r] = "deploy" /\ pc[r] = "working" /\ IsNext(r, d)
        /\ applied' = [applied EXCEPT ![IdOf[d]] = d]
        /\ pc'[r] = "committed" /\ pc[r] \in UnderLock
        /\ UNCHANGED <<attempts, holder, cmd, todo>>
    BY <1>2, <1>5 DEF DeployCommits, UnderLock, InHand
  <2>2. Ledger!Settled /\ todo[r] = Lacking(r) /\ holder = r
    BY <1>1, <2>1 DEF RunInv, UnderLock, InHand
  <2>3. d \in GraphOf[CheckoutOf[r]] /\ \A e \in todo[r] : IsNext(r, e) => e = d
    BY <2>1, <2>2, NextIsReady
  <2>4. Lacking(r)' = todo[r] \ {d}
    BY <2>1, <2>2, <2>3, LackingAfterApply
  <2>5. Ledger!Settled' /\ \A e \in todo[r] : IsNext(r, e)' => IsNext(r, e)
    BY <2>1, <2>2 DEF Ledger!Settled, IsNext
  <2>6. QED
    BY <2>1, <2>2, <2>3, <2>4, <2>5 DEF RunInv, AttemptOpen
<1>6. CASE AttemptRecorded(r, d)
  <2>1. /\ cmd[r] = "deploy" /\ pc[r] = "working" /\ IsNext(r, d)
        /\ attempts' = [attempts EXCEPT ![IdOf[d]] = d]
        /\ pc'[r] = "attempted" /\ pc[r] \in UnderLock
        /\ UNCHANGED <<applied, holder, cmd, todo>>
    BY <1>2, <1>6 DEF AttemptRecorded, UnderLock, InHand
  <2>2. todo[r] = Lacking(r) /\ holder = r
    BY <1>1, <2>1 DEF RunInv, UnderLock, InHand
  <2>3. \A e \in todo[r] : IsNext(r, e) => e = d
    BY <2>1, <2>2, NextIsReady
  <2>4. attempts'[IdOf[d]] = d
    BY <1>1, <2>1 DEF TypeOK, Rows
  <2>5. Lacking(r)' = Lacking(r) /\ \A e \in todo[r] : IsNext(r, e)' => IsNext(r, e)
    BY <2>1 DEF Lacking, Pending, Registry, IsNext
  <2>6. QED
    BY <2>1, <2>2, <2>3, <2>4, <2>5 DEF RunInv, AttemptOpen
<1>7. CASE FinishAttempt(r, d)
  <2>1. /\ pc[r] = "answered" /\ IsNext(r, d)
        /\ applied' = [applied EXCEPT ![IdOf[d]] = d]
        /\ attempts' = [attempts EXCEPT ![IdOf[d]] = NoDef]
        /\ pc'[r] = "committed" /\ pc[r] \in UnderLock
        /\ UNCHANGED <<holder, cmd, todo>>
    BY <1>2, <1>7 DEF FinishAttempt, UnderLock, InHand
  <2>2. cmd[r] = "deploy" /\ todo[r] = Lacking(r) /\ holder = r /\ attempts[IdOf[d]] = d
    BY <1>1, <2>1 DEF RunInv, UnderLock, InHand, AttemptOpen
  <2>3. d \in GraphOf[CheckoutOf[r]] /\ \A e \in todo[r] : IsNext(r, e) => e = d
    BY <2>1, <2>2, NextIsReady
  <2>4. Lacking(r)' = todo[r] \ {d}
    BY <2>1, <2>2, <2>3, LackingAfterApply
  <2>5. Ledger!Settled'
    BY <1>1, <2>1, <2>2 DEF Ledger!Settled, LockedPlansHold, RowsInv, OneUnresolved, TypeOK, Rows
  <2>6. \A e \in todo[r] : IsNext(r, e)' => IsNext(r, e)
    BY <2>1 DEF IsNext
  <2>7. QED
    BY <2>1, <2>2, <2>3, <2>4, <2>5, <2>6 DEF RunInv, AttemptOpen
<1>8. CASE DeployAcknowledged(r, d)
  <2>1. /\ cmd[r] = "deploy" /\ pc[r] = "committed" /\ IsNext(r, d) /\ pc[r] \in UnderLock
        /\ UNCHANGED <<applied, attempts, holder, cmd>>
    BY <1>2, <1>8 DEF DeployAcknowledged, UnderLock, InHand
  <2>2. Ledger!Settled /\ todo[r] \ {d} = Lacking(r) /\ holder = r
    BY <1>1, <2>1 DEF RunInv
  <2>3. Ledger!Settled' /\ Lacking(r)' = Lacking(r)
    BY <2>1, <2>2 DEF Ledger!Settled, Lacking, Pending, Registry
  <2>4. CASE pc'[r] = "verifying" /\ todo' = todo
    <3>1. \A e \in todo[r] : IsNext(r, e)' => IsNext(r, e)
      BY <2>4 DEF IsNext
    <3>2. QED
      BY <1>1, <2>1, <2>2, <2>3, <2>4, <3>1 DEF RunInv, AttemptOpen
  <2>5. CASE pc'[r] = "working" /\ todo'[r] = todo[r] \ {d}
    BY <2>1, <2>2, <2>3, <2>5 DEF RunInv, AttemptOpen
  <2>6. QED
    BY <1>2, <1>8, <2>4, <2>5 DEF DeployAcknowledged
<1>9. CASE VerifyDeployed(r, d)
  <2>1. /\ pc[r] = "verifying" /\ IsNext(r, d) /\ pc[r] \in UnderLock
        /\ UNCHANGED <<applied, attempts, holder, cmd>>
    BY <1>2, <1>9 DEF VerifyDeployed, UnderLock, InHand
  <2>2. /\ cmd[r] = "deploy" /\ Ledger!Settled /\ todo[r] \ {d} = Lacking(r) /\ holder = r
    BY <1>1, <2>1 DEF RunInv
  <2>3. Ledger!Settled' /\ Lacking(r)' = Lacking(r)
    BY <2>1, <2>2 DEF Ledger!Settled, Lacking, Pending, Registry
  <2>4. CASE pc'[r] = "working" /\ todo'[r] = todo[r] \ {d}
    BY <2>1, <2>2, <2>3, <2>4 DEF RunInv, AttemptOpen
  <2>5. CASE pc'[r] = "releasing"
    BY <1>3, <2>1, <2>5
  <2>6. QED
    BY <1>2, <1>9, <2>4, <2>5 DEF VerifyDeployed
<1>10. CASE RevertCommits(r, d) \/ ResolveCommits(r, d)
  <2>1. /\ cmd[r] \in {"revert", "resolve"} /\ pc[r] = "working" /\ pc[r] \in UnderLock
        /\ pc'[r] = "committed" /\ UNCHANGED <<holder, cmd>>
    BY <1>2, <1>10 DEF RevertCommits, ResolveCommits, UnderLock, InHand
  <2>2. QED
    BY <1>1, <2>1 DEF RunInv, AttemptOpen
<1>11. CASE VerifyNext(r, d)
  <2>1. /\ cmd[r] = "verify" /\ pc[r] = "working" /\ pc[r] \in UnderLock
        /\ pc'[r] \in {"working", "releasing"} /\ UNCHANGED <<holder, cmd>>
    BY <1>2, <1>11 DEF VerifyNext, UnderLock, InHand
  <2>2. QED
    BY <1>1, <2>1 DEF RunInv, AttemptOpen
<1>12. QED
  BY <1>4, <1>5, <1>6, <1>7, <1>8, <1>9, <1>10, <1>11 DEF MigrationStep

\* So does every other step of the run, of its client or of its backend.
LEMMA OtherStepJustified ==
    ASSUME TypeOK, LockedPlansHold, NEW r \in Runs,
           \/ Open(r) \/ TryLock(r) \/ Poll(r) \/ PollExpires(r) \/ Refresh(r)
           \/ SendStatement(r) \/ BaselineCommits(r) \/ AssertionFails(r)
           \/ Acknowledged(r) \/ Finish(r) \/ Release(r) \/ ServerStep(r) \/ Disconnect(r)
    PROVE  RunInv(r)'
<1> USE DEF Move, sessions, database
<1>1. RunInv(r) /\ NoRun \notin Runs
  BY CatalogAssumption DEF LockedPlansHold
<1>2. pc \in [Runs -> Outside \cup UnderLock] /\ todo \in [Runs -> SUBSET Definitions]
  BY DEF TypeOK
<1>3. CASE pc'[r] \notin UnderLock
  BY <1>3 DEF RunInv, UnderLock, InHand, AttemptOpen
<1>4. CASE Open(r) \/ PollExpires(r) \/ Release(r) \/ OrphanExits(r)
  <2>1. pc'[r] \in {"opened", "done"}
    BY <1>2, <1>4 DEF Open, PollExpires, Release, OrphanExits, TypeOK
  <2>2. QED
    BY <1>3, <2>1 DEF UnderLock, InHand
<1>5. CASE TryLock(r) \/ Poll(r)
  <2>1. \/ pc'[r] \in {"queued", "polling"}
        \/ pc'[r] = "locked" /\ holder' = r
    BY <1>2, <1>5 DEF TryLock, Poll
  <2>2. CASE pc'[r] \in {"queued", "polling"}
    BY <1>3, <2>2 DEF UnderLock, InHand
  <2>3. CASE pc'[r] = "locked" /\ holder' = r
    BY <2>3 DEF RunInv, UnderLock, InHand, AttemptOpen
  <2>4. QED
    BY <2>1, <2>2, <2>3
<1>6. CASE GrantQueued(r)
  <2>1. holder' = r /\ pc'[r] \in {"queued", "locked"}
    BY <1>2, <1>6 DEF GrantQueued
  <2>2. QED
    BY <2>1 DEF RunInv, UnderLock, InHand, AttemptOpen
<1>7. CASE Refresh(r)
  <2>1. /\ pc'[r] = "refreshed" /\ holder' = holder /\ holder = r
        /\ snap'[r] = Registry /\ Registry' = Registry
    BY <1>1, <1>2, <1>7 DEF Refresh, RunInv, UnderLock, InHand, TypeOK, Registry
  <2>2. QED
    BY <2>1 DEF RunInv, AttemptOpen
<1>8. CASE AssertionFails(r) \/ Acknowledged(r) \/ Finish(r)
  <2>1. pc'[r] = "releasing" /\ holder' = holder /\ pc[r] \in UnderLock
    BY <1>2, <1>8 DEF AssertionFails, Acknowledged, Finish, UnderLock, InHand
  <2>2. QED
    BY <1>1, <2>1 DEF RunInv, AttemptOpen
<1>9. CASE BaselineCommits(r)
  <2>1. /\ cmd'[r] = "baseline" /\ pc'[r] = "committed" /\ holder' = holder
        /\ pc[r] \in UnderLock
    BY <1>2, <1>9 DEF BaselineCommits, UnderLock, InHand
  <2>2. QED
    BY <1>1, <2>1 DEF RunInv, AttemptOpen
<1>10. CASE SendStatement(r) \/ \E d \in todo[r] : StatementEnds(r, d)
  <2>1. /\ pc[r] \in AttemptOpen /\ pc'[r] \in AttemptOpen
        /\ UNCHANGED <<initialized, applied, attempts, holder, cmd, todo>>
    BY <1>2, <1>10 DEF SendStatement, StatementEnds, AttemptOpen
  <2>2. /\ holder = r /\ cmd[r] = "deploy" /\ todo[r] = Lacking(r)
        /\ \A d \in todo[r] : IsNext(r, d) => attempts[IdOf[d]] = d
    BY <1>1, <2>1 DEF RunInv, AttemptOpen, UnderLock, InHand
  <2>3. Lacking(r)' = Lacking(r) /\ \A d \in todo[r] : IsNext(r, d)' => IsNext(r, d)
    BY <2>1 DEF Lacking, Pending, Registry, IsNext
  <2>4. QED
    BY <2>1, <2>2, <2>3 DEF RunInv, AttemptOpen
<1>11. CASE Disconnect(r)
  <2>1. UNCHANGED <<initialized, applied, attempts, holder, pc, cmd, snap, todo>>
    BY <1>11 DEF Disconnect
  <2>2. /\ Lacking(r)' = Lacking(r) /\ Registry' = Registry
        /\ \A d \in todo[r] : IsNext(r, d)' <=> IsNext(r, d)
    BY <2>1 DEF Lacking, Pending, Registry, IsNext
  <2>3. (Ledger!Settled <=> Ledger!Settled') /\ (Ledger!Ready(todo[r]) => Ledger!Ready(todo[r])')
    BY <2>1 DEF Ledger!Settled, Ledger!Ready
  <2>4. QED
    BY <1>1, <2>1, <2>2, <2>3 DEF RunInv
<1>12. QED
  BY <1>4, <1>5, <1>6, <1>7, <1>8, <1>9, <1>10, <1>11 DEF ServerStep

-----------------------------------------------------------------------------
\* The lock admits one run at a time, and what it planned from its snapshot
\* stays justified by the rows until it is done.
THEOREM PlansHold == Spec => []LockedPlansHold
<1>1. Init => LockedPlansHold
  <2> SUFFICES ASSUME Init PROVE LockedPlansHold
    OBVIOUS
  <2>1. RowsInv
    BY DEF Init, RowsInv, AppliedClosed, OneUnresolved
  <2>2. ASSUME NEW r \in Runs PROVE RunInv(r)
    BY DEF Init, RunInv, UnderLock, InHand, AttemptOpen
  <2>3. QED
    BY <2>1, <2>2 DEF LockedPlansHold
<1>2. TypeOK /\ LockedPlansHold /\ [Next]_vars => LockedPlansHold'
  <2> SUFFICES ASSUME TypeOK, LockedPlansHold, [Next]_vars PROVE LockedPlansHold'
    OBVIOUS
  <2>1. RowsInv'
    BY LedgerStep, LedgerKeepsRows DEF TypeOK, LockedPlansHold
  <2>2. CASE UNCHANGED vars
    <3> USE <2>2 DEF vars, database, sessions
    <3>1. ASSUME NEW r \in Runs PROVE RunInv(r)'
      <4>1. /\ Lacking(r)' = Lacking(r) /\ Registry' = Registry
            /\ \A d \in todo[r] : IsNext(r, d)' <=> IsNext(r, d)
        BY DEF Lacking, Pending, Registry, IsNext
      <4>2. /\ Ledger!Settled <=> Ledger!Settled'
            /\ Ledger!Ready(todo[r]) => Ledger!Ready(todo[r])'
        BY DEF Ledger!Settled, Ledger!Ready
      <4>3. QED
        BY <4>1, <4>2 DEF LockedPlansHold, RunInv
    <3>2. QED
      BY <2>1, <3>1 DEF LockedPlansHold
  <2>3. ASSUME NEW r \in Runs,
               Open(r) \/ ClientStep(r) \/ ServerStep(r) \/ Disconnect(r)
        PROVE  LockedPlansHold'
    <3>1. OthersStill(r)
      BY <2>3, StepIsOneRuns
    <3>2. RunInv(r)'
      BY <2>3, PlanJustified, MigrationStepJustified, OtherStepJustified DEF ClientStep
    <3>3. \A q \in Runs \ {r} : RunInv(q)'
      <4>1. CASE pc[r] \in UnderLock
        BY <3>1, <4>1, OthersWaitForTheHolder
      <4>2. CASE pc[r] \notin UnderLock
        <5>1. ~Plan(r) /\ ~ \E d \in todo[r] : MigrationStep(r, d)
          BY <4>2, PlanHasShape, MigrationStepJustified
          DEF PlanShape, Refuse, Select, Move, UnderLock
        <5>2. /\ UNCHANGED <<initialized, applied, attempts>>
              /\ holder' = holder \/ holder \in {NoRun, r}
          BY <2>3, <4>2, <5>1
          DEF ClientStep, ServerStep, Open, TryLock, Poll, PollExpires, Refresh, Release,
              SendStatement, BaselineCommits, AssertionFails, Acknowledged, Finish,
              GrantQueued, StatementEnds, OrphanExits, Disconnect, Move, UnderLock, InHand,
              database, sessions
        <5>3. QED
          BY <3>1, <5>2, OthersUndisturbed, CatalogAssumption
      <4>3. QED
        BY <4>1, <4>2
    <3>4. QED
      BY <2>1, <3>2, <3>3 DEF LockedPlansHold
  <2>4. QED
    BY <2>2, <2>3 DEF Next
<1>3. QED
  BY <1>1, <1>2, TypeCorrect, PTL DEF Spec

\* Nothing is recorded as applied on top of something that is not.
THEOREM DependenciesStayApplied == Spec => []AppliedClosed
<1>1. LockedPlansHold => AppliedClosed
  BY DEF LockedPlansHold, RowsInv
<1>2. QED
  BY <1>1, PlansHold, PTL

\* A nontransactional statement is never in doubt beside another, and never
\* loses what it depends on.
THEOREM AttemptsAreExclusive == Spec => []OneUnresolved
<1>1. LockedPlansHold => OneUnresolved
  BY DEF LockedPlansHold, RowsInv
<1>2. QED
  BY <1>1, PlansHold, PTL

\* Every run finds a registry that it can go on from.
THEOREM RegistriesAreSound == Spec => []RegistryIsSound
BY DependenciesStayApplied, AttemptsAreExclusive, PTL DEF RegistryIsSound

\* What a deploy is about to run is what the database lacks.
THEOREM PlansStayCurrent == Spec => []PlanStaysCurrent
<1>1. LockedPlansHold => PlanStaysCurrent
  BY DEF LockedPlansHold, RunInv, PlanStaysCurrent, Ledger!Settled, Lacking, Pending, Registry,
     UnderLock, InHand
<1>2. QED
  BY <1>1, PlansHold, PTL

\* The protocol, whose decisions are taken from snapshots, implements the ledger,
\* whose decisions are taken from the rows.
THEOREM Implements == Spec => ImplementsLedger
<1>1. Init => Ledger!Init
  BY DEF Init, Ledger!Init
<1>2. TypeOK /\ LockedPlansHold /\ [Next]_vars => [Ledger!Next]_<<applied, attempts>>
  BY LedgerStep
<1>3. QED
  BY <1>1, <1>2, TypeCorrect, PlansHold, PTL DEF Spec, ImplementsLedger, Ledger!Spec, Ledger!ledger

-----------------------------------------------------------------------------
(***************************************************************************)
(* Action properties.                                                      *)
(***************************************************************************)

\* The run that is blocked by an attempt is every run but the one settling it.
LEMMA UnsettledStep ==
    ASSUME TypeOK, LockedPlansHold, ~Ledger!Settled, [Next]_vars
    PROVE  \/ UNCHANGED <<applied, attempts, effect>>
           \/ \E r \in Runs : \E d \in todo[r] :
                 /\ attempts[IdOf[d]] = d
                 /\ \/ FinishAttempt(r, d) \/ ResolveCommits(r, d)
                    \/ /\ UNCHANGED <<applied, attempts>>
                       /\ \E left \in Effects : effect' = [effect EXCEPT ![IdOf[d]] = left]
<1> USE DEF database, sessions, Move
<1>1. CASE UNCHANGED vars
  BY <1>1 DEF vars
<1>2. \A r \in Runs : Plan(r) => UNCHANGED <<applied, attempts, effect>>
  BY PlanHasShape DEF PlanShape
<1>3. \A r \in Runs : \A d \in todo[r] :
        ~DeployCommits(r, d) /\ ~AttemptRecorded(r, d) /\ ~RevertCommits(r, d)
  BY DEF LockedPlansHold, RunInv, DeployCommits, AttemptRecorded, RevertCommits
<1>4. \A r \in Runs : ~BaselineCommits(r)
  BY DEF LockedPlansHold, RunInv, BaselineCommits
<1>5. ASSUME NEW r \in Runs, NEW d \in todo[r], FinishAttempt(r, d) \/ ResolveCommits(r, d)
      PROVE  attempts[IdOf[d]] = d
  BY <1>5 DEF LockedPlansHold, RunInv, FinishAttempt, ResolveCommits, AttemptOpen
<1>6. ASSUME NEW r \in Runs, NEW d \in todo[r], pc[r] = "executing", IsNext(r, d)
      PROVE  attempts[IdOf[d]] = d /\ effect[IdOf[d]] \in Effects
  BY <1>6, CatalogAssumption DEF LockedPlansHold, RunInv, AttemptOpen, TypeOK
<1>7. ASSUME NEW r \in Runs, OrphanExits(r) \/ \E d \in todo[r] : StatementEnds(r, d)
      PROVE  /\ UNCHANGED <<applied, attempts>>
             /\ \/ UNCHANGED effect
                \/ \E d \in todo[r] :
                      /\ attempts[IdOf[d]] = d
                      /\ \E left \in Effects : effect' = [effect EXCEPT ![IdOf[d]] = left]
  <2>1. {"full", "partial"} \subseteq Effects
    BY DEF Effects
  <2>2. CASE OrphanExits(r)
    BY <1>6, <2>1, <2>2 DEF OrphanExits
  <2>3. ASSUME NEW d \in todo[r], StatementEnds(r, d)
        PROVE  /\ UNCHANGED <<applied, attempts>>
               /\ attempts[IdOf[d]] = d
               /\ \E left \in Effects : effect' = [effect EXCEPT ![IdOf[d]] = left]
    BY <1>6, <2>1, <2>3 DEF StatementEnds
  <2>4. QED
    BY <1>7, <2>2, <2>3
<1>8. ASSUME NEW r \in Runs,
             \/ Open(r) \/ TryLock(r) \/ Poll(r) \/ PollExpires(r) \/ Refresh(r)
             \/ SendStatement(r) \/ AssertionFails(r) \/ Acknowledged(r) \/ Finish(r)
             \/ Release(r) \/ GrantQueued(r) \/ Disconnect(r)
      PROVE  UNCHANGED <<applied, attempts, effect>>
  BY <1>8 DEF Open, TryLock, Poll, PollExpires, Refresh, SendStatement, AssertionFails,
     Acknowledged, Finish, Release, GrantQueued, Disconnect
<1>9. ASSUME NEW r \in Runs, NEW d \in todo[r], MigrationStep(r, d)
      PROVE  \/ UNCHANGED <<applied, attempts, effect>>
             \/ FinishAttempt(r, d) \/ ResolveCommits(r, d)
  BY <1>3, <1>9 DEF MigrationStep, DeployFails, AttemptRefused, FinishFails, RecordFailure,
     OutcomeUnknown, DeployAcknowledged, VerifyDeployed, RevertFails, VerifyNext
<1>10. QED
  BY <1>1, <1>2, <1>4, <1>5, <1>7, <1>8, <1>9 DEF Next, ClientStep, ServerStep

\* Nothing happens beside an unresolved attempt, and nothing but its own success
\* or an operator's answer settles it.
THEOREM NothingBesideAnAttempt == Spec => BlockedUntilSettled
<1>1. TypeOK /\ LockedPlansHold /\ [Next]_vars => [SettledFirst]_vars
  <2> SUFFICES ASSUME TypeOK, LockedPlansHold, [Next]_vars,
                      NEW m \in Migrations, attempts[m] # NoDef
               PROVE  /\ \A n \in Migrations \ {m} :
                            /\ applied'[n] = applied[n] /\ attempts'[n] = attempts[n]
                            /\ effect'[n] = effect[n]
                      /\ attempts'[m] # attempts[m] =>
                            \E e \in history'[Len(history')] :
                               e.id = m /\ (e.outcome = "succeeded" \/ e.action = "resolve")
    BY DEF SettledFirst
  <2>1. ~Ledger!Settled
    BY DEF Ledger!Settled
  <2>2. \A n \in Migrations : attempts[n] # NoDef => n = m
    BY DEF LockedPlansHold, RowsInv, OneUnresolved
  <2>3. CASE UNCHANGED <<applied, attempts, effect>>
    BY <2>3
  <2>4. ASSUME NEW r \in Runs, NEW d \in todo[r], attempts[IdOf[d]] = d,
               \/ FinishAttempt(r, d) \/ ResolveCommits(r, d)
               \/ /\ UNCHANGED <<applied, attempts>>
                  /\ \E left \in Effects : effect' = [effect EXCEPT ![IdOf[d]] = left]
        PROVE  /\ \A n \in Migrations \ {m} :
                     /\ applied'[n] = applied[n] /\ attempts'[n] = attempts[n]
                     /\ effect'[n] = effect[n]
               /\ attempts'[m] # attempts[m] =>
                     \E e \in history'[Len(history')] :
                        e.id = m /\ (e.outcome = "succeeded" \/ e.action = "resolve")
    <3>1. IdOf[d] = m /\ d \in Definitions
      BY <2>2, <2>4, CatalogAssumption DEF TypeOK
    <3>2. CASE UNCHANGED <<applied, attempts>>
               /\ \E left \in Effects : effect' = [effect EXCEPT ![IdOf[d]] = left]
      BY <3>1, <3>2 DEF TypeOK
    <3>3. ASSUME FinishAttempt(r, d) \/ ResolveCommits(r, d)
          PROVE  /\ \A n \in Migrations \ {m} :
                       /\ applied'[n] = applied[n] /\ attempts'[n] = attempts[n]
                       /\ effect'[n] = effect[n]
      BY <3>1, <3>3 DEF FinishAttempt, ResolveCommits, TypeOK, Rows
    <3>4. ASSUME NEW action, NEW outcome, Log(r, action, outcome, {d}),
                 outcome = "succeeded" \/ action = "resolve"
          PROVE  \E e \in history'[Len(history')] :
                    e.id = m /\ (e.outcome = "succeeded" \/ e.action = "resolve")
      <4> DEFINE event == [run |-> r, action |-> action, outcome |-> outcome, id |-> IdOf[d]]
      <4> DEFINE batch == {[run |-> r, action |-> action, outcome |-> outcome, id |-> IdOf[e]] : e \in {d}}
      <4>1. history' = Append(history, batch)
        BY <3>4 DEF Log
      <4>2. history'[Len(history')] = batch
        <5> HIDE DEF batch
        <5>1. history \in Seq(SUBSET Event)
          BY DEF TypeOK
        <5>2. QED
          BY <4>1, <5>1
      <4>3. event \in batch
        OBVIOUS
      <4>4. event.id = m /\ (event.outcome = "succeeded" \/ event.action = "resolve")
        BY <3>1, <3>4
      <4>5. QED
        BY <4>2, <4>3, <4>4
    <3>5. CASE FinishAttempt(r, d)
      BY <3>3, <3>4, <3>5 DEF FinishAttempt
    <3>6. CASE ResolveCommits(r, d)
      BY <3>3, <3>4, <3>6 DEF ResolveCommits
    <3>7. QED
      BY <2>4, <3>2, <3>5, <3>6
  <2>5. QED
    BY <2>1, <2>3, <2>4, UnsettledStep
<1>2. QED
  BY <1>1, TypeCorrect, PlansHold, PTL DEF Spec, BlockedUntilSettled

\* Nobody but the holder of the lock changes the registry or the schema.
THEOREM WritersHoldTheLock == Spec => OnlyHolderWrites
<1>1. TypeOK /\ LockedPlansHold /\ [Next]_vars => [WrittenByHolder]_vars
  <2> SUFFICES ASSUME TypeOK, LockedPlansHold, [Next]_vars PROVE [WrittenByHolder]_vars
    OBVIOUS
  <2>1. CASE UNCHANGED vars
    BY <2>1
  <2>2. ASSUME NEW r \in Runs, Open(r) \/ ClientStep(r) \/ ServerStep(r) \/ Disconnect(r),
               <<applied, attempts, history, effect>>' # <<applied, attempts, history, effect>>
        PROVE  WrittenByHolder
    <3> USE DEF database, sessions, Move
    <3>1. OthersStill(r)
      BY <2>2, StepIsOneRuns
    <3>2. ~Plan(r)
      BY <2>2, PlanHasShape DEF PlanShape
    <3>3. ASSUME NEW d \in todo[r], MigrationStep(r, d)
          PROVE  pc[r] \in UnderLock /\ session' = session
      BY <3>3, MigrationStepJustified
      DEF MigrationStep, DeployCommits, DeployFails, AttemptRecorded, AttemptRefused,
          FinishAttempt, FinishFails, RecordFailure, OutcomeUnknown, DeployAcknowledged,
          VerifyDeployed, RevertCommits, RevertFails, ResolveCommits, VerifyNext
    <3>5. CASE OrphanExits(r)
      <4>1. pc[r] = "executing"
        BY <2>2, <3>5 DEF OrphanExits
      <4>2. \A q \in Runs \ {r} : session'[q] = session[q]
        BY <3>5 DEF OrphanExits, TypeOK
      <4>3. pc[r] \in UnderLock
        BY <4>1 DEF UnderLock, InHand
      <4>4. holder = r
        BY <4>3 DEF LockedPlansHold, RunInv
      <4>5. QED
        BY <3>1, <4>2, <4>4 DEF WrittenByHolder, OthersStill
    <3>6. ~ (\/ Open(r) \/ TryLock(r) \/ Poll(r) \/ PollExpires(r) \/ Refresh(r)
             \/ SendStatement(r) \/ AssertionFails(r) \/ Acknowledged(r) \/ Finish(r)
             \/ Release(r) \/ GrantQueued(r) \/ Disconnect(r))
      BY <2>2 DEF Open, TryLock, Poll, PollExpires, Refresh, SendStatement, AssertionFails,
         Acknowledged, Finish, Release, GrantQueued, Disconnect
    <3>7. ASSUME pc[r] \in UnderLock, session' = session PROVE WrittenByHolder
      BY <3>1, <3>7 DEF WrittenByHolder, OthersStill, LockedPlansHold, RunInv
    <3>8. CASE BaselineCommits(r) \/ (\E d \in todo[r] : StatementEnds(r, d))
      <4>1. pc[r] \in UnderLock /\ session' = session
        BY <3>8 DEF BaselineCommits, StatementEnds, UnderLock, InHand
      <4>2. QED
        BY <3>7, <4>1
    <3>9. QED
      BY <2>2, <3>2, <3>3, <3>5, <3>6, <3>7, <3>8 DEF ClientStep, ServerStep
  <2>3. QED
    BY <2>1, <2>2 DEF Next, WrittenByHolder
<1>2. QED
  BY <1>1, TypeCorrect, PlansHold, PTL DEF Spec, OnlyHolderWrites

-----------------------------------------------------------------------------
(***************************************************************************)
(* Reading the history.                                                    *)
(***************************************************************************)
LessThan == {p \in Nat \X Nat : p[1] < p[2]}

\* A set of naturals that is not empty has a least member.
LEMMA LeastExists ==
    ASSUME NEW T \in SUBSET Nat, T # {}
    PROVE  \E x \in T : \A y \in T : x <= y
<1>1. IsWellFoundedOn(LessThan, Nat)
  BY NatLessThanWellFounded DEF OpToRel, LessThan
<1>2. PICK x \in T : \A y \in T : <<y, x>> \notin LessThan
  BY <1>1, WFMin
<1>3. ASSUME NEW y \in T PROVE x <= y
  <2>1. <<y, x>> \in Nat \X Nat
    OBVIOUS
  <2>2. ~(y < x)
    BY <1>2, <2>1 DEF LessThan
  <2>3. QED
    BY <2>2
<1>4. QED
  BY <1>3

\* And a greatest one, if it has a bound.
LEMMA GreatestExists ==
    ASSUME NEW n \in Nat, NEW T \in SUBSET (1 .. n), T # {}
    PROVE  \E x \in T : \A y \in T : y <= x
<1> DEFINE U == {k \in Nat : \E x \in T : k = n - x}
<1>1. \A y \in T : n - y \in U
  OBVIOUS
<1>2. U \in SUBSET Nat /\ U # {}
  BY <1>1
<1>3. PICK u \in U : \A y \in U : u <= y
  BY <1>2, LeastExists
<1>4. PICK x \in T : u = n - x
  OBVIOUS
<1>5. ASSUME NEW y \in T PROVE y <= x
  <2>1. n - x <= n - y
    BY <1>1, <1>3, <1>4
  <2>2. QED
    BY <2>1
<1>6. QED
  BY <1>5

\* Whether a transaction decides about m, which of the first n of a history do,
\* the latest of them, and the event that decides.
Tells(batch, m) == \E e \in batch : e.id = m /\ Decides(e)
Telling(h, n, m) == {i \in 1 .. n : Tells(h[i], m)}
Latest(S) == CHOOSE i \in S : \A j \in S : j <= i
Deciding(batch, m) == CHOOSE e \in batch : e.id = m /\ Decides(e)
Verdict(h, n, m) == Deciding(h[Latest(Telling(h, n, m))], m)

\* StatusAt and LastDecision read the same verdict.
LEMMA ReadVerdict ==
    ASSUME NEW m
    PROVE  /\ \A n : StatusAt(n, m) = IF Telling(history, n, m) = {} THEN "absent"
                                      ELSE StatusAfter(Verdict(history, n, m))
           /\ history \in Seq(SUBSET Event) =>
                LastDecision(m) = IF Telling(history, Len(history), m) = {} THEN "none"
                                  ELSE Verdict(history, Len(history), m).outcome
<1>1. \A n : StatusAt(n, m) = IF Telling(history, n, m) = {} THEN "absent"
                              ELSE StatusAfter(Verdict(history, n, m))
  BY DEF StatusAt, Tells, Telling, Latest, Deciding, Verdict
<1>2. ASSUME history \in Seq(SUBSET Event)
      PROVE  LastDecision(m) = IF Telling(history, Len(history), m) = {} THEN "none"
                               ELSE Verdict(history, Len(history), m).outcome
  <2>1. DOMAIN history = 1 .. Len(history)
    BY <1>2
  <2>2. QED
    BY <2>1 DEF LastDecision, Tells, Telling, Latest, Deciding, Verdict
<1>3. QED
  BY <1>1, <1>2

\* g is h and one more transaction, batch.
Extended(h, batch, g) ==
    /\ Len(h) \in Nat /\ Len(g) = Len(h) + 1
    /\ \A i \in 1 .. Len(h) : g[i] = h[i]
    /\ g[Len(g)] = batch

\* The first n transactions of h and of g say the same of m.
SaysTheSame(h, g, n, m) ==
    /\ Telling(g, n, m) = Telling(h, n, m)
    /\ Telling(h, n, m) # {} => Verdict(g, n, m) = Verdict(h, n, m)

\* Another transaction changes nothing of what those before it say of m.
LEMMA VerdictsStand ==
    ASSUME NEW h, NEW batch, NEW g, NEW m, Extended(h, batch, g), NEW n \in 0 .. Len(h)
    PROVE  SaysTheSame(h, g, n, m)
<1>1. Len(h) \in Nat /\ \A i \in 1 .. Len(h) : g[i] = h[i]
  BY DEF Extended
<1>2. Telling(g, n, m) = Telling(h, n, m)
  BY <1>1 DEF Telling
<1>3. Telling(h, n, m) \in SUBSET (1 .. n) /\ n \in Nat
  BY <1>1 DEF Telling
<1>4. ASSUME Telling(h, n, m) # {} PROVE Latest(Telling(h, n, m)) \in Telling(h, n, m)
  <2>1. \E i \in Telling(h, n, m) : \A j \in Telling(h, n, m) : j <= i
    BY <1>3, <1>4, GreatestExists
  <2>2. QED
    BY <2>1 DEF Latest
<1>5. Telling(h, n, m) # {} => g[Latest(Telling(h, n, m))] = h[Latest(Telling(h, n, m))]
  BY <1>1, <1>3, <1>4
<1>6. QED
  BY <1>2, <1>5 DEF Verdict, SaysTheSame

\* It has the last word about m if it decides about m, and changes nothing if not.
LEMMA VerdictAfter ==
    ASSUME NEW h, NEW batch, NEW g, NEW m, Extended(h, batch, g)
    PROVE  /\ Tells(batch, m) =>
                 /\ Telling(g, Len(g), m) # {}
                 /\ Verdict(g, Len(g), m) = Deciding(batch, m)
           /\ ~Tells(batch, m) =>
                 /\ Telling(g, Len(g), m) = Telling(h, Len(h), m)
                 /\ Telling(h, Len(h), m) # {} => Verdict(g, Len(g), m) = Verdict(h, Len(h), m)
<1>1. /\ Len(h) \in Nat /\ Len(g) = Len(h) + 1
      /\ \A i \in 1 .. Len(h) : g[i] = h[i]
      /\ g[Len(g)] = batch
  BY DEF Extended
<1>2. CASE Tells(batch, m)
  <2>1. Len(g) \in Telling(g, Len(g), m) /\ \A j \in Telling(g, Len(g), m) : j \in Nat /\ j <= Len(g)
    BY <1>1, <1>2 DEF Telling
  <2>2. Latest(Telling(g, Len(g), m)) = Len(g)
    <3> DEFINE T == Telling(g, Len(g), m)
    <3> HIDE DEF T
    <3>1. \A i \in T : (\A j \in T : j <= i) => i = Len(g)
      BY <1>1, <2>1 DEF T
    <3>2. Len(g) \in T /\ \A j \in T : j <= Len(g)
      BY <2>1 DEF T
    <3>3. QED
      BY <3>1, <3>2 DEF Latest, T
  <2>3. QED
    BY <1>1, <1>2, <2>1, <2>2 DEF Verdict
<1>3. CASE ~Tells(batch, m)
  <2>1. Telling(g, Len(g), m) = Telling(g, Len(h), m)
    <3>1. ASSUME NEW i \in 1 .. Len(g), i \notin 1 .. Len(h)
          PROVE  ~Tells(g[i], m)
      BY <1>1, <1>3, <3>1
    <3>2. \A i : i \in 1 .. Len(h) => i \in 1 .. Len(g)
      BY <1>1
    <3>3. QED
      BY <3>1, <3>2 DEF Telling
  <2>2. Len(h) \in 0 .. Len(h)
    BY <1>1
  <2>3. /\ Telling(g, Len(h), m) = Telling(h, Len(h), m)
        /\ Telling(h, Len(h), m) # {} => Verdict(g, Len(h), m) = Verdict(h, Len(h), m)
    BY <2>2, VerdictsStand DEF SaysTheSame
  <2>4. QED
    BY <1>3, <2>1, <2>3 DEF Verdict
<1>4. QED
  BY <1>2, <1>3

\* The event a run writes of one migration, and the ids of a set of definitions.
Evidence(r, action, outcome, m) ==
    [run |-> r, action |-> action, outcome |-> outcome, id |-> m]
Ids(S) == {IdOf[d] : d \in S}

\* What a batch holds: one event for each migration of S.
BatchOf(batch, r, action, outcome, S) ==
    \A e : e \in batch <=> \E n \in Ids(S) : e = Evidence(r, action, outcome, n)

\* A batch that is written follows the transactions already there.
LEMMA LogWrites ==
    ASSUME history \in Seq(SUBSET Event), NEW r \in Runs, NEW S \in SUBSET Definitions,
           NEW action \in AllCommands, NEW outcome \in Outcomes,
           Log(r, action, outcome, S)
    PROVE  /\ Extended(history, history'[Len(history')], history')
           /\ history' \in Seq(SUBSET Event)
           /\ BatchOf(history'[Len(history')], r, action, outcome, S)
<1> DEFINE batch == {[run |-> r, action |-> action, outcome |-> outcome, id |-> IdOf[d]] : d \in S}
<1>1. history' = Append(history, batch) /\ batch \in SUBSET Event
  BY CatalogAssumption DEF Log, Event
<1>2. \A e : e \in batch <=> \E n \in Ids(S) : e = Evidence(r, action, outcome, n)
  BY DEF Ids, Evidence
<1> HIDE DEF batch
<1>3. /\ Len(history) \in Nat /\ Len(history') = Len(history) + 1
      /\ \A i \in 1 .. Len(history) : history'[i] = history[i]
      /\ history'[Len(history')] = batch
      /\ history' \in Seq(SUBSET Event)
  BY <1>1
<1>4. QED
  BY <1>2, <1>3 DEF Extended, BatchOf

\* What the history says of m once a batch of events has been written.
LEMMA LogTells ==
    ASSUME history \in Seq(SUBSET Event), NEW r \in Runs, NEW S \in SUBSET Definitions,
           NEW action \in AllCommands, NEW outcome \in Outcomes,
           Log(r, action, outcome, S), NEW m \in Migrations
    PROVE  /\ \A n \in 0 .. Len(history) : StatusAt(n, m)' = StatusAt(n, m)
           /\ m \in Ids(S) /\ Decides(Evidence(r, action, outcome, m)) =>
                 /\ StatusAt(Len(history), m)' = StatusAfter(Evidence(r, action, outcome, m))
                 /\ LastDecision(m)' = outcome
           /\ ~(m \in Ids(S) /\ Decides(Evidence(r, action, outcome, m))) =>
                 /\ StatusAt(Len(history), m)' = StatusAt(Len(history), m)
                 /\ LastDecision(m)' = LastDecision(m)
<1> DEFINE batch == history'[Len(history')]
<1>1. /\ Extended(history, batch, history') /\ history' \in Seq(SUBSET Event)
      /\ BatchOf(batch, r, action, outcome, S)
  BY LogWrites
<1> HIDE DEF batch
<1>2. \A e : e \in batch <=> \E n \in Ids(S) : e = Evidence(r, action, outcome, n)
  BY <1>1 DEF BatchOf
<1>3. Len(history) \in Nat /\ Len(history') = Len(history) + 1
  BY <1>1 DEF Extended
<1>4. Extended(history, batch, history')
  BY <1>1
<1>5. /\ Tells(batch, m) =>
            /\ Telling(history', Len(history'), m) # {}
            /\ Verdict(history', Len(history'), m) = Deciding(batch, m)
      /\ ~Tells(batch, m) =>
            /\ Telling(history', Len(history'), m) = Telling(history, Len(history), m)
            /\ Telling(history, Len(history), m) # {} =>
                  Verdict(history', Len(history'), m) = Verdict(history, Len(history), m)
  BY <1>4, VerdictAfter
<1>6. /\ \A n : StatusAt(n, m) = IF Telling(history, n, m) = {} THEN "absent"
                                 ELSE StatusAfter(Verdict(history, n, m))
      /\ LastDecision(m) = IF Telling(history, Len(history), m) = {} THEN "none"
                           ELSE Verdict(history, Len(history), m).outcome
  BY ReadVerdict
<1>7. /\ \A n : StatusAt(n, m)' = IF Telling(history', n, m) = {} THEN "absent"
                                  ELSE StatusAfter(Verdict(history', n, m))
      /\ StatusAt(Len(history), m)' =
            IF Telling(history', Len(history'), m) = {} THEN "absent"
            ELSE StatusAfter(Verdict(history', Len(history'), m))
      /\ LastDecision(m)' = IF Telling(history', Len(history'), m) = {} THEN "none"
                            ELSE Verdict(history', Len(history'), m).outcome
  <2>1. \A n : StatusAt(n, m)' = IF Telling(history', n, m) = {} THEN "absent"
                                 ELSE StatusAfter(Verdict(history', n, m))
    BY DEF StatusAt, Tells, Telling, Latest, Deciding, Verdict
  <2>2. StatusAt(Len(history), m)' =
            IF Telling(history', Len(history'), m) = {} THEN "absent"
            ELSE StatusAfter(Verdict(history', Len(history'), m))
    BY DEF StatusAt, Tells, Telling, Latest, Deciding, Verdict
  <2>3. DOMAIN history' = 1 .. Len(history')
    BY <1>1
  <2>4. LastDecision(m)' = IF Telling(history', Len(history'), m) = {} THEN "none"
                           ELSE Verdict(history', Len(history'), m).outcome
    BY <2>3 DEF LastDecision, Tells, Telling, Latest, Deciding, Verdict
  <2>5. QED
    BY <2>1, <2>2, <2>4
<1>8. \A n \in 0 .. Len(history) : StatusAt(n, m)' = StatusAt(n, m)
  <2> SUFFICES ASSUME NEW n \in 0 .. Len(history)
               PROVE  StatusAt(n, m)' = StatusAt(n, m)
    OBVIOUS
  <2>1. SaysTheSame(history, history', n, m)
    BY <1>4, VerdictsStand
  <2>2. QED
    BY <1>6, <1>7, <2>1 DEF SaysTheSame
<1>9. CASE m \in Ids(S) /\ Decides(Evidence(r, action, outcome, m))
  <2>1. Tells(batch, m)
    BY <1>2, <1>9 DEF Tells, Evidence
  <2>2. Deciding(batch, m) \in batch
    BY <2>1 DEF Tells, Deciding
  <2>3. /\ Deciding(batch, m).outcome = outcome
        /\ Deciding(batch, m).action = action
    BY <1>2, <2>2 DEF Evidence
  <2>4. StatusAfter(Deciding(batch, m)) = StatusAfter(Evidence(r, action, outcome, m))
    BY <2>3 DEF StatusAfter, Evidence
  <2>5. QED
    BY <1>2, <1>3, <1>5, <1>7, <1>8, <1>9, <2>1, <2>3, <2>4
<1>10. CASE ~(m \in Ids(S) /\ Decides(Evidence(r, action, outcome, m)))
  <2>1. ~Tells(batch, m)
    BY <1>2, <1>10 DEF Tells, Evidence
  <2>2. QED
    BY <1>2, <1>3, <1>5, <1>6, <1>7, <1>8, <1>10, <2>1
<1>11. QED
  BY <1>9, <1>10

-----------------------------------------------------------------------------
(***************************************************************************)
(* Every transaction writes what it does to the rows.                      *)
(***************************************************************************)

\* The batch tells what becomes of every row.
Told(r, action, outcome, S) ==
    /\ Log(r, action, outcome, S)
    /\ \A m \in Migrations :
          StatusOf(m)' = IF m \in Ids(S) /\ Decides(Evidence(r, action, outcome, m))
                           THEN StatusAfter(Evidence(r, action, outcome, m))
                           ELSE StatusOf(m)

\* The outcomes that decide, and those that do not.
LEMMA WhatDecides ==
    ASSUME NEW r, NEW m
    PROVE  /\ Decides(Evidence(r, "deploy", "succeeded", m))
           /\ Decides(Evidence(r, "deploy", "attempted", m))
           /\ Decides(Evidence(r, "baseline", "succeeded", m))
           /\ Decides(Evidence(r, "revert", "succeeded", m))
           /\ \A o : Decides(Evidence(r, "resolve", o, m)) /\ ~Decides(Evidence(r, "verify", o, m))
           /\ \A a : a # "resolve" => ~Decides(Evidence(r, a, "failed", m))
                                      /\ ~Decides(Evidence(r, a, "unknown", m))
           /\ StatusAfter(Evidence(r, "deploy", "succeeded", m)) = "applied"
           /\ StatusAfter(Evidence(r, "deploy", "attempted", m)) = "attempted"
           /\ StatusAfter(Evidence(r, "baseline", "succeeded", m)) = "applied"
           /\ StatusAfter(Evidence(r, "revert", "succeeded", m)) = "absent"
           /\ StatusAfter(Evidence(r, "resolve", "asserted_applied", m)) = "applied"
           /\ StatusAfter(Evidence(r, "resolve", "asserted_not_applied", m)) = "absent"
BY DEF Decides, StatusAfter, Evidence

\* An event that decides nothing, written by a step that leaves the rows alone.
LEMMA NotedTells ==
    ASSUME NEW r, NEW S, NEW action, NEW outcome, Log(r, action, outcome, S),
           action = "verify" \/ (action # "resolve" /\ outcome \in {"failed", "unknown"}),
           UNCHANGED <<applied, attempts>>
    PROVE  Told(r, action, outcome, S)
<1>1. \A m \in Migrations : StatusOf(m)' = StatusOf(m)
  BY DEF StatusOf
<1>2. \A m \in Migrations : ~Decides(Evidence(r, action, outcome, m))
  BY WhatDecides
<1>3. QED
  BY <1>1, <1>2 DEF Told

\* A transaction about one migration tells what it does if its row becomes what
\* its event says, and no other row changes.
LEMMA OneTold ==
    ASSUME NEW r, NEW d, NEW action, NEW outcome, Log(r, action, outcome, {d}),
           Decides(Evidence(r, action, outcome, IdOf[d])),
           StatusOf(IdOf[d])' = StatusAfter(Evidence(r, action, outcome, IdOf[d])),
           \A m \in Migrations \ {IdOf[d]} : StatusOf(m)' = StatusOf(m)
    PROVE  Told(r, action, outcome, {d})
<1>1. Ids({d}) = {IdOf[d]}
  BY DEF Ids
<1>2. QED
  BY <1>1 DEF Told

\* A deploy's commit, and the end of an attempt: the row appears with its event.
LEMMA CommitTells ==
    ASSUME TypeOK, LockedPlansHold, NEW r \in Runs, NEW d \in todo[r],
           DeployCommits(r, d) \/ FinishAttempt(r, d)
    PROVE  Told(r, "deploy", "succeeded", {d})
<1>1. d \in Definitions /\ IdOf[d] \in Migrations /\ d # NoDef /\ Ids({d}) = {IdOf[d]}
  BY CatalogAssumption DEF TypeOK, Ids
<1>2. /\ Log(r, "deploy", "succeeded", {d})
      /\ applied' = [applied EXCEPT ![IdOf[d]] = d]
  BY DEF DeployCommits, FinishAttempt
<1>3. attempts'[IdOf[d]] = NoDef /\ \A m \in Migrations \ {IdOf[d]} : attempts'[m] = attempts[m]
  <2>1. CASE DeployCommits(r, d)
    <3>1. Ledger!Settled /\ attempts' = attempts
      BY <2>1 DEF LockedPlansHold, RunInv, DeployCommits, Move
    <3>2. QED
      BY <1>1, <3>1 DEF Ledger!Settled
  <2>2. CASE FinishAttempt(r, d)
    BY <1>1, <2>2 DEF FinishAttempt, TypeOK, Rows
  <2>3. QED
    BY <2>1, <2>2
<1>4. applied'[IdOf[d]] = d /\ \A m \in Migrations \ {IdOf[d]} : applied'[m] = applied[m]
  BY <1>1, <1>2 DEF TypeOK, Rows
<1>5. StatusOf(IdOf[d])' = "applied" /\ \A m \in Migrations \ {IdOf[d]} : StatusOf(m)' = StatusOf(m)
  BY <1>1, <1>3, <1>4 DEF StatusOf
<1>6. /\ Decides(Evidence(r, "deploy", "succeeded", IdOf[d]))
      /\ StatusAfter(Evidence(r, "deploy", "succeeded", IdOf[d])) = "applied"
  BY WhatDecides
<1>7. QED
  BY <1>2, <1>5, <1>6, OneTold

\* The attempt's row appears with its event, too.
LEMMA AttemptTells ==
    ASSUME TypeOK, NEW r \in Runs, NEW d \in todo[r], AttemptRecorded(r, d)
    PROVE  Told(r, "deploy", "attempted", {d})
<1>1. d \in Definitions /\ IdOf[d] \in Migrations /\ d # NoDef /\ Ids({d}) = {IdOf[d]}
  BY CatalogAssumption DEF TypeOK, Ids
<1>2. /\ Log(r, "deploy", "attempted", {d})
      /\ attempts' = [attempts EXCEPT ![IdOf[d]] = d] /\ applied' = applied
  BY DEF AttemptRecorded
<1>3. attempts'[IdOf[d]] = d /\ \A m \in Migrations \ {IdOf[d]} : attempts'[m] = attempts[m]
  BY <1>1, <1>2 DEF TypeOK, Rows
<1>4. /\ StatusOf(IdOf[d])' = "attempted"
      /\ \A m \in Migrations \ {IdOf[d]} : StatusOf(m)' = StatusOf(m)
  BY <1>1, <1>2, <1>3 DEF StatusOf
<1>5. /\ Decides(Evidence(r, "deploy", "attempted", IdOf[d]))
      /\ StatusAfter(Evidence(r, "deploy", "attempted", IdOf[d])) = "attempted"
  BY WhatDecides
<1>6. QED
  BY <1>2, <1>4, <1>5, OneTold

\* A revert's row goes with its event: no attempt was open.
LEMMA RevertTells ==
    ASSUME TypeOK, LockedPlansHold, NEW r \in Runs, NEW d \in todo[r], RevertCommits(r, d)
    PROVE  Told(r, "revert", "succeeded", {d})
<1>1. d \in Definitions /\ IdOf[d] \in Migrations /\ Ids({d}) = {IdOf[d]}
  BY CatalogAssumption DEF TypeOK, Ids
<1>2. /\ Log(r, "revert", "succeeded", {d})
      /\ applied' = [applied EXCEPT ![IdOf[d]] = NoDef] /\ attempts' = attempts
  BY DEF RevertCommits
<1>3. Ledger!Settled
  BY DEF LockedPlansHold, RunInv, RevertCommits, Move
<1>4. applied'[IdOf[d]] = NoDef /\ \A m \in Migrations \ {IdOf[d]} : applied'[m] = applied[m]
  BY <1>1, <1>2 DEF TypeOK, Rows
<1>5. StatusOf(IdOf[d])' = "absent" /\ \A m \in Migrations \ {IdOf[d]} : StatusOf(m)' = StatusOf(m)
  BY <1>1, <1>2, <1>3, <1>4 DEF StatusOf, Ledger!Settled
<1>6. /\ Decides(Evidence(r, "revert", "succeeded", IdOf[d]))
      /\ StatusAfter(Evidence(r, "revert", "succeeded", IdOf[d])) = "absent"
  BY WhatDecides
<1>7. QED
  BY <1>2, <1>5, <1>6, OneTold

\* An operator's answer ends the attempt: what was attempted was not applied.
LEMMA ResolveTells ==
    ASSUME TypeOK, LockedPlansHold, NEW r \in Runs, NEW d \in todo[r], ResolveCommits(r, d)
    PROVE  \/ Told(r, "resolve", "asserted_applied", {d})
           \/ Told(r, "resolve", "asserted_not_applied", {d})
<1>1. d \in Definitions /\ IdOf[d] \in Migrations /\ d # NoDef /\ Ids({d}) = {IdOf[d]}
  BY CatalogAssumption DEF TypeOK, Ids
<1>2. attempts[IdOf[d]] = d
  BY DEF LockedPlansHold, RunInv, ResolveCommits, Move
<1>3. applied[IdOf[d]] = NoDef
  BY <1>1, <1>2 DEF LockedPlansHold, RowsInv, OneUnresolved
<1>4. attempts'[IdOf[d]] = NoDef /\ \A m \in Migrations \ {IdOf[d]} : attempts'[m] = attempts[m]
  BY <1>1 DEF ResolveCommits, TypeOK, Rows
<1>5. CASE applied' = [applied EXCEPT ![IdOf[d]] = d] /\ Log(r, "resolve", "asserted_applied", {d})
  <2>1. applied'[IdOf[d]] = d /\ \A m \in Migrations \ {IdOf[d]} : applied'[m] = applied[m]
    BY <1>1, <1>5 DEF TypeOK, Rows
  <2>2. /\ StatusOf(IdOf[d])' = "applied"
        /\ \A m \in Migrations \ {IdOf[d]} : StatusOf(m)' = StatusOf(m)
    BY <1>1, <1>4, <2>1 DEF StatusOf
  <2>3. /\ Decides(Evidence(r, "resolve", "asserted_applied", IdOf[d]))
        /\ StatusAfter(Evidence(r, "resolve", "asserted_applied", IdOf[d])) = "applied"
    BY WhatDecides
  <2>4. QED
    BY <1>5, <2>2, <2>3, OneTold
<1>6. CASE applied' = applied /\ Log(r, "resolve", "asserted_not_applied", {d})
  <2>1. /\ StatusOf(IdOf[d])' = "absent"
        /\ \A m \in Migrations \ {IdOf[d]} : StatusOf(m)' = StatusOf(m)
    BY <1>1, <1>3, <1>4, <1>6 DEF StatusOf
  <2>2. /\ Decides(Evidence(r, "resolve", "asserted_not_applied", IdOf[d]))
        /\ StatusAfter(Evidence(r, "resolve", "asserted_not_applied", IdOf[d])) = "absent"
    BY WhatDecides
  <2>3. QED
    BY <1>6, <2>1, <2>2, OneTold
<1>7. QED
  BY <1>5, <1>6 DEF ResolveCommits

\* A baseline's rows appear together, and so do their events.
LEMMA BaselineTells ==
    ASSUME TypeOK, LockedPlansHold, NEW r \in Runs, BaselineCommits(r)
    PROVE  Told(r, "baseline", "succeeded", todo[r])
<1>1. todo[r] \in SUBSET Definitions /\ NoDef \notin Definitions
  BY CatalogAssumption DEF TypeOK
<1>2. Log(r, "baseline", "succeeded", todo[r]) /\ attempts' = attempts
  BY DEF BaselineCommits
<1>3. Ledger!Settled
  BY DEF LockedPlansHold, RunInv, BaselineCommits, Move
<1>4. ASSUME NEW m \in Migrations
      PROVE  IF m \in Ids(todo[r]) THEN applied'[m] # NoDef ELSE applied'[m] = applied[m]
  <2>1. m \in Ids(todo[r]) <=> \E d \in todo[r] : IdOf[d] = m
    BY DEF Ids
  <2>2. applied'[m] = IF \E d \in todo[r] : IdOf[d] = m
                        THEN CHOOSE d \in todo[r] : IdOf[d] = m ELSE applied[m]
    BY DEF BaselineCommits
  <2>3. (\E d \in todo[r] : IdOf[d] = m) => (CHOOSE d \in todo[r] : IdOf[d] = m) \in todo[r]
    OBVIOUS
  <2>4. QED
    BY <1>1, <2>1, <2>2, <2>3
<1>5. \A m \in Migrations : StatusOf(m)' = IF m \in Ids(todo[r]) THEN "applied" ELSE StatusOf(m)
  BY <1>2, <1>3, <1>4 DEF StatusOf, Ledger!Settled
<1>6. QED
  BY <1>2, <1>5, WhatDecides DEF Told

\* A step of a run that writes no event and touches no row.
Silent == UNCHANGED <<history, applied, attempts>>

\* The actions behind what a batch of events says was done.
ToldBy(r, action, outcome, S) ==
    /\ action = "verify" =>
          \E d \in todo[r] : S = {d} /\ (VerifyDeployed(r, d) \/ VerifyNext(r, d))
    /\ action = "deploy" /\ outcome = "succeeded" =>
          \E d \in todo[r] : S = {d} /\ (DeployCommits(r, d) \/ FinishAttempt(r, d))
    /\ action = "revert" /\ outcome = "succeeded" =>
          \E d \in todo[r] : S = {d} /\ RevertCommits(r, d)
    /\ effect' = effect \/ (action \in {"deploy", "revert"} /\ outcome = "succeeded")

\* A step tells what it does to the rows, or does nothing to them and tells nothing.
LEMMA StepTells ==
    ASSUME TypeOK, LockedPlansHold, NEW r \in Runs,
           Open(r) \/ ClientStep(r) \/ ServerStep(r) \/ Disconnect(r)
    PROVE  \/ Silent
           \/ \E S \in SUBSET Definitions : \E action \in AllCommands : \E outcome \in Outcomes :
                 Told(r, action, outcome, S) /\ ToldBy(r, action, outcome, S)
<1> USE DEF database, sessions
<1> DEFINE TellsOf(S, action, outcome) ==
             Told(r, action, outcome, S) /\ ToldBy(r, action, outcome, S)
<1> DEFINE Goal ==
             \/ Silent
             \/ \E S \in SUBSET Definitions : \E action \in AllCommands : \E outcome \in Outcomes :
                   TellsOf(S, action, outcome)
<1>1. CASE \/ Open(r) \/ TryLock(r) \/ Poll(r) \/ PollExpires(r) \/ Refresh(r)
           \/ SendStatement(r) \/ AssertionFails(r) \/ Acknowledged(r) \/ Finish(r)
           \/ Release(r) \/ ServerStep(r) \/ Disconnect(r)
  BY <1>1 DEF Silent, Open, TryLock, Poll, PollExpires, Refresh, SendStatement, AssertionFails,
     Acknowledged, Finish, Release, ServerStep, GrantQueued, StatementEnds, OrphanExits, Disconnect
<1>2. CASE Plan(r)
  BY <1>2, PlanHasShape DEF PlanShape, Silent
<1>3. ASSUME NEW S \in SUBSET Definitions, NEW action \in AllCommands, NEW outcome \in Outcomes,
             TellsOf(S, action, outcome)
      PROVE  Goal
  BY <1>3
<1>4. CASE BaselineCommits(r)
  <2>1. todo[r] \in SUBSET Definitions /\ "baseline" \in AllCommands /\ "succeeded" \in Outcomes
    BY DEF TypeOK, AllCommands, Outcomes
  <2>2. TellsOf(todo[r], "baseline", "succeeded")
    BY <1>4, BaselineTells DEF BaselineCommits, ToldBy
  <2>3. QED
    BY <1>3, <2>1, <2>2
<1>5. ASSUME NEW d \in todo[r], MigrationStep(r, d) PROVE Goal
  <2>1. /\ {d} \in SUBSET Definitions
        /\ {"deploy", "revert", "resolve", "verify"} \subseteq AllCommands
        /\ {"succeeded", "attempted", "asserted_applied", "asserted_not_applied"} \subseteq Outcomes
        /\ {"failed", "unknown"} \subseteq Outcomes
    BY DEF TypeOK, AllCommands, Outcomes
  <2>2. CASE DeployCommits(r, d) \/ FinishAttempt(r, d)
    <3>1. TellsOf({d}, "deploy", "succeeded")
      BY <2>2, CommitTells DEF ToldBy
    <3>2. QED
      BY <1>3, <2>1, <3>1
  <2>3. CASE AttemptRecorded(r, d)
    <3>1. TellsOf({d}, "deploy", "attempted")
      BY <2>3, AttemptTells DEF AttemptRecorded, ToldBy
    <3>2. QED
      BY <1>3, <2>1, <3>1
  <2>4. CASE RevertCommits(r, d)
    <3>1. TellsOf({d}, "revert", "succeeded")
      BY <2>4, RevertTells DEF ToldBy
    <3>2. QED
      BY <1>3, <2>1, <3>1
  <2>5. CASE ResolveCommits(r, d)
    <3>1. \E outcome \in {"asserted_applied", "asserted_not_applied"} :
             TellsOf({d}, "resolve", outcome)
      BY <2>5, ResolveTells DEF ResolveCommits, ToldBy
    <3>2. QED
      BY <1>3, <2>1, <3>1
  <2>6. ASSUME NEW action \in {"deploy", "revert", "verify"}, NEW outcome \in Outcomes,
               Log(r, action, outcome, {d}) \/ history' = history,
               action = "verify" \/ outcome \in {"failed", "unknown"},
               action = "verify" => VerifyDeployed(r, d) \/ VerifyNext(r, d),
               UNCHANGED <<applied, attempts, effect>>
        PROVE  Goal
    <3>1. CASE history' = history
      BY <2>6, <3>1 DEF Silent
    <3>2. CASE Log(r, action, outcome, {d})
      <4>1. Told(r, action, outcome, {d})
        BY <2>6, <3>2, NotedTells
      <4>2. TellsOf({d}, action, outcome)
        BY <2>6, <4>1 DEF ToldBy
      <4>3. QED
        BY <1>3, <2>1, <4>2
    <3>3. QED
      BY <2>6, <3>1, <3>2
  <2>7. CASE DeployFails(r, d)
    BY <2>1, <2>6, <2>7 DEF DeployFails, LogBestEffort
  <2>8. CASE RecordFailure(r, d)
    BY <2>1, <2>6, <2>8 DEF RecordFailure, LogBestEffort
  <2>9. CASE OutcomeUnknown(r, d)
    BY <2>1, <2>6, <2>9 DEF OutcomeUnknown, LogBestEffort
  <2>10. CASE RevertFails(r, d)
    BY <2>1, <2>6, <2>10 DEF RevertFails, LogBestEffort
  <2>11. CASE VerifyDeployed(r, d)
    <3>1. /\ UNCHANGED <<applied, attempts, effect>>
          /\ \/ history' = history
             \/ \E outcome \in {"succeeded", "failed"} : Log(r, "verify", outcome, {d})
      BY <2>11 DEF VerifyDeployed, LogBestEffort
    <3>2. QED
      BY <2>1, <2>6, <2>11, <3>1
  <2>12. CASE VerifyNext(r, d)
    <3>1. /\ UNCHANGED <<applied, attempts, effect>>
          /\ \/ history' = history
             \/ \E outcome \in {"succeeded", "failed"} : Log(r, "verify", outcome, {d})
      BY <2>12 DEF VerifyNext, LogBestEffort
    <3>2. QED
      BY <2>1, <2>6, <2>12, <3>1
  <2>13. CASE AttemptRefused(r, d) \/ FinishFails(r, d) \/ DeployAcknowledged(r, d)
    BY <2>13 DEF AttemptRefused, FinishFails, DeployAcknowledged, Silent
  <2>14. QED
    BY <1>5, <2>2, <2>3, <2>4, <2>5, <2>7, <2>8, <2>9, <2>10, <2>11, <2>12, <2>13
    DEF MigrationStep
<1>6. QED
  BY <1>1, <1>2, <1>4, <1>5 DEF ClientStep

\* A history that does not change says what it said.
LEMMA SilenceTellsNothing ==
    ASSUME Silent
    PROVE  /\ \A m : StatusAt(Len(history), m)' = StatusAt(Len(history), m)
           /\ \A n, m : StatusAt(n, m)' = StatusAt(n, m)
           /\ \A m : LastDecision(m)' = LastDecision(m)
           /\ \A m : Observed(m)' <=> Observed(m)
<1>1. history' = history
  BY DEF Silent
<1>2. \A m : StatusAt(Len(history), m)' = StatusAt(Len(history), m)
  BY <1>1 DEF StatusAt
<1>3. \A n, m : StatusAt(n, m)' = StatusAt(n, m)
  BY <1>1 DEF StatusAt
<1>4. \A m : LastDecision(m)' = LastDecision(m)
  BY <1>1 DEF LastDecision
<1>5. \A m : Observed(m)' <=> Observed(m)
  BY <1>1 DEF Observed
<1>6. QED
  BY <1>2, <1>3, <1>4, <1>5

\* A step that tells what it does to the rows keeps the history true to them.
LEMMA TellingKeepsHistoryTrue ==
    ASSUME TypeOK, HistoryExplainsRows, NEW r \in Runs, NEW S \in SUBSET Definitions,
           NEW action \in AllCommands, NEW outcome \in Outcomes, Told(r, action, outcome, S)
    PROVE  HistoryExplainsRows'
<1>1. Log(r, action, outcome, S) /\ history \in Seq(SUBSET Event)
  BY DEF Told, TypeOK
<1>2. ASSUME NEW m \in Migrations PROVE StatusOf(m)' = StatusAt(Len(history), m)'
  <2>1. StatusOf(m) = StatusAt(Len(history), m)
    BY DEF HistoryExplainsRows
  <2>2. CASE m \in Ids(S) /\ Decides(Evidence(r, action, outcome, m))
    BY <1>1, <2>2, LogTells DEF Told
  <2>3. CASE ~(m \in Ids(S) /\ Decides(Evidence(r, action, outcome, m)))
    BY <1>1, <2>1, <2>3, LogTells DEF Told
  <2>4. QED
    BY <2>2, <2>3
<1>3. QED
  BY <1>2 DEF HistoryExplainsRows

\* The history and the rows never disagree: no row without its evidence, no
\* evidence without its row, whatever was cut off where.
THEOREM HistoryIsTrue == Spec => []HistoryExplainsRows
<1>1. Init => HistoryExplainsRows
  <2> SUFFICES ASSUME Init, NEW m \in Migrations PROVE StatusOf(m) = StatusAt(Len(history), m)
    BY DEF HistoryExplainsRows
  <2>1. Telling(history, Len(history), m) = {}
    BY DEF Init, Telling
  <2>2. StatusAt(Len(history), m) = "absent"
    BY <2>1, ReadVerdict
  <2>3. QED
    BY <2>2 DEF Init, StatusOf
<1>2. TypeOK /\ LockedPlansHold /\ HistoryExplainsRows /\ [Next]_vars => HistoryExplainsRows'
  <2> SUFFICES ASSUME TypeOK, LockedPlansHold, HistoryExplainsRows, [Next]_vars
               PROVE  HistoryExplainsRows'
    OBVIOUS
  <2>1. CASE Silent
    <3>1. \A m \in Migrations : StatusOf(m)' = StatusOf(m)
      BY <2>1 DEF Silent, StatusOf
    <3>2. \A m : StatusAt(Len(history), m)' = StatusAt(Len(history), m)
      BY <2>1, SilenceTellsNothing
    <3>3. QED
      BY <3>1, <3>2 DEF HistoryExplainsRows
  <2>2. CASE UNCHANGED vars
    BY <2>1, <2>2 DEF vars, database, Silent
  <2>3. ASSUME NEW r \in Runs, Open(r) \/ ClientStep(r) \/ ServerStep(r) \/ Disconnect(r)
        PROVE  HistoryExplainsRows'
    <3>1. \/ Silent
          \/ \E S \in SUBSET Definitions : \E action \in AllCommands : \E outcome \in Outcomes :
                Told(r, action, outcome, S)
      BY <2>3, StepTells
    <3>2. QED
      BY <2>1, <3>1, TellingKeepsHistoryTrue
  <2>4. QED
    BY <2>2, <2>3 DEF Next
<1>3. QED
  BY <1>1, <1>2, TypeCorrect, PlansHold, PTL DEF Spec

-----------------------------------------------------------------------------
(***************************************************************************)
(* What is verified is applied.                                            *)
(***************************************************************************)
\* What run r verifies, or is about to, is applied and not in doubt.
VerificationSound(r) ==
    /\ pc[r] = "verifying" \/ (cmd[r] = "deploy" /\ pc[r] = "committed") =>
          \A d \in todo[r] : IsNext(r, d) => applied[IdOf[d]] # NoDef
    /\ cmd[r] = "verify" /\ pc[r] = "working" =>
          Ledger!Settled /\ \A d \in todo[r] : applied[IdOf[d]] # NoDef

\* A run that is not under the lock leaves the registry alone, and takes the
\* lock from nobody else.
LEMMA OutsideTouchesNothing ==
    ASSUME TypeOK, LockedPlansHold, NEW r \in Runs, pc[r] \notin UnderLock,
           Open(r) \/ ClientStep(r) \/ ServerStep(r) \/ Disconnect(r)
    PROVE  /\ UNCHANGED <<initialized, applied, attempts, history, effect>>
           /\ holder' = holder \/ holder \in {NoRun, r}
           /\ ~Plan(r) /\ ~ \E d \in todo[r] : MigrationStep(r, d)
<1>1. ~Plan(r) /\ ~ \E d \in todo[r] : MigrationStep(r, d)
  BY PlanHasShape, MigrationStepJustified DEF PlanShape, Refuse, Select, Move, UnderLock
<1>2. ~ OrphanExits(r) \/ UNCHANGED effect
  BY DEF OrphanExits, UnderLock, InHand
<1>3. QED
  BY <1>1, <1>2
  DEF ClientStep, ServerStep, Open, TryLock, Poll, PollExpires, Refresh, Release,
      SendStatement, BaselineCommits, AssertionFails, Acknowledged, Finish,
      GrantQueued, StatementEnds, OrphanExits, Disconnect, Move, UnderLock, InHand,
      database, sessions

\* One migration's step verifies what is applied, and goes on to verify only that.
LEMMA MigrationStepSound ==
    ASSUME TypeOK, LockedPlansHold, NEW r \in Runs, VerificationSound(r),
           NEW d \in todo[r], MigrationStep(r, d)
    PROVE  VerificationSound(r)'
<1> USE DEF Move, sessions, database
<1>1. RunInv(r) /\ d \in Definitions /\ d # NoDef /\ IdOf[d] \in Migrations
  BY CatalogAssumption DEF LockedPlansHold, TypeOK
<1>2. pc \in [Runs -> Outside \cup UnderLock] /\ todo \in [Runs -> SUBSET Definitions]
  BY DEF TypeOK
<1>3. ASSUME \/ pc'[r] \in {"releasing", "attempted"}
             \/ cmd'[r] \in {"revert", "resolve"} /\ pc'[r] = "committed"
             \/ cmd'[r] = "deploy" /\ pc'[r] = "working"
      PROVE  VerificationSound(r)'
  BY <1>3 DEF VerificationSound
<1>4. CASE DeployFails(r, d) \/ AttemptRecorded(r, d) \/ AttemptRefused(r, d)
           \/ FinishFails(r, d) \/ RecordFailure(r, d) \/ OutcomeUnknown(r, d)
           \/ RevertFails(r, d) \/ RevertCommits(r, d) \/ ResolveCommits(r, d)
  BY <1>2, <1>3, <1>4 DEF DeployFails, AttemptRecorded, AttemptRefused, FinishFails,
     RecordFailure, OutcomeUnknown, RevertFails, RevertCommits, ResolveCommits
<1>5. CASE DeployCommits(r, d) \/ FinishAttempt(r, d)
  <2>1. /\ IsNext(r, d) /\ applied' = [applied EXCEPT ![IdOf[d]] = d]
        /\ pc'[r] = "committed" /\ UNCHANGED <<cmd, todo>>
        /\ \/ cmd[r] = "deploy" /\ pc[r] = "working"
           \/ pc[r] = "answered"
    BY <1>2, <1>5 DEF DeployCommits, FinishAttempt
  <2>2. todo[r] = Lacking(r)
    BY <1>1, <2>1 DEF RunInv, AttemptOpen
  <2>3. \A e \in todo[r] : IsNext(r, e) => e = d
    BY <2>1, <2>2, NextIsReady
  <2>4. applied'[IdOf[d]] = d
    BY <1>1, <2>1 DEF TypeOK, Rows
  <2>5. \A e \in todo[r] : IsNext(r, e)' => IsNext(r, e)
    BY <2>1 DEF IsNext
  <2>6. QED
    BY <1>1, <2>1, <2>3, <2>4, <2>5 DEF VerificationSound
<1>6. CASE DeployAcknowledged(r, d)
  <2>1. /\ cmd[r] = "deploy" /\ pc[r] = "committed" /\ UNCHANGED <<applied, cmd>>
        /\ \/ pc'[r] = "verifying" /\ todo' = todo
           \/ pc'[r] = "working"
    BY <1>2, <1>6 DEF DeployAcknowledged
  <2>2. CASE pc'[r] = "verifying" /\ todo' = todo
    <3>1. \A e \in todo[r] : IsNext(r, e)' => IsNext(r, e)
      BY <2>2 DEF IsNext
    <3>2. QED
      BY <2>1, <2>2, <3>1 DEF VerificationSound
  <2>3. QED
    BY <1>3, <2>1, <2>2
<1>7. CASE VerifyDeployed(r, d)
  <2>1. pc[r] = "verifying" /\ pc'[r] \in {"working", "releasing"} /\ cmd' = cmd
    BY <1>2, <1>7 DEF VerifyDeployed
  <2>2. cmd[r] = "deploy"
    BY <1>1, <2>1 DEF RunInv
  <2>3. QED
    BY <1>3, <2>1, <2>2
<1>8. CASE VerifyNext(r, d)
  <2>1. /\ cmd[r] = "verify" /\ pc[r] = "working" /\ UNCHANGED <<applied, attempts, cmd>>
        /\ \/ pc'[r] = "working" /\ todo'[r] = todo[r] \ {d}
           \/ pc'[r] = "releasing"
    BY <1>2, <1>8 DEF VerifyNext
  <2>2. Ledger!Settled' /\ \A e \in todo[r] : applied'[IdOf[e]] # NoDef
    BY <2>1 DEF VerificationSound, Ledger!Settled
  <2>3. CASE pc'[r] = "working" /\ todo'[r] = todo[r] \ {d}
    BY <2>1, <2>2, <2>3 DEF VerificationSound
  <2>4. QED
    BY <1>3, <2>1, <2>3
<1>9. QED
  BY <1>4, <1>5, <1>6, <1>7, <1>8 DEF MigrationStep

\* verify takes its list from a snapshot that is current.
LEMMA PlanSound ==
    ASSUME TypeOK, LockedPlansHold, NEW r \in Runs, Plan(r)
    PROVE  VerificationSound(r)'
<1>1. PlanShape(r)
  BY PlanHasShape
<1>2. pc[r] = "refreshed" /\ snap[r] = Registry
  <2>1. pc[r] = "refreshed"
    BY <1>1 DEF PlanShape, Refuse, Select, Move
  <2>2. QED
    BY <2>1 DEF LockedPlansHold, RunInv
<1>3. UNCHANGED <<applied, attempts, cmd>> /\ pc'[r] \in {"releasing", "working"}
  BY <1>1 DEF PlanShape, Refuse, Select, Move, TypeOK
<1>4. snap[r].applied = applied /\ snap[r].attempts = attempts
  BY <1>2 DEF Registry
<1>5. CASE cmd[r] = "verify" /\ pc'[r] = "working"
  <2>1. PICK S \in SUBSET Applied(CheckoutOf[r], snap[r]) : ~Blocked(snap[r]) /\ Select(r, S)
    BY <1>5 DEF Plan, PlanDeploy, PlanRevert, PlanResolve, PlanBaseline, PlanVerify, Refuse, Move, TypeOK
  <2>2. todo'[r] = S
    BY <2>1 DEF Select, TypeOK
  <2>3. Ledger!Settled'
    BY <1>3, <1>4, <2>1 DEF Blocked, Ledger!Settled
  <2>4. \A d \in S : applied'[IdOf[d]] # NoDef
    BY <1>3, <1>4 DEF Applied
  <2>5. QED
    BY <1>3, <1>5, <2>2, <2>3, <2>4 DEF VerificationSound
<1>6. QED
  BY <1>3, <1>5 DEF VerificationSound

\* Its other steps lead to no verification.
LEMMA OtherStepSound ==
    ASSUME TypeOK, LockedPlansHold, NEW r \in Runs, VerificationSound(r),
           \/ Open(r) \/ TryLock(r) \/ Poll(r) \/ PollExpires(r) \/ Refresh(r)
           \/ SendStatement(r) \/ BaselineCommits(r) \/ AssertionFails(r)
           \/ Acknowledged(r) \/ Finish(r) \/ Release(r) \/ ServerStep(r) \/ Disconnect(r)
    PROVE  VerificationSound(r)'
<1> USE DEF Move, sessions, database
<1>1. pc \in [Runs -> Outside \cup UnderLock] /\ cmd \in [Runs -> AllCommands \cup {"none"}]
  BY DEF TypeOK
<1>2. CASE \/ Open(r) \/ TryLock(r) \/ Poll(r) \/ PollExpires(r) \/ Refresh(r)
           \/ SendStatement(r) \/ AssertionFails(r) \/ Acknowledged(r) \/ Finish(r) \/ Release(r)
           \/ OrphanExits(r)
  <2>1. pc'[r] \notin {"verifying", "committed", "working"}
    BY <1>1, <1>2 DEF Open, TryLock, Poll, PollExpires, Refresh, SendStatement, AssertionFails,
       Acknowledged, Finish, Release, OrphanExits
  <2>2. QED
    BY <2>1 DEF VerificationSound
<1>3. CASE BaselineCommits(r)
  <2>1. cmd'[r] = "baseline" /\ pc'[r] = "committed"
    BY <1>1, <1>3 DEF BaselineCommits
  <2>2. QED
    BY <2>1 DEF VerificationSound
<1>4. CASE GrantQueued(r) \/ \E d \in todo[r] : StatementEnds(r, d)
  <2>1. pc'[r] \in {"queued", "locked", "answered", "refused", "unanswered"}
    BY <1>1, <1>4 DEF GrantQueued, StatementEnds
  <2>2. QED
    BY <2>1 DEF VerificationSound
<1>5. CASE Disconnect(r)
  <2>1. UNCHANGED <<applied, attempts, pc, cmd, todo>>
    BY <1>5 DEF Disconnect
  <2>2. \A d \in todo[r] : IsNext(r, d)' <=> IsNext(r, d)
    BY <2>1 DEF IsNext
  <2>3. Ledger!Settled' <=> Ledger!Settled
    BY <2>1 DEF Ledger!Settled
  <2>4. QED
    BY <2>1, <2>2, <2>3 DEF VerificationSound
<1>6. QED
  BY <1>2, <1>3, <1>4, <1>5 DEF ServerStep

\* A run that does not step knows no less, whether or not the rows change.
LEMMA OthersStaySound ==
    ASSUME TypeOK, LockedPlansHold, NEW r \in Runs, NEW q \in Runs \ {r}, VerificationSound(q),
           OthersStill(r), pc[r] \in UnderLock \/ UNCHANGED <<applied, attempts>>
    PROVE  VerificationSound(q)'
<1>1. pc'[q] = pc[q] /\ cmd'[q] = cmd[q] /\ todo'[q] = todo[q]
  BY DEF OthersStill
<1>2. CASE pc[r] \in UnderLock
  <2>1. pc[q] \notin UnderLock
    BY <1>2 DEF LockedPlansHold, RunInv
  <2>2. QED
    BY <1>1, <2>1 DEF VerificationSound, UnderLock, InHand
<1>3. CASE UNCHANGED <<applied, attempts>>
  <2>1. \A d \in todo[q] : IsNext(q, d)' <=> IsNext(q, d)
    BY <1>1 DEF IsNext
  <2>2. Ledger!Settled' <=> Ledger!Settled
    BY <1>3 DEF Ledger!Settled
  <2>3. QED
    BY <1>1, <1>3, <2>1, <2>2 DEF VerificationSound
<1>4. QED
  BY <1>2, <1>3

\* A batch of verification events is about a migration that is applied.
LEMMA VerifiedIsApplied ==
    ASSUME TypeOK, LockedPlansHold, NEW r \in Runs, VerificationSound(r), NEW d \in todo[r],
           VerifyDeployed(r, d) \/ VerifyNext(r, d)
    PROVE  StatusOf(IdOf[d]) = "applied"
<1>1. RunInv(r) /\ IdOf[d] \in Migrations
  BY CatalogAssumption DEF LockedPlansHold, TypeOK
<1>2. Ledger!Settled /\ applied[IdOf[d]] # NoDef
  BY <1>1 DEF VerificationSound, RunInv, VerifyDeployed, VerifyNext, Move
<1>3. QED
  BY <1>1, <1>2 DEF StatusOf, Ledger!Settled

\* The invariant of a step that tells.
LEMMA TellingKeepsVerified ==
    ASSUME TypeOK, HistoryExplainsRows, VerifiedWhileApplied,
           NEW r \in Runs, NEW S \in SUBSET Definitions,
           NEW action \in AllCommands, NEW outcome \in Outcomes, Told(r, action, outcome, S),
           action = "verify" => \E d \in S : S = {d} /\ StatusOf(IdOf[d]) = "applied"
    PROVE  VerifiedWhileApplied'
<1>1. Log(r, action, outcome, S) /\ history \in Seq(SUBSET Event) /\ Len(history) \in Nat
  BY DEF Told, TypeOK
<1>2. Extended(history, history'[Len(history')], history') /\ history' \in Seq(SUBSET Event)
  BY <1>1, LogWrites
<1>3. /\ Len(history') = Len(history) + 1
      /\ DOMAIN history' = 1 .. Len(history') /\ DOMAIN history = 1 .. Len(history)
      /\ \A i \in 1 .. Len(history) : history'[i] = history[i]
  BY <1>1, <1>2 DEF Extended
<1>4. ASSUME NEW i \in 1 .. Len(history), NEW e \in history'[i], e.action = "verify"
      PROVE  StatusAt(i, e.id)' = "applied"
  <2>1. e.id \in Migrations /\ history'[i] = history[i]
    BY <1>1, <1>2, <1>3 DEF Event
  <2>2. i \in 0 .. Len(history)
    BY <1>1
  <2>3. StatusAt(i, e.id)' = StatusAt(i, e.id)
    BY <1>1, <2>1, <2>2, LogTells
  <2>4. QED
    BY <1>3, <1>4, <2>1, <2>3 DEF VerifiedWhileApplied
<1>5. ASSUME NEW e \in history'[Len(history')], e.action = "verify"
      PROVE  StatusAt(Len(history), e.id)' = "applied"
  <2>1. PICK n \in Ids(S) : e = Evidence(r, action, outcome, n)
    <3>1. BatchOf(history'[Len(history')], r, action, outcome, S)
      BY <1>1, LogWrites
    <3>2. QED
      BY <1>5, <3>1 DEF BatchOf
  <2>2. action = "verify" /\ e.id = n
    BY <1>5, <2>1 DEF Evidence
  <2>3. n \in Migrations /\ StatusOf(n) = "applied"
    BY <2>2, CatalogAssumption DEF Ids
  <2>4. ~Decides(Evidence(r, action, outcome, n))
    BY <2>2, WhatDecides
  <2>5. StatusAt(Len(history), n)' = StatusAt(Len(history), n)
    BY <1>1, <2>3, <2>4, LogTells
  <2>6. QED
    BY <2>2, <2>3, <2>5 DEF HistoryExplainsRows
<1>6. ASSUME NEW i \in DOMAIN history', NEW e \in history'[i], e.action = "verify"
      PROVE  StatusAt(i, e.id)' = "applied"
  <2>1. i \in 1 .. Len(history) \/ i = Len(history')
    BY <1>1, <1>3
  <2>2. QED
    BY <1>4, <1>5, <1>6, <2>1
<1>7. QED
  BY <1>6 DEF VerifiedWhileApplied

\* What any run is about to verify is applied.
VerifiersSound == \A r \in Runs : VerificationSound(r)

\* Every step keeps it so.
LEMMA StepSound ==
    ASSUME TypeOK, LockedPlansHold, VerifiersSound, [Next]_vars
    PROVE  VerifiersSound'
<1>1. CASE UNCHANGED vars
  <2>1. UNCHANGED <<applied, attempts, pc, cmd, todo>>
    BY <1>1 DEF vars, database
  <2>2. \A r \in Runs : \A d \in todo[r] : IsNext(r, d)' <=> IsNext(r, d)
    BY <2>1 DEF IsNext
  <2>3. Ledger!Settled' <=> Ledger!Settled
    BY <2>1 DEF Ledger!Settled
  <2>4. QED
    BY <2>1, <2>2, <2>3 DEF VerifiersSound, VerificationSound
<1>2. ASSUME NEW r \in Runs, Open(r) \/ ClientStep(r) \/ ServerStep(r) \/ Disconnect(r)
      PROVE  VerifiersSound'
  <2>1. VerificationSound(r)'
    BY <1>2, PlanSound, MigrationStepSound, OtherStepSound DEF ClientStep, VerifiersSound
  <2>2. OthersStill(r) /\ (pc[r] \in UnderLock \/ UNCHANGED <<applied, attempts>>)
    BY <1>2, StepIsOneRuns, OutsideTouchesNothing
  <2>3. \A q \in Runs \ {r} : VerificationSound(q)'
    BY <2>2, OthersStaySound DEF VerifiersSound
  <2>4. QED
    BY <2>1, <2>3 DEF VerifiersSound
<1>3. QED
  BY <1>1, <1>2 DEF Next

\* Every step's verification events are about migrations that are applied.
LEMMA StepVerifies ==
    ASSUME TypeOK, LockedPlansHold, VerifiersSound, HistoryExplainsRows,
           VerifiedWhileApplied, [Next]_vars
    PROVE  VerifiedWhileApplied'
<1>1. CASE Silent
  <2>1. history' = history
    BY <1>1 DEF Silent
  <2>2. \A n, m : StatusAt(n, m)' = StatusAt(n, m)
    BY <1>1, SilenceTellsNothing
  <2>3. QED
    BY <2>1, <2>2 DEF VerifiedWhileApplied
<1>2. CASE UNCHANGED vars
  BY <1>1, <1>2 DEF vars, database, Silent
<1>3. ASSUME NEW r \in Runs, Open(r) \/ ClientStep(r) \/ ServerStep(r) \/ Disconnect(r), ~Silent
      PROVE  VerifiedWhileApplied'
  <2>1. PICK S \in SUBSET Definitions, action \in AllCommands, outcome \in Outcomes :
           Told(r, action, outcome, S) /\ ToldBy(r, action, outcome, S)
    BY <1>3, StepTells
  <2>2. ASSUME action = "verify" PROVE \E d \in S : S = {d} /\ StatusOf(IdOf[d]) = "applied"
    BY <2>1, <2>2, VerifiedIsApplied DEF VerifiersSound, ToldBy
  <2>3. QED
    BY <2>1, <2>2, TellingKeepsVerified
<1>4. QED
  BY <1>1, <1>2, <1>3 DEF Next

\* No run verifies a migration that is not applied when it does.
THEOREM VerificationIsOfTheApplied == Spec => []VerifiedWhileApplied
<1>1. Init => VerifiersSound /\ VerifiedWhileApplied
  <2> SUFFICES ASSUME Init PROVE VerifiersSound /\ VerifiedWhileApplied
    OBVIOUS
  <2>1. VerifiersSound
    BY DEF Init, VerifiersSound, VerificationSound
  <2>2. VerifiedWhileApplied
    BY DEF Init, VerifiedWhileApplied
  <2>3. QED
    BY <2>1, <2>2
<1>2. /\ TypeOK /\ LockedPlansHold /\ HistoryExplainsRows
      /\ VerifiersSound /\ VerifiedWhileApplied /\ [Next]_vars
      => VerifiersSound' /\ VerifiedWhileApplied'
  BY StepSound, StepVerifies
<1>3. QED
  BY <1>1, <1>2, TypeCorrect, PlansHold, HistoryIsTrue, PTL DEF Spec

-----------------------------------------------------------------------------
(***************************************************************************)
(* What the schema holds is accounted for.                                 *)
(***************************************************************************)
\* What a statement has done by the time its answer is known to the client.
AnswerIsFull(r) ==
    pc[r] = "answered" => \A d \in todo[r] : IsNext(r, d) => effect[IdOf[d]] = "full"

\* A migration in doubt is not one that was observed to succeed.
DoubtIsUnobserved == \A m \in Migrations : attempts[m] # NoDef => ~Observed(m)

AnswersAreFull == \A r \in Runs : AnswerIsFull(r)

EffectsHold == EffectsAccountedFor /\ DoubtIsUnobserved /\ AnswersAreFull

\* A success is observed from the batch that says so to the next that decides.
LEMMA ObservedAfter ==
    ASSUME history \in Seq(SUBSET Event), NEW r \in Runs, NEW S \in SUBSET Definitions,
           NEW action \in AllCommands, NEW outcome \in Outcomes,
           Log(r, action, outcome, S), NEW m \in Migrations
    PROVE  IF m \in Ids(S) /\ Decides(Evidence(r, action, outcome, m))
             THEN Observed(m)' => action = "deploy" /\ outcome = "succeeded"
             ELSE Observed(m)' => Observed(m)
<1>1. /\ Extended(history, history'[Len(history')], history')
      /\ history' \in Seq(SUBSET Event)
      /\ BatchOf(history'[Len(history')], r, action, outcome, S)
  BY LogWrites
<1>2. /\ Len(history) \in Nat /\ Len(history') = Len(history) + 1
      /\ DOMAIN history = 1 .. Len(history) /\ DOMAIN history' = 1 .. Len(history')
      /\ \A i \in 1 .. Len(history) : history'[i] = history[i]
  BY <1>1 DEF Extended
<1>3. \A e \in history'[Len(history')] :
         e.id = m => m \in Ids(S) /\ e = Evidence(r, action, outcome, m)
  BY <1>1 DEF BatchOf, Evidence
<1>4. m \in Ids(S) => /\ Evidence(r, action, outcome, m) \in history'[Len(history')]
                      /\ Evidence(r, action, outcome, m).id = m
                      /\ Evidence(r, action, outcome, m).action = action
                      /\ Evidence(r, action, outcome, m).outcome = outcome
  BY <1>1 DEF BatchOf, Evidence
<1>5. SUFFICES ASSUME Observed(m)'
               PROVE  IF m \in Ids(S) /\ Decides(Evidence(r, action, outcome, m))
                        THEN action = "deploy" /\ outcome = "succeeded"
                        ELSE Observed(m)
  OBVIOUS
<1>6. PICK i \in DOMAIN history' : \E e \in history'[i] :
         /\ e.id = m /\ e.action = "deploy" /\ e.outcome = "succeeded"
         /\ \A j \in i + 1 .. Len(history') : \A f \in history'[j] : f.id = m => ~Decides(f)
  BY <1>5 DEF Observed
<1>7. CASE i = Len(history')
  <2>1. m \in Ids(S) /\ action = "deploy" /\ outcome = "succeeded"
    BY <1>3, <1>4, <1>6, <1>7
  <2>2. Decides(Evidence(r, action, outcome, m))
    BY <2>1, WhatDecides
  <2>3. QED
    BY <2>1, <2>2
<1>8. CASE i # Len(history')
  <2>1. i \in 1 .. Len(history) /\ Len(history') \in i + 1 .. Len(history')
    BY <1>2, <1>6, <1>8
  <2>2. ~(m \in Ids(S) /\ Decides(Evidence(r, action, outcome, m)))
    BY <1>4, <1>6, <2>1
  <2>3. \A j \in i + 1 .. Len(history) : j \in i + 1 .. Len(history') /\ history'[j] = history[j]
    BY <1>2, <2>1
  <2>4. Observed(m)
    BY <1>2, <1>6, <2>1, <2>3 DEF Observed
  <2>5. QED
    BY <2>2, <2>4
<1>9. QED
  BY <1>7, <1>8

\* A step that tells accounts for what it does to the schema.
LEMMA TellingKeepsEffects ==
    ASSUME TypeOK, LockedPlansHold, EffectsHold, NEW r \in Runs, NEW S \in SUBSET Definitions,
           NEW action \in AllCommands, NEW outcome \in Outcomes,
           Told(r, action, outcome, S), ToldBy(r, action, outcome, S)
    PROVE  EffectsAccountedFor' /\ DoubtIsUnobserved'
<1>1. Log(r, action, outcome, S) /\ history \in Seq(SUBSET Event)
  BY DEF Told, TypeOK
<1>2. effect \in [Migrations -> Effects]
  BY DEF TypeOK
<1>3. ASSUME NEW m \in Migrations
      PROVE  /\ ~(m \in Ids(S) /\ Decides(Evidence(r, action, outcome, m))) => effect'[m] = effect[m]
             /\ m \in Ids(S) /\ action = "deploy" /\ outcome = "succeeded" => effect'[m] = "full"
             /\ m \in Ids(S) /\ action = "revert" /\ outcome = "succeeded" => effect'[m] = "none"
  <2>1. CASE action = "deploy" /\ outcome = "succeeded"
    <3>1. PICK d \in todo[r] : S = {d} /\ (DeployCommits(r, d) \/ FinishAttempt(r, d))
      BY <2>1 DEF ToldBy
    <3>2. Ids(S) = {IdOf[d]} /\ Decides(Evidence(r, action, outcome, m))
      BY <2>1, <3>1, WhatDecides DEF Ids
    <3>3. \/ effect' = [effect EXCEPT ![IdOf[d]] = "full"]
          \/ effect' = effect /\ effect[IdOf[d]] = "full"
      BY <3>1 DEF DeployCommits, FinishAttempt, Move, EffectsHold, AnswersAreFull, AnswerIsFull
    <3>4. QED
      BY <1>2, <2>1, <3>2, <3>3
  <2>2. CASE action = "revert" /\ outcome = "succeeded"
    <3>1. PICK d \in todo[r] : S = {d} /\ RevertCommits(r, d)
      BY <2>2 DEF ToldBy
    <3>2. Ids(S) = {IdOf[d]} /\ Decides(Evidence(r, action, outcome, m))
      BY <2>2, <3>1, WhatDecides DEF Ids
    <3>3. effect' = [effect EXCEPT ![IdOf[d]] = "none"]
      BY <3>1 DEF RevertCommits
    <3>4. QED
      BY <1>2, <2>2, <3>2, <3>3
  <2>3. CASE ~(action \in {"deploy", "revert"} /\ outcome = "succeeded")
    BY <2>3 DEF ToldBy
  <2>4. QED
    BY <2>1, <2>2, <2>3
<1>4. ASSUME NEW m \in Migrations
      PROVE  /\ effect'[m] # "none" =>
                   StatusOf(m)' # "absent" \/ LastDecision(m)' = "asserted_not_applied"
             /\ Observed(m)' => effect'[m] = "full"
             /\ StatusOf(m)' = "attempted" => ~Observed(m)'
  <2>1. /\ effect[m] # "none" => StatusOf(m) # "absent" \/ LastDecision(m) = "asserted_not_applied"
        /\ Observed(m) => effect[m] = "full"
        /\ StatusOf(m) = "attempted" => ~Observed(m)
    BY DEF EffectsHold, EffectsAccountedFor, DoubtIsUnobserved, StatusOf
  <2>2. CASE m \in Ids(S) /\ Decides(Evidence(r, action, outcome, m))
    <3>1. /\ StatusOf(m)' = StatusAfter(Evidence(r, action, outcome, m))
          /\ LastDecision(m)' = outcome
      BY <1>1, <2>2, LogTells DEF Told
    <3>2. Observed(m)' => action = "deploy" /\ outcome = "succeeded"
      BY <1>1, <2>2, ObservedAfter
    <3>3. StatusAfter(Evidence(r, action, outcome, m)) = "absent" =>
             outcome = "asserted_not_applied" \/ (action = "revert" /\ outcome = "succeeded")
      <4> DEFINE e == Evidence(r, action, outcome, m)
      <4>1. e.action = action /\ e.outcome = outcome
        BY DEF Evidence
      <4>2. StatusAfter(e) = "absent" =>
               e.outcome # "attempted" /\ (e.outcome = "asserted_not_applied" \/ e.action = "revert")
        BY DEF StatusAfter
      <4>3. action = "revert" => outcome \in {"succeeded", "attempted"}
        BY <2>2, <4>1 DEF Decides
      <4>4. QED
        BY <4>1, <4>2, <4>3
    <3>4. StatusAfter(Evidence(r, action, outcome, m)) = "attempted" => outcome = "attempted"
      BY DEF StatusAfter, Evidence
    <3>5. QED
      BY <1>3, <2>2, <3>1, <3>2, <3>3, <3>4
  <2>3. CASE ~(m \in Ids(S) /\ Decides(Evidence(r, action, outcome, m)))
    <3>1. StatusOf(m)' = StatusOf(m) /\ LastDecision(m)' = LastDecision(m)
      BY <1>1, <2>3, LogTells DEF Told
    <3>2. Observed(m)' => Observed(m)
      BY <1>1, <2>3, ObservedAfter
    <3>3. effect'[m] = effect[m]
      BY <1>3, <2>3
    <3>4. QED
      BY <2>1, <3>1, <3>2, <3>3
  <2>4. QED
    BY <2>2, <2>3
<1>5. \A m \in Migrations :
        /\ StatusOf(m)' # "absent" => applied'[m] # NoDef \/ attempts'[m] # NoDef
        /\ attempts'[m] # NoDef => StatusOf(m)' = "attempted"
  BY DEF StatusOf
<1>6. EffectsAccountedFor'
  BY <1>4, <1>5 DEF EffectsAccountedFor
<1>7. DoubtIsUnobserved'
  BY <1>4, <1>5 DEF DoubtIsUnobserved
<1>8. QED
  BY <1>6, <1>7

\* A step that tells nothing does nothing to the schema but what an open attempt does.
LEMMA SilenceKeepsEffects ==
    ASSUME TypeOK, LockedPlansHold, EffectsHold, Silent, NEW r \in Runs,
           Open(r) \/ ClientStep(r) \/ ServerStep(r) \/ Disconnect(r)
    PROVE  EffectsAccountedFor' /\ DoubtIsUnobserved'
<1>1. \A m : (LastDecision(m)' = LastDecision(m)) /\ (Observed(m)' <=> Observed(m))
  BY SilenceTellsNothing
<1>2. applied' = applied /\ attempts' = attempts
  BY DEF Silent
<1>3. \A m \in Migrations : effect'[m] = effect[m] \/ attempts[m] # NoDef
  <2>1. CASE effect' = effect
    BY <2>1
  <2>2. ASSUME NEW d \in todo[r], pc[r] = "executing", IsNext(r, d),
               NEW left, effect' = [effect EXCEPT ![IdOf[d]] = left]
        PROVE  \A m \in Migrations : effect'[m] = effect[m] \/ attempts[m] # NoDef
    <3>1. d # NoDef /\ attempts[IdOf[d]] = d
      BY <2>2, CatalogAssumption DEF LockedPlansHold, RunInv, AttemptOpen, TypeOK
    <3>2. QED
      BY <2>2, <3>1 DEF TypeOK
  <2>3. CASE \E d \in todo[r] : StatementEnds(r, d)
    BY <2>2, <2>3 DEF StatementEnds
  <2>4. CASE OrphanExits(r)
    BY <2>1, <2>2, <2>4 DEF OrphanExits
  <2>5. CASE Plan(r)
    BY <2>1, <2>5, PlanHasShape DEF PlanShape
  <2>6. CASE BaselineCommits(r) \/ \E d \in todo[r] : MigrationStep(r, d)
    <3>1. Len(history) \in Nat /\ history \in Seq(SUBSET Event)
      BY DEF TypeOK
    <3>2. ASSUME NEW S, NEW action, NEW outcome, Log(r, action, outcome, S) PROVE FALSE
      <4>1. Len(history') = Len(history) + 1
        BY <3>1, <3>2 DEF Log
      <4>2. QED
        BY <3>1, <4>1 DEF Silent
    <3>3. ~BaselineCommits(r) /\ \A d \in todo[r] : ~DeployCommits(r, d) /\ ~RevertCommits(r, d)
      BY <3>2 DEF BaselineCommits, DeployCommits, RevertCommits
    <3>4. PICK d \in todo[r] : MigrationStep(r, d) /\ ~DeployCommits(r, d) /\ ~RevertCommits(r, d)
      BY <2>6, <3>3
    <3>5. effect' = effect
      BY <3>4 DEF MigrationStep, DeployFails, AttemptRecorded, AttemptRefused, FinishAttempt,
         FinishFails, RecordFailure, OutcomeUnknown, DeployAcknowledged, VerifyDeployed,
         RevertFails, ResolveCommits, VerifyNext, database
    <3>6. QED
      BY <2>1, <3>5
  <2>7. CASE \/ Open(r) \/ TryLock(r) \/ Poll(r) \/ PollExpires(r) \/ Refresh(r)
             \/ SendStatement(r) \/ AssertionFails(r) \/ Acknowledged(r) \/ Finish(r)
             \/ Release(r) \/ GrantQueued(r) \/ Disconnect(r)
    BY <2>1, <2>7 DEF Open, TryLock, Poll, PollExpires, Refresh, SendStatement, AssertionFails,
       Acknowledged, Finish, Release, GrantQueued, Disconnect, database
  <2>8. QED
    BY <2>3, <2>4, <2>5, <2>6, <2>7 DEF ClientStep, ServerStep
<1>4. QED
  BY <1>1, <1>2, <1>3 DEF EffectsHold, EffectsAccountedFor, DoubtIsUnobserved

\* The client that is answered has had its statement executed in full.
LEMMA StepAnswers ==
    ASSUME TypeOK, LockedPlansHold, AnswersAreFull, NEW r \in Runs,
           Open(r) \/ ClientStep(r) \/ ServerStep(r) \/ Disconnect(r)
    PROVE  AnswersAreFull'
<1>1. pc \in [Runs -> Outside \cup UnderLock] /\ effect \in [Migrations -> Effects]
  BY DEF TypeOK
<1>2. OthersStill(r)
  BY StepIsOneRuns
<1>3. ASSUME NEW q \in Runs \ {r} PROVE AnswerIsFull(q)'
  <2>1. pc'[q] = pc[q] /\ todo'[q] = todo[q]
    BY <1>2 DEF OthersStill
  <2>2. \A d \in todo[q] : IsNext(q, d)' <=> IsNext(q, d)
    BY <2>1 DEF IsNext
  <2>3. CASE pc[r] \in UnderLock
    <3>1. pc[q] \notin UnderLock
      BY <2>3 DEF LockedPlansHold, RunInv
    <3>2. QED
      BY <2>1, <3>1 DEF AnswerIsFull, UnderLock, InHand
  <2>4. CASE pc[r] \notin UnderLock
    <3>1. effect' = effect
      BY <2>4, OutsideTouchesNothing
    <3>2. QED
      BY <2>1, <2>2, <3>1 DEF AnswersAreFull, AnswerIsFull
  <2>5. QED
    BY <2>3, <2>4
<1>4. AnswerIsFull(r)'
  <2>1. CASE pc'[r] # "answered"
    BY <2>1 DEF AnswerIsFull
  <2>2. ASSUME NEW d \in todo[r], StatementEnds(r, d), pc'[r] = "answered"
        PROVE  AnswerIsFull(r)'
    <3>1. IsNext(r, d) /\ pc[r] = "executing" /\ todo' = todo
      BY <2>2 DEF StatementEnds
    <3>2. effect' = [effect EXCEPT ![IdOf[d]] = "full"]
      BY <1>1, <2>2 DEF StatementEnds
    <3>3. todo[r] = Lacking(r)
      BY <3>1 DEF LockedPlansHold, RunInv, AttemptOpen
    <3>4. \A e \in todo[r] : IsNext(r, e) => e = d
      BY <3>1, <3>3, NextIsReady
    <3>5. \A e \in todo[r] : IsNext(r, e)' => IsNext(r, e)
      BY <3>1 DEF IsNext
    <3>6. IdOf[d] \in Migrations
      BY CatalogAssumption DEF TypeOK
    <3>7. QED
      BY <1>1, <3>1, <3>2, <3>4, <3>5, <3>6 DEF AnswerIsFull
  <2>3. CASE Disconnect(r)
    <3>1. UNCHANGED <<effect, pc, todo>>
      BY <2>3 DEF Disconnect, database
    <3>2. \A d \in todo[r] : IsNext(r, d)' <=> IsNext(r, d)
      BY <3>1 DEF IsNext
    <3>3. QED
      BY <3>1, <3>2 DEF AnswersAreFull, AnswerIsFull
  <2>4. CASE \/ Open(r) \/ TryLock(r) \/ Poll(r) \/ PollExpires(r) \/ Refresh(r)
             \/ SendStatement(r) \/ BaselineCommits(r) \/ AssertionFails(r) \/ Acknowledged(r)
             \/ Finish(r) \/ Release(r) \/ GrantQueued(r) \/ OrphanExits(r)
    <3>1. pc'[r] # "answered"
      BY <1>1, <2>4 DEF Open, TryLock, Poll, PollExpires, Refresh, SendStatement, BaselineCommits,
         AssertionFails, Acknowledged, Finish, Release, GrantQueued, OrphanExits, Move
    <3>2. QED
      BY <2>1, <3>1
  <2>5. CASE Plan(r)
    <3>1. pc'[r] # "answered"
      BY <1>1, <2>5, PlanHasShape DEF PlanShape, Refuse, Select, Move
    <3>2. QED
      BY <2>1, <3>1
  <2>6. ASSUME NEW d \in todo[r], MigrationStep(r, d) PROVE AnswerIsFull(r)'
    <3>1. pc'[r] # "answered"
      BY <1>1, <2>6 DEF MigrationStep, DeployCommits, DeployFails, AttemptRecorded, AttemptRefused,
         FinishAttempt, FinishFails, RecordFailure, OutcomeUnknown, DeployAcknowledged,
         VerifyDeployed, RevertCommits, RevertFails, ResolveCommits, VerifyNext, Move
    <3>2. QED
      BY <2>1, <3>1
  <2>7. QED
    BY <2>1, <2>2, <2>3, <2>4, <2>5, <2>6 DEF ClientStep, ServerStep
<1>5. QED
  BY <1>3, <1>4 DEF AnswersAreFull

\* Whatever the project's statements have left in the schema is applied, in
\* doubt, or denied by an operator, and a success on the record is a real one.
THEOREM EffectsAreAccountedFor == Spec => []EffectsAccountedFor
<1>1. Init => EffectsHold
  <2> SUFFICES ASSUME Init PROVE EffectsHold
    OBVIOUS
  <2>1. \A m \in Migrations : ~Observed(m)
    BY DEF Init, Observed
  <2>2. QED
    BY <2>1 DEF Init, EffectsHold, EffectsAccountedFor, DoubtIsUnobserved, AnswersAreFull, AnswerIsFull
<1>2. TypeOK /\ LockedPlansHold /\ EffectsHold /\ [Next]_vars => EffectsHold'
  <2> SUFFICES ASSUME TypeOK, LockedPlansHold, EffectsHold, [Next]_vars
               PROVE  EffectsHold'
    OBVIOUS
  <2>1. CASE UNCHANGED vars
    <3>1. UNCHANGED <<history, applied, attempts, effect, pc, todo>>
      BY <2>1 DEF vars, database
    <3>2. \A m : (LastDecision(m)' = LastDecision(m)) /\ (Observed(m)' <=> Observed(m))
      BY <3>1, SilenceTellsNothing DEF Silent
    <3>3. \A r \in Runs : \A d \in todo[r] : IsNext(r, d)' <=> IsNext(r, d)
      BY <3>1 DEF IsNext
    <3>4. QED
      BY <3>1, <3>2, <3>3
      DEF EffectsHold, EffectsAccountedFor, DoubtIsUnobserved, AnswersAreFull, AnswerIsFull
  <2>2. ASSUME NEW r \in Runs, Open(r) \/ ClientStep(r) \/ ServerStep(r) \/ Disconnect(r)
        PROVE  EffectsHold'
    <3>1. AnswersAreFull'
      BY <2>2, StepAnswers DEF EffectsHold
    <3>2. EffectsAccountedFor' /\ DoubtIsUnobserved'
      BY <2>2, StepTells, TellingKeepsEffects, SilenceKeepsEffects
    <3>3. QED
      BY <3>1, <3>2 DEF EffectsHold
  <2>3. QED
    BY <2>1, <2>2 DEF Next
<1>3. EffectsHold => EffectsAccountedFor
  BY DEF EffectsHold
<1>4. QED
  BY <1>1, <1>2, <1>3, TypeCorrect, PlansHold, PTL DEF Spec

-----------------------------------------------------------------------------
(***************************************************************************)
(* What a deploy reports is what it wrote.                                 *)
(***************************************************************************)
\* Run r wrote, of migration m, a deploy event with one of these outcomes.
Wrote(r, m, outcomes) ==
    \E i \in DOMAIN history : \E e \in history[i] :
        e.run = r /\ e.id = m /\ e.action = "deploy" /\ e.outcome \in outcomes

\* What r's deploy selected when it planned.
Selected(r) == Pending(CheckoutOf[r], snap[r])

\* Before it has planned, a run has written and reported nothing.
Unplanned == {"idle", "opened", "polling", "queued", "locked", "refreshed"}
NothingYet(r) ==
    pc[r] \in Unplanned =>
        \A m \in Migrations : report[r][m] = "unreported" /\ ~Wrote(r, m, Outcomes)

\* A deploy in progress has reported exactly what it has finished, and has
\* written nothing of what it has not begun.
Progress(r) ==
    /\ todo[r] \subseteq Selected(r)
    /\ \A m \in Migrations : m \notin Ids(Selected(r)) => report[r][m] = "unreported"
    /\ \A d \in Selected(r) \ todo[r] :
          report[r][IdOf[d]] = "succeeded" /\ Wrote(r, IdOf[d], {"succeeded"})
    /\ \A d \in todo[r] :
          /\ ~IsNext(r, d) \/ pc[r] = "working" => ~Wrote(r, IdOf[d], Outcomes)
          /\ IsNext(r, d) /\ pc[r] \in {"committed", "verifying"} => Wrote(r, IdOf[d], {"succeeded"})
          /\ report[r][IdOf[d]] =
                IF IsNext(r, d) /\ pc[r] = "verifying" THEN "succeeded" ELSE "unreported"

\* What ReportAccountsForAll asks of one deploy.
Accounted(r) ==
    LET told == {m \in Migrations : report[r][m] # "unreported"}
    IN  /\ told = {} \/ told = Ids(Selected(r))
        /\ \A m \in told :
              /\ report[r][m] = "succeeded" => Wrote(r, m, {"succeeded"})
              /\ report[r][m] = "skipped" => ~Wrote(r, m, Outcomes)

ReportSound(r) ==
    /\ NothingYet(r)
    /\ cmd[r] = "deploy" /\ session[r] = "live" /\ pc[r] \in InHand \cup {"verifying"} => Progress(r)
    /\ cmd[r] = "deploy" /\ (pc[r] \in {"releasing", "done"} \/ session[r] = "orphan") => Accounted(r)

ReportsSound == \A r \in Runs : ReportSound(r)

\* A step writes, of the migrations of run r, only of n.
WritesOnlyOf(r, n) ==
    \A m \in Migrations : \A outcomes \in SUBSET Outcomes :
        /\ Wrote(r, m, outcomes) => Wrote(r, m, outcomes)'
        /\ m # n => (Wrote(r, m, outcomes)' => Wrote(r, m, outcomes))

\* A batch adds its own events to what its run wrote, and nothing to what others wrote.
LEMMA WroteAfter ==
    ASSUME history \in Seq(SUBSET Event), NEW r \in Runs, NEW S \in SUBSET Definitions,
           NEW action \in AllCommands, NEW outcome \in Outcomes,
           Log(r, action, outcome, S), NEW q, NEW m, NEW outcomes
    PROVE  Wrote(q, m, outcomes)' <=>
              \/ Wrote(q, m, outcomes)
              \/ q = r /\ m \in Ids(S) /\ action = "deploy" /\ outcome \in outcomes
<1> DEFINE batch == history'[Len(history')]
<1> DEFINE New == q = r /\ m \in Ids(S) /\ action = "deploy" /\ outcome \in outcomes
<1> DEFINE Fits(e) == e.run = q /\ e.id = m /\ e.action = "deploy" /\ e.outcome \in outcomes
<1>1. /\ Extended(history, history'[Len(history')], history')
      /\ history' \in Seq(SUBSET Event)
      /\ BatchOf(history'[Len(history')], r, action, outcome, S)
  BY LogWrites
<1>2. /\ Len(history) \in Nat /\ Len(history') = Len(history) + 1
      /\ DOMAIN history = 1 .. Len(history) /\ DOMAIN history' = 1 .. Len(history')
      /\ \A i \in 1 .. Len(history) : history'[i] = history[i]
  BY <1>1 DEF Extended
<1>3. (\E e \in batch : Fits(e)) <=> New
  <2>1. \A n : /\ Evidence(r, action, outcome, n).run = r
               /\ Evidence(r, action, outcome, n).id = n
               /\ Evidence(r, action, outcome, n).action = action
               /\ Evidence(r, action, outcome, n).outcome = outcome
    BY DEF Evidence
  <2>2. New => Evidence(r, action, outcome, m) \in batch /\ Fits(Evidence(r, action, outcome, m))
    BY <1>1, <2>1 DEF BatchOf
  <2>3. ASSUME NEW e \in batch, Fits(e) PROVE New
    <3>1. PICK n \in Ids(S) : e = Evidence(r, action, outcome, n)
      BY <1>1 DEF BatchOf
    <3>2. QED
      BY <2>1, <2>3, <3>1
  <2>4. QED
    BY <2>2, <2>3
<1>4. Wrote(q, m, outcomes) <=> \E i \in 1 .. Len(history) : \E e \in history[i] : Fits(e)
  BY <1>2 DEF Wrote
<1>5. Wrote(q, m, outcomes)' <=> \E i \in 1 .. Len(history') : \E e \in history'[i] : Fits(e)
  BY <1>2 DEF Wrote
<1> HIDE DEF Fits, New
<1>6. (\E i \in 1 .. Len(history') : \E e \in history'[i] : Fits(e)) <=>
         \/ \E i \in 1 .. Len(history) : \E e \in history[i] : Fits(e)
         \/ \E e \in batch : Fits(e)
  <2>1. \A i : i \in 1 .. Len(history') <=> i \in 1 .. Len(history) \/ i = Len(history')
    BY <1>2
  <2>2. QED
    BY <1>2, <2>1
<1>7. QED
  BY <1>3, <1>4, <1>5, <1>6 DEF New

\* A history that does not change has been written by the same runs.
LEMMA WroteStill ==
    ASSUME history' = history
    PROVE  \A q, m, outcomes : Wrote(q, m, outcomes)' <=> Wrote(q, m, outcomes)
BY DEF Wrote

\* A step that writes of one definition, or of none.
LEMMA WritesOfOne ==
    ASSUME TypeOK, NEW r \in Runs, NEW d \in Definitions,
           NEW action \in AllCommands, NEW outcome \in Outcomes,
           Log(r, action, outcome, {d}) \/ history' = history
    PROVE  /\ WritesOnlyOf(r, IdOf[d])
           /\ Log(r, action, outcome, {d}) /\ action = "deploy" /\ outcome = "succeeded" =>
                 Wrote(r, IdOf[d], {"succeeded"})'
<1>1. history \in Seq(SUBSET Event) /\ {d} \in SUBSET Definitions /\ Ids({d}) = {IdOf[d]}
  BY DEF TypeOK, Ids
<1>2. ASSUME history' = history PROVE WritesOnlyOf(r, IdOf[d])
  BY <1>2, WroteStill DEF WritesOnlyOf
<1>3. ASSUME Log(r, action, outcome, {d}), NEW m, NEW outcomes
      PROVE  Wrote(r, m, outcomes)' <=>
                \/ Wrote(r, m, outcomes)
                \/ m = IdOf[d] /\ action = "deploy" /\ outcome \in outcomes
  <2>1. Wrote(r, m, outcomes)' <=>
           \/ Wrote(r, m, outcomes)
           \/ r = r /\ m \in Ids({d}) /\ action = "deploy" /\ outcome \in outcomes
    BY <1>1, <1>3, WroteAfter
  <2>2. QED
    BY <1>1, <2>1
<1>4. ASSUME Log(r, action, outcome, {d}) PROVE WritesOnlyOf(r, IdOf[d])
  BY <1>3, <1>4 DEF WritesOnlyOf
<1>5. Log(r, action, outcome, {d}) /\ action = "deploy" /\ outcome = "succeeded" =>
         Wrote(r, IdOf[d], {"succeeded"})'
  BY <1>3
<1>6. QED
  BY <1>2, <1>4, <1>5

\* The list of a deploy in progress: one definition per id, and one that is next.
LEMMA ListOfSelected ==
    ASSUME NEW r \in Runs, Progress(r)
    PROVE  /\ Selected(r) \subseteq Definitions
           /\ \A d \in Selected(r) : IdOf[d] \in Migrations
           /\ \A d, e \in Selected(r) : IdOf[d] = IdOf[e] => d = e
           /\ \A d, e \in todo[r] : IsNext(r, d) /\ IsNext(r, e) => d = e
<1> DEFINE c == CheckoutOf[r]
<1>1. /\ c \in Checkouts /\ GraphOf[c] \subseteq Definitions /\ Rank[c] \in [Migrations -> Nat]
      /\ \A d, e \in GraphOf[c] : /\ IdOf[d] = IdOf[e] => d = e
                                  /\ Rank[c][IdOf[d]] = Rank[c][IdOf[e]] => d = e
  BY GraphAssumption
<1>2. Selected(r) \subseteq GraphOf[c] /\ todo[r] \subseteq Selected(r)
  BY DEF Selected, Pending, Progress
<1>3. \A d \in Selected(r) : IdOf[d] \in Migrations
  BY <1>1, <1>2, CatalogAssumption
<1>4. ASSUME NEW d \in todo[r], NEW e \in todo[r], IsNext(r, d), IsNext(r, e) PROVE d = e
  <2>1. Rank[c][IdOf[d]] <= Rank[c][IdOf[e]] /\ Rank[c][IdOf[e]] <= Rank[c][IdOf[d]]
    BY <1>4 DEF IsNext
  <2>2. Rank[c][IdOf[d]] \in Nat /\ Rank[c][IdOf[e]] \in Nat
    BY <1>1, <1>2, <1>3
  <2>3. QED
    BY <1>1, <1>2, <2>1, <2>2
<1>5. QED
  BY <1>1, <1>2, <1>3, <1>4

\* The migration in hand is worked on, and the others wait.
LEMMA ProgressKept ==
    ASSUME NEW r \in Runs, Progress(r), NEW d \in todo[r], IsNext(r, d),
           todo'[r] = todo[r], snap'[r] = snap[r], WritesOnlyOf(r, IdOf[d]),
           \A m \in Migrations : m # IdOf[d] => report'[r][m] = report[r][m],
           report'[r][IdOf[d]] = IF pc'[r] = "verifying" THEN "succeeded" ELSE "unreported",
           pc'[r] # "working",
           pc'[r] \in {"committed", "verifying"} => Wrote(r, IdOf[d], {"succeeded"})'
    PROVE  Progress(r)'
<1>1. /\ todo[r] \subseteq Selected(r)
      /\ \A e \in Selected(r) : IdOf[e] \in Migrations
      /\ \A e, f \in Selected(r) : IdOf[e] = IdOf[f] => e = f
      /\ \A e \in todo[r] : IsNext(r, e) => e = d
  BY ListOfSelected DEF Progress
<1>2. Selected(r)' = Selected(r) /\ Ids(Selected(r))' = Ids(Selected(r))
  BY DEF Selected, Pending, Ids
<1>3. \A e \in todo[r] : IsNext(r, e)' <=> IsNext(r, e)
  BY DEF IsNext
<1>4. \A e \in Selected(r) \ {d} :
        /\ report'[r][IdOf[e]] = report[r][IdOf[e]]
        /\ Wrote(r, IdOf[e], {"succeeded"})' <=> Wrote(r, IdOf[e], {"succeeded"})
        /\ Wrote(r, IdOf[e], Outcomes)' <=> Wrote(r, IdOf[e], Outcomes)
  <2>1. {"succeeded"} \in SUBSET Outcomes /\ Outcomes \in SUBSET Outcomes
    BY DEF Outcomes
  <2>2. \A e \in Selected(r) \ {d} : IdOf[e] \in Migrations /\ IdOf[e] # IdOf[d]
    BY <1>1
  <2>3. QED
    BY <2>1, <2>2 DEF WritesOnlyOf
<1>5. \A m \in Migrations : m \notin Ids(Selected(r)) => report'[r][m] = "unreported"
  <2>1. IdOf[d] \in Ids(Selected(r))
    BY <1>1 DEF Ids
  <2>2. QED
    BY <2>1 DEF Progress
<1>6. \A e \in Selected(r) \ todo[r] :
         report'[r][IdOf[e]] = "succeeded" /\ Wrote(r, IdOf[e], {"succeeded"})'
  BY <1>4 DEF Progress
<1>7. ASSUME NEW e \in todo[r], ~IsNext(r, e)
      PROVE  ~Wrote(r, IdOf[e], Outcomes)' /\ report'[r][IdOf[e]] = "unreported"
  <2>1. e \in Selected(r) \ {d}
    BY <1>1, <1>7
  <2>2. ~Wrote(r, IdOf[e], Outcomes) /\ report[r][IdOf[e]] = "unreported"
    BY <1>7 DEF Progress
  <2>3. QED
    BY <1>4, <2>1, <2>2
<1>8. QED
  BY <1>1, <1>2, <1>3, <1>5, <1>6, <1>7 DEF Progress

\* The migration in hand is done, and the next one comes up.
LEMMA ProgressOn ==
    ASSUME NEW r \in Runs, Progress(r), NEW d \in todo[r], IsNext(r, d),
           todo'[r] = todo[r] \ {d}, snap'[r] = snap[r], WritesOnlyOf(r, IdOf[d]),
           \A m \in Migrations : m # IdOf[d] => report'[r][m] = report[r][m],
           report'[r][IdOf[d]] = "succeeded", Wrote(r, IdOf[d], {"succeeded"}),
           pc'[r] = "working"
    PROVE  Progress(r)'
<1>1. /\ todo[r] \subseteq Selected(r)
      /\ \A e \in Selected(r) : IdOf[e] \in Migrations
      /\ \A e, f \in Selected(r) : IdOf[e] = IdOf[f] => e = f
      /\ \A e \in todo[r] : IsNext(r, e) => e = d
  BY ListOfSelected DEF Progress
<1>2. Selected(r)' = Selected(r) /\ Ids(Selected(r))' = Ids(Selected(r))
  BY DEF Selected, Pending, Ids
<1>3. \A e \in Selected(r) \ {d} :
        /\ report'[r][IdOf[e]] = report[r][IdOf[e]]
        /\ Wrote(r, IdOf[e], {"succeeded"}) => Wrote(r, IdOf[e], {"succeeded"})'
        /\ Wrote(r, IdOf[e], Outcomes)' <=> Wrote(r, IdOf[e], Outcomes)
  <2>1. {"succeeded"} \in SUBSET Outcomes /\ Outcomes \in SUBSET Outcomes
    BY DEF Outcomes
  <2>2. \A e \in Selected(r) \ {d} : IdOf[e] \in Migrations /\ IdOf[e] # IdOf[d]
    BY <1>1
  <2>3. QED
    BY <2>1, <2>2 DEF WritesOnlyOf
<1>4. report'[r][IdOf[d]] = "succeeded" /\ Wrote(r, IdOf[d], {"succeeded"})'
  <2>1. {"succeeded"} \in SUBSET Outcomes /\ IdOf[d] \in Migrations
    BY <1>1 DEF Outcomes
  <2>2. QED
    BY <2>1 DEF WritesOnlyOf
<1>5. \A m \in Migrations : m \notin Ids(Selected(r)) => report'[r][m] = "unreported"
  <2>1. IdOf[d] \in Ids(Selected(r))
    BY <1>1 DEF Ids
  <2>2. QED
    BY <2>1 DEF Progress
<1>6. \A e \in Selected(r) \ todo'[r] :
         report'[r][IdOf[e]] = "succeeded" /\ Wrote(r, IdOf[e], {"succeeded"})'
  BY <1>3, <1>4 DEF Progress
<1>7. ASSUME NEW e \in todo'[r]
      PROVE  ~Wrote(r, IdOf[e], Outcomes)' /\ report'[r][IdOf[e]] = "unreported"
  <2>1. e \in todo[r] /\ ~IsNext(r, e) /\ e \in Selected(r) \ {d}
    BY <1>1
  <2>2. ~Wrote(r, IdOf[e], Outcomes) /\ report[r][IdOf[e]] = "unreported"
    BY <2>1 DEF Progress
  <2>3. QED
    BY <1>3, <2>1, <2>2
<1>8. QED
  BY <1>1, <1>2, <1>5, <1>6, <1>7 DEF Progress

\* A run that stops at the migration in hand accounts for all it selected.
LEMMA StoppedAccounts ==
    ASSUME TypeOK, NEW r \in Runs, Progress(r), NEW d \in todo[r], IsNext(r, d),
           snap'[r] = snap[r], WritesOnlyOf(r, IdOf[d]),
           NEW result \in {"succeeded", "failed"}, report'[r] = Stopped(r, d, result),
           result = "succeeded" => Wrote(r, IdOf[d], {"succeeded"})
    PROVE  Accounted(r)'
<1>1. /\ todo[r] \subseteq Selected(r)
      /\ \A e \in Selected(r) : IdOf[e] \in Migrations
      /\ \A e, f \in Selected(r) : IdOf[e] = IdOf[f] => e = f
      /\ \A e \in todo[r] : IsNext(r, e) => e = d
  BY ListOfSelected DEF Progress
<1>2. Ids(Selected(r))' = Ids(Selected(r))
  BY DEF Selected, Pending, Ids
<1>3. {"succeeded"} \in SUBSET Outcomes /\ Outcomes \in SUBSET Outcomes
  BY DEF Outcomes
<1>4. report'[r][IdOf[d]] = result
  BY <1>1 DEF Stopped
<1>5. \A e \in todo[r] \ {d} : IdOf[e] # IdOf[d] /\ report'[r][IdOf[e]] = "skipped"
  BY <1>1 DEF Stopped
<1>6. ASSUME NEW e \in Selected(r) \ todo[r]
      PROVE  report'[r][IdOf[e]] = "succeeded" /\ Wrote(r, IdOf[e], {"succeeded"})'
  <2>1. \A f \in todo[r] : IdOf[f] # IdOf[e]
    BY <1>1
  <2>2. report'[r][IdOf[e]] = report[r][IdOf[e]]
    BY <1>1, <2>1 DEF Stopped
  <2>3. QED
    BY <1>1, <1>3, <2>2 DEF Progress, WritesOnlyOf
<1>7. ASSUME NEW m \in Migrations, m \notin Ids(Selected(r))
      PROVE  report'[r][m] = "unreported"
  <2>1. \A e \in todo[r] : IdOf[e] # m
    BY <1>1, <1>7 DEF Ids
  <2>2. QED
    BY <1>7, <2>1 DEF Stopped, Progress
<1>8. \A m \in Ids(Selected(r)) : m \in Migrations /\ report'[r][m] # "unreported"
  BY <1>1, <1>4, <1>5, <1>6 DEF Ids
<1>9. ASSUME NEW e \in Selected(r)
      PROVE  /\ report'[r][IdOf[e]] = "succeeded" => Wrote(r, IdOf[e], {"succeeded"})'
             /\ report'[r][IdOf[e]] = "skipped" => ~Wrote(r, IdOf[e], Outcomes)'
  <2>1. CASE e = d
    BY <1>1, <1>3, <1>4, <2>1 DEF WritesOnlyOf
  <2>2. CASE e \in todo[r] \ {d}
    <3>1. ~IsNext(r, e) /\ IdOf[e] # IdOf[d] /\ IdOf[e] \in Migrations
      BY <1>1, <1>5, <2>2
    <3>2. ~Wrote(r, IdOf[e], Outcomes)
      BY <2>2, <3>1 DEF Progress
    <3>3. QED
      BY <1>3, <1>5, <2>2, <3>1, <3>2 DEF WritesOnlyOf
  <2>3. CASE e \in Selected(r) \ todo[r]
    BY <1>6, <2>3
  <2>4. QED
    BY <2>1, <2>2, <2>3
<1>10. {m \in Migrations : report'[r][m] # "unreported"} = Ids(Selected(r))
  BY <1>7, <1>8
<1>11. \A m \in Ids(Selected(r)) : \E e \in Selected(r) : m = IdOf[e]
  BY DEF Ids
<1>12. QED
  BY <1>2, <1>9, <1>10, <1>11 DEF Accounted

\* A run with nothing left to do has accounted for all it selected.
LEMMA FinishedAccounts ==
    ASSUME NEW r \in Runs, Progress(r), todo[r] = {},
           snap'[r] = snap[r], report'[r] = report[r], history' = history
    PROVE  Accounted(r)'
<1>1. \A e \in Selected(r) : IdOf[e] \in Migrations
  BY ListOfSelected
<1>2. Ids(Selected(r))' = Ids(Selected(r))
  BY DEF Selected, Pending, Ids
<1>3. \A e \in Selected(r) : report'[r][IdOf[e]] = "succeeded" /\ Wrote(r, IdOf[e], {"succeeded"})'
  BY WroteStill DEF Progress
<1>4. \A m \in Ids(Selected(r)) :
         m \in Migrations /\ report'[r][m] = "succeeded" /\ Wrote(r, m, {"succeeded"})'
  BY <1>1, <1>3 DEF Ids
<1>5. {m \in Migrations : report'[r][m] # "unreported"} = Ids(Selected(r))
  BY <1>4 DEF Progress
<1>6. QED
  BY <1>2, <1>4, <1>5 DEF Accounted

\* A run that has reported nothing has nothing to account for.
LEMMA NothingAccounts ==
    ASSUME NEW r \in Runs, \A m \in Migrations : report[r][m] = "unreported"
    PROVE  Accounted(r)
BY DEF Accounted

\* A step is reported by the run that takes it, and ends no other session.
LEMMA OthersReportsStand ==
    ASSUME TypeOK, NEW r \in Runs,
           Open(r) \/ ClientStep(r) \/ ServerStep(r) \/ Disconnect(r)
    PROVE  \A q \in Runs \ {r} : report'[q] = report[q] /\ session'[q] = session[q]
<1> USE DEF sessions
<1> DEFINE Kept == \A q \in Runs \ {r} : report'[q] = report[q] /\ session'[q] = session[q]
<1>1. ASSUME \/ report' = report
             \/ \E new : report' = [report EXCEPT ![r] = new],
             \/ session' = session
             \/ \E new : session' = [session EXCEPT ![r] = new]
      PROVE  Kept
  BY <1>1 DEF TypeOK
<1>2. CASE \/ Open(r) \/ TryLock(r) \/ Poll(r) \/ PollExpires(r) \/ Refresh(r)
           \/ SendStatement(r) \/ BaselineCommits(r) \/ AssertionFails(r) \/ Finish(r)
           \/ Release(r) \/ GrantQueued(r) \/ OrphanExits(r) \/ (\E d \in todo[r] : StatementEnds(r, d))
  <2>1. report' = report
    BY <1>2 DEF Open, TryLock, Poll, PollExpires, Refresh, SendStatement, BaselineCommits,
       AssertionFails, Finish, Release, GrantQueued, OrphanExits, StatementEnds
  <2>2. \/ session' = session
        \/ \E new : session' = [session EXCEPT ![r] = new]
    BY <1>2 DEF Open, TryLock, Poll, PollExpires, Refresh, SendStatement, BaselineCommits,
       AssertionFails, Finish, Release, GrantQueued, OrphanExits, StatementEnds
  <2>3. QED
    BY <1>1, <2>1, <2>2
<1>3. CASE Plan(r)
  BY <1>1, <1>3, PlanHasShape DEF PlanShape
<1>4. CASE Acknowledged(r)
  BY <1>1, <1>4 DEF Acknowledged
<1>5. CASE Disconnect(r)
  BY <1>1, <1>5 DEF Disconnect, ReportOnLoss
<1>6. ASSUME NEW d \in todo[r], MigrationStep(r, d) PROVE Kept
  <2>1. session' = session
    BY <1>6 DEF MigrationStep, DeployCommits, DeployFails, AttemptRecorded, AttemptRefused,
       FinishAttempt, FinishFails, RecordFailure, OutcomeUnknown, DeployAcknowledged,
       VerifyDeployed, RevertCommits, RevertFails, ResolveCommits, VerifyNext
  <2>2. \/ report' = report
        \/ \E new : report' = [report EXCEPT ![r] = new]
    BY <1>6 DEF MigrationStep, DeployCommits, DeployFails, AttemptRecorded, AttemptRefused,
       FinishAttempt, FinishFails, RecordFailure, OutcomeUnknown, DeployAcknowledged,
       VerifyDeployed, RevertCommits, RevertFails, ResolveCommits, VerifyNext
  <2>3. QED
    BY <1>1, <2>1, <2>2
<1>7. QED
  BY <1>2, <1>3, <1>4, <1>5, <1>6 DEF ClientStep, ServerStep

\* What a run reports stays sound while others step.
LEMMA OthersReportsSound ==
    ASSUME TypeOK, LockedPlansHold, ReportsSound, NEW r \in Runs,
           Open(r) \/ ClientStep(r) \/ ServerStep(r) \/ Disconnect(r),
           NEW q \in Runs \ {r}
    PROVE  ReportSound(q)'
<1>1. pc'[q] = pc[q] /\ cmd'[q] = cmd[q] /\ snap'[q] = snap[q] /\ todo'[q] = todo[q]
  BY StepIsOneRuns DEF OthersStill
<1>2. report'[q] = report[q] /\ session'[q] = session[q]
  BY OthersReportsStand
<1>3. \A m, outcomes : Wrote(q, m, outcomes)' <=> Wrote(q, m, outcomes)
  <2>1. CASE Silent
    BY <2>1, WroteStill DEF Silent
  <2>2. ASSUME NEW S \in SUBSET Definitions, NEW action \in AllCommands, NEW outcome \in Outcomes,
               Told(r, action, outcome, S), NEW m, NEW outcomes
        PROVE  Wrote(q, m, outcomes)' <=> Wrote(q, m, outcomes)
    <3>1. Log(r, action, outcome, S) /\ history \in Seq(SUBSET Event)
      BY <2>2 DEF Told, TypeOK
    <3>2. Wrote(q, m, outcomes)' <=>
             \/ Wrote(q, m, outcomes)
             \/ q = r /\ m \in Ids(S) /\ action = "deploy" /\ outcome \in outcomes
      BY <3>1, WroteAfter
    <3>3. QED
      BY <3>2
  <2>3. QED
    BY <2>1, <2>2, StepTells
<1>4. \A d : IsNext(q, d)' <=> IsNext(q, d)
  BY <1>1 DEF IsNext
<1>5. Selected(q)' = Selected(q) /\ Ids(Selected(q))' = Ids(Selected(q))
  BY <1>1 DEF Selected, Pending, Ids
<1>6. NothingYet(q) => NothingYet(q)'
  BY <1>1, <1>2, <1>3 DEF NothingYet
<1>7. Progress(q) => Progress(q)'
  BY <1>1, <1>2, <1>3, <1>4, <1>5 DEF Progress
<1>8. Accounted(q) => Accounted(q)'
  BY <1>2, <1>3, <1>5 DEF Accounted
<1>9. QED
  BY <1>1, <1>2, <1>6, <1>7, <1>8 DEF ReportsSound, ReportSound

\* Each step of one migration reports what it writes.
LEMMA MigrationStepReports ==
    ASSUME TypeOK, LockedPlansHold, NEW r \in Runs, ReportSound(r),
           NEW d \in todo[r], MigrationStep(r, d)
    PROVE  ReportSound(r)'
<1> USE DEF Move, sessions, database
<1>1. RunInv(r) /\ d \in Definitions /\ IdOf[d] \in Migrations
  BY CatalogAssumption DEF LockedPlansHold, TypeOK
<1>2. /\ pc \in [Runs -> Outside \cup UnderLock] /\ todo \in [Runs -> SUBSET Definitions]
      /\ report \in [Runs -> [Migrations -> Results]]
  BY DEF TypeOK
<1>3. {"deploy", "verify"} \subseteq AllCommands /\ {"succeeded", "failed", "attempted", "unknown"} \subseteq Outcomes
  BY DEF AllCommands, Outcomes
<1>4. ASSUME pc'[r] \in InHand \cup {"verifying"}, session'[r] = "live", Progress(r)'
      PROVE  ReportSound(r)'
  BY <1>4 DEF ReportSound, NothingYet, Unplanned, InHand
<1>5. ASSUME pc'[r] = "releasing", session'[r] = "live", Accounted(r)'
      PROVE  ReportSound(r)'
  BY <1>5 DEF ReportSound, NothingYet, Unplanned, InHand
<1>6. CASE RevertCommits(r, d) \/ RevertFails(r, d) \/ ResolveCommits(r, d) \/ VerifyNext(r, d)
  <2>1. cmd'[r] # "deploy" /\ pc'[r] \in {"committed", "releasing", "working"}
    BY <1>2, <1>6 DEF RevertCommits, RevertFails, ResolveCommits, VerifyNext
  <2>2. QED
    BY <2>1 DEF ReportSound, NothingYet, Unplanned
<1>7. ASSUME cmd[r] = "deploy", session[r] = "live", pc[r] \in InHand \cup {"verifying"}
      PROVE  Progress(r)
  BY <1>7 DEF ReportSound
<1>8. CASE DeployCommits(r, d) \/ FinishAttempt(r, d)
  <2>1. /\ IsNext(r, d) /\ pc[r] \in {"working", "answered"} /\ session[r] = "live"
        /\ cmd[r] = "deploy" /\ Log(r, "deploy", "succeeded", {d})
        /\ pc'[r] = "committed" /\ UNCHANGED <<session, todo, snap, report>>
    BY <1>1, <1>2, <1>8 DEF DeployCommits, FinishAttempt, RunInv, AttemptOpen
  <2>2. Progress(r)
    BY <1>7, <2>1 DEF InHand
  <2>3. WritesOnlyOf(r, IdOf[d]) /\ Wrote(r, IdOf[d], {"succeeded"})'
    BY <1>1, <1>3, <2>1, WritesOfOne
  <2>4. report[r][IdOf[d]] = "unreported"
    BY <2>1, <2>2 DEF Progress
  <2>5. Progress(r)'
    BY <2>1, <2>2, <2>3, <2>4, ProgressKept
  <2>6. QED
    BY <1>4, <2>1, <2>5 DEF InHand
<1>9. CASE AttemptRecorded(r, d)
  <2>1. /\ IsNext(r, d) /\ pc[r] = "working" /\ session[r] = "live"
        /\ cmd[r] = "deploy" /\ Log(r, "deploy", "attempted", {d})
        /\ pc'[r] = "attempted" /\ UNCHANGED <<session, todo, snap, report>>
    BY <1>2, <1>9 DEF AttemptRecorded
  <2>2. Progress(r)
    BY <1>7, <2>1 DEF InHand
  <2>3. WritesOnlyOf(r, IdOf[d])
    BY <1>1, <1>3, <2>1, WritesOfOne
  <2>4. report[r][IdOf[d]] = "unreported"
    BY <2>1, <2>2 DEF Progress
  <2>5. Progress(r)'
    BY <2>1, <2>2, <2>3, <2>4, ProgressKept
  <2>6. QED
    BY <1>4, <2>1, <2>5 DEF InHand
<1>10. CASE DeployFails(r, d) \/ AttemptRefused(r, d) \/ FinishFails(r, d)
            \/ RecordFailure(r, d) \/ OutcomeUnknown(r, d)
  <2>1. /\ IsNext(r, d) /\ pc[r] \in InHand /\ session[r] = "live" /\ cmd[r] = "deploy"
        /\ pc'[r] = "releasing" /\ UNCHANGED <<session, snap>>
        /\ report'[r] = Stopped(r, d, "failed")
    BY <1>1, <1>2, <1>10 DEF DeployFails, AttemptRefused, FinishFails, RecordFailure,
       OutcomeUnknown, RunInv, AttemptOpen, InHand
  <2>2. \/ Log(r, "deploy", "failed", {d}) \/ history' = history
        \/ Log(r, "deploy", "unknown", {d})
    BY <1>10 DEF DeployFails, AttemptRefused, FinishFails, RecordFailure, OutcomeUnknown, LogBestEffort
  <2>3. WritesOnlyOf(r, IdOf[d])
    BY <1>1, <1>3, <2>2, WritesOfOne
  <2>4. Progress(r)
    BY <1>7, <2>1
  <2>5. Accounted(r)'
    BY <2>1, <2>3, <2>4, StoppedAccounts
  <2>6. QED
    BY <1>5, <2>1, <2>5
<1>11. CASE DeployAcknowledged(r, d)
  <2>1. /\ IsNext(r, d) /\ pc[r] = "committed" /\ session[r] = "live" /\ cmd[r] = "deploy"
        /\ UNCHANGED <<session, snap, history>>
        /\ report' = [report EXCEPT ![r] = Reported(r, {d}, "succeeded")]
        /\ \/ pc'[r] = "verifying" /\ todo'[r] = todo[r]
           \/ pc'[r] = "working" /\ todo'[r] = todo[r] \ {d}
    BY <1>2, <1>11 DEF DeployAcknowledged
  <2>2. Progress(r)
    BY <1>7, <2>1 DEF InHand
  <2>3. WritesOnlyOf(r, IdOf[d])
    BY <1>1, <1>3, <2>1, WritesOfOne
  <2>4. Wrote(r, IdOf[d], {"succeeded"})
    BY <2>1, <2>2 DEF Progress
  <2>5. Wrote(r, IdOf[d], {"succeeded"})'
    BY <2>1, <2>4, WroteStill
  <2>6. /\ report'[r][IdOf[d]] = "succeeded"
        /\ \A m \in Migrations : m # IdOf[d] => report'[r][m] = report[r][m]
    BY <1>1, <1>2, <2>1 DEF Reported
  <2>7. Progress(r)'
    <3>1. CASE pc'[r] = "verifying" /\ todo'[r] = todo[r]
      BY <2>1, <2>2, <2>3, <2>5, <2>6, <3>1, ProgressKept
    <3>2. CASE pc'[r] = "working" /\ todo'[r] = todo[r] \ {d}
      BY <2>1, <2>2, <2>3, <2>4, <2>6, <3>2, ProgressOn
    <3>3. QED
      BY <2>1, <3>1, <3>2
  <2>8. QED
    BY <1>4, <2>1, <2>7 DEF InHand
<1>12. CASE VerifyDeployed(r, d)
  <2>1. /\ IsNext(r, d) /\ pc[r] = "verifying" /\ session[r] = "live" /\ cmd[r] = "deploy"
        /\ UNCHANGED <<session, snap>>
        /\ \/ pc'[r] = "working" /\ todo'[r] = todo[r] \ {d} /\ report' = report
           \/ /\ pc'[r] = "releasing"
              /\ report'[r] = Stopped(r, d, report[r][IdOf[d]])
    BY <1>1, <1>2, <1>12 DEF VerifyDeployed, RunInv
  <2>2. Progress(r)
    BY <1>7, <2>1
  <2>3. WritesOnlyOf(r, IdOf[d])
    <3>1. \/ Log(r, "verify", "succeeded", {d}) \/ history' = history
          \/ Log(r, "verify", "failed", {d})
      BY <1>12 DEF VerifyDeployed, LogBestEffort
    <3>2. QED
      BY <1>1, <1>3, <3>1, WritesOfOne
  <2>4. Wrote(r, IdOf[d], {"succeeded"}) /\ report[r][IdOf[d]] = "succeeded"
    BY <2>1, <2>2 DEF Progress
  <2>5. CASE pc'[r] = "working" /\ todo'[r] = todo[r] \ {d} /\ report' = report
    <3>1. Progress(r)'
      BY <2>1, <2>2, <2>3, <2>4, <2>5, ProgressOn
    <3>2. QED
      BY <1>4, <2>1, <2>5, <3>1 DEF InHand
  <2>6. CASE pc'[r] = "releasing" /\ report'[r] = Stopped(r, d, report[r][IdOf[d]])
    <3>1. Accounted(r)'
      BY <2>1, <2>2, <2>3, <2>4, <2>6, StoppedAccounts
    <3>2. QED
      BY <1>5, <2>1, <2>6, <3>1
  <2>7. QED
    BY <2>1, <2>5, <2>6
<1>13. QED
  BY <1>6, <1>8, <1>9, <1>10, <1>11, <1>12 DEF MigrationStep

\* Until it has planned a run reports nothing, and a plan starts from nothing.
LEMMA UnplannedReports ==
    ASSUME TypeOK, LockedPlansHold, NEW r \in Runs, ReportSound(r),
           \/ Open(r) \/ TryLock(r) \/ Poll(r) \/ PollExpires(r) \/ GrantQueued(r)
           \/ Refresh(r) \/ Plan(r)
    PROVE  ReportSound(r)'
<1> USE DEF Move, sessions, database
<1>1. pc \in [Runs -> Outside \cup UnderLock] /\ todo \in [Runs -> SUBSET Definitions]
  BY DEF TypeOK
<1>2. PlanShape(r) \/ ~Plan(r)
  BY PlanHasShape
<1>3. pc[r] \in Unplanned /\ report' = report /\ history' = history
  BY <1>2 DEF Open, TryLock, Poll, PollExpires, GrantQueued, Refresh, PlanShape, Refuse, Select, Unplanned
<1>4. \A m \in Migrations : report[r][m] = "unreported" /\ ~Wrote(r, m, Outcomes)
  BY <1>3 DEF ReportSound, NothingYet
<1>5. \A m \in Migrations : report'[r][m] = "unreported" /\ ~Wrote(r, m, Outcomes)'
  BY <1>3, <1>4, WroteStill
<1>6. Accounted(r)' /\ NothingYet(r)'
  BY <1>5, NothingAccounts DEF Accounted, NothingYet
<1>7. CASE pc'[r] \notin InHand \cup {"verifying"}
  BY <1>6, <1>7 DEF ReportSound
<1>8. CASE Plan(r) /\ cmd[r] = "deploy" /\ ~Refuse(r)
  <2>1. Select(r, Selected(r)) /\ snap' = snap
    BY <1>8 DEF Plan, PlanDeploy, PlanRevert, PlanResolve, PlanBaseline, PlanVerify, Selected
  <2>2. pc'[r] = "working" /\ todo'[r] = Selected(r)
    BY <1>1, <2>1 DEF Select
  <2>3. Selected(r)' = Selected(r)
    BY <2>1 DEF Selected, Pending
  <2>4. \A d \in Selected(r) : IdOf[d] \in Migrations
    <3>1. GraphOf[CheckoutOf[r]] \subseteq Definitions
      BY GraphAssumption
    <3>2. QED
      BY <3>1, CatalogAssumption DEF Selected, Pending
  <2>5. Progress(r)'
    BY <1>5, <2>2, <2>3, <2>4 DEF Progress
  <2>6. QED
    BY <1>6, <2>5 DEF ReportSound
<1>9. CASE Plan(r) /\ (cmd[r] # "deploy" \/ Refuse(r))
  <2>1. cmd'[r] = cmd[r] /\ (Refuse(r) => pc'[r] = "releasing")
    BY <1>1, <1>2, <1>9 DEF PlanShape, Refuse
  <2>2. QED
    BY <1>6, <1>9, <2>1 DEF ReportSound, InHand
<1>10. CASE Open(r) \/ TryLock(r) \/ Poll(r) \/ PollExpires(r) \/ GrantQueued(r) \/ Refresh(r)
  <2>1. pc'[r] \in {"opened", "done", "locked", "queued", "polling", "refreshed"}
    BY <1>1, <1>10 DEF Open, TryLock, Poll, PollExpires, GrantQueued, Refresh
  <2>2. QED
    BY <1>7, <2>1 DEF InHand
<1>11. QED
  BY <1>8, <1>9, <1>10

\* While a statement is executed nothing is reported and nothing is written.
LEMMA ProgressStill ==
    ASSUME NEW r \in Runs, Progress(r), UNCHANGED <<history, report, todo, snap>>,
           pc[r] = pc'[r] \/ {pc[r], pc'[r]} \subseteq InHand \ {"working", "committed"}
    PROVE  Progress(r)'
<1>1. Selected(r)' = Selected(r) /\ Ids(Selected(r))' = Ids(Selected(r))
  BY DEF Selected, Pending, Ids
<1>2. \A d : IsNext(r, d)' <=> IsNext(r, d)
  BY DEF IsNext
<1>3. \A m, outcomes : Wrote(r, m, outcomes)' <=> Wrote(r, m, outcomes)
  BY WroteStill
<1>4. QED
  BY <1>1, <1>2, <1>3 DEF Progress, InHand

\* What is accounted for stays so.
LEMMA AccountStill ==
    ASSUME NEW r \in Runs, Accounted(r), UNCHANGED <<history, report, snap>>
    PROVE  Accounted(r)'
<1>1. Ids(Selected(r))' = Ids(Selected(r))
  BY DEF Selected, Pending, Ids
<1>2. \A m, outcomes : Wrote(r, m, outcomes)' <=> Wrote(r, m, outcomes)
  BY WroteStill
<1>3. QED
  BY <1>1, <1>2 DEF Accounted

\* A client that loses its connection reports what it had in hand as failed, or,
\* if it was verifying, as deployed.
LEMMA LossReports ==
    ASSUME TypeOK, LockedPlansHold, NEW r \in Runs, ReportSound(r), Disconnect(r)
    PROVE  ReportSound(r)'
<1>1. /\ pc \in [Runs -> Outside \cup UnderLock] /\ report \in [Runs -> [Migrations -> Results]]
      /\ session \in [Runs -> {"none", "live", "orphan"}]
  BY DEF TypeOK
<1>2. /\ session[r] = "live" /\ session'[r] = "orphan"
      /\ UNCHANGED <<history, pc, cmd, snap, todo>> /\ ReportOnLoss(r)
  BY <1>1 DEF Disconnect, database
<1>3. \A m, outcomes : Wrote(r, m, outcomes)' <=> Wrote(r, m, outcomes)
  BY <1>2, WroteStill
<1>4. CASE pc[r] \in Unplanned
  <2>1. report' = report
    BY <1>2, <1>4 DEF ReportOnLoss, InHand, Unplanned
  <2>2. NothingYet(r)' /\ \A m \in Migrations : report'[r][m] = "unreported"
    BY <1>2, <1>3, <1>4, <2>1 DEF ReportSound, NothingYet
  <2>3. Accounted(r)'
    BY <2>2, NothingAccounts DEF Accounted
  <2>4. QED
    BY <1>2, <2>2, <2>3 DEF ReportSound
<1>5. NothingYet(r)' \/ pc[r] \in Unplanned
  BY <1>2 DEF NothingYet
<1>6. CASE cmd[r] # "deploy"
  BY <1>2, <1>4, <1>5, <1>6 DEF ReportSound
<1>7. CASE cmd[r] = "deploy" /\ pc[r] \in InHand \cup {"verifying"}
  <2>1. Progress(r)
    BY <1>2, <1>7 DEF ReportSound
  <2>2. CASE todo[r] = {}
    <3>1. report' = report
      BY <1>2, <2>2 DEF ReportOnLoss
    <3>2. Accounted(r)'
      BY <1>2, <2>1, <2>2, <3>1, FinishedAccounts
    <3>3. QED
      BY <1>2, <1>4, <1>5, <3>2 DEF ReportSound
  <2>3. CASE todo[r] # {}
    <3>1. PICK d \in todo[r] :
             /\ IsNext(r, d)
             /\ report' = [report EXCEPT ![r] =
                              Stopped(r, d, IF pc[r] = "verifying" THEN report[r][IdOf[d]] ELSE "failed")]
      BY <1>2, <1>7, <2>3 DEF ReportOnLoss
    <3>2. d \in Definitions /\ "deploy" \in AllCommands /\ "failed" \in Outcomes
      BY DEF TypeOK, AllCommands, Outcomes
    <3>3. WritesOnlyOf(r, IdOf[d])
      BY <1>2, <3>2, WritesOfOne
    <3>4. pc[r] = "verifying" => report[r][IdOf[d]] = "succeeded" /\ Wrote(r, IdOf[d], {"succeeded"})
      BY <2>1, <3>1 DEF Progress
    <3>5. PICK result \in {"succeeded", "failed"} :
             /\ report'[r] = Stopped(r, d, result)
             /\ result = "succeeded" => Wrote(r, IdOf[d], {"succeeded"})
      BY <1>1, <3>1, <3>4
    <3>6. Accounted(r)'
      BY <1>2, <2>1, <3>1, <3>3, <3>5, StoppedAccounts
    <3>7. QED
      BY <1>2, <1>4, <1>5, <3>6 DEF ReportSound
  <2>4. QED
    BY <2>2, <2>3
<1>8. CASE cmd[r] = "deploy" /\ pc[r] \in {"releasing", "done"}
  <2>1. report' = report
    BY <1>2, <1>8 DEF ReportOnLoss, InHand
  <2>2. Accounted(r)'
    BY <1>2, <1>8, <2>1, AccountStill DEF ReportSound
  <2>3. QED
    BY <1>2, <1>4, <1>5, <2>2 DEF ReportSound
<1>9. QED
  BY <1>1, <1>4, <1>6, <1>7, <1>8 DEF Outside, UnderLock, Unplanned

\* The steps around a migration's own report nothing that was not written.
LEMMA OtherStepReports ==
    ASSUME TypeOK, LockedPlansHold, NEW r \in Runs, ReportSound(r),
           \/ SendStatement(r) \/ BaselineCommits(r) \/ AssertionFails(r) \/ Acknowledged(r)
           \/ Finish(r) \/ Release(r) \/ OrphanExits(r)
           \/ \E d \in todo[r] : StatementEnds(r, d)
    PROVE  ReportSound(r)'
<1> USE DEF Move, sessions, database
<1>1. /\ pc \in [Runs -> Outside \cup UnderLock] /\ RunInv(r)
      /\ session \in [Runs -> {"none", "live", "orphan"}]
  BY DEF TypeOK, LockedPlansHold
<1>2. CASE BaselineCommits(r) \/ AssertionFails(r) \/ Acknowledged(r)
  <2>1. cmd'[r] # "deploy" /\ pc'[r] \in {"committed", "releasing"}
    BY <1>1, <1>2 DEF BaselineCommits, AssertionFails, Acknowledged
  <2>2. QED
    BY <2>1 DEF ReportSound, NothingYet, Unplanned
<1>3. CASE SendStatement(r) \/ \E d \in todo[r] : StatementEnds(r, d)
  <2>1. /\ {pc[r], pc'[r]} \subseteq InHand \ {"working", "committed"}
        /\ UNCHANGED <<history, report, todo, snap, session, cmd>>
    BY <1>1, <1>3 DEF SendStatement, StatementEnds, InHand
  <2>2. Progress(r) => Progress(r)'
    BY <2>1, ProgressStill
  <2>3. Accounted(r) => Accounted(r)'
    BY <2>1, AccountStill
  <2>4. QED
    BY <2>1, <2>2, <2>3 DEF ReportSound, NothingYet, Unplanned, InHand
<1>4. CASE Finish(r)
  <2>1. /\ todo[r] = {} /\ pc[r] = "working" /\ session[r] = "live" /\ pc'[r] = "releasing"
        /\ UNCHANGED <<history, report, snap, session, cmd>>
    BY <1>1, <1>4 DEF Finish
  <2>2. cmd[r] = "deploy" => Accounted(r)'
    BY <2>1, FinishedAccounts DEF ReportSound, InHand
  <2>3. QED
    BY <2>1, <2>2 DEF ReportSound, NothingYet, Unplanned, InHand
<1>5. CASE Release(r) \/ OrphanExits(r)
  <2>1. /\ pc[r] = "releasing" \/ session[r] = "orphan"
        /\ pc'[r] = "done" /\ session'[r] = "none"
        /\ UNCHANGED <<history, report, snap, cmd>>
    BY <1>1, <1>5 DEF Release, OrphanExits
  <2>2. cmd[r] = "deploy" => Accounted(r)'
    BY <2>1, AccountStill DEF ReportSound
  <2>3. QED
    BY <2>1, <2>2 DEF ReportSound, NothingYet, Unplanned, InHand
<1>6. QED
  BY <1>2, <1>3, <1>4, <1>5

\* A deploy accounts for every migration it selected, and claims of none what it
\* did not write.
THEOREM DeploysAccountForAll == Spec => []ReportAccountsForAll
<1>1. Init => ReportsSound
  <2> SUFFICES ASSUME Init, NEW r \in Runs PROVE ReportSound(r)
    BY DEF ReportsSound
  <2>1. \A m \in Migrations : report[r][m] = "unreported" /\ ~Wrote(r, m, Outcomes)
    BY DEF Init, Wrote
  <2>2. QED
    BY <2>1, NothingAccounts DEF Init, ReportSound, NothingYet, InHand
<1>2. TypeOK /\ LockedPlansHold /\ ReportsSound /\ [Next]_vars => ReportsSound'
  <2> SUFFICES ASSUME TypeOK, LockedPlansHold, ReportsSound, [Next]_vars
               PROVE  ReportsSound'
    OBVIOUS
  <2>1. CASE UNCHANGED vars
    <3>1. UNCHANGED <<history, report, pc, cmd, snap, todo, session>>
      BY <2>1 DEF vars, database, sessions
    <3>2. \A r \in Runs : (Progress(r) => Progress(r)') /\ (Accounted(r) => Accounted(r)')
      BY <3>1, ProgressStill, AccountStill
    <3>3. \A r, m, outcomes : Wrote(r, m, outcomes)' <=> Wrote(r, m, outcomes)
      BY <3>1, WroteStill
    <3>4. QED
      BY <3>1, <3>2, <3>3 DEF ReportsSound, ReportSound, NothingYet
  <2>2. ASSUME NEW r \in Runs, Open(r) \/ ClientStep(r) \/ ServerStep(r) \/ Disconnect(r)
        PROVE  ReportsSound'
    <3>1. ReportSound(r)
      BY DEF ReportsSound
    <3>2. ReportSound(r)'
      BY <2>2, <3>1, MigrationStepReports, UnplannedReports, OtherStepReports, LossReports
      DEF ClientStep, ServerStep
    <3>3. \A q \in Runs \ {r} : ReportSound(q)'
      BY <2>2, OthersReportsSound
    <3>4. QED
      BY <3>2, <3>3 DEF ReportsSound
  <2>3. QED
    BY <2>1, <2>2 DEF Next
<1>3. ReportsSound => ReportAccountsForAll
  BY DEF ReportsSound, ReportSound, Accounted, ReportAccountsForAll, Wrote, Selected, Ids
<1>4. QED
  BY <1>1, <1>2, <1>3, TypeCorrect, PlansHold, PTL DEF Spec

===============================================================================
