---------------------------- MODULE OwnershipProofs ----------------------------
(***************************************************************************)
(* Proofs about OwnershipClaim, for any number of runs, projects, schemas  *)
(* and formats.                                                            *)
(***************************************************************************)
EXTENDS OwnershipClaim, TLAPS

USE DEF Locks, InClaim, UnderLock, Outside

(***************************************************************************)
(* Types.                                                                  *)
(***************************************************************************)

\* Every step keeps every variable in its type.
LEMMA TypeStep == TypeOK /\ [Next]_vars => TypeOK'
<1> USE SettingsAssumption DEF TypeOK, Move
<1> SUFFICES ASSUME TypeOK, [Next]_vars PROVE TypeOK'
    OBVIOUS
<1>1. CASE UNCHANGED vars
    BY <1>1 DEF vars
<1>2. ASSUME NEW r \in Runs, Open(r) PROVE TypeOK'
    <2>1. registry[SchemaOf[r]] \in Meta \cup {NoRegistry}
        OBVIOUS
    <2>2. cmd' \in [Runs -> Commands \cup {"none"}]
        BY <1>2 DEF Open
    <2> QED BY <1>2, <2>1, <2>2 DEF Open
<1>3. ASSUME NEW r \in Runs, ClientStep(r) PROVE TypeOK'
    <2>1. CASE OpenChecked(r) \/ RefreshChecked(r) \/ Refuse(r) \/ ClaimChecked(r)
               \/ ClaimFails(r) \/ Finish(r)
        BY <2>1 DEF OpenChecked, RefreshChecked, Refuse, ClaimChecked, ClaimFails, Finish
    <2>2. CASE Leave(r)
        BY <2>2 DEF Leave
    <2>3. CASE TakeLock(r)
        BY <2>3 DEF TakeLock, Acquire, AwaitTurn
    <2>4. CASE Refresh(r)
        <3>1. registry[SchemaOf[r]] \in Meta \cup {NoRegistry}
            OBVIOUS
        <3> QED BY <2>4, <3>1 DEF Refresh
    <2>5. CASE TakeOwnership(r)
        BY <2>5 DEF TakeOwnership, Acquire, AwaitTurn
    <2>6. CASE Claim(r) \/ Rehash(r)
        <3>1. [project |-> ProjectOf[r], format |-> Understands[r]] \in Meta
            BY DEF Meta
        <3> QED BY <2>6, <3>1 DEF Claim, Rehash, Upgraded
    <2>7. CASE ReleaseOwnership(r)
        BY <2>7 DEF ReleaseOwnership
    <2>8. CASE Release(r)
        BY <2>8 DEF Release, Unlocked
    <2> QED BY <1>3, <2>1, <2>2, <2>3, <2>4, <2>5, <2>6, <2>7, <2>8 DEF ClientStep
<1>4. ASSUME NEW r \in Runs, GrantProject(r) \/ GrantOwnership(r) PROVE TypeOK'
    BY <1>4 DEF GrantProject, GrantOwnership, Grant
<1>5. ASSUME NEW r \in Runs, Disconnect(r) PROVE TypeOK'
    BY <1>5 DEF Disconnect
<1>6. ASSUME NEW r \in Runs, OrphanExits(r) PROVE TypeOK'
    BY <1>6 DEF OrphanExits, Unlocked
<1> QED BY <1>1, <1>2, <1>3, <1>4, <1>5, <1>6 DEF Next

\* Every variable keeps its type.
THEOREM TypeCorrect == Spec => []TypeOK
<1>1. Init => TypeOK
    BY SettingsAssumption DEF Init, TypeOK
<1> QED BY <1>1, TypeStep, PTL DEF Spec

(***************************************************************************)
(* What a run knows survives the other runs.                               *)
(***************************************************************************)

\* What a step of r leaves to the others: where they are, what they read and
\* what they hold; and the registry, unless r upgrades it in its own right.
Undisturbed(r) ==
    /\ \A q \in Runs \ {r} :
          /\ pc'[q] = pc[q]
          /\ snap'[q] = snap[q]
          /\ \A k \in Locks : held[k] = q => held'[k] = q
    /\ \/ registry' = registry
       \/ /\ Upgraded(r)
          /\ held[ProjectOf[r]] = r
          /\ Readable(r, snap[r])
          /\ snap[r] # NoRegistry \/ held[Ownership] = r

\* Under its project's lock, a run's knowledge is its own to change: another
\* project's run can only create a registry where it saw none.
LEMMA OthersStillKnow ==
    ASSUME TypeOK, ClaimsHold, NEW r \in Runs, Undisturbed(r), NEW q \in Runs \ {r}
    PROVE  RunKnows(q)'
<1> USE SettingsAssumption
<1> DEFINE mine == [project |-> ProjectOf[r], format |-> Understands[r]]
<1>1. /\ pc'[q] = pc[q] /\ snap'[q] = snap[q]
      /\ \A k \in Locks : held[k] = q => held'[k] = q
      /\ pc[q] \in Outside \cup UnderLock
    BY DEF Undisturbed, TypeOK
<1>2. RunKnows(q)
    BY DEF ClaimsHold
<1>3. /\ pc[q] \in UnderLock => held'[ProjectOf[q]] = q
      /\ pc[q] \in InClaim => held'[Ownership] = q
    BY <1>1, <1>2 DEF RunKnows
<1>4. CASE registry' = registry
    BY <1>1, <1>2, <1>3, <1>4
    DEF RunKnows, OwnershipOk, Owned, Readable, TooNew
<1>5. CASE registry' # registry /\ pc[q] \in UnderLock
    <2>1. /\ Upgraded(r) /\ held[ProjectOf[r]] = r /\ Readable(r, snap[r])
          /\ snap[r] # NoRegistry \/ held[Ownership] = r
        BY <1>5 DEF Undisturbed
    <2>2. ProjectOf[r] # ProjectOf[q]
        BY <1>2, <1>5, <2>1 DEF RunKnows
    <2>3. /\ registry[SchemaOf[r]] = snap[r]
          /\ registry' = [registry EXCEPT ![SchemaOf[r]] = mine]
          /\ SchemaOf[r] \in Schemas /\ SchemaOf[q] \in Schemas
          /\ registry \in [Schemas -> Meta \cup {NoRegistry}]
          /\ mine \in Meta /\ mine # NoRegistry
        BY <2>1 DEF Upgraded, TypeOK, Meta
    <2>4. snap[r] # NoRegistry => registry[SchemaOf[r]].project # ProjectOf[q]
        BY <2>1, <2>2, <2>3 DEF Readable
    <2>5. SchemaOf[r] = SchemaOf[q] => registry'[SchemaOf[q]] = mine
        BY <2>3
    <2>6. SchemaOf[r] # SchemaOf[q] => registry'[SchemaOf[q]] = registry[SchemaOf[q]]
        BY <2>3
    <2>7. ASSUME pc[q] \in {"reread", "refreshed", "claim_polling", "claim_queued",
                            "claiming", "cleared", "claimed"}
          PROVE  /\ Readable(q, snap[q])
                 /\ pc[q] # "claimed" /\ registry'[SchemaOf[q]] # snap[q] =>
                       /\ snap[q] = NoRegistry
                       /\ registry'[SchemaOf[q]].project # ProjectOf[q]
        <3>1. /\ Readable(q, snap[q])
              /\ pc[q] # "claimed" /\ registry[SchemaOf[q]] # snap[q] =>
                    /\ snap[q] = NoRegistry
                    /\ registry[SchemaOf[q]].project # ProjectOf[q]
            BY <1>2, <2>7 DEF RunKnows
        <3>2. CASE SchemaOf[r] # SchemaOf[q]
            BY <3>1, <3>2, <2>6
        <3>3. CASE SchemaOf[r] = SchemaOf[q]
            <4>1. registry'[SchemaOf[q]].project # ProjectOf[q]
                BY <3>3, <2>5, <2>2
            <4>2. snap[q] # NoRegistry => snap[q].project = ProjectOf[q]
                BY <3>1 DEF Readable
            <4>3. pc[q] # "claimed" => snap[q] = NoRegistry
                BY <3>1, <3>3, <4>2, <2>3, <2>4
            <4> QED BY <3>1, <4>1, <4>3
        <3> QED BY <3>2, <3>3
    <2>8. pc[q] # "cleared"
        <3>1. SUFFICES ASSUME pc[q] = "cleared" PROVE FALSE
            OBVIOUS
        <3>2. held[Ownership] = q /\ OwnershipOk(q)
            BY <1>2, <3>1 DEF RunKnows
        <3>3. snap[r] # NoRegistry /\ SchemaOf[r] \in Owned
            BY <2>1, <2>3, <3>2 DEF Owned
        <3>4. SchemaOf[r] = SchemaOf[q] /\ registry[SchemaOf[q]].project = ProjectOf[q]
            BY <3>2, <3>3 DEF OwnershipOk
        <3> QED BY <2>4, <3>3, <3>4
    <2>9. pc[q] \in {"claimed", "working"} =>
              registry'[SchemaOf[q]] = [project |-> ProjectOf[q], format |-> Understands[q]]
        <3>1. SUFFICES ASSUME pc[q] \in {"claimed", "working"},
                              SchemaOf[r] = SchemaOf[q]
                       PROVE  FALSE
            BY <1>2, <2>6 DEF RunKnows
        <3>2. registry[SchemaOf[q]] = [project |-> ProjectOf[q], format |-> Understands[q]]
            BY <1>2, <3>1 DEF RunKnows
        <3>3. [project |-> ProjectOf[q], format |-> Understands[q]] \in Meta
            BY DEF Meta
        <3> QED BY <2>3, <2>4, <3>1, <3>2, <3>3
    <2>10. Readable(q, snap[q]) <=> Readable(q, snap[q])'
        BY <1>1 DEF Readable, TooNew
    <2> QED BY <1>1, <1>3, <2>7, <2>8, <2>9, <2>10 DEF RunKnows
<1>6. CASE pc[q] \notin UnderLock
    BY <1>1, <1>6 DEF RunKnows
<1> QED BY <1>4, <1>5, <1>6

(***************************************************************************)
(* And what a run learns from its own step.                                *)
(***************************************************************************)

\* The steps of r that leave the registry alone.
Looks(r) ==
    \/ Open(r) \/ OpenChecked(r) \/ Leave(r) \/ TakeLock(r)
    \/ Refresh(r) \/ RefreshChecked(r) \/ Refuse(r)
    \/ TakeOwnership(r) \/ ClaimChecked(r) \/ ClaimFails(r)
    \/ ReleaseOwnership(r) \/ Finish(r) \/ Release(r)
    \/ GrantProject(r) \/ GrantOwnership(r) \/ Disconnect(r) \/ OrphanExits(r)

\* What each read of the registry and each check teaches a run.
LEMMA LooksLearn ==
    ASSUME TypeOK, NEW r \in Runs, RunKnows(r), Looks(r)
    PROVE  RunKnows(r)' /\ Undisturbed(r)
<1> USE SettingsAssumption DEF TypeOK, Move, RunKnows, OwnershipOk, Owned, Readable,
        TooNew, Undisturbed
<1>1. CASE Open(r)
    BY <1>1 DEF Open
<1>2. CASE OpenChecked(r) \/ Leave(r) \/ Refuse(r) \/ Finish(r) \/ Disconnect(r)
    BY <1>2 DEF OpenChecked, Leave, Refuse, Finish, Disconnect
<1>3. CASE TakeLock(r)
    <2>1. ProjectOf[r] \in Locks /\ \A k \in Locks : held[k] = NoRun => held[k] \notin Runs
        OBVIOUS
    <2> QED BY <1>3, <2>1 DEF TakeLock, Acquire, AwaitTurn
<1>4. CASE Refresh(r)
    BY <1>4 DEF Refresh
<1>5. CASE RefreshChecked(r) \/ ClaimChecked(r) \/ ClaimFails(r)
    BY <1>5 DEF RefreshChecked, ClaimChecked, ClaimFails
<1>6. CASE TakeOwnership(r)
    BY <1>6 DEF TakeOwnership, Acquire, AwaitTurn
<1>7. CASE ReleaseOwnership(r)
    BY <1>7 DEF ReleaseOwnership
<1>8. CASE GrantProject(r) \/ GrantOwnership(r)
    BY <1>8 DEF GrantProject, GrantOwnership, Grant
<1>9. CASE Release(r) \/ OrphanExits(r)
    BY <1>9 DEF Release, OrphanExits, Unlocked
<1> QED BY <1>1, <1>2, <1>3, <1>4, <1>5, <1>6, <1>7, <1>8, <1>9 DEF Looks

\* The steps that write it: r holds its lock, and afterwards the registry is
\* its own, in its format.
LEMMA WritesLearn ==
    ASSUME TypeOK, SoleRegistry, NEW r \in Runs, RunKnows(r), Claim(r) \/ Rehash(r)
    PROVE  RunKnows(r)' /\ Undisturbed(r) /\ SoleRegistry'
<1> USE SettingsAssumption
<1> DEFINE mine == [project |-> ProjectOf[r], format |-> Understands[r]]
<1>1. /\ pc[r] \in {"refreshed", "cleared"}
      /\ pc' = [pc EXCEPT ![r] = IF pc[r] = "cleared" THEN "claimed" ELSE "working"]
      /\ UNCHANGED <<held, snap>>
      /\ pc[r] = "refreshed" => snap[r] # NoRegistry /\ Upgraded(r)
      /\ \/ snap[r] # NoRegistry /\ snap[r].format = Understands[r] /\ registry' = registry
         \/ Upgraded(r)
    BY DEF Claim, Rehash, Move
<1>2. /\ held[ProjectOf[r]] = r
      /\ Readable(r, snap[r])
      /\ registry[SchemaOf[r]] # snap[r] => snap[r] = NoRegistry
      /\ pc[r] = "cleared" => held[Ownership] = r /\ OwnershipOk(r)
    BY <1>1 DEF RunKnows
<1>3. mine \in Meta /\ SchemaOf[r] \in Schemas /\ mine # NoRegistry
    BY DEF Meta
<1>4. registry'[SchemaOf[r]] = mine
    <2>1. CASE Upgraded(r)
        BY <1>3, <2>1 DEF Upgraded, TypeOK
    <2>2. CASE /\ snap[r] # NoRegistry /\ snap[r].format = Understands[r]
               /\ registry' = registry
        <3>1. registry[SchemaOf[r]] = snap[r] /\ snap[r].project = ProjectOf[r]
            BY <1>2, <2>2 DEF Readable
        <3>2. registry[SchemaOf[r]] \in Meta
            BY <1>3, <2>2, <3>1 DEF TypeOK
        <3> QED BY <2>2, <3>1, <3>2 DEF Meta
    <2> QED BY <1>1, <2>1, <2>2
<1>5. RunKnows(r)'
    BY <1>1, <1>2, <1>4 DEF RunKnows, TypeOK, Readable, TooNew
<1>6. Undisturbed(r)
    BY <1>1, <1>2 DEF Undisturbed, TypeOK
<1>7. SoleRegistry'
    <2>1. CASE registry' = registry
        BY <2>1 DEF SoleRegistry, Owned
    <2>2. CASE Upgraded(r)
        <3>1. Owned \subseteq {SchemaOf[r]}
            <4>1. CASE snap[r] # NoRegistry
                BY <1>3, <2>2, <4>1 DEF Upgraded, SoleRegistry, Owned
            <4>2. CASE pc[r] = "cleared"
                BY <1>2, <4>2 DEF OwnershipOk
            <4> QED BY <1>1, <4>1, <4>2
        <3>2. Owned' \subseteq {SchemaOf[r]}
            BY <2>2, <3>1 DEF Upgraded, Owned, TypeOK
        <3> QED BY <3>2 DEF SoleRegistry
    <2> QED BY <1>1, <2>1, <2>2
<1> QED BY <1>5, <1>6, <1>7

\* Every step keeps what every run knows.
LEMMA ClaimsStep == TypeOK /\ ClaimsHold /\ [Next]_vars => ClaimsHold'
<1> SUFFICES ASSUME TypeOK, ClaimsHold, [Next]_vars PROVE ClaimsHold'
    OBVIOUS
<1>1. CASE UNCHANGED vars
    BY <1>1 DEF vars, ClaimsHold, SoleRegistry, RunKnows, OwnershipOk, Owned, Readable, TooNew
<1>2. ASSUME NEW r \in Runs, Looks(r) \/ Claim(r) \/ Rehash(r) PROVE ClaimsHold'
    <2>1. SoleRegistry /\ RunKnows(r)
        BY DEF ClaimsHold
    <2>2. RunKnows(r)' /\ Undisturbed(r)
        BY <1>2, <2>1, LooksLearn, WritesLearn
    <2>3. \A q \in Runs \ {r} : RunKnows(q)'
        BY <2>2, OthersStillKnow
    <2>4. SoleRegistry'
        <3>1. CASE Looks(r)
            <4>1. registry' = registry
                BY <3>1 DEF Looks, Open, OpenChecked, Leave, TakeLock, Refresh,
                    RefreshChecked, Refuse, TakeOwnership, ClaimChecked, ClaimFails,
                    ReleaseOwnership, Finish, Release, GrantProject, GrantOwnership,
                    Disconnect, OrphanExits, Acquire, AwaitTurn, Grant
            <4> QED BY <2>1, <4>1 DEF SoleRegistry, Owned
        <3> QED BY <1>2, <2>1, <3>1, WritesLearn
    <2> QED BY <2>2, <2>3, <2>4 DEF ClaimsHold
<1> QED BY <1>1, <1>2 DEF Next, ClientStep, Looks

\* However the runs of however many projects interleave, each knows what it has
\* to before it claims or upgrades.
THEOREM ClaimsAreSafe == Spec => []ClaimsHold
<1>1. Init => ClaimsHold
    BY SettingsAssumption
    DEF Init, ClaimsHold, SoleRegistry, Owned, RunKnows
<1> QED BY <1>1, ClaimsStep, TypeCorrect, PTL DEF Spec

\* A database never holds two registries.
THEOREM OneRegistry == Spec => []SoleRegistry
<1>1. ClaimsHold => SoleRegistry
    BY DEF ClaimsHold
<1> QED BY <1>1, ClaimsAreSafe, PTL

\* Whoever goes to work is alone, and on its own registry in its own format.
THEOREM WorkersAlone == Spec => []WorkersOwnTheDatabase
<1>1. TypeOK /\ ClaimsHold => WorkersOwnTheDatabase
    <2> SUFFICES ASSUME TypeOK, ClaimsHold, NEW r \in Runs, pc[r] = "working"
                 PROVE  /\ registry[SchemaOf[r]] =
                              [project |-> ProjectOf[r], format |-> Understands[r]]
                        /\ \A q \in Runs : pc[q] = "working" => q = r
        BY DEF WorkersOwnTheDatabase
    <2> USE SettingsAssumption
    <2> DEFINE own(q) == [project |-> ProjectOf[q], format |-> Understands[q]]
    <2>1. \A q \in Runs : pc[q] = "working" =>
              registry[SchemaOf[q]] = own(q) /\ held[ProjectOf[q]] = q
        BY DEF ClaimsHold, RunKnows
    <2>2. \A q \in Runs : own(q) # NoRegistry /\ own(q).project = ProjectOf[q]
        BY DEF Meta
    <2>3. ASSUME NEW q \in Runs, pc[q] = "working" PROVE q = r
        <3>1. /\ registry[SchemaOf[q]] = own(q) /\ registry[SchemaOf[r]] = own(r)
              /\ held[ProjectOf[q]] = q /\ held[ProjectOf[r]] = r
            BY <2>1, <2>3
        <3>2. SchemaOf[q] \in Owned /\ SchemaOf[r] \in Owned
            BY <2>2, <3>1 DEF Owned
        <3>3. own(q) = own(r)
            BY <3>1, <3>2 DEF ClaimsHold, SoleRegistry
        <3>4. ProjectOf[q] = ProjectOf[r]
            BY <2>2, <3>3
        <3> QED BY <3>1, <3>4
    <2> QED BY <2>1, <2>3
<1> QED BY <1>1, TypeCorrect, ClaimsAreSafe, PTL

(***************************************************************************)
(* Refinement.                                                             *)
(***************************************************************************)

\* The registries of a database, as the specification of the claim sees them.
AllRegistries ==
    {[schema |-> s, project |-> registry[s].project, format |-> registry[s].format] :
        s \in Owned}

\* Every step is a step of the abstract claim, or changes nothing it speaks of.
LEMMA ClaimRefines == TypeOK /\ ClaimsHold /\ [Next]_vars => [Claims!Next]_AllRegistries
<1> SUFFICES ASSUME TypeOK, ClaimsHold, [Next]_vars, registry' # registry
             PROVE  Claims!Next \/ UNCHANGED AllRegistries
    BY DEF AllRegistries, Owned
<1>1. PICK r \in Runs : Upgraded(r) /\ (Claim(r) \/ Rehash(r))
    BY DEF Next, ClientStep, vars, Open, OpenChecked, Leave, TakeLock, Refresh,
        RefreshChecked, Refuse, TakeOwnership, ClaimChecked, Claim, ClaimFails,
        ReleaseOwnership, Rehash, Finish, Release, GrantProject, GrantOwnership,
        Disconnect, OrphanExits, Acquire, AwaitTurn, Grant
<1> DEFINE S == SchemaOf[r]
           mine == [project |-> ProjectOf[r], format |-> Understands[r]]
           row(m) == [schema |-> S, project |-> m.project, format |-> m.format]
<1>2. /\ S \in Schemas /\ mine \in Meta /\ mine # NoRegistry
      /\ registry[S] = snap[r]
      /\ registry' = [registry EXCEPT ![S] = mine]
      /\ registry'[S] = mine
    BY <1>1, SettingsAssumption DEF Upgraded, TypeOK, Meta
<1>3. /\ Readable(r, snap[r])
      /\ snap[r] = NoRegistry => Owned = {}
    <2>1. /\ RunKnows(r)
          /\ pc[r] \in {"refreshed", "cleared"}
          /\ pc[r] = "cleared" \/ snap[r] # NoRegistry
        BY <1>1 DEF ClaimsHold, Claim, Rehash, Move
    <2>2. Readable(r, snap[r]) /\ (snap[r] = NoRegistry => OwnershipOk(r))
        BY <2>1 DEF RunKnows
    <2> QED BY <1>2, <2>2 DEF OwnershipOk, Owned
<1>4. Owned \subseteq {S}
    BY <1>2, <1>3 DEF ClaimsHold, SoleRegistry, Owned
<1>5. AllRegistries' = {row(mine)}
    <2>1. Owned' = {S}
        BY <1>2, <1>4 DEF Owned, TypeOK
    <2> QED BY <1>2, <2>1 DEF AllRegistries
<1>6. CASE snap[r] = NoRegistry
    <2>1. AllRegistries = {}
        BY <1>3, <1>6 DEF AllRegistries
    <2>2. row(mine) \in Claims!RegistryIn
        BY <1>2 DEF Claims!RegistryIn, Meta
    <2> QED BY <1>5, <2>1, <2>2 DEF Claims!Next, Claims!Claim, AllRegistries
<1>7. CASE snap[r] # NoRegistry
    <2>1. /\ registry[S] \in Meta
          /\ registry[S].project = ProjectOf[r]
          /\ ~(registry[S].format > Understands[r])
        BY <1>2, <1>3, <1>7 DEF Readable, TooNew, TypeOK
    <2>2. registry[S].format # Understands[r]
        BY <1>2, <2>1 DEF Meta, TypeOK
    <2>3. registry[S].format < Understands[r]
        BY <2>1, <2>2, SettingsAssumption DEF Meta
    <2>4. AllRegistries = {row(registry[S])}
        <3>1. Owned = {S}
            BY <1>2, <1>4, <1>7 DEF Owned
        <3> QED BY <3>1 DEF AllRegistries
    <2>5. row(registry[S]) \in Claims!RegistryIn
        BY <1>2, <2>1 DEF Claims!RegistryIn, Meta
    <2>6. row(mine) = [row(registry[S]) EXCEPT !.format = Understands[r]]
        BY <2>1
    <2>7. Claims!Upgrade(row(registry[S]), Understands[r])
        BY <1>5, <2>3, <2>4, <2>6 DEF Claims!Upgrade, AllRegistries
    <2> QED BY <2>5, <2>7, SettingsAssumption DEF Claims!Next
<1> QED BY <1>6, <1>7

\* The claims of many projects under two locks amount to one claim by one
\* project, and a format that only rises.
THEOREM ClaimsAreOne == Spec => ImplementsClaim
<1>1. Init => Claims!Init
    BY DEF Init, Claims!Init, Owned
<1>2. TypeOK /\ ClaimsHold /\ [Next]_vars => [Claims!Next]_AllRegistries
    BY ClaimRefines
<1> QED BY <1>1, <1>2, TypeCorrect, ClaimsAreSafe, PTL
    DEF Spec, ImplementsClaim, Claims!Spec, AllRegistries

===============================================================================
