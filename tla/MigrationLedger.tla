---------------------------- MODULE MigrationLedger ----------------------------
(***************************************************************************)
(* What the registry promises, with no runs, sessions or locks in it: a    *)
(* ledger of migrations in which each is absent, attempted or applied.     *)
(* The guards read the ledger itself.  Deployment, whose commands decide   *)
(* from a snapshot, is shown to implement it.                              *)
(***************************************************************************)
CONSTANTS Migrations, Definitions, IdOf, DependsOf, NoDef

VARIABLES applied, attempts

ledger == <<applied, attempts>>

Init ==
    /\ applied = [m \in Migrations |-> NoDef]
    /\ attempts = [m \in Migrations |-> NoDef]

Settled == \A m \in Migrations : attempts[m] = NoDef

\* The definitions in S are new, of different migrations, and everything they
\* depend on is applied or among them.
Ready(S) ==
    /\ \A d \in S : applied[IdOf[d]] = NoDef
    /\ \A d, e \in S : IdOf[d] = IdOf[e] => d = e
    /\ \A d \in S : \A n \in DependsOf[d] :
          applied[n] # NoDef \/ \E e \in S : IdOf[e] = n

\* A deploy applies one definition; a baseline, a closure at once.
Apply(S) ==
    /\ Settled
    /\ Ready(S)
    /\ applied' = [m \in Migrations |->
                      IF \E d \in S : IdOf[d] = m
                        THEN CHOOSE d \in S : IdOf[d] = m
                        ELSE applied[m]]
    /\ UNCHANGED attempts

\* Nothing that depends on itself may be attempted.
Attempt(d) ==
    /\ Settled
    /\ applied[IdOf[d]] = NoDef
    /\ \A n \in DependsOf[d] : applied[n] # NoDef
    /\ attempts' = [attempts EXCEPT ![IdOf[d]] = d]
    /\ UNCHANGED applied

\* The attempt is known, or said, to have taken effect, or not to have.
Settle(d) ==
    /\ attempts[IdOf[d]] = d
    /\ attempts' = [attempts EXCEPT ![IdOf[d]] = NoDef]
    /\ \/ applied' = [applied EXCEPT ![IdOf[d]] = d]
       \/ UNCHANGED applied

Revert(d) ==
    /\ Settled
    /\ applied[IdOf[d]] = d
    /\ \A m \in Migrations : applied[m] # NoDef => IdOf[d] \notin DependsOf[applied[m]]
    /\ applied' = [applied EXCEPT ![IdOf[d]] = NoDef]
    /\ UNCHANGED attempts

Next ==
    \/ \E S \in SUBSET Definitions : Apply(S)
    \/ \E d \in Definitions : Attempt(d) \/ Settle(d) \/ Revert(d)

Spec == Init /\ [][Next]_ledger

===============================================================================
