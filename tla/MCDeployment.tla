----------------------------- MODULE MCDeployment -----------------------------
(***************************************************************************)
(* Instances of Deployment for TLC.  Migration b depends on a.             *)
(***************************************************************************)
EXTENDS Deployment, TLC

CONSTANTS r1, r2, r3, a, b

\* Definition "a1" is version 1 of migration a, and so on; "b2" is b edited.
MCIdOf == ("a1" :> a) @@ ("b1" :> b) @@ ("b2" :> b)
MCDependsOf == ("a1" :> {}) @@ ("b1" :> {a}) @@ ("b2" :> {a})
MCDefinitions == DOMAIN MCIdOf

\* "edited" rewrites b.
MCGraphOf == ("main" :> {"a1", "b1"}) @@ ("edited" :> {"a1", "b2"})
MCCheckouts == DOMAIN MCGraphOf
MCRank == [k \in MCCheckouts |-> (a :> 1) @@ (b :> 2)]

MainAndEdited == (r1 :> "main") @@ (r2 :> "edited")
AllMain == [r \in Runs |-> "main"]

\* Runs from the same checkout are interchangeable.
RunSymmetry == Permutations(Runs)

===============================================================================
