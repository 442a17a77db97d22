------------------------- MODULE MCDefinitionIdentity -------------------------
(***************************************************************************)
(* Instances of DefinitionIdentity for TLC: b depends on a.                *)
(***************************************************************************)
EXTENDS DefinitionIdentity, TLC

CONSTANTS a1, a2, a3, a4, b1, b2

\* a2 is a1 with other comments, a3 is other SQL, a4 no longer parses.  b2 is b1
\* without its dependency on a.
MCVersions == ("a" :> {a1, a2, a3, a4}) @@ ("b" :> {b1, b2})
MCShape ==
    (a1 :> "x") @@ (a2 :> "x") @@ (a3 :> "y") @@ (a4 :> Unparsed)
    @@ (b1 :> "z") @@ (b2 :> "z")
MCTerms ==
    LET free == [depends |-> {}, mode |-> "required"]
    IN  (a1 :> free) @@ (a2 :> free) @@ (a3 :> free) @@ (a4 :> free)
        @@ (b1 :> [depends |-> {"a"}, mode |-> "forbidden"])
        @@ (b2 :> [depends |-> {}, mode |-> "forbidden"])

Symmetry == Permutations(Runs)

===============================================================================
