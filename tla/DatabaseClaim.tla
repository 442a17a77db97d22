----------------------------- MODULE DatabaseClaim -----------------------------
(***************************************************************************)
(* What Zapadka promises of the registries in one database, with no runs   *)
(* and no locks: a database that is nobody's is claimed once, by one       *)
(* project, in one schema, and from then on only the format moves, upward. *)
(***************************************************************************)
EXTENDS Naturals

CONSTANTS Schemas, Projects, Formats

VARIABLE registries

RegistryIn == [schema : Schemas, project : Projects, format : Formats]

Init == registries = {}

Claim(g) ==
    /\ registries = {}
    /\ registries' = {g}

Upgrade(g, f) ==
    /\ registries = {g}
    /\ g.format < f
    /\ registries' = {[g EXCEPT !.format = f]}

Next == \E g \in RegistryIn : Claim(g) \/ \E f \in Formats : Upgrade(g, f)

Spec == Init /\ [][Next]_registries

===============================================================================
