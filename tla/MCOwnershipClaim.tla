--------------------------- MODULE MCOwnershipClaim ---------------------------
(***************************************************************************)
(* Instances of OwnershipClaim for TLC: two projects, p and q.             *)
(***************************************************************************)
EXTENDS OwnershipClaim, TLC

CONSTANTS r1, r2, r3

\* Two runs of p from binaries of different releases, and one of q.
MCProjectOf == (r1 :> "p") @@ (r2 :> "p") @@ (r3 :> "q")
MCUnderstands == (r1 :> 2) @@ (r2 :> 3) @@ (r3 :> 3)

\* q has a schema of its own.
SchemasApart == (r1 :> "s") @@ (r2 :> "s") @@ (r3 :> "t")

===============================================================================
