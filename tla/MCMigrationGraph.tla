--------------------------- MODULE MCMigrationGraph ---------------------------
(***************************************************************************)
(* Every graph of up to so many migrations, for TLC: the first states are  *)
(* all the manifests there can be.                                         *)
(***************************************************************************)
EXTENDS MigrationGraph

\* The walk and the closure start from the first id until they are given one.
FromFirst == current = 1 /\ asked = 1

MCInit == Init /\ FromFirst
MCFairSpec == MCInit /\ [][Next]_vars /\ WF_vars(Working)

===============================================================================
