----------------------------- MODULE MCTestSuite -----------------------------
(***************************************************************************)
(* Instances of TestSuite for TLC: suites of two releases, whose           *)
(* checkouts describe schema 1.                                            *)
(***************************************************************************)
EXTENDS TestSuite

CONSTANTS s1, s2, v1, v2

MCWanted == [s \in Suites |-> 1]
MCLibraryOf == [s \in Suites |-> IF s = s1 THEN v1 ELSE v2]

===============================================================================
