---------------------------- MODULE MCTestCapture ----------------------------
(***************************************************************************)
(* Instances of TestCapture for TLC.                                       *)
(***************************************************************************)
EXTENDS TestCapture
===============================================================================
