----------------------------- MODULE MCTestbed -----------------------------
(***************************************************************************)
(* Instances of Testbed for TLC.                                           *)
(***************************************************************************)
EXTENDS Testbed, ProjectTopology
=============================================================================
