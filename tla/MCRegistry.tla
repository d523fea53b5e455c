----------------------------- MODULE MCRegistry -----------------------------
(***************************************************************************)
(* Instances of ServiceRegistry for TLC.                                   *)
(***************************************************************************)
EXTENDS ServiceRegistry
=============================================================================
