------------------------------- MODULE MCLogs -------------------------------
(***************************************************************************)
(* An instance of LogHub for TLC: two clients, two goroutines.             *)
(***************************************************************************)
EXTENDS LogHub
=============================================================================
