----------------------------- MODULE MCPipeline -----------------------------
(***************************************************************************)
(* Pipeline for TLC.  The configurations give the sets model values.       *)
(***************************************************************************)
EXTENDS Pipeline

\* Every notification belongs to the same service.
MCOwner == [n \in Notifications |-> CHOOSE s \in Services : TRUE]
=============================================================================
