----------------------------- MODULE MCHistory ------------------------------
(***************************************************************************)
(* PipelineHistory for TLC.  The configurations give the sets model values.*)
(***************************************************************************)
EXTENDS PipelineHistory, TLC

\* Every notification belongs to the same service.
MCOwner == [n \in Notifications |-> CHOOSE s \in Services : TRUE]

\* The processes are interchangeable: nothing in the model chooses one.
Interchangeable == Permutations(Replicas)
=============================================================================
