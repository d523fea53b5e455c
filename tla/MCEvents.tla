------------------------------ MODULE MCEvents ------------------------------
(***************************************************************************)
(* Instances of EventHub for TLC: two notifications of one service each.   *)
(***************************************************************************)
EXTENDS EventHub

CONSTANTS n1, n2, s1, s2

MCOwner == [n \in Notifications |-> IF n = n1 THEN s1 ELSE s2]
=============================================================================
