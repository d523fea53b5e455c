----------------------------- MODULE MCWebhook ------------------------------
(***************************************************************************)
(* Instances of WebhookWorker for TLC.  n1 goes to both destinations, n2   *)
(* to one.  m1 is n1 on its last attempt, m2 carries n2 with a fresh       *)
(* attempt count.                                                          *)
(***************************************************************************)
EXTENDS WebhookWorker

CONSTANTS m1, m2, n1, n2, d1

MCPayload ==
    [m \in Messages |->
        CASE m = m1 -> [notification |-> n1, attempts |-> MaxAttempts - 1]
          [] m = m2 -> [notification |-> n2, attempts |-> 0]]

MCTargets == [n \in Notifications |-> IF n = n1 THEN Destinations ELSE {d1}]
=============================================================================
