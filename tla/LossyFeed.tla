----------------------------- MODULE LossyFeed ------------------------------
(***************************************************************************)
(* What a hub promises each of its subscribers: a channel that is opened   *)
(* once and closed once, is written to only in between, hands items out in *)
(* the order in which they were put, and never holds more than Capacity.   *)
(* An item that finds no room is lost; nobody waits.  EventHub and LogHub  *)
(* implement it.                                                           *)
(***************************************************************************)
EXTENDS Naturals, Sequences

CONSTANTS Readers, Items, Capacity

VARIABLES
    open,    \* readers with an open channel
    closed,  \* readers whose channel was closed
    queue    \* queue[r]: what r has not taken yet

vars == <<open, closed, queue>>

Init ==
    /\ open = {}
    /\ closed = {}
    /\ queue = [r \in Readers |-> <<>>]

Open(r) ==
    /\ r \notin open \cup closed
    /\ open' = open \cup {r}
    /\ UNCHANGED <<closed, queue>>

Put(r, item) ==
    /\ r \in open
    /\ Len(queue[r]) < Capacity
    /\ queue' = [queue EXCEPT ![r] = Append(@, item)]
    /\ UNCHANGED <<open, closed>>

Take(r) ==
    /\ r \in open
    /\ queue[r] # <<>>
    /\ queue' = [queue EXCEPT ![r] = Tail(@)]
    /\ UNCHANGED <<open, closed>>

\* What is left in the channel goes with it.
Close(r) ==
    /\ r \in open
    /\ open' = open \ {r}
    /\ closed' = closed \cup {r}
    /\ queue' = [queue EXCEPT ![r] = <<>>]

Next ==
    \E r \in Readers :
        \/ Open(r)
        \/ \E item \in Items : Put(r, item)
        \/ Take(r)
        \/ Close(r)

Spec == Init /\ [][Next]_vars
=============================================================================
