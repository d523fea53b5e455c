--------------------------- MODULE EventHubProofs ---------------------------
(***************************************************************************)
(* Theorems about EventHub, for any number of streams, publishers and      *)
(* events and any channel capacity.                                        *)
(***************************************************************************)
EXTENDS EventHub, TLAPS

\* Only a handler that returned has closed its channel.
ClosedIsDone == \A s \in closed : stream[s].pc = "done"

\* No subscriber's channel is closed.
SubscribersOpen == subscribers \cap closed = {}

\* A publisher that holds the read lock goes over subscribers only: nobody
\* unsubscribes meanwhile.
ReadersSeeSubscribers == \A p \in Readers : publishing[p].todo \subseteq subscribers

\* The inductive invariant.
HubInv ==
    /\ TypeOK
    /\ ClosedIsDone
    /\ SubscribersOpen
    /\ ReadersSeeSubscribers

----------------------------------------------------------------------------
(* The lock                                                                *)

\* Letting the waiting publishers in keeps the types, and every one of them
\* goes over the subscribers given.
LEMMA AdmitLemma ==
    ASSUME TypeOK, NEW calls \in [Publishers -> PublishCall], NEW subs \in SUBSET Streams,
           Admit(calls, subs)
    PROVE  /\ publishing' \in [Publishers -> PublishCall]
           /\ due' \in [Streams -> SUBSET Event]
           /\ \A p \in Publishers : calls[p].pc = "sending" =>
                publishing'[p] = calls[p]
           /\ \A p \in Publishers : calls[p].pc # "sending" /\ publishing'[p].pc = "sending" =>
                publishing'[p].todo = subs
<1> DEFINE waiting == {p \in Publishers : calls[p].pc = "waiting"}
<1>1. publishing' = [p \in Publishers |->
                        IF p \in waiting
                        THEN [calls[p] EXCEPT !.pc = "sending", !.todo = subs]
                        ELSE calls[p]]
  BY DEF Admit
<1>2. ASSUME NEW p \in Publishers, p \in waiting
      PROVE  /\ publishing'[p] \in PublishCall
             /\ publishing'[p].todo = subs
  <2>1. calls[p] \in [pc : {"waiting", "sending"}, event : Event, todo : SUBSET Streams]
    BY <1>2 DEF PublishCall, Silent
  <2>2. publishing'[p] = [pc |-> "sending", event |-> calls[p].event, todo |-> subs]
    BY <1>1, <1>2, <2>1
  <2> QED BY <2>1, <2>2 DEF PublishCall
<1>3. ASSUME NEW p \in Publishers, p \notin waiting
      PROVE  publishing'[p] = calls[p]
  BY <1>1, <1>3
<1>4. publishing' \in [Publishers -> PublishCall]
  BY <1>1, <1>2, <1>3
<1>5. due' \in [Streams -> SUBSET Event]
  <2>1. \A p \in waiting : calls[p].event \in Event
    BY DEF PublishCall, Silent
  <2>2. due' = [t \in Streams |->
                    IF t \notin subs THEN {} ELSE
                    due[t] \cup {calls[p].event : p \in {q \in waiting :
                        matchesFilter(request[t], calls[q].event)}}]
    BY DEF Admit
  <2>3. \A t \in Streams : due[t] \cup {calls[p].event : p \in {q \in waiting :
                        matchesFilter(request[t], calls[q].event)}} \in SUBSET Event
    BY <2>1 DEF TypeOK
  <2> QED BY <2>2, <2>3
<1> QED BY <1>2, <1>3, <1>4, <1>5

\* A critical section keeps what HubInv says of the publishers.
LEMMA ExclusiveLemma ==
    ASSUME TypeOK, NEW s \in Streams, NEW subs \in SUBSET Streams, Exclusive(s, subs)
    PROVE  /\ subscribers' = subs
           /\ writer' \in Streams \cup {None}
           /\ publishing' \in [Publishers -> PublishCall]
           /\ due' \in [Streams -> SUBSET Event]
           /\ ReadersSeeSubscribers'
<1>1. publishing \in [Publishers -> PublishCall] /\ Admit(publishing, subs)
  BY DEF TypeOK, Exclusive
<1>2. \A p \in Publishers : publishing[p].pc # "sending"
  BY DEF Exclusive, Readers
<1>3. /\ publishing' \in [Publishers -> PublishCall]
      /\ due' \in [Streams -> SUBSET Event]
      /\ \A p \in Publishers : publishing'[p].pc = "sending" => publishing'[p].todo = subs
  BY <1>1, <1>2, AdmitLemma
<1>4. subscribers' = subs /\ writer' = None
  BY DEF Exclusive
<1> QED BY <1>3, <1>4 DEF ReadersSeeSubscribers, Readers

----------------------------------------------------------------------------
(* One lemma per party                                                     *)

\* A handler that is not sending holds no event, wherever it goes next.
LEMMA HandlerMoves ==
    ASSUME TypeOK, NEW s \in Streams, stream[s].pc # "sending",
           NEW to \in {"idle", "subscribing", "receiving", "unsubscribing", "done"}
    PROVE  /\ [stream EXCEPT ![s].pc = to] = [stream EXCEPT ![s] = [pc |-> to, event |-> None]]
           /\ [pc |-> to, event |-> None] \in Handler
<1>1. stream[s] \in [pc : {"idle", "subscribing", "receiving", "unsubscribing", "done"},
                     event : {None}]
  BY DEF TypeOK, Handler
<1>2. [stream[s] EXCEPT !.pc = to] = [pc |-> to, event |-> None]
  BY <1>1
<1>3. [pc |-> to, event |-> None] \in Handler
  BY DEF Handler
<1>4. stream \in [Streams -> Handler]
  BY DEF TypeOK
<1> QED BY <1>2, <1>3, <1>4

\* Opening a stream, subscribing, and all a handler does with its events.
LEMMA StreamKeepsInv ==
    ASSUME HubInv, NEW s \in Streams,
           \/ Announce(s)
           \/ \E r \in Request : Open(s, r)
           \/ Subscribe(s)
           \/ Receive(s)
           \/ SendToClient(s)
           \/ SendFails(s)
           \/ Vanish(s)
    PROVE  HubInv'
<1> USE DEF HubInv
<1>0. /\ s \in closed => stream[s].pc = "done"
      /\ stream[s] \in Handler
  BY DEF ClosedIsDone, TypeOK
<1>1. CASE Announce(s)
  BY <1>1 DEF Announce, TypeOK, ClosedIsDone, SubscribersOpen, ReadersSeeSubscribers, Readers
<1>2. ASSUME NEW r \in Request, Open(s, r)
      PROVE  HubInv'
  <2>1. /\ stream' = [stream EXCEPT ![s] = [pc |-> "subscribing", event |-> None]]
        /\ [pc |-> "subscribing", event |-> None] \in Handler
    BY <1>2, HandlerMoves DEF Open
  <2>2. TypeOK'
    BY <1>2, <2>1 DEF Open, TypeOK
  <2> QED
    BY <1>0, <1>2, <2>1, <2>2
       DEF Open, TypeOK, ClosedIsDone, SubscribersOpen, ReadersSeeSubscribers, Readers
<1>3. CASE Subscribe(s)
  <2>1. /\ subscribers \cup {s} \in SUBSET Streams
        /\ Exclusive(s, subscribers \cup {s})
    BY <1>3 DEF Subscribe, TypeOK
  <2>2. /\ subscribers' = subscribers \cup {s}
        /\ writer' \in Streams \cup {None}
        /\ publishing' \in [Publishers -> PublishCall]
        /\ due' \in [Streams -> SUBSET Event]
        /\ ReadersSeeSubscribers'
    BY <2>1, ExclusiveLemma
  <2>3. /\ stream' = [stream EXCEPT ![s] = [pc |-> "receiving", event |-> None]]
        /\ [pc |-> "receiving", event |-> None] \in Handler
    BY <1>3, HandlerMoves DEF Subscribe
  <2>4. TypeOK'
    BY <1>3, <2>1, <2>2, <2>3 DEF Subscribe, TypeOK
  <2>5. s \notin closed
    BY <1>0, <1>3 DEF Subscribe
  <2>6. ClosedIsDone' /\ SubscribersOpen'
    BY <1>3, <2>2, <2>3, <2>5 DEF Subscribe, TypeOK, ClosedIsDone, SubscribersOpen
  <2> QED BY <2>2, <2>4, <2>6
<1>4. CASE Receive(s)
  <2>1. /\ Head(buffer[s]) \in Event
        /\ Tail(buffer[s]) \in Seq(Event)
        /\ Len(Tail(buffer[s])) <= Capacity
    <3>1. buffer[s] \in Seq(Event) /\ buffer[s] # <<>> /\ Len(buffer[s]) <= Capacity
      BY <1>4 DEF Receive, TypeOK
    <3> QED BY <3>1, HubAssumption
  <2>2. [pc |-> "sending", event |-> Head(buffer[s])] \in Handler
    BY <2>1 DEF Handler
  <2>3. TypeOK'
    BY <1>4, <2>1, <2>2 DEF Receive, TypeOK
  <2> QED
    BY <1>0, <1>4, <2>3
       DEF Receive, TypeOK, ClosedIsDone, SubscribersOpen, ReadersSeeSubscribers, Readers
<1>5. CASE SendToClient(s)
  <2>1. stream[s].event \in Event
    BY <1>0, <1>5 DEF SendToClient, Handler
  <2>2. Append(got[s], stream[s].event) \in Seq(Event)
    BY <2>1 DEF TypeOK
  <2>3. [pc |-> "receiving", event |-> None] \in Handler
    BY DEF Handler
  <2>4. TypeOK'
    BY <1>5, <2>2, <2>3 DEF SendToClient, TypeOK
  <2> QED
    BY <1>0, <1>5, <2>4
       DEF SendToClient, TypeOK, ClosedIsDone, SubscribersOpen, ReadersSeeSubscribers, Readers
<1>6. CASE SendFails(s)
  <2>1. [pc |-> "unsubscribing", event |-> None] \in Handler
    BY DEF Handler
  <2>2. TypeOK'
    BY <1>6, <2>1 DEF SendFails, TypeOK
  <2> QED
    BY <1>0, <1>6, <2>2
       DEF SendFails, TypeOK, ClosedIsDone, SubscribersOpen, ReadersSeeSubscribers, Readers
<1>7. CASE Vanish(s)
  BY <1>7 DEF Vanish, TypeOK, ClosedIsDone, SubscribersOpen, ReadersSeeSubscribers, Readers
<1> QED BY <1>1, <1>2, <1>3, <1>4, <1>5, <1>6, <1>7

\* Unsubscribe closes a channel that it takes out of the subscribers.
LEMMA UnsubscribeKeepsInv ==
    ASSUME HubInv, NEW s \in Streams, Unsubscribe(s)
    PROVE  HubInv'
<1> USE DEF HubInv
<1>1. subscribers \ {s} \in SUBSET Streams /\ Exclusive(s, subscribers \ {s})
  BY DEF Unsubscribe, TypeOK
<1>2. /\ subscribers' = subscribers \ {s}
      /\ writer' \in Streams \cup {None}
      /\ publishing' \in [Publishers -> PublishCall]
      /\ due' \in [Streams -> SUBSET Event]
      /\ ReadersSeeSubscribers'
  BY <1>1, ExclusiveLemma
<1>3. /\ stream' = [stream EXCEPT ![s] = [pc |-> "done", event |-> None]]
      /\ [pc |-> "done", event |-> None] \in Handler
  BY HandlerMoves DEF Unsubscribe, Forget
<1>4. /\ closed' = closed \cup {s}
      /\ buffer' = [buffer EXCEPT ![s] = <<>>]
      /\ request' = [request EXCEPT ![s] = NoRequest]
      /\ got' = [got EXCEPT ![s] = <<>>]
      /\ UNCHANGED <<gone, published>>
  BY DEF Unsubscribe, Forget
<1>6. <<>> \in Seq(Event) /\ Len(<<>>) <= Capacity
  BY HubAssumption
<1>7. TypeOK'
  BY <1>1, <1>2, <1>3, <1>4, <1>6 DEF TypeOK
<1>8. ClosedIsDone' /\ SubscribersOpen'
  BY <1>2, <1>3, <1>4 DEF TypeOK, ClosedIsDone, SubscribersOpen
<1> QED BY <1>2, <1>7, <1>8

\* Publishers leave subscribers and closed channels alone.
LEMMA PublisherKeepsInv ==
    ASSUME HubInv, NEW p \in Publishers,
           PublisherStep(p) \/ \E n \in Notifications : Publish(p, n)
    PROVE  HubInv'
<1> USE DEF HubInv
<1>0. publishing[p] \in PublishCall
  BY DEF TypeOK
<1>1. ASSUME NEW s \in Streams, Offer(p, s)
      PROVE  HubInv'
  <2>1. publishing[p] \in [pc : {"waiting", "sending"}, event : Event, todo : SUBSET Streams]
    BY <1>0, <1>1 DEF Offer, PublishCall, Silent
  <2>2. /\ publishing' = [publishing EXCEPT ![p] =
                [pc |-> "sending", event |-> publishing[p].event, todo |-> publishing[p].todo \ {s}]]
        /\ UNCHANGED <<subscribers, closed, request, stream, gone, writer, published, got, due>>
    <3>1. [publishing[p] EXCEPT !.todo = @ \ {s}] =
            [pc |-> "sending", event |-> publishing[p].event, todo |-> publishing[p].todo \ {s}]
      <4>1. publishing[p].pc = "sending"
        BY <1>1 DEF Offer
      <4> DEFINE t == publishing[p]
      <4>2. t \in [pc : {"waiting", "sending"}, event : Event, todo : SUBSET Streams]
        BY <2>1
      <4> HIDE DEF t
      <4>3. [t EXCEPT !.todo = @ \ {s}] = [pc |-> t.pc, event |-> t.event, todo |-> t.todo \ {s}]
        BY <4>2
      <4> QED BY <4>1, <4>3 DEF t
    <3>2. publishing' = [publishing EXCEPT ![p] = [publishing[p] EXCEPT !.todo = @ \ {s}]]
      BY <1>1 DEF Offer, TypeOK
    <3> QED BY <1>1, <3>1, <3>2 DEF Offer
  <2>3. /\ buffer' \in [Streams -> Seq(Event)]
        /\ \A q \in Streams : Len(buffer'[q]) <= Capacity
    <3>1. CASE buffer' = buffer
      BY <3>1 DEF TypeOK
    <3>2. CASE /\ Len(buffer[s]) < Capacity
               /\ buffer' = [buffer EXCEPT ![s] = Append(@, publishing[p].event)]
      <4>1. /\ Append(buffer[s], publishing[p].event) \in Seq(Event)
            /\ Len(Append(buffer[s], publishing[p].event)) <= Capacity
        BY <2>1, <3>2, HubAssumption DEF TypeOK
      <4> QED BY <3>2, <4>1 DEF TypeOK
    <3> QED BY <1>1, <3>1, <3>2 DEF Offer, Room
  <2>4. publishing' \in [Publishers -> PublishCall]
    BY <2>1, <2>2 DEF TypeOK, PublishCall
  <2>5. TypeOK'
    BY <2>2, <2>3, <2>4 DEF TypeOK
  <2>6. ReadersSeeSubscribers'
    <3> SUFFICES ASSUME NEW q \in Publishers, publishing'[q].pc = "sending"
                 PROVE  publishing'[q].todo \subseteq subscribers
      BY <2>2 DEF ReadersSeeSubscribers, Readers
    <3>1. publishing[q].pc = "sending" /\ publishing'[q].todo \subseteq publishing[q].todo
      BY <1>1, <2>2 DEF Offer, TypeOK
    <3> QED BY <3>1 DEF ReadersSeeSubscribers, Readers
  <2> QED BY <2>2, <2>5, <2>6 DEF ClosedIsDone, SubscribersOpen
<1>2. CASE Return(p)
  <2>1. Silent \in PublishCall /\ Silent.pc # "sending"
    BY DEF PublishCall, Silent
  <2>2. TypeOK'
    BY <1>2, <2>1 DEF Return, TypeOK
  <2>3. ReadersSeeSubscribers'
    BY <1>2, <2>1 DEF Return, TypeOK, ReadersSeeSubscribers, Readers
  <2> QED BY <1>2, <2>2, <2>3 DEF Return, ClosedIsDone, SubscribersOpen
<1>3. ASSUME NEW n \in Notifications, Publish(p, n)
      PROVE  HubInv'
  <2> DEFINE event == [no |-> published + 1, notification |-> n]
             calls == [publishing EXCEPT ![p] =
                            [pc |-> "waiting", event |-> event, todo |-> {}]]
  <2>1. event \in Event /\ published + 1 \in 0..MaxEvents
    BY <1>3, HubAssumption DEF Publish, TypeOK, Event
  <2>2. calls \in [Publishers -> PublishCall]
    BY <2>1 DEF TypeOK, PublishCall
  <2>3. /\ published' = published + 1
        /\ UNCHANGED <<subscribers, closed, buffer, request, stream, gone, writer, got>>
    BY <1>3 DEF Publish
  <2>4. /\ publishing' \in [Publishers -> PublishCall]
        /\ due' \in [Streams -> SUBSET Event]
        /\ \A q \in Publishers : publishing'[q].pc = "sending" =>
                \/ publishing[q].pc = "sending" /\ publishing'[q] = publishing[q]
                \/ publishing'[q].todo = subscribers
    <3>1. publishing[p].pc = "idle" /\ calls[p].pc = "waiting"
      BY <1>3 DEF Publish, TypeOK
    <3>2. \A q \in Publishers \ {p} : calls[q] = publishing[q]
      BY DEF TypeOK
    <3>3. CASE writer = None
      <4>1. Admit(calls, subscribers)
        BY <1>3, <3>3 DEF Publish
      <4>2. /\ publishing' \in [Publishers -> PublishCall]
            /\ due' \in [Streams -> SUBSET Event]
            /\ \A q \in Publishers : calls[q].pc = "sending" => publishing'[q] = calls[q]
            /\ \A q \in Publishers : calls[q].pc # "sending" /\ publishing'[q].pc = "sending" =>
                    publishing'[q].todo = subscribers
        <5> HIDE DEF calls
        <5> QED BY <2>2, <4>1, AdmitLemma DEF TypeOK
      <4> QED BY <3>1, <3>2, <4>2
    <3>4. CASE writer # None
      <4>1. publishing' = calls /\ due' = due
        BY <1>3, <3>4 DEF Publish
      <4> QED BY <2>2, <3>1, <3>2, <4>1 DEF TypeOK
    <3> QED BY <3>3, <3>4
  <2>5. TypeOK'
    BY <2>1, <2>3, <2>4 DEF TypeOK
  <2>6. ReadersSeeSubscribers'
    BY <2>3, <2>4 DEF ReadersSeeSubscribers, Readers
  <2> QED BY <2>3, <2>5, <2>6 DEF ClosedIsDone, SubscribersOpen
<1> QED BY <1>1, <1>2, <1>3 DEF PublisherStep

----------------------------------------------------------------------------

\* The invariant holds in every reachable state.
THEOREM HubInvariant == Spec => []HubInv
<1>1. Init => HubInv
  <2> SUFFICES ASSUME Init PROVE HubInv
    OBVIOUS
  <2>1. Silent \in PublishCall /\ Silent.pc # "sending"
    BY DEF PublishCall, Silent
  <2>2. [pc |-> "idle", event |-> None] \in Handler
    BY DEF Handler
  <2>3. <<>> \in Seq(Event) /\ Len(<<>>) <= Capacity /\ 0 \in 0..MaxEvents
    BY HubAssumption
  <2>4. TypeOK
    BY <2>1, <2>2, <2>3 DEF Init, TypeOK
  <2> QED
    BY <2>1, <2>4 DEF Init, HubInv, ClosedIsDone, SubscribersOpen, ReadersSeeSubscribers, Readers
<1>2. HubInv /\ [Next]_vars => HubInv'
  <2> SUFFICES ASSUME HubInv, [Next]_vars PROVE HubInv'
    OBVIOUS
  <2>1. CASE UNCHANGED vars
    BY <2>1 DEF vars, HubInv, TypeOK, ClosedIsDone, SubscribersOpen, ReadersSeeSubscribers, Readers
  <2>2. ASSUME NEW s \in Streams, HandlerStep(s) \/ Client(s)
        PROVE  HubInv'
    BY <2>2, StreamKeepsInv, UnsubscribeKeepsInv DEF HandlerStep, Client
  <2>3. ASSUME NEW p \in Publishers, PublisherStep(p) \/ \E n \in Notifications : Publish(p, n)
        PROVE  HubInv'
    BY <2>3, PublisherKeepsInv
  <2> QED BY <2>1, <2>2, <2>3 DEF Next
<1> QED BY <1>1, <1>2, PTL DEF Spec

\* No publisher ever sends on a closed channel (hub.go:31-53).
THEOREM ClosedIsNotSentOn == Spec => []NoSendOnClosed
<1>1. HubInv => NoSendOnClosed
  BY DEF HubInv, SubscribersOpen, ReadersSeeSubscribers, NoSendOnClosed
<1> QED BY <1>1, HubInvariant, PTL

\* Every variable of the hub keeps its type, and no channel holds more than its
\* capacity (hub.go:25-53, notify.go:117-139).
THEOREM TypeCorrect == Spec => []TypeOK
<1>1. HubInv => TypeOK
  BY DEF HubInv
<1> QED BY <1>1, HubInvariant, PTL

----------------------------------------------------------------------------
(* The hub implements LossyFeed                                            *)

\* The subscribers are the handlers between Subscribe and Unsubscribe.
Subscribed ==
    subscribers = {s \in Streams : stream[s].pc \in {"receiving", "sending", "unsubscribing"}}

\* A handler's place in the code says whether it is subscribed.
LEMMA SubscribedInvariant == Spec => []Subscribed
<1>1. Init => Subscribed
  BY DEF Init, Subscribed
<1>2. TypeOK /\ Subscribed /\ [Next]_vars => Subscribed'
  <2> SUFFICES ASSUME TypeOK, Subscribed, [Next]_vars PROVE Subscribed'
    OBVIOUS
  <2>0. stream \in [Streams -> Handler]
    BY DEF TypeOK
  <2>1. CASE subscribers' = subscribers /\ stream' = stream
    BY <2>1 DEF Subscribed
  <2>2. ASSUME NEW s \in Streams, NEW r \in Request, Open(s, r)
        PROVE  Subscribed'
    BY <2>0, <2>2 DEF Open, Subscribed
  <2>3. ASSUME NEW s \in Streams, Subscribe(s)
        PROVE  Subscribed'
    BY <2>0, <2>3 DEF Subscribe, Exclusive, Subscribed
  <2>4. ASSUME NEW s \in Streams, Receive(s) \/ SendToClient(s) \/ SendFails(s)
        PROVE  Subscribed'
    BY <2>0, <2>4 DEF Receive, SendToClient, SendFails, Subscribed
  <2>5. ASSUME NEW s \in Streams, Unsubscribe(s)
        PROVE  Subscribed'
    BY <2>0, <2>5 DEF Unsubscribe, Exclusive, Forget, Subscribed
  <2>6. ASSUME NEW s \in Streams, Announce(s) \/ Vanish(s)
        PROVE  subscribers' = subscribers /\ stream' = stream
    BY <2>6 DEF Announce, Vanish
  <2>7. ASSUME NEW p \in Publishers,
               PublisherStep(p) \/ \E n \in Notifications : Publish(p, n)
        PROVE  subscribers' = subscribers /\ stream' = stream
    BY <2>7 DEF PublisherStep, Offer, Return, Publish
  <2> QED
    BY <2>1, <2>2, <2>3, <2>4, <2>5, <2>6, <2>7 DEF Next, HandlerStep, Client, vars
<1> QED BY <1>1, <1>2, TypeCorrect, PTL DEF Spec

\* The steps of a handler open, read and close its own channel.
LEMMA HandlerFeeds ==
    ASSUME HubInv, Subscribed, NEW s \in Streams, HandlerStep(s) \/ Client(s)
    PROVE  [Feed!Next]_(Feed!vars)
<1> USE DEF HubInv
<1>1. CASE Subscribe(s)
  <2>1. s \notin subscribers \cup closed
    BY <1>1 DEF Subscribe, Subscribed, ClosedIsDone
  <2>2. Feed!Open(s)
    BY <1>1, <2>1 DEF Subscribe, Exclusive, Feed!Open
  <2> QED BY <2>2 DEF Feed!Next
<1>2. CASE Receive(s)
  <2>1. Feed!Take(s)
    BY <1>2 DEF Receive, Subscribed, Feed!Take
  <2> QED BY <2>1 DEF Feed!Next
<1>3. CASE Unsubscribe(s)
  <2>1. Feed!Close(s)
    BY <1>3 DEF Unsubscribe, Exclusive, Forget, Subscribed, Feed!Close
  <2> QED BY <2>1 DEF Feed!Next
<1>4. CASE \/ Announce(s) \/ SendFails(s) \/ SendToClient(s) \/ Vanish(s)
           \/ \E r \in Request : Open(s, r)
  BY <1>4 DEF Announce, SendFails, SendToClient, Vanish, Open, Feed!vars
<1> QED BY <1>1, <1>2, <1>3, <1>4 DEF HandlerStep, Client

\* A publisher puts an event into the channel of a subscriber or nowhere.
LEMMA PublisherFeeds ==
    ASSUME HubInv, NEW p \in Publishers,
           PublisherStep(p) \/ \E n \in Notifications : Publish(p, n)
    PROVE  [Feed!Next]_(Feed!vars)
<1> USE DEF HubInv
<1>1. ASSUME NEW s \in Streams, Offer(p, s)
      PROVE  [Feed!Next]_(Feed!vars)
  <2>1. CASE buffer' = buffer
    BY <1>1, <2>1 DEF Offer, Feed!vars
  <2>2. CASE /\ Room(s)
             /\ buffer' = [buffer EXCEPT ![s] = Append(@, publishing[p].event)]
    <3>1. s \in subscribers
      BY <1>1 DEF Offer, ReadersSeeSubscribers, Readers
    <3>2. publishing[p].event \in Event
      BY <1>1 DEF Offer, TypeOK, PublishCall, Silent
    <3>3. Feed!Put(s, publishing[p].event)
      BY <1>1, <2>2, <3>1 DEF Offer, Room, Feed!Put
    <3> QED BY <3>2, <3>3 DEF Feed!Next
  <2> QED BY <1>1, <2>1, <2>2 DEF Offer
<1>2. CASE Return(p) \/ \E n \in Notifications : Publish(p, n)
  BY <1>2 DEF Return, Publish, Feed!vars
<1> QED BY <1>1, <1>2 DEF PublisherStep

\* The hub implements LossyFeed: every step of it is a step of the subscribers'
\* channels or leaves them alone (hub.go:25-53, notify.go:117-139).
THEOREM ImplementsFeed == Spec => FeedSpec
<1>1. Init => Feed!Init
  BY DEF Init, Feed!Init
<1>2. HubInv /\ Subscribed /\ [Next]_vars => [Feed!Next]_(Feed!vars)
  <2> SUFFICES ASSUME HubInv, Subscribed, [Next]_vars PROVE [Feed!Next]_(Feed!vars)
    OBVIOUS
  <2>1. CASE UNCHANGED vars
    BY <2>1 DEF vars, Feed!vars
  <2> QED BY <2>1, HandlerFeeds, PublisherFeeds DEF Next
<1> QED BY <1>1, <1>2, HubInvariant, SubscribedInvariant, PTL DEF Spec, FeedSpec, Feed!Spec
=============================================================================
