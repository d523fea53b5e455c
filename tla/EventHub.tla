------------------------------ MODULE EventHub ------------------------------
(***************************************************************************)
(* The delivery-event hub (internal/events/hub.go) with the goroutines     *)
(* around it: publishers, and one StreamDeliveryStatus handler             *)
(* (internal/server/notify.go) per watching client.  The hub's RWMutex is  *)
(* modelled with Go's rule that a waiting writer holds back new readers:   *)
(* a publisher holds the read lock while it goes over the subscribers,     *)
(* Subscribe and Unsubscribe take the write lock.                          *)
(***************************************************************************)
EXTENDS Naturals, Sequences, FiniteSets

CONSTANTS
    Streams,        \* StreamDeliveryStatus calls, one subscriber each
    Publishers,     \* goroutines that call Publish
    Notifications,
    Services,
    Owner,          \* the service of each notification
    Empty,          \* the empty filter
    None,
    Capacity,       \* of a subscriber's channel
    MaxEvents       \* bound: events published in one behaviour

Event == [no : 1..MaxEvents, notification : Notifications]

ASSUME HubAssumption ==
    /\ Owner \in [Notifications -> Services]
    /\ Empty \notin Notifications \cup Services
    /\ None \notin Streams \cup Publishers \cup Event
    /\ Capacity \in Nat \ {0}
    /\ MaxEvents \in Nat

VARIABLES
    subscribers,  \* h.subscribers
    closed,       \* streams whose channel was closed
    buffer,       \* buffer[s]: the channel sub.Events
    request,      \* request[s]: the filters of the stream
    stream,       \* stream[s]: the handler
    gone,         \* streams whose client has gone away
    writer,       \* the stream that waits for, or holds, the write lock
    publishing,   \* publishing[p]: the Publish call of p
    published,    \* events so far
    got,          \* history: got[s], the events sent to the client
    due           \* history: due[s], matching events published while s was subscribed

vars == <<subscribers, closed, buffer, request, stream, gone, writer,
          publishing, published, got, due>>

Request == {r \in [notification : Notifications \cup {Empty}, service : Services \cup {Empty}] :
                r.notification # Empty \/ r.service # Empty}
NoRequest == [notification |-> Empty, service |-> Empty]

Handler ==
    [pc : {"idle", "subscribing", "receiving", "unsubscribing", "done"}, event : {None}]
        \cup [pc : {"sending"}, event : Event]

Silent == [pc |-> "idle", event |-> None, todo |-> {}]
PublishCall ==
    {Silent} \cup [pc : {"waiting", "sending"}, event : Event, todo : SUBSET Streams]

\* Every variable holds a value of its type, and no channel is over capacity.
TypeOK ==
    /\ subscribers \subseteq Streams
    /\ closed \subseteq Streams
    /\ buffer \in [Streams -> Seq(Event)]
    /\ \A s \in Streams : Len(buffer[s]) <= Capacity
    /\ request \in [Streams -> Request \cup {NoRequest}]
    /\ stream \in [Streams -> Handler]
    /\ gone \subseteq Streams
    /\ writer \in Streams \cup {None}
    /\ publishing \in [Publishers -> PublishCall]
    /\ published \in 0..MaxEvents
    /\ got \in [Streams -> Seq(Event)]
    /\ due \in [Streams -> SUBSET Event]

Init ==
    /\ subscribers = {}
    /\ closed = {}
    /\ buffer = [s \in Streams |-> <<>>]
    /\ request = [s \in Streams |-> NoRequest]
    /\ stream = [s \in Streams |-> [pc |-> "idle", event |-> None]]
    /\ gone = {}
    /\ writer = None
    /\ publishing = [p \in Publishers |-> Silent]
    /\ published = 0
    /\ got = [s \in Streams |-> <<>>]
    /\ due = [s \in Streams |-> {}]

matchesFilter(r, e) ==
    /\ r.notification \in {Empty, e.notification}
    /\ r.service \in {Empty, Owner[e.notification]}

----------------------------------------------------------------------------
(* The lock                                                                *)

Readers == {p \in Publishers : publishing[p].pc = "sending"}

\* The waiting publishers of calls get the read lock and range over subs.
Admit(calls, subs) ==
    LET waiting == {p \in Publishers : calls[p].pc = "waiting"} IN
    /\ publishing' = [p \in Publishers |->
                        IF p \in waiting
                        THEN [calls[p] EXCEPT !.pc = "sending", !.todo = subs]
                        ELSE calls[p]]
    /\ due' = [s \in Streams |->
                 IF s \notin subs THEN {} ELSE
                 due[s] \cup {calls[p].event : p \in {q \in waiting :
                     matchesFilter(request[s], calls[q].event)}}]

\* mu.Lock() of a handler: from here on new readers wait.
Announce(s) ==
    /\ stream[s].pc \in {"subscribing", "unsubscribing"}
    /\ writer = None
    /\ writer' = s
    /\ UNCHANGED <<subscribers, closed, buffer, request, stream, gone, publishing,
                   published, got, due>>

\* The critical section of a writer, with its deferred Unlock.
Exclusive(s, subs) ==
    /\ writer = s
    /\ Readers = {}
    /\ subscribers' = subs
    /\ writer' = None
    /\ Admit(publishing, subs)

----------------------------------------------------------------------------
(* StreamDeliveryStatus                                                    *)

\* A client opens a stream for a notification, a service or both.
Open(s, r) ==
    /\ stream[s].pc = "idle"
    /\ request' = [request EXCEPT ![s] = r]
    /\ stream' = [stream EXCEPT ![s].pc = "subscribing"]
    /\ UNCHANGED <<subscribers, closed, buffer, gone, writer, publishing, published, got, due>>

Subscribe(s) ==
    /\ stream[s].pc = "subscribing"
    /\ Exclusive(s, subscribers \cup {s})
    /\ stream' = [stream EXCEPT ![s].pc = "receiving"]
    /\ UNCHANGED <<closed, buffer, request, gone, published, got>>

\* for event := range sub.Events.  Only the handler's own Unsubscribe closes
\* the channel, so the loop never ends by itself.
Receive(s) ==
    /\ stream[s].pc = "receiving"
    /\ buffer[s] # <<>>
    /\ stream' = [stream EXCEPT ![s] = [pc |-> "sending", event |-> Head(buffer[s])]]
    /\ buffer' = [buffer EXCEPT ![s] = Tail(@)]
    /\ UNCHANGED <<subscribers, closed, request, gone, writer, publishing, published, got, due>>

\* stream.Send succeeds once the client reads, however long that takes.
SendToClient(s) ==
    /\ stream[s].pc = "sending"
    /\ s \notin gone
    /\ got' = [got EXCEPT ![s] = Append(@, stream[s].event)]
    /\ stream' = [stream EXCEPT ![s] = [pc |-> "receiving", event |-> None]]
    /\ UNCHANGED <<subscribers, closed, buffer, request, gone, writer, publishing, published, due>>

\* stream.Send fails once the client is gone; the handler returns.
SendFails(s) ==
    /\ stream[s].pc = "sending"
    /\ s \in gone
    /\ stream' = [stream EXCEPT ![s] = [pc |-> "unsubscribing", event |-> None]]
    /\ UNCHANGED <<subscribers, closed, buffer, request, gone, writer, publishing,
                   published, got, due>>

\* The channel is closed, and the handler returns: nobody reads what is left.
Forget(s) ==
    /\ closed' = closed \cup {s}
    /\ buffer' = [buffer EXCEPT ![s] = <<>>]
    /\ request' = [request EXCEPT ![s] = NoRequest]
    /\ got' = [got EXCEPT ![s] = <<>>]
    /\ stream' = [stream EXCEPT ![s].pc = "done"]

\* Mutated form of Unsubscribe: the channel is closed without the lock.
UnsubscribeUnlocked(s) ==
    /\ stream[s].pc = "unsubscribing"
    /\ writer = s
    /\ subscribers' = subscribers \ {s}
    /\ writer' = None
    /\ Admit(publishing, subscribers \ {s})
    /\ Forget(s)
    /\ UNCHANGED <<gone, published>>

\* The deferred Unsubscribe: close the channel and forget the subscriber.
Unsubscribe(s) ==
    /\ stream[s].pc = "unsubscribing"
    /\ Exclusive(s, subscribers \ {s})
    /\ Forget(s)
    /\ UNCHANGED <<gone, published>>

\* The client of an open stream goes away; only Send would notice.
Vanish(s) ==
    /\ stream[s].pc \in {"receiving", "sending"}
    /\ s \notin gone
    /\ gone' = gone \cup {s}
    /\ UNCHANGED <<subscribers, closed, buffer, request, stream, writer, publishing,
                   published, got, due>>

----------------------------------------------------------------------------
(* Publish                                                                 *)

\* mu.RLock(): granted at once unless a writer waits.
Publish(p, n) ==
    /\ publishing[p].pc = "idle"
    /\ published < MaxEvents
    /\ published' = published + 1
    /\ LET event == [no |-> published + 1, notification |-> n]
           calls == [publishing EXCEPT ![p] = [pc |-> "waiting", event |-> event, todo |-> {}]]
       IN  IF writer = None
           THEN Admit(calls, subscribers)
           ELSE publishing' = calls /\ UNCHANGED due
    /\ UNCHANGED <<subscribers, closed, buffer, request, stream, gone, writer, got>>

\* Mutated forms of Room: full is not looked at, the last place is never used.
RoomAlways(s) == TRUE
RoomButOne(s) == Len(buffer[s]) < Capacity - 1

\* A send on the channel of s would not block.
Room(s) == Len(buffer[s]) < Capacity

\* Mutated form of Offer: a channel send without the default case.
OfferBlocking(p, s) ==
    /\ publishing[p].pc = "sending"
    /\ s \in publishing[p].todo
    /\ LET matches == matchesFilter(request[s], publishing[p].event) IN
        /\ matches => Room(s)
        /\ buffer' = IF matches
                     THEN [buffer EXCEPT ![s] = Append(@, publishing[p].event)]
                     ELSE buffer
    /\ publishing' = [publishing EXCEPT ![p].todo = @ \ {s}]
    /\ UNCHANGED <<subscribers, closed, request, stream, gone, writer, published, got, due>>

\* One turn of the loop over the subscribers: a matching one gets the event
\* unless its channel is full.
Offer(p, s) ==
    /\ publishing[p].pc = "sending"
    /\ s \in publishing[p].todo
    /\ buffer' = IF matchesFilter(request[s], publishing[p].event) /\ Room(s)
                 THEN [buffer EXCEPT ![s] = Append(@, publishing[p].event)]
                 ELSE buffer
    /\ publishing' = [publishing EXCEPT ![p].todo = @ \ {s}]
    /\ UNCHANGED <<subscribers, closed, request, stream, gone, writer, published, got, due>>

\* The loop is over: mu.RUnlock().
Return(p) ==
    /\ publishing[p].pc = "sending"
    /\ publishing[p].todo = {}
    /\ publishing' = [publishing EXCEPT ![p] = Silent]
    /\ UNCHANGED <<subscribers, closed, buffer, request, stream, gone, writer,
                   published, got, due>>

----------------------------------------------------------------------------

HandlerStep(s) ==
    \/ Announce(s)
    \/ Subscribe(s)
    \/ Receive(s)
    \/ SendFails(s)
    \/ Unsubscribe(s)

PublisherStep(p) ==
    \/ \E s \in Streams : Offer(p, s)
    \/ Return(p)

Client(s) ==
    \/ \E r \in Request : Open(s, r)
    \/ SendToClient(s)
    \/ Vanish(s)

Next ==
    \/ \E s \in Streams : HandlerStep(s) \/ Client(s)
    \/ \E p \in Publishers : PublisherStep(p) \/ \E n \in Notifications : Publish(p, n)

Spec == Init /\ [][Next]_vars

\* Goroutines that can go on do; no client is obliged to open a stream, to
\* read from it or to go away, and nobody to publish.
Fairness ==
    /\ \A s \in Streams : WF_vars(HandlerStep(s))
    /\ \A p \in Publishers : WF_vars(PublisherStep(p))

FairSpec == Spec /\ Fairness

----------------------------------------------------------------------------
(* Properties                                                              *)

\* A publisher that goes over the subscribers never meets a closed channel, a
\* send on which would panic: Unsubscribe closes under the write lock
\* (hub.go:31-53).
NoSendOnClosed ==
    \A p \in Readers : publishing[p].todo \cap closed = {}

\* What s received, is being sent, or will receive.
Seen(s) ==
    {got[s][i] : i \in DOMAIN got[s]}
        \cup {buffer[s][i] : i \in DOMAIN buffer[s]}
        \cup ({stream[s].event} \ {None})

\* A watcher misses nothing as long as no more matching events were published
\* than its channel holds: every one is there or still on its way, until its
\* handler gives up (hub.go:44-51, notify.go:121-139).
NothingMissedWithinCapacity ==
    \A s \in subscribers :
        stream[s].pc # "unsubscribing" /\ Cardinality(due[s]) <= Capacity =>
            \A e \in due[s] :
                \/ e \in Seen(s)
                \/ \E p \in Readers : publishing[p].event = e /\ s \in publishing[p].todo

\* Every watcher's channel is a lossy bounded FIFO that nobody writes to before
\* it is opened or after it is closed, whatever publishers and handlers
\* interleave (hub.go:25-53).
Feed == INSTANCE LossyFeed
            WITH Readers <- Streams, Items <- Event, open <- subscribers, queue <- buffer
FeedSpec == Feed!Spec

\* Publish never waits for a client, one that does not read included
\* (hub.go:46-50, "Non-blocking: skip if subscriber buffer is full").
PublishReturns ==
    \A p \in Publishers : publishing[p].pc # "idle" ~> publishing[p].pc = "idle"

\* A handler whose client is gone gives its subscription up once an event for
\* it arrives, also while publishers and other handlers contend for the lock
\* (notify.go:124-138).
GoneIsReleased ==
    \A s \in Streams :
        s \in gone /\ (buffer[s] # <<>> \/ stream[s].pc = "sending") ~> s \notin subscribers
=============================================================================
