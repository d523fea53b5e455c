------------------------ MODULE EventDeliveryProofs -------------------------
(***************************************************************************)
(* That EventHub loses no event while a watcher's channel could hold all   *)
(* the events due to it, for any watchers, publishers, events and          *)
(* capacity.  The argument counts: a channel that is full holds as many    *)
(* different events as its capacity, all of them due, and the event that   *)
(* finds no room is due as well.                                           *)
(***************************************************************************)
EXTENDS EventHubProofs, FunctionTheorems, FiniteSetTheorems

\* Events are numbered: no two in calls have the same number, nor two due to one
\* stream, nor one that is due and one that waits for the lock.
Numbers(calls, owed, last) ==
    /\ \A p \in Publishers : calls[p].pc # "idle" => calls[p].event.no <= last
    /\ \A p, q \in Publishers :
        calls[p].pc # "idle" /\ calls[q].pc # "idle" /\ calls[p].event.no = calls[q].event.no
            => p = q
    /\ \A s \in Streams : \A e \in owed[s] : e.no <= last
    /\ \A s \in Streams : \A e, f \in owed[s] : e.no = f.no => e = f
    /\ \A s \in Streams, p \in Publishers : \A e \in owed[s] :
        calls[p].pc = "waiting" => e.no # calls[p].event.no

Numbered == Numbers(publishing, due, published)

\* Only what is due goes through a channel, and nothing twice.
ChannelInv(s) ==
    /\ s \notin subscribers => due[s] = {} /\ buffer[s] = <<>>
    /\ \A e \in due[s] : matchesFilter(request[s], e)
    /\ \A i \in 1..Len(buffer[s]) : buffer[s][i] \in due[s]
    /\ \A i, j \in 1..Len(buffer[s]) : buffer[s][i] = buffer[s][j] => i = j
    /\ \A p \in Publishers :
        /\ publishing[p].pc = "sending"
        /\ s \in publishing[p].todo
        /\ matchesFilter(request[s], publishing[p].event)
        => /\ publishing[p].event \in due[s]
           /\ \A i \in 1..Len(buffer[s]) : buffer[s][i] # publishing[p].event

\* The event is on its way to the stream.
OnItsWay(s, e) ==
    \E p \in Publishers :
        /\ publishing[p].pc = "sending"
        /\ publishing[p].event = e
        /\ s \in publishing[p].todo

\* NothingMissedWithinCapacity for one stream.
NothingMissed(s) ==
    s \in subscribers /\ stream[s].pc # "unsubscribing" /\ Cardinality(due[s]) <= Capacity =>
        \A e \in due[s] : e \in Seen(s) \/ OnItsWay(s, e)

DeliveryInv == Numbered /\ \A s \in Streams : ChannelInv(s) /\ NothingMissed(s)

----------------------------------------------------------------------------
(* Counting                                                                *)

\* Events of different numbers are finitely many.
LEMMA NumberedFinite ==
    ASSUME NEW E \in SUBSET Event, \A d, e \in E : d.no = e.no => d = e
    PROVE  IsFiniteSet(E)
<1> DEFINE f == [e \in E |-> e.no]
<1>1. MaxEvents \in Nat
  BY HubAssumption
<1>2. \A e \in E : e.no \in 1..MaxEvents
  BY DEF Event
<1>3. f \in [E -> 1..MaxEvents]
  BY <1>2
<1>4. \A d, e \in E : f[d] = f[e] => d = e
  OBVIOUS
<1>5. f \in Injection(E, 1..MaxEvents)
  <2> HIDE DEF f
  <2> QED BY <1>3, <1>4, Fun_IsInj
<1>6. IsFiniteSet(1..MaxEvents)
  BY <1>1, FS_Interval
<1> QED
  <2> HIDE DEF f
  <2> QED BY <1>5, <1>6, FS_Injection

\* So what is due to a stream is finite.
LEMMA DueFinite ==
    ASSUME TypeOK, Numbered, NEW s \in Streams
    PROVE  IsFiniteSet(due[s])
BY NumberedFinite DEF TypeOK, Numbered, Numbers

\* A full channel and one event more that is due are more than its capacity.
LEMMA FullChannel ==
    ASSUME TypeOK, Numbered, NEW s \in Streams, ChannelInv(s), ~Room(s), NEW e \in due[s],
           \A i \in 1..Len(buffer[s]) : buffer[s][i] # e
    PROVE  ~(Cardinality(due[s]) <= Capacity)
<1> DEFINE b == buffer[s]
           g == [i \in 1..Capacity + 1 |-> IF i = Capacity + 1 THEN e ELSE b[i]]
<1>1. Len(b) = Capacity /\ Capacity \in Nat
  <2>1. b \in Seq(Event) /\ Len(b) <= Capacity /\ ~(Len(b) < Capacity) /\ Capacity \in Nat
    BY HubAssumption DEF TypeOK, Room
  <2>2. Len(b) \in Nat
    BY <2>1
  <2> HIDE DEF b
  <2> QED BY <2>1, <2>2
<1>2. \A i \in 1..Capacity + 1 : i = Capacity + 1 \/ i \in 1..Len(b)
  <2> HIDE DEF b
  <2> QED BY <1>1
<1>3. /\ \A i \in 1..Len(b) : b[i] \in due[s] /\ b[i] # e
      /\ \A i, j \in 1..Len(b) : b[i] = b[j] => i = j
  BY DEF ChannelInv
<1>4. g \in [1..Capacity + 1 -> due[s]]
  <2> HIDE DEF b
  <2> QED BY <1>2, <1>3
<1>5. \A i, j \in 1..Capacity + 1 : g[i] = g[j] => i = j
  <2> HIDE DEF b
  <2> QED BY <1>2, <1>3
<1>6. g \in Injection(1..Capacity + 1, due[s])
  <2> HIDE DEF g
  <2> QED BY <1>4, <1>5, Fun_IsInj
<1>7. Cardinality(1..Capacity + 1) <= Cardinality(due[s])
  <2> HIDE DEF g
  <2> QED BY <1>6, DueFinite, FS_Injection
<1>8. Cardinality(1..Capacity + 1) = Capacity + 1
  <2>1. 1 \in Int /\ Capacity + 1 \in Int /\ ~(1 > Capacity + 1)
    BY <1>1
  <2>2. Cardinality(1..Capacity + 1) = (Capacity + 1) - 1 + 1
    BY <2>1, FS_Interval
  <2> QED BY <1>1, <2>2
<1>9. Cardinality(due[s]) \in Nat
  BY DueFinite, FS_CardinalityType
<1> QED BY <1>1, <1>7, <1>8, <1>9

----------------------------------------------------------------------------
(* The publishers that are let in                                          *)

\* What Admit does to the calls and to what is due.
LEMMA AdmitOwes ==
    ASSUME TypeOK, NEW calls \in [Publishers -> PublishCall], NEW subs \in SUBSET Streams,
           Admit(calls, subs)
    PROVE  /\ \A p \in Publishers :
                /\ calls[p].pc = "waiting" =>
                    publishing'[p] = [pc |-> "sending", event |-> calls[p].event, todo |-> subs]
                /\ calls[p].pc # "waiting" => publishing'[p] = calls[p]
           /\ \A s \in Streams \ subs : due'[s] = {}
           /\ \A s \in subs :
                /\ due[s] \subseteq due'[s]
                /\ \A e \in due'[s] :
                    \/ e \in due[s]
                    \/ \E p \in Publishers :
                        /\ calls[p].pc = "waiting" /\ calls[p].event = e
                        /\ matchesFilter(request[s], e)
                /\ \A p \in Publishers :
                    calls[p].pc = "waiting" /\ matchesFilter(request[s], calls[p].event) =>
                        calls[p].event \in due'[s]
<1> DEFINE waiting == {p \in Publishers : calls[p].pc = "waiting"}
<1>1. \A p \in Publishers :
        publishing'[p] = IF p \in waiting
                         THEN [calls[p] EXCEPT !.pc = "sending", !.todo = subs]
                         ELSE calls[p]
  BY DEF Admit
<1>2. ASSUME NEW p \in Publishers, calls[p].pc = "waiting"
      PROVE  publishing'[p] = [pc |-> "sending", event |-> calls[p].event, todo |-> subs]
  <2>1. calls[p] \in [pc : {"waiting", "sending"}, event : Event, todo : SUBSET Streams]
    BY <1>2 DEF PublishCall, Silent
  <2> QED BY <1>1, <1>2, <2>1
<1>3. \A s \in Streams :
        due'[s] = IF s \notin subs THEN {} ELSE
                  due[s] \cup {calls[p].event : p \in {q \in waiting :
                      matchesFilter(request[s], calls[q].event)}}
  BY DEF Admit
<1>4. \A p \in Publishers : calls[p].pc # "waiting" => publishing'[p] = calls[p]
  BY <1>1
<1>5. \A s \in Streams \ subs : due'[s] = {}
  BY <1>3
<1>6. \A s \in subs :
        due'[s] = due[s] \cup {calls[p].event : p \in {q \in waiting :
                      matchesFilter(request[s], calls[q].event)}}
  BY <1>3
<1>7. \A s \in subs :
        /\ due[s] \subseteq due'[s]
        /\ \A e \in due'[s] :
            \/ e \in due[s]
            \/ \E p \in Publishers :
                /\ calls[p].pc = "waiting" /\ calls[p].event = e
                /\ matchesFilter(request[s], e)
        /\ \A p \in Publishers :
            calls[p].pc = "waiting" /\ matchesFilter(request[s], calls[p].event) =>
                calls[p].event \in due'[s]
  BY <1>6
<1> QED BY <1>2, <1>4, <1>5, <1>7

\* The numbers stay apart.
LEMMA AdmitNumbers ==
    ASSUME TypeOK, NEW calls \in [Publishers -> PublishCall], NEW subs \in SUBSET Streams,
           Admit(calls, subs), NEW last \in Nat, Numbers(calls, due, last)
    PROVE  Numbers(publishing', due', last)
<1>1. \A p \in Publishers :
        /\ publishing'[p].pc # "waiting"
        /\ publishing'[p].pc = "idle" <=> calls[p].pc = "idle"
        /\ publishing'[p].pc # "idle" => publishing'[p].event = calls[p].event
  <2>1. \A p \in Publishers :
        /\ calls[p].pc = "waiting" =>
            publishing'[p] = [pc |-> "sending", event |-> calls[p].event, todo |-> subs]
        /\ calls[p].pc # "waiting" => publishing'[p] = calls[p]
    BY AdmitOwes
  <2>2. ASSUME NEW p \in Publishers, calls[p].pc = "waiting"
        PROVE  publishing'[p].pc = "sending" /\ publishing'[p].event = calls[p].event
    <3>1. publishing'[p] = [pc |-> "sending", event |-> calls[p].event, todo |-> subs]
      BY <2>1, <2>2
    <3> QED BY <3>1
  <2>3. ASSUME NEW p \in Publishers, calls[p].pc # "waiting"
        PROVE  publishing'[p] = calls[p]
    BY <2>1, <2>3
  <2> QED BY <2>2, <2>3
<1>2. ASSUME NEW s \in Streams, NEW e \in due'[s]
      PROVE  e \in due[s] \/ \E p \in Publishers : calls[p].pc = "waiting" /\ calls[p].event = e
  BY <1>2, AdmitOwes
<1>3. \A p \in Publishers : publishing'[p].pc # "idle" => publishing'[p].event.no <= last
  BY <1>1 DEF Numbers
<1>4. \A p, q \in Publishers :
        /\ publishing'[p].pc # "idle" /\ publishing'[q].pc # "idle"
        /\ publishing'[p].event.no = publishing'[q].event.no
        => p = q
  BY <1>1 DEF Numbers
<1>5. \A s \in Streams : \A e \in due'[s] : e.no <= last
  BY <1>2 DEF Numbers
<1>6. \A s \in Streams : \A e, f \in due'[s] : e.no = f.no => e = f
  <2> SUFFICES ASSUME NEW s \in Streams, NEW e \in due'[s], NEW f \in due'[s], e.no = f.no
               PROVE  e = f
    OBVIOUS
  <2>1. CASE e \in due[s] /\ f \in due[s]
    BY <2>1 DEF Numbers
  <2>2. CASE e \notin due[s]
    <3>1. PICK p \in Publishers : calls[p].pc = "waiting" /\ calls[p].event = e
      BY <1>2, <2>2
    <3> QED BY <1>2, <3>1 DEF Numbers
  <2>3. CASE f \notin due[s]
    <3>1. PICK p \in Publishers : calls[p].pc = "waiting" /\ calls[p].event = f
      BY <1>2, <2>3
    <3> QED BY <1>2, <3>1 DEF Numbers
  <2> QED BY <2>1, <2>2, <2>3
<1> QED BY <1>1, <1>3, <1>4, <1>5, <1>6 DEF Numbers

\* A stream that is subscribed and that the critical section leaves alone goes
\* on as before, with more that is due and on its way.
LEMMA AdmitServes ==
    ASSUME TypeOK, Numbered, NEW calls \in [Publishers -> PublishCall],
           NEW subs \in SUBSET Streams, Admit(calls, subs),
           \A p \in Publishers : calls[p].pc = "sending" => calls[p] = publishing[p],
           \A p \in Publishers : publishing[p].pc = "sending" => calls[p] = publishing[p],
           TypeOK', Numbered', subscribers' = subs,
           NEW s \in subs, ChannelInv(s), NothingMissed(s),
           UNCHANGED <<buffer[s], request[s], got[s]>>,
           s \in subscribers => UNCHANGED stream[s],
           \A p \in Publishers : calls[p].pc = "waiting" =>
                \A e \in due[s] : e.no # calls[p].event.no
    PROVE  ChannelInv(s)' /\ NothingMissed(s)'
<1>1. /\ due[s] \subseteq due'[s]
      /\ \A e \in due'[s] :
            \/ e \in due[s]
            \/ \E p \in Publishers : /\ calls[p].pc = "waiting" /\ calls[p].event = e
                                     /\ matchesFilter(request[s], e)
      /\ \A p \in Publishers :
            calls[p].pc = "waiting" /\ matchesFilter(request[s], calls[p].event) =>
                calls[p].event \in due'[s]
  BY AdmitOwes
<1>2. \A p \in Publishers :
        /\ calls[p].pc = "waiting" =>
            publishing'[p] = [pc |-> "sending", event |-> calls[p].event, todo |-> subs]
        /\ calls[p].pc # "waiting" => publishing'[p] = calls[p]
  BY AdmitOwes
<1>3. ASSUME NEW p \in Publishers, publishing'[p].pc = "sending"
      PROVE  \/ publishing[p] = publishing'[p]
             \/ calls[p].pc = "waiting" /\ publishing'[p].event = calls[p].event
  <2>1. CASE calls[p].pc = "waiting"
    <3>1. publishing'[p] = [pc |-> "sending", event |-> calls[p].event, todo |-> subs]
      BY <1>2, <2>1
    <3>2. publishing'[p].event = calls[p].event
      BY <3>1
    <3> QED BY <2>1, <3>2
  <2>2. CASE calls[p].pc # "waiting"
    <3>1. publishing'[p] = calls[p]
      BY <1>2, <2>2
    <3> QED BY <1>3, <3>1
  <2> QED BY <2>1, <2>2
<1>4. ChannelInv(s)'
  <2>1. \A e \in due'[s] : matchesFilter(request'[s], e)
    BY <1>1 DEF ChannelInv
  <2>2. ASSUME NEW p \in Publishers, publishing'[p].pc = "sending", s \in publishing'[p].todo,
               matchesFilter(request'[s], publishing'[p].event)
        PROVE  /\ publishing'[p].event \in due'[s]
               /\ \A i \in 1..Len(buffer'[s]) : buffer'[s][i] # publishing'[p].event
    <3>1. CASE publishing[p] = publishing'[p]
      BY <1>1, <2>2, <3>1 DEF ChannelInv
    <3>2. CASE calls[p].pc = "waiting" /\ publishing'[p].event = calls[p].event
      <4>1. \A i \in 1..Len(buffer[s]) : buffer[s][i] \in due[s]
        BY DEF ChannelInv
      <4> QED BY <1>1, <2>2, <3>2, <4>1
    <3> QED BY <1>3, <2>2, <3>1, <3>2
  <2> QED BY <1>1, <2>1, <2>2 DEF ChannelInv, matchesFilter
<1>5. NothingMissed(s)'
  <2> SUFFICES ASSUME stream'[s].pc # "unsubscribing", Cardinality(due'[s]) <= Capacity,
                      NEW e \in due'[s]
               PROVE  e \in Seen(s)' \/ OnItsWay(s, e)'
    BY DEF NothingMissed
  <2>1. CASE e \in due[s]
    <3>1. s \in subscribers /\ UNCHANGED stream[s]
      BY <2>1 DEF ChannelInv
    <3>2. Cardinality(due[s]) <= Capacity
      <4>1. IsFiniteSet(due'[s]) /\ IsFiniteSet(due[s])
        <5>1. due'[s] \in SUBSET Event /\ \A d, f \in due'[s] : d.no = f.no => d = f
          BY DEF TypeOK, Numbered, Numbers
        <5> QED BY <5>1, DueFinite, NumberedFinite
      <4>2. Cardinality(due[s]) <= Cardinality(due'[s])
        BY <1>1, <4>1, FS_Subset
      <4>3. Cardinality(due[s]) \in Nat /\ Cardinality(due'[s]) \in Nat /\ Capacity \in Nat
        BY <4>1, FS_CardinalityType, HubAssumption
      <4> QED BY <4>2, <4>3
    <3>3. e \in Seen(s) \/ OnItsWay(s, e)
      BY <2>1, <3>1, <3>2 DEF NothingMissed
    <3>4. Seen(s)' = Seen(s)
      BY <3>1 DEF Seen
    <3>5. OnItsWay(s, e) => OnItsWay(s, e)'
      BY <1>2 DEF OnItsWay
    <3> QED BY <3>3, <3>4, <3>5
  <2>2. CASE e \notin due[s]
    <3>1. PICK p \in Publishers : calls[p].pc = "waiting" /\ calls[p].event = e
      BY <1>1, <2>2
    <3>2. publishing'[p] = [pc |-> "sending", event |-> e, todo |-> subs]
      BY <1>2, <3>1
    <3>3. publishing'[p].pc = "sending" /\ publishing'[p].event = e /\ s \in publishing'[p].todo
      BY <3>2
    <3> QED BY <3>3 DEF OnItsWay
  <2> QED BY <2>1, <2>2
<1> QED BY <1>4, <1>5

----------------------------------------------------------------------------
(* One stream at a time                                                    *)

\* Nothing is due to a stream that is not subscribed.
LEMMA NotSubscribed ==
    ASSUME NEW t \in Streams, t \notin subscribers', due'[t] = {}, buffer'[t] = <<>>,
           ReadersSeeSubscribers'
    PROVE  ChannelInv(t)' /\ NothingMissed(t)'
<1>1. \A p \in Publishers : publishing'[p].pc = "sending" => t \notin publishing'[p].todo
  BY DEF ReadersSeeSubscribers, Readers
<1>2. Len(buffer'[t]) = 0
  OBVIOUS
<1> QED BY <1>1, <1>2 DEF ChannelInv, NothingMissed

\* What was seen or on its way still is.
LEMMA MoreSeen ==
    ASSUME NEW t \in Streams, NothingMissed(t), UNCHANGED <<subscribers, due[t]>>,
           stream'[t].pc = "unsubscribing" \/ Seen(t) \subseteq Seen(t)',
           stream[t].pc = "unsubscribing" => stream'[t].pc = "unsubscribing",
           \A q \in Publishers :
            publishing[q].pc = "sending" /\ t \in publishing[q].todo =>
                \/ /\ publishing'[q].pc = "sending" /\ t \in publishing'[q].todo
                   /\ publishing'[q].event = publishing[q].event
                \/ publishing[q].event \in Seen(t)'
                \/ publishing[q].event \notin due[t]
                \/ ~(Cardinality(due[t]) <= Capacity)
    PROVE  NothingMissed(t)'
<1> SUFFICES ASSUME t \in subscribers, stream'[t].pc # "unsubscribing",
                    Cardinality(due[t]) <= Capacity, NEW e \in due[t]
             PROVE  e \in Seen(t)' \/ OnItsWay(t, e)'
  BY DEF NothingMissed
<1>1. e \in Seen(t) \/ OnItsWay(t, e)
  BY DEF NothingMissed
<1>2. OnItsWay(t, e) => e \in Seen(t)' \/ OnItsWay(t, e)'
  BY DEF OnItsWay
<1> QED BY <1>1, <1>2

\* A stream is left alone, as far as it is concerned.
LEMMA StreamLeft ==
    ASSUME NEW t \in Streams, ChannelInv(t), NothingMissed(t),
           UNCHANGED <<subscribers, due[t], buffer[t], request[t]>>,
           stream'[t].pc = "unsubscribing" \/ Seen(t) \subseteq Seen(t)',
           stream[t].pc = "unsubscribing" => stream'[t].pc = "unsubscribing",
           \A q \in Publishers :
            LET on  == publishing[q].pc = "sending" /\ t \in publishing[q].todo
                onn == publishing'[q].pc = "sending" /\ t \in publishing'[q].todo
            IN  (on <=> onn) /\ (on => publishing'[q].event = publishing[q].event)
    PROVE  ChannelInv(t)' /\ NothingMissed(t)'
<1>1. ChannelInv(t)'
  BY DEF ChannelInv, matchesFilter
<1>2. NothingMissed(t)'
  BY MoreSeen
<1> QED BY <1>1, <1>2

\* Calls that end or go on leave the numbers apart.
LEMMA NumbersLeft ==
    ASSUME Numbered, UNCHANGED <<due, published>>,
           \A q \in Publishers :
            \/ publishing'[q].pc = "idle"
            \/ publishing'[q].pc = publishing[q].pc /\ publishing'[q].event = publishing[q].event
    PROVE  Numbered'
BY DEF Numbered, Numbers

----------------------------------------------------------------------------
(* The steps                                                               *)

\* A handler moves events along, and lets none slip.
LEMMA HandlerDelivers ==
    ASSUME HubInv, Subscribed, DeliveryInv, NEW s \in Streams,
           \/ Announce(s)
           \/ \E r \in Request : Open(s, r)
           \/ Receive(s)
           \/ SendToClient(s)
           \/ SendFails(s)
           \/ Vanish(s)
    PROVE  DeliveryInv'
<1> USE DEF DeliveryInv
<1>0. /\ stream \in [Streams -> Handler] /\ buffer \in [Streams -> Seq(Event)]
      /\ got \in [Streams -> Seq(Event)] /\ request \in [Streams -> Request \cup {NoRequest}]
  BY DEF HubInv, TypeOK
<1>1. UNCHANGED <<publishing, due, published, subscribers>> /\ Numbered'
  <2>1. UNCHANGED <<publishing, due, published, subscribers>>
    BY DEF Announce, Open, Receive, SendToClient, SendFails, Vanish
  <2> QED BY <2>1 DEF Numbered, Numbers
<1>2. ASSUME NEW t \in Streams, UNCHANGED <<buffer[t], request[t], got[t], stream[t]>>
      PROVE  ChannelInv(t)' /\ NothingMissed(t)'
  BY <1>1, <1>2, StreamLeft DEF Seen
<1>3. CASE Announce(s) \/ Vanish(s)
  BY <1>1, <1>2, <1>3 DEF Announce, Vanish
<1>4. ASSUME NEW r \in Request, Open(s, r)
      PROVE  DeliveryInv'
  <2>1. s \notin subscribers
    BY <1>4 DEF Open, Subscribed
  <2>2. ReadersSeeSubscribers'
    BY <1>1 DEF HubInv, ReadersSeeSubscribers, Readers
  <2>3. ChannelInv(s)' /\ NothingMissed(s)'
    BY <1>1, <1>4, <2>1, <2>2, NotSubscribed DEF Open, ChannelInv
  <2> QED BY <1>0, <1>1, <1>2, <1>4, <2>3 DEF Open
<1>5. CASE Receive(s)
  <2> DEFINE b == buffer[s]
             head == Head(b)
  <2>1. /\ b \in Seq(Event) /\ b # <<>> /\ buffer'[s] = Tail(b)
        /\ stream'[s] = [pc |-> "sending", event |-> head] /\ stream[s].pc = "receiving"
        /\ UNCHANGED <<request, got>>
    BY <1>0, <1>5 DEF Receive
  <2>2. /\ Len(Tail(b)) = Len(b) - 1 /\ Len(b) \in Nat \ {0} /\ head = b[1]
        /\ \A i \in 1..Len(Tail(b)) : Tail(b)[i] = b[i + 1] /\ i + 1 \in 1..Len(b)
        /\ \A i \in 1..Len(b) : i = 1 \/ (i - 1 \in 1..Len(Tail(b)) /\ b[i] = Tail(b)[i - 1])
    <3> HIDE DEF b
    <3> USE <2>1
    <3>1. Len(Tail(b)) = Len(b) - 1 /\ Len(b) \in Nat \ {0} /\ head = b[1]
      OBVIOUS
    <3>2. \A i \in 1..Len(Tail(b)) : Tail(b)[i] = b[i + 1]
      OBVIOUS
    <3>3. \A i \in 1..Len(Tail(b)) : i + 1 \in 1..Len(b)
      BY <3>1
    <3>4. ASSUME NEW i \in 1..Len(b), i # 1
          PROVE  i - 1 \in 1..Len(Tail(b)) /\ b[i] = Tail(b)[i - 1]
      <4>1. i - 1 \in 1..Len(Tail(b)) /\ (i - 1) + 1 = i
        BY <3>1, <3>4
      <4> QED BY <3>2, <4>1
    <3>5. \A i \in 1..Len(b) : i = 1 \/ (i - 1 \in 1..Len(Tail(b)) /\ b[i] = Tail(b)[i - 1])
      BY <3>4
    <3> HIDE DEF head
    <3> QED BY <3>1, <3>2, <3>3, <3>5
  <2>3. ChannelInv(s)'
    <3>1. \A i \in 1..Len(Tail(b)) : Tail(b)[i] \in due[s]
      BY <2>2 DEF ChannelInv
    <3>2. \A i, j \in 1..Len(Tail(b)) : Tail(b)[i] = Tail(b)[j] => i = j
      <4>1. \A i, j \in 1..Len(b) : b[i] = b[j] => i = j
        BY DEF ChannelInv
      <4>2. \A i, j \in Int : i + 1 = j + 1 => i = j
        OBVIOUS
      <4> HIDE DEF b
      <4> QED BY <2>2, <4>1, <4>2
    <3>3. \A p \in Publishers :
            /\ publishing[p].pc = "sending"
            /\ s \in publishing[p].todo
            /\ matchesFilter(request[s], publishing[p].event)
            => /\ publishing[p].event \in due[s]
               /\ \A i \in 1..Len(Tail(b)) : Tail(b)[i] # publishing[p].event
      BY <2>2 DEF ChannelInv
    <3>4. s \in subscribers
      BY <2>1 DEF Subscribed
    <3> HIDE DEF b
    <3> QED BY <1>1, <2>1, <3>1, <3>2, <3>3, <3>4 DEF ChannelInv, matchesFilter
  <2>4. Seen(s) \subseteq Seen(s)'
    <3>1. \A i \in 1..Len(b) : b[i] = head \/ \E j \in 1..Len(Tail(b)) : b[i] = Tail(b)[j]
      BY <2>2
    <3>2. DOMAIN b = 1..Len(b) /\ DOMAIN Tail(b) = 1..Len(Tail(b))
      BY <2>1
    <3>3. stream[s].event = None
      <4>1. stream[s] \in Handler
        BY <1>0
      <4> QED BY <2>1, <4>1 DEF Handler
    <3>4. head # None
      <4>1. head \in Event
        BY <2>1, <2>2
      <4> QED BY <4>1, HubAssumption
    <3>5. stream'[s].event = head
      BY <2>1
    <3> HIDE DEF head
    <3> QED BY <2>1, <3>1, <3>2, <3>3, <3>4, <3>5 DEF Seen
  <2>5. ChannelInv(s)' /\ NothingMissed(s)'
    <3>1. NothingMissed(s)'
      BY <1>1, <2>1, <2>4, MoreSeen
    <3> QED BY <2>3, <3>1
  <2>6. \A t \in Streams \ {s} : UNCHANGED <<buffer[t], request[t], got[t], stream[t]>>
    BY <1>0, <1>5 DEF Receive
  <2> QED BY <1>1, <1>2, <2>5, <2>6
<1>6. CASE SendToClient(s)
  <2> DEFINE g == got[s]
             event == stream[s].event
  <2>1. /\ g \in Seq(Event) /\ got'[s] = Append(g, event) /\ stream[s].pc = "sending"
        /\ UNCHANGED <<request, buffer>>
    BY <1>0, <1>6 DEF SendToClient
  <2>2. event \in Event
    <3>1. stream[s] \in Handler
      BY <1>0
    <3> QED BY <2>1, <3>1 DEF Handler
  <2>3. Seen(s) \subseteq Seen(s)'
    <3>1. /\ DOMAIN g = 1..Len(g) /\ DOMAIN Append(g, event) = 1..Len(g) + 1
          /\ \A i \in 1..Len(g) : Append(g, event)[i] = g[i] /\ i \in 1..Len(g) + 1
          /\ Append(g, event)[Len(g) + 1] = event /\ Len(g) + 1 \in 1..Len(g) + 1
      <4> HIDE DEF g, event
      <4> QED BY <2>1, <2>2
    <3>2. /\ \A i \in DOMAIN g : g[i] \in Seen(s)'
          /\ event \in Seen(s)'
      <4> HIDE DEF g, event
      <4> QED BY <2>1, <3>1 DEF Seen
    <3>3. \A i \in DOMAIN buffer[s] : buffer[s][i] \in Seen(s)'
      BY <2>1 DEF Seen
    <3> QED BY <3>2, <3>3 DEF Seen
  <2>4. ChannelInv(s)' /\ NothingMissed(s)'
    BY <1>1, <2>1, <2>3, StreamLeft
  <2>5. \A t \in Streams \ {s} : UNCHANGED <<buffer[t], request[t], got[t], stream[t]>>
    BY <1>0, <1>6 DEF SendToClient
  <2> QED BY <1>1, <1>2, <2>4, <2>5
<1>7. CASE SendFails(s)
  <2>1. stream'[s].pc = "unsubscribing" /\ UNCHANGED <<request, got, buffer>>
    BY <1>0, <1>7 DEF SendFails
  <2>2. ChannelInv(s)' /\ NothingMissed(s)'
    BY <1>1, <2>1, StreamLeft
  <2> QED BY <1>0, <1>1, <1>2, <1>7, <2>2 DEF SendFails
<1> QED BY <1>3, <1>4, <1>5, <1>6, <1>7

\* A critical section lets the waiting publishers in, for the streams that are
\* subscribed from now on.
LEMMA ExclusiveDelivers ==
    ASSUME HubInv, Subscribed, DeliveryInv, HubInv', NEW s \in Streams,
           Subscribe(s) \/ Unsubscribe(s)
    PROVE  DeliveryInv'
<1> USE DEF DeliveryInv
<1>0. /\ stream \in [Streams -> Handler] /\ buffer \in [Streams -> Seq(Event)]
      /\ got \in [Streams -> Seq(Event)] /\ request \in [Streams -> Request \cup {NoRequest}]
      /\ publishing \in [Publishers -> PublishCall] /\ published \in Nat
      /\ TypeOK /\ TypeOK' /\ ReadersSeeSubscribers'
  BY HubAssumption DEF HubInv, TypeOK
<1>1. PICK subs \in SUBSET Streams :
        /\ Exclusive(s, subs)
        /\ subs \ {s} = subscribers \ {s}
        /\ s \in subs => UNCHANGED <<buffer, request, got>>
        /\ s \notin subs => buffer'[s] = <<>>
        /\ \A t \in Streams \ {s} : UNCHANGED <<buffer[t], request[t], got[t], stream[t]>>
        /\ s \in subs => s \notin subscribers
        /\ published' = published
  <2>1. CASE Subscribe(s)
    <3>1. s \notin subscribers
      BY <2>1 DEF Subscribe, Subscribed
    <3>2. subscribers \cup {s} \in SUBSET Streams
      BY DEF HubInv, TypeOK
    <3> QED BY <1>0, <2>1, <3>1, <3>2 DEF Subscribe
  <2>2. CASE Unsubscribe(s)
    <3>1. subscribers \ {s} \in SUBSET Streams
      BY DEF HubInv, TypeOK
    <3> QED BY <1>0, <2>2, <3>1 DEF Unsubscribe, Forget
  <2> QED BY <2>1, <2>2
<1>2. Admit(publishing, subs) /\ subscribers' = subs
  BY <1>1 DEF Exclusive
<1>3. Numbered'
  BY <1>0, <1>1, <1>2, AdmitNumbers DEF Numbered
<1>4. ASSUME NEW t \in subs
      PROVE  ChannelInv(t)' /\ NothingMissed(t)'
  <2>1. t \in Streams /\ ChannelInv(t) /\ NothingMissed(t)
    OBVIOUS
  <2>2. UNCHANGED <<buffer[t], request[t], got[t]>> /\ (t \in subscribers => UNCHANGED stream[t])
    BY <1>1
  <2>3. \A p \in Publishers : publishing[p].pc = "waiting" =>
            \A e \in due[t] : e.no # publishing[p].event.no
    BY DEF Numbered, Numbers
  <2> QED BY <1>0, <1>2, <1>3, <2>1, <2>2, <2>3, AdmitServes
<1>5. ASSUME NEW t \in Streams \ subs
      PROVE  ChannelInv(t)' /\ NothingMissed(t)'
  <2>1. due'[t] = {}
    BY <1>0, <1>2, AdmitOwes
  <2>2. buffer'[t] = <<>>
    BY <1>1 DEF ChannelInv
  <2> QED BY <1>0, <1>2, <2>1, <2>2, NotSubscribed
<1> QED BY <1>3, <1>4, <1>5

\* An event is published under a number of its own.
LEMMA PublishDelivers ==
    ASSUME HubInv, DeliveryInv, HubInv', NEW p \in Publishers, NEW n \in Notifications,
           Publish(p, n)
    PROVE  DeliveryInv'
<1> USE DEF DeliveryInv
<1> DEFINE event == [no |-> published + 1, notification |-> n]
           call == [pc |-> "waiting", event |-> event, todo |-> {}]
           calls == [publishing EXCEPT ![p] = call]
<1>0. /\ publishing \in [Publishers -> PublishCall] /\ published \in Nat
      /\ published' = published + 1
      /\ TypeOK /\ TypeOK' /\ ReadersSeeSubscribers' /\ subscribers \in SUBSET Streams
  BY HubAssumption DEF HubInv, TypeOK, Publish
<1>1. /\ UNCHANGED <<subscribers, buffer, request, stream, got>>
      /\ publishing[p].pc = "idle"
      /\ Admit(calls, subscribers) \/ (publishing' = calls /\ UNCHANGED due)
  BY DEF Publish
<1>2. calls \in [Publishers -> PublishCall]
  <2>1. published + 1 \in 1..MaxEvents
    BY <1>0, HubAssumption DEF Publish, TypeOK
  <2>2. event \in Event
    BY <2>1 DEF Event
  <2>3. call \in PublishCall
    BY <2>2 DEF PublishCall
  <2> HIDE DEF call
  <2> QED BY <1>0, <2>3
<1>3. /\ calls[p] = call /\ call.pc = "waiting" /\ call.event.no = published + 1
      /\ \A q \in Publishers : q # p => calls[q] = publishing[q]
  BY <1>0
<1> HIDE DEF calls, call
<1>4. Numbers(calls, due, published + 1)
  <2>1. \A q \in Publishers : publishing[q].pc # "idle" => publishing[q].event.no \in Nat
    BY <1>0 DEF PublishCall, Silent, Event
  <2>2. \A t \in Streams : \A e \in due[t] : e.no \in Nat
    BY <1>0 DEF TypeOK, Event
  <2>3. \A q \in Publishers : q # p /\ calls[q].pc # "idle" =>
            calls[q].event.no <= published /\ calls[q].event.no \in Nat
    BY <1>3, <2>1 DEF Numbered, Numbers
  <2>4. \A t \in Streams : \A e \in due[t] : e.no <= published
    BY DEF Numbered, Numbers
  <2>5. \A i \in Nat : i <= published => i <= published + 1 /\ i # published + 1
    BY <1>0
  <2>6. \A q \in Publishers : calls[q].pc # "idle" => calls[q].event.no <= published + 1
    BY <1>0, <1>3, <2>3, <2>5
  <2>7. \A q, r \in Publishers :
            calls[q].pc # "idle" /\ calls[r].pc # "idle" /\ calls[q].event.no = calls[r].event.no
                => q = r
    <3>1. \A q, r \in Publishers :
            /\ q # p /\ r # p
            /\ calls[q].pc # "idle" /\ calls[r].pc # "idle"
            /\ calls[q].event.no = calls[r].event.no
            => q = r
      BY <1>3 DEF Numbered, Numbers
    <3> QED BY <1>3, <2>3, <2>5, <3>1
  <2>8. \A t \in Streams, q \in Publishers : \A e \in due[t] :
            calls[q].pc = "waiting" => e.no # calls[q].event.no
    <3>1. \A t \in Streams, q \in Publishers : \A e \in due[t] :
            q # p /\ calls[q].pc = "waiting" => e.no # calls[q].event.no
      BY <1>3 DEF Numbered, Numbers
    <3> QED BY <1>3, <2>2, <2>4, <2>5, <3>1
  <2>9. \A t \in Streams : \A e \in due[t] : e.no <= published + 1
    BY <2>2, <2>4, <2>5
  <2> QED BY <2>6, <2>7, <2>8, <2>9 DEF Numbered, Numbers
<1>5. CASE publishing' = calls /\ UNCHANGED due
  <2>1. Numbered'
    BY <1>0, <1>4, <1>5 DEF Numbered
  <2>2. \A q \in Publishers :
            /\ publishing'[q].pc = "sending" <=> publishing[q].pc = "sending"
            /\ publishing[q].pc = "sending" => publishing'[q] = publishing[q]
    BY <1>1, <1>3, <1>5
  <2>3. ASSUME NEW t \in Streams
        PROVE  ChannelInv(t)' /\ NothingMissed(t)'
    BY <1>1, <1>5, <2>2, StreamLeft DEF Seen
  <2> QED BY <2>1, <2>3
<1>6. CASE Admit(calls, subscribers)
  <2>1. Numbered'
    BY <1>0, <1>2, <1>4, <1>6, AdmitNumbers DEF Numbered
  <2>2. \A q \in Publishers :
            calls[q].pc = "sending" \/ publishing[q].pc = "sending" => calls[q] = publishing[q]
    BY <1>1, <1>3
  <2>3. ASSUME NEW t \in subscribers
        PROVE  ChannelInv(t)' /\ NothingMissed(t)'
    <3>1. t \in Streams /\ ChannelInv(t) /\ NothingMissed(t)
      BY <1>0
    <3>2. \A q \in Publishers : calls[q].pc = "waiting" =>
            \A e \in due[t] : e.no # calls[q].event.no
      BY <1>4, <3>1 DEF Numbers
    <3> QED BY <1>0, <1>1, <1>2, <1>6, <2>1, <2>2, <3>1, <3>2, AdmitServes
  <2>4. ASSUME NEW t \in Streams \ subscribers
        PROVE  ChannelInv(t)' /\ NothingMissed(t)'
    <3>1. due'[t] = {}
      BY <1>0, <1>2, <1>6, AdmitOwes
    <3>2. buffer'[t] = <<>>
      BY <1>1 DEF ChannelInv
    <3> QED BY <1>0, <1>1, <3>1, <3>2, NotSubscribed
  <2> QED BY <2>1, <2>3, <2>4
<1> QED BY <1>1, <1>5, <1>6

\* A matching event goes into the channel, or the channel holds as many others.
LEMMA OfferDelivers ==
    ASSUME HubInv, DeliveryInv, NEW p \in Publishers, NEW s \in Streams, Offer(p, s)
    PROVE  DeliveryInv'
<1> USE DEF DeliveryInv
<1> DEFINE call == publishing[p]
           event == call.event
           b == buffer[s]
<1>0. /\ publishing \in [Publishers -> PublishCall] /\ buffer \in [Streams -> Seq(Event)]
      /\ TypeOK /\ call.pc = "sending" /\ s \in call.todo
      /\ UNCHANGED <<subscribers, due, request, stream, got, published>>
  BY DEF HubInv, TypeOK, Offer
<1>1. /\ publishing' = [publishing EXCEPT ![p] =
            [pc |-> "sending", event |-> event, todo |-> call.todo \ {s}]]
      /\ event \in Event
  <2>1. call \in [pc : {"waiting", "sending"}, event : Event, todo : SUBSET Streams]
    BY <1>0 DEF PublishCall, Silent
  <2>2. publishing' = [publishing EXCEPT ![p].todo = @ \ {s}]
    BY DEF Offer
  <2>3. [call EXCEPT !.todo = @ \ {s}] =
            [pc |-> "sending", event |-> event, todo |-> call.todo \ {s}]
    <3>1. call.pc = "sending"
      BY <1>0
    <3> HIDE DEF call
    <3>2. call = [pc |-> "sending", event |-> call.event, todo |-> call.todo]
      BY <2>1, <3>1
    <3> QED BY <3>2
  <2> QED BY <2>1, <2>2, <2>3
<1>2. /\ \A q \in Publishers \ {p} : publishing'[q] = publishing[q]
      /\ publishing'[p].pc = "sending" /\ publishing'[p].event = event
      /\ publishing'[p].todo = call.todo \ {s}
  BY <1>0, <1>1
<1>3. Numbered'
  BY <1>0, <1>2, NumbersLeft
<1>4. ASSUME NEW t \in Streams \ {s}
      PROVE  ChannelInv(t)' /\ NothingMissed(t)'
  <2>1. buffer'[t] = buffer[t]
    BY <1>0 DEF Offer
  <2>2. \A q \in Publishers :
            /\ publishing'[q].pc = publishing[q].pc
            /\ publishing'[q].event = publishing[q].event
            /\ t \in publishing'[q].todo <=> t \in publishing[q].todo
    BY <1>0, <1>2
  <2> QED BY <1>0, <2>1, <2>2, StreamLeft DEF Seen
<1>5. \A q \in Publishers :
        publishing'[q].pc = "sending" /\ s \in publishing'[q].todo =>
            q # p /\ publishing'[q] = publishing[q]
  BY <1>2
<1>6. \A q \in Publishers : q # p /\ publishing[q].pc = "sending" => publishing[q].event # event
  BY <1>0 DEF Numbered, Numbers
<1>7. matchesFilter(request[s], event) =>
        event \in due[s] /\ \A i \in 1..Len(b) : b[i] # event
  BY <1>0 DEF ChannelInv
<1>8. CASE ~matchesFilter(request[s], event)
  <2>1. buffer' = buffer
    BY <1>8 DEF Offer
  <2>2. event \notin due[s]
    BY <1>8 DEF ChannelInv
  <2>3. ChannelInv(s)'
    BY <1>0, <1>5, <2>1 DEF ChannelInv, matchesFilter
  <2>4. NothingMissed(s)'
    BY <1>0, <1>2, <2>1, <2>2, MoreSeen DEF Seen
  <2> QED BY <1>3, <1>4, <2>3, <2>4
<1>9. CASE matchesFilter(request[s], event) /\ ~Room(s)
  <2>1. buffer' = buffer
    BY <1>9 DEF Offer
  <2>2. ~(Cardinality(due[s]) <= Capacity)
    BY <1>0, <1>7, <1>9, FullChannel
  <2>3. ChannelInv(s)'
    BY <1>0, <1>5, <2>1 DEF ChannelInv, matchesFilter
  <2>4. NothingMissed(s)'
    BY <1>0, <2>2 DEF NothingMissed
  <2> QED BY <1>3, <1>4, <2>3, <2>4
<1>10. CASE matchesFilter(request[s], event) /\ Room(s)
  <2> DEFINE new == Append(b, event)
  <2>1. buffer'[s] = new
    BY <1>0, <1>10 DEF Offer
  <2>2. /\ Len(b) \in Nat /\ Len(new) = Len(b) + 1 /\ new[Len(b) + 1] = event
        /\ \A i \in 1..Len(b) : new[i] = b[i]
        /\ DOMAIN b = 1..Len(b) /\ DOMAIN new = 1..Len(new)
    <3>1. b \in Seq(Event)
      BY <1>0
    <3> HIDE DEF b, event
    <3> QED BY <1>1, <3>1
  <2>3. \A i \in 1..Len(new) : i \in 1..Len(b) \/ i = Len(b) + 1
    <3> HIDE DEF new, b
    <3> QED BY <2>2
  <2>4. ChannelInv(s)'
    <3>1. \A i \in 1..Len(b) : b[i] \in due[s]
      BY DEF ChannelInv
    <3>2. \A i, j \in 1..Len(b) : b[i] = b[j] => i = j
      BY DEF ChannelInv
    <3>3. \A q \in Publishers :
            /\ publishing[q].pc = "sending"
            /\ s \in publishing[q].todo
            /\ matchesFilter(request[s], publishing[q].event)
            => /\ publishing[q].event \in due[s]
               /\ \A i \in 1..Len(b) : b[i] # publishing[q].event
      BY DEF ChannelInv
    <3>4. s \in subscribers
      BY <1>0 DEF HubInv, ReadersSeeSubscribers, Readers
    <3> HIDE DEF b, new, event
    <3>5. \A i \in 1..Len(new) : new[i] \in due[s]
      BY <1>7, <1>10, <2>2, <2>3, <3>1
    <3>6. \A i, j \in 1..Len(new) : new[i] = new[j] => i = j
      BY <1>7, <1>10, <2>2, <2>3, <3>2
    <3>7. \A q \in Publishers :
            /\ publishing'[q].pc = "sending"
            /\ s \in publishing'[q].todo
            /\ matchesFilter(request[s], publishing'[q].event)
            => /\ publishing'[q].event \in due[s]
               /\ \A i \in 1..Len(new) : new[i] # publishing'[q].event
      BY <1>5, <1>6, <2>2, <2>3, <3>3
    <3> QED BY <1>0, <2>1, <3>4, <3>5, <3>6, <3>7 DEF ChannelInv, matchesFilter
  <2>5. event \in Seen(s)' /\ Seen(s) \subseteq Seen(s)'
    <3>1. Len(b) + 1 \in 1..Len(new) /\ \A i \in 1..Len(b) : i \in 1..Len(new)
      <4> HIDE DEF new, b
      <4> QED BY <2>2
    <3>2. event \in Seen(s)'
      <4> HIDE DEF new, b, event
      <4> QED BY <2>1, <2>2, <3>1 DEF Seen
    <3>3. \A i \in DOMAIN b : b[i] \in Seen(s)'
      <4> HIDE DEF new, b, event
      <4> QED BY <2>1, <2>2, <3>1 DEF Seen
    <3>4. UNCHANGED <<got, stream>>
      BY <1>0
    <3> QED BY <3>2, <3>3, <3>4 DEF Seen
  <2>6. NothingMissed(s)'
    BY <1>0, <1>2, <2>5, MoreSeen
  <2> QED BY <1>3, <1>4, <2>4, <2>6
<1> QED BY <1>8, <1>9, <1>10

\* A publisher that is through with the subscribers has nothing on its way.
LEMMA ReturnDelivers ==
    ASSUME HubInv, DeliveryInv, NEW p \in Publishers, Return(p)
    PROVE  DeliveryInv'
<1> USE DEF DeliveryInv
<1>1. /\ publishing \in [Publishers -> PublishCall]
      /\ publishing' = [publishing EXCEPT ![p] = Silent] /\ Silent.pc = "idle"
      /\ publishing[p].todo = {}
      /\ UNCHANGED <<subscribers, due, buffer, request, stream, got, published>>
  BY DEF HubInv, TypeOK, Return, Silent
<1>2. publishing'[p].pc = "idle" /\ \A q \in Publishers \ {p} : publishing'[q] = publishing[q]
  BY <1>1
<1>3. Numbered'
  BY <1>1, <1>2, NumbersLeft
<1>4. ASSUME NEW t \in Streams
      PROVE  ChannelInv(t)' /\ NothingMissed(t)'
  BY <1>1, <1>2, StreamLeft DEF Seen
<1> QED BY <1>3, <1>4

----------------------------------------------------------------------------
(* Theorems                                                                *)

THEOREM DeliveryInvariant == Spec => []DeliveryInv
<1>1. Init => DeliveryInv
  <2> SUFFICES ASSUME Init PROVE DeliveryInv
    OBVIOUS
  <2>1. \A p \in Publishers : publishing[p].pc = "idle"
    BY DEF Init, Silent
  <2>2. Numbered
    BY <2>1 DEF Init, Numbered, Numbers
  <2>3. ASSUME NEW s \in Streams
        PROVE  ChannelInv(s) /\ NothingMissed(s)
    <3>1. buffer[s] = <<>> /\ due[s] = {} /\ Len(<<>>) = 0
      BY DEF Init
    <3> QED BY <2>1, <3>1 DEF Init, ChannelInv, NothingMissed
  <2> QED BY <2>2, <2>3 DEF DeliveryInv
<1>2. HubInv /\ HubInv' /\ Subscribed /\ DeliveryInv /\ [Next]_vars => DeliveryInv'
  <2> SUFFICES ASSUME HubInv, HubInv', Subscribed, DeliveryInv, [Next]_vars
               PROVE  DeliveryInv'
    OBVIOUS
  <2>1. CASE UNCHANGED vars
    BY <2>1
       DEF vars, DeliveryInv, Numbered, Numbers, ChannelInv, NothingMissed, OnItsWay, Seen,
           matchesFilter
  <2>2. ASSUME NEW s \in Streams, HandlerStep(s) \/ Client(s)
        PROVE  DeliveryInv'
    BY <2>2, HandlerDelivers, ExclusiveDelivers DEF HandlerStep, Client
  <2>3. ASSUME NEW p \in Publishers, PublisherStep(p) \/ \E n \in Notifications : Publish(p, n)
        PROVE  DeliveryInv'
    BY <2>3, OfferDelivers, ReturnDelivers, PublishDelivers DEF PublisherStep
  <2> QED BY <2>1, <2>2, <2>3 DEF Next
<1> QED BY <1>1, <1>2, HubInvariant, SubscribedInvariant, PTL DEF Spec

\* A watcher misses nothing as long as no more matching events were published
\* than its channel holds (hub.go:44-51, notify.go:121-139).
THEOREM MissesNothingWithinCapacity == Spec => []NothingMissedWithinCapacity
<1>1. HubInv /\ DeliveryInv => NothingMissedWithinCapacity
  <2> SUFFICES ASSUME HubInv, DeliveryInv, NEW s \in subscribers,
                      stream[s].pc # "unsubscribing", Cardinality(due[s]) <= Capacity,
                      NEW e \in due[s]
               PROVE  \/ e \in Seen(s)
                      \/ \E p \in Readers : publishing[p].event = e /\ s \in publishing[p].todo
    BY DEF NothingMissedWithinCapacity
  <2>1. s \in Streams
    BY DEF HubInv, TypeOK
  <2> QED BY <2>1 DEF DeliveryInv, NothingMissed, OnItsWay, Readers
<1> QED BY <1>1, HubInvariant, DeliveryInvariant, PTL
=============================================================================
