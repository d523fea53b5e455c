---------------------------- MODULE LogHubProofs -----------------------------
(***************************************************************************)
(* Theorems about LogHub: its types, the lines its clients see, and that   *)
(* it implements LossyFeed.                                                *)
(***************************************************************************)
EXTENDS LogHub, TLAPS

\* A handler's place in the code says whether it is subscribed.
Subscribed ==
    subscribers = {s \in Streams : stream[s].pc \in {"selecting", "sending", "unsubscribing"}}

\* A stream whose channel was closed does not subscribe again.
ClosedIsDone == \A s \in closed : stream[s].pc = "done"

\* Nobody gets the write lock while a broadcast is under way.
ReadersSeeSubscribers == \A g \in Readers : logger[g].todo \subseteq subscribers

ChannelInv == Subscribed /\ ClosedIsDone /\ ReadersSeeSubscribers

\* The attributes of g are in memory of its own, or there are none yet.
OwnSlice(g) ==
    \/ attrs[g] = Unattributed
    \/ /\ attrs[g].at = g
       /\ attrs[g].len \in 1..attrs[g].cap
       /\ \A i \in 1..attrs[g].len : memory[g][i] = g

\* Who logs has all its attributes.
SliceInv ==
    \A g \in Loggers : OwnSlice(g) /\ (logger[g].pc # "idle" => attrs[g].len = Attributes)

\* Lines that speak of their own event and are in the file if there is one.
GoodLines ==
    {line \in Line : /\ \A i \in 1..Attributes : line.label[i] = line.by
                     /\ logFile => line \in written}

\* Every line past the file's handler is a good one, wherever it is.
LineInv ==
    /\ \A g \in Loggers : logFile /\ logger[g].pc = "waiting" => Own(g) \in written
    /\ \A g \in Readers : logger[g].line \in GoodLines
    /\ \A s \in Streams : \A i \in DOMAIN buffer[s] : buffer[s][i] \in GoodLines
    /\ \A s \in Streams : At(s, "sending") => stream[s].line \in GoodLines
    /\ \A s \in Streams : got[s] \subseteq GoodLines

LogInv == TypeOK /\ ChannelInv /\ SliceInv /\ LineInv

Place == [pc : {"idle", "subscribing", "selecting", "sending", "unsubscribing", "done"},
          line : Line \cup {None}]

----------------------------------------------------------------------------
(* The records                                                             *)

\* The parts of a log call.
LEMMA CallParts ==
    ASSUME NEW t \in LogCall
    PROVE  /\ t = [pc |-> t.pc, no |-> t.no, todo |-> t.todo, line |-> t.line]
           /\ t.pc \in {"idle", "file", "waiting", "sending"}
           /\ t.no \in 0..MaxLines
           /\ t.pc # "idle" => t.no \in 1..MaxLines
           /\ t.todo \subseteq Streams
           /\ t.pc # "sending" => t.todo = {} /\ t.line = None
           /\ t.pc = "sending" => t.line \in Line
<1>1. MaxLines \in Nat \ {0}
  BY LogAssumption
<1>2. CASE t \in [pc : {"idle"}, no : 0..MaxLines, todo : {{}}, line : {None}]
  BY <1>1, <1>2
<1>3. CASE t \in [pc : {"file", "waiting"}, no : 1..MaxLines, todo : {{}}, line : {None}]
  BY <1>1, <1>3
<1>4. CASE t \in [pc : {"sending"}, no : 1..MaxLines, todo : SUBSET Streams, line : Line]
  BY <1>1, <1>4
<1> QED BY <1>2, <1>3, <1>4 DEF LogCall

\* A call on its way to the hub, and one that is past it.
LEMMA CallMade ==
    ASSUME NEW no \in 1..MaxLines
    PROVE  /\ \A pc \in {"file", "waiting"} :
                [pc |-> pc, no |-> no, todo |-> {}, line |-> None] \in LogCall
           /\ \A todo \in SUBSET Streams, line \in Line :
                [pc |-> "sending", no |-> no, todo |-> todo, line |-> line] \in LogCall
BY DEF LogCall

\* A call that is over.
LEMMA QuietMade ==
    ASSUME NEW no \in 0..MaxLines
    PROVE  /\ Quiet(no) \in LogCall
           /\ Quiet(no).pc = "idle"
BY DEF LogCall, Quiet

\* What g writes is a line about g.
LEMMA OwnLine ==
    ASSUME NEW g \in Loggers, logger[g].no \in 1..MaxLines
    PROVE  /\ Own(g) \in Line
           /\ \A i \in 1..Attributes : Own(g).label[i] = Own(g).by
BY DEF Own, Line, Addresses

\* The empty channel is one.
LEMMA NoItems == <<>> \in Seq(Line) /\ Len(<<>>) <= Capacity /\ DOMAIN <<>> = {}
BY LogAssumption

----------------------------------------------------------------------------
(* The loggers                                                             *)

\* The call after a step of MultiHandler, a turn of Broadcast's loop, or a call of
\* Log, field by field.
LEMMA LogMoves ==
    ASSUME TypeOK, NEW g \in Loggers, NEW level, Log(g, level)
    PROVE  /\ logger[g].no + 1 \in 1..MaxLines
           /\ logger' = [logger EXCEPT ![g] =
                [pc |-> IF logFile THEN "file" ELSE "waiting", no |-> logger[g].no + 1,
                 todo |-> {}, line |-> None]]
<1>1. logger[g] \in LogCall
  BY DEF TypeOK
<1>2. logger[g].no \in 0..MaxLines
  BY <1>1, CallParts
<1> QED BY <1>2, LogAssumption DEF Log

LEMMA HandleFileMoves ==
    ASSUME TypeOK, NEW g \in Loggers, HandleFile(g)
    PROVE  /\ logger[g].no \in 1..MaxLines
           /\ \/ /\ written' = written \cup {Own(g)}
                 /\ logger' = [logger EXCEPT ![g] =
                      [pc |-> "waiting", no |-> logger[g].no, todo |-> logger[g].todo,
                       line |-> logger[g].line]]
              \/ /\ written' = written
                 /\ logger' = [logger EXCEPT ![g] = Quiet(logger[g].no)]
<1> DEFINE t == logger[g]
<1>1. logger \in [Loggers -> LogCall] /\ t \in LogCall
  BY DEF TypeOK
<1>2. /\ t = [pc |-> t.pc, no |-> t.no, todo |-> t.todo, line |-> t.line]
      /\ t.no \in 1..MaxLines
  BY <1>1, CallParts DEF HandleFile
<1>3. [t EXCEPT !.pc = "waiting"] =
            [pc |-> "waiting", no |-> t.no, todo |-> t.todo, line |-> t.line]
  <2> HIDE DEF t
  <2> QED BY <1>2
<1>4. \/ /\ written' = written \cup {Own(g)}
         /\ logger' = [logger EXCEPT ![g] = [t EXCEPT !.pc = "waiting"]]
      \/ /\ written' = written
         /\ logger' = [logger EXCEPT ![g] = Quiet(t.no)]
  BY <1>1 DEF HandleFile
<1> QED BY <1>2, <1>3, <1>4

LEMMA OfferMoves ==
    ASSUME TypeOK, NEW g \in Loggers, NEW s \in Streams, Offer(g, s)
    PROVE  /\ logger[g].pc = "sending"
           /\ logger' = [logger EXCEPT ![g] =
                [pc |-> "sending", no |-> logger[g].no, todo |-> logger[g].todo \ {s},
                 line |-> logger[g].line]]
<1> DEFINE t == logger[g]
<1>1. logger \in [Loggers -> LogCall] /\ t \in LogCall
  BY DEF TypeOK
<1>2. /\ t = [pc |-> t.pc, no |-> t.no, todo |-> t.todo, line |-> t.line]
      /\ t.pc = "sending"
  BY <1>1, CallParts DEF Offer
<1>3. [t EXCEPT !.todo = @ \ {s}] =
            [pc |-> t.pc, no |-> t.no, todo |-> t.todo \ {s}, line |-> t.line]
  <2> HIDE DEF t
  <2> QED BY <1>2
<1>4. logger' = [logger EXCEPT ![g] = [t EXCEPT !.todo = @ \ {s}]]
  BY <1>1 DEF Offer
<1> QED BY <1>2, <1>3, <1>4

LEMMA BroadcastMoves ==
    ASSUME TypeOK, SliceInv, NEW g \in Loggers, Broadcast(g)
    PROVE  /\ logger[g].no \in 1..MaxLines
           /\ Own(g) \in Line
           /\ logger' = [logger EXCEPT ![g] =
                [pc |-> "sending", no |-> logger[g].no, todo |-> subscribers, line |-> Own(g)]]
<1> DEFINE label == [i \in 1..Attributes |-> memory[attrs[g].at][i]]
<1>1. logger \in [Loggers -> LogCall] /\ logger[g] \in LogCall
  BY DEF TypeOK
<1>2. logger[g].pc = "waiting" /\ logger[g].no \in 1..MaxLines
  BY <1>1, CallParts DEF Broadcast
<1>3. \A i \in 1..Attributes : memory[attrs[g].at][i] = g
  <2>1. attrs[g].len = Attributes /\ OwnSlice(g)
    BY <1>2 DEF SliceInv
  <2>2. Attributes # 0
    BY LogAssumption
  <2> QED BY <2>1, <2>2 DEF OwnSlice, Unattributed
<1>4. label = [i \in 1..Attributes |-> g]
  BY <1>3
<1>5. [by |-> g, no |-> logger[g].no, label |-> label] = Own(g)
  BY <1>4 DEF Own
<1>6. logger' = [logger EXCEPT ![g] =
                    [pc |-> "sending", no |-> logger[g].no, todo |-> subscribers,
                     line |-> [by |-> g, no |-> logger[g].no, label |-> label]]]
  BY <1>1 DEF Broadcast
<1> HIDE DEF label
<1> QED BY <1>2, <1>5, <1>6, OwnLine

----------------------------------------------------------------------------
(* Types                                                                   *)

\* A logger is given a new call.
LEMMA LoggerUpdate ==
    ASSUME TypeOK, NEW g \in Loggers, NEW t \in LogCall, logger' = [logger EXCEPT ![g] = t]
    PROVE  logger' \in [Loggers -> LogCall]
BY DEF TypeOK

\* The logging goroutines keep the types.
LEMMA LoggerKeepsTypes ==
    ASSUME TypeOK, SliceInv, NEW g \in Loggers,
           LoggerStep(g) \/ FromContext(g) \/ \E level \in {"DEBUG", "INFO"} : Log(g, level)
    PROVE  TypeOK'
<1>0. logger[g] \in LogCall /\ logger[g].no \in 0..MaxLines
  BY CallParts DEF TypeOK
<1>1. ASSUME NEW level, Log(g, level)
      PROVE  TypeOK'
  <2>1. logger' \in [Loggers -> LogCall]
    <3>1. PICK pc \in {"file", "waiting"} :
            logger' = [logger EXCEPT ![g] =
                [pc |-> pc, no |-> logger[g].no + 1, todo |-> {}, line |-> None]]
      BY <1>1, LogMoves
    <3>2. [pc |-> pc, no |-> logger[g].no + 1, todo |-> {}, line |-> None] \in LogCall
      BY <1>1, LogMoves, CallMade
    <3> QED BY <3>1, <3>2, LoggerUpdate
  <2> QED
    BY <1>1, <2>1 DEF Log, TypeOK, labelVars, hubVars, streamVars
<1>2. CASE HandleFile(g)
  <2>1. logger' \in [Loggers -> LogCall] /\ written' \subseteq Line
    <3>1. logger[g].no \in 1..MaxLines /\ logger[g].todo = {} /\ logger[g].line = None
      BY <1>0, <1>2, HandleFileMoves, CallParts DEF HandleFile
    <3>2. [pc |-> "waiting", no |-> logger[g].no, todo |-> {}, line |-> None] \in LogCall
      BY <3>1, CallMade
    <3>3. logger' \in [Loggers -> LogCall]
      BY <1>0, <1>2, <3>1, <3>2, HandleFileMoves, QuietMade, LoggerUpdate
    <3>4. written' \subseteq Line
      BY <1>2, <3>1, HandleFileMoves, OwnLine DEF TypeOK
    <3> QED BY <3>3, <3>4
  <2>2. faults' \in 0..MaxFaults
    BY <1>2, LogAssumption DEF HandleFile, TypeOK
  <2> QED
    BY <1>2, <2>1, <2>2 DEF HandleFile, TypeOK, labelVars, hubVars, streamVars
<1>3. CASE Broadcast(g)
  <2>1. logger' \in [Loggers -> LogCall]
    <3>1. [pc |-> "sending", no |-> logger[g].no, todo |-> subscribers, line |-> Own(g)]
            \in LogCall
      BY <1>3, BroadcastMoves, CallMade DEF TypeOK
    <3> QED BY <1>3, <3>1, BroadcastMoves, LoggerUpdate
  <2> QED
    BY <1>3, <2>1 DEF Broadcast, TypeOK, labelVars, hubVars, streamVars
<1>4. ASSUME NEW s \in Streams, Offer(g, s)
      PROVE  TypeOK'
  <2>1. /\ logger[g].no \in 1..MaxLines
        /\ logger[g].line \in Line
        /\ logger[g].todo \ {s} \in SUBSET Streams
    BY <1>0, <1>4, OfferMoves, CallParts
  <2>2. logger' \in [Loggers -> LogCall]
    <3>1. [pc |-> "sending", no |-> logger[g].no, todo |-> logger[g].todo \ {s},
           line |-> logger[g].line] \in LogCall
      BY <2>1, CallMade
    <3> QED BY <1>4, <3>1, OfferMoves, LoggerUpdate
  <2>3. /\ buffer' \in [Streams -> Seq(Line)]
        /\ \A q \in Streams : Len(buffer'[q]) <= Capacity
    <3>1. CASE buffer' = buffer
      BY <3>1 DEF TypeOK
    <3>2. CASE /\ Len(buffer[s]) < Capacity
               /\ buffer' = [buffer EXCEPT ![s] = Append(@, logger[g].line)]
      <4>1. /\ Append(buffer[s], logger[g].line) \in Seq(Line)
            /\ Len(Append(buffer[s], logger[g].line)) <= Capacity
        BY <2>1, <3>2, LogAssumption DEF TypeOK
      <4> QED BY <3>2, <4>1 DEF TypeOK
    <3> QED BY <1>4, <3>1, <3>2 DEF Offer, Room
  <2> QED
    BY <1>4, <2>2, <2>3 DEF Offer, TypeOK, labelVars, streamVars
<1>5. CASE Return(g)
  <2>1. logger' \in [Loggers -> LogCall]
    BY <1>0, <1>5, QuietMade DEF Return, TypeOK
  <2> QED
    BY <1>5, <2>1 DEF Return, TypeOK, labelVars, hubVars, streamVars
<1>6. CASE FromContext(g)
  <2> DEFINE old == attrs[g]
             len == old.len + 1
             cap == IF old.cap = 0 THEN 1 ELSE 2 * old.cap
  <2>1. /\ old \in Slice
        /\ old.len \in 0..Attributes /\ old.cap \in 0..2 * Attributes /\ old.at \in Addresses
        /\ Attributes \in Nat \ {0}
        /\ old.len < Attributes
    BY <1>6, LogAssumption DEF FromContext, TypeOK, Slice
  <2>2. len \in 1..Attributes /\ len \in Slots /\ g \in Addresses
    BY <2>1 DEF Slots, Addresses
  <2>3. attrs' \in [Loggers -> Slice]
    <3>1. CASE old.len < old.cap
      <4>1. attrs' = [attrs EXCEPT ![g] = [old EXCEPT !.len = len]]
        BY <1>6, <3>1 DEF FromContext, WithAttrs, TypeOK
      <4>2. [old EXCEPT !.len = len] \in Slice
        <5> HIDE DEF old
        <5>1. len \in 0..Attributes
          BY <2>1, <2>2
        <5> HIDE DEF len
        <5> QED BY <2>1, <5>1 DEF Slice
      <4> QED BY <4>1, <4>2 DEF TypeOK
    <3>2. CASE ~(old.len < old.cap)
      <4>1. attrs' = [attrs EXCEPT ![g] = [at |-> g, len |-> len, cap |-> cap]]
        BY <1>6, <3>2 DEF FromContext, WithAttrs, TypeOK
      <4>2. cap \in 0..2 * Attributes /\ len \in 0..Attributes
        BY <2>1, <3>2
      <4>3. [at |-> g, len |-> len, cap |-> cap] \in Slice
        BY <2>2, <4>2 DEF Slice
      <4> QED BY <4>1, <4>3 DEF TypeOK
    <3> QED BY <3>1, <3>2
  <2>4. memory' \in [Addresses -> [Slots -> Addresses]]
    <3>1. CASE old.len < old.cap
      <4>1. memory' = [memory EXCEPT ![old.at][len] = g]
        BY <1>6, <3>1 DEF FromContext, WithAttrs
      <4> QED BY <2>1, <2>2, <4>1 DEF TypeOK
    <3>2. CASE ~(old.len < old.cap)
      <4>1. memory' = [memory EXCEPT ![g] = [memory[old.at] EXCEPT ![len] = g]]
        BY <1>6, <3>2 DEF FromContext, WithAttrs
      <4>2. [memory[old.at] EXCEPT ![len] = g] \in [Slots -> Addresses]
        BY <2>1, <2>2 DEF TypeOK
      <4> QED BY <4>1, <4>2 DEF TypeOK
    <3> QED BY <3>1, <3>2
  <2> QED
    BY <1>6, <2>3, <2>4 DEF FromContext, TypeOK, hubVars, streamVars
<1> QED BY <1>1, <1>2, <1>3, <1>4, <1>5, <1>6 DEF LoggerStep

\* A handler moves to another place in its code.
LEMMA HandlerMoves ==
    ASSUME TypeOK, NEW s \in Streams,
           NEW label \in {"idle", "subscribing", "selecting", "sending", "unsubscribing", "done"},
           NEW line \in Line \cup {None},
           stream' = [stream EXCEPT ![s] = [pc |-> label, line |-> line]]
    PROVE  stream' \in [Streams -> Place]
<1>1. [pc |-> label, line |-> line] \in Place
  BY DEF Place
<1>2. stream \in [Streams -> Place]
  BY DEF TypeOK, Place
<1> QED BY <1>1, <1>2

\* The handlers of StreamLogs and their clients keep the types.
LEMMA StreamKeepsTypes ==
    ASSUME TypeOK, LineInv, NEW s \in Streams, HandlerStep(s) \/ Client(s)
    PROVE  TypeOK'
<1>0. stream \in [Streams -> Place] /\ stream[s] \in Place
  BY DEF TypeOK, Place
<1>1. CASE Open(s) \/ Cancelled(s) \/ SendFails(s)
  <2>1. stream' \in [Streams -> Place]
    BY <1>1, HandlerMoves DEF Open, Cancelled, SendFails, Goto
  <2> QED
    BY <1>1, <2>1 DEF Open, Cancelled, SendFails, TypeOK, Place, labelVars, hubVars
<1>2. CASE Announce(s) \/ Vanish(s)
  BY <1>2 DEF Announce, Vanish, TypeOK, labelVars, hubVars, streamVars
<1>3. CASE Subscribe(s)
  <2>1. stream' \in [Streams -> Place]
    BY <1>3, HandlerMoves DEF Subscribe, Goto
  <2> QED
    BY <1>3, <2>1 DEF Subscribe, TypeOK, Place, labelVars
<1>4. CASE Receive(s)
  <2>1. /\ Head(buffer[s]) \in Line
        /\ Tail(buffer[s]) \in Seq(Line)
        /\ Len(Tail(buffer[s])) <= Capacity
    <3>1. buffer[s] \in Seq(Line) /\ buffer[s] # <<>> /\ Len(buffer[s]) <= Capacity
      BY <1>4 DEF Receive, TypeOK
    <3> QED BY <3>1, LogAssumption
  <2>2. stream' \in [Streams -> Place]
    BY <1>4, <2>1, HandlerMoves DEF Receive
  <2> QED
    BY <1>4, <2>1, <2>2 DEF Receive, TypeOK, Place, labelVars
<1>5. CASE SendToClient(s)
  <2>1. stream' \in [Streams -> Place]
    BY <1>5, HandlerMoves DEF SendToClient, Goto
  <2>2. got' \in [Streams -> SUBSET Line]
    <3>1. stream[s].line \in Line
      BY <1>5 DEF SendToClient, LineInv, GoodLines
    <3> QED BY <1>5, <3>1 DEF SendToClient, TypeOK
  <2> QED
    BY <1>5, <2>1, <2>2 DEF SendToClient, TypeOK, Place, labelVars, hubVars
<1>6. CASE Unsubscribe(s)
  <2>1. stream' \in [Streams -> Place]
    BY <1>6, HandlerMoves DEF Unsubscribe, Goto
  <2> QED
    BY <1>6, <2>1, NoItems DEF Unsubscribe, TypeOK, Place, labelVars
<1> QED BY <1>1, <1>2, <1>3, <1>4, <1>5, <1>6 DEF HandlerStep, Client

----------------------------------------------------------------------------
(* The channels                                                            *)

\* Only the holder of the write lock changes the subscribers, and none of them is
\* being written to then.
LEMMA StepKeepsChannels ==
    ASSUME TypeOK, SliceInv, ChannelInv, [Next]_vars
    PROVE  ChannelInv'
<1> USE DEF ChannelInv
<1>0. stream \in [Streams -> Place] /\ logger \in [Loggers -> LogCall]
  BY DEF TypeOK, Place
<1>1. CASE UNCHANGED vars
  BY <1>1 DEF vars, Subscribed, ClosedIsDone, ReadersSeeSubscribers, Readers
<1>2. ASSUME NEW s \in Streams, \/ Announce(s) \/ Vanish(s) \/ Open(s) \/ Cancelled(s)
                                \/ SendFails(s) \/ SendToClient(s) \/ Receive(s)
      PROVE  ChannelInv'
  <2>1. UNCHANGED <<subscribers, closed, logger>>
    BY <1>2 DEF Announce, Vanish, Open, Cancelled, SendFails, SendToClient, Receive, hubVars
  <2>2. Subscribed'
    BY <1>0, <1>2, <2>1 DEF Announce, Vanish, Open, Cancelled, SendFails, SendToClient,
        Receive, Subscribed, Goto, At, streamVars
  <2>3. ClosedIsDone'
    BY <1>0, <1>2, <2>1 DEF Announce, Vanish, Open, Cancelled, SendFails, SendToClient,
        Receive, ClosedIsDone, Goto, At, streamVars, TypeOK
  <2> QED BY <2>1, <2>2, <2>3 DEF ReadersSeeSubscribers, Readers
<1>3. ASSUME NEW s \in Streams, Subscribe(s) \/ Unsubscribe(s)
      PROVE  ChannelInv'
  <2>1. logger' = logger /\ Readers = {}
    BY <1>3 DEF Subscribe, Unsubscribe, Granted
  <2>2. Subscribed'
    <3>1. CASE Subscribe(s)
      BY <1>0, <3>1 DEF Subscribe, Subscribed, Goto, At
    <3>2. CASE Unsubscribe(s)
      BY <1>0, <3>2 DEF Unsubscribe, Subscribed, Goto, At
    <3> QED BY <1>3, <3>1, <3>2
  <2>3. ClosedIsDone'
    <3>1. CASE Subscribe(s)
      BY <1>0, <3>1 DEF Subscribe, ClosedIsDone, Goto, At, TypeOK
    <3>2. CASE Unsubscribe(s)
      BY <1>0, <3>2 DEF Unsubscribe, ClosedIsDone, Goto, At, TypeOK
    <3> QED BY <1>3, <3>1, <3>2
  <2>4. ReadersSeeSubscribers'
    BY <2>1 DEF ReadersSeeSubscribers, Readers
  <2> QED BY <2>2, <2>3, <2>4
<1>4. ASSUME NEW g \in Loggers,
             LoggerStep(g) \/ FromContext(g) \/ \E level \in {"DEBUG", "INFO"} : Log(g, level)
      PROVE  ChannelInv'
  <2>1. UNCHANGED <<subscribers, closed, stream>>
    BY <1>4 DEF LoggerStep, FromContext, Log, HandleFile, Broadcast, Offer, Return, hubVars,
        streamVars
  <2>2. ASSUME NEW q \in Loggers, logger'[q].pc = "sending"
        PROVE  logger'[q].todo \subseteq subscribers
    <3>1. CASE logger'[q] = logger[q]
      BY <2>2, <3>1 DEF ReadersSeeSubscribers, Readers
    <3>2. CASE q = g /\ Broadcast(g)
      <4>1. logger'[g].todo = subscribers
        BY <1>0, <3>2, BroadcastMoves
      <4> QED BY <3>2, <4>1
    <3>3. ASSUME q = g, NEW s \in Streams, Offer(g, s)
          PROVE  logger'[q].todo \subseteq subscribers
      <4>1. logger[g].pc = "sending" /\ logger'[g].todo = logger[g].todo \ {s}
        BY <1>0, <3>3, OfferMoves
      <4> QED BY <3>3, <4>1 DEF ReadersSeeSubscribers, Readers
    <3>4. CASE HandleFile(g) \/ Return(g) \/ FromContext(g)
               \/ \E level \in {"DEBUG", "INFO"} : Log(g, level)
      <4>1. CASE HandleFile(g)
        <5>1. logger'[g].pc # "sending"
          BY <1>0, <4>1, HandleFileMoves DEF Quiet
        <5>2. q # g => logger'[q] = logger[q]
          BY <1>0, <4>1, HandleFileMoves
        <5> QED BY <2>2, <3>1, <5>1, <5>2
      <4>2. CASE Return(g)
        BY <1>0, <2>2, <3>1, <4>2 DEF Return, Quiet
      <4>3. CASE FromContext(g)
        BY <3>1, <4>3 DEF FromContext
      <4>4. ASSUME NEW level, Log(g, level)
            PROVE  logger'[q].todo \subseteq subscribers
        <5>1. logger'[g].pc # "sending" /\ (q # g => logger'[q] = logger[q])
          BY <1>0, <4>4, LogMoves
        <5> QED BY <2>2, <3>1, <5>1
      <4> QED BY <3>4, <4>1, <4>2, <4>3, <4>4
    <3>5. CASE q # g /\ Broadcast(g)
      BY <1>0, <3>1, <3>5, BroadcastMoves
    <3>6. ASSUME q # g, NEW s \in Streams, Offer(g, s)
          PROVE  logger'[q].todo \subseteq subscribers
      BY <1>0, <3>1, <3>6, OfferMoves
    <3> QED BY <1>4, <3>2, <3>3, <3>4, <3>5, <3>6 DEF LoggerStep
  <2> QED
    BY <2>1, <2>2 DEF Subscribed, ClosedIsDone, ReadersSeeSubscribers, Readers
<1> QED BY <1>1, <1>2, <1>3, <1>4 DEF Next, HandlerStep, Client

----------------------------------------------------------------------------
(* The attributes                                                          *)

\* A logger appends to its own array only, or to the first one, which is nobody's.
LEMMA StepKeepsSlices ==
    ASSUME TypeOK, SliceInv, [Next]_vars
    PROVE  SliceInv'
<1>0. logger \in [Loggers -> LogCall] /\ attrs \in [Loggers -> Slice]
  BY DEF TypeOK
<1>1. CASE UNCHANGED <<memory, attrs, logger>>
  BY <1>1 DEF SliceInv, OwnSlice
<1>2. ASSUME NEW g \in Loggers, FromContext(g)
      PROVE  SliceInv'
  <2> DEFINE old == attrs[g]
             len == old.len + 1
             cap == IF old.cap = 0 THEN 1 ELSE 2 * old.cap
  <2>1. /\ old \in Slice
        /\ old.len \in 0..Attributes /\ old.cap \in 0..2 * Attributes
        /\ Attributes \in Nat \ {0}
        /\ old.len < Attributes
    BY <1>0, <1>2, LogAssumption DEF FromContext, Slice
  <2>2. OwnSlice(g) /\ logger[g].pc = "idle"
    BY <2>1, <1>2 DEF SliceInv
  <2>3. len \in Slots /\ len \in 1..Attributes
    BY <2>1 DEF Slots
  <2>4. memory \in [Addresses -> [Slots -> Addresses]] /\ Loggers \subseteq Addresses
    BY DEF TypeOK, Addresses
  <2>5. /\ attrs'[g].at = g /\ attrs'[g].len = len
        /\ len <= attrs'[g].cap /\ attrs'[g].cap \in Nat
        /\ \A i \in 1..len : memory'[g][i] = g
        /\ \A q \in Loggers \ {g} : attrs'[q] = attrs[q] /\ memory'[q] = memory[q]
    <3>1. CASE old.len < old.cap
      <4>1. old.at = g /\ old.len \in 1..old.cap /\ \A i \in 1..old.len : memory[g][i] = g
        BY <2>1, <2>2, <3>1 DEF OwnSlice, Unattributed
      <4>2. attrs' = [attrs EXCEPT ![g] = [old EXCEPT !.len = len]]
        BY <1>0, <1>2, <3>1 DEF FromContext, WithAttrs
      <4>3. memory' = [memory EXCEPT ![g] = [memory[g] EXCEPT ![len] = g]]
        BY <1>2, <2>4, <3>1, <4>1 DEF FromContext, WithAttrs
      <4>4. attrs'[g].at = g /\ attrs'[g].len = len /\ attrs'[g].cap = old.cap
        <5>1. attrs'[g] = [old EXCEPT !.len = len]
          BY <1>0, <4>2
        <5> HIDE DEF old, len
        <5> QED BY <2>1, <4>1, <5>1 DEF Slice
      <4>5. \A i \in 1..len : memory'[g][i] = g
        <5>1. memory'[g] = [memory[g] EXCEPT ![len] = g]
          BY <2>4, <4>3
        <5>2. \A i \in 1..len : i \in Slots /\ (i = len \/ i \in 1..old.len)
          BY <2>1, <2>3 DEF Slots
        <5> QED BY <2>3, <2>4, <4>1, <5>1, <5>2
      <4> QED BY <1>0, <2>1, <2>4, <3>1, <4>2, <4>3, <4>4, <4>5
    <3>2. CASE ~(old.len < old.cap)
      <4>1. attrs' = [attrs EXCEPT ![g] = [at |-> g, len |-> len, cap |-> cap]]
        BY <1>0, <1>2, <3>2 DEF FromContext, WithAttrs
      <4>2. memory' = [memory EXCEPT ![g] = [memory[old.at] EXCEPT ![len] = g]]
        BY <1>2, <3>2 DEF FromContext, WithAttrs
      <4>3. \/ old.len = 0
            \/ old.at = g /\ \A i \in 1..old.len : memory[g][i] = g
        BY <2>2 DEF OwnSlice, Unattributed
      <4>4. old.at \in Addresses
        BY <2>1 DEF Slice
      <4>5. \A i \in 1..len : memory'[g][i] = g
        <5>1. memory'[g] = [memory[old.at] EXCEPT ![len] = g]
          BY <2>4, <4>2
        <5>2. \A i \in 1..len : i \in Slots /\ (i = len \/ i \in 1..old.len)
          BY <2>1, <2>3 DEF Slots
        <5>3. ASSUME NEW i \in 1..len PROVE memory'[g][i] = g
          BY <2>1, <2>3, <2>4, <4>3, <4>4, <5>1, <5>2
        <5> QED BY <5>3
      <4>6. cap \in Nat /\ len <= cap
        <5>1. old.len = 0 \/ old.cap # 0
          BY <2>1, <2>2 DEF OwnSlice, Unattributed
        <5>2. old.len <= old.cap
          BY <2>1, <2>2 DEF OwnSlice, Unattributed
        <5> QED BY <2>1, <5>1, <5>2
      <4> QED BY <1>0, <2>4, <4>1, <4>2, <4>5, <4>6
    <3> QED BY <3>1, <3>2
  <2>6. logger' = logger
    BY <1>2 DEF FromContext
  <2>7. OwnSlice(g)'
    BY <2>3, <2>5, <2>1 DEF OwnSlice
  <2>8. ASSUME NEW q \in Loggers \ {g}
        PROVE  OwnSlice(q)' /\ attrs'[q] = attrs[q]
    BY <2>5, <2>8 DEF SliceInv, OwnSlice
  <2> QED BY <2>2, <2>6, <2>7, <2>8 DEF SliceInv
<1>3. ASSUME NEW g \in Loggers,
             LoggerStep(g) \/ \E level \in {"DEBUG", "INFO"} : Log(g, level)
      PROVE  SliceInv'
  <2>1. UNCHANGED <<memory, attrs>>
    BY <1>3 DEF LoggerStep, Log, HandleFile, Broadcast, Offer, Return, labelVars
  <2>2. /\ attrs[g].len = Attributes
        /\ \A q \in Loggers \ {g} : logger'[q] = logger[q]
    BY <1>0, <1>3 DEF LoggerStep, Log, HandleFile, Broadcast, Offer, Return, Readers, SliceInv,
        LogCall
  <2> QED BY <2>1, <2>2 DEF SliceInv, OwnSlice
<1>4. ASSUME NEW s \in Streams, HandlerStep(s) \/ Client(s)
      PROVE  UNCHANGED <<memory, attrs, logger>>
  BY <1>4 DEF HandlerStep, Client, Announce, Subscribe, Receive, Cancelled, SendFails,
      Unsubscribe, Open, SendToClient, Vanish, labelVars
<1> QED BY <1>1, <1>2, <1>3, <1>4 DEF Next, vars

----------------------------------------------------------------------------
(* The lines                                                               *)

\* A good line stays one: the file only grows.
LEMMA StepKeepsGoodLines ==
    ASSUME TypeOK, [Next]_vars
    PROVE  /\ logFile' = logFile
           /\ written \subseteq written'
           /\ GoodLines \subseteq GoodLines'
<1>1. logFile' = logFile /\ written \subseteq written'
  BY DEF Next, LoggerStep, FromContext, Log, HandleFile, Broadcast, Offer, Return, HandlerStep,
      Client, Announce, Subscribe, Receive, Cancelled, SendFails, Unsubscribe, Open,
      SendToClient, Vanish, vars
<1> QED BY <1>1 DEF GoodLines

\* What goes into a channel is a line past the file's handler, and what comes out of
\* it went in.
LEMMA LoggerKeepsLines ==
    ASSUME TypeOK, SliceInv, LineInv, NEW g \in Loggers,
           LoggerStep(g) \/ FromContext(g) \/ \E level \in {"DEBUG", "INFO"} : Log(g, level)
    PROVE  LineInv'
<1>0. /\ logger \in [Loggers -> LogCall]
      /\ buffer \in [Streams -> Seq(Line)]
  BY DEF TypeOK
<1>1. /\ logFile' = logFile
      /\ written \subseteq written'
      /\ GoodLines \subseteq GoodLines'
  BY StepKeepsGoodLines DEF Next
<1>2. UNCHANGED <<stream, got>>
  BY DEF LoggerStep, FromContext, Log, HandleFile, Broadcast, Offer, Return, streamVars
<1>3. ASSUME /\ \A q \in Loggers \ {g} : logger'[q] = logger[q]
             /\ logFile /\ logger'[g].pc = "waiting" => Own(g)' \in written'
             /\ logger'[g].pc = "sending" => logger'[g].line \in GoodLines'
             /\ buffer' = buffer
      PROVE  LineInv'
  <2>1. ASSUME NEW q \in Loggers, logFile, logger'[q].pc = "waiting"
        PROVE  Own(q)' \in written'
    BY <1>1, <1>3, <2>1 DEF LineInv, Own
  <2>2. ASSUME NEW q \in Loggers, logger'[q].pc = "sending"
        PROVE  logger'[q].line \in GoodLines'
    BY <1>1, <1>3, <2>2 DEF LineInv, Readers
  <2> QED BY <1>1, <1>2, <1>3, <2>1, <2>2 DEF LineInv, Readers, At
<1>4. CASE HandleFile(g)
  <2>1. buffer' = buffer /\ \A q \in Loggers \ {g} : logger'[q] = logger[q]
    BY <1>0, <1>4 DEF HandleFile, hubVars
  <2>2. logger'[g].pc = "waiting" => Own(g)' \in written'
    BY <1>0, <1>4, HandleFileMoves DEF Own, Quiet
  <2>3. logger'[g].pc # "sending"
    BY <1>0, <1>4, HandleFileMoves DEF Quiet
  <2> QED BY <1>3, <2>1, <2>2, <2>3
<1>5. CASE Broadcast(g)
  <2>1. buffer' = buffer /\ \A q \in Loggers \ {g} : logger'[q] = logger[q]
    BY <1>0, <1>5 DEF Broadcast, hubVars
  <2>2. logger'[g].pc = "sending" /\ logger'[g].line = Own(g)
    BY <1>0, <1>5, BroadcastMoves
  <2>3. Own(g) \in GoodLines
    <3>1. Own(g) \in Line /\ \A i \in 1..Attributes : Own(g).label[i] = Own(g).by
      BY <1>5, BroadcastMoves, OwnLine
    <3>2. logFile => Own(g) \in written
      BY <1>5 DEF Broadcast, LineInv
    <3> QED BY <3>1, <3>2 DEF GoodLines
  <2> QED BY <1>1, <1>3, <2>1, <2>2, <2>3
<1>6. ASSUME NEW s \in Streams, Offer(g, s)
      PROVE  LineInv'
  <2>1. /\ logger[g].pc = "sending"
        /\ logger'[g].pc = "sending" /\ logger'[g].line = logger[g].line
        /\ \A q \in Loggers \ {g} : logger'[q] = logger[q]
    BY <1>0, <1>6, OfferMoves
  <2>2. logger[g].line \in GoodLines
    BY <2>1 DEF LineInv, Readers
  <2>3. ASSUME NEW q \in Loggers, logFile, logger'[q].pc = "waiting"
        PROVE  Own(q)' \in written'
    BY <1>1, <2>1, <2>3 DEF LineInv, Own
  <2>4. ASSUME NEW q \in Loggers, logger'[q].pc = "sending"
        PROVE  logger'[q].line \in GoodLines'
    BY <1>1, <2>1, <2>2, <2>4 DEF LineInv, Readers
  <2>5. ASSUME NEW q \in Streams, NEW i \in DOMAIN buffer'[q]
        PROVE  buffer'[q][i] \in GoodLines
    <3>1. CASE buffer'[q] = buffer[q]
      BY <2>5, <3>1 DEF LineInv
    <3>2. CASE q = s /\ buffer'[q] = Append(buffer[q], logger[g].line)
      <4>1. buffer[q] \in Seq(Line)
        BY <1>0
      <4>2. \/ i \in DOMAIN buffer[q] /\ buffer'[q][i] = buffer[q][i]
            \/ buffer'[q][i] = logger[g].line
        BY <2>5, <3>2, <4>1
      <4> QED BY <2>2, <4>2 DEF LineInv
    <3>3. \/ buffer'[q] = buffer[q]
          \/ q = s /\ buffer'[q] = Append(buffer[q], logger[g].line)
      BY <1>0, <1>6 DEF Offer
    <3> QED BY <3>1, <3>2, <3>3
  <2> QED BY <1>1, <1>2, <2>3, <2>4, <2>5 DEF LineInv, Readers, At
<1>7. CASE Return(g) \/ FromContext(g) \/ \E level \in {"DEBUG", "INFO"} : Log(g, level)
  <2>1. buffer' = buffer
    BY <1>7 DEF Return, FromContext, Log, hubVars
  <2>2. \A q \in Loggers \ {g} : logger'[q] = logger[q]
    BY <1>0, <1>7 DEF Return, FromContext, Log
  <2>3. CASE Return(g)
    BY <1>0, <1>3, <2>1, <2>2, <2>3 DEF Return, Quiet
  <2>4. CASE FromContext(g)
    BY <1>1, <1>3, <2>1, <2>2, <2>4 DEF FromContext, LineInv, Readers, Own
  <2>5. ASSUME NEW level, Log(g, level)
        PROVE  LineInv'
    <3>1. /\ logger'[g].pc # "sending"
          /\ logger'[g].pc = "waiting" => ~logFile
      BY <1>0, <2>5, LogMoves
    <3> QED BY <1>3, <2>1, <2>2, <3>1
  <2> QED BY <1>7, <2>3, <2>4, <2>5
<1> QED BY <1>4, <1>5, <1>6, <1>7 DEF LoggerStep

LEMMA StreamKeepsLines ==
    ASSUME TypeOK, LineInv, NEW s \in Streams, HandlerStep(s) \/ Client(s)
    PROVE  LineInv'
<1>0. /\ stream \in [Streams -> Place]
      /\ buffer \in [Streams -> Seq(Line)]
      /\ got \in [Streams -> SUBSET Line]
  BY DEF TypeOK, Place
<1>1. UNCHANGED <<logFile, written, logger>>
  BY DEF HandlerStep, Client, Announce, Subscribe, Receive, Cancelled, SendFails, Unsubscribe,
      Open, SendToClient, Vanish
<1>2. GoodLines' = GoodLines
  BY <1>1 DEF GoodLines
<1>3. ASSUME NEW q \in Streams, NEW i \in DOMAIN buffer'[q]
      PROVE  buffer'[q][i] \in GoodLines
  <2>1. CASE buffer'[q] = buffer[q]
    BY <1>3, <2>1 DEF LineInv
  <2>2. CASE buffer'[q] = <<>>
    BY <1>3, <2>2, NoItems
  <2>3. CASE buffer[q] # <<>> /\ buffer'[q] = Tail(buffer[q])
    <3>1. buffer[q] \in Seq(Line)
      BY <1>0
    <3>2. i + 1 \in DOMAIN buffer[q] /\ buffer'[q][i] = buffer[q][i + 1]
      BY <1>3, <2>3, <3>1
    <3> QED BY <3>2 DEF LineInv
  <2>4. \/ buffer' = buffer
        \/ Unsubscribe(s) \/ Receive(s)
    BY DEF HandlerStep, Client, Announce, Subscribe, Cancelled, SendFails, Open, SendToClient,
        Vanish, hubVars
  <2>5. CASE Unsubscribe(s)
    BY <1>0, <2>1, <2>2, <2>5 DEF Unsubscribe
  <2>6. CASE Receive(s)
    BY <1>0, <2>1, <2>3, <2>6 DEF Receive
  <2> QED BY <2>1, <2>4, <2>5, <2>6
<1>4. ASSUME NEW q \in Streams, stream'[q].pc = "sending"
      PROVE  stream'[q].line \in GoodLines
  <2>1. CASE stream'[q] = stream[q]
    BY <1>4, <2>1 DEF LineInv, At
  <2>2. CASE Receive(s)
    <3>1. Head(buffer[s]) \in GoodLines
      <4>1. buffer[s] \in Seq(Line) /\ buffer[s] # <<>>
        BY <1>0, <2>2 DEF Receive
      <4>2. 1 \in DOMAIN buffer[s] /\ Head(buffer[s]) = buffer[s][1]
        BY <4>1
      <4> QED BY <4>2 DEF LineInv
    <3>2. stream'[s].line = Head(buffer[s]) /\ (q # s => stream'[q] = stream[q])
      BY <1>0, <2>2 DEF Receive
    <3> QED BY <2>1, <3>1, <3>2
  <2>3. CASE ~Receive(s)
    <3>1. \/ stream' = stream
          \/ \E label \in {"subscribing", "selecting", "unsubscribing", "done"} : Goto(s, label)
      BY <2>3 DEF HandlerStep, Client, Announce, Subscribe, Cancelled, SendFails, Unsubscribe,
          Open, SendToClient, Vanish, streamVars
    <3>2. stream'[q] = stream[q] \/ stream'[q].pc # "sending"
      BY <1>0, <3>1 DEF Goto
    <3> QED BY <1>4, <2>1, <3>2
  <2> QED BY <2>2, <2>3
<1>5. ASSUME NEW q \in Streams
      PROVE  got'[q] \subseteq GoodLines
  <2>1. CASE got' = got
    BY <2>1 DEF LineInv
  <2>2. CASE SendToClient(s)
    BY <1>0, <2>2 DEF SendToClient, LineInv
  <2>3. got' = got \/ SendToClient(s)
    BY DEF HandlerStep, Client, Announce, Subscribe, Receive, Cancelled, SendFails,
        Unsubscribe, Open, Vanish, streamVars
  <2> QED BY <2>1, <2>2, <2>3
<1> QED BY <1>1, <1>2, <1>3, <1>4, <1>5 DEF LineInv, Readers, At, Own

----------------------------------------------------------------------------
(* Theorems                                                                *)

\* The invariant holds in every reachable state.
THEOREM LogInvariant == Spec => []LogInv
<1>1. Init => LogInv
  <2> SUFFICES ASSUME Init PROVE LogInv
    OBVIOUS
  <2>1. /\ 0 \in 0..MaxLines /\ 0 \in 0..MaxFaults /\ 0 \in 0..Attributes
        /\ 0 \in 0..2 * Attributes
    BY LogAssumption
  <2>2. Quiet(0) \in LogCall /\ Quiet(0).pc = "idle"
    BY <2>1, QuietMade
  <2>3. Unattributed \in Slice
    BY <2>1 DEF Unattributed, Slice, Addresses
  <2>4. [pc |-> "idle", line |-> None] \in Place
    BY DEF Place
  <2>5. memory \in [Addresses -> [Slots -> Addresses]]
    BY DEF Init, Addresses
  <2>6. TypeOK
    BY <2>1, <2>2, <2>3, <2>4, <2>5, NoItems DEF Init, TypeOK, Place
  <2>7. ChannelInv
    BY <2>2 DEF Init, ChannelInv, Subscribed, ClosedIsDone, ReadersSeeSubscribers, Readers
  <2>8. SliceInv
    BY <2>2 DEF Init, SliceInv, OwnSlice
  <2>9. LineInv
    BY <2>2, NoItems DEF Init, LineInv, Readers, At
  <2> QED BY <2>6, <2>7, <2>8, <2>9 DEF LogInv
<1>2. LogInv /\ [Next]_vars => LogInv'
  <2> SUFFICES ASSUME LogInv, [Next]_vars PROVE LogInv'
    OBVIOUS
  <2> USE DEF LogInv
  <2>1. CASE UNCHANGED vars
    <3>1. TypeOK'
      BY <2>1 DEF vars, TypeOK
    <3>2. LineInv'
      BY <2>1 DEF vars, LineInv, Readers, At, Own, GoodLines
    <3> QED BY <3>1, <3>2, StepKeepsChannels, StepKeepsSlices
  <2>2. CASE Next
    <3>1. TypeOK' /\ LineInv'
      BY <2>2, LoggerKeepsTypes, LoggerKeepsLines, StreamKeepsTypes, StreamKeepsLines DEF Next
    <3> QED BY <3>1, StepKeepsChannels, StepKeepsSlices
  <2> QED BY <2>1, <2>2
<1> QED BY <1>1, <1>2, PTL DEF Spec

\* Every variable of the log hub keeps its type, and no channel holds more than its
\* capacity (hub.go:20-47, notify.go:371-386).
THEOREM TypeCorrect == Spec => []TypeOK
<1>1. LogInv => TypeOK
  BY DEF LogInv
<1> QED BY <1>1, LogInvariant, PTL

\* Every line in a channel or with a client is a good one.
LEMMA StreamedIsGood == LogInv => Streamed \subseteq GoodLines
BY DEF LogInv, LineInv, Streamed

\* A streamed line speaks of the event of the goroutine that logged it, however
\* loggers are derived from one another (logging.go:124-173, 216-231).
THEOREM LabelsAreOwn == Spec => []OwnLabel
<1>1. LogInv => OwnLabel
  BY StreamedIsGood DEF OwnLabel, GoodLines
<1> QED BY <1>1, LogInvariant, PTL

\* With a log file, whatever a client sees is in the file (logging.go:36-43).
THEOREM LoggedBeforeStreamed == Spec => []StreamedIsLogged
<1>1. LogInv => StreamedIsLogged
  BY StreamedIsGood DEF StreamedIsLogged, GoodLines
<1> QED BY <1>1, LogInvariant, PTL

\* The steps of a handler open, read and close its own channel.
LEMMA HandlerFeeds ==
    ASSUME LogInv, NEW s \in Streams, HandlerStep(s) \/ Client(s)
    PROVE  [Feed!Next]_(Feed!vars)
<1> USE DEF LogInv, ChannelInv
<1>1. CASE Subscribe(s)
  <2>1. s \notin subscribers \cup closed
    BY <1>1 DEF Subscribe, Subscribed, ClosedIsDone, At
  <2>2. Feed!Open(s)
    BY <1>1, <2>1 DEF Subscribe, Feed!Open
  <2> QED BY <2>2 DEF Feed!Next
<1>2. CASE Receive(s)
  <2>1. Feed!Take(s)
    BY <1>2 DEF Receive, Subscribed, At, Feed!Take
  <2> QED BY <2>1 DEF Feed!Next
<1>3. CASE Unsubscribe(s)
  <2>1. Feed!Close(s)
    BY <1>3 DEF Unsubscribe, Subscribed, At, Feed!Close
  <2> QED BY <2>1 DEF Feed!Next
<1>4. CASE Announce(s) \/ Cancelled(s) \/ SendFails(s) \/ SendToClient(s) \/ Vanish(s) \/ Open(s)
  BY <1>4 DEF Announce, Cancelled, SendFails, SendToClient, Vanish, Open, hubVars, Feed!vars
<1> QED BY <1>1, <1>2, <1>3, <1>4 DEF HandlerStep, Client

\* A logger puts a line into the channel of a subscriber or nowhere.
LEMMA LoggerFeeds ==
    ASSUME LogInv, NEW g \in Loggers,
           LoggerStep(g) \/ FromContext(g) \/ \E level \in {"DEBUG", "INFO"} : Log(g, level)
    PROVE  [Feed!Next]_(Feed!vars)
<1> USE DEF LogInv, ChannelInv
<1>1. ASSUME NEW s \in Streams, Offer(g, s)
      PROVE  [Feed!Next]_(Feed!vars)
  <2>1. CASE buffer' = buffer
    BY <1>1, <2>1 DEF Offer, Feed!vars
  <2>2. CASE Room(s) /\ buffer' = [buffer EXCEPT ![s] = Append(@, logger[g].line)]
    <3>1. g \in Readers /\ logger[g].line \in Line
      BY <1>1, OfferMoves DEF Readers, LineInv, GoodLines
    <3>2. s \in subscribers
      BY <1>1, <3>1 DEF Offer, ReadersSeeSubscribers
    <3>3. Feed!Put(s, logger[g].line)
      BY <1>1, <2>2, <3>2 DEF Offer, Room, Feed!Put
    <3> QED BY <3>1, <3>3 DEF Feed!Next
  <2> QED BY <1>1, <2>1, <2>2 DEF Offer
<1>2. CASE \/ HandleFile(g) \/ Broadcast(g) \/ Return(g) \/ FromContext(g)
           \/ \E level \in {"DEBUG", "INFO"} : Log(g, level)
  BY <1>2 DEF HandleFile, Broadcast, Return, FromContext, Log, hubVars, Feed!vars
<1> QED BY <1>1, <1>2 DEF LoggerStep

\* The log hub implements LossyFeed: every step of it is a step of the subscribers'
\* channels or leaves them alone (hub.go:20-47, notify.go:371-386).
THEOREM ImplementsFeed == Spec => FeedSpec
<1>1. Init => Feed!Init
  BY DEF Init, Feed!Init
<1>2. LogInv /\ [Next]_vars => [Feed!Next]_(Feed!vars)
  <2> SUFFICES ASSUME LogInv, [Next]_vars PROVE [Feed!Next]_(Feed!vars)
    OBVIOUS
  <2>1. CASE UNCHANGED vars
    BY <2>1 DEF vars, Feed!vars
  <2> QED BY <2>1, HandlerFeeds, LoggerFeeds DEF Next
<1> QED BY <1>1, <1>2, LogInvariant, PTL DEF Spec, FeedSpec, Feed!Spec
=============================================================================
