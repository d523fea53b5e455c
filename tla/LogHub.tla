------------------------------- MODULE LogHub -------------------------------
(***************************************************************************)
(* Logging and its stream (internal/logging): goroutines that log through  *)
(* the MultiHandler set up by Init (console, file, hub), the hub with its  *)
(* RWMutex, and one StreamLogs handler (internal/server/notify.go) per     *)
(* client.  The console and the hub handler keep their attributes in       *)
(* slices that WithAttrs appends to, which may share memory; the JSON      *)
(* handler of the file keeps its own copy.                                 *)
(***************************************************************************)
EXTENDS Naturals, Sequences

CONSTANTS
    Streams,     \* StreamLogs calls
    Loggers,     \* goroutines that log, each about an event of its own
    None,
    Capacity,    \* of a subscriber's channel
    Attributes,  \* attributes FromContext adds
    MaxLines,    \* bound: lines of one goroutine
    MaxFaults    \* bound: errors of the file

ASSUME LogAssumption ==
    /\ None \notin Streams \cup Loggers
    /\ {Capacity, Attributes, MaxLines} \subseteq Nat \ {0}
    /\ MaxFaults \in Nat

VARIABLES
    logFile,      \* whether Init could open the file
    written,      \* lines in the file
    memory,       \* memory[a]: the array at a
    attrs,        \* attrs[g]: the slice h.attrs of g's logger
    logger,       \* logger[g]: where g is
    subscribers,  \* h.subscribers
    closed,       \* streams whose channel was closed
    buffer,       \* buffer[s]: its channel
    stream,       \* stream[s]: the handler
    gone,         \* streams whose client has gone away
    writer,       \* the stream that waits for, or holds, the write lock
    got,          \* history: got[s], the lines sent to the client
    faults

hubVars == <<subscribers, closed, buffer, writer>>
streamVars == <<stream, gone, got>>
labelVars == <<memory, attrs>>
vars == <<logFile, written, memory, attrs, logger, subscribers, closed, buffer, stream,
          gone, writer, got, faults>>

Slots == 1..2 * Attributes
Addresses == Loggers \cup {None}
Slice == [at : Addresses, len : 0..Attributes, cap : 0..2 * Attributes]

\* A line, its number, and the event each of its attributes speaks of.
Line == [by : Loggers, no : 1..MaxLines, label : [1..Attributes -> Addresses]]

Quiet(no) == [pc |-> "idle", no |-> no, todo |-> {}, line |-> None]
LogCall ==
    [pc : {"idle"}, no : 0..MaxLines, todo : {{}}, line : {None}]
        \cup [pc : {"file", "waiting"}, no : 1..MaxLines, todo : {{}}, line : {None}]
        \cup [pc : {"sending"}, no : 1..MaxLines, todo : SUBSET Streams, line : Line]

\* Every variable holds a value of its type, and no channel is over capacity.
TypeOK ==
    /\ logFile \in BOOLEAN
    /\ written \subseteq Line
    /\ memory \in [Addresses -> [Slots -> Addresses]]
    /\ attrs \in [Loggers -> Slice]
    /\ logger \in [Loggers -> LogCall]
    /\ subscribers \subseteq Streams
    /\ closed \subseteq Streams
    /\ buffer \in [Streams -> Seq(Line)]
    /\ \A s \in Streams : Len(buffer[s]) <= Capacity
    /\ stream \in [Streams -> [pc : {"idle", "subscribing", "selecting", "sending",
                                     "unsubscribing", "done"}, line : Line \cup {None}]]
    /\ gone \subseteq Streams
    /\ writer \in Streams \cup {None}
    /\ got \in [Streams -> SUBSET Line]
    /\ faults \in 0..MaxFaults

\* Mutated form of Unattributed: room for the attributes is made in advance.
UnattributedWithRoom == [at |-> None, len |-> 0, cap |-> 2 * Attributes]

\* The attributes of the default logger: a nil slice.
Unattributed == [at |-> None, len |-> 0, cap |-> 0]

\* logging.Init, and the hub it finds.
Init ==
    /\ logFile \in BOOLEAN
    /\ written = {}
    /\ memory = [a \in Addresses |-> [i \in Slots |-> None]]
    /\ attrs = [g \in Loggers |-> Unattributed]
    /\ logger = [g \in Loggers |-> Quiet(0)]
    /\ subscribers = {}
    /\ closed = {}
    /\ buffer = [s \in Streams |-> <<>>]
    /\ stream = [s \in Streams |-> [pc |-> "idle", line |-> None]]
    /\ gone = {}
    /\ writer = None
    /\ got = [s \in Streams |-> {}]
    /\ faults = 0

----------------------------------------------------------------------------
(* FromContext and the handlers                                            *)

\* Appends g's attribute to the slice of the logger before: in place where it has
\* room, or to a copy in memory of its own.
WithAttrs(g) ==
    LET old == attrs[g]
        len == old.len + 1
    IN  IF old.len < old.cap
        THEN /\ attrs' = [attrs EXCEPT ![g].len = len]
             /\ memory' = [memory EXCEPT ![old.at][len] = g]
        ELSE /\ attrs' = [attrs EXCEPT ![g] =
                    [at |-> g, len |-> len, cap |-> IF old.cap = 0 THEN 1 ELSE 2 * old.cap]]
             /\ memory' = [memory EXCEPT ![g] = [memory[old.at] EXCEPT ![len] = g]]

\* One With of the chain.
FromContext(g) ==
    /\ attrs[g].len < Attributes
    /\ WithAttrs(g)
    /\ UNCHANGED <<logFile, written, logger, hubVars, streamVars, faults>>

\* MultiHandler.Enabled: the handlers share one level.
Enabled(level) == level \in {"INFO", "WARN", "ERROR"}

\* The goroutine logs; the console handler comes first and never fails.
Log(g, level) ==
    /\ attrs[g].len = Attributes
    /\ logger[g].pc = "idle"
    /\ logger[g].no < MaxLines
    /\ Enabled(level)
    /\ logger' = [logger EXCEPT ![g] = [pc |-> IF logFile THEN "file" ELSE "waiting",
                                        no |-> @.no + 1, todo |-> {}, line |-> None]]
    /\ UNCHANGED <<logFile, written, labelVars, hubVars, streamVars, faults>>

\* What the file's handler writes: it has its own copy of the attributes.
Own(g) == [by |-> g, no |-> logger[g].no, label |-> [i \in 1..Attributes |-> g]]

\* Mutated form of HandleFile: the error is dropped and the loop goes on.
HandleFileGoingOn(g) ==
    /\ logger[g].pc = "file"
    /\ \/ written' = written \cup {Own(g)} /\ UNCHANGED faults
       \/ faults < MaxFaults /\ faults' = faults + 1 /\ UNCHANGED written
    /\ logger' = [logger EXCEPT ![g].pc = "waiting"]
    /\ UNCHANGED <<logFile, labelVars, hubVars, streamVars>>

\* The file's handler; its error ends the loop of the MultiHandler.
HandleFile(g) ==
    /\ logger[g].pc = "file"
    /\ \/ /\ written' = written \cup {Own(g)}
          /\ logger' = [logger EXCEPT ![g].pc = "waiting"]
          /\ UNCHANGED faults
       \/ /\ faults < MaxFaults
          /\ faults' = faults + 1
          /\ logger' = [logger EXCEPT ![g] = Quiet(@.no)]
          /\ UNCHANGED written
    /\ UNCHANGED <<logFile, labelVars, hubVars, streamVars>>

----------------------------------------------------------------------------
(* Broadcast                                                               *)

Readers == {g \in Loggers : logger[g].pc = "sending"}

\* The hub's handler puts the line together and takes the read lock.
Broadcast(g) ==
    /\ logger[g].pc = "waiting"
    /\ writer = None
    /\ LET label == [i \in 1..Attributes |-> memory[attrs[g].at][i]] IN
       logger' = [logger EXCEPT ![g] =
                    [pc |-> "sending", no |-> @.no, todo |-> subscribers,
                     line |-> [by |-> g, no |-> @.no, label |-> label]]]
    /\ UNCHANGED <<logFile, written, labelVars, hubVars, streamVars, faults>>

\* Mutated form of Room: full is not looked at.
RoomAlways(s) == TRUE

Room(s) == Len(buffer[s]) < Capacity

\* Mutated form of Offer: a channel send without the default case.
OfferBlocking(g, s) ==
    /\ s \in logger[g].todo
    /\ Room(s)
    /\ buffer' = [buffer EXCEPT ![s] = Append(@, logger[g].line)]
    /\ logger' = [logger EXCEPT ![g].todo = @ \ {s}]
    /\ UNCHANGED <<logFile, written, labelVars, subscribers, closed, writer, streamVars, faults>>

\* One turn of the loop over the subscribers: a full channel is skipped.
Offer(g, s) ==
    /\ s \in logger[g].todo
    /\ buffer' = IF Room(s) THEN [buffer EXCEPT ![s] = Append(@, logger[g].line)] ELSE buffer
    /\ logger' = [logger EXCEPT ![g].todo = @ \ {s}]
    /\ UNCHANGED <<logFile, written, labelVars, subscribers, closed, writer, streamVars, faults>>

\* The loop is over, and the read lock given back.
Return(g) ==
    /\ g \in Readers
    /\ logger[g].todo = {}
    /\ logger' = [logger EXCEPT ![g] = Quiet(@.no)]
    /\ UNCHANGED <<logFile, written, labelVars, hubVars, streamVars, faults>>

----------------------------------------------------------------------------
(* StreamLogs                                                              *)

At(s, label) == stream[s].pc = label
Goto(s, label) == stream' = [stream EXCEPT ![s] = [pc |-> label, line |-> None]]

Open(s) ==
    /\ At(s, "idle")
    /\ Goto(s, "subscribing")
    /\ UNCHANGED <<logFile, written, labelVars, logger, hubVars, gone, got, faults>>

\* mu.Lock(): from here on new readers wait.
Announce(s) ==
    /\ At(s, "subscribing") \/ At(s, "unsubscribing")
    /\ writer = None
    /\ writer' = s
    /\ UNCHANGED <<logFile, written, labelVars, logger, subscribers, closed, buffer,
                   streamVars, faults>>

\* The lock is granted when the readers are through.
Granted(s) == writer = s /\ Readers = {}

Subscribe(s) ==
    /\ At(s, "subscribing")
    /\ Granted(s)
    /\ subscribers' = subscribers \cup {s}
    /\ writer' = None
    /\ Goto(s, "selecting")
    /\ UNCHANGED <<logFile, written, labelVars, logger, closed, buffer, gone, got, faults>>

\* The select takes a line.
Receive(s) ==
    /\ At(s, "selecting")
    /\ buffer[s] # <<>>
    /\ stream' = [stream EXCEPT ![s] = [pc |-> "sending", line |-> Head(buffer[s])]]
    /\ buffer' = [buffer EXCEPT ![s] = Tail(@)]
    /\ UNCHANGED <<logFile, written, labelVars, logger, subscribers, closed, writer, gone,
                   got, faults>>

\* Mutated form of Cancelled: the loop only ranges over the channel.
CancelledNever(s) == FALSE /\ UNCHANGED vars

\* The select takes stream.Context().Done().
Cancelled(s) ==
    /\ At(s, "selecting")
    /\ s \in gone
    /\ Goto(s, "unsubscribing")
    /\ UNCHANGED <<logFile, written, labelVars, logger, hubVars, gone, got, faults>>

\* stream.Send succeeds once the client reads, however long that takes.
SendToClient(s) ==
    /\ At(s, "sending")
    /\ s \notin gone
    /\ got' = [got EXCEPT ![s] = @ \cup {stream[s].line}]
    /\ Goto(s, "selecting")
    /\ UNCHANGED <<logFile, written, labelVars, logger, hubVars, gone, faults>>

SendFails(s) ==
    /\ At(s, "sending")
    /\ s \in gone
    /\ Goto(s, "unsubscribing")
    /\ UNCHANGED <<logFile, written, labelVars, logger, hubVars, gone, got, faults>>

\* The deferred Unsubscribe: nobody reads what is left in the channel.
Unsubscribe(s) ==
    /\ At(s, "unsubscribing")
    /\ Granted(s)
    /\ subscribers' = subscribers \ {s}
    /\ closed' = closed \cup {s}
    /\ buffer' = [buffer EXCEPT ![s] = <<>>]
    /\ writer' = None
    /\ Goto(s, "done")
    /\ UNCHANGED <<logFile, written, labelVars, logger, gone, got, faults>>

\* The client goes away.
Vanish(s) ==
    /\ ~At(s, "idle")
    /\ s \notin gone
    /\ gone' = gone \cup {s}
    /\ UNCHANGED <<logFile, written, labelVars, logger, hubVars, stream, got, faults>>

----------------------------------------------------------------------------

LoggerStep(g) ==
    \/ HandleFile(g)
    \/ Broadcast(g)
    \/ \E s \in Streams : Offer(g, s)
    \/ Return(g)

HandlerStep(s) ==
    \/ Announce(s)
    \/ Subscribe(s)
    \/ Receive(s)
    \/ Cancelled(s)
    \/ SendFails(s)
    \/ Unsubscribe(s)

Client(s) == Open(s) \/ SendToClient(s) \/ Vanish(s)

Next ==
    \/ \E g \in Loggers :
        LoggerStep(g) \/ FromContext(g) \/ \E level \in {"DEBUG", "INFO"} : Log(g, level)
    \/ \E s \in Streams : HandlerStep(s) \/ Client(s)

Spec == Init /\ [][Next]_vars

\* Goroutines that can go on do; no client is obliged to open a stream, to read
\* from it or to go away, and nobody to log.
Fairness ==
    /\ \A g \in Loggers : WF_vars(LoggerStep(g))
    /\ \A s \in Streams : WF_vars(HandlerStep(s))

FairSpec == Spec /\ Fairness

----------------------------------------------------------------------------
(* Properties                                                              *)

\* Lines on their way to a client, or received.
Streamed ==
    UNION {got[s] \cup {buffer[s][i] : i \in DOMAIN buffer[s]} : s \in Streams}

\* A streamed line speaks of the event of the goroutine that logged it, although
\* loggers are derived from one another by appending to shared slices
\* (logging.go:124-130, 167-173, 216-231).
OwnLabel == \A line \in Streamed : \A i \in 1..Attributes : line.label[i] = line.by

\* With a log file, whatever a client sees is in the file as well, also when
\* writing the file fails (logging.go:36-43, 208-213).
StreamedIsLogged == logFile => Streamed \subseteq written

\* Every client's channel is a lossy bounded FIFO that nobody writes to before it
\* is opened or after it is closed (hub.go:20-47).
Feed == INSTANCE LossyFeed
            WITH Readers <- Streams, Items <- Line, open <- subscribers, queue <- buffer
FeedSpec == Feed!Spec

\* Logging never waits for a client (hub.go:41-45, "Subscriber is too slow, skip
\* this line").
LogReturns == \A g \in Loggers : logger[g].pc # "idle" ~> logger[g].pc = "idle"

\* A handler whose client is gone ends and gives its subscription up, whether or
\* not anything is logged (notify.go:371-386).
GoneIsReleased == \A s \in Streams : s \in gone ~> At(s, "done") /\ s \notin subscribers
=============================================================================
