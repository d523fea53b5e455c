--------------------------- MODULE WebhookWorker ----------------------------
(***************************************************************************)
(* The webhook worker (internal/worker/webhook.go): workers that share one *)
(* JetStream consumer, post each notification to its webhook targets, ask  *)
(* for a redelivery after a failure, and move a message whose budget is    *)
(* used up to the dead-letter table and the DLQ stream.  JetStream         *)
(* delivers at least once: a message that is not acknowledged in time is   *)
(* given to another worker while the first may still be at it.             *)
(***************************************************************************)
EXTENDS Backoff, DeadLetterStore, FiniteSets

CONSTANTS
    Messages,       \* messages of the stream
    Payload,        \* what each of them says: a notification and an attempt count
    Notifications,
    Destinations,
    Targets,        \* Targets[n]: the webhook destinations of n
    Workers,
    None,
    FetchLimit,     \* the batch of a Fetch
    MaxFaults,      \* bound: errors, lost acknowledgements, crashes and shutdowns
    MaxTimeouts     \* bound: acknowledgements that come too late

\* A payload without a notification does not decode or names no stored row.
ASSUME WebhookAssumption ==
    /\ Payload \in [Messages -> [notification : Notifications \cup {None}, attempts : Nat]]
    /\ Targets \in [Notifications -> SUBSET Destinations]
    /\ None \notin Messages \cup Notifications \cup Destinations
    /\ IsFiniteSet(Messages) /\ IsFiniteSet(Notifications)
    /\ IsFiniteSet(Destinations) /\ IsFiniteSet(Workers)
    /\ FetchLimit \in Nat \ {0}
    /\ MaxFaults \in Nat
    /\ MaxTimeouts \in Nat

VARIABLES
    stream,     \* stream[m]: where the consumer has message m
    delay,      \* delay[m]: of the redelivery that was asked for
    fetched,    \* fetched[w]: the batch of w, not begun yet
    task,       \* task[w]: the message w is processing
    delivered,  \* delivered[n]: targets that received n
    attempts,   \* attempts[n]: delivery_attempts, without repetitions
    letters,    \* dead_letters
    dlq,        \* notifications in the DLQ stream
    stopping,   \* workers whose context is cancelled: their process shuts down
    faults,     \* errors, lost acknowledgements, crashes and shutdowns so far
    timeouts    \* late acknowledgements so far

outerVars == <<delivered, attempts, letters, dlq>>
vars == <<stream, delay, fetched, task, delivered, attempts, letters, dlq, stopping, faults, timeouts>>

\* posted is the target just posted to, ok its result, failed whether any
\* target of the pass has failed.
Task == [pc : {"fetch", "deliver", "record", "insert", "publish", "ack"},
         msg : Messages \cup {None}, todo : SUBSET Destinations,
         posted : Destinations \cup {None}, ok : BOOLEAN, failed : BOOLEAN]
NoTask == [pc |-> "fetch", msg |-> None, todo |-> {}, posted |-> None,
           ok |-> FALSE, failed |-> FALSE]

\* Every variable holds a value of its type.
TypeOK ==
    /\ stream \in [Messages -> {"ready", "out", "delayed", "acked"}]
    /\ delay \in [Messages -> Nat]
    /\ fetched \in [Workers -> SUBSET Messages]
    /\ task \in [Workers -> Task]
    /\ \A w \in Workers : Cardinality(fetched[w]) <= FetchLimit
    /\ delivered \in [Notifications -> SUBSET Destinations]
    /\ attempts \in [Notifications -> SUBSET (Destinations \X {"SUCCESS", "FAILED"})]
    /\ letters \in [rows : SUBSET Letter(Notifications), inserted : Nat]
    /\ dlq \subseteq Notifications
    /\ stopping \subseteq Workers
    /\ faults \in Nat
    /\ timeouts \in 0..MaxTimeouts

Init ==
    /\ stream = [m \in Messages |-> "ready"]
    /\ delay = [m \in Messages |-> 0]
    /\ fetched = [w \in Workers |-> {}]
    /\ task = [w \in Workers |-> NoTask]
    /\ delivered = [n \in Notifications |-> {}]
    /\ attempts = [n \in Notifications |-> {}]
    /\ letters = EmptyTable
    /\ dlq = {}
    /\ stopping = {}
    /\ faults = 0
    /\ timeouts = 0

----------------------------------------------------------------------------

\* A call returns an error (ok = FALSE) only at the price of a fault.
Call(ok) ==
    /\ ok \/ faults < MaxFaults
    /\ faults' = IF ok THEN faults ELSE faults + 1

\* A call that takes the worker's context: once that is cancelled, it fails
\* whatever the other side does, and each such error counts as one.
CtxCall(w, ok) ==
    /\ w \in stopping => ~ok
    /\ ok \/ w \in stopping \/ faults < MaxFaults
    /\ faults' = IF ok THEN faults ELSE faults + 1

\* An error may hide that the call had its effect, unless it was never sent.
Outcomes(w, old, new, ok) ==
    IF ok THEN {new} ELSE IF w \in stopping THEN {old} ELSE {old, new}

ShouldRetry(attempt) == attempt < MaxAttempts

NotificationOf(w) == Payload[task[w].msg].notification

\* msg.Ack(): settles the message for good, unless it is lost on the way; its
\* error is not looked at.
Ack(m, ok) ==
    /\ Call(ok)
    /\ stream' = IF ok THEN [stream EXCEPT ![m] = "acked"] ELSE stream

\* The row of the notification is found and decoded.
Readable(m) == Payload[m].notification # None

\* Post of the HTTP client: a 2xx answer, or an error that may hide one.
Received(w, d, ok) ==
    Outcomes(w, delivered, [delivered EXCEPT ![NotificationOf(w)] = @ \cup {d}], ok)

\* Create of the attempt store.
CreateAttempt(w, row, ok) ==
    Outcomes(w, attempts, [attempts EXCEPT ![NotificationOf(w)] = @ \cup {row}], ok)

\* PublishToDLQ of the broker.
SentToDLQ(w, ok) == Outcomes(w, dlq, dlq \cup {NotificationOf(w)}, ok)

\* What a Fetch may return: whatever is ready, up to the limit.
Batches(ready) ==
    {b \in SUBSET ready \ {{}} :
        Cardinality(b) = FetchLimit \/ (Cardinality(b) < FetchLimit /\ b = ready)}

\* After a shutdown it is the worker of the next process that fetches.
Fetch(w) ==
    /\ task[w] = NoTask
    /\ fetched[w] = {}
    /\ stopping' = stopping \ {w}
    /\ \E batch \in Batches({m \in Messages : stream[m] = "ready"}) :
        /\ fetched' = [fetched EXCEPT ![w] = batch]
        /\ stream' = [m \in Messages |-> IF m \in batch THEN "out" ELSE stream[m]]
    /\ UNCHANGED <<delay, task, outerVars, faults, timeouts>>

\* A message that does not decode is acknowledged and forgotten, and so is one
\* whose notification cannot be read: not there, or an error of GetByID.  That
\* makes a worker whose context is cancelled discard all it has fetched.
Discard(w) ==
    /\ task[w] = NoTask
    /\ \E m \in fetched[w], ok \in BOOLEAN :
        LET unread == IF Readable(m) THEN 1 ELSE 0
            unacked == IF ok THEN 0 ELSE 1
            charged == IF w \in stopping THEN unacked ELSE unread + unacked IN
        /\ charged > 0 => faults + charged <= MaxFaults
        /\ faults' = faults + unread + unacked
        /\ fetched' = [fetched EXCEPT ![w] = @ \ {m}]
        /\ stream' = IF ok THEN [stream EXCEPT ![m] = "acked"] ELSE stream
    /\ UNCHANGED <<delay, task, outerVars, stopping, timeouts>>

\* The notification is read; its webhook destinations are gone through.
Begin(w) ==
    /\ task[w] = NoTask
    /\ w \notin stopping
    /\ \E m \in fetched[w] :
        /\ Readable(m)
        /\ fetched' = [fetched EXCEPT ![w] = @ \ {m}]
        /\ task' = [task EXCEPT ![w] =
                [pc |-> "deliver", msg |-> m, todo |-> Targets[Payload[m].notification],
                 posted |-> None, ok |-> FALSE, failed |-> FALSE]]
    /\ UNCHANGED <<delay, stream, outerVars, stopping, faults, timeouts>>

\* The pass after the POST to d.
PostedTo(t, d, ok) ==
    [pc |-> "record", msg |-> t.msg, todo |-> t.todo, posted |-> d, ok |-> ok, failed |-> t.failed]

\* The target is down or answers anything but 2xx.
Refuse(w, d) ==
    /\ w \notin stopping
    /\ task' = [task EXCEPT ![w] = PostedTo(@, d, FALSE)]
    /\ UNCHANGED <<delivered, faults>>

\* The target receives the POST and answers 2xx, unless there is an error on the way.
Answer(w, d) ==
    \E ok \in BOOLEAN :
        /\ CtxCall(w, ok)
        /\ delivered' \in Received(w, d, ok)
        /\ task' = [task EXCEPT ![w] = PostedTo(@, d, ok)]

\* The POST to the next target.
Post(w) ==
    /\ task[w].pc = "deliver"
    /\ \E d \in task[w].todo : Refuse(w, d) \/ Answer(w, d)
    /\ UNCHANGED <<delay, stream, fetched, attempts, letters, dlq, stopping, timeouts>>

\* Mutated form of Attempt: the row as it was when the POST began.
AttemptAsOfDefer(w) == <<task[w].posted, "FAILED">>

\* Mutated form of Attempt: the status of the event instead of the row's.
AttemptAsEvent(w) == <<task[w].posted, IF task[w].ok THEN "DELIVERED" ELSE "FAILED">>

\* The row of delivery_attempts that says so.
Attempt(w) == <<task[w].posted, IF task[w].ok THEN "SUCCESS" ELSE "FAILED">>

\* Mutated form of PostDone: the last destination decides.
PostDoneLastCounts(t) ==
    [pc |-> "deliver", msg |-> t.msg, todo |-> t.todo \ {t.posted}, posted |-> None,
     ok |-> FALSE, failed |-> ~t.ok]

\* Where the pass over the destinations stands after the one in hand.
PostDone(t) ==
    [pc |-> "deliver", msg |-> t.msg, todo |-> t.todo \ {t.posted}, posted |-> None,
     ok |-> FALSE, failed |-> t.failed \/ ~t.ok]

\* The deferred attempts.Create, whose error is only logged.
Record(w) ==
    /\ task[w].pc = "record"
    /\ \E ok \in BOOLEAN :
        /\ CtxCall(w, ok)
        /\ attempts' \in CreateAttempt(w, Attempt(w), ok)
    /\ task' = [task EXCEPT ![w] = PostDone(@)]
    /\ UNCHANGED <<delay, stream, fetched, delivered, letters, dlq, stopping, timeouts>>

\* The budget counts the attempts the payload knows of, and this one.
Exhausted(m) == ~ShouldRetry(Payload[m].attempts + 1)

\* Mutated form of Succeed: the acknowledgement is forgotten.
SucceedWithoutAck(w) ==
    /\ task[w].pc = "deliver"
    /\ task[w].todo = {}
    /\ ~task[w].failed
    /\ task' = [task EXCEPT ![w] = NoTask]
    /\ UNCHANGED <<delay, stream, fetched, outerVars, stopping, faults, timeouts>>

\* No destination failed: acknowledge.
Succeed(w) ==
    /\ task[w].pc = "deliver"
    /\ task[w].todo = {}
    /\ ~task[w].failed
    /\ \E ok \in BOOLEAN : Ack(task[w].msg, ok)
    /\ task' = [task EXCEPT ![w] = NoTask]
    /\ UNCHANGED <<delay, fetched, outerVars, stopping, timeouts>>

\* Ask for a redelivery after a delay.  The stream keeps the message as it was
\* published: the incremented count is not part of what comes back.  A late
\* request, for a message that was settled or handed out again, has no effect.
Retry(w) ==
    LET m == task[w].msg IN
    /\ task[w].pc = "deliver"
    /\ task[w].todo = {}
    /\ task[w].failed
    /\ ~Exhausted(m)
    /\ \E ok \in BOOLEAN :
        /\ Call(ok)
        /\ IF ok /\ stream[m] = "out"
           THEN /\ stream' = [stream EXCEPT ![m] = "delayed"]
                /\ \E d \in NextDelay(Payload[m].attempts + 1) : delay' = [delay EXCEPT ![m] = d]
           ELSE UNCHANGED <<stream, delay>>
    /\ task' = [task EXCEPT ![w] = NoTask]
    /\ UNCHANGED <<fetched, outerVars, stopping, timeouts>>

GiveUp(w) ==
    /\ task[w].pc = "deliver"
    /\ task[w].todo = {}
    /\ task[w].failed
    /\ Exhausted(task[w].msg)
    /\ task' = [task EXCEPT ![w].pc = "insert"]
    /\ UNCHANGED <<delay, stream, fetched, outerVars, stopping, faults, timeouts>>

----------------------------------------------------------------------------
(* moveToDLQ                                                               *)

InsertLetter(w) ==
    /\ task[w].pc = "insert"
    /\ \E ok \in BOOLEAN :
        /\ CtxCall(w, ok)
        /\ LET m == task[w].msg IN
           letters' \in Outcomes(w, letters,
                CreateLetter(letters, NotificationOf(w), Payload[m].attempts + 1), ok)
    /\ task' = [task EXCEPT ![w].pc = "publish"]
    /\ UNCHANGED <<delay, stream, fetched, delivered, attempts, dlq, stopping, timeouts>>

PublishToDLQ(w) ==
    /\ task[w].pc = "publish"
    /\ \E ok \in BOOLEAN :
        /\ CtxCall(w, ok)
        /\ dlq' \in SentToDLQ(w, ok)
    /\ task' = [task EXCEPT ![w].pc = "ack"]
    /\ UNCHANGED <<delay, stream, fetched, delivered, attempts, letters,
                   stopping, timeouts>>

\* Back in processMessage: acknowledge, whatever became of the two writes.
AckGivenUp(w) ==
    /\ task[w].pc = "ack"
    /\ \E ok \in BOOLEAN : Ack(task[w].msg, ok)
    /\ task' = [task EXCEPT ![w] = NoTask]
    /\ UNCHANGED <<delay, fetched, outerVars, stopping, timeouts>>

----------------------------------------------------------------------------
(* The consumer and the outside                                            *)

Held(m) == \E w \in Workers : m \in fetched[w] \/ task[w].msg = m

\* The delay of a NakWithDelay is over.
DelayOver(m) ==
    /\ stream[m] = "delayed"
    /\ stream' = [stream EXCEPT ![m] = "ready"]
    /\ delay' = [delay EXCEPT ![m] = 0]
    /\ UNCHANGED <<fetched, task, outerVars, stopping, faults, timeouts>>

\* The consumer waited long enough for a message that nobody works on.
AckWaitOver(m) ==
    /\ stream[m] = "out"
    /\ ~Held(m)
    /\ stream' = [stream EXCEPT ![m] = "ready"]
    /\ UNCHANGED <<delay, fetched, task, outerVars, stopping, faults, timeouts>>

\* The same while a slow worker still has it.
AckTooLate(m) ==
    /\ stream[m] = "out"
    /\ Held(m)
    /\ timeouts < MaxTimeouts
    /\ timeouts' = timeouts + 1
    /\ stream' = [stream EXCEPT ![m] = "ready"]
    /\ UNCHANGED <<delay, fetched, task, outerVars, stopping, faults>>

\* A worker dies and another takes its place.
Crash(w) ==
    /\ task[w] # NoTask \/ fetched[w] # {}
    /\ Call(FALSE)
    /\ fetched' = [fetched EXCEPT ![w] = {}]
    /\ task' = [task EXCEPT ![w] = NoTask]
    /\ stopping' = stopping \ {w}
    /\ UNCHANGED <<delay, stream, outerVars, timeouts>>

\* The process of a worker is told to stop.  The context is looked at between
\* two batches only, so the worker goes on with the one it has.
Shutdown(w) ==
    /\ task[w] # NoTask \/ fetched[w] # {}
    /\ w \notin stopping
    /\ Call(FALSE)
    /\ stopping' = stopping \cup {w}
    /\ UNCHANGED <<stream, delay, fetched, task, outerVars, timeouts>>

----------------------------------------------------------------------------

WorkerStep(w) ==
    \/ Fetch(w)
    \/ Discard(w)
    \/ Begin(w)
    \/ Post(w)
    \/ Record(w)
    \/ Succeed(w)
    \/ Retry(w)
    \/ GiveUp(w)
    \/ InsertLetter(w)
    \/ PublishToDLQ(w)
    \/ AckGivenUp(w)

Next ==
    \/ \E w \in Workers : WorkerStep(w) \/ Crash(w) \/ Shutdown(w)
    \/ \E m \in Messages : DelayOver(m) \/ AckWaitOver(m) \/ AckTooLate(m)

Spec == Init /\ [][Next]_vars

\* Workers go on, and the consumer's timers fire.
Fairness ==
    /\ \A w \in Workers : WF_vars(WorkerStep(w))
    /\ \A m \in Messages : WF_vars(DelayOver(m)) /\ WF_vars(AckWaitOver(m))

FairSpec == Spec /\ Fairness

----------------------------------------------------------------------------
(* Properties                                                              *)

\* A worker that read its notification lets go of the message only if every
\* webhook target has answered 2xx, to this worker or to another, or if the
\* notification is in a dead-letter store, as long as one error was met at most:
\* whichever one of the two writes of moveToDLQ fails, the other keeps it
\* (webhook.go:93-117, 159-181).
AckedIsAccounted ==
    [][\A w \in Workers :
        LET m == task[w].msg  n == NotificationOf(w) IN
        /\ m # None
        /\ task'[w] = NoTask
        /\ stream[m] # "acked"
        /\ stream'[m] = "acked"
        => Targets[n] \subseteq delivered[n] \/ LettersOf(letters, n) # {} \/ n \in dlq \/ faults >= 2]_vars

\* Notifications that reached a target, with no row that says so and no worker
\* about to write one.
Unrecorded ==
    {p \in Notifications \X Destinations :
        /\ p[2] \in delivered[p[1]]
        /\ <<p[2], "SUCCESS">> \notin attempts[p[1]]
        /\ \A w \in Workers : task[w].pc = "record" /\ task[w].ok =>
                <<NotificationOf(w), task[w].posted>> # p}

\* Every delivery that reached its target is on record as a SUCCESS, but for one
\* per error or crash, also when workers deliver the same message at the same
\* time or shut down in the middle of it (webhook.go:129-133, 148-152).
DeliveredIsRecorded == Cardinality(Unrecorded) <= faults

\* Messages that were let go although some target did not receive them and no
\* dead-letter store has them.
Lost ==
    {m \in Messages :
        /\ Readable(m)
        /\ stream[m] = "acked"
        /\ LET n == Payload[m].notification IN
            ~(Targets[n] \subseteq delivered[n] \/ LettersOf(letters, n) # {} \/ n \in dlq)}

\* No message is lost but for one per error: the read of a notification that
\* fails, as all reads of a worker that shuts down do, or both writes of
\* moveToDLQ (webhook.go:72-74, 86-117, 159-181).
LostOnlyToFaults == Cardinality(Lost) <= faults

\* The delay of every redelivery that is asked for stays between the floor and
\* the cap with its jitter (webhook.go:111-113, backoff.go:28-51).
DelayInBounds == \A m \in Messages : stream[m] = "delayed" => InBounds(delay[m])

\* A target turns a POST down.
Refusal ==
    \E w \in Workers :
        task[w].pc = "deliver" /\ \E d \in task[w].todo : Refuse(w, d)

\* Once the targets work for good, every message is settled, over redeliveries,
\* crashes, shutdowns and lost acknowledgements (webhook.go:59-118).
SettledOnceReachable ==
    <>[][~Refusal]_vars => \A m \in Messages : <>(stream[m] = "acked")

\* A message is retried a bounded number of times: sooner or later it is
\* settled, whatever its targets answer (webhook.go:109-117).
RetriesEnd ==
    \A m \in Messages : <>(stream[m] = "acked")
=============================================================================
