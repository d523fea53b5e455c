---------------------------- MODULE WebhookProofs ----------------------------
(***************************************************************************)
(* Theorems about WebhookWorker: its types, the delay of a retry, and what *)
(* errors, crashes and shutdowns can cost: one unrecorded delivery or one  *)
(* lost message each, and two of them before a message is lost whose       *)
(* notification had been read.                                             *)
(***************************************************************************)
EXTENDS WebhookWorker, FiniteSetTheorems, TLAPS

LetterTable == [rows : SUBSET Letter(Notifications), inserted : Nat]

\* What the place of a worker in its pass says about its message.
TaskInv(w) ==
    /\ task[w].pc = "fetch" => task[w] = NoTask
    /\ task[w].pc # "fetch" => task[w].msg \in Messages /\ Readable(task[w].msg)
    /\ task[w].pc = "record" =>
            /\ task[w].posted \in task[w].todo
            /\ task[w].ok => task[w].posted \in delivered[NotificationOf(w)]
    /\ task[w].pc \in {"deliver", "record"} /\ ~task[w].failed =>
            Targets[NotificationOf(w)] \ task[w].todo \subseteq delivered[NotificationOf(w)]

\* The dead-letter table or the DLQ stream has the notification.
InTable(n) == LettersOf(letters, n) # {}
Kept(n) == InTable(n) \/ n \in dlq

\* Workers about to let go of a message that no dead-letter store has yet, after
\* an error of one of them.
Doomed ==
    {w \in Workers :
        \/ task[w].pc = "publish" /\ ~InTable(NotificationOf(w))
        \/ task[w].pc = "ack" /\ ~Kept(NotificationOf(w))}

LostInv == Cardinality(Lost) + Cardinality(Doomed) <= faults

\* The same errors, counted for one worker.
DoubtInv(w) ==
    /\ task[w].pc = "publish" /\ ~InTable(NotificationOf(w)) => faults >= 1
    /\ task[w].pc = "ack" /\ ~Kept(NotificationOf(w)) => faults >= 2

WorkerInv == TypeOK /\ \A w \in Workers : TaskInv(w) /\ DoubtInv(w)

WebhookInv == WorkerInv /\ DelayInBounds /\ DeliveredIsRecorded /\ LostInv

----------------------------------------------------------------------------
(* Counting                                                                *)

\* A set that gains one element at most.
LEMMA OneMore ==
    ASSUME NEW S, IsFiniteSet(S), NEW T, NEW x, T \subseteq S \cup {x}
    PROVE  /\ IsFiniteSet(T)
           /\ Cardinality(T) \in Nat /\ Cardinality(S) \in Nat
           /\ Cardinality(T) <= Cardinality(S) + 1
<1>1. IsFiniteSet(S \cup {x}) /\ Cardinality(S \cup {x}) \in {Cardinality(S), Cardinality(S) + 1}
  BY FS_AddElement
<1>2. IsFiniteSet(T) /\ Cardinality(T) <= Cardinality(S \cup {x})
  BY <1>1, FS_Subset
<1> QED BY <1>1, <1>2, FS_CardinalityType

\* A set that gains nothing.
LEMMA NoMore ==
    ASSUME NEW S, IsFiniteSet(S), NEW T, T \subseteq S
    PROVE  /\ IsFiniteSet(T)
           /\ Cardinality(T) \in Nat /\ Cardinality(S) \in Nat
           /\ Cardinality(T) <= Cardinality(S)
BY FS_Subset, FS_CardinalityType

\* A set that loses an element.
LEMMA OneLess ==
    ASSUME NEW S, IsFiniteSet(S), NEW x \in S, NEW T, T \subseteq S \ {x}
    PROVE  /\ IsFiniteSet(T)
           /\ Cardinality(T) \in Nat /\ Cardinality(S) \in Nat
           /\ Cardinality(T) + 1 <= Cardinality(S)
<1>1. IsFiniteSet(S \ {x}) /\ Cardinality(S \ {x}) = Cardinality(S) - 1
  BY FS_RemoveElement
<1>2. IsFiniteSet(T) /\ Cardinality(T) <= Cardinality(S \ {x})
  BY <1>1, FS_Subset
<1> QED BY <1>1, <1>2, FS_CardinalityType

----------------------------------------------------------------------------
(* The backoff                                                             *)

\* The capped delay is a number up to the cap.
LEMMA CappedBound ==
    ASSUME NEW attempt \in 0..MaxAttempts
    PROVE  Capped(attempt) \in Nat /\ Capped(attempt) <= MaxDelay
<1> DEFINE power == Factor ^ attempt
<1>1. power \in Nat /\ BaseDelay \in Nat /\ MaxDelay \in Nat
  BY BackoffAssumption
<1>2. Capped(attempt) = IF BaseDelay * power > MaxDelay THEN MaxDelay ELSE BaseDelay * power
  BY DEF Capped
<1> HIDE DEF power
<1>3. BaseDelay * power \in Nat
  BY <1>1
<1> QED BY <1>1, <1>2, <1>3

\* NextDelay stays between the floor and the cap with its jitter.
LEMMA NextDelayBound ==
    ASSUME NEW attempt \in 0..MaxAttempts, NEW d \in NextDelay(attempt)
    PROVE  d \in Nat /\ InBounds(d)
<1> DEFINE capped == Capped(attempt)
<1>1. capped \in Nat /\ capped <= MaxDelay
  BY CappedBound
<1>2. PICK e \in Jittered(capped) : d = AtLeast(e, MinDelay)
  BY DEF NextDelay
<1> HIDE DEF capped
<1>3. e \in Nat /\ 100 * e <= (100 + Jitter) * capped
  BY <1>1, <1>2 DEF Jittered
<1>4. (100 + Jitter) * capped <= (100 + Jitter) * MaxDelay
  BY <1>1, BackoffAssumption
<1>5. {MinDelay, MaxDelay, Jitter, (100 + Jitter) * capped, (100 + Jitter) * MaxDelay} \subseteq Nat
  BY <1>1, BackoffAssumption
<1> QED BY <1>2, <1>3, <1>4, <1>5 DEF AtLeast, InBounds

----------------------------------------------------------------------------
(* Calls, messages and stores                                              *)

\* What a message says.
LEMMA MessageSays ==
    ASSUME NEW m \in Messages
    PROVE  /\ Payload[m].attempts \in Nat
           /\ Readable(m) => /\ Payload[m].notification \in Notifications
                             /\ Targets[Payload[m].notification] \subseteq Destinations
BY WebhookAssumption DEF Readable

\* The notification that a worker has in hand.
LEMMA InHand ==
    ASSUME NEW w \in Workers, TaskInv(w), task[w].pc # "fetch"
    PROVE  /\ task[w].msg \in Messages /\ task[w].msg # None /\ Readable(task[w].msg)
           /\ NotificationOf(w) = Payload[task[w].msg].notification
           /\ NotificationOf(w) \in Notifications
BY MessageSays, WebhookAssumption DEF TaskInv, NotificationOf

\* A call counts its error.
LEMMA CallBound ==
    ASSUME faults \in Nat, NEW ok \in BOOLEAN,
           Call(ok) \/ \E w \in Workers : CtxCall(w, ok)
    PROVE  /\ faults' \in Nat
           /\ faults' >= faults
           /\ ~ok => faults' = faults + 1
BY DEF Call, CtxCall

\* The insert of a dead letter leaves a table of letters, and the notification in it.
LEMMA LetterStored ==
    ASSUME NEW table \in LetterTable, NEW n \in Notifications, NEW a \in Nat
    PROVE  /\ CreateLetter(table, n, a) \in LetterTable
           /\ LettersOf(CreateLetter(table, n, a), n) # {}
           /\ \A k : LettersOf(table, k) # {} => LettersOf(CreateLetter(table, n, a), k) # {}
<1>1. CASE LettersOf(table, n) # {}
  BY <1>1 DEF CreateLetter
<1>2. CASE LettersOf(table, n) = {}
  <2> DEFINE letter == [id |-> table.inserted + 1, job |-> n, attempts |-> a]
             new == [rows |-> table.rows \cup {letter}, inserted |-> table.inserted + 1]
  <2>1. CreateLetter(table, n, a) = new
    BY <1>2 DEF CreateLetter
  <2>2. new.rows = table.rows \cup {letter} /\ letter.job = n
    OBVIOUS
  <2>3. new \in LetterTable
    BY DEF LetterTable, Letter
  <2> HIDE DEF new, letter
  <2> QED BY <2>1, <2>2, <2>3 DEF LettersOf
<1> QED BY <1>1, <1>2

\* An acknowledgement settles its message or nothing.
LEMMA AckSettles ==
    ASSUME TypeOK, NEW m \in Messages, NEW ok \in BOOLEAN, Ack(m, ok)
    PROVE  /\ faults' \in Nat
           /\ stream' \in [Messages -> {"ready", "out", "delayed", "acked"}]
           /\ stream' = [stream EXCEPT ![m] = "acked"] \/ (stream' = stream /\ ~ok)
BY CallBound DEF Ack, TypeOK

----------------------------------------------------------------------------
(* Types                                                                   *)

NoTaskTyped == NoTask \in Task

LEMMA TaskTypes ==
    /\ NoTaskTyped
    /\ NoTask.pc = "fetch" /\ NoTask.msg = None
BY DEF NoTaskTyped, NoTask, Task

\* A worker's step in its pass.
LEMMA WorkerTypes ==
    ASSUME TypeOK, NEW w \in Workers, TaskInv(w), WorkerStep(w)
    PROVE  TypeOK'
<1>0. /\ task \in [Workers -> Task] /\ task[w] \in Task
      /\ fetched \in [Workers -> SUBSET Messages]
      /\ stream \in [Messages -> {"ready", "out", "delayed", "acked"}]
      /\ faults \in Nat
      /\ NoTask \in Task
  BY TaskTypes DEF TypeOK, NoTaskTyped
<1>1. ASSUME UNCHANGED <<delay, outerVars, stopping, timeouts>>, task' \in [Workers -> Task],
             stream' \in [Messages -> {"ready", "out", "delayed", "acked"}],
             faults' \in Nat, UNCHANGED fetched
      PROVE  TypeOK'
  BY <1>1 DEF TypeOK, outerVars
<1>2. CASE Fetch(w)
  <2>1. PICK batch \in Batches({m \in Messages : stream[m] = "ready"}) :
            /\ fetched' = [fetched EXCEPT ![w] = batch]
            /\ stream' = [m \in Messages |-> IF m \in batch THEN "out" ELSE stream[m]]
    BY <1>2 DEF Fetch
  <2>2. batch \subseteq Messages /\ Cardinality(batch) <= FetchLimit
    <3>1. batch \subseteq Messages /\ IsFiniteSet(batch)
      BY FS_Subset, WebhookAssumption DEF Batches
    <3>2. Cardinality(batch) \in Nat
      BY <3>1, FS_CardinalityType
    <3> QED BY <3>1, <3>2, WebhookAssumption DEF Batches
  <2>3. UNCHANGED <<delay, task, outerVars, faults, timeouts>> /\ stopping' = stopping \ {w}
    BY <1>2 DEF Fetch
  <2> QED BY <1>0, <2>1, <2>2, <2>3 DEF TypeOK, outerVars
<1>3. ASSUME NEW m \in fetched[w], fetched' = [fetched EXCEPT ![w] = @ \ {m}]
      PROVE  /\ fetched' \in [Workers -> SUBSET Messages]
             /\ \A v \in Workers : Cardinality(fetched'[v]) <= FetchLimit
  <2>1. IsFiniteSet(fetched[w]) /\ fetched[w] \ {m} \subseteq fetched[w]
    BY <1>0, FS_Subset, WebhookAssumption
  <2>2. Cardinality(fetched[w] \ {m}) <= Cardinality(fetched[w])
    BY <2>1, FS_Subset
  <2>3. Cardinality(fetched[w] \ {m}) \in Nat /\ Cardinality(fetched[w]) \in Nat
    BY <2>1, NoMore
  <2>4. \A v \in Workers : Cardinality(fetched[v]) <= FetchLimit
    BY DEF TypeOK
  <2> QED BY <1>0, <1>3, <2>2, <2>3, <2>4, WebhookAssumption
<1>4. CASE Discard(w)
  <2>1. PICK m \in fetched[w], ok \in BOOLEAN :
            /\ fetched' = [fetched EXCEPT ![w] = @ \ {m}]
            /\ faults' = faults + (IF Readable(m) THEN 1 ELSE 0) + (IF ok THEN 0 ELSE 1)
            /\ stream' = IF ok THEN [stream EXCEPT ![m] = "acked"] ELSE stream
    BY <1>4 DEF Discard
  <2>2. faults' \in Nat
    BY <1>0, <2>1, WebhookAssumption
  <2>3. stream' \in [Messages -> {"ready", "out", "delayed", "acked"}]
    BY <1>0, <2>1
  <2>4. UNCHANGED <<delay, task, outerVars, stopping, timeouts>>
    BY <1>4 DEF Discard
  <2> QED BY <1>3, <2>1, <2>2, <2>3, <2>4 DEF TypeOK, outerVars
<1>5. CASE Begin(w)
  <2>1. PICK m \in fetched[w] :
            /\ Readable(m)
            /\ fetched' = [fetched EXCEPT ![w] = @ \ {m}]
            /\ task' = [task EXCEPT ![w] =
                    [pc |-> "deliver", msg |-> m, todo |-> Targets[Payload[m].notification],
                     posted |-> None, ok |-> FALSE, failed |-> FALSE]]
    BY <1>5 DEF Begin
  <2>2. m \in Messages
    BY <1>0
  <2>3. task' \in [Workers -> Task]
    BY <1>0, <2>1, <2>2, MessageSays DEF Task
  <2> QED BY <1>3, <1>5, <2>1, <2>3 DEF Begin, TypeOK, outerVars
<1>6. CASE Post(w)
  <2>1. PICK d \in task[w].todo, ok \in BOOLEAN :
            /\ \/ ~ok /\ UNCHANGED <<delivered, faults>>
               \/ CtxCall(w, ok) /\ delivered' \in Received(w, d, ok)
            /\ task' = [task EXCEPT ![w] = [pc |-> "record", msg |-> task[w].msg,
                            todo |-> task[w].todo, posted |-> d, ok |-> ok,
                            failed |-> task[w].failed]]
    BY <1>0, <1>6 DEF Post, Refuse, Answer, PostedTo
  <2>2. d \in Destinations
    BY <1>0 DEF Task
  <2>3. task' \in [Workers -> Task]
    BY <1>0, <2>1, <2>2 DEF Task
  <2>4. faults' \in Nat /\ delivered' \in [Notifications -> SUBSET Destinations]
    BY <2>1, <2>2, CallBound DEF Received, Outcomes, TypeOK
  <2> QED BY <1>6, <2>3, <2>4 DEF Post, TypeOK
<1>7. CASE Record(w)
  <2>1. task' = [task EXCEPT ![w] = PostDone(task[w])]
    BY <1>0, <1>7 DEF Record
  <2>2. PostDone(task[w]) \in Task
    BY <1>0 DEF PostDone, Task
  <2>3. Attempt(w) \in Destinations \X {"SUCCESS", "FAILED"}
    BY <1>0, <1>7 DEF Record, TaskInv, Attempt, Task
  <2>4. PICK ok \in BOOLEAN : CtxCall(w, ok) /\ attempts' \in CreateAttempt(w, Attempt(w), ok)
    BY <1>7 DEF Record
  <2>5. faults' \in Nat
        /\ attempts' \in [Notifications -> SUBSET (Destinations \X {"SUCCESS", "FAILED"})]
    BY <2>3, <2>4, CallBound DEF CreateAttempt, Outcomes, TypeOK
  <2>6. task' \in [Workers -> Task]
    BY <1>0, <2>1, <2>2
  <2> QED BY <1>7, <2>5, <2>6 DEF Record, TypeOK
<1>8. CASE Succeed(w) \/ AckGivenUp(w)
  <2>1. task[w].pc # "fetch" /\ task' = [task EXCEPT ![w] = NoTask]
        /\ UNCHANGED <<delay, fetched, outerVars, stopping, timeouts>>
    BY <1>8 DEF Succeed, AckGivenUp
  <2>2. PICK ok \in BOOLEAN : Ack(task[w].msg, ok)
    BY <1>8 DEF Succeed, AckGivenUp
  <2>3. task[w].msg \in Messages
    BY <2>1, InHand
  <2>4. task' \in [Workers -> Task]
    BY <1>0, <2>1
  <2> QED BY <1>1, <2>1, <2>2, <2>3, <2>4, AckSettles
<1>9. CASE Retry(w)
  <2> DEFINE m == task[w].msg
  <2>1. /\ task[w].pc # "fetch" /\ ~Exhausted(m)
        /\ task' = [task EXCEPT ![w] = NoTask]
        /\ UNCHANGED <<fetched, outerVars, stopping, timeouts>>
    BY <1>9 DEF Retry
  <2>2. PICK ok \in BOOLEAN :
            /\ Call(ok)
            /\ IF ok /\ stream[m] = "out"
               THEN /\ stream' = [stream EXCEPT ![m] = "delayed"]
                    /\ \E d \in NextDelay(Payload[m].attempts + 1) :
                        delay' = [delay EXCEPT ![m] = d]
               ELSE UNCHANGED <<stream, delay>>
    BY <1>9 DEF Retry
  <2>3. m \in Messages /\ Payload[m].attempts + 1 \in 0..MaxAttempts
    BY <2>1, InHand, MessageSays, BackoffAssumption DEF Exhausted, ShouldRetry
  <2>4. \A d \in NextDelay(Payload[m].attempts + 1) : d \in Nat
    BY <2>3, NextDelayBound
  <2> HIDE DEF m
  <2>5. /\ delay' \in [Messages -> Nat]
        /\ stream' \in [Messages -> {"ready", "out", "delayed", "acked"}]
    BY <1>0, <2>2, <2>3, <2>4 DEF TypeOK
  <2>6. task' \in [Workers -> Task] /\ faults' \in Nat
    BY <1>0, <2>1, <2>2, CallBound
  <2> QED BY <2>1, <2>5, <2>6 DEF TypeOK, outerVars
<1>10. ASSUME NEW label \in {"insert", "publish", "ack"}, task' = [task EXCEPT ![w].pc = label]
       PROVE  task' \in [Workers -> Task]
  <2>1. [task[w] EXCEPT !.pc = label] \in Task
    BY <1>0, <1>10 DEF Task
  <2>2. task' = [task EXCEPT ![w] = [task[w] EXCEPT !.pc = label]]
    BY <1>0, <1>10
  <2> QED BY <1>0, <2>1, <2>2
<1>11. CASE GiveUp(w)
  BY <1>0, <1>1, <1>10, <1>11 DEF GiveUp
<1>12. CASE InsertLetter(w)
  <2>1. PICK ok \in BOOLEAN :
            /\ CtxCall(w, ok)
            /\ letters' \in Outcomes(w, letters,
                CreateLetter(letters, NotificationOf(w), Payload[task[w].msg].attempts + 1), ok)
    BY <1>12 DEF InsertLetter
  <2>2. NotificationOf(w) \in Notifications /\ Payload[task[w].msg].attempts + 1 \in Nat
    BY <1>12, InHand, MessageSays DEF InsertLetter
  <2>3. letters' \in LetterTable
    BY <2>1, <2>2, LetterStored DEF Outcomes, TypeOK, LetterTable
  <2>4. faults' \in Nat
    BY <1>0, <2>1, CallBound
  <2> QED BY <1>10, <1>12, <2>3, <2>4 DEF InsertLetter, TypeOK, LetterTable
<1>13. CASE PublishToDLQ(w)
  <2>1. NotificationOf(w) \in Notifications
    BY <1>13, InHand DEF PublishToDLQ
  <2>2. dlq' \subseteq Notifications /\ faults' \in Nat
    BY <1>0, <1>13, <2>1, CallBound DEF PublishToDLQ, SentToDLQ, Outcomes, TypeOK
  <2> QED BY <1>10, <1>13, <2>2 DEF PublishToDLQ, TypeOK
<1> QED
  BY <1>2, <1>4, <1>5, <1>6, <1>7, <1>8, <1>9, <1>11, <1>12, <1>13 DEF WorkerStep

\* The consumer, a shutdown and a crash.
Elsewhere ==
    \/ \E m \in Messages : DelayOver(m) \/ AckWaitOver(m) \/ AckTooLate(m)
    \/ \E w \in Workers : Shutdown(w)
OutsideStep == Elsewhere \/ \E w \in Workers : Crash(w)

LEMMA OutsideTypes ==
    ASSUME TypeOK, OutsideStep
    PROVE  TypeOK'
<1>1. ASSUME NEW w \in Workers, Crash(w)
      PROVE  TypeOK'
  <2>1. /\ fetched' = [fetched EXCEPT ![w] = {}] /\ task' = [task EXCEPT ![w] = NoTask]
        /\ UNCHANGED <<delay, stream, outerVars, timeouts>> /\ stopping' = stopping \ {w}
        /\ faults' \in Nat
    BY <1>1, CallBound DEF Crash, TypeOK
  <2>2. Cardinality({}) = 0
    BY FS_EmptySet
  <2>3. NoTask \in Task
    BY TaskTypes DEF NoTaskTyped
  <2> QED BY <2>1, <2>2, <2>3, WebhookAssumption DEF TypeOK, outerVars
<1>2. ASSUME NEW m \in Messages, DelayOver(m) \/ AckWaitOver(m) \/ AckTooLate(m)
      PROVE  TypeOK'
  <2>1. /\ UNCHANGED <<fetched, task, outerVars, stopping, faults>>
        /\ stream' = [stream EXCEPT ![m] = "ready"]
        /\ delay' = [delay EXCEPT ![m] = 0] \/ delay' = delay
        /\ timeouts' = timeouts \/ (timeouts < MaxTimeouts /\ timeouts' = timeouts + 1)
    BY <1>2 DEF DelayOver, AckWaitOver, AckTooLate
  <2>2. timeouts' \in 0..MaxTimeouts
    BY <2>1, WebhookAssumption DEF TypeOK
  <2> QED BY <2>1, <2>2 DEF TypeOK, outerVars
<1>3. ASSUME NEW w \in Workers, Shutdown(w)
      PROVE  TypeOK'
  <2>1. /\ stopping' = stopping \cup {w} /\ faults' \in Nat
        /\ UNCHANGED <<stream, delay, fetched, task, outerVars, timeouts>>
    BY <1>3, CallBound DEF Shutdown, TypeOK
  <2> QED BY <2>1 DEF TypeOK, outerVars
<1> QED BY <1>1, <1>2, <1>3 DEF OutsideStep, Elsewhere

----------------------------------------------------------------------------
(* The passes                                                              *)

\* Nothing is taken back: what was received, recorded, kept or counted.
Grows ==
    /\ \A n \in Notifications : delivered[n] \subseteq delivered'[n]
    /\ \A n \in Notifications : attempts[n] \subseteq attempts'[n]
    /\ \A n : InTable(n) => InTable(n)'
    /\ dlq \subseteq dlq'
    /\ faults \in Nat /\ faults' \in Nat /\ faults <= faults'

LEMMA StoresGrow ==
    ASSUME TypeOK, \A w \in Workers : TaskInv(w), Next
    PROVE  Grows
<1>0. faults \in Nat
  BY WebhookAssumption DEF TypeOK
<1>1. ASSUME UNCHANGED outerVars, faults' \in Nat, faults <= faults'
      PROVE  Grows
  BY <1>0, <1>1 DEF outerVars, Grows, InTable
<1>2. ASSUME UNCHANGED outerVars, NEW ok \in BOOLEAN, Call(ok)
      PROVE  Grows
  BY <1>0, <1>1, <1>2, CallBound
<1>3. ASSUME NEW w \in Workers, Fetch(w) \/ Begin(w) \/ GiveUp(w)
      PROVE  Grows
  BY <1>0, <1>1, <1>3 DEF Fetch, Begin, GiveUp
<1>4. ASSUME NEW w \in Workers, Discard(w)
      PROVE  Grows
  BY <1>0, <1>1, <1>4 DEF Discard
<1>5. ASSUME NEW w \in Workers, Post(w)
      PROVE  Grows
  <2>1. PICK d \in task[w].todo :
            \/ UNCHANGED <<delivered, faults>>
            \/ \E ok \in BOOLEAN : CtxCall(w, ok) /\ delivered' \in Received(w, d, ok)
    BY <1>5 DEF Post, Refuse, Answer
  <2>2. UNCHANGED <<attempts, letters, dlq>>
    BY <1>5 DEF Post
  <2>3. faults' \in Nat /\ faults <= faults'
    BY <1>0, <2>1, CallBound
  <2>4. \A n \in Notifications : delivered[n] \subseteq delivered'[n]
    BY <2>1 DEF Received, Outcomes, TypeOK
  <2> QED BY <1>0, <2>2, <2>3, <2>4 DEF Grows, InTable
<1>6. ASSUME NEW w \in Workers, Record(w)
      PROVE  Grows
  BY <1>0, <1>6, CallBound DEF Record, CreateAttempt, Outcomes, Grows, InTable, TypeOK
<1>7. ASSUME NEW w \in Workers, Succeed(w) \/ AckGivenUp(w) \/ Retry(w) \/ Crash(w)
      PROVE  Grows
  BY <1>2, <1>7 DEF Succeed, AckGivenUp, Retry, Crash, Ack
<1>8. ASSUME NEW w \in Workers, InsertLetter(w)
      PROVE  Grows
  <2>1. PICK ok \in BOOLEAN :
            /\ CtxCall(w, ok)
            /\ letters' \in Outcomes(w, letters,
                CreateLetter(letters, NotificationOf(w), Payload[task[w].msg].attempts + 1), ok)
    BY <1>8 DEF InsertLetter
  <2>2. NotificationOf(w) \in Notifications /\ Payload[task[w].msg].attempts + 1 \in Nat
    BY <1>8, InHand, MessageSays DEF InsertLetter
  <2>3. \A n : InTable(n) => InTable(n)'
    BY <2>1, <2>2, LetterStored DEF Outcomes, InTable, TypeOK, LetterTable
  <2> QED BY <1>0, <1>8, <2>1, <2>3, CallBound DEF InsertLetter, Grows
<1>9. ASSUME NEW w \in Workers, PublishToDLQ(w)
      PROVE  Grows
  BY <1>0, <1>9, CallBound DEF PublishToDLQ, SentToDLQ, Outcomes, Grows, InTable
<1>10. ASSUME NEW m \in Messages, DelayOver(m) \/ AckWaitOver(m) \/ AckTooLate(m)
       PROVE  Grows
  BY <1>0, <1>1, <1>10 DEF DelayOver, AckWaitOver, AckTooLate
<1>11. ASSUME NEW w \in Workers, Shutdown(w)
       PROVE  Grows
  BY <1>2, <1>11 DEF Shutdown
<1> QED
  BY <1>3, <1>4, <1>5, <1>6, <1>7, <1>8, <1>9, <1>10, <1>11 DEF Next, Elsewhere, WorkerStep

\* A worker's step leaves the other workers alone, and so does the outside.
Alone(w) == \A v \in Workers \ {w} : task'[v] = task[v]

LEMMA WorkersAlone ==
    ASSUME TypeOK, NEW w \in Workers, WorkerStep(w) \/ Crash(w)
    PROVE  Alone(w)
<1>1. task \in [Workers -> Task]
  BY DEF TypeOK
<1> QED
  BY <1>1 DEF Alone, WorkerStep, Fetch, Discard, Begin, Post, Refuse, Answer, Record, Succeed, Retry, GiveUp,
     InsertLetter, PublishToDLQ, AckGivenUp, Crash

LEMMA TasksAlone ==
    ASSUME Elsewhere
    PROVE  UNCHANGED <<task, delivered, attempts, letters, dlq>>
BY DEF Elsewhere, DelayOver, AckWaitOver, AckTooLate, Shutdown, outerVars

\* What a pass has seen delivered stays delivered.
LEMMA TaskLeft ==
    ASSUME NEW w \in Workers, TaskInv(w), Grows, task'[w] = task[w]
    PROVE  TaskInv(w)'
<1>1. NotificationOf(w)' = NotificationOf(w)
  BY DEF NotificationOf
<1>2. task[w].pc # "fetch" => NotificationOf(w) \in Notifications
  BY InHand
<1> QED BY <1>1, <1>2 DEF TaskInv, Grows, Readable

LEMMA TaskKept ==
    ASSUME TypeOK, \A w \in Workers : TaskInv(w), Next, NEW w \in Workers
    PROVE  TaskInv(w)'
<1>0. /\ task \in [Workers -> Task] /\ task[w] \in Task /\ TaskInv(w)
      /\ Grows
      /\ delivered \in [Notifications -> SUBSET Destinations]
  BY StoresGrow DEF TypeOK
<1>1. CASE task'[w] = task[w]
  BY <1>0, <1>1, TaskLeft
<1>2. CASE task' = [task EXCEPT ![w] = NoTask]
  <2>1. task'[w] = NoTask
    BY <1>0, <1>2
  <2> QED BY <2>1, TaskTypes DEF TaskInv, NoTask
<1>3. CASE Begin(w)
  <2>1. PICK m \in fetched[w] :
            /\ Readable(m)
            /\ task' = [task EXCEPT ![w] =
                    [pc |-> "deliver", msg |-> m, todo |-> Targets[Payload[m].notification],
                     posted |-> None, ok |-> FALSE, failed |-> FALSE]]
    BY <1>3 DEF Begin
  <2>2. m \in Messages
    BY DEF TypeOK
  <2>3. task'[w] = [pc |-> "deliver", msg |-> m, todo |-> Targets[Payload[m].notification],
                    posted |-> None, ok |-> FALSE, failed |-> FALSE]
    BY <1>0, <2>1
  <2> QED BY <2>1, <2>2, <2>3 DEF TaskInv, NotificationOf, Readable
<1>4. CASE Post(w)
  <2>1. PICK d \in task[w].todo, ok \in BOOLEAN :
            /\ ~ok \/ delivered' \in Received(w, d, ok)
            /\ task' = [task EXCEPT ![w] = [pc |-> "record", msg |-> task[w].msg,
                            todo |-> task[w].todo, posted |-> d, ok |-> ok,
                            failed |-> task[w].failed]]
    BY <1>0, <1>4 DEF Post, Refuse, Answer, PostedTo
  <2>2. task'[w] = [pc |-> "record", msg |-> task[w].msg, todo |-> task[w].todo, posted |-> d,
                    ok |-> ok, failed |-> task[w].failed]
    BY <1>0, <2>1
  <2>3. /\ task[w].pc = "deliver" /\ NotificationOf(w) \in Notifications
        /\ NotificationOf(w)' = NotificationOf(w)
        /\ task[w].msg \in Messages /\ Readable(task[w].msg)
    BY <1>0, <1>4, <2>2, InHand DEF Post, NotificationOf
  <2>4. ok => d \in delivered'[NotificationOf(w)]
    BY <1>0, <2>1, <2>3 DEF Received, Outcomes
  <2>5. ~task[w].failed =>
            Targets[NotificationOf(w)] \ task[w].todo \subseteq delivered'[NotificationOf(w)]
    BY <1>0, <2>3 DEF TaskInv, Grows
  <2> QED BY <2>2, <2>3, <2>4, <2>5 DEF TaskInv, Readable
<1>5. CASE Record(w)
  <2>1. task'[w] = [pc |-> "deliver", msg |-> task[w].msg, todo |-> task[w].todo \ {task[w].posted},
                    posted |-> None, ok |-> FALSE, failed |-> task[w].failed \/ ~task[w].ok]
    BY <1>0, <1>5 DEF Record, PostDone
  <2>2. /\ task[w].pc = "record" /\ NotificationOf(w)' = NotificationOf(w)
        /\ delivered' = delivered /\ task[w].msg \in Messages /\ Readable(task[w].msg)
    BY <1>0, <1>5, <2>1, InHand DEF Record, NotificationOf
  <2>3. ~(task[w].failed \/ ~task[w].ok) =>
            Targets[NotificationOf(w)] \ (task[w].todo \ {task[w].posted})
                \subseteq delivered[NotificationOf(w)]
    BY <1>0, <2>2 DEF TaskInv
  <2>4. /\ task'[w].pc = "deliver" /\ task'[w].msg = task[w].msg
        /\ task'[w].todo = task[w].todo \ {task[w].posted}
    BY <2>1
  <2>5. ~task'[w].failed => ~(task[w].failed \/ ~task[w].ok)
    <3> DEFINE f == task[w].failed \/ ~task[w].ok
    <3>1. task'[w] = [pc |-> "deliver", msg |-> task[w].msg,
                      todo |-> task[w].todo \ {task[w].posted}, posted |-> None,
                      ok |-> FALSE, failed |-> f]
      BY <2>1
    <3> HIDE DEF f
    <3>2. task'[w].failed = f
      BY <3>1
    <3>3. ~f => ~(task[w].failed \/ ~task[w].ok)
      BY DEF f
    <3> QED BY <3>2, <3>3
  <2>6. ~task'[w].failed =>
            Targets[NotificationOf(w)'] \ task'[w].todo \subseteq delivered'[NotificationOf(w)']
    BY <2>2, <2>3, <2>4, <2>5
  <2> QED BY <2>2, <2>4, <2>6 DEF TaskInv, Readable
<1>6. ASSUME NEW label \in {"insert", "publish", "ack"}, task' = [task EXCEPT ![w].pc = label],
             task[w].pc # "fetch"
      PROVE  TaskInv(w)'
  <2>1. task'[w].pc = label /\ task'[w].msg = task[w].msg
    BY <1>0, <1>6 DEF Task
  <2>2. task[w].msg \in Messages /\ Readable(task[w].msg)
    BY <1>0, <1>6, InHand
  <2>3. task'[w].pc \notin {"fetch", "deliver", "record"}
    BY <1>6, <2>1
  <2> QED BY <2>1, <2>2, <2>3 DEF TaskInv, Readable
<1>7. CASE GiveUp(w) \/ InsertLetter(w) \/ PublishToDLQ(w)
  BY <1>6, <1>7 DEF GiveUp, InsertLetter, PublishToDLQ
<1>8. CASE Fetch(w) \/ Discard(w)
  BY <1>1, <1>8 DEF Fetch, Discard
<1>9. CASE Succeed(w) \/ Retry(w) \/ AckGivenUp(w) \/ Crash(w)
  BY <1>2, <1>9 DEF Succeed, Retry, AckGivenUp, Crash
<1>10. ASSUME NEW v \in Workers \ {w}, WorkerStep(v) \/ Crash(v)
       PROVE  TaskInv(w)'
  BY <1>1, <1>10, WorkersAlone DEF Alone
<1>11. CASE WorkerStep(w) \/ Crash(w)
  BY <1>3, <1>4, <1>5, <1>7, <1>8, <1>9, <1>11 DEF WorkerStep
<1>12. CASE Elsewhere
  BY <1>1, <1>12, TasksAlone
<1> QED BY <1>10, <1>11, <1>12 DEF Next, Elsewhere

----------------------------------------------------------------------------
(* Unrecorded deliveries                                                   *)

\* The worker is about to write a SUCCESS.
Recording(w) == task[w].pc = "record" /\ task[w].ok
Posted(w) == <<NotificationOf(w), task[w].posted>>

LEMMA UnrecordedFinite ==
    /\ IsFiniteSet(Unrecorded)
    /\ Unrecorded = {p \in Notifications \X Destinations :
                        /\ p[2] \in delivered[p[1]]
                        /\ <<p[2], "SUCCESS">> \notin attempts[p[1]]
                        /\ \A w \in Workers : Recording(w) => Posted(w) # p}
<1>1. IsFiniteSet(Notifications \X Destinations)
  BY FS_Product, WebhookAssumption
<1>2. Unrecorded \subseteq Notifications \X Destinations
  BY DEF Unrecorded
<1> QED BY <1>1, <1>2, FS_Subset DEF Unrecorded, Recording, Posted

\* A step may lose track of one delivery at the price of a fault.
LEMMA UnrecordedCounted ==
    ASSUME DeliveredIsRecorded, faults \in Nat, faults' \in Nat,
           \/ Unrecorded' \subseteq Unrecorded /\ faults <= faults'
           \/ \E p : Unrecorded' \subseteq Unrecorded \cup {p} /\ faults' = faults + 1
    PROVE  DeliveredIsRecorded'
<1>1. IsFiniteSet(Unrecorded)
  BY UnrecordedFinite
<1>2. CASE Unrecorded' \subseteq Unrecorded /\ faults <= faults'
  <2>1. Cardinality(Unrecorded') <= Cardinality(Unrecorded) /\ Cardinality(Unrecorded') \in Nat
        /\ Cardinality(Unrecorded) \in Nat
    BY <1>1, <1>2, NoMore
  <2> QED BY <1>2, <2>1 DEF DeliveredIsRecorded
<1>3. ASSUME NEW p, Unrecorded' \subseteq Unrecorded \cup {p}, faults' = faults + 1
      PROVE  DeliveredIsRecorded'
  <2>1. Cardinality(Unrecorded') <= Cardinality(Unrecorded) + 1 /\ Cardinality(Unrecorded') \in Nat
        /\ Cardinality(Unrecorded) \in Nat
    BY <1>1, <1>3, OneMore
  <2> QED BY <1>3, <2>1 DEF DeliveredIsRecorded
<1> QED BY <1>2, <1>3

\* A step that neither posts nor records.
LEMMA UnrecordedLeft ==
    ASSUME UNCHANGED <<delivered, attempts>>,
           \A w \in Workers : Recording(w) => task'[w] = task[w]
    PROVE  Unrecorded' \subseteq Unrecorded
<1>1. \A w \in Workers : Recording(w) => Recording(w)' /\ Posted(w)' = Posted(w)
  BY DEF Recording, Posted, NotificationOf
<1> QED BY <1>1, UnrecordedFinite DEF Unrecorded, Recording, Posted

LEMMA UnrecordedKept ==
    ASSUME TypeOK, \A w \in Workers : TaskInv(w), DeliveredIsRecorded, Next
    PROVE  DeliveredIsRecorded'
<1>0. /\ task \in [Workers -> Task] /\ Grows
      /\ delivered \in [Notifications -> SUBSET Destinations]
      /\ attempts \in [Notifications -> SUBSET (Destinations \X {"SUCCESS", "FAILED"})]
      /\ faults \in Nat /\ faults' \in Nat /\ faults <= faults'
  BY StoresGrow DEF TypeOK, Grows
<1>1. ASSUME UNCHANGED <<delivered, attempts>>,
             \A w \in Workers : Recording(w) => task'[w] = task[w]
      PROVE  DeliveredIsRecorded'
  BY <1>0, <1>1, UnrecordedLeft, UnrecordedCounted
<1>2. ASSUME NEW w \in Workers, Post(w)
      PROVE  DeliveredIsRecorded'
  <2>1. PICK d \in task[w].todo, ok \in BOOLEAN :
            /\ \/ ~ok /\ UNCHANGED <<delivered, faults>>
               \/ CtxCall(w, ok) /\ delivered' \in Received(w, d, ok)
            /\ task' = [task EXCEPT ![w] = [pc |-> "record", msg |-> task[w].msg,
                            todo |-> task[w].todo, posted |-> d, ok |-> ok,
                            failed |-> task[w].failed]]
    BY <1>0, <1>2 DEF Post, Refuse, Answer, PostedTo
  <2> DEFINE p == <<NotificationOf(w), d>>
  <2>2. /\ attempts' = attempts /\ task[w].pc = "deliver"
        /\ NotificationOf(w) \in Notifications
    BY <1>2, InHand DEF Post
  <2>3. \A v \in Workers : Recording(v) => Recording(v)' /\ Posted(v)' = Posted(v)
    <3>1. \A v \in Workers : Recording(v) => v # w
      BY <2>2 DEF Recording
    <3>2. \A v \in Workers : v # w => task'[v] = task[v]
      BY <1>0, <2>1
    <3> QED BY <3>1, <3>2 DEF Recording, Posted, NotificationOf
  <2>4. CASE UNCHANGED delivered
    <3>1. Unrecorded' \subseteq Unrecorded
      BY <2>2, <2>3, <2>4, UnrecordedFinite DEF Unrecorded, Recording, Posted
    <3> QED BY <1>0, <3>1, UnrecordedCounted
  <2>5. CASE /\ CtxCall(w, ok)
             /\ delivered' = [delivered EXCEPT ![NotificationOf(w)] = @ \cup {d}]
    <3>1. \A k \in Notifications, e \in Destinations :
                e \in delivered'[k] => e \in delivered[k] \/ <<k, e>> = p
      BY <1>0, <2>2, <2>5
    <3>2. Unrecorded' \subseteq Unrecorded \cup {p}
      BY <2>2, <2>3, <3>1, UnrecordedFinite DEF Unrecorded, Recording, Posted
    <3>3. CASE ok
      <4>1. Recording(w)' /\ Posted(w)' = p
        BY <1>0, <2>1, <3>3 DEF Recording, Posted, NotificationOf
      <4>2. p \notin Unrecorded'
        BY <4>1 DEF Unrecorded, Recording, Posted
      <4> QED BY <1>0, <3>2, <4>2, UnrecordedCounted
    <3>4. CASE ~ok
      <4>1. faults' = faults + 1
        BY <1>0, <2>5, <3>4, CallBound
      <4> QED BY <1>0, <3>2, <4>1, UnrecordedCounted
    <3> QED BY <3>3, <3>4
  <2> QED BY <2>1, <2>4, <2>5 DEF Received, Outcomes
<1>3. ASSUME NEW w \in Workers, Record(w)
      PROVE  DeliveredIsRecorded'
  <2>1. PICK ok \in BOOLEAN :
            CtxCall(w, ok) /\ attempts' \in CreateAttempt(w, Attempt(w), ok)
    BY <1>3 DEF Record
  <2> DEFINE p == Posted(w)
  <2>2. /\ delivered' = delivered /\ task[w].pc = "record"
        /\ NotificationOf(w) \in Notifications
    BY <1>3, InHand DEF Record
  <2>3. \A v \in Workers : Recording(v) => v = w \/ (Recording(v)' /\ Posted(v)' = Posted(v))
    <3>1. \A v \in Workers : v # w => task'[v] = task[v]
      BY <1>0, <1>3 DEF Record
    <3> QED BY <3>1 DEF Recording, Posted, NotificationOf
  <2>4. \A k \in Notifications : attempts[k] \subseteq attempts'[k]
    BY <1>0 DEF Grows
  <2>5. CASE ~Recording(w)
    <3>1. Unrecorded' \subseteq Unrecorded
      BY <2>2, <2>3, <2>4, <2>5, UnrecordedFinite DEF Unrecorded, Recording, Posted
    <3> QED BY <1>0, <3>1, UnrecordedCounted
  <2>6. CASE Recording(w)
    <3>1. Unrecorded' \subseteq Unrecorded \cup {p}
      BY <2>2, <2>3, <2>4, UnrecordedFinite DEF Unrecorded, Recording, Posted
    <3>2. CASE ok
      <4>1. Attempt(w) = <<task[w].posted, "SUCCESS">>
        BY <2>6 DEF Attempt, Recording
      <4>2. <<task[w].posted, "SUCCESS">> \in attempts'[NotificationOf(w)]
        BY <1>0, <2>1, <2>2, <3>2, <4>1 DEF CreateAttempt, Outcomes
      <4>3. p \notin Unrecorded'
        <5>1. p[1] = NotificationOf(w) /\ p[2] = task[w].posted
          BY DEF Posted
        <5> QED BY <4>2, <5>1 DEF Unrecorded
      <4> QED BY <1>0, <3>1, <4>3, UnrecordedCounted
    <3>3. CASE ~ok
      <4>1. faults' = faults + 1
        BY <1>0, <2>1, <3>3, CallBound
      <4> QED BY <1>0, <3>1, <4>1, UnrecordedCounted
    <3> QED BY <3>2, <3>3
  <2> QED BY <2>5, <2>6
<1>4. ASSUME NEW w \in Workers, Crash(w)
      PROVE  DeliveredIsRecorded'
  <2>1. UNCHANGED <<delivered, attempts>> /\ faults' = faults + 1
    BY <1>0, <1>4, CallBound DEF Crash, outerVars
  <2>2. \A v \in Workers : Recording(v) => v = w \/ (Recording(v)' /\ Posted(v)' = Posted(v))
    <3>1. \A v \in Workers : v # w => task'[v] = task[v]
      BY <1>0, <1>4 DEF Crash
    <3> QED BY <3>1 DEF Recording, Posted, NotificationOf
  <2>3. Unrecorded' \subseteq Unrecorded \cup {Posted(w)}
    BY <2>1, <2>2, UnrecordedFinite DEF Unrecorded, Recording, Posted
  <2> QED BY <1>0, <2>1, <2>3, UnrecordedCounted
<1>5. ASSUME NEW w \in Workers,
             \/ Fetch(w) \/ Discard(w) \/ Begin(w) \/ Succeed(w) \/ Retry(w) \/ GiveUp(w)
             \/ InsertLetter(w) \/ PublishToDLQ(w) \/ AckGivenUp(w)
      PROVE  DeliveredIsRecorded'
  <2>1. Alone(w) /\ UNCHANGED <<delivered, attempts>>
    <3>1. Alone(w)
      BY <1>5, WorkersAlone DEF WorkerStep
    <3> QED BY <1>5, <3>1 DEF Fetch, Discard, Begin, Succeed, Retry, GiveUp, InsertLetter, PublishToDLQ,
               AckGivenUp, outerVars
  <2>2. task[w].pc = "record" => task'[w] = task[w]
    BY <1>5, TaskTypes DEF Fetch, Discard, Begin, Succeed, Retry, GiveUp, InsertLetter, PublishToDLQ, AckGivenUp
  <2> QED BY <1>1, <2>1, <2>2 DEF Alone, Recording
<1>6. CASE Elsewhere
  BY <1>1, <1>6, TasksAlone
<1> QED BY <1>2, <1>3, <1>4, <1>5, <1>6 DEF Next, Elsewhere, WorkerStep

----------------------------------------------------------------------------
(* Lost messages                                                           *)

Unkept(m) ==
    LET n == Payload[m].notification IN ~(Targets[n] \subseteq delivered[n] \/ Kept(n))

LEMMA LostFinite ==
    /\ IsFiniteSet(Lost) /\ IsFiniteSet(Doomed)
    /\ Lost = {m \in Messages : Readable(m) /\ stream[m] = "acked" /\ Unkept(m)}
<1>1. Lost \subseteq Messages /\ Doomed \subseteq Workers
  BY DEF Lost, Doomed
<1>2. Lost = {m \in Messages : Readable(m) /\ stream[m] = "acked" /\ Unkept(m)}
  BY DEF Lost, Unkept, Kept, InTable
<1> QED BY <1>1, <1>2, FS_Subset, WebhookAssumption

\* A message is lost, or doomed, at the price of a fault; a doomed one is lost
\* without another.
LEMMA LossCounted ==
    ASSUME LostInv, faults \in Nat, faults' \in Nat, faults <= faults',
           \/ Lost' \subseteq Lost /\ Doomed' \subseteq Doomed
           \/ /\ \E m : Lost' \subseteq Lost \cup {m}
              /\ Doomed' \subseteq Doomed
              /\ faults + 1 <= faults'
           \/ /\ Lost' \subseteq Lost
              /\ \E w : Doomed' \subseteq Doomed \cup {w}
              /\ faults + 1 <= faults'
           \/ /\ \E m : Lost' \subseteq Lost \cup {m}
              /\ \E w \in Doomed : Doomed' \subseteq Doomed \ {w}
    PROVE  LostInv'
<1>0. /\ IsFiniteSet(Lost) /\ IsFiniteSet(Doomed)
      /\ Cardinality(Lost) \in Nat /\ Cardinality(Doomed) \in Nat
      /\ Cardinality(Lost) + Cardinality(Doomed) <= faults
  BY LostFinite, FS_CardinalityType DEF LostInv
<1>1. ASSUME Lost' \subseteq Lost
      PROVE  Cardinality(Lost') \in Nat /\ Cardinality(Lost') <= Cardinality(Lost)
  BY <1>0, <1>1, NoMore
<1>2. ASSUME Doomed' \subseteq Doomed
      PROVE  Cardinality(Doomed') \in Nat /\ Cardinality(Doomed') <= Cardinality(Doomed)
  BY <1>0, <1>2, NoMore
<1>3. ASSUME NEW m, Lost' \subseteq Lost \cup {m}
      PROVE  Cardinality(Lost') \in Nat /\ Cardinality(Lost') <= Cardinality(Lost) + 1
  BY <1>0, <1>3, OneMore
<1>4. ASSUME NEW w, Doomed' \subseteq Doomed \cup {w}
      PROVE  Cardinality(Doomed') \in Nat /\ Cardinality(Doomed') <= Cardinality(Doomed) + 1
  BY <1>0, <1>4, OneMore
<1>5. ASSUME NEW w \in Doomed, Doomed' \subseteq Doomed \ {w}
      PROVE  Cardinality(Doomed') \in Nat /\ Cardinality(Doomed') + 1 <= Cardinality(Doomed)
  BY <1>0, <1>5, OneLess
<1>6. CASE Lost' \subseteq Lost /\ Doomed' \subseteq Doomed
  BY <1>0, <1>1, <1>2, <1>6 DEF LostInv
<1>7. CASE /\ \E m : Lost' \subseteq Lost \cup {m}
           /\ Doomed' \subseteq Doomed /\ faults + 1 <= faults'
  <2>1. Cardinality(Doomed') \in Nat /\ Cardinality(Doomed') <= Cardinality(Doomed)
    BY <1>2, <1>7
  <2>2. Cardinality(Lost') \in Nat /\ Cardinality(Lost') <= Cardinality(Lost) + 1
    BY <1>3, <1>7
  <2> QED BY <1>0, <1>7, <2>1, <2>2 DEF LostInv
<1>8. CASE /\ Lost' \subseteq Lost
           /\ \E w : Doomed' \subseteq Doomed \cup {w}
           /\ faults + 1 <= faults'
  <2>1. Cardinality(Lost') \in Nat /\ Cardinality(Lost') <= Cardinality(Lost)
    BY <1>1, <1>8
  <2>2. Cardinality(Doomed') \in Nat /\ Cardinality(Doomed') <= Cardinality(Doomed) + 1
    BY <1>4, <1>8
  <2> QED BY <1>0, <1>8, <2>1, <2>2 DEF LostInv
<1>9. CASE /\ \E m : Lost' \subseteq Lost \cup {m}
           /\ \E w \in Doomed : Doomed' \subseteq Doomed \ {w}
  BY <1>0, <1>3, <1>5, <1>9 DEF LostInv
<1> QED BY <1>6, <1>7, <1>8, <1>9

\* What is kept or delivered stays so.
LEMMA KeptLeft ==
    ASSUME Grows
    PROVE  /\ \A n : Kept(n) => Kept(n)'
           /\ \A m \in Messages : Readable(m) /\ Unkept(m)' => Unkept(m)
<1>1. \A n : Kept(n) => Kept(n)'
  BY DEF Grows, Kept
<1> QED BY <1>1, MessageSays DEF Unkept, Grows

\* A message that is not let go is not lost.
LEMMA LostLeft ==
    ASSUME Grows, NEW S, \A m \in Messages : stream'[m] = "acked" => stream[m] = "acked" \/ m \in S
    PROVE  Lost' \subseteq Lost \cup S
<1>1. Lost' = {m \in Messages : Readable(m) /\ stream'[m] = "acked" /\ Unkept(m)'}
  BY DEF Lost, Unkept, Kept, InTable, Readable
<1> QED BY <1>1, KeptLeft, LostFinite

\* A worker that stays where it is does not become doomed.
LEMMA DoomedLeft ==
    ASSUME Grows, NEW S,
           \A w \in Workers \ S : task'[w].pc \in {"publish", "ack"} => task'[w] = task[w]
    PROVE  Doomed' \subseteq Doomed \cup S
<1>1. \A w \in Workers : task'[w] = task[w] => NotificationOf(w)' = NotificationOf(w)
  BY DEF NotificationOf
<1> QED BY <1>1, KeptLeft DEF Doomed, Grows

\* Only the two writes of moveToDLQ take a worker closer to giving up a message.
LEMMA OnlyGivingUp ==
    ASSUME TypeOK, NEW w \in Workers,
           \/ Fetch(w) \/ Discard(w) \/ Begin(w) \/ Post(w) \/ Record(w) \/ Succeed(w)
           \/ Retry(w) \/ GiveUp(w) \/ AckGivenUp(w) \/ Crash(w)
    PROVE  task'[w].pc \in {"publish", "ack"} => task'[w] = task[w]
<1>0. task \in [Workers -> Task] /\ task[w] \in Task
  BY DEF TypeOK
<1>1. CASE Fetch(w) \/ Discard(w)
  BY <1>1 DEF Fetch, Discard
<1>2. CASE Succeed(w) \/ Retry(w) \/ AckGivenUp(w) \/ Crash(w)
  BY <1>0, <1>2, TaskTypes DEF Succeed, Retry, AckGivenUp, Crash
<1>3. CASE Begin(w) \/ Post(w)
  BY <1>0, <1>3 DEF Begin, Post, Refuse, Answer, PostedTo
<1>4. CASE Record(w)
  <2>1. task'[w].pc = "deliver"
    BY <1>0, <1>4 DEF Record, PostDone
  <2> QED BY <2>1
<1>5. CASE GiveUp(w)
  <2>1. task'[w].pc = "insert"
    BY <1>0, <1>5 DEF GiveUp, Task
  <2> QED BY <2>1
<1> QED BY <1>1, <1>2, <1>3, <1>4, <1>5

LEMMA LossKept ==
    ASSUME TypeOK, \A w \in Workers : TaskInv(w), LostInv, Next
    PROVE  LostInv'
<1>0. /\ task \in [Workers -> Task] /\ Grows
      /\ stream \in [Messages -> {"ready", "out", "delayed", "acked"}]
      /\ fetched \in [Workers -> SUBSET Messages]
      /\ faults \in Nat /\ faults' \in Nat /\ faults <= faults'
  BY StoresGrow DEF TypeOK, Grows
<1>1. ASSUME \A m \in Messages : stream'[m] = "acked" => stream[m] = "acked",
             \A w \in Workers : task'[w].pc \in {"publish", "ack"} => task'[w] = task[w]
      PROVE  LostInv'
  <2>1. Lost' \subseteq Lost \cup {} /\ Doomed' \subseteq Doomed \cup {}
    BY <1>0, <1>1, LostLeft, DoomedLeft
  <2> QED BY <1>0, <2>1, LossCounted
<1>2. ASSUME NEW w \in Workers, Fetch(w) \/ Begin(w) \/ Post(w) \/ Record(w) \/ Retry(w)
                                \/ GiveUp(w) \/ Crash(w)
      PROVE  LostInv'
  <2>1. Alone(w)
    BY <1>2, WorkersAlone DEF WorkerStep
  <2>2. task'[w].pc \in {"publish", "ack"} => task'[w] = task[w]
    BY <1>2, OnlyGivingUp
  <2>3. \A m \in Messages : stream'[m] = "acked" => stream[m] = "acked"
    <3>1. CASE Fetch(w)
      BY <1>0, <3>1 DEF Fetch
    <3>2. CASE ~Fetch(w)
      BY <1>0, <1>2, <3>2 DEF Begin, Post, Record, Retry, GiveUp, Crash
    <3> QED BY <3>1, <3>2
  <2> QED BY <1>1, <2>1, <2>2, <2>3 DEF Alone
<1>3. CASE Elsewhere
  <2>1. \A m \in Messages : stream'[m] = "acked" => stream[m] = "acked"
    BY <1>0, <1>3 DEF Elsewhere, DelayOver, AckWaitOver, AckTooLate, Shutdown
  <2> QED BY <1>1, <1>3, <2>1, TasksAlone
<1>4. ASSUME NEW w \in Workers, Discard(w)
      PROVE  LostInv'
  <2>1. task' = task
    BY <1>4 DEF Discard
  <2>2. PICK m \in fetched[w], ok \in BOOLEAN :
            /\ faults' = faults + (IF Readable(m) THEN 1 ELSE 0) + (IF ok THEN 0 ELSE 1)
            /\ stream' = IF ok THEN [stream EXCEPT ![m] = "acked"] ELSE stream
    BY <1>4 DEF Discard
  <2>3. Doomed' \subseteq Doomed \cup {}
    BY <1>0, <2>1, DoomedLeft
  <2>4. Lost' \subseteq Lost \cup {m}
    BY <1>0, <2>2, LostLeft
  <2>5. CASE Readable(m)
    BY <1>0, <2>2, <2>3, <2>4, <2>5, LossCounted
  <2>6. CASE ~Readable(m)
    <3>1. m \notin Lost'
      BY <2>6 DEF Lost, Readable
    <3> QED BY <1>0, <2>3, <2>4, <3>1, LossCounted
  <2> QED BY <2>5, <2>6
<1>5. ASSUME NEW w \in Workers, Succeed(w)
      PROVE  LostInv'
  <2> DEFINE m == task[w].msg
  <2>1. /\ task[w].pc = "deliver" /\ task[w].todo = {} /\ ~task[w].failed
        /\ task'[w] = NoTask /\ delivered' = delivered /\ Alone(w)
    <3>1. Alone(w)
      BY <1>5, WorkersAlone DEF WorkerStep
    <3> QED BY <1>0, <1>5, <3>1 DEF Succeed, outerVars
  <2>2. m \in Messages /\ NotificationOf(w) = Payload[m].notification
    BY <2>1, InHand
  <2>3. \A k \in Messages : stream'[k] = "acked" => stream[k] = "acked" \/ k \in {m}
    BY <1>0, <1>5, <2>2 DEF Succeed, Ack
  <2>4. Lost' \subseteq Lost \cup {m}
    BY <1>0, <2>3, LostLeft
  <2>5. m \notin Lost'
    BY <2>1, <2>2 DEF TaskInv, Lost
  <2>6. Doomed' \subseteq Doomed \cup {}
    BY <1>0, <2>1, TaskTypes, DoomedLeft DEF Alone
  <2> QED BY <1>0, <2>4, <2>5, <2>6, LossCounted
<1>6. ASSUME NEW w \in Workers, InsertLetter(w)
      PROVE  LostInv'
  <2>1. PICK ok \in BOOLEAN :
            /\ CtxCall(w, ok)
            /\ letters' \in Outcomes(w, letters,
                CreateLetter(letters, NotificationOf(w), Payload[task[w].msg].attempts + 1), ok)
    BY <1>6 DEF InsertLetter
  <2>2. /\ NotificationOf(w) \in Notifications /\ Payload[task[w].msg].attempts + 1 \in Nat
        /\ task'[w].pc = "publish" /\ NotificationOf(w)' = NotificationOf(w)
    BY <1>0, <1>6, InHand, MessageSays DEF InsertLetter, Task, NotificationOf
  <2>3. stream' = stream /\ Alone(w)
    BY <1>6, WorkersAlone DEF WorkerStep, InsertLetter
  <2>4. Lost' \subseteq Lost \cup {} /\ Doomed' \subseteq Doomed \cup {w}
    BY <1>0, <2>3, LostLeft, DoomedLeft DEF Alone
  <2>5. CASE ok
    <3>1. InTable(NotificationOf(w))'
      BY <2>1, <2>2, <2>5, LetterStored DEF Outcomes, InTable, TypeOK, LetterTable
    <3>2. w \notin Doomed'
      BY <2>2, <3>1 DEF Doomed
    <3> QED BY <1>0, <2>4, <3>2, LossCounted
  <2>6. CASE ~ok
    <3>1. faults + 1 <= faults'
      BY <1>0, <2>1, <2>6, CallBound
    <3> QED BY <1>0, <2>4, <3>1, LossCounted
  <2> QED BY <2>5, <2>6
<1>7. ASSUME NEW w \in Workers, PublishToDLQ(w)
      PROVE  LostInv'
  <2>1. /\ task[w].pc = "publish" /\ task'[w].pc = "ack"
        /\ NotificationOf(w)' = NotificationOf(w)
        /\ stream' = stream /\ Alone(w)
    <3>1. Alone(w)
      BY <1>7, WorkersAlone DEF WorkerStep
    <3> QED BY <1>0, <1>7, <3>1 DEF PublishToDLQ, Task, NotificationOf
  <2>2. Lost' \subseteq Lost \cup {} /\ Doomed' \subseteq Doomed \cup {w}
    BY <1>0, <2>1, LostLeft, DoomedLeft DEF Alone
  <2>3. w \in Doomed' => w \in Doomed
    BY <1>0, <2>1 DEF Doomed, Kept, Grows
  <2> QED BY <1>0, <2>2, <2>3, LossCounted
<1>8. ASSUME NEW w \in Workers, AckGivenUp(w)
      PROVE  LostInv'
  <2>1. /\ task[w].pc = "ack" /\ task'[w] = NoTask /\ Alone(w)
    <3>1. Alone(w)
      BY <1>8, WorkersAlone DEF WorkerStep
    <3> QED BY <1>0, <1>8, <3>1 DEF AckGivenUp
  <2>2. PICK m \in Messages : m = task[w].msg /\ NotificationOf(w) = Payload[m].notification
    BY <2>1, InHand
  <2>3. \A k \in Messages : stream'[k] = "acked" => stream[k] = "acked" \/ k \in {m}
    BY <1>0, <1>8, <2>2 DEF AckGivenUp, Ack
  <2>4. Lost' \subseteq Lost \cup {m}
    BY <1>0, <2>3, LostLeft
  <2>5. Doomed' \subseteq Doomed \cup {} /\ w \notin Doomed'
    <3>1. Doomed' \subseteq Doomed \cup {}
      BY <1>0, <2>1, TaskTypes, DoomedLeft DEF Alone
    <3> QED BY <2>1, <3>1, TaskTypes DEF Doomed
  <2>6. CASE w \in Doomed
    BY <1>0, <2>4, <2>5, <2>6, LossCounted
  <2>7. CASE w \notin Doomed
    <3>1. Kept(Payload[m].notification)
      BY <2>1, <2>2, <2>7 DEF Doomed
    <3>2. Kept(Payload[m].notification)'
      BY <1>0, <3>1, KeptLeft
    <3>3. m \notin Lost'
      BY <3>2 DEF Lost, Kept, InTable
    <3> QED BY <1>0, <2>4, <2>5, <3>3, LossCounted
  <2> QED BY <2>6, <2>7
<1> QED BY <1>2, <1>3, <1>4, <1>5, <1>6, <1>7, <1>8 DEF Next, Elsewhere, WorkerStep

----------------------------------------------------------------------------
(* Doubts and delays                                                       *)

LEMMA DoubtKept ==
    ASSUME TypeOK, \A w \in Workers : TaskInv(w), NEW w \in Workers, DoubtInv(w), Next
    PROVE  DoubtInv(w)'
<1>0. /\ task \in [Workers -> Task] /\ task[w] \in Task /\ Grows
      /\ faults \in Nat /\ faults' \in Nat /\ faults <= faults'
  BY StoresGrow DEF TypeOK, Grows
<1>1. CASE task'[w] = task[w]
  <2>1. NotificationOf(w)' = NotificationOf(w)
    BY <1>1 DEF NotificationOf
  <2> QED BY <1>0, <1>1, <2>1, KeptLeft DEF DoubtInv, Grows
<1>2. CASE task'[w].pc \notin {"publish", "ack"}
  BY <1>2 DEF DoubtInv
<1>3. CASE InsertLetter(w)
  <2>1. PICK ok \in BOOLEAN :
            /\ CtxCall(w, ok)
            /\ letters' \in Outcomes(w, letters,
                CreateLetter(letters, NotificationOf(w), Payload[task[w].msg].attempts + 1), ok)
    BY <1>3 DEF InsertLetter
  <2>2. /\ NotificationOf(w) \in Notifications /\ Payload[task[w].msg].attempts + 1 \in Nat
        /\ task'[w].pc = "publish" /\ NotificationOf(w)' = NotificationOf(w)
    BY <1>0, <1>3, InHand, MessageSays DEF InsertLetter, Task, NotificationOf
  <2>3. CASE ok
    <3>1. InTable(NotificationOf(w))'
      BY <2>1, <2>2, <2>3, LetterStored DEF Outcomes, InTable, TypeOK, LetterTable
    <3> QED BY <2>2, <3>1 DEF DoubtInv
  <2>4. CASE ~ok
    <3>1. faults' >= 1
      BY <1>0, <2>1, <2>4, CallBound
    <3> QED BY <2>2, <3>1 DEF DoubtInv
  <2> QED BY <2>3, <2>4
<1>4. CASE PublishToDLQ(w)
  <2>1. PICK ok \in BOOLEAN : CtxCall(w, ok) /\ dlq' \in SentToDLQ(w, ok)
    BY <1>4 DEF PublishToDLQ
  <2>2. /\ task[w].pc = "publish" /\ task'[w].pc = "ack"
        /\ NotificationOf(w)' = NotificationOf(w) /\ letters' = letters
    BY <1>0, <1>4 DEF PublishToDLQ, Task, NotificationOf
  <2>3. CASE ok
    <3>1. Kept(NotificationOf(w))'
      BY <2>1, <2>2, <2>3 DEF SentToDLQ, Outcomes, Kept
    <3> QED BY <2>2, <3>1 DEF DoubtInv
  <2>4. CASE ~ok
    <3>1. faults' = faults + 1
      BY <1>0, <2>1, <2>4, CallBound
    <3>2. ~Kept(NotificationOf(w))' => ~InTable(NotificationOf(w))
      BY <2>2 DEF Kept, InTable
    <3> QED BY <1>0, <2>2, <3>1, <3>2 DEF DoubtInv
  <2> QED BY <2>3, <2>4
<1>5. CASE WorkerStep(w) \/ Crash(w)
  BY <1>1, <1>2, <1>3, <1>4, <1>5, OnlyGivingUp DEF WorkerStep
<1>6. ASSUME NEW v \in Workers \ {w}, WorkerStep(v) \/ Crash(v)
      PROVE  DoubtInv(w)'
  BY <1>1, <1>6, WorkersAlone DEF Alone
<1>7. CASE Elsewhere
  BY <1>1, <1>7, TasksAlone
<1> QED BY <1>5, <1>6, <1>7 DEF Next, Elsewhere

LEMMA DelayKept ==
    ASSUME TypeOK, \A w \in Workers : TaskInv(w), DelayInBounds, Next
    PROVE  DelayInBounds'
<1>0. /\ stream \in [Messages -> {"ready", "out", "delayed", "acked"}]
      /\ delay \in [Messages -> Nat]
  BY DEF TypeOK
<1>1. ASSUME \A m \in Messages : stream'[m] = "delayed" =>
                                    stream[m] = "delayed" /\ delay'[m] = delay[m]
      PROVE  DelayInBounds'
  BY <1>1 DEF DelayInBounds, InBounds
<1>2. ASSUME NEW w \in Workers, Retry(w)
      PROVE  DelayInBounds'
  <2>1. PICK m \in Messages : m = task[w].msg
    BY <1>2, InHand DEF Retry
  <2>2. ~Exhausted(m) /\ Payload[m].attempts + 1 \in 0..MaxAttempts
    BY <1>2, <2>1, MessageSays, BackoffAssumption DEF Retry, Exhausted, ShouldRetry
  <2>3. CASE UNCHANGED <<stream, delay>>
    BY <1>1, <2>3
  <2>4. CASE /\ stream' = [stream EXCEPT ![m] = "delayed"]
             /\ \E d \in NextDelay(Payload[m].attempts + 1) : delay' = [delay EXCEPT ![m] = d]
    <3>1. PICK d \in NextDelay(Payload[m].attempts + 1) : delay' = [delay EXCEPT ![m] = d]
      BY <2>4
    <3>2. InBounds(d)
      BY <2>2, NextDelayBound
    <3>3. InBounds(delay'[m])
      BY <1>0, <3>1, <3>2
    <3>4. \A k \in Messages : stream'[k] = "delayed" => InBounds(delay'[k])
      BY <1>0, <2>4, <3>1, <3>3 DEF DelayInBounds
    <3> QED BY <3>4 DEF DelayInBounds, InBounds
  <2> QED BY <1>2, <2>1, <2>3, <2>4 DEF Retry
<1>3. ASSUME NEW w \in Workers, Fetch(w)
      PROVE  DelayInBounds'
  BY <1>0, <1>1, <1>3 DEF Fetch
<1>4. ASSUME NEW w \in Workers, WorkerStep(w) \/ Crash(w), ~Fetch(w), ~Retry(w)
      PROVE  DelayInBounds'
  <2>1. delay' = delay
    BY <1>4 DEF WorkerStep, Discard, Begin, Post, Record, Succeed, GiveUp, InsertLetter,
        PublishToDLQ, AckGivenUp, Crash
  <2>2. stream' = stream \/ \E m : stream' = [stream EXCEPT ![m] = "acked"]
    BY <1>4 DEF WorkerStep, Discard, Begin, Post, Record, Succeed, GiveUp, InsertLetter,
        PublishToDLQ, AckGivenUp, Crash, Ack
  <2> QED BY <1>0, <1>1, <2>1, <2>2
<1>5. ASSUME NEW m \in Messages, DelayOver(m) \/ AckWaitOver(m) \/ AckTooLate(m)
      PROVE  DelayInBounds'
  BY <1>0, <1>1, <1>5 DEF DelayOver, AckWaitOver, AckTooLate
<1>6. ASSUME NEW w \in Workers, Shutdown(w)
      PROVE  DelayInBounds'
  BY <1>1, <1>6 DEF Shutdown
<1> QED BY <1>2, <1>3, <1>4, <1>5, <1>6 DEF Next, Elsewhere, WorkerStep

----------------------------------------------------------------------------
(* The invariant                                                           *)

LEMMA InitInv == Init => WebhookInv
<1> SUFFICES ASSUME Init PROVE WebhookInv
  OBVIOUS
<1>1. 0 \in 0..MaxTimeouts /\ Cardinality({}) = 0
  BY WebhookAssumption, FS_EmptySet
<1>2. EmptyTable \in LetterTable
  BY DEF EmptyTable, LetterTable, Letter
<1>3. TypeOK
  BY <1>1, <1>2, TaskTypes, WebhookAssumption DEF Init, TypeOK, LetterTable, NoTaskTyped
<1>4. ASSUME NEW w \in Workers
      PROVE  TaskInv(w) /\ DoubtInv(w)
  <2>1. task[w] = NoTask /\ task[w].pc = "fetch"
    BY TaskTypes DEF Init
  <2> QED BY <2>1 DEF TaskInv, DoubtInv
<1>5. DelayInBounds
  BY DEF Init, DelayInBounds
<1>6. Unrecorded = {} /\ Lost = {} /\ Doomed = {}
  <2>1. \A w \in Workers : task[w].pc = "fetch"
    BY TaskTypes DEF Init
  <2> QED BY <2>1 DEF Init, Unrecorded, Lost, Doomed
<1>7. DeliveredIsRecorded /\ LostInv
  BY <1>1, <1>6 DEF Init, DeliveredIsRecorded, LostInv
<1> QED BY <1>3, <1>4, <1>5, <1>7 DEF WebhookInv, WorkerInv

LEMMA StepKeepsInv ==
    ASSUME WebhookInv, [Next]_vars
    PROVE  WebhookInv'
<1> USE DEF WebhookInv, WorkerInv
<1>1. CASE Next
  <2>1. TypeOK'
    BY <1>1, WorkerTypes, OutsideTypes DEF Next, Elsewhere, OutsideStep
  <2>2. \A w \in Workers : TaskInv(w)' /\ DoubtInv(w)'
    BY <1>1, TaskKept, DoubtKept
  <2>3. DelayInBounds' /\ DeliveredIsRecorded' /\ LostInv'
    BY <1>1, DelayKept, UnrecordedKept, LossKept
  <2> QED BY <2>1, <2>2, <2>3
<1>2. CASE UNCHANGED vars
  <2> USE <1>2 DEF vars
  <2>1. TypeOK'
    BY DEF TypeOK
  <2>2. ASSUME NEW w \in Workers
        PROVE  TaskInv(w)' /\ DoubtInv(w)'
    BY DEF TaskInv, DoubtInv, NotificationOf, Kept, InTable, Readable
  <2>3. DelayInBounds'
    BY DEF DelayInBounds, InBounds
  <2>4. Unrecorded' = Unrecorded /\ Lost' = Lost /\ Doomed' = Doomed
    BY DEF Unrecorded, Lost, Doomed, NotificationOf, Kept, InTable, Readable
  <2>5. DeliveredIsRecorded' /\ LostInv'
    BY <2>4 DEF DeliveredIsRecorded, LostInv
  <2> QED BY <2>1, <2>2, <2>3, <2>5
<1> QED BY <1>1, <1>2

THEOREM WebhookInvariant == Spec => []WebhookInv
<1> QED BY InitInv, StepKeepsInv, PTL DEF Spec

----------------------------------------------------------------------------
(* Theorems                                                                *)

\* Every variable of the webhook worker keeps its type.
THEOREM TypeCorrect == Spec => []TypeOK
<1>1. WebhookInv => TypeOK
  BY DEF WebhookInv, WorkerInv
<1> QED BY <1>1, WebhookInvariant, PTL

\* The delay of a redelivery lies between the floor and the cap with its jitter
\* (webhook.go:111-113, backoff.go:28-51).
THEOREM RetriesInBounds == Spec => []DelayInBounds
<1>1. WebhookInv => DelayInBounds
  BY DEF WebhookInv
<1> QED BY <1>1, WebhookInvariant, PTL

\* There are no more deliveries off the record than errors and crashes
\* (webhook.go:129-133, 148-152).
THEOREM DeliveriesOnRecord == Spec => []DeliveredIsRecorded
<1>1. WebhookInv => DeliveredIsRecorded
  BY DEF WebhookInv
<1> QED BY <1>1, WebhookInvariant, PTL

\* There are no more lost messages than errors (webhook.go:86-117, 159-181).
THEOREM LossesAreFaults == Spec => []LostOnlyToFaults
<1>1. WebhookInv => LostOnlyToFaults
  <2> SUFFICES ASSUME WebhookInv PROVE LostOnlyToFaults
    OBVIOUS
  <2>1. Cardinality(Lost) \in Nat /\ Cardinality(Doomed) \in Nat
    BY LostFinite, FS_CardinalityType
  <2>2. Cardinality(Lost) + Cardinality(Doomed) <= faults /\ faults \in Nat
    BY WebhookAssumption DEF WebhookInv, WorkerInv, LostInv, TypeOK
  <2> QED BY <2>1, <2>2 DEF LostOnlyToFaults
<1> QED BY <1>1, WebhookInvariant, PTL

\* A worker lets go of a message whose notification it read only if it was
\* delivered everywhere or kept, or after two errors: it takes both writes of
\* moveToDLQ to fail to lose it (webhook.go:93-117, 159-181).
THEOREM ReadIsAccounted == Spec => AckedIsAccounted
<1>1. WebhookInv /\ [Next]_vars =>
        \A w \in Workers :
            LET m == task[w].msg  n == NotificationOf(w) IN
            /\ m # None
            /\ task'[w] = NoTask
            /\ stream[m] # "acked"
            /\ stream'[m] = "acked"
            => Targets[n] \subseteq delivered[n] \/ LettersOf(letters, n) # {} \/ n \in dlq
               \/ faults >= 2
  <2> SUFFICES ASSUME WebhookInv, [Next]_vars, NEW w \in Workers,
                      task[w].msg # None, task'[w] = NoTask,
                      stream[task[w].msg] # "acked", stream'[task[w].msg] = "acked"
               PROVE  \/ Targets[NotificationOf(w)] \subseteq delivered[NotificationOf(w)]
                      \/ LettersOf(letters, NotificationOf(w)) # {}
                      \/ NotificationOf(w) \in dlq
                      \/ faults >= 2
    OBVIOUS
  <2> USE DEF WebhookInv, WorkerInv
  <2>0. /\ task \in [Workers -> Task] /\ stream \in [Messages -> {"ready", "out", "delayed", "acked"}]
        /\ TaskInv(w) /\ DoubtInv(w) /\ faults \in Nat
    BY DEF TypeOK
  <2>1. task'[w] # task[w] /\ stream' # stream
    BY TaskTypes
  <2>2. WorkerStep(w) \/ Crash(w)
    BY <2>1, WorkersAlone, TasksAlone DEF Next, Elsewhere, Alone, vars
  <2>3. ~Fetch(w) /\ ~Discard(w) /\ ~Begin(w) /\ ~Post(w) /\ ~Record(w) /\ ~Crash(w)
    <3>1. ~Fetch(w) /\ ~Discard(w)
      BY <2>1 DEF Fetch, Discard
    <3>2. ~Begin(w) /\ ~Post(w) /\ ~Record(w) /\ ~Crash(w)
      BY <2>0, <2>1, TaskTypes DEF Begin, Post, Refuse, Answer, PostedTo, Record, PostDone, Crash
    <3> QED BY <3>1, <3>2
  <2>4. ~GiveUp(w) /\ ~InsertLetter(w) /\ ~PublishToDLQ(w)
    BY <2>1 DEF GiveUp, InsertLetter, PublishToDLQ
  <2>5. ~Retry(w)
    <3>1. task[w].pc # "fetch"
      BY <2>0, <2>1 DEF TaskInv
    <3>2. task[w].msg \in Messages
      BY <2>0, <3>1, InHand
    <3> QED BY <2>0, <3>2 DEF Retry
  <2>6. CASE Succeed(w)
    BY <2>0, <2>6 DEF Succeed, TaskInv
  <2>7. CASE AckGivenUp(w)
    BY <2>0, <2>7 DEF AckGivenUp, DoubtInv, Kept, InTable
  <2> QED BY <2>2, <2>3, <2>4, <2>5, <2>6, <2>7 DEF WorkerStep
<1> QED BY <1>1, WebhookInvariant, PTL DEF Spec, AckedIsAccounted
=============================================================================
