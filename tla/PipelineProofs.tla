--------------------------- MODULE PipelineProofs ---------------------------
(***************************************************************************)
(* Theorems about Pipeline for every set of notifications, replicas and    *)
(* calls and every bound.                                                  *)
(***************************************************************************)
EXTENDS Pipeline, TLAPS

JobTable == [Notifications -> JobRow]
LetterTable == [rows : SUBSET Letter(Notifications), inserted : Nat]
StatTable == [Services -> [StatStatuses -> Nat]]

----------------------------------------------------------------------------
(* What the statements of the stores return                                *)

\* Every statement on notification_jobs leaves a table of rows.
LEMMA JobStatements ==
    ASSUME NEW table \in JobTable, NEW n \in Notifications
    PROVE  /\ Create(table, n) \in JobTable
           /\ \A s \in JobStatuses : UpdateStatus(table, n, s) \in JobTable
           /\ \A due \in {"future", "past"} : FailJob(table, n, due) \in JobTable
           /\ ResetForReplay(table, n) \in JobTable
  BY DEF JobTable, JobRow, JobStatuses, Create, UpdateStatus, FailJob, ResetForReplay, Stored

\* An increment of a counted status leaves a table of counts.
LEMMA StatStatements ==
    ASSUME NEW table \in StatTable, NEW s \in Services, NEW k \in StatStatuses
    PROVE  IncrementStats(table, s, k) \in StatTable
  BY DEF StatTable, IncrementStats

\* Inserting and deleting leave a table of letters.
LEMMA LetterStatements ==
    ASSUME NEW table \in LetterTable, NEW n \in Notifications, NEW a \in Nat
    PROVE  /\ CreateLetter(table, n, a) \in LetterTable
           /\ DeleteByNotificationID(table, n) \in LetterTable
  BY DEF LetterTable, Letter, CreateLetter, DeleteByNotificationID, LettersOf

\* After an insert the notification has a letter, whether or not it had one.
LEMMA CreateLetterStores ==
    ASSUME NEW table \in LetterTable, NEW n \in Notifications, NEW a \in Nat
    PROVE  LettersOf(CreateLetter(table, n, a), n) # {}
<1>1. CASE LettersOf(table, n) # {}
  BY <1>1 DEF CreateLetter
<1>2. CASE LettersOf(table, n) = {}
  <2>1. [id |-> table.inserted + 1, job |-> n, attempts |-> a] \in CreateLetter(table, n, a).rows
    BY <1>2 DEF CreateLetter
  <2> QED
    BY <2>1 DEF LettersOf
<1> QED
  BY <1>1, <1>2

\* A call keeps the count of faults within its bound.
LEMMA CallBound ==
    ASSUME faults \in 0..MaxFaults, NEW ok \in BOOLEAN, Call(ok)
    PROVE  faults' \in 0..MaxFaults
  BY ConstantsAssumption DEF Call

\* A publish adds messages and keeps the count of faults within its bound.
LEMMA PublishType ==
    ASSUME TypeOK, NEW n \in Notifications, NEW ok \in BOOLEAN, Publish(n, ok)
    PROVE  inbox' \in Bag /\ faults' \in 0..MaxFaults
  BY CallBound DEF Publish, TypeOK, Bag

\* A count leaves a table of counts and the faults within their bound.
LEMMA CountType ==
    ASSUME TypeOK, NEW n \in Notifications, NEW k \in StatStatuses, Count(n, k)
    PROVE  stats' \in StatTable /\ faults' \in 0..MaxFaults
<1>1. PICK ok \in BOOLEAN : /\ Call(ok)
                            /\ stats' \in Outcomes(stats, IncrementStats(stats, Owner[n], k), ok)
  BY DEF Count
<1>2. Owner[n] \in Services
  BY ConstantsAssumption
<1>3. IncrementStats(stats, Owner[n], k) \in StatTable
  BY <1>2, StatStatements DEF TypeOK, StatTable
<1> QED
  BY <1>1, <1>3, CallBound DEF Outcomes, TypeOK, StatTable

----------------------------------------------------------------------------
(* Type correctness                                                        *)

LEMMA InitType == Init => TypeOK
  BY ConstantsAssumption
     DEF Init, TypeOK, JobRow, NoRow, EmptyTable, Letter, Bag, EmptyBag, Scheduler,
         IdleScheduler, SendCall, ReplayCall, StatStatuses

\* A scheduler that lets go of its current job is in a legal state.
LEMMA ContinueType ==
    ASSUME TypeOK, NEW r \in Replicas
    PROVE  Continue(r) \in Scheduler
<1>1. sched[r].batch \in SUBSET Snapshot
  BY DEF TypeOK, Scheduler
<1> QED
  BY <1>1 DEF Continue, Scheduler

\* The scheduler keeps every variable within its type.
LEMMA SchedulerType ==
    ASSUME TypeOK, NEW r \in Replicas, SchedulerStep(r)
    PROVE  TypeOK'
<1> USE DEF TypeOK, JobTable, LetterTable, StatTable
<1>1. CASE Poll(r)
  <2>1. PICK ok \in BOOLEAN, batch \in SUBSET Notifications :
            /\ Call(ok)
            /\ sched' = [sched EXCEPT ![r].batch =
                            {[job |-> n, retryCount |-> jobs[n].retryCount] : n \in batch}]
    BY <1>1 DEF Poll, GetRetryableJobs, Due
  <2>2. {[job |-> n, retryCount |-> jobs[n].retryCount] : n \in batch} \in SUBSET Snapshot
    BY DEF Snapshot, JobRow
  <2>3. sched' \in [Replicas -> Scheduler]
    BY <2>1, <2>2 DEF Scheduler
  <2>4. faults' \in 0..MaxFaults
    BY <2>1, CallBound
  <2> QED
    BY <1>1, <2>3, <2>4 DEF Poll, storeVars, workerVars, serverVars
<1>2. CASE ReEnqueue(r)
  <2>1. PICK s \in sched[r].batch, ok \in BOOLEAN :
            /\ Publish(s.job, ok)
            /\ sched' = [sched EXCEPT ![r] = Take(r, s, "markPending", ok)]
    BY <1>2 DEF ReEnqueue
  <2>2. s \in Snapshot
    BY DEF Scheduler
  <2>3. inbox' \in Bag /\ faults' \in 0..MaxFaults
    BY <2>1, <2>2, PublishType DEF Snapshot
  <2>4. Take(r, s, "markPending", ok) \in Scheduler
    BY <1>2, <2>2 DEF ReEnqueue, Idle, Take, Scheduler
  <2> QED
    BY <1>2, <2>1, <2>3, <2>4 DEF ReEnqueue, storeVars, workerVars, serverVars
<1>3. CASE MarkPending(r)
  <2>1. sched[r].cur \in Snapshot
    BY <1>3 DEF MarkPending, Scheduler
  <2>2. PICK ok \in BOOLEAN :
            /\ Call(ok)
            /\ jobs' \in Outcomes(jobs, UpdateStatus(jobs, sched[r].cur.job, "PENDING"), ok)
    BY <1>3 DEF MarkPending
  <2>3. jobs' \in JobTable
    BY <2>1, <2>2, JobStatements DEF Outcomes, JobStatuses, Snapshot
  <2>4. Continue(r) \in Scheduler
    BY ContinueType
  <2> QED
    BY <1>3, <2>2, <2>3, <2>4, CallBound DEF MarkPending, workerVars, serverVars
<1>4. CASE DeadLetter(r)
  <2>1. PICK s \in sched[r].batch, ok \in BOOLEAN :
            /\ Call(ok)
            /\ letters' \in Outcomes(letters, CreateLetter(letters, s.job, s.retryCount), ok)
            /\ sched' = [sched EXCEPT ![r] = Take(r, s, "markDead", ok)]
    BY <1>4 DEF DeadLetter
  <2>2. s \in Snapshot
    BY DEF Scheduler
  <2>3. letters' \in LetterTable
    BY <2>1, <2>2, LetterStatements DEF Snapshot, Outcomes
  <2>4. Take(r, s, "markDead", ok) \in Scheduler
    BY <1>4, <2>2 DEF DeadLetter, Idle, Take, Scheduler
  <2> QED
    BY <1>4, <2>1, <2>3, <2>4, CallBound DEF DeadLetter, workerVars, serverVars
<1>5. CASE MarkDeadLettered(r)
  <2>1. sched[r].cur \in Snapshot
    BY <1>5 DEF MarkDeadLettered, Scheduler
  <2>2. PICK ok \in BOOLEAN :
            /\ Call(ok)
            /\ jobs' \in Outcomes(jobs, UpdateStatus(jobs, sched[r].cur.job, "DEAD_LETTERED"), ok)
            /\ sched' = [sched EXCEPT ![r] = IF ok THEN [@ EXCEPT !.pc = "count"] ELSE Continue(r)]
    BY <1>5 DEF MarkDeadLettered
  <2>3. jobs' \in JobTable
    BY <2>1, <2>2, JobStatements DEF Outcomes, JobStatuses, Snapshot
  <2>4. [sched[r] EXCEPT !.pc = "count"] \in Scheduler
    BY <1>5, <2>1 DEF MarkDeadLettered, Scheduler
  <2>5. sched' \in [Replicas -> Scheduler]
    BY <2>2, <2>4, ContinueType
  <2> QED
    BY <1>5, <2>2, <2>3, <2>5, CallBound DEF MarkDeadLettered, workerVars, serverVars
<1>6. CASE CountFailed(r)
  <2>1. sched[r].cur.job \in Notifications
    BY <1>6 DEF CountFailed, Scheduler, Snapshot
  <2>2. stats' \in StatTable /\ faults' \in 0..MaxFaults
    BY <1>6, <2>1, CountType DEF CountFailed, StatStatuses
  <2>3. Continue(r) \in Scheduler
    BY ContinueType
  <2> QED
    BY <1>6, <2>2, <2>3 DEF CountFailed, workerVars, serverVars
<1> QED
  BY <1>1, <1>2, <1>3, <1>4, <1>5, <1>6 DEF SchedulerStep

\* The worker keeps every variable within its type.
LEMMA WorkerType ==
    ASSUME TypeOK, NEW r \in Replicas, WorkerStep(r)
    PROVE  TypeOK'
<1> USE DEF TypeOK, JobTable, LetterTable, StatTable
<1>1. CASE Dispatch(r)
  <2>1. PICK n \in Notifications, ok \in BOOLEAN :
            /\ inbox[r][n] > 0
            /\ inbox' = [inbox EXCEPT ![r][n] = @ - 1]
            /\ Call(ok)
            /\ jobs' \in Outcomes(jobs, UpdateStatus(jobs, n, "DISPATCHED"), ok)
            /\ working' = [working EXCEPT ![r] = IF ok THEN n ELSE None]
    BY <1>1 DEF Dispatch
  <2>2. jobs' \in JobTable
    BY <2>1, JobStatements DEF Outcomes, JobStatuses
  <2>3. inbox' \in Bag
    BY <2>1 DEF Bag
  <2> QED
    BY <1>1, <2>1, <2>2, <2>3, CallBound DEF Dispatch, serverVars
<1>2. CASE StartDelivery(r)
  <2>1. working[r] \in Notifications
    BY <1>2 DEF StartDelivery
  <2>2. stats' \in StatTable /\ faults' \in 0..MaxFaults
    BY <1>2, <2>1, CountType DEF StartDelivery, StatStatuses
  <2>3. delivering' \in Bag
    BY <1>2, <2>1 DEF StartDelivery, Bag
  <2> QED
    BY <1>2, <2>2, <2>3 DEF StartDelivery, serverVars
<1>3. CASE Deliver(r)
  <2>1. PICK n \in Notifications, ok \in BOOLEAN :
            /\ delivering[r][n] > 0
            /\ delivering' = [delivering EXCEPT ![r][n] = @ - 1]
            /\ counting' = [counting EXCEPT ![r][n] = @ + 1]
            /\ Call(ok)
            /\ jobs' \in Outcomes(jobs, UpdateStatus(jobs, n, "DELIVERED"), ok)
    BY <1>3 DEF Deliver
  <2>2. jobs' \in JobTable
    BY <2>1, JobStatements DEF Outcomes, JobStatuses
  <2>3. delivering' \in Bag /\ counting' \in Bag
    BY <2>1 DEF Bag
  <2> QED
    BY <1>3, <2>1, <2>2, <2>3, CallBound DEF Deliver, serverVars
<1>4. CASE CountDelivered(r)
  <2>1. PICK n \in Notifications :
            /\ counting[r][n] > 0
            /\ counting' = [counting EXCEPT ![r][n] = @ - 1]
            /\ Count(n, "DELIVERED")
    BY <1>4 DEF CountDelivered
  <2>2. stats' \in StatTable /\ faults' \in 0..MaxFaults
    BY <2>1, CountType DEF StatStatuses
  <2>3. counting' \in Bag
    BY <2>1 DEF Bag
  <2> QED
    BY <1>4, <2>2, <2>3 DEF CountDelivered, serverVars
<1> QED
  BY <1>1, <1>2, <1>3, <1>4 DEF WorkerStep

\* The handlers keep every variable within its type.
LEMMA ServerType ==
    ASSUME TypeOK, ServerStep
    PROVE  TypeOK'
<1> USE DEF TypeOK, JobTable, LetterTable, StatTable
<1>1. ASSUME NEW n \in Notifications, SendCreate(n) PROVE TypeOK'
  <2>1. PICK r \in Replicas, ok \in BOOLEAN :
            /\ Call(ok)
            /\ jobs' \in Outcomes(jobs, Create(jobs, n), ok)
            /\ send' = [send EXCEPT ![n] = IF ok THEN [pc |-> "count", at |-> r]
                                                 ELSE [pc |-> "failed", at |-> None]]
    BY <1>1 DEF SendCreate
  <2>2. jobs' \in JobTable
    BY <2>1, JobStatements DEF Outcomes
  <2>3. send' \in [Notifications -> SendCall]
    BY <2>1 DEF SendCall
  <2> QED
    BY <1>1, <2>1, <2>2, <2>3, CallBound DEF SendCreate, workerVars
<1>2. ASSUME NEW n \in Notifications, SendCount(n) PROVE TypeOK'
  <2>1. stats' \in StatTable /\ faults' \in 0..MaxFaults
    BY <1>2, CountType DEF SendCount, StatStatuses
  <2>2. [send[n] EXCEPT !.pc = "publish"] \in SendCall
    BY <1>2 DEF SendCount, SendCall
  <2> QED
    BY <1>2, <2>1, <2>2 DEF SendCount, workerVars
<1>3. ASSUME NEW n \in Notifications, SendPublish(n) PROVE TypeOK'
  <2>1. inbox' \in Bag /\ faults' \in 0..MaxFaults
    BY <1>3, PublishType DEF SendPublish
  <2>2. send' \in [Notifications -> SendCall]
    BY <1>3 DEF SendPublish, SendCall
  <2> QED
    BY <1>3, <2>1, <2>2 DEF SendPublish, storeVars, workerVars
<1>4. ASSUME NEW c \in Calls, ReplayLookup(c) PROVE TypeOK'
  <2>1. replay' \in [Calls -> ReplayCall]
    BY <1>4 DEF ReplayLookup, GetByID, ReplayCall, Letter
  <2> QED
    BY <1>4, <2>1 DEF ReplayLookup, storeVars, workerVars
<1>5. ASSUME NEW c \in Calls, replay[c] \in ReplayCall \ {NoReplay}, NEW ok \in BOOLEAN,
             NEW pc \in {"publish", "delete", "count"}, ReplayTo(c, pc, ok)
      PROVE  replay' \in [Calls -> ReplayCall]
  BY <1>5 DEF ReplayTo, ReplayCall
<1>6. ASSUME NEW c \in Calls, replay[c].pc \in {"reset", "publish", "delete", "count"}
      PROVE  /\ replay[c] \in ReplayCall \ {NoReplay}
             /\ replay[c].job \in Notifications
  BY <1>6 DEF ReplayCall, NoReplay
<1>7. ASSUME NEW c \in Calls, ReplayReset(c) PROVE TypeOK'
  <2>1. PICK ok \in BOOLEAN :
            /\ Call(ok)
            /\ jobs' \in Outcomes(jobs, ResetForReplay(jobs, replay[c].job), ok)
            /\ ReplayTo(c, "publish", ok)
    BY <1>7 DEF ReplayReset
  <2>2. jobs' \in JobTable
    BY <1>6, <1>7, <2>1, JobStatements DEF ReplayReset, Outcomes
  <2>3. replay' \in [Calls -> ReplayCall]
    BY <1>5, <1>6, <1>7, <2>1 DEF ReplayReset
  <2> QED
    BY <1>7, <2>1, <2>2, <2>3, CallBound DEF ReplayReset, workerVars
<1>8. ASSUME NEW c \in Calls, ReplayPublish(c) PROVE TypeOK'
  <2>1. PICK ok \in BOOLEAN : Publish(replay[c].job, ok) /\ ReplayTo(c, "delete", ok)
    BY <1>8 DEF ReplayPublish
  <2>2. inbox' \in Bag /\ faults' \in 0..MaxFaults
    BY <1>6, <1>8, <2>1, PublishType DEF ReplayPublish
  <2>3. replay' \in [Calls -> ReplayCall]
    BY <1>5, <1>6, <1>8, <2>1 DEF ReplayPublish
  <2> QED
    BY <1>8, <2>2, <2>3 DEF ReplayPublish, storeVars, workerVars
<1>9. ASSUME NEW c \in Calls, ReplayDelete(c) PROVE TypeOK'
  <2>1. PICK ok \in BOOLEAN :
            /\ Call(ok)
            /\ letters' \in Outcomes(letters, DeleteByNotificationID(letters, replay[c].job), ok)
            /\ ReplayTo(c, "count", ok)
    BY <1>9 DEF ReplayDelete
  <2>2. letters' \in LetterTable
    BY <1>6, <1>9, <2>1, LetterStatements DEF ReplayDelete, Outcomes
  <2>3. replay' \in [Calls -> ReplayCall]
    BY <1>5, <1>6, <1>9, <2>1 DEF ReplayDelete
  <2> QED
    BY <1>9, <2>1, <2>2, <2>3, CallBound DEF ReplayDelete, workerVars
<1>10. ASSUME NEW c \in Calls, ReplayCount(c) PROVE TypeOK'
  <2>1. stats' \in StatTable /\ faults' \in 0..MaxFaults
    BY <1>6, <1>10, CountType DEF ReplayCount, StatStatuses
  <2> QED
    BY <1>10, <2>1 DEF ReplayCount, ReplayCall, workerVars
<1> QED
  BY <1>1, <1>2, <1>3, <1>4, <1>7, <1>8, <1>9, <1>10 DEF ServerStep, SendStep, ReplayStep

\* The environment keeps every variable within its type.
LEMMA EnvironmentType ==
    ASSUME TypeOK, Environment
    PROVE  TypeOK'
<1> USE DEF TypeOK, JobTable
<1>1. ASSUME NEW n \in Notifications, DeliveryFails(n) PROVE TypeOK'
  <2>1. jobs' \in JobTable
    BY <1>1, JobStatements DEF DeliveryFails
  <2> QED
    BY <1>1, <2>1, ConstantsAssumption DEF DeliveryFails, workerVars, serverVars
<1>2. ASSUME NEW n \in Notifications, RetryFallsDue(n) PROVE TypeOK'
  BY <1>2 DEF RetryFallsDue, JobRow, workerVars, serverVars
<1>3. ASSUME NEW r \in Replicas, NEW n \in Notifications, LoseMessage(r, n) PROVE TypeOK'
  <2>1. faults' \in 0..MaxFaults
    BY <1>3, CallBound DEF LoseMessage
  <2>2. inbox' \in Bag
    BY <1>3 DEF LoseMessage, Bag
  <2> QED
    BY <1>3, <2>1, <2>2 DEF LoseMessage, storeVars, workerVars, serverVars
<1>4. ASSUME NEW r \in Replicas, Crash(r) PROVE TypeOK'
  <2>1. inbox' \in Bag /\ delivering' \in Bag /\ counting' \in Bag
    BY <1>4 DEF Crash, Bag
  <2>2. sched' \in [Replicas -> Scheduler]
    BY <1>4 DEF Crash, IdleScheduler, Scheduler
  <2>3. /\ send' \in [Notifications -> SendCall]
        /\ replay' \in [Calls -> ReplayCall]
    BY <1>4 DEF Crash, SendCall, ReplayCall
  <2> QED
    BY <1>4, <2>1, <2>2, <2>3, CallBound DEF Crash, storeVars
<1>5. ASSUME NEW r \in Replicas, Restart(r) PROVE TypeOK'
  BY <1>5 DEF Restart, storeVars, workerVars, serverVars
<1> QED
  BY <1>1, <1>2, <1>3, <1>4, <1>5 DEF Environment

\* Every reachable state is type correct, for all values of the constants.
THEOREM TypeCorrect == Spec => []TypeOK
<1>1. TypeOK /\ [Next]_vars => TypeOK'
  <2>1. ASSUME TypeOK, UNCHANGED vars PROVE TypeOK'
    BY <2>1 DEF vars, TypeOK
  <2> QED
    BY <2>1, SchedulerType, WorkerType, ServerType, EnvironmentType DEF Next
<1> QED
  BY <1>1, InitType, PTL DEF Spec

----------------------------------------------------------------------------
(* Dead letters                                                            *)

\* The only steps that touch the dead-letter table are a scheduler's insert
\* and a replay's delete.
LEMMA LettersStep ==
    ASSUME TypeOK, [Next]_vars
    PROVE  \/ letters' = letters
           \/ \E n \in Notifications, a \in Nat : letters' = CreateLetter(letters, n, a)
           \/ \E c \in Calls : letters' = DeleteByNotificationID(letters, replay[c].job)
<1>1. CASE UNCHANGED vars
  BY <1>1 DEF vars
<1>2. ASSUME NEW r \in Replicas, DeadLetter(r)
      PROVE  \/ letters' = letters
             \/ \E n \in Notifications, a \in Nat : letters' = CreateLetter(letters, n, a)
  <2>1. PICK s \in sched[r].batch, ok \in BOOLEAN :
            letters' \in Outcomes(letters, CreateLetter(letters, s.job, s.retryCount), ok)
    BY <1>2 DEF DeadLetter
  <2>2. s.job \in Notifications /\ s.retryCount \in Nat
    BY DEF TypeOK, Scheduler, Snapshot
  <2> QED
    BY <2>1, <2>2 DEF Outcomes
<1>3. ASSUME NEW r \in Replicas, SchedulerStep(r), ~DeadLetter(r)
      PROVE  letters' = letters
  BY <1>3 DEF SchedulerStep, Poll, ReEnqueue, MarkPending, MarkDeadLettered, CountFailed, storeVars
<1>4. ASSUME NEW r \in Replicas, WorkerStep(r)
      PROVE  letters' = letters
  BY <1>4 DEF WorkerStep, Dispatch, StartDelivery, Deliver, CountDelivered
<1>5. ASSUME NEW c \in Calls, ReplayDelete(c)
      PROVE  \/ letters' = letters
             \/ letters' = DeleteByNotificationID(letters, replay[c].job)
  BY <1>5 DEF ReplayDelete, Outcomes
<1>6. ASSUME ServerStep, ~\E c \in Calls : ReplayDelete(c)
      PROVE  letters' = letters
  BY <1>6 DEF ServerStep, SendStep, ReplayStep, SendCreate, SendCount, SendPublish,
              ReplayLookup, ReplayReset, ReplayPublish, ReplayCount, storeVars
<1>7. CASE Environment
  BY <1>7 DEF Environment, DeliveryFails, RetryFallsDue, LoseMessage, Crash, Restart, storeVars
<1> QED
  BY <1>1, <1>2, <1>3, <1>4, <1>5, <1>6, <1>7 DEF Next

\* However schedulers, retried inserts and replays interleave, the table never
\* holds two letters of one notification.
THEOREM OneDeadLetter == Spec => []OneDeadLetterPerNotification
<1>1. Init => OneDeadLetterPerNotification
  BY DEF Init, EmptyTable, OneDeadLetterPerNotification
<1>2. TypeOK /\ OneDeadLetterPerNotification /\ [Next]_vars => OneDeadLetterPerNotification'
  <2> SUFFICES ASSUME TypeOK, OneDeadLetterPerNotification, [Next]_vars
               PROVE  OneDeadLetterPerNotification'
    OBVIOUS
  <2>1. CASE letters' = letters
    BY <2>1 DEF OneDeadLetterPerNotification
  <2>2. CASE \E n \in Notifications, a \in Nat : letters' = CreateLetter(letters, n, a)
    BY <2>2 DEF OneDeadLetterPerNotification, CreateLetter, LettersOf
  <2>3. CASE \E c \in Calls : letters' = DeleteByNotificationID(letters, replay[c].job)
    <3>1. letters'.rows \subseteq letters.rows
      BY <2>3 DEF DeleteByNotificationID, TypeOK
    <3> QED
      BY <3>1 DEF OneDeadLetterPerNotification
  <2> QED
    BY <2>1, <2>2, <2>3, LettersStep
<1> QED
  BY <1>1, <1>2, TypeCorrect, PTL DEF Spec

\* A scheduler that is about to mark a job has its letter in the table.
MarkedAfterInsert ==
    \A r \in Replicas :
        sched[r].pc = "markDead" => LettersOf(letters, sched[r].cur.job) # {}

\* DEAD_LETTERED is written by a scheduler's mark and by nothing else.
LEMMA DeadLetteredStep ==
    ASSUME TypeOK, [Next]_vars, NEW n \in Notifications, jobs'[n].status = "DEAD_LETTERED"
    PROVE  \/ jobs[n].status = "DEAD_LETTERED"
           \/ \E r \in Replicas : sched[r].pc = "markDead" /\ sched[r].cur.job = n
<1> USE DEF TypeOK, JobRow, Outcomes
<1>1. CASE UNCHANGED vars
  BY <1>1 DEF vars
<1>2. ASSUME NEW r \in Replicas, MarkDeadLettered(r)
      PROVE  \/ jobs[n].status = "DEAD_LETTERED"
             \/ sched[r].pc = "markDead" /\ sched[r].cur.job = n
  BY <1>2 DEF MarkDeadLettered, UpdateStatus
<1>3. ASSUME NEW r \in Replicas, MarkPending(r)
      PROVE  jobs[n].status = "DEAD_LETTERED"
  BY <1>3 DEF MarkPending, UpdateStatus
<1>4. ASSUME NEW r \in Replicas, WorkerStep(r)
      PROVE  jobs[n].status = "DEAD_LETTERED"
  BY <1>4 DEF WorkerStep, Dispatch, StartDelivery, Deliver, CountDelivered, UpdateStatus
<1>5. ASSUME NEW r \in Replicas, SchedulerStep(r), ~MarkDeadLettered(r), ~MarkPending(r)
      PROVE  jobs[n].status = "DEAD_LETTERED"
  BY <1>5 DEF SchedulerStep, Poll, ReEnqueue, DeadLetter, CountFailed, storeVars
<1>6. ASSUME ServerStep
      PROVE  jobs[n].status = "DEAD_LETTERED"
  <2>1. ASSUME NEW m \in Notifications, SendStep(m) PROVE jobs[n].status = "DEAD_LETTERED"
    BY <2>1 DEF SendStep, SendCreate, SendCount, SendPublish, Create, storeVars
  <2>2. ASSUME NEW c \in Calls, ReplayLookup(c) \/ ReplayStep(c)
        PROVE  jobs[n].status = "DEAD_LETTERED"
    BY <2>2 DEF ReplayStep, ReplayLookup, ReplayReset, ReplayPublish, ReplayDelete, ReplayCount,
                ResetForReplay, storeVars
  <2> QED
    BY <1>6, <2>1, <2>2 DEF ServerStep
<1>7. ASSUME Environment
      PROVE  jobs[n].status = "DEAD_LETTERED"
  <2>1. ASSUME NEW m \in Notifications, DeliveryFails(m) PROVE jobs[n].status = "DEAD_LETTERED"
    BY <2>1 DEF DeliveryFails, FailJob
  <2>2. ASSUME NEW m \in Notifications, RetryFallsDue(m) PROVE jobs[n].status = "DEAD_LETTERED"
    BY <2>2 DEF RetryFallsDue
  <2>3. ASSUME NEW r \in Replicas, NEW m \in Notifications,
               LoseMessage(r, m) \/ Crash(r) \/ Restart(r)
        PROVE  jobs[n].status = "DEAD_LETTERED"
    BY <2>3 DEF LoseMessage, Crash, Restart, storeVars
  <2> QED
    BY <1>7, <2>1, <2>2, <2>3 DEF Environment
<1>8. ASSUME NEW r \in Replicas, SchedulerStep(r) \/ WorkerStep(r)
      PROVE  \/ jobs[n].status = "DEAD_LETTERED"
             \/ sched[r].pc = "markDead" /\ sched[r].cur.job = n
  BY <1>2, <1>3, <1>4, <1>5, <1>8
<1> QED
  BY <1>1, <1>6, <1>7, <1>8 DEF Next

\* A scheduler comes to its mark only through its insert.
LEMMA MarkStep ==
    ASSUME TypeOK, [Next]_vars, NEW r \in Replicas, sched'[r].pc = "markDead"
    PROVE  \/ sched'[r] = sched[r]
           \/ LettersOf(letters', sched'[r].cur.job) # {}
<1> USE DEF TypeOK
<1>1. CASE UNCHANGED vars
  BY <1>1 DEF vars
<1>2. ASSUME NEW q \in Replicas, DeadLetter(q)
      PROVE  sched'[r] = sched[r] \/ LettersOf(letters', sched'[r].cur.job) # {}
  <2>1. PICK s \in sched[q].batch, ok \in BOOLEAN :
            /\ letters' \in Outcomes(letters, CreateLetter(letters, s.job, s.retryCount), ok)
            /\ sched' = [sched EXCEPT ![q] = Take(q, s, "markDead", ok)]
            /\ sched[q].pc = "loop"
    BY <1>2 DEF DeadLetter, Idle
  <2>2. CASE r # q
    <3>1. sched'[r] = sched[r]
      BY <2>1, <2>2
    <3> QED
      BY <3>1
  <2>3. CASE r = q /\ ok
    <3>1. letters' = CreateLetter(letters, s.job, s.retryCount) /\ sched'[r].cur = s
      BY <2>1, <2>3 DEF Outcomes, Take
    <3>2. s.job \in Notifications /\ s.retryCount \in Nat
      BY DEF Scheduler, Snapshot
    <3> QED
      BY <3>1, <3>2, CreateLetterStores DEF LetterTable
  <2>4. CASE r = q /\ ~ok
    <3>1. sched'[r].pc = "loop"
      BY <2>1, <2>4 DEF Take, Scheduler
    <3> QED
      BY <3>1
  <2> QED
    BY <2>2, <2>3, <2>4
<1>3. ASSUME NEW q \in Replicas, SchedulerStep(q), ~DeadLetter(q)
      PROVE  sched'[r] = sched[r]
  <2>1. CASE Poll(q)
    BY <2>1 DEF Poll, Idle, Scheduler
  <2>2. CASE ReEnqueue(q)
    BY <2>2 DEF ReEnqueue, Idle, Take, Scheduler
  <2>3. CASE MarkDeadLettered(q)
    BY <2>3 DEF MarkDeadLettered, Continue, Scheduler
  <2>4. CASE MarkPending(q) \/ CountFailed(q)
    BY <2>4 DEF MarkPending, CountFailed, Continue
  <2> QED
    BY <1>3, <2>1, <2>2, <2>3, <2>4 DEF SchedulerStep
<1>4. ASSUME NEW q \in Replicas, WorkerStep(q)
      PROVE  sched' = sched
  BY <1>4 DEF WorkerStep, Dispatch, StartDelivery, Deliver, CountDelivered
<1>5. CASE ServerStep
  BY <1>5 DEF ServerStep, SendStep, ReplayStep, SendCreate, SendCount, SendPublish,
              ReplayLookup, ReplayReset, ReplayPublish, ReplayDelete, ReplayCount
<1>6. ASSUME Environment
      PROVE  sched'[r] = sched[r]
  <2>1. ASSUME NEW q \in Replicas, Crash(q) PROVE sched'[r] = sched[r]
    BY <2>1 DEF Crash, IdleScheduler
  <2>2. ASSUME NEW q \in Replicas, Restart(q) PROVE sched'[r] = sched[r]
    BY <2>2 DEF Restart
  <2>3. ASSUME NEW m \in Notifications, DeliveryFails(m) \/ RetryFallsDue(m)
        PROVE  sched'[r] = sched[r]
    BY <2>3 DEF DeliveryFails, RetryFallsDue
  <2>4. ASSUME NEW q \in Replicas, NEW m \in Notifications, LoseMessage(q, m)
        PROVE  sched'[r] = sched[r]
    BY <2>4 DEF LoseMessage
  <2> QED
    BY <1>6, <2>1, <2>2, <2>3, <2>4 DEF Environment
<1>7. ASSUME NEW q \in Replicas, SchedulerStep(q) \/ WorkerStep(q)
      PROVE  sched'[r] = sched[r] \/ LettersOf(letters', sched'[r].cur.job) # {}
  BY <1>2, <1>3, <1>4, <1>7
<1> QED
  BY <1>1, <1>5, <1>6, <1>7 DEF Next

\* As long as nobody replays, a scheduler that is about to mark a job and a job
\* that is marked have their letter in the table.
LEMMA MarkedIsInserted ==
    ASSUME Calls = {}
    PROVE  Spec => [](DeadLetteredIsInspectable /\ MarkedAfterInsert)
<1> DEFINE IInv == DeadLetteredIsInspectable /\ MarkedAfterInsert
<1>1. Init => IInv
  BY DEF Init, NoRow, IdleScheduler, DeadLetteredIsInspectable, MarkedAfterInsert
<1>2. TypeOK /\ IInv /\ [Next]_vars => IInv'
  <2> SUFFICES ASSUME TypeOK, IInv, [Next]_vars
               PROVE  IInv'
    OBVIOUS
  <2>1. \A n \in Notifications : LettersOf(letters, n) \subseteq LettersOf(letters', n)
    BY LettersStep DEF LettersOf, CreateLetter
  <2>2. DeadLetteredIsInspectable'
    BY <2>1, DeadLetteredStep DEF DeadLetteredIsInspectable, MarkedAfterInsert
  <2>3. ASSUME NEW r \in Replicas, sched'[r].pc = "markDead"
        PROVE  LettersOf(letters', sched'[r].cur.job) # {}
    <3>1. CASE sched'[r] = sched[r]
      <4>1. sched[r].cur.job \in Notifications
        BY <2>3, <3>1 DEF TypeOK, Scheduler, Snapshot
      <4> QED
        BY <2>1, <2>3, <3>1, <4>1 DEF MarkedAfterInsert
    <3> QED
      BY <2>3, <3>1, MarkStep
  <2> QED
    BY <2>2, <2>3 DEF MarkedAfterInsert
<1> QED
  BY <1>1, <1>2, TypeCorrect, PTL DEF Spec

\* As long as nobody replays, a job reported as DEAD_LETTERED is in the
\* dead-letter table, whatever errors and crashes interrupt the schedulers.
THEOREM DeadLetteredInspectable ==
    ASSUME Calls = {}
    PROVE  Spec => []DeadLetteredIsInspectable
  BY MarkedIsInserted, PTL

----------------------------------------------------------------------------
(* Stranded notifications                                                  *)

\* A handler that is not done runs on a process that is up, so that its publish
\* reaches at least that process.
CallsAreLive ==
    /\ \A n \in Notifications : send[n].pc \in {"count", "publish"} => up[send[n].at]
    /\ \A c \in Calls : replay[c].pc # "idle" => up[replay[c].at]

\* The schedulers and the workers leave the handlers and the processes alone,
\* and so does the environment but for crashes and restarts.
LEMMA CallsLeft ==
    ASSUME [Next]_vars, ~ServerStep, ~\E r \in Replicas : Crash(r) \/ Restart(r)
    PROVE  UNCHANGED <<send, replay, up>>
<1>1. CASE UNCHANGED vars
  BY <1>1 DEF vars
<1>2. ASSUME NEW r \in Replicas, SchedulerStep(r)
      PROVE  UNCHANGED <<send, replay, up>>
  BY <1>2 DEF SchedulerStep, Poll, ReEnqueue, MarkPending, DeadLetter, MarkDeadLettered,
              CountFailed, serverVars
<1>3. ASSUME NEW r \in Replicas, WorkerStep(r)
      PROVE  UNCHANGED <<send, replay, up>>
  BY <1>3 DEF WorkerStep, Dispatch, StartDelivery, Deliver, CountDelivered, serverVars
<1>4. ASSUME NEW n \in Notifications, DeliveryFails(n) \/ RetryFallsDue(n)
      PROVE  UNCHANGED <<send, replay, up>>
  BY <1>4 DEF DeliveryFails, RetryFallsDue, serverVars
<1>5. ASSUME NEW r \in Replicas, NEW n \in Notifications, LoseMessage(r, n)
      PROVE  UNCHANGED <<send, replay, up>>
  BY <1>5 DEF LoseMessage, serverVars
<1> QED
  BY <1>1, <1>2, <1>3, <1>4, <1>5 DEF Next, Environment

\* Handlers die with their process, and never run on one that is down.
LEMMA CallsStayLive ==
    ASSUME TypeOK, CallsAreLive, [Next]_vars
    PROVE  CallsAreLive'
<1>0. /\ send \in [Notifications -> SendCall] /\ replay \in [Calls -> ReplayCall]
      /\ up \in [Replicas -> BOOLEAN]
  BY DEF TypeOK
<1>1. CASE ~ServerStep /\ ~\E r \in Replicas : Crash(r) \/ Restart(r)
  BY <1>1, CallsLeft DEF CallsAreLive
<1>2. ASSUME NEW r \in Replicas, Restart(r) PROVE CallsAreLive'
  <2>1. UNCHANGED <<send, replay>> /\ \A q \in Replicas : up[q] => up'[q]
    BY <1>0, <1>2 DEF Restart, serverVars
  <2>2. /\ \A n \in Notifications : send[n].pc \in {"count", "publish"} => send[n].at \in Replicas
        /\ \A c \in Calls : replay[c].pc # "idle" => replay[c].at \in Replicas
    BY <1>0 DEF SendCall, ReplayCall, NoReplay
  <2> QED
    BY <2>1, <2>2 DEF CallsAreLive
<1>3. ASSUME NEW r \in Replicas, Crash(r) PROVE CallsAreLive'
  <2>1. /\ up' = [up EXCEPT ![r] = FALSE]
        /\ send' = [n \in Notifications |->
                        IF send[n].at = r THEN [pc |-> "failed", at |-> None] ELSE send[n]]
        /\ replay' = [c \in Calls |-> IF replay[c].at = r THEN NoReplay ELSE replay[c]]
    BY <1>3 DEF Crash
  <2>2. ASSUME NEW n \in Notifications, send'[n].pc \in {"count", "publish"}
        PROVE  up'[send'[n].at]
    <3>1. send'[n] = send[n] /\ send[n].at # r
      BY <2>1, <2>2
    <3> QED
      BY <1>0, <2>1, <2>2, <3>1 DEF CallsAreLive, SendCall
  <2>3. ASSUME NEW c \in Calls, replay'[c].pc # "idle"
        PROVE  up'[replay'[c].at]
    <3>1. replay'[c] = replay[c] /\ replay[c].at # r
      BY <2>1, <2>3 DEF NoReplay
    <3> QED
      BY <1>0, <2>1, <2>3, <3>1 DEF CallsAreLive, ReplayCall, NoReplay
  <2> QED
    BY <2>2, <2>3 DEF CallsAreLive
<1>4. ASSUME NEW n \in Notifications, SendStep(n) PROVE CallsAreLive'
  <2>1. UNCHANGED <<replay, up>>
    BY <1>4 DEF SendStep, SendCreate, SendCount, SendPublish
  <2>2. CASE SendCreate(n)
    <3>1. PICK r \in Replicas, ok \in BOOLEAN :
            /\ up[r]
            /\ send' = [send EXCEPT ![n] = IF ok THEN [pc |-> "count", at |-> r]
                                                 ELSE [pc |-> "failed", at |-> None]]
      BY <2>2 DEF SendCreate
    <3> QED
      BY <1>0, <2>1, <3>1 DEF CallsAreLive
  <2>3. CASE SendCount(n)
    <3>1. send' = [send EXCEPT ![n].pc = "publish"] /\ send[n].pc = "count"
      BY <2>3 DEF SendCount
    <3>2. send'[n].at = send[n].at
      BY <1>0, <3>1 DEF SendCall
    <3> QED
      BY <1>0, <2>1, <3>1, <3>2 DEF CallsAreLive
  <2>4. CASE SendPublish(n)
    <3>1. PICK ok \in BOOLEAN :
            send' = [send EXCEPT ![n] = [pc |-> IF ok THEN "done" ELSE "failed", at |-> None]]
      BY <2>4 DEF SendPublish
    <3> QED
      BY <1>0, <2>1, <3>1 DEF CallsAreLive
  <2> QED
    BY <1>4, <2>2, <2>3, <2>4 DEF SendStep
<1>5. ASSUME NEW c \in Calls, ReplayLookup(c) PROVE CallsAreLive'
  <2>1. PICK r \in Replicas, l \in letters.rows :
            /\ up[r]
            /\ replay' = [replay EXCEPT ![c] = [pc |-> "reset", at |-> r, job |-> l.job]]
    BY <1>5 DEF ReplayLookup, GetByID
  <2> QED
    BY <1>0, <1>5, <2>1 DEF CallsAreLive, ReplayLookup
<1>6. ASSUME NEW c \in Calls, ReplayStep(c) PROVE CallsAreLive'
  <2>1. UNCHANGED <<send, up>>
    BY <1>6 DEF ReplayStep, ReplayReset, ReplayPublish, ReplayDelete, ReplayCount
  <2>2. replay[c].pc # "idle"
    BY <1>6 DEF ReplayStep, ReplayReset, ReplayPublish, ReplayDelete, ReplayCount
  <2>3. \/ replay' = [replay EXCEPT ![c] = NoReplay]
        \/ \E pc : replay' = [replay EXCEPT ![c].pc = pc]
    BY <1>6 DEF ReplayStep, ReplayReset, ReplayPublish, ReplayDelete, ReplayCount, ReplayTo
  <2>4. replay'[c].pc # "idle" => replay'[c].at = replay[c].at
    <3>1. CASE replay' = [replay EXCEPT ![c] = NoReplay]
      BY <1>0, <3>1 DEF NoReplay
    <3>2. ASSUME NEW pc, replay' = [replay EXCEPT ![c].pc = pc]
          PROVE  replay'[c].at = replay[c].at
      BY <1>0, <3>2 DEF ReplayCall, NoReplay
    <3> QED
      BY <2>3, <3>1, <3>2
  <2>5. \A d \in Calls \ {c} : replay'[d] = replay[d]
    BY <1>0, <2>3
  <2> QED
    BY <2>1, <2>2, <2>4, <2>5 DEF CallsAreLive
<1> QED
  BY <1>1, <1>2, <1>3, <1>4, <1>5, <1>6 DEF ServerStep

\* What keeps n in flight is kept.
FlightKept(n) ==
    /\ \A r \in Replicas : inbox[r][n] > 0 => inbox'[r][n] > 0
    /\ \A r \in Replicas : working[r] = n => working'[r] = n
    /\ \A r \in Replicas : delivering[r][n] > 0 => delivering'[r][n] > 0
    /\ \A c \in Calls : replay[c].job = n /\ replay[c].pc = "publish"
                            => replay'[c].job = n /\ replay'[c].pc = "publish"

LEMMA FlightGoesOn ==
    ASSUME NEW n \in Notifications, FlightKept(n), InFlight(n)
    PROVE  InFlight(n)'
  BY DEF InFlight, FlightKept

\* A successful publish made on a live process puts n in flight, and takes
\* nothing out of flight.
LEMMA PublishLaunches ==
    ASSUME TypeOK, NEW n \in Notifications, NEW ok \in BOOLEAN, Publish(n, ok)
    PROVE  /\ \A r \in Replicas, m \in Notifications : inbox[r][m] > 0 => inbox'[r][m] > 0
           /\ ok => \A r \in Replicas : up[r] => inbox'[r][n] > 0
  BY DEF Publish, TypeOK, Bag

\* No step of a scheduler strands a notification, but a write of PENDING.
LEMMA SchedulerStrands ==
    ASSUME TypeOK, NEW r \in Replicas, SchedulerStep(r), NEW n \in Notifications,
           ~Stranded(n), ~(MarkPending(r) /\ sched[r].cur.job = n)
    PROVE  ~Stranded(n)'
<1>1. UNCHANGED <<working, delivering, send, replay>>
  BY DEF SchedulerStep, Poll, ReEnqueue, MarkPending, DeadLetter, MarkDeadLettered, CountFailed,
         workerVars, serverVars
<1>2. \A q \in Replicas : inbox[q][n] > 0 => inbox'[q][n] > 0
  <2>1. CASE ReEnqueue(r)
    <3>1. PICK s \in sched[r].batch, ok \in BOOLEAN : Publish(s.job, ok)
      BY <2>1 DEF ReEnqueue
    <3>2. s.job \in Notifications
      BY DEF TypeOK, Scheduler, Snapshot
    <3> QED
      BY <3>1, <3>2, PublishLaunches
  <2>2. CASE ~ReEnqueue(r)
    BY <2>2 DEF SchedulerStep, Poll, MarkPending, DeadLetter, MarkDeadLettered, CountFailed
  <2> QED
    BY <2>1, <2>2
<1>3. \/ jobs'[n].status = jobs[n].status
      \/ jobs'[n].status = "DEAD_LETTERED"
  <2>1. CASE MarkPending(r) \/ MarkDeadLettered(r)
    <3>1. CASE MarkPending(r)
      <4>1. jobs \in [Notifications -> JobRow] /\ sched[r].cur.job # n
        BY <3>1 DEF TypeOK
      <4>2. jobs' = jobs \/ jobs' = UpdateStatus(jobs, sched[r].cur.job, "PENDING")
        BY <3>1 DEF MarkPending, Outcomes
      <4>3. jobs'[n] = jobs[n]
        BY <4>1, <4>2 DEF UpdateStatus
      <4> QED
        BY <4>3
    <3>2. CASE MarkDeadLettered(r)
      BY <3>2 DEF MarkDeadLettered, Outcomes, UpdateStatus, TypeOK, JobRow
    <3> QED
      BY <2>1, <3>1, <3>2
  <2>2. CASE ~(MarkPending(r) \/ MarkDeadLettered(r))
    BY <2>2 DEF SchedulerStep, Poll, ReEnqueue, DeadLetter, CountFailed, storeVars
  <2> QED
    BY <2>1, <2>2
<1>4. FlightKept(n)
  BY <1>1, <1>2 DEF FlightKept
<1> QED
  BY <1>1, <1>3, <1>4, FlightGoesOn DEF Stranded

\* The worker hands a notification over without letting go of it.
LEMMA WorkerStrands ==
    ASSUME TypeOK, NEW r \in Replicas, WorkerStep(r), NEW n \in Notifications,
           ~Stranded(n), faults' = faults
    PROVE  ~Stranded(n)'
<1> USE DEF TypeOK, Bag
<1>0. UNCHANGED <<send, replay>>
  BY DEF WorkerStep, Dispatch, StartDelivery, Deliver, CountDelivered, serverVars
<1>1. CASE Dispatch(r)
  <2>1. PICK m \in Notifications, ok \in BOOLEAN :
            /\ inbox' = [inbox EXCEPT ![r][m] = @ - 1]
            /\ Call(ok)
            /\ jobs' \in Outcomes(jobs, UpdateStatus(jobs, m, "DISPATCHED"), ok)
            /\ working' = [working EXCEPT ![r] = IF ok THEN m ELSE None]
    BY <1>1 DEF Dispatch
  <2>2. ok
    BY <2>1 DEF Call
  <2>3. CASE m = n
    <3>1. working'[r] = n
      BY <2>1, <2>2, <2>3
    <3> QED
      BY <3>1 DEF Stranded, InFlight
  <2>4. CASE m # n
    <3>1. jobs'[n] = jobs[n]
      BY <2>1, <2>4 DEF Outcomes, UpdateStatus
    <3>2. working[r] = None /\ n # None /\ delivering' = delivering
      BY <1>1, ConstantsAssumption DEF Dispatch
    <3>3. \A q \in Replicas : inbox'[q][n] = inbox[q][n]
      BY <2>1, <2>4
    <3>4. \A q \in Replicas : working[q] = n => working'[q] = n
      BY <2>1, <3>2
    <3>5. FlightKept(n)
      BY <1>0, <3>2, <3>3, <3>4 DEF FlightKept
    <3> QED
      BY <1>0, <3>1, <3>5, FlightGoesOn DEF Stranded
  <2> QED
    BY <2>3, <2>4
<1>2. CASE StartDelivery(r)
  <2>1. working[r] \in Notifications /\ jobs' = jobs
    BY <1>2 DEF StartDelivery
  <2>2. /\ delivering' = [delivering EXCEPT ![r][working[r]] = @ + 1]
        /\ working' = [working EXCEPT ![r] = None]
        /\ inbox' = inbox
    BY <1>2 DEF StartDelivery
  <2>3. CASE working[r] = n
    <3>1. delivering'[r][n] > 0
      BY <2>2, <2>3
    <3> QED
      BY <3>1 DEF Stranded, InFlight
  <2>4. CASE working[r] # n
    <3>1. FlightKept(n)
      BY <1>0, <2>1, <2>2, <2>4 DEF FlightKept
    <3> QED
      BY <1>0, <2>1, <3>1, FlightGoesOn DEF Stranded
  <2> QED
    BY <2>3, <2>4
<1>3. CASE Deliver(r)
  <2>1. PICK m \in Notifications, ok \in BOOLEAN :
            /\ delivering' = [delivering EXCEPT ![r][m] = @ - 1]
            /\ Call(ok)
            /\ jobs' \in Outcomes(jobs, UpdateStatus(jobs, m, "DELIVERED"), ok)
    BY <1>3 DEF Deliver
  <2>2. ok
    BY <2>1 DEF Call
  <2>3. CASE m = n
    <3>1. jobs'[n].status \in {"DELIVERED", "NONE"}
      BY <2>1, <2>2, <2>3 DEF Outcomes, UpdateStatus, Stored, JobRow
    <3> QED
      BY <3>1 DEF Stranded
  <2>4. CASE m # n
    <3>1. jobs'[n] = jobs[n]
      BY <2>1, <2>4 DEF Outcomes, UpdateStatus
    <3>2. FlightKept(n)
      BY <1>0, <1>3, <2>1, <2>4 DEF Deliver, FlightKept
    <3> QED
      BY <1>0, <3>1, <3>2, FlightGoesOn DEF Stranded
  <2> QED
    BY <2>3, <2>4
<1>4. CASE CountDelivered(r)
  <2>1. UNCHANGED <<jobs, inbox, working, delivering, send, replay>>
    BY <1>4 DEF CountDelivered, serverVars
  <2> QED
    BY <2>1 DEF Stranded, InFlight
<1> QED
  BY <1>1, <1>2, <1>3, <1>4 DEF WorkerStep

\* A handler lets go of a notification only when another part has it.
LEMMA ServerStrands ==
    ASSUME TypeOK, CallsAreLive, ServerStep, NEW n \in Notifications,
           ~Stranded(n), faults' = faults
    PROVE  ~Stranded(n)'
<1>0. /\ send \in [Notifications -> SendCall] /\ replay \in [Calls -> ReplayCall]
      /\ jobs \in [Notifications -> JobRow]
  BY DEF TypeOK
<1>1. UNCHANGED <<working, delivering>>
  BY DEF ServerStep, SendStep, ReplayStep, SendCreate, SendCount, SendPublish, ReplayLookup,
         ReplayReset, ReplayPublish, ReplayDelete, ReplayCount, workerVars
<1>2. ASSUME NEW m \in Notifications, SendCreate(m) PROVE ~Stranded(n)'
  <2>1. PICK r \in Replicas, ok \in BOOLEAN :
            /\ jobs' \in Outcomes(jobs, Create(jobs, m), ok)
            /\ send' = [send EXCEPT ![m] = IF ok THEN [pc |-> "count", at |-> r]
                                                 ELSE [pc |-> "failed", at |-> None]]
    BY <1>2 DEF SendCreate
  <2>2. CASE m = n
    BY <1>0, <2>1, <2>2 DEF Stranded
  <2>3. CASE m # n
    <3>1. jobs'[n] = jobs[n] /\ send'[n] = send[n]
      BY <1>0, <2>1, <2>3 DEF Outcomes, Create
    <3>2. FlightKept(n)
      BY <1>1, <1>2 DEF SendCreate, FlightKept
    <3> QED
      BY <3>1, <3>2, FlightGoesOn DEF Stranded
  <2> QED
    BY <2>2, <2>3
<1>3. ASSUME NEW m \in Notifications, SendCount(m) PROVE ~Stranded(n)'
  <2>1. jobs' = jobs /\ send' = [send EXCEPT ![m].pc = "publish"]
    BY <1>3 DEF SendCount
  <2>2. send'[n].pc = "done" => send[n].pc = "done"
    BY <1>0, <2>1 DEF SendCall
  <2>3. FlightKept(n)
    BY <1>1, <1>3 DEF SendCount, FlightKept
  <2> QED
    BY <2>1, <2>2, <2>3, FlightGoesOn DEF Stranded
<1>4. ASSUME NEW m \in Notifications, SendPublish(m) PROVE ~Stranded(n)'
  <2>1. PICK ok \in BOOLEAN :
            /\ Publish(m, ok)
            /\ send' = [send EXCEPT ![m] = [pc |-> IF ok THEN "done" ELSE "failed", at |-> None]]
    BY <1>4 DEF SendPublish
  <2>2. ok
    BY <2>1 DEF Publish, Call, TypeOK
  <2>3. CASE m = n
    <3>1. send[n].at \in Replicas /\ up[send[n].at]
      BY <1>0, <1>4, <2>3 DEF SendPublish, CallsAreLive, SendCall
    <3>2. inbox'[send[n].at][n] > 0
      BY <2>1, <2>2, <2>3, <3>1, PublishLaunches
    <3> QED
      BY <3>1, <3>2 DEF Stranded, InFlight
  <2>4. CASE m # n
    <3>1. jobs'[n] = jobs[n] /\ send'[n] = send[n] /\ replay' = replay
      BY <1>0, <1>4, <2>1, <2>4 DEF SendPublish, storeVars
    <3>2. FlightKept(n)
      BY <1>1, <2>1, <3>1, PublishLaunches DEF FlightKept
    <3> QED
      BY <3>1, <3>2, FlightGoesOn DEF Stranded
  <2> QED
    BY <2>3, <2>4
<1>5. ASSUME NEW c \in Calls, ReplayLookup(c) PROVE ~Stranded(n)'
  <2>1. PICK call : replay' = [replay EXCEPT ![c] = call]
    BY <1>5 DEF ReplayLookup
  <2>2. replay[c].pc = "idle" /\ UNCHANGED <<jobs, send, inbox>>
    BY <1>5 DEF ReplayLookup, storeVars
  <2>3. FlightKept(n)
    BY <1>0, <1>1, <2>1, <2>2 DEF FlightKept
  <2> QED
    BY <2>2, <2>3, FlightGoesOn DEF Stranded
<1>6. ASSUME NEW c \in Calls, ReplayReset(c) PROVE ~Stranded(n)'
  <2>1. PICK ok \in BOOLEAN :
            /\ Call(ok)
            /\ jobs' \in Outcomes(jobs, ResetForReplay(jobs, replay[c].job), ok)
            /\ ReplayTo(c, "publish", ok)
    BY <1>6 DEF ReplayReset
  <2>2. ok /\ replay[c].pc = "reset" /\ UNCHANGED <<send, inbox>>
    BY <1>6, <2>1 DEF ReplayReset, Call, TypeOK
  <2>3. replay' = [replay EXCEPT ![c].pc = "publish"]
    BY <2>1, <2>2 DEF ReplayTo
  <2>4. replay'[c].pc = "publish" /\ replay'[c].job = replay[c].job
    BY <1>0, <2>2, <2>3 DEF ReplayCall, NoReplay
  <2>5. CASE replay[c].job = n
    BY <2>4, <2>5 DEF Stranded, InFlight
  <2>6. CASE replay[c].job # n
    <3>1. jobs'[n] = jobs[n]
      BY <1>0, <2>1, <2>6 DEF Outcomes, ResetForReplay
    <3>2. FlightKept(n)
      BY <1>0, <1>1, <2>2, <2>3 DEF FlightKept
    <3> QED
      BY <2>2, <3>1, <3>2, FlightGoesOn DEF Stranded
  <2> QED
    BY <2>5, <2>6
<1>7. ASSUME NEW c \in Calls, ReplayPublish(c) PROVE ~Stranded(n)'
  <2>1. PICK ok \in BOOLEAN : Publish(replay[c].job, ok) /\ ReplayTo(c, "delete", ok)
    BY <1>7 DEF ReplayPublish
  <2>2. ok /\ replay[c].pc = "publish" /\ UNCHANGED <<send, jobs>>
    BY <1>7, <2>1 DEF ReplayPublish, Publish, Call, storeVars, TypeOK
  <2>3. replay[c].at \in Replicas /\ up[replay[c].at] /\ replay[c].job \in Notifications
    BY <1>0, <2>2 DEF CallsAreLive, ReplayCall, NoReplay
  <2>4. CASE replay[c].job = n
    <3>1. inbox'[replay[c].at][n] > 0
      BY <2>1, <2>2, <2>3, <2>4, PublishLaunches
    <3> QED
      BY <2>3, <3>1 DEF Stranded, InFlight
  <2>5. CASE replay[c].job # n
    <3>1. \A d \in Calls \ {c} : replay'[d] = replay[d]
      BY <1>0, <2>1, <2>2 DEF ReplayTo
    <3>2. FlightKept(n)
      BY <1>1, <2>1, <2>3, <2>5, <3>1, PublishLaunches DEF FlightKept
    <3> QED
      BY <2>2, <3>2, FlightGoesOn DEF Stranded
  <2> QED
    BY <2>4, <2>5
<1>8. ASSUME NEW c \in Calls, ReplayDelete(c) \/ ReplayCount(c) PROVE ~Stranded(n)'
  <2>1. UNCHANGED <<jobs, send, inbox>> /\ replay[c].pc # "publish"
    BY <1>8 DEF ReplayDelete, ReplayCount
  <2>2. \A d \in Calls \ {c} : replay'[d] = replay[d]
    BY <1>0, <1>8 DEF ReplayDelete, ReplayCount, ReplayTo
  <2>3. FlightKept(n)
    BY <1>1, <2>1, <2>2 DEF FlightKept
  <2> QED
    BY <2>1, <2>3, FlightGoesOn DEF Stranded
<1> QED
  BY <1>2, <1>3, <1>4, <1>5, <1>6, <1>7, <1>8 DEF ServerStep, SendStep, ReplayStep

\* The environment strands a notification only at the price of a fault.
LEMMA EnvironmentStrands ==
    ASSUME TypeOK, Environment, NEW n \in Notifications, ~Stranded(n), faults' = faults
    PROVE  ~Stranded(n)'
<1>1. ASSUME NEW m \in Notifications, DeliveryFails(m) \/ RetryFallsDue(m)
      PROVE  ~Stranded(n)'
  <2>1. UNCHANGED <<send, replay, inbox, working, delivering>>
    BY <1>1 DEF DeliveryFails, RetryFallsDue, workerVars, serverVars
  <2>2. jobs'[n].status = jobs[n].status \/ jobs'[n].status = "FAILED"
    BY <1>1 DEF DeliveryFails, RetryFallsDue, FailJob, TypeOK, JobRow
  <2> QED
    BY <2>1, <2>2 DEF Stranded, InFlight
<1>2. ASSUME NEW r \in Replicas, Restart(r)
      PROVE  ~Stranded(n)'
  BY <1>2 DEF Restart, storeVars, workerVars, serverVars, Stranded, InFlight
<1>3. ASSUME Call(FALSE)
      PROVE  FALSE
  BY <1>3 DEF Call, TypeOK
<1> QED
  BY <1>1, <1>2, <1>3 DEF Environment, LoseMessage, Crash

LEMMA StrandingStep ==
    ASSUME TypeOK, CallsAreLive, [Next]_vars, NEW n \in Notifications,
           ~Stranded(n), faults' = faults,
           ~\E r \in Replicas : MarkPending(r) /\ sched[r].cur.job = n
    PROVE  ~Stranded(n)'
<1>1. CASE UNCHANGED vars
  BY <1>1 DEF vars, Stranded, InFlight
<1> QED
  BY <1>1, SchedulerStrands, WorkerStrands, ServerStrands, EnvironmentStrands DEF Next

\* Whatever schedulers, workers, handlers and replays of any number of
\* processes interleave, only faults and a late write of PENDING abandon an
\* acknowledged notification.
THEOREM StrandedByFaults == Spec => StrandedOnlyByFaults
<1>1. Init => CallsAreLive
  BY DEF Init, CallsAreLive, NoReplay
<1>2. TypeOK /\ CallsAreLive /\ [Next]_vars => CallsAreLive'
  BY CallsStayLive
<1>3. TypeOK /\ CallsAreLive /\ [Next]_vars =>
        [\A n \in Notifications :
            ~Stranded(n) /\ Stranded(n)' =>
                \/ faults' # faults
                \/ \E r \in Replicas : MarkPending(r) /\ sched[r].cur.job = n]_vars
  BY StrandingStep
<1> QED
  BY <1>1, <1>2, <1>3, TypeCorrect, PTL DEF Spec, StrandedOnlyByFaults

\* A job fails by a failing delivery and by nothing else.
LEMMA FailedStep ==
    ASSUME TypeOK, [Next]_vars, NEW n \in Notifications, jobs'[n].status = "FAILED"
    PROVE  \/ jobs[n].status = "FAILED" /\ jobs'[n].retryCount = jobs[n].retryCount
           \/ DeliveryFails(n) /\ jobs'[n].retryCount = jobs[n].retryCount + 1
<1> DEFINE Kept == jobs[n].status = "FAILED" /\ jobs'[n].retryCount = jobs[n].retryCount
<1>0. jobs \in [Notifications -> JobRow]
  BY DEF TypeOK
<1>1. ASSUME NEW m, NEW s \in {"PENDING", "DISPATCHED", "DELIVERED", "DEAD_LETTERED"},
             NEW ok \in BOOLEAN, jobs' \in Outcomes(jobs, UpdateStatus(jobs, m, s), ok)
      PROVE  Kept
  <2>1. jobs' = jobs \/ jobs' = UpdateStatus(jobs, m, s)
    BY <1>1 DEF Outcomes
  <2>2. CASE jobs' = jobs
    BY <2>2
  <2>3. CASE jobs' = [jobs EXCEPT ![m].status = s]
    BY <1>0, <2>3 DEF JobRow
  <2> QED
    BY <2>1, <2>2, <2>3 DEF UpdateStatus
<1>2. ASSUME NEW r \in Replicas, SchedulerStep(r) PROVE Kept
  <2>1. CASE MarkPending(r)
    BY <1>1, <2>1 DEF MarkPending
  <2>2. CASE MarkDeadLettered(r)
    BY <1>1, <2>2 DEF MarkDeadLettered
  <2>3. CASE ~MarkPending(r) /\ ~MarkDeadLettered(r)
    BY <1>0, <1>2, <2>3 DEF SchedulerStep, Poll, ReEnqueue, DeadLetter, CountFailed, storeVars
  <2> QED
    BY <2>1, <2>2, <2>3
<1>3. ASSUME NEW r \in Replicas, WorkerStep(r) PROVE Kept
  <2>1. CASE Dispatch(r)
    BY <1>1, <2>1 DEF Dispatch
  <2>2. CASE Deliver(r)
    BY <1>1, <2>2 DEF Deliver
  <2>3. CASE StartDelivery(r) \/ CountDelivered(r)
    BY <1>0, <2>3 DEF StartDelivery, CountDelivered
  <2> QED
    BY <1>3, <2>1, <2>2, <2>3 DEF WorkerStep
<1>4. ASSUME NEW m \in Notifications, SendStep(m) PROVE Kept
  BY <1>0, <1>4 DEF SendStep, SendCreate, SendCount, SendPublish, Create, Outcomes, storeVars
<1>5. ASSUME NEW c \in Calls, ReplayLookup(c) \/ ReplayStep(c) PROVE Kept
  BY <1>0, <1>5 DEF ReplayLookup, ReplayStep, ReplayReset, ReplayPublish, ReplayDelete,
                    ReplayCount, ResetForReplay, Outcomes, storeVars
<1>6. ASSUME NEW m \in Notifications, DeliveryFails(m)
      PROVE  \/ Kept
             \/ DeliveryFails(n) /\ jobs'[n].retryCount = jobs[n].retryCount + 1
  <2>1. CASE m = n
    <3>1. jobs'[n].retryCount = jobs[n].retryCount + 1
      BY <1>0, <1>6, <2>1 DEF DeliveryFails, FailJob, Stored
    <3> QED
      BY <1>6, <2>1, <3>1
  <2>2. CASE m # n
    <3>1. jobs'[n] = jobs[n]
      BY <1>0, <1>6, <2>2 DEF DeliveryFails, FailJob
    <3> QED
      BY <3>1
  <2> QED
    BY <2>1, <2>2
<1>7. ASSUME NEW m \in Notifications, RetryFallsDue(m) PROVE Kept
  BY <1>0, <1>7 DEF RetryFallsDue, JobRow
<1>8. ASSUME NEW r \in Replicas, NEW m \in Notifications,
             LoseMessage(r, m) \/ Crash(r) \/ Restart(r)
      PROVE  Kept
  BY <1>0, <1>8 DEF LoseMessage, Crash, Restart, storeVars
<1>9. CASE UNCHANGED vars
  BY <1>0, <1>9 DEF vars
<1> QED
  BY <1>2, <1>3, <1>4, <1>5, <1>6, <1>7, <1>8, <1>9 DEF Next, ServerStep, Environment

\* Whose step changes the status of n.  UpdateStatus finds no row that is not
\* there; a send and a replay write the row themselves.
LEMMA StatusStep ==
    ASSUME TypeOK, [Next]_vars, NEW n \in Notifications, jobs'[n].status # jobs[n].status
    PROVE  \/ /\ Stored(jobs, n)
              /\ \/ jobs'[n].status = "DISPATCHED" /\ \E r \in Replicas : inbox[r][n] > 0
                 \/ jobs'[n].status = "DELIVERED"
                 \/ \E r \in Replicas : MarkPending(r) /\ sched[r].cur.job = n
                 \/ \E r \in Replicas : MarkDeadLettered(r) /\ sched[r].cur.job = n
                 \/ DeliveryFails(n)
           \/ SendCreate(n)
           \/ \E c \in Calls : ReplayReset(c) /\ replay[c].job = n
<1>0. jobs \in [Notifications -> JobRow]
  BY DEF TypeOK
<1>1. ASSUME NEW m, NEW s, NEW ok \in BOOLEAN, jobs' \in Outcomes(jobs, UpdateStatus(jobs, m, s), ok)
      PROVE  m = n /\ Stored(jobs, n) /\ jobs'[n].status = s
  <2>1. jobs' = UpdateStatus(jobs, m, s)
    BY <1>1 DEF Outcomes
  <2>2. jobs' = [jobs EXCEPT ![m].status = s] /\ Stored(jobs, m)
    BY <2>1 DEF UpdateStatus
  <2>3. m = n
    BY <1>0, <2>2
  <2>4. jobs'[n] = [jobs[n] EXCEPT !.status = s]
    BY <1>0, <2>2, <2>3
  <2>5. jobs'[n].status = s
    BY <1>0, <2>4 DEF JobRow
  <2> QED
    BY <2>2, <2>3, <2>5
<1>2. ASSUME NEW r \in Replicas, SchedulerStep(r)
      PROVE  /\ Stored(jobs, n) /\ sched[r].cur.job = n
             /\ MarkPending(r) \/ MarkDeadLettered(r)
  <2>1. CASE MarkPending(r)
    BY <1>1, <2>1 DEF MarkPending
  <2>2. CASE MarkDeadLettered(r)
    BY <1>1, <2>2 DEF MarkDeadLettered
  <2>3. CASE ~MarkPending(r) /\ ~MarkDeadLettered(r)
    BY <1>2, <2>3 DEF SchedulerStep, Poll, ReEnqueue, DeadLetter, CountFailed, storeVars
  <2> QED
    BY <2>1, <2>2, <2>3
<1>3. ASSUME NEW r \in Replicas, WorkerStep(r)
      PROVE  /\ Stored(jobs, n)
             /\ \/ jobs'[n].status = "DISPATCHED" /\ inbox[r][n] > 0
                \/ jobs'[n].status = "DELIVERED"
  <2>1. CASE Dispatch(r)
    <3>1. PICK m \in Notifications, ok \in BOOLEAN :
            inbox[r][m] > 0 /\ jobs' \in Outcomes(jobs, UpdateStatus(jobs, m, "DISPATCHED"), ok)
      BY <2>1 DEF Dispatch
    <3> QED
      BY <1>1, <3>1
  <2>2. CASE Deliver(r)
    BY <1>1, <2>2 DEF Deliver
  <2>3. CASE StartDelivery(r) \/ CountDelivered(r)
    BY <2>3 DEF StartDelivery, CountDelivered
  <2> QED
    BY <1>3, <2>1, <2>2, <2>3 DEF WorkerStep
<1>4. ASSUME NEW m \in Notifications, SendStep(m)
      PROVE  SendCreate(n)
  <2>1. SendCreate(m) /\ (jobs' = jobs \/ jobs' = Create(jobs, m))
    BY <1>4 DEF SendStep, SendCreate, SendCount, SendPublish, Outcomes, storeVars
  <2>2. m = n
    BY <1>0, <2>1 DEF Create
  <2> QED
    BY <2>1, <2>2
<1>5. ASSUME NEW c \in Calls, ReplayLookup(c) \/ ReplayStep(c)
      PROVE  ReplayReset(c) /\ replay[c].job = n
  <2>1. /\ ReplayReset(c)
        /\ jobs' = jobs \/ jobs' = ResetForReplay(jobs, replay[c].job)
    BY <1>5 DEF ReplayLookup, ReplayStep, ReplayReset, ReplayPublish, ReplayDelete, ReplayCount,
                Outcomes, storeVars
  <2> QED
    BY <1>0, <2>1 DEF ResetForReplay
<1>6. ASSUME NEW m \in Notifications, DeliveryFails(m)
      PROVE  DeliveryFails(n) /\ Stored(jobs, n)
  BY <1>0, <1>6 DEF DeliveryFails, FailJob, Stored
<1>7. ASSUME NEW m \in Notifications, RetryFallsDue(m) PROVE FALSE
  BY <1>0, <1>7 DEF RetryFallsDue, JobRow
<1>8. ASSUME NEW r \in Replicas, NEW m \in Notifications,
             LoseMessage(r, m) \/ Crash(r) \/ Restart(r)
      PROVE  FALSE
  BY <1>8 DEF LoseMessage, Crash, Restart, storeVars
<1>9. ~UNCHANGED vars
  BY DEF vars
<1> QED
  BY <1>2, <1>3, <1>4, <1>5, <1>6, <1>7, <1>8, <1>9 DEF Next, ServerStep, Environment

\* A send that was made is never made again.
LEMMA SendStays ==
    ASSUME TypeOK, [Next]_vars, NEW n \in Notifications, send'[n].pc = "idle"
    PROVE  send[n].pc = "idle"
<1>0. send \in [Notifications -> SendCall]
  BY DEF TypeOK
<1>1. CASE \E m \in Notifications : SendStep(m)
  BY <1>0, <1>1 DEF SendStep, SendCreate, SendCount, SendPublish, SendCall
<1>2. CASE \E r \in Replicas : Crash(r)
  BY <1>2 DEF Crash
<1>3. ASSUME NEW c \in Calls, ReplayLookup(c) \/ ReplayStep(c) PROVE send' = send
  BY <1>3 DEF ReplayLookup, ReplayStep, ReplayReset, ReplayPublish, ReplayDelete, ReplayCount
<1>4. ASSUME NEW r \in Replicas, Restart(r) PROVE send' = send
  BY <1>4 DEF Restart, serverVars
<1> QED
  BY <1>1, <1>2, <1>3, <1>4, CallsLeft DEF ServerStep
=============================================================================
