--------------------------- MODULE RetryScheduler ---------------------------
(***************************************************************************)
(* The retry scheduler (internal/retry/scheduler.go): one goroutine per    *)
(* replica that polls the due FAILED jobs and, for each row of that        *)
(* snapshot, either re-enqueues the job or dead-letters it.  Every         *)
(* statement and publish is a step of its own; the rows of a batch are     *)
(* handled from the snapshot, however old it has become.                   *)
(***************************************************************************)
EXTENDS PipelineState

ShouldRetry(attempt) == attempt < MaxAttempts

Idle(r) == up[r] /\ sched[r].pc = "loop"

\* The goroutine is done with the current job.
Continue(r) == [pc |-> "loop", batch |-> sched[r].batch, cur |-> NoSnapshot]

\* Takes s off the batch and goes on at pc, or with the next job after an error.
Take(r, s, pc, ok) ==
    IF ok THEN [pc |-> pc, batch |-> sched[r].batch \ {s}, cur |-> s]
          ELSE [sched[r] EXCEPT !.batch = @ \ {s}]

----------------------------------------------------------------------------

\* A tick of the poll loop that finds work.  (An error or an empty result
\* returns at once and changes nothing.)
Poll(r) ==
    /\ Idle(r)
    /\ sched[r].batch = {}
    /\ \E ok \in BOOLEAN :
        /\ Call(ok)
        /\ \E batch \in GetRetryableJobs(jobs, BatchLimit, ~ok) :
            /\ batch # {}
            /\ sched' = [sched EXCEPT ![r].batch =
                            {[job |-> n, retryCount |-> jobs[n].retryCount] : n \in batch}]
    /\ UNCHANGED <<storeVars, up, inbox, workerVars, serverVars, failures>>

\* A job with attempts left is published; if that fails it is left FAILED.
ReEnqueue(r) ==
    /\ Idle(r)
    /\ \E s \in sched[r].batch, ok \in BOOLEAN :
        /\ ShouldRetry(s.retryCount)
        /\ Publish(s.job, ok)
        /\ sched' = [sched EXCEPT ![r] = Take(r, s, "markPending", ok)]
    /\ UNCHANGED <<storeVars, up, workerVars, serverVars, failures>>

\* UpdateStatus(PENDING) after the publish; an error is only logged.
MarkPending(r) ==
    /\ up[r] /\ sched[r].pc = "markPending"
    /\ \E ok \in BOOLEAN :
        /\ Call(ok)
        /\ jobs' \in Outcomes(jobs, UpdateStatus(jobs, sched[r].cur.job, "PENDING"), ok)
    /\ sched' = [sched EXCEPT ![r] = Continue(r)]
    /\ UNCHANGED <<letters, stats, up, inbox, workerVars, serverVars, failures>>

\* Mutated form of DeadLetter: a plain INSERT, whose conflict is an error.
DeadLetterPlainInsert(r) ==
    /\ Idle(r)
    /\ \E s \in sched[r].batch, ok \in BOOLEAN :
        /\ ~ShouldRetry(s.retryCount)
        /\ Call(ok)
        /\ letters' \in Outcomes(letters, CreateLetter(letters, s.job, s.retryCount), ok)
        /\ sched' = [sched EXCEPT ![r] =
                        Take(r, s, "markDead", ok /\ LettersOf(letters, s.job) = {})]
    /\ UNCHANGED <<jobs, stats, up, inbox, workerVars, serverVars, failures>>

\* Mutated form of DeadLetter: an insert error is logged and not returned.
DeadLetterIgnoringError(r) ==
    /\ Idle(r)
    /\ \E s \in sched[r].batch, ok \in BOOLEAN :
        /\ ~ShouldRetry(s.retryCount)
        /\ Call(ok)
        /\ letters' \in Outcomes(letters, CreateLetter(letters, s.job, s.retryCount), ok)
        /\ sched' = [sched EXCEPT ![r] = Take(r, s, "markDead", TRUE)]
    /\ UNCHANGED <<jobs, stats, up, inbox, workerVars, serverVars, failures>>

\* deadLetterJob, first statement: insert the dead letter.
DeadLetter(r) ==
    /\ Idle(r)
    /\ \E s \in sched[r].batch, ok \in BOOLEAN :
        /\ ~ShouldRetry(s.retryCount)
        /\ Call(ok)
        /\ letters' \in Outcomes(letters, CreateLetter(letters, s.job, s.retryCount), ok)
        /\ sched' = [sched EXCEPT ![r] = Take(r, s, "markDead", ok)]
    /\ UNCHANGED <<jobs, stats, up, inbox, workerVars, serverVars, failures>>

\* Mutated form of MarkDeadLettered: the failure is counted after an error too.
MarkDeadLetteredIgnoringError(r) ==
    /\ up[r] /\ sched[r].pc = "markDead"
    /\ \E ok \in BOOLEAN :
        /\ Call(ok)
        /\ jobs' \in Outcomes(jobs, UpdateStatus(jobs, sched[r].cur.job, "DEAD_LETTERED"), ok)
        /\ sched' = [sched EXCEPT ![r].pc = "count"]
    /\ UNCHANGED <<letters, stats, up, inbox, workerVars, serverVars, failures>>

\* deadLetterJob, second statement: mark the job DEAD_LETTERED.
MarkDeadLettered(r) ==
    /\ up[r] /\ sched[r].pc = "markDead"
    /\ \E ok \in BOOLEAN :
        /\ Call(ok)
        /\ jobs' \in Outcomes(jobs, UpdateStatus(jobs, sched[r].cur.job, "DEAD_LETTERED"), ok)
        /\ sched' = [sched EXCEPT ![r] = IF ok THEN [@ EXCEPT !.pc = "count"] ELSE Continue(r)]
    /\ UNCHANGED <<letters, stats, up, inbox, workerVars, serverVars, failures>>

\* deadLetterJob, last statement: count the failure.
CountFailed(r) ==
    /\ up[r] /\ sched[r].pc = "count"
    /\ Count(sched[r].cur.job, "FAILED")
    /\ sched' = [sched EXCEPT ![r] = Continue(r)]
    /\ UNCHANGED <<jobs, letters, up, inbox, workerVars, serverVars, failures>>

SchedulerStep(r) ==
    \/ Poll(r)
    \/ ReEnqueue(r)
    \/ MarkPending(r)
    \/ DeadLetter(r)
    \/ MarkDeadLettered(r)
    \/ CountFailed(r)
=============================================================================
