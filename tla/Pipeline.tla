------------------------------ MODULE Pipeline ------------------------------
(***************************************************************************)
(* The wired server process: handlers, worker and scheduler of every       *)
(* replica over one database and one NATS subject, in an environment where *)
(* deliveries fail, processes crash and restart, messages are lost and     *)
(* calls return errors.                                                    *)
(***************************************************************************)
EXTENDS RetryScheduler, JobWorker, NotifyServer

----------------------------------------------------------------------------
(* The environment                                                         *)

\* A delivery that turns out to have failed.  Nothing in the wired process
\* calls FailJob yet; the simulated delivery always ends in DELIVERED, and a
\* failure strikes from there, the way the end-to-end tests inject it.
DeliveryFails(n) ==
    /\ failures < MaxFailures
    /\ jobs[n].status = "DELIVERED"
    /\ jobs' = FailJob(jobs, n, "future")
    /\ failures' = failures + 1
    /\ UNCHANGED <<letters, stats, up, inbox, workerVars, sched, serverVars, faults>>

\* next_retry_at passes.
RetryFallsDue(n) ==
    /\ jobs[n].nextRetryAt = "future"
    /\ jobs' = [jobs EXCEPT ![n].nextRetryAt = "past"]
    /\ UNCHANGED <<letters, stats, up, inbox, workerVars, sched, serverVars, faults, failures>>

\* Core NATS drops a message (slow consumer, lost connection).
LoseMessage(r, n) ==
    /\ Call(FALSE)
    /\ inbox[r][n] > 0
    /\ inbox' = [inbox EXCEPT ![r][n] = @ - 1]
    /\ UNCHANGED <<storeVars, up, workerVars, sched, serverVars, failures>>

\* A process dies: its subscription, goroutines and handlers are gone.
Crash(r) ==
    /\ Call(FALSE)
    /\ up[r]
    /\ up' = [up EXCEPT ![r] = FALSE]
    /\ inbox' = [inbox EXCEPT ![r] = [n \in Notifications |-> 0]]
    /\ working' = [working EXCEPT ![r] = None]
    /\ delivering' = [delivering EXCEPT ![r] = [n \in Notifications |-> 0]]
    /\ counting' = [counting EXCEPT ![r] = [n \in Notifications |-> 0]]
    /\ sched' = [sched EXCEPT ![r] = IdleScheduler]
    /\ send' = [n \in Notifications |->
                    IF send[n].at = r THEN [pc |-> "failed", at |-> None] ELSE send[n]]
    /\ replay' = [c \in Calls |-> IF replay[c].at = r THEN NoReplay ELSE replay[c]]
    /\ UNCHANGED <<storeVars, failures>>

\* main(): scheduler and subscription start from nothing.
Restart(r) ==
    /\ ~up[r]
    /\ up' = [up EXCEPT ![r] = TRUE]
    /\ UNCHANGED <<storeVars, inbox, workerVars, sched, serverVars, faults, failures>>

Environment ==
    \/ \E n \in Notifications : DeliveryFails(n) \/ RetryFallsDue(n)
    \/ \E r \in Replicas, n \in Notifications : LoseMessage(r, n)
    \/ \E r \in Replicas : Crash(r) \/ Restart(r)

----------------------------------------------------------------------------

Next ==
    \/ \E r \in Replicas : SchedulerStep(r) \/ WorkerStep(r)
    \/ ServerStep
    \/ Environment

Spec == Init /\ [][Next]_vars

\* Running goroutines are scheduled, started handlers carry on, time passes
\* and a dead process is restarted.  No client and no fault is obliged to act.
Fairness ==
    /\ \A r \in Replicas :
        /\ WF_vars(SchedulerStep(r))
        /\ WF_vars(Dispatch(r) \/ StartDelivery(r))
        /\ WF_vars(Deliver(r))
        /\ WF_vars(CountDelivered(r))
        /\ WF_vars(Restart(r))
    /\ \A n \in Notifications :
        /\ WF_vars(SendCount(n) \/ SendPublish(n))
        /\ WF_vars(RetryFallsDue(n))
    /\ \A c \in Calls : WF_vars(ReplayStep(c))

FairSpec == Spec /\ Fairness

----------------------------------------------------------------------------
(* Properties                                                              *)

\* The dead-letter table never holds two rows for one notification, however
\* schedulers, retried inserts and replays interleave (dead_letter.go:26).
OneDeadLetterPerNotification ==
    \A k, l \in letters.rows : k.job = l.job => k = l

\* A job reported as DEAD_LETTERED can be found in the dead-letter table: the
\* insert precedes the status write, across errors and crashes in between
\* (scheduler.go:149-185).
DeadLetteredIsInspectable ==
    \A n \in Notifications :
        jobs[n].status = "DEAD_LETTERED" => LettersOf(letters, n) # {}

\* Something on its way that will still write the status of n: a message, the
\* callback, a delivery, or the replay that is about to publish it.
InFlight(n) ==
    \/ \E r \in Replicas :
        \/ inbox[r][n] > 0
        \/ working[r] = n
        \/ delivering[r][n] > 0
    \/ \E c \in Calls : replay[c].job = n /\ replay[c].pc = "publish"

\* A notification whose send was answered with its ID, and which nothing will
\* move on: ACCEPTED, PENDING and DISPATCHED rows are picked up by no poll
\* (GetRetryableJobs reads FAILED only, job.go:122).
Stranded(n) ==
    /\ send[n].pc = "done"
    /\ jobs[n].status \in {"ACCEPTED", "PENDING", "DISPATCHED"}
    /\ ~InFlight(n)

\* An acknowledged notification is delivered reliably, that is, it is never
\* abandoned on the way (notify.go:144-195, worker.go:27-66).
NeverStranded == \A n \in Notifications : ~Stranded(n)

\* An acknowledged notification is abandoned only in a step that is a fault, or
\* by the scheduler's own write of PENDING, which comes after the publish and
\* may overwrite what the worker wrote since (scheduler.go:134-143).  Every
\* other hand-over, between handlers, workers and replays of all processes,
\* keeps the notification on its way.
StrandedOnlyByFaults ==
    [][\A n \in Notifications :
        ~Stranded(n) /\ Stranded(n)' =>
            \/ faults' # faults
            \/ \E r \in Replicas : MarkPending(r) /\ sched[r].cur.job = n]_vars

\* A job is declared DEAD_LETTERED only while it is FAILED: a pass over an old
\* snapshot does not overwrite a job that was replayed in the meantime
\* (scheduler.go:177).
OnlyFailedIsDeadLettered ==
    [][\A n \in Notifications :
        jobs'[n].status = "DEAD_LETTERED" /\ jobs[n].status # "DEAD_LETTERED"
            => jobs[n].status = "FAILED"]_vars

\* A FAILED job does not stay FAILED: whatever error or crash interrupts a
\* pass, a later poll takes the job up again (scheduler.go:106-185).
FailedIsHandled ==
    \A n \in Notifications : jobs[n].status = "FAILED" ~> jobs[n].status # "FAILED"
=============================================================================
