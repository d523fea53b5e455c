----------------------------- MODULE JobWorker ------------------------------
(***************************************************************************)
(* The job worker (internal/worker/worker.go).  NATS runs the callback of  *)
(* one subscription for one message at a time; every accepted message      *)
(* leaves a goroutine behind that delivers it a second later.              *)
(***************************************************************************)
EXTENDS PipelineState

\* Mutated form of Dispatch: only a job that was never touched is taken up.
DispatchFirstTime(r) ==
    /\ up[r]
    /\ working[r] = None
    /\ \E n \in Notifications, ok \in BOOLEAN :
        /\ inbox[r][n] > 0
        /\ inbox' = [inbox EXCEPT ![r][n] = @ - 1]
        /\ Call(ok)
        /\ IF jobs[n].status = "ACCEPTED"
           THEN /\ jobs' \in Outcomes(jobs, UpdateStatus(jobs, n, "DISPATCHED"), ok)
                /\ working' = [working EXCEPT ![r] = IF ok THEN n ELSE None]
           ELSE UNCHANGED <<jobs, working>>
    /\ UNCHANGED <<letters, stats, up, delivering, counting, sched, serverVars, failures>>

\* The callback takes a message and marks its job DISPATCHED.  On an error
\* the callback returns, and core NATS does not deliver the message again.
Dispatch(r) ==
    /\ up[r]
    /\ working[r] = None
    /\ \E n \in Notifications, ok \in BOOLEAN :
        /\ inbox[r][n] > 0
        /\ inbox' = [inbox EXCEPT ![r][n] = @ - 1]
        /\ Call(ok)
        /\ jobs' \in Outcomes(jobs, UpdateStatus(jobs, n, "DISPATCHED"), ok)
        /\ working' = [working EXCEPT ![r] = IF ok THEN n ELSE None]
    /\ UNCHANGED <<letters, stats, up, delivering, counting, sched, serverVars, failures>>

\* Mutated form of StartDelivery: one delivery per job is remembered, the
\* dispatch is counted all the same.
StartDeliveryOnce(r) ==
    /\ up[r]
    /\ working[r] # None
    /\ Count(working[r], "DISPATCHED")
    /\ delivering' = [delivering EXCEPT ![r][working[r]] = 1]
    /\ working' = [working EXCEPT ![r] = None]
    /\ UNCHANGED <<jobs, letters, up, inbox, counting, sched, serverVars, failures>>

\* The rest of the callback: count the dispatch and start the delivery.
StartDelivery(r) ==
    /\ up[r]
    /\ working[r] # None
    /\ Count(working[r], "DISPATCHED")
    /\ delivering' = [delivering EXCEPT ![r][working[r]] = @ + 1]
    /\ working' = [working EXCEPT ![r] = None]
    /\ UNCHANGED <<jobs, letters, up, inbox, counting, sched, serverVars, failures>>

\* Mutated form of Deliver: only a job still DISPATCHED is marked.
DeliverIfDispatched(r) ==
    /\ up[r]
    /\ \E n \in Notifications, ok \in BOOLEAN :
        /\ delivering[r][n] > 0
        /\ delivering' = [delivering EXCEPT ![r][n] = @ - 1]
        /\ counting' = [counting EXCEPT ![r][n] = @ + 1]
        /\ Call(ok)
        /\ IF jobs[n].status = "DISPATCHED"
           THEN jobs' \in Outcomes(jobs, UpdateStatus(jobs, n, "DELIVERED"), ok)
           ELSE jobs' = jobs
    /\ UNCHANGED <<letters, stats, up, inbox, working, sched, serverVars, failures>>

\* A delivery goroutine wakes up and marks the job DELIVERED, error or not.
Deliver(r) ==
    /\ up[r]
    /\ \E n \in Notifications, ok \in BOOLEAN :
        /\ delivering[r][n] > 0
        /\ delivering' = [delivering EXCEPT ![r][n] = @ - 1]
        /\ counting' = [counting EXCEPT ![r][n] = @ + 1]
        /\ Call(ok)
        /\ jobs' \in Outcomes(jobs, UpdateStatus(jobs, n, "DELIVERED"), ok)
    /\ UNCHANGED <<letters, stats, up, inbox, working, sched, serverVars, failures>>

\* The goroutine's last statement.
CountDelivered(r) ==
    /\ up[r]
    /\ \E n \in Notifications :
        /\ counting[r][n] > 0
        /\ counting' = [counting EXCEPT ![r][n] = @ - 1]
        /\ Count(n, "DELIVERED")
    /\ UNCHANGED <<jobs, letters, up, inbox, working, delivering, sched, serverVars, failures>>

WorkerStep(r) ==
    \/ Dispatch(r)
    \/ StartDelivery(r)
    \/ Deliver(r)
    \/ CountDelivered(r)
=============================================================================
