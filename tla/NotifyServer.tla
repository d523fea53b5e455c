---------------------------- MODULE NotifyServer ----------------------------
(***************************************************************************)
(* The gRPC handlers of internal/server/notify.go that change the          *)
(* pipeline: SendNotification and ReplayDeadLetter.  A handler runs on one *)
(* replica and dies with it; its statements are steps of their own.        *)
(***************************************************************************)
EXTENDS PipelineState

----------------------------------------------------------------------------
(* SendNotification: create, count, publish                                *)

\* The row is inserted as ACCEPTED under a fresh UUID.
SendCreate(n) ==
    /\ send[n].pc = "idle"
    /\ \E r \in Replicas, ok \in BOOLEAN :
        /\ up[r]
        /\ Call(ok)
        /\ jobs' \in Outcomes(jobs, Create(jobs, n), ok)
        /\ send' = [send EXCEPT ![n] = IF ok THEN [pc |-> "count", at |-> r]
                                             ELSE [pc |-> "failed", at |-> None]]
    /\ UNCHANGED <<letters, stats, up, inbox, workerVars, sched, replay, failures>>

SendCount(n) ==
    /\ send[n].pc = "count"
    /\ Count(n, "ACCEPTED")
    /\ send' = [send EXCEPT ![n].pc = "publish"]
    /\ UNCHANGED <<jobs, letters, up, inbox, workerVars, sched, replay, failures>>

\* An error here answers Internal and leaves the row ACCEPTED.
SendPublish(n) ==
    /\ send[n].pc = "publish"
    /\ \E ok \in BOOLEAN :
        /\ Publish(n, ok)
        /\ send' = [send EXCEPT ![n] = [pc |-> IF ok THEN "done" ELSE "failed", at |-> None]]
    /\ UNCHANGED <<storeVars, up, workerVars, sched, replay, failures>>

----------------------------------------------------------------------------
(* ReplayDeadLetter: load, check the owner, reset, publish, delete, count  *)

\* Where a replay goes after a call: on, or back to the caller with Internal.
ReplayTo(c, pc, ok) ==
    replay' = [replay EXCEPT ![c] = IF ok THEN [@ EXCEPT !.pc = pc] ELSE NoReplay]

\* A caller that owns the letter it names gets past the checks.  (An unknown
\* ID, another service's letter and a failed read return without a change.)
ReplayLookup(c) ==
    /\ replay[c].pc = "idle"
    /\ \E r \in Replicas, svc \in Services, id \in 1..letters.inserted :
        /\ up[r]
        /\ \E l \in GetByID(letters, id) :
            /\ Owner[l.job] = svc
            /\ replay' = [replay EXCEPT ![c] = [pc |-> "reset", at |-> r, job |-> l.job]]
    /\ UNCHANGED <<storeVars, up, inbox, workerVars, sched, send, faults, failures>>

ReplayReset(c) ==
    /\ replay[c].pc = "reset"
    /\ \E ok \in BOOLEAN :
        /\ Call(ok)
        /\ jobs' \in Outcomes(jobs, ResetForReplay(jobs, replay[c].job), ok)
        /\ ReplayTo(c, "publish", ok)
    /\ UNCHANGED <<letters, stats, up, inbox, workerVars, sched, send, failures>>

\* Mutated form of ReplayPublish: a failed publish does not end the call.
ReplayPublishIgnoringError(c) ==
    /\ replay[c].pc = "publish"
    /\ \E ok \in BOOLEAN :
        /\ Publish(replay[c].job, ok)
        /\ ReplayTo(c, "delete", TRUE)
    /\ UNCHANGED <<storeVars, up, workerVars, sched, send, failures>>

ReplayPublish(c) ==
    /\ replay[c].pc = "publish"
    /\ \E ok \in BOOLEAN :
        /\ Publish(replay[c].job, ok)
        /\ ReplayTo(c, "delete", ok)
    /\ UNCHANGED <<storeVars, up, workerVars, sched, send, failures>>

ReplayDelete(c) ==
    /\ replay[c].pc = "delete"
    /\ \E ok \in BOOLEAN :
        /\ Call(ok)
        /\ letters' \in Outcomes(letters, DeleteByNotificationID(letters, replay[c].job), ok)
        /\ ReplayTo(c, "count", ok)
    /\ UNCHANGED <<jobs, stats, up, inbox, workerVars, sched, send, failures>>

ReplayCount(c) ==
    /\ replay[c].pc = "count"
    /\ Count(replay[c].job, "ACCEPTED")
    /\ replay' = [replay EXCEPT ![c] = NoReplay]
    /\ UNCHANGED <<jobs, letters, up, inbox, workerVars, sched, send, failures>>

SendStep(n) == SendCreate(n) \/ SendCount(n) \/ SendPublish(n)

ReplayStep(c) ==
    \/ ReplayReset(c)
    \/ ReplayPublish(c)
    \/ ReplayDelete(c)
    \/ ReplayCount(c)

ServerStep ==
    \/ \E n \in Notifications : SendStep(n)
    \/ \E c \in Calls : ReplayLookup(c) \/ ReplayStep(c)
=============================================================================
