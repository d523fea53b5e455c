--------------------------- MODULE PipelineState ----------------------------
(***************************************************************************)
(* The state shared by the parts of the notification pipeline that         *)
(* cmd/server/main.go wires into one process: the gRPC handlers, the job   *)
(* worker and the retry scheduler, all over one PostgreSQL database and    *)
(* one core-NATS subject.  Several replicas of that process may run.       *)
(***************************************************************************)
EXTENDS JobStore, DeadLetterStore

CONSTANTS
    Notifications,  \* notification IDs the servers may hand out
    Services,       \* registered services
    Owner,          \* the service each notification is sent for
    Replicas,       \* server processes
    Calls,          \* ReplayDeadLetter calls that may be in progress at once
    None,           \* no notification, no replica
    MaxAttempts,    \* retry.Config.MaxAttempts
    BatchLimit,     \* the LIMIT of the scheduler's poll
    MaxFaults,      \* bound: faults of the environment in one behaviour
    MaxFailures     \* bound: FailJob statements in one behaviour

ASSUME ConstantsAssumption ==
    /\ Owner \in [Notifications -> Services]
    /\ None \notin Notifications \cup Replicas
    /\ MaxAttempts \in Nat \ {0}    \* a fresh job always has a retry left
    /\ BatchLimit \in Nat \ {0}
    /\ MaxFaults \in Nat
    /\ MaxFailures \in Nat

VARIABLES
    jobs,        \* notification_jobs
    letters,     \* dead_letters
    stats,       \* notification_stats
    up,          \* up[r]: replica r is running
    inbox,       \* inbox[r][n]: messages for n on their way to r's subscription
    working,     \* working[r]: the message r's subscription callback is handling
    delivering,  \* delivering[r][n]: delivery goroutines of r asleep
    counting,    \* counting[r][n]: delivery goroutines of r past their UpdateStatus
    sched,       \* sched[r]: r's scheduler goroutine
    send,        \* send[n]: the SendNotification call that creates n
    replay,      \* replay[c]: the ReplayDeadLetter call c
    faults,      \* faults so far
    failures     \* FailJob statements so far

storeVars  == <<jobs, letters, stats>>
workerVars == <<working, delivering, counting>>
serverVars == <<send, replay>>
vars == <<jobs, letters, stats, up, inbox, working, delivering, counting,
          sched, send, replay, faults, failures>>

----------------------------------------------------------------------------
(* Types and idle values                                                   *)

\* A job row as the scheduler read it at its last poll.
Snapshot == [job : Notifications, retryCount : Nat]
NoSnapshot == [job |-> None, retryCount |-> 0]

\* The goroutine holds a job exactly while it is inside the pass over it.
Scheduler ==
    [pc : {"loop"}, batch : SUBSET Snapshot, cur : {NoSnapshot}]
        \cup [pc : {"markPending", "markDead", "count"}, batch : SUBSET Snapshot, cur : Snapshot]
IdleScheduler == [pc |-> "loop", batch |-> {}, cur |-> NoSnapshot]

SendCall ==
    [pc : {"idle", "done", "failed"}, at : {None}] \cup [pc : {"count", "publish"}, at : Replicas]

NoReplay == [pc |-> "idle", at |-> None, job |-> None]
ReplayCall ==
    {NoReplay} \cup
        [pc : {"reset", "publish", "delete", "count"}, at : Replicas, job : Notifications]

Bag == [Replicas -> [Notifications -> Nat]]
EmptyBag == [r \in Replicas |-> [n \in Notifications |-> 0]]

\* Every variable holds a value of its type.
TypeOK ==
    /\ jobs \in [Notifications -> JobRow]
    /\ letters \in [rows : SUBSET Letter(Notifications), inserted : Nat]
    /\ stats \in [Services -> [StatStatuses -> Nat]]
    /\ up \in [Replicas -> BOOLEAN]
    /\ inbox \in Bag
    /\ working \in [Replicas -> Notifications \cup {None}]
    /\ delivering \in Bag
    /\ counting \in Bag
    /\ sched \in [Replicas -> Scheduler]
    /\ send \in [Notifications -> SendCall]
    /\ replay \in [Calls -> ReplayCall]
    /\ faults \in 0..MaxFaults
    /\ failures \in 0..MaxFailures

Init ==
    /\ jobs = [n \in Notifications |-> NoRow]
    /\ letters = EmptyTable
    /\ stats = [s \in Services |-> [k \in StatStatuses |-> 0]]
    /\ up = [r \in Replicas |-> TRUE]
    /\ inbox = EmptyBag
    /\ working = [r \in Replicas |-> None]
    /\ delivering = EmptyBag
    /\ counting = EmptyBag
    /\ sched = [r \in Replicas |-> IdleScheduler]
    /\ send = [n \in Notifications |-> [pc |-> "idle", at |-> None]]
    /\ replay = [c \in Calls |-> NoReplay]
    /\ faults = 0
    /\ failures = 0

----------------------------------------------------------------------------
(* Calls to the database and to NATS                                       *)

\* One call to an external system, which returns an error (ok = FALSE) only
\* at the price of a fault.
Call(ok) ==
    /\ ok \/ faults < MaxFaults
    /\ faults' = IF ok THEN faults ELSE faults + 1

\* What a statement may leave in a table: an error does not say whether the
\* statement was applied before the connection broke.
Outcomes(old, new, ok) == IF ok THEN {new} ELSE {old, new}

\* nc.Publish: core NATS, so every subscribed process gets the message and a
\* process that is not running never will.  A failed Publish sends nothing.
Publish(n, ok) ==
    /\ Call(ok)
    /\ inbox' = [r \in Replicas |->
                    IF ok /\ up[r] THEN [inbox[r] EXCEPT ![n] = @ + 1] ELSE inbox[r]]

\* The best-effort IncrementStats calls: every caller carries on after an error.
Count(n, status) ==
    \E ok \in BOOLEAN :
        /\ Call(ok)
        /\ stats' \in Outcomes(stats, IncrementStats(stats, Owner[n], status), ok)
=============================================================================
