-------------------------- MODULE PipelineHistory ---------------------------
(***************************************************************************)
(* Pipeline with history variables, for properties that relate a state to  *)
(* what happened before it.  The history observes the steps of Pipeline    *)
(* and never constrains them.                                              *)
(***************************************************************************)
EXTENDS Pipeline, Integers, FiniteSetsExt

VARIABLES
    exhaustions,  \* exhaustions[s]: failures that used up a retry budget of service s
    unanswered,   \* notifications whose last such failure nothing has followed up
    republished,  \* notifications published since their dead letter was inserted
    outdated,     \* schedulers whose job's row was written since they published it
    overtaken     \* notifications a later write of PENDING hid the status of

historyVars == <<exhaustions, unanswered, republished, outdated, overtaken>>
allVars == <<vars, historyVars>>

HInit ==
    /\ Init
    /\ exhaustions = [s \in Services |-> 0]
    /\ unanswered = {}
    /\ republished = {}
    /\ outdated = {}
    /\ overtaken = {}

\* The notifications whose failure, in this step, exhausts their attempts.
Exhausted ==
    {n \in Notifications : /\ failures' # failures
                           /\ jobs'[n] # jobs[n]
                           /\ ~ShouldRetry(jobs'[n].retryCount)}

Published ==
    {n \in Notifications : \E r \in Replicas : inbox'[r][n] > inbox[r][n]}

\* A worker takes the job up, or a delivery of it succeeds.
Attempted ==
    {n \in Notifications : /\ jobs'[n].status # jobs[n].status
                           /\ jobs'[n].status \in {"DISPATCHED", "DELIVERED"}}

\* r stands between its publish and its write of PENDING, before and after.
StillToMark(r) == sched[r].pc = "markPending" /\ sched'[r].pc = "markPending"

\* A scheduler writes PENDING over a row that was written since its publish.
Overtaken ==
    {n \in Notifications :
        /\ jobs[n].status # "PENDING"
        /\ jobs'[n].status = "PENDING"
        /\ \E r \in outdated : MarkPending(r) /\ sched[r].cur.job = n}

FreshlyDeadLettered == {l.job : l \in letters'.rows \ letters.rows}

HNext ==
    /\ Next
    /\ exhaustions' = [s \in Services |->
                        exhaustions[s] + Cardinality({n \in Exhausted : Owner[n] = s})]
    /\ unanswered' = (unanswered \cup Exhausted) \ (Published \cup Attempted)
    /\ republished' = (republished \cup Published) \ FreshlyDeadLettered
    /\ outdated' =
        {r \in Replicas : /\ StillToMark(r)
                          /\ \/ r \in outdated
                             \/ jobs'[sched[r].cur.job] # jobs[sched[r].cur.job]}
    /\ overtaken' =
        (overtaken \cup Overtaken)
            \ (Published \cup {n \in Notifications : jobs'[n].status # "PENDING"})

HSpec == HInit /\ [][HNext]_allVars

FairHSpec == HSpec /\ Fairness

----------------------------------------------------------------------------
(* Properties                                                              *)

\* A failure that used up the retry budget is never silently dropped: until
\* the notification is published or attempted again, the scheduler still sees
\* its job as FAILED or an operator sees its dead letter (scheduler.go:149-185,
\* notify.go:326-361).
NoFailureLost ==
    \A n \in unanswered :
        jobs[n].status = "FAILED" \/ LettersOf(letters, n) # {}

\* No error, no crash and no race of two passes drops such a failure: it goes
\* out of sight only under a PENDING that was written after the worker had
\* taken up the retry (scheduler.go:134-143).
LostOnlyOvertaken ==
    \A n \in unanswered :
        jobs[n].status = "FAILED" \/ LettersOf(letters, n) # {} \/ n \in overtaken

\* As long as no fault occurs, an acknowledged notification stands still on
\* the way only under such a PENDING, however many attempts there are
\* (notify.go:144-195, worker.go:27-66, scheduler.go:106-143).
StrandedOnlyOvertaken ==
    faults = 0 => \A n \in Notifications : Stranded(n) => n \in overtaken

\* A job that entered the pipeline, by a send, a retry or a replay, reaches a
\* status at which a delivery attempt ended, unless a fault occurs or PENDING
\* is written after the worker took the retry up (notify.go:144-195 and 353,
\* worker.go:27-66, scheduler.go:106-143).
SettledUnlessOvertaken ==
    \A n \in Notifications :
        jobs[n].status \in {"ACCEPTED", "PENDING", "DISPATCHED"}
            ~> \/ jobs[n].status \in {"DELIVERED", "FAILED", "DEAD_LETTERED"}
               \/ n \in overtaken
               \/ faults > 0

\* The FAILED statistic of a service is not inflated: a process counts an
\* exhausted retry budget at most once, even when its pass is cut short and
\* repeated or works on an old snapshot (scheduler.go:149-185).
FailedCountedOnce ==
    \A s \in Services : stats[s]["FAILED"] <= Cardinality(Replicas) * exhaustions[s]

\* A dead letter is removed only after its notification was published again
\* since the letter was written: a replay that fails half way can be repeated
\* (notify.go:326-361).
RemovedOnlyOnceRepublished ==
    [][\A l \in letters.rows \ letters'.rows : l.job \in republished]_allVars

\* A replay does not remove the only record of a later failure: when a letter
\* goes, the last exhausted budget of its notification was followed up, or its
\* job is still FAILED for the scheduler to see (notify.go:326-358).
RemovedOnlyWhenAnswered ==
    [][\A l \in letters.rows \ letters'.rows :
        l.job \in unanswered => jobs[l.job].status = "FAILED"]_allVars

Total(f, S) == MapThenSumSet(LAMBDA x : f[x], S)

\* The delivery goroutines for s that have not counted yet, per process and job.
Flights(s) == Replicas \X {n \in Notifications : Owner[n] = s}
Unsettled(s) == [p \in Flights(s) |-> delivering[p[1]][p[2]] + counting[p[1]][p[2]]]

\* The dispatches counted for s without a counted delivery or a goroutine that
\* is still to count.
Balance(s) ==
    stats[s]["DISPATCHED"] - stats[s]["DELIVERED"] - Total(Unsettled(s), Flights(s))

\* Whatever runs concurrently, only a fault, a crash or a failed IncrementStats,
\* disturbs the account of a service's dispatches and deliveries
\* (worker.go:43-62).
BalancedButForFaults ==
    [][\A s \in Services : faults' = faults => Balance(s)' = Balance(s)]_vars
=============================================================================
