------------------------------ MODULE JobStore ------------------------------
(***************************************************************************)
(* The notification_jobs and notification_stats tables                     *)
(* (internal/store/postgres/job.go), one operator per SQL statement.       *)
(*                                                                         *)
(* A jobs table is a function from notification IDs to rows; a row whose   *)
(* status is "NONE" is not in the table.  next_retry_at is kept only up to *)
(* what the statements distinguish: NULL, still ahead, or already due.     *)
(* Statistics are summed over hour buckets, as GetStats reports them.      *)
(***************************************************************************)
EXTENDS Naturals, FiniteSets

JobStatuses ==
    {"ACCEPTED", "PENDING", "DISPATCHED", "DELIVERED", "FAILED", "DEAD_LETTERED"}

StatStatuses == {"ACCEPTED", "DISPATCHED", "DELIVERED", "FAILED"}

JobRow == [status      : JobStatuses \cup {"NONE"},
           retryCount  : Nat,
           nextRetryAt : {"null", "future", "past"}]

NoRow == [status |-> "NONE", retryCount |-> 0, nextRetryAt |-> "null"]

Stored(jobs, n) == jobs[n].status # "NONE"

----------------------------------------------------------------------------
(* Statements on notification_jobs                                         *)

\* INSERT of a fresh row; SendNotification is the only caller, with ACCEPTED.
Create(jobs, n) ==
    [jobs EXCEPT ![n] = [status |-> "ACCEPTED", retryCount |-> 0, nextRetryAt |-> "null"]]

\* Mutated form of UpdateStatus: a conditional update that does not know PENDING.
UpdateStatusUnlessPending(jobs, n, status) ==
    IF jobs[n].status \in {"ACCEPTED", "DISPATCHED", "DELIVERED", "FAILED"}
    THEN [jobs EXCEPT ![n].status = status] ELSE jobs

\* UPDATE ... SET status WHERE request_id: unconditional in the old status,
\* and silently without effect when the row is missing.
UpdateStatus(jobs, n, status) ==
    IF Stored(jobs, n) THEN [jobs EXCEPT ![n].status = status] ELSE jobs

\* Mutated form of FailJob: attempts are counted down.
FailJobCountingDown(jobs, n, due) ==
    [jobs EXCEPT ![n] = [status      |-> "FAILED",
                         retryCount  |-> jobs[n].retryCount - 1,
                         nextRetryAt |-> due]]

FailJob(jobs, n, due) ==
    IF Stored(jobs, n)
    THEN [jobs EXCEPT ![n] = [status      |-> "FAILED",
                              retryCount  |-> jobs[n].retryCount + 1,
                              nextRetryAt |-> due]]
    ELSE jobs

\* INSERT ... ON CONFLICT (request_id) DO UPDATE: the same row either way.
ResetForReplay(jobs, n) ==
    [jobs EXCEPT ![n] = [status |-> "PENDING", retryCount |-> 0, nextRetryAt |-> "null"]]

Due(jobs) ==
    {n \in DOMAIN jobs : jobs[n].status = "FAILED" /\ jobs[n].nextRetryAt = "past"}

\* The row sets one SELECT ... LIMIT may return.  Due rows are not ordered in
\* the model, so the limit may keep any of them.  The result loop never looks
\* at rows.Err(), so a connection lost half way returns a shorter batch and
\* no error: truncated.
GetRetryableJobs(jobs, limit, truncated) ==
    LET size == IF Cardinality(Due(jobs)) <= limit THEN Cardinality(Due(jobs)) ELSE limit
    IN  {batch \in SUBSET Due(jobs) :
            IF truncated THEN Cardinality(batch) < size ELSE Cardinality(batch) = size}

----------------------------------------------------------------------------
(* Statements on notification_stats                                        *)

IncrementStats(stats, service, status) ==
    [stats EXCEPT ![service][status] = @ + 1]
=============================================================================
