# notifyctl: TLA+ models, model checking and proofs

notifyctl accepts notifications over gRPC, hands them to a worker through NATS,
retries failed deliveries from PostgreSQL, and moves a delivery that used up its
retry budget to a dead-letter table, from which an operator can replay it. This
directory holds a TLA+ model of that program, translated from its Go source, the
TLC runs that check it on small instances, and proofs that hold for every
instance. Paths below are relative to the repository's root.

## 1. The system

### Components, their state and their operations

| component | source | state | operations |
| --- | --- | --- | --- |
| retry scheduler | `internal/retry/scheduler.go` | one goroutine per process: the batch of its last poll and its place in it | poll, re-enqueue, dead-letter |
| job worker | `internal/worker/worker.go` | one NATS subscription per process, one goroutine per delivery | dispatch, deliver |
| notify server | `internal/server/notify.go` | one goroutine per call | send, replay, list, register, delete, two streams |
| job store | `internal/store/postgres/job.go` | `notification_jobs`, `notification_stats` | create, update status, fail, reset, poll, count |
| dead-letter store | `internal/store/postgres/dead_letter.go` | `dead_letters` | create, get, list, delete |
| service store, auth | `internal/store/postgres/service.go`, `internal/server/auth.go` | `services` | create, list, look up by key, soft delete |
| schema migration | `internal/store/postgres/postgres.go` | the schema | three batches at every start |
| event hub | `internal/events/hub.go` | subscribers and their buffers | subscribe, unsubscribe, publish |
| log hub, logging | `internal/logging/hub.go`, `internal/logging/logging.go` | the same, for log lines; the attributes of every logger | the same; derive a logger, log |
| webhook worker | `internal/worker/webhook.go` | messages of a JetStream consumer | fetch, post, ack, nak, move to the DLQ |
| backoff | `internal/retry/backoff.go` | none | the delay before a redelivery |
| server process | `cmd/server/main.go` | wires the first five, one of each per process | start |
| CLI | `cmd/notifyctl`, `internal/config`, `internal/grpc` | a configuration file, the environment, a screen | one call or one stream per command |

`PROJECT.json` lists all of them with what is modelled and what is not.

### How they interact

* *Shared state.* Handlers, workers and schedulers of all processes share the
  tables. Every access is one SQL statement; no transaction spans two of them,
  and no statement that writes a status looks at the status it overwrites.
* *Messages.* `notifications.jobs` is a core-NATS subject: at most once, no
  acknowledgement, no queue group, so every process gets every message. The
  message carries a copy of the job row that nobody refreshes.
* *Goroutines.* The worker's callback is serial, but every dispatched job gets a
  goroutine that sleeps a second and then writes DELIVERED.
* *Streams.* Both hubs hand items to the handlers of streaming calls over bounded
  channels; whoever publishes an event or logs a line writes to all of them.
* *Calls.* A command of the CLI passes the client's interceptor, the generated stubs
  and the server's interceptor before a handler sees it. The client may give up on it
  while the server goes on.

### What is hard

The sequences of statements that are not transactions: `processRetries`
publishes and then writes PENDING; `deadLetterJob` inserts, writes DEAD_LETTERED
and counts; `ReplayDeadLetter` resets, publishes, deletes and counts. Between any
two of those, another replica's scheduler, a worker, a replay, a crash or an error
may come. The hubs must never wait for a client, yet close what publishers write to.
A client that reports an error does not know what became of its call. Loggers are
derived from one another by appending to slices they share. `PROJECT.json` lists each
hazard at its line.

## 2. Modules

| module | models |
| --- | --- |
| `JobStore` | the statements of `job.go`, as operators from table to table |
| `DeadLetterStore` | the statements of `dead_letter.go`, likewise |
| `PipelineState` | variables, types, initial state, and what a call to the database or NATS may do |
| `RetryScheduler` | `processRetries` and `deadLetterJob`, one action per statement |
| `JobWorker` | the subscription callback and the delivery goroutine |
| `NotifyServer` | `SendNotification` and `ReplayDeadLetter`, one action per call they make |
| `Pipeline` | the composition, its environment, its fairness and its properties |
| `PipelineHistory` | history variables, and the properties that speak of the past |
| `EventHub` | `events/hub.go` with its lock, and the `StreamDeliveryStatus` handlers |
| `LogHub` | `internal/logging` from the derivation of a logger to the line a client is sent, and the `StreamLogs` handlers |
| `LossyFeed` | abstract: what a hub promises a subscriber. `EventHub` and `LogHub` implement it |
| `Backoff` | `retry/backoff.go`, as operators from attempt counts to the delays it may return |
| `WebhookWorker` | `worker/webhook.go`, its JetStream consumer, its destinations and stores (extends `DeadLetterStore`, `Backoff`) |
| `Migration` | the schema and the batches of `postgres.go`, as operators from schema to schema |
| `ServiceRegistry` | start-up, `RegisterService`, `DeleteService`, the interceptor and `service.go` (extends `Migration`) |
| `CommandLine` | invocations of `notifyctl` with their configuration, their call or stream, the interceptors, and the server as a client sees it |
| `CommandPromise` | abstract: what an invocation may report and exit with. `CommandLine` implements it |
| `PipelineProofs`, `PipelineHistoryProofs`, `EventHubProofs`, `EventDeliveryProofs`, `LogHubProofs`, `ServiceRegistryProofs`, `WebhookProofs`, `CommandProofs` | theorems |
| `MCPipeline`, `MCHistory`, `MCEvents`, `MCLogs`, `MCWebhook`, `MCRegistry`, `MCCommands` | the constant definitions of the runs |

Each Go goroutine is a record with a program counter, and each of its statements
an action, so that everything else may happen in between. A call that fails ends
the action in the code's own error path.

### Correspondence to the code

* `jobs[n]` is the row with `request_id = n`; `NoRow` stands for no row.
  `nextRetryAt` keeps what the poll compares: null, past or future.
* `letters` holds the rows of `dead_letters` with a generated ID each.
* `stats[s][k]` is the sum over the hour buckets of `notification_stats`.
* `inbox[r][n]` counts messages under way to process `r`. A bag, so messages may
  overtake each other; NATS keeps one publisher's order, but several publish.
* `working`, `delivering`, `counting` are the callback and the delivery goroutines
  before and after their `UpdateStatus`.
* `sched[r]` holds the batch as read (`retryCount` included) and the job in hand.
  Which of the due rows a full poll returns is left open: `ORDER BY next_retry_at`
  is not modelled, because the three-valued time has no order of its own.
* `send[n]` and `replay[c]` are the two handlers. Invalid arguments, unknown
  letters, another service's letter and failed reads leave the state as it is; they
  are the absence of a step.
* `PipelineHistory` only observes: `unanswered` has the notifications whose failure used
  up the budget and was not followed up, `republished` those published since their letter
  was written, `outdated` the schedulers whose job was written to between their publish
  and their write of PENDING, and `overtaken` the notifications over whose status such a
  scheduler wrote PENDING, until they are published or written to again.
* `DeliveryFails` is the one action without a caller in the wired program:
  nothing calls `FailJob` yet, and the delivery is simulated. The end-to-end tests
  inject failures into the table (`e2e/harness_test.go:187-190`); the model does the
  same, with the store's own statement, from DELIVERED, where the attempt ended.

*EventHub.*

* `subscribers`, `closed` and `buffer` are the hub's map and the channels. The
  RWMutex follows Go's rule: `writer` is the handler that has called `Lock`, and from
  then on new `RLock` calls wait; its critical section starts when `Readers` is empty,
  and lets the waiting publishers in at its end (`Admit`).
* `Publish` holds the read lock over several steps, one `Offer` per subscriber, in any
  order (a Go map's). The 100 places of a channel are `Capacity`.
* `Forget` clears what belongs to a handler that returned. `Vanish` happens only
  where the handler could notice it; the handler has no other way to learn of it than
  `Send`, since it does not look at the stream's context.
* Of the wired process nobody publishes to the hub; the webhook worker is its only
  publisher, and `published` bounds how often.

*LogHub.*

* A logger's attributes are a slice `attrs[g]`: an address, a length and a capacity.
  `memory` has the arrays. `WithAttrs` writes in place where there is room and else
  copies to an array of g's own of twice the capacity, as Go's `append` does for slices
  this short. An attribute is the logger whose event it speaks of, and a line holds one
  per `With` of `FromContext`. The JSON handler of the file copies (`Own`).
* `MultiHandler` asks console, file and hub in this order and stops at the first
  error: `HandleFile` is the only handler that can fail, and its error keeps the line
  from the clients. `logFile` says whether `Init` could open the file.
* Lock, publishing and handlers are as in `EventHub`, but `StreamLogs` also waits for
  the end of the stream's context (`Cancelled`). `got` is history.

*LossyFeed.* `open`, `closed` and `queue` are the hub's subscribers, the closed channels
and the buffers; the lock, the publishers and the handlers are hidden.

*Backoff.* Durations are whole numbers of a unit, the jitter is a percentage and the
random number a choice (`Jittered`). `NextDelay` is called in two places: the webhook
worker waits for its delay (`Nak`), while the scheduler only logs it
(`scheduler.go:123`), so `RetryScheduler` leaves it out.

*WebhookWorker.*

* `stream[m]` is where the consumer has a message: ready, handed out, waiting for the
  delay of a NAK, acknowledged. `AckTooLate` hands a message out again while a slow
  worker still has it. A late NAK has no effect. No limit on redeliveries is configured
  in the repository, and none is modelled.
* `Payload[m]` is constant, the attempt count included: JetStream keeps a message as
  it was published. An unreadable message has the notification `None`.
* `Targets[n]` is the set of webhook destinations; the order of the posts is left open,
  and `attempts` keeps the rows without repetitions.
* A destination may turn any POST down (`Refuse`: it is not reached, or answers something
  else than 2xx); an error of `Post` may hide that the request arrived (`Answer`).
* `Shutdown` cancels the context of a worker, which looks at it between two batches only
  and so works off what it has fetched. Reads, posts, inserts and the publish to the DLQ
  take the context and fail from then on (`CtxCall`), each at the price of a fault;
  `Ack` and `Nak` take none. The next `Fetch` is that of the process started in its place.
* The events it emits are left out: `Publish` never blocks (`PublishReturns`). No
  executable starts this worker yet.

*Migration, ServiceRegistry.*

* `schema` has one field per thing a batch may find or leave. The initial states are an
  empty database and the three existing ones the comments of `Migrate` speak of. Each
  batch is a multi-statement `Exec` without arguments, which PostgreSQL runs as one
  transaction. `log.Fatalf` on an error is `"down"`; a process that is down is started again.
* A row of `services` keeps its name and whether `deleted_at` is null. IDs are fresh.
  Every service has a random key of its own, so the constraints on `api_key`, which go
  the same way as those on `name`, are left out.
* `call[c]` is a call between the interceptor's lookup and its handler. `after` and
  `revoked` are history: deletions that were answered before the call came.
* `answer` is the last answer, which the properties compare with the rows.

*CommandLine.*

* `run[c]` is the command line, `cfg[c]` the configuration after `PreRun`, `pc[c]` the
  place of the client, `call[c]` the call as the server sees it, `effects[c]` how often a
  handler carried it out, `told[c]` what the user has been shown, `exit[c]` the status.
  A service and its key are the same value.
* `Outgoing` is the sequence of `x-api-key` values: the context of the command puts the
  key of `--auth-token` first, the interceptor appends the configured one, and the
  server takes the first. With `--auth-token` the two are equal (`root.go:62-63`).
  Streams get no key from the interceptor.
* `NeedsKey` and `NeedsId` are the client's list (`root.go:69-100`), `Exempt` the
  server's (`auth.go:32-35`, and the generated descriptor says which calls are streams).
* A handler is one step here; `NotifyServer` and `ServiceRegistry` have its parts. It may
  fail after it took effect (`Served`). `Deadline`, `Unavailable` and `Interrupt` end
  the client's wait at any point and leave the call alone.
* `SendNotification` declines a service ID without a row, as the foreign key of the job
  row does (`postgres.go:65`); a deleted service has a row.
* In `watch --ui` a goroutine receives an event (`Recv`) and waits until the program has
  taken it (`Update`); `got` counts the events that were taken or printed.
* A screen is `pc = "screen"`; it ends with a key or with an error of its terminal. That of `watch --ui` is kept in `screen` since it cuts its
  list to the height of the terminal, and the height changes under it (`Resize`).
* `CommandPromise` sees `unattended` (started invocations that print and ask nothing, as
  derived from `run` and `pc`), the effects, what was told and the exit status.

### Errors, crashes, bounds

A call returns an error at the price of one of `MaxFaults` faults, and a failed
statement may or may not have been applied (`Outcomes`). A lost message and a
crash cost a fault each. `MaxFailures` bounds `FailJob`. Both bounds stand in the
guards. `MaxAttempts`, `BatchLimit`, the number of replicas, notifications and
replay calls are constants; the defaults of the program are 5 attempts and batches
of 50. Behaviours in which every notification is settled stop, so the runs do not
look for deadlocks.

## 3. Runs

Passing runs:

| run | instance | what it shows |
| --- | --- | --- |
| `one_replica` | fair, 1 process, 2 attempts, 3 failures, 2 faults, 1 replay call | one dead letter per notification; one FAILED count per process and exhausted budget; an interrupted replay keeps its letter; an acknowledged job is abandoned only by a fault or by a late PENDING, and every other one that entered the pipeline comes out of it; only faults unsettle the account of dispatches; FAILED is always left again |
| `two_replicas` | 2 interchangeable processes (symmetry), 2 attempts, 2 failures, 1 fault, no replay | DEAD_LETTERED jobs have their letter; an exhausted failure is lost only under a late PENDING, and without a fault an acknowledged job is stranded only there |
| `watchers` | fair, 2 watchers, 1 publisher, 3 events, channels of 1 | implements `LossyFeed`; no send on a closed channel; nothing missed within the capacity; `Publish` returns; a vanished client's subscription is given up at the next event |
| `logs` | fair, 2 clients, 2 loggers of 4 attributes, 1 line each, channels of 1, 1 error | implements `LossyFeed`; a streamed line has the labels of its own logger and is in the file; logging never waits; a vanished client's handler ends at once |
| `webhook` | fair, 2 workers, batches of 2, 2 messages (one on its last attempt, for 2 destinations), 1 fault (error, crash or shutdown), 1 late acknowledgement | a message whose notification was read is let go only when it was delivered everywhere or kept; no more messages are lost than errors happened; deliveries are on record; delays stay in their bounds; every message is settled once no destination refuses any more |
| `registry` | fair, 2 processes, 3 IDs, 1 name, 2 calls, 1 error, 1 crash, 4 initial schemas | nobody serves on an unfinished schema, every process comes to serve; live names are unique, deleted ones free; deletion revokes and happens once |
| `commands` | fair, 2 invocations (every command, mode and source of a key), 2 services, 3 files, 2 environments, 1 fault, 3 events, heights 6 and 7 | implements `CommandPromise`; a call is made under the configured key; only the log listings are turned away for want of one; a quiet invocation with a timeout ends; `watch --ui` shows the newest events |

The bounds let the interesting cases happen: two attempts separate a retry from
the last failure; three failures allow retry, dead letter, replay and a second
failure; two faults allow an error and a crash in one pass. A channel of one is full
after one event, and three events overflow it while a handler holds one. Two
workers and one late acknowledgement are enough for two deliveries of a message at
once. Both messages of that run are readable: the path of an unreadable one is the one a
failed read takes (`Discard`), and the theorems are about any payloads. Three IDs allow a registration, a deletion and two contenders for the name. Four
attributes make a logger's array grow to one, two and four places, so that both
outcomes of `append` occur. Heights of 6 and 7 leave room for one and two of
three events. The second invocation deletes the service the first one acts for.

Runs that find a disagreement between the program and its documentation; each is
a finding in `PROJECT.json`:

| run | property | what happens |
| --- | --- | --- |
| `stale_pass` | `OnlyFailedIsDeadLettered` | a replay starts between the insert and the status write of a pass; the write buries the replayed job |
| `late_delete` | `RemovedOnlyWhenAnswered` | the replay's delete removes the letter of the job's second failure |
| `late_pending` | `NoFailureLost` | without any fault: a scheduler writes PENDING after the retry it published was delivered and failed for the last time; the failure is out of everybody's sight |
| `lost_message` | `NeverStranded` | a database error in the callback (`worker.go:43`) drops the message; core NATS does not deliver it again, and the acknowledged job stays ACCEPTED |
| `webhook_no_end` | `RetriesEnd` | a redelivered message has its first attempt count for ever, so the budget is never used up |

What the program does promise is weaker, and holds for any budget of attempts:

* `LostOnlyOvertaken` instead of `NoFailureLost`: errors, crashes and racing passes lose no
  exhausted failure; only a PENDING written over what the worker did since the publish
  (`scheduler.go:134-143`) hides one. `StrandedOnlyOvertaken` instead of `NeverStranded`: as
  long as no fault occurs, that PENDING is also all that strands an acknowledged job.
  `SettledUnlessOvertaken` is the liveness side of both. `overtaken` is exact about it: the
  row must have changed between that scheduler's publish and its write, and the job leaves
  the set with the next publish or the next other status.
* `StrandedOnlyByFaults` and `BalancedButForFaults` speak of single steps, so that they
  say something after a fault too: a step that is no fault strands nothing but by the
  write of PENDING, and leaves the account of dispatches and deliveries as settled as it was.

Conditions stand in the instance of a run and in the statement of its theorem:

* `LostOnlyOvertaken` and `DeadLetteredIsInspectable` for an instance without replays: a
  replay takes the letter away by design, and `late_delete` shows what it can take with it.
* `RemovedOnlyOnceRepublished` for one replay at a time.
* `AckedIsAccounted` speaks of messages whose notification was read, as long as fewer than two
  errors were met: the two writes of `moveToDLQ` must both fail to lose one. A single
  failed read of the notification loses a message by itself (`webhook.go:86-90`), and so
  does a shutdown, for everything the worker has fetched and not begun; `LostOnlyToFaults` counts
  these, for any number of errors.

`FailedCountedOnce` bounds the statistic per process. Two schedulers may count one
failure, which the repository's own test describes as known
(`internal/retry/scheduler_dlq_concurrency_test.go:140-145`).

Observed while modelling, and as modelled: `logs` and `logs --stats` pass `PreRun`
without a key and are refused by the server (`KeylessIsLogs`); `send`, `create`, `delete`
and `list` with a screen exit with 0 whatever the outcome, which `CommandPromise`
allows for what is shown to a user; `watch --request-id` without a service ID is refused by `PreRun`
(`root.go:98`), although `watch.go:28-30` would accept it.

### Fairness

`FairSpec` asks that a running scheduler, callback, delivery goroutine and handler
take their next step (Go schedules runnable goroutines, and every call has an
outcome), that time passes and that a dead process is started again. Delivery and
counting are separate conjuncts since they are separate goroutines. No client is
obliged to call, and no fault to happen. Faults are bounded in the model: the
liveness results say what happens once errors cease.

In `EventHub` handlers and publishers go on; clients need not read, and nobody
need publish. In `WebhookWorker` workers go on and the consumer's timers fire; a
late acknowledgement, a crash or a shutdown need not happen, and a destination may refuse
for ever: `SettledOnceReachable` is about the behaviours in which it does not. In
`ServiceRegistry` processes are started again and handlers end. In `LogHub` loggers
and handlers go on, and writing to console and file returns; clients need not read. In
`CommandLine` the client goes on and its timer fires (`context.WithTimeout`); the
server need not answer, the connection need not deliver, and the user need not press a
key.

## 4. Proofs

Every theorem is checked by TLAPS for every value of the constants that the named
assumption of the component's module allows (`ConstantsAssumption`, `HubAssumption`,
`LogAssumption`, `RegistryAssumption`, `WebhookAssumption`, `BackoffAssumption`,
`CommandAssumption`): any sets of notifications, services, processes and calls, any
budget, capacity and bounds. The sets of the webhook worker are assumed
finite, since its properties count. Conditions beyond that stand in the theorem.

`PipelineProofs`:

* `TypeCorrect`: `Spec => []TypeOK`. Lemmas state what each SQL operator returns;
  one lemma per component shows that its steps keep the type.
* `OneDeadLetter`: inductive together with `TypeOK`; every step but the scheduler's
  insert and the replay's delete leaves the rows alone or shrinks them, and the
  insert adds a row only where there is none (`CreateLetterStores`).
* `DeadLetteredInspectable`: under `Calls = {}`. The invariant alone is not
  inductive: it is strengthened by `MarkedAfterInsert`, which says that a scheduler
  about to mark or having marked a job has its letter in the table, and by the fact
  that without replays rows are never removed.

* `StrandedByFaults`: `Spec => StrandedOnlyByFaults`, with no condition. `CallsAreLive` is
  the invariant: a handler that has not returned runs on a process that is up, so its
  publish reaches at least that process. One lemma per component shows that a step
  which ends one way in which a notification is under way (a message, the callback, a
  delivery, a replay) starts the next one or writes a status at which the attempt ended.

`PipelineHistoryProofs`:

* `RemovedAfterPublish`: for one replay at a time. `ReplayInv`: a replay runs on a live
  process, its letter stays in the table until its delete, and once the delete is due
  the notification is on the list of those published. Nothing takes it off that list
  while it has a letter, since the insert then adds none.
* `LostByPending`: under `Calls = {}`. `StatusStep` names, for each change of a status, the
  statement that made it; a notification without a letter is not marked DEAD_LETTERED
  (`MarkedAfterInsert`), and every other write is a send, a follow-up or a failure, so the
  PENDING of `MarkPending` remains.
* `LostAreOvertaken`, `StrandedAreOvertaken`: the same steps, and what `outdated` knows. A
  scheduler that is not in it and has still to write PENDING finds the row as it was at its
  publish. An exhausted failure is not in that row (`UpToDateAnswered`: its own publish has
  answered it), so the write hides none (`PendingOvertakes`); and where nothing failed, the
  published message is still on its way through the same process (`UpToDateOnItsWay`,
  `CallsAreLive`). Both hold for any budget of attempts, the first without replays, the second always.
* `FailuresCountedOnce`: for finitely many notifications and processes. `PaidFor`
  balances the account of each service: failures counted, pairs of a notification and a
  process that still has one to count (a FAILED row without attempts, or a place in that
  process's pass) and counts in hand never exceed the exhausted budgets times the
  processes. Pairs are opened by a failing delivery alone (`OpenLeft`), for each process
  one; the write of DEAD_LETTERED turns a pair into a count in hand (`MarkedIsNext`), for
  which a pass must hold a job only once (`PassInv`).
* `DispatchesBalanced`, `DispatchesSettled`: for finitely many notifications and processes.
  `Balance` is what the account of a service lacks; every step without a fault keeps it
  (`BalanceStep`). The sum in it is a fold. Its laws are not in the library and are
  proved here: the recursion behind the fold has a solution on every subset of a finite
  set (`SumExists`), any element may be taken out first (`SumsAnyOrder`), and changing one
  summand by d changes the sum by d (`TotalMoves`). Where this needs induction, the proof
  takes a smallest counterexample (`LeastSubset`, `LeastNumber`), which the
  well-foundedness theorems of the library provide without an operator parameter.

`EventHubProofs`, `EventDeliveryProofs`:

* `TypeCorrect`, `ClosedIsNotSentOn`: the invariant needs to know why a publisher's loop
  meets no closed channel: what it has left to do is a part of `subscribers`, as nobody
  gets the write lock meanwhile (`ReadersSeeSubscribers`); no subscriber is closed
  (`SubscribersOpen`); and a stream does not subscribe again after it closed its
  channel, because its handler is done (`ClosedIsDone`).
* `ImplementsFeed`: `Spec => FeedSpec`, step by step.
* `MissesNothingWithinCapacity`: events are numbered; a channel holds events due to its
  watcher, each at most once. If one is skipped, the full channel and the skipped event
  make more due events than `Capacity`, by an injection into the set of due events.

`LogHubProofs`:

* `TypeCorrect` (proved, and so not among the properties of the run), `LabelsAreOwn`,
  `LoggedBeforeStreamed`, `ImplementsFeed`. The invariant says where the slice
  of a logger lies (`OwnSlice`): it is the empty one of the default logger, which has no
  spare capacity, or lies in an array of this logger alone. A default logger with room
  would break it, which the mutant of `OwnLabel` shows. Lines in channels are good lines
  (`GoodLines`): their labels are their logger's, and they are in the file if there is one.

`ServiceRegistryProofs`:

* `TypeCorrect`, `OnlyMigratedIsServed`, `NamesUnique`, `RevocationHolds`, `OneDeletion`,
  `TakenOnlyByLive`, all from `RegistryInv`. `Migrated` says how much of the schema is
  there once a process is past each batch; lemmas show that no batch undoes another's work
  and that a current schema stays current, so other processes may migrate at any time.
  Registrations therefore meet the index on live names. `RevokedIsDead` keeps the row of a
  deleted service, so that its ID, and with it its key, cannot come back.

`WebhookProofs`:

* `TypeCorrect`; `RetriesInBounds` from the arithmetic of `NextDelay`.
* `DeliveriesOnRecord`: a delivery off the record that no worker is about to record
  cost an error or a crash (`Unrecorded`); every step that adds one raises `faults`.
* `LossesAreFaults`: workers that are about to let go of a message no store has
  (`Doomed`) are counted with the lost ones, and both together are at most the faults.
* `ReadIsAccounted`: for any number of faults. `DoubtInv` says that a worker in front of the
  acknowledgement without a trace in table or DLQ has seen two errors; `TaskInv` says that the
  destinations a worker is through with without a failure have got the notification.

`CommandProofs`:

* `TypeCorrect` (proved, and so not among the properties of the run),
  `ActsUnderConfiguredKey`, `OnlyLogsAreKeyless`, from an invariant that
  ties the key of a checked call to the command line and the configuration it was
  started under.
* `KeepsPromise`: `CommandLine` implements `CommandPromise`. The invariant relates
  client and server: an answer that has ended is the only source of a definite report,
  a call takes effect only while it is being handled, and one that ended with a refusal did not.
* `ShowsNewest`: what is on the screen is a contiguous run of event numbers that ends
  with the last one received.

Model-checked only: the liveness properties, which need fairness and are beyond the
prover. Every invariant and every action property of the passing runs is the
conclusion of a theorem.

## 5. Not modelled, and the plan

* `internal/store/store.go` has interfaces and error values only; `internal/security` computes
  a random key and its hash; the health server answers a constant.
* Of `internal/broker/nats`, connecting and creating streams is I/O, and of the two
  stores for notifications and attempts only what the webhook worker calls is modelled.
* Of the generated code, the stubs and the descriptor are in `CommandLine`; the encoding of
  messages and its accessors are data.
* Texts, colours, log formats, tests and the database of the tests
  (`store/postgres/testdb`).

What is left: an abstract specification of the pipeline's promise for one
notification, and the conditions under which `Pipeline` implements it. The theorems on
stranded and lost notifications state the safety part of that promise already.
