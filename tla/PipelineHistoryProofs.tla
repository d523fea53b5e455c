----------------------- MODULE PipelineHistoryProofs ------------------------
(***************************************************************************)
(* Theorems about PipelineHistory: what a removed dead letter, a lost      *)
(* failure, a counted failure and a counted dispatch go back to.  They     *)
(* hold for any services, processes and bounds; what limits one of them,   *)
(* as to replays, retries or faults, stands in its statement.              *)
(***************************************************************************)
EXTENDS PipelineHistory, PipelineProofs, Integers, FiniteSetTheorems, NaturalsInduction,
        WellFoundedInduction

\* A behaviour with its history is a behaviour.
LEMMA HistoryIsBehaviour == HSpec => Spec
<1>1. HInit => Init
  BY DEF HInit
<1>2. [HNext]_allVars => [Next]_vars
  BY DEF HNext, allVars
<1> QED BY <1>1, <1>2, PTL DEF HSpec, Spec

LEMMA HistoryTypes == HSpec => []TypeOK
  BY HistoryIsBehaviour, TypeCorrect, PTL

----------------------------------------------------------------------------
(* Replays                                                                 *)

\* A replay lives on a process that runs; its letter is in the table until the
\* delete, and when that is due the notification has been published.
ReplayInv ==
    \A c \in Calls :
        /\ replay[c].pc # "idle" => up[replay[c].at]
        /\ replay[c].pc \in {"reset", "publish", "delete"} =>
            LettersOf(letters, replay[c].job) # {}
        /\ replay[c].pc = "delete" => replay[c].job \in republished

\* The steps that matter to replays: those of calls, crashes and inserts.
LEMMA ReplayLeft ==
    ASSUME TypeOK, [Next]_vars,
           ~\E c \in Calls : ReplayLookup(c) \/ ReplayStep(c),
           ~\E r \in Replicas : Crash(r)
    PROVE  /\ replay' = replay
           /\ \A r \in Replicas : up[r] => up'[r]
           /\ letters.rows \subseteq letters'.rows
<1> USE DEF TypeOK
<1>1. CASE UNCHANGED vars
  BY <1>1 DEF vars
<1>2. ASSUME NEW r \in Replicas, SchedulerStep(r)
      PROVE  /\ UNCHANGED <<replay, up>>
             /\ letters.rows \subseteq letters'.rows
  <2>1. UNCHANGED <<replay, up>>
    BY <1>2 DEF SchedulerStep, Poll, ReEnqueue, MarkPending, DeadLetter, MarkDeadLettered,
                CountFailed, serverVars
  <2>2. letters' = letters \/ \E n, a : letters' = CreateLetter(letters, n, a)
    BY <1>2 DEF SchedulerStep, Poll, ReEnqueue, MarkPending, DeadLetter, MarkDeadLettered,
                CountFailed, Outcomes, storeVars
  <2> QED BY <2>1, <2>2 DEF CreateLetter
<1>3. ASSUME NEW r \in Replicas, WorkerStep(r)
      PROVE  UNCHANGED <<replay, up, letters>>
  BY <1>3 DEF WorkerStep, Dispatch, StartDelivery, Deliver, CountDelivered, serverVars
<1>4. ASSUME NEW n \in Notifications, SendStep(n)
      PROVE  UNCHANGED <<replay, up, letters>>
  BY <1>4 DEF SendStep, SendCreate, SendCount, SendPublish, storeVars
<1>5. ASSUME NEW n \in Notifications, DeliveryFails(n) \/ RetryFallsDue(n)
      PROVE  UNCHANGED <<replay, up, letters>>
  BY <1>5 DEF DeliveryFails, RetryFallsDue, serverVars
<1>6. ASSUME NEW r \in Replicas, NEW n \in Notifications, LoseMessage(r, n)
      PROVE  UNCHANGED <<replay, up, letters>>
  BY <1>6 DEF LoseMessage, storeVars, serverVars
<1>7. ASSUME NEW r \in Replicas, Restart(r)
      PROVE  /\ UNCHANGED <<replay, letters>>
             /\ \A q \in Replicas : up[q] => up'[q]
  BY <1>7 DEF Restart, storeVars, serverVars
<1> QED
  BY <1>1, <1>2, <1>3, <1>4, <1>5, <1>6, <1>7 DEF Next, ServerStep, Environment

\* A notification that has a letter stays on the list of those published.
LEMMA RepublishedLeft ==
    ASSUME TypeOK, [HNext]_allVars, NEW n \in republished, LettersOf(letters, n) # {}
    PROVE  n \in republished'
<1>1. CASE UNCHANGED allVars
  BY <1>1 DEF allVars, historyVars
<1>2. CASE HNext
  <2>1. n \notin FreshlyDeadLettered
    <3> SUFFICES ASSUME NEW l \in letters'.rows \ letters.rows, l.job = n
                 PROVE  FALSE
      BY DEF FreshlyDeadLettered
    <3>1. CASE letters' = letters
      BY <3>1
    <3>2. CASE \E m \in Notifications, a \in Nat : letters' = CreateLetter(letters, m, a)
      BY <3>2 DEF CreateLetter, LettersOf
    <3>3. CASE \E c \in Calls : letters' = DeleteByNotificationID(letters, replay[c].job)
      <4>1. letters'.rows \subseteq letters.rows
        BY <3>3 DEF DeleteByNotificationID, TypeOK
      <4> QED BY <4>1
    <3> QED BY <1>2, <3>1, <3>2, <3>3, LettersStep DEF HNext
  <2> QED BY <1>2, <2>1 DEF HNext
<1> QED BY <1>1, <1>2

\* A publish that succeeds reaches the process it is made from.
LEMMA PublishedBy ==
    ASSUME TypeOK, HNext, NEW n \in Notifications, NEW r \in Replicas, up[r], Publish(n, TRUE),
           letters' = letters
    PROVE  n \in republished'
<1>1. inbox'[r][n] = inbox[r][n] + 1 /\ inbox[r][n] \in Nat
  BY DEF Publish, TypeOK, Bag
<1>2. inbox'[r][n] > inbox[r][n]
  BY <1>1
<1>3. n \in Published
  BY <1>2 DEF Published
<1>4. FreshlyDeadLettered = {}
  BY DEF FreshlyDeadLettered
<1> QED BY <1>3, <1>4 DEF HNext

LEMMA ReplayKept ==
    ASSUME \A c, d \in Calls : c = d, TypeOK, ReplayInv, [HNext]_allVars
    PROVE  ReplayInv'
<1>0. /\ replay \in [Calls -> ReplayCall]
      /\ [Next]_vars
  BY DEF TypeOK, HNext, allVars
<1>1. CASE /\ ~\E c \in Calls : ReplayLookup(c) \/ ReplayStep(c)
           /\ ~\E r \in Replicas : Crash(r)
  <2>1. /\ replay' = replay
        /\ \A r \in Replicas : up[r] => up'[r]
        /\ letters.rows \subseteq letters'.rows
    BY <1>0, <1>1, ReplayLeft
  <2> SUFFICES ASSUME NEW c \in Calls
               PROVE  /\ replay[c].pc # "idle" => up'[replay[c].at]
                      /\ replay[c].pc \in {"reset", "publish", "delete"} =>
                            LettersOf(letters', replay[c].job) # {}
                      /\ replay[c].pc = "delete" => replay[c].job \in republished'
    BY <2>1 DEF ReplayInv
  <2>2. replay[c].pc # "idle" => replay[c].at \in Replicas
    BY <1>0 DEF ReplayCall, NoReplay
  <2>3. \A n : LettersOf(letters, n) # {} => LettersOf(letters', n) # {}
    BY <2>1 DEF LettersOf
  <2>4. replay[c].pc = "delete" => replay[c].job \in republished'
    BY RepublishedLeft DEF ReplayInv
  <2> QED BY <2>1, <2>2, <2>3, <2>4 DEF ReplayInv
<1>2. ASSUME NEW r \in Replicas, Crash(r)
      PROVE  ReplayInv'
  <2>1. /\ replay' = [d \in Calls |-> IF replay[d].at = r THEN NoReplay ELSE replay[d]]
        /\ up' = [up EXCEPT ![r] = FALSE] /\ letters' = letters /\ up \in [Replicas -> BOOLEAN]
    BY <1>2 DEF Crash, storeVars, TypeOK
  <2> SUFFICES ASSUME NEW c \in Calls, replay'[c].pc # "idle"
               PROVE  /\ up'[replay'[c].at]
                      /\ replay'[c].pc \in {"reset", "publish", "delete"} =>
                            LettersOf(letters', replay'[c].job) # {}
                      /\ replay'[c].pc = "delete" => replay'[c].job \in republished'
    BY DEF ReplayInv
  <2>2. replay'[c] = replay[c] /\ replay[c].at # r
    BY <2>1 DEF NoReplay
  <2>3. replay[c].at \in Replicas
    BY <1>0, <2>2 DEF ReplayCall, NoReplay
  <2>4. replay[c].pc = "delete" => replay[c].job \in republished'
    BY RepublishedLeft DEF ReplayInv
  <2> QED BY <2>1, <2>2, <2>3, <2>4 DEF ReplayInv
<1>3. ASSUME NEW c \in Calls, ReplayLookup(c) \/ ReplayStep(c)
      PROVE  ReplayInv'
  <2> SUFFICES /\ replay'[c].pc # "idle" => up'[replay'[c].at]
               /\ replay'[c].pc \in {"reset", "publish", "delete"} =>
                     LettersOf(letters', replay'[c].job) # {}
               /\ replay'[c].pc = "delete" => replay'[c].job \in republished'
    BY DEF ReplayInv
  <2>1. up' = up
    BY <1>3 DEF ReplayLookup, ReplayStep, ReplayReset, ReplayPublish, ReplayDelete, ReplayCount
  <2>2. CASE ReplayLookup(c)
    <3>1. PICK r \in Replicas, l \in letters.rows :
            /\ up[r]
            /\ replay' = [replay EXCEPT ![c] = [pc |-> "reset", at |-> r, job |-> l.job]]
      BY <2>2 DEF ReplayLookup, GetByID
    <3>2. replay'[c] = [pc |-> "reset", at |-> r, job |-> l.job] /\ letters' = letters
      BY <1>0, <2>2, <3>1 DEF ReplayLookup, storeVars
    <3>3. l \in LettersOf(letters, l.job)
      BY DEF LettersOf
    <3> QED BY <2>1, <3>1, <3>2, <3>3
  <2> DEFINE call == replay[c]
  <2>3. ASSUME NEW pc, NEW ok \in BOOLEAN, ReplayTo(c, pc, ok), call.pc # "idle"
        PROVE  /\ ok => /\ replay'[c].pc = pc
                        /\ replay'[c].at = call.at
                        /\ replay'[c].job = call.job
               /\ ~ok => replay'[c].pc = "idle"
    <3>1. call \in [pc : {"reset", "publish", "delete", "count"}, at : Replicas,
                    job : Notifications]
      BY <1>0, <2>3 DEF ReplayCall, NoReplay
    <3>2. [call EXCEPT !.pc = pc] = [pc |-> pc, at |-> call.at, job |-> call.job]
      <4> HIDE DEF call
      <4> QED BY <3>1
    <3>3. ok => replay'[c] = [call EXCEPT !.pc = pc]
      BY <1>0, <2>3 DEF ReplayTo
    <3>4. ~ok => replay'[c] = NoReplay
      BY <1>0, <2>3 DEF ReplayTo
    <3>5. ok => replay'[c] = [pc |-> pc, at |-> call.at, job |-> call.job]
      BY <3>2, <3>3
    <3> HIDE DEF call
    <3> QED BY <3>4, <3>5 DEF NoReplay
  <2>4. CASE ReplayReset(c)
    <3>1. PICK ok \in BOOLEAN : ReplayTo(c, "publish", ok)
      BY <2>4 DEF ReplayReset
    <3>2. call.pc = "reset" /\ letters' = letters
      BY <2>4 DEF ReplayReset
    <3>3. up[call.at] /\ LettersOf(letters, call.job) # {}
      BY <3>2 DEF ReplayInv
    <3>4. CASE ok
      <4>1. replay'[c].pc = "publish" /\ replay'[c].at = call.at /\ replay'[c].job = call.job
        BY <2>3, <3>1, <3>2, <3>4
      <4> QED BY <2>1, <3>2, <3>3, <4>1
    <3>5. CASE ~ok
      BY <2>3, <3>1, <3>2, <3>5
    <3> QED BY <3>4, <3>5
  <2>5. CASE ReplayPublish(c)
    <3>1. PICK ok \in BOOLEAN : Publish(call.job, ok) /\ ReplayTo(c, "delete", ok)
      BY <2>5 DEF ReplayPublish
    <3>2. call.pc = "publish" /\ letters' = letters
      BY <2>5 DEF ReplayPublish, storeVars
    <3>3. call.at \in Replicas /\ call.job \in Notifications /\ up[call.at]
      BY <1>0, <3>2 DEF ReplayCall, NoReplay, ReplayInv
    <3>4. ok => call.job \in republished'
      <4> SUFFICES ASSUME ok PROVE call.job \in republished'
        OBVIOUS
      <4>1. Publish(call.job, TRUE)
        BY <3>1
      <4>2. replay' # replay
        <5>1. replay'[c].pc = "delete"
          BY <2>3, <3>1, <3>2
        <5> QED BY <3>2, <5>1
      <4>3. HNext
        BY <4>2 DEF allVars, vars
      <4> HIDE DEF call
      <4> QED BY <3>2, <3>3, <4>1, <4>3, PublishedBy
    <3>5. LettersOf(letters, call.job) # {}
      BY <3>2 DEF ReplayInv
    <3>6. CASE ok
      <4>1. replay'[c].pc = "delete" /\ replay'[c].at = call.at /\ replay'[c].job = call.job
        BY <2>3, <3>1, <3>2, <3>6
      <4> QED BY <2>1, <3>2, <3>3, <3>4, <3>5, <3>6, <4>1
    <3>7. CASE ~ok
      BY <2>3, <3>1, <3>2, <3>7
    <3> QED BY <3>6, <3>7
  <2>6. CASE ReplayDelete(c)
    <3>1. PICK ok \in BOOLEAN : ReplayTo(c, "count", ok)
      BY <2>6 DEF ReplayDelete
    <3>2. call.pc = "delete" /\ up[call.at]
      BY <2>6 DEF ReplayDelete, ReplayInv
    <3>3. CASE ok
      <4>1. replay'[c].pc = "count" /\ replay'[c].at = call.at
        BY <2>3, <3>1, <3>2, <3>3
      <4> QED BY <2>1, <3>2, <4>1
    <3>4. CASE ~ok
      BY <2>3, <3>1, <3>2, <3>4
    <3> QED BY <3>3, <3>4
  <2>7. CASE ReplayCount(c)
    BY <1>0, <2>7 DEF ReplayCount, NoReplay
  <2> QED BY <1>3, <2>2, <2>4, <2>5, <2>6, <2>7 DEF ReplayStep
<1> QED BY <1>1, <1>2, <1>3

\* As long as replays are made one at a time, a dead letter is removed only
\* after its notification was published again, whatever replicas, errors and
\* crashes interleave (notify.go:326-361).
THEOREM RemovedAfterPublish ==
    ASSUME \A c, d \in Calls : c = d
    PROVE  HSpec => RemovedOnlyOnceRepublished
<1>1. HInit => ReplayInv
  BY DEF HInit, Init, ReplayInv, NoReplay
<1>2. TypeOK /\ ReplayInv /\ [HNext]_allVars => ReplayInv'
  BY ReplayKept
<1>3. TypeOK /\ ReplayInv /\ [HNext]_allVars
        => [\A l \in letters.rows \ letters'.rows : l.job \in republished]_allVars
  <2> SUFFICES ASSUME TypeOK, ReplayInv, HNext, NEW l \in letters.rows \ letters'.rows
               PROVE  l.job \in republished
    OBVIOUS
  <2>1. PICK c \in Calls : ReplayDelete(c)
    <3>1. [Next]_vars
      BY DEF HNext
    <3>3. CASE \E r \in Replicas : Crash(r)
      BY <3>3 DEF Crash, storeVars
    <3>4. CASE ~\E r \in Replicas : Crash(r)
      <4>1. PICK c \in Calls : ReplayLookup(c) \/ ReplayStep(c)
        BY <3>1, <3>4, ReplayLeft
      <4> QED
        BY <4>1 DEF ReplayLookup, ReplayStep, ReplayReset, ReplayPublish, ReplayCount, storeVars
    <3> QED BY <3>3, <3>4
  <2>2. replay[c].pc = "delete" /\ letters' \in
            {letters, DeleteByNotificationID(letters, replay[c].job)}
    BY <2>1 DEF ReplayDelete, Outcomes
  <2>3. letters' = DeleteByNotificationID(letters, replay[c].job)
    BY <2>2
  <2>4. l.job = replay[c].job
    BY <2>3 DEF DeleteByNotificationID, LettersOf, TypeOK
  <2> QED BY <2>2, <2>4 DEF ReplayInv
<1> QED BY <1>1, <1>2, <1>3, HistoryTypes, PTL DEF HSpec, RemovedOnlyOnceRepublished

----------------------------------------------------------------------------
(* Lost failures                                                           *)

\* The failure that used up the budget of n has left no trace.
Lost(n) ==
    /\ n \in unanswered
    /\ jobs[n].status # "FAILED"
    /\ LettersOf(letters, n) = {}

\* A failure that used up a budget gets lost only by the scheduler's write of
\* PENDING, which comes after the publish and may overwrite FAILED.
LostOnlyByPending ==
    [][\A n \in Notifications :
        ~Lost(n) /\ Lost(n)' =>
            \E r \in Replicas : MarkPending(r) /\ sched[r].cur.job = n]_allVars

\* A notification that nobody sent has no row.
UnsentIsAbsent == \A n \in Notifications : send[n].pc = "idle" => ~Stored(jobs, n)

LEMMA AbsentStays ==
    ASSUME Calls = {}, TypeOK, UnsentIsAbsent, [Next]_vars
    PROVE  UnsentIsAbsent'
<1> SUFFICES ASSUME NEW n \in Notifications, send'[n].pc = "idle"
             PROVE  ~Stored(jobs', n)
  BY DEF UnsentIsAbsent
<1>1. ~Stored(jobs, n)
  BY SendStays DEF UnsentIsAbsent
<1>2. ~SendCreate(n)
  BY DEF SendCreate, TypeOK
<1>3. jobs'[n].status = jobs[n].status
  BY <1>1, <1>2, StatusStep
<1> QED BY <1>1, <1>3 DEF Stored

\* Only a failing delivery exhausts a budget, and it leaves the row FAILED.
LEMMA ExhaustedIsFailed ==
    ASSUME TypeOK, [Next]_vars, NEW n \in Exhausted
    PROVE  jobs'[n].status = "FAILED"
<1>1. PICK m \in Notifications : DeliveryFails(m)
  BY DEF Exhausted, Next, SchedulerStep, Poll, ReEnqueue, MarkPending, DeadLetter,
         MarkDeadLettered, CountFailed, WorkerStep, Dispatch, StartDelivery, Deliver,
         CountDelivered, ServerStep, SendStep, SendCreate, SendCount, SendPublish, ReplayLookup,
         ReplayStep, ReplayReset, ReplayPublish, ReplayDelete, ReplayCount, Environment,
         RetryFallsDue, LoseMessage, Crash, Restart, vars
<1>2. jobs[m].status = "DELIVERED" /\ jobs' = FailJob(jobs, m, "future") /\ jobs'[n] # jobs[n]
  BY <1>1 DEF DeliveryFails, Exhausted
<1> QED BY <1>2 DEF FailJob, Stored, Exhausted, TypeOK

LEMMA LossStep ==
    ASSUME Calls = {}, TypeOK, MarkedAfterInsert, UnsentIsAbsent, [HNext]_allVars,
           NEW n \in Notifications, ~Lost(n), Lost(n)'
    PROVE  \E r \in Replicas : MarkPending(r) /\ sched[r].cur.job = n
<1>0. HNext /\ [Next]_vars
  BY DEF HNext, Lost, allVars, historyVars, vars
<1>1. LettersOf(letters, n) = {}
  BY <1>0, LettersStep DEF CreateLetter, LettersOf, Lost
<1>2. n \notin Exhausted
  BY <1>0, ExhaustedIsFailed DEF Lost
<1>3. n \in unanswered /\ n \notin Attempted
  BY <1>0, <1>2 DEF HNext, Lost
<1>4. jobs[n].status = "FAILED" /\ jobs'[n].status # "FAILED"
  BY <1>1, <1>3 DEF Lost
<1>5. jobs'[n].status \notin {"DISPATCHED", "DELIVERED"}
  BY <1>3, <1>4 DEF Attempted
<1>6. ~SendCreate(n)
  BY <1>4 DEF SendCreate, UnsentIsAbsent, Stored
<1>7. ~DeliveryFails(n)
  BY <1>4 DEF DeliveryFails
<1>8. ASSUME NEW r \in Replicas, MarkDeadLettered(r), sched[r].cur.job = n PROVE FALSE
  BY <1>1, <1>8 DEF MarkDeadLettered, MarkedAfterInsert
<1> QED BY <1>0, <1>4, <1>5, <1>6, <1>7, <1>8, StatusStep

\* As long as nobody replays, only a late write of PENDING loses a failure, for
\* any replicas, retries, errors and crashes (scheduler.go:134-185).
THEOREM LostByPending ==
    ASSUME Calls = {}
    PROVE  HSpec => LostOnlyByPending
<1>1. HInit => UnsentIsAbsent
  BY DEF HInit, Init, UnsentIsAbsent, Stored, NoRow
<1>2. TypeOK /\ UnsentIsAbsent /\ [HNext]_allVars => UnsentIsAbsent'
  BY AbsentStays DEF HNext, allVars
<1>3. TypeOK /\ MarkedAfterInsert /\ UnsentIsAbsent /\ [HNext]_allVars
        => [\A n \in Notifications :
                ~Lost(n) /\ Lost(n)' =>
                    \E r \in Replicas : MarkPending(r) /\ sched[r].cur.job = n]_allVars
  BY LossStep
<1> QED
  BY <1>1, <1>2, <1>3, HistoryTypes, HistoryIsBehaviour, MarkedIsInserted, PTL
     DEF HSpec, LostOnlyByPending

----------------------------------------------------------------------------
(* Overtaken notifications                                                 *)

\* Faults are only ever added to.
LEMMA FaultsGrow ==
    ASSUME TypeOK, [Next]_vars, faults' = 0
    PROVE  faults = 0
<1>0. faults \in Nat
  BY DEF TypeOK
<1>1. \/ faults' = faults
      \/ \E ok \in BOOLEAN : Call(ok)
  <2>1. ASSUME NEW r \in Replicas, SchedulerStep(r)
        PROVE  \E ok \in BOOLEAN : Call(ok)
    BY <2>1 DEF SchedulerStep, Poll, ReEnqueue, MarkPending, DeadLetter, MarkDeadLettered,
                CountFailed, Publish, Count
  <2>2. ASSUME NEW r \in Replicas, WorkerStep(r)
        PROVE  \E ok \in BOOLEAN : Call(ok)
    BY <2>2 DEF WorkerStep, Dispatch, StartDelivery, Deliver, CountDelivered, Count
  <2>3. CASE ServerStep
    BY <2>3 DEF ServerStep, SendStep, SendCreate, SendCount, SendPublish, ReplayLookup,
                ReplayStep, ReplayReset, ReplayPublish, ReplayDelete, ReplayCount, Publish, Count
  <2>4. CASE Environment
    BY <2>4 DEF Environment, DeliveryFails, RetryFallsDue, LoseMessage, Crash, Restart
  <2>5. CASE UNCHANGED vars
    BY <2>5 DEF vars
  <2> QED BY <2>1, <2>2, <2>3, <2>4, <2>5 DEF Next
<1> QED BY <1>0, <1>1 DEF Call

\* A scheduler comes to its write of PENDING only through its publish, which
\* reaches its own process.
LEMMA PendingStep ==
    ASSUME TypeOK, [Next]_vars, NEW r \in Replicas, sched'[r].pc = "markPending"
    PROVE  \/ sched'[r] = sched[r]
           \/ /\ sched'[r].cur.job \in Notifications
              /\ inbox'[r][sched'[r].cur.job] = inbox[r][sched'[r].cur.job] + 1
<1> USE DEF TypeOK
<1> DEFINE Published1 == /\ sched'[r].cur.job \in Notifications
                         /\ inbox'[r][sched'[r].cur.job] = inbox[r][sched'[r].cur.job] + 1
<1>1. CASE UNCHANGED vars
  BY <1>1 DEF vars
<1>2. ASSUME NEW q \in Replicas, ReEnqueue(q)
      PROVE  sched'[r] = sched[r] \/ Published1
  <2>1. PICK s \in sched[q].batch, ok \in BOOLEAN :
            /\ Publish(s.job, ok)
            /\ sched' = [sched EXCEPT ![q] = Take(q, s, "markPending", ok)]
            /\ up[q] /\ sched[q].pc = "loop"
    BY <1>2 DEF ReEnqueue, Idle
  <2>2. CASE r # q
    BY <2>1, <2>2
  <2>3. CASE r = q /\ ok
    <3>1. sched'[r].cur = s
      BY <2>1, <2>3 DEF Take
    <3>2. s.job \in Notifications
      BY DEF Scheduler, Snapshot
    <3>3. inbox' = [p \in Replicas |->
                        IF up[p] THEN [inbox[p] EXCEPT ![s.job] = @ + 1] ELSE inbox[p]]
      BY <2>1, <2>3 DEF Publish
    <3>4. inbox'[r][s.job] = inbox[r][s.job] + 1
      BY <2>1, <2>3, <3>2, <3>3 DEF Bag
    <3> QED BY <3>1, <3>2, <3>4
  <2>4. CASE r = q /\ ~ok
    <3>1. sched'[r].pc = "loop"
      BY <2>1, <2>4 DEF Take, Scheduler
    <3> QED BY <3>1
  <2> QED BY <2>2, <2>3, <2>4
<1>3. ASSUME NEW q \in Replicas, SchedulerStep(q), ~ReEnqueue(q)
      PROVE  sched'[r] = sched[r]
  <2>1. CASE Poll(q)
    BY <2>1 DEF Poll, Idle, Scheduler
  <2>2. CASE DeadLetter(q)
    BY <2>2 DEF DeadLetter, Idle, Take, Scheduler
  <2>3. CASE MarkDeadLettered(q)
    BY <2>3 DEF MarkDeadLettered, Continue, Scheduler
  <2>4. CASE MarkPending(q) \/ CountFailed(q)
    BY <2>4 DEF MarkPending, CountFailed, Continue
  <2> QED BY <1>3, <2>1, <2>2, <2>3, <2>4 DEF SchedulerStep
<1>4. ASSUME NEW q \in Replicas, WorkerStep(q)
      PROVE  sched' = sched
  BY <1>4 DEF WorkerStep, Dispatch, StartDelivery, Deliver, CountDelivered
<1>5. ASSUME ServerStep PROVE sched' = sched
  BY <1>5 DEF ServerStep, SendStep, ReplayStep, SendCreate, SendCount, SendPublish,
              ReplayLookup, ReplayReset, ReplayPublish, ReplayDelete, ReplayCount
<1>6. ASSUME Environment PROVE sched'[r] = sched[r]
  <2>1. ASSUME NEW q \in Replicas, Crash(q) PROVE sched'[r] = sched[r]
    BY <2>1 DEF Crash, IdleScheduler
  <2>2. ASSUME ~\E q \in Replicas : Crash(q) PROVE sched' = sched
    BY <1>6, <2>2 DEF Environment, DeliveryFails, RetryFallsDue, LoseMessage, Restart
  <2> QED BY <2>1, <2>2
<1> QED BY <1>1, <1>2, <1>3, <1>4, <1>5, <1>6 DEF Next

\* What a scheduler's write of PENDING does to the table.
LEMMA PendingWritten ==
    ASSUME TypeOK, NEW r \in Replicas, MarkPending(r), NEW n \in Notifications,
           sched[r].cur.job = n
    PROVE  \/ jobs' = jobs
           \/ jobs'[n].status = "PENDING" /\ Stored(jobs, n)
<1>1. jobs' = jobs \/ jobs' = UpdateStatus(jobs, n, "PENDING")
  BY DEF MarkPending, Outcomes
<1>2. CASE Stored(jobs, n) /\ jobs' = [jobs EXCEPT ![n].status = "PENDING"]
  BY <1>2 DEF TypeOK, JobRow
<1> QED BY <1>1, <1>2 DEF UpdateStatus

\* The jobs of the schedulers that will not overtake anything.
UpToDate == {r \in Replicas : sched[r].pc = "markPending" /\ r \notin outdated}

\* Such a scheduler still holds the row it published for, or has just published.
LEMMA UpToDateStep ==
    ASSUME TypeOK, HNext, NEW r \in UpToDate'
    PROVE  \/ /\ sched'[r].cur.job \in Notifications
              /\ inbox'[r][sched'[r].cur.job] = inbox[r][sched'[r].cur.job] + 1
           \/ /\ r \in UpToDate
              /\ sched'[r] = sched[r]
              /\ sched[r].cur.job \in Notifications
              /\ jobs'[sched[r].cur.job] = jobs[sched[r].cur.job]
<1>0. r \in Replicas /\ sched'[r].pc = "markPending" /\ r \notin outdated'
  BY DEF UpToDate
<1>1. CASE sched'[r] = sched[r]
  <2>1. StillToMark(r)
    BY <1>0, <1>1 DEF StillToMark
  <2>2. r \notin outdated /\ jobs'[sched[r].cur.job] = jobs[sched[r].cur.job]
    BY <1>0, <2>1 DEF HNext
  <2>3. sched[r].cur.job \in Notifications
    BY <1>0, <1>1 DEF TypeOK, Scheduler, Snapshot
  <2> QED BY <1>0, <1>1, <2>2, <2>3 DEF UpToDate
<1>2. CASE sched'[r] # sched[r]
  BY <1>0, <1>2, PendingStep DEF HNext
<1> QED BY <1>1, <1>2

\* A notification that was overtaken is PENDING.
OvertakenIsPending ==
    /\ overtaken \subseteq Notifications
    /\ \A n \in overtaken : jobs[n].status = "PENDING"

LEMMA OvertakenStays ==
    ASSUME OvertakenIsPending, [HNext]_allVars
    PROVE  OvertakenIsPending'
<1>1. CASE HNext
  BY <1>1 DEF HNext, OvertakenIsPending, Overtaken
<1>2. CASE UNCHANGED allVars
  BY <1>2 DEF allVars, vars, historyVars, OvertakenIsPending
<1> QED BY <1>1, <1>2

\* A write of PENDING that hides a status makes its notification overtaken.
LEMMA PendingOvertakes ==
    ASSUME TypeOK, HNext, NEW n \in Notifications, n \notin Published,
           NEW r \in Replicas, r \notin UpToDate, MarkPending(r), sched[r].cur.job = n,
           jobs[n].status # "PENDING", jobs'[n].status = "PENDING"
    PROVE  n \in overtaken'
<1>1. r \in outdated
  BY DEF MarkPending, UpToDate
<1>2. n \in Overtaken
  BY <1>1 DEF Overtaken
<1> QED BY <1>2 DEF HNext

----------------------------------------------------------------------------
(* Lost failures are overtaken                                             *)

\* The publish of an up-to-date scheduler answered the failure of its job.
UpToDateAnswered == \A r \in UpToDate : sched[r].cur.job \notin unanswered

LEMMA AnsweredStays ==
    ASSUME TypeOK, UpToDateAnswered, [HNext]_allVars
    PROVE  UpToDateAnswered'
<1>1. CASE UNCHANGED allVars
  BY <1>1 DEF allVars, vars, historyVars, UpToDateAnswered, UpToDate
<1>2. CASE HNext
  <2> SUFFICES ASSUME NEW r \in UpToDate', sched'[r].cur.job \in unanswered' PROVE FALSE
    BY DEF UpToDateAnswered
  <2> DEFINE n == sched'[r].cur.job
  <2>0. r \in Replicas
    BY DEF UpToDate
  <2>1. CASE n \in Notifications /\ inbox'[r][n] = inbox[r][n] + 1
    <3>1. inbox[r][n] \in Nat
      BY <2>0, <2>1 DEF TypeOK, Bag
    <3>2. inbox'[r][n] > inbox[r][n]
      BY <2>1, <3>1
    <3>3. n \in Published
      BY <2>0, <2>1, <3>2 DEF Published
    <3> QED BY <1>2, <3>3 DEF HNext
  <2>2. CASE r \in UpToDate /\ sched'[r] = sched[r] /\ jobs'[n] = jobs[n]
    <3>1. n \notin unanswered
      BY <2>2 DEF UpToDateAnswered
    <3>2. n \notin Exhausted
      BY <2>2 DEF Exhausted
    <3> QED BY <1>2, <3>1, <3>2 DEF HNext
  <2> QED BY <1>2, <2>1, <2>2, UpToDateStep
<1> QED BY <1>1, <1>2

\* A lost failure was overtaken, and stays so as long as it is lost.
LEMMA LostStep ==
    ASSUME Calls = {}, TypeOK, MarkedAfterInsert, UnsentIsAbsent, UpToDateAnswered,
           OvertakenIsPending, HNext, NEW n \in Notifications, Lost(n) => n \in overtaken,
           Lost(n)'
    PROVE  n \in overtaken'
<1>0. [Next]_vars
  BY DEF HNext
<1>1. n \notin Published /\ n \notin Attempted
  BY DEF HNext, Lost
<1>2. n \in unanswered
  BY <1>0, ExhaustedIsFailed DEF HNext, Lost
<1>3. LettersOf(letters, n) = {}
  BY <1>0, LettersStep DEF CreateLetter, LettersOf, Lost
<1>4. CASE Lost(n)
  <2>1. jobs[n].status = "PENDING" /\ n \in overtaken
    BY <1>4 DEF OvertakenIsPending
  <2>2. jobs'[n].status = "PENDING"
    <3> SUFFICES ASSUME jobs'[n].status # jobs[n].status PROVE jobs'[n].status = "PENDING"
      BY <2>1
    <3>1. jobs'[n].status \notin {"DISPATCHED", "DELIVERED"}
      BY <1>1 DEF Attempted
    <3>2. ~SendCreate(n)
      BY <2>1 DEF SendCreate, UnsentIsAbsent, Stored
    <3>3. ~DeliveryFails(n)
      BY <2>1 DEF DeliveryFails
    <3>4. ASSUME NEW r \in Replicas, MarkDeadLettered(r), sched[r].cur.job = n PROVE FALSE
      BY <1>3, <3>4 DEF MarkDeadLettered, MarkedAfterInsert
    <3> QED BY <1>0, <3>1, <3>2, <3>3, <3>4, StatusStep, PendingWritten
  <2> QED BY <1>1, <2>1, <2>2 DEF HNext
<1>5. CASE ~Lost(n)
  <2>1. jobs[n].status = "FAILED" /\ jobs'[n].status # "FAILED"
    BY <1>2, <1>3, <1>5 DEF Lost
  <2>2. PICK r \in Replicas : MarkPending(r) /\ sched[r].cur.job = n
    BY <1>5, LossStep
  <2>3. jobs'[n].status = "PENDING"
    BY <2>1, <2>2, PendingWritten
  <2>4. r \notin UpToDate
    BY <1>2, <2>2 DEF UpToDateAnswered
  <2> QED BY <1>1, <2>1, <2>2, <2>3, <2>4, PendingOvertakes
<1> QED BY <1>4, <1>5

\* As long as nobody replays, no error, no crash and no race of two passes
\* loses a failure: it is in sight, or under a PENDING that overtook it.
THEOREM LostAreOvertaken ==
    ASSUME Calls = {}
    PROVE  HSpec => []LostOnlyOvertaken
<1> DEFINE IInv == /\ UnsentIsAbsent
                   /\ UpToDateAnswered
                   /\ OvertakenIsPending
                   /\ unanswered \subseteq Notifications
                   /\ \A n \in Notifications : Lost(n) => n \in overtaken
<1>1. HInit => IInv
  BY DEF HInit, Init, UnsentIsAbsent, Stored, NoRow, UpToDateAnswered, UpToDate,
         OvertakenIsPending, IdleScheduler, Lost
<1>2. TypeOK /\ MarkedAfterInsert /\ IInv /\ [HNext]_allVars => IInv'
  <2> SUFFICES ASSUME TypeOK, MarkedAfterInsert, IInv, [HNext]_allVars
               PROVE  IInv'
    OBVIOUS
  <2>1. UnsentIsAbsent'
    BY AbsentStays DEF HNext, allVars
  <2>2. UpToDateAnswered' /\ OvertakenIsPending'
    BY AnsweredStays, OvertakenStays
  <2>3. unanswered' \subseteq Notifications
    BY DEF HNext, Exhausted, allVars, historyVars
  <2>4. ASSUME NEW n \in Notifications, Lost(n)' PROVE n \in overtaken'
    <3>1. CASE HNext
      BY <2>4, <3>1, LostStep
    <3>2. CASE UNCHANGED allVars
      BY <2>4, <3>2 DEF allVars, vars, historyVars, Lost
    <3> QED BY <3>1, <3>2
  <2> QED BY <2>1, <2>2, <2>3, <2>4
<1>3. IInv => LostOnlyOvertaken
  BY DEF LostOnlyOvertaken, Lost
<1> QED
  BY <1>1, <1>2, <1>3, HistoryTypes, HistoryIsBehaviour, MarkedIsInserted, PTL
     DEF HSpec

----------------------------------------------------------------------------
(* Stranded notifications are overtaken                                    *)

\* The message of an up-to-date scheduler is on its way through its own process.
OnItsWay(r, n) ==
    \/ ~Stored(jobs, n)
    \/ inbox[r][n] > 0
    \/ jobs[n].status = "DISPATCHED" /\ (working[r] = n \/ delivering[r][n] > 0)

UpToDateOnItsWay ==
    \A r \in UpToDate, n \in Notifications : sched[r].cur.job = n => OnItsWay(r, n)

\* Without a fault only a worker of the process itself moves the message on.
LEMMA MessageLeft ==
    ASSUME TypeOK, [Next]_vars, faults' = faults, NEW r \in Replicas, ~WorkerStep(r),
           NEW n \in Notifications
    PROVE  /\ inbox[r][n] > 0 => inbox'[r][n] > 0
           /\ working'[r] = working[r]
           /\ delivering'[r] = delivering[r]
<1> DEFINE Left == /\ inbox[r][n] > 0 => inbox'[r][n] > 0
                   /\ working'[r] = working[r]
                   /\ delivering'[r] = delivering[r]
<1>0. /\ inbox \in Bag /\ delivering \in Bag
      /\ working \in [Replicas -> Notifications \cup {None}]
  BY DEF TypeOK
<1>1. ASSUME NEW m \in Notifications, NEW ok \in BOOLEAN, Publish(m, ok)
      PROVE  inbox[r][n] > 0 => inbox'[r][n] > 0
  BY <1>1, PublishLaunches
<1>2. ASSUME NEW q \in Replicas, SchedulerStep(q) PROVE Left
  <2>1. CASE ReEnqueue(q)
    <3>1. PICK s \in sched[q].batch, ok \in BOOLEAN : Publish(s.job, ok)
      BY <2>1 DEF ReEnqueue
    <3>2. s.job \in Notifications
      BY DEF TypeOK, Scheduler, Snapshot
    <3> QED BY <1>1, <2>1, <3>1, <3>2 DEF ReEnqueue, workerVars
  <2> QED
    BY <1>2, <2>1 DEF SchedulerStep, Poll, MarkPending, DeadLetter, MarkDeadLettered,
                      CountFailed, workerVars
<1>3. ASSUME NEW q \in Replicas, WorkerStep(q) PROVE Left
  <2>1. q # r
    BY <1>3
  <2> QED
    BY <1>0, <1>3, <2>1 DEF WorkerStep, Dispatch, StartDelivery, Deliver, CountDelivered, Bag
<1>4. ASSUME NEW m \in Notifications, SendStep(m) PROVE Left
  <2>1. CASE SendPublish(m)
    BY <1>1, <2>1 DEF SendPublish, workerVars
  <2> QED BY <1>4, <2>1 DEF SendStep, SendCreate, SendCount, workerVars
<1>5. ASSUME NEW c \in Calls, ReplayLookup(c) \/ ReplayStep(c) PROVE Left
  <2>1. CASE ReplayPublish(c)
    <3>1. replay[c].job \in Notifications
      BY <2>1 DEF ReplayPublish, TypeOK, ReplayCall, NoReplay
    <3> QED BY <1>1, <2>1, <3>1 DEF ReplayPublish, workerVars
  <2> QED
    BY <1>5, <2>1 DEF ReplayLookup, ReplayStep, ReplayReset, ReplayDelete, ReplayCount, workerVars
<1>6. CASE Environment
  <2>1. ~\E q \in Replicas : Crash(q)
    BY DEF Crash, Call, TypeOK
  <2>2. ~\E q \in Replicas, m \in Notifications : LoseMessage(q, m)
    BY DEF LoseMessage, Call, TypeOK
  <2> QED
    BY <1>6, <2>1, <2>2 DEF Environment, DeliveryFails, RetryFallsDue, Restart, workerVars
<1>7. CASE UNCHANGED vars
  BY <1>7 DEF vars
<1> QED BY <1>2, <1>3, <1>4, <1>5, <1>6, <1>7 DEF Next, ServerStep

\* As long as the row is not written, a step without a fault leaves the message
\* of an up-to-date scheduler on its way.
LEMMA WayGoesOn ==
    ASSUME TypeOK, [Next]_vars, faults' = faults, NEW r \in Replicas, NEW n \in Notifications,
           jobs'[n] = jobs[n], OnItsWay(r, n)
    PROVE  OnItsWay(r, n)'
<1>0. /\ inbox \in Bag /\ delivering \in Bag /\ faults \in Nat
      /\ working \in [Replicas -> Notifications \cup {None}]
      /\ jobs \in [Notifications -> JobRow]
  BY DEF TypeOK
<1>1. CASE ~Stored(jobs, n)
  BY <1>1 DEF OnItsWay, Stored
<1>2. CASE ~WorkerStep(r)
  BY <1>2, MessageLeft DEF OnItsWay, Stored
<1>3. CASE Stored(jobs, n) /\ Dispatch(r)
  <2>1. PICK m \in Notifications, ok \in BOOLEAN :
            /\ working[r] = None
            /\ inbox' = [inbox EXCEPT ![r][m] = @ - 1]
            /\ Call(ok)
            /\ jobs' \in Outcomes(jobs, UpdateStatus(jobs, m, "DISPATCHED"), ok)
            /\ working' = [working EXCEPT ![r] = IF ok THEN m ELSE None]
            /\ delivering' = delivering
    BY <1>3 DEF Dispatch
  <2>2. ok
    BY <1>0, <2>1 DEF Call
  <2>3. CASE m = n
    <3>1. jobs' = [jobs EXCEPT ![n].status = "DISPATCHED"]
      BY <1>3, <2>1, <2>2, <2>3 DEF Outcomes, UpdateStatus
    <3>2. jobs'[n].status = "DISPATCHED"
      BY <1>0, <3>1 DEF JobRow
    <3>3. working'[r] = n
      BY <1>0, <2>1, <2>2, <2>3
    <3> QED BY <3>2, <3>3 DEF OnItsWay
  <2>4. CASE m # n
    <3>1. inbox'[r][n] = inbox[r][n]
      BY <1>0, <2>1, <2>4 DEF Bag
    <3>2. working[r] # n
      BY <2>1, ConstantsAssumption
    <3> QED BY <1>3, <2>1, <3>1, <3>2 DEF OnItsWay
  <2> QED BY <2>3, <2>4
<1>4. CASE StartDelivery(r)
  <2>1. /\ inbox' = inbox
        /\ working[r] # None
        /\ delivering' = [delivering EXCEPT ![r][working[r]] = @ + 1]
    BY <1>4 DEF StartDelivery
  <2>2. /\ working[r] = n => delivering'[r][n] > 0
        /\ delivering[r][n] > 0 => delivering'[r][n] > 0
    BY <1>0, <2>1 DEF Bag
  <2> QED BY <2>1, <2>2 DEF OnItsWay, Stored
<1>5. CASE Stored(jobs, n) /\ Deliver(r)
  <2>1. PICK m \in Notifications, ok \in BOOLEAN :
            /\ delivering' = [delivering EXCEPT ![r][m] = @ - 1]
            /\ Call(ok)
            /\ jobs' \in Outcomes(jobs, UpdateStatus(jobs, m, "DELIVERED"), ok)
    BY <1>5 DEF Deliver
  <2>2. ok /\ inbox' = inbox /\ working' = working
    BY <1>0, <1>5, <2>1 DEF Call, Deliver
  <2>3. CASE m = n
    <3>1. jobs' = [jobs EXCEPT ![n].status = "DELIVERED"]
      BY <1>5, <2>1, <2>2, <2>3 DEF Outcomes, UpdateStatus
    <3>2. jobs'[n].status = "DELIVERED"
      BY <1>0, <3>1 DEF JobRow
    <3>3. inbox[r][n] > 0
      BY <1>5, <3>2 DEF OnItsWay
    <3> QED BY <2>2, <3>3 DEF OnItsWay
  <2>4. CASE m # n
    <3>1. delivering'[r][n] = delivering[r][n]
      BY <1>0, <2>1, <2>4 DEF Bag
    <3> QED BY <2>2, <3>1 DEF OnItsWay, Stored
  <2> QED BY <2>3, <2>4
<1>6. CASE CountDelivered(r)
  BY <1>6 DEF CountDelivered, OnItsWay, Stored
<1> QED BY <1>1, <1>2, <1>3, <1>4, <1>5, <1>6 DEF WorkerStep

LEMMA OnItsWayStays ==
    ASSUME TypeOK, HNext, faults' = faults, UpToDateOnItsWay
    PROVE  UpToDateOnItsWay'
<1> SUFFICES ASSUME NEW r \in UpToDate', NEW n \in Notifications, sched'[r].cur.job = n
             PROVE  OnItsWay(r, n)'
  BY DEF UpToDateOnItsWay
<1>0. r \in Replicas /\ [Next]_vars
  BY DEF UpToDate, HNext
<1>1. CASE inbox'[r][n] = inbox[r][n] + 1
  <2>1. inbox[r][n] \in Nat
    BY <1>0 DEF TypeOK, Bag
  <2> QED BY <1>1, <2>1 DEF OnItsWay
<1>2. CASE r \in UpToDate /\ sched'[r] = sched[r] /\ jobs'[n] = jobs[n]
  BY <1>0, <1>2, WayGoesOn DEF UpToDateOnItsWay
<1> QED BY <1>1, <1>2, UpToDateStep

\* A stranded notification was overtaken, and stays so as long as it stands.
LEMMA StrandStep ==
    ASSUME TypeOK, TypeOK', CallsAreLive, UpToDateOnItsWay, OvertakenIsPending, HNext,
           faults' = faults, NEW n \in Notifications, Stranded(n) => n \in overtaken,
           Stranded(n)'
    PROVE  n \in overtaken'
<1>0. [Next]_vars
  BY DEF HNext
<1>1. \A r \in Replicas : inbox'[r][n] = 0 /\ inbox[r][n] \in Nat
  BY DEF TypeOK, Bag, Stranded, InFlight
<1>2. n \notin Published
  BY <1>1 DEF Published
<1>3. CASE Stranded(n)
  <2>1. jobs[n].status = "PENDING" /\ n \in overtaken
    BY <1>3 DEF OvertakenIsPending
  <2>2. jobs'[n].status = "PENDING"
    <3> SUFFICES ASSUME jobs'[n].status # jobs[n].status PROVE jobs'[n].status = "PENDING"
      BY <2>1
    <3>1. ~(jobs'[n].status = "DISPATCHED" /\ \E r \in Replicas : inbox[r][n] > 0)
      BY <1>3 DEF Stranded, InFlight
    <3>2. jobs'[n].status \notin {"DELIVERED", "FAILED", "DEAD_LETTERED"}
      BY DEF Stranded
    <3>3. ~SendCreate(n)
      BY <1>3 DEF SendCreate, Stranded
    <3>4. ~DeliveryFails(n)
      BY <2>1 DEF DeliveryFails
    <3>5. ASSUME NEW r \in Replicas, MarkDeadLettered(r), sched[r].cur.job = n PROVE FALSE
      <4>1. jobs' = jobs \/ jobs' = UpdateStatus(jobs, n, "DEAD_LETTERED")
        BY <3>5 DEF MarkDeadLettered, Outcomes
      <4> QED BY <3>2, <4>1 DEF UpdateStatus, TypeOK, JobRow
    <3>6. ASSUME NEW c \in Calls, ReplayReset(c), replay[c].job = n
          PROVE  jobs'[n].status = "PENDING"
      <4>1. jobs' = jobs \/ jobs' = ResetForReplay(jobs, n)
        BY <3>6 DEF ReplayReset, Outcomes
      <4> QED BY <4>1 DEF ResetForReplay, TypeOK
    <3> QED BY <1>0, <3>1, <3>2, <3>3, <3>4, <3>5, <3>6, StatusStep, PendingWritten
  <2> QED BY <1>2, <2>1, <2>2 DEF HNext
<1>4. CASE ~Stranded(n)
  <2>1. PICK r \in Replicas : MarkPending(r) /\ sched[r].cur.job = n
    BY <1>0, <1>4, StrandingStep
  <2>2. UNCHANGED <<inbox, working, delivering, replay, send>>
    BY <2>1 DEF MarkPending, workerVars, serverVars
  <2>3. jobs[n].status \notin {"ACCEPTED", "PENDING", "DISPATCHED"}
    BY <1>4, <2>2 DEF Stranded, InFlight
  <2>4. jobs' # jobs
    BY <2>3 DEF Stranded
  <2>5. jobs'[n].status = "PENDING" /\ Stored(jobs, n)
    BY <2>1, <2>4, PendingWritten
  <2>6. ~OnItsWay(r, n)
    BY <2>2, <2>3, <2>5 DEF OnItsWay, Stranded, InFlight
  <2>7. r \notin UpToDate
    BY <2>1, <2>6 DEF UpToDateOnItsWay
  <2> QED BY <1>2, <2>1, <2>3, <2>5, <2>7, PendingOvertakes
<1> QED BY <1>3, <1>4

\* Until the first fault an acknowledged notification stands still on the way
\* only under a PENDING that overtook it, for any replicas, attempts, failures
\* and replays (notify.go:144-195, worker.go:27-66, scheduler.go:106-143).
THEOREM StrandedAreOvertaken == HSpec => []StrandedOnlyOvertaken
<1> DEFINE Clean == faults = 0 => UpToDateOnItsWay
           IInv == /\ CallsAreLive
                   /\ OvertakenIsPending
                   /\ Clean
                   /\ StrandedOnlyOvertaken
<1>1. HInit => IInv
  BY DEF HInit, Init, CallsAreLive, NoReplay, OvertakenIsPending, UpToDateOnItsWay, UpToDate,
         IdleScheduler, StrandedOnlyOvertaken, Stranded
<1>2. TypeOK /\ TypeOK' /\ IInv /\ [HNext]_allVars => IInv'
  <2> SUFFICES ASSUME TypeOK, TypeOK', IInv, [HNext]_allVars
               PROVE  IInv'
    OBVIOUS
  <2>1. [Next]_vars
    BY DEF HNext, allVars, vars
  <2>2. CallsAreLive' /\ OvertakenIsPending'
    BY <2>1, CallsStayLive, OvertakenStays
  <2>3. CASE HNext
    <3>1. faults' = 0 => faults = 0
      BY <2>1, FaultsGrow
    <3>2. Clean'
      BY <2>3, <3>1, OnItsWayStays
    <3>3. StrandedOnlyOvertaken'
      BY <2>3, <3>1, StrandStep DEF StrandedOnlyOvertaken
    <3> QED BY <2>2, <3>2, <3>3
  <2>4. CASE UNCHANGED allVars
    BY <2>2, <2>4 DEF allVars, vars, historyVars, UpToDateOnItsWay, UpToDate, OnItsWay, Stored,
                      StrandedOnlyOvertaken, Stranded, InFlight
  <2> QED BY <2>3, <2>4
<1> QED BY <1>1, <1>2, HistoryTypes, PTL DEF HSpec

----------------------------------------------------------------------------
(* Counted failures                                                        *)

\* A snapshot of a job that has no attempts left.
Spent(s) == ~ShouldRetry(s.retryCount)

\* The row of n still says that its attempts are used up.
OpenFailure(n) == jobs[n].status = "FAILED" /\ ~ShouldRetry(jobs[n].retryCount)

\* A pass of r's scheduler is about to dead-letter n.
InPass(r, n) ==
    \/ \E s \in sched[r].batch : s.job = n /\ Spent(s)
    \/ sched[r].pc = "markDead" /\ sched[r].cur.job = n

\* The failures of v that a replica may still come to count: it has the
\* notification in its pass, or would read it at its next poll.
Uncounted(v) ==
    {p \in Notifications \X Replicas :
        Owner[p[1]] = v /\ (OpenFailure(p[1]) \/ InPass(p[2], p[1]))}

\* The replicas that are about to count a failure of v.
AtCount(v) == {r \in Replicas : sched[r].pc = "count" /\ Owner[sched[r].cur.job] = v}

\* A pass goes over every job once.
PassInv ==
    \A r \in Replicas :
        /\ \A s, t \in sched[r].batch : s.job = t.job => s = t
        /\ sched[r].pc # "loop" => \A s \in sched[r].batch : s.job # sched[r].cur.job

\* Every count of a failure, made or to be made, is paid for by an exhausted
\* retry budget, which pays for one count of each replica.
PaidFor(v) ==
    stats[v]["FAILED"] + Cardinality(Uncounted(v)) + Cardinality(AtCount(v))
        <= Cardinality(Replicas) * exhaustions[v]

CountInv ==
    /\ exhaustions \in [Services -> Nat]
    /\ PassInv
    /\ \A v \in Services : PaidFor(v)

----------------------------------------------------------------------------
(* What the steps do to the tables and to the history                      *)

\* A row becomes FAILED only by a delivery that fails.
LEMMA OpenLeft ==
    ASSUME TypeOK, [Next]_vars, ~\E n \in Notifications : DeliveryFails(n)
    PROVE  \A n \in Notifications : OpenFailure(n)' => OpenFailure(n)
BY FailedStep DEF OpenFailure, ShouldRetry

\* The FAILED statistics are written by CountFailed alone.
LEMMA FailedLeft ==
    ASSUME TypeOK, [Next]_vars, ~\E r \in Replicas : CountFailed(r), NEW v \in Services
    PROVE  stats'[v]["FAILED"] = stats[v]["FAILED"]
<1>0. stats \in [Services -> [StatStatuses -> Nat]]
  BY DEF TypeOK
<1>1. ASSUME NEW n \in Notifications, NEW status \in StatStatuses \ {"FAILED"}, Count(n, status)
      PROVE  stats'[v]["FAILED"] = stats[v]["FAILED"]
  BY <1>0, <1>1, ConstantsAssumption DEF Count, Outcomes, IncrementStats, StatStatuses
<1>2. ASSUME NEW r \in Replicas, SchedulerStep(r)
      PROVE  stats' = stats
  BY <1>2 DEF SchedulerStep, Poll, ReEnqueue, MarkPending, DeadLetter, MarkDeadLettered, storeVars
<1>3. ASSUME NEW r \in Replicas, WorkerStep(r)
      PROVE  stats'[v]["FAILED"] = stats[v]["FAILED"]
  <2>1. CASE StartDelivery(r)
    <3>1. working[r] \in Notifications /\ Count(working[r], "DISPATCHED")
      BY <2>1 DEF StartDelivery, TypeOK
    <3> QED BY <1>1, <3>1 DEF StatStatuses
  <2>2. CASE CountDelivered(r)
    <3>1. PICK n \in Notifications : Count(n, "DELIVERED")
      BY <2>2 DEF CountDelivered
    <3> QED BY <1>1, <3>1 DEF StatStatuses
  <2> QED BY <1>3, <2>1, <2>2 DEF WorkerStep, Dispatch, Deliver
<1>4. ASSUME NEW n \in Notifications, SendStep(n)
      PROVE  stats'[v]["FAILED"] = stats[v]["FAILED"]
  BY <1>1, <1>4 DEF SendStep, SendCreate, SendCount, SendPublish, StatStatuses, storeVars
<1>5. ASSUME NEW c \in Calls, ReplayLookup(c) \/ ReplayStep(c)
      PROVE  stats'[v]["FAILED"] = stats[v]["FAILED"]
  <2>1. CASE ReplayCount(c)
    <3>1. replay[c].job \in Notifications /\ Count(replay[c].job, "ACCEPTED")
      BY <2>1 DEF ReplayCount, TypeOK, ReplayCall, NoReplay
    <3> QED BY <1>1, <3>1 DEF StatStatuses
  <2> QED
    BY <1>5, <2>1 DEF ReplayLookup, ReplayStep, ReplayReset, ReplayPublish, ReplayDelete, storeVars
<1>6. CASE Environment \/ UNCHANGED vars
  BY <1>6 DEF Environment, DeliveryFails, RetryFallsDue, LoseMessage, Crash, Restart, storeVars, vars
<1> QED BY <1>2, <1>3, <1>4, <1>5, <1>6 DEF Next, ServerStep

\* The step of one replica counts a failure by its own CountFailed alone.
LEMMA FailedOfOne ==
    ASSUME NEW r \in Replicas, SchedulerStep(r) \/ Crash(r), ~CountFailed(r), NEW v \in Services
    PROVE  stats'[v]["FAILED"] = stats[v]["FAILED"]
BY DEF SchedulerStep, Poll, ReEnqueue, MarkPending, DeadLetter, MarkDeadLettered, Crash, storeVars

\* The schedulers move by themselves or with a crash.
LEMMA SchedLeft ==
    ASSUME [Next]_vars, ~\E r \in Replicas : SchedulerStep(r) \/ Crash(r)
    PROVE  sched' = sched
BY DEF Next, WorkerStep, Dispatch, StartDelivery, Deliver, CountDelivered, ServerStep, SendStep,
       SendCreate, SendCount, SendPublish, ReplayLookup, ReplayStep, ReplayReset, ReplayPublish,
       ReplayDelete, ReplayCount, Environment, DeliveryFails, RetryFallsDue, LoseMessage, Restart,
       vars

\* The budgets are counted up, by one for a delivery that fails for the last time.
LEMMA ExhaustionsGrow ==
    ASSUME IsFiniteSet(Notifications), exhaustions \in [Services -> Nat], [HNext]_allVars
    PROVE  /\ exhaustions' \in [Services -> Nat]
           /\ \A v \in Services : exhaustions'[v] >= exhaustions[v]
           /\ HNext => \A n \in Exhausted :
                Owner[n] \in Services => exhaustions'[Owner[n]] >= exhaustions[Owner[n]] + 1
<1> DEFINE Of(v) == {n \in Exhausted : Owner[n] = v}
<1>1. ASSUME NEW v
      PROVE  IsFiniteSet(Of(v)) /\ Cardinality(Of(v)) \in Nat /\ (Cardinality(Of(v)) = 0 <=> Of(v) = {})
  <2>1. Of(v) \in SUBSET Notifications
    BY DEF Exhausted
  <2>2. IsFiniteSet(Of(v))
    BY <2>1, FS_Subset
  <2> QED BY <2>2, FS_CardinalityType, FS_EmptySet
<1>2. CASE ~HNext
  <2>1. exhaustions' = exhaustions
    BY <1>2 DEF allVars, historyVars
  <2>2. \A v \in Services : exhaustions[v] \in Nat
    OBVIOUS
  <2> QED BY <1>2, <2>1, <2>2
<1>3. CASE HNext
  <2>1. exhaustions' = [v \in Services |-> exhaustions[v] + Cardinality(Of(v))]
    BY <1>3 DEF HNext
  <2> HIDE DEF Of
  <2>2. \A v \in Services : exhaustions'[v] = exhaustions[v] + Cardinality(Of(v))
    BY <2>1
  <2>3. \A v \in Services : exhaustions[v] \in Nat
    OBVIOUS
  <2>4. exhaustions' \in [Services -> Nat]
    BY <1>1, <2>1, <2>3
  <2>5. \A v \in Services : exhaustions'[v] >= exhaustions[v]
    BY <1>1, <2>2, <2>3
  <2>6. ASSUME NEW n \in Exhausted, Owner[n] \in Services
        PROVE  exhaustions'[Owner[n]] >= exhaustions[Owner[n]] + 1
    <3>1. n \in Of(Owner[n])
      BY DEF Of
    <3>2. Cardinality(Of(Owner[n])) \in Nat /\ Cardinality(Of(Owner[n])) # 0
      BY <1>1, <3>1
    <3> QED BY <2>2, <2>3, <2>6, <3>2
  <2> QED BY <2>4, <2>5, <2>6
<1> QED BY <1>2, <1>3

----------------------------------------------------------------------------
(* The account                                                             *)

LEMMA AccountFinite ==
    ASSUME IsFiniteSet(Notifications), IsFiniteSet(Replicas), NEW v
    PROVE  /\ IsFiniteSet(Uncounted(v)) /\ Cardinality(Uncounted(v)) \in Nat
           /\ IsFiniteSet(Uncounted(v)') /\ Cardinality(Uncounted(v)') \in Nat
           /\ IsFiniteSet(AtCount(v)) /\ Cardinality(AtCount(v)) \in Nat
           /\ IsFiniteSet(AtCount(v)') /\ Cardinality(AtCount(v)') \in Nat
           /\ Cardinality(Replicas) \in Nat
<1>1. IsFiniteSet(Notifications \X Replicas)
  BY FS_Product
<1>2. /\ Uncounted(v) \in SUBSET (Notifications \X Replicas)
      /\ Uncounted(v)' \in SUBSET (Notifications \X Replicas)
      /\ AtCount(v) \in SUBSET Replicas
      /\ AtCount(v)' \in SUBSET Replicas
  BY DEF Uncounted, AtCount
<1>3. /\ IsFiniteSet(Uncounted(v)) /\ IsFiniteSet(Uncounted(v)')
      /\ IsFiniteSet(AtCount(v)) /\ IsFiniteSet(AtCount(v)')
  BY <1>1, <1>2, FS_Subset
<1> QED BY <1>3, FS_CardinalityType

\* A larger budget pays for as much, and one more for one more of each replica.
LEMMA BudgetPays ==
    ASSUME NEW k \in Nat, NEW e \in Nat, NEW f \in Nat
    PROVE  /\ e <= f => k * e <= k * f
           /\ e + 1 <= f => k * e + k <= k * f
<1>1. PICK d \in Int : f = e + d
  <2>1. f - e \in Int /\ f = e + (f - e)
    OBVIOUS
  <2> QED BY <2>1
<1>2. k * f = k * e + k * d /\ k * d \in Int /\ k * e \in Int
  BY <1>1
<1>3. e <= f => d \in Nat
  BY <1>1
<1>4. d \in Nat => k * d \in Nat
  OBVIOUS
<1>5. e + 1 <= f => (d - 1) \in Nat /\ k * d = k * (d - 1) + k
  BY <1>1
<1>6. (d - 1) \in Nat => k * (d - 1) \in Nat
  OBVIOUS
<1> QED BY <1>2, <1>3, <1>4, <1>5, <1>6

\* The account after a step, from bounds on what the step changed: g is what it
\* adds to the counts, x to the places to count from, y to the counts in hand.
LEMMA AccountKept ==
    ASSUME IsFiniteSet(Notifications), IsFiniteSet(Replicas), TypeOK, TypeOK', CountInv,
           NEW v \in Services, exhaustions' \in [Services -> Nat],
           NEW g \in Int, NEW x \in Int, NEW y \in Int,
           stats'[v]["FAILED"] <= stats[v]["FAILED"] + g,
           Cardinality(Uncounted(v)') <= Cardinality(Uncounted(v)) + x,
           Cardinality(AtCount(v)') <= Cardinality(AtCount(v)) + y,
           \/ g + x + y <= 0 /\ exhaustions'[v] >= exhaustions[v]
           \/ g + x + y <= Cardinality(Replicas) /\ exhaustions'[v] >= exhaustions[v] + 1
    PROVE  PaidFor(v)'
<1> DEFINE f == stats[v]["FAILED"]
           h == stats'[v]["FAILED"]
           u == Cardinality(Uncounted(v))
           w == Cardinality(Uncounted(v)')
           a == Cardinality(AtCount(v))
           b == Cardinality(AtCount(v)')
           k == Cardinality(Replicas)
           paid == k * exhaustions[v]
           pays == k * exhaustions'[v]
<1>1. /\ f \in Nat /\ h \in Nat /\ u \in Nat /\ w \in Nat /\ a \in Nat /\ b \in Nat /\ k \in Nat
      /\ exhaustions[v] \in Nat /\ exhaustions'[v] \in Nat
  BY AccountFinite DEF TypeOK, StatStatuses, CountInv
<1>2. f + u + a <= paid
  BY DEF CountInv, PaidFor
<1>3. /\ exhaustions'[v] >= exhaustions[v] => paid <= pays
      /\ exhaustions'[v] >= exhaustions[v] + 1 => paid + k <= pays
      /\ paid \in Int /\ pays \in Int
  <2> HIDE DEF k
  <2>1. exhaustions[v] <= exhaustions'[v] => k * exhaustions[v] <= k * exhaustions'[v]
    BY <1>1, BudgetPays
  <2>2. exhaustions[v] + 1 <= exhaustions'[v] => k * exhaustions[v] + k <= k * exhaustions'[v]
    BY <1>1, BudgetPays
  <2> QED BY <1>1, <2>1, <2>2
<1>4. h + w + b <= pays
  <2>1. h <= f + g /\ w <= u + x /\ b <= a + y
    OBVIOUS
  <2>2. \/ g + x + y <= 0 /\ paid <= pays
        \/ g + x + y <= k /\ paid + k <= pays
    BY <1>3
  <2> HIDE DEF f, h, u, w, a, b, k, paid, pays
  <2> QED BY <1>1, <1>2, <1>3, <2>1, <2>2
<1> QED BY <1>4 DEF PaidFor

\* Nothing is counted, nothing more is to be counted.
LEMMA NothingMore ==
    ASSUME IsFiniteSet(Notifications), IsFiniteSet(Replicas), TypeOK, TypeOK', CountInv,
           NEW v \in Services,
           exhaustions' \in [Services -> Nat], exhaustions'[v] >= exhaustions[v],
           stats'[v]["FAILED"] = stats[v]["FAILED"],
           Uncounted(v)' \subseteq Uncounted(v),
           AtCount(v)' \subseteq AtCount(v)
    PROVE  PaidFor(v)'
<1>1. /\ Cardinality(Uncounted(v)') <= Cardinality(Uncounted(v)) + 0
      /\ Cardinality(AtCount(v)') <= Cardinality(AtCount(v)) + 0
  <2>1. /\ Cardinality(Uncounted(v)') <= Cardinality(Uncounted(v))
        /\ Cardinality(AtCount(v)') <= Cardinality(AtCount(v))
    BY AccountFinite, FS_Subset
  <2> QED BY <2>1, AccountFinite
<1>2. stats'[v]["FAILED"] <= stats[v]["FAILED"] + 0
  BY DEF TypeOK, StatStatuses
<1> QED BY <1>1, <1>2, AccountKept

\* A pass is its own replica's business.
LEMMA OtherPasses ==
    ASSUME TypeOK, NEW r \in Replicas, SchedulerStep(r) \/ Crash(r)
    PROVE  \A q \in Replicas \ {r} : sched'[q] = sched[q]
BY DEF SchedulerStep, Poll, ReEnqueue, MarkPending, DeadLetter, MarkDeadLettered, CountFailed,
       Crash, TypeOK

\* What a pass does to the jobs that are to be dead-lettered and counted.
LEMMA PassSteps ==
    ASSUME TypeOK, PassInv, NEW r \in Replicas, SchedulerStep(r) \/ Crash(r)
    PROVE  /\ PassInv'
           /\ \A q \in Replicas, n \in Notifications :
                InPass(q, n)' => InPass(q, n) \/ OpenFailure(n)
           /\ MarkDeadLettered(r) \/ \A v \in Services : AtCount(v)' \subseteq AtCount(v)
<1> DEFINE old == sched[r]
           new == sched'[r]
<1>0. /\ old \in Scheduler /\ sched \in [Replicas -> Scheduler]
      /\ \A s, t \in old.batch : s.job = t.job => s = t
      /\ old.pc # "loop" => \A s \in old.batch : s.job # old.cur.job
  BY DEF TypeOK, PassInv
<1> SUFFICES
      /\ \A s, t \in new.batch : s.job = t.job => s = t
      /\ new.pc # "loop" => \A s \in new.batch : s.job # new.cur.job
      /\ \A s \in new.batch : Spent(s) => InPass(r, s.job) \/ OpenFailure(s.job)
      /\ new.pc = "markDead" => InPass(r, new.cur.job)
      /\ MarkDeadLettered(r) \/ (new.pc = "count" => old.pc = "count" /\ new.cur = old.cur)
  <2>1. \A q \in Replicas \ {r} : sched'[q] = sched[q]
    BY OtherPasses
  <2>2. \A q \in Replicas \ {r}, n \in Notifications : InPass(q, n)' => InPass(q, n)
    BY <2>1 DEF InPass, Spent
  <2>3. PassInv'
    BY <2>1 DEF PassInv
  <2>4. \A n \in Notifications : InPass(r, n)' => InPass(r, n) \/ OpenFailure(n)
    BY DEF InPass, Spent
  <2>5. MarkDeadLettered(r) \/ \A v \in Services : AtCount(v)' \subseteq AtCount(v)
    BY <2>1 DEF AtCount
  <2> QED BY <2>2, <2>3, <2>4, <2>5
<1>1. ASSUME new.batch \subseteq old.batch, new.pc = "loop"
      PROVE  /\ \A s, t \in new.batch : s.job = t.job => s = t
             /\ \A s \in new.batch : Spent(s) => InPass(r, s.job)
  BY <1>0, <1>1 DEF InPass
<1>2. ASSUME NEW s \in old.batch, NEW pc \in {"markPending", "markDead"}, NEW ok \in BOOLEAN,
             sched' = [sched EXCEPT ![r] = Take(r, s, pc, ok)], old.pc = "loop",
             pc = "markDead" => Spent(s)
      PROVE  /\ \A q, t \in new.batch : q.job = t.job => q = t
             /\ new.pc # "loop" => \A q \in new.batch : q.job # new.cur.job
             /\ \A q \in new.batch : Spent(q) => InPass(r, q.job)
             /\ new.pc = "markDead" => InPass(r, new.cur.job)
             /\ new.pc # "count"
  <2>1. new = Take(r, s, pc, ok)
    BY <1>0, <1>2
  <2>2. CASE ok
    <3>1. new = [pc |-> pc, batch |-> old.batch \ {s}, cur |-> s]
      BY <2>1, <2>2 DEF Take
    <3>2. new.pc = pc /\ new.batch = old.batch \ {s} /\ new.cur = s
      BY <3>1
    <3> HIDE DEF new
    <3> QED BY <1>0, <1>2, <3>2 DEF InPass
  <2>3. CASE ~ok
    <3>1. new = [old EXCEPT !.batch = @ \ {s}]
      BY <2>1, <2>3 DEF Take
    <3>2. new.batch = old.batch \ {s} /\ new.pc = "loop"
      BY <1>0, <1>2, <3>1 DEF Scheduler
    <3> QED BY <1>1, <3>2
  <2> QED BY <2>2, <2>3
<1>3. CASE Poll(r)
  <2>1. PICK ok \in BOOLEAN : \E batch \in GetRetryableJobs(jobs, BatchLimit, ~ok) :
            sched' = [sched EXCEPT ![r].batch =
                        {[job |-> n, retryCount |-> jobs[n].retryCount] : n \in batch}]
    BY <1>3 DEF Poll
  <2>2. PICK batch \in SUBSET Due(jobs) :
            sched' = [sched EXCEPT ![r].batch =
                        {[job |-> n, retryCount |-> jobs[n].retryCount] : n \in batch}]
    BY <2>1 DEF GetRetryableJobs
  <2>3. new = [old EXCEPT !.batch =
                    {[job |-> n, retryCount |-> jobs[n].retryCount] : n \in batch}]
    BY <1>0, <2>2
  <2>4. /\ new.batch = {[job |-> n, retryCount |-> jobs[n].retryCount] : n \in batch}
        /\ new.pc = "loop"
    BY <1>0, <1>3, <2>3 DEF Scheduler, Poll, Idle
  <2>5. \A s \in new.batch : Spent(s) => OpenFailure(s.job)
    BY <2>4 DEF Due, Spent, OpenFailure
  <2> QED BY <2>4, <2>5
<1>4. CASE ReEnqueue(r)
  <2>1. PICK s \in old.batch, ok \in BOOLEAN :
            sched' = [sched EXCEPT ![r] = Take(r, s, "markPending", ok)]
    BY <1>4 DEF ReEnqueue
  <2> QED BY <1>2, <1>4, <2>1 DEF ReEnqueue, Idle
<1>5. CASE DeadLetter(r)
  <2>1. PICK s \in old.batch, ok \in BOOLEAN :
            Spent(s) /\ sched' = [sched EXCEPT ![r] = Take(r, s, "markDead", ok)]
    BY <1>5 DEF DeadLetter, Spent
  <2> QED BY <1>2, <1>5, <2>1 DEF DeadLetter, Idle
<1>6. CASE MarkDeadLettered(r)
  <2>1. PICK ok \in BOOLEAN : sched' =
            [sched EXCEPT ![r] = IF ok THEN [@ EXCEPT !.pc = "count"] ELSE Continue(r)]
    BY <1>6 DEF MarkDeadLettered
  <2>2. CASE ok
    <3>1. new = [old EXCEPT !.pc = "count"]
      BY <1>0, <2>1, <2>2
    <3>2. new.pc = "count" /\ new.batch = old.batch /\ new.cur = old.cur /\ old.pc = "markDead"
      BY <1>0, <1>6, <3>1 DEF Scheduler, MarkDeadLettered
    <3> QED BY <1>0, <1>6, <3>2 DEF InPass
  <2>3. CASE ~ok
    <3>1. new.pc = "loop" /\ new.batch = old.batch
      BY <1>0, <2>1, <2>3 DEF Continue
    <3> QED BY <1>1, <1>6, <3>1
  <2> QED BY <2>2, <2>3
<1>7. CASE MarkPending(r) \/ CountFailed(r)
  <2>1. new = Continue(r)
    BY <1>0, <1>7 DEF MarkPending, CountFailed
  <2>2. new.pc = "loop" /\ new.batch = old.batch
    BY <2>1 DEF Continue
  <2> QED BY <1>1, <2>2
<1>8. CASE Crash(r)
  <2>1. new = IdleScheduler
    BY <1>0, <1>8 DEF Crash
  <2>2. new.pc = "loop" /\ new.batch = {}
    BY <2>1 DEF IdleScheduler
  <2> QED BY <2>2
<1> QED BY <1>3, <1>4, <1>5, <1>6, <1>7, <1>8 DEF SchedulerStep

\* The failure that n is dead-lettered for is counted next.
LEMMA MarkedIsNext ==
    ASSUME IsFiniteSet(Notifications), IsFiniteSet(Replicas), TypeOK, PassInv, PassInv',
           NEW r \in Replicas, MarkDeadLettered(r), NEW v \in Services,
           Uncounted(v)' \subseteq Uncounted(v)
    PROVE  \/ AtCount(v)' \subseteq AtCount(v)
           \/ /\ Cardinality(Uncounted(v)') <= Cardinality(Uncounted(v)) - 1
              /\ Cardinality(AtCount(v)') <= Cardinality(AtCount(v)) + 1
<1>0. PICK n \in Notifications : n = sched[r].cur.job
  BY DEF MarkDeadLettered, TypeOK, Scheduler, Snapshot
<1>1. sched[r].pc = "markDead" /\ n = sched[r].cur.job /\ sched \in [Replicas -> Scheduler]
  BY <1>0 DEF MarkDeadLettered, TypeOK
<1>2. \A q \in Replicas \ {r} : sched'[q] = sched[q]
  BY OtherPasses DEF SchedulerStep
<1>3. AtCount(v)' \subseteq AtCount(v) \cup {r}
  BY <1>2 DEF AtCount
<1>4. SUFFICES ASSUME r \in AtCount(v)'
               PROVE  /\ Cardinality(Uncounted(v)') <= Cardinality(Uncounted(v)) - 1
                      /\ Cardinality(AtCount(v)') <= Cardinality(AtCount(v)) + 1
  BY <1>3
<1>5. PICK ok \in BOOLEAN :
        /\ jobs' \in Outcomes(jobs, UpdateStatus(jobs, n, "DEAD_LETTERED"), ok)
        /\ sched' = [sched EXCEPT ![r] = IF ok THEN [@ EXCEPT !.pc = "count"] ELSE Continue(r)]
  BY <1>1 DEF MarkDeadLettered
<1>6. ok
  BY <1>1, <1>4, <1>5 DEF AtCount, Continue
<1>7. sched'[r] = [sched[r] EXCEPT !.pc = "count"]
  BY <1>1, <1>5, <1>6
<1>8. /\ sched'[r].pc = "count" /\ sched'[r].batch = sched[r].batch
      /\ sched'[r].cur = sched[r].cur
  BY <1>1, <1>7 DEF Scheduler
<1>9. Owner[n] = v
  BY <1>1, <1>4, <1>8 DEF AtCount
<1>10. <<n, r>> \in Uncounted(v)
  BY <1>1, <1>9 DEF Uncounted, InPass
<1>11. ~InPass(r, n)'
  BY <1>1, <1>8 DEF InPass, PassInv
<1>12. ~OpenFailure(n)'
  BY <1>1, <1>5, <1>6 DEF Outcomes, UpdateStatus, Stored, OpenFailure, TypeOK, JobRow
<1>13. Uncounted(v)' \subseteq Uncounted(v) \ {<<n, r>>}
  BY <1>11, <1>12 DEF Uncounted
<1>14. /\ Cardinality(Uncounted(v) \ {<<n, r>>}) = Cardinality(Uncounted(v)) - 1
       /\ IsFiniteSet(Uncounted(v) \ {<<n, r>>})
  BY <1>10, AccountFinite, FS_RemoveElement
<1>15. Cardinality(Uncounted(v)') <= Cardinality(Uncounted(v) \ {<<n, r>>})
  BY <1>13, <1>14, FS_Subset
<1>16. /\ IsFiniteSet(AtCount(v) \cup {r})
       /\ \/ Cardinality(AtCount(v) \cup {r}) = Cardinality(AtCount(v)) + 1
          \/ Cardinality(AtCount(v) \cup {r}) = Cardinality(AtCount(v))
  BY AccountFinite, FS_AddElement
<1>17. Cardinality(AtCount(v)') <= Cardinality(AtCount(v) \cup {r})
  BY <1>3, <1>16, FS_Subset
<1> QED BY <1>14, <1>15, <1>16, <1>17, AccountFinite

\* A count turns what was to be counted into what is counted.
LEMMA CountedIsPaid ==
    ASSUME IsFiniteSet(Notifications), IsFiniteSet(Replicas), TypeOK, TypeOK', CountInv,
           NEW r \in Replicas, CountFailed(r), NEW v \in Services,
           exhaustions' \in [Services -> Nat], exhaustions'[v] >= exhaustions[v],
           Uncounted(v)' \subseteq Uncounted(v)
    PROVE  PaidFor(v)'
<1>1. PICK n \in Notifications : n = sched[r].cur.job /\ sched[r].pc = "count"
  BY DEF CountFailed, TypeOK, Scheduler, Snapshot
<1>2. sched' = [sched EXCEPT ![r] = Continue(r)] /\ sched \in [Replicas -> Scheduler]
  BY DEF CountFailed, TypeOK
<1>3. AtCount(v)' \subseteq AtCount(v) \ {r}
  BY <1>2 DEF AtCount, Continue
<1>4. stats' = stats \/ stats' = IncrementStats(stats, Owner[n], "FAILED")
  BY <1>1 DEF CountFailed, Count, Outcomes
<1>5. \/ stats'[v]["FAILED"] = stats[v]["FAILED"]
      \/ Owner[n] = v /\ stats'[v]["FAILED"] = stats[v]["FAILED"] + 1
  <2>1. stats \in [Services -> [StatStatuses -> Nat]] /\ "FAILED" \in StatStatuses
    BY DEF TypeOK, StatStatuses
  <2>2. CASE stats' = stats
    BY <2>2
  <2>3. CASE stats' = [stats EXCEPT ![Owner[n]]["FAILED"] = @ + 1]
    BY <2>1, <2>3
  <2> QED BY <1>4, <2>2, <2>3 DEF IncrementStats
<1>6. CASE stats'[v]["FAILED"] = stats[v]["FAILED"]
  BY <1>3, <1>6, NothingMore
<1>7. CASE Owner[n] = v /\ stats'[v]["FAILED"] = stats[v]["FAILED"] + 1
  <2>1. r \in AtCount(v)
    BY <1>1, <1>7 DEF AtCount
  <2>2. /\ IsFiniteSet(AtCount(v) \ {r})
        /\ Cardinality(AtCount(v) \ {r}) = Cardinality(AtCount(v)) - 1
    BY <2>1, AccountFinite, FS_RemoveElement
  <2>3. Cardinality(AtCount(v)') <= Cardinality(AtCount(v)) + (0 - 1)
    <3>1. Cardinality(AtCount(v)') <= Cardinality(AtCount(v) \ {r})
      BY <1>3, <2>2, FS_Subset
    <3> QED BY <2>2, <3>1, AccountFinite
  <2>4. Cardinality(Uncounted(v)') <= Cardinality(Uncounted(v)) + 0
    <3>1. Cardinality(Uncounted(v)') <= Cardinality(Uncounted(v))
      BY AccountFinite, FS_Subset
    <3> QED BY <3>1, AccountFinite
  <2>5. stats'[v]["FAILED"] <= stats[v]["FAILED"] + 1
    BY <1>7 DEF TypeOK, StatStatuses
  <2>6. 1 + 0 + (0 - 1) <= 0 /\ (0 - 1) \in Int
    OBVIOUS
  <2> QED BY <2>3, <2>4, <2>5, <2>6, AccountKept
<1> QED BY <1>5, <1>6, <1>7

\* A delivery that fails opens an account for every replica, and pays for it if
\* the budget is exhausted.
LEMMA FailureIsPaid ==
    ASSUME IsFiniteSet(Notifications), IsFiniteSet(Replicas), TypeOK, TypeOK', CountInv,
           HNext, NEW n \in Notifications, DeliveryFails(n)
    PROVE  CountInv'
<1>1. /\ exhaustions' \in [Services -> Nat]
      /\ \A v \in Services : exhaustions'[v] >= exhaustions[v]
      /\ \A m \in Exhausted :
            Owner[m] \in Services => exhaustions'[Owner[m]] >= exhaustions[Owner[m]] + 1
  BY ExhaustionsGrow DEF CountInv
<1>2. UNCHANGED <<sched, stats>> /\ jobs' = FailJob(jobs, n, "future") /\ failures' = failures + 1
  BY DEF DeliveryFails
<1>3. jobs[n].status = "DELIVERED" /\ jobs \in [Notifications -> JobRow] /\ failures \in Nat
  BY DEF DeliveryFails, TypeOK
<1>4. failures' # failures
  BY <1>2, <1>3
<1>5. \A m \in Notifications \ {n} : OpenFailure(m)' => OpenFailure(m)
  BY <1>2, <1>3 DEF FailJob, OpenFailure
<1>6. OpenFailure(n)' => n \in Exhausted
  BY <1>2, <1>3, <1>4 DEF FailJob, OpenFailure, Exhausted
<1>7. \A r, m : InPass(r, m)' <=> InPass(r, m)
  BY <1>2 DEF InPass, Spent
<1>8. PassInv'
  BY <1>2 DEF CountInv, PassInv
<1>9. ASSUME NEW v \in Services
      PROVE  PaidFor(v)'
  <2>1. AtCount(v)' = AtCount(v)
    BY <1>2 DEF AtCount
  <2>2. CASE OpenFailure(n)' /\ Owner[n] = v
    <3>1. exhaustions'[v] >= exhaustions[v] + 1
      BY <1>1, <1>6, <2>2
    <3>2. Uncounted(v)' \subseteq Uncounted(v) \cup ({n} \X Replicas)
      BY <1>5, <1>7 DEF Uncounted
    <3>3. /\ IsFiniteSet({n} \X Replicas)
          /\ Cardinality({n} \X Replicas) = Cardinality(Replicas)
      <4>1. IsFiniteSet({n}) /\ Cardinality({n}) = 1
        BY FS_Singleton
      <4>2. Cardinality({n} \X Replicas) = 1 * Cardinality(Replicas)
        BY <4>1, FS_Product
      <4> QED BY <4>1, <4>2, FS_Product, AccountFinite
    <3> DEFINE old == Uncounted(v)
               new == {n} \X Replicas
    <3>4. /\ IsFiniteSet(old \cup new)
          /\ Cardinality(old \cup new) = Cardinality(old) + Cardinality(new) - Cardinality(old \cap new)
          /\ Cardinality(old \cap new) \in Nat
      <4>1. IsFiniteSet(old) /\ IsFiniteSet(new)
        BY <3>3, AccountFinite
      <4> HIDE DEF old, new
      <4> QED BY <4>1, FS_Union, FS_Intersection, FS_CardinalityType
    <3>5. Cardinality(Uncounted(v)') <= Cardinality(old \cup new)
      BY <3>2, <3>4, FS_Subset
    <3>6. Cardinality(Uncounted(v)') <= Cardinality(Uncounted(v)) + Cardinality(Replicas)
      BY <3>3, <3>4, <3>5, AccountFinite
    <3>7. Cardinality(AtCount(v)') <= Cardinality(AtCount(v)) + 0
      BY <2>1, AccountFinite
    <3>8. stats'[v]["FAILED"] <= stats[v]["FAILED"] + 0
      BY <1>2 DEF TypeOK, StatStatuses
    <3>9. 0 + Cardinality(Replicas) + 0 <= Cardinality(Replicas) /\ Cardinality(Replicas) \in Int
      BY AccountFinite
    <3> QED BY <1>1, <3>1, <3>6, <3>7, <3>8, <3>9, AccountKept
  <2>3. CASE ~(OpenFailure(n)' /\ Owner[n] = v)
    <3>1. Uncounted(v)' \subseteq Uncounted(v)
      BY <1>5, <1>7, <2>3 DEF Uncounted
    <3> QED BY <1>1, <1>2, <2>1, <3>1, NothingMore
  <2> QED BY <2>2, <2>3
<1> QED BY <1>1, <1>8, <1>9 DEF CountInv

LEMMA CountKept ==
    ASSUME IsFiniteSet(Notifications), IsFiniteSet(Replicas),
           TypeOK, TypeOK', CountInv, [HNext]_allVars
    PROVE  CountInv'
<1>0. [Next]_vars
  BY DEF HNext, allVars
<1>1. /\ exhaustions' \in [Services -> Nat]
      /\ \A v \in Services : exhaustions'[v] >= exhaustions[v]
  BY ExhaustionsGrow DEF CountInv
<1>2. CASE \E n \in Notifications : DeliveryFails(n)
  <2>1. PICK n \in Notifications : DeliveryFails(n)
    BY <1>2
  <2>2. failures' # failures
    BY <2>1 DEF DeliveryFails, TypeOK
  <2>3. HNext
    BY <2>2 DEF allVars, vars
  <2> QED BY <2>1, <2>3, FailureIsPaid
<1>3. CASE ~\E n \in Notifications : DeliveryFails(n)
  <2>1. \A n \in Notifications : OpenFailure(n)' => OpenFailure(n)
    BY <1>0, <1>3, OpenLeft
  <2>2. CASE ~\E r \in Replicas : SchedulerStep(r) \/ Crash(r)
    <3>1. sched' = sched
      BY <1>0, <2>2, SchedLeft
    <3>2. PassInv'
      BY <3>1 DEF CountInv, PassInv
    <3>3. ASSUME NEW v \in Services
          PROVE  PaidFor(v)'
      <4>1. Uncounted(v)' \subseteq Uncounted(v) /\ AtCount(v)' = AtCount(v)
        BY <2>1, <3>1 DEF Uncounted, InPass, AtCount, Spent
      <4>2. stats'[v]["FAILED"] = stats[v]["FAILED"]
        BY <1>0, <2>2, FailedLeft DEF SchedulerStep
      <4> QED BY <1>1, <4>1, <4>2, NothingMore
    <3> QED BY <1>1, <3>2, <3>3 DEF CountInv
  <2>3. ASSUME NEW r \in Replicas, SchedulerStep(r) \/ Crash(r)
        PROVE  CountInv'
    <3>1. /\ PassInv'
          /\ \A q \in Replicas, n \in Notifications :
                InPass(q, n)' => InPass(q, n) \/ OpenFailure(n)
          /\ MarkDeadLettered(r) \/ \A v \in Services : AtCount(v)' \subseteq AtCount(v)
      BY <2>3, PassSteps DEF CountInv
    <3>2. ASSUME NEW v \in Services
          PROVE  PaidFor(v)'
      <4>1. Uncounted(v)' \subseteq Uncounted(v)
        BY <2>1, <3>1 DEF Uncounted
      <4>2. CASE CountFailed(r)
        BY <1>1, <4>1, <4>2, CountedIsPaid
      <4>3. CASE ~CountFailed(r)
        <5>1. stats'[v]["FAILED"] = stats[v]["FAILED"]
          BY <2>3, <4>3, FailedOfOne
        <5>2. CASE AtCount(v)' \subseteq AtCount(v)
          BY <1>1, <4>1, <5>1, <5>2, NothingMore
        <5>3. CASE /\ Cardinality(Uncounted(v)') <= Cardinality(Uncounted(v)) - 1
                   /\ Cardinality(AtCount(v)') <= Cardinality(AtCount(v)) + 1
          <6>1. Cardinality(Uncounted(v)') <= Cardinality(Uncounted(v)) + (0 - 1)
            BY <5>3, AccountFinite
          <6>2. stats'[v]["FAILED"] <= stats[v]["FAILED"] + 0
            BY <5>1 DEF TypeOK, StatStatuses
          <6>3. 0 + (0 - 1) + 1 <= 0 /\ (0 - 1) \in Int
            OBVIOUS
          <6> QED BY <1>1, <5>3, <6>1, <6>2, <6>3, AccountKept
        <5>4. CASE MarkDeadLettered(r)
          <6>1. \/ AtCount(v)' \subseteq AtCount(v)
                \/ /\ Cardinality(Uncounted(v)') <= Cardinality(Uncounted(v)) - 1
                   /\ Cardinality(AtCount(v)') <= Cardinality(AtCount(v)) + 1
            BY <3>1, <4>1, <5>4, MarkedIsNext DEF CountInv
          <6> QED BY <5>2, <5>3, <6>1
        <5> QED BY <3>1, <5>2, <5>4
      <4> QED BY <4>2, <4>3
    <3> QED BY <1>1, <3>1, <3>2 DEF CountInv
  <2> QED BY <2>2, <2>3
<1> QED BY <1>2, <1>3

\* The FAILED statistic of a service is never inflated beyond one count of each
\* replica per exhausted budget, whatever errors, crashes, stale passes and
\* replays interleave (scheduler.go:149-185).
THEOREM FailuresCountedOnce ==
    ASSUME IsFiniteSet(Notifications), IsFiniteSet(Replicas)
    PROVE  HSpec => []FailedCountedOnce
<1>1. HInit => CountInv
  <2> SUFFICES ASSUME HInit
               PROVE  CountInv
    OBVIOUS
  <2>0. exhaustions = [s \in Services |-> 0]
    BY DEF HInit
  <2>2. \A r \in Replicas : sched[r].batch = {} /\ sched[r].pc = "loop"
    BY DEF HInit, Init, IdleScheduler
  <2> SUFFICES ASSUME NEW v \in Services
               PROVE  PaidFor(v)
    BY <2>0, <2>2 DEF CountInv, PassInv
  <2>1. stats[v]["FAILED"] = 0
    BY DEF HInit, Init, StatStatuses
  <2>3. Uncounted(v) = {} /\ AtCount(v) = {}
    BY <2>2 DEF Uncounted, AtCount, InPass, OpenFailure, HInit, Init, NoRow
  <2>4. Cardinality(Uncounted(v)) = 0 /\ Cardinality(AtCount(v)) = 0
    BY <2>3, FS_EmptySet
  <2>5. Cardinality(Replicas) * 0 = 0
    BY AccountFinite
  <2> QED BY <2>0, <2>1, <2>4, <2>5 DEF PaidFor
<1>2. TypeOK /\ TypeOK' /\ CountInv /\ [HNext]_allVars => CountInv'
  BY CountKept
<1>3. TypeOK /\ CountInv => FailedCountedOnce
  <2> SUFFICES ASSUME TypeOK, CountInv, NEW v \in Services
               PROVE  stats[v]["FAILED"] <= Cardinality(Replicas) * exhaustions[v]
    BY DEF FailedCountedOnce
  <2> DEFINE paid == Cardinality(Replicas) * exhaustions[v]
  <2>1. stats[v]["FAILED"] + Cardinality(Uncounted(v)) + Cardinality(AtCount(v)) <= paid
    BY DEF CountInv, PaidFor
  <2>2. /\ stats[v]["FAILED"] \in Nat /\ exhaustions[v] \in Nat
        /\ Cardinality(Uncounted(v)) \in Nat /\ Cardinality(AtCount(v)) \in Nat
        /\ Cardinality(Replicas) \in Nat
    BY AccountFinite DEF TypeOK, StatStatuses, CountInv
  <2>3. paid \in Int
    BY <2>2
  <2> HIDE DEF paid
  <2>4. stats[v]["FAILED"] <= paid
    BY <2>1, <2>2, <2>3
  <2> QED BY <2>4 DEF paid
<1> QED BY <1>1, <1>2, <1>3, HistoryTypes, PTL DEF HSpec
----------------------------------------------------------------------------
(* Sums over a finite set                                                  *)

Pick(s) == CHOOSE x \in s : TRUE

\* The recursive function behind the fold of the community modules: g sums f
\* over every subset of S.
IsSum(g, f, S) ==
    g = [s \in SUBSET S |-> IF s = {} THEN 0 ELSE f[Pick(s)] + g[s \ {Pick(s)}]]

\* What Pick takes from a set that is not empty belongs to it.
LEMMA Picked == ASSUME NEW s, s # {} PROVE Pick(s) \in s
BY DEF Pick

\* In a set of subsets of a finite set there is a smallest one.
LEMMA LeastSubset ==
    ASSUME NEW S, IsFiniteSet(S), NEW T \in SUBSET (SUBSET S), T # {}
    PROVE  \E t \in T : \A u \in T : u \subseteq t => u = t
<1>1. T \subseteq FiniteSubsetsOf(S)
  BY FS_Subset DEF FiniteSubsetsOf
<1>2. PICK t \in T : \A u \in T : ~(<<u, t>> \in StrictSubsetOrdering(S))
  BY <1>1, FS_StrictSubsetOrderingWellFounded, WFMin
<1> QED BY <1>2 DEF StrictSubsetOrdering

\* A set of naturals that is not empty has a least element.
LEMMA LeastNumber ==
    ASSUME NEW T \in SUBSET Nat, T # {}
    PROVE  \E m \in T : \A n \in T : ~(n < m)
<1>1. PICK m \in T : \A n \in T : ~(<<n, m>> \in OpToRel(<, Nat))
  BY NatLessThanWellFounded, WFMin
<1> QED BY <1>1 DEF OpToRel

\* The recursion reaches every subset of a finite set.
LEMMA SumExists ==
    ASSUME NEW f, NEW S, IsFiniteSet(S)
    PROVE  \E g : IsSum(g, f, S)
<1> DEFINE Upto(g, n) == \A s \in SUBSET S : Cardinality(s) <= n =>
                            g[s] = IF s = {} THEN 0 ELSE f[Pick(s)] + g[s \ {Pick(s)}]
           Bad == {n \in Nat : ~\E g : Upto(g, n)}
<1>0. \A s \in SUBSET S : /\ IsFiniteSet(s) /\ Cardinality(s) \in Nat
                          /\ Cardinality(s) = 0 <=> s = {}
  BY FS_Subset, FS_CardinalityType, FS_EmptySet
<1>1. Bad = {}
  <2> SUFFICES ASSUME Bad # {} PROVE FALSE
    OBVIOUS
  <2>1. PICK m \in Bad : \A n \in Bad : ~(n < m)
    <3> HIDE DEF Bad
    <3>1. Bad \in SUBSET Nat
      BY DEF Bad
    <3> QED BY <3>1, LeastNumber
  <2>2. m # 0
    <3>1. Upto([s \in SUBSET S |-> 0], 0)
      BY <1>0
    <3> QED BY <3>1
  <2>3. m - 1 \in Nat /\ m - 1 < m
    BY <2>2
  <2>4. PICK g : Upto(g, m - 1)
    <3>1. m - 1 \notin Bad
      BY <2>1, <2>3
    <3> QED BY <2>3, <3>1
  <2> DEFINE h == [s \in SUBSET S |-> IF s = {} THEN 0 ELSE f[Pick(s)] + g[s \ {Pick(s)}]]
  <2>5. Upto(h, m)
    <3> SUFFICES ASSUME NEW s \in SUBSET S, Cardinality(s) <= m
                 PROVE  h[s] = IF s = {} THEN 0 ELSE f[Pick(s)] + h[s \ {Pick(s)}]
      OBVIOUS
    <3>1. CASE s = {}
      BY <3>1
    <3>2. CASE s # {}
      <4> DEFINE r == s \ {Pick(s)}
      <4>1. r \in SUBSET S /\ Cardinality(r) = Cardinality(s) - 1
        BY <1>0, <3>2, Picked, FS_RemoveElement
      <4>2. Cardinality(r) <= m - 1
        BY <1>0, <4>1
      <4>3. g[r] = IF r = {} THEN 0 ELSE f[Pick(r)] + g[r \ {Pick(r)}]
        BY <2>4, <4>1, <4>2
      <4>4. h[r] = IF r = {} THEN 0 ELSE f[Pick(r)] + g[r \ {Pick(r)}]
        BY <4>1
      <4>5. h[r] = g[r]
        BY <4>3, <4>4
      <4>6. h[s] = f[Pick(s)] + g[r]
        BY <3>2
      <4> HIDE DEF r, h
      <4>7. h[s] = f[Pick(s)] + h[r]
        BY <4>5, <4>6
      <4> QED BY <3>2, <4>7 DEF r
    <3> QED BY <3>1, <3>2
  <2> HIDE DEF Upto
  <2>6. m \notin Bad
    BY <2>5
  <2> QED BY <2>1, <2>6
<1>2. Cardinality(S) \in Nat /\ S \in SUBSET S
  BY FS_CardinalityType
<1>3. PICK g : Upto(g, Cardinality(S))
  <2> HIDE DEF Upto
  <2> QED BY <1>1, <1>2
<1> DEFINE h == [s \in SUBSET S |-> g[s]]
<1>4. ASSUME NEW s \in SUBSET S
      PROVE  h[s] = IF s = {} THEN 0 ELSE f[Pick(s)] + h[s \ {Pick(s)}]
  <2>1. Cardinality(s) <= Cardinality(S)
    BY FS_Subset
  <2>2. g[s] = IF s = {} THEN 0 ELSE f[Pick(s)] + g[s \ {Pick(s)}]
    BY <1>3, <2>1
  <2>3. s \ {Pick(s)} \in SUBSET S
    OBVIOUS
  <2> QED BY <2>2, <2>3
<1>5. h = [s \in SUBSET S |-> IF s = {} THEN 0 ELSE f[Pick(s)] + h[s \ {Pick(s)}]]
  <2>1. h = [s \in SUBSET S |-> h[s]]
    OBVIOUS
  <2> HIDE DEF h
  <2> QED BY <1>4, <2>1
<1> HIDE DEF h
<1> QED BY <1>5 DEF IsSum

\* The sums of f over the subsets of S.
Sums(f, S) == CHOOSE g : IsSum(g, f, S)

\* A total is the sum over the whole set.
LEMMA TotalIs ==
    ASSUME NEW f, NEW S
    PROVE  Total(f, S) = Sums(f, S)[S]
BY DEF Total, MapThenSumSet, MapThenFoldSet, Sums, IsSum, Pick

\* The recursion of the sums, available for every subset of a finite set.
LEMMA SumsStep ==
    ASSUME NEW f, NEW S, IsFiniteSet(S), NEW s \in SUBSET S
    PROVE  /\ s = {} => Sums(f, S)[s] = 0
           /\ s # {} => Sums(f, S)[s] = f[Pick(s)] + Sums(f, S)[s \ {Pick(s)}]
<1> DEFINE g == Sums(f, S)
<1>1. IsSum(g, f, S)
  BY SumExists DEF Sums
<1> HIDE DEF g
<1>2. g[s] = IF s = {} THEN 0 ELSE f[Pick(s)] + g[s \ {Pick(s)}]
  BY <1>1 DEF IsSum
<1> QED BY <1>2 DEF g

\* Sums of integers are integers, and every element may be taken out first.
LEMMA SumsAnyOrder ==
    ASSUME NEW S, IsFiniteSet(S), NEW f \in [S -> Int]
    PROVE  \A s \in SUBSET S : /\ Sums(f, S)[s] \in Int
                               /\ \A x \in s : Sums(f, S)[s] = f[x] + Sums(f, S)[s \ {x}]
<1> DEFINE g == Sums(f, S)
           Good(s) == g[s] \in Int /\ \A x \in s : g[s] = f[x] + g[s \ {x}]
           Bad == {s \in SUBSET S : ~Good(s)}
<1>0. \A s \in SUBSET S : /\ s = {} => g[s] = 0
                          /\ s # {} => g[s] = f[Pick(s)] + g[s \ {Pick(s)}]
  BY SumsStep
<1> HIDE DEF g
<1> SUFFICES ASSUME Bad # {} PROVE FALSE
  BY DEF g
<1>1. PICK s \in Bad : \A u \in Bad : u \subseteq s => u = s
  <2> HIDE DEF Bad
  <2>1. Bad \in SUBSET (SUBSET S)
    BY DEF Bad
  <2> QED BY <2>1, LeastSubset
<1>2. \A u \in SUBSET s : u # s => Good(u)
  BY <1>1
<1>3. s # {}
  <2> SUFFICES ASSUME s = {} PROVE FALSE
    OBVIOUS
  <2>1. s \in SUBSET S /\ ~Good(s)
    BY <1>1
  <2>2. g[s] = 0
    BY <1>0, <2>1
  <2> QED BY <2>1, <2>2
<1> DEFINE c == Pick(s)
<1>4. c \in s /\ s \in SUBSET S /\ g[s] = f[c] + g[s \ {c}]
  BY <1>0, <1>1, <1>3, Picked
<1> HIDE DEF c
<1>5. Good(s \ {c}) /\ f[c] \in Int
  BY <1>2, <1>4
<1>6. g[s] \in Int
  BY <1>4, <1>5
<1>7. ASSUME NEW x \in s PROVE g[s] = f[x] + g[s \ {x}]
  <2>1. CASE x = c
    BY <1>4, <2>1
  <2>2. CASE x # c
    <3>1. (s \ {c}) \ {x} = (s \ {x}) \ {c}
      OBVIOUS
    <3>2. g[s \ {c}] = f[x] + g[(s \ {c}) \ {x}]
      BY <1>5, <2>2
    <3>3. Good(s \ {x}) /\ f[x] \in Int
      BY <1>2, <1>4
    <3>4. g[s \ {x}] = f[c] + g[(s \ {c}) \ {x}]
      BY <1>4, <2>2, <3>1, <3>3
    <3>5. Good((s \ {c}) \ {x})
      BY <1>2, <1>4
    <3> DEFINE a == g[(s \ {c}) \ {x}]
    <3>6. a \in Int
      BY <3>5
    <3> HIDE DEF a
    <3>7. g[s] = f[c] + (f[x] + a) /\ g[s \ {x}] = f[c] + a
      BY <1>4, <3>2, <3>4 DEF a
    <3> QED BY <1>5, <3>3, <3>6, <3>7
  <2> QED BY <2>1, <2>2
<1> QED BY <1>1, <1>6, <1>7

\* A sum depends only on what is summed.
LEMMA SumsAgree ==
    ASSUME NEW S, IsFiniteSet(S), NEW f, NEW h
    PROVE  \A s \in SUBSET S : (\A x \in s : f[x] = h[x]) => Sums(f, S)[s] = Sums(h, S)[s]
<1> DEFINE a == Sums(f, S)
           b == Sums(h, S)
           Bad == {s \in SUBSET S : (\A x \in s : f[x] = h[x]) /\ a[s] # b[s]}
<1>a. \A s \in SUBSET S : /\ s = {} => a[s] = 0
                          /\ s # {} => a[s] = f[Pick(s)] + a[s \ {Pick(s)}]
  BY SumsStep
<1>b. \A s \in SUBSET S : /\ s = {} => b[s] = 0
                          /\ s # {} => b[s] = h[Pick(s)] + b[s \ {Pick(s)}]
  BY SumsStep
<1> HIDE DEF a, b
<1> SUFFICES ASSUME Bad # {} PROVE FALSE
  BY DEF a, b
<1>1. PICK s \in Bad : \A u \in Bad : u \subseteq s => u = s
  <2> HIDE DEF Bad
  <2>1. Bad \in SUBSET (SUBSET S)
    BY DEF Bad
  <2> QED BY <2>1, LeastSubset
<1>2. s # {}
  BY <1>a, <1>b, <1>1
<1>3. Pick(s) \in s
  BY <1>2, Picked
<1>4. s \ {Pick(s)} \notin Bad
  BY <1>1, <1>3
<1>5. a[s \ {Pick(s)}] = b[s \ {Pick(s)}]
  BY <1>1, <1>4
<1> QED BY <1>a, <1>b, <1>1, <1>2, <1>3, <1>5

\* A total of integers is an integer.
LEMMA TotalType ==
    ASSUME NEW S, IsFiniteSet(S), NEW f \in [S -> Int]
    PROVE  Total(f, S) \in Int
BY TotalIs, SumsAnyOrder

\* Changing one summand by d changes the sum by d.
LEMMA TotalMoves ==
    ASSUME NEW S, IsFiniteSet(S), NEW f \in [S -> Int], NEW h \in [S -> Int],
           NEW p \in S, NEW d \in Int, h[p] = f[p] + d,
           \A x \in S \ {p} : h[x] = f[x]
    PROVE  Total(h, S) = Total(f, S) + d
<1> DEFINE a == Sums(f, S)[S]
           b == Sums(h, S)[S]
           u == Sums(f, S)[S \ {p}]
           w == Sums(h, S)[S \ {p}]
<1>1. a = f[p] + u /\ u \in Int
  BY SumsAnyOrder
<1>2. b = h[p] + w
  BY SumsAnyOrder
<1>3. u = w
  <2>1. \A s \in SUBSET S : (\A x \in s : f[x] = h[x]) => Sums(f, S)[s] = Sums(h, S)[s]
    BY SumsAgree
  <2> QED BY <2>1
<1>4. Total(f, S) = a /\ Total(h, S) = b
  BY TotalIs
<1> HIDE DEF a, b, u, w
<1>5. f[p] \in Int
  OBVIOUS
<1> QED BY <1>1, <1>2, <1>3, <1>4, <1>5

\* A total of zeros is zero.
LEMMA TotalOfZeros ==
    ASSUME NEW S, IsFiniteSet(S), NEW f, \A x \in S : f[x] = 0
    PROVE  Total(f, S) = 0
<1> DEFINE a == Sums(f, S)
           Bad == {s \in SUBSET S : a[s] # 0}
<1>1. \A s \in SUBSET S : /\ s = {} => a[s] = 0
                          /\ s # {} => a[s] = f[Pick(s)] + a[s \ {Pick(s)}]
  BY SumsStep
<1> HIDE DEF a
<1>2. Bad = {}
  <2> SUFFICES ASSUME Bad # {} PROVE FALSE
    OBVIOUS
  <2>1. PICK s \in Bad : \A u \in Bad : u \subseteq s => u = s
    <3> HIDE DEF Bad
    <3>1. Bad \in SUBSET (SUBSET S)
      BY DEF Bad
    <3> QED BY <3>1, LeastSubset
  <2>2. s # {}
    BY <1>1, <2>1
  <2>3. Pick(s) \in s
    BY <2>2, Picked
  <2>4. a[s \ {Pick(s)}] = 0
    BY <2>1, <2>3
  <2> QED BY <1>1, <2>1, <2>2, <2>3, <2>4
<1> QED BY <1>2, TotalIs DEF a

----------------------------------------------------------------------------
(* Counted dispatches                                                      *)

\* The goroutines of a service are finitely many, and each is counted.
LEMMA UnsettledType ==
    ASSUME TypeOK, IsFiniteSet(Notifications), IsFiniteSet(Replicas), NEW s \in Services
    PROVE  /\ IsFiniteSet(Flights(s))
           /\ Unsettled(s) \in [Flights(s) -> Int]
<1>1. IsFiniteSet({n \in Notifications : Owner[n] = s})
  BY FS_Subset
<1>2. IsFiniteSet(Flights(s))
  BY <1>1, FS_Product DEF Flights
<1>3. ASSUME NEW p \in Flights(s)
      PROVE  delivering[p[1]][p[2]] + counting[p[1]][p[2]] \in Int
  <2>1. p[1] \in Replicas /\ p[2] \in Notifications
    BY DEF Flights
  <2>2. delivering[p[1]][p[2]] \in Nat /\ counting[p[1]][p[2]] \in Nat
    BY <2>1 DEF TypeOK, Bag
  <2> QED BY <2>2
<1> QED BY <1>2, <1>3 DEF Unsettled

\* A call without a fault is applied: the statistic goes up by one.
LEMMA CountWithoutFault ==
    ASSUME TypeOK, faults' = faults, NEW n \in Notifications, NEW k \in StatStatuses, Count(n, k)
    PROVE  \A s \in Services, j \in StatStatuses :
                stats'[s][j] = stats[s][j] + (IF s = Owner[n] /\ j = k THEN 1 ELSE 0)
<1>1. stats' = IncrementStats(stats, Owner[n], k)
  BY DEF Count, Call, Outcomes, TypeOK
<1>2. stats \in [Services -> [StatStatuses -> Nat]] /\ Owner[n] \in Services
  BY ConstantsAssumption DEF TypeOK
<1>3. \A s \in Services, j \in StatStatuses : stats[s][j] \in Nat
  BY <1>2
<1> QED BY <1>1, <1>2, <1>3 DEF IncrementStats

\* Where one process begins or counts d deliveries of n, the total moves by d.
LEMMA UnsettledMoves ==
    ASSUME TypeOK, TypeOK', IsFiniteSet(Notifications), IsFiniteSet(Replicas),
           NEW s \in Services, NEW r \in Replicas, NEW n \in Notifications, NEW d \in Int,
           delivering'[r][n] + counting'[r][n] = delivering[r][n] + counting[r][n] + d,
           \A q \in Replicas, m \in Notifications :
                <<q, m>> # <<r, n>> => /\ delivering'[q][m] = delivering[q][m]
                                       /\ counting'[q][m] = counting[q][m]
    PROVE  Total(Unsettled(s)', Flights(s)) =
                Total(Unsettled(s), Flights(s)) + (IF Owner[n] = s THEN d ELSE 0)
<1> DEFINE f == Unsettled(s)
           h == Unsettled(s)'
           S == Flights(s)
<1>1. IsFiniteSet(S) /\ f \in [S -> Int]
  BY UnsettledType
<1>2. h = [p \in S |-> delivering'[p[1]][p[2]] + counting'[p[1]][p[2]]]
  BY DEF Unsettled, Flights
<1>3. f = [p \in S |-> delivering[p[1]][p[2]] + counting[p[1]][p[2]]]
  BY DEF Unsettled
<1>4. ASSUME NEW p \in S, p # <<r, n>> PROVE h[p] = f[p]
  <2>1. p[1] \in Replicas /\ p[2] \in Notifications /\ p = <<p[1], p[2]>>
    BY DEF Flights
  <2>2. delivering'[p[1]][p[2]] = delivering[p[1]][p[2]] /\ counting'[p[1]][p[2]] = counting[p[1]][p[2]]
    BY <1>4, <2>1
  <2> HIDE DEF f, h, S
  <2> QED BY <1>2, <1>3, <2>2
<1>5. CASE Owner[n] = s
  <2>1. <<r, n>> \in S
    BY <1>5 DEF Flights
  <2> HIDE DEF f, h, S
  <2>2. h[<<r, n>>] = f[<<r, n>>] + d
    BY <1>2, <1>3, <2>1
  <2>3. h \in [S -> Int]
    <3>1. \A p \in S : h[p] \in Int
      BY <1>1, <1>4, <2>1, <2>2
    <3> QED BY <1>2, <3>1
  <2>4. Total(h, S) = Total(f, S) + d
    BY <1>1, <1>4, <2>1, <2>2, <2>3, TotalMoves
  <2> QED BY <1>5, <2>4 DEF f, h, S
<1>6. CASE Owner[n] # s
  <2>1. \A p \in S : p # <<r, n>>
    BY <1>6 DEF Flights
  <2> HIDE DEF f, h, S
  <2>2. h = f
    BY <1>2, <1>3, <1>4, <2>1
  <2>3. Total(h, S) = Total(f, S) /\ Total(f, S) \in Int
    BY <1>1, <2>2, TotalType
  <2> QED BY <1>6, <2>3 DEF f, h, S
<1> QED BY <1>5, <1>6

\* A step that starts and ends no delivery, and counts none, leaves the account.
LEMMA BalanceLeft ==
    ASSUME TypeOK, NEW s \in Services, UNCHANGED <<delivering, counting>>,
           stats'[s]["DISPATCHED"] = stats[s]["DISPATCHED"],
           stats'[s]["DELIVERED"] = stats[s]["DELIVERED"]
    PROVE  Balance(s)' = Balance(s)
<1>1. Unsettled(s)' = Unsettled(s) /\ Flights(s)' = Flights(s)
  BY DEF Unsettled, Flights
<1> QED BY <1>1 DEF Balance

\* A count of another status leaves the account.
LEMMA OtherCountLeaves ==
    ASSUME TypeOK, faults' = faults, NEW n \in Notifications, NEW k \in {"ACCEPTED", "FAILED"},
           Count(n, k), UNCHANGED <<delivering, counting>>, NEW s \in Services
    PROVE  Balance(s)' = Balance(s)
<1>1. \A j \in {"DISPATCHED", "DELIVERED"} : stats'[s][j] = stats[s][j] + 0
  BY CountWithoutFault DEF StatStatuses
<1>2. \A j \in {"DISPATCHED", "DELIVERED"} : stats[s][j] \in Nat
  BY DEF TypeOK, StatStatuses
<1> QED BY <1>1, <1>2, BalanceLeft

\* The callback counts the dispatch of the delivery it starts; the goroutine
\* counts the delivery it ends.
LEMMA WorkerBalances ==
    ASSUME TypeOK, TypeOK', IsFiniteSet(Notifications), IsFiniteSet(Replicas),
           faults' = faults, NEW r \in Replicas, WorkerStep(r), NEW s \in Services
    PROVE  Balance(s)' = Balance(s)
<1> DEFINE a == stats[s]["DISPATCHED"]
           b == stats[s]["DELIVERED"]
           t == Total(Unsettled(s), Flights(s))
<1>0. /\ a \in Int /\ b \in Int /\ t \in Int
      /\ Balance(s) = a - b - t
      /\ Balance(s)' = stats'[s]["DISPATCHED"] - stats'[s]["DELIVERED"]
                            - Total(Unsettled(s)', Flights(s))
  <2>1. a \in Nat /\ b \in Nat
    BY DEF TypeOK, StatStatuses
  <2>2. t \in Int
    BY UnsettledType, TotalType
  <2>3. Flights(s)' = Flights(s)
    BY DEF Flights
  <2> QED BY <2>1, <2>2, <2>3 DEF Balance
<1>t. /\ delivering \in Bag /\ counting \in Bag
      /\ \A n \in Notifications : delivering[r][n] \in Nat /\ counting[r][n] \in Nat
  BY DEF TypeOK, Bag
<1>1. CASE Dispatch(r)
  BY <1>1, BalanceLeft DEF Dispatch
<1>2. CASE StartDelivery(r)
  <2>1. /\ working[r] \in Notifications /\ Count(working[r], "DISPATCHED")
        /\ delivering' = [delivering EXCEPT ![r][working[r]] = @ + 1] /\ counting' = counting
    BY <1>2 DEF StartDelivery, TypeOK
  <2>2. Total(Unsettled(s)', Flights(s)) = t + (IF Owner[working[r]] = s THEN 1 ELSE 0)
    <3>1. delivering'[r][working[r]] + counting'[r][working[r]]
            = delivering[r][working[r]] + counting[r][working[r]] + 1
      BY <1>t, <2>1 DEF Bag
    <3>2. \A q \in Replicas, m \in Notifications :
            <<q, m>> # <<r, working[r]>> => /\ delivering'[q][m] = delivering[q][m]
                                            /\ counting'[q][m] = counting[q][m]
      BY <1>t, <2>1 DEF Bag
    <3> QED BY <2>1, <3>1, <3>2, UnsettledMoves
  <2>3. /\ stats'[s]["DISPATCHED"] = a + (IF Owner[working[r]] = s THEN 1 ELSE 0)
        /\ stats'[s]["DELIVERED"] = b + 0
    BY <2>1, CountWithoutFault DEF StatStatuses
  <2> HIDE DEF a, b, t
  <2> QED BY <1>0, <2>2, <2>3
<1>3. CASE Deliver(r)
  <2>1. PICK n \in Notifications :
            /\ delivering[r][n] > 0
            /\ delivering' = [delivering EXCEPT ![r][n] = @ - 1]
            /\ counting' = [counting EXCEPT ![r][n] = @ + 1]
            /\ stats' = stats
    BY <1>3 DEF Deliver
  <2>2. Total(Unsettled(s)', Flights(s)) = t + (IF Owner[n] = s THEN 0 ELSE 0)
    <3>1. delivering'[r][n] + counting'[r][n] = delivering[r][n] + counting[r][n] + 0
      BY <1>t, <2>1 DEF Bag
    <3>2. \A q \in Replicas, m \in Notifications :
            <<q, m>> # <<r, n>> => /\ delivering'[q][m] = delivering[q][m]
                                   /\ counting'[q][m] = counting[q][m]
      BY <1>t, <2>1 DEF Bag
    <3> QED BY <3>1, <3>2, UnsettledMoves
  <2> HIDE DEF t
  <2> QED BY <1>0, <2>1, <2>2
<1>4. CASE CountDelivered(r)
  <2>1. PICK n \in Notifications :
            /\ counting[r][n] > 0
            /\ counting' = [counting EXCEPT ![r][n] = @ - 1]
            /\ Count(n, "DELIVERED")
            /\ delivering' = delivering
    BY <1>4 DEF CountDelivered
  <2>2. Total(Unsettled(s)', Flights(s)) = t + (IF Owner[n] = s THEN -1 ELSE 0)
    <3>1. delivering'[r][n] + counting'[r][n] = delivering[r][n] + counting[r][n] + (-1)
      BY <1>t, <2>1 DEF Bag
    <3>2. \A q \in Replicas, m \in Notifications :
            <<q, m>> # <<r, n>> => /\ delivering'[q][m] = delivering[q][m]
                                   /\ counting'[q][m] = counting[q][m]
      BY <1>t, <2>1 DEF Bag
    <3> QED BY <3>1, <3>2, UnsettledMoves
  <2>3. /\ stats'[s]["DISPATCHED"] = a + 0
        /\ stats'[s]["DELIVERED"] = b + (IF Owner[n] = s THEN 1 ELSE 0)
    BY <2>1, CountWithoutFault DEF StatStatuses
  <2> HIDE DEF a, b, t
  <2> QED BY <1>0, <2>2, <2>3
<1> QED BY <1>1, <1>2, <1>3, <1>4 DEF WorkerStep

\* Every step without a fault keeps the account of every service.
LEMMA BalanceStep ==
    ASSUME TypeOK, TypeOK', IsFiniteSet(Notifications), IsFiniteSet(Replicas), [Next]_vars,
           faults' = faults, NEW s \in Services
    PROVE  Balance(s)' = Balance(s)
<1>1. ASSUME NEW r \in Replicas, SchedulerStep(r) PROVE Balance(s)' = Balance(s)
  <2>1. CASE CountFailed(r)
    <3>1. sched[r] \in Scheduler /\ sched[r].pc = "count"
      BY <2>1 DEF CountFailed, TypeOK
    <3>2. sched[r].cur.job \in Notifications
      BY <3>1 DEF Scheduler, Snapshot
    <3> QED BY <2>1, <3>2, OtherCountLeaves DEF CountFailed, workerVars
  <2> QED
    BY <1>1, <2>1, BalanceLeft
       DEF SchedulerStep, Poll, ReEnqueue, MarkPending, DeadLetter, MarkDeadLettered, storeVars,
           workerVars
<1>2. ASSUME NEW r \in Replicas, WorkerStep(r) PROVE Balance(s)' = Balance(s)
  BY <1>2, WorkerBalances
<1>3. ASSUME NEW n \in Notifications, SendStep(n) PROVE Balance(s)' = Balance(s)
  BY <1>3, OtherCountLeaves, BalanceLeft
     DEF SendStep, SendCreate, SendCount, SendPublish, storeVars, workerVars
<1>4. ASSUME NEW c \in Calls, ReplayLookup(c) \/ ReplayStep(c) PROVE Balance(s)' = Balance(s)
  <2>1. CASE ReplayCount(c)
    <3>1. replay[c].job \in Notifications
      BY <2>1 DEF ReplayCount, TypeOK, ReplayCall, NoReplay
    <3> QED BY <2>1, <3>1, OtherCountLeaves DEF ReplayCount, workerVars
  <2> QED
    BY <1>4, <2>1, BalanceLeft
       DEF ReplayLookup, ReplayStep, ReplayReset, ReplayPublish, ReplayDelete, storeVars, workerVars
<1>5. CASE Environment
  <2>1. ~\E r \in Replicas : Crash(r)
    BY DEF Crash, Call, TypeOK
  <2> QED
    BY <1>5, <2>1, BalanceLeft
       DEF Environment, DeliveryFails, RetryFallsDue, LoseMessage, Restart, storeVars, workerVars
<1>6. CASE UNCHANGED vars
  BY <1>6, BalanceLeft DEF vars
<1> QED BY <1>1, <1>2, <1>3, <1>4, <1>5, <1>6 DEF Next, ServerStep

\* Whatever runs concurrently, only a step that is a fault unsettles the
\* account of dispatches and deliveries of a service (worker.go:43-62).
THEOREM DispatchesBalanced ==
    ASSUME IsFiniteSet(Notifications), IsFiniteSet(Replicas)
    PROVE  Spec => BalancedButForFaults
<1>1. TypeOK /\ TypeOK' /\ [Next]_vars
        => [\A s \in Services : faults' = faults => Balance(s)' = Balance(s)]_vars
  BY BalanceStep
<1> QED BY <1>1, TypeCorrect, PTL DEF Spec, BalancedButForFaults

\* The dispatches counted for a service are its counted deliveries plus those
\* whose goroutine is still to count.
DispatchesAccountedFor ==
    \A s \in Services :
        stats[s]["DISPATCHED"] =
            stats[s]["DELIVERED"] + Total(Unsettled(s), Flights(s))

\* Until the first fault every dispatch that was counted is a counted delivery
\* or one whose goroutine is still to count, for any replicas, retries and
\* replays (worker.go:43-62).
THEOREM DispatchesSettled ==
    ASSUME IsFiniteSet(Notifications), IsFiniteSet(Replicas)
    PROVE  Spec => [](faults = 0 => DispatchesAccountedFor)
<1> DEFINE Balanced == faults = 0 => \A s \in Services : Balance(s) = 0
<1>1. Init /\ TypeOK => Balanced
  <2> SUFFICES ASSUME Init, TypeOK, NEW s \in Services PROVE Balance(s) = 0
    OBVIOUS
  <2>1. stats[s]["DISPATCHED"] = 0 /\ stats[s]["DELIVERED"] = 0
    BY DEF Init, StatStatuses
  <2>2. \A p \in Flights(s) : Unsettled(s)[p] = 0
    BY DEF Init, EmptyBag, Unsettled, Flights
  <2>3. Total(Unsettled(s), Flights(s)) = 0
    BY <2>2, UnsettledType, TotalOfZeros
  <2> QED BY <2>1, <2>3 DEF Balance
<1>2. TypeOK /\ TypeOK' /\ Balanced /\ [Next]_vars => Balanced'
  <2>1. TypeOK /\ [Next]_vars /\ faults' = 0 => faults = 0
    BY FaultsGrow
  <2> QED BY <2>1, BalanceStep
<1>3. TypeOK /\ Balanced => (faults = 0 => DispatchesAccountedFor)
  <2> SUFFICES ASSUME TypeOK, NEW s \in Services, Balance(s) = 0
               PROVE  stats[s]["DISPATCHED"] =
                        stats[s]["DELIVERED"] + Total(Unsettled(s), Flights(s))
    BY DEF DispatchesAccountedFor
  <2>1. stats[s]["DISPATCHED"] \in Nat /\ stats[s]["DELIVERED"] \in Nat
    BY DEF TypeOK, StatStatuses
  <2>2. Total(Unsettled(s), Flights(s)) \in Int
    BY UnsettledType, TotalType
  <2> QED BY <2>1, <2>2 DEF Balance
<1> QED BY <1>1, <1>2, <1>3, TypeCorrect, PTL DEF Spec
=============================================================================
