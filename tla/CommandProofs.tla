---------------------------- MODULE CommandProofs ----------------------------
(***************************************************************************)
(* Theorems about CommandLine: its types, whose name a call is made in,    *)
(* who is turned away for want of a key, that an invocation keeps the      *)
(* promise of CommandPromise, and that watch --ui shows the newest events. *)
(***************************************************************************)
EXTENDS CommandLine, SequenceTheorems, TLAPS

Places ==
    {"idle", "load", "run", "prompt", "validating", "connecting", "sending", "calling",
     "opening", "streaming", "showing", "screen", "exited"}
Calls ==
    [at : {"none", "flying", "handling", "ended"}, as : Services \cup {None},
     code : Reports \cup {None}]
Flying == [at |-> "flying", as |-> None, code |-> None]

\* Places before the call.
Before == {"idle", "load", "run", "prompt", "validating", "connecting", "opening"}

\* The configuration an invocation works with.
Configured(c) ==
    /\ file # Broken
    /\ cfg[c] = Prefer(run[c].flag, Load)
    /\ NeedsKey(run[c].cmd) => cfg[c].key # Empty

\* What the place of an invocation says about its command line.
PlaceInv(c) ==
    /\ pc[c] # "idle" => run[c] \in Run
    /\ pc[c] \in {"opening", "streaming"} => run[c].cmd \in Streaming
    /\ pc[c] = "showing" => run[c].cmd = "watch --ui"
    /\ pc[c] = "prompt" => run[c].cmd = "service delete" /\ run[c].mode # "quiet"
    /\ pc[c] \in {"validating", "connecting", "sending", "screen"} =>
            run[c].cmd \in Streaming \/ ~Prints(c)
    /\ exit[c] = "no" <=> pc[c] # "exited"
    /\ pc[c] \notin {"screen", "exited"} => told[c] = "nothing"

\* What became of the call so far.
CallInv(c) ==
    /\ pc[c] \in Before => call[c] = NoCall
    /\ call[c].at # "ended" => effects[c] = 0
    /\ call[c].at = "ended" =>
            /\ call[c].code \in Reports
            /\ call[c].code = "OK" => effects[c] = 1
            /\ call[c].code \in Definite => effects[c] = 0
    /\ told[c] \in Definite => effects[c] = 0 /\ call[c].at \in {"none", "ended"}

\* Whose call it is.
KeyInv(c) ==
    /\ pc[c] \notin {"idle", "load", "exited"} => Configured(c)
    /\ call[c].at # "none" => Configured(c) /\ run[c] \in Run
    /\ call[c].as # None =>
            call[c].as = IF run[c].flag.key # Empty THEN run[c].flag.key
                         ELSE IF env.key # Empty THEN env.key ELSE file.key

SessionInv(c) == PlaceInv(c) /\ CallInv(c) /\ KeyInv(c)

CommandInv == TypeOK /\ \A c \in Sessions : SessionInv(c)

----------------------------------------------------------------------------

\* The place of an invocation, its report and its exit status go together.
LEMMA PlaceKept ==
    ASSUME TypeOK, NEW c \in Sessions, PlaceInv(c),
           ClientStep(c) \/ Timer(c) \/ StreamStep(c) \/ UserStep(c)
    PROVE  PlaceInv(c)'
<1>0. /\ pc \in [Sessions -> {"idle", "load", "run", "prompt", "validating", "connecting",
                           "sending", "calling", "opening", "streaming", "showing", "screen",
                           "exited"}]
      /\ run \in [Sessions -> Run \cup {None}]
      /\ told \in [Sessions -> Reports \cup {"nothing"}]
      /\ exit \in [Sessions -> {"no", "zero", "one", "killed"}]
  BY DEF TypeOK
<1> USE DEF PlaceInv, Leave, Tell, Goto, Prints, At
<1>1. CASE PreRun(c)
  BY <1>0, <1>1 DEF PreRun
<1>2. CASE sendCmd(c)
  BY <1>0, <1>2 DEF sendCmd
<1>3. CASE NextStep(c)
  BY <1>0, <1>3 DEF NextStep
<1>4. CASE deleteServiceCmd(c)
  BY <1>0, <1>4 DEF deleteServiceCmd
<1>5. ASSUME NEW commands, CallNow(c, commands)
      PROVE  PlaceInv(c)'
  BY <1>0, <1>5 DEF CallNow
<1>60. ASSUME NEW code, Outcome(c, code), Waiting(c), run' = run
       PROVE  PlaceInv(c)'
  <2>1. CASE Prints(c)
    BY <1>0, <1>60, <2>1 DEF Outcome, Waiting
  <2>2. CASE ~Prints(c)
    BY <1>0, <1>60, <2>2 DEF Outcome, Show, Waiting
  <2> QED BY <2>1, <2>2
<1>6. CASE Answered(c) \/ Unavailable(c) \/ Deadline(c)
  BY <1>6, <1>60 DEF Answered, Unavailable, Deadline
<1>7. CASE Open(c) \/ Recv(c) \/ Update(c)
  BY <1>0, <1>7 DEF Open, Recv, Update, Streaming
<1>8. CASE StreamEOF(c) \/ StreamBreaks(c) \/ StreamTimedOut(c)
  BY <1>0, <1>8 DEF StreamEOF, StreamBreaks, StreamTimedOut, StreamOver, Show
<1>9. ASSUME NEW r \in Repertoire[c], Start(c, r)
      PROVE  PlaceInv(c)'
  BY <1>0, <1>9, CommandAssumption DEF Start
<1>10. ASSUME NEW yes \in BOOLEAN, Confirm(c, yes)
       PROVE  PlaceInv(c)'
  BY <1>0, <1>10 DEF Confirm
<1>11. ASSUME NEW h \in Heights, Resize(c, h)
       PROVE  PlaceInv(c)'
  BY <1>0, <1>11 DEF Resize
<1>12. CASE SendModel(c) \/ ServiceStatusModel(c) \/ ListServicesModel(c) \/ WatchModel(c)
  BY <1>0, <1>12 DEF SendModel, ServiceStatusModel, ListServicesModel, WatchModel, Quit
<1>13. CASE Interrupt(c)
  BY <1>0, <1>13 DEF Interrupt, StreamOver, Show
<1> QED
  BY <1>1, <1>2, <1>3, <1>4, <1>5, <1>6, <1>7, <1>8, <1>9, <1>10, <1>11, <1>12, <1>13
     DEF ClientStep, Timer, StreamStep, UserStep, createServiceCmd, listServicesCmd, dlqListCmd,
         dlqReplayCmd, logsCmd, watchCmd

\* Nothing has happened before the call.
LEMMA NothingYet ==
    ASSUME TypeOK, NEW c \in Sessions, PlaceInv(c), CallInv(c), pc[c] \in Before
    PROVE  call[c] = NoCall /\ effects[c] = 0 /\ told[c] = "nothing"
<1>1. effects[c] \in 0..1
  BY DEF TypeOK
<1>2. call[c] = NoCall
  BY DEF CallInv
<1>3. call[c].at = "none"
  BY <1>2 DEF NoCall
<1>4. effects[c] = 0
  BY <1>1, <1>3 DEF CallInv
<1>5. told[c] = "nothing"
  BY DEF PlaceInv, Before
<1> QED BY <1>2, <1>4, <1>5

\* Going to the call, or making it.
LEMMA CallBegun ==
    ASSUME TypeOK, NEW c \in Sessions, PlaceInv(c), CallInv(c), pc[c] \in Before,
           UNCHANGED <<effects, told>>,
           \/ call'[c] = call[c]
           \/ call'[c] = Flying /\ pc'[c] \notin Before
    PROVE  CallInv(c)'
<1>0. effects[c] \in 0..1
  BY DEF TypeOK
<1>1. effects'[c] = 0 /\ told'[c] = "nothing"
  BY <1>0, NothingYet
<1>2. call[c] = NoCall
  BY <1>0, NothingYet
<1>3. call'[c] = NoCall \/ (call'[c] = Flying /\ pc'[c] \notin Before)
  BY <1>2
<1> QED BY <1>1, <1>3 DEF CallInv, NoCall, Flying, Definite

\* Nothing but the report and the place is changed.
LEMMA CallLeft ==
    ASSUME NEW c \in Sessions, CallInv(c), UNCHANGED <<effects, call>>,
           pc'[c] \in Before => pc[c] \in Before,
           told'[c] \in Definite => \/ told[c] \in Definite
                                    \/ pc[c] \in Before
                                    \/ call[c].at = "ended" /\ told'[c] = call[c].code
    PROVE  CallInv(c)'
BY DEF CallInv, NoCall

\* The call and what is known of it go together.
LEMMA CallKept ==
    ASSUME TypeOK, NEW c \in Sessions, PlaceInv(c), CallInv(c),
           ClientStep(c) \/ Timer(c) \/ StreamStep(c) \/ UserStep(c)
    PROVE  CallInv(c)'
<1>0. /\ pc \in [Sessions -> Places]
      /\ told \in [Sessions -> Reports \cup {"nothing"}]
      /\ call \in [Sessions -> Calls]
  BY DEF TypeOK, Places, Calls
<1> USE DEF Leave, Tell, Goto, Invoke, At, Before, Flying
<1>1. CASE PreRun(c)
  BY <1>0, <1>1, CallLeft DEF PreRun, serverVars
<1>2. CASE sendCmd(c)
  <2>1. CASE UNCHANGED call
    BY <1>0, <1>2, <2>1, CallLeft DEF sendCmd
  <2>2. CASE Goto(c, "calling") /\ Invoke(c) /\ UNCHANGED told
    BY <1>0, <1>2, <2>2, CallBegun DEF sendCmd
  <2> QED BY <1>2, <2>1, <2>2 DEF sendCmd
<1>3. CASE NextStep(c)
  BY <1>0, <1>3, CallBegun DEF NextStep
<1>4. CASE deleteServiceCmd(c)
  BY <1>0, <1>4, CallBegun DEF deleteServiceCmd
<1>5. ASSUME NEW commands, CallNow(c, commands)
      PROVE  CallInv(c)'
  BY <1>0, <1>5, CallBegun DEF CallNow
<1>6. CASE Answered(c)
  BY <1>0, <1>6, CallLeft DEF Answered, Outcome, Show, Waiting, serverVars
<1>61. CASE Unavailable(c) \/ Deadline(c)
  BY <1>0, <1>61, CallLeft DEF Unavailable, Deadline, Outcome, Show, Waiting, serverVars, Definite
<1>7. CASE Open(c)
  BY <1>0, <1>7, CallBegun DEF Open
<1>71. CASE Recv(c) \/ Update(c)
  BY <1>0, <1>71, CallLeft DEF Recv, Update, serverVars
<1>8. CASE StreamEOF(c) \/ StreamBreaks(c) \/ StreamTimedOut(c)
  BY <1>0, <1>8, CallLeft DEF StreamEOF, StreamBreaks, StreamTimedOut, StreamOver, Show, serverVars
<1>9. ASSUME NEW r \in Repertoire[c], Start(c, r)
      PROVE  CallInv(c)'
  BY <1>0, <1>9, CallLeft DEF Start, serverVars
<1>10. ASSUME NEW yes \in BOOLEAN, Confirm(c, yes)
       PROVE  CallInv(c)'
  <2>1. CASE yes
    BY <1>0, <1>10, <2>1, CallBegun DEF Confirm
  <2>2. CASE ~yes
    BY <1>0, <1>10, <2>2, CallLeft DEF Confirm
  <2> QED BY <2>1, <2>2
<1>11. ASSUME NEW h \in Heights, Resize(c, h)
       PROVE  CallInv(c)'
  BY <1>0, <1>11, CallLeft DEF Resize, serverVars
<1>12. CASE SendModel(c) \/ ServiceStatusModel(c) \/ ListServicesModel(c) \/ WatchModel(c)
  BY <1>0, <1>12, CallLeft
     DEF SendModel, ServiceStatusModel, ListServicesModel, WatchModel, Quit, serverVars
<1>13. CASE Interrupt(c)
  BY <1>0, <1>13, CallLeft DEF Interrupt, StreamOver, Show, serverVars
<1> QED
  BY <1>1, <1>2, <1>3, <1>4, <1>5, <1>6, <1>61, <1>7, <1>71, <1>8, <1>9, <1>10, <1>11, <1>12, <1>13
     DEF ClientStep, Timer, StreamStep, UserStep, createServiceCmd, listServicesCmd, dlqListCmd,
         dlqReplayCmd, logsCmd, watchCmd

\* The client makes its call once.
LEMMA ClientCallsOnce ==
    ASSUME NEW c \in Sessions, pc[c] \notin Before,
           ClientStep(c) \/ Timer(c) \/ StreamStep(c) \/ UserStep(c)
    PROVE  call' = call
<1> USE DEF Before, At, serverVars
<1>1. ~PreRun(c) /\ ~sendCmd(c) /\ ~NextStep(c) /\ ~deleteServiceCmd(c) /\ ~Open(c)
  BY DEF PreRun, sendCmd, NextStep, deleteServiceCmd, Open
<1>2. \A commands : ~CallNow(c, commands)
  BY DEF CallNow
<1>3. /\ \A r : ~Start(c, r)
      /\ \A yes : ~Confirm(c, yes)
  BY DEF Start, Confirm
<1>4. CASE Answered(c) \/ Unavailable(c) \/ Deadline(c)
  BY <1>4 DEF Answered, Unavailable, Deadline
<1>5. CASE Recv(c) \/ Update(c) \/ StreamEOF(c) \/ StreamBreaks(c) \/ StreamTimedOut(c)
  BY <1>5 DEF Recv, Update, StreamEOF, StreamBreaks, StreamTimedOut
<1>6. CASE Interrupt(c) \/ \E h \in Heights : Resize(c, h)
  BY <1>6 DEF Interrupt, Resize
<1>7. CASE SendModel(c) \/ ServiceStatusModel(c) \/ ListServicesModel(c) \/ WatchModel(c)
  BY <1>7 DEF SendModel, ServiceStatusModel, ListServicesModel, WatchModel, Quit
<1> QED
  BY <1>1, <1>2, <1>3, <1>4, <1>5, <1>6, <1>7
     DEF ClientStep, Timer, StreamStep, UserStep, createServiceCmd, listServicesCmd, dlqListCmd,
         dlqReplayCmd, logsCmd, watchCmd

\* Configured holds for as long as the configuration does.
LEMMA ConfiguredKept ==
    ASSUME NEW c \in Sessions, Configured(c), run'[c] = run[c], cfg'[c] = cfg[c],
           UNCHANGED <<file, env>>
    PROVE  Configured(c)'
BY DEF Configured, Load

\* The client calls with the configuration that PreRun has made.
LEMMA KeyKept ==
    ASSUME TypeOK, NEW c \in Sessions, PlaceInv(c), CallInv(c), KeyInv(c),
           ClientStep(c) \/ Timer(c) \/ StreamStep(c) \/ UserStep(c)
    PROVE  KeyInv(c)'
<1>0. /\ pc \in [Sessions -> Places]
      /\ run \in [Sessions -> Run \cup {None}]
      /\ cfg \in [Sessions -> Layer]
      /\ call \in [Sessions -> Calls]
  BY DEF TypeOK, Places, Calls
<1>1. CASE PreRun(c)
  <2>1. run' = run /\ call' = call /\ file' = file /\ env' = env
    BY <1>1 DEF PreRun, serverVars
  <2>2. call[c] = NoCall
    BY <1>1 DEF PreRun, CallInv, Before
  <2>3. CASE pc'[c] = "exited"
    BY <2>1, <2>2, <2>3 DEF KeyInv, NoCall
  <2>4. CASE pc'[c] # "exited"
    <3>1. Configured(c)'
      BY <1>0, <1>1, <2>1, <2>4 DEF PreRun, Configured, Leave, Goto, Load
    <3> QED BY <2>1, <2>2, <3>1 DEF KeyInv, NoCall
  <2> QED BY <2>3, <2>4
<1>2. ASSUME NEW r \in Repertoire[c], Start(c, r)
      PROVE  KeyInv(c)'
  <2>1. pc'[c] = "load" /\ call' = call /\ call[c] = NoCall
    BY <1>0, <1>2 DEF Start, Goto, CallInv, Before, serverVars
  <2> QED BY <2>1 DEF KeyInv, NoCall
<1>3. ASSUME UNCHANGED <<run, cfg, file, env, call>>,
             pc'[c] \in {"idle", "load"} => pc[c] \in {"idle", "load"},
             pc'[c] = "exited" \/ pc[c] # "exited",
             pc[c] \in {"idle", "load"} => pc'[c] \in {"idle", "load"}
      PROVE  KeyInv(c)'
  BY <1>3, ConfiguredKept DEF KeyInv
<1>4. ASSUME UNCHANGED <<run, cfg, file, env>>,
             pc[c] \notin {"idle", "load", "exited"},
             call'[c] = Flying \/ call'[c] = call[c]
      PROVE  KeyInv(c)'
  <2>1. Configured(c) /\ run[c] \in Run
    BY <1>4 DEF KeyInv, PlaceInv
  <2> QED BY <1>4, <2>1, ConfiguredKept DEF KeyInv, Flying
<1> USE DEF Leave, Tell, Goto, Invoke, At, Flying
<1>5. CASE sendCmd(c)
  BY <1>0, <1>4, <1>5 DEF sendCmd
<1>6. CASE NextStep(c)
  BY <1>0, <1>4, <1>6 DEF NextStep
<1>7. CASE deleteServiceCmd(c)
  BY <1>0, <1>4, <1>7 DEF deleteServiceCmd
<1>8. ASSUME NEW commands, CallNow(c, commands)
      PROVE  KeyInv(c)'
  BY <1>0, <1>4, <1>8 DEF CallNow
<1>9. CASE Answered(c) \/ Unavailable(c) \/ Deadline(c)
  BY <1>0, <1>4, <1>9 DEF Answered, Unavailable, Deadline, Waiting, serverVars
<1>10. CASE Open(c) \/ Recv(c) \/ Update(c)
  BY <1>0, <1>4, <1>10 DEF Open, Recv, Update, serverVars
<1>11. CASE StreamEOF(c) \/ StreamBreaks(c) \/ StreamTimedOut(c)
  BY <1>0, <1>4, <1>11 DEF StreamEOF, StreamBreaks, StreamTimedOut, serverVars
<1>12. ASSUME NEW yes \in BOOLEAN, Confirm(c, yes)
       PROVE  KeyInv(c)'
  BY <1>0, <1>4, <1>12 DEF Confirm
<1>13. ASSUME NEW h \in Heights, Resize(c, h)
       PROVE  KeyInv(c)'
  BY <1>0, <1>4, <1>13 DEF Resize, serverVars
<1>14. CASE SendModel(c) \/ ServiceStatusModel(c) \/ ListServicesModel(c) \/ WatchModel(c)
  BY <1>0, <1>4, <1>14
     DEF SendModel, ServiceStatusModel, ListServicesModel, WatchModel, Quit, serverVars
<1>15. CASE Interrupt(c)
  <2>1. UNCHANGED <<run, cfg, file, env, call>>
    BY <1>15 DEF Interrupt, serverVars
  <2>2. pc[c] \in {"load", "run", "prompt", "calling", "opening", "streaming"}
    BY <1>15 DEF Interrupt
  <2>3. CASE pc[c] # "load"
    BY <1>4, <2>1, <2>2, <2>3
  <2>4. CASE pc[c] = "load"
    <3>1. pc'[c] = "exited"
      BY <1>0, <1>15, <2>4 DEF Interrupt
    <3> QED BY <2>1, <3>1, ConfiguredKept DEF KeyInv
  <2> QED BY <2>3, <2>4
<1> QED
  BY <1>1, <1>2, <1>5, <1>6, <1>7, <1>8, <1>9, <1>10, <1>11, <1>12, <1>13, <1>14, <1>15
     DEF ClientStep, Timer, StreamStep, UserStep, createServiceCmd, listServicesCmd, dlqListCmd,
         dlqReplayCmd, logsCmd, watchCmd

----------------------------------------------------------------------------
(* The server                                                              *)

\* A handler ends a call with an effect, or without one and not with OK.
Concludes(c) ==
    /\ call[c].at = "handling"
    /\ \/ /\ effects' = [effects EXCEPT ![c] = 1]
          /\ \E code \in {"OK", "Error"} : Ended(c, code)
       \/ /\ effects' = effects
          /\ \E code \in Reports \ {"OK"} : Ended(c, code)
    /\ UNCHANGED <<file, env, clientVars>>
    /\ faults' \in 0..MaxFaults

\* A fault counts, up to the bound.
LEMMA FaultCounts ==
    ASSUME TypeOK, NEW is \in BOOLEAN, Fault(is)
    PROVE  faults' \in 0..MaxFaults
BY CommandAssumption DEF TypeOK, Fault

\* Every handler concludes.
LEMMA HandlerConcludes ==
    ASSUME TypeOK, NEW c \in Sessions, CallInv(c),
           ServerStep(c), ~Unary(c), ~Stream(c)
    PROVE  Concludes(c)
<1>1. ASSUME Served(c), call[c].at = "handling"
      PROVE  /\ effects' = [effects EXCEPT ![c] = 1]
             /\ \E code \in {"OK", "Error"} : Ended(c, code)
             /\ faults' \in 0..MaxFaults
  <2>1. effects[c] = 0 /\ effects[c] \in 0..1
    BY <1>1 DEF CallInv, TypeOK
  <2> QED BY <1>1, <2>1, FaultCounts DEF Served
<1>2. ASSUME Fails(c)
      PROVE  effects' = effects /\ Ended(c, "Error") /\ faults' \in 0..MaxFaults
  BY <1>2, FaultCounts DEF Fails
<1>3. ASSUME NEW code \in Definite, Declines(c, code)
      PROVE  effects' = effects /\ Ended(c, code) /\ faults' \in 0..MaxFaults
  BY <1>3 DEF Declines, TypeOK
<1>4. {"Error", "AlreadyExists", "NotFound", "PermissionDenied"} \subseteq Reports \ {"OK"}
  BY DEF Reports, Definite
<1>5. {"AlreadyExists", "NotFound", "PermissionDenied"} \subseteq Definite
  BY DEF Definite
<1> USE DEF Concludes, Handling
<1>6. CASE RegisterService(c)
  BY <1>1, <1>2, <1>3, <1>4, <1>5, <1>6 DEF RegisterService
<1>7. CASE DeleteService(c)
  BY <1>1, <1>2, <1>3, <1>4, <1>5, <1>7 DEF DeleteService
<1>8. CASE ListDeadLetters(c)
  BY <1>1, <1>2, <1>3, <1>4, <1>5, <1>8 DEF ListDeadLetters
<1>9. CASE ReplayDeadLetter(c)
  BY <1>1, <1>2, <1>3, <1>4, <1>5, <1>9 DEF ReplayDeadLetter
<1>10. ASSUME NEW command, Carry(c, command)
       PROVE  Concludes(c)
  BY <1>1, <1>2, <1>4, <1>10 DEF Carry
<1>11. CASE SendNotification(c)
  <2>1. Declines(c, "Error") => effects' = effects /\ Ended(c, "Error") /\ faults' \in 0..MaxFaults
    BY DEF Declines, TypeOK
  <2> QED BY <1>1, <1>2, <1>4, <1>11, <2>1 DEF SendNotification
<1> QED
  BY <1>6, <1>7, <1>8, <1>9, <1>10, <1>11
     DEF ServerStep, ListServices, ListNotificationJobs, GetStats

\* The key that counts is the configured one, and the interceptor lets a call in, under
\* that key or none, or turns it away.
LEMMA VerifyDecides ==
    ASSUME TypeOK, NEW c \in Sessions, KeyInv(c), call[c].at = "flying", Verify(c)
    PROVE  /\ faults' \in 0..MaxFaults
           /\ UNCHANGED <<file, env, services, effects, clientVars>>
           /\ \/ call' = [call EXCEPT ![c] = [at |-> "handling", as |-> None, code |-> None]]
              \/ /\ call' = [call EXCEPT ![c] =
                        [at |-> "ended", as |-> None, code |-> "Unauthenticated"]]
                 /\ ~Exempt(run[c].cmd)
              \/ /\ call' = [call EXCEPT ![c] =
                        [at |-> "handling", as |-> cfg[c].key, code |-> None]]
                 /\ cfg[c].key \in Services
<1> DEFINE keys == Outgoing(c)
<1>1. Configured(c) /\ run[c] \in Run
  BY DEF KeyInv
<1>2. cfg[c].key \in Services \cup {Empty} /\ cfg[c] \in Layer
  BY DEF TypeOK, Layer
<1>3. run[c].flag.key # Empty => cfg[c].key = run[c].flag.key
  BY <1>1 DEF Configured, Prefer
<1>4. ASSUME ~Exempt(run[c].cmd)
      PROVE  keys # <<>> /\ Head(keys) = cfg[c].key
  <2>1. run[c].cmd \notin Streaming
    BY <1>4 DEF Exempt
  <2>2. CASE run[c].flag.key = Empty
    <3>1. keys = <<>> \o <<cfg[c].key>>
      BY <2>1, <2>2 DEF Outgoing
    <3> QED BY <3>1
  <2>3. CASE run[c].flag.key # Empty
    <3>1. keys = <<cfg[c].key>> \o <<cfg[c].key>>
      BY <1>3, <2>1, <2>3 DEF Outgoing
    <3> DEFINE one == <<cfg[c].key>>
    <3>2. /\ one \in Seq(Services \cup {Empty})
          /\ Len(one) = 1 /\ one[1] = cfg[c].key
      BY <1>2
    <3> HIDE DEF one
    <3>3. /\ one \o one \in Seq(Services \cup {Empty})
          /\ Len(one \o one) = 2
          /\ (one \o one)[1] = cfg[c].key
      <4> DEFINE both == one \o one
      <4>1. /\ both \in Seq(Services \cup {Empty})
            /\ Len(both) = Len(one) + Len(one)
            /\ \A i \in 1 .. Len(one) + Len(one) :
                    both[i] = IF i <= Len(one) THEN one[i] ELSE one[i - Len(one)]
        BY ONLY <3>2, ConcatProperties
      <4> HIDE DEF both
      <4>2. Len(both) = 2 /\ both[1] = cfg[c].key
        BY <3>2, <4>1
      <4> QED BY <4>1, <4>2 DEF both
    <3>4. one \o one # <<>> /\ Head(one \o one) = cfg[c].key
      BY <3>3
    <3> QED BY <3>1, <3>4 DEF one
  <2> QED BY <2>2, <2>3
<1> HIDE DEF keys
<1>5. PICK error \in BOOLEAN :
        /\ Fault(error)
        /\ call' = [call EXCEPT ![c] =
            IF Exempt(run[c].cmd)
            THEN [at |-> "handling", as |-> None, code |-> None]
            ELSE IF keys = <<>> \/ error \/ ~Accepts(Head(keys))
            THEN [at |-> "ended", as |-> None, code |-> "Unauthenticated"]
            ELSE [at |-> "handling", as |-> Head(keys), code |-> None]]
  BY DEF Verify, keys
<1>6. faults' \in 0..MaxFaults
  BY <1>5, FaultCounts
<1>7. UNCHANGED <<file, env, services, effects, clientVars>>
  BY DEF Verify
<1>8. CASE Exempt(run[c].cmd)
  BY <1>5, <1>6, <1>7, <1>8
<1>9. CASE ~Exempt(run[c].cmd) /\ (error \/ ~Accepts(cfg[c].key))
  BY <1>4, <1>5, <1>6, <1>7, <1>9
<1>10. CASE ~Exempt(run[c].cmd) /\ ~error /\ Accepts(cfg[c].key)
  <2>1. cfg[c].key \in Services
    BY <1>2, <1>10 DEF Accepts
  <2> QED BY <1>4, <1>5, <1>6, <1>7, <1>10, <2>1
<1> QED BY <1>8, <1>9, <1>10

\* What the server does to a call is as the invariant says.
LEMMA ServerKept ==
    ASSUME TypeOK, NEW c \in Sessions, SessionInv(c), ServerStep(c)
    PROVE  SessionInv(c)'
<1> USE DEF SessionInv
<1>0. /\ call \in [Sessions -> Calls]
      /\ effects \in [Sessions -> 0..1]
  BY DEF TypeOK, Calls
<1>1. PlaceInv(c)' /\ UNCHANGED <<file, env, clientVars>>
  <2>1. UNCHANGED <<file, env, clientVars>>
    BY HandlerConcludes DEF Unary, Stream, Verify, Concludes
  <2> QED BY <2>1 DEF PlaceInv, clientVars, Prints
<1>2. CASE Unary(c) \/ Stream(c)
  <2>1. /\ call[c].at = "flying"
        /\ Verify(c)
    BY <1>2 DEF Unary, Stream, Arrived
  <2>2. effects' = effects /\ effects[c] = 0
    BY <1>0, <2>1, VerifyDecides DEF CallInv
  <2>3. pc[c] \notin Before /\ told[c] \notin Definite
    BY <2>1 DEF CallInv, NoCall
  <2>4. Configured(c) /\ run[c] \in Run
    BY <2>1 DEF KeyInv
  <2>5. \/ call'[c] = [at |-> "handling", as |-> None, code |-> None]
        \/ call'[c] = [at |-> "ended", as |-> None, code |-> "Unauthenticated"]
        \/ /\ call'[c] = [at |-> "handling", as |-> cfg[c].key, code |-> None]
           /\ cfg[c].key \in Services
    BY <1>0, <2>1, VerifyDecides
  <2>6. CallInv(c)'
    <3>1. pc'[c] \notin Before /\ told'[c] \notin Definite /\ effects'[c] = 0
      BY <1>1, <2>2, <2>3 DEF clientVars
    <3>2. \/ call'[c].at = "handling"
          \/ call'[c].at = "ended" /\ call'[c].code = "Unauthenticated"
      BY <2>5
    <3> QED BY <3>1, <3>2 DEF CallInv, Reports, Definite
  <2>7. KeyInv(c)'
    <3>1. Configured(c)' /\ (run[c] \in Run)'
      BY <1>1, <2>4, ConfiguredKept DEF clientVars
    <3>2. call'[c].as # None => call'[c].as = cfg[c].key
      BY <2>5
    <3>3. cfg[c].key = IF run[c].flag.key # Empty THEN run[c].flag.key
                       ELSE IF env.key # Empty THEN env.key ELSE file.key
      BY <2>4 DEF Configured, Prefer, Load
    <3> QED BY <1>1, <3>1, <3>2, <3>3 DEF KeyInv, clientVars
  <2> QED BY <1>1, <2>6, <2>7
<1>3. CASE ~Unary(c) /\ ~Stream(c)
  <2>1. Concludes(c)
    BY <1>3, HandlerConcludes
  <2>2. PICK code \in Reports : call' = [call EXCEPT ![c] =
                                    [at |-> "ended", as |-> call[c].as, code |-> code]]
    BY <1>0, <2>1 DEF Concludes, Ended, Reports
  <2>3. call'[c] = [at |-> "ended", as |-> call[c].as, code |-> code]
    BY <1>0, <2>2
  <2>4. CallInv(c)'
    <3>1. pc[c] \notin Before /\ told[c] \notin Definite /\ effects[c] = 0
      BY <1>0, <2>1 DEF Concludes, CallInv, NoCall
    <3>2. pc'[c] \notin Before /\ told'[c] \notin Definite
      BY <1>1, <3>1 DEF clientVars
    <3>3. \/ effects'[c] = 1 /\ call'[c].code \in {"OK", "Error"}
          \/ effects'[c] = 0 /\ call'[c].code # "OK"
      BY <1>0, <2>1, <3>1 DEF Concludes, Ended
    <3>4. {"OK", "Error"} \cap Definite = {}
      BY DEF Definite
    <3> QED BY <2>3, <3>2, <3>3, <3>4 DEF CallInv
  <2>5. KeyInv(c)'
    <3>1. Configured(c) /\ run[c] \in Run
      BY <2>1 DEF KeyInv, Concludes
    <3>2. Configured(c)' /\ (run[c] \in Run)'
      BY <1>1, <3>1, ConfiguredKept DEF clientVars
    <3> QED BY <1>1, <2>3, <3>2 DEF KeyInv, clientVars
  <2> QED BY <1>1, <2>4, <2>5
<1> QED BY <1>2, <1>3

----------------------------------------------------------------------------
(* Types                                                                   *)

\* A call is begun, or let go on; the place, report and exit status are of the type.
ClientTypes ==
    /\ pc' \in [Sessions -> Places]
    /\ call' \in [Sessions -> Calls]
    /\ told' \in [Sessions -> Reports \cup {"nothing"}]
    /\ exit' \in [Sessions -> {"no", "zero", "one", "killed"}]

\* An event more on the screen is an event on the screen.
LEMMA ShownTypes ==
    ASSUME NEW S, NEW height \in Nat, NEW events \in Seq(S), NEW event \in S
    PROVE  Shown([height |-> height, events |-> events], event) \in
                [height : {height}, events : Seq(S)]
<1> DEFINE s == [height |-> height, events |-> events]
           all == Append(events, event)
           first == Len(all) - (height - 5) + 1
           last == SubSeq(all, first, Len(all))
<1>1. all \in Seq(S) /\ Len(all) = Len(events) + 1 /\ Len(events) \in Nat
  OBVIOUS
<1>2. CASE height > 5 /\ Len(all) > height - 5
  <2>1. first \in 1..Len(all) /\ first \in Int /\ Len(all) \in Int
    BY <1>1, <1>2
  <2>2. last \in Seq(S)
    <3> HIDE DEF all, first
    <3>1. \A i \in first..Len(all) : i \in 1..Len(all)
      BY <1>1, <2>1
    <3>2. \A i \in 1..Len(all) : all[i] \in S
      BY <1>1, ElementOfSeq
    <3>3. \A i \in first..Len(all) : all[i] \in S
      BY <3>1, <3>2
    <3> QED BY <2>1, <3>3, SubSeqProperties
  <2>3. Shown(s, event) = [height |-> height, events |-> last]
    BY <1>2 DEF Shown
  <2> HIDE DEF last, s
  <2>4. [height |-> height, events |-> last] \in [height : {height}, events : Seq(S)]
    BY <2>2
  <2> QED BY <2>3, <2>4 DEF s
<1>3. CASE ~(height > 5 /\ Len(all) > height - 5)
  BY <1>1, <1>3 DEF Shown
<1> QED BY <1>2, <1>3

\* The client keeps the types.
LEMMA ClientKeepsTypes ==
    ASSUME TypeOK, NEW c \in Sessions, SessionInv(c),
           ClientStep(c) \/ Timer(c) \/ StreamStep(c) \/ UserStep(c)
    PROVE  TypeOK'
<1>0. /\ pc \in [Sessions -> Places]
      /\ call \in [Sessions -> Calls]
      /\ told \in [Sessions -> Reports \cup {"nothing"}]
      /\ exit \in [Sessions -> {"no", "zero", "one", "killed"}]
      /\ Flying \in Calls
      /\ {"Refused", "Error"} \subseteq Reports
  BY DEF TypeOK, Places, Calls, Flying, Reports, Definite
<1>1. ASSUME ClientTypes, UNCHANGED <<file, env, services, run, effects>>,
             cfg' \in [Sessions -> Layer], got' \in [Sessions -> 0..MaxEvents],
             screen' \in [Sessions -> [height : Heights \cup {0}, events : Seq(1..MaxEvents)]],
             faults' \in 0..MaxFaults
      PROVE  TypeOK'
  BY <1>1 DEF TypeOK, ClientTypes, Places, Calls
<1>2. ASSUME ClientTypes, UNCHANGED <<file, env, services, run, cfg, effects, got, screen, faults>>
      PROVE  TypeOK'
  BY <1>1, <1>2 DEF TypeOK
<1> USE DEF Leave, Tell, Goto, Invoke, At
<1>3. CASE PreRun(c)
  <2>1. ClientTypes
    BY <1>0, <1>3 DEF PreRun, ClientTypes, Places, serverVars
  <2>2. cfg' \in [Sessions -> Layer]
    <3>1. run[c] \in Run
      BY <1>3 DEF PreRun, SessionInv, PlaceInv
    <3>2. run[c].flag \in Layer /\ env \in Layer /\ (file # Broken => file \in Layer)
      BY <3>1, CommandAssumption DEF TypeOK, Run
    <3>3. file # Broken => Prefer(run[c].flag, Load) \in Layer
      BY <3>2 DEF Prefer, Load, Layer
    <3>4. cfg' = cfg \/ (file # Broken /\ cfg' = [cfg EXCEPT ![c] = Prefer(run[c].flag, Load)])
      BY <1>3 DEF PreRun
    <3> QED BY <3>3, <3>4 DEF TypeOK
  <2> QED BY <1>1, <1>3, <2>1, <2>2 DEF PreRun, serverVars, TypeOK
<1>4. CASE sendCmd(c)
  <2>1. ClientTypes
    BY <1>0, <1>4 DEF sendCmd, ClientTypes, Places, Flying
  <2> QED BY <1>2, <1>4, <2>1 DEF sendCmd
<1>5. CASE NextStep(c)
  <2>1. ClientTypes
    BY <1>0, <1>5 DEF NextStep, ClientTypes, Places, Flying
  <2> QED BY <1>2, <1>5, <2>1 DEF NextStep
<1>6. CASE deleteServiceCmd(c)
  <2>1. ClientTypes
    BY <1>0, <1>6 DEF deleteServiceCmd, ClientTypes, Places, Flying
  <2> QED BY <1>2, <1>6, <2>1 DEF deleteServiceCmd
<1>7. ASSUME NEW commands, CallNow(c, commands)
      PROVE  TypeOK'
  <2>1. ClientTypes
    BY <1>0, <1>7 DEF CallNow, ClientTypes, Places, Flying
  <2> QED BY <1>2, <1>7, <2>1 DEF CallNow
<1>8. ASSUME NEW code \in Reports, Outcome(c, code), UNCHANGED <<file, env, serverVars, run, cfg, got, screen>>,
             faults' \in 0..MaxFaults
      PROVE  TypeOK'
  <2>1. ClientTypes
    BY <1>0, <1>8 DEF Outcome, Show, ClientTypes, Places, serverVars
  <2> QED BY <1>1, <1>8, <2>1 DEF serverVars, TypeOK
<1>9. CASE Answered(c)
  <2>1. call[c].code \in Reports
    BY <1>9 DEF Answered, SessionInv, CallInv
  <2> QED BY <1>8, <1>9, <2>1 DEF Answered, TypeOK
<1>10. CASE Unavailable(c)
  BY <1>0, <1>8, <1>10, FaultCounts DEF Unavailable
<1>11. CASE Deadline(c)
  BY <1>0, <1>8, <1>11 DEF Deadline, TypeOK
<1>12. CASE Open(c)
  <2>1. ClientTypes
    BY <1>0, <1>12 DEF Open, ClientTypes, Places, Flying
  <2> QED BY <1>2, <1>12, <2>1 DEF Open
<1>13. CASE Recv(c) \/ Update(c)
  <2>1. ClientTypes /\ UNCHANGED <<file, env, services, run, cfg, effects, faults>>
    BY <1>0, <1>13 DEF Recv, Update, ClientTypes, Places, serverVars
  <2>2. got[c] + 1 \in 1..MaxEvents
    <3>1. got[c] \in 0..MaxEvents /\ got[c] < MaxEvents /\ MaxEvents \in Nat
      BY <1>13, CommandAssumption DEF Recv, Update, TypeOK
    <3> QED BY <3>1
  <2>3. got' \in [Sessions -> 0..MaxEvents]
    <3>1. /\ got \in [Sessions -> 0..MaxEvents]
          /\ got' = got \/ got' = [got EXCEPT ![c] = got[c] + 1]
      BY <1>13 DEF Recv, Update, TypeOK
    <3>2. got[c] + 1 \in 0..MaxEvents
      BY <2>2, CommandAssumption
    <3> QED BY <3>1, <3>2
  <2>4. screen' \in [Sessions -> [height : Heights \cup {0}, events : Seq(1..MaxEvents)]]
    <3> DEFINE t == screen[c]
    <3>1. /\ t \in [height : Heights \cup {0}, events : Seq(1..MaxEvents)]
          /\ t = [height |-> t.height, events |-> t.events]
          /\ t.height \in Heights \cup {0} /\ t.height \in Nat
      <4>1. t \in [height : Heights \cup {0}, events : Seq(1..MaxEvents)]
        BY DEF TypeOK
      <4>2. Heights \cup {0} \subseteq Nat
        BY CommandAssumption
      <4> HIDE DEF t
      <4> QED BY <4>1, <4>2
    <3>2. Shown(t, got[c] + 1) \in [height : Heights \cup {0}, events : Seq(1..MaxEvents)]
      <4> HIDE DEF t
      <4>1. Shown([height |-> t.height, events |-> t.events], got[c] + 1) \in
                [height : {t.height}, events : Seq(1..MaxEvents)]
        BY <2>2, <3>1, ShownTypes
      <4> QED BY <3>1, <4>1
    <3>3. screen' = screen \/ screen' = [screen EXCEPT ![c] = Shown(t, got[c] + 1)]
      BY <1>13 DEF Recv, Update
    <3> QED BY <3>2, <3>3 DEF TypeOK
  <2> QED BY <1>1, <2>1, <2>3, <2>4 DEF TypeOK
<1>14. ASSUME NEW status \in {"zero", "one"}, StreamOver(c, status),
              UNCHANGED <<file, env, serverVars, run, cfg, told, got, screen>>,
              faults' \in 0..MaxFaults
       PROVE  TypeOK'
  <2>1. ClientTypes
    BY <1>0, <1>14 DEF StreamOver, Show, ClientTypes, Places, serverVars
  <2> QED BY <1>1, <1>14, <2>1 DEF serverVars, TypeOK
<1>15. CASE StreamEOF(c) \/ StreamBreaks(c) \/ StreamTimedOut(c)
  BY <1>14, <1>15, FaultCounts DEF StreamEOF, StreamBreaks, StreamTimedOut, TypeOK
<1>16. ASSUME NEW r \in Repertoire[c], Start(c, r)
       PROVE  TypeOK'
  <2>1. pc' \in [Sessions -> Places] /\ run' \in [Sessions -> Run \cup {None}]
    BY <1>0, <1>16, CommandAssumption DEF Start, TypeOK, Places
  <2> QED BY <1>16, <2>1 DEF Start, TypeOK, serverVars, Places
<1>17. ASSUME NEW yes \in BOOLEAN, Confirm(c, yes)
       PROVE  TypeOK'
  <2>1. ClientTypes
    BY <1>0, <1>17 DEF Confirm, ClientTypes, Places, Flying
  <2> QED BY <1>2, <1>17, <2>1 DEF Confirm
<1>18. ASSUME NEW h \in Heights, Resize(c, h)
       PROVE  TypeOK'
  <2>1. ClientTypes
    BY <1>0, <1>18 DEF Resize, ClientTypes, serverVars
  <2>2. screen' \in [Sessions -> [height : Heights \cup {0}, events : Seq(1..MaxEvents)]]
    BY <1>18 DEF Resize, TypeOK
  <2> QED BY <1>1, <1>18, <2>1, <2>2 DEF Resize, serverVars, TypeOK
<1>19. ASSUME NEW labels, NEW commands, Quit(c, labels, commands)
       PROVE  TypeOK'
  <2>1. ClientTypes
    BY <1>0, <1>19 DEF Quit, ClientTypes, Places, serverVars
  <2> QED BY <1>2, <1>19, <2>1 DEF Quit, serverVars
<1>20. CASE Interrupt(c)
  <2>1. CASE StreamOver(c, "zero")
    BY <1>14, <1>20, <2>1 DEF Interrupt, TypeOK
  <2>2. CASE Leave(c, "killed")
    <3>1. ClientTypes
      BY <1>0, <1>20, <2>2 DEF Interrupt, ClientTypes, Places, serverVars
    <3> QED BY <1>2, <1>20, <3>1 DEF Interrupt, serverVars
  <2> QED BY <1>20, <2>1, <2>2 DEF Interrupt
<1> QED
  BY <1>3, <1>4, <1>5, <1>6, <1>7, <1>9, <1>10, <1>11, <1>12, <1>13, <1>15, <1>16, <1>17, <1>18,
     <1>19, <1>20
     DEF ClientStep, Timer, StreamStep, UserStep, createServiceCmd, listServicesCmd, dlqListCmd,
         dlqReplayCmd, logsCmd, watchCmd, SendModel, ServiceStatusModel, ListServicesModel,
         WatchModel

\* The server keeps the types.
LEMMA ServerKeepsTypes ==
    ASSUME TypeOK, NEW c \in Sessions, SessionInv(c), ServerStep(c)
    PROVE  TypeOK'
<1> USE DEF SessionInv
<1>0. call \in [Sessions -> Calls] /\ effects \in [Sessions -> 0..1]
  BY DEF TypeOK, Calls
<1>1. ASSUME UNCHANGED <<file, env, clientVars>>,
             call' \in [Sessions -> Calls], effects' \in [Sessions -> 0..1],
             services' \in [Services -> {"none", "live", "deleted"}], faults' \in 0..MaxFaults
      PROVE  TypeOK'
  BY <1>1 DEF TypeOK, clientVars, Calls
<1>2. CASE Unary(c) \/ Stream(c)
  <2>1. call[c].at = "flying" /\ Verify(c)
    BY <1>2 DEF Unary, Stream, Arrived
  <2>2. /\ UNCHANGED <<file, env, services, effects, clientVars>>
        /\ faults' \in 0..MaxFaults
    BY <2>1, VerifyDecides
  <2>3. call' \in [Sessions -> Calls]
    <3> DEFINE in == [at |-> "handling", as |-> None, code |-> None]
               out == [at |-> "ended", as |-> None, code |-> "Unauthenticated"]
               own == [at |-> "handling", as |-> cfg[c].key, code |-> None]
    <3>1. in \in Calls /\ out \in Calls /\ (cfg[c].key \in Services => own \in Calls)
      BY DEF Calls, Reports, Definite
    <3>2. \/ call' = [call EXCEPT ![c] = in]
          \/ call' = [call EXCEPT ![c] = out]
          \/ call' = [call EXCEPT ![c] = own] /\ cfg[c].key \in Services
      BY <2>1, VerifyDecides
    <3> HIDE DEF in, out, own
    <3> QED BY <1>0, <3>1, <3>2
  <2> QED BY <1>0, <1>1, <2>2, <2>3 DEF TypeOK
<1>3. CASE ~Unary(c) /\ ~Stream(c)
  <2>1. Concludes(c)
    BY <1>3, HandlerConcludes
  <2>2. /\ UNCHANGED <<file, env, clientVars>>
        /\ faults' \in 0..MaxFaults
        /\ effects' \in [Sessions -> 0..1]
    BY <1>0, <2>1 DEF Concludes
  <2>3. call' \in [Sessions -> Calls]
    <3>1. PICK code \in Reports : call' = [call EXCEPT ![c] =
                                    [at |-> "ended", as |-> call[c].as, code |-> code]]
      BY <1>0, <2>1 DEF Concludes, Ended, Reports
    <3>2. [at |-> "ended", as |-> call[c].as, code |-> code] \in Calls
      BY <1>0 DEF Calls
    <3> QED BY <1>0, <3>1, <3>2
  <2>4. services' \in [Services -> {"none", "live", "deleted"}]
    <3>1. \/ services' = services
          \/ \E s \in Services : services' = [services EXCEPT ![s] = "live"]
          \/ services' = [services EXCEPT ![run[c].target] = "deleted"]
      BY <1>3 DEF ServerStep, RegisterService, DeleteService, ListDeadLetters, ReplayDeadLetter,
          SendNotification, ListServices, ListNotificationJobs, GetStats, Carry
    <3> QED BY <3>1 DEF TypeOK
  <2> QED BY <1>1, <2>2, <2>3, <2>4
<1> QED BY <1>2, <1>3

----------------------------------------------------------------------------
(* The invariant                                                           *)

Step(c) == ClientStep(c) \/ Timer(c) \/ ServerStep(c) \/ StreamStep(c) \/ UserStep(c)

\* A step of one invocation leaves the others alone, and the surroundings.
LEMMA OthersLeftAlone ==
    ASSUME TypeOK, NEW c \in Sessions, SessionInv(c), Step(c), NEW d \in Sessions \ {c}
    PROVE  /\ UNCHANGED <<file, env>>
           /\ UNCHANGED <<run[d], cfg[d], pc[d], call[d], effects[d], told[d], exit[d]>>
<1>0. /\ pc \in [Sessions -> Places] /\ call \in [Sessions -> Calls]
      /\ run \in [Sessions -> Run \cup {None}] /\ cfg \in [Sessions -> Layer]
      /\ effects \in [Sessions -> 0..1]
      /\ told \in [Sessions -> Reports \cup {"nothing"}]
      /\ exit \in [Sessions -> {"no", "zero", "one", "killed"}]
  BY DEF TypeOK, Places, Calls
<1>1. CASE ServerStep(c)
  <2>1. CASE Unary(c) \/ Stream(c)
    <3>1. call[c].at = "flying" /\ Verify(c)
      BY <2>1 DEF Unary, Stream, Arrived
    <3> QED BY <1>0, <3>1, VerifyDecides DEF SessionInv, clientVars
  <2>2. CASE ~Unary(c) /\ ~Stream(c)
    <3>1. Concludes(c)
      BY <1>1, <2>2, HandlerConcludes DEF SessionInv
    <3> QED BY <1>0, <3>1 DEF Concludes, Ended, clientVars
  <2> QED BY <2>1, <2>2
<1>2. CASE ~ServerStep(c)
  <2> USE DEF Leave, Tell, Goto, Invoke
  <2> DEFINE Alone == /\ UNCHANGED <<file, env, effects>>
                      /\ UNCHANGED <<run[d], cfg[d], pc[d], call[d], told[d], exit[d]>>
  <2>1. CASE PreRun(c)
    BY <1>0, <2>1 DEF PreRun, serverVars
  <2>2. CASE sendCmd(c) \/ NextStep(c) \/ deleteServiceCmd(c)
    BY <1>0, <2>2 DEF sendCmd, NextStep, deleteServiceCmd
  <2>3. ASSUME NEW commands, CallNow(c, commands)
        PROVE  Alone
    BY <1>0, <2>3 DEF CallNow
  <2>4. CASE Answered(c) \/ Unavailable(c) \/ Deadline(c)
    BY <1>0, <2>4 DEF Answered, Unavailable, Deadline, Outcome, Show, serverVars
  <2>5. CASE Open(c) \/ Recv(c) \/ Update(c)
    BY <1>0, <2>5 DEF Open, Recv, Update, serverVars
  <2>6. CASE StreamEOF(c) \/ StreamBreaks(c) \/ StreamTimedOut(c)
    BY <1>0, <2>6 DEF StreamEOF, StreamBreaks, StreamTimedOut, StreamOver, Show, serverVars
  <2>7. ASSUME NEW r \in Repertoire[c], Start(c, r)
        PROVE  Alone
    BY <1>0, <2>7 DEF Start, serverVars
  <2>8. ASSUME NEW yes \in BOOLEAN, Confirm(c, yes)
        PROVE  Alone
    BY <1>0, <2>8 DEF Confirm
  <2>9. ASSUME NEW h \in Heights, Resize(c, h)
        PROVE  Alone
    BY <1>0, <2>9 DEF Resize, serverVars
  <2>10. ASSUME NEW labels, NEW commands, Quit(c, labels, commands)
         PROVE  Alone
    BY <1>0, <2>10 DEF Quit, serverVars
  <2>11. CASE Interrupt(c)
    BY <1>0, <2>11 DEF Interrupt, StreamOver, Show, serverVars
  <2> QED
    BY <1>2, <2>1, <2>2, <2>3, <2>4, <2>5, <2>6, <2>7, <2>8, <2>9, <2>10, <2>11
       DEF Step, ClientStep, Timer, StreamStep, UserStep, createServiceCmd, listServicesCmd,
           dlqListCmd, dlqReplayCmd, logsCmd, watchCmd, SendModel, ServiceStatusModel,
           ListServicesModel, WatchModel
<1> QED BY <1>1, <1>2

\* The invariant speaks of one invocation at a time.
LEMMA StepKeepsInv ==
    ASSUME CommandInv, [Next]_vars
    PROVE  CommandInv'
<1> USE DEF CommandInv
<1>1. CASE UNCHANGED vars
  <2>1. TypeOK'
    BY <1>1 DEF vars, TypeOK
  <2>2. ASSUME NEW c \in Sessions
        PROVE  SessionInv(c)'
    BY <1>1, <2>2 DEF vars, SessionInv, PlaceInv, CallInv, KeyInv, Configured, Load, Prints
  <2> QED BY <2>1, <2>2
<1>2. ASSUME NEW c \in Sessions, Step(c)
      PROVE  CommandInv'
  <2>1. TypeOK'
    BY <1>2, ClientKeepsTypes, ServerKeepsTypes DEF Step
  <2>2. SessionInv(c)'
    BY <1>2, PlaceKept, CallKept, KeyKept, ServerKept DEF Step, SessionInv
  <2>3. ASSUME NEW d \in Sessions \ {c}
        PROVE  SessionInv(d)'
    <3>1. /\ UNCHANGED <<file, env>>
          /\ UNCHANGED <<run[d], cfg[d], pc[d], call[d], effects[d], told[d], exit[d]>>
      BY <1>2, OthersLeftAlone
    <3>2. SessionInv(d)
      OBVIOUS
    <3>3. PlaceInv(d)'
      BY <3>1, <3>2 DEF SessionInv, PlaceInv, Prints
    <3>4. CallInv(d)'
      <4>1. effects[d] \in 0..1
        BY DEF TypeOK
      <4> QED BY <3>1, <3>2, <4>1 DEF SessionInv, CallInv
    <3>5. KeyInv(d)'
      BY <3>1, <3>2, ConfiguredKept DEF SessionInv, KeyInv
    <3> QED BY <3>3, <3>4, <3>5 DEF SessionInv
  <2> QED BY <2>1, <2>2, <2>3
<1> QED BY <1>1, <1>2 DEF Next, Step

THEOREM CommandInvariant == Spec => []CommandInv
<1>1. Init => CommandInv
  <2> SUFFICES ASSUME Init PROVE CommandInv
    OBVIOUS
  <2>1. /\ 0 \in 0..MaxEvents /\ 0 \in 0..MaxFaults
        /\ <<>> \in Seq(1..MaxEvents)
    BY CommandAssumption
  <2>2. NoLayer \in Layer
    BY DEF NoLayer, Layer
  <2>3. NewWatchModel \in [height : Heights \cup {0}, events : Seq(1..MaxEvents)]
    BY <2>1 DEF NewWatchModel
  <2>4. NoCall \in Calls /\ NoCall.at = "none" /\ NoCall.as = None
    BY DEF NoCall, Calls
  <2>5. TypeOK
    BY <2>1, <2>2, <2>3, <2>4 DEF Init, TypeOK, Calls
  <2>6. ASSUME NEW c \in Sessions
        PROVE  SessionInv(c)
    <3>1. /\ pc[c] = "idle" /\ call[c] = NoCall /\ effects[c] = 0 /\ told[c] = "nothing"
          /\ exit[c] = "no"
      BY DEF Init
    <3>2. PlaceInv(c)
      BY <3>1 DEF PlaceInv
    <3>3. CallInv(c)
      BY <2>4, <3>1 DEF CallInv, Definite
    <3>4. KeyInv(c)
      BY <2>4, <3>1 DEF KeyInv
    <3> QED BY <3>2, <3>3, <3>4 DEF SessionInv
  <2> QED BY <2>5, <2>6 DEF CommandInv
<1>2. CommandInv /\ [Next]_vars => CommandInv'
  BY StepKeepsInv
<1> QED BY <1>1, <1>2, PTL DEF Spec

----------------------------------------------------------------------------
(* Theorems                                                                *)

\* Every variable of the command line model keeps its type.
THEOREM TypeCorrect == Spec => []TypeOK
<1>1. CommandInv => TypeOK
  BY DEF CommandInv
<1> QED BY <1>1, CommandInvariant, PTL

\* The server acts under the key the user configured, flag over environment over
\* file (root.go:61-67, config.go:35-70, grpc/auth.go:19-28, server/auth.go:44-60).
THEOREM ActsUnderConfiguredKey == Spec => []ActsAsConfigured
<1>1. CommandInv => ActsAsConfigured
  BY DEF CommandInv, SessionInv, KeyInv, ActsAsConfigured
<1> QED BY <1>1, CommandInvariant, PTL

\* Only the two listings of logs are sent without a key to be turned away
\* (root.go:69-100, server/auth.go:32-47).
THEOREM OnlyLogsAreKeyless == Spec => KeylessIsLogs
<1>1. CommandInv /\ [Next]_vars =>
        \A c \in Sessions :
            /\ call[c].at = "flying"
            /\ call'[c].at = "ended"
            /\ call'[c].code = "Unauthenticated"
            /\ cfg[c].key = Empty
            => run[c].cmd \in {"logs", "logs --stats"}
  <2> SUFFICES ASSUME CommandInv, [Next]_vars, NEW c \in Sessions,
                      call[c].at = "flying", call'[c].at = "ended", cfg[c].key = Empty
               PROVE  run[c].cmd \in {"logs", "logs --stats"} \/ call'[c].code # "Unauthenticated"
    OBVIOUS
  <2> USE DEF CommandInv
  <2>0. call \in [Sessions -> Calls] /\ SessionInv(c)
    BY DEF TypeOK, Calls
  <2>1. Configured(c) /\ run[c] \in Run
    BY <2>0 DEF SessionInv, KeyInv
  <2>2. run[c].cmd \in {"service create", "service list", "logs", "logs --stats", "logs --stream"}
    BY <2>1 DEF Configured, NeedsKey
  <2>3. call' # call
    OBVIOUS
  <2>4. PICK d \in Sessions : Step(d)
    BY <2>3 DEF Next, Step, vars
  <2>5. d = c
    BY <2>4, OthersLeftAlone
  <2>6. CASE ServerStep(c)
    <3>1. Unary(c) \/ Stream(c)
      BY <2>0, <2>6, HandlerConcludes DEF Concludes, SessionInv
    <3>2. Verify(c)
      BY <3>1 DEF Unary, Stream
    <3>3. ~Exempt(run[c].cmd)
      BY <2>0, <3>2, VerifyDecides DEF SessionInv
    <3> QED BY <2>2, <3>3 DEF Exempt, Streaming
  <2>7. CASE ~ServerStep(c)
    <3>1. pc[c] \notin Before
      BY <2>0 DEF SessionInv, CallInv, NoCall
    <3>2. call' = call
      BY <2>0, <2>4, <2>5, <2>7, <3>1, ClientCallsOnce DEF Step
    <3> QED BY <2>3, <3>2
  <2> QED BY <2>6, <2>7
<1> QED BY <1>1, CommandInvariant, PTL DEF Spec, KeylessIsLogs

----------------------------------------------------------------------------
(* The promise                                                             *)

\* What an invocation may tell and how it may leave, as CommandPromise has it.
Told(c) ==
    \E code \in Reports :
        /\ told[c] = "nothing"
        /\ exit[c] = "no"
        /\ code = "OK" => effects[c] = 1
        /\ code \in Definite => effects[c] = 0
        /\ told' = [told EXCEPT ![c] = code]
        /\ \/ UNCHANGED exit
           \/ exit' = [exit EXCEPT ![c] = IF code = "OK" THEN "zero" ELSE "one"]
Left(c) ==
    \E status \in {"zero", "one", "killed"} :
        /\ exit[c] = "no"
        /\ status = "zero" => c \notin Unattended
        /\ exit' = [exit EXCEPT ![c] = status]
        /\ told' = told
KeepsWord(c) ==
    /\ UNCHANGED <<run, effects>>
    /\ pc[c] # "idle" /\ pc'[c] # "idle"
    /\ UNCHANGED <<told, exit>> \/ Told(c) \/ Left(c)

\* A stream has no exit status to keep a promise with.
LEMMA StreamLeaves ==
    ASSUME TypeOK, NEW c \in Sessions, PlaceInv(c), NEW status \in {"zero", "one"},
           pc[c] \in {"opening", "streaming"}, StreamOver(c, status),
           UNCHANGED <<serverVars, run, told>>
    PROVE  KeepsWord(c)
<1>1. exit[c] = "no" /\ c \notin Unattended
  BY DEF PlaceInv, Unattended
<1>2. pc'[c] # "idle" /\ (exit' = exit \/ \E st \in {"zero", "one"} : exit' = [exit EXCEPT ![c] = st])
  BY DEF TypeOK, StreamOver, Leave, Goto, Show
<1> QED BY <1>1, <1>2 DEF KeepsWord, Left, serverVars

\* The report of a call is true.
LEMMA OutcomeIsTrue ==
    ASSUME TypeOK, NEW c \in Sessions, PlaceInv(c), NEW code \in Reports,
           Waiting(c), Outcome(c, code), UNCHANGED <<serverVars, run>>,
           code = "OK" => effects[c] = 1, code \in Definite => effects[c] = 0
    PROVE  KeepsWord(c)
<1>1. exit[c] = "no" /\ told[c] = "nothing" /\ pc[c] # "idle"
  BY DEF PlaceInv, Waiting
<1>2. pc'[c] # "idle"
  BY DEF TypeOK, Outcome, Leave, Goto, Show
<1>3. /\ told' = [told EXCEPT ![c] = code]
      /\ \/ exit' = exit
         \/ exit' = [exit EXCEPT ![c] = IF code = "OK" THEN "zero" ELSE "one"]
  BY DEF Outcome, Leave, Show, Tell
<1>4. Told(c)
  BY <1>1, <1>3 DEF Told
<1> QED BY <1>1, <1>2, <1>4 DEF KeepsWord, serverVars

\* So does the client in all else it does after its start.
LEMMA ClientKeepsWord ==
    ASSUME TypeOK, NEW c \in Sessions, SessionInv(c),
           ClientStep(c) \/ Timer(c) \/ StreamStep(c) \/ UserStep(c),
           \A r \in Repertoire[c] : ~Start(c, r)
    PROVE  KeepsWord(c)
<1> USE DEF SessionInv
<1>0. /\ pc \in [Sessions -> Places]
      /\ effects[c] \in 0..1
      /\ pc[c] # "exited" => exit[c] = "no"
  BY DEF TypeOK, Places, PlaceInv
<1>1. ASSUME UNCHANGED <<run, effects, told, exit>>, pc[c] # "idle", pc'[c] # "idle"
      PROVE  KeepsWord(c)
  BY <1>1 DEF KeepsWord
<1>2. ASSUME NEW status \in {"zero", "one", "killed"}, Leave(c, status),
             UNCHANGED <<run, effects, told>>, pc[c] \notin {"idle", "exited"},
             status = "zero" => c \notin Unattended
      PROVE  KeepsWord(c)
  BY <1>0, <1>2 DEF KeepsWord, Left, Leave, Goto
<1>3. ASSUME Leave(c, "one"), Tell(c, "Refused"), UNCHANGED <<run, effects>>,
             pc[c] \in {"load", "run"}
      PROVE  KeepsWord(c)
  <2>1. effects[c] = 0 /\ told[c] = "nothing" /\ exit[c] = "no"
    BY <1>0, <1>3, NothingYet DEF Before
  <2>2. Told(c)
    BY <1>3, <2>1 DEF Told, Leave, Tell, Reports, Definite
  <2> QED BY <1>0, <1>3, <2>2 DEF KeepsWord, Leave, Goto
<1>4. CASE PreRun(c)
  <2>1. UNCHANGED <<run, effects>> /\ pc[c] = "load"
    BY <1>4 DEF PreRun, serverVars
  <2>2. \/ Leave(c, "one") /\ Tell(c, "Refused")
        \/ Goto(c, "run") /\ UNCHANGED <<told, exit>>
    BY <1>4 DEF PreRun
  <2> QED BY <1>0, <1>1, <1>3, <2>1, <2>2 DEF Goto
<1>5. CASE sendCmd(c)
  <2>1. UNCHANGED <<run, effects>> /\ pc[c] = "run"
    BY <1>5 DEF sendCmd, At
  <2>2. \/ Leave(c, "one") /\ Tell(c, "Refused")
        \/ (Goto(c, "calling") \/ Goto(c, "validating")) /\ UNCHANGED <<told, exit>>
    BY <1>5 DEF sendCmd
  <2> QED BY <1>0, <1>1, <1>3, <2>1, <2>2 DEF Goto
<1>6. CASE NextStep(c) \/ deleteServiceCmd(c)
  BY <1>0, <1>1, <1>6 DEF NextStep, deleteServiceCmd, At, Goto
<1>7. ASSUME NEW commands, CallNow(c, commands)
      PROVE  KeepsWord(c)
  BY <1>0, <1>1, <1>7 DEF CallNow, At, Goto
<1>8. CASE Answered(c)
  <2>1. /\ call[c].code \in Reports
        /\ call[c].code = "OK" => effects[c] = 1
        /\ call[c].code \in Definite => effects[c] = 0
    BY <1>8 DEF Answered, CallInv
  <2> QED BY <1>8, <2>1, OutcomeIsTrue DEF Answered
<1>9. CASE Unavailable(c) \/ Deadline(c)
  <2>1. "Error" \in Reports /\ "Error" \notin Definite
    BY DEF Reports, Definite
  <2> QED BY <1>9, <2>1, OutcomeIsTrue DEF Unavailable, Deadline
<1>10. CASE Open(c) \/ Recv(c) \/ Update(c)
  BY <1>0, <1>1, <1>10 DEF Open, Recv, Update, Goto, serverVars
<1>11. CASE StreamEOF(c) \/ StreamBreaks(c) \/ StreamTimedOut(c)
  BY <1>11, StreamLeaves DEF StreamEOF, StreamBreaks, StreamTimedOut
<1>12. ASSUME NEW yes \in BOOLEAN, Confirm(c, yes)
       PROVE  KeepsWord(c)
  <2>1. c \notin Unattended
    BY <1>12 DEF Confirm, PlaceInv, Unattended
  <2> QED BY <1>0, <1>1, <1>2, <1>12, <2>1 DEF Confirm, Goto
<1>13. ASSUME NEW h \in Heights, Resize(c, h)
       PROVE  KeepsWord(c)
  BY <1>0, <1>1, <1>13 DEF Resize, serverVars
<1>14. ASSUME NEW labels, NEW commands, Quit(c, labels, commands),
              labels \subseteq {"validating", "connecting", "sending", "streaming", "showing",
                                "screen"}
       PROVE  KeepsWord(c)
  <2>1. pc[c] \in {"validating", "connecting", "sending", "streaming", "showing", "screen"}
    BY <1>14 DEF Quit
  <2>2. c \notin Unattended
    BY <2>1 DEF PlaceInv, Unattended, Streaming
  <2> QED BY <1>2, <1>14, <2>1, <2>2 DEF Quit, serverVars
<1>15. CASE SendModel(c) \/ ServiceStatusModel(c) \/ ListServicesModel(c) \/ WatchModel(c)
  BY <1>14, <1>15 DEF SendModel, ServiceStatusModel, ListServicesModel, WatchModel
<1>16. CASE Interrupt(c)
  <2>1. /\ pc[c] \in {"load", "run", "prompt", "calling", "opening", "streaming"}
        /\ UNCHANGED <<serverVars, run, told>>
        /\ \/ pc[c] \in {"opening", "streaming"} /\ StreamOver(c, "zero")
           \/ Leave(c, "killed")
    BY <1>16 DEF Interrupt
  <2> QED BY <1>2, <2>1, StreamLeaves DEF serverVars
<1> QED
  BY <1>4, <1>5, <1>6, <1>7, <1>8, <1>9, <1>10, <1>11, <1>12, <1>13, <1>15, <1>16
     DEF ClientStep, Timer, StreamStep, UserStep, createServiceCmd, listServicesCmd, dlqListCmd,
         dlqReplayCmd, logsCmd, watchCmd

Effective == {c \in Sessions : effects[c] > 0}

\* Who is unattended is settled at the start.
LEMMA UnattendedKept ==
    ASSUME UNCHANGED run, \A d \in Sessions : pc[d] = "idle" <=> pc'[d] = "idle"
    PROVE  Unattended' = Unattended
BY DEF Unattended, Prints

\* Every step of an invocation is one that the promise allows.
LEMMA StepKeepsPromise ==
    ASSUME CommandInv, NEW c \in Sessions, Step(c)
    PROVE  [Promise!Next]_(Promise!vars)
<1> USE DEF CommandInv
<1>0. /\ SessionInv(c)
      /\ run \in [Sessions -> Run \cup {None}]
      /\ effects \in [Sessions -> 0..1]
      /\ effects' \in [Sessions -> 0..1]
  <2>1. TypeOK'
    BY ClientKeepsTypes, ServerKeepsTypes DEF Step
  <2> QED BY <2>1 DEF TypeOK
<1>1. \A d \in Sessions \ {c} : pc'[d] = pc[d] /\ run'[d] = run[d]
  BY <1>0, OthersLeftAlone
<1>2. ASSUME NEW r \in Repertoire[c], Start(c, r)
      PROVE  [Promise!Next]_(Promise!vars)
  <2>1. /\ told[c] = "nothing" /\ exit[c] = "no"
        /\ effects' = effects /\ told' = told /\ exit' = exit
    BY <1>0, <1>2 DEF Start, SessionInv, PlaceInv, serverVars
  <2>2. Unattended' = Unattended \/ Unattended' = Unattended \cup {c}
    <3>1. pc[c] = "idle" /\ pc'[c] = "load"
      BY <1>2 DEF Start, Goto, TypeOK
    <3> QED BY <1>1, <3>1 DEF Unattended, Prints
  <2>3. CASE Unattended' = Unattended
    BY <2>1, <2>3 DEF Promise!vars
  <2>4. CASE Unattended' = Unattended \cup {c}
    <3>1. Promise!Start(c)
      BY <2>1, <2>4 DEF Promise!Start
    <3> QED BY <3>1 DEF Promise!Next
  <2> QED BY <2>2, <2>3, <2>4
<1>3. CASE ServerStep(c)
  <2>1. CASE Unary(c) \/ Stream(c)
    <3>1. Verify(c) /\ call[c].at = "flying"
      BY <2>1 DEF Unary, Stream, Arrived
    <3>2. UNCHANGED <<run, pc, effects, told, exit>>
      BY <1>0, <3>1, VerifyDecides DEF clientVars, SessionInv
    <3>3. Unattended' = Unattended
      BY <3>2, UnattendedKept
    <3> QED BY <3>2, <3>3 DEF Promise!vars
  <2>2. CASE ~Unary(c) /\ ~Stream(c)
    <3>1. Concludes(c)
      BY <1>0, <1>3, <2>2, HandlerConcludes DEF SessionInv
    <3>2. UNCHANGED <<run, pc, told, exit>>
      BY <3>1 DEF Concludes, clientVars
    <3>3. Unattended' = Unattended
      BY <3>2, UnattendedKept
    <3>4. CASE effects' = effects
      BY <3>2, <3>3, <3>4 DEF Promise!vars
    <3>5. CASE effects' = [effects EXCEPT ![c] = 1]
      <4>1. effects[c] = 0 /\ told[c] \notin Definite
        BY <1>0, <3>1 DEF Concludes, SessionInv, CallInv
      <4>2. c \notin Effective /\ Effective' = Effective \cup {c}
        BY <1>0, <3>5, <4>1 DEF Effective
      <4>3. Promise!Act(c)
        BY <3>2, <3>3, <4>1, <4>2 DEF Promise!Act, Effective
      <4> QED BY <4>3 DEF Promise!Next
    <3> QED BY <3>1, <3>4, <3>5 DEF Concludes
  <2> QED BY <2>1, <2>2
<1>4. CASE ~ServerStep(c) /\ \A r \in Repertoire[c] : ~Start(c, r)
  <2>1. KeepsWord(c)
    BY <1>0, <1>4, ClientKeepsWord DEF Step
  <2>2. Unattended' = Unattended /\ effects' = effects
    BY <1>1, <2>1, UnattendedKept DEF KeepsWord
  <2>3. CASE UNCHANGED <<told, exit>>
    BY <2>2, <2>3 DEF Promise!vars
  <2>4. CASE Told(c)
    <3>1. PICK code \in Reports :
            /\ told[c] = "nothing" /\ exit[c] = "no"
            /\ code = "OK" => effects[c] = 1
            /\ code \in Definite => effects[c] = 0
            /\ told' = [told EXCEPT ![c] = code]
            /\ \/ UNCHANGED exit
               \/ exit' = [exit EXCEPT ![c] = IF code = "OK" THEN "zero" ELSE "one"]
      BY <2>4 DEF Told
    <3>2. (code = "OK" => c \in Effective) /\ (code \in Definite => c \notin Effective)
      BY <3>1 DEF Effective
    <3>3. Promise!Tell(c, code)
      BY <2>2, <3>1, <3>2 DEF Promise!Tell, Effective
    <3> QED BY <3>3 DEF Promise!Next, Reports
  <2>5. CASE Left(c)
    <3>1. PICK status \in {"zero", "one", "killed"} :
            /\ exit[c] = "no"
            /\ status = "zero" => c \notin Unattended
            /\ exit' = [exit EXCEPT ![c] = status]
            /\ told' = told
      BY <2>5 DEF Left
    <3>2. Promise!Leave(c, status)
      BY <2>2, <3>1 DEF Promise!Leave
    <3> QED BY <3>2 DEF Promise!Next
  <2> QED BY <2>1, <2>3, <2>4, <2>5 DEF KeepsWord
<1> QED BY <1>2, <1>3, <1>4

\* The command line implements CommandPromise (send.go:52-77, service.go:43-111,
\* dlq.go:35-109, logs.go:52-114, send_ui.go:101-134).
THEOREM KeepsPromise == Spec => PromiseSpec
<1>1. Init => Promise!Init
  <2> SUFFICES ASSUME Init PROVE Promise!Init
    OBVIOUS
  <2>1. Unattended = {}
    BY DEF Init, Unattended
  <2>2. {c \in Sessions : effects[c] > 0} = {}
    BY DEF Init
  <2> QED BY <2>1, <2>2 DEF Init, Promise!Init
<1>2. CommandInv /\ [Next]_vars => [Promise!Next]_(Promise!vars)
  <2> SUFFICES ASSUME CommandInv, [Next]_vars PROVE [Promise!Next]_(Promise!vars)
    OBVIOUS
  <2>1. CASE UNCHANGED vars
    <3>1. Unattended' = Unattended
      BY <2>1, UnattendedKept DEF vars
    <3> QED BY <2>1, <3>1 DEF vars, Promise!vars
  <2>2. CASE Next
    BY <2>2, StepKeepsPromise DEF Next, Step
  <2> QED BY <2>1, <2>2
<1> QED BY <1>1, <1>2, CommandInvariant, PTL DEF Spec, PromiseSpec, Promise!Spec

----------------------------------------------------------------------------
(* The screen                                                              *)

\* The events of a sequence are the newest of the first last ones.
Newest(events, last) == \A i \in 1..Len(events) : events[i] = last - Len(events) + i

\* The screen of a session goes with what the session has received.
ScreenInv(c) ==
    /\ pc[c] = "idle" => got[c] = 0 /\ screen[c].events = <<>>
    /\ pc[c] # "idle" /\ run[c].cmd # "watch --ui" => screen[c].events = <<>>
    /\ pc[c] # "idle" /\ run[c].cmd = "watch --ui" /\ got[c] > 0 => screen[c].events # <<>>
    /\ Newest(screen[c].events, got[c])

\* An event more on the screen leaves the newest ones, the last of all among them.
LEMMA ShownIsNewest ==
    ASSUME NEW height \in Nat, NEW events \in Seq(Nat), NEW last \in Nat, Newest(events, last),
           NEW new, new = Shown([height |-> height, events |-> events], last + 1)
    PROVE  new.events # <<>> /\ Newest(new.events, last + 1)
<1> DEFINE all == Append(events, last + 1)
           first == Len(all) - (height - 5) + 1
           part == SubSeq(all, first, Len(all))
<1>1. all \in Seq(Nat) /\ Len(all) = Len(events) + 1 /\ Len(events) \in Nat
  OBVIOUS
<1>2. \A i \in 1..Len(all) : all[i] = last + 1 - Len(all) + i
  <2>1. all[Len(events) + 1] = last + 1
    OBVIOUS
  <2>2. \A i \in 1..Len(events) : all[i] = events[i]
    OBVIOUS
  <2>3. \A i \in 1..Len(events) : events[i] = last - Len(events) + i
    BY DEF Newest
  <2>4. \A i \in 1..Len(all) : i \in 1..Len(events) \/ i = Len(events) + 1
    BY <1>1
  <2> HIDE DEF all
  <2>5. ASSUME NEW i \in 1..Len(all)
        PROVE  all[i] = last + 1 - Len(all) + i
    <3>1. CASE i = Len(events) + 1
      BY <1>1, <2>1, <3>1
    <3>2. CASE i \in 1..Len(events)
      BY <1>1, <2>2, <2>3, <3>2
    <3> QED BY <2>4, <3>1, <3>2
  <2> QED BY <2>5
<1>3. CASE height > 5 /\ Len(all) > height - 5
  <2>1. first \in 1..Len(all) /\ first \in Int /\ Len(all) \in Int
    BY <1>1, <1>3
  <2>2. /\ Len(part) = height - 5
        /\ \A i \in 1..Len(part) : part[i] = all[first + i - 1]
    <3>1. Len(all) - first + 1 = height - 5
      BY <1>1, <1>3
    <3> HIDE DEF all, first
    <3>2. \A i \in first..Len(all) : all[i] \in Nat
      <4>1. \A i \in 1..Len(all) : all[i] \in Nat
        BY <1>1, ElementOfSeq
      <4> QED BY <1>1, <2>1, <4>1
    <3> QED BY <1>3, <2>1, <3>1, <3>2, SubSeqProperties
  <2>3. new.events = part
    BY <1>3 DEF Shown
  <2>4. \A i \in 1..Len(part) : first + i - 1 \in 1..Len(all)
    <3>1. Len(part) = height - 5 /\ Len(all) \in Nat
      BY <1>1, <2>2
    <3> QED BY <1>3, <2>1, <3>1
  <2>5. \A i \in 1..Len(part) : part[i] = last + 1 - Len(part) + i
    <3>1. \A i \in 1..Len(part) : part[i] = last + 1 - Len(all) + (first + i - 1)
      BY <1>2, <2>2, <2>4
    <3>2. Len(part) = height - 5 /\ Len(all) \in Nat /\ first = Len(all) - (height - 5) + 1
      BY <1>1, <2>2
    <3> HIDE DEF part, all, first
    <3> QED BY <3>1, <3>2
  <2>6. part # <<>>
    <3>1. Len(part) > 0
      BY <1>3, <2>2
    <3> HIDE DEF part
    <3> QED BY <3>1
  <2> HIDE DEF part
  <2>7. Newest(part, last + 1)
    BY <2>5 DEF Newest
  <2> QED BY <2>3, <2>6, <2>7
<1>4. CASE ~(height > 5 /\ Len(all) > height - 5)
  <2>1. new.events = all
    BY <1>4 DEF Shown
  <2> HIDE DEF all
  <2>2. all # <<>>
    BY <1>1
  <2>3. Newest(all, last + 1)
    BY <1>2 DEF Newest
  <2> QED BY <2>1, <2>2, <2>3
<1> QED BY <1>3, <1>4

\* The events of a session only change when one is received or the window does.
LEMMA ScreenLeft ==
    ASSUME NEW c \in Sessions, Step(c), \A r \in Repertoire[c] : ~Start(c, r),
           ~Update(c), ~Recv(c), \A h \in Heights : ~Resize(c, h)
    PROVE  UNCHANGED <<got, screen>>
<1>1. CASE ServerStep(c)
  BY <1>1
     DEF ServerStep, Unary, Stream, Verify, RegisterService, DeleteService, ListDeadLetters,
         ReplayDeadLetter, SendNotification, ListServices, ListNotificationJobs, GetStats, Carry,
         clientVars
<1>2. CASE ~ServerStep(c)
  BY <1>2
     DEF Step, ClientStep, Timer, StreamStep, UserStep, PreRun, sendCmd, NextStep,
         deleteServiceCmd, createServiceCmd, listServicesCmd, dlqListCmd, dlqReplayCmd, logsCmd,
         watchCmd, CallNow, Answered, Unavailable, Deadline, Open, StreamEOF, StreamBreaks,
         StreamTimedOut, Confirm, SendModel, ServiceStatusModel, ListServicesModel, WatchModel,
         Quit, Interrupt
<1> QED BY <1>1, <1>2

\* Nothing that the screen depends on is changed.
LEMMA ScreenKept ==
    ASSUME NEW c \in Sessions, ScreenInv(c), UNCHANGED <<run[c], got[c], screen[c]>>,
           pc'[c] = "idle" <=> pc[c] = "idle"
    PROVE  ScreenInv(c)'
BY DEF ScreenInv, Newest

\* Nothing is shown of a session that has received nothing.
LEMMA ScreenEmpty ==
    ASSUME NEW c \in Sessions, pc'[c] # "idle", got'[c] = 0, screen'[c].events = <<>>
    PROVE  ScreenInv(c)'
<1>1. Newest(<<>>, 0)
  BY DEF Newest
<1>2. ~(0 > 0)
  OBVIOUS
<1>3. Newest(screen'[c].events, got'[c])
  BY <1>1
<1>4. ~(got'[c] > 0)
  BY <1>2
<1>5. Newest(screen[c].events, got[c])'
  BY <1>3 DEF Newest
<1> QED BY <1>4, <1>5 DEF ScreenInv

\* An event of another stream than that of watch --ui leaves the screen alone.
LEMMA RecvKeepsScreen ==
    ASSUME TypeOK, NEW c \in Sessions, PlaceInv(c), ScreenInv(c), Recv(c)
    PROVE  /\ ScreenInv(c)'
           /\ \A d \in Sessions \ {c} : UNCHANGED <<got[d], screen[d]>>
<1>1. /\ pc[c] = "streaming" /\ pc'[c] # "idle" /\ run' = run /\ screen' = screen
      /\ got \in [Sessions -> 0..MaxEvents]
  BY DEF Recv, Goto, TypeOK
<1>2. CASE run[c].cmd = "watch --ui"
  <2>1. got' = got
    BY <1>2 DEF Recv
  <2> QED BY <1>1, <2>1 DEF ScreenInv, Newest
<1>3. CASE run[c].cmd # "watch --ui"
  <2>1. screen[c].events = <<>> /\ got' = [got EXCEPT ![c] = got[c] + 1]
    BY <1>1, <1>3 DEF ScreenInv, Recv
  <2>2. Newest(screen[c].events, got[c])'
    <3>1. screen'[c].events = <<>>
      BY <1>1, <2>1
    <3> QED BY <3>1 DEF Newest
  <2>3. ScreenInv(c)'
    <3>1. pc'[c] # "idle" /\ run'[c].cmd # "watch --ui" /\ screen'[c].events = <<>>
      BY <1>1, <1>3, <2>1
    <3> QED BY <2>2, <3>1 DEF ScreenInv
  <2> QED BY <1>1, <2>1, <2>3
<1> QED BY <1>2, <1>3

\* An event goes on the screen of its own session.
LEMMA UpdateKeepsScreen ==
    ASSUME TypeOK, NEW c \in Sessions, PlaceInv(c), ScreenInv(c), Update(c)
    PROVE  /\ ScreenInv(c)'
           /\ \A d \in Sessions \ {c} : UNCHANGED <<got[d], screen[d]>>
<1> DEFINE t == screen[c]
           events == t.events
           new == Shown(t, got[c] + 1)
<1>1. /\ pc[c] = "showing" /\ pc'[c] # "idle" /\ run' = run /\ run[c].cmd = "watch --ui"
      /\ got' = [got EXCEPT ![c] = got[c] + 1]
      /\ screen' = [screen EXCEPT ![c] = new]
  BY DEF Update, Goto, PlaceInv, TypeOK
<1>2. /\ got \in [Sessions -> 0..MaxEvents]
      /\ screen \in [Sessions -> [height : Heights \cup {0}, events : Seq(1..MaxEvents)]]
  BY DEF TypeOK
<1>3. got[c] \in Nat /\ got'[c] = got[c] + 1
  <2>1. got[c] \in 0..MaxEvents /\ MaxEvents \in Nat
    BY <1>2, CommandAssumption
  <2>2. got'[c] = got[c] + 1
    BY <1>1, <1>2
  <2> QED BY <2>1, <2>2
<1>4. /\ t \in [height : Heights \cup {0}, events : Seq(1..MaxEvents)]
      /\ Heights \cup {0} \subseteq Nat
  BY <1>2, CommandAssumption
<1>5. t = [height |-> t.height, events |-> t.events] /\ t.height \in Nat
  <2> HIDE DEF t
  <2> QED BY <1>4
<1>6. events \in Seq(Nat)
  <2>1. events \in Seq(1..MaxEvents)
    BY <1>4
  <2> HIDE DEF t, events
  <2>2. \A i \in 1..Len(events) : events[i] \in 1..MaxEvents
    BY <2>1, ElementOfSeq
  <2>3. \A i \in 1..Len(events) : events[i] \in Nat
    BY <2>2, CommandAssumption
  <2> QED BY <2>1, <2>3
<1>7. Newest(events, got[c])
  BY DEF ScreenInv
<1>8. new = Shown([height |-> t.height, events |-> events], got[c] + 1)
  BY <1>5
<1>9. new.events # <<>> /\ Newest(new.events, got[c] + 1)
  <2> HIDE DEF t, events, new
  <2> QED BY <1>3, <1>5, <1>6, <1>7, <1>8, ShownIsNewest
<1>10. screen'[c] = new /\ \A d \in Sessions \ {c} : screen'[d] = screen[d]
  BY <1>1, <1>2
<1> HIDE DEF new, events, t
<1>11. /\ screen'[c].events # <<>>
       /\ Newest(screen'[c].events, got'[c])
  BY <1>3, <1>9, <1>10
<1>12. pc'[c] # "idle" /\ run'[c].cmd = "watch --ui"
  BY <1>1
<1>13. ScreenInv(c)'
  BY <1>11, <1>12 DEF ScreenInv, Newest
<1> QED BY <1>1, <1>2, <1>10, <1>13

\* The window changes, and nothing in it.
LEMMA ResizeKeepsScreen ==
    ASSUME TypeOK, NEW c \in Sessions, ScreenInv(c), NEW h \in Heights, Resize(c, h)
    PROVE  /\ ScreenInv(c)'
           /\ \A d \in Sessions \ {c} : UNCHANGED <<got[d], screen[d]>>
<1>1. /\ screen \in [Sessions -> [height : Heights \cup {0}, events : Seq(1..MaxEvents)]]
      /\ UNCHANGED <<run, pc, got>>
      /\ screen' = [screen EXCEPT ![c].height = h]
  BY DEF TypeOK, Resize
<1>2. screen'[c].events = screen[c].events
  BY <1>1
<1>3. \A d \in Sessions \ {c} : screen'[d] = screen[d]
  BY <1>1
<1>4. ScreenInv(c)'
  BY <1>1, <1>2 DEF ScreenInv, Newest
<1> QED BY <1>1, <1>3, <1>4

\* So every screen is kept by every step.
LEMMA StepKeepsScreen ==
    ASSUME CommandInv, [Next]_vars, \A c \in Sessions : ScreenInv(c)
    PROVE  (\A c \in Sessions : ScreenInv(c))'
<1> USE DEF CommandInv
<1>1. CASE UNCHANGED vars
  BY <1>1 DEF vars, ScreenInv, Newest
<1>2. ASSUME NEW c \in Sessions, Step(c)
      PROVE  (\A d \in Sessions : ScreenInv(d))'
  <2>1. ASSUME NEW d \in Sessions \ {c}, UNCHANGED <<got[d], screen[d]>>
        PROVE  ScreenInv(d)'
    <3>1. UNCHANGED <<run[d], pc[d]>>
      BY <1>2, OthersLeftAlone
    <3> QED BY <2>1, <3>1, ScreenKept
  <2>2. ASSUME NEW r \in Repertoire[c], Start(c, r)
        PROVE  (\A d \in Sessions : ScreenInv(d))'
    <3>1. pc[c] = "idle" /\ pc' = [pc EXCEPT ![c] = "load"] /\ UNCHANGED <<got, screen>>
      BY <2>2 DEF Start, Goto
    <3>2. got[c] = 0 /\ screen[c].events = <<>> /\ pc'[c] = "load"
      BY <3>1 DEF ScreenInv, TypeOK
    <3>3. pc'[c] # "idle" /\ got'[c] = 0 /\ screen'[c].events = <<>>
      BY <3>1, <3>2
    <3>4. ScreenInv(c)'
      BY <3>3, ScreenEmpty
    <3> QED BY <2>1, <3>1, <3>4
  <2>3. CASE Recv(c) \/ Update(c)
    BY <2>1, <2>3, RecvKeepsScreen, UpdateKeepsScreen DEF SessionInv
  <2>4. ASSUME NEW h \in Heights, Resize(c, h)
        PROVE  (\A d \in Sessions : ScreenInv(d))'
    BY <2>1, <2>4, ResizeKeepsScreen
  <2>5. CASE /\ \A r \in Repertoire[c] : ~Start(c, r)
             /\ ~Recv(c) /\ ~Update(c)
             /\ \A h \in Heights : ~Resize(c, h)
    <3>1. UNCHANGED <<got, screen>>
      BY <1>2, <2>5, ScreenLeft
    <3>2. CASE ServerStep(c)
      <4>1. UNCHANGED <<pc, run>>
        BY <3>2
           DEF ServerStep, Unary, Stream, Verify, RegisterService, DeleteService, ListDeadLetters,
               ReplayDeadLetter, SendNotification, ListServices, ListNotificationJobs, GetStats,
               Carry, clientVars
      <4> QED BY <3>1, <4>1, ScreenKept
    <3>3. CASE ~ServerStep(c)
      <4>1. run' = run /\ pc[c] # "idle" /\ pc'[c] # "idle"
        BY <1>2, <2>5, <3>3, ClientKeepsWord DEF Step, KeepsWord
      <4>2. ScreenInv(c)'
        BY <3>1, <4>1, ScreenKept
      <4> QED BY <2>1, <3>1, <4>2
    <3> QED BY <3>2, <3>3
  <2> QED BY <2>2, <2>3, <2>4, <2>5
<1> QED BY <1>1, <1>2 DEF Next, Step

\* watch --ui shows the newest events, in order and without a gap, whatever the
\* height of the terminal (watch_ui.go:51-71).
THEOREM ShowsNewest == Spec => []NewestOnScreen
<1>1. Init => \A c \in Sessions : ScreenInv(c)
  <2> SUFFICES ASSUME Init, NEW c \in Sessions PROVE ScreenInv(c)
    OBVIOUS
  <2>1. got[c] = 0 /\ screen[c].events = <<>>
    BY DEF Init, NewWatchModel
  <2>2. Newest(<<>>, 0)
    BY DEF Newest
  <2>3. ~(0 > 0)
    OBVIOUS
  <2> QED BY <2>1, <2>2, <2>3 DEF ScreenInv
<1>2. /\ CommandInv /\ [Next]_vars /\ (\A c \in Sessions : ScreenInv(c))
      => (\A c \in Sessions : ScreenInv(c))'
  BY StepKeepsScreen
<1>3. CommandInv /\ (\A c \in Sessions : ScreenInv(c)) => NewestOnScreen
  <2> SUFFICES ASSUME CommandInv, \A c \in Sessions : ScreenInv(c), NEW c \in Sessions
               PROVE  LET events == screen[c].events IN
                      /\ run[c] # None =>
                            (run[c].cmd = "watch --ui" /\ got[c] > 0 => events # <<>>)
                      /\ \A i \in DOMAIN events : events[i] = got[c] - Len(events) + i
    BY DEF NewestOnScreen
  <2> DEFINE events == screen[c].events
  <2>1. events \in Seq(1..MaxEvents) /\ DOMAIN events = 1..Len(events)
    BY DEF CommandInv, TypeOK
  <2>2. run[c].cmd = "watch --ui" /\ got[c] > 0 => events # <<>>
    <3>1. pc[c] = "idle" => ~(got[c] > 0)
      <4>1. ~(0 > 0)
        OBVIOUS
      <4>2. pc[c] = "idle" => got[c] = 0
        BY DEF ScreenInv
      <4> QED BY <4>1, <4>2
    <3> QED BY <3>1 DEF ScreenInv
  <2>3. \A i \in 1..Len(events) : events[i] = got[c] - Len(events) + i
    BY DEF ScreenInv, Newest
  <2> QED BY <2>1, <2>2, <2>3
<1> QED BY <1>1, <1>2, <1>3, CommandInvariant, PTL DEF Spec
=============================================================================
