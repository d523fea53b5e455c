---------------------------- MODULE CommandLine -----------------------------
(***************************************************************************)
(* notifyctl (cmd/notifyctl): invocations that load their configuration,   *)
(* make one remote call or open one stream, and report.  A call passes the *)
(* client's interceptor (internal/grpc/auth.go), the generated stubs and   *)
(* the server's interceptor (internal/server/auth.go) before a handler     *)
(* acts on it; the client may give up on it at any point, by its deadline  *)
(* or by the user, while the server goes on.                               *)
(***************************************************************************)
EXTENDS Naturals, Sequences

CONSTANTS
    Sessions,    \* invocations, in terminals of their own
    Repertoire,  \* Repertoire[c]: the command lines c may be started with
    Services,    \* service IDs; each stands for its API key too
    Files,       \* contents of ~/.notifyctl.yaml
    Envs,        \* values of NOTIFYCTL_API_KEY and NOTIFYCTL_SERVICE_ID
    Heights,     \* of the terminal of watch --ui
    Empty,
    Broken,      \* a configuration file that does not parse
    None,
    MaxFaults,   \* bound: errors of the server and the connection
    MaxEvents    \* bound: events of a stream

TextOnly == {"dlq list", "dlq replay", "logs", "logs --stats"}
Streaming == {"logs --stream", "watch", "watch --ui"}
Commands ==
    {"send", "service create", "service list", "service delete"} \cup TextOnly \cup Streaming

\* A source of settings.
Layer == [key : Services \cup {Empty}, id : Services \cup {Empty}]

\* A command line: flag holds --auth-token and --service-id, timed whether the
\* --timeout is above zero, target the --id of service delete.
Run == [cmd : Commands, mode : {"interactive", "quiet", "json"}, flag : Layer,
        timed : BOOLEAN, target : Services]

ASSUME CommandAssumption ==
    /\ Repertoire \in [Sessions -> SUBSET Run]
    /\ Files \subseteq Layer \cup {Broken}
    /\ Envs \subseteq Layer
    /\ {Empty, Broken, None} \cap Services = {}
    /\ Broken \notin Layer
    /\ Heights \subseteq Nat
    /\ MaxFaults \in Nat
    /\ MaxEvents \in Nat

VARIABLES
    file,      \* the configuration file
    env,       \* the environment
    services,  \* services[s]: the row of s at the server
    run,       \* run[c]: the command line of c
    cfg,       \* cfg[c]: its configuration
    pc,        \* pc[c]: where c is
    call,      \* call[c]: its call, as the server sees it
    effects,   \* effects[c]: how often the call was carried out
    told,      \* told[c]: what c has reported
    exit,      \* exit[c]: its exit status
    got,       \* got[c]: the events it printed or put on the screen
    screen,    \* screen[c]: the height and the events of watch --ui
    faults

clientVars == <<run, cfg, pc, told, exit, got, screen>>
serverVars == <<services, call, effects>>
vars == <<file, env, services, run, cfg, pc, call, effects, told, exit, got, screen, faults>>

Definite == {"Refused", "Unauthenticated", "PermissionDenied", "NotFound", "AlreadyExists"}
Reports == Definite \cup {"OK", "Error"}
NoLayer == [key |-> Empty, id |-> Empty]
NewWatchModel == [height |-> 0, events |-> <<>>]
NoCall == [at |-> "none", as |-> None, code |-> None]

\* Every variable holds a value of its type.
TypeOK ==
    /\ file \in Files
    /\ env \in Envs
    /\ services \in [Services -> {"none", "live", "deleted"}]
    /\ run \in [Sessions -> Run \cup {None}]
    /\ cfg \in [Sessions -> Layer]
    /\ pc \in [Sessions -> {"idle", "load", "run", "prompt", "validating", "connecting",
                            "sending", "calling", "opening", "streaming", "showing", "screen",
                            "exited"}]
    /\ call \in [Sessions -> [at : {"none", "flying", "handling", "ended"},
                              as : Services \cup {None}, code : Reports \cup {None}]]
    /\ effects \in [Sessions -> 0..1]
    /\ told \in [Sessions -> Reports \cup {"nothing"}]
    /\ exit \in [Sessions -> {"no", "zero", "one", "killed"}]
    /\ got \in [Sessions -> 0..MaxEvents]
    /\ screen \in [Sessions -> [height : Heights \cup {0}, events : Seq(1..MaxEvents)]]
    /\ faults \in 0..MaxFaults

Init ==
    /\ file \in Files
    /\ env \in Envs
    /\ services \in [Services -> {"none", "live"}]
    /\ run = [c \in Sessions |-> None]
    /\ cfg = [c \in Sessions |-> NoLayer]
    /\ pc = [c \in Sessions |-> "idle"]
    /\ call = [c \in Sessions |-> NoCall]
    /\ effects = [c \in Sessions |-> 0]
    /\ told = [c \in Sessions |-> "nothing"]
    /\ exit = [c \in Sessions |-> "no"]
    /\ got = [c \in Sessions |-> 0]
    /\ screen = [c \in Sessions |-> NewWatchModel]
    /\ faults = 0

Goto(c, label) == pc' = [pc EXCEPT ![c] = label]

\* The process ends.
Leave(c, status) == Goto(c, "exited") /\ exit' = [exit EXCEPT ![c] = status]

\* The user gets to see the outcome.
Tell(c, code) == told' = [told EXCEPT ![c] = code]

----------------------------------------------------------------------------
(* PersistentPreRunE                                                       *)

\* The user types a command.
Start(c, r) ==
    /\ pc[c] = "idle"
    /\ run' = [run EXCEPT ![c] = r]
    /\ Goto(c, "load")
    /\ UNCHANGED <<file, env, serverVars, cfg, told, exit, got, screen, faults>>

Prefer(first, second) ==
    [key |-> IF first.key # Empty THEN first.key ELSE second.key,
     id  |-> IF first.id # Empty THEN first.id ELSE second.id]

\* Mutated form of Load: the file is read over the environment.
LoadFileLast == Prefer(file, env)

\* config.Load of a file that parses, or is not there.
Load == Prefer(env, file)

NeedsKey(cmd) ==
    cmd \notin {"service create", "service list", "logs", "logs --stats", "logs --stream"}
NeedsId(cmd) == cmd \in {"send", "watch", "watch --ui"}

\* The configuration is loaded, the flags take precedence, and the command must
\* have what it needs.
PreRun(c) ==
    /\ pc[c] = "load"
    /\ IF file = Broken
       THEN Leave(c, "one") /\ Tell(c, "Refused") /\ UNCHANGED cfg
       ELSE LET conf == Prefer(run[c].flag, Load) IN
            IF \/ NeedsKey(run[c].cmd) /\ conf.key = Empty
               \/ NeedsId(run[c].cmd) /\ conf.id = Empty
            THEN Leave(c, "one") /\ Tell(c, "Refused") /\ UNCHANGED cfg
            ELSE Goto(c, "run") /\ cfg' = [cfg EXCEPT ![c] = conf] /\ UNCHANGED <<told, exit>>
    /\ UNCHANGED <<file, env, serverVars, run, got, screen, faults>>

----------------------------------------------------------------------------
(* RunE                                                                    *)

\* A stub is called: the request is on its way.
Invoke(c) == call' = [call EXCEPT ![c] = [at |-> "flying", as |-> None, code |-> None]]

\* Whether the outcome is printed rather than shown on a screen.
Prints(c) == run[c].mode # "interactive" \/ run[c].cmd \in TextOnly

At(c, label, commands) == pc[c] = label /\ run[c].cmd \in commands

\* The payload is read and decoded before anything is sent.
sendCmd(c) ==
    /\ At(c, "run", {"send"})
    /\ \/ Leave(c, "one") /\ Tell(c, "Refused") /\ UNCHANGED call
       \/ /\ Prints(c)
          /\ Goto(c, "calling") /\ Invoke(c) /\ UNCHANGED <<told, exit>>
       \/ /\ ~Prints(c)
          /\ Goto(c, "validating") /\ UNCHANGED <<call, told, exit>>
    /\ UNCHANGED <<file, env, services, effects, run, cfg, got, screen, faults>>

\* nextStepMsg of the SendModel: two steps for show, then the call.
NextStep(c) ==
    /\ \/ pc[c] = "validating" /\ Goto(c, "connecting") /\ UNCHANGED call
       \/ pc[c] = "connecting" /\ Goto(c, "sending") /\ Invoke(c)
    /\ UNCHANGED <<file, env, services, effects, run, cfg, told, exit, got, screen, faults>>

\* A confirmation is asked for, unless the command is quiet.
deleteServiceCmd(c) ==
    /\ At(c, "run", {"service delete"})
    /\ IF run[c].mode = "quiet"
       THEN Goto(c, "calling") /\ Invoke(c)
       ELSE Goto(c, "prompt") /\ UNCHANGED call
    /\ UNCHANGED <<file, env, services, effects, run, cfg, told, exit, got, screen, faults>>

\* The answer to "Are you sure".
Confirm(c, yes) ==
    /\ pc[c] = "prompt"
    /\ IF yes
       THEN Goto(c, "calling") /\ Invoke(c) /\ UNCHANGED exit
       ELSE Leave(c, "zero") /\ UNCHANGED call
    /\ UNCHANGED <<file, env, services, effects, run, cfg, told, got, screen, faults>>

\* The other commands call at once, or open a stream.
CallNow(c, commands) ==
    /\ At(c, "run", commands)
    /\ IF run[c].cmd \in Streaming
       THEN Goto(c, "opening") /\ UNCHANGED call
       ELSE Goto(c, "calling") /\ Invoke(c)
    /\ UNCHANGED <<file, env, services, effects, run, cfg, told, exit, got, screen, faults>>

createServiceCmd(c) == CallNow(c, {"service create"})
listServicesCmd(c) == CallNow(c, {"service list"})
dlqListCmd(c) == CallNow(c, {"dlq list"})
dlqReplayCmd(c) == CallNow(c, {"dlq replay"})
logsCmd(c) == CallNow(c, {"logs", "logs --stats", "logs --stream"})
watchCmd(c) == CallNow(c, {"watch", "watch --ui"})

----------------------------------------------------------------------------
(* The server                                                              *)

\* The x-api-key values of a call, in order: --auth-token in the command's
\* context, then the interceptor's configured key, which streams do not get.
\* With --auth-token the two are one: PreRun has put it into the configuration.
Outgoing(c) ==
    (IF run[c].flag.key # Empty THEN <<run[c].flag.key>> ELSE <<>>)
        \o (IF run[c].cmd \in Streaming THEN <<>> ELSE <<cfg[c].key>>)

\* Mutated form of Exempt: the listing of services is not on the list.
ExemptButList(cmd) == cmd \in {"service create"} \cup Streaming

\* Methods the interceptors let pass without a key.
Exempt(cmd) == cmd \in {"service create", "service list"} \cup Streaming

\* GetByAPIKeyHash finds the service of the key.
Accepts(key) == key # Empty /\ services[key] = "live"

\* A fault is an error the server or the connection may return.
Fault(is) ==
    /\ is => faults < MaxFaults
    /\ faults' = IF is THEN faults + 1 ELSE faults

\* The interceptor takes the first key.
Verify(c) ==
    /\ LET keys == Outgoing(c) IN
       \E error \in BOOLEAN :
        /\ error => ~Exempt(run[c].cmd)
        /\ Fault(error)
        /\ call' = [call EXCEPT ![c] =
            IF Exempt(run[c].cmd)
            THEN [at |-> "handling", as |-> None, code |-> None]
            ELSE IF keys = <<>> \/ error \/ ~Accepts(Head(keys))
            THEN [at |-> "ended", as |-> None, code |-> "Unauthenticated"]
            ELSE [at |-> "handling", as |-> Head(keys), code |-> None]]
    /\ UNCHANGED <<file, env, services, effects, clientVars>>

\* The request is decoded by the handler of its method.
Arrived(c, commands) == call[c].at = "flying" /\ run[c].cmd \in commands

Unary(c) == Arrived(c, Commands \ Streaming) /\ Verify(c)
Stream(c) == Arrived(c, Streaming) /\ Verify(c)

Ended(c, code) == call' = [call EXCEPT ![c] = [at |-> "ended", as |-> @.as, code |-> code]]

\* The handler of one of the commands is at work.
Handling(c, commands) == call[c].at = "handling" /\ run[c].cmd \in commands

\* The handler does its work, and may fail at the end of it all the same:
\* SendNotification, say, when the row is stored and the publish fails.
Served(c) ==
    /\ effects' = [effects EXCEPT ![c] = @ + 1]
    /\ \E error \in BOOLEAN : Fault(error) /\ Ended(c, IF error THEN "Error" ELSE "OK")

\* It fails before it has done anything, or declines the request.
Fails(c) == Fault(TRUE) /\ Ended(c, "Error") /\ UNCHANGED effects
Declines(c, code) == Ended(c, code) /\ UNCHANGED <<effects, faults>>

\* A fresh service, or a name that is taken.
RegisterService(c) ==
    /\ Handling(c, {"service create"})
    /\ \/ /\ \E s \in Services :
              /\ services[s] = "none"
              /\ services' = [services EXCEPT ![s] = "live"]
          /\ Served(c)
       \/ Declines(c, "AlreadyExists") /\ UNCHANGED services
       \/ Fails(c) /\ UNCHANGED services
    /\ UNCHANGED <<file, env, clientVars>>

DeleteService(c) ==
    LET target == run[c].target IN
    /\ Handling(c, {"service delete"})
    /\ \/ /\ services[target] = "live"
          /\ services' = [services EXCEPT ![target] = "deleted"]
          /\ Served(c)
       \/ services[target] # "live" /\ Declines(c, "NotFound") /\ UNCHANGED services
       \/ Fails(c) /\ UNCHANGED services
    /\ UNCHANGED <<file, env, clientVars>>

\* The dead letters of the caller only.
ListDeadLetters(c) ==
    /\ Handling(c, {"dlq list"})
    /\ IF cfg[c].id \in {Empty, call[c].as}
       THEN Served(c) \/ Fails(c)
       ELSE Declines(c, "PermissionDenied")
    /\ UNCHANGED <<file, env, services, clientVars>>

\* The letter may be unknown, or another service's.
ReplayDeadLetter(c) ==
    /\ Handling(c, {"dlq replay"})
    /\ \/ Served(c) \/ Fails(c)
       \/ \E code \in {"NotFound", "PermissionDenied"} : Declines(c, code)
    /\ UNCHANGED <<file, env, services, clientVars>>

\* The job row refers to the row of a service, deleted or not.
SendNotification(c) ==
    /\ Handling(c, {"send"})
    /\ IF services[cfg[c].id] = "none"
       THEN Declines(c, "Error")
       ELSE Served(c) \/ Fails(c)
    /\ UNCHANGED <<file, env, services, clientVars>>

Carry(c, command) ==
    /\ Handling(c, {command})
    /\ Served(c) \/ Fails(c)
    /\ UNCHANGED <<file, env, services, clientVars>>

ListServices(c) == Carry(c, "service list")
ListNotificationJobs(c) == Carry(c, "logs")
GetStats(c) == Carry(c, "logs --stats")

----------------------------------------------------------------------------
(* The outcome of a call                                                   *)

\* A screen comes up, or stays.
Show(c) == Goto(c, "screen") /\ UNCHANGED exit

\* Mutated form of Outcome: the error of the call is not returned.
OutcomeIgnoringError(c, code) ==
    /\ Tell(c, code)
    /\ IF Prints(c)
       THEN Leave(c, "zero")
       ELSE Show(c)

\* Printed, with an exit status; or shown, until a key is pressed.
Outcome(c, code) ==
    /\ Tell(c, code)
    /\ IF Prints(c)
       THEN Leave(c, IF code = "OK" THEN "zero" ELSE "one")
       ELSE Show(c)

Waiting(c) == pc[c] \in {"calling", "sending"}

Answered(c) ==
    /\ Waiting(c)
    /\ call[c].at = "ended"
    /\ Outcome(c, call[c].code)
    /\ UNCHANGED <<file, env, serverVars, run, cfg, got, screen, faults>>

\* The connection fails; what became of the call is anybody's guess.
Unavailable(c) ==
    /\ Waiting(c)
    /\ Fault(TRUE)
    /\ Outcome(c, "Error")
    /\ UNCHANGED <<file, env, serverVars, run, cfg, got, screen>>

\* Mutated form of HasDeadline: the timeout does not get into the context.
HasDeadlineNever(c) == FALSE

\* NewCommandContext with --timeout above zero.
HasDeadline(c) == run[c].timed

\* The client gives up; the call may still be carried out.
Deadline(c) ==
    /\ Waiting(c)
    /\ HasDeadline(c)
    /\ Outcome(c, "Error")
    /\ UNCHANGED <<file, env, serverVars, run, cfg, got, screen, faults>>

----------------------------------------------------------------------------
(* Streams                                                                 *)

\* NewStream, SendMsg and CloseSend of the stub.
Open(c) ==
    /\ pc[c] = "opening"
    /\ Goto(c, "streaming")
    /\ Invoke(c)
    /\ UNCHANGED <<file, env, services, effects, run, cfg, told, exit, got, screen, faults>>

\* Mutated form of Shown: the screen keeps the first events that fit.
ShownFirst(s, event) ==
    LET all == Append(s.events, event) IN
    IF s.height > 5 /\ Len(all) > s.height - 5
    THEN [s EXCEPT !.events = SubSeq(all, 1, s.height - 5)]
    ELSE [s EXCEPT !.events = all]

\* WatchModel.Update for an event: keep the last ones that fit.
Shown(s, event) ==
    LET all == Append(s.events, event) IN
    IF s.height > 5 /\ Len(all) > s.height - 5
    THEN [s EXCEPT !.events = SubSeq(all, Len(all) - (s.height - 5) + 1, Len(all))]
    ELSE [s EXCEPT !.events = all]

\* stream.Recv returns the next event, which is printed; or, in watch --ui,
\* the goroutine that received it waits in p.Send.
Recv(c) ==
    /\ pc[c] = "streaming"
    /\ call[c].at = "handling"
    /\ got[c] < MaxEvents
    /\ \/ /\ run[c].cmd # "watch --ui"
          /\ got' = [got EXCEPT ![c] = @ + 1]
          /\ UNCHANGED pc
       \/ /\ run[c].cmd = "watch --ui"
          /\ Goto(c, "showing")
          /\ UNCHANGED got
    /\ UNCHANGED <<file, env, serverVars, run, cfg, told, exit, screen, faults>>

\* The program takes the event, and the goroutine goes back to Recv.
Update(c) ==
    /\ pc[c] = "showing"
    /\ got[c] < MaxEvents
    /\ got' = [got EXCEPT ![c] = @ + 1]
    /\ screen' = [screen EXCEPT ![c] = Shown(@, got[c] + 1)]
    /\ Goto(c, "streaming")
    /\ UNCHANGED <<file, env, serverVars, run, cfg, told, exit, faults>>

Resize(c, h) ==
    /\ pc[c] \in {"streaming", "showing", "screen"}
    /\ run[c].cmd = "watch --ui"
    /\ screen' = [screen EXCEPT ![c].height = h]
    /\ UNCHANGED <<file, env, serverVars, run, cfg, pc, told, exit, got, faults>>

\* A stream that cannot be opened is an error.  One that is over ends the loop
\* over Recv, except in watch --ui, whose goroutine returns without a word and
\* leaves the screen as it is.
StreamOver(c, status) ==
    CASE pc[c] = "opening"           -> Leave(c, "one")
      [] run[c].cmd = "watch --ui"   -> Show(c)
      [] run[c].cmd = "watch"        -> Leave(c, status)
      [] OTHER                       -> Leave(c, "one")

\* The server ends the stream.
StreamEOF(c) ==
    /\ pc[c] = "streaming"
    /\ call[c].at = "handling"
    /\ StreamOver(c, "zero")
    /\ UNCHANGED <<file, env, serverVars, run, cfg, told, got, screen, faults>>

StreamBreaks(c) ==
    /\ pc[c] \in {"opening", "streaming"}
    /\ Fault(TRUE)
    /\ StreamOver(c, "one")
    /\ UNCHANGED <<file, env, serverVars, run, cfg, told, got, screen>>

\* The context of the command is done.
StreamTimedOut(c) ==
    /\ pc[c] \in {"opening", "streaming"}
    /\ HasDeadline(c)
    /\ StreamOver(c, "zero")
    /\ UNCHANGED <<file, env, serverVars, run, cfg, told, got, screen, faults>>

----------------------------------------------------------------------------
(* The user                                                                *)

\* A key ends the screen: q or ctrl+c, or any where that is said; ctrl+c alone
\* while a notification is being sent.  A terminal that cannot be opened or read
\* ends it with an error of Run.
Quit(c, labels, commands) ==
    /\ pc[c] \in labels
    /\ run[c].cmd \in commands
    /\ \E status \in {"zero", "one"} : Leave(c, status)
    /\ UNCHANGED <<file, env, serverVars, run, cfg, told, got, screen, faults>>

SendModel(c) == Quit(c, {"validating", "connecting", "sending", "screen"}, {"send"})
ServiceStatusModel(c) == Quit(c, {"screen"}, {"service create", "service delete"})
ListServicesModel(c) == Quit(c, {"screen"}, {"service list"})
WatchModel(c) == Quit(c, {"streaming", "showing", "screen"}, {"watch --ui"})

\* ctrl+c elsewhere: it cancels the context of watch and kills the rest.
Interrupt(c) ==
    /\ \/ pc[c] \in {"load", "run", "prompt", "calling", "opening"}
       \/ pc[c] = "streaming" /\ run[c].cmd # "watch --ui"
    /\ IF pc[c] \in {"opening", "streaming"} /\ run[c].cmd # "logs --stream"
       THEN StreamOver(c, "zero")
       ELSE Leave(c, "killed")
    /\ UNCHANGED <<file, env, serverVars, run, cfg, told, got, screen, faults>>

----------------------------------------------------------------------------

ClientStep(c) ==
    \/ PreRun(c)
    \/ sendCmd(c) \/ NextStep(c)
    \/ createServiceCmd(c) \/ listServicesCmd(c) \/ deleteServiceCmd(c)
    \/ dlqListCmd(c) \/ dlqReplayCmd(c)
    \/ logsCmd(c) \/ watchCmd(c)
    \/ Answered(c)

Timer(c) == Deadline(c) \/ StreamTimedOut(c)

ServerStep(c) ==
    \/ Unary(c) \/ Stream(c)
    \/ RegisterService(c) \/ ListServices(c) \/ DeleteService(c)
    \/ SendNotification(c)
    \/ ListNotificationJobs(c) \/ GetStats(c)
    \/ ListDeadLetters(c) \/ ReplayDeadLetter(c)

StreamStep(c) ==
    \/ Open(c) \/ Recv(c) \/ Update(c)
    \/ StreamEOF(c) \/ StreamBreaks(c) \/ Unavailable(c)

UserStep(c) ==
    \/ \E r \in Repertoire[c] : Start(c, r)
    \/ \E yes \in BOOLEAN : Confirm(c, yes)
    \/ \E h \in Heights : Resize(c, h)
    \/ SendModel(c) \/ ServiceStatusModel(c) \/ ListServicesModel(c) \/ WatchModel(c)
    \/ Interrupt(c)

Next ==
    \E c \in Sessions :
        ClientStep(c) \/ Timer(c) \/ ServerStep(c) \/ StreamStep(c) \/ UserStep(c)

Spec == Init /\ [][Next]_vars

\* The client goes on and its timer fires; nothing is asked of the server, the
\* connection or the user.
Fairness == \A c \in Sessions : WF_vars(ClientStep(c)) /\ WF_vars(Timer(c))

FairSpec == Spec /\ Fairness

----------------------------------------------------------------------------
(* Properties                                                              *)

\* The identity the server acts under is the one the user configured: flag over
\* environment over file, key by key, for every call that is checked
\* (root.go:61-67, config.go:35-70, grpc/auth.go:19-28, server/auth.go:44-60;
\* README.md:107-108).
ActsAsConfigured ==
    \A c \in Sessions : call[c].as # None =>
        call[c].as = IF run[c].flag.key # Empty THEN run[c].flag.key
                     ELSE IF env.key # Empty THEN env.key ELSE file.key

\* PersistentPreRunE and the interceptor agree on who needs a key: only the two
\* listings of logs are sent without one to be turned away (root.go:69-100,
\* server/auth.go:32-47).
KeylessIsLogs ==
    [][\A c \in Sessions :
        /\ call[c].at = "flying"
        /\ call'[c].at = "ended"
        /\ call'[c].code = "Unauthenticated"
        /\ cfg[c].key = Empty
        => run[c].cmd \in {"logs", "logs --stats"}]_vars

\* Invocations that neither ask nor show anything.
Unattended ==
    {c \in Sessions :
        /\ pc[c] # "idle"
        /\ run[c].cmd \notin Streaming
        /\ Prints(c)
        /\ run[c].cmd = "service delete" => run[c].mode = "quiet"}

\* An invocation keeps the promise of CommandPromise, over deadlines, broken
\* connections, failing handlers, impatient users and services that are deleted
\* meanwhile (send.go:52-77, service.go:43-111, dlq.go:35-109, logs.go:52-114,
\* send_ui.go:101-134).
Promise ==
    INSTANCE CommandPromise
        WITH unattended <- Unattended, effect <- {c \in Sessions : effects[c] > 0}
PromiseSpec == Promise!Spec

\* A quiet invocation with a timeout ends, whatever the server does; one in
\* another mode may wait for a key, and is not spoken of (root.go:169-185).
UnattendedEnds ==
    \A c \in Sessions :
        /\ pc[c] # "idle"
        /\ run[c].timed
        /\ run[c].mode = "quiet"
        /\ run[c].cmd # "watch --ui"
        ~> exit[c] # "no"

\* watch --ui shows the newest events, in order and without a gap, also when the
\* terminal shrinks (watch_ui.go:51-71).
NewestOnScreen ==
    \A c \in Sessions :
        LET events == screen[c].events IN
        /\ run[c] # None => (run[c].cmd = "watch --ui" /\ got[c] > 0 => events # <<>>)
        /\ \A i \in DOMAIN events : events[i] = got[c] - Len(events) + i
=============================================================================
