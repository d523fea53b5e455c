--------------------------- MODULE ServiceRegistry --------------------------
(***************************************************************************)
(* Registered services: server processes that migrate the database before  *)
(* they serve, RegisterService and DeleteService                           *)
(* (internal/server/notify.go), the API-key interceptor                    *)
(* (internal/server/auth.go) and the table they share                      *)
(* (internal/store/postgres/service.go).  The interceptor reads the        *)
(* service before the handler runs; anything may happen in between.        *)
(***************************************************************************)
EXTENDS Naturals, FiniteSets, Migration

CONSTANTS
    Processes,
    Calls,      \* calls that need an API key
    Ids,        \* service IDs; each service has an API key of its own
    Names,
    None,
    MaxFaults,  \* bound: errors of statements
    MaxCrashes  \* bound: crashes of processes

ASSUME RegistryAssumption ==
    /\ None \notin Processes \cup Ids \cup Names
    /\ MaxFaults \in Nat
    /\ MaxCrashes \in Nat

VARIABLES
    schema,
    services,   \* services[i]: the row with id = i
    process,    \* process[p]: where main() of p is
    call,       \* call[c]: a call between the interceptor and its end
    answer,     \* the last answer of RegisterService or DeleteService
    revoked,    \* history: services whose deletion was answered with success
    faults,
    crashes

vars == <<schema, services, process, call, answer, revoked, faults, crashes>>

NoService == [name |-> None, live |-> FALSE]
Service == {NoService} \cup [name : Names, live : BOOLEAN]

\* after: the deletions answered before the call arrived.
Call == [pc : {"handling"}, process : Processes, service : Ids, after : SUBSET Ids]
Idle == [pc |-> "idle", process |-> None, service |-> None, after |-> {}]

Answer == [name : Names \cup {None}, id : Ids \cup {None},
           code : {"OK", "AlreadyExists", "NotFound", "Internal", "Unauthenticated"}]
NoAnswer == [name |-> None, id |-> None, code |-> "OK"]

\* Every variable holds a value of its type.
TypeOK ==
    /\ schema \in Schema
    /\ services \in [Ids -> Service]
    /\ process \in [Processes -> {"down", "tables", "check", "softDelete", "serving"}]
    /\ call \in [Calls -> Call \cup {Idle}]
    /\ answer \in Answer
    /\ revoked \subseteq Ids
    /\ faults \in 0..MaxFaults
    /\ crashes \in 0..MaxCrashes

\* The live services, which List returns.
Live == {i \in Ids : services[i].live}
UniqueAmong(ids) == \A i, j \in ids : services[i].name = services[j].name => i = j

\* An empty database, or one that an earlier version left with its services.
Init ==
    /\ schema \in {NoTables, BeforeDeadLetters, BeforeSoftDelete, Current}
    /\ services \in [Ids -> {NoService} \cup [name : Names, live : {TRUE}]]
    /\ ~schema.tables => \A i \in Ids : services[i] = NoService
    /\ UniqueAmong(Live)
    /\ process = [p \in Processes |-> "down"]
    /\ call = [c \in Calls |-> Idle]
    /\ answer = NoAnswer
    /\ revoked = {}
    /\ faults = 0
    /\ crashes = 0

----------------------------------------------------------------------------
(* main() and Migrate                                                      *)

\* A statement returns an error only at the price of a fault.
Exec(ok) ==
    /\ ok \/ faults < MaxFaults
    /\ faults' = IF ok THEN faults ELSE faults + 1

Outcomes(old, new, ok) == IF ok THEN {new} ELSE {old, new}

Start(p) ==
    /\ process[p] = "down"
    /\ process' = [process EXCEPT ![p] = "tables"]
    /\ UNCHANGED <<schema, services, call, answer, revoked, faults, crashes>>

\* Mutated form of Batch: an error does not end Migrate.
BatchGoingOn(p, from, to, new, possible) ==
    /\ process[p] = from
    /\ \E ok \in BOOLEAN :
        /\ ok => possible
        /\ Exec(ok \/ ~possible)
        /\ schema' \in Outcomes(schema, new, ok)
        /\ process' = [process EXCEPT ![p] = to]
    /\ UNCHANGED <<services, call, answer, revoked, crashes>>

\* One batch of Migrate; an error of it ends the process.  A batch that the
\* schema or the rows do not allow always fails, and has no effect.
Batch(p, from, to, new, possible) ==
    /\ process[p] = from
    /\ \E ok \in BOOLEAN :
        /\ ok => possible
        /\ Exec(ok \/ ~possible)
        /\ schema' \in IF possible THEN Outcomes(schema, new, ok) ELSE {schema}
        /\ process' = [process EXCEPT ![p] = IF ok THEN to ELSE "down"]
    /\ UNCHANGED <<services, call, answer, revoked, crashes>>

MigrateTables(p) == Batch(p, "tables", "check", CreateTables(schema), TRUE)

\* Mutated form of MigrateCheck: ADD CONSTRAINT alone.
MigrateCheckPlainAdd(p) ==
    Batch(p, "check", "softDelete", RecreateStatusCheck(schema), schema.status = "none")

MigrateCheck(p) ==
    Batch(p, "check", "softDelete", RecreateStatusCheck(schema), TRUE)

\* CREATE UNIQUE INDEX fails on rows that are not unique.
MigrateSoftDelete(p) ==
    Batch(p, "softDelete", "serving", SoftDelete(schema), UniqueAmong(Live))

Crash(p) ==
    /\ process[p] # "down"
    /\ crashes < MaxCrashes
    /\ crashes' = crashes + 1
    /\ process' = [process EXCEPT ![p] = "down"]
    /\ call' = [c \in Calls |-> IF call[c].process = p THEN Idle ELSE call[c]]
    /\ UNCHANGED <<schema, services, answer, revoked, faults>>

----------------------------------------------------------------------------
(* RegisterService, which needs no key                                     *)

\* A unique violation of the INSERT, by the constraint or the index in force.
Conflict(name) ==
    \/ schema.uniqueName /\ \E i \in Ids : services[i].name = name
    \/ schema.liveName /\ \E i \in Live : services[i].name = name

\* Mutated form of Registered: the name does not get into the row.
RegisteredUnnamed(i, name) == [services EXCEPT ![i] = [name |-> None, live |-> TRUE]]

Registered(i, name) == [services EXCEPT ![i] = [name |-> name, live |-> TRUE]]

\* i is a fresh UUID.
RegisterService(p, i, name) ==
    /\ process[p] = "serving"
    /\ services[i] = NoService
    /\ \E ok \in BOOLEAN :
        /\ Exec(ok)
        /\ services' \in IF Conflict(name) THEN {services}
                         ELSE Outcomes(services, Registered(i, name), ok)
        /\ answer' = [name |-> name, id |-> i,
                      code |-> IF ~ok THEN "Internal"
                               ELSE IF Conflict(name) THEN "AlreadyExists" ELSE "OK"]
    /\ UNCHANGED <<schema, process, call, revoked, crashes>>

----------------------------------------------------------------------------
(* Calls with a key                                                        *)

\* Mutated form of GetByAPIKeyHash: deleted services are found too.
GetByAPIKeyHashOfAny(i) == services[i] # NoService

GetByAPIKeyHash(i) == services[i].live

\* The interceptor finds the service whose key the call presents.
Authenticate(c, p, i) ==
    /\ process[p] = "serving"
    /\ call[c] = Idle
    /\ GetByAPIKeyHash(i)
    /\ call' = [call EXCEPT ![c] =
            [pc |-> "handling", process |-> p, service |-> i, after |-> revoked]]
    /\ UNCHANGED <<schema, services, process, answer, revoked, faults, crashes>>

\* It finds none, or the lookup fails: the handler does not run.
Refuse(p, i) ==
    /\ process[p] = "serving"
    /\ Exec(~GetByAPIKeyHash(i))
    /\ answer' = [name |-> None, id |-> i, code |-> "Unauthenticated"]
    /\ UNCHANGED <<schema, services, process, call, revoked, crashes>>

\* Mutated form of Deletes: the row is updated whether or not it is deleted.
DeletesAgain(i) == services[i] # NoService

\* Whether the UPDATE of Delete affects a row.
Deletes(i) == services[i].live

\* DeleteService for any ID the client names.
DeleteService(c, i) ==
    /\ call[c] # Idle
    /\ call' = [call EXCEPT ![c] = Idle]
    /\ \E ok \in BOOLEAN :
        /\ Exec(ok)
        /\ services' \in IF Deletes(i)
                         THEN Outcomes(services, [services EXCEPT ![i].live = FALSE], ok)
                         ELSE {services}
        /\ answer' = [name |-> None, id |-> i,
                      code |-> IF ~ok THEN "Internal"
                               ELSE IF Deletes(i) THEN "OK" ELSE "NotFound"]
        /\ revoked' = IF ok /\ Deletes(i) THEN revoked \cup {i} ELSE revoked
    /\ UNCHANGED <<schema, process, crashes>>

\* Any other handler behind the interceptor, the listings and GetStats among
\* them: none writes services.
OtherHandler(c) ==
    /\ call[c] # Idle
    /\ call' = [call EXCEPT ![c] = Idle]
    /\ UNCHANGED <<schema, services, process, answer, revoked, faults, crashes>>

----------------------------------------------------------------------------

Startup(p) ==
    \/ Start(p)
    \/ MigrateTables(p)
    \/ MigrateCheck(p)
    \/ MigrateSoftDelete(p)

Handler(c) ==
    \/ \E i \in Ids : DeleteService(c, i)
    \/ OtherHandler(c)

Arrival(p) ==
    \/ \E i \in Ids, name \in Names : RegisterService(p, i, name)
    \/ \E c \in Calls, i \in Ids : Authenticate(c, p, i)
    \/ \E i \in Ids : Refuse(p, i)

Next ==
    \/ \E p \in Processes : Startup(p) \/ Arrival(p) \/ Crash(p)
    \/ \E c \in Calls : Handler(c)

Spec == Init /\ [][Next]_vars

\* A process that ended is started again, and what runs goes on; no client is
\* obliged to call.
Fairness ==
    /\ \A p \in Processes : WF_vars(Startup(p))
    /\ \A c \in Calls : WF_vars(Handler(c))

FairSpec == Spec /\ Fairness

----------------------------------------------------------------------------
(* Properties                                                              *)

\* A process serves only on a database that has all it relies on: dead letters
\* with their unique index, a CHECK that admits DEAD_LETTERED, soft deletion and
\* the index on live names, whatever version the database came from, whoever
\* else migrates it, and wherever a migration was cut off (postgres.go:31-138,
\* main.go:44-46).
ServedIsMigrated ==
    \A p \in Processes : process[p] = "serving" => schema = Current

\* No two live services have one name, over racing registrations, deletions and
\* migrations that swap the constraint (postgres.go:124-132).
LiveNamesUnique == UniqueAmong(Live)

\* A name is refused as taken only while a live service has it: deleting a
\* service frees its name (postgres.go:121-123, service.go:35-39).
TakenMeansLive ==
    [][answer' # answer /\ answer'.code = "AlreadyExists" =>
        \E i \in Live : services[i].name = answer'.name]_vars

\* A call that arrived after the deletion of a service was answered is not
\* handled in that service's name, by any process (auth.go:52-55,
\* service.go:79-84).
RevokedStaysOut ==
    \A c \in Calls : call[c].service \notin call[c].after

\* Of several deletions of a service at most one is answered with success
\* (service.go:100-112).
DeletedOnce ==
    [][\A c \in Calls, i \in Ids :
        DeleteService(c, i) /\ answer'.code = "OK" => i \notin revoked]_vars

\* Once errors and crashes cease every process comes to serve: no state that an
\* earlier version, an interrupted migration or other processes leave keeps
\* Migrate from succeeding (postgres.go:103-137).
EventuallyServes ==
    \A p \in Processes : process[p] = "down" ~> process[p] = "serving"
=============================================================================
