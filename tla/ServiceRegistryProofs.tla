------------------------ MODULE ServiceRegistryProofs -----------------------
(***************************************************************************)
(* Theorems about ServiceRegistry, for every number of processes, calls,   *)
(* services, names, faults and crashes.                                    *)
(***************************************************************************)
EXTENDS ServiceRegistry, TLAPS

\* How far the schema is, at least, when a process is past a batch of Migrate.
Migrated(p) ==
    /\ process[p] \in {"check", "softDelete", "serving"} => schema.tables /\ schema.letters
    /\ process[p] \in {"softDelete", "serving"} => schema.status = "new"
    /\ process[p] = "serving" => schema = Current

\* A service whose deletion was answered has a row, and the row is dead: its ID
\* cannot be drawn again.
RevokedIsDead ==
    \A i \in revoked : services[i] # NoService /\ ~services[i].live

\* The inductive invariant.
RegistryInv ==
    /\ TypeOK
    /\ \A p \in Processes : Migrated(p)
    /\ LiveNamesUnique
    /\ RevokedIsDead
    /\ RevokedStaysOut

----------------------------------------------------------------------------

\* Every batch of Migrate returns a schema.
LEMMA BatchesKeepType ==
    ASSUME NEW s \in Schema
    PROVE  /\ CreateTables(s) \in Schema
           /\ RecreateStatusCheck(s) \in Schema
           /\ SoftDelete(s) \in Schema
BY DEF Schema, CreateTables, RecreateStatusCheck, SoftDelete, Current, NoTables

\* A schema with these fields is the current one.
LEMMA CurrentByFields ==
    ASSUME NEW s \in Schema, s.tables, s.letters, s.status = "new",
           s.deletedAt, ~s.uniqueName, s.liveName
    PROVE  s = Current
BY DEF Schema, Current

\* What the batches do to an existing schema, field by field.
LEMMA BatchFields ==
    ASSUME NEW s \in Schema
    PROVE  /\ CreateTables(s).tables /\ CreateTables(s).letters
           /\ s.tables => CreateTables(s).status = s.status
           /\ RecreateStatusCheck(s).tables = s.tables
           /\ RecreateStatusCheck(s).letters = s.letters
           /\ RecreateStatusCheck(s).status = "new"
           /\ SoftDelete(s).tables = s.tables
           /\ SoftDelete(s).letters = s.letters
           /\ SoftDelete(s).status = s.status
           /\ SoftDelete(s).deletedAt
           /\ ~SoftDelete(s).uniqueName
           /\ SoftDelete(s).liveName
<1>1. CreateTables(s).tables /\ CreateTables(s).letters
  BY DEF Schema, CreateTables, Current
<1>2. ASSUME s.tables
      PROVE  CreateTables(s).status = s.status
  BY <1>2 DEF Schema, CreateTables
<1>3. /\ RecreateStatusCheck(s).tables = s.tables
      /\ RecreateStatusCheck(s).letters = s.letters
      /\ RecreateStatusCheck(s).status = "new"
  BY DEF Schema, RecreateStatusCheck
<1>4. /\ SoftDelete(s).tables = s.tables
      /\ SoftDelete(s).letters = s.letters
      /\ SoftDelete(s).status = s.status
  BY DEF Schema, SoftDelete
<1>5. SoftDelete(s).deletedAt /\ ~SoftDelete(s).uniqueName /\ SoftDelete(s).liveName
  BY DEF Schema, SoftDelete
<1> QED BY <1>1, <1>2, <1>3, <1>4, <1>5

\* A current schema stays current.
LEMMA CurrentIsStable ==
    /\ CreateTables(Current) = Current
    /\ RecreateStatusCheck(Current) = Current
    /\ SoftDelete(Current) = Current
<1>1. Current \in Schema
  BY DEF Schema, Current
<1>2. CreateTables(Current) = Current
  BY DEF CreateTables, Current
<1>3. RecreateStatusCheck(Current) = Current
  BY DEF RecreateStatusCheck, Current
<1>4. SoftDelete(Current) = Current
  <2>1. SoftDelete(Current) \in Schema
    BY <1>1, BatchesKeepType
  <2>2. Current.tables /\ Current.letters /\ Current.status = "new"
    BY DEF Current
  <2> QED BY <1>1, <2>1, <2>2, BatchFields, CurrentByFields
<1> QED BY <1>2, <1>3, <1>4

\* No batch undoes what another one did.
LEMMA BatchesOnlyAdd ==
    ASSUME NEW s \in Schema,
           NEW t \in {s, CreateTables(s), RecreateStatusCheck(s), SoftDelete(s)}
    PROVE  /\ s.tables => t.tables
           /\ s.letters => t.letters
           /\ s.tables /\ s.status = "new" => t.status = "new"
           /\ s = Current => t = Current
<1>1. s = Current => t = Current
  BY CurrentIsStable
<1>2. CASE t = s
  BY <1>1, <1>2
<1>3. CASE t = CreateTables(s)
  BY <1>1, <1>3, BatchFields
<1>4. CASE t = RecreateStatusCheck(s)
  BY <1>1, <1>4, BatchFields
<1>5. CASE t = SoftDelete(s)
  BY <1>1, <1>5, BatchFields
<1> QED BY <1>2, <1>3, <1>4, <1>5

\* What each batch leaves behind.
LEMMA BatchesAchieve ==
    ASSUME NEW s \in Schema
    PROVE  /\ CreateTables(s).tables /\ CreateTables(s).letters
           /\ RecreateStatusCheck(s).status = "new"
           /\ s.tables /\ s.letters /\ s.status = "new" => SoftDelete(s) = Current
<1>1. SoftDelete(s) \in Schema
  BY BatchesKeepType
<1> QED BY <1>1, BatchFields, CurrentByFields

----------------------------------------------------------------------------

\* A batch keeps the invariant, given what it does to the schema.
LEMMA BatchKeepsInv ==
    ASSUME RegistryInv, NEW p \in Processes, NEW new, NEW possible \in BOOLEAN,
           NEW from \in {"tables", "check", "softDelete"},
           NEW to \in {"check", "softDelete", "serving"},
           new \in {CreateTables(schema), RecreateStatusCheck(schema), SoftDelete(schema)},
           Batch(p, from, to, new, possible),
           to \in {"check", "softDelete", "serving"} => new.tables /\ new.letters,
           to \in {"softDelete", "serving"} => new.status = "new",
           to = "serving" => new = Current
    PROVE  RegistryInv'
<1> USE DEF RegistryInv
<1>1. new \in Schema
  BY BatchesKeepType DEF TypeOK
<1>2. schema' \in {schema, new}
  BY DEF Batch, Outcomes
<1>3. TypeOK'
  BY <1>1, <1>2, RegistryAssumption DEF TypeOK, Batch, Exec
<1>4. ASSUME NEW q \in Processes
      PROVE  Migrated(q)'
  <2>1. /\ schema.tables => schema'.tables
        /\ schema.letters => schema'.letters
        /\ schema.tables /\ schema.status = "new" => schema'.status = "new"
        /\ schema = Current => schema' = Current
    BY <1>2, BatchesOnlyAdd DEF TypeOK
  <2>2. CASE process'[q] = process[q]
    BY <2>1, <2>2 DEF Migrated
  <2>3. CASE process'[q] # process[q]
    <3>1. process' = [process EXCEPT ![p] = to] \/ process'[q] = "down"
      BY <2>3 DEF Batch, TypeOK
    <3>2. CASE process'[q] = "down"
      BY <3>2 DEF Migrated
    <3>3. CASE process'[q] # "down"
      <4>1. process'[q] = to /\ schema' = new
        BY <2>3, <3>3, <1>2 DEF Batch, Outcomes, TypeOK
      <4> QED BY <4>1 DEF Migrated
    <3> QED BY <3>2, <3>3
  <2> QED BY <2>2, <2>3
<1>5. UNCHANGED <<services, call, answer, revoked, crashes>>
  BY DEF Batch
<1>6. LiveNamesUnique' /\ RevokedIsDead' /\ RevokedStaysOut'
  BY <1>5 DEF LiveNamesUnique, UniqueAmong, Live, RevokedIsDead, RevokedStaysOut
<1> QED BY <1>3, <1>4, <1>6

\* Starting and migrating keep the invariant.
LEMMA StartupKeepsInv ==
    ASSUME RegistryInv, NEW p \in Processes, Startup(p)
    PROVE  RegistryInv'
<1>0. schema \in Schema
  BY DEF RegistryInv, TypeOK
<1>1. CASE Start(p)
  <2>1. TypeOK'
    BY <1>1 DEF RegistryInv, TypeOK, Start
  <2>2. \A q \in Processes : Migrated(q)'
    BY <1>1 DEF RegistryInv, TypeOK, Start, Migrated
  <2>3. LiveNamesUnique' /\ RevokedIsDead' /\ RevokedStaysOut'
    BY <1>1 DEF RegistryInv, Start, LiveNamesUnique, UniqueAmong, Live, RevokedIsDead, RevokedStaysOut
  <2> QED BY <2>1, <2>2, <2>3 DEF RegistryInv
<1>2. CASE MigrateTables(p)
  <2>1. Batch(p, "tables", "check", CreateTables(schema), TRUE)
    BY <1>2 DEF MigrateTables
  <2>2. CreateTables(schema).tables /\ CreateTables(schema).letters
    BY <1>0, BatchesAchieve
  <2> QED BY <2>1, <2>2, BatchKeepsInv
<1>3. CASE MigrateCheck(p)
  <2>1. Batch(p, "check", "softDelete", RecreateStatusCheck(schema), TRUE)
    BY <1>3 DEF MigrateCheck
  <2>2. schema.tables /\ schema.letters
    BY <2>1 DEF Batch, RegistryInv, Migrated
  <2>3. /\ RecreateStatusCheck(schema).tables
        /\ RecreateStatusCheck(schema).letters
        /\ RecreateStatusCheck(schema).status = "new"
    BY <1>0, <2>2, BatchesOnlyAdd, BatchesAchieve
  <2> QED BY <2>1, <2>3, BatchKeepsInv
<1>4. CASE MigrateSoftDelete(p)
  <2>1. Batch(p, "softDelete", "serving", SoftDelete(schema), UniqueAmong(Live))
    BY <1>4 DEF MigrateSoftDelete
  <2>2. schema.tables /\ schema.letters /\ schema.status = "new"
    BY <2>1 DEF Batch, RegistryInv, Migrated
  <2>3. SoftDelete(schema) = Current
    BY <1>0, <2>2, BatchesAchieve
  <2>4. Current.tables /\ Current.letters /\ Current.status = "new"
    BY DEF Current
  <2>5. UniqueAmong(Live) \in BOOLEAN
    BY DEF UniqueAmong
  <2> QED BY <2>1, <2>3, <2>4, <2>5, BatchKeepsInv
<1> QED BY <1>1, <1>2, <1>3, <1>4 DEF Startup

\* A registration keeps the invariant: it meets a current schema, whose index
\* refuses the name of a live service.
LEMMA RegisterKeepsInv ==
    ASSUME RegistryInv, NEW p \in Processes, NEW i \in Ids, NEW name \in Names,
           RegisterService(p, i, name)
    PROVE  RegistryInv'
<1> USE DEF RegistryInv
<1>1. schema.liveName
  BY DEF RegisterService, Migrated, Current
<1>2. services' = services \/ (~Conflict(name) /\ services' = Registered(i, name))
  BY DEF RegisterService, Outcomes
<1>3. Registered(i, name) \in [Ids -> Service]
  BY DEF Registered, TypeOK, Service
<1>4. TypeOK'
  BY <1>2, <1>3, RegistryAssumption DEF RegisterService, Exec, TypeOK, Answer
<1>5. \A q \in Processes : Migrated(q)'
  BY DEF RegisterService, Migrated
<1>6. CASE services' = services
  BY <1>4, <1>5, <1>6 DEF RegisterService, LiveNamesUnique, UniqueAmong, Live, RevokedIsDead, RevokedStaysOut
<1>7. CASE ~Conflict(name) /\ services' = Registered(i, name)
  <2>1. /\ services'[i] = [name |-> name, live |-> TRUE]
        /\ \A j \in Ids \ {i} : services'[j] = services[j]
    BY <1>7 DEF Registered, TypeOK
  <2>2. \A j \in Ids \ {i} : services[j].live => services[j].name # name
    BY <1>1, <1>7 DEF Conflict, Live
  <2>3. LiveNamesUnique'
    BY <2>1, <2>2 DEF LiveNamesUnique, UniqueAmong, Live
  <2>4. RevokedIsDead'
    BY <2>1 DEF RegisterService, RevokedIsDead, TypeOK
  <2> QED BY <1>4, <1>5, <2>3, <2>4 DEF RegisterService, RevokedStaysOut
<1> QED BY <1>2, <1>6, <1>7

\* The interceptor keeps the invariant: it lets only live services through.
LEMMA AuthenticateKeepsInv ==
    ASSUME RegistryInv, NEW c \in Calls, NEW p \in Processes, NEW i \in Ids,
           Authenticate(c, p, i)
    PROVE  RegistryInv'
<1> USE DEF RegistryInv
<1>1. [pc |-> "handling", process |-> p, service |-> i, after |-> revoked] \in Call
  BY DEF Call, TypeOK
<1>2. TypeOK'
  BY <1>1 DEF Authenticate, TypeOK
<1>3. \A q \in Processes : Migrated(q)'
  BY DEF Authenticate, Migrated
<1>4. LiveNamesUnique' /\ RevokedIsDead'
  BY DEF Authenticate, LiveNamesUnique, UniqueAmong, Live, RevokedIsDead
<1>5. i \notin revoked
  BY DEF Authenticate, GetByAPIKeyHash, RevokedIsDead
<1>6. RevokedStaysOut'
  BY <1>5 DEF Authenticate, RevokedStaysOut, TypeOK
<1> QED BY <1>2, <1>3, <1>4, <1>6

\* A handler keeps the invariant; only DeleteService writes services.
LEMMA HandlerKeepsInv ==
    ASSUME RegistryInv, NEW c \in Calls, Handler(c)
    PROVE  RegistryInv'
<1> USE DEF RegistryInv
<1>0. /\ call' \in [Calls -> Call \cup {Idle}]
      /\ RevokedStaysOut'
      /\ \A q \in Processes : Migrated(q)'
  <2>1. call' = [call EXCEPT ![c] = Idle] /\ UNCHANGED <<schema, process>>
    BY DEF Handler, DeleteService, OtherHandler
  <2>2. Idle.service \notin Idle.after
    BY DEF Idle
  <2> QED BY <2>1, <2>2 DEF TypeOK, RevokedStaysOut, Migrated
<1>1. CASE OtherHandler(c)
  BY <1>0, <1>1 DEF OtherHandler, TypeOK, LiveNamesUnique, UniqueAmong, Live, RevokedIsDead
<1>2. ASSUME NEW i \in Ids, DeleteService(c, i)
      PROVE  RegistryInv'
  <2>1. \/ services' = services /\ revoked' = revoked
        \/ /\ Deletes(i)
           /\ services' = [services EXCEPT ![i].live = FALSE]
           /\ revoked' \in {revoked, revoked \cup {i}}
    BY <1>2 DEF DeleteService, Outcomes
  <2>2. TypeOK' /\ LiveNamesUnique' /\ RevokedIsDead'
    <3>1. CASE services' = services /\ revoked' = revoked
      BY <1>0, <1>2, <3>1, RegistryAssumption
         DEF DeleteService, Exec, TypeOK, Answer, LiveNamesUnique, UniqueAmong, Live, RevokedIsDead
    <3>2. CASE /\ Deletes(i)
               /\ services' = [services EXCEPT ![i].live = FALSE]
               /\ revoked' \in {revoked, revoked \cup {i}}
      <4>1. services[i] \in [name : Names, live : BOOLEAN]
        BY <3>2 DEF Deletes, TypeOK, Service, NoService
      <4>2. /\ services'[i] = [name |-> services[i].name, live |-> FALSE]
            /\ services'[i] \in Service
            /\ services'[i] # NoService
            /\ \A j \in Ids \ {i} : services'[j] = services[j]
        <5>1. /\ services'[i] = [services[i] EXCEPT !.live = FALSE]
              /\ \A j \in Ids \ {i} : services'[j] = services[j]
          BY <3>2 DEF TypeOK
        <5>2. services'[i] = [name |-> services[i].name, live |-> FALSE]
          BY <4>1, <5>1
        <5>3. services[i].name \in Names /\ services[i].name # None
          BY <4>1, RegistryAssumption
        <5>4. services'[i] \in Service
          BY <5>2, <5>3 DEF Service
        <5>5. services'[i].name # NoService.name
          BY <5>2, <5>3 DEF NoService
        <5> QED BY <5>1, <5>2, <5>4, <5>5
      <4>3. services' \in [Ids -> Service]
        BY <3>2, <4>2 DEF TypeOK
      <4>4. TypeOK'
        BY <1>0, <1>2, <3>2, <4>3, RegistryAssumption DEF DeleteService, Exec, TypeOK, Answer
      <4>5. LiveNamesUnique'
        BY <4>2 DEF LiveNamesUnique, UniqueAmong, Live
      <4>6. RevokedIsDead'
        BY <3>2, <4>2 DEF RevokedIsDead, TypeOK
      <4> QED BY <4>4, <4>5, <4>6
    <3> QED BY <2>1, <3>1, <3>2
  <2> QED BY <1>0, <2>2
<1> QED BY <1>1, <1>2 DEF Handler

\* Refusals and crashes keep the invariant.
LEMMA OthersKeepInv ==
    ASSUME RegistryInv, NEW p \in Processes,
           Crash(p) \/ \E i \in Ids : Refuse(p, i)
    PROVE  RegistryInv'
<1> USE DEF RegistryInv
<1>1. CASE Crash(p)
  <2>1. TypeOK'
    BY <1>1, RegistryAssumption DEF Crash, TypeOK
  <2>2. \A q \in Processes : Migrated(q)'
    BY <1>1 DEF Crash, Migrated, TypeOK
  <2>3. LiveNamesUnique' /\ RevokedIsDead'
    BY <1>1 DEF Crash, LiveNamesUnique, UniqueAmong, Live, RevokedIsDead
  <2>4. RevokedStaysOut'
    BY <1>1 DEF Crash, RevokedStaysOut, Idle
  <2> QED BY <2>1, <2>2, <2>3, <2>4
<1>2. ASSUME NEW i \in Ids, Refuse(p, i)
      PROVE  RegistryInv'
  <2>1. TypeOK'
    BY <1>2, RegistryAssumption DEF Refuse, Exec, TypeOK, Answer
  <2>2. \A q \in Processes : Migrated(q)'
    BY <1>2 DEF Refuse, Migrated
  <2> QED
    BY <1>2, <2>1, <2>2
       DEF Refuse, LiveNamesUnique, UniqueAmong, Live, RevokedIsDead, RevokedStaysOut
<1> QED BY <1>1, <1>2

----------------------------------------------------------------------------

\* The invariant holds in every reachable state.
THEOREM RegistryInvariant == Spec => []RegistryInv
<1>1. Init => RegistryInv
  <2> SUFFICES ASSUME Init PROVE RegistryInv
    OBVIOUS
  <2>1. schema \in Schema
    <3>1. NoTables \in Schema /\ Current \in Schema
      BY DEF Schema, NoTables, Current
    <3>2. BeforeDeadLetters \in Schema
      BY DEF Schema, NoTables, BeforeDeadLetters
    <3>3. BeforeSoftDelete \in Schema
      BY <3>2 DEF Schema, BeforeSoftDelete
    <3> QED BY <3>1, <3>2, <3>3 DEF Init
  <2>2. services \in [Ids -> Service]
    BY DEF Init, Service
  <2>3. TypeOK
    BY <2>1, <2>2, RegistryAssumption DEF Init, TypeOK, Answer, NoAnswer
  <2>4. RevokedStaysOut
    BY DEF Init, RevokedStaysOut, Idle
  <2> QED
    BY <2>3, <2>4 DEF Init, RegistryInv, Migrated, LiveNamesUnique, RevokedIsDead
<1>2. RegistryInv /\ [Next]_vars => RegistryInv'
  <2> SUFFICES ASSUME RegistryInv, [Next]_vars PROVE RegistryInv'
    OBVIOUS
  <2>1. CASE UNCHANGED vars
    BY <2>1 DEF vars, RegistryInv, TypeOK, Migrated, LiveNamesUnique, UniqueAmong, Live,
                RevokedIsDead, RevokedStaysOut
  <2>2. ASSUME NEW p \in Processes, Startup(p) \/ Arrival(p) \/ Crash(p)
        PROVE  RegistryInv'
    BY <2>2, StartupKeepsInv, RegisterKeepsInv, AuthenticateKeepsInv, OthersKeepInv DEF Arrival
  <2>3. ASSUME NEW c \in Calls, Handler(c)
        PROVE  RegistryInv'
    BY <2>3, HandlerKeepsInv
  <2> QED BY <2>1, <2>2, <2>3 DEF Next
<1> QED BY <1>1, <1>2, PTL DEF Spec

\* A process serves only on a completely migrated database (postgres.go:31-138).
THEOREM OnlyMigratedIsServed == Spec => []ServedIsMigrated
<1>1. RegistryInv => ServedIsMigrated
  BY DEF RegistryInv, Migrated, ServedIsMigrated
<1> QED BY <1>1, RegistryInvariant, PTL

\* Live names are unique at all times (postgres.go:124-132).
THEOREM NamesUnique == Spec => []LiveNamesUnique
<1>1. RegistryInv => LiveNamesUnique
  BY DEF RegistryInv
<1> QED BY <1>1, RegistryInvariant, PTL

\* A deletion that was answered revokes the key for good (service.go:79-112).
THEOREM RevocationHolds == Spec => []RevokedStaysOut
<1>1. RegistryInv => RevokedStaysOut
  BY DEF RegistryInv
<1> QED BY <1>1, RegistryInvariant, PTL

\* Every variable of the registry keeps its type (service.go:18-112).
THEOREM TypeCorrect == Spec => []TypeOK
<1>1. RegistryInv => TypeOK
  BY DEF RegistryInv
<1> QED BY <1>1, RegistryInvariant, PTL

\* Only one deletion of a service is answered with success (service.go:100-112).
THEOREM OneDeletion == Spec => DeletedOnce
<1>1. ASSUME RegistryInv, NEW c \in Calls, NEW i \in Ids,
             DeleteService(c, i), answer'.code = "OK"
      PROVE  i \notin revoked
  <2>1. Deletes(i)
    BY <1>1 DEF DeleteService
  <2> QED BY <1>1, <2>1 DEF RegistryInv, RevokedIsDead, Deletes
<1>2. RegistryInv /\ [Next]_vars =>
        [\A c \in Calls, i \in Ids :
            DeleteService(c, i) /\ answer'.code = "OK" => i \notin revoked]_vars
  BY <1>1
<1> QED BY <1>2, RegistryInvariant, PTL DEF Spec, DeletedOnce

\* A name is refused only while a live service has it (service.go:35-39).
THEOREM TakenOnlyByLive == Spec => TakenMeansLive
<1> DEFINE Taken == answer' # answer /\ answer'.code = "AlreadyExists" =>
                        \E i \in Live : services[i].name = answer'.name
<1>1. ASSUME RegistryInv, NEW p \in Processes, NEW i \in Ids, NEW name \in Names,
             RegisterService(p, i, name)
      PROVE  Taken
  <2>1. ~schema.uniqueName
    BY <1>1 DEF RegistryInv, Migrated, RegisterService, Current
  <2>2. answer'.name = name
    BY <1>1 DEF RegisterService
  <2>3. answer'.code = "AlreadyExists" => Conflict(name)
    BY <1>1 DEF RegisterService
  <2> QED BY <2>1, <2>2, <2>3 DEF Conflict
<1>2. ASSUME NEW p \in Processes,
             Startup(p) \/ Crash(p) \/ \E c \in Calls, i \in Ids : Authenticate(c, p, i)
      PROVE  Taken
  BY <1>2 DEF Startup, Start, MigrateTables, MigrateCheck, MigrateSoftDelete, Batch, Crash,
              Authenticate
<1>3. ASSUME NEW p \in Processes, NEW i \in Ids, Refuse(p, i)
      PROVE  Taken
  BY <1>3 DEF Refuse
<1>4. ASSUME NEW c \in Calls, Handler(c)
      PROVE  Taken
  <2>1. ASSUME NEW i \in Ids, DeleteService(c, i)
        PROVE  answer'.code # "AlreadyExists"
    BY <2>1 DEF DeleteService
  <2> QED BY <1>4, <2>1 DEF Handler, OtherHandler
<1>5. RegistryInv /\ [Next]_vars => [Taken]_vars
  BY <1>1, <1>2, <1>3, <1>4 DEF Next, Arrival
<1> QED BY <1>5, RegistryInvariant, PTL DEF Spec, TakenMeansLive
=============================================================================
