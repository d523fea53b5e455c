------------------------------ MODULE Migration -----------------------------
(***************************************************************************)
(* The schema and the three batches of Migrate                             *)
(* (internal/store/postgres/postgres.go), as operators from schema to      *)
(* schema.  PostgreSQL runs each batch as one transaction.  The columns of *)
(* api_key go the way of those of name and are left out: keys are random.  *)
(***************************************************************************)

\* tables: services and the tables before the dead letters; letters:
\* dead_letters with its unique index; status: which statuses the CHECK of
\* notification_jobs allows; deletedAt: the column of services; uniqueName:
\* the full UNIQUE(name); liveName: the partial unique index.
Schema == [tables : BOOLEAN, letters : BOOLEAN, status : {"none", "old", "new"},
           deletedAt : BOOLEAN, uniqueName : BOOLEAN, liveName : BOOLEAN]

NoTables == [tables |-> FALSE, letters |-> FALSE, status |-> "none",
             deletedAt |-> FALSE, uniqueName |-> FALSE, liveName |-> FALSE]

\* What the comments of Migrate say an existing database may look like: from
\* before DEAD_LETTERED, and from before services were soft-deleted.
BeforeDeadLetters ==
    [NoTables EXCEPT !.tables = TRUE, !.status = "old", !.uniqueName = TRUE]
BeforeSoftDelete ==
    [BeforeDeadLetters EXCEPT !.letters = TRUE, !.status = "new"]
Current ==
    [tables |-> TRUE, letters |-> TRUE, status |-> "new",
     deletedAt |-> TRUE, uniqueName |-> FALSE, liveName |-> TRUE]

\* CREATE TABLE IF NOT EXISTS leaves an existing table as it is.
CreateTables(schema) ==
    IF schema.tables
    THEN [schema EXCEPT !.letters = TRUE]
    ELSE [Current EXCEPT !.uniqueName = TRUE, !.liveName = FALSE]

\* DROP CONSTRAINT IF EXISTS, ADD CONSTRAINT: every status of an older list is
\* in the new one, so existing rows pass.
RecreateStatusCheck(schema) == [schema EXCEPT !.status = "new"]

\* Mutated form of SoftDelete: the full UNIQUE(name) is left in place.
SoftDeleteKeepingUnique(schema) ==
    [schema EXCEPT !.deletedAt = TRUE, !.liveName = TRUE]

\* Mutated form of SoftDelete: the partial index is not created.
SoftDeleteWithoutIndex(schema) ==
    [schema EXCEPT !.deletedAt = TRUE, !.uniqueName = FALSE]

SoftDelete(schema) ==
    [schema EXCEPT !.deletedAt = TRUE, !.uniqueName = FALSE, !.liveName = TRUE]
=============================================================================
