-------------------------- MODULE DeadLetterStore ---------------------------
(***************************************************************************)
(* The dead_letters table (internal/store/postgres/dead_letter.go), one    *)
(* operator per SQL statement.  The table is a record of the rows it holds *)
(* and of how many were ever inserted, which names the next fresh UUID.    *)
(* Payload, last error and failure time play no part in any decision.      *)
(***************************************************************************)
EXTENDS Naturals

Letter(Notifications) == [id : Nat, job : Notifications, attempts : Nat]

EmptyTable == [rows |-> {}, inserted |-> 0]

LettersOf(letters, n) == {l \in letters.rows : l.job = n}

----------------------------------------------------------------------------

\* Mutated form of CreateLetter: no conflict target, every insert adds a row.
CreateLetterAlways(letters, n, attempts) ==
    [rows     |-> letters.rows \cup
                    {[id |-> letters.inserted + 1, job |-> n, attempts |-> attempts]},
     inserted |-> letters.inserted + 1]

\* INSERT ... ON CONFLICT (notification_id) DO NOTHING.
CreateLetter(letters, n, attempts) ==
    IF LettersOf(letters, n) # {}
    THEN letters
    ELSE [rows     |-> letters.rows \cup
                         {[id |-> letters.inserted + 1, job |-> n, attempts |-> attempts]},
          inserted |-> letters.inserted + 1]

GetByID(letters, id) == {l \in letters.rows : l.id = id}

DeleteByNotificationID(letters, n) ==
    [letters EXCEPT !.rows = @ \ LettersOf(letters, n)]
=============================================================================
