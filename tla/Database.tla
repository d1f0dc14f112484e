------------------------------ MODULE Database ------------------------------
(***************************************************************************)
(* init_database (app/database.py): what a start of the service does to    *)
(* the schema in the SQLite file, and what is left of it after a crash.    *)
(* executescript runs every statement in a transaction of its own, so that *)
(* a crash or an error may fall between any two of them; an INSERT is not  *)
(* in the file before its commit.  The migrations are those of the code:   *)
(* 1, the schema, whose statements may be repeated, and 2, an ALTER TABLE, *)
(* which may not.                                                          *)
(***************************************************************************)
EXTENDS Naturals

CONSTANT Statements       \* how many statements _SCHEMA has

ASSUME StatementsAssumption == Statements \in Nat \ {0}

VARIABLES
    objects,    \* in the file: how many objects of _SCHEMA there are
    column,     \* in the file: whether request_log has the column job_id
    versions,   \* in the file: the rows of schema_versions
    pc,         \* where the process is; "up" is after start-up
    next,       \* the next statement of _SCHEMA
    current,    \* the version that was read
    disturbed   \* history: this start met an error from outside (a lock,
                \*   a full disk)

vars == <<objects, column, versions, pc, next, current, disturbed>>
file == <<objects, column, versions>>

Init ==
    /\ objects = 0
    /\ column = FALSE
    /\ versions = {}
    /\ pc = "down"
    /\ next = 1
    /\ current = 0
    /\ disturbed = FALSE

-----------------------------------------------------------------------------
Start ==
    /\ pc = "down"
    /\ pc' = "read"
    /\ disturbed' = FALSE
    /\ UNCHANGED <<file, next, current>>

(* _get_current_version: 0 without the table, without a row, or when the   *)
(* file cannot be read.                                                    *)
ReadVersion ==
    /\ pc = "read"
    /\ \/ /\ current' = CHOOSE v \in versions \cup {0} : \A w \in versions : w <= v
          /\ UNCHANGED disturbed
       \/ /\ current' = 0
          /\ disturbed' = TRUE
    /\ next' = 1
    /\ pc' = IF current' = 0 THEN "schema" ELSE "alter"
    /\ UNCHANGED file

(* Slips a change to the code could make stand before the definition they  *)
(* alter; each of them breaks a property.                                  *)
CreateOnce ==             \* no "IF NOT EXISTS"
    /\ pc = "schema"
    /\ \/ /\ next <= objects
          /\ pc' = "up"
          /\ UNCHANGED <<objects, next>>
       \/ /\ next > objects
          /\ objects' = next
          /\ next' = next + 1
          /\ pc' = IF next < Statements THEN "schema" ELSE "stamp_1"
    /\ UNCHANGED <<column, versions, current, disturbed>>

StampFirst ==             \* the row inserted while the script still runs
    /\ pc = "schema"
    /\ objects' = IF next > objects THEN next ELSE objects
    /\ versions' = versions \cup {1}
    /\ next' = next + 1
    /\ pc' = IF next < Statements THEN "schema" ELSE "alter"
    /\ UNCHANGED <<column, current, disturbed>>

(* One statement of _SCHEMA: it creates an object that is not there yet.   *)
Create ==
    /\ pc = "schema"
    /\ objects' = IF next > objects THEN next ELSE objects
    /\ next' = next + 1
    /\ pc' = IF next < Statements THEN "schema" ELSE "stamp_1"
    /\ UNCHANGED <<column, versions, current, disturbed>>

(* The row of version 1.  If it is there, because the version could not be *)
(* read, the INSERT raises, which ends init_database.                      *)
StampSchema ==
    /\ pc = "stamp_1"
    /\ \/ /\ 1 \notin versions
          /\ versions' = versions \cup {1}
          /\ current' = 1
          /\ pc' = "alter"
       \/ /\ 1 \in versions
          /\ pc' = "up"
          /\ UNCHANGED <<versions, current>>
    /\ UNCHANGED <<objects, column, next, disturbed>>

(* Migration 2, if it is newer than the version read.  A column that is    *)
(* already there is an error, which is logged and passed over.             *)
Alter ==
    /\ pc = "alter"
    /\ \/ /\ current < 2 /\ ~column
          /\ column' = TRUE
          /\ pc' = "stamp_2"
       \/ /\ current >= 2 \/ column
          /\ pc' = "up"
          /\ UNCHANGED column
    /\ UNCHANGED <<objects, versions, next, current, disturbed>>

StampColumn ==
    /\ pc = "stamp_2"
    /\ versions' = versions \cup {2}
    /\ pc' = "up"
    /\ UNCHANGED <<objects, column, next, current, disturbed>>

(* A statement fails for a reason from outside.  Migration 2 logs the      *)
(* exception, anything before it lets it out of init_database to the       *)
(* startup handler, which logs it; either way the service comes up.        *)
Disturbed ==
    /\ pc \in {"read", "schema", "stamp_1", "alter", "stamp_2"}
    /\ pc' = "up"
    /\ disturbed' = TRUE
    /\ UNCHANGED <<file, next, current>>

(* The process ends, at whatever point it is.                              *)
Crash ==
    /\ pc # "down"
    /\ pc' = "down"
    /\ UNCHANGED <<file, next, current, disturbed>>

Next == \/ Start \/ ReadVersion \/ Create \/ StampSchema \/ Alter \/ StampColumn
        \/ Disturbed \/ Crash

Spec == Init /\ [][Next]_vars

-----------------------------------------------------------------------------
(* A recorded version is never ahead of the schema, after any crash.       *)
VersionsTellTruth ==
    /\ 1 \in versions => objects = Statements
    /\ 2 \in versions => column /\ 1 \in versions

(* However often the service crashed while it migrated: after a start that *)
(* nothing disturbed the whole schema is there.                            *)
UpMeansUsable == pc = "up" /\ ~disturbed => objects = Statements /\ column

-----------------------------------------------------------------------------
(* "Initialize the database schema and apply pending migrations."          *)
(* (app/database.py:131): after a start that nothing disturbed, no         *)
(* migration is pending.                                                   *)
NothingPending == pc = "up" /\ ~disturbed => 2 \in versions
=============================================================================
