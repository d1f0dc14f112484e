--------------------------- MODULE DatabaseProofs ---------------------------
(***************************************************************************)
(* Database for a schema of any number of statements, after any sequence   *)
(* of crashes and errors.  What survives a crash is the file, so the       *)
(* invariant ties the place of the process to the file: the schema is      *)
(* whole before version 1 is written, the column is there before version 2 *)
(* is, and a process that takes a stamped file for an empty one has met an *)
(* error in this very start.                                               *)
(***************************************************************************)
EXTENDS Database, TLAPS

USE StatementsAssumption

TypeOK ==
    /\ objects \in 0..Statements
    /\ versions \in SUBSET {1, 2}
    /\ pc \in {"down", "read", "schema", "stamp_1", "alter", "stamp_2", "up"}
    /\ next \in 1..(Statements + 1)
    /\ current \in {0, 1, 2}

(* Where the process is, the file has what the steps before have made.     *)
Reached ==
    /\ pc = "schema" => next <= Statements /\ objects >= next - 1
    /\ pc \in {"stamp_1", "alter", "stamp_2"} => objects = Statements
    /\ pc \in {"alter", "stamp_2"} => 1 \in versions
    /\ pc = "alter" /\ current = 2 => column
    /\ pc = "stamp_2" => column

(* Version 1 is overlooked only because of an error.                       *)
Overlooked == pc \in {"schema", "stamp_1"} /\ 1 \in versions => disturbed

IInv == TypeOK /\ VersionsTellTruth /\ Reached /\ Overlooked /\ UpMeansUsable

(* MAX(version), or 0 without a row.                                       *)
LEMMA HasLatest ==
  ASSUME NEW vs \in SUBSET {1, 2}
  PROVE  \E v \in vs \cup {0} : \A w \in vs : w <= v
<1>1. CASE 2 \in vs
  BY <1>1
<1>2. CASE 2 \notin vs /\ 1 \in vs
  BY <1>2
<1>3. CASE vs = {}
  BY <1>3
<1> QED BY <1>1, <1>2, <1>3

LEMMA LatestTells ==
  ASSUME NEW vs \in SUBSET {1, 2}, NEW top \in vs \cup {0}, \A w \in vs : w <= top
  PROVE  /\ top \in {0, 1, 2}
         /\ top = 0 => vs = {}
         /\ top = 2 => 2 \in vs
         /\ top = 1 => 1 \in vs
  OBVIOUS

LEMMA InitIInv == ASSUME Init PROVE IInv
  BY DEF Init, IInv, TypeOK, VersionsTellTruth, Reached, Overlooked, UpMeansUsable

LEMMA NextIInv == ASSUME IInv, [Next]_vars PROVE IInv'
<1> USE DEF IInv, TypeOK, VersionsTellTruth, Reached, Overlooked, UpMeansUsable, file
<1>1. CASE Start
  BY <1>1 DEF Start
<1>2. CASE ReadVersion
  <2>1. /\ current' \in {0, 1, 2}
        /\ current' = 0 => versions = {} \/ disturbed'
        /\ current' = 2 => 2 \in versions
        /\ current' = 1 => 1 \in versions
    <3>1. CASE current' = 0 /\ disturbed' = TRUE
      BY <3>1
    <3>2. CASE current' = CHOOSE v \in versions \cup {0} : \A w \in versions : w <= v
      <4> DEFINE Greatest(v) == \A w \in versions : w <= v
      <4>1. \E v \in versions \cup {0} : Greatest(v)
        BY HasLatest
      <4>2. current' = CHOOSE v \in versions \cup {0} : Greatest(v)
        BY <3>2
      <4> HIDE DEF Greatest
      <4>3. current' \in versions \cup {0} /\ Greatest(current')
        BY <4>1, <4>2
      <4> QED BY <4>3, LatestTells DEF Greatest
    <3> QED BY <1>2, <3>1, <3>2 DEF ReadVersion
  <2>2. /\ UNCHANGED <<objects, column, versions>> /\ next' = 1
        /\ pc' = IF current' = 0 THEN "schema" ELSE "alter"
    BY <1>2 DEF ReadVersion
  <2> QED BY <2>1, <2>2
<1>3. CASE Create
  BY <1>3 DEF Create
<1>4. CASE StampSchema
  <2>1. CASE 1 \notin versions
    <3>1. /\ pc = "stamp_1" /\ pc' = "alter" /\ current' = 1
          /\ versions' = versions \cup {1}
          /\ UNCHANGED <<objects, column, next, disturbed>>
      BY <1>4, <2>1 DEF StampSchema
    <3>2. versions = {} /\ versions' = {1} /\ objects = Statements
      BY <2>1, <3>1
    <3> QED BY <3>1, <3>2
  <2>2. CASE 1 \in versions
    <3>1. /\ pc = "stamp_1" /\ pc' = "up"
          /\ UNCHANGED <<objects, column, versions, next, current, disturbed>>
      BY <1>4, <2>2 DEF StampSchema
    <3>2. disturbed'
      BY <2>2, <3>1, Zenon
    <3> QED BY <3>1, <3>2
  <2> QED BY <2>1, <2>2
<1>5. CASE Alter
  <2>1. CASE column' = TRUE /\ pc' = "stamp_2"
    <3>1. column'
      BY <2>1
    <3> QED BY <1>5, <2>1, <3>1 DEF Alter
  <2>2. CASE (current >= 2 \/ column) /\ pc' = "up" /\ UNCHANGED column
    <3>1. pc = "alter" /\ UNCHANGED <<objects, versions, next, current, disturbed>>
      BY <1>5 DEF Alter
    <3>2. column
      BY <2>2, <3>1
    <3>3. column'
      BY <2>2, <3>2, Zenon
    <3> QED BY <2>2, <3>1, <3>3
  <2> QED BY <1>5, <2>1, <2>2 DEF Alter
<1>6. CASE StampColumn
  BY <1>6 DEF StampColumn
<1>7. CASE Disturbed
  BY <1>7 DEF Disturbed
<1>8. CASE Crash
  BY <1>8 DEF Crash
<1>9. CASE UNCHANGED vars
  BY <1>9 DEF vars
<1> QED BY <1>1, <1>2, <1>3, <1>4, <1>5, <1>6, <1>7, <1>8, <1>9 DEF Next

LEMMA Invariant == Spec => []IInv
<1>1. Init => IInv
  BY InitIInv
<1>2. IInv /\ [Next]_vars => IInv'
  BY NextIInv
<1> QED BY <1>1, <1>2, PTL DEF Spec

(* After any crashes, a version that is in the file tells the truth about  *)
(* the schema (init_database, _apply_migration).                           *)
THEOREM VersionsAreTrue == Spec => []VersionsTellTruth
<1>1. IInv => VersionsTellTruth
  BY DEF IInv
<1> QED BY <1>1, Invariant, PTL

(* A start that nothing disturbs leaves the whole schema, whatever the     *)
(* starts before it left.                                                  *)
THEOREM StartsRepair == Spec => []UpMeansUsable
<1>1. IInv => UpMeansUsable
  BY DEF IInv
<1> QED BY <1>1, Invariant, PTL
=============================================================================
