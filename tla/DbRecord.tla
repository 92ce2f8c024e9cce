------------------------------ MODULE DbRecord ------------------------------
(***************************************************************************)
(* One table of one character: db/data/DbRecord.java behind                *)
(* db/data/module/CommonModule.java.  The game hands over the whole        *)
(* collection of rows (update); the records remember per row whether it    *)
(* must still be written or deleted; save turns those marks into two       *)
(* database transactions, either of which may fail.  update, getData and   *)
(* save are called inside synchronized(mod), so each is one step.          *)
(*                                                                         *)
(* A row is identified by its key columns (Ids); its other columns are one *)
(* value, and two values are different when their crc32 is.                *)
(***************************************************************************)
EXTENDS Integers

CONSTANTS
  Ids,        \* key columns of the rows of this character
  Vals,       \* contents of a row
  NULL,       \* no row
  ReusesIds   \* may the game bring back, unchanged, a row it removed since
              \* the last save?

Rows == [Ids -> Vals \cup {NULL}]
Record == [data : Vals, stat : {"VALID", "NEW", "DELETE"}]

ASSUME RecordAssumption ==
  /\ NULL \notin Vals
  /\ NULL \notin Record
  /\ ReusesIds \in BOOLEAN

VARIABLES
  records,    \* row -> [data, stat], or NULL when there is no record of it
  table,      \* row -> content in the database, or NULL
  module      \* row -> content in the game: the collection last handed over

vars == <<records, table, module>>

\* load: every row of the table becomes a VALID record.
Loaded(rows) ==
  [i \in Ids |-> IF rows[i] = NULL THEN NULL
                 ELSE [data |-> rows[i], stat |-> "VALID"]]

Init ==
  /\ table \in Rows
  /\ module = table
  /\ records = Loaded(table)

\* getData: the rows that are not marked for deletion.
getData ==
  [i \in Ids |-> IF records[i] # NULL /\ records[i].stat # "DELETE"
                 THEN records[i].data ELSE NULL]

\* Faults: a missing row overwrites the data, or is not noticed.
UpdatedByNothing(r, v) ==
  IF r = NULL /\ v = NULL THEN NULL
  ELSE [data |-> v, stat |-> IF v = NULL THEN "DELETE" ELSE "NEW"]
UpdatedKeepsMissing(r, v) ==
  IF v = NULL \/ (r # NULL /\ r.data = v) THEN r ELSE [data |-> v, stat |-> "NEW"]

\* What update makes of one record r when the game holds v for that row: a
\* changed row is replaced and marked NEW, an equal one is left alone whatever
\* its mark, a missing one is marked DELETE, an unknown one is added as NEW.
Updated(r, v) ==
  CASE r = NULL /\ v = NULL -> NULL
    [] r = NULL /\ v # NULL -> [data |-> v, stat |-> "NEW"]
    [] r # NULL /\ v = NULL -> [r EXCEPT !.stat = "DELETE"]
    [] OTHER -> IF r.data = v THEN r ELSE [data |-> v, stat |-> "NEW"]

update(rows) ==
  /\ \A i \in Ids : ~ReusesIds /\ records[i] # NULL /\ rows[i] = records[i].data
                      => records[i].stat # "DELETE"
  /\ module' = rows
  /\ records' = [i \in Ids |-> Updated(records[i], rows[i])]
  /\ UNCHANGED table

Marked(i, stat) == records[i] # NULL /\ records[i].stat = stat

\* batchInsertOrUpdate of the NEW records, batchDelete of the DELETE records:
\* each is a transaction that commits or is rolled back.
Inserted == [i \in Ids |-> IF Marked(i, "NEW") THEN records[i].data ELSE table[i]]
Deleted(rows) == [i \in Ids |-> IF Marked(i, "DELETE") THEN NULL ELSE rows[i]]

\* Fault: save without its batchDelete.
saveWithoutDelete ==
  /\ table' = Inserted
  /\ records' = [i \in Ids |-> IF Marked(i, "NEW")
                               THEN [records[i] EXCEPT !.stat = "VALID"] ELSE records[i]]
  /\ UNCHANGED module

\* save, both transactions committed: deleted records go, the others are VALID.
saveDone ==
  /\ table' = Deleted(Inserted)
  /\ records' = [i \in Ids |->
                   IF records[i] = NULL \/ Marked(i, "DELETE") THEN NULL
                   ELSE [records[i] EXCEPT !.stat = "VALID"]]
  /\ UNCHANGED module

\* save when batchInsertOrUpdate throws: nothing is written, no mark changes.
saveFailsAtInsert ==
  /\ \E i \in Ids : Marked(i, "NEW")
  /\ UNCHANGED vars

\* Fault: the marks are cleared although batchDelete threw.
saveFailsButClears ==
  /\ \E i \in Ids : Marked(i, "DELETE")
  /\ table' = Inserted
  /\ records' = [i \in Ids |->
                   IF records[i] = NULL \/ Marked(i, "DELETE") THEN NULL
                   ELSE [records[i] EXCEPT !.stat = "VALID"]]
  /\ UNCHANGED module

\* save when batchDelete throws: the inserts are committed, no mark changes.
saveFailsAtDelete ==
  /\ \E i \in Ids : Marked(i, "DELETE")
  /\ table' = Inserted
  /\ UNCHANGED <<records, module>>

\* The process ends and the character is loaded again.
restart ==
  /\ records' = Loaded(table)
  /\ module' = table
  /\ UNCHANGED table

Next ==
  \/ \E rows \in Rows : update(rows)
  \/ saveDone
  \/ saveFailsAtInsert
  \/ saveFailsAtDelete
  \/ restart

Spec == Init /\ [][Next]_vars

----------------------------------------------------------------------------
(* Properties.                                                             *)

\* Every row has a record of the right shape, or none.
TypeOK ==
  /\ records \in [Ids -> Record \cup {NULL}]
  /\ table \in Rows
  /\ module \in Rows

\* What the records say is what the game handed over: a login that builds the
\* character from getData sees the last update, saved or not.
GetDataIsModule == getData = module

\* The marks are sound whatever failed before: a record without one is in the
\* table as it is, and a row without a record is not in the table.  So a save
\* that skips it loses nothing.
UnmarkedIsSaved ==
  \A i \in Ids : /\ Marked(i, "VALID") => table[i] = records[i].data
                 /\ records[i] = NULL => table[i] = NULL

\* A save that reports no exception leaves the table equal to what the game
\* handed over last, however many saves failed half-way before it.
SaveInstallsModule == [][saveDone => table' = module]_vars

\* DELETE is documented as "deleted data, must be deleted from the database":
\* a row the game holds is never marked so.
DeleteMeansRemoved == \A i \in Ids : Marked(i, "DELETE") => module[i] = NULL
=============================================================================
