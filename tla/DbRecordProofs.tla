--------------------------- MODULE DbRecordProofs ---------------------------
(* The marks of DbRecord are sound for every set of rows and of contents.  *)
EXTENDS DbRecord, TLAPS

\* The inductive invariant.  GetDataIsModule needs the caller never to bring
\* back a removed row unchanged before it is saved; the other two do not.
RecordInv ==
  /\ TypeOK
  /\ UnmarkedIsSaved
  /\ ~ReusesIds => GetDataIsModule

\* The invariant row by row: what the three conjuncts say of row i.
RowInv(r, t, m) ==
  /\ r \in Record \cup {NULL}
  /\ t \in Vals \cup {NULL}
  /\ m \in Vals \cup {NULL}
  /\ r # NULL /\ r.stat = "VALID" => t = r.data
  /\ r = NULL => t = NULL
  /\ ~ReusesIds => m = IF r # NULL /\ r.stat # "DELETE" THEN r.data ELSE NULL

RowsInv ==
  /\ records = [i \in Ids |-> records[i]]
  /\ table = [i \in Ids |-> table[i]]
  /\ module = [i \in Ids |-> module[i]]
  /\ \A i \in Ids : RowInv(records[i], table[i], module[i])

\* The two forms agree, so a step can be argued one row at a time.
LEMMA ByRow == RecordInv <=> RowsInv
<1>1. RecordInv => \A i \in Ids : RowInv(records[i], table[i], module[i])
  BY DEF RecordInv, RowInv, TypeOK, Rows, UnmarkedIsSaved, Marked, GetDataIsModule, getData
<1>2. RecordInv => /\ records = [i \in Ids |-> records[i]]
                   /\ table = [i \in Ids |-> table[i]]
                   /\ module = [i \in Ids |-> module[i]]
  BY DEF RecordInv, TypeOK, Rows
<1>3. ASSUME records = [i \in Ids |-> records[i]],
             table = [i \in Ids |-> table[i]],
             module = [i \in Ids |-> module[i]],
             \A i \in Ids : RowInv(records[i], table[i], module[i])
      PROVE  RecordInv
  <2>1. TypeOK
    BY <1>3 DEF RowInv, TypeOK, Rows
  <2>2. UnmarkedIsSaved
    BY <1>3 DEF RowInv, UnmarkedIsSaved, Marked
  <2>3. ~ReusesIds => GetDataIsModule
    BY <1>3 DEF RowInv, GetDataIsModule, getData
  <2> QED BY <2>1, <2>2, <2>3 DEF RecordInv
<1> QED BY <1>1, <1>2, <1>3 DEF RowsInv

\* What loading, updating and saving do to one row.
LEMMA RowLoaded ==
  ASSUME NEW v \in Vals \cup {NULL}
  PROVE  RowInv(IF v = NULL THEN NULL ELSE [data |-> v, stat |-> "VALID"], v, v)
  BY RecordAssumption DEF RowInv, Record

\* An update of one row keeps its invariant.
LEMMA RowUpdated ==
  ASSUME NEW r, NEW t, NEW m, RowInv(r, t, m), NEW v \in Vals \cup {NULL},
         ~ReusesIds /\ r # NULL /\ v = r.data => r.stat # "DELETE"
  PROVE  RowInv(Updated(r, v), t, v)
<1>1. CASE r = NULL
  BY <1>1, RecordAssumption DEF RowInv, Updated, Record
<1>2. CASE r # NULL /\ v = NULL
  <2>1. Updated(r, v) = [r EXCEPT !.stat = "DELETE"]
    BY <1>2 DEF Updated
  <2>2. Updated(r, v) \in Record /\ Updated(r, v).stat = "DELETE"
    BY <1>2, <2>1 DEF RowInv, Record
  <2> QED BY <1>2, <2>2, RecordAssumption DEF RowInv
<1>3. CASE r # NULL /\ v # NULL /\ r.data = v
  <2>1. Updated(r, v) = r
    BY <1>3 DEF Updated
  <2> QED BY <1>3, <2>1, RecordAssumption DEF RowInv, Record
<1>4. CASE r # NULL /\ v # NULL /\ r.data # v
  <2>1. Updated(r, v) = [data |-> v, stat |-> "NEW"]
    BY <1>4 DEF Updated
  <2> QED BY <1>4, <2>1, RecordAssumption DEF RowInv, Record
<1> QED BY <1>1, <1>2, <1>3, <1>4

\* A freshly loaded character satisfies it ...
LEMMA InitRecordInv == Init => RecordInv
<1> SUFFICES ASSUME Init PROVE RecordInv
  OBVIOUS
<1>1. \A i \in Ids : RowInv(records[i], table[i], module[i])
  BY RowLoaded DEF Init, Loaded, Rows
<1> QED BY <1>1, ByRow DEF RowsInv, Init, Loaded, Rows

\* ... and every operation, failed ones included, preserves it.
LEMMA NextRowsInv == RowsInv /\ [Next]_vars => RowsInv'
<1> SUFFICES ASSUME RowsInv, [Next]_vars PROVE RowsInv'
  OBVIOUS
<1>1. CASE UNCHANGED vars
  BY <1>1 DEF vars, RowsInv
<1>2. ASSUME NEW rows \in Rows, update(rows) PROVE RowsInv'
  <2>1. ASSUME NEW i \in Ids PROVE RowInv(records'[i], table'[i], module'[i])
    <3>1. records'[i] = Updated(records[i], rows[i]) /\ table'[i] = table[i]
          /\ module'[i] = rows[i] /\ rows[i] \in Vals \cup {NULL}
      BY <1>2 DEF update, Rows
    <3>2. ~ReusesIds /\ records[i] # NULL /\ rows[i] = records[i].data
            => records[i].stat # "DELETE"
      BY <1>2 DEF update
    <3> QED BY <3>1, <3>2, RowUpdated DEF RowsInv
  <2> QED BY <1>2, <2>1 DEF update, RowsInv, Rows
<1>3. CASE saveDone
  <2>1. ASSUME NEW i \in Ids PROVE RowInv(records'[i], table'[i], module'[i])
    <3>0. RowInv(records[i], table[i], module[i]) /\ module'[i] = module[i]
      BY <1>3 DEF RowsInv, saveDone
    <3>1. CASE records[i] = NULL
      BY <1>3, <3>0, <3>1 DEF saveDone, RowInv, Deleted, Inserted, Marked
    <3>2. CASE Marked(i, "DELETE")
      <4>1. records'[i] = NULL /\ table'[i] = NULL
        BY <1>3, <3>2 DEF saveDone, Deleted
      <4> QED BY <3>0, <3>2, <4>1 DEF RowInv, Marked
    <3>3. CASE records[i] # NULL /\ ~Marked(i, "DELETE")
      <4>1. /\ records'[i] = [records[i] EXCEPT !.stat = "VALID"]
            /\ table'[i] = IF Marked(i, "NEW") THEN records[i].data ELSE table[i]
        BY <1>3, <3>3 DEF saveDone, Deleted, Inserted
      <4>2. /\ records[i] \in Record
            /\ records[i].stat \in {"VALID", "NEW", "DELETE"}
            /\ records[i].data \in Vals
        BY <3>0, <3>3 DEF RowInv, Record
      <4>3. /\ records'[i] \in Record /\ records'[i].stat = "VALID"
            /\ records'[i].data = records[i].data
        BY <4>1, <4>2 DEF Record
      <4>4. table'[i] = records[i].data
        BY <3>0, <3>3, <4>1, <4>2 DEF RowInv, Marked
      <4> QED BY <3>0, <3>3, <4>2, <4>3, <4>4, RecordAssumption DEF RowInv, Marked
    <3> QED BY <3>1, <3>2, <3>3
  <2> QED BY <1>3, <2>1 DEF saveDone, RowsInv, Deleted
<1>4. CASE saveFailsAtInsert
  BY <1>1, <1>4 DEF saveFailsAtInsert
<1>5. CASE saveFailsAtDelete
  <2>1. ASSUME NEW i \in Ids PROVE RowInv(records'[i], table'[i], module'[i])
    BY <1>5 DEF saveFailsAtDelete, RowsInv, Inserted, RowInv, Marked, Record
  <2> QED BY <1>5, <2>1 DEF saveFailsAtDelete, RowsInv, Inserted
<1>6. CASE restart
  <2>1. ASSUME NEW i \in Ids PROVE RowInv(records'[i], table'[i], module'[i])
    <3>1. table[i] \in Vals \cup {NULL}
      BY DEF RowsInv, RowInv
    <3> QED BY <1>6, <3>1, RowLoaded DEF restart, Loaded
  <2> QED BY <1>6, <2>1 DEF restart, RowsInv, Loaded
<1> QED BY <1>1, <1>2, <1>3, <1>4, <1>5, <1>6 DEF Next

\* The invariant holds through updates, saves, failed saves and restarts.
THEOREM RecordInvariant == Spec => []RecordInv
<1>1. Init => RowsInv
  BY InitRecordInv, ByRow
<1>2. RowsInv => RecordInv
  BY ByRow
<1> QED BY <1>1, <1>2, NextRowsInv, PTL DEF Spec

\* The variables keep their types.
THEOREM RecordTypes == Spec => []TypeOK
<1>1. RecordInv => TypeOK
  BY DEF RecordInv
<1> QED BY <1>1, RecordInvariant, PTL

\* A record without a mark is saved, whatever failed before.
THEOREM MarksSound == Spec => []UnmarkedIsSaved
<1>1. RecordInv => UnmarkedIsSaved
  BY DEF RecordInv
<1> QED BY <1>1, RecordInvariant, PTL

\* For a caller that never brings a removed row back unchanged, getData shows
\* the last update ...
THEOREM LoginSeesUpdate ==
  ASSUME ~ReusesIds
  PROVE  Spec => []GetDataIsModule
<1>1. RecordInv => GetDataIsModule
  BY DEF RecordInv
<1> QED BY <1>1, RecordInvariant, PTL

\* ... and a save without an exception installs exactly the last update, after
\* any number of saves that failed before or between their two transactions.
THEOREM SaveInstalls ==
  ASSUME ~ReusesIds
  PROVE  Spec => SaveInstallsModule
<1>1. ASSUME RecordInv, saveDone PROVE table' = module
  <2>1. \A i \in Ids : RowInv(records[i], table[i], module[i])
    BY <1>1, ByRow DEF RowsInv
  <2>2. ASSUME NEW i \in Ids PROVE table'[i] = module[i]
    <3>1. table'[i] = IF Marked(i, "DELETE") THEN NULL
                      ELSE IF Marked(i, "NEW") THEN records[i].data ELSE table[i]
      BY <1>1 DEF saveDone, Deleted, Inserted
    <3> QED BY <2>1, <3>1 DEF RowInv, Marked, Record
  <2>3. module = [i \in Ids |-> module[i]] /\ table' = [i \in Ids |-> table'[i]]
    BY <1>1 DEF saveDone, Deleted, RecordInv, TypeOK, Rows
  <2> QED BY <2>2, <2>3
<1>2. RecordInv /\ [Next]_vars => [saveDone => table' = module]_vars
  BY <1>1
<1> QED BY <1>2, RecordInvariant, PTL DEF Spec, SaveInstallsModule
=============================================================================
