---------------------------- MODULE StorageProofs ----------------------------
(***************************************************************************)
(* The storage property accuses DuckDB only of damage it did, and misses   *)
(* none that is left at the end, for every set of inputs, any number of    *)
(* processes that reuse a pid, and any number of cases.                    *)
(***************************************************************************)
EXTENDS Storage, TLAPS

Files == [db : Tables \cup {NoTable}, wal : Tables \cup {NoTable}]

InCase ==
    pc \in {"create", "checkpoint", "delete", "update", "checkpoint again", "read", "ended"}

Typed ==
    /\ pc \in {"down", "idle"} \/ InCase
    /\ pid \in Pids
    /\ counter \in 0..MaxCases
    /\ InCase => counter >= 1
    /\ input \in Inputs
    /\ disk \in [Paths -> Files]
    /\ table \in Tables \cup {NoTable}
    /\ verdict \in {"none", "pass", "fail"}
    /\ truth \in Tables \cup {NoTable}
    /\ faulty \in BOOLEAN

\* The table after the optional deletion, and after the optional update.
Kept(c) == IF c.do_delete /\ c.values # <<>> THEN Deleted(Inserted(c)) ELSE Inserted(c)

\* There is no verdict before the end of a case.
NoVerdictYet == InCase /\ pc # "ended" => verdict = "none"

\* The path of a case holds nothing when the case begins.
FreshFile == pc = "create" => disk[Path] = [db |-> NoTable, wal |-> NoTable]

\* What a faultless DuckDB would have, from step to step.
TruthFollowsInput ==
    /\ pc \in {"checkpoint", "delete"} => truth = Inserted(input)
    /\ pc = "update" => truth = Kept(input)
    /\ pc \in {"checkpoint again", "read"} => truth = Expected(input)

\* While a database is open there is a table, and without a fault it is the true one.
OpenTable ==
    pc \in {"checkpoint", "update", "checkpoint again"} =>
        table \in Tables /\ (~faulty => table = truth)

\* When it is closed the file holds the table and the log nothing, and again without
\* a fault it is the true one.
ClosedTable ==
    pc \in {"delete", "read"} =>
        /\ disk[Path].wal = NoTable
        /\ disk[Path].db \in Tables
        /\ ~faulty => disk[Path].db = truth

Inv ==
    /\ Typed
    /\ NoVerdictYet
    /\ FreshFile
    /\ TruthFollowsInput
    /\ OpenTable
    /\ ClosedTable
    /\ NoFalseAlarm
    /\ DamageIsFound

-----------------------------------------------------------------------------
\* A table is a function from row ids to values.
LEMMA TableIsFunction ==
    ASSUME NEW t \in Tables
    PROVE  /\ t = [i \in DOMAIN t |-> t[i]]
           /\ DOMAIN t \in SUBSET (0..MaxRows - 1)
           /\ \A i \in DOMAIN t : t[i] \in Values
BY DEF Tables

\* Every function from row ids to values is one.
LEMMA FunctionIsTable ==
    ASSUME NEW ids \in SUBSET (0..MaxRows - 1), NEW t \in [ids -> Values]
    PROVE  t \in Tables
BY DEF Tables

\* What INSERT makes of the generated values is a table.
LEMMA InsertedIsTable ==
    ASSUME NEW c \in Inputs
    PROVE  Inserted(c) \in Tables
<1>1. c.values \in Seq(Values) /\ Len(c.values) \in Nat /\ Len(c.values) <= MaxRows /\ MaxRows \in Nat
  BY StorageAssumption
<1>2. 0..Len(c.values) - 1 \in SUBSET (0..MaxRows - 1)
  BY <1>1
<1>3. \A i \in 0..Len(c.values) - 1 : c.values[i + 1] \in Values
  BY <1>1
<1> QED
  BY <1>2, <1>3, FunctionIsTable DEF Inserted

\* So is what DELETE leaves,
LEMMA DeletedIsTable ==
    ASSUME NEW t \in Tables
    PROVE  Deleted(t) \in Tables
<1>1. {i \in DOMAIN t : i % 3 # 1} \in SUBSET (0..MaxRows - 1)
  BY TableIsFunction
<1>2. Deleted(t) \in [{i \in DOMAIN t : i % 3 # 1} -> Values]
  BY TableIsFunction DEF Deleted
<1> QED
  BY <1>1, <1>2, FunctionIsTable

\* what UPDATE writes,
LEMMA UpdatedIsTable ==
    ASSUME NEW t \in Tables, NEW x \in Values
    PROVE  Updated(t, x) \in Tables
<1>1. Updated(t, x) \in [DOMAIN t -> Values]
  BY TableIsFunction DEF Updated
<1> QED
  BY <1>1, TableIsFunction, FunctionIsTable

\* and what a faulty DuckDB stores.
LEMMA DamagedAreTables ==
    ASSUME NEW t \in Tables, NEW u \in Damaged(t)
    PROVE  u \in Tables
<1>1. CASE \E j \in DOMAIN t : u = [i \in DOMAIN t \ {j} |-> t[i]]
  <2>1. PICK j \in DOMAIN t : u = [i \in DOMAIN t \ {j} |-> t[i]]
    BY <1>1
  <2>2. u \in [DOMAIN t \ {j} -> Values] /\ DOMAIN t \ {j} \in SUBSET (0..MaxRows - 1)
    BY <2>1, TableIsFunction
  <2> QED
    BY <2>2, FunctionIsTable
<1>2. CASE \E j \in DOMAIN t, x \in Values : u = [t EXCEPT ![j] = x]
  <2>1. PICK j \in DOMAIN t, x \in Values : u = [t EXCEPT ![j] = x]
    BY <1>2
  <2>2. u \in [DOMAIN t -> Values] /\ DOMAIN t \in SUBSET (0..MaxRows - 1)
    BY <2>1, TableIsFunction
  <2> QED
    BY <2>2, FunctionIsTable
<1>3. \/ u \in {[i \in DOMAIN t \ {j} |-> t[i]] : j \in DOMAIN t}
      \/ u \in {[t EXCEPT ![j] = x] : j \in DOMAIN t, x \in Values}
  BY DEF Damaged
<1> QED
  BY <1>1, <1>2, <1>3

\* Deleting and then updating, each where the case asks for it and there are rows, makes
\* the table that the property expects.
LEMMA ExpectedIsTruth ==
    ASSUME NEW c \in Inputs
    PROVE  Expected(c) = IF c.do_update /\ c.values # <<>> THEN Updated(Kept(c), c.values[1]) ELSE Kept(c)
<1> DEFINE rows == 0..Len(c.values) - 1
           kept == {i \in rows : ~(c.do_delete /\ i % 3 = 1)}
<1>1. c.do_delete \in BOOLEAN /\ c.do_update \in BOOLEAN /\ c.values \in Seq(Values)
  BY StorageAssumption
<1>2. c.values = <<>> => rows = {}
  BY <1>1
<1>3. Kept(c) = [i \in kept |-> c.values[i + 1]]
  <2>1. CASE c.do_delete /\ c.values # <<>>
    <3>1. DOMAIN Inserted(c) = rows /\ \A i \in rows : Inserted(c)[i] = c.values[i + 1]
      BY DEF Inserted
    <3>2. {i \in rows : i % 3 # 1} = kept
      BY <2>1
    <3> QED
      BY <2>1, <3>1, <3>2 DEF Kept, Deleted
  <2>2. CASE ~(c.do_delete /\ c.values # <<>>)
    <3>1. kept = rows
      BY <1>2, <2>2
    <3> QED
      BY <2>2, <3>1 DEF Kept, Inserted
  <2> QED
    BY <2>1, <2>2
<1>4. CASE c.do_update /\ c.values # <<>>
  <2>1. DOMAIN Kept(c) = kept /\ \A i \in kept : Kept(c)[i] = c.values[i + 1]
    BY <1>3
  <2> QED
    BY <1>4, <2>1 DEF Updated, Expected
<1>5. CASE ~(c.do_update /\ c.values # <<>>)
  <2>1. CASE c.values = <<>>
    <3>1. kept = {}
      BY <1>2, <2>1
    <3> QED
      BY <1>3, <1>5, <3>1 DEF Expected
  <2>2. CASE ~c.do_update
    BY <1>3, <1>5, <2>2 DEF Expected
  <2> QED
    BY <1>1, <1>5, <2>1, <2>2
<1> QED
  BY <1>4, <1>5

\* Row count, ids and values say everything about a table.
LEMMA SameRowsIsEqual ==
    ASSUME NEW t \in Tables, NEW u \in Tables
    PROVE  SameRows(t, u) <=> t = u
BY TableIsFunction DEF SameRows

\* The table after the deletion is a table,
LEMMA KeptIsTable ==
    ASSUME NEW c \in Inputs
    PROVE  Kept(c) \in Tables
BY InsertedIsTable, DeletedIsTable DEF Kept

\* and so is the one the property expects.
LEMMA ExpectedIsTable ==
    ASSUME NEW c \in Inputs
    PROVE  Expected(c) \in Tables
<1>1. c.values \in Seq(Values)
  BY StorageAssumption
<1>2. CASE c.values # <<>>
  <2>1. c.values[1] \in Values
    BY <1>1, <1>2
  <2> QED
    BY <2>1, ExpectedIsTruth, KeptIsTable, UpdatedIsTable
<1>3. CASE c.values = <<>>
  BY <1>3, ExpectedIsTruth, KeptIsTable
<1> QED
  BY <1>2, <1>3

-----------------------------------------------------------------------------
\* The path of the case is one of the scratch paths.
LEMMA PathType ==
    ASSUME Typed, InCase
    PROVE  Path \in Paths
BY StorageAssumption DEF Typed, Path, Paths

\* What is written to the path of the case is what is found there.
LEMMA FilesOfPath ==
    ASSUME Typed, InCase, NEW t \in Tables \cup {NoTable}
    PROVE  /\ Committed(t) \in [Paths -> Files]
           /\ Checkpointed(t) \in [Paths -> Files]
           /\ Checkpointed(t)[Path] = [db |-> t, wal |-> NoTable]
BY PathType DEF Typed, Committed, Checkpointed, Files

\* The invariant holds before any process has been started.
LEMMA InitInv == Init => Inv
<1> SUFFICES ASSUME Init PROVE Inv
  OBVIOUS
<1>1. pid \in Pids /\ input \in Inputs /\ pc = "down"
  BY StorageAssumption DEF Init, NoInput
<1>2. disk \in [Paths -> Files]
  BY DEF Init, Files
<1>3. counter \in 0..MaxCases
  BY StorageAssumption DEF Init
<1>4. Typed
  BY <1>1, <1>2, <1>3 DEF Init, Typed, InCase
<1> QED
  BY <1>1, <1>4 DEF Init, Inv, NoVerdictYet, FreshFile, TruthFollowsInput, OpenTable, ClosedTable,
     NoFalseAlarm, DamageIsFound, InCase

\* A new process finds the files of its predecessors, and no case yet.
LEMMA ProcessStartsKeepsInv ==
    ASSUME Inv, ProcessStarts
    PROVE  Inv'
<1>1. Typed'
  BY StorageAssumption DEF Inv, Typed, ProcessStarts, InCase
<1> QED
  BY <1>1 DEF ProcessStarts, Inv, NoVerdictYet, FreshFile, TruthFollowsInput, OpenTable, ClosedTable,
     NoFalseAlarm, DamageIsFound, InCase

\* Whatever was at the path of the case is gone when the case begins.
LEMMA NewCaseKeepsInv ==
    ASSUME Inv, NewCase
    PROVE  Inv'
<1>1. /\ pid \in Pids /\ counter \in 0..MaxCases /\ MaxCases \in Nat /\ counter < MaxCases
      /\ disk \in [Paths -> Files]
  BY StorageAssumption DEF Inv, Typed, NewCase
<1>2. <<pid, counter>> \in Paths
  BY <1>1 DEF Paths
<1>3. Path' = <<pid, counter>>
  BY <1>1 DEF NewCase, Path
<1>4. disk' \in [Paths -> Files] /\ disk'[<<pid, counter>>] = [db |-> NoTable, wal |-> NoTable]
  BY <1>1, <1>2 DEF NewCase, Cleanup, Files
<1>5. Typed'
  <2>1. counter' \in 0..MaxCases /\ counter' >= 1
    BY <1>1 DEF NewCase
  <2>2. /\ pid' \in Pids /\ input' \in Inputs /\ table' \in Tables \cup {NoTable}
        /\ verdict' = "none" /\ truth' = NoTable /\ faulty' = FALSE /\ pc' = "create"
    BY DEF Inv, Typed, NewCase
  <2> QED
    BY <1>4, <2>1, <2>2 DEF Typed, InCase
<1>6. FreshFile'
  BY <1>3, <1>4 DEF FreshFile
<1> QED
  BY <1>5, <1>6 DEF NewCase, Inv, NoVerdictYet, TruthFollowsInput, OpenTable, ClosedTable,
     NoFalseAlarm, DamageIsFound, InCase

\* The path is free, so the rows can be stored.
LEMMA CreateTableKeepsInv ==
    ASSUME Inv, CreateTable
    PROVE  Inv'
<1>1. /\ pc = "create" /\ InCase /\ verdict = "none" /\ input \in Inputs
      /\ UNCHANGED <<pid, counter, input, faulty>>
  BY DEF CreateTable, InCase, Inv, Typed, NoVerdictYet
<1>2. Opened(disk[Path]) = NoTable
  BY <1>1 DEF Inv, FreshFile, Opened
<1>3. /\ table' = Inserted(input) /\ truth' = Inserted(input)
      /\ disk' = Committed(Inserted(input)) /\ pc' = "checkpoint" /\ UNCHANGED verdict
  BY <1>2 DEF CreateTable
<1>4. Inserted(input) \in Tables /\ disk' \in [Paths -> Files]
  BY <1>1, <1>3, InsertedIsTable, FilesOfPath DEF Inv
<1>5. Typed'
  BY <1>1, <1>3, <1>4 DEF Inv, Typed, InCase
<1> QED
  BY <1>1, <1>3, <1>4, <1>5 DEF Inv, NoVerdictYet, FreshFile, TruthFollowsInput, OpenTable, ClosedTable,
     NoFalseAlarm, DamageIsFound, InCase

\* The two parts of a file that has been written.
LEMMA FileFields ==
    ASSUME NEW f, NEW t, NEW u, f = [db |-> t, wal |-> u]
    PROVE  f.db = t /\ f.wal = u
OBVIOUS

\* A checkpoint stores the table, and says so if it does not.
LEMMA CheckpointStores ==
    ASSUME Inv, NEW here, NEW next, Checkpoint(here, next), InCase,
           here \in {"checkpoint", "checkpoint again"}, next \in {"delete", "read"}
    PROVE  /\ Typed' /\ verdict = "none"
           /\ disk'[Path'].wal = NoTable /\ disk'[Path'].db \in Tables
           /\ ~faulty' => disk'[Path'].db = truth
<1>1. /\ table \in Tables /\ (~faulty => table = truth) /\ verdict = "none"
  BY DEF Checkpoint, Inv, OpenTable, NoVerdictYet
<1>2. PICK t \in Tables :
        /\ disk' = Checkpointed(t)
        /\ \/ t = table /\ faulty' = faulty
           \/ faulty' = TRUE
  <2>1. CASE disk' = Checkpointed(table) /\ UNCHANGED faulty
    BY <1>1, <2>1
  <2>2. CASE \E t \in Damaged(table) : disk' = Checkpointed(t) /\ faulty' = TRUE
    BY <1>1, <2>2, DamagedAreTables
  <2> QED
    BY <2>1, <2>2 DEF Checkpoint
<1>3. Path' = Path /\ UNCHANGED <<pid, counter, input, verdict, truth>> /\ pc' = next /\ table' = NoTable
  BY DEF Checkpoint, Path
<1>4. disk' \in [Paths -> Files] /\ disk'[Path] = [db |-> t, wal |-> NoTable]
  BY <1>2, FilesOfPath DEF Inv
<1>5. faulty' \in BOOLEAN
  BY <1>2 DEF Inv, Typed
<1>6. Typed'
  BY <1>3, <1>4, <1>5 DEF Inv, Typed, InCase
<1>7. disk'[Path'] = [db |-> t, wal |-> NoTable]
  BY <1>3, <1>4
<1>8. t \in Tables /\ (~faulty' => t = truth)
  BY <1>1, <1>2
<1>9. disk'[Path'].wal = NoTable /\ disk'[Path'].db = t
  BY <1>7, FileFields, Zenon
<1> QED
  BY <1>1, <1>6, <1>8, <1>9

\* Both checkpoints leave a closed table.
LEMMA CheckpointsKeepInv ==
    ASSUME Inv, CheckpointRows \/ CheckpointChanges
    PROVE  Inv'
<1>1. CASE CheckpointRows
  <2>1. /\ Checkpoint("checkpoint", "delete") /\ InCase
        /\ pc = "checkpoint" /\ pc' = "delete" /\ UNCHANGED <<input, verdict, truth>>
    BY <1>1 DEF CheckpointRows, Checkpoint, InCase
  <2>2. /\ Typed' /\ verdict = "none"
        /\ disk'[Path'].wal = NoTable /\ disk'[Path'].db \in Tables
        /\ ~faulty' => disk'[Path'].db = truth
    BY <2>1, CheckpointStores
  <2> QED
    BY <2>1, <2>2 DEF Inv, NoVerdictYet, FreshFile, TruthFollowsInput, OpenTable, ClosedTable,
       NoFalseAlarm, DamageIsFound
<1>2. CASE CheckpointChanges
  <2>1. /\ Checkpoint("checkpoint again", "read") /\ InCase
        /\ pc = "checkpoint again" /\ pc' = "read" /\ UNCHANGED <<input, verdict, truth>>
    BY <1>2 DEF CheckpointChanges, Checkpoint, InCase
  <2>2. /\ Typed' /\ verdict = "none"
        /\ disk'[Path'].wal = NoTable /\ disk'[Path'].db \in Tables
        /\ ~faulty' => disk'[Path'].db = truth
    BY <2>1, CheckpointStores
  <2> QED
    BY <2>1, <2>2 DEF Inv, NoVerdictYet, FreshFile, TruthFollowsInput, OpenTable, ClosedTable,
       NoFalseAlarm, DamageIsFound
<1> QED
  BY <1>1, <1>2

\* Deleting does to the open table what it does to the true one.
LEMMA DeleteRowsKeepsInv ==
    ASSUME Inv, DeleteRows
    PROVE  Inv'
<1>1. /\ pc = "delete" /\ pc' = "update" /\ InCase /\ verdict = "none" /\ input \in Inputs
      /\ UNCHANGED <<pid, counter, input, verdict, faulty>>
  BY DEF DeleteRows, InCase, Inv, Typed, NoVerdictYet
<1>2. /\ disk[Path].db \in Tables /\ Opened(disk[Path]) = disk[Path].db
      /\ truth = Inserted(input) /\ (~faulty => disk[Path].db = truth)
  BY <1>1 DEF Inv, ClosedTable, TruthFollowsInput, Opened
<1>3. truth' = Kept(input) /\ truth' \in Tables
  BY <1>1, <1>2, KeptIsTable DEF DeleteRows, Kept
<1>4. table' \in Tables /\ (~faulty => table' = truth')
  BY <1>2, DeletedIsTable DEF DeleteRows
<1>5. disk' \in [Paths -> Files]
  BY <1>1, <1>4, FilesOfPath DEF DeleteRows, Inv, Typed
<1>6. Typed'
  BY <1>1, <1>3, <1>4, <1>5 DEF Inv, Typed, InCase
<1> QED
  BY <1>1, <1>3, <1>4, <1>6 DEF Inv, NoVerdictYet, FreshFile, TruthFollowsInput, OpenTable, ClosedTable,
     NoFalseAlarm, DamageIsFound

\* Updating makes the true table the expected one.
LEMMA UpdateRowsKeepsInv ==
    ASSUME Inv, UpdateRows
    PROVE  Inv'
<1>1. /\ pc = "update" /\ pc' = "checkpoint again" /\ InCase /\ verdict = "none" /\ input \in Inputs
      /\ UNCHANGED <<pid, counter, input, verdict, faulty>>
  BY DEF UpdateRows, InCase, Inv, Typed, NoVerdictYet
<1>2. table \in Tables /\ truth = Kept(input) /\ (~faulty => table = truth)
  BY <1>1 DEF Inv, OpenTable, TruthFollowsInput
<1>3. input.values # <<>> => input.values[1] \in Values
  <2>1. input.values \in Seq(Values)
    BY <1>1, StorageAssumption
  <2> QED
    BY <2>1
<1>4. truth' = Expected(input) /\ truth' \in Tables
  BY <1>1, <1>2, ExpectedIsTruth, ExpectedIsTable DEF UpdateRows
<1>5. table' \in Tables /\ (~faulty => table' = truth')
  BY <1>2, <1>3, UpdatedIsTable DEF UpdateRows
<1>6. disk' \in [Paths -> Files]
  BY <1>1, <1>5, FilesOfPath DEF UpdateRows, Inv, Typed
<1>7. Typed'
  BY <1>1, <1>4, <1>5, <1>6 DEF Inv, Typed, InCase
<1> QED
  BY <1>1, <1>4, <1>5, <1>7 DEF Inv, NoVerdictYet, FreshFile, TruthFollowsInput, OpenTable, ClosedTable,
     NoFalseAlarm, DamageIsFound

\* The verdict is what the comparison of the rows says, and that is what DuckDB did.
LEMMA ReadBackKeepsInv ==
    ASSUME Inv, ReadBack
    PROVE  Inv'
<1>1. /\ pc = "read" /\ pc' = "ended" /\ input \in Inputs /\ table' = NoTable
      /\ UNCHANGED <<pid, counter, input, disk, truth, faulty>>
      /\ verdict' = IF SameRows(Opened(disk[Path]), Expected(input)) THEN "pass" ELSE "fail"
  BY DEF ReadBack, EndCase, Inv, Typed
<1>2. /\ disk[Path].db \in Tables /\ Opened(disk[Path]) = disk[Path].db
      /\ truth = Expected(input) /\ (~faulty => disk[Path].db = truth)
  BY <1>1 DEF Inv, ClosedTable, TruthFollowsInput, Opened
<1>3. SameRows(Opened(disk[Path]), Expected(input)) <=> Opened(disk[Path]) = truth
  BY <1>1, <1>2, SameRowsIsEqual, ExpectedIsTable
<1>4. Path' = Path
  BY <1>1 DEF Path
<1>5. NoFalseAlarm' /\ DamageIsFound'
  BY <1>1, <1>2, <1>3, <1>4 DEF NoFalseAlarm, DamageIsFound
<1>6. Typed'
  BY <1>1 DEF Inv, Typed, InCase
<1> QED
  BY <1>1, <1>5, <1>6 DEF Inv, NoVerdictYet, FreshFile, TruthFollowsInput, OpenTable, ClosedTable

\* The file goes with the case.
LEMMA DestroyKeepsInv ==
    ASSUME Inv, Destroy
    PROVE  Inv'
<1>1. /\ pc = "ended" /\ pc' = "idle" /\ InCase /\ disk' = Cleanup(Path)
      /\ UNCHANGED <<pid, counter, input, table, verdict, truth, faulty>>
  BY DEF Destroy, InCase
<1>2. disk' \in [Paths -> Files]
  BY <1>1, PathType DEF Inv, Typed, Cleanup, Files
<1>3. Typed'
  BY <1>1, <1>2 DEF Inv, Typed, InCase
<1> QED
  BY <1>1, <1>3 DEF Inv, NoVerdictYet, FreshFile, TruthFollowsInput, OpenTable, ClosedTable,
     NoFalseAlarm, DamageIsFound, InCase

\* A process that is killed takes its case along and leaves the disk alone.
LEMMA ProcessGoneKeepsInv ==
    ASSUME Inv, ProcessGone
    PROVE  Inv'
<1>1. Typed'
  BY StorageAssumption DEF Inv, Typed, ProcessGone, NoInput, InCase
<1> QED
  BY <1>1 DEF ProcessGone, Inv, NoVerdictYet, FreshFile, TruthFollowsInput, OpenTable, ClosedTable,
     NoFalseAlarm, DamageIsFound, InCase

\* Every step keeps the invariant.
LEMMA NextInv == Inv /\ [Next]_vars => Inv'
<1> SUFFICES ASSUME Inv, [Next]_vars PROVE Inv'
  OBVIOUS
<1>1. CASE UNCHANGED vars
  <2>1. Path' = Path
    BY <1>1 DEF vars, Path
  <2>2. Typed'
    BY <1>1 DEF vars, Inv, Typed, InCase
  <2>3. NoVerdictYet' /\ NoFalseAlarm' /\ DamageIsFound'
    BY <1>1, <2>1 DEF vars, Inv, NoVerdictYet, NoFalseAlarm, DamageIsFound, InCase
  <2>4. TruthFollowsInput' /\ OpenTable'
    BY <1>1 DEF vars, Inv, TruthFollowsInput, OpenTable
  <2>5. FreshFile' /\ ClosedTable'
    BY <1>1, <2>1 DEF vars, Inv, FreshFile, ClosedTable
  <2> QED
    BY <2>2, <2>3, <2>4, <2>5 DEF Inv
<1>2. CASE Next
  BY <1>2, ProcessStartsKeepsInv, NewCaseKeepsInv, CreateTableKeepsInv, CheckpointsKeepInv,
     DeleteRowsKeepsInv, UpdateRowsKeepsInv, ReadBackKeepsInv, DestroyKeepsInv, ProcessGoneKeepsInv
     DEF Next
<1> QED
  BY <1>1, <1>2

\* So it always holds.
LEMMA Invariance == Spec => []Inv
BY InitInv, NextInv, PTL DEF Spec

\* A case of the storage property fails only if DuckDB damaged the file of that case,
\* whatever killed processes with the same pid left behind.
THEOREM AlarmsAreDuckDBs == Spec => []NoFalseAlarm
<1>1. Inv => NoFalseAlarm
  BY DEF Inv
<1> QED
  BY <1>1, Invariance, PTL

\* A case passes only if what was read back is the table the statements define.
THEOREM PassesAreTrue == Spec => []DamageIsFound
<1>1. Inv => DamageIsFound
  BY DEF Inv
<1> QED
  BY <1>1, Invariance, PTL
=============================================================================
