------------------------------- MODULE Storage -------------------------------
(***************************************************************************)
(* The property "write, checkpoint, reopen, read back" of prop_storage.cpp *)
(* in a process that may be killed at any point, leaving its scratch files *)
(* behind for a later process, which may have got the same pid.            *)
(*                                                                         *)
(* DuckDB is external: a file and its write-ahead log hold a table, the    *)
(* log is replayed when the file is opened, and a checkpoint moves it into *)
(* the file.  A faulty DuckDB damages a table when it stores it.           *)
(***************************************************************************)
EXTENDS Integers, Sequences

CONSTANTS
    Pids,        \* the process ids there are
    Inputs,      \* the cases that are generated: [values, do_delete, do_update]
    Values,      \* the values in them
    MaxRows,     \* how many at most
    NoTable,     \* what an absent file or log holds
    MaxStarts,   \* bound: how many processes there are, one after the other
    MaxCases     \* bound: how many cases a process runs

Tables == UNION {[ids -> Values] : ids \in SUBSET (0..MaxRows - 1)}

ASSUME StorageAssumption ==
    /\ Inputs \subseteq [values : Seq(Values), do_delete : BOOLEAN, do_update : BOOLEAN]
    /\ NoTable \notin Tables
    /\ Pids # {} /\ Inputs # {}
    /\ MaxRows \in Nat /\ \A c \in Inputs : Len(c.values) <= MaxRows
    /\ MaxCases \in Nat

VARIABLES
    pc,        \* where the process is: "down" when there is none
    pid,       \* getpid()
    starts,    \* how many processes have been started
    counter,   \* the static counter of ScopedDBFile
    input,     \* the case
    disk,      \* the scratch directory: what is in .db and .db.wal, per path
    table,     \* the table as the open database has it
    verdict,   \* what the case came to: "none", "pass" or "fail"
    truth,     \* (history) the table a faultless DuckDB would have
    faulty     \* (history) whether DuckDB damaged the file of this case

vars == <<pc, pid, starts, counter, input, disk, table, verdict, truth, faulty>>

Paths == Pids \X (0..MaxCases - 1)
Path == <<pid, counter - 1>>

NoInput == CHOOSE c \in Inputs : TRUE

Init ==
    /\ pc = "down"
    /\ pid = CHOOSE p \in Pids : TRUE
    /\ starts = 0
    /\ counter = 0
    /\ input = NoInput
    /\ disk = [p \in Paths |-> [db |-> NoTable, wal |-> NoTable]]
    /\ table = NoTable
    /\ verdict = "none"
    /\ truth = NoTable
    /\ faulty = FALSE

-----------------------------------------------------------------------------
\* (external) The database in a file, after its log has been replayed.
Opened(file) == IF file.wal # NoTable THEN file.wal ELSE file.db

\* (external) A commit goes to the log; a checkpoint to the file.
Committed(t) == [disk EXCEPT ![Path].wal = t]
Checkpointed(t) == [disk EXCEPT ![Path] = [db |-> t, wal |-> NoTable]]

\* Mutant: only the database file is removed.
CleanupKeepsLog(path) == [disk EXCEPT ![path].db = NoTable]

Cleanup(path) == [disk EXCEPT ![path] = [db |-> NoTable, wal |-> NoTable]]

\* Rows i of values, with ids from 0.
Inserted(c) == [i \in 0..Len(c.values) - 1 |-> c.values[i + 1]]

\* (external) DELETE FROM t WHERE id % 3 = 1.
Deleted(t) == [i \in {i \in DOMAIN t : i % 3 # 1} |-> t[i]]

\* (external) UPDATE t SET v = $1 WHERE id % 2 = 0.
Updated(t, v) == [i \in DOMAIN t |-> IF i % 2 = 0 THEN v ELSE t[i]]

\* (external) What a faulty DuckDB makes of a table: a row or a value is wrong.
Damaged(t) ==
    {[i \in DOMAIN t \ {j} |-> t[i]] : j \in DOMAIN t}
    \cup {[t EXCEPT ![j] = v] : j \in DOMAIN t, v \in Values}

-----------------------------------------------------------------------------
\* A process starts; its static counter is 0.
ProcessStarts ==
    /\ pc = "down"
    /\ starts < MaxStarts
    /\ starts' = starts + 1
    /\ pid' \in Pids
    /\ counter' = 0
    /\ pc' = "idle"
    /\ UNCHANGED <<input, disk, table, verdict, truth, faulty>>

\* A case is generated, and its ScopedDBFile constructed.
NewCase ==
    /\ pc = "idle"
    /\ counter < MaxCases
    /\ input' \in Inputs
    /\ counter' = counter + 1
    /\ disk' = Cleanup(<<pid, counter>>)
    /\ verdict' = "none"
    /\ truth' = NoTable
    /\ faulty' = FALSE
    /\ pc' = "create"
    /\ UNCHANGED <<pid, starts, table>>

\* The case ends, and the destructor of its ScopedDBFile runs.
EndCase(result) ==
    /\ verdict' = result
    /\ table' = NoTable
    /\ pc' = "ended"

\* CREATE TABLE and the rows, committed.
CreateTable ==
    /\ pc = "create"
    /\ IF Opened(disk[Path]) # NoTable
       THEN EndCase("fail") /\ UNCHANGED <<disk, truth>>
       ELSE /\ table' = Inserted(input)
            /\ truth' = Inserted(input)
            /\ disk' = Committed(table')
            /\ pc' = "checkpoint"
            /\ UNCHANGED verdict
    /\ UNCHANGED <<pid, starts, counter, input, faulty>>

\* CHECKPOINT, and the database is closed; a faulty one damages what it stores.
Checkpoint(here, next) ==
    /\ pc = here
    /\ \/ disk' = Checkpointed(table) /\ UNCHANGED faulty
       \/ \E t \in Damaged(table) : disk' = Checkpointed(t) /\ faulty' = TRUE
    /\ table' = NoTable
    /\ pc' = next
    /\ UNCHANGED <<pid, starts, counter, input, verdict, truth>>

CheckpointRows == Checkpoint("checkpoint", "delete")

\* The database is opened again; every third row is deleted, if there are any.
DeleteRows ==
    /\ pc = "delete"
    /\ LET doIt == input.do_delete /\ input.values # <<>>
       IN /\ table' = IF doIt THEN Deleted(Opened(disk[Path])) ELSE Opened(disk[Path])
          /\ truth' = IF doIt THEN Deleted(truth) ELSE truth
          /\ disk' = IF doIt THEN Committed(table') ELSE disk
    /\ pc' = "update"
    /\ UNCHANGED <<pid, starts, counter, input, verdict, faulty>>

\* Every second remaining row is overwritten with the first generated value.
UpdateRows ==
    /\ pc = "update"
    /\ LET doIt == input.do_update /\ input.values # <<>>
       IN /\ table' = IF doIt THEN Updated(table, input.values[1]) ELSE table
          /\ truth' = IF doIt THEN Updated(truth, input.values[1]) ELSE truth
          /\ disk' = IF doIt THEN Committed(table') ELSE disk
    /\ pc' = "checkpoint again"
    /\ UNCHANGED <<pid, starts, counter, input, verdict, faulty>>

CheckpointChanges == Checkpoint("checkpoint again", "read")

\* The rows the property expects, from the original values.
Expected(c) ==
    [i \in {i \in 0..Len(c.values) - 1 : ~(c.do_delete /\ i % 3 = 1)} |->
        IF c.do_update /\ i % 2 = 0 THEN c.values[1] ELSE c.values[i + 1]]

\* Mutant: the rows that are found are compared, but not counted.
SameRowsUncounted(t, u) == \A i \in DOMAIN t \cap DOMAIN u : t[i] = u[i]

\* Row count, ids and values are compared.
SameRows(t, u) == DOMAIN t = DOMAIN u /\ \A i \in DOMAIN t : t[i] = u[i]

ReadBack ==
    /\ pc = "read"
    /\ EndCase(IF SameRows(Opened(disk[Path]), Expected(input)) THEN "pass" ELSE "fail")
    /\ UNCHANGED <<pid, starts, counter, input, disk, truth, faulty>>

Destroy ==
    /\ pc = "ended"
    /\ disk' = Cleanup(Path)
    /\ pc' = "idle"
    /\ UNCHANGED <<pid, starts, counter, input, table, verdict, truth, faulty>>

\* (external) The process ends, or is killed wherever it is.
ProcessGone ==
    /\ pc # "down"
    /\ pc' = "down"
    /\ table' = NoTable
    /\ verdict' = "none"
    /\ truth' = NoTable
    /\ faulty' = FALSE
    /\ input' = NoInput
    /\ UNCHANGED <<pid, starts, counter, disk>>

Next ==
    \/ ProcessStarts
    \/ NewCase
    \/ CreateTable
    \/ CheckpointRows
    \/ DeleteRows
    \/ UpdateRows
    \/ CheckpointChanges
    \/ ReadBack
    \/ Destroy
    \/ ProcessGone

Spec == Init /\ [][Next]_vars

-----------------------------------------------------------------------------
\* A finding is DuckDB's: a case does not fail unless DuckDB damaged its file,
\* whatever earlier cases and killed processes left in the scratch directory and
\* in whichever order rows are deleted and updated.
NoFalseAlarm == verdict = "fail" => faulty

\* A case passes only if DuckDB returned the table the statements define, so a
\* damage that survives to the end is always found.
DamageIsFound == pc = "ended" /\ verdict = "pass" => Opened(disk[Path]) = truth
=============================================================================
