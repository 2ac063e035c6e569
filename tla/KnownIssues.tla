----------------------------- MODULE KnownIssues -----------------------------
(***************************************************************************)
(* The probes of the suite "known": each asks DuckDB one thing an issue is *)
(* about, on a database of its own, and its verdict is to tell whether the *)
(* issue is open in this version.  A probe compares the cells of one row   *)
(* with what is right, or wants an error that leaves the database usable.  *)
(* It is not asked if it needs an extension that is not loaded, or if the  *)
(* database or RapidCheck fails before.  No probe generates or discards,   *)
(* so RapidCheck never gives one up; it takes an exception in the body for *)
(* a failure of the property.                                              *)
(*                                                                         *)
(* DuckDB is external.  Where an issue is closed it does what is right,    *)
(* where it is open anything else: another value or type, another number   *)
(* of rows, an error, an internal error (which invalidates the database),  *)
(* or, in a sanitized build, an abort.                                     *)
(***************************************************************************)
EXTENDS OpenIssues, Integers, Sequences

CONSTANTS
    Probes      \* [form, issue, expectation, cells, requires]: whether it requires an extension

Expectations == {"pass", "known_fail"}
Forms == {"scalar", "row", "literal", "recoverable"}

ASSUME ProbesAssumption ==
    \A p \in Probes :
        /\ p.form \in Forms /\ p.expectation \in Expectations /\ p.requires \in BOOLEAN
        /\ p.cells \in 1..3 /\ (p.form = "scalar" => p.cells <= 2)

VARIABLES
    pc,        \* "idle", "open", "ask", "health" or "abort"
    probe,     \* the probe that is run
    db,        \* "usable" or "invalid"
    status,    \* what fuzzing_check or crash_record.py reports: "none" before
    asked      \* (history) whether DuckDB has replied to the probe

vars == <<open, pc, probe, db, status, asked>>

Init ==
    /\ open \in Versions
    /\ pc = "idle"
    /\ probe = CHOOSE p \in Probes : TRUE
    /\ db = "usable"
    /\ status = "none"
    /\ asked = FALSE

\* (external) A reply; cells: which of the cells of the row are right.
Reply(kind, rows, cells) == [kind |-> kind, rows |-> rows, cells |-> cells]

RightReply(p) ==
    IF p.form = "recoverable" THEN Reply("error", 0, <<>>)
    ELSE Reply("rows", 1, [i \in 1..p.cells |-> TRUE])

Replies(p) ==
    [kind : {"error", "internal error", "abort"}, rows : {0}, cells : {<<>>}] \cup
    [kind : {"rows"}, rows : 0..2, cells : [1..p.cells -> BOOLEAN]]

Answers(p) == IF p.issue \in open THEN Replies(p) \ {RightReply(p)} ELSE {RightReply(p)}

HasError(reply) == reply.kind \in {"error", "internal error"}

-----------------------------------------------------------------------------
\* RunProperty makes a new database, ...
Start ==
    /\ pc = "idle"
    /\ probe' \in Probes
    /\ db' = "usable"
    /\ status' = "none"
    /\ asked' = FALSE
    /\ pc' = "open"
    /\ UNCHANGED open

\* The status of a probe that held, or did not.
Ends(held) ==
    /\ status' = IF held THEN IF probe.expectation = "known_fail" THEN "fixed" ELSE "pass"
                         ELSE IF probe.expectation = "known_fail" THEN "known_fail" ELSE "fail"
    /\ pc' = "idle"

\* ... which may raise an exception.
OpenFails ==
    /\ pc = "open"
    /\ Ends(FALSE)
    /\ UNCHANGED <<open, probe, db, asked>>

\* The extension is not loaded, or DuckDB does not say that it is.
SkipProbe ==
    /\ pc = "open"
    /\ probe.requires
    /\ status' = "skipped"
    /\ pc' = "idle"
    /\ UNCHANGED <<open, probe, db, asked>>

\* The body is run once.
Opened ==
    /\ pc = "open"
    /\ pc' = "ask"
    /\ UNCHANGED <<open, probe, db, status, asked>>

\* Any other result of RapidCheck: "fail", whatever is expected.
EngineError ==
    /\ pc = "ask"
    /\ status' = "fail"
    /\ pc' = "idle"
    /\ UNCHANGED <<open, probe, db, asked>>

Executed(reply) ==
    db' = IF reply.kind = "internal error" THEN "invalid" ELSE db

\* RequireScalar, or its like for a row, and the assertions on what it returns: all cells
\* (of a literal its type and its value).
IsRight(reply) ==
    ~HasError(reply) /\ reply.rows = 1 /\ \A i \in DOMAIN reply.cells : reply.cells[i]

AskForCells ==
    /\ pc = "ask"
    /\ probe.form # "recoverable"
    /\ asked' = TRUE
    /\ \E reply \in Answers(probe) :
        /\ reply.kind # "abort"
        /\ Executed(reply)
        /\ Ends(IsRight(reply))
    /\ UNCHANGED <<open, probe>>

\* Mutant: an error is enough.
AskForAnyError ==
    /\ pc = "ask"
    /\ probe.form = "recoverable"
    /\ asked' = TRUE
    /\ \E reply \in Answers(probe) :
        /\ reply.kind # "abort"
        /\ Executed(reply)
        /\ Ends(HasError(reply))
    /\ UNCHANGED <<open, probe>>

\* RequireRecoverableError: an error, ...
AskForError ==
    /\ pc = "ask"
    /\ probe.form = "recoverable"
    /\ asked' = TRUE
    /\ \E reply \in Answers(probe) :
        /\ reply.kind # "abort"
        /\ Executed(reply)
        /\ IF HasError(reply) THEN pc' = "health" /\ UNCHANGED status ELSE Ends(FALSE)
    /\ UNCHANGED <<open, probe>>

\* ... and SELECT 42 still answers 42.
CheckHealth ==
    /\ pc = "health"
    /\ Ends(db = "usable")
    /\ UNCHANGED <<open, probe, db, asked>>

\* (external) A sanitized DuckDB aborts on undefined behaviour.
Abort ==
    /\ pc = "ask"
    /\ \E reply \in Answers(probe) : reply.kind = "abort"
    /\ pc' = "abort"
    /\ asked' = TRUE
    /\ UNCHANGED <<open, probe, db, status>>

\* crash_record.py
RecordCrash ==
    /\ pc = "abort"
    /\ status' = IF probe.expectation = "known_fail" THEN "known_fail" ELSE "crash"
    /\ pc' = "idle"
    /\ UNCHANGED <<open, probe, db, asked>>

Next ==
    \/ Start
    \/ OpenFails
    \/ SkipProbe
    \/ Opened
    \/ EngineError
    \/ AskForCells
    \/ AskForError
    \/ CheckHealth
    \/ Abort
    \/ RecordCrash

Spec == Init /\ [][Next]_vars

-----------------------------------------------------------------------------
\* The verdict of a probe tells whether its issue is open, whatever an open issue makes
\* DuckDB do: an error that takes the database down is not the error that was asked
\* for, one right cell is not a right row, and a process that died has a verdict too.
\* No probe is good that DuckDB has not answered, one that it has is never skipped, and
\* it is news (a failure or a crash) if and only if an issue that was fixed is back.
VerdictTellsIssue ==
    pc = "idle" /\ status # "none" =>
        /\ status \in {"pass", "fixed"} <=> asked /\ probe.issue \notin open
        /\ status = "skipped" => ~asked /\ probe.requires
        /\ asked => (status \in {"fail", "crash"} <=> probe.expectation = "pass" /\ probe.issue \in open)
=============================================================================
