---------------------------- MODULE RunProperties ----------------------------
(***************************************************************************)
(* scripts/run_properties.sh with crash_record.py and                      *)
(* annotate_sanitizer.py: one DuckDB process per property copies the rows  *)
(* of fuzzing_check() to a JSON file, and the script makes a report of     *)
(* whatever the process left behind.  The script itself can be killed and  *)
(* run again over the same output directory.                               *)
(***************************************************************************)
EXTENDS Naturals, Sequences, FiniteSets

CONSTANTS
    Entry,        \* the registered properties
    Expectation,  \* [Entry -> {"pass", "known_fail"}]
    Listings,     \* what fuzzing_properties() may list, sequences of entries
    NoName,       \* an entry whose suite or property is empty
    MaxListed,    \* the length of the longest listing
    MaxRuns       \* bound: how often the script is started

Verdicts == {"pass", "fail", "known_fail", "fixed", "gave_up", "skipped"}
Statuses == Verdicts \cup {"crash", "sanitizer"}

ASSUME EntryAssumption ==
    /\ Expectation \in [Entry -> {"pass", "known_fail"}]
    /\ NoName \notin Entry
    /\ Listings \subseteq Seq(Entry \cup {NoName})
    /\ MaxListed \in Nat /\ MaxRuns \in Nat
    /\ \A l \in Listings : Len(l) <= MaxListed

\* The statuses RunProperty reports for a property.
VerdictsOf(e) ==
    {"fail", "gave_up", "skipped"} \cup
    (IF Expectation[e] = "known_fail" THEN {"known_fail", "fixed"} ELSE {"pass"})

VARIABLES
    phase,    \* where the script is
    run,      \* how many times it has been started
    listing,  \* PROPERTIES
    index,    \* the property being run
    status,   \* the exit status the script is heading for
    outDir,   \* the JSON file of each index, kept from run to run
    log,      \* whether the log of the current process holds a diagnostic
    process,  \* how its process ended: "none", "lived" or "died"
    verdict,  \* (history) what fuzzing_check() found, per index of this run
    fate      \* (history) how the process of each collected index of this run ended

vars == <<phase, run, listing, index, status, outDir, log, process, verdict, fate>>

Slugs == 1..MaxListed

\* A result file: "absent", "empty", "partial" (not valid JSON) or "rows", then with one row.
Absent == [state |-> "absent", entry |-> NoName, status |-> "pass", run |-> 0]
Empty == [Absent EXCEPT !.state = "empty"]
Partial == [Absent EXCEPT !.state = "partial"]
Rows(e, s) == [state |-> "rows", entry |-> e, status |-> s, run |-> run]

Init ==
    /\ phase = "stopped"
    /\ run = 0
    /\ listing = <<>>
    /\ index = 0
    /\ status = 0
    /\ outDir = [i \in Slugs |-> Absent]
    /\ log = FALSE
    /\ process = "none"
    /\ verdict = [i \in Slugs |-> "none"]
    /\ fate = [i \in Slugs |-> "none"]

-----------------------------------------------------------------------------
Current == listing[index]
Json == outDir[index]
KnownFail == Expectation[Current] = "known_fail"

\* The script starts and lists the properties.  The binary does not change.
Start ==
    /\ phase \in {"stopped", "exited"}
    /\ run < MaxRuns
    /\ run' = run + 1
    /\ listing' \in IF run = 0 THEN Listings ELSE {listing}
    /\ phase' = "loop"
    /\ index' = 0
    /\ status' = 0
    /\ verdict' = [i \in Slugs |-> "none"]
    /\ fate' = [i \in Slugs |-> "none"]
    /\ UNCHANGED <<outDir, log, process>>

\* No properties, or an entry that cannot be parsed.
ListingError ==
    /\ phase = "loop"
    /\ \/ listing = <<>>
       \/ index < Len(listing) /\ listing[index + 1] = NoName
    /\ phase' = "exited"
    /\ status' = 1
    /\ UNCHANGED <<run, listing, index, outDir, log, process, verdict, fate>>

\* Mutant of Launch: the file of an earlier run is left where it is.
LaunchKeepsFile ==
    /\ phase = "loop"
    /\ index < Len(listing)
    /\ listing[index + 1] # NoName
    /\ index' = index + 1
    /\ log' = FALSE
    /\ process' = "none"
    /\ phase' = "running"
    /\ UNCHANGED <<run, listing, status, outDir, verdict, fate>>

\* Mutant of Launch: the file name is made before the index is increased.
LaunchNamesFileEarly ==
    /\ phase = "loop"
    /\ index < Len(listing)
    /\ listing[index + 1] # NoName
    /\ index' = index + 1
    /\ outDir' = [i \in Slugs |-> IF i \in {index, index + 1} THEN Absent ELSE outDir[i]]
    /\ log' = FALSE
    /\ process' = "none"
    /\ phase' = "running"
    /\ UNCHANGED <<run, listing, status, verdict, fate>>

\* rm -f "$json", then the DuckDB process of the next property with a new log.
Launch ==
    /\ phase = "loop"
    /\ index < Len(listing)
    /\ listing[index + 1] # NoName
    /\ index' = index + 1
    /\ outDir' = [outDir EXCEPT ![index + 1] = Absent]
    /\ log' = FALSE
    /\ process' = "none"
    /\ phase' = "running"
    /\ UNCHANGED <<run, listing, status, verdict, fate>>

-----------------------------------------------------------------------------
\* (external) The process creates its file,
CreateFile ==
    /\ phase = "running"
    /\ Json = Absent
    /\ outDir' = [outDir EXCEPT ![index] = Empty]
    /\ UNCHANGED <<phase, run, listing, index, status, log, process, verdict, fate>>

\* writes some of it,
WriteSome ==
    /\ phase = "running"
    /\ Json = Empty
    /\ outDir' = [outDir EXCEPT ![index] = Partial]
    /\ UNCHANGED <<phase, run, listing, index, status, log, process, verdict, fate>>

\* and completes it with the row of its property.
WriteRow ==
    /\ phase = "running"
    /\ Json = Partial
    /\ \E v \in VerdictsOf(Current) :
         /\ verdict' = [verdict EXCEPT ![index] = v]
         /\ outDir' = [outDir EXCEPT ![index] = Rows(Current, v)]
    /\ UNCHANGED <<phase, run, listing, index, status, log, process, fate>>

\* (external) A sanitizer prints a diagnostic and the process goes on.
Diagnose ==
    /\ phase = "running"
    /\ ~log
    /\ log' = TRUE
    /\ UNCHANGED <<phase, run, listing, index, status, outDir, process, verdict, fate>>

ProcessEnds(how) ==
    /\ phase = "running"
    /\ phase' = "ended"
    /\ process' = how
    /\ UNCHANGED <<run, listing, index, status, outDir, log, verdict, fate>>

\* (external) The process exits normally once its file is complete.
ProcessExits == ProcessEnds("lived") /\ Json.state = "rows"

\* (external) The process aborts or its query fails, whatever it has written by then.
ProcessDies == ProcessEnds("died")

\* Mutant of ProcessKilled: a signal the process does not heed.
ProcessKilledNever == phase = "stopped" /\ ProcessEnds("died")

\* The timer of timeout --signal=KILL expires.
ProcessKilled == ProcessEnds("died")

-----------------------------------------------------------------------------
\* Mutant of HasOutput: [ -e "$json" ], the file exists.
HasOutputIfCreated == Json.state # "absent"

\* [ -s "$json" ]: the file exists and is not empty.
HasOutput == Json.state \in {"partial", "rows"}

\* Mutant of StatusAfterNews: a known failure clears it.
StatusAfterNewsClears == IF KnownFail THEN 0 ELSE 1
\* What the exit status becomes when the current property is news.
StatusAfterNews == IF KnownFail THEN status ELSE 1

\* The current property is dealt with.
Collected ==
    /\ phase = "ended"
    /\ phase' = "loop"
    /\ fate' = [fate EXCEPT ![index] = process]
    /\ UNCHANGED <<run, listing, index, log, process, verdict>>

\* The file is taken as it is; the exit status of the process is not looked at.
Keep ==
    /\ Collected
    /\ HasOutput
    /\ ~log
    /\ UNCHANGED <<status, outDir>>

\* annotate_sanitizer.py re-stamps every row; on a torn file it fails and
\* nothing is re-stamped, but the script goes on.
Annotate ==
    /\ Collected
    /\ HasOutput
    /\ log
    /\ outDir' = IF Json.state = "partial" THEN outDir
                 ELSE [outDir EXCEPT ![index].status = IF KnownFail THEN "known_fail" ELSE "sanitizer"]
    /\ status' = StatusAfterNews

\* crash_record.py writes a row in the name of the process.
RecordCrash ==
    /\ Collected
    /\ ~HasOutput
    /\ outDir' = [outDir EXCEPT ![index] = Rows(Current, IF KnownFail THEN "known_fail" ELSE "crash")]
    /\ status' = StatusAfterNews

Exit ==
    /\ phase = "loop"
    /\ listing # <<>>
    /\ index = Len(listing)
    /\ phase' = "exited"
    /\ UNCHANGED <<run, listing, index, status, outDir, log, process, verdict, fate>>

\* (external) The script is killed, and its process with it.
ScriptKilled ==
    /\ phase \in {"loop", "running", "ended"}
    /\ phase' = "stopped"
    /\ UNCHANGED <<run, listing, index, status, outDir, log, process, verdict, fate>>

DuckDB == CreateFile \/ WriteSome \/ WriteRow \/ Diagnose \/ ProcessExits \/ ProcessDies

Script == ListingError \/ Launch \/ Keep \/ Annotate \/ RecordCrash \/ Exit

Next == Start \/ Script \/ DuckDB \/ ProcessKilled \/ ScriptKilled

\* The shell goes on to its next command, and the timer of timeout expires;
\* nothing makes DuckDB do anything.
Fairness == WF_vars(Script) /\ WF_vars(ProcessKilled)

Spec == Init /\ [][Next]_vars /\ Fairness

-----------------------------------------------------------------------------
\* What a run may report of an entry, "torn" being a file that is not valid JSON.
ReportsOf(e) ==
    VerdictsOf(e) \cup {"torn"} \cup
    (IF Expectation[e] = "known_fail" THEN {} ELSE {"crash", "sanitizer"})

\* The reports on the properties of this run that have been dealt with.
Reported == {i \in Slugs : fate[i] # "none"}
ReportOn(i) ==
    CASE outDir[i].state = "rows" -> outDir[i].status
      [] outDir[i].state = "partial" -> "torn"
      [] OTHER -> "none"

\* Attribution: once a property has been dealt with its file is its own and of
\* this run, never one an earlier run left in the directory, and a process that
\* lived has its row there, as fuzzing_check() gave it unless a sanitizer spoke.
ReportsAreFresh ==
    \A i \in Reported :
        /\ outDir[i].state \in {"partial", "rows"}
        /\ outDir[i].state = "rows" =>
              outDir[i].entry = listing[i] /\ outDir[i].run = run
        /\ fate[i] = "lived" =>
              outDir[i].state = "rows" /\ outDir[i].status \in {verdict[i], "sanitizer", "known_fail"}

\* "The process died before it could report.  That is a finding": unless it left
\* a torn file, a process that died before its row was complete is reported as
\* crashed, or as failing as expected, and never by a verdict.
SilentDeathIsReported ==
    \A i \in Reported :
        fate[i] = "died" /\ verdict[i] = "none" =>
            ReportOn(i) \in {"torn", IF Expectation[listing[i]] = "known_fail" THEN "known_fail" ELSE "crash"}

\* The exit status is news and nothing but news.  A crash or a sanitizer diagnostic sets
\* it, whatever comes later in the run; and a probe for an open issue may blow up in
\* every way without doing so: it is never reported as crashed or sanitized, and a
\* complete run whose status is 1 had some other property whose process died or printed
\* a diagnostic.
StatusIsNews ==
    /\ (\E i \in Reported : ReportOn(i) \in {"crash", "sanitizer"}) => status = 1
    /\ \A i \in Reported :
          Expectation[listing[i]] = "known_fail" => ReportOn(i) \notin {"crash", "sanitizer"}
    /\ status = 1 /\ NoName \notin {listing[i] : i \in 1..Len(listing)} /\ listing # <<>> =>
          \E i \in Reported :
             /\ Expectation[listing[i]] # "known_fail"
             /\ ReportOn(i) \in {"crash", "sanitizer", "torn"}

\* A run that is not killed ends, however long its properties would take.
RunEnds == phase = "loop" ~> phase \in {"exited", "stopped"}

\* The script keeps the promise of SuiteReport.
Report ==
    INSTANCE SuiteReport WITH
        Entry <- Entry \cup {NoName},
        EntryReports <- [e \in Entry \cup {NoName} |-> IF e = NoName THEN {} ELSE ReportsOf(e)],
        reports <- [i \in 1..Cardinality(Reported) |-> ReportOn(i)],
        ended <- CASE phase = "stopped" -> "aborted"
                   [] phase = "exited" -> IF listing # <<>> /\ Cardinality(Reported) = Len(listing)
                                          THEN "complete" ELSE "aborted"
                   [] OTHER -> "no"

ImplementsSuiteReport == Report!Spec

-----------------------------------------------------------------------------
\* README.md:42: "sanitizer | the property passed but ASan/UBSan reported a diagnostic".
SanitizerMeansPassed ==
    \A i \in Reported : ReportOn(i) = "sanitizer" => verdict[i] = "pass"

\* README.md:128: "A property whose process dies is recorded as `crash`", a probe
\* for an open issue as the known failure it is.
DeadProcessIsRecorded ==
    \A i \in Reported : fate[i] = "died" => ReportOn(i) \in {"crash", "known_fail"}
=============================================================================
