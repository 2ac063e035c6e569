------------------------------- MODULE Triage -------------------------------
(***************************************************************************)
(* scripts/triage.py: turns the results of a property run into at most one *)
(* open GitHub issue per finding.  It looks up the open issues once and    *)
(* then comments on or creates one issue per finding, in the order of the  *)
(* result files; any gh call that fails ends it.  Each workflow run (a job *)
(* here) has a triage of its own; the issues are what they share.          *)
(***************************************************************************)
EXTENDS Naturals, FiniteSets

CONSTANTS
    Jobs,           \* the workflow runs that can exist at a time
    Fingerprints,   \* suite/property of each registered property
    Position,       \* where its result file comes in the order of the names
    KnownFail,      \* the properties that are expected to fail: probes of open bugs
    ListLimit       \* gh issue list --limit

\* "pass" stands for the statuses triage.py only counts: fixed, gave_up and
\* skipped are treated as it is.
Statuses == {"pass", "known_fail", "fail", "crash", "sanitizer"}
\* What a result file can hold: a row, nothing that is JSON (or there is no file),
\* or a part of a file that was cut inside a character of several bytes.
Contents == Statuses \cup {"none", "undecodable"}
\* Mutant: every status but "pass" is a finding.
FindingStatusesAllButPass == Statuses \ {"pass"}
FindingStatuses == {"fail", "crash", "sanitizer"}

ASSUME TriageAssumption ==
    /\ IsFiniteSet(Fingerprints)
    /\ Position \in [Fingerprints -> Nat]
    /\ \A f, g \in Fingerprints : Position[f] = Position[g] => f = g
    /\ KnownFail \subseteq Fingerprints
    /\ ListLimit \in Nat
\* Only the nightly run uses the label, so its open issues fit the limit.
ASSUME LimitAssumption == Cardinality(Fingerprints) <= ListLimit

VARIABLES
    at,          \* where the triage of a job is
    reports,     \* the result directory: what there is of each property
    fileIssues,  \* --file-issues
    todo,        \* the findings that are still to be filed
    known,       \* the fingerprints existing_issues() found
    exitCode,    \* what the triage of a job exited with
    filed,       \* (history) whether it went through all its findings
    closed,      \* (history) the issues people closed since a job listed them
    open,        \* (external) the number of open issues of a fingerprint
    label,       \* (external) whether the label exists
    calm         \* (external) whether gh works and triages are left to finish

triageVars == <<at, reports, fileIssues, todo, known, exitCode, filed, closed, open, label, calm>>

\* load_results skips a file that is not valid JSON; but what is not even valid
\* UTF-8 ends the triage, since read_text raises UnicodeDecodeError.
Readable(j) == \A f \in Fingerprints : reports[j][f] # "undecodable"
Rows(j) == {f \in Fingerprints : reports[j][f] \in Statuses}
Findings(j) == {f \in Rows(j) : reports[j][f] \in FindingStatuses}

NoReports == [f \in Fingerprints |-> "none"]

TriageInit ==
    /\ at = [j \in Jobs |-> "off"]
    /\ reports = [j \in Jobs |-> NoReports]
    /\ fileIssues = [j \in Jobs |-> FALSE]
    /\ todo = [j \in Jobs |-> {}]
    /\ known = [j \in Jobs |-> {}]
    /\ exitCode = [j \in Jobs |-> 0]
    /\ filed = [j \in Jobs |-> FALSE]
    /\ closed = [j \in Jobs |-> {}]
    /\ open = [f \in Fingerprints |-> 0]
    /\ label = FALSE
    /\ calm = FALSE

-----------------------------------------------------------------------------
Exits(j, code) ==
    /\ at' = [at EXCEPT ![j] = "exited"]
    /\ exitCode' = [exitCode EXCEPT ![j] = code]

\* main() up to file_issues().
Load(j) ==
    /\ at[j] = "start"
    /\ IF ~Readable(j) THEN Exits(j, 1)
       ELSE IF Rows(j) = {} THEN Exits(j, 2)
       ELSE IF Findings(j) = {} THEN Exits(j, 0)
       ELSE IF ~fileIssues[j] THEN Exits(j, 1)
       ELSE at' = [at EXCEPT ![j] = "label"] /\ UNCHANGED exitCode
    /\ todo' = [todo EXCEPT ![j] = Findings(j)]
    /\ UNCHANGED <<reports, fileIssues, known, filed, closed, open, label, calm>>

\* Mutant: the label is not created.
EnsureLabelNever(j) ==
    /\ at[j] = "label"
    /\ at' = [at EXCEPT ![j] = "list"]
    /\ UNCHANGED <<reports, fileIssues, todo, known, exitCode, filed, closed, open, label, calm>>

\* ensure_label does not mind if it fails, which it also does when the label exists.
EnsureLabel(j) ==
    /\ at[j] = "label"
    /\ label' \in IF calm THEN {TRUE} ELSE {label, TRUE}
    /\ at' = [at EXCEPT ![j] = "list"]
    /\ UNCHANGED <<reports, fileIssues, todo, known, exitCode, filed, closed, open, calm>>

OpenFingerprints == {f \in Fingerprints : open[f] > 0}

\* Mutant: --state all, which finds issues that are closed as well.
PagesOfAnyState == {page \in SUBSET Fingerprints : OpenFingerprints \subseteq page}

\* The fingerprints on one page of open issues: all of them, if they fit.
Pages ==
    IF Cardinality(OpenFingerprints) <= ListLimit THEN {OpenFingerprints}
    ELSE {page \in SUBSET OpenFingerprints : Cardinality(page) = ListLimit}

ExistingIssues(j) ==
    /\ at[j] = "list"
    /\ \E page \in Pages : known' = [known EXCEPT ![j] = page]
    /\ closed' = [closed EXCEPT ![j] = {}]
    /\ at' = [at EXCEPT ![j] = "file"]
    /\ UNCHANGED <<reports, fileIssues, todo, exitCode, filed, open, label, calm>>

\* The finding whose result file comes next.
IsNext(j, f) ==
    /\ at[j] = "file"
    /\ f \in todo[j]
    /\ \A g \in todo[j] : Position[f] <= Position[g]

\* gh issue comment: nothing that matters here changes on GitHub.
Comment(j, f) ==
    /\ IsNext(j, f)
    /\ f \in known[j]
    /\ todo' = [todo EXCEPT ![j] = @ \ {f}]
    /\ UNCHANGED <<at, reports, fileIssues, known, exitCode, filed, closed, open, label, calm>>

\* gh issue create fails unless the label exists.
Create(j, f) ==
    /\ IsNext(j, f)
    /\ f \notin known[j]
    /\ label
    /\ open' = [open EXCEPT ![f] = @ + 1]
    /\ todo' = [todo EXCEPT ![j] = @ \ {f}]
    /\ UNCHANGED <<at, reports, fileIssues, known, exitCode, filed, closed, label, calm>>

\* Mutant: run_gh is called with check=False.
GhFailsUnnoticed(j) ==
    /\ at[j] = "file"
    /\ ~calm \/ ~label
    /\ \E f \in Fingerprints : IsNext(j, f) /\ todo' = [todo EXCEPT ![j] = @ \ {f}]
    /\ UNCHANGED <<at, reports, fileIssues, known, exitCode, filed, closed, open, label, calm>>

\* run_gh raises RuntimeError: a call of gh failed, or the label is missing.
GhFails(j) ==
    /\ at[j] \in {"list", "file"}
    /\ at[j] = "file" => todo[j] # {}
    /\ ~calm \/ (at[j] = "file" /\ ~label)
    /\ Exits(j, 1)
    /\ UNCHANGED <<reports, fileIssues, todo, known, filed, closed, open, label, calm>>

\* The issue is created but the answer of GitHub is lost, so gh fails.
CreateAnswerLost(j, f) ==
    /\ ~calm
    /\ IsNext(j, f)
    /\ f \notin known[j]
    /\ label
    /\ open' = [open EXCEPT ![f] = @ + 1]
    /\ Exits(j, 1)
    /\ UNCHANGED <<reports, fileIssues, todo, known, filed, closed, label, calm>>

\* All findings are filed: write_summary, and status 1 because there are some.
Summarise(j) ==
    /\ at[j] = "file"
    /\ todo[j] = {}
    /\ filed' = [filed EXCEPT ![j] = TRUE]
    /\ Exits(j, 1)
    /\ UNCHANGED <<reports, fileIssues, todo, known, closed, open, label, calm>>

TriageStep(j) ==
    \/ Load(j)
    \/ EnsureLabel(j)
    \/ ExistingIssues(j)
    \/ GhFails(j)
    \/ Summarise(j)
    \/ \E f \in Fingerprints : Comment(j, f) \/ Create(j, f) \/ CreateAnswerLost(j, f)

\* (external) Somebody closes an issue.
CloseIssue(f) ==
    /\ open[f] > 0
    /\ open' = [open EXCEPT ![f] = @ - 1]
    /\ closed' = [j \in Jobs |-> IF at[j] \in {"file", "exited"} THEN closed[j] \cup {f} ELSE closed[j]]
    /\ UNCHANGED <<at, reports, fileIssues, todo, known, exitCode, filed, label, calm>>
=============================================================================
