------------------------------- MODULE Nightly -------------------------------
(***************************************************************************)
(* The workflow NightlyPropertyRun.yml over many nights: a run is queued   *)
(* by the schedule or by hand, waits until no other run is in progress,    *)
(* builds, runs the property suites (SuiteReport says what that leaves     *)
(* behind), triages the results and concludes.  People close issues, and   *)
(* anything may fail or be cancelled anywhere; from some moment on it may  *)
(* be calm, when the calls of gh succeed and no triage is cancelled.       *)
(***************************************************************************)
EXTENDS Triage

CONSTANT Scheduled   \* the job of the schedule; the others are started by hand

ASSUME ScheduledAssumption == Scheduled \in Jobs

VARIABLES
    phase,       \* where the workflow run of a job is
    green        \* whether the run that ended last succeeded

vars == <<triageVars, phase, green>>

Init ==
    /\ TriageInit
    /\ phase = [j \in Jobs |-> "idle"]
    /\ green = FALSE

-----------------------------------------------------------------------------
InProgress(j) == phase[j] \in {"building", "triage"}

\* A run is queued.  The concurrency group keeps one run waiting: an older one
\* that still waits is cancelled.  A run by hand may ask not to file issues.
Trigger(j) ==
    /\ phase[j] = "idle"
    /\ phase' = [k \in Jobs |-> IF k = j THEN "pending"
                                ELSE IF phase[k] = "pending" THEN "idle" ELSE phase[k]]
    /\ \E file \in IF j = Scheduled THEN {TRUE} ELSE BOOLEAN :
         fileIssues' = [k \in Jobs |-> IF k = j THEN file
                                       ELSE fileIssues[k] /\ phase[k] # "pending"]
    /\ UNCHANGED <<at, reports, todo, known, exitCode, filed, closed, open, label, calm, green>>

\* Mutant: no concurrency group.
BeginUnlocked(j) ==
    /\ phase[j] = "pending"
    /\ phase' = [phase EXCEPT ![j] = "building"]
    /\ UNCHANGED <<triageVars, green>>

\* The waiting run starts once no run of the group is in progress.
Begin(j) ==
    /\ phase[j] = "pending"
    /\ \A k \in Jobs : ~InProgress(k)
    /\ phase' = [phase EXCEPT ![j] = "building"]
    /\ UNCHANGED <<triageVars, green>>

\* Mutant: a run that ends leaves its triage running.
ConcludeLeavesTriage(j, success) ==
    /\ phase' = [phase EXCEPT ![j] = "idle"]
    /\ green' = success
    /\ UNCHANGED triageVars

\* The run ends, and what its runner held, results and triage, is gone.
Conclude(j, success) ==
    /\ phase' = [phase EXCEPT ![j] = "idle"]
    /\ green' = success
    /\ at' = [at EXCEPT ![j] = "off"]
    /\ reports' = [reports EXCEPT ![j] = NoReports]
    /\ fileIssues' = [fileIssues EXCEPT ![j] = FALSE]
    /\ todo' = [todo EXCEPT ![j] = {}]
    /\ known' = [known EXCEPT ![j] = {}]
    /\ exitCode' = [exitCode EXCEPT ![j] = 0]
    /\ filed' = [filed EXCEPT ![j] = FALSE]
    /\ closed' = [closed EXCEPT ![j] = {}]
    /\ UNCHANGED <<open, label, calm>>

\* A step up to the build fails; the steps after it do not run.
BuildFails(j) ==
    /\ phase[j] = "building"
    /\ Conclude(j, FALSE)

\* What run_properties.sh can leave of f.  A probe of an open bug that fails,
\* crashes or trips a sanitizer is a known failure, but one that RapidCheck could
\* not run is a "fail" like any other.  There is no row for the properties of a
\* run that broke off, nor for a process that died and left a torn file.
ReportsOn(f) ==
    {"pass", "fail", "none", "undecodable"}
    \cup (IF f \in KnownFail THEN {"known_fail"} ELSE {"crash", "sanitizer"})

\* "Run property suites" continues on error: whatever it left is triaged.
SuitesEnd(j) ==
    /\ phase[j] = "building"
    /\ \E results \in [Fingerprints -> Contents] :
         /\ \A f \in Fingerprints : results[f] \in ReportsOn(f)
         /\ reports' = [reports EXCEPT ![j] = results]
    /\ phase' = [phase EXCEPT ![j] = "triage"]
    /\ at' = [at EXCEPT ![j] = "start"]
    /\ UNCHANGED <<fileIssues, todo, known, exitCode, filed, closed, open, label, calm, green>>

\* Mutant: the last step is left out.
TriageEndsRegardless(j) ==
    /\ phase[j] = "triage"
    /\ at[j] = "exited"
    /\ Conclude(j, TRUE)

\* "Triage findings" continues on error too; the last step fails the job if the
\* outcome of the triage is failure.
TriageEnds(j) ==
    /\ phase[j] = "triage"
    /\ at[j] = "exited"
    /\ Conclude(j, exitCode[j] = 0)

\* timeout-minutes expires, or somebody cancels the run.
Cancelled(j) ==
    /\ InProgress(j)
    /\ calm => phase[j] = "building"
    /\ Conclude(j, FALSE)

RunTriage(j) ==
    /\ phase[j] = "triage"
    /\ TriageStep(j)
    /\ UNCHANGED <<phase, green>>

JobStep(j) ==
    \/ Begin(j)
    \/ BuildFails(j)
    \/ SuitesEnd(j)
    \/ RunTriage(j)
    \/ TriageEnds(j)
    \/ Cancelled(j)

-----------------------------------------------------------------------------
People == \E f \in Fingerprints : CloseIssue(f) /\ UNCHANGED <<phase, green>>

\* From here on the calls of gh succeed and a triage is left to finish.  Builds
\* still fail, runs still break off and files are still torn.
Weather ==
    /\ ~calm
    /\ calm' = TRUE
    /\ UNCHANGED <<at, reports, fileIssues, todo, known, exitCode, filed, closed, open, label,
                   phase, green>>

Next ==
    \/ \E j \in Jobs : Trigger(j) \/ JobStep(j)
    \/ People
    \/ Weather

\* GitHub runs what it has queued, and a triage that has started goes on.
Fairness == \A j \in Jobs : WF_vars(JobStep(j))

Spec == Init /\ [][Next]_vars /\ Fairness

-----------------------------------------------------------------------------
\* Every variable has the type the workflow and its scripts give it, and a run
\* triages the findings of its own results, as long as it is in progress.
TypeOK ==
    /\ at \in [Jobs -> {"off", "start", "label", "list", "file", "exited"}]
    /\ reports \in [Jobs -> [Fingerprints -> Contents]]
    /\ fileIssues \in [Jobs -> BOOLEAN]
    /\ todo \in [Jobs -> SUBSET Fingerprints]
    /\ known \in [Jobs -> SUBSET Fingerprints]
    /\ exitCode \in [Jobs -> 0..2]
    /\ filed \in [Jobs -> BOOLEAN]
    /\ closed \in [Jobs -> SUBSET Fingerprints]
    /\ open \in [Fingerprints -> Nat]
    /\ label \in BOOLEAN
    /\ calm \in BOOLEAN
    /\ phase \in [Jobs -> {"idle", "pending", "building", "triage"}]
    /\ green \in BOOLEAN
    /\ \A j \in Jobs : (at[j] # "off" <=> phase[j] = "triage") /\ todo[j] \subseteq Findings(j)

\* "A finding that reproduces every night stays a single issue": whatever fails,
\* is cancelled, is retried the next night or is closed in between, and with
\* runs started by hand beside the scheduled ones.
OneOpenIssue == \A f \in Fingerprints : open[f] <= 1

\* What triage.py does from a list it read a while ago, over runs that fail, are
\* cancelled and start again, is what IssueQueue does at once from the issues as
\* they are: the findings of one run at a time, each dealt with at most once, opened
\* if it has no issue, and passed over only if it has one or had until just now.
DueNow == {f \in Fingerprints : \E j \in Jobs : at[j] \in {"label", "list", "file"} /\ f \in todo[j]}
GoneNow == {f \in Fingerprints : \E j \in Jobs : at[j] = "file" /\ f \in closed[j]}
Queue == INSTANCE IssueQueue WITH due <- DueNow, gone <- GoneNow
ImplementsIssueQueue == Queue!Spec

\* An issue is only opened for a property that a run which is in progress, could read
\* all its results and was asked to file issues reports as failed, crashed or
\* stopped by a sanitizer.  A probe of an open bug that fails as expected is none.
IssuesAreFindings ==
    [][\A f \in Fingerprints : open'[f] > open[f] =>
          \E j \in Jobs :
              /\ InProgress(j) /\ fileIssues[j] /\ Readable(j)
              /\ reports[j][f] \in {"fail", "crash", "sanitizer"}]_vars

\* A triage that went through its findings leaves each of them with an open
\* issue, those aside that people closed since it looked the issues up.
EveryFindingIsFiled ==
    \A j \in Jobs : at[j] = "exited" /\ filed[j] =>
        \A f \in Findings(j) : open[f] > 0 \/ f \in closed[j]

\* A run concludes with success only if all results could be decoded, some property
\* was reported and none of the reports is a finding, though both steps that could
\* tell continue on error.
GreenMeansNoFinding ==
    [][\A j \in Jobs : InProgress(j) /\ ~InProgress(j)' /\ green' =>
          Readable(j) /\ Rows(j) # {} /\ Findings(j) = {}]_vars

\* Some run in progress was asked to file issues, can read its results and finds f.
Finds(j, f) == InProgress(j) /\ fileIssues[j] /\ Readable(j) /\ f \in Findings(j)

\* Whatever state the failures of the past left behind, once gh works and triages are
\* left to finish, a finding that is reported again and again has an open issue again
\* and again: if people close it, it is opened again, over the builds that fail, the
\* runs that break off and the files that are torn in between.
PersistentFindingIsFiled ==
    \A f \in Fingerprints :
        <>calm /\ []<>(\E j \in Jobs : Finds(j, f)) => []<>(open[f] > 0)

\* triage.py:18: "Issues are opened only for `fail` and `crash`".
IssuesOnlyForFailAndCrash ==
    [][\A f \in Fingerprints : open'[f] > open[f] =>
          \E j \in Jobs : InProgress(j) /\ reports[j][f] \in {"fail", "crash"}]_vars
=============================================================================
