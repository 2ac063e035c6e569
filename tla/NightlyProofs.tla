---------------------------- MODULE NightlyProofs ----------------------------
(***************************************************************************)
(* Proofs about the nightly workflow, for every set of runs and of         *)
(* properties: a finding never has two open issues, a triage that went     *)
(* through its findings left each of them with an issue, an issue is only  *)
(* opened for a finding, a green run had none, and all in all the workflow *)
(* implements IssueQueue.                                                  *)
(***************************************************************************)
EXTENDS Nightly, TLAPS, FiniteSetTheorems

\* The concurrency group at work: at most one run is in progress.
OneInProgress == \A j, k \in Jobs : InProgress(j) /\ InProgress(k) => j = k

\* A run that triages nothing yet has nothing to file; one that is about to
\* file has all its findings before it.
TodoIsDue ==
    \A j \in Jobs :
        /\ at[j] = "off" => todo[j] = {}
        /\ at[j] \in {"label", "list"} => todo[j] = Findings(j)

\* The answer of existing_issues() stays good for the findings that are still to
\* be filed: one that is not known has no open issue.
KnownIsComplete ==
    \A j \in Jobs : at[j] = "file" => \A f \in todo[j] \ known[j] : open[f] = 0

\* What was known is open, unless somebody closed it.
KnownWasOpen ==
    \A j \in Jobs : at[j] = "file" => \A f \in known[j] : open[f] > 0 \/ f \in closed[j]

\* The findings that are not left to be filed have an open issue, unless closed.
FiledSoFar ==
    \A j \in Jobs :
        /\ filed[j] => at[j] = "exited" /\ todo[j] = {}
        /\ at[j] = "file" \/ filed[j] =>
              \A f \in Findings(j) \ todo[j] : open[f] > 0 \/ f \in closed[j]

\* A triage exits with 0 only if it could read its results, had reports and no
\* findings among them.
ZeroIsClean ==
    \A j \in Jobs : at[j] = "exited" /\ exitCode[j] = 0 =>
        Readable(j) /\ Rows(j) # {} /\ Findings(j) = {}

\* A triage gets past its first step only if it could read its results and its run
\* was asked to file issues.
FilingIsAsked ==
    \A j \in Jobs : at[j] \in {"label", "list", "file"} => fileIssues[j] /\ Readable(j)

Inv ==
    /\ TypeOK
    /\ OneInProgress
    /\ TodoIsDue
    /\ KnownIsComplete
    /\ KnownWasOpen
    /\ FiledSoFar
    /\ ZeroIsClean
    /\ FilingIsAsked
    /\ OneOpenIssue

-----------------------------------------------------------------------------
\* The open issues fit the page that is asked for.
LEMMA WholePage == Pages = {OpenFingerprints}
  <1>1. OpenFingerprints \subseteq Fingerprints
    BY DEF OpenFingerprints
  <1>2. /\ Cardinality(OpenFingerprints) \in Nat
        /\ Cardinality(Fingerprints) \in Nat
        /\ Cardinality(OpenFingerprints) <= Cardinality(Fingerprints)
    BY <1>1, TriageAssumption, FS_Subset, FS_CardinalityType
  <1> QED
    BY <1>2, LimitAssumption, TriageAssumption DEF Pages

\* The initial state satisfies the invariant.
LEMMA InvInit == Init => Inv
  <1> SUFFICES ASSUME Init PROVE Inv
    OBVIOUS
  <1> USE DEF Init, TriageInit, NoReports
  <1>1. TypeOK
    <2>1. label \in BOOLEAN /\ calm \in BOOLEAN /\ green \in BOOLEAN
      BY Zenon
    <2>2. /\ fileIssues \in [Jobs -> BOOLEAN]
          /\ filed \in [Jobs -> BOOLEAN]
      BY Zenon
    <2>3. /\ exitCode \in [Jobs -> 0..2]
          /\ open \in [Fingerprints -> Nat]
      OBVIOUS
    <2> QED
      BY <2>1, <2>2, <2>3 DEF TypeOK, Contents
  <1> QED
    BY <1>1 DEF Inv, OneInProgress, InProgress, TodoIsDue, KnownIsComplete, KnownWasOpen,
                FiledSoFar, ZeroIsClean, FilingIsAsked, Findings, Rows,
                FindingStatuses, OneOpenIssue

\* The actions of Next, one by one.
LEMMA NextActions ==
    ASSUME Next
    PROVE  \/ \E j \in Jobs : \/ Trigger(j)
                              \/ Begin(j)
                              \/ BuildFails(j)
                              \/ SuitesEnd(j)
                              \/ RunTriage(j)
                              \/ TriageEnds(j)
                              \/ Cancelled(j)
           \/ People
           \/ Weather
  BY DEF Next, JobStep

\* Every step keeps the types.
LEMMA TypeStep == TypeOK /\ TodoIsDue /\ Next => TypeOK'
  <1> SUFFICES ASSUME TypeOK, TodoIsDue, Next PROVE TypeOK'
    OBVIOUS
  <1> USE DEF TypeOK, triageVars, Contents
  <1>1. ASSUME NEW j \in Jobs, Trigger(j) PROVE TypeOK'
    BY <1>1 DEF Trigger, Findings, Rows
  <1>2. ASSUME NEW j \in Jobs, Begin(j) PROVE TypeOK'
    BY <1>2 DEF Begin, Findings, Rows
  <1>3. ASSUME NEW j \in Jobs, NEW success \in BOOLEAN, Conclude(j, success) PROVE TypeOK'
    BY <1>3 DEF Conclude, NoReports, Findings, Rows
  <1>4. ASSUME NEW j \in Jobs, SuitesEnd(j) PROVE TypeOK'
    BY <1>4 DEF SuitesEnd, Findings, Rows, TodoIsDue
  <1>5. ASSUME NEW j \in Jobs, RunTriage(j) PROVE TypeOK'
    <2> USE DEF Exits
    <2>1. CASE Load(j)
      <3>1. /\ at[j] = "start"
            /\ \E a \in {"label", "exited"} : at' = [at EXCEPT ![j] = a]
            /\ exitCode' \in [Jobs -> 0..2]
            /\ todo' = [todo EXCEPT ![j] = Findings(j)]
            /\ UNCHANGED <<reports, fileIssues, known, filed, closed, open, label, calm>>
        BY <2>1 DEF Load
      <3> QED
        BY <1>5, <3>1 DEF RunTriage, Findings, Rows
    <2>2. CASE EnsureLabel(j)
      BY <1>5, <2>2 DEF RunTriage, EnsureLabel, Findings, Rows
    <2>3. CASE ExistingIssues(j)
      <3>1. known' = [known EXCEPT ![j] = OpenFingerprints]
        BY <2>3, WholePage DEF ExistingIssues
      <3> QED
        BY <1>5, <2>3, <3>1 DEF RunTriage, ExistingIssues, OpenFingerprints, Findings, Rows
    <2>4. CASE GhFails(j)
      BY <1>5, <2>4 DEF RunTriage, GhFails, Findings, Rows
    <2>5. CASE Summarise(j)
      BY <1>5, <2>5 DEF RunTriage, Summarise, Findings, Rows
    <2>6. ASSUME NEW f \in Fingerprints, Comment(j, f) \/ Create(j, f) \/ CreateAnswerLost(j, f)
          PROVE  TypeOK'
      <3>1. CASE Comment(j, f)
        BY <1>5, <3>1 DEF RunTriage, Comment, IsNext, Findings, Rows
      <3>2. CASE Create(j, f)
        BY <1>5, <3>2 DEF RunTriage, Create, IsNext, Findings, Rows
      <3>3. CASE CreateAnswerLost(j, f)
        BY <1>5, <3>3 DEF RunTriage, CreateAnswerLost, IsNext, Findings, Rows
      <3> QED
        BY <2>6, <3>1, <3>2, <3>3
    <2>7. TriageStep(j)
      BY <1>5 DEF RunTriage
    <2> QED
      BY <2>1, <2>2, <2>3, <2>4, <2>5, <2>6, <2>7, Zenon DEF TriageStep
  <1>6. CASE People
    BY <1>6 DEF People, CloseIssue, Findings, Rows
  <1>7. CASE Weather
    BY <1>7 DEF Weather, Findings, Rows
  <1> QED
    BY <1>1, <1>2, <1>3, <1>4, <1>5, <1>6, <1>7, NextActions DEF BuildFails, TriageEnds, Cancelled

\* What the rest of the invariant is about changes in few ways.
LEMMA LockStep == TypeOK /\ OneInProgress /\ Next => OneInProgress'
  <1> SUFFICES ASSUME TypeOK, OneInProgress, Next PROVE OneInProgress'
    OBVIOUS
  <1> USE DEF TypeOK, OneInProgress, InProgress
  <1>1. ASSUME NEW j \in Jobs, Trigger(j) PROVE OneInProgress'
    BY <1>1 DEF Trigger
  <1>2. ASSUME NEW j \in Jobs, Begin(j) PROVE OneInProgress'
    BY <1>2 DEF Begin
  <1>3. ASSUME NEW j \in Jobs, NEW success \in BOOLEAN, Conclude(j, success) PROVE OneInProgress'
    BY <1>3 DEF Conclude
  <1>4. ASSUME NEW j \in Jobs, SuitesEnd(j) PROVE OneInProgress'
    BY <1>4 DEF SuitesEnd
  <1>5. ASSUME NEW j \in Jobs, RunTriage(j) PROVE OneInProgress'
    BY <1>5 DEF RunTriage
  <1>6. CASE People \/ Weather
    BY <1>6 DEF People, Weather
  <1> QED
    BY <1>1, <1>2, <1>3, <1>4, <1>5, <1>6, NextActions DEF BuildFails, TriageEnds, Cancelled

\* Every step keeps TodoIsDue.
LEMMA TodoStep == TypeOK /\ TodoIsDue /\ Next => TodoIsDue'
  <1> SUFFICES ASSUME TypeOK, TodoIsDue, Next PROVE TodoIsDue'
    OBVIOUS
  <1> USE DEF TypeOK, TodoIsDue, triageVars, Findings, Rows
  <1>1. ASSUME NEW j \in Jobs, Trigger(j) PROVE TodoIsDue'
    BY <1>1 DEF Trigger
  <1>2. ASSUME NEW j \in Jobs, Begin(j) PROVE TodoIsDue'
    BY <1>2 DEF Begin
  <1>3. ASSUME NEW j \in Jobs, NEW success \in BOOLEAN, Conclude(j, success) PROVE TodoIsDue'
    BY <1>3 DEF Conclude, NoReports
  <1>4. ASSUME NEW j \in Jobs, SuitesEnd(j) PROVE TodoIsDue'
    BY <1>4 DEF SuitesEnd
  <1>5. ASSUME NEW j \in Jobs, RunTriage(j) PROVE TodoIsDue'
    <2> USE DEF Exits
    <2>1. CASE Load(j)
      BY <1>5, <2>1 DEF RunTriage, Load
    <2>2. CASE EnsureLabel(j)
      BY <1>5, <2>2 DEF RunTriage, EnsureLabel
    <2>3. CASE ExistingIssues(j)
      BY <1>5, <2>3 DEF RunTriage, ExistingIssues
    <2>4. CASE GhFails(j)
      BY <1>5, <2>4 DEF RunTriage, GhFails
    <2>5. CASE Summarise(j)
      BY <1>5, <2>5 DEF RunTriage, Summarise
    <2>6. ASSUME NEW f \in Fingerprints, Comment(j, f) \/ Create(j, f) \/ CreateAnswerLost(j, f)
          PROVE  TodoIsDue'
      BY <1>5, <2>6 DEF RunTriage, Comment, Create, CreateAnswerLost, IsNext
    <2>7. TriageStep(j)
      BY <1>5 DEF RunTriage
    <2> QED
      BY <2>1, <2>2, <2>3, <2>4, <2>5, <2>6, <2>7, Zenon DEF TriageStep
  <1>6. CASE People \/ Weather
    BY <1>6 DEF People, CloseIssue, Weather
  <1> QED
    BY <1>1, <1>2, <1>3, <1>4, <1>5, <1>6, NextActions DEF BuildFails, TriageEnds, Cancelled

\* A triage that is under way belongs to the run that is in progress.
LEMMA OneTriage ==
    ASSUME TypeOK, OneInProgress, NEW j \in Jobs, NEW k \in Jobs, at[j] # "off", at[k] # "off"
    PROVE  j = k
  BY DEF TypeOK, OneInProgress, InProgress

\* Every step keeps the issues single, and what is known of them good.
LEMMA IssueStep ==
    TypeOK /\ OneInProgress /\ KnownIsComplete /\ OneOpenIssue /\ Next
        => KnownIsComplete' /\ OneOpenIssue'
  <1> DEFINE Good == KnownIsComplete /\ OneOpenIssue
  <1> SUFFICES ASSUME TypeOK, OneInProgress, KnownIsComplete, OneOpenIssue, Next PROVE Good'
    OBVIOUS
  <1> USE DEF TypeOK, KnownIsComplete, OneOpenIssue, triageVars
  <1>1. ASSUME NEW j \in Jobs, Trigger(j) PROVE Good'
    BY <1>1 DEF Trigger
  <1>2. ASSUME NEW j \in Jobs, Begin(j) PROVE Good'
    BY <1>2 DEF Begin
  <1>3. ASSUME NEW j \in Jobs, NEW success \in BOOLEAN, Conclude(j, success) PROVE Good'
    BY <1>3 DEF Conclude
  <1>4. ASSUME NEW j \in Jobs, SuitesEnd(j) PROVE Good'
    BY <1>4 DEF SuitesEnd
  <1>5. ASSUME NEW j \in Jobs, RunTriage(j) PROVE Good'
    <2> USE DEF Exits
    <2>1. CASE Load(j)
      BY <1>5, <2>1 DEF RunTriage, Load
    <2>2. CASE EnsureLabel(j)
      BY <1>5, <2>2 DEF RunTriage, EnsureLabel
    <2>3. CASE ExistingIssues(j)
      <3>1. known' = [known EXCEPT ![j] = OpenFingerprints]
        BY <2>3, WholePage DEF ExistingIssues
      <3> QED
        BY <1>5, <2>3, <3>1 DEF RunTriage, ExistingIssues, OpenFingerprints
    <2>4. CASE GhFails(j)
      BY <1>5, <2>4 DEF RunTriage, GhFails
    <2>5. CASE Summarise(j)
      BY <1>5, <2>5 DEF RunTriage, Summarise
    <2>6. ASSUME NEW f \in Fingerprints, Comment(j, f) PROVE Good'
      BY <1>5, <2>6 DEF RunTriage, Comment, IsNext
    <2>7. ASSUME NEW f \in Fingerprints, Create(j, f) \/ CreateAnswerLost(j, f) PROVE Good'
      <3>1. at[j] = "file" /\ f \in todo[j] \ known[j]
        BY <2>7 DEF Create, CreateAnswerLost, IsNext
      <3>2. open[f] = 0 /\ open' = [open EXCEPT ![f] = 1]
        BY <2>7, <3>1 DEF Create, CreateAnswerLost
      <3>3. OneOpenIssue'
        BY <3>2
      <3>4. ASSUME NEW k \in Jobs, at'[k] = "file" PROVE k = j /\ Create(j, f)
        BY <2>7, <3>1, <3>4, OneTriage DEF Create, CreateAnswerLost
      <3>5. KnownIsComplete'
        BY <3>1, <3>2, <3>4 DEF Create
      <3> QED
        BY <3>3, <3>5
    <2>8. TriageStep(j)
      BY <1>5 DEF RunTriage
    <2> QED
      BY <2>1, <2>2, <2>3, <2>4, <2>5, <2>6, <2>7, <2>8, Zenon DEF TriageStep
  <1>6. CASE People
    BY <1>6 DEF People, CloseIssue
  <1>7. CASE Weather
    BY <1>7 DEF Weather
  <1> QED
    BY <1>1, <1>2, <1>3, <1>4, <1>5, <1>6, <1>7, NextActions DEF BuildFails, TriageEnds, Cancelled

\* Every step keeps the account of what has been filed.
LEMMA FiledStep ==
    TypeOK /\ TodoIsDue /\ KnownWasOpen /\ FiledSoFar /\ Next => KnownWasOpen' /\ FiledSoFar'
  <1> DEFINE Good == KnownWasOpen /\ FiledSoFar
  <1> SUFFICES ASSUME TypeOK, TodoIsDue, KnownWasOpen, FiledSoFar, Next PROVE Good'
    OBVIOUS
  <1> USE DEF TypeOK, KnownWasOpen, FiledSoFar, triageVars, Findings, Rows
  <1>1. ASSUME NEW j \in Jobs, Trigger(j) PROVE Good'
    BY <1>1 DEF Trigger
  <1>2. ASSUME NEW j \in Jobs, Begin(j) PROVE Good'
    BY <1>2 DEF Begin
  <1>3. ASSUME NEW j \in Jobs, NEW success \in BOOLEAN, Conclude(j, success) PROVE Good'
    BY <1>3 DEF Conclude
  <1>4. ASSUME NEW j \in Jobs, SuitesEnd(j) PROVE Good'
    BY <1>4 DEF SuitesEnd
  <1>5. ASSUME NEW j \in Jobs, RunTriage(j) PROVE Good'
    <2> USE DEF Exits
    <2>1. CASE Load(j)
      <3>1. ~filed[j] /\ at'[j] # "file" /\ \A k \in Jobs \ {j} : at'[k] = at[k]
        BY <2>1 DEF Load
      <3>2. UNCHANGED <<reports, known, filed, closed, open>>
            /\ \A k \in Jobs \ {j} : todo'[k] = todo[k]
        BY <2>1 DEF Load
      <3> QED
        BY <3>1, <3>2
    <2>2. CASE EnsureLabel(j)
      BY <1>5, <2>2 DEF RunTriage, EnsureLabel
    <2>3. CASE ExistingIssues(j)
      <3>1. known' = [known EXCEPT ![j] = OpenFingerprints]
        BY <2>3, WholePage DEF ExistingIssues
      <3>2. todo[j] = Findings(j)
        BY <2>3 DEF ExistingIssues, TodoIsDue
      <3> QED
        BY <1>5, <2>3, <3>1, <3>2 DEF RunTriage, ExistingIssues, OpenFingerprints
    <2>4. CASE GhFails(j)
      BY <1>5, <2>4 DEF RunTriage, GhFails
    <2>5. CASE Summarise(j)
      BY <1>5, <2>5 DEF RunTriage, Summarise
    <2>6. ASSUME NEW f \in Fingerprints, Comment(j, f) PROVE Good'
      BY <1>5, <2>6 DEF RunTriage, Comment, IsNext
    <2>7. ASSUME NEW f \in Fingerprints, Create(j, f) PROVE Good'
      <3> USE <1>5, <2>7 DEF RunTriage, Create, IsNext
      <3>1. at[j] = "file" /\ ~filed[j] /\ at' = at /\ filed' = filed
        OBVIOUS
      <3>2. \A g \in Fingerprints : open[g] > 0 => open'[g] > 0
        OBVIOUS
      <3>3. open'[f] > 0
        OBVIOUS
      <3>4. \A k \in Jobs : Findings(k)' \ todo'[k] \subseteq (Findings(k) \ todo[k]) \cup {f}
        OBVIOUS
      <3> QED
        BY <3>1, <3>2, <3>3, <3>4
    <2>8. ASSUME NEW f \in Fingerprints, CreateAnswerLost(j, f) PROVE Good'
      BY <1>5, <2>8 DEF RunTriage, CreateAnswerLost, IsNext
    <2>9. TriageStep(j)
      BY <1>5 DEF RunTriage
    <2> QED
      BY <2>1, <2>2, <2>3, <2>4, <2>5, <2>6, <2>7, <2>8, <2>9, Zenon DEF TriageStep
  <1>6. CASE People
    BY <1>6 DEF People, CloseIssue
  <1>7. CASE Weather
    BY <1>7 DEF Weather
  <1> QED
    BY <1>1, <1>2, <1>3, <1>4, <1>5, <1>6, <1>7, NextActions DEF BuildFails, TriageEnds, Cancelled

\* Every step keeps ZeroIsClean.
LEMMA ZeroStep == TypeOK /\ ZeroIsClean /\ Next => ZeroIsClean'
  <1> SUFFICES ASSUME TypeOK, ZeroIsClean, Next PROVE ZeroIsClean'
    OBVIOUS
  <1> USE DEF TypeOK, ZeroIsClean, triageVars, Findings, Rows, Readable
  <1>1. ASSUME NEW j \in Jobs, Trigger(j) PROVE ZeroIsClean'
    BY <1>1 DEF Trigger
  <1>2. ASSUME NEW j \in Jobs, Begin(j) PROVE ZeroIsClean'
    BY <1>2 DEF Begin
  <1>3. ASSUME NEW j \in Jobs, NEW success \in BOOLEAN, Conclude(j, success) PROVE ZeroIsClean'
    BY <1>3 DEF Conclude
  <1>4. ASSUME NEW j \in Jobs, SuitesEnd(j) PROVE ZeroIsClean'
    BY <1>4 DEF SuitesEnd
  <1>5. ASSUME NEW j \in Jobs, RunTriage(j) PROVE ZeroIsClean'
    <2> USE DEF Exits
    <2>1. CASE Load(j)
      BY <1>5, <2>1 DEF RunTriage, Load
    <2>2. CASE EnsureLabel(j)
      BY <1>5, <2>2 DEF RunTriage, EnsureLabel
    <2>3. CASE ExistingIssues(j)
      BY <1>5, <2>3 DEF RunTriage, ExistingIssues
    <2>4. CASE GhFails(j)
      BY <1>5, <2>4 DEF RunTriage, GhFails
    <2>5. CASE Summarise(j)
      BY <1>5, <2>5 DEF RunTriage, Summarise
    <2>6. ASSUME NEW f \in Fingerprints, Comment(j, f) \/ Create(j, f) \/ CreateAnswerLost(j, f)
          PROVE  ZeroIsClean'
      BY <1>5, <2>6 DEF RunTriage, Comment, Create, CreateAnswerLost, IsNext
    <2>7. TriageStep(j)
      BY <1>5 DEF RunTriage
    <2> QED
      BY <2>1, <2>2, <2>3, <2>4, <2>5, <2>6, <2>7, Zenon DEF TriageStep
  <1>6. CASE People \/ Weather
    BY <1>6 DEF People, CloseIssue, Weather
  <1> QED
    BY <1>1, <1>2, <1>3, <1>4, <1>5, <1>6, NextActions DEF BuildFails, TriageEnds, Cancelled

\* Every step keeps what entitles a triage to file.
LEMMA EntitledStep == TypeOK /\ FilingIsAsked /\ Next => FilingIsAsked'
  <1> SUFFICES ASSUME TypeOK, FilingIsAsked, Next PROVE FilingIsAsked'
    OBVIOUS
  <1> USE DEF TypeOK, FilingIsAsked, triageVars, Readable
  <1>1. ASSUME NEW j \in Jobs, Trigger(j) PROVE FilingIsAsked'
    <2>1. /\ UNCHANGED <<at, reports>>
          /\ \A k \in Jobs : k # j /\ phase[k] = "triage" => fileIssues'[k] = fileIssues[k]
      BY <1>1 DEF Trigger
    <2>2. at[j] = "off"
      BY <1>1 DEF Trigger
    <2> QED
      BY <2>1, <2>2
  <1>2. ASSUME NEW j \in Jobs, Begin(j) PROVE FilingIsAsked'
    BY <1>2 DEF Begin
  <1>3. ASSUME NEW j \in Jobs, NEW success \in BOOLEAN, Conclude(j, success) PROVE FilingIsAsked'
    BY <1>3 DEF Conclude, NoReports
  <1>4. ASSUME NEW j \in Jobs, SuitesEnd(j) PROVE FilingIsAsked'
    BY <1>4 DEF SuitesEnd
  <1>5. ASSUME NEW j \in Jobs, RunTriage(j) PROVE FilingIsAsked'
    <2> USE DEF Exits
    <2>1. CASE Load(j)
      BY <1>5, <2>1 DEF RunTriage, Load
    <2>2. CASE EnsureLabel(j)
      BY <1>5, <2>2 DEF RunTriage, EnsureLabel
    <2>3. CASE ExistingIssues(j)
      BY <1>5, <2>3 DEF RunTriage, ExistingIssues
    <2>4. CASE GhFails(j)
      BY <1>5, <2>4 DEF RunTriage, GhFails
    <2>5. CASE Summarise(j)
      BY <1>5, <2>5 DEF RunTriage, Summarise
    <2>6. ASSUME NEW f \in Fingerprints, Comment(j, f) \/ Create(j, f) \/ CreateAnswerLost(j, f)
          PROVE  FilingIsAsked'
      BY <1>5, <2>6 DEF RunTriage, Comment, Create, CreateAnswerLost, IsNext
    <2>7. TriageStep(j)
      BY <1>5 DEF RunTriage
    <2> QED
      BY <2>1, <2>2, <2>3, <2>4, <2>5, <2>6, <2>7, Zenon DEF TriageStep
  <1>6. CASE People \/ Weather
    BY <1>6 DEF People, CloseIssue, Weather
  <1> QED
    BY <1>1, <1>2, <1>3, <1>4, <1>5, <1>6, NextActions DEF BuildFails, TriageEnds, Cancelled

\* The invariant is inductive.
LEMMA InvStep == Inv /\ [Next]_vars => Inv'
  <1>1. CASE Next
    BY <1>1, TypeStep, LockStep, TodoStep, IssueStep, FiledStep, ZeroStep, EntitledStep DEF Inv
  <1>2. CASE UNCHANGED vars
    BY <1>2 DEF Inv, vars, triageVars, TypeOK, OneInProgress, InProgress, TodoIsDue, KnownIsComplete,
                KnownWasOpen, FiledSoFar, ZeroIsClean, FilingIsAsked, OneOpenIssue, Findings, Rows, Readable
  <1> QED
    BY <1>1, <1>2

\* In every reachable state the invariant holds.
THEOREM InvHolds == Spec => []Inv
  BY InvInit, InvStep, PTL DEF Spec

-----------------------------------------------------------------------------
\* Every variable has its type (TypeOK) in every reachable state.
THEOREM TypeCorrect == Spec => []TypeOK
  <1>1. Inv => TypeOK
    BY DEF Inv
  <1> QED
    BY <1>1, InvHolds, PTL

\* A finding never has two open issues, whatever fails or is cancelled and
\* however many runs are started: the lock of the concurrency group and a page
\* as large as the number of properties make triage.py's look-up hold until it files.
THEOREM IssuesAreSingle == Spec => []OneOpenIssue
  <1>1. Inv => OneOpenIssue
    BY DEF Inv
  <1> QED
    BY <1>1, InvHolds, PTL

\* A triage that went through its findings left every one of them with an open
\* issue, those aside that people closed after it looked them up.
THEOREM FindingsAreFiled == Spec => []EveryFindingIsFiled
  <1>1. Inv => EveryFindingIsFiled
    BY DEF Inv, TypeOK, FiledSoFar, EveryFindingIsFiled
  <1> QED
    BY <1>1, InvHolds, PTL

\* A run that ends green could read all its results, had reports and no findings.
THEOREM GreenIsClean == Spec => GreenMeansNoFinding
  <1> DEFINE Clean(j) == InProgress(j) /\ ~InProgress(j)' /\ green' =>
                            Readable(j) /\ Rows(j) # {} /\ Findings(j) = {}
  <1>1. ASSUME Inv, Next, NEW k \in Jobs PROVE Clean(k)
    <2> USE DEF InProgress
    <2>1. TypeOK /\ ZeroIsClean
      BY <1>1 DEF Inv
    <2>2. ASSUME NEW j \in Jobs, Trigger(j) PROVE Clean(k)
      BY <2>1, <2>2 DEF Trigger, TypeOK
    <2>3. ASSUME NEW j \in Jobs, Begin(j) PROVE Clean(k)
      BY <2>1, <2>3 DEF Begin, TypeOK
    <2>4. ASSUME NEW j \in Jobs, Conclude(j, FALSE) PROVE Clean(k)
      BY <2>1, <2>4, Zenon DEF Conclude, TypeOK
    <2>5. ASSUME NEW j \in Jobs, SuitesEnd(j) PROVE Clean(k)
      BY <2>1, <2>5 DEF SuitesEnd, TypeOK
    <2>6. ASSUME NEW j \in Jobs, RunTriage(j) PROVE Clean(k)
      BY <2>1, <2>6 DEF RunTriage, TypeOK
    <2>7. ASSUME NEW j \in Jobs, TriageEnds(j) PROVE Clean(k)
      <3>1. CASE k = j
        <4>1. green' = (exitCode[j] = 0) /\ at[j] = "exited"
          BY <2>7, Zenon DEF TriageEnds, Conclude
        <4> QED
          BY <2>1, <3>1, <4>1 DEF ZeroIsClean
      <3>2. CASE k # j
        BY <2>1, <2>7, <3>2 DEF TriageEnds, Conclude, TypeOK
      <3> QED
        BY <3>1, <3>2
    <2>8. CASE People \/ Weather
      BY <2>1, <2>8 DEF People, Weather
    <2> QED
      BY <1>1, <2>2, <2>3, <2>4, <2>5, <2>6, <2>7, <2>8, NextActions DEF BuildFails, Cancelled
  <1>2. ASSUME Inv, UNCHANGED vars, NEW k \in Jobs PROVE Clean(k)
    BY <1>2 DEF vars, InProgress
  <1>3. Inv /\ [Next]_vars => [\A j \in Jobs : Clean(j)]_vars
    BY <1>1, <1>2
  <1> QED
    BY <1>3, InvHolds, PTL DEF Spec, GreenMeansNoFinding

\* An issue is only opened for a finding of a run that is in progress, could read its
\* results and was asked to file issues: a property that failed, crashed or was
\* stopped by a sanitizer.
THEOREM FindingsOpenIssues == Spec => IssuesAreFindings
  <1> DEFINE Entitled(f) == open'[f] > open[f] =>
                 \E j \in Jobs :
                     /\ InProgress(j) /\ fileIssues[j] /\ Readable(j)
                     /\ reports[j][f] \in {"fail", "crash", "sanitizer"}
  <1>1. ASSUME Inv, Next, NEW f \in Fingerprints PROVE Entitled(f)
    <2>1. TypeOK /\ FilingIsAsked
      BY <1>1 DEF Inv
    <2>2. open[f] \in Nat
      BY <2>1 DEF TypeOK
    <2>3. CASE open' = open
      BY <2>2, <2>3
    <2>4. CASE People
      <3>1. \A g \in Fingerprints : open[g] \in Nat /\ open \in [Fingerprints -> Nat]
        BY <2>1 DEF TypeOK
      <3> QED
        BY <2>4, <3>1 DEF People, CloseIssue
    <2>5. ASSUME NEW j \in Jobs, NEW g \in Fingerprints,
                 phase[j] = "triage", Create(j, g) \/ CreateAnswerLost(j, g)
          PROVE  Entitled(f)
      <3>1. /\ at[j] = "file" /\ g \in todo[j]
            /\ open' = [open EXCEPT ![g] = open[g] + 1]
        BY <2>5 DEF Create, CreateAnswerLost, IsNext
      <3>2. InProgress(j) /\ fileIssues[j] /\ Readable(j) /\ g \in Findings(j)
        BY <2>1, <2>5, <3>1 DEF InProgress, FilingIsAsked, TypeOK
      <3>3. reports[j][g] \in {"fail", "crash", "sanitizer"}
        BY <3>2 DEF Findings, FindingStatuses
      <3>4. CASE f = g
        BY <3>2, <3>3, <3>4
      <3>5. CASE f # g
        BY <2>1, <2>2, <3>1, <3>5 DEF TypeOK
      <3> QED
        BY <3>4, <3>5
    <2>6. ASSUME NEW j \in Jobs, RunTriage(j), open' # open PROVE Entitled(f)
      <3>1. PICK g \in Fingerprints : Create(j, g) \/ CreateAnswerLost(j, g)
        BY <2>6 DEF RunTriage, TriageStep, Load, EnsureLabel, ExistingIssues, GhFails, Summarise, Comment
      <3> HIDE DEF Entitled
      <3> QED
        BY <2>5, <2>6, <3>1 DEF RunTriage
    <2> HIDE DEF Entitled
    <2> QED
      BY <1>1, <2>3, <2>4, <2>6, NextActions
         DEF Trigger, Begin, BuildFails, SuitesEnd, TriageEnds, Cancelled, Conclude, Weather, triageVars
  <1>2. ASSUME Inv, UNCHANGED vars, NEW f \in Fingerprints PROVE Entitled(f)
    <2>1. open[f] \in Nat /\ open' = open
      BY <1>2 DEF Inv, TypeOK, vars, triageVars
    <2> QED
      BY <2>1
  <1>3. Inv /\ [Next]_vars => [\A f \in Fingerprints : Entitled(f)]_vars
    BY <1>1, <1>2
  <1> QED
    BY <1>3, InvHolds, PTL DEF Spec, IssuesAreFindings

\* Only the triage of the run in progress has findings that are due.
LEMMA DueOfOne ==
    ASSUME TypeOK, OneInProgress, NEW j \in Jobs, at[j] # "off"
    PROVE  /\ DueNow = IF at[j] \in {"label", "list", "file"} THEN todo[j] ELSE {}
           /\ GoneNow = IF at[j] = "file" THEN closed[j] ELSE {}
  <1>1. \A k \in Jobs : at[k] \in {"label", "list", "file"} => k = j
    BY OneTriage
  <1>2. todo[j] \subseteq Fingerprints /\ closed[j] \subseteq Fingerprints
    BY DEF TypeOK
  <1> QED
    BY <1>1, <1>2 DEF DueNow, GoneNow

\* The same of the next state.
LEMMA DueOfOneNext ==
    ASSUME TypeOK', OneInProgress', NEW j \in Jobs, at'[j] # "off"
    PROVE  /\ DueNow' = IF at'[j] \in {"label", "list", "file"} THEN todo'[j] ELSE {}
           /\ GoneNow' = IF at'[j] = "file" THEN closed'[j] ELSE {}
  <1>1. \A k \in Jobs : at'[k] \in {"label", "list", "file"} => k = j
    BY DEF TypeOK, OneInProgress, InProgress
  <1>2. todo'[j] \subseteq Fingerprints /\ closed'[j] \subseteq Fingerprints
    BY DEF TypeOK
  <1> QED
    BY <1>1, <1>2 DEF DueNow, GoneNow

\* Each step of a triage is a step of the queue or none.
LEMMA TriageQueues ==
    ASSUME Inv, Inv', NEW j \in Jobs, RunTriage(j)
    PROVE  [Queue!Next]_(Queue!vars)
  <1> DEFINE Filing(a) == a \in {"label", "list", "file"}
             Queues == [Queue!Next]_(Queue!vars)
  <1>1. /\ TypeOK /\ OneInProgress /\ TodoIsDue /\ KnownIsComplete /\ KnownWasOpen /\ OneOpenIssue
        /\ TypeOK' /\ OneInProgress'
    BY DEF Inv
  <1>2. at[j] # "off" /\ at'[j] # "off" /\ TriageStep(j)
    BY <1>1 DEF RunTriage, TypeOK
  <1>3. /\ DueNow = IF Filing(at[j]) THEN todo[j] ELSE {}
        /\ GoneNow = IF at[j] = "file" THEN closed[j] ELSE {}
        /\ DueNow' = IF Filing(at'[j]) THEN todo'[j] ELSE {}
        /\ GoneNow' = IF at'[j] = "file" THEN closed'[j] ELSE {}
    BY <1>1, <1>2, DueOfOne, DueOfOneNext
  <1>4. /\ at \in [Jobs -> {"off", "start", "label", "list", "file", "exited"}]
        /\ todo \in [Jobs -> SUBSET Fingerprints]
        /\ closed \in [Jobs -> SUBSET Fingerprints]
        /\ open \in [Fingerprints -> Nat]
        /\ \A f \in Fingerprints : open[f] <= 1
    BY <1>1 DEF TypeOK, OneOpenIssue
  <1> USE DEF Queue!Next, Queue!vars
  <1>5. CASE Load(j)
    <2>1. /\ DueNow = {} /\ GoneNow = {} /\ GoneNow' = {} /\ open' = open
          /\ at'[j] \in {"label", "exited"}
          /\ at'[j] = "label" => Findings(j) # {}
          /\ todo'[j] = Findings(j)
      BY <1>3, <1>4, <1>5 DEF Load, Exits
    <2>2. CASE at'[j] = "label"
      <3>1. DueNow' = Findings(j) /\ Findings(j) # {} /\ Findings(j) \in SUBSET Fingerprints
        BY <1>3, <2>1, <2>2 DEF Findings, Rows
      <3>2. Queue!ComeUp(Findings(j))
        BY <2>1, <3>1 DEF Queue!ComeUp
      <3> QED
        BY <3>1, <3>2
    <2>3. CASE at'[j] = "exited"
      <3>1. DueNow' = {}
        BY <1>3, <2>3
      <3> QED
        BY <2>1, <3>1
    <2> QED
      BY <2>1, <2>2, <2>3
  <1>6. CASE EnsureLabel(j) \/ ExistingIssues(j)
    <2>1. /\ DueNow' = DueNow /\ GoneNow' = GoneNow /\ open' = open
      BY <1>3, <1>4, <1>6 DEF EnsureLabel, ExistingIssues
    <2> QED
      BY <2>1
  <1>7. CASE GhFails(j) \/ Summarise(j)
    <2>1. DueNow' = {} /\ GoneNow' = {} /\ open' = open
      BY <1>3, <1>4, <1>7 DEF GhFails, Summarise, Exits
    <2> QED
      BY <2>1 DEF Queue!GiveUp
  <1>8. ASSUME NEW f \in Fingerprints, Comment(j, f) PROVE Queues
    <2>1. /\ DueNow = todo[j] /\ GoneNow = closed[j] /\ f \in todo[j] /\ f \in known[j]
          /\ DueNow' = todo[j] \ {f} /\ GoneNow' = closed[j] /\ open' = open
          /\ at[j] = "file"
      BY <1>3, <1>4, <1>8 DEF Comment, IsNext
    <2>2. open[f] > 0 \/ f \in closed[j]
      BY <1>1, <2>1 DEF KnownWasOpen
    <2>3. open[f] = 1 \/ f \in closed[j]
      BY <1>4, <2>2
    <2>4. Queue!Update(f)
      BY <2>1, <2>3 DEF Queue!Update
    <2> QED
      BY <2>4
  <1>9. ASSUME NEW f \in Fingerprints, Create(j, f) PROVE Queues
    <2>1. /\ DueNow = todo[j] /\ GoneNow = closed[j] /\ f \in todo[j] \ known[j]
          /\ DueNow' = todo[j] \ {f} /\ GoneNow' = closed[j]
          /\ open' = [open EXCEPT ![f] = open[f] + 1]
          /\ at[j] = "file"
      BY <1>3, <1>4, <1>9 DEF Create, IsNext
    <2>2. open[f] = 0
      BY <1>1, <2>1 DEF KnownIsComplete
    <2>3. Queue!File(f)
      BY <2>1, <2>2 DEF Queue!File
    <2> QED
      BY <2>3
  <1>10. ASSUME NEW f \in Fingerprints, CreateAnswerLost(j, f) PROVE Queues
    <2>1. /\ DueNow = todo[j] /\ f \in todo[j] \ known[j]
          /\ DueNow' = {} /\ GoneNow' = {}
          /\ open' = [open EXCEPT ![f] = open[f] + 1]
          /\ at[j] = "file"
      BY <1>3, <1>4, <1>10 DEF CreateAnswerLost, IsNext, Exits
    <2>2. open[f] = 0
      BY <1>1, <2>1 DEF KnownIsComplete
    <2>3. Queue!GiveUp
      <3>1. f \in DueNow /\ open' = [open EXCEPT ![f] = 1]
        BY <2>1, <2>2
      <3> QED
        BY <2>1, <2>2, <3>1, Zenon DEF Queue!GiveUp
    <2> QED
      BY <2>3
  <1> HIDE DEF Queues
  <1> QED
    BY <1>2, <1>5, <1>6, <1>7, <1>8, <1>9, <1>10, Zenon DEF TriageStep, Queues

\* People close an issue of the queue.
LEMMA PeopleClose ==
    ASSUME Inv, Inv', NEW f \in Fingerprints, CloseIssue(f)
    PROVE  [Queue!Next]_(Queue!vars)
  <1>1. TypeOK /\ OneInProgress /\ TypeOK' /\ OneInProgress'
    BY DEF Inv
  <1>2. open[f] = 1 /\ open' = [open EXCEPT ![f] = 0]
    <2>1. open \in [Fingerprints -> Nat] /\ open[f] <= 1
      BY Zenon DEF Inv, TypeOK, OneOpenIssue
    <2>2. open[f] > 0 /\ open' = [open EXCEPT ![f] = open[f] - 1]
      BY Zenon DEF CloseIssue
    <2>3. open[f] = 1
      BY <2>1, <2>2
    <2> QED
      BY <2>2, <2>3
  <1>3. DueNow' = DueNow
    BY DEF CloseIssue, DueNow
  <1>4. GoneNow' \in {GoneNow, GoneNow \cup {f}}
    <2>1. CASE \E j \in Jobs : at[j] = "file"
      <3>1. PICK j \in Jobs : at[j] = "file"
        BY <2>1
      <3>2. GoneNow = closed[j] /\ GoneNow' = closed'[j]
        BY <1>1, <3>1, DueOfOne, DueOfOneNext DEF CloseIssue
      <3> QED
        BY <3>1, <3>2 DEF CloseIssue
    <2>2. CASE ~\E j \in Jobs : at[j] = "file"
      BY <2>2 DEF CloseIssue, GoneNow
    <2> QED
      BY <2>1, <2>2
  <1>5. Queue!Close(f)
    BY <1>2, <1>3, <1>4 DEF Queue!Close
  <1> QED
    BY <1>5 DEF Queue!Next

\* A run that ends gives up what its triage had left.
LEMMA EndsGiveUp ==
    ASSUME Inv, Inv', NEW j \in Jobs, InProgress(j), NEW success, Conclude(j, success)
    PROVE  [Queue!Next]_(Queue!vars)
  <1>1. TypeOK /\ OneInProgress
    BY DEF Inv
  <1>2. \A k \in Jobs : at[k] # "off" => k = j
    BY <1>1 DEF OneInProgress, InProgress, TypeOK
  <1>3. \A k \in Jobs : at'[k] = "off"
    BY <1>1, <1>2 DEF Conclude, TypeOK
  <1>4. DueNow' = {} /\ GoneNow' = {} /\ open' = open
    BY <1>3 DEF DueNow, GoneNow, Conclude
  <1> QED
    BY <1>4 DEF Queue!Next, Queue!GiveUp

\* The workflow implements the issue queue its users see: what a triage decides by the
\* list it read is what the issues as they are when it acts would have it do.
THEOREM WorkflowImplementsIssueQueue == Spec => ImplementsIssueQueue
  <1>1. Init => Queue!Init
    BY DEF Init, TriageInit, Queue!Init, DueNow, GoneNow
  <1>2. Inv /\ Inv' /\ [Next]_vars => [Queue!Next]_(Queue!vars)
    <2> DEFINE Queues == [Queue!Next]_(Queue!vars)
    <2> SUFFICES ASSUME Inv, Inv', [Next]_vars PROVE Queues
      OBVIOUS
    <2>1. TypeOK
      BY DEF Inv
    <2>2. ASSUME UNCHANGED <<at, todo, closed, open>> PROVE Queues
      BY <2>2 DEF DueNow, GoneNow, Queue!vars
    <2>3. ASSUME NEW j \in Jobs, Trigger(j) \/ Begin(j) PROVE Queues
      <3>1. UNCHANGED <<at, todo, closed, open>>
        BY <2>3 DEF Trigger, Begin, triageVars
      <3> QED
        BY <2>2, <3>1
    <2>4. ASSUME NEW j \in Jobs, SuitesEnd(j) PROVE Queues
      <3>1. at[j] = "off" /\ at' = [at EXCEPT ![j] = "start"] /\ UNCHANGED <<todo, closed, open>>
        BY <2>1, <2>4 DEF SuitesEnd, TypeOK
      <3>2. /\ \A k \in Jobs : at'[k] \in {"label", "list", "file"} <=> at[k] \in {"label", "list", "file"}
            /\ \A k \in Jobs : at'[k] = "file" <=> at[k] = "file"
        BY <2>1, <3>1 DEF TypeOK
      <3>3. DueNow' = DueNow /\ GoneNow' = GoneNow
        BY <3>1, <3>2 DEF DueNow, GoneNow
      <3> QED
        BY <3>1, <3>3 DEF Queue!vars
    <2>5. ASSUME NEW j \in Jobs, RunTriage(j) PROVE Queues
      BY <2>5, TriageQueues
    <2>6. ASSUME NEW j \in Jobs, BuildFails(j) \/ TriageEnds(j) \/ Cancelled(j) PROVE Queues
      <3>1. InProgress(j) /\ \E success : Conclude(j, success)
        BY <2>6 DEF BuildFails, TriageEnds, Cancelled, InProgress
      <3> QED
        BY <3>1, EndsGiveUp
    <2>7. CASE People
      <3>1. PICK f \in Fingerprints : CloseIssue(f)
        BY <2>7 DEF People
      <3> QED
        BY <3>1, PeopleClose
    <2>8. CASE Weather \/ UNCHANGED vars
      <3>1. UNCHANGED <<at, todo, closed, open>>
        BY <2>8 DEF Weather, vars, triageVars
      <3> QED
        BY <2>2, <3>1
    <2> HIDE DEF Queues
    <2> QED
      BY <2>3, <2>4, <2>5, <2>6, <2>7, <2>8, NextActions
  <1> QED
    BY <1>1, <1>2, InvHolds, PTL DEF Spec, ImplementsIssueQueue, Queue!Spec
=============================================================================
