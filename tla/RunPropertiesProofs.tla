------------------------- MODULE RunPropertiesProofs -------------------------
(***************************************************************************)
(* Proofs about the run scripts, for every set of properties, every        *)
(* listing and any number of runs over one directory: reports are fresh,   *)
(* silent deaths are reported, the exit status is news and nothing else,   *)
(* and the script keeps the promise of SuiteReport.                        *)
(***************************************************************************)
EXTENDS RunProperties, TLAPS, FiniteSetTheorems

Files == [state : {"absent", "empty", "partial", "rows"}, entry : Entry \cup {NoName},
          status : Statuses, run : Nat]

Typed ==
    /\ phase \in {"stopped", "loop", "running", "ended", "exited"}
    /\ run \in Nat
    /\ listing \in Seq(Entry \cup {NoName}) /\ Len(listing) <= MaxListed
    /\ index \in 0..Len(listing)
    /\ status \in {0, 1}
    /\ outDir \in [Slugs -> Files]
    /\ log \in BOOLEAN
    /\ process \in {"none", "lived", "died"}
    /\ verdict \in [Slugs -> Verdicts \cup {"none"}]
    /\ fate \in [Slugs -> {"none", "lived", "died"}]

InProgress == phase \in {"running", "ended"}

\* The properties that were launched have names, and the verdicts they may have; those
\* that were not have none.
LaunchedAreNamed ==
    /\ \A i \in 1..index : listing[i] \in Entry /\ verdict[i] \in VerdictsOf(listing[i]) \cup {"none"}
    /\ \A i \in Slugs : i > index => verdict[i] = "none"

\* Those that have been dealt with are the first ones, all that were launched except one
\* that is in progress or was when the script was killed.
FirstOnesReported ==
    \E n \in 0..index :
        /\ Reported = 1..n
        /\ index <= n + 1
        /\ phase \in {"loop", "exited"} => n = index
        /\ InProgress => index = n + 1

\* The file of the property in progress is complete exactly if there is a verdict, which
\* is then what it says; a process that lived has completed it.
CurrentFile ==
    /\ InProgress =>
          IF verdict[index] = "none" THEN Json.state # "rows" ELSE Json = Rows(Current, verdict[index])
    /\ phase = "ended" => process # "none" /\ (process = "lived" => verdict[index] # "none")

Inv ==
    /\ Typed
    /\ LaunchedAreNamed
    /\ FirstOnesReported
    /\ CurrentFile
    /\ ReportsAreFresh
    /\ SilentDeathIsReported
    /\ StatusIsNews

-----------------------------------------------------------------------------
\* What the invariant says of the property in progress.
LEMMA CurrentInProgress ==
    ASSUME Inv, InProgress
    PROVE  /\ index \in Slugs /\ index \in 1..Len(listing)
           /\ Current \in Entry
           /\ Reported = 1..(index - 1)
           /\ Json \in Files
           /\ verdict[index] \in VerdictsOf(Current) \cup {"none"}
<1>1. PICK n \in 0..index : Reported = 1..n /\ index = n + 1
  BY DEF Inv, FirstOnesReported
<1>2. Len(listing) \in Nat /\ MaxListed \in Nat /\ index \in 1..Len(listing)
  BY <1>1, EntryAssumption DEF Inv, Typed
<1>3. index \in Slugs /\ index \in 1..index
  BY <1>2 DEF Slugs, Inv, Typed
<1>4. Reported = 1..(index - 1)
  BY <1>1, <1>2
<1> QED
  BY <1>2, <1>3, <1>4 DEF Inv, Typed, LaunchedAreNamed, Current, Json

\* A file completed by DuckDB or by crash_record.py is a file.
LEMMA RowsAreFiles ==
    ASSUME Typed, NEW e \in Entry, NEW s \in Statuses
    PROVE  Rows(e, s) \in Files
BY DEF Typed, Rows, Absent, Files, Statuses, Verdicts

\* The verdicts of RunProperty, as against the statuses the scripts make.
LEMMA VerdictsAreStatuses ==
    ASSUME NEW e \in Entry
    PROVE  /\ VerdictsOf(e) \subseteq Verdicts /\ Verdicts \subseteq Statuses
           /\ "none" \notin Verdicts /\ "crash" \notin Verdicts /\ "sanitizer" \notin Verdicts
           /\ Expectation[e] = "known_fail" => "known_fail" \in VerdictsOf(e)
BY DEF VerdictsOf, Verdicts, Statuses

\* The reports made stay what they are, and what is said of them stays true, as long as
\* nothing but the files of properties that have not been dealt with changes.
LEMMA ReportsStay ==
    ASSUME Inv, UNCHANGED <<run, listing, fate>>,
           \A i \in Reported : outDir'[i] = outDir[i] /\ verdict'[i] = verdict[i],
           \/ UNCHANGED status
           \/ status' = 1 /\ (listing = <<>> \/ NoName \in {listing[i] : i \in 1..Len(listing)})
    PROVE  ReportsAreFresh' /\ SilentDeathIsReported' /\ StatusIsNews'
<1>1. Reported' = Reported
  BY DEF Reported
<1>2. \A i \in Reported : ReportOn(i)' = ReportOn(i)
  BY DEF ReportOn
<1>3. ReportsAreFresh'
  BY <1>1 DEF Inv, ReportsAreFresh
<1>4. SilentDeathIsReported'
  BY <1>1, <1>2 DEF Inv, SilentDeathIsReported
<1>5. StatusIsNews'
  BY <1>1, <1>2 DEF Inv, StatusIsNews
<1> QED
  BY <1>3, <1>4, <1>5

\* What a file says of its property.
Says(file) == IF file.state = "rows" THEN file.status ELSE "torn"

\* A property that is dealt with by a file that is its own, that tells a death from a
\* verdict, and that sets the exit status if it is news, keeps the invariant.
LEMMA CollectedKeepsInv ==
    ASSUME Inv, Collected, NEW file \in Files, outDir' = [outDir EXCEPT ![index] = file],
           file.state \in {"partial", "rows"},
           file.state = "rows" => file.entry = Current /\ file.run = run,
           process = "lived" =>
               file.state = "rows" /\ file.status \in {verdict[index], "sanitizer", "known_fail"},
           process = "died" /\ verdict[index] = "none" =>
               Says(file) \in {"torn", IF KnownFail THEN "known_fail" ELSE "crash"},
           KnownFail => Says(file) \notin {"crash", "sanitizer"} /\ status' = status,
           ~KnownFail => \/ status' = status /\ Says(file) \notin {"crash", "sanitizer"}
                         \/ status' = 1 /\ Says(file) \in {"crash", "sanitizer", "torn"}
    PROVE  Inv' /\ Reported' = Reported \cup {index} /\ ReportOn(index)' = Says(file)
           /\ \A i \in Reported : ReportOn(i)' = ReportOn(i)
<1>1. /\ phase = "ended" /\ InProgress
      /\ phase' = "loop"
      /\ fate' = [fate EXCEPT ![index] = process]
      /\ UNCHANGED <<run, listing, index, log, process, verdict>>
  BY DEF Collected, InProgress
<1>2. /\ index \in Slugs /\ index \in 1..Len(listing)
      /\ Current \in Entry
      /\ Reported = 1..(index - 1)
      /\ verdict[index] \in VerdictsOf(Current) \cup {"none"}
  BY <1>1, CurrentInProgress
<1>3. process \in {"lived", "died"}
  BY <1>1 DEF Inv, Typed, CurrentFile
<1>4. /\ fate'[index] = process /\ outDir'[index] = file
      /\ \A i \in Slugs : i # index => fate'[i] = fate[i] /\ outDir'[i] = outDir[i]
  BY <1>1, <1>2 DEF Inv, Typed
<1>5. index \notin Reported /\ Reported \subseteq Slugs
  BY <1>2 DEF Reported
<1>6. Reported' = Reported \cup {index}
  BY <1>2, <1>3, <1>4, <1>5 DEF Reported, Slugs
<1>7. ReportOn(index)' = Says(file)
  <2>1. CASE file.state = "rows"
    BY <1>1, <1>4, <2>1 DEF ReportOn, Says
  <2>2. CASE file.state = "partial"
    BY <1>1, <1>4, <2>2 DEF ReportOn, Says
  <2> QED
    BY <2>1, <2>2
<1>8. \A i \in Reported : ReportOn(i)' = ReportOn(i)
  BY <1>4, <1>5 DEF ReportOn
<1>9. Typed'
  BY <1>1, <1>2, <1>3 DEF Inv, Typed
<1>10. LaunchedAreNamed'
  BY <1>1 DEF Inv, LaunchedAreNamed
<1>11. FirstOnesReported'
  <2>1. index \in Nat /\ index >= 1
    BY <1>2
  <2>2. Reported' = 1..index
    BY <1>2, <1>6, <2>1
  <2> QED
    BY <1>1, <2>1, <2>2 DEF FirstOnesReported, InProgress
<1>12. CurrentFile'
  BY <1>1 DEF CurrentFile, InProgress
<1>13. ReportsAreFresh'
  <2>1. ASSUME NEW i \in Reported
        PROVE  /\ outDir'[i].state \in {"partial", "rows"}
               /\ outDir'[i].state = "rows" => outDir'[i].entry = listing'[i] /\ outDir'[i].run = run'
               /\ fate'[i] = "lived" =>
                     outDir'[i].state = "rows" /\ outDir'[i].status \in {verdict'[i], "sanitizer", "known_fail"}
    BY <1>1, <1>4, <1>5, <2>1 DEF Inv, ReportsAreFresh
  <2>2. /\ outDir'[index].state \in {"partial", "rows"}
        /\ outDir'[index].state = "rows" =>
              outDir'[index].entry = listing'[index] /\ outDir'[index].run = run'
        /\ fate'[index] = "lived" =>
              /\ outDir'[index].state = "rows"
              /\ outDir'[index].status \in {verdict'[index], "sanitizer", "known_fail"}
    BY <1>1, <1>4 DEF Current
  <2> QED
    BY <1>6, <2>1, <2>2 DEF ReportsAreFresh
<1>14. SilentDeathIsReported'
  <2>1. ASSUME NEW i \in Reported, fate'[i] = "died", verdict'[i] = "none"
        PROVE  ReportOn(i)' \in
                  {"torn", IF Expectation[listing'[i]] = "known_fail" THEN "known_fail" ELSE "crash"}
    BY <1>1, <1>4, <1>5, <1>8, <2>1 DEF Inv, SilentDeathIsReported
  <2>2. ASSUME fate'[index] = "died", verdict'[index] = "none"
        PROVE  ReportOn(index)' \in
                  {"torn", IF Expectation[listing'[index]] = "known_fail" THEN "known_fail" ELSE "crash"}
    BY <1>1, <1>4, <1>7, <2>2 DEF KnownFail, Current
  <2> QED
    BY <1>1, <1>6, <2>1, <2>2 DEF SilentDeathIsReported, ReportOn
<1>15. StatusIsNews'
  <2>1. (\E i \in Reported' : ReportOn(i)' \in {"crash", "sanitizer"}) => status' = 1
    <3>1. ASSUME NEW i \in Reported, ReportOn(i)' \in {"crash", "sanitizer"}
          PROVE  status' = 1
      <4>1. ReportOn(i) \in {"crash", "sanitizer"}
        BY <1>8, <3>1
      <4>2. status = 1
        BY <4>1 DEF Inv, StatusIsNews
      <4>3. status' = status \/ status' = 1
        OBVIOUS
      <4> QED
        BY <4>2, <4>3
    <3>2. ASSUME ReportOn(index)' \in {"crash", "sanitizer"}
          PROVE  status' = 1
      <4>1. ReportOn(index)' = Says(file)
        BY <1>7
      <4>2. Says(file) \in {"crash", "sanitizer"}
        BY <3>2, <4>1
      <4> QED
        BY <4>2
    <3>3. ASSUME NEW i \in Reported', ReportOn(i)' \in {"crash", "sanitizer"}
          PROVE  status' = 1
      <4>1. CASE i \in Reported
        BY <3>1, <3>3, <4>1
      <4>2. CASE i = index
        BY <1>1, <3>2, <3>3, <4>2 DEF ReportOn
      <4> QED
        BY <1>6, <3>3, <4>1, <4>2
    <3> QED
      BY <3>3
  <2>2. ASSUME NEW i \in Reported', Expectation[listing'[i]] = "known_fail"
        PROVE  ReportOn(i)' \notin {"crash", "sanitizer"}
    <3>1. CASE i \in Reported
      BY <1>1, <1>8, <2>2, <3>1 DEF Inv, StatusIsNews
    <3>2. CASE i = index
      <4>1. KnownFail
        BY <1>1, <2>2, <3>2 DEF KnownFail, Current
      <4>2. ReportOn(i)' = Says(file)
        BY <1>1, <1>7, <3>2 DEF ReportOn
      <4> QED
        BY <4>1, <4>2
    <3> QED
      BY <1>6, <2>2, <3>1, <3>2
  <2>3. ASSUME status' = 1, NoName \notin {listing'[i] : i \in 1..Len(listing')}, listing' # <<>>
        PROVE  \E i \in Reported' :
                   /\ Expectation[listing'[i]] # "known_fail"
                   /\ ReportOn(i)' \in {"crash", "sanitizer", "torn"}
    <3>1. CASE status = 1
      BY <1>1, <1>6, <1>8, <2>3, <3>1 DEF Inv, StatusIsNews
    <3>2. CASE status # 1
      <4>1. ~KnownFail /\ Says(file) \in {"crash", "sanitizer", "torn"}
        BY <2>3, <3>2
      <4> QED
        BY <1>1, <1>6, <1>7, <4>1 DEF KnownFail, Current
    <3> QED
      BY <3>1, <3>2
  <2> QED
    BY <2>1, <2>2, <2>3 DEF StatusIsNews
<1> QED
  BY <1>6, <1>7, <1>8, <1>9, <1>10, <1>11, <1>12, <1>13, <1>14, <1>15 DEF Inv

-----------------------------------------------------------------------------
\* Nothing has been launched or reported before the script is started.
LEMMA InitInv == Init => Inv
<1> SUFFICES ASSUME Init PROVE Inv
  OBVIOUS
<1>1. MaxListed \in Nat /\ Len(<<>>) = 0 /\ <<>> \in Seq(Entry \cup {NoName})
  BY EntryAssumption
<1>2. Absent \in Files
  BY DEF Absent, Files, Statuses, Verdicts
<1>3. Typed
  <2>1. listing \in Seq(Entry \cup {NoName}) /\ Len(listing) <= MaxListed /\ index \in 0..Len(listing)
    BY <1>1 DEF Init
  <2>2. outDir \in [Slugs -> Files]
    BY <1>2 DEF Init
  <2>3. verdict \in [Slugs -> Verdicts \cup {"none"}] /\ fate \in [Slugs -> {"none", "lived", "died"}]
    BY DEF Init
  <2> QED
    BY <2>1, <2>2, <2>3 DEF Init, Typed
<1>4. Reported = 1..0 /\ Reported = {}
  BY DEF Init, Reported
<1>5. LaunchedAreNamed
  BY DEF Init, LaunchedAreNamed
<1>6. FirstOnesReported
  BY <1>4 DEF Init, FirstOnesReported, InProgress
<1>7. CurrentFile
  BY DEF Init, CurrentFile, InProgress
<1>8. ReportsAreFresh /\ SilentDeathIsReported
  BY <1>4 DEF ReportsAreFresh, SilentDeathIsReported
<1>9. StatusIsNews
  BY <1>4 DEF Init, StatusIsNews
<1> QED
  BY <1>3, <1>5, <1>6, <1>7, <1>8, <1>9 DEF Inv

\* A start forgets what was reported, and keeps the directory.
LEMMA StartKeepsInv ==
    ASSUME Inv, Start
    PROVE  Inv'
<1>1. listing' \in Seq(Entry \cup {NoName}) /\ Len(listing') <= MaxListed /\ Len(listing') \in Nat
  BY EntryAssumption DEF Inv, Typed, Start
<1>2. Typed'
  BY <1>1 DEF Inv, Typed, Start
<1>3. Reported' = 1..0 /\ Reported' = {}
  BY DEF Start, Reported
<1>4. LaunchedAreNamed'
  BY DEF Start, LaunchedAreNamed
<1>5. FirstOnesReported'
  BY <1>3 DEF Start, FirstOnesReported, InProgress
<1>6. CurrentFile'
  BY DEF Start, CurrentFile, InProgress
<1>7. ReportsAreFresh' /\ SilentDeathIsReported'
  BY <1>3 DEF ReportsAreFresh, SilentDeathIsReported
<1>8. StatusIsNews'
  BY <1>3 DEF Start, StatusIsNews
<1> QED
  BY <1>2, <1>4, <1>5, <1>6, <1>7, <1>8 DEF Inv

\* The script moves on, or stops, without a report.
LEMMA ControlKeepsInv ==
    ASSUME Inv, ListingError \/ Exit \/ ScriptKilled
    PROVE  Inv'
<1>1. /\ UNCHANGED <<run, listing, index, outDir, log, process, verdict, fate>>
      /\ phase' \in {"exited", "stopped"}
      /\ phase' = "exited" => phase = "loop"
  BY DEF ListingError, Exit, ScriptKilled
<1>2. \/ UNCHANGED status
      \/ status' = 1 /\ (listing = <<>> \/ NoName \in {listing[i] : i \in 1..Len(listing)})
  <2>1. CASE ListingError
    <3>1. ASSUME index < Len(listing), listing[index + 1] = NoName
          PROVE  NoName \in {listing[i] : i \in 1..Len(listing)}
      <4>1. index + 1 \in 1..Len(listing)
        BY <3>1 DEF Inv, Typed
      <4> QED
        BY <3>1, <4>1
    <3> QED
      BY <2>1, <3>1 DEF ListingError
  <2>2. CASE Exit \/ ScriptKilled
    BY <2>2 DEF Exit, ScriptKilled
  <2> QED
    BY <2>1, <2>2
<1>3. ReportsAreFresh' /\ SilentDeathIsReported' /\ StatusIsNews'
  BY <1>1, <1>2, ReportsStay
<1>4. Typed'
  BY <1>1, <1>2 DEF Inv, Typed
<1>5. LaunchedAreNamed'
  BY <1>1 DEF Inv, LaunchedAreNamed
<1>6. FirstOnesReported'
  BY <1>1 DEF Inv, FirstOnesReported, Reported, InProgress
<1>7. CurrentFile'
  BY <1>1 DEF CurrentFile, InProgress
<1> QED
  BY <1>3, <1>4, <1>5, <1>6, <1>7 DEF Inv

\* The next property is launched on a file that is absent, and no report is touched.
LEMMA LaunchKeepsInv ==
    ASSUME Inv, Launch
    PROVE  Inv'
<1>1. /\ phase = "loop" /\ index \in 0..Len(listing) /\ index < Len(listing)
      /\ Len(listing) \in Nat /\ Len(listing) <= MaxListed /\ MaxListed \in Nat
  BY EntryAssumption DEF Inv, Typed, Launch
<1>2. index + 1 \in Slugs /\ index + 1 \in 1..Len(listing) /\ index \in Nat
  BY <1>1 DEF Slugs
<1>3. listing[index + 1] \in Entry
  <2>1. listing[index + 1] \in Entry \cup {NoName}
    BY <1>2 DEF Inv, Typed
  <2> QED
    BY <2>1 DEF Launch
<1>4. Reported = 1..index
  BY <1>1 DEF Inv, FirstOnesReported
<1>5. \A i \in Reported : outDir'[i] = outDir[i]
  <2>1. ASSUME NEW i \in Reported
        PROVE  outDir'[i] = outDir[i]
    <3>1. i # index + 1 /\ i \in Slugs
      BY <1>2, <1>4, <2>1 DEF Reported
    <3> QED
      BY <3>1 DEF Launch, Inv, Typed
  <2> QED
    BY <2>1
<1>6. ReportsAreFresh' /\ SilentDeathIsReported' /\ StatusIsNews'
  BY <1>5, ReportsStay DEF Launch
<1>7. Absent \in Files
  BY DEF Absent, Files, Statuses, Verdicts
<1>8. Typed'
  <2>1. index' \in 0..Len(listing') /\ listing' = listing
    BY <1>1, <1>2 DEF Launch
  <2>2. outDir' \in [Slugs -> Files]
    BY <1>7 DEF Launch, Inv, Typed
  <2> QED
    BY <2>1, <2>2 DEF Launch, Inv, Typed
<1>9. LaunchedAreNamed'
  <2>1. verdict[index + 1] = "none"
    BY <1>2 DEF Inv, LaunchedAreNamed
  <2>2. index' = index + 1 /\ UNCHANGED <<listing, verdict>>
    BY DEF Launch
  <2>3. \A i \in 1..(index + 1) : i \in 1..index \/ i = index + 1
    BY <1>2
  <2>4. \A i \in Slugs : i > index + 1 => i > index
    BY <1>2 DEF Slugs
  <2> QED
    BY <1>3, <2>1, <2>2, <2>3, <2>4 DEF Inv, LaunchedAreNamed
<1>10. FirstOnesReported'
  <2>1. Reported' = 1..index /\ index' = index + 1 /\ index \in 0..index'
    BY <1>2, <1>4 DEF Reported, Launch
  <2> QED
    BY <1>2, <2>1 DEF FirstOnesReported, Launch
<1>11. CurrentFile'
  <2>1. verdict'[index'] = "none" /\ outDir'[index'] = Absent /\ phase' = "running"
    BY <1>2 DEF Launch, Inv, Typed, LaunchedAreNamed
  <2> QED
    BY <2>1 DEF CurrentFile, Json, Absent
<1> QED
  BY <1>6, <1>8, <1>9, <1>10, <1>11 DEF Inv

-----------------------------------------------------------------------------
\* A process that does not complete its file changes no report and no verdict.
LEMMA WritingKeepsInv ==
    ASSUME Inv, CreateFile \/ WriteSome \/ Diagnose
    PROVE  Inv'
<1>1. /\ phase = "running" /\ InProgress
      /\ UNCHANGED <<phase, run, listing, index, status, process, verdict, fate>>
      /\ log' \in BOOLEAN
  BY DEF CreateFile, WriteSome, Diagnose, InProgress, Inv, Typed
<1>2. index \in Slugs /\ Reported = 1..(index - 1) /\ index \notin Reported /\ Json \in Files
  <2>1. index \in Slugs /\ Reported = 1..(index - 1) /\ Json \in Files
    BY <1>1, CurrentInProgress
  <2> QED
    BY <2>1 DEF Slugs
<1>3. Empty \in Files /\ Partial \in Files /\ Empty.state = "empty" /\ Partial.state = "partial"
  BY DEF Empty, Partial, Absent, Files, Statuses, Verdicts
<1>4. PICK file \in Files :
         /\ outDir' = [outDir EXCEPT ![index] = file]
         /\ file = Json \/ (file.state # "rows" /\ Json.state # "rows")
  <2>1. CASE CreateFile
    BY <1>3, <2>1 DEF CreateFile, Absent
  <2>2. CASE WriteSome
    BY <1>3, <2>2 DEF WriteSome
  <2>3. CASE Diagnose
    BY <1>2, <2>3 DEF Diagnose, Json, Inv, Typed
  <2> QED
    BY <2>1, <2>2, <2>3
<1>5. \A i \in Reported : outDir'[i] = outDir[i]
  BY <1>2, <1>4 DEF Reported, Inv, Typed
<1>6. ReportsAreFresh' /\ SilentDeathIsReported' /\ StatusIsNews'
  BY <1>1, <1>5, ReportsStay
<1>7. Typed'
  BY <1>1, <1>2, <1>4 DEF Inv, Typed
<1>8. LaunchedAreNamed'
  BY <1>1 DEF Inv, LaunchedAreNamed
<1>9. FirstOnesReported'
  BY <1>1 DEF Inv, FirstOnesReported, Reported, InProgress
<1>10. CurrentFile'
  <2>1. Json' = file
    BY <1>1, <1>2, <1>4 DEF Json, Inv, Typed
  <2>2. IF verdict[index] = "none" THEN file.state # "rows" ELSE file = Rows(Current, verdict[index])
    BY <1>1, <1>4 DEF Inv, CurrentFile, Rows
  <2> QED
    BY <1>1, <2>1, <2>2 DEF CurrentFile, InProgress, Rows, Current
<1> QED
  BY <1>6, <1>7, <1>8, <1>9, <1>10 DEF Inv

\* The process completes its file with its own verdict.
LEMMA WriteRowKeepsInv ==
    ASSUME Inv, WriteRow
    PROVE  Inv'
<1>1. /\ phase = "running" /\ InProgress
      /\ UNCHANGED <<phase, run, listing, index, status, log, process, fate>>
  BY DEF WriteRow, InProgress
<1>2. /\ index \in Slugs /\ Reported = 1..(index - 1) /\ index \notin Reported
      /\ Current \in Entry
  <2>1. index \in Slugs /\ Reported = 1..(index - 1) /\ Current \in Entry
    BY <1>1, CurrentInProgress
  <2> QED
    BY <2>1 DEF Slugs
<1>3. PICK v \in VerdictsOf(Current) :
         /\ verdict' = [verdict EXCEPT ![index] = v]
         /\ outDir' = [outDir EXCEPT ![index] = Rows(Current, v)]
  BY DEF WriteRow
<1>4. v \in Verdicts /\ v # "none" /\ v \in Statuses
  BY <1>2, <1>3, VerdictsAreStatuses
<1>5. Rows(Current, v) \in Files
  BY <1>2, <1>4, RowsAreFiles DEF Inv
<1>6. \A i \in Reported : outDir'[i] = outDir[i] /\ verdict'[i] = verdict[i]
  BY <1>2, <1>3 DEF Reported, Inv, Typed
<1>7. ReportsAreFresh' /\ SilentDeathIsReported' /\ StatusIsNews'
  BY <1>1, <1>6, ReportsStay
<1>8. Typed'
  BY <1>1, <1>2, <1>3, <1>4, <1>5 DEF Inv, Typed
<1>9. LaunchedAreNamed'
  <2>1. \A i \in Slugs : i # index => verdict'[i] = verdict[i]
    BY <1>2, <1>3 DEF Inv, Typed
  <2>2. verdict'[index] \in VerdictsOf(listing[index])
    BY <1>2, <1>3 DEF Inv, Typed, Current
  <2>3. 1..index \subseteq Slugs
    BY <1>2, EntryAssumption DEF Slugs
  <2>4. \A i \in Slugs : i > index => i # index
    BY <1>2 DEF Slugs
  <2> QED
    BY <1>1, <2>1, <2>2, <2>3, <2>4 DEF Inv, LaunchedAreNamed
<1>10. FirstOnesReported'
  BY <1>1 DEF Inv, FirstOnesReported, Reported, InProgress
<1>11. CurrentFile'
  <2>1. Json' = Rows(Current, v) /\ verdict'[index] = v
    BY <1>1, <1>2, <1>3 DEF Json, Inv, Typed
  <2> QED
    BY <1>1, <1>4, <2>1 DEF CurrentFile, Rows, Current
<1> QED
  BY <1>7, <1>8, <1>9, <1>10, <1>11 DEF Inv

\* A process lives or dies, and leaves its file as it is.
LEMMA ProcessEndsKeepsInv ==
    ASSUME Inv, ProcessExits \/ ProcessDies \/ ProcessKilled
    PROVE  Inv'
<1>1. /\ phase = "running" /\ phase' = "ended" /\ InProgress /\ InProgress'
      /\ process' \in {"lived", "died"} /\ (process' = "lived" => Json.state = "rows")
      /\ UNCHANGED <<run, listing, index, status, outDir, log, verdict, fate>>
  BY DEF ProcessExits, ProcessDies, ProcessKilled, ProcessEnds, InProgress
<1>2. ReportsAreFresh' /\ SilentDeathIsReported' /\ StatusIsNews'
  BY <1>1, ReportsStay
<1>3. Typed'
  BY <1>1 DEF Inv, Typed
<1>4. LaunchedAreNamed'
  BY <1>1 DEF Inv, LaunchedAreNamed
<1>5. FirstOnesReported'
  BY <1>1 DEF Inv, FirstOnesReported, Reported
<1>6. CurrentFile'
  <2>1. Json' = Json /\ Current' = Current
    BY <1>1 DEF Json, Current
  <2>2. Rows(Current, verdict[index])' = Rows(Current, verdict[index])
    BY <1>1, <2>1 DEF Rows
  <2> QED
    BY <1>1, <2>1, <2>2 DEF Inv, CurrentFile
<1> QED
  BY <1>2, <1>3, <1>4, <1>5, <1>6 DEF Inv

-----------------------------------------------------------------------------
\* A completed file says what the verdict was, an incomplete one nothing but "torn".
LEMMA WhatWasWritten ==
    ASSUME Inv, InProgress
    PROVE  /\ Json.state = "rows" => /\ Json = Rows(Current, verdict[index])
                                     /\ Json.entry = Current /\ Json.run = run
                                     /\ Says(Json) = verdict[index]
                                     /\ verdict[index] \in VerdictsOf(Current)
           /\ Json.state # "rows" => verdict[index] = "none" /\ Says(Json) = "torn"
           /\ Says(Json) \notin {"crash", "sanitizer"}
<1>1. Current \in Entry /\ verdict[index] \in VerdictsOf(Current) \cup {"none"}
  BY CurrentInProgress
<1>2. IF verdict[index] = "none" THEN Json.state # "rows" ELSE Json = Rows(Current, verdict[index])
  BY DEF Inv, CurrentFile
<1>3. CASE Json.state = "rows"
  <2>1. Json = Rows(Current, verdict[index]) /\ verdict[index] # "none"
    BY <1>2, <1>3
  <2>2. Json.entry = Current /\ Json.run = run /\ Says(Json) = verdict[index]
    BY <1>3, <2>1 DEF Rows, Says
  <2>3. verdict[index] \in Verdicts
    BY <1>1, <2>1, VerdictsAreStatuses
  <2> QED
    BY <1>1, <1>3, <2>1, <2>2, <2>3, VerdictsAreStatuses
<1>4. CASE Json.state # "rows"
  <2>1. verdict[index] = "none"
    BY <1>2, <1>4 DEF Rows
  <2> QED
    BY <1>4, <2>1 DEF Says
<1> QED
  BY <1>3, <1>4

\* A file that is kept reports what was written.
LEMMA KeepKeepsInv ==
    ASSUME Inv, Keep
    PROVE  /\ Inv' /\ Reported' = Reported \cup {index} /\ ReportOn(index)' = Says(Json)
           /\ \A i \in Reported : ReportOn(i)' = ReportOn(i)
<1>1. Collected /\ InProgress /\ HasOutput /\ UNCHANGED <<status, outDir>> /\ phase = "ended"
  BY DEF Keep, Collected, InProgress
<1>2. index \in Slugs /\ Json \in Files
  BY <1>1, CurrentInProgress
<1>3. outDir' = [outDir EXCEPT ![index] = Json]
  BY <1>1, <1>2 DEF Json, Inv, Typed
<1>4. Json.state \in {"partial", "rows"}
  BY <1>1 DEF HasOutput
<1>5. process = "lived" => Json.state = "rows" /\ Says(Json) = verdict[index]
  BY <1>1, WhatWasWritten DEF Inv, CurrentFile
<1>6. process = "lived" =>
        Json.state = "rows" /\ Json.status \in {verdict[index], "sanitizer", "known_fail"}
  BY <1>5 DEF Says
<1>7. verdict[index] = "none" => Says(Json) = "torn"
  BY <1>1, <1>2, WhatWasWritten, CurrentInProgress, VerdictsAreStatuses
<1> QED
  BY <1>1, <1>2, <1>3, <1>4, <1>6, <1>7, WhatWasWritten, CollectedKeepsInv

\* A file that is annotated is stamped, or is torn.
LEMMA AnnotateKeepsInv ==
    ASSUME Inv, Annotate
    PROVE  /\ Inv' /\ Reported' = Reported \cup {index}
           /\ ReportOn(index)' \in {"torn", IF KnownFail THEN "known_fail" ELSE "sanitizer"}
           /\ \A i \in Reported : ReportOn(i)' = ReportOn(i)
<1> DEFINE stamp == IF KnownFail THEN "known_fail" ELSE "sanitizer"
           file == IF Json.state = "partial" THEN Json ELSE [Json EXCEPT !.status = stamp]
<1>1. Collected /\ InProgress /\ HasOutput /\ status' = StatusAfterNews /\ phase = "ended"
  BY DEF Annotate, Collected, InProgress
<1>2. index \in Slugs /\ Json \in Files /\ Current \in Entry
  BY <1>1, CurrentInProgress
<1>3. file \in Files
  BY <1>2 DEF Files, Statuses, Verdicts
<1>4. outDir' = [outDir EXCEPT ![index] = file]
  <2>1. CASE Json.state = "partial"
    BY <1>2, <2>1 DEF Annotate, Json, Inv, Typed
  <2>2. CASE Json.state # "partial"
    BY <1>2, <2>2 DEF Annotate, Json, Inv, Typed
  <2> QED
    BY <2>1, <2>2
<1>5. /\ file.state = Json.state /\ file.state \in {"partial", "rows"}
      /\ file.entry = Json.entry /\ file.run = Json.run
      /\ file.state = "rows" => file.status = stamp
  BY <1>1, <1>2 DEF HasOutput, Files
<1>6. Says(file) = IF Json.state = "rows" THEN stamp ELSE "torn"
  BY <1>5 DEF Says
<1>7. file.state = "rows" => file.entry = Current /\ file.run = run
  BY <1>1, <1>5, WhatWasWritten
<1>8. process = "lived" => Json.state = "rows"
  BY <1>1, WhatWasWritten DEF Inv, CurrentFile
<1>9. process = "lived" =>
        file.state = "rows" /\ file.status \in {verdict[index], "sanitizer", "known_fail"}
  BY <1>5, <1>8
<1>10. verdict[index] = "none" => Json.state # "rows"
  <2>1. verdict[index] = "none" => verdict[index] \notin VerdictsOf(Current)
    BY <1>2, VerdictsAreStatuses
  <2> QED
    BY <1>1, <2>1, WhatWasWritten
<1>11. KnownFail => Says(file) \notin {"crash", "sanitizer"} /\ status' = status
  BY <1>1, <1>6 DEF StatusAfterNews
<1>12. ~KnownFail => status' = 1 /\ Says(file) \in {"crash", "sanitizer", "torn"}
  BY <1>1, <1>6 DEF StatusAfterNews
<1>13. /\ Inv' /\ Reported' = Reported \cup {index} /\ ReportOn(index)' = Says(file)
       /\ \A i \in Reported : ReportOn(i)' = ReportOn(i)
  <2> HIDE DEF file, stamp
  <2>1. process = "died" /\ verdict[index] = "none" =>
          Says(file) \in {"torn", IF KnownFail THEN "known_fail" ELSE "crash"}
    BY <1>6, <1>10
  <2> QED
    BY <1>1, <1>3, <1>4, <1>5, <1>7, <1>9, <1>11, <1>12, <2>1, CollectedKeepsInv
<1> QED
  BY <1>6, <1>13

\* A crash record is made only of a process that did not live.
LEMMA RecordCrashKeepsInv ==
    ASSUME Inv, RecordCrash
    PROVE  /\ Inv' /\ Reported' = Reported \cup {index}
           /\ ReportOn(index)' = IF KnownFail THEN "known_fail" ELSE "crash"
           /\ \A i \in Reported : ReportOn(i)' = ReportOn(i)
<1> DEFINE stamp == IF KnownFail THEN "known_fail" ELSE "crash"
           file == Rows(Current, stamp)
<1>1. Collected /\ InProgress /\ ~HasOutput /\ status' = StatusAfterNews /\ phase = "ended"
      /\ outDir' = [outDir EXCEPT ![index] = file]
  BY DEF RecordCrash, Collected, InProgress
<1>2. Current \in Entry
  BY <1>1, CurrentInProgress
<1>3. file \in Files
  BY <1>2, RowsAreFiles DEF Inv, Statuses, Verdicts
<1>4. file.state = "rows" /\ file.entry = Current /\ file.run = run /\ Says(file) = stamp
  BY DEF Rows, Says
<1>5. process # "lived"
  <2>1. Json.state # "rows"
    BY <1>1 DEF HasOutput
  <2>2. verdict[index] = "none"
    BY <1>1, <2>1, WhatWasWritten
  <2> QED
    BY <1>1, <2>2 DEF Inv, CurrentFile
<1>6. KnownFail => Says(file) \notin {"crash", "sanitizer"} /\ status' = status
  BY <1>1, <1>4 DEF StatusAfterNews
<1>7. ~KnownFail => status' = 1 /\ Says(file) \in {"crash", "sanitizer", "torn"}
  BY <1>1, <1>4 DEF StatusAfterNews
<1>8. /\ Inv' /\ Reported' = Reported \cup {index} /\ ReportOn(index)' = Says(file)
      /\ \A i \in Reported : ReportOn(i)' = ReportOn(i)
  <2> HIDE DEF file
  <2> QED
    BY <1>1, <1>3, <1>4, <1>5, <1>6, <1>7, CollectedKeepsInv
<1> QED
  BY <1>4, <1>8

-----------------------------------------------------------------------------
\* Every step of the script, of DuckDB and of the timer keeps the invariant.
LEMMA NextInv == Inv /\ [Next]_vars => Inv'
<1> SUFFICES ASSUME Inv, [Next]_vars
             PROVE  Inv'
  OBVIOUS
<1>1. CASE Start
  BY <1>1, StartKeepsInv
<1>2. CASE ListingError \/ Exit \/ ScriptKilled
  BY <1>2, ControlKeepsInv
<1>3. CASE Launch
  BY <1>3, LaunchKeepsInv
<1>4. CASE Keep
  BY <1>4, KeepKeepsInv
<1>5. CASE Annotate
  BY <1>5, AnnotateKeepsInv
<1>6. CASE RecordCrash
  BY <1>6, RecordCrashKeepsInv
<1>7. CASE CreateFile \/ WriteSome \/ Diagnose
  BY <1>7, WritingKeepsInv
<1>8. CASE WriteRow
  BY <1>8, WriteRowKeepsInv
<1>9. CASE ProcessExits \/ ProcessDies \/ ProcessKilled
  BY <1>9, ProcessEndsKeepsInv
<1>10. CASE UNCHANGED vars
  <2>1. ReportsAreFresh' /\ SilentDeathIsReported' /\ StatusIsNews'
    BY <1>10, ReportsStay DEF vars
  <2>2. Typed' /\ LaunchedAreNamed'
    BY <1>10 DEF vars, Inv, Typed, LaunchedAreNamed
  <2>3. FirstOnesReported'
    BY <1>10 DEF vars, Inv, FirstOnesReported, Reported, InProgress
  <2>4. CurrentFile'
    BY <1>10 DEF vars, Inv, CurrentFile, InProgress, Json, Current, Rows
  <2> QED
    BY <2>1, <2>2, <2>3, <2>4 DEF Inv
<1> QED
  BY <1>1, <1>2, <1>3, <1>4, <1>5, <1>6, <1>7, <1>8, <1>9, <1>10 DEF Next, Script, DuckDB

\* The invariant of the run scripts.
LEMMA Invariance == Spec => []Inv
BY InitInv, NextInv, PTL DEF Spec

\* Whatever the listing and however often the script was killed and started again over
\* one directory, the file of a property that has been dealt with is its own, of this
\* run, and holds the verdict if its process lived.
THEOREM ReportsStayFresh == Spec => []ReportsAreFresh
<1>1. Inv => ReportsAreFresh
  BY DEF Inv
<1> QED
  BY <1>1, Invariance, PTL

\* A process that dies before its row is complete is never reported by a verdict: it is
\* a crash, the failure of a probe, or a file that is not valid JSON.
THEOREM SilentDeathsAreReported == Spec => []SilentDeathIsReported
<1>1. Inv => SilentDeathIsReported
  BY DEF Inv
<1> QED
  BY <1>1, Invariance, PTL

\* The exit status of the script is 1 for a crash or a sanitizer diagnostic, and never
\* for what a probe does.
THEOREM ExitStatusIsNews == Spec => []StatusIsNews
<1>1. Inv => StatusIsNews
  BY DEF Inv
<1> QED
  BY <1>1, Invariance, PTL

-----------------------------------------------------------------------------
\* The variables of SuiteReport as ImplementsSuiteReport gives them.
ReportsMade == [i \in 1..Cardinality(Reported) |-> ReportOn(i)]
Ended == CASE phase = "stopped" -> "aborted"
           [] phase = "exited" -> IF listing # <<>> /\ Cardinality(Reported) = Len(listing)
                                  THEN "complete" ELSE "aborted"
           [] OTHER -> "no"

\* The reports made are those on the first n properties, n being how many have been
\* dealt with.
LEMMA ReportsAreCounted ==
    ASSUME Inv
    PROVE  \E n \in 0..index :
             /\ Reported = 1..n /\ Cardinality(Reported) = n
             /\ ReportsMade = [i \in 1..n |-> ReportOn(i)]
             /\ ReportsMade \in Seq({ReportOn(i) : i \in 1..n}) /\ Len(ReportsMade) = n
             /\ index \in Nat /\ index <= n + 1
             /\ phase \in {"loop", "exited"} => n = index
             /\ InProgress => index = n + 1
<1>1. PICK n \in 0..index :
         /\ Reported = 1..n /\ index <= n + 1
         /\ phase \in {"loop", "exited"} => n = index
         /\ InProgress => index = n + 1
  BY DEF Inv, FirstOnesReported
<1>2. index \in Nat /\ n \in Nat
  BY DEF Inv, Typed
<1>3. Cardinality(Reported) = n
  <2>1. Cardinality(1..n) = IF 1 > n THEN 0 ELSE n - 1 + 1
    BY <1>2, FS_Interval
  <2> QED
    BY <1>1, <1>2, <2>1
<1>4. ReportsMade = [i \in 1..n |-> ReportOn(i)]
  BY <1>3 DEF ReportsMade
<1>5. ReportsMade \in Seq({ReportOn(i) : i \in 1..n}) /\ Len(ReportsMade) = n
  BY <1>2, <1>4
<1> QED
  BY <1>1, <1>2, <1>3, <1>4, <1>5

\* A step that deals with no property leaves the reports as they are.
LEMMA ReportsAreFinal ==
    ASSUME Inv, UNCHANGED fate, \A i \in Reported : ReportOn(i)' = ReportOn(i)
    PROVE  ReportsMade' = ReportsMade /\ Cardinality(Reported)' = Cardinality(Reported)
<1>1. Reported' = Reported
  BY DEF Reported
<1>2. \A i \in 1..Cardinality(Reported) : ReportOn(i)' = ReportOn(i)
  BY ReportsAreCounted
<1> QED
  BY <1>1, <1>2 DEF ReportsMade

\* A property that is dealt with is one more report, on the next property of the listing.
LEMMA CollectedReports ==
    ASSUME Inv, Inv', Collected, Reported' = Reported \cup {index},
           ReportOn(index)' \in ReportsOf(Current),
           \A i \in Reported : ReportOn(i)' = ReportOn(i)
    PROVE  Report!Report
<1>1. /\ phase = "ended" /\ phase' = "loop" /\ InProgress /\ UNCHANGED <<listing, index>>
  BY DEF Collected, InProgress
<1>2. /\ index \in 1..Len(listing) /\ Current \in Entry /\ Len(listing) \in Nat
      /\ Reported = 1..(index - 1)
  <2>1. index \in 1..Len(listing) /\ Current \in Entry /\ Reported = 1..(index - 1)
    BY <1>1, CurrentInProgress
  <2> QED
    BY <2>1 DEF Inv, Typed
<1>3. PICK n \in Nat :
         /\ index = n + 1 /\ Reported = 1..n
         /\ ReportsMade = [i \in 1..n |-> ReportOn(i)]
         /\ ReportsMade \in Seq({ReportOn(i) : i \in 1..n}) /\ Len(ReportsMade) = n
  <2>1. PICK m \in 0..index :
           /\ Reported = 1..m /\ Cardinality(Reported) = m
           /\ ReportsMade = [i \in 1..m |-> ReportOn(i)]
           /\ ReportsMade \in Seq({ReportOn(i) : i \in 1..m}) /\ Len(ReportsMade) = m
           /\ InProgress => index = m + 1
    BY ReportsAreCounted
  <2>2. m \in Nat
    BY <1>2, <2>1
  <2>3. index = m + 1
    BY <1>1, <2>1
  <2> QED
    BY <2>1, <2>2, <2>3
<1>4. PICK report : /\ report = ReportOn(index)' /\ report \in ReportsOf(Current)
                    /\ \A i : i = index => ReportOn(i)' = report
  BY <1>1 DEF ReportOn
<1>5. ReportsMade' = [i \in 1..(n + 1) |-> ReportOn(i)']
  <2>1. Reported' = 1..(n + 1)
    BY <1>3
  <2>2. Cardinality(1..(n + 1)) = IF 1 > n + 1 THEN 0 ELSE (n + 1) - 1 + 1
    BY <1>3, FS_Interval
  <2>3. Cardinality(1..(n + 1)) = n + 1
    BY <1>3, <2>2
  <2>4. Cardinality(Reported)' = n + 1
    BY <2>1, <2>3
  <2> QED
    BY <2>4 DEF ReportsMade
<1>6. ReportsMade' = Append(ReportsMade, report)
  <2>1. \A i \in 1..n : ReportOn(i)' = ReportsMade[i]
    BY <1>3
  <2>2. ReportsMade' = [i \in 1..(n + 1) |-> IF i = n + 1 THEN report ELSE ReportsMade[i]]
    BY <1>3, <1>4, <1>5, <2>1
  <2> QED
    BY <1>3, <2>2
<1>7. Ended = "no" /\ Ended' = "no"
  BY <1>1 DEF Ended
<1>8. Current = listing[Len(ReportsMade) + 1] /\ Len(ReportsMade) < Len(listing)
  BY <1>2, <1>3 DEF Current
<1>9. report \in [e \in Entry \cup {NoName} |-> IF e = NoName THEN {} ELSE ReportsOf(e)][listing[Len(ReportsMade) + 1]]
  BY <1>2, <1>4, <1>8, EntryAssumption
<1> QED
  BY <1>1, <1>6, <1>7, <1>8, <1>9 DEF Report!Report, ReportsMade, Ended


\* The initial state maps to the initial state of SuiteReport.
LEMMA InitReports == Init => Report!Init
<1> SUFFICES ASSUME Init PROVE Report!Init
  OBVIOUS
<1>1. Reported = {} /\ Cardinality(Reported) = 0
  BY FS_EmptySet DEF Init, Reported
<1>2. ReportsMade = <<>>
  BY <1>1 DEF ReportsMade
<1>3. listing = <<>> /\ Ended = "aborted"
  BY DEF Init, Ended
<1> QED
  BY <1>2, <1>3 DEF Report!Init, ReportsMade, Ended

\* Every step maps to a step of SuiteReport or to a stutter.
LEMMA NextReports ==
    Inv /\ Inv' /\ [Next]_vars
        => [Report!Next]_<<listing, ReportsMade, Ended>>
<1> SUFFICES ASSUME Inv, Inv', [Next]_vars
             PROVE  [Report!Next]_<<listing, ReportsMade, Ended>>
  OBVIOUS
<1>1. CASE Start
  <2>1. listing' \in Seq(Entry \cup {NoName}) /\ Ended # "no" /\ Ended' = "no"
    BY <1>1, EntryAssumption DEF Start, Ended, Inv, Typed
  <2>2. Reported' = {} /\ Cardinality(Reported)' = 0
    BY <1>1, FS_EmptySet DEF Start, Reported
  <2>3. ReportsMade' = <<>>
    BY <2>2 DEF ReportsMade
  <2>4. Report!Start
    BY <2>1, <2>3 DEF Report!Start, ReportsMade, Ended
  <2> QED
    BY <2>4 DEF Report!Next
<1>2. CASE ListingError \/ ScriptKilled
  <2>1. UNCHANGED <<listing, index, outDir, fate>>
        /\ phase \in {"loop", "running", "ended"} /\ phase' \in {"exited", "stopped"}
    BY <1>2 DEF ListingError, ScriptKilled
  <2>2. ReportsMade' = ReportsMade /\ Cardinality(Reported)' = Cardinality(Reported)
    BY <2>1, ReportsAreFinal DEF ReportOn
  <2>3. Ended' = "aborted"
    <3>1. CASE ListingError
      <4>1. phase = "loop" /\ phase' = "exited" /\ (listing = <<>> \/ index < Len(listing))
        BY <3>1 DEF ListingError
      <4>2. Cardinality(Reported) = index
        BY <4>1, ReportsAreCounted
      <4> QED
        BY <2>1, <2>2, <4>1, <4>2 DEF Ended, Inv, Typed
    <3>2. CASE ScriptKilled
      BY <3>2 DEF ScriptKilled, Ended
    <3> QED
      BY <1>2, <3>1, <3>2
  <2>4. Report!Abort
    BY <2>1, <2>2, <2>3 DEF Report!Abort, ReportsMade, Ended
  <2> QED
    BY <2>4 DEF Report!Next
<1>3. CASE Exit
  <2>1. UNCHANGED <<listing, index, outDir, fate>> /\ phase = "loop" /\ phase' = "exited"
        /\ listing # <<>> /\ index = Len(listing)
    BY <1>3 DEF Exit
  <2>2. ReportsMade' = ReportsMade /\ Cardinality(Reported)' = Cardinality(Reported)
    BY <2>1, ReportsAreFinal DEF ReportOn
  <2>3. Cardinality(Reported) = index /\ Len(ReportsMade) = index
    BY <2>1, ReportsAreCounted
  <2>4. Ended = "no" /\ Ended' = "complete"
    BY <2>1, <2>2, <2>3 DEF Ended
  <2>5. Report!Complete
    BY <2>1, <2>2, <2>3, <2>4 DEF Report!Complete, ReportsMade, Ended
  <2> QED
    BY <2>5 DEF Report!Next
<1>4. CASE Keep \/ Annotate \/ RecordCrash
  <2>1. Collected /\ InProgress
    BY <1>4 DEF Keep, Annotate, RecordCrash, Collected, InProgress
  <2>2. Current \in Entry
    BY <2>1, CurrentInProgress
  <2>3. CASE Keep
    <3>1. Says(Json) \in ReportsOf(Current)
      BY <2>1, WhatWasWritten DEF ReportsOf
    <3>2. Report!Report
      BY <2>1, <2>3, <3>1, KeepKeepsInv, CollectedReports
    <3> QED
      BY <3>2 DEF Report!Next
  <2>4. CASE Annotate
    <3>1. {"torn", IF KnownFail THEN "known_fail" ELSE "sanitizer"} \subseteq ReportsOf(Current)
      BY <2>2, VerdictsAreStatuses DEF ReportsOf, KnownFail
    <3>2. Report!Report
      BY <2>1, <2>4, <3>1, AnnotateKeepsInv, CollectedReports
    <3> QED
      BY <3>2 DEF Report!Next
  <2>5. CASE RecordCrash
    <3>1. (IF KnownFail THEN "known_fail" ELSE "crash") \in ReportsOf(Current)
      BY <2>2, VerdictsAreStatuses DEF ReportsOf, KnownFail
    <3>2. Report!Report
      BY <2>1, <2>5, <3>1, RecordCrashKeepsInv, CollectedReports
    <3> QED
      BY <3>2 DEF Report!Next
  <2> QED
    BY <1>4, <2>3, <2>4, <2>5
<1>5. CASE Launch \/ DuckDB \/ ProcessKilled \/ UNCHANGED vars
  <2>1. /\ UNCHANGED <<listing, fate>>
        /\ \/ phase \in {"loop", "running"} /\ phase' \in {"loop", "running", "ended"}
           \/ UNCHANGED phase
    BY <1>5 DEF Launch, DuckDB, CreateFile, WriteSome, WriteRow, Diagnose, ProcessExits,
       ProcessDies, ProcessKilled, ProcessEnds, vars
  <2>2. \A i \in Reported : ReportOn(i)' = ReportOn(i)
    <3>1. ASSUME NEW i \in Reported, Launch
          PROVE  outDir'[i] = outDir[i]
      <4>1. i \in 1..index /\ i \in Slugs /\ index \in Nat
        BY <3>1, ReportsAreCounted DEF Launch, Reported
      <4>2. i # index + 1
        BY <4>1
      <4> QED
        BY <3>1, <4>1, <4>2 DEF Launch, Inv, Typed
    <3>2. ASSUME NEW i \in Reported, CreateFile \/ WriteSome \/ WriteRow
          PROVE  outDir'[i] = outDir[i]
      <4>1. InProgress
        BY <3>2 DEF CreateFile, WriteSome, WriteRow, InProgress
      <4>2. i \in 1..(index - 1) /\ i \in Slugs /\ index \in Slugs
        BY <4>1, CurrentInProgress DEF Reported
      <4>3. i # index
        BY <4>2 DEF Slugs
      <4> QED
        BY <3>2, <4>2, <4>3 DEF CreateFile, WriteSome, WriteRow, Inv, Typed
    <3>3. CASE Diagnose \/ ProcessExits \/ ProcessDies \/ ProcessKilled \/ UNCHANGED vars
      BY <3>3 DEF Diagnose, ProcessExits, ProcessDies, ProcessKilled, ProcessEnds, vars, ReportOn
    <3> QED
      BY <1>5, <3>1, <3>2, <3>3 DEF DuckDB, ReportOn
  <2>3. ReportsMade' = ReportsMade /\ Cardinality(Reported)' = Cardinality(Reported)
    BY <2>1, <2>2, ReportsAreFinal
  <2>4. Ended' = Ended
    BY <2>1, <2>3 DEF Ended
  <2> QED
    BY <2>1, <2>3, <2>4
<1> QED
  BY <1>1, <1>2, <1>3, <1>4, <1>5 DEF Next, Script

\* The script reports the properties of its listing in order, each once and for good,
\* by a report its entry may have, and exits after the last one.
THEOREM RunsReport == Spec => ImplementsSuiteReport
<1>1. [Report!Next]_<<listing, ReportsMade, Ended>>
        => [Report!Next]_<<listing, [i \in 1..Cardinality(Reported) |-> ReportOn(i)],
             CASE phase = "stopped" -> "aborted"
               [] phase = "exited" -> IF listing # <<>> /\ Cardinality(Reported) = Len(listing)
                                      THEN "complete" ELSE "aborted"
               [] OTHER -> "no">>
  BY DEF ReportsMade, Ended
<1> QED
  BY <1>1, InitReports, NextReports, NextInv, Invariance, PTL DEF Spec, ImplementsSuiteReport, Report!Spec
=============================================================================
