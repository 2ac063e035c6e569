------------------------------ MODULE SuiteProofs ------------------------------
(***************************************************************************)
(* What the properties of the suites do with their databases.  The verdict *)
(* of a probe tells whether its issue is open, for any probes, any version *)
(* of DuckDB, and anything an open issue makes it do.  A run of a property *)
(* fails exactly if one of its own cases is bad, and what it reports is    *)
(* bad too, or below a case that breaks the database, for every set of     *)
(* cases, of any size, and any number of runs.                             *)
(*                                                                         *)
(* A round trip fails exactly if DuckDB answers something wrong, for any   *)
(* types and values, however deep: what is visited in a value is of a type *)
(* that the filters have seen, or an entry of a MAP, and so everything in  *)
(* it is kept; and what the guards discard would not be.                   *)
(***************************************************************************)
EXTENDS Suites, Induction, FiniteSetTheorems, SequenceTheorems

\* What is known of the probe while it runs: the database is untouched until it has
\* asked, an internal error has gone before the health check exactly if the issue is
\* open, and only an open issue aborts the process.
ProbeRuns ==
    /\ asked \in BOOLEAN
    /\ pc # "idle" \/ status # "none" => probe \in Probes
    /\ pc \in {"open", "ask"} => db = "usable" /\ asked = FALSE
    /\ pc \in {"health", "abort"} => asked = TRUE
    /\ pc = "health" => (db = "usable" <=> probe.issue \notin open)
    /\ pc = "abort" => probe.issue \in open

ProbeInv == ProbeRuns /\ VerdictTellsIssue

-----------------------------------------------------------------------------
\* A closed issue gets the right reply, an open one any other.
LEMMA AnswersTell ==
    ASSUME NEW p \in Probes, NEW reply \in Answers(p)
    PROVE  /\ reply \in Replies(p)
           /\ p.issue \in open <=> reply # RightReply(p)
<1>1. RightReply(p) \in Replies(p)
  BY DEF RightReply, Replies, Reply
<1> QED
  BY <1>1 DEF Answers

\* Where cells are asked for, the assertions hold of the right reply and of no other.
LEMMA RightCellsOnly ==
    ASSUME NEW p \in Probes, p.form # "recoverable", NEW reply \in Replies(p), reply.kind # "abort"
    PROVE  IsRight(reply) <=> reply = RightReply(p)
<1> DEFINE allRight == [i \in 1..p.cells |-> TRUE]
<1>1. RightReply(p) = Reply("rows", 1, allRight)
  BY DEF RightReply
<1>2. IsRight(RightReply(p))
  BY <1>1 DEF Reply, IsRight, HasError
<1>3. ASSUME IsRight(reply) PROVE reply = RightReply(p)
  <2>1. reply \in [kind : {"rows"}, rows : 0..2, cells : [1..p.cells -> BOOLEAN]]
    BY <1>3 DEF Replies, IsRight, HasError
  <2>2. reply.rows = 1 /\ \A i \in 1..p.cells : reply.cells[i]
    BY <1>3, <2>1 DEF IsRight
  <2>3. reply.cells = allRight
    BY <2>1, <2>2
  <2>4. reply = Reply("rows", 1, allRight)
    BY <2>1, <2>2, <2>3 DEF Reply
  <2> QED
    BY <1>1, <2>4
<1> QED
  BY <1>2, <1>3

\* Where an error is asked for, the right reply is the one that is not internal.
LEMMA RightErrorOnly ==
    ASSUME NEW p \in Probes, p.form = "recoverable", NEW reply \in Replies(p)
    PROVE  reply = RightReply(p) <=> HasError(reply) /\ reply.kind # "internal error"
<1>1. RightReply(p) = [kind |-> "error", rows |-> 0, cells |-> <<>>]
  BY DEF RightReply, Reply
<1>2. ASSUME HasError(reply), reply.kind # "internal error" PROVE reply = RightReply(p)
  <2>1. reply \in [kind : {"error", "internal error", "abort"}, rows : {0}, cells : {<<>>}]
    BY <1>2 DEF Replies, HasError
  <2>2. reply.kind = "error"
    BY <1>2 DEF HasError
  <2> QED
    BY <1>1, <2>1, <2>2
<1>3. ASSUME reply = RightReply(p) PROVE HasError(reply) /\ reply.kind # "internal error"
  BY <1>1, <1>3 DEF HasError
<1> QED
  BY <1>2, <1>3

-----------------------------------------------------------------------------
\* A probe that ends with a verdict that follows from its issue keeps the invariant.
LEMMA EndsKeepsProbeInv ==
    ASSUME probe \in Probes, NEW held \in BOOLEAN, held <=> probe.issue \notin open,
           Ends(held), asked' = TRUE, UNCHANGED <<open, probe>>
    PROVE  ProbeInv'
<1>1. probe.expectation \in {"pass", "known_fail"}
  BY ProbesAssumption DEF Expectations
<1>2. pc' = "idle" /\ probe' \in Probes
  BY DEF Ends
<1>3. VerdictTellsIssue'
  BY <1>1 DEF Ends, VerdictTellsIssue
<1> QED
  BY <1>2, <1>3 DEF ProbeInv, ProbeRuns

\* Nothing has been asked in the beginning, ...
LEMMA InitEstablishesProbeInv == Init => ProbeInv
BY DEF Init, ProbeInv, ProbeRuns, VerdictTellsIssue

\* ... and no step loses what is known.
LEMMA NextKeepsProbeInv == ProbeInv /\ [Next]_vars => ProbeInv'
<1> SUFFICES ASSUME ProbeInv, [Next]_vars PROVE ProbeInv'
  OBVIOUS
<1> USE DEF ProbeInv
<1>1. CASE Start
  BY <1>1 DEF Start, ProbeRuns, VerdictTellsIssue
<1>2. CASE AskForCells
  <2>1. probe \in Probes /\ probe.form # "recoverable"
    BY <1>2 DEF AskForCells, ProbeRuns
  <2>2. PICK reply \in Answers(probe) : reply.kind # "abort" /\ Ends(IsRight(reply))
    BY <1>2 DEF AskForCells
  <2>3. IsRight(reply) <=> probe.issue \notin open
    BY <2>1, <2>2, AnswersTell, RightCellsOnly
  <2>4. IsRight(reply) \in BOOLEAN
    BY DEF IsRight
  <2> QED
    BY <1>2, <2>1, <2>2, <2>3, <2>4, EndsKeepsProbeInv DEF AskForCells
<1>3. CASE AskForError
  <2>1. probe \in Probes /\ probe.form = "recoverable" /\ db = "usable"
    BY <1>3 DEF AskForError, ProbeRuns
  <2>2. PICK reply \in Answers(probe) :
            /\ Executed(reply)
            /\ IF HasError(reply) THEN pc' = "health" /\ UNCHANGED status ELSE Ends(FALSE)
    BY <1>3 DEF AskForError
  <2>3. probe.issue \notin open <=> HasError(reply) /\ reply.kind # "internal error"
    BY <2>1, AnswersTell, RightErrorOnly
  <2>4. CASE HasError(reply)
    <3>1. pc' = "health" /\ asked' = TRUE /\ UNCHANGED <<open, probe, status>>
      BY <1>3, <2>2, <2>4 DEF AskForError
    <3>2. db' = "usable" <=> probe.issue \notin open
      BY <2>1, <2>2, <2>3, <2>4 DEF Executed
    <3> QED
      BY <2>1, <3>1, <3>2 DEF ProbeRuns, VerdictTellsIssue
  <2>5. CASE ~HasError(reply)
    BY <1>3, <2>1, <2>2, <2>3, <2>5, EndsKeepsProbeInv DEF AskForError
  <2> QED
    BY <2>4, <2>5
<1>4. CASE CheckHealth
  <2>1. probe \in Probes /\ asked = TRUE /\ (db = "usable" <=> probe.issue \notin open)
    BY <1>4 DEF CheckHealth, ProbeRuns
  <2> QED
    BY <1>4, <2>1, EndsKeepsProbeInv DEF CheckHealth
<1>5. CASE Abort
  <2>1. probe \in Probes
    BY <1>5 DEF Abort, ProbeRuns
  <2>2. PICK reply \in Answers(probe) : reply.kind = "abort"
    BY <1>5 DEF Abort
  <2>3. RightReply(probe).kind # "abort"
    BY DEF RightReply, Reply
  <2>4. probe.issue \in open
    BY <2>1, <2>2, <2>3, AnswersTell
  <2> QED
    BY <1>5, <2>1, <2>4 DEF Abort, ProbeRuns, VerdictTellsIssue
<1>6. CASE RecordCrash
  <2>1. probe \in Probes /\ probe.issue \in open
    BY <1>6 DEF RecordCrash, ProbeRuns
  <2>2. probe.expectation \in {"pass", "known_fail"}
    BY <2>1, ProbesAssumption DEF Expectations
  <2> QED
    BY <1>6, <2>1, <2>2 DEF RecordCrash, ProbeRuns, VerdictTellsIssue
<1>7. CASE OpenFails
  <2>1. probe \in Probes /\ asked = FALSE
    BY <1>7 DEF OpenFails, ProbeRuns
  <2>2. probe.expectation \in {"pass", "known_fail"}
    BY <2>1, ProbesAssumption DEF Expectations
  <2>3. /\ status' \in {"known_fail", "fail"} /\ pc' = "idle"
        /\ UNCHANGED <<open, probe, db, asked>>
    BY <1>7, <2>2 DEF OpenFails, Ends
  <2> QED
    BY <2>1, <2>3 DEF ProbeRuns, VerdictTellsIssue
<1>8. CASE SkipProbe
  BY <1>8 DEF SkipProbe, ProbeRuns, VerdictTellsIssue
<1>9. CASE Opened
  BY <1>9 DEF Opened, ProbeRuns, VerdictTellsIssue
<1>10. CASE EngineError
  BY <1>10 DEF EngineError, ProbeRuns, VerdictTellsIssue
<1>11. CASE UNCHANGED vars
  BY <1>11 DEF vars, ProbeRuns, VerdictTellsIssue
<1> QED
  BY <1>1, <1>2, <1>3, <1>4, <1>5, <1>6, <1>7, <1>8, <1>9, <1>10, <1>11 DEF Next

-----------------------------------------------------------------------------
\* "starts reporting `fixed` once it passes", and a regression fails once it is back:
\* whatever the probes and the version, the verdict of RunProperty or crash_record.py
\* is good exactly if DuckDB was asked and the issue is closed, and of a probe that was
\* asked it is news exactly if a fixed issue is back.
THEOREM VerdictsTell == Spec => []VerdictTellsIssue
<1>1. Spec => []ProbeInv
  BY InitEstablishesProbeInv, NextKeepsProbeInv, PTL DEF Spec
<1>2. ProbeInv => VerdictTellsIssue
  BY DEF ProbeInv
<1> QED
  BY <1>1, <1>2, PTL

-----------------------------------------------------------------------------
(* The shared database *)

\* A result of a run.
Report == [status : {"pass", "fail"}, cases : 0..MaxSuccess, counterexample : Cases, shrinks : Nat]

Typed ==
    /\ effect \in [Cases -> {"holds", "fails", "breaks"}]
    /\ generated \in [1..MaxSuccess -> Cases]
    /\ noShrink \in BOOLEAN
    /\ phase \in {"idle", "generate", "shrink"}
    /\ next \in 0..MaxSuccess
    /\ failing \in Cases
    /\ candidates \in Seq(Cases)
    /\ shrinks \in Nat
    /\ reports \in Seq(Report)

\* The cases of this run have passed on a usable database, so each is good by itself.
GoodSoFar ==
    phase = "generate" =>
        /\ database = "usable"
        /\ \A i \in 1..next : ~Bad(generated[i])

\* Shrinking starts from a generated case that is bad.
CulpritFound == phase = "shrink" => next < MaxSuccess /\ Bad(generated[next + 1])

\* Some case breaks the database, above one and not above the culprit.
BrokenAbove(c) == \E b \in Cases : effect[b] = "breaks" /\ c < b /\ b <= generated[next + 1]

\* While it is shrunk, the counterexample only gets smaller, and is bad itself unless a
\* case above it has broken the database.
ShrinkingExplained ==
    phase = "shrink" =>
        /\ failing <= generated[next + 1]
        /\ Bad(failing) \/ BrokenAbove(failing)
        /\ database = "usable" \/ BrokenAbove(failing) \/ effect[failing] = "breaks"
        /\ \A i \in DOMAIN candidates : candidates[i] < failing

RunInv ==
    /\ Typed
    /\ GoodSoFar
    /\ CulpritFound
    /\ ShrinkingExplained
    /\ FailuresHaveACulprit

-----------------------------------------------------------------------------
Increasing(q) == \A i, j \in DOMAIN q : i < j => q[i] < q[j]

Enumerated(T) ==
    /\ IsFiniteSet(T)
    /\ \E q \in [1..Cardinality(T) -> T] : Increasing(q)

\* The smaller cases of every number can be put in order,
LEMMA Enumerations ==
    ASSUME NEW n \in Nat
    PROVE  Enumerated(Smaller(n))
<1> DEFINE S == {m \in Nat : Enumerated(Smaller(m))}
<1>1. 0 \in S
  <2>1. Smaller(0) = {}
    <3>1. \A d \in Cases : ~(d < 0)
      BY SharedDatabaseAssumption
    <3> QED
      BY <3>1 DEF Smaller
  <2>2. IsFiniteSet({}) /\ Cardinality({}) = 0
    BY FS_EmptySet
  <2>3. [i \in 1..0 |-> 0] \in [1..0 -> {}] /\ Increasing([i \in 1..0 |-> 0])
    BY DEF Increasing
  <2> QED
    BY <2>1, <2>2, <2>3 DEF Enumerated
<1>2. ASSUME NEW m \in Nat, m \in S
      PROVE  m + 1 \in S
  <2> DEFINE T == Smaller(m)
  <2>1. IsFiniteSet(T) /\ Cardinality(T) \in Nat
    BY <1>2, FS_CardinalityType DEF Enumerated
  <2>2. PICK q \in [1..Cardinality(T) -> T] : Increasing(q)
    BY <1>2 DEF Enumerated
  <2>3. \A d \in T : d \in Nat /\ d < m
    BY SharedDatabaseAssumption DEF Smaller
  <2>4. CASE m \notin Cases
    <3>1. \A d \in Cases : d < m + 1 <=> d < m
      BY <2>4, SharedDatabaseAssumption
    <3>2. Smaller(m + 1) = T
      BY <3>1 DEF Smaller
    <3> QED
      BY <1>2, <3>2
  <2>5. CASE m \in Cases
    <3> DEFINE r == [i \in 1..Cardinality(T) + 1 |-> IF i <= Cardinality(T) THEN q[i] ELSE m]
    <3>1. Smaller(m + 1) = T \cup {m} /\ m \notin T
      <4>1. \A d \in Cases : d < m + 1 <=> d < m \/ d = m
        BY SharedDatabaseAssumption
      <4>2. ~(m < m)
        OBVIOUS
      <4> QED
        BY <2>5, <4>1, <4>2 DEF Smaller
    <3>2. IsFiniteSet(T \cup {m}) /\ Cardinality(T \cup {m}) = Cardinality(T) + 1
      BY <2>1, <3>1, FS_AddElement
    <3>3. r \in [1..Cardinality(T) + 1 -> T \cup {m}]
      BY <2>1
    <3>4. Increasing(r)
      BY <2>1, <2>2, <2>3 DEF Increasing
    <3>5. r \in [1..Cardinality(Smaller(m + 1)) -> Smaller(m + 1)]
      BY <3>1, <3>2, <3>3
    <3> HIDE DEF r
    <3>6. Enumerated(Smaller(m + 1))
      BY <3>1, <3>2, <3>4, <3>5 DEF Enumerated
    <3> QED
      BY <3>6
  <2> QED
    BY <2>4, <2>5
<1> HIDE DEF S
<1>3. Nat \subseteq S
  BY <1>1, <1>2, InductionOverSet
<1> QED
  BY <1>3 DEF S

\* so that the shrinks of a case are a sequence of smaller cases.
LEMMA ShrinksAreSmaller ==
    ASSUME NEW c \in Cases
    PROVE  /\ ShrinksOf(c) \in Seq(Cases)
           /\ \A i \in DOMAIN ShrinksOf(c) : ShrinksOf(c)[i] < c
<1>1. Enumerated(Smaller(c)) /\ Cardinality(Smaller(c)) \in Nat
  BY Enumerations, FS_CardinalityType, SharedDatabaseAssumption DEF Enumerated
<1>2. ShrinksOf(c) \in [1..Cardinality(Smaller(c)) -> Smaller(c)]
  BY <1>1 DEF ShrinksOf, Enumerated, Increasing
<1>3. \A d \in Smaller(c) : d \in Cases /\ d < c
  BY DEF Smaller
<1> QED
  BY <1>1, <1>2, <1>3

\* The head and the rest of the candidates.
LEMMA HeadAndTail ==
    ASSUME NEW S, NEW q \in Seq(S), q # <<>>
    PROVE  /\ Head(q) \in S /\ Tail(q) \in Seq(S)
           /\ 1 \in DOMAIN q /\ Head(q) = q[1]
           /\ \A i \in DOMAIN Tail(q) : i + 1 \in DOMAIN q /\ Tail(q)[i] = q[i + 1]
<1>1. Head(q) \in S /\ Tail(q) \in Seq(S) /\ Len(Tail(q)) = Len(q) - 1 /\ Len(q) \in Nat \ {0}
  OBVIOUS
<1>2. DOMAIN q = 1..Len(q) /\ DOMAIN Tail(q) = 1..Len(q) - 1
  BY <1>1
<1>3. \A i \in 1..Len(q) - 1 : Tail(q)[i] = q[i + 1]
  BY <1>1
<1> QED
  BY <1>1, <1>2, <1>3

-----------------------------------------------------------------------------
\* Nothing has been run at first.
LEMMA InitRunInv == SharedInit => RunInv
<1> SUFFICES ASSUME SharedInit PROVE RunInv
  OBVIOUS
<1>1. Typed
  BY SharedDatabaseAssumption DEF SharedInit, Typed
<1>2. DOMAIN reports = {}
  BY DEF SharedInit
<1> QED
  BY <1>1, <1>2 DEF SharedInit, RunInv, GoodSoFar, CulpritFound, ShrinkingExplained, FailuresHaveACulprit

\* Between results, only the run that is under way changes.
LEMMA ReportsStay ==
    ASSUME RunInv, UNCHANGED <<effect, generated, reports>>
    PROVE  FailuresHaveACulprit'
<1>1. \A c : Bad(c)' <=> Bad(c)
  BY DEF Bad
<1> QED
  BY <1>1 DEF RunInv, FailuresHaveACulprit, Bad, Failed, Range

\* A run starts on a database of its own.
LEMMA StartKeepsInv ==
    ASSUME RunInv, StartRun
    PROVE  RunInv'
<1>1. Typed'
  BY SharedDatabaseAssumption DEF RunInv, Typed, StartRun
<1>2. FailuresHaveACulprit'
  BY ReportsStay DEF StartRun
<1> QED
  BY <1>1, <1>2 DEF RunInv, StartRun, GoodSoFar, CulpritFound, ShrinkingExplained

\* A case that holds is good, and leaves the database usable.
LEMMA CaseHoldsKeepsInv ==
    ASSUME RunInv, CaseHolds
    PROVE  RunInv'
<1>1. /\ phase = "generate" /\ next \in 0..MaxSuccess /\ next < MaxSuccess /\ next' = next + 1
      /\ MaxSuccess \in Nat /\ database = "usable" /\ effect[generated[next + 1]] = "holds" /\ database' = "usable"
      /\ UNCHANGED <<effect, generated, phase, noShrink, failing, candidates, shrinks, reports>>
  BY SharedDatabaseAssumption DEF RunInv, Typed, CaseHolds, Holds, RunBody
<1>2. Typed'
  BY <1>1 DEF RunInv, Typed
<1>3. GoodSoFar'
  <2>1. \A i \in 1..next : effect[generated[i]] = "holds"
    BY <1>1 DEF RunInv, GoodSoFar, Bad
  <2>2. \A i \in 1..next + 1 : effect[generated[i]] = "holds"
    BY <1>1, <2>1
  <2> QED
    BY <1>1, <2>2 DEF GoodSoFar, Bad
<1>4. FailuresHaveACulprit'
  BY <1>1, ReportsStay
<1> QED
  BY <1>1, <1>2, <1>3, <1>4 DEF RunInv, CulpritFound, ShrinkingExplained

\* The first that does not hold is bad, as the database was usable.
LEMMA CaseFailsKeepsInv ==
    ASSUME RunInv, CaseFails
    PROVE  RunInv'
<1> DEFINE c == generated[next + 1]
<1>1. /\ phase = "generate" /\ phase' = "shrink" /\ next \in 0..MaxSuccess /\ next < MaxSuccess
      /\ MaxSuccess \in Nat /\ ~Holds(c) /\ RunBody(c) /\ failing' = c
      /\ candidates' = IF noShrink THEN <<>> ELSE ShrinksOf(c)
      /\ UNCHANGED <<effect, generated, noShrink, next, shrinks, reports>>
  BY SharedDatabaseAssumption DEF RunInv, Typed, CaseFails
<1>2. c \in Cases
  BY <1>1 DEF RunInv, Typed
<1>3. effect[c] # "holds" /\ database = "usable"
  BY <1>1 DEF RunInv, GoodSoFar, Holds
<1>4. Typed'
  BY <1>1, <1>2, ShrinksAreSmaller DEF RunInv, Typed
<1>5. CulpritFound'
  BY <1>1, <1>3 DEF CulpritFound, Bad
<1>6. ShrinkingExplained'
  <2>1. c <= c
    <3>1. \A d \in Nat : d <= d
      OBVIOUS
    <3>2. c \in Nat
      BY <1>2, SharedDatabaseAssumption
    <3> QED
      BY <3>1, <3>2
  <2>2. database' = "usable" \/ effect[c] = "breaks"
    BY <1>1, <1>3 DEF RunBody
  <2>3. \A i \in DOMAIN candidates' : candidates'[i] < c
    BY <1>1, <1>2, ShrinksAreSmaller
  <2> QED
    BY <1>1, <1>3, <2>1, <2>2, <2>3 DEF ShrinkingExplained, Bad
<1>7. FailuresHaveACulprit'
  BY <1>1, ReportsStay
<1> QED
  BY <1>1, <1>4, <1>5, <1>6, <1>7 DEF RunInv, GoodSoFar

\* A shrink that fails without being bad does so on a database that a case above it broke.
LEMMA ShrinkFailsKeepsInv ==
    ASSUME RunInv, ShrinkFails
    PROVE  RunInv'
<1> DEFINE c == Head(candidates)
           culprit == generated[next + 1]
<1>1. /\ phase = "shrink" /\ phase' = "shrink" /\ candidates # <<>> /\ candidates \in Seq(Cases)
      /\ ~Holds(c) /\ RunBody(c) /\ failing' = c /\ candidates' = ShrinksOf(c) /\ shrinks' = shrinks + 1
      /\ UNCHANGED <<effect, generated, noShrink, next, reports>>
  BY DEF RunInv, Typed, ShrinkFails
<1>2. c \in Cases
  BY <1>1, HeadAndTail
<1>3. Typed'
  BY <1>1, <1>2, ShrinksAreSmaller DEF RunInv, Typed
<1>4. CulpritFound'
  BY <1>1 DEF RunInv, CulpritFound, Bad
<1>5. ShrinkingExplained'
  <2>1. failing \in Cases /\ culprit \in Cases /\ Cases \subseteq Nat
    BY <1>1, SharedDatabaseAssumption DEF RunInv, Typed, CulpritFound
  <2>2. c < failing /\ failing <= culprit
    BY <1>1, HeadAndTail DEF RunInv, ShrinkingExplained
  <2>3. database = "usable" \/ BrokenAbove(failing) \/ effect[failing] = "breaks"
    BY <1>1 DEF RunInv, ShrinkingExplained
  <2> HIDE DEF c, culprit
  <2>4. database # "usable" => BrokenAbove(c)
    <3>1. \A b \in Cases : failing < b => c < b
      BY <1>2, <2>1, <2>2
    <3> QED
      BY <2>1, <2>2, <2>3, <3>1 DEF BrokenAbove, culprit
  <2>5. BrokenAbove(c)' <=> BrokenAbove(c')
    BY <1>1 DEF BrokenAbove
  <2>6. c <= culprit
    BY <1>2, <2>1, <2>2
  <2>7. Bad(c) \/ BrokenAbove(c)
    BY <1>1, <2>4 DEF Holds, Bad
  <2>8. database' = "usable" \/ BrokenAbove(c) \/ effect[c] = "breaks"
    BY <1>1, <2>4 DEF RunBody
  <2>9. \A i \in DOMAIN candidates' : candidates'[i] < c
    BY <1>1, <1>2, ShrinksAreSmaller
  <2>10. /\ failing' = c /\ phase' = "shrink" /\ generated'[next' + 1] = culprit
         /\ \A d : BrokenAbove(d)' <=> \E b \in Cases : effect[b] = "breaks" /\ d' < b /\ b <= culprit
    BY <1>1 DEF culprit, BrokenAbove
  <2> QED
    BY <1>1, <2>6, <2>7, <2>8, <2>9, <2>10 DEF ShrinkingExplained, Bad, BrokenAbove, culprit
<1>6. FailuresHaveACulprit'
  BY <1>1, ReportsStay
<1> QED
  BY <1>1, <1>3, <1>4, <1>5, <1>6 DEF RunInv, GoodSoFar

\* One that holds is no candidate any more.
LEMMA ShrinkHoldsKeepsInv ==
    ASSUME RunInv, ShrinkHolds
    PROVE  RunInv'
<1> DEFINE c == Head(candidates)
<1>1. /\ phase = "shrink" /\ phase' = "shrink" /\ candidates # <<>> /\ candidates \in Seq(Cases)
      /\ Holds(c) /\ RunBody(c) /\ candidates' = Tail(candidates)
      /\ UNCHANGED <<effect, generated, noShrink, next, failing, shrinks, reports>>
  BY DEF RunInv, Typed, ShrinkHolds
<1>2. database' = database
  BY <1>1 DEF Holds, RunBody
<1>3. Typed'
  BY <1>1, HeadAndTail DEF RunInv, Typed
<1>4. CulpritFound'
  BY <1>1 DEF RunInv, CulpritFound, Bad
<1>5. ShrinkingExplained'
  <2>1. \A i \in DOMAIN candidates' : candidates'[i] < failing
    BY <1>1, HeadAndTail DEF RunInv, ShrinkingExplained
  <2> QED
    BY <1>1, <1>2, <2>1 DEF RunInv, ShrinkingExplained, BrokenAbove, Bad
<1>6. FailuresHaveACulprit'
  BY <1>1, ReportsStay
<1> QED
  BY <1>1, <1>3, <1>4, <1>5, <1>6 DEF RunInv, GoodSoFar

\* A result joins those that were there.
LEMMA AppendReport ==
    ASSUME NEW T, NEW q \in Seq(T), NEW r \in T
    PROVE  /\ Append(q, r) \in Seq(T)
           /\ \A n \in DOMAIN Append(q, r) :
                 \/ n \in DOMAIN q /\ Append(q, r)[n] = q[n]
                 \/ Append(q, r)[n] = r
OBVIOUS

\* The counterexample that is reported is explained.
LEMMA ReportFailureKeepsInv ==
    ASSUME RunInv, ReportFailure
    PROVE  RunInv'
<1> DEFINE r == [status |-> "fail", cases |-> next, counterexample |-> failing, shrinks |-> shrinks]
<1>1. /\ phase = "shrink" /\ phase' = "idle" /\ candidates = <<>> /\ reports' = Append(reports, r)
      /\ UNCHANGED <<effect, generated, database, noShrink, next, failing, candidates, shrinks>>
  BY DEF ReportFailure, Returns
<1>2. r \in Report /\ reports \in Seq(Report)
  BY DEF RunInv, Typed, Report
<1> HIDE DEF r
<1>3. /\ reports' \in Seq(Report)
      /\ \A n \in DOMAIN reports' : \/ n \in DOMAIN reports /\ reports'[n] = reports[n]
                                    \/ reports'[n] = r
  BY <1>1, <1>2, AppendReport
<1>4. Typed'
  BY <1>1, <1>3 DEF RunInv, Typed
<1>5. r.status = "fail" /\ r.cases = next /\ r.counterexample = failing
  BY DEF r
<1>6. FailuresHaveACulprit'
  <2> DEFINE culprit == generated[r.cases + 1]
  <2>1. /\ Bad(culprit) /\ r.counterexample <= culprit
        /\ \/ Bad(r.counterexample)
           \/ \E b \in Cases : effect[b] = "breaks" /\ r.counterexample < b /\ b <= culprit
    BY <1>1, <1>5 DEF RunInv, CulpritFound, ShrinkingExplained, BrokenAbove
  <2> QED
    BY <1>1, <1>3, <1>5, <2>1 DEF RunInv, FailuresHaveACulprit, Bad, Failed, Range
<1> QED
  BY <1>1, <1>4, <1>6 DEF RunInv, GoodSoFar, CulpritFound, ShrinkingExplained

\* A run that passed has seen all of its cases.
LEMMA ReportSuccessKeepsInv ==
    ASSUME RunInv, ReportSuccess
    PROVE  RunInv'
<1> DEFINE r == [status |-> "pass", cases |-> next, counterexample |-> 0, shrinks |-> 0]
<1>1. /\ phase = "generate" /\ phase' = "idle" /\ next = MaxSuccess /\ reports' = Append(reports, r)
      /\ UNCHANGED <<effect, generated, database, noShrink, next, failing, candidates, shrinks>>
  BY DEF ReportSuccess, Returns
<1>2. r \in Report /\ reports \in Seq(Report)
  BY SharedDatabaseAssumption DEF RunInv, Typed, Report
<1> HIDE DEF r
<1>3. /\ reports' \in Seq(Report)
      /\ \A n \in DOMAIN reports' : \/ n \in DOMAIN reports /\ reports'[n] = reports[n]
                                    \/ reports'[n] = r
  BY <1>1, <1>2, AppendReport
<1>4. Typed'
  BY <1>1, <1>3 DEF RunInv, Typed
<1>5. ~Failed(r)
  BY DEF r, Failed
<1>6. FailuresHaveACulprit'
  <2>1. ~\E c \in Range(generated) : Bad(c)
    BY <1>1 DEF RunInv, Typed, GoodSoFar, Range
  <2> QED
    BY <1>1, <1>3, <1>5, <2>1 DEF RunInv, FailuresHaveACulprit, Bad, Failed, Range
<1> QED
  BY <1>1, <1>4, <1>6 DEF RunInv, GoodSoFar, CulpritFound, ShrinkingExplained

\* Every step keeps the invariant.
LEMMA NextRunInv == RunInv /\ [SharedNext]_sharedVars => RunInv'
<1> SUFFICES ASSUME RunInv, [SharedNext]_sharedVars PROVE RunInv'
  OBVIOUS
<1>1. CASE UNCHANGED sharedVars
  <2>1. FailuresHaveACulprit'
    BY <1>1, ReportsStay DEF sharedVars
  <2>2. ShrinkingExplained'
    BY <1>1 DEF sharedVars, RunInv, ShrinkingExplained, BrokenAbove, Bad
  <2> QED
    BY <1>1, <2>1, <2>2 DEF sharedVars, RunInv, Typed, GoodSoFar, CulpritFound, Bad
<1>2. CASE SharedNext
  BY <1>2, StartKeepsInv, CaseHoldsKeepsInv, CaseFailsKeepsInv, ShrinkFailsKeepsInv,
     ShrinkHoldsKeepsInv, ReportFailureKeepsInv, ReportSuccessKeepsInv DEF SharedNext
<1> QED
  BY <1>1, <1>2

\* So it always holds.
LEMMA RunInvariance == SharedSpec => []RunInv
<1>1. SharedInit => RunInv
  BY InitRunInv
<1>2. RunInv /\ [SharedNext]_sharedVars => RunInv'
  BY NextRunInv
<1> QED
  BY <1>1, <1>2, PTL DEF SharedSpec

\* A run that fails has a bad case among its own, the first after those that passed, and
\* one that passes has none: no run suffers from the database of an earlier one.  What it
\* reports is bad as well, or below a case of its own, generated or shrunk, that breaks
\* the database.
THEOREM OwnCasesDecide == SharedSpec => []FailuresHaveACulprit
<1>1. RunInv => FailuresHaveACulprit
  BY DEF RunInv
<1> QED
  BY <1>1, RunInvariance, PTL

-----------------------------------------------------------------------------
\* The levels of a type or value are what they are made of.
LEMMA LevelsAre ==
    ASSUME NEW x, NEW depth \in Nat
    PROVE  /\ Levels(x, depth)[0] = {x}
           /\ \A n \in 1..depth : Levels(x, depth)[n] = PartsOf(Levels(x, depth)[n - 1])
<1> DEFINE At(f, n) == IF n = 0 THEN {x} ELSE PartsOf(f[n - 1])
           LevelsTo(f, k) == f = [n \in 0..k |-> At(f, n)]
           K == {k \in Nat : \E f : LevelsTo(f, k)}
<1>1. \A f, g, n, m : n # 0 /\ m = n - 1 /\ f[m] = g[m] => At(f, n) = At(g, n)
  OBVIOUS
<1>2. \A f, g : At(f, 0) = At(g, 0)
  OBVIOUS
<1> HIDE DEF At
<1>3. \A f, k : LevelsTo(f, k) => \A n \in 0..k : f[n] = At(f, n)
  <2> SUFFICES ASSUME NEW f, NEW k, LevelsTo(f, k), NEW n \in 0..k PROVE f[n] = At(f, n)
    OBVIOUS
  <2> DEFINE g == [i \in 0..k |-> At(f, i)]
  <2>1. f = g /\ g[n] = At(f, n)
    OBVIOUS
  <2> HIDE DEF g
  <2> QED
    BY <2>1
<1>4. 0 \in K
  <2> DEFINE f == [n \in 0..0 |-> At(<<>>, 0)]
  <2>1. f = [n \in 0..0 |-> At(f, n)]
    <3>1. \A n \in 0..0 : f[n] = At(f, n)
      BY <1>2
    <3> QED
      BY <3>1
  <2> QED
    BY <2>1
<1>5. ASSUME NEW k \in Nat, k \in K PROVE k + 1 \in K
  <2>1. PICK f : LevelsTo(f, k)
    BY <1>5
  <2> DEFINE g == [n \in 0..k + 1 |-> IF n <= k THEN f[n] ELSE At(f, k + 1)]
  <2>2. \A n \in 0..k + 1 : g[n] = At(f, n)
    <3>1. \A n \in 0..k : f[n] = At(f, n)
      BY <1>3, <2>1
    <3>2. \A n \in 0..k + 1 : n \in 0..k \/ n = k + 1
      OBVIOUS
    <3> QED
      BY <3>1, <3>2
  <2>3. \A n \in 0..k : g[n] = f[n]
    OBVIOUS
  <2>4. g = [n \in 0..k + 1 |-> g[n]]
    OBVIOUS
  <2> HIDE DEF g
  <2>5. \A n \in 0..k + 1 : g[n] = At(g, n)
    <3> SUFFICES ASSUME NEW n \in 0..k + 1 PROVE At(f, n) = At(g, n)
      BY <2>2
    <3>1. CASE n = 0
      BY <1>2, <3>1
    <3>2. CASE n # 0
      <4>1. n - 1 \in 0..k
        BY <3>2
      <4>2. f[n - 1] = g[n - 1]
        BY <2>3, <4>1
      <4> QED
        BY <1>1, <3>2, <4>2
    <3> QED
      BY <3>1, <3>2
  <2>6. LevelsTo(g, k + 1)
    BY <2>4, <2>5
  <2> QED
    BY <2>6
<1> HIDE DEF K
<1>6. Nat \subseteq K
  BY <1>4, <1>5, InductionOverSet
<1>7. \E f : LevelsTo(f, depth)
  BY <1>6 DEF K
<1>8. Levels(x, depth) = CHOOSE f : LevelsTo(f, depth)
  BY DEF Levels, At
<1>9. LevelsTo(Levels(x, depth), depth)
  <2> HIDE DEF LevelsTo
  <2> QED
    BY <1>7, <1>8
<1>10. \A n \in 0..depth : Levels(x, depth)[n] = At(Levels(x, depth), n)
  BY <1>3, <1>9
<1>11. 0 \in 0..depth /\ \A n \in 1..depth : n \in 0..depth /\ n # 0
  OBVIOUS
<1> QED
  BY <1>10, <1>11 DEF At

\* So are the values of types within which are so many levels.
LEMMA ValuesAre ==
    /\ \A at \in AllTypes \X Options : GenValueWithin[0][at] = {}
    /\ \A n \in 1..MaxDepth + 1 : \A at \in AllTypes \X Options :
            GenValueWithin[n][at] = GenNonNullValue(GenValueWithin[n - 1], at[1], at[2])
                                        \cup IF at[2].nulls THEN {NullOf(at[1])} ELSE {}
<1> DEFINE At(f, n) ==
                [at \in AllTypes \X Options |->
                    IF n = 0 THEN {}
                    ELSE GenNonNullValue(f[n - 1], at[1], at[2])
                            \cup IF at[2].nulls THEN {NullOf(at[1])} ELSE {}]
           Within(f, k) == f = [n \in 0..k |-> At(f, n)]
           K == {k \in Nat : \E f : Within(f, k)}
<1>1. \A f, g, n, m : n # 0 /\ m = n - 1 /\ f[m] = g[m] => At(f, n) = At(g, n)
  OBVIOUS
<1>2. \A f, g : At(f, 0) = At(g, 0)
  OBVIOUS
<1> HIDE DEF At
<1>3. \A f, k : Within(f, k) => \A n \in 0..k : f[n] = At(f, n)
  <2> SUFFICES ASSUME NEW f, NEW k, Within(f, k), NEW n \in 0..k PROVE f[n] = At(f, n)
    OBVIOUS
  <2> DEFINE g == [i \in 0..k |-> At(f, i)]
  <2>1. f = g /\ g[n] = At(f, n)
    OBVIOUS
  <2> HIDE DEF g
  <2> QED
    BY <2>1
<1>4. 0 \in K
  <2> DEFINE f == [n \in 0..0 |-> At(<<>>, 0)]
  <2>1. f = [n \in 0..0 |-> At(f, n)]
    <3>1. \A n \in 0..0 : f[n] = At(f, n)
      BY <1>2
    <3> QED
      BY <3>1
  <2> QED
    BY <2>1
<1>5. ASSUME NEW k \in Nat, k \in K PROVE k + 1 \in K
  <2>1. PICK f : Within(f, k)
    BY <1>5
  <2> DEFINE g == [n \in 0..k + 1 |-> IF n <= k THEN f[n] ELSE At(f, k + 1)]
  <2>2. \A n \in 0..k + 1 : g[n] = At(f, n)
    <3>1. \A n \in 0..k : f[n] = At(f, n)
      BY <1>3, <2>1
    <3>2. \A n \in 0..k + 1 : n \in 0..k \/ n = k + 1
      OBVIOUS
    <3> QED
      BY <3>1, <3>2
  <2>3. \A n \in 0..k : g[n] = f[n]
    OBVIOUS
  <2>4. g = [n \in 0..k + 1 |-> g[n]]
    OBVIOUS
  <2> HIDE DEF g
  <2>5. \A n \in 0..k + 1 : g[n] = At(g, n)
    <3> SUFFICES ASSUME NEW n \in 0..k + 1 PROVE At(f, n) = At(g, n)
      BY <2>2
    <3>1. CASE n = 0
      BY <1>2, <3>1
    <3>2. CASE n # 0
      <4>1. n - 1 \in 0..k
        BY <3>2
      <4>2. f[n - 1] = g[n - 1]
        BY <2>3, <4>1
      <4> QED
        BY <1>1, <3>2, <4>2
    <3> QED
      BY <3>1, <3>2
  <2>6. Within(g, k + 1)
    BY <2>4, <2>5
  <2> QED
    BY <2>6
<1> HIDE DEF K
<1>6. Nat \subseteq K
  BY <1>4, <1>5, InductionOverSet
<1>7. MaxDepth + 1 \in Nat /\ \E f : Within(f, MaxDepth + 1)
  BY <1>6, GenTypeAssumption DEF K
<1>8. GenValueWithin = CHOOSE f : Within(f, MaxDepth + 1)
  BY DEF GenValueWithin, At
<1>9. Within(GenValueWithin, MaxDepth + 1)
  <2> HIDE DEF Within
  <2> QED
    BY <1>7, <1>8
<1>10. \A n \in 0..MaxDepth + 1 : GenValueWithin[n] = At(GenValueWithin, n)
  BY <1>3, <1>9
<1>11. 0 \in 0..MaxDepth + 1 /\ \A n \in 1..MaxDepth + 1 : n \in 0..MaxDepth + 1 /\ n # 0
  BY <1>7
<1>12. \A at \in AllTypes \X Options : GenValueWithin[0][at] = {}
  BY <1>10, <1>11 DEF At
<1>13. ASSUME NEW n \in 1..MaxDepth + 1, NEW at \in AllTypes \X Options
       PROVE  GenValueWithin[n][at] = GenNonNullValue(GenValueWithin[n - 1], at[1], at[2])
                                        \cup IF at[2].nulls THEN {NullOf(at[1])} ELSE {}
  <2>1. GenValueWithin[n] = At(GenValueWithin, n) /\ n # 0
    BY <1>10, <1>11
  <2> HIDE DEF Within
  <2> QED
    BY <2>1 DEF At
<1> QED
  BY <1>12, <1>13

\* A generated type is visited, and with a type its parts.
LEMMA PartsAreVisited ==
    ASSUME NEW t \in Types
    PROVE  /\ t \in VisitedTypes(t)
           /\ \A c \in VisitedTypes(t) :
                /\ c \in AllTypes /\ c.names \in Seq(Names) /\ \E n \in Nat : GeneratedAt(c, n)
                /\ \A i \in DOMAIN c.parts : c.parts[i] \in VisitedTypes(t)
<1> DEFINE level == Levels(t, MaxDepth)
<1>1. MaxDepth \in Nat /\ Generated(t)
  BY GenTypeAssumption
<1>2. level[0] = {t} /\ \A n \in 1..MaxDepth : level[n] = PartsOf(level[n - 1])
  BY <1>1, LevelsAre
<1>3. \A c : c \in VisitedTypes(t) <=> \E n \in 0..MaxDepth : c \in level[n]
  BY DEF VisitedTypes
<1>4. \A n \in 0..MaxDepth : \A c \in level[n] : c.names \in Seq(Names) /\ GeneratedAt(c, n)
  BY <1>1 DEF Generated
<1> HIDE DEF level
<1>5. t \in VisitedTypes(t)
  <2>1. 0 \in 0..MaxDepth
    BY <1>1
  <2> QED
    BY <1>2, <1>3, <2>1
<1>6. ASSUME NEW c \in VisitedTypes(t)
      PROVE  /\ c \in AllTypes /\ c.names \in Seq(Names) /\ \E n \in Nat : GeneratedAt(c, n)
             /\ \A i \in DOMAIN c.parts : c.parts[i] \in VisitedTypes(t)
  <2>1. PICK n \in 0..MaxDepth : c \in level[n]
    BY <1>3
  <2>2. c.names \in Seq(Names) /\ GeneratedAt(c, n) /\ n \in Nat
    BY <1>4, <2>1
  <2>3. c \in AllTypes
    BY DEF AllTypes
  <2>4. ASSUME NEW i \in DOMAIN c.parts PROVE c.parts[i] \in VisitedTypes(t)
    <3>1. n < MaxDepth
      BY <2>2 DEF GeneratedAt
    <3>2. n + 1 \in 1..MaxDepth /\ n + 1 \in 0..MaxDepth /\ n + 1 - 1 = n
      BY <1>1, <3>1
    <3>3. level[n + 1] = PartsOf(level[n])
      BY <1>2, <3>2
    <3>4. c.parts[i] \in level[n + 1]
      BY <2>1, <3>3 DEF PartsOf
    <3> QED
      BY <1>3, <3>2, <3>4
  <2> QED
    BY <2>2, <2>3, <2>4
<1> QED
  BY <1>5, <1>6

\* What a value of a type is, where below is what its parts are drawn from.
IsNonNull(y, below, c, p) ==
    /\ y.type = c /\ y.null = FALSE /\ y.leaf \in Int /\ y = Value(c, y.leaf, y.parts)
    /\ c.id # "MAP" => \A i \in DOMAIN y.parts : \E j \in DOMAIN c.parts : y.parts[i] \in below[<<c.parts[j], p>>]
    /\ c.id = "MAP" => \E keys, values :
            /\ IsInjective(keys) /\ y.parts = Entries(c, keys, values)
            /\ \A i \in DOMAIN keys : /\ keys[i] \in below[<<c.parts[1], KeyOptions(p)>>]
                                      /\ values[i] \in below[<<c.parts[2], p>>]
    /\ ~IsNested(c) => y.parts = <<>> /\ y.leaf \in LeavesOf(c, p)

\* So it is.
LEMMA NonNullIs ==
    ASSUME NEW below, NEW c, NEW p \in Options, NEW n \in Nat, GeneratedAt(c, n), c.names \in Seq(Names),
           NEW y \in GenNonNullValue(below, c, p)
    PROVE  IsNonNull(y, below, c, p)
<1> SUFFICES /\ y.type = c /\ y.null = FALSE /\ y.leaf \in Int /\ y = Value(c, y.leaf, y.parts)
             /\ c.id # "MAP" => \A i \in DOMAIN y.parts : \E j \in DOMAIN c.parts :
                                    y.parts[i] \in below[<<c.parts[j], p>>]
             /\ c.id = "MAP" => \E keys, values :
                    /\ IsInjective(keys) /\ y.parts = Entries(c, keys, values)
                    /\ \A i \in DOMAIN keys : /\ keys[i] \in below[<<c.parts[1], KeyOptions(p)>>]
                                              /\ values[i] \in below[<<c.parts[2], p>>]
             /\ ~IsNested(c) => y.parts = <<>> /\ y.leaf \in LeavesOf(c, p)
  BY DEF IsNonNull
<1> DEFINE Part(i) == below[<<c.parts[i], p>>]
<1>1. \A S : \A s \in SeqsOf(S) : \A i \in DOMAIN s : s[i] \in S
  BY DEF SeqsOf
<1>2. CASE c.id = "LIST"
  <2>1. PICK s \in SeqsOf(Part(1)) : y = Value(c, 0, s)
    BY <1>2 DEF GenNonNullValue
  <2>2. DOMAIN c.parts = {1}
    BY <1>2 DEF GeneratedAt, IsNested
  <2>3. \A i \in DOMAIN s : s[i] \in Part(1)
    BY <1>1
  <2>4. /\ y.type = c /\ y.null = FALSE /\ y.leaf \in Int
        /\ y.parts = s
        /\ y = Value(c, y.leaf, y.parts)
    BY <2>1 DEF Value
  <2> QED
    BY <1>2, <2>2, <2>3, <2>4 DEF IsNested
<1>3. CASE c.id = "ARRAY"
  <2>1. PICK s \in [1..c.size -> Part(1)] : y = Value(c, 0, s)
    BY <1>3 DEF GenNonNullValue
  <2>2. DOMAIN c.parts = {1}
    BY <1>3 DEF GeneratedAt, IsNested
  <2>3. /\ y.type = c /\ y.null = FALSE /\ y.leaf \in Int
        /\ y.parts = s
        /\ y = Value(c, y.leaf, y.parts)
    BY <2>1 DEF Value
  <2>4. \A i \in DOMAIN s : s[i] \in Part(1)
    OBVIOUS
  <2> QED
    BY <1>3, <2>2, <2>3, <2>4 DEF IsNested
<1>4. CASE c.id = "STRUCT"
  <2> DEFINE All == UNION {Part(i) : i \in DOMAIN c.parts}
  <2>1. PICK s \in [DOMAIN c.parts -> All] :
            y = Value(c, 0, s) /\ \A i \in DOMAIN c.parts : s[i] \in Part(i)
    BY <1>4 DEF GenNonNullValue
  <2>2. DOMAIN s = DOMAIN c.parts
    OBVIOUS
  <2>3. /\ y.type = c /\ y.null = FALSE /\ y.leaf \in Int
        /\ y.parts = s
        /\ y = Value(c, y.leaf, y.parts)
    BY <2>1 DEF Value
  <2> QED
    BY <1>4, <2>1, <2>2, <2>3 DEF IsNested
<1>5. CASE c.id = "MAP"
  <2> DEFINE Keys == below[<<c.parts[1], KeyOptions(p)>>]
  <2>1. PICK keys \in DistinctKeys(Keys) :
            \E values \in [DOMAIN keys -> Part(2)] : y = Value(c, 0, Entries(c, keys, values))
    BY <1>5 DEF GenNonNullValue
  <2>2. PICK values \in [DOMAIN keys -> Part(2)] : y = Value(c, 0, Entries(c, keys, values))
    BY <2>1
  <2>3. keys \in SeqsOf(Keys) /\ IsInjective(keys)
    BY DEF DistinctKeys
  <2>4. \A i \in DOMAIN keys : keys[i] \in Keys /\ values[i] \in Part(2)
    BY <1>1, <2>3
  <2>5. /\ y.type = c /\ y.null = FALSE /\ y.leaf \in Int
        /\ y.parts = Entries(c, keys, values)
        /\ y = Value(c, y.leaf, y.parts)
    BY <2>2 DEF Value
  <2> QED
    BY <1>5, <2>3, <2>4, <2>5 DEF IsNested
<1>6. CASE c.id = "UNION"
  <2>1. PICK tag \in DOMAIN c.parts : \E x \in Part(tag) : y = Value(c, tag, <<x>>)
    BY <1>6 DEF GenNonNullValue
  <2>2. PICK x \in Part(tag) : y = Value(c, tag, <<x>>)
    BY <2>1
  <2>3. DOMAIN c.parts = DOMAIN c.names /\ Len(c.names) \in Nat /\ DOMAIN c.names = 1..Len(c.names)
    BY <1>6, LenProperties DEF GeneratedAt, IsNested
  <2>4. tag \in Int /\ \A i \in DOMAIN <<x>> : <<x>>[i] = x
    BY <2>3
  <2>5. /\ y.type = c /\ y.null = FALSE /\ y.leaf \in Int
        /\ y.parts = <<x>>
        /\ y = Value(c, y.leaf, y.parts)
    BY <2>2, <2>4 DEF Value
  <2> QED
    BY <1>6, <2>2, <2>4, <2>5 DEF IsNested
<1>7. CASE ~IsNested(c)
  <2>1. PICK leaf \in LeavesOf(c, p) : y = Value(c, leaf, <<>>)
    BY <1>7 DEF GenNonNullValue, IsNested
  <2>2. leaf \in Int
    <3>1. c.id = "ENUM" => LeavesOf(c, p) \subseteq Int
      <4>1. DOMAIN c.names = 1..Len(c.names) /\ Len(c.names) \in Nat
        BY LenProperties
      <4> QED
        BY <4>1 DEF LeavesOf
    <3>2. c.id # "ENUM" => LeavesOf(c, p) \subseteq Int
      <4>1. c.id # "ENUM" => Leaves[c.id] \subseteq Int
        BY <1>7, LeavesAssumption DEF GeneratedAt
      <4> QED
        BY <4>1 DEF LeavesOf, Safe
    <3> QED
      BY <3>1, <3>2
  <2>3. y.type = c /\ y.null = FALSE /\ y.leaf = leaf /\ y.parts = <<>> /\ y = Value(c, y.leaf, y.parts)
    BY <2>1 DEF Value
  <2> QED
    BY <1>7, <2>2, <2>3 DEF IsNested
<1> QED
  BY <1>2, <1>3, <1>4, <1>5, <1>6, <1>7 DEF IsNested

\* NULL is a value of any type, if it may be drawn, and the others are made of parts.
LEMMA ValueIs ==
    ASSUME NEW t \in Types, NEW c \in VisitedTypes(t), NEW p \in Options, NEW d \in 0..MaxDepth + 1,
           NEW y \in GenValueWithin[d][<<c, p>>]
    PROVE  /\ d # 0
           /\ (y = NullOf(c) /\ p.nulls = TRUE) \/ y \in GenNonNullValue(GenValueWithin[d - 1], c, p)
<1>1. <<c, p>> \in AllTypes \X Options /\ <<c, p>>[1] = c /\ <<c, p>>[2] = p
  BY DEF AllTypes
<1>2. d # 0
  BY <1>1, ValuesAre
<1>3. d \in 1..MaxDepth + 1
  BY <1>2, GenTypeAssumption
<1>4. GenValueWithin[d][<<c, p>>] =
        GenNonNullValue(GenValueWithin[d - 1], c, p) \cup IF p.nulls THEN {NullOf(c)} ELSE {}
  BY <1>1, <1>3, ValuesAre
<1> QED
  BY <1>2, <1>4 DEF Options

\* The options that are passed down differ for keys only in that these are not NULL.
LEMMA KeyOptionsAre ==
    ASSUME NEW p \in Options
    PROVE  /\ KeyOptions(p) \in Options /\ KeyOptions(p).nulls = FALSE
           /\ KeyOptions(p).safe_strings = p.safe_strings /\ KeyOptions(KeyOptions(p)) = KeyOptions(p)
  BY DEF Options, KeyOptions

\* y is n levels within a value of type t: drawn by itself, ...
IsDrawn(y, t, options, n) ==
    \E c \in VisitedTypes(t), p \in {options, KeyOptions(options)}, d \in 1..MaxDepth + 1 :
        n + 2 * d <= ValueDepth + 2 /\ y \in GenValueWithin[d][<<c, p>>]

\* ... or the entry of a MAP of drawn keys and values.
IsDrawnEntry(y, t, options, n) ==
    \E c \in VisitedTypes(t), p \in {options, KeyOptions(options)}, d \in 1..MaxDepth :
        /\ c.id = "MAP" /\ n + 2 * d <= ValueDepth + 1
        /\ \E k \in GenValueWithin[d][<<c.parts[1], KeyOptions(p)>>], w \in GenValueWithin[d][<<c.parts[2], p>>] :
                y = Entry(c, k, w)

\* The parts of what is drawn are within it, and not too deep to be visited.
LEMMA PartsAreDrawn ==
    ASSUME NEW t \in Types, NEW options \in Options, NEW n \in Nat, NEW y, IsDrawn(y, t, options, n),
           NEW i \in DOMAIN y.parts
    PROVE  /\ n < ValueDepth
           /\ IsDrawn(y.parts[i], t, options, n + 1) \/ IsDrawnEntry(y.parts[i], t, options, n + 1)
<1>1. PICK c \in VisitedTypes(t), p \in {options, KeyOptions(options)}, d \in 1..MaxDepth + 1 :
            n + 2 * d <= ValueDepth + 2 /\ y \in GenValueWithin[d][<<c, p>>]
  BY DEF IsDrawn
<1>2. /\ p \in Options /\ KeyOptions(p) \in Options
      /\ KeyOptions(p) \in {options, KeyOptions(options)}
  BY KeyOptionsAre
<1> DEFINE below == GenValueWithin[d - 1]
<1>3. MaxDepth \in Nat /\ d - 1 \in 0..MaxDepth /\ d - 1 \in 0..MaxDepth + 1 /\ d \in 0..MaxDepth + 1
  BY GenTypeAssumption
<1>4. \A j \in DOMAIN c.parts, q \in Options : \A x \in below[<<c.parts[j], q>>] : d - 1 # 0
  <2> SUFFICES ASSUME NEW j \in DOMAIN c.parts, NEW q \in Options, NEW x \in below[<<c.parts[j], q>>]
               PROVE  d - 1 # 0
    OBVIOUS
  <2>1. c.parts[j] \in VisitedTypes(t)
    BY PartsAreVisited
  <2> QED
    BY <1>3, <2>1, ValueIs
<1>5. y.parts = <<>> \/ y \in GenNonNullValue(below, c, p)
  <2>1. (y = NullOf(c) /\ p.nulls = TRUE) \/ y \in GenNonNullValue(below, c, p)
    BY <1>1, <1>2, <1>3, ValueIs
  <2> QED
    BY <2>1 DEF NullOf
<1>6. y \in GenNonNullValue(below, c, p)
  BY <1>5
<1>7. c.names \in Seq(Names) /\ \E m \in Nat : GeneratedAt(c, m)
  BY PartsAreVisited
<1>8. PICK m \in Nat : GeneratedAt(c, m)
  BY <1>7
<1>9. ASSUME d - 1 # 0
      PROVE  /\ n < ValueDepth /\ d - 1 \in 1..MaxDepth + 1 /\ d - 1 \in 1..MaxDepth
             /\ n + 1 + 2 * (d - 1) <= ValueDepth + 1 /\ n + 1 + 2 * (d - 1) <= ValueDepth + 2
  <2>1. ValueDepth \in Int
    BY <1>3 DEF ValueDepth
  <2> QED
    BY <1>1, <1>3, <1>9, <2>1
<1>10. CASE c.id # "MAP"
  <2>1. PICK j \in DOMAIN c.parts : y.parts[i] \in below[<<c.parts[j], p>>]
    <3>1. IsNonNull(y, below, c, p)
      BY <1>2, <1>6, <1>7, <1>8, NonNullIs
    <3> QED
      BY <1>10, <3>1 DEF IsNonNull
  <2>2. d - 1 # 0 /\ c.parts[j] \in VisitedTypes(t)
    BY <1>2, <1>4, <2>1, PartsAreVisited
  <2> QED
    BY <1>9, <2>1, <2>2 DEF IsDrawn
<1>11. CASE c.id = "MAP"
  <2> HIDE DEF below
  <2>1. PICK keys, values :
            /\ IsInjective(keys) /\ y.parts = Entries(c, keys, values)
            /\ \A j \in DOMAIN keys : /\ keys[j] \in below[<<c.parts[1], KeyOptions(p)>>]
                                      /\ values[j] \in below[<<c.parts[2], p>>]
    <3>1. IsNonNull(y, below, c, p)
      BY <1>2, <1>6, <1>7, <1>8, NonNullIs
    <3> QED
      BY <1>11, <3>1 DEF IsNonNull
  <2> USE DEF below
  <2>2. i \in DOMAIN keys /\ y.parts[i] = Entry(c, keys[i], values[i])
    BY <2>1 DEF Entries
  <2>3. keys[i] \in below[<<c.parts[1], KeyOptions(p)>>] /\ values[i] \in below[<<c.parts[2], p>>]
    BY <2>1, <2>2
  <2>4. DOMAIN c.parts = {1, 2}
    BY <1>8, <1>11 DEF GeneratedAt, IsNested
  <2>5. d - 1 # 0
    BY <1>2, <1>4, <2>3, <2>4
  <2> QED
    BY <1>9, <1>11, <2>2, <2>3, <2>5 DEF IsDrawnEntry
<1> QED
  BY <1>10, <1>11

\* Those of an entry, its key and its value, are drawn by themselves.
LEMMA EntryPartsAreDrawn ==
    ASSUME NEW t \in Types, NEW options \in Options, NEW n \in Nat, NEW y, IsDrawnEntry(y, t, options, n),
           NEW i \in DOMAIN y.parts
    PROVE  n < ValueDepth /\ IsDrawn(y.parts[i], t, options, n + 1)
<1>1. PICK c \in VisitedTypes(t), p \in {options, KeyOptions(options)}, d \in 1..MaxDepth :
        /\ c.id = "MAP" /\ n + 2 * d <= ValueDepth + 1
        /\ \E k \in GenValueWithin[d][<<c.parts[1], KeyOptions(p)>>], w \in GenValueWithin[d][<<c.parts[2], p>>] :
                y = Entry(c, k, w)
  BY DEF IsDrawnEntry
<1>2. PICK k \in GenValueWithin[d][<<c.parts[1], KeyOptions(p)>>], w \in GenValueWithin[d][<<c.parts[2], p>>] :
        y = Entry(c, k, w)
  BY <1>1
<1>3. /\ MaxDepth \in Nat /\ ValueDepth \in Int /\ d \in 1..MaxDepth + 1
      /\ n < ValueDepth /\ n + 1 + 2 * d <= ValueDepth + 2
  BY <1>1, GenTypeAssumption DEF ValueDepth
<1>4. c.parts[1] \in VisitedTypes(t) /\ c.parts[2] \in VisitedTypes(t)
  <2>1. PICK m \in Nat : GeneratedAt(c, m)
    BY PartsAreVisited
  <2>2. DOMAIN c.parts = {1, 2}
    BY <1>1, <2>1 DEF GeneratedAt, IsNested
  <2> QED
    BY <2>2, PartsAreVisited
<1>5. KeyOptions(p) \in {options, KeyOptions(options)}
  BY KeyOptionsAre
<1>6. y.parts = <<k, w>> /\ i \in {1, 2}
  BY <1>2 DEF Entry, Value
<1>7. y.parts[i] = k \/ y.parts[i] = w
  BY <1>6
<1> QED
  BY <1>2, <1>3, <1>4, <1>5, <1>7 DEF IsDrawn

\* So is everything that is visited.
LEMMA VisitedAreDrawn ==
    ASSUME NEW t \in Types, NEW options \in Options, NEW x \in GenValue(t, options)
    PROVE  \A n \in 0..ValueDepth : \A y \in Levels(x, ValueDepth)[n] :
                /\ IsDrawn(y, t, options, n) \/ IsDrawnEntry(y, t, options, n)
                /\ n > 0 => IsNested(t)
<1> DEFINE level == Levels(x, ValueDepth)
           Known(n) == \A y \in level[n] : /\ IsDrawn(y, t, options, n) \/ IsDrawnEntry(y, t, options, n)
                                           /\ n > 0 => IsNested(t)
           K == {n \in Nat : n <= ValueDepth => Known(n)}
<1>1. MaxDepth \in Nat /\ ValueDepth \in Nat
  BY GenTypeAssumption DEF ValueDepth
<1>2. level[0] = {x} /\ \A n \in 1..ValueDepth : level[n] = PartsOf(level[n - 1])
  BY <1>1, LevelsAre
<1> HIDE DEF level
<1>3. t \in VisitedTypes(t) /\ t.names \in Seq(Names) /\ \E n \in Nat : GeneratedAt(t, n)
  BY PartsAreVisited
<1>4. Known(0)
  <2>1. /\ options \in {options, KeyOptions(options)} /\ MaxDepth + 1 \in 1..MaxDepth + 1
        /\ 0 + 2 * (MaxDepth + 1) <= ValueDepth + 2 /\ x \in GenValueWithin[MaxDepth + 1][<<t, options>>]
    BY <1>1 DEF GenValue, ValueDepth
  <2>2. IsDrawn(x, t, options, 0)
    BY <1>3, <2>1 DEF IsDrawn
  <2> QED
    BY <1>2, <2>2
<1>5. x.parts # <<>> => IsNested(t)
  <2>1. MaxDepth + 1 \in 0..MaxDepth + 1 /\ x \in GenValueWithin[MaxDepth + 1][<<t, options>>]
    BY <1>1 DEF GenValue
  <2> DEFINE d == MaxDepth + 1
             below == GenValueWithin[d - 1]
  <2>2. (x = NullOf(t) /\ options.nulls = TRUE) \/ x \in GenNonNullValue(below, t, options)
    <3> HIDE DEF d
    <3>1. d \in 0..MaxDepth + 1 /\ x \in GenValueWithin[d][<<t, options>>]
      BY <2>1 DEF d
    <3> QED
      BY <1>3, <3>1, ValueIs
  <2> HIDE DEF below
  <2>3. PICK n \in Nat : GeneratedAt(t, n)
    BY <1>3
  <2>4. x = NullOf(t) => x.parts = <<>>
    BY DEF NullOf
  <2>5. x \in GenNonNullValue(below, t, options) => IsNonNull(x, below, t, options)
    BY <1>3, <2>3, NonNullIs
  <2> QED
    BY <2>2, <2>4, <2>5 DEF IsNonNull
<1>6. ASSUME NEW n \in Nat, n \in K PROVE n + 1 \in K
  <2> SUFFICES ASSUME n + 1 <= ValueDepth, NEW z \in level[n + 1]
               PROVE  /\ IsDrawn(z, t, options, n + 1) \/ IsDrawnEntry(z, t, options, n + 1)
                      /\ IsNested(t)
    OBVIOUS
  <2>1. n + 1 \in 1..ValueDepth /\ n <= ValueDepth /\ n + 1 - 1 = n
    BY <1>1
  <2>2. level[n + 1] = PartsOf(level[n])
    BY <1>2, <2>1
  <2>3. PICK y \in level[n] : \E i \in DOMAIN y.parts : z = y.parts[i]
    BY <2>2 DEF PartsOf
  <2>4. PICK i \in DOMAIN y.parts : z = y.parts[i]
    BY <2>3
  <2>5. /\ IsDrawn(y, t, options, n) \/ IsDrawnEntry(y, t, options, n)
        /\ n > 0 => IsNested(t)
    BY <1>6, <2>1
  <2>6. IsDrawn(z, t, options, n + 1) \/ IsDrawnEntry(z, t, options, n + 1)
    BY <2>4, <2>5, PartsAreDrawn, EntryPartsAreDrawn
  <2>7. IsNested(t)
    <3>1. CASE n = 0
      <4>1. y = x
        BY <1>2, <3>1
      <4> QED
        BY <1>5, <2>4, <4>1
    <3> QED
      BY <2>5, <3>1
  <2> QED
    BY <2>6, <2>7
<1>7. 0 \in K
  BY <1>4
<1> HIDE DEF K
<1>8. Nat \subseteq K
  BY <1>6, <1>7, InductionOverSet
<1>9. \A n \in 0..ValueDepth : Known(n)
  <2>1. \A n \in 0..ValueDepth : n \in Nat /\ n <= ValueDepth
    BY <1>1
  <2> QED
    BY <1>8, <2>1 DEF K
<1> QED
  BY <1>9 DEF level

-----------------------------------------------------------------------------
\* Sequences of up to three numbers, piece by piece.
LEMMA Pieces ==
    ASSUME NEW x \in Int, NEW y \in Int, NEW z \in Int
    PROVE  /\ <<x>> \o <<y>> \o <<z>> = <<x, y, z>> /\ <<x>> \o <<y>> \o <<>> = <<x, y>>
           /\ <<x>> \o <<>> \o <<y>> = <<x, y>> /\ <<x>> \o <<>> \o <<>> = <<x>>
<1>1. <<x>> \in Seq(Int) /\ <<x, y>> \in Seq(Int)
  OBVIOUS
<1>2. <<x>> \o <<>> = <<x>> /\ <<x, y>> \o <<>> = <<x, y>>
  BY <1>1, ConcatEmptySeq
<1>3. <<x>> \o <<y>> = <<x, y>>
  <2>1. Append(<<x>>, y) = <<x, y>>
    <3> DEFINE s == Append(<<x>>, y)
    <3>1. s \in Seq(Int) /\ Len(s) = 2 /\ s[1] = x /\ s[2] = y
      BY <1>1, AppendProperties
    <3>2. <<x, y>> \in Seq(Int) /\ Len(<<x, y>>) = 2
      OBVIOUS
    <3> HIDE DEF s
    <3>3. \A i \in 1..Len(s) : s[i] = <<x, y>>[i]
      BY <3>1
    <3> QED
      BY <3>1, <3>2, <3>3, SeqEqual DEF s
  <2> QED
    BY <1>1, <2>1, AppendIsConcat
<1>4. <<x, y>> \o <<z>> = <<x, y, z>>
  <2>1. Append(<<x, y>>, z) = <<x, y, z>>
    <3> DEFINE s == Append(<<x, y>>, z)
    <3>1. s \in Seq(Int) /\ Len(s) = 3 /\ s[1] = x /\ s[2] = y /\ s[3] = z
      BY <1>1, AppendProperties
    <3>2. <<x, y, z>> \in Seq(Int) /\ Len(<<x, y, z>>) = 3
      OBVIOUS
    <3> HIDE DEF s
    <3>3. \A i \in 1..Len(s) : s[i] = <<x, y, z>>[i]
      BY <3>1
    <3> QED
      BY <3>1, <3>2, <3>3, SeqEqual DEF s
  <2> QED
    BY <1>1, <2>1, AppendIsConcat
<1> QED
  BY <1>2, <1>3, <1>4

\* An offset can be read again, unless the issue is open and it has seconds and no minutes.
LEMMA OffsetsKept ==
    ASSUME NEW leaf \in Int
    PROVE  ParsedOffset(PrintedOffset(leaf)) = AbsOf(leaf) <=>
                TimetzText \notin open \/ ~(AbsOf(leaf) % 3600 # 0 /\ (AbsOf(leaf) % 3600) \div 60 = 0)
<1> DEFINE a == AbsOf(leaf)
           hh == a \div 3600
           mm == (a % 3600) \div 60
           ss == a % 60
           Parsed == ParsedOffset(PrintedOffset(leaf))
<1>1. a \in Nat
  BY DEF AbsOf
<1> HIDE DEF a
<1>2. /\ hh \in Nat /\ mm \in Nat /\ ss \in Nat /\ a = 3600 * hh + 60 * mm + ss /\ ss < 60
      /\ a % 3600 # 0 <=> mm # 0 \/ ss # 0
  BY <1>1
<1>3. PrintedOffset(leaf) = <<hh>> \o (IF mm # 0 \/ (ss # 0 /\ TimetzText \notin open) THEN <<mm>> ELSE <<>>)
                                   \o (IF ss # 0 THEN <<ss>> ELSE <<>>)
  BY DEF PrintedOffset, a
<1> HIDE DEF hh, mm, ss
<1>4. /\ <<hh>> \o <<mm>> \o <<ss>> = <<hh, mm, ss>> /\ <<hh>> \o <<mm>> \o <<>> = <<hh, mm>>
      /\ <<hh>> \o <<>> \o <<ss>> = <<hh, ss>> /\ <<hh>> \o <<>> \o <<>> = <<hh>>
  BY <1>2, Pieces
<1>5. \A fields : ParsedOffset(fields) =
            3600 * (IF 1 \in DOMAIN fields THEN fields[1] ELSE 0)
                + 60 * (IF 2 \in DOMAIN fields THEN fields[2] ELSE 0)
                + (IF 3 \in DOMAIN fields THEN fields[3] ELSE 0)
  BY DEF ParsedOffset
<1>6. CASE mm # 0 \/ (ss # 0 /\ TimetzText \notin open)
  <2>1. CASE ss # 0
    <3>1. PrintedOffset(leaf) = <<hh, mm, ss>>
      BY <1>3, <1>4, <1>6, <2>1
    <3>2. Parsed = 3600 * hh + 60 * mm + ss
      BY <1>2, <1>5, <3>1
    <3> QED
      BY <1>2, <1>6, <3>2 DEF a, mm
  <2>2. CASE ss = 0
    <3>1. PrintedOffset(leaf) = <<hh, mm>>
      BY <1>3, <1>4, <1>6, <2>2
    <3>2. Parsed = 3600 * hh + 60 * mm
      BY <1>2, <1>5, <3>1
    <3> QED
      BY <1>2, <1>6, <2>2, <3>2 DEF a, mm
  <2> QED
    BY <2>1, <2>2
<1>7. CASE mm = 0 /\ ss # 0 /\ TimetzText \in open
  <2>1. PrintedOffset(leaf) = <<hh, ss>>
    BY <1>3, <1>4, <1>7
  <2>2. Parsed = 3600 * hh + 60 * ss
    BY <1>2, <1>5, <2>1
  <2>3. Parsed # a
    BY <1>2, <1>7, <2>2
  <2> QED
    BY <1>2, <1>7, <2>3 DEF a, mm
<1>8. CASE mm = 0 /\ ss = 0
  <2>1. PrintedOffset(leaf) = <<hh>>
    BY <1>3, <1>4, <1>8
  <2>2. Parsed = 3600 * hh
    BY <1>2, <1>5, <2>1
  <2> QED
    BY <1>2, <1>8, <2>2 DEF a, mm
<1> QED
  BY <1>6, <1>7, <1>8

\* And hours, unless the issue is open and they have too many digits.
LEMMA HoursKept ==
    ASSUME NEW leaf \in Int
    PROVE  LET limit == HourLimit * MicrosPerHour
           IN /\ HoursAreParsed(leaf) <=> IntervalText \notin open \/ ~(leaf >= limit \/ leaf <= -limit)
<1> DEFINE a == AbsOf(leaf)
           u == MicrosPerHour
           h == HourLimit
           q == a \div u
<1>1. u \in Nat /\ u > 0 /\ h \in Nat /\ h > 0 /\ a \in Nat
  BY RoundtripAssumption DEF AbsOf
<1>2. leaf >= h * u \/ leaf <= -(h * u) <=> a >= h * u
  BY <1>1 DEF AbsOf
<1> HIDE DEF a, u, h
<1>3. q \in Nat /\ u * q <= a /\ a < u * (q + 1) /\ u * (q + 1) = u * q + u /\ h * u = u * h
  BY <1>1
<1> HIDE DEF q
<1>4. q < h => u * (q + 1) <= u * h
  <2> SUFFICES ASSUME q + 1 <= h PROVE u * (q + 1) <= u * h
    BY <1>1, <1>3
  <2>1. PICK m \in Nat : h = (q + 1) + m
    <3>1. h - (q + 1) \in Nat /\ h = (q + 1) + (h - (q + 1))
      BY <1>1, <1>3
    <3> QED
      BY <3>1
  <2>2. u * h = u * (q + 1) + u * m /\ u * m >= 0
    BY <1>1, <1>3, <2>1
  <2> QED
    BY <1>1, <1>3, <2>2
<1>5. q >= h => u * h <= u * q
  <2> SUFFICES ASSUME q >= h PROVE u * h <= u * q
    OBVIOUS
  <2>1. PICK m \in Nat : q = h + m
    <3>1. q - h \in Nat /\ q = h + (q - h)
      BY <1>1, <1>3
    <3> QED
      BY <3>1
  <2>2. u * q = u * h + u * m /\ u * m >= 0
    BY <1>1, <1>3, <2>1
  <2> QED
    BY <1>1, <1>3, <2>2
<1>6. q < h <=> a < h * u
  <2>1. u * q \in Int /\ u * h \in Int /\ u * (q + 1) \in Int
    BY <1>1, <1>3
  <2> QED
    BY <1>1, <1>3, <1>4, <1>5, <2>1
<1>7. HoursAreParsed(leaf) <=> IntervalText \notin open \/ q < h
  BY DEF HoursAreParsed, a, u, h, q
<1>8. a >= h * u <=> ~(a < h * u)
  BY <1>1
<1> QED
  BY <1>2, <1>6, <1>7, <1>8 DEF u, h

-----------------------------------------------------------------------------
\* What is visited in a value is NULL or of a visited type, or an entry of a MAP.
LEMMA DrawnIs ==
    ASSUME NEW t \in Types, NEW options \in Options, NEW n \in Nat, NEW y,
           IsDrawn(y, t, options, n) \/ IsDrawnEntry(y, t, options, n)
    PROVE  /\ y.leaf \in Int
           /\ \/ y.null = TRUE /\ y.parts = <<>> /\ y.leaf = 0
              \/ /\ y.null = FALSE /\ y.type \in VisitedTypes(t)
                 /\ ~IsNested(y.type) => y.leaf \in LeavesOf(y.type, options)
              \/ y.null = FALSE /\ y.type.id = "STRUCT" /\ y.type.names = <<"key", "value">>
<1>1. CASE IsDrawn(y, t, options, n)
  <2>1. PICK c \in VisitedTypes(t), p \in {options, KeyOptions(options)}, d \in 1..MaxDepth + 1 :
            y \in GenValueWithin[d][<<c, p>>]
    BY <1>1 DEF IsDrawn
  <2>2. p \in Options /\ p.safe_strings = options.safe_strings
    BY KeyOptionsAre
  <2>3. LeavesOf(c, p) = LeavesOf(c, options)
    BY <2>2 DEF LeavesOf
  <2>4. d \in 0..MaxDepth + 1
    BY GenTypeAssumption
  <2> DEFINE below == GenValueWithin[d - 1]
  <2>5. y = NullOf(c) \/ y \in GenNonNullValue(below, c, p)
    BY <2>1, <2>2, <2>4, ValueIs
  <2>6. y = NullOf(c) => y.null = TRUE /\ y.parts = <<>> /\ y.leaf = 0
    BY DEF NullOf
  <2>7. c.names \in Seq(Names) /\ \E m \in Nat : GeneratedAt(c, m)
    BY PartsAreVisited
  <2> HIDE DEF below
  <2>8. y \in GenNonNullValue(below, c, p) =>
            /\ y.type = c /\ y.null = FALSE /\ y.leaf \in Int
            /\ ~IsNested(c) => y.leaf \in LeavesOf(c, p)
    <3>1. y \in GenNonNullValue(below, c, p) => IsNonNull(y, below, c, p)
      BY <2>2, <2>7, NonNullIs
    <3> QED
      BY <3>1 DEF IsNonNull
  <2> QED
    BY <2>3, <2>5, <2>6, <2>8
<1>2. CASE IsDrawnEntry(y, t, options, n)
  <2>1. PICK c, k, w : y = Entry(c, k, w)
    BY <1>2 DEF IsDrawnEntry
  <2> QED
    BY <2>1 DEF Entry, Value, Struct, TypeOf
<1> QED
  BY <1>1, <1>2

\* What DuckDB keeps of a value follows from what its guard and its filter let through.
LEMMA GuardedSurvive ==
    ASSUME NEW t \in Types, Suits(t), NEW x \in GenValue(t, OptionsFor(t)),
           way \in {"text", "literal"} => ~HasKnownTextIssue(x)
    PROVE  Survives(x)
<1> DEFINE level == Levels(x, ValueDepth)
           options == OptionsFor(t)
<1> SUFFICES ASSUME NEW n \in 0..ValueDepth, NEW y \in level[n] PROVE Kept(y, n > 0)
  BY DEF Survives
<1>1. MaxDepth \in Nat /\ ValueDepth \in Nat /\ n \in Nat
  BY GenTypeAssumption DEF ValueDepth
<1>2. options \in Options /\ options.safe_strings = (way = "text" /\ IsNested(t))
  BY DEF Options, OptionsFor
<1>3. \A m \in 0..ValueDepth : \A z \in level[m] :
            (IsDrawn(z, t, options, m) \/ IsDrawnEntry(z, t, options, m)) /\ (m > 0 => IsNested(t))
  BY <1>2, VisitedAreDrawn
<1>4. \A m \in 0..ValueDepth : \A z \in level[m] : z \in VisitedValues(x)
  BY DEF VisitedValues
<1>5. \A m \in 1..ValueDepth : level[m] = PartsOf(level[m - 1])
  BY <1>1, LevelsAre
<1> HIDE DEF level, options
<1> SUFFICES ASSUME ~y.null PROVE Kept(y, n > 0)
  BY DEF Kept
<1>6. /\ y.leaf \in Int
      /\ \/ /\ y.type \in VisitedTypes(t)
            /\ ~IsNested(y.type) => y.leaf \in LeavesOf(y.type, options)
         \/ y.type.id = "STRUCT" /\ y.type.names = <<"key", "value">>
  BY <1>1, <1>2, <1>3, DrawnIs
<1>7. \A i \in DOMAIN y.type.names : y.type.id = "STRUCT" /\ y.type.names = <<"key", "value">> =>
            y.type.names[i] \in SafeNames
  <2>1. \A names : names = <<"key", "value">> => \A i \in DOMAIN names : names[i] \in SafeNames
    BY LeavesAssumption
  <2> QED
    BY <2>1
<1>8. way \in {"text", "literal"} =>
            /\ y.type.id = "TIME_TZ" => ParsedOffset(PrintedOffset(y.leaf)) = AbsOf(y.leaf)
            /\ y.type.id = "INTERVAL" => HoursAreParsed(y.leaf)
  <2> SUFFICES ASSUME way \in {"text", "literal"}
               PROVE  /\ y.type.id = "TIME_TZ" => ParsedOffset(PrintedOffset(y.leaf)) = AbsOf(y.leaf)
                      /\ y.type.id = "INTERVAL" => HoursAreParsed(y.leaf)
    OBVIOUS
  <2>1. y \in VisitedValues(x) /\ ~HasKnownTextIssue(x)
    BY <1>4
  <2>2. y.type.id = "TIME_TZ" => ~(AbsOf(y.leaf) % 3600 # 0 /\ (AbsOf(y.leaf) % 3600) \div 60 = 0)
    BY <2>1 DEF HasKnownTextIssue
  <2>3. y.type.id = "INTERVAL" =>
            ~(y.leaf >= HourLimit * MicrosPerHour \/ y.leaf <= -(HourLimit * MicrosPerHour))
    BY <2>1 DEF HasKnownTextIssue
  <2> QED
    BY <1>6, <2>2, <2>3, OffsetsKept, HoursKept
<1>9. way = "text" => KeptInText(y, n > 0)
  <2> SUFFICES ASSUME way = "text" PROVE KeptInText(y, n > 0)
    OBVIOUS
  <2>1. /\ ~TypeContainsAny(t, {"UNION"}) /\ AllSafe(t, "ENUM") /\ AllSafe(t, "STRUCT")
    BY DEF Suits, TypeHasSafeEnumValues, TypeHasSafeFieldNames
  <2>2. n > 0 => options.safe_strings = TRUE
    BY <1>2, <1>3
  <2>3. CASE y.type.id = "STRUCT"
    BY <1>6, <1>7, <2>1, <2>3 DEF KeptInText, AllSafe, IsSafeString
  <2>4. CASE y.type.id # "STRUCT"
    <3>1. y.type \in VisitedTypes(t) /\ (~IsNested(y.type) => y.leaf \in LeavesOf(y.type, options))
      BY <1>6, <2>4
    <3>2. y.type.id # "UNION"
      BY <2>1, <3>1 DEF TypeContainsAny
    <3>3. y.type.id = "ENUM" => y.leaf \in DOMAIN y.type.names /\ IsSafeString(y.type.names[y.leaf])
      BY <2>1, <3>1 DEF AllSafe, LeavesOf, IsNested
    <3>4. n > 0 /\ y.type.id \in {"VARCHAR", "BLOB"} => y.leaf = Safe
      BY <2>2, <3>1 DEF LeavesOf, IsNested
    <3> QED
      BY <2>4, <3>2, <3>3, <3>4 DEF KeptInText
  <2> QED
    BY <2>3, <2>4
<1>10. way = "literal" => KeptInLiteral(y)
  <2> SUFFICES ASSUME way = "literal" PROVE KeptInLiteral(y)
    OBVIOUS
  <2>1. /\ ~TypeContainsAny(t, {"BIT", "UNION"})
        /\ \A c \in VisitedTypes(t) : c.id = "STRUCT" =>
                \A i \in DOMAIN c.names : c.names[i] \notin QuotedNames
    BY DEF Suits
  <2>2. y.type.id \notin {"BIT", "UNION"}
    BY <1>6, <2>1 DEF TypeContainsAny
  <2>3. y.type.id = "STRUCT" => \A i \in DOMAIN y.type.names : y.type.names[i] \notin QuotedNames
    BY <1>6, <1>7, <2>1, RoundtripAssumption
  <2>4. ASSUME NEW i \in DOMAIN y.parts, y.parts[i].type.id = "UHUGEINT"
        PROVE  ~(y.parts[i].leaf > HugeintMax)
    <3> DEFINE z == y.parts[i]
    <3>1. n < ValueDepth
      BY <1>1, <1>2, <1>3, PartsAreDrawn, EntryPartsAreDrawn
    <3>2. n + 1 \in 0..ValueDepth /\ n + 1 \in 1..ValueDepth /\ n + 1 - 1 = n /\ n + 1 \in Nat
      BY <1>1, <3>1
    <3>3. z \in level[n + 1]
      BY <1>5, <3>2 DEF PartsOf
    <3>4. z \in VisitedValues(x) /\ (IsDrawn(z, t, options, n + 1) \/ IsDrawnEntry(z, t, options, n + 1))
      BY <1>3, <1>4, <3>2, <3>3
    <3>5. z.null = TRUE => z.leaf = 0
      BY <1>2, <3>2, <3>4, DrawnIs
    <3>6. ~z.null => ~(z.leaf > HugeintMax)
      BY <2>4, <3>4 DEF HasKnownTextIssue
    <3>7. z.null = TRUE \/ ~z.null
      BY <1>2, <3>2, <3>4, DrawnIs
    <3> QED
      BY <3>5, <3>6, <3>7, RoundtripAssumption
  <2> QED
    BY <2>2, <2>3, <2>4 DEF KeptInLiteral
<1>11. way = "json" => KeptInJson(y)
  <2> SUFFICES ASSUME way = "json" PROVE KeptInJson(y)
    OBVIOUS
  <2>1. /\ ~TypeContainsAny(t, LossyInJson)
        /\ \A c \in VisitedTypes(t) : c.id = "DECIMAL" => ~(c.size > 15)
    BY DEF Suits
  <2>2. y.type.id \notin LossyInJson
    BY <1>6, <2>1 DEF TypeContainsAny, LossyInJson
  <2>3. y.type.id = "DECIMAL" => y.type.size <= 15
    <3> SUFFICES ASSUME y.type.id = "DECIMAL" PROVE y.type.size <= 15
      OBVIOUS
    <3>1. y.type \in VisitedTypes(t)
      BY <1>6
    <3>2. PICK m \in Nat : GeneratedAt(y.type, m)
      BY <3>1, PartsAreVisited
    <3>3. y.type.size \in Int
      <4>1. ~IsNested(y.type)
        BY DEF IsNested
      <4>2. y.type.size \in 1..38
        BY <3>2, <4>1 DEF GeneratedAt
      <4> QED
        BY <4>2
    <3> QED
      BY <2>1, <3>1, <3>3
  <2> QED
    BY <2>2, <2>3 DEF KeptInJson
<1> QED
  BY <1>8, <1>9, <1>10, <1>11 DEF Kept

\* No key of a MAP is NULL or there twice.
LEMMA AllAreLegal ==
    ASSUME NEW t \in Types, NEW options \in Options, NEW x \in GenValue(t, options)
    PROVE  Legal(x)
<1> SUFFICES ASSUME NEW y \in VisitedValues(x), y.type.id = "MAP"
             PROVE  \A i \in DOMAIN y.parts :
                        /\ ~y.parts[i].parts[1].null
                        /\ \A j \in DOMAIN y.parts : i # j => y.parts[i].parts[1] # y.parts[j].parts[1]
  BY DEF Legal
<1>1. PICK n \in 0..ValueDepth : y \in Levels(x, ValueDepth)[n]
  BY DEF VisitedValues
<1>2. IsDrawn(y, t, options, n)
  <2>1. IsDrawn(y, t, options, n) \/ IsDrawnEntry(y, t, options, n)
    BY <1>1, VisitedAreDrawn
  <2>2. \A c, k, w : Entry(c, k, w).type.id = "STRUCT"
    BY DEF Entry, Value, Struct, TypeOf
  <2> QED
    BY <2>1, <2>2 DEF IsDrawnEntry
<1>3. PICK c \in VisitedTypes(t), p \in {options, KeyOptions(options)}, d \in 1..MaxDepth + 1 :
            y \in GenValueWithin[d][<<c, p>>]
  BY <1>2 DEF IsDrawn
<1>4. /\ p \in Options /\ KeyOptions(p) \in Options /\ KeyOptions(p).nulls = FALSE
      /\ d \in 0..MaxDepth + 1 /\ d - 1 \in 0..MaxDepth + 1
  <2>1. p \in Options
    BY KeyOptionsAre
  <2>2. KeyOptions(p) \in Options /\ KeyOptions(p).nulls = FALSE
    BY <2>1, KeyOptionsAre
  <2> QED
    BY <2>1, <2>2, GenTypeAssumption
<1> DEFINE below == GenValueWithin[d - 1]
<1>5. (y = NullOf(c) /\ p.nulls = TRUE) \/ y \in GenNonNullValue(below, c, p)
  BY <1>3, <1>4, ValueIs
<1>6. CASE y = NullOf(c)
  BY <1>6 DEF NullOf
<1>7. CASE y \in GenNonNullValue(below, c, p)
  <2>1. PICK m \in Nat : c.names \in Seq(Names) /\ GeneratedAt(c, m)
    BY PartsAreVisited
  <2> HIDE DEF below
  <2>2. IsNonNull(y, below, c, p)
    BY <1>4, <1>7, <2>1, NonNullIs
  <2>3. y.type = c
    BY <2>2 DEF IsNonNull
  <2>4. c.id = "MAP"
    BY <2>3
  <2>5. PICK keys, values :
            /\ IsInjective(keys) /\ y.parts = Entries(c, keys, values)
            /\ \A j \in DOMAIN keys : /\ keys[j] \in below[<<c.parts[1], KeyOptions(p)>>]
                                      /\ values[j] \in below[<<c.parts[2], p>>]
    BY <2>4, <2>2 DEF IsNonNull
  <2>6. /\ DOMAIN y.parts = DOMAIN keys
        /\ \A i \in DOMAIN keys : y.parts[i] = Entry(c, keys[i], values[i])
    BY <2>5 DEF Entries
  <2>7. \A i \in DOMAIN keys : y.parts[i].parts[1] = keys[i]
    <3>1. \A k, w : Entry(c, k, w).parts = <<k, w>>
      BY DEF Entry, Value
    <3>2. \A k, w : <<k, w>>[1] = k
      OBVIOUS
    <3> QED
      BY <2>6, <3>1, <3>2
  <2>8. c.parts[1] \in VisitedTypes(t)
    <3>1. DOMAIN c.parts = {1, 2}
      BY <2>1, <2>4 DEF GeneratedAt, IsNested
    <3> QED
      BY <3>1, PartsAreVisited
  <2>9. PICK l \in Nat : c.parts[1].names \in Seq(Names) /\ GeneratedAt(c.parts[1], l)
    BY <2>8, PartsAreVisited
  <2>10. ASSUME NEW i \in DOMAIN keys PROVE keys[i].null = FALSE
    <3> DEFINE e == d - 1
    <3>1. keys[i] \in GenValueWithin[e][<<c.parts[1], KeyOptions(p)>>] /\ e \in 0..MaxDepth + 1
      BY <1>4, <2>5 DEF below
    <3> HIDE DEF e
    <3> DEFINE lower == GenValueWithin[e - 1]
               k == keys[i]
               first == c.parts[1]
               q == KeyOptions(p)
    <3>2. k \in GenNonNullValue(lower, first, q)
      <4>1. (k = NullOf(first) /\ q.nulls = TRUE) \/ k \in GenNonNullValue(lower, first, q)
        BY <1>4, <2>8, <3>1, ValueIs
      <4> QED
        BY <1>4, <4>1
    <3>3. first.names \in Seq(Names) /\ GeneratedAt(first, l) /\ q \in Options
      BY <1>4, <2>9
    <3> HIDE DEF lower, first, q
    <3>4. IsNonNull(k, lower, first, q)
      BY <3>2, <3>3, NonNullIs
    <3> QED
      BY <3>4 DEF IsNonNull
  <2>11. \A i, j \in DOMAIN keys : keys[i] = keys[j] => i = j
    BY <2>5 DEF IsInjective
  <2>12. \A i \in DOMAIN y.parts : i \in DOMAIN keys /\ y.parts[i].parts[1] = keys[i] /\ keys[i].null = FALSE
    BY <2>6, <2>7, <2>10
  <2> QED
    BY <2>11, <2>12
<1> QED
  BY <1>5, <1>6, <1>7

-----------------------------------------------------------------------------
\* What a value is made of, whatever its type.
IsValue(x) == x.leaf \in Int /\ \E c : x = NullOf(c) \/ x = Value(c, x.leaf, x.parts)

\* What is drawn is a value.
LEMMA ValuesAreDrawn ==
    ASSUME NEW t \in Types, NEW options \in Options, NEW x \in GenValue(t, options)
    PROVE  IsValue(x)
<1> DEFINE d == MaxDepth + 1
           below == GenValueWithin[d - 1]
<1>1. d \in 0..MaxDepth + 1 /\ x \in GenValueWithin[d][<<t, options>>]
  BY GenTypeAssumption DEF GenValue
<1>2. t \in VisitedTypes(t) /\ t.names \in Seq(Names) /\ \E n \in Nat : GeneratedAt(t, n)
  BY PartsAreVisited
<1> HIDE DEF d
<1>3. (x = NullOf(t) /\ options.nulls = TRUE) \/ x \in GenNonNullValue(below, t, options)
  BY <1>1, <1>2, ValueIs
<1>4. PICK n \in Nat : GeneratedAt(t, n)
  BY <1>2
<1> HIDE DEF below
<1>5. x \in GenNonNullValue(below, t, options) => IsNonNull(x, below, t, options)
  BY <1>2, <1>4, NonNullIs
<1>6. x = NullOf(t) => x.leaf = 0
  BY DEF NullOf
<1> QED
  BY <1>3, <1>5, <1>6 DEF IsValue, IsNonNull

\* A NULL may always be inserted.
LEMMA NullsAreDrawn ==
    ASSUME NEW t \in Types
    PROVE  OptionsFor(t) \in Options /\ NullOf(t) \in GenValue(t, OptionsFor(t))
<1> DEFINE options == OptionsFor(t)
           d == MaxDepth + 1
           at == <<t, options>>
<1>1. options \in Options /\ options.nulls = TRUE
  BY DEF OptionsFor, Options
<1>2. d \in 1..MaxDepth + 1
  BY GenTypeAssumption
<1>3. t \in AllTypes
  BY PartsAreVisited DEF AllTypes
<1> HIDE DEF options, d
<1>4. at \in AllTypes \X Options /\ at[1] = t /\ at[2] = options
  BY <1>1, <1>3
<1>5. GenValueWithin[d][at] = GenNonNullValue(GenValueWithin[d - 1], at[1], at[2])
                                \cup IF at[2].nulls THEN {NullOf(at[1])} ELSE {}
  BY <1>2, <1>4, ValuesAre
<1>6. NullOf(t) \in GenValueWithin[d][at]
  BY <1>1, <1>4, <1>5
<1> QED
  BY <1>1, <1>6 DEF GenValue, d, options

\* A value is told from what DuckDB may make of it.
LEMMA ValuesDiffer ==
    ASSUME NEW x, IsValue(x)
    PROVE  /\ x.null \in BOOLEAN /\ Altered(x).null = FALSE /\ Altered(x) # x
           /\ ValuesEqualLoose(Retyped(x), x) /\ ValuesEqualLoose(x, x)
           /\ ValuesEqualLoose(NullOf(x.type), x) => NullOf(x.type) = x
           /\ ~ValuesEqualLoose(Altered(x), x)
<1>1. PICK c : x = NullOf(c) \/ x = Value(c, x.leaf, x.parts)
  BY DEF IsValue
<1>2. CASE x = NullOf(c)
  <2>1. /\ x = [type |-> c, null |-> TRUE, leaf |-> 0, parts |-> <<>>]
        /\ x.type = c /\ x.null = TRUE
    BY <1>2 DEF NullOf
  <2>2. Altered(x).null = FALSE
    BY <2>1 DEF Altered, Value
  <2>3. Retyped(x).null = x.null /\ Retyped(x).leaf = x.leaf /\ Retyped(x).parts = x.parts
    BY <2>1 DEF Retyped
  <2>4. NullOf(x.type) = x
    BY <1>2, <2>1
  <2> QED
    BY <2>1, <2>2, <2>3, <2>4 DEF ValuesEqualLoose
<1>3. CASE x = Value(c, x.leaf, x.parts)
  <2> DEFINE l == x.leaf
             ps == x.parts
  <2>1. /\ x = [type |-> c, null |-> FALSE, leaf |-> l, parts |-> ps]
        /\ x.type = c /\ x.null = FALSE /\ x.leaf = l /\ l \in Int
    BY <1>3 DEF Value, IsValue
  <2> HIDE DEF l, ps
  <2>2. Altered(x).null = FALSE /\ Altered(x).leaf = l + 1 /\ l + 1 # l
    BY <2>1 DEF Altered
  <2>3. Retyped(x).null = x.null /\ Retyped(x).leaf = x.leaf /\ Retyped(x).parts = x.parts
    BY <2>1 DEF Retyped
  <2>4. NullOf(x.type).null = TRUE
    BY DEF NullOf
  <2> QED
    BY <2>1, <2>2, <2>3, <2>4 DEF ValuesEqualLoose
<1> QED
  BY <1>1, <1>2, <1>3

\* The replies that a property accepts are those of a DuckDB that is healthy.
LEMMA RepliesAreJudged ==
    ASSUME NEW x, IsValue(x), Legal(x), Survives(x)
    PROVE  /\ \A r \in RepliesTo(x) : r.kind = "row" /\ ValuesEqual(r.value, x) <=> r \in Healthy(x)
           /\ \A r \in RepliesTo(x) :
                r.kind = "row" /\ (~IsNested(x.type) /\ x.type.id # "FLOAT" => ValuesEqualLoose(r.value, x))
                    <=> r \in HealthyUntyped(x)
<1>1. /\ Error.kind # "row" /\ NoRow.kind # "row"
      /\ \A v : Row(v).kind = "row" /\ Row(v).value = v
  BY DEF Error, NoRow, Row
<1>2. Healthy(x) = {Row(x)}
  BY DEF Healthy
<1>3. \A r \in RepliesTo(x) : r = Error \/ r = NoRow \/ \E v \in {x, NullOf(x.type), Retyped(x), Altered(x)} : r = Row(v)
  BY DEF RepliesTo
<1>4. HealthyUntyped(x) = IF IsNested(x.type) \/ x.type.id = "FLOAT" THEN RepliesTo(x) \ {Error, NoRow}
                          ELSE {Row(x), Row(Retyped(x))}
  BY DEF HealthyUntyped
<1>5. ASSUME NEW r \in RepliesTo(x)
      PROVE  r.kind = "row" /\ ValuesEqual(r.value, x) <=> r \in Healthy(x)
  BY <1>1, <1>2, <1>3 DEF ValuesEqual
<1>6. ASSUME NEW r \in RepliesTo(x)
      PROVE  r.kind = "row" /\ (~IsNested(x.type) /\ x.type.id # "FLOAT" => ValuesEqualLoose(r.value, x))
                <=> r \in HealthyUntyped(x)
  <2>1. r.kind = "row" <=> r \notin {Error, NoRow}
    BY <1>1, <1>3
  <2>2. CASE IsNested(x.type) \/ x.type.id = "FLOAT"
    BY <1>4, <2>1, <2>2
  <2>3. CASE ~IsNested(x.type) /\ x.type.id # "FLOAT"
    <3>1. HealthyUntyped(x) = {Row(x), Row(Retyped(x))}
      BY <1>4, <2>3
    <3>2. \A v \in {x, NullOf(x.type), Retyped(x), Altered(x)} : ValuesEqualLoose(v, x) <=> v \in {x, Retyped(x)}
      BY ValuesDiffer
    <3>3. \A v : Row(v) \in {Row(x), Row(Retyped(x))} <=> v \in {x, Retyped(x)}
      BY <1>1
    <3> QED
      BY <1>1, <1>3, <2>1, <2>3, <3>1, <3>2, <3>3
  <2> QED
    BY <2>2, <2>3
<1> QED
  BY <1>5, <1>6
\* A value that was generated for the property that is run.
IsCase(x) == \E t \in Types : Suits(t) /\ x \in GenValue(t, OptionsFor(t))

\* The values to insert are all of one type.
ColumnIs(values) == \E t \in Types : values \in SeqsOf(GenValue(t, OptionsFor(t)))

\* What is in the table is what was inserted, or else something is wrong.
Stored(values) == UNION {{values[n], Altered(values[n])} : n \in DOMAIN values}
TableIs(values, rows) ==
    /\ rows \in Seq([i : Nat, v : Stored(values)])
    /\ Len(rows) <= Len(values)
    /\ \A n \in DOMAIN rows : rows[n].v \in {values[n], Altered(values[n])}
    /\ wrong = FALSE <=> \A n \in DOMAIN rows : rows[n].v = values[n]

\* What is known at each stage of a case.
StageInv ==
    /\ stage \in {"idle", "check", "untyped", "query", "create", "insert", "done"}
    /\ way \in Ways /\ wrong \in BOOLEAN
    /\ stage # "done" => outcome = "none"
    /\ stage \in {"idle", "check", "untyped", "query", "create"} => wrong = FALSE
CaseInv ==
    stage \in {"check", "untyped", "query"} =>
        /\ IsCase(drawn)
        /\ stage # "check" /\ way \in {"text", "literal"} => ~HasKnownTextIssue(drawn)
TableInv ==
    /\ stage \in {"create", "insert"} => ColumnIs(column)
    /\ stage = "insert" => TableIs(column, table)
DoneInv ==
    stage = "done" =>
        /\ outcome = "pass" => wrong = FALSE
        /\ outcome = "fail" => wrong = TRUE
        /\ outcome = "discard" => way \in {"text", "literal"} /\ HasKnownTextIssue(drawn) /\ IsCase(drawn)

RoundtripInv == StageInv /\ CaseInv /\ TableInv /\ DoneInv

\* Every value of a column can be inserted.
LEMMA ColumnsAreLegal ==
    ASSUME NEW values, ColumnIs(values)
    PROVE  /\ Len(values) \in Nat /\ DOMAIN values = 1..Len(values)
           /\ \A n \in DOMAIN values : IsValue(values[n]) /\ Legal(values[n])
<1>1. PICK t \in Types : values \in SeqsOf(GenValue(t, OptionsFor(t)))
  BY DEF ColumnIs
<1> DEFINE options == OptionsFor(t)
           S == GenValue(t, options)
<1>2. options \in Options
  BY NullsAreDrawn
<1> HIDE DEF options
<1>3. \A x \in S : IsValue(x) /\ Legal(x)
  BY <1>2, AllAreLegal, ValuesAreDrawn
<1> HIDE DEF S
<1>4. values \in SeqsOf(S)
  BY <1>1 DEF S, options
<1>5. PICK k \in 0..MaxLen : values \in [1..k -> S]
  BY <1>4 DEF SeqsOf
<1>6. k \in Nat
  BY LeavesAssumption
<1>7. Len(values) = k /\ DOMAIN values = 1..k
  BY <1>5, <1>6
<1> QED
  BY <1>3, <1>5, <1>6, <1>7

\* The values in the rows of a table.
Cells(rows) == [n \in DOMAIN rows |-> rows[n].v]

\* What is changed twice is not what it was.
LEMMA AlteredTwiceDiffers ==
    ASSUME NEW x, IsValue(x)
    PROVE  Altered(Altered(x)) # x
<1>1. PICK c : x.leaf \in Int /\ (x = NullOf(c) \/ x = Value(c, x.leaf, x.parts))
  BY DEF IsValue
<1>2. CASE x = NullOf(c)
  <2>1. x.null = TRUE /\ Altered(x) = Value(x.type, 1, <<>>)
    BY <1>2 DEF NullOf, Altered
  <2>2. Altered(x).null = FALSE
    BY <2>1 DEF Value
  <2>3. Altered(Altered(x)).null = FALSE
    BY <2>1, <2>2 DEF Altered, Value
  <2> QED
    BY <2>1, <2>3
<1>3. CASE x = Value(c, x.leaf, x.parts)
  <2> DEFINE l == x.leaf
             ps == x.parts
  <2>1. x = [type |-> c, null |-> FALSE, leaf |-> l, parts |-> ps] /\ l \in Int
    BY <1>1, <1>3 DEF Value
  <2> HIDE DEF l, ps
  <2>2. Altered(x) = [type |-> c, null |-> FALSE, leaf |-> l + 1, parts |-> ps]
    BY <2>1 DEF Altered
  <2>3. Altered(Altered(x)).leaf = (l + 1) + 1
    BY <2>2 DEF Altered
  <2>4. x.leaf = l /\ (l + 1) + 1 # l
    BY <2>1
  <2> QED
    BY <2>3, <2>4
<1> QED
  BY <1>1, <1>2, <1>3

\* Rows that come back as inserted, in whatever order, were stored as inserted.
LEMMA RowsAreJudged ==
    ASSUME NEW values, ColumnIs(values), NEW rows, TableIs(values, rows), Len(rows) >= Len(values),
           NEW got, got \in {Cells(rows), Reverse(Cells(rows)), <<>>}
    PROVE  (Len(got) = Len(values) /\ \A n \in DOMAIN got : ValuesEqual(got[n], values[n]))
                <=> wrong = FALSE /\ got = Cells(rows)
<1> DEFINE stored == Cells(rows)
           k == Len(values)
<1>1. /\ k \in Nat /\ DOMAIN values = 1..k
      /\ \A n \in DOMAIN values : IsValue(values[n])
  BY ColumnsAreLegal
<1>2. Len(rows) = k /\ DOMAIN rows = 1..k
  BY <1>1, LenProperties DEF TableIs
<1>3. stored = [n \in 1..k |-> rows[n].v]
  BY <1>2 DEF Cells
<1>4. /\ \A n \in 1..k : stored[n] \in {values[n], Altered(values[n])}
      /\ wrong = FALSE <=> \A n \in 1..k : stored[n] = values[n]
  BY <1>2, <1>3 DEF TableIs
<1>5. Len(stored) = k /\ DOMAIN stored = 1..k
  BY <1>1, <1>3
<1>6. /\ Len(Reverse(stored)) = k /\ DOMAIN Reverse(stored) = 1..k
      /\ \A n \in 1..k : Reverse(stored)[n] = stored[k - n + 1]
  BY <1>1, <1>5 DEF Reverse
<1> HIDE DEF stored, k
<1>7. \A n \in 1..k : Altered(Altered(values[n])) # values[n]
  BY <1>1, AlteredTwiceDiffers
<1>8. ASSUME \A n \in 1..k : Reverse(stored)[n] = stored[n] PROVE Reverse(stored) = stored
  <2>1. /\ Reverse(stored) = [n \in 1..k |-> Reverse(stored)[n]]
        /\ stored = [n \in 1..k |-> stored[n]]
    <3>1. Reverse(stored) = [n \in 1..k |-> stored[k - n + 1]]
      BY <1>5 DEF Reverse
    <3>2. stored = [n \in 1..k |-> rows[n].v]
      BY <1>3
    <3> QED
      BY <3>1, <3>2
  <2> QED
    BY <1>8, <2>1
<1>9. got \in {stored, Reverse(stored), <<>>}
  BY DEF stored
<1> SUFFICES (Len(got) = k /\ \A n \in DOMAIN got : got[n] = values[n]) <=> wrong = FALSE /\ got = stored
  BY DEF stored, k, ValuesEqual
<1>10. wrong = FALSE /\ got = stored => Len(got) = k /\ \A n \in DOMAIN got : got[n] = values[n]
  BY <1>4, <1>5
<1>11. ASSUME Len(got) = k, \A n \in DOMAIN got : got[n] = values[n]
       PROVE  wrong = FALSE /\ got = stored
  <2>1. CASE got = stored
    BY <1>4, <1>5, <1>11, <2>1
  <2>2. CASE got = <<>>
    <3>1. k = 0
      BY <1>11, <2>2
    <3>2. stored = <<>>
      BY <3>1, <1>3
    <3> QED
      BY <1>4, <2>2, <3>1, <3>2
  <2>3. CASE got = Reverse(stored)
    <3>1. \A n \in 1..k : stored[k - n + 1] = values[n]
      BY <1>6, <1>11, <2>3
    <3>2. ASSUME NEW n \in 1..k
          PROVE  stored[n] = values[n] /\ Reverse(stored)[n] = stored[n]
      <4> DEFINE m == k - n + 1
      <4>1. m \in 1..k /\ k - m + 1 = n
        BY <1>1
      <4> HIDE DEF m
      <4>2. stored[n] = values[m] /\ stored[m] = values[n]
        <5>1. stored[k - m + 1] = values[m] /\ stored[k - n + 1] = values[n]
          BY <3>1, <4>1
        <5> QED
          BY <4>1, <5>1 DEF m
      <4>3. stored[n] \in {values[n], Altered(values[n])} /\ stored[m] \in {values[m], Altered(values[m])}
        BY <1>4, <4>1
      <4>4. values[m] = values[n]
        BY <1>7, <4>2, <4>3
      <4>5. Reverse(stored)[n] = stored[m]
        BY <1>6 DEF m
      <4> QED
        BY <4>2, <4>4, <4>5
    <3> QED
      BY <1>4, <1>8, <2>3, <3>2
  <2> QED
    BY <1>9, <2>1, <2>2, <2>3
<1> QED
  BY <1>10, <1>11

\* A case with a value that is not discarded is judged as it should be.
LEMMA CasesAreJudged ==
    ASSUME NEW x, IsCase(x), way \in {"text", "literal"} => ~HasKnownTextIssue(x)
    PROVE  IsValue(x) /\ Legal(x) /\ Survives(x)
<1>1. PICK t \in Types : Suits(t) /\ x \in GenValue(t, OptionsFor(t))
  BY DEF IsCase
<1>2. OptionsFor(t) \in Options
  BY NullsAreDrawn
<1>3. IsValue(x)
  BY <1>1, <1>2, ValuesAreDrawn
<1>4. Legal(x)
  BY <1>1, <1>2, AllAreLegal
<1>5. Survives(x)
  BY <1>1, GuardedSurvive
<1> QED
  BY <1>3, <1>4, <1>5

\* What a guard keeps out would be lost, if the issues are open, or is a wide UHUGEINT.
LEMMA GuardsAreNeeded ==
    ASSUME NEW x, IsCase(x), way \in {"text", "literal"}, HasKnownTextIssue(x), Issues \subseteq open
    PROVE  ~Survives(x) \/ HasWideUhugeint(x)
<1>1. PICK t \in Types : Suits(t) /\ x \in GenValue(t, OptionsFor(t))
  BY DEF IsCase
<1> DEFINE options == OptionsFor(t)
           level == Levels(x, ValueDepth)
<1>2. options \in Options
  BY NullsAreDrawn
<1>3. PICK y \in VisitedValues(x) :
        /\ ~y.null
        /\ \/ /\ y.type.id = "TIME_TZ"
              /\ AbsOf(y.leaf) % 3600 # 0 /\ (AbsOf(y.leaf) % 3600) \div 60 = 0
           \/ /\ y.type.id = "INTERVAL"
              /\ y.leaf >= HourLimit * MicrosPerHour \/ y.leaf <= -(HourLimit * MicrosPerHour)
           \/ y.type.id = "UHUGEINT" /\ y.leaf > HugeintMax
  BY DEF HasKnownTextIssue
<1>4. PICK n \in 0..ValueDepth : y \in level[n]
  BY DEF VisitedValues
<1>5. ValueDepth \in Nat /\ n \in Nat
  BY GenTypeAssumption DEF ValueDepth
<1>6. IsDrawn(y, t, options, n) \/ IsDrawnEntry(y, t, options, n)
  BY <1>1, <1>2, <1>4, VisitedAreDrawn
<1>7. y.leaf \in Int
  BY <1>2, <1>5, <1>6, DrawnIs
<1>8. TimetzText \in open /\ IntervalText \in open
  BY DEF Issues
<1>9. ASSUME Survives(x)
      PROVE  /\ y.type.id = "TIME_TZ" => ParsedOffset(PrintedOffset(y.leaf)) = AbsOf(y.leaf)
             /\ y.type.id = "INTERVAL" => HoursAreParsed(y.leaf)
  <2>1. Kept(y, n > 0)
    BY <1>4, <1>9 DEF Survives
  <2> QED
    BY <1>3, <2>1 DEF Kept
<1>10. CASE y.type.id = "TIME_TZ"
  BY <1>3, <1>7, <1>8, <1>9, <1>10, OffsetsKept
<1>11. CASE y.type.id = "INTERVAL"
  BY <1>3, <1>7, <1>8, <1>9, <1>11, HoursKept
<1>12. CASE y.type.id = "UHUGEINT"
  BY <1>3, <1>12 DEF HasWideUhugeint
<1> QED
  BY <1>3, <1>10, <1>11, <1>12

\* A reply is judged by whether it is accepted, and a case goes on with nothing wrong.
LEMMA AsksAreJudged ==
    ASSUME NEW healthy, NEW accepted, NEW onward, Ask(healthy, accepted, onward), wrong = FALSE,
           \A r \in RepliesTo(drawn) : r \in accepted <=> r \in healthy
    PROVE  /\ \/ stage' = "done" /\ outcome' = "fail" /\ wrong' = TRUE
              \/ stage' = "done" /\ outcome' = "pass" /\ wrong' = FALSE /\ onward = "done"
              \/ stage' = onward /\ outcome' = outcome /\ wrong' = FALSE /\ onward # "done"
           /\ UNCHANGED <<open, way, column, table>>
<1>1. PICK reply \in RepliesTo(drawn) :
        /\ wrong' = (wrong \/ reply \notin healthy)
        /\ IF reply \notin accepted THEN Concludes("fail")
           ELSE IF onward = "done" THEN Concludes("pass")
           ELSE stage' = onward /\ UNCHANGED outcome
        /\ UNCHANGED <<open, way, column, table>>
  BY DEF Ask
<1>2. wrong' = (reply \notin accepted)
  BY <1>1
<1> QED
  BY <1>1, <1>2 DEF Concludes

\* What is known of a case depends only on the property that is run.
LEMMA CasesStay ==
    ASSUME way' = way
    PROVE  /\ \A t : (Suits(t)' <=> Suits(t)) /\ OptionsFor(t)' = OptionsFor(t)
           /\ \A x : IsCase(x)' <=> IsCase(x)
           /\ \A values : ColumnIs(values)' <=> ColumnIs(values)
<1>1. \A t : (Suits(t)' <=> Suits(t)) /\ OptionsFor(t)' = OptionsFor(t)
  BY DEF Suits, OptionsFor
<1> QED
  BY <1>1 DEF IsCase, ColumnIs

\* The invariant holds in the beginning, ...
LEMMA RoundtripInvInit == RoundtripInit => RoundtripInv
  BY DEF RoundtripInit, RoundtripInv, StageInv, CaseInv, TableInv, DoneInv

\* ... and every step of a case keeps it.
LEMMA RoundtripInvNext ==
    ASSUME RoundtripInv, [RoundtripNext]_roundtripVars
    PROVE  RoundtripInv'
<1> USE DEF StageInv
<1>1. StageInv /\ CaseInv /\ TableInv /\ DoneInv
  BY DEF RoundtripInv
<1>2. ASSUME UNCHANGED roundtripVars PROVE RoundtripInv'
  BY <1>2, <1>1, CasesStay DEF roundtripVars, RoundtripInv, CaseInv, TableInv, DoneInv, TableIs, drawn
<1>3. CASE Draw
  <2>1. PICK t \in Types :
            /\ Suits(t)
            /\ column' \in IF way = "table" THEN SeqsOf(GenValue(t, OptionsFor(t)))
                                           ELSE {<<x>> : x \in GenValue(t, OptionsFor(t))}
    BY <1>3, RoundtripAssumption DEF Draw
  <2>2. /\ stage = "idle" /\ UNCHANGED <<open, way, table, outcome, wrong>>
        /\ stage' = IF way = "table" THEN "create" ELSE "check"
    BY <1>3 DEF Draw
  <2>3. CASE way = "table"
    <3>1. ColumnIs(column')
      BY <2>1, <2>3 DEF ColumnIs
    <3>2. ColumnIs(column)'
      BY <3>1, <2>2, CasesStay DEF ColumnIs
    <3> QED
      BY <1>1, <2>2, <2>3, <3>2 DEF RoundtripInv, CaseInv, TableInv, DoneInv
  <2>4. CASE way # "table"
    <3>1. PICK x \in GenValue(t, OptionsFor(t)) : column' = <<x>>
      BY <2>1, <2>4
    <3>2. drawn' = x
      BY <3>1 DEF drawn
    <3>3. IsCase(drawn)'
      BY <2>1, <2>2, <3>1, <3>2, CasesStay DEF IsCase
    <3> QED
      BY <1>1, <2>2, <2>4, <3>3 DEF RoundtripInv, CaseInv, TableInv, DoneInv
  <2> QED
    BY <2>3, <2>4
<1>4. CASE EndCase
  BY <1>1, <1>4 DEF EndCase, RoundtripInv, CaseInv, TableInv, DoneInv
<1>5. CASE CheckPrecondition
  <2>1. /\ stage = "check" /\ UNCHANGED <<open, way, column, table, wrong>> /\ IsCase(drawn)
        /\ drawn' = drawn /\ wrong = FALSE /\ outcome = "none"
    BY <1>1, <1>5 DEF CheckPrecondition, CaseInv, drawn
  <2>2. IsCase(drawn)'
    BY <2>1, CasesStay DEF IsCase
  <2>3. HasKnownTextIssue(drawn)' <=> HasKnownTextIssue(drawn)
    BY <2>1
  <2>4. CASE way \in {"text", "literal"} /\ HasKnownTextIssue(drawn)
    <3>1. stage' = "done" /\ outcome' = "discard"
      BY <1>5, <2>4 DEF CheckPrecondition, Concludes
    <3> QED
      BY <1>1, <2>1, <2>2, <2>3, <2>4, <3>1 DEF RoundtripInv, CaseInv, TableInv, DoneInv
  <2>5. CASE ~(way \in {"text", "literal"} /\ HasKnownTextIssue(drawn))
    <3>1. stage' \in {"untyped", "query"} /\ outcome' = outcome
      BY <1>5, <2>5 DEF CheckPrecondition
    <3> QED
      BY <1>1, <2>1, <2>2, <2>3, <2>5, <3>1 DEF RoundtripInv, CaseInv, TableInv, DoneInv
  <2> QED
    BY <2>4, <2>5
<1>6. CASE AskUntyped
  <2> DEFINE healthy == HealthyUntyped(drawn)
             accepted == {r \in RepliesTo(drawn) :
                            /\ r.kind = "row"
                            /\ ~IsNested(drawn.type) /\ drawn.type.id # "FLOAT" => ValuesEqualLoose(r.value, drawn)}
  <2>1. Ask(healthy, accepted, "query") /\ stage = "untyped"
    BY <1>6 DEF AskUntyped
  <2>2. /\ IsCase(drawn) /\ (way \in {"text", "literal"} => ~HasKnownTextIssue(drawn))
        /\ wrong = FALSE /\ outcome = "none"
    BY <1>1, <2>1 DEF CaseInv
  <2>3. \A r \in RepliesTo(drawn) : r \in accepted <=> r \in healthy
    BY <2>2, CasesAreJudged, RepliesAreJudged
  <2> HIDE DEF healthy, accepted
  <2>4. /\ \/ stage' = "done" /\ outcome' = "fail" /\ wrong' = TRUE
           \/ stage' = "query" /\ outcome' = outcome /\ wrong' = FALSE
        /\ UNCHANGED <<open, way, column, table>>
    <3>1. /\ \/ stage' = "done" /\ outcome' = "fail" /\ wrong' = TRUE
             \/ stage' = "done" /\ outcome' = "pass" /\ wrong' = FALSE /\ "query" = "done"
             \/ stage' = "query" /\ outcome' = outcome /\ wrong' = FALSE /\ "query" # "done"
          /\ UNCHANGED <<open, way, column, table>>
      BY <2>1, <2>2, <2>3, AsksAreJudged
    <3> QED
      BY <3>1
  <2>5. drawn' = drawn
    BY <2>4 DEF drawn
  <2>6. IsCase(drawn)' /\ (HasKnownTextIssue(drawn)' <=> HasKnownTextIssue(drawn))
    BY <2>2, <2>4, <2>5, CasesStay DEF IsCase
  <2> QED
    BY <1>1, <2>2, <2>4, <2>6 DEF RoundtripInv, CaseInv, TableInv, DoneInv
<1>7. CASE AskTyped
  <2> DEFINE healthy == Healthy(drawn)
             accepted == {r \in RepliesTo(drawn) : r.kind = "row" /\ ValuesEqual(r.value, drawn)}
  <2>1. Ask(healthy, accepted, "done") /\ stage = "query"
    BY <1>7 DEF AskTyped
  <2>2. /\ IsCase(drawn) /\ (way \in {"text", "literal"} => ~HasKnownTextIssue(drawn))
        /\ wrong = FALSE /\ outcome = "none"
    BY <1>1, <2>1 DEF CaseInv
  <2>3. \A r \in RepliesTo(drawn) : r \in accepted <=> r \in healthy
    BY <2>2, CasesAreJudged, RepliesAreJudged
  <2> HIDE DEF healthy, accepted
  <2>4. /\ stage' = "done"
        /\ (outcome' = "fail" /\ wrong' = TRUE) \/ (outcome' = "pass" /\ wrong' = FALSE)
        /\ UNCHANGED <<open, way, column, table>>
    BY <2>1, <2>2, <2>3, AsksAreJudged
  <2> QED
    BY <1>1, <2>4 DEF RoundtripInv, CaseInv, TableInv, DoneInv
<1>8. CASE CreateTable
  <2>1. /\ stage = "create" /\ outcome = "none" /\ ColumnIs(column) /\ UNCHANGED <<open, way, column>>
    BY <1>1, <1>8 DEF CreateTable, TableInv
  <2>2. \/ wrong' = TRUE /\ stage' = "done" /\ outcome' = "fail"
        \/ wrong' = FALSE /\ table' = <<>> /\ stage' = "insert" /\ UNCHANGED outcome
    BY <1>8 DEF CreateTable, Concludes
  <2>3. ColumnIs(column)'
    BY <2>1, CasesStay DEF ColumnIs
  <2>4. ASSUME wrong' = FALSE, table' = <<>> PROVE TableIs(column, table)'
    <3>1. Len(column) \in Nat
      BY <2>1, ColumnsAreLegal
    <3> QED
      BY <2>1, <2>4, <3>1 DEF TableIs
  <2> QED
    BY <1>1, <2>1, <2>2, <2>3, <2>4 DEF RoundtripInv, CaseInv, TableInv, DoneInv
<1>9. CASE InsertRow
  <2> DEFINE k == Len(table) + 1
             x == column[k]
             row(stored) == [i |-> Len(table), v |-> stored]
  <2>1. /\ stage = "insert" /\ k - 1 < Len(column) /\ outcome = "none" /\ UNCHANGED <<open, way, column>>
        /\ ColumnIs(column) /\ TableIs(column, table)
    BY <1>1, <1>9 DEF InsertRow, TableInv
  <2>2. /\ Len(column) \in Nat /\ DOMAIN column = 1..Len(column)
        /\ Len(table) \in Nat /\ DOMAIN table = 1..Len(table) /\ table \in Seq([i : Nat, v : Stored(column)])
    BY <2>1, ColumnsAreLegal, LenProperties DEF TableIs
  <2>3. k \in DOMAIN column /\ Legal(x) /\ Altered(x) # x
    <3>1. k \in DOMAIN column
      BY <2>1, <2>2
    <3> HIDE DEF k
    <3>2. IsValue(x) /\ Legal(x)
      BY <2>1, <3>1, ColumnsAreLegal
    <3> QED
      BY <3>1, <3>2, ValuesDiffer
  <2>4. \/ wrong' = TRUE /\ stage' = "done" /\ outcome' = "fail"
        \/ \E stored \in {x, Altered(x)} :
                /\ wrong' = (wrong \/ stored # x)
                /\ table' = Append(table, row(stored))
                /\ UNCHANGED <<stage, outcome>>
    BY <1>9, <2>3 DEF InsertRow, Concludes
  <2>5. ColumnIs(column)'
    BY <2>1, CasesStay DEF ColumnIs
  <2>6. ASSUME NEW stored \in {x, Altered(x)}, wrong' = (wrong \/ stored # x), table' = Append(table, row(stored))
        PROVE  TableIs(column, table)'
    <3> DEFINE r == row(stored)
               S == [i : Nat, v : Stored(column)]
    <3>1. r \in S /\ r.v = stored
      BY <2>2, <2>3, <2>6 DEF Stored
    <3> HIDE DEF r, S
    <3>2. /\ table' \in Seq(S) /\ Len(table') = k /\ table'[k] = r
          /\ \A n \in 1..Len(table) : table'[n] = table[n]
      BY <2>2, <2>6, <3>1, AppendProperties DEF r, S
    <3>3. DOMAIN table' = 1..k /\ \A n \in 1..k : n = k \/ n \in 1..Len(table)
      BY <2>2, <3>2, LenProperties
    <3>4. wrong' = FALSE <=> wrong = FALSE /\ stored = x
      BY <1>1, <2>6
    <3>5. /\ \A n \in DOMAIN table : table[n].v \in {column[n], Altered(column[n])}
          /\ wrong = FALSE <=> \A n \in DOMAIN table : table[n].v = column[n]
      BY <2>1 DEF TableIs
    <3>6. \A n \in DOMAIN table' : table'[n].v \in {column[n], Altered(column[n])}
      BY <2>2, <2>6, <3>1, <3>2, <3>3, <3>5
    <3>7. wrong' = FALSE <=> \A n \in DOMAIN table' : table'[n].v = column[n]
      BY <2>2, <3>1, <3>2, <3>3, <3>4, <3>5
    <3> QED
      BY <2>1, <2>2, <3>2, <3>6, <3>7 DEF TableIs, S
  <2> QED
    BY <1>1, <2>1, <2>4, <2>5, <2>6 DEF RoundtripInv, CaseInv, TableInv, DoneInv
<1>10. CASE SelectRows
  <2> DEFINE rows == Cells(table)
  <2>1. /\ stage = "insert" /\ Len(table) >= Len(column) /\ UNCHANGED <<open, way, column, table>>
        /\ ColumnIs(column) /\ TableIs(column, table)
    BY <1>1, <1>10 DEF SelectRows, TableInv
  <2>2. PICK got \in {rows, Reverse(rows), <<>>} :
            /\ wrong' = (wrong \/ got # rows)
            /\ Concludes(IF /\ Len(got) = Len(column)
                            /\ \A n \in DOMAIN got : ValuesEqual(got[n], column[n])
                         THEN "pass" ELSE "fail")
    BY <1>10 DEF SelectRows, Cells
  <2>3. (Len(got) = Len(column) /\ \A n \in DOMAIN got : ValuesEqual(got[n], column[n]))
            <=> wrong = FALSE /\ got = rows
    BY <2>1, <2>2, RowsAreJudged
  <2>4. /\ stage' = "done"
        /\ \/ wrong' = FALSE /\ outcome' = "pass"
           \/ wrong' = TRUE /\ outcome' = "fail"
    BY <1>1, <2>2, <2>3 DEF Concludes
  <2> QED
    BY <1>1, <2>1, <2>4 DEF RoundtripInv, CaseInv, TableInv, DoneInv
<1> QED
  BY <1>2, <1>3, <1>4, <1>5, <1>6, <1>7, <1>8, <1>9, <1>10 DEF RoundtripNext

\* So it is an invariant of the suite.
LEMMA RoundtripInvHolds == RoundtripSpec => []RoundtripInv
  BY RoundtripInvInit, RoundtripInvNext, PTL DEF RoundtripSpec

\* A round trip fails only if DuckDB did something wrong, and passes only if it did nothing
\* wrong: the filters and guards let nothing through that is lost by design or by a known
\* issue, at whatever depth of a value.
THEOREM RoundtripVerdictsHold == RoundtripSpec => []RoundtripVerdictsAreTrue
<1>1. RoundtripInv => RoundtripVerdictsAreTrue
  BY DEF RoundtripInv, StageInv, DoneInv, RoundtripVerdictsAreTrue
<1> QED
  BY <1>1, RoundtripInvHolds, PTL

\* What is discarded would have been lost, where the issues are open.
THEOREM OnlyLossyAreDiscarded == RoundtripSpec => []DiscardsAreLossy
<1>1. RoundtripInv => DiscardsAreLossy
  <2> SUFFICES ASSUME RoundtripInv, Issues \subseteq open, outcome = "discard"
               PROVE  ~Survives(drawn) \/ HasWideUhugeint(drawn)
    BY DEF DiscardsAreLossy
  <2>1. way \in {"text", "literal"} /\ HasKnownTextIssue(drawn) /\ IsCase(drawn)
    BY DEF RoundtripInv, StageInv, DoneInv
  <2> QED
    BY <2>1, GuardsAreNeeded
<1> QED
  BY <1>1, RoundtripInvHolds, PTL

-----------------------------------------------------------------------------
\* The suites take turns on one version of DuckDB: a step of one is none of the others, so
\* that what holds of each by itself holds of all of them.
LEMMA SuitesTakeTurns == SuitesSpec => Spec /\ RoundtripSpec /\ SharedSpec
<1>1. SuitesInit => Init /\ RoundtripInit /\ SharedInit
  BY DEF SuitesInit
<1>2. [SuitesNext]_<<suite, vars, roundtripVars, sharedVars>> =>
            [Next]_vars /\ [RoundtripNext]_roundtripVars /\ [SharedNext]_sharedVars
  <2>1. CASE suite = "known" /\ Next /\ UNCHANGED <<suite, roundtripVars, sharedVars>>
    BY <2>1
  <2>2. CASE suite = "roundtrip" /\ RoundtripNext /\ UNCHANGED <<suite, vars, sharedVars>>
    BY <2>2
  <2>3. CASE suite = "any" /\ SharedNext /\ UNCHANGED <<suite, vars, roundtripVars>>
    BY <2>3
  <2>4. CASE UNCHANGED <<suite, vars, roundtripVars, sharedVars>>
    BY <2>4
  <2> QED
    BY <2>1, <2>2, <2>3, <2>4 DEF SuitesNext
<1> QED
  BY <1>1, <1>2, PTL DEF SuitesSpec, Spec, RoundtripSpec, SharedSpec

\* Whichever suite is run, its verdicts can be trusted.
THEOREM SuitesAreSound ==
    SuitesSpec => [](/\ VerdictTellsIssue
                     /\ RoundtripVerdictsAreTrue /\ DiscardsAreLossy
                     /\ FailuresHaveACulprit)
  BY SuitesTakeTurns, VerdictsTell, RoundtripVerdictsHold, OnlyLossyAreDiscarded, OwnCasesDecide, PTL
=============================================================================
