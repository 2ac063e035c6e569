---------------------------- MODULE SharedDatabase ----------------------------
(***************************************************************************)
(* The cases of a run of RunProperty share one PropDB: those generated, and *)
(* those tried while a failing one is shrunk.  A case that makes DuckDB     *)
(* raise an internal error leaves the database invalid, and then every      *)
(* further case on it fails, whatever its input.                            *)
(*                                                                          *)
(* RapidCheck is external: it stops at the first case that fails and goes   *)
(* on to the first of its shrinks that fails as well, until none does.      *)
(***************************************************************************)
EXTENDS Integers, FiniteSets, SequencesExt

CONSTANTS
    Cases,       \* the inputs that can be generated: numbers, 0 the smallest
    MaxSuccess,  \* how many are generated
    MaxRuns      \* bound: how often the property is run, each time from the same seed

ASSUME SharedDatabaseAssumption ==
    Cases \subseteq Nat /\ 0 \in Cases /\ MaxSuccess \in Nat \ {0} /\ MaxRuns \in Nat

VARIABLES
    effect,      \* what each case does to a usable database: "holds", "fails" or "breaks" it
    generated,   \* the cases RapidCheck generates from the seed
    phase,       \* "idle", "generate" or "shrink"
    database,    \* "usable" or "invalid"
    noShrink,    \* disableShrinking
    next,        \* how many cases have passed
    failing,     \* the counterexample found so far
    candidates,  \* its shrinks that have not been tried
    shrinks,     \* the length of the shrink path
    reports      \* the results of the runs so far

sharedVars ==
    <<effect, generated, phase, database, noShrink, next, failing, candidates, shrinks, reports>>

SharedInit ==
    /\ effect \in [Cases -> {"holds", "fails", "breaks"}]
    /\ generated \in [1..MaxSuccess -> Cases]
    /\ noShrink \in BOOLEAN
    /\ phase = "idle"
    /\ database = "usable"
    /\ next = 0
    /\ failing = 0
    /\ candidates = <<>>
    /\ shrinks = 0
    /\ reports = <<>>

-----------------------------------------------------------------------------
\* The body of the property on a case: PropDB::Query, Exec or Scalar, then an assertion.
Holds(c) == database = "usable" /\ effect[c] = "holds"
RunBody(c) == database' = IF effect[c] = "breaks" THEN "invalid" ELSE database

\* (external) The shrinks of a number: the smaller ones, from 0 up.
Smaller(c) == {d \in Cases : d < c}
ShrinksOf(c) ==
    CHOOSE q \in [1..Cardinality(Smaller(c)) -> Smaller(c)] :
        \A i, j \in DOMAIN q : i < j => q[i] < q[j]

Returns(status, counterexample, steps) ==
    /\ reports' = Append(reports, [status |-> status, cases |-> next,
                                   counterexample |-> counterexample, shrinks |-> steps])
    /\ phase' = "idle"

\* Mutant: the database outlives the run.
StartOnOldDatabase ==
    /\ phase = "idle" /\ Len(reports) < MaxRuns
    /\ next' = 0 /\ shrinks' = 0 /\ failing' = 0 /\ candidates' = <<>>
    /\ phase' = "generate"
    /\ UNCHANGED <<effect, generated, noShrink, reports, database>>

\* PropDB db; checkTestable(...)
StartRun ==
    /\ phase = "idle" /\ Len(reports) < MaxRuns
    /\ database' = "usable"
    /\ next' = 0 /\ shrinks' = 0 /\ failing' = 0 /\ candidates' = <<>>
    /\ phase' = "generate"
    /\ UNCHANGED <<effect, generated, noShrink, reports>>

CaseHolds ==
    /\ phase = "generate" /\ next < MaxSuccess
    /\ Holds(generated[next + 1])
    /\ RunBody(generated[next + 1])
    /\ next' = next + 1
    /\ UNCHANGED <<effect, generated, phase, noShrink, failing, candidates, shrinks, reports>>

CaseFails ==
    /\ phase = "generate" /\ next < MaxSuccess
    /\ LET c == generated[next + 1]
       IN /\ ~Holds(c)
          /\ RunBody(c)
          /\ failing' = c
          /\ candidates' = IF noShrink THEN <<>> ELSE ShrinksOf(c)
    /\ phase' = "shrink"
    /\ UNCHANGED <<effect, generated, noShrink, next, shrinks, reports>>

\* A shrink that fails too is the counterexample from here on.
ShrinkFails ==
    /\ phase = "shrink" /\ candidates # <<>>
    /\ ~Holds(Head(candidates))
    /\ RunBody(Head(candidates))
    /\ failing' = Head(candidates)
    /\ candidates' = ShrinksOf(Head(candidates))
    /\ shrinks' = shrinks + 1
    /\ UNCHANGED <<effect, generated, phase, noShrink, next, reports>>

ShrinkHolds ==
    /\ phase = "shrink" /\ candidates # <<>>
    /\ Holds(Head(candidates))
    /\ RunBody(Head(candidates))
    /\ candidates' = Tail(candidates)
    /\ UNCHANGED <<effect, generated, phase, noShrink, next, failing, shrinks, reports>>

ReportFailure ==
    /\ phase = "shrink" /\ candidates = <<>>
    /\ Returns("fail", failing, shrinks)
    /\ UNCHANGED <<effect, generated, database, noShrink, next, failing, candidates, shrinks>>

ReportSuccess ==
    /\ phase = "generate" /\ next = MaxSuccess
    /\ Returns("pass", 0, 0)
    /\ UNCHANGED <<effect, generated, database, noShrink, next, failing, candidates, shrinks>>

SharedNext ==
    \/ StartRun
    \/ CaseHolds
    \/ CaseFails
    \/ ShrinkFails
    \/ ShrinkHolds
    \/ ReportFailure
    \/ ReportSuccess

SharedSpec == SharedInit /\ [][SharedNext]_sharedVars

-----------------------------------------------------------------------------
Bad(c) == effect[c] # "holds"
Failed(r) == r.status = "fail"

\* A run fails if and only if one of its own cases is bad by itself: what an earlier run
\* did to its database does not reach a later one, and the case that is generated
\* after the last good one is the culprit.  The counterexample is not above it, and if
\* it is innocent, a case that breaks the database lies between the two: then that is
\* what the run has found.
FailuresHaveACulprit ==
    \A n \in DOMAIN reports :
        LET r == reports[n]
            culprit == generated[r.cases + 1]
        IN IF Failed(r)
           THEN /\ Bad(culprit) /\ r.counterexample <= culprit
                /\ \/ Bad(r.counterexample)
                   \/ \E c \in Cases : effect[c] = "breaks" /\ r.counterexample < c /\ c <= culprit
           ELSE ~\E c \in Range(generated) : Bad(c)
=============================================================================
