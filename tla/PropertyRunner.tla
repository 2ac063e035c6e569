--------------------------- MODULE PropertyRunner ---------------------------
(***************************************************************************)
(* RunProperty: runs one registered property through RapidCheck against a  *)
(* database of its own and reports the outcome as data.                    *)
(*                                                                         *)
(* RapidCheck is external.  A seed, a number of cases and a size determine *)
(* every case it generates, so the outcomes of a run are kept on a tape    *)
(* per such key: a run that meets a new key writes the tape, a later run   *)
(* with the same key reads it.                                             *)
(***************************************************************************)
EXTENDS Naturals, Sequences

CONSTANTS
    Properties,      \* the PropertyCases that can be run
    Loaded,          \* the extensions that are loaded in a fresh database
    MaxSuccesses,    \* the values of max_success callers pass; contains 1
    MaxSizes,        \* the values of max_size
    DiscardRatios,   \* the values of max_discard_ratio
    Seeds,           \* the values of a uint64_t seed; contains 0
    IntMax,          \* the largest value of an int
    MaxShrinks       \* bound: the longest shrink path of a counterexample

Expectations == {"pass", "known_fail"}

ASSUME PropertiesAssumption ==
    /\ Properties # {}
    /\ \A p \in Properties : p.expectation \in Expectations /\ p.deterministic \in BOOLEAN
ASSUME OptionsAssumption ==
    /\ MaxSuccesses \subseteq Nat /\ 1 \in MaxSuccesses
    /\ MaxSizes \subseteq Nat /\ MaxSizes # {}
    /\ DiscardRatios \subseteq Nat /\ DiscardRatios # {}
    /\ Seeds \subseteq Nat /\ 0 \in Seeds
ASSUME BoundsAssumption == IntMax \in Nat \ {0} /\ MaxShrinks \in Nat

VARIABLES
    pc,             \* where RunProperty is
    property,       \* its first argument
    options,        \* its second argument
    params,         \* the TestParams handed to RapidCheck
    numSuccess,     \* cases that passed so far
    numDiscarded,   \* cases that were discarded so far
    tape,           \* the outcomes RapidCheck generated, per key
    result          \* the PropertyRunResult

runnerVars == <<pc, property, options, params, numSuccess, numDiscarded, tape, result>>

Options ==
    [max_success : MaxSuccesses, max_size : MaxSizes, max_discard_ratio : DiscardRatios,
     no_shrink : BOOLEAN, seed : Seeds]

Params ==
    [seed : Seeds, maxSuccess : MaxSuccesses, maxSize : MaxSizes,
     maxDiscardRatio : DiscardRatios, disableShrinking : BOOLEAN]

\* What a generated case did, and how long its shrink path is when it failed.
Outcomes == [kind : {"success", "discard", "failure"}, shrinks : 0..MaxShrinks]

\* What determines the cases RapidCheck generates.
Keys == [property : Properties, seed : Seeds, maxSuccess : MaxSuccesses, maxSize : MaxSizes]

PropertyStatus == {"pass", "fail", "known_fail", "fixed", "gave_up", "skipped"}

\* The description, reduced to what is being described.
Descriptions ==
    {"", "fixed upstream", "falsified", "gave up", "engine error", "uncaught exception",
     "extension is not loaded"}

\* Mutant of FormatReproduce: noshrink is left out of the reproduction too.
FormatReproduceWithoutNoshrink(p) ==
    [seed |-> p.seed, max_success |-> p.maxSuccess, max_size |-> p.maxSize, noshrink |-> FALSE]

\* "seed=... max_success=... max_size=... noshrink=...": max_discard_ratio is not part of it.
FormatReproduce(p) ==
    [seed |-> p.seed, max_success |-> p.maxSuccess, max_size |-> p.maxSize,
     noshrink |-> p.disableShrinking]

Reproduces ==
    [seed : Seeds, max_success : MaxSuccesses, max_size : MaxSizes, noshrink : BOOLEAN]

Results ==
    [property : Properties, status : PropertyStatus, cases : Nat, shrinks : 0..MaxShrinks,
     description : Descriptions, reproduce : Reproduces]

\* An arbitrary value of S, for variables that have not been assigned.
Some(S) == CHOOSE x \in S : TRUE

\* The default member initializers of PropertyRunResult.
DefaultResult ==
    [property |-> Some(Properties), status |-> "pass", cases |-> 0, shrinks |-> 0,
     description |-> "", reproduce |-> FormatReproduce(Some(Params))]

RunnerInit ==
    /\ pc = "idle"
    /\ property = Some(Properties)
    /\ options = Some(Options)
    /\ params = Some(Params)
    /\ numSuccess = 0
    /\ numDiscarded = 0
    /\ tape = [k \in Keys |-> <<>>]
    /\ result = DefaultResult

-----------------------------------------------------------------------------
ExpectsFailure == property.expectation = "known_fail"

\* The status of a property that was falsified or threw.
FailureStatus == IF ExpectsFailure THEN "known_fail" ELSE "fail"

Key ==
    [property |-> property, seed |-> params.seed, maxSuccess |-> params.maxSuccess,
     maxSize |-> params.maxSize]

\* (external) The cases RapidCheck has generated in this run.
Attempts == numSuccess + numDiscarded

MaxDiscard == params.maxDiscardRatio * params.maxSuccess

\* RunProperty(p, o) is called.
Call(p, o) ==
    /\ pc = "idle"
    /\ pc' = "called"
    /\ property' = p
    /\ options' = o
    /\ numSuccess' = 0
    /\ numDiscarded' = 0
    /\ UNCHANGED <<params, tape, result>>

\* The value NumericCast<int> would have to represent is too large for an int.
CastThrows ==
    \/ ~property.deterministic /\ options.max_success > IntMax
    \/ options.max_size > IntMax
    \/ options.max_discard_ratio > IntMax

\* The parameters are computed before the try block: nothing catches this.
PrepareThrows ==
    /\ pc = "called"
    /\ CastThrows
    /\ pc' = "threw"
    /\ UNCHANGED <<property, options, params, numSuccess, numDiscarded, tape, result>>

\* Mutant of Prepare: a deterministic probe is run as often as any property.
PrepareUncapped ==
    /\ pc = "called"
    /\ ~CastThrows
    /\ \E seed \in IF options.seed = 0 THEN Seeds ELSE {options.seed} :
         params' = [seed |-> seed,
                    maxSuccess |-> options.max_success,
                    maxSize |-> options.max_size,
                    maxDiscardRatio |-> options.max_discard_ratio,
                    disableShrinking |-> options.no_shrink]
    /\ pc' = "open"
    /\ UNCHANGED <<property, options, numSuccess, numDiscarded, tape, result>>

\* A seed of 0 asks for one from the random device, which may draw any number.
Prepare ==
    /\ pc = "called"
    /\ ~CastThrows
    /\ \E seed \in IF options.seed = 0 THEN Seeds ELSE {options.seed} :
         params' = [seed |-> seed,
                    maxSuccess |-> IF property.deterministic THEN 1 ELSE options.max_success,
                    maxSize |-> options.max_size,
                    maxDiscardRatio |-> options.max_discard_ratio,
                    disableShrinking |-> options.no_shrink]
    /\ pc' = "open"
    /\ UNCHANGED <<property, options, numSuccess, numDiscarded, tape, result>>

\* RunProperty returns with this outcome.
Report(status, description, cases, shrinks) ==
    /\ pc' = "returned"
    /\ result' = [property |-> property, status |-> status, cases |-> cases, shrinks |-> shrinks,
                  description |-> description, reproduce |-> FormatReproduce(params)]
    /\ UNCHANGED <<property, options, params>>

\* Whether the extension the property needs can be used in the fresh database.
ExtensionAvailable == property.requires_extension \in Loaded

SkipProperty ==
    /\ pc = "open"
    /\ property.requires_extension # ""
    /\ ~ExtensionAvailable
    /\ Report("skipped", "extension is not loaded", 0, 0)
    /\ UNCHANGED <<numSuccess, numDiscarded, tape>>

StartSearch ==
    /\ pc = "open"
    /\ property.requires_extension = "" \/ ExtensionAvailable
    /\ pc' = "search"
    /\ UNCHANGED <<property, options, params, numSuccess, numDiscarded, tape, result>>

-----------------------------------------------------------------------------
\* (external) The outcomes the next case may have: what the tape says, or anything.
NextOutcomes ==
    IF Attempts < Len(tape[Key])
    THEN {tape[Key][Attempts + 1]}
    ELSE {o \in Outcomes : o.kind # "failure" => o.shrinks = 0}

\* (external) RapidCheck generates one more case and runs the body of the property on it.
Generate(o) ==
    /\ pc = "search"
    /\ numSuccess < params.maxSuccess
    /\ o \in NextOutcomes
    /\ tape' = IF Attempts < Len(tape[Key]) THEN tape ELSE [tape EXCEPT ![Key] = Append(@, o)]

CaseSucceeds(o) ==
    /\ o.kind = "success"
    /\ Generate(o)
    /\ numSuccess' = numSuccess + 1
    /\ UNCHANGED <<pc, property, options, params, numDiscarded, result>>

CaseDiscarded(o) ==
    /\ o.kind = "discard"
    /\ Generate(o)
    /\ numDiscarded < MaxDiscard
    /\ numDiscarded' = numDiscarded + 1
    /\ UNCHANGED <<pc, property, options, params, numSuccess, result>>

\* One discard too many: GaveUpResult.
GiveUp(o) ==
    /\ o.kind = "discard"
    /\ Generate(o)
    /\ numDiscarded >= MaxDiscard
    /\ numDiscarded' = numDiscarded + 1
    /\ Report("gave_up", "gave up", numSuccess, 0)
    /\ UNCHANGED numSuccess

\* FailureResult, shrunk unless shrinking is disabled.
CaseFails(o) ==
    /\ o.kind = "failure"
    /\ Generate(o)
    /\ Report(FailureStatus, "falsified", numSuccess, IF params.disableShrinking THEN 0 ELSE o.shrinks)
    /\ UNCHANGED <<numSuccess, numDiscarded>>

\* SuccessResult: a property that should fail and did not is reported as fixed.
Succeed ==
    /\ pc = "search"
    /\ numSuccess >= params.maxSuccess
    /\ IF ExpectsFailure THEN Report("fixed", "fixed upstream", numSuccess, 0)
                         ELSE Report("pass", "", numSuccess, 0)
    /\ UNCHANGED <<numSuccess, numDiscarded, tape>>

\* rc::detail::Error: RapidCheck could not run the property at all.
EngineError ==
    /\ pc = "search"
    /\ Report("fail", "engine error", 0, 0)
    /\ UNCHANGED <<numSuccess, numDiscarded, tape>>

\* Opening the database or RapidCheck itself throws, and RunProperty catches it.
UncaughtException ==
    /\ pc \in {"open", "search"}
    /\ Report(FailureStatus, "uncaught exception", 0, 0)
    /\ UNCHANGED <<numSuccess, numDiscarded, tape>>

\* The caller takes the result, or the exception that escaped; the locals are gone.
Return ==
    /\ pc \in {"returned", "threw"}
    /\ pc' = "idle"
    /\ property' = Some(Properties)
    /\ options' = Some(Options)
    /\ params' = Some(Params)
    /\ numSuccess' = 0
    /\ numDiscarded' = 0
    /\ result' = DefaultResult
    /\ UNCHANGED tape

RunnerStep ==
    \/ PrepareThrows
    \/ Prepare
    \/ SkipProperty
    \/ StartSearch
    \/ \E o \in Outcomes : CaseSucceeds(o) \/ CaseDiscarded(o) \/ GiveUp(o) \/ CaseFails(o)
    \/ Succeed
    \/ EngineError
    \/ UncaughtException

RunnerNext ==
    \/ \E p \in Properties, o \in Options : Call(p, o)
    \/ RunnerStep
    \/ Return

RunnerSpec == RunnerInit /\ [][RunnerNext]_runnerVars

-----------------------------------------------------------------------------
\* Every variable of the runner has the type the code gives it.
RunnerTypeOK ==
    /\ pc \in {"idle", "called", "open", "search", "returned", "threw"}
    /\ property \in Properties
    /\ options \in Options
    /\ params \in Params
    /\ numSuccess \in Nat
    /\ numDiscarded \in Nat
    /\ tape \in [Keys -> Seq(Outcomes)]
    /\ result \in Results

\* The cases of this run that are on the tape and have been accounted for.
Kinds == {tape[Key][i].kind : i \in 1..Attempts}

\* A verdict is backed by the cases behind it: a property is reported as held or
\* fixed only after as many passing cases as the options ask for (one, for a
\* deterministic probe) and never after a case that failed; it is given up on
\* only when discards outgrew the allowance and nothing failed; and a property
\* is reported as falsified only if the case after the counted ones failed.
VerdictBacked ==
    pc = "returned" =>
        /\ result.status \in {"pass", "fixed"} =>
              /\ result.cases = IF property.deterministic THEN 1 ELSE options.max_success
              /\ "failure" \notin Kinds
              /\ numDiscarded <= options.max_discard_ratio * params.maxSuccess
        /\ result.status = "gave_up" =>
              /\ numDiscarded > options.max_discard_ratio * params.maxSuccess
              /\ result.cases < params.maxSuccess
              /\ "failure" \notin Kinds
        /\ result.description = "falsified" =>
              /\ tape[Key][Attempts + 1].kind = "failure"
              /\ "failure" \notin Kinds
=============================================================================
