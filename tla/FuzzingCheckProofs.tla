------------------------- MODULE FuzzingCheckProofs -------------------------
(***************************************************************************)
(* RunProperty keeps its types and backs its verdicts, for every set of    *)
(* properties, every option and every behaviour of RapidCheck.             *)
(*                                                                         *)
(* For every set of property files and of queries: the registry is         *)
(* complete once the extension is loaded, fuzzing_check() returns one row  *)
(* per selected property, the call printed for a row reproduces it, and    *)
(* run_properties.sh calls every property of the list by its own name.     *)
(*                                                                         *)
(* The proofs build on one another as the code does: what the loops of     *)
(* Suites() and FuzzingCheckBind compute, what registration leaves in the  *)
(* registry, how a scan fills its chunks, what the outcome of a search has *)
(* to do with the cases RapidCheck generated, and the replay of a row.     *)
(***************************************************************************)
EXTENDS PropertyListing, Induction, FiniteSetTheorems

\* The parameters of a run are those of its options, and a deterministic probe
\* is capped at one case.
ParamsFollowOptions ==
    pc \in {"open", "search", "returned"} =>
        /\ params.maxSuccess = IF property.deterministic THEN 1 ELSE options.max_success
        /\ params.maxDiscardRatio = options.max_discard_ratio

\* A run starts counting at zero.
CountersStart == pc \in {"called", "open"} => numSuccess = 0 /\ numDiscarded = 0

\* While RapidCheck is searching every counted case is on the tape and none of
\* them failed, and the counts are within what the parameters allow.
SearchSound ==
    pc = "search" =>
        /\ Attempts <= Len(tape[Key])
        /\ \A i \in 1..Attempts : tape[Key][i].kind # "failure"
        /\ numSuccess <= params.maxSuccess
        /\ numDiscarded <= MaxDiscard

\* The inductive invariant behind VerdictBacked.
RunnerInv ==
    /\ RunnerTypeOK
    /\ ParamsFollowOptions
    /\ CountersStart
    /\ SearchSound
    /\ VerdictBacked

-----------------------------------------------------------------------------
LEMMA SomeIsMember == ASSUME NEW S, S # {} PROVE Some(S) \in S
BY DEF Some

LEMMA SetsInhabited ==
    /\ Some(Properties) \in Properties
    /\ Some(Options) \in Options
    /\ Some(Params) \in Params
    /\ DefaultResult \in Results
<1>1. Some(Properties) \in Properties
  BY PropertiesAssumption, SomeIsMember
<1>2. PICK s \in MaxSizes, d \in DiscardRatios : TRUE
  BY OptionsAssumption
<1>3. Some(Options) \in Options
  <2>1. [max_success |-> 1, max_size |-> s, max_discard_ratio |-> d, no_shrink |-> TRUE,
         seed |-> 0] \in Options
    BY OptionsAssumption DEF Options
  <2>2. QED BY <2>1, SomeIsMember
<1>4. Some(Params) \in Params
  <2>1. [seed |-> 0, maxSuccess |-> 1, maxSize |-> s, maxDiscardRatio |-> d,
         disableShrinking |-> TRUE] \in Params
    BY OptionsAssumption DEF Params
  <2>2. QED BY <2>1, SomeIsMember
<1>5. FormatReproduce(Some(Params)) \in Reproduces
  BY <1>4 DEF FormatReproduce, Params, Reproduces
<1>6. DefaultResult \in Results
  BY <1>1, <1>5, BoundsAssumption DEF DefaultResult, Results, PropertyStatus, Descriptions
<1>7. QED BY <1>1, <1>3, <1>4, <1>6

\* The statuses, descriptions and shrink counts that RunProperty reports.
LEMMA Tokens ==
    /\ {"pass", "fail", "fixed", "gave_up", "skipped", FailureStatus} \subseteq PropertyStatus
    /\ {"", "fixed upstream", "falsified", "gave up", "engine error", "uncaught exception",
        "extension is not loaded"} = Descriptions
    /\ 0 \in 0..MaxShrinks /\ 0 \in Nat
BY BoundsAssumption DEF FailureStatus, PropertyStatus, Descriptions

\* A step that reports an outcome of the right type keeps the types if it does
\* so for what Report leaves alone.
LEMMA ReportType ==
    ASSUME NEW status \in PropertyStatus, NEW description \in Descriptions,
           NEW cases \in Nat, NEW shrinks \in 0..MaxShrinks,
           RunnerTypeOK,
           Report(status, description, cases, shrinks),
           numSuccess' \in Nat, numDiscarded' \in Nat, tape' \in [Keys -> Seq(Outcomes)]
    PROVE  RunnerTypeOK'
BY DEF RunnerTypeOK, Report, Results, FormatReproduce, Reproduces, Params

\* The counters and what they are compared with are numbers.
LEMMA Numbers ==
    ASSUME RunnerTypeOK
    PROVE  /\ numSuccess \in Nat /\ numDiscarded \in Nat /\ Attempts \in Nat
           /\ params.maxSuccess \in Nat /\ MaxDiscard \in Nat
<1>1. numSuccess \in Nat /\ numDiscarded \in Nat /\ Attempts \in Nat
  BY DEF RunnerTypeOK, Attempts
<1>2. params.maxSuccess \in Nat /\ params.maxDiscardRatio \in Nat
  <2>1. params \in Params
    BY DEF RunnerTypeOK
  <2>2. QED BY <2>1, OptionsAssumption DEF Params
<1>3. MaxDiscard \in Nat
  BY <1>2 DEF MaxDiscard
<1>4. QED BY <1>1, <1>2, <1>3

LEMMA KeyType == ASSUME RunnerTypeOK PROVE Key \in Keys
BY DEF RunnerTypeOK, Key, Keys, Params

\* Generating a case keeps the type of the tape.
LEMMA GenerateType ==
    ASSUME RunnerTypeOK, NEW o \in Outcomes, Generate(o)
    PROVE  tape' \in [Keys -> Seq(Outcomes)]
BY KeyType DEF RunnerTypeOK, Generate

\* The case that Generate adds is the one after the counted ones, and it leaves
\* those as they are.
LEMMA GenerateExtends ==
    ASSUME RunnerTypeOK, NEW o \in Outcomes, Generate(o), Attempts <= Len(tape[Key])
    PROVE  /\ tape'[Key] \in Seq(Outcomes)
           /\ Attempts + 1 <= Len(tape'[Key])
           /\ tape'[Key][Attempts + 1] = o
           /\ \A i \in 1..Attempts : tape'[Key][i] = tape[Key][i]
<1> USE DEF RunnerTypeOK
<1>1. Key \in Keys /\ Attempts \in Nat /\ tape[Key] \in Seq(Outcomes)
  BY KeyType DEF Attempts
<1>2. CASE Attempts < Len(tape[Key])
  BY <1>1, <1>2 DEF Generate, NextOutcomes
<1>3. CASE ~(Attempts < Len(tape[Key]))
  <2>1. Attempts = Len(tape[Key])
    BY <1>1, <1>3
  <2>2. tape'[Key] = Append(tape[Key], o)
    BY <1>1, <1>3 DEF Generate
  <2>3. QED BY <1>1, <2>1, <2>2
<1>4. QED BY <1>2, <1>3

-----------------------------------------------------------------------------
LEMMA TypeInit == RunnerInit => RunnerTypeOK
<1>1. ASSUME RunnerInit PROVE tape \in [Keys -> Seq(Outcomes)]
  BY <1>1 DEF RunnerInit
<1>2. QED BY <1>1, SetsInhabited DEF RunnerInit, RunnerTypeOK

LEMMA TypeStep == RunnerTypeOK /\ [RunnerNext]_runnerVars => RunnerTypeOK'
<1> SUFFICES ASSUME RunnerTypeOK, [RunnerNext]_runnerVars
             PROVE  RunnerTypeOK'
  OBVIOUS
<1>1. ASSUME NEW p \in Properties, NEW o \in Options, Call(p, o) PROVE RunnerTypeOK'
  BY <1>1 DEF RunnerTypeOK, Call
<1>2. CASE PrepareThrows
  BY <1>2 DEF RunnerTypeOK, PrepareThrows
<1>3. CASE Prepare
  <2>1. params' \in Params
    <3>1. PICK seed \in IF options.seed = 0 THEN Seeds ELSE {options.seed} :
            params' = [seed |-> seed,
                       maxSuccess |-> IF property.deterministic THEN 1 ELSE options.max_success,
                       maxSize |-> options.max_size,
                       maxDiscardRatio |-> options.max_discard_ratio,
                       disableShrinking |-> options.no_shrink]
      BY <1>3 DEF Prepare
    <3>2. seed \in Seeds
      BY DEF RunnerTypeOK, Options
    <3>3. QED BY <3>1, <3>2, OptionsAssumption DEF RunnerTypeOK, Options, Params
  <2>2. QED BY <1>3, <2>1 DEF RunnerTypeOK, Prepare
<1>4. CASE SkipProperty
  <2>1. Report("skipped", "extension is not loaded", 0, 0)
    BY <1>4 DEF SkipProperty
  <2>2. numSuccess' \in Nat /\ numDiscarded' \in Nat /\ tape' \in [Keys -> Seq(Outcomes)]
    BY <1>4 DEF RunnerTypeOK, SkipProperty
  <2>3. QED BY <2>1, <2>2, Tokens, ReportType
<1>5. CASE StartSearch
  BY <1>5 DEF RunnerTypeOK, StartSearch
<1>6. ASSUME NEW o \in Outcomes, CaseSucceeds(o) PROVE RunnerTypeOK'
  BY <1>6, GenerateType DEF RunnerTypeOK, CaseSucceeds
<1>7. ASSUME NEW o \in Outcomes, CaseDiscarded(o) PROVE RunnerTypeOK'
  BY <1>7, GenerateType DEF RunnerTypeOK, CaseDiscarded
<1>8. ASSUME NEW o \in Outcomes, GiveUp(o) PROVE RunnerTypeOK'
  <2>1. numSuccess \in Nat /\ Report("gave_up", "gave up", numSuccess, 0)
    BY <1>8 DEF RunnerTypeOK, GiveUp
  <2>2. tape' \in [Keys -> Seq(Outcomes)]
    <3>1. Generate(o)
      BY <1>8 DEF GiveUp
    <3>2. QED BY <3>1, GenerateType
  <2>3. numSuccess' \in Nat /\ numDiscarded' \in Nat
    <3>1. numSuccess' = numSuccess /\ numDiscarded' = numDiscarded + 1
      BY <1>8 DEF GiveUp
    <3>2. QED BY <3>1, Numbers
  <2>4. QED BY <2>1, <2>2, <2>3, Tokens, ReportType
<1>9. ASSUME NEW o \in Outcomes, CaseFails(o) PROVE RunnerTypeOK'
  <2> DEFINE shrinks == IF params.disableShrinking THEN 0 ELSE o.shrinks
  <2>1. shrinks \in 0..MaxShrinks
    BY BoundsAssumption DEF Outcomes
  <2>2. numSuccess \in Nat /\ Report(FailureStatus, "falsified", numSuccess, shrinks)
    BY <1>9 DEF RunnerTypeOK, CaseFails
  <2>3. numSuccess' \in Nat /\ numDiscarded' \in Nat /\ tape' \in [Keys -> Seq(Outcomes)]
    BY <1>9, GenerateType DEF RunnerTypeOK, CaseFails
  <2> HIDE DEF shrinks
  <2>4. QED BY <2>1, <2>2, <2>3, Tokens, ReportType
<1>10. CASE Succeed
  <2>1. \/ Report("fixed", "fixed upstream", numSuccess, 0)
        \/ Report("pass", "", numSuccess, 0)
    BY <1>10 DEF Succeed
  <2>2. /\ numSuccess \in Nat
        /\ numSuccess' \in Nat /\ numDiscarded' \in Nat /\ tape' \in [Keys -> Seq(Outcomes)]
    BY <1>10 DEF RunnerTypeOK, Succeed
  <2>3. QED BY <2>1, <2>2, Tokens, ReportType
<1>11. CASE EngineError
  <2>1. Report("fail", "engine error", 0, 0)
    BY <1>11 DEF EngineError
  <2>2. numSuccess' \in Nat /\ numDiscarded' \in Nat /\ tape' \in [Keys -> Seq(Outcomes)]
    BY <1>11 DEF RunnerTypeOK, EngineError
  <2>3. QED BY <2>1, <2>2, Tokens, ReportType
<1>12. CASE UncaughtException
  <2>1. Report(FailureStatus, "uncaught exception", 0, 0)
    BY <1>12 DEF UncaughtException
  <2>2. numSuccess' \in Nat /\ numDiscarded' \in Nat /\ tape' \in [Keys -> Seq(Outcomes)]
    BY <1>12 DEF RunnerTypeOK, UncaughtException
  <2>3. QED BY <2>1, <2>2, Tokens, ReportType
<1>13. CASE Return
  BY <1>13, SetsInhabited DEF RunnerTypeOK, Return
<1>14. CASE UNCHANGED runnerVars
  BY <1>14 DEF RunnerTypeOK, runnerVars
<1>15. QED
  BY <1>1, <1>2, <1>3, <1>4, <1>5, <1>6, <1>7, <1>8, <1>9, <1>10, <1>11, <1>12, <1>13, <1>14
  DEF RunnerNext, RunnerStep

\* Every variable of the runner keeps its type (RunProperty, whole).
THEOREM TypeCorrect == RunnerSpec => []RunnerTypeOK
BY TypeInit, TypeStep, PTL DEF RunnerSpec

-----------------------------------------------------------------------------
\* A search that has counted its cases correctly still has after one more case.
LEMMA GenerateSound ==
    ASSUME RunnerTypeOK, SearchSound, NEW o \in Outcomes, Generate(o)
    PROVE  /\ Attempts \in Nat
           /\ Attempts + 1 <= Len(tape'[Key])
           /\ tape'[Key][Attempts + 1].kind = o.kind
           /\ \A i \in 1..Attempts : tape'[Key][i].kind # "failure"
<1>1. Attempts <= Len(tape[Key]) /\ \A i \in 1..Attempts : tape[Key][i].kind # "failure"
  BY DEF Generate, SearchSound
<1>2. Attempts \in Nat
  BY DEF RunnerTypeOK, Attempts
<1>3. QED BY <1>1, <1>2, GenerateExtends

\* An outcome with one of these descriptions claims nothing about the cases.
LEMMA NoVerdict ==
    ASSUME NEW status \in {"fail", "known_fail", "skipped"}, NEW description,
           NEW cases, NEW shrinks,
           description # "falsified",
           Report(status, description, cases, shrinks)
    PROVE  SearchSound' /\ VerdictBacked' /\ CountersStart'
BY DEF Report, SearchSound, VerdictBacked, CountersStart

LEMMA InvInit == RunnerInit => RunnerInv
BY TypeInit
DEF RunnerInit, RunnerInv, ParamsFollowOptions, CountersStart, SearchSound, VerdictBacked

LEMMA InvStep == RunnerInv /\ [RunnerNext]_runnerVars => RunnerInv'
<1> SUFFICES ASSUME RunnerInv, [RunnerNext]_runnerVars
             PROVE  RunnerInv'
  OBVIOUS
<1>0. RunnerTypeOK /\ RunnerTypeOK' /\ ParamsFollowOptions /\ CountersStart /\ SearchSound /\ VerdictBacked
  BY TypeStep DEF RunnerInv
<1> SUFFICES ParamsFollowOptions' /\ CountersStart' /\ SearchSound' /\ VerdictBacked'
  BY <1>0 DEF RunnerInv
<1>1. ASSUME NEW p \in Properties, NEW o \in Options, Call(p, o)
      PROVE  ParamsFollowOptions' /\ CountersStart' /\ SearchSound' /\ VerdictBacked'
  BY <1>1 DEF Call, ParamsFollowOptions, CountersStart, SearchSound, VerdictBacked
<1>2. CASE PrepareThrows
  BY <1>2 DEF PrepareThrows, ParamsFollowOptions, CountersStart, SearchSound, VerdictBacked
<1>3. CASE Prepare
  <2>1. pc = "called" /\ pc' = "open" /\ UNCHANGED <<property, options, numSuccess, numDiscarded>>
    BY <1>3 DEF Prepare
  <2>2. /\ params'.maxSuccess = IF property.deterministic THEN 1 ELSE options.max_success
        /\ params'.maxDiscardRatio = options.max_discard_ratio
    BY <1>3 DEF Prepare
  <2>3. QED
    BY <1>0, <2>1, <2>2 DEF ParamsFollowOptions, CountersStart, SearchSound, VerdictBacked
<1>4. CASE SkipProperty
  <2>1. pc = "open" /\ Report("skipped", "extension is not loaded", 0, 0)
    BY <1>4 DEF SkipProperty
  <2>2. ParamsFollowOptions'
    BY <1>0, <2>1 DEF ParamsFollowOptions, Report
  <2>3. QED BY <2>1, <2>2, NoVerdict
<1>5. CASE StartSearch
  <2>1. /\ pc = "open" /\ pc' = "search"
        /\ UNCHANGED <<property, options, params, numSuccess, numDiscarded, tape, result>>
    BY <1>5 DEF StartSearch
  <2>2. numSuccess = 0 /\ numDiscarded = 0 /\ Attempts = 0
    BY <1>0, <2>1 DEF CountersStart, Attempts
  <2>3. /\ Key \in Keys /\ tape[Key] \in Seq(Outcomes) /\ Len(tape[Key]) \in Nat
        /\ params.maxSuccess \in Nat /\ MaxDiscard \in Nat
    BY <1>0, KeyType, Numbers DEF RunnerTypeOK
  <2>4. Attempts' = Attempts /\ Key' = Key /\ MaxDiscard' = MaxDiscard
    BY <2>1 DEF Attempts, Key, MaxDiscard
  <2>5. SearchSound'
    BY <2>1, <2>2, <2>3, <2>4 DEF SearchSound
  <2>6. QED BY <1>0, <2>1, <2>5 DEF ParamsFollowOptions, CountersStart, VerdictBacked
<1>6. ASSUME NEW o \in Outcomes, CaseSucceeds(o)
      PROVE  ParamsFollowOptions' /\ CountersStart' /\ SearchSound' /\ VerdictBacked'
  <2>1. /\ o.kind = "success" /\ Generate(o) /\ numSuccess' = numSuccess + 1
        /\ UNCHANGED <<pc, property, options, params, numDiscarded, result>>
    BY <1>6 DEF CaseSucceeds
  <2>2. pc = "search" /\ numSuccess < params.maxSuccess
    BY <2>1 DEF Generate
  <2>3. Key' = Key /\ MaxDiscard' = MaxDiscard /\ Attempts' = Attempts + 1
    BY <1>0, <2>1 DEF Key, MaxDiscard, Attempts, RunnerTypeOK
  <2>4. /\ Attempts' <= Len(tape'[Key'])
        /\ \A i \in 1..Attempts' : tape'[Key'][i].kind # "failure"
    <3>1. /\ Attempts \in Nat
          /\ Attempts + 1 <= Len(tape'[Key])
          /\ tape'[Key][Attempts + 1].kind = o.kind
          /\ \A i \in 1..Attempts : tape'[Key][i].kind # "failure"
      BY <1>0, <2>1, GenerateSound
    <3>2. \A i \in 1..(Attempts + 1) : i \in 1..Attempts \/ i = Attempts + 1
      BY <3>1
    <3>3. QED BY <2>1, <2>3, <3>1, <3>2
  <2>5. numSuccess' <= params'.maxSuccess /\ numDiscarded' <= MaxDiscard'
    <3>1. numDiscarded <= MaxDiscard
      BY <1>0, <2>2 DEF SearchSound
    <3>2. QED BY <1>0, <2>1, <2>2, <2>3, <3>1, Numbers
  <2>6. SearchSound'
    BY <2>4, <2>5 DEF SearchSound
  <2>7. QED BY <1>0, <2>1, <2>2, <2>6 DEF ParamsFollowOptions, CountersStart, VerdictBacked
<1>7. ASSUME NEW o \in Outcomes, CaseDiscarded(o)
      PROVE  ParamsFollowOptions' /\ CountersStart' /\ SearchSound' /\ VerdictBacked'
  <2>1. /\ o.kind = "discard" /\ Generate(o) /\ numDiscarded' = numDiscarded + 1
        /\ numDiscarded < MaxDiscard
        /\ UNCHANGED <<pc, property, options, params, numSuccess, result>>
    BY <1>7 DEF CaseDiscarded
  <2>2. pc = "search"
    BY <2>1 DEF Generate
  <2>3. Key' = Key /\ MaxDiscard' = MaxDiscard /\ Attempts' = Attempts + 1
    BY <1>0, <2>1 DEF Key, MaxDiscard, Attempts, RunnerTypeOK
  <2>4. /\ Attempts' <= Len(tape'[Key'])
        /\ \A i \in 1..Attempts' : tape'[Key'][i].kind # "failure"
    <3>1. /\ Attempts \in Nat
          /\ Attempts + 1 <= Len(tape'[Key])
          /\ tape'[Key][Attempts + 1].kind = o.kind
          /\ \A i \in 1..Attempts : tape'[Key][i].kind # "failure"
      BY <1>0, <2>1, GenerateSound
    <3>2. \A i \in 1..(Attempts + 1) : i \in 1..Attempts \/ i = Attempts + 1
      BY <3>1
    <3>3. QED BY <2>1, <2>3, <3>1, <3>2
  <2>6. numSuccess' <= params'.maxSuccess /\ numDiscarded' <= MaxDiscard'
    <3>1. numSuccess <= params.maxSuccess
      BY <1>0, <2>2 DEF SearchSound
    <3>2. QED BY <1>0, <2>1, <2>3, <3>1, Numbers
  <2>7. SearchSound'
    BY <2>4, <2>6 DEF SearchSound
  <2>8. QED BY <1>0, <2>1, <2>2, <2>7 DEF ParamsFollowOptions, CountersStart, VerdictBacked
<1>8. ASSUME NEW o \in Outcomes, GiveUp(o)
      PROVE  ParamsFollowOptions' /\ CountersStart' /\ SearchSound' /\ VerdictBacked'
  <2>1. /\ o.kind = "discard" /\ Generate(o) /\ numDiscarded' = numDiscarded + 1
        /\ numDiscarded >= MaxDiscard /\ numSuccess' = numSuccess
        /\ Report("gave_up", "gave up", numSuccess, 0)
    BY <1>8 DEF GiveUp
  <2>2. pc = "search" /\ numSuccess < params.maxSuccess
    BY <2>1 DEF Generate
  <2>3. /\ pc' = "returned" /\ UNCHANGED <<property, options, params>>
        /\ result'.status = "gave_up" /\ result'.description = "gave up"
        /\ result'.cases = numSuccess
    BY <2>1 DEF Report
  <2>4. Key' = Key /\ Attempts' = Attempts + 1
    <3>1. Attempts' = numSuccess + (numDiscarded + 1)
      BY <2>1 DEF Attempts
    <3>2. Attempts' = Attempts + 1
      BY <1>0, <3>1, Numbers DEF Attempts
    <3>3. QED BY <2>3, <3>2 DEF Key
  <2>5. "failure" \notin Kinds'
    <3>1. /\ Attempts \in Nat
          /\ tape'[Key][Attempts + 1].kind = "discard"
          /\ \A i \in 1..Attempts : tape'[Key][i].kind # "failure"
      BY <1>0, <2>1, GenerateSound
    <3>2. \A i \in 1..(Attempts + 1) : i \in 1..Attempts \/ i = Attempts + 1
      BY <3>1
    <3>3. \A i \in 1..Attempts' : tape'[Key'][i].kind # "failure"
      BY <2>4, <3>1, <3>2
    <3>4. QED BY <3>3 DEF Kinds
  <2>6. ParamsFollowOptions'
    BY <1>0, <2>2, <2>3 DEF ParamsFollowOptions
  <2>7. numDiscarded' > options'.max_discard_ratio * params'.maxSuccess
    <3>2. numDiscarded' > MaxDiscard
      <4>1. numDiscarded' = numDiscarded + 1 /\ numDiscarded >= MaxDiscard
        BY <2>1
      <4>2. QED BY <1>0, <4>1, Numbers
    <3>3. MaxDiscard = options.max_discard_ratio * params.maxSuccess
      BY <1>0, <2>2 DEF ParamsFollowOptions, MaxDiscard
    <3>4. QED BY <2>3, <3>2, <3>3
  <2>8. VerdictBacked'
    BY <2>2, <2>3, <2>5, <2>7 DEF VerdictBacked
  <2>9. QED BY <2>3, <2>6, <2>8 DEF CountersStart, SearchSound
<1>9. ASSUME NEW o \in Outcomes, CaseFails(o)
      PROVE  ParamsFollowOptions' /\ CountersStart' /\ SearchSound' /\ VerdictBacked'
  <2>1. o.kind = "failure" /\ Generate(o) /\ UNCHANGED <<numSuccess, numDiscarded>>
    BY <1>9 DEF CaseFails
  <2>2. pc = "search"
    BY <2>1 DEF Generate
  <2>3. /\ pc' = "returned" /\ UNCHANGED <<property, options, params>>
        /\ result'.status \notin {"pass", "fixed", "gave_up"}
    BY <1>9 DEF CaseFails, Report, FailureStatus
  <2>4. Key' = Key /\ Attempts' = Attempts
    BY <1>0, <2>1, <2>3 DEF Key, Attempts
  <2>5. tape'[Key'][Attempts' + 1].kind = "failure" /\ "failure" \notin Kinds'
    BY <1>0, <2>1, <2>4, GenerateSound DEF Kinds
  <2>6. VerdictBacked'
    BY <2>3, <2>5 DEF VerdictBacked
  <2>7. QED BY <1>0, <2>2, <2>3, <2>6 DEF ParamsFollowOptions, CountersStart, SearchSound
<1>10. CASE Succeed
  <2>1. /\ pc = "search" /\ numSuccess >= params.maxSuccess
        /\ UNCHANGED <<numSuccess, numDiscarded, tape>>
    BY <1>10 DEF Succeed
  <2>2. /\ pc' = "returned" /\ UNCHANGED <<property, options, params>>
        /\ result'.status \in {"pass", "fixed"} /\ result'.description # "falsified"
        /\ result'.cases = numSuccess
    <3>1. \/ Report("fixed", "fixed upstream", numSuccess, 0)
          \/ Report("pass", "", numSuccess, 0)
      BY <1>10 DEF Succeed
    <3>2. pc' = "returned" /\ UNCHANGED <<property, options, params>>
      BY <3>1 DEF Report
    <3>4. CASE Report("fixed", "fixed upstream", numSuccess, 0)
      BY <3>2, <3>4 DEF Report
    <3>5. CASE Report("pass", "", numSuccess, 0)
      BY <3>2, <3>5 DEF Report
    <3>6. QED BY <3>1, <3>4, <3>5
  <2>3. Key' = Key /\ Attempts' = Attempts /\ Kinds' = Kinds
    BY <2>1, <2>2 DEF Key, Attempts, Kinds
  <2>4. "failure" \notin Kinds
    BY <1>0, <2>1 DEF SearchSound, Kinds
  <2>5. ParamsFollowOptions'
    BY <1>0, <2>1, <2>2 DEF ParamsFollowOptions
  <2>6. numSuccess = params.maxSuccess
    <3>1. numSuccess <= params.maxSuccess
      BY <1>0, <2>1 DEF SearchSound
    <3>2. QED BY <1>0, <2>1, <3>1, Numbers
  <2>7. numDiscarded' <= options'.max_discard_ratio * params'.maxSuccess
    <3>1. MaxDiscard = options.max_discard_ratio * params.maxSuccess
      BY <1>0, <2>1 DEF ParamsFollowOptions, MaxDiscard
    <3>2. numDiscarded <= MaxDiscard
      BY <1>0, <2>1 DEF SearchSound
    <3>3. QED BY <2>1, <2>2, <3>1, <3>2
  <2>8. VerdictBacked'
    BY <2>2, <2>3, <2>4, <2>5, <2>6, <2>7 DEF VerdictBacked, ParamsFollowOptions
  <2>9. QED BY <2>2, <2>5, <2>8 DEF CountersStart, SearchSound
<1>11. CASE EngineError
  <2>1. pc = "search" /\ Report("fail", "engine error", 0, 0)
    BY <1>11 DEF EngineError
  <2>2. ParamsFollowOptions'
    BY <1>0, <2>1 DEF ParamsFollowOptions, Report
  <2>3. QED BY <2>1, <2>2, NoVerdict
<1>12. CASE UncaughtException
  <2>1. pc \in {"open", "search"} /\ Report(FailureStatus, "uncaught exception", 0, 0)
    BY <1>12 DEF UncaughtException
  <2>2. ParamsFollowOptions'
    BY <1>0, <2>1 DEF ParamsFollowOptions, Report
  <2>3. FailureStatus \in {"fail", "known_fail", "skipped"}
    BY DEF FailureStatus
  <2>4. QED BY <2>1, <2>2, <2>3, NoVerdict
<1>13. CASE Return
  BY <1>13 DEF Return, ParamsFollowOptions, CountersStart, SearchSound, VerdictBacked
<1>14. CASE UNCHANGED runnerVars
  <2>1. UNCHANGED <<pc, property, options, params, numSuccess, numDiscarded, tape, result>>
    BY <1>14 DEF runnerVars
  <2>2. UNCHANGED <<Key, Attempts, MaxDiscard, Kinds>>
    BY <2>1 DEF Key, Attempts, MaxDiscard, Kinds
  <2>3. QED
    BY <1>0, <2>1, <2>2 DEF ParamsFollowOptions, CountersStart, SearchSound, VerdictBacked
<1>15. QED
  BY <1>1, <1>2, <1>3, <1>4, <1>5, <1>6, <1>7, <1>8, <1>9, <1>10, <1>11, <1>12, <1>13, <1>14
  DEF RunnerNext, RunnerStep

\* RunProperty never reports a verdict its cases do not back.
THEOREM VerdictsBacked == RunnerSpec => []VerdictBacked
<1>1. RunnerInv => VerdictBacked
  BY DEF RunnerInv
<1>2. QED BY InvInit, InvStep, <1>1, PTL DEF RunnerSpec

-----------------------------------------------------------------------------

\* The properties of the first n entries that a query selects.
Hits(q, n) == {registry[i] : i \in {j \in 1..n : Matches(q, registry[j])}}

\* Appending a new element keeps a sequence free of duplicates.
LEMMA AppendElement ==
    ASSUME NEW T, NEW s \in Seq(T), NEW e \in T
    PROVE  /\ Append(s, e) \in Seq(T)
           /\ ToSet(Append(s, e)) = ToSet(s) \cup {e}
           /\ IsInjective(s) /\ e \notin ToSet(s) => IsInjective(Append(s, e))
<1>1. /\ Append(s, e) \in Seq(T) /\ DOMAIN Append(s, e) = 1..Len(s) + 1 /\ DOMAIN s = 1..Len(s)
           /\ Len(s) \in Nat
      /\ \A i \in 1..Len(s) : Append(s, e)[i] = s[i]
      /\ Append(s, e)[Len(s) + 1] = e
  OBVIOUS
<1>2. \A i \in 1..Len(s) + 1 : i \in 1..Len(s) \/ i = Len(s) + 1
  BY <1>1
<1>3. ToSet(Append(s, e)) = ToSet(s) \cup {e}
  BY <1>1, <1>2 DEF ToSet
<1>4. ASSUME IsInjective(s), e \notin ToSet(s) PROVE IsInjective(Append(s, e))
  BY <1>1, <1>2, <1>4 DEF IsInjective, ToSet
<1> QED
  BY <1>1, <1>3, <1>4

\* The filter loop of FuzzingCheckBind, round by round: its recursion has a value.
LEMMA SelectedLoop ==
    ASSUME registry \in Seq(Properties), NEW q
    PROVE  \E h : /\ h[0] = <<>>
                  /\ \A n \in 1..Len(registry) :
                        h[n] = IF Matches(q, registry[n]) THEN Append(h[n - 1], registry[n])
                          ELSE h[n - 1]
                  /\ Selected(q) = h[Len(registry)]
<1> DEFINE L == Len(registry)
           S == Seq(Properties)
           base == <<>>
           Round(s, n) == IF Matches(q, registry[n]) THEN Append(s, registry[n]) ELSE s
           step == [n \in 1..L |-> [s \in S |-> Round(s, n)]]
           Loop(h) == h = [n \in 0..L |-> IF n = 0 THEN base ELSE Round(h[n - 1], n)]
           upTo == CHOOSE h : Loop(h)
<1>1. L \in Nat /\ base \in S
  OBVIOUS
<1>2. \A n \in 1..L, s \in S : Round(s, n) \in S
  OBVIOUS
<1>3. Selected(q) = upTo[L]
  BY DEF Selected
<1> HIDE DEF S, base, L, Round
<1>4. step \in [1..L -> [S -> S]]
  BY <1>2
<1>5. PICK h \in [0..L -> S] : h[0] = base /\ \A n \in 1..L : h[n] = step[n][h[n - 1]]
  <2> HIDE DEF step
  <2> QED
    BY <1>1, <1>4, RecursiveFunction
<1>6. \A n \in 0..L : n = 0 \/ (n \in 1..L /\ n - 1 \in 0..L)
  BY <1>1
<1>7. \A n \in 0..L : h[n] = IF n = 0 THEN base ELSE Round(h[n - 1], n)
  BY <1>5, <1>6
<1>8. Loop(h)
  BY <1>5, <1>7
<1> HIDE DEF Loop
<1>9. Loop(upTo)
  BY <1>8
<1> HIDE DEF upTo
<1>10. upTo[0] = base /\ \A n \in 1..L : upTo[n] = Round(upTo[n - 1], n)
  <2>1. 0 \in 0..L /\ \A n \in 1..L : n \in 0..L /\ n # 0
    BY <1>1
  <2> QED
    BY <1>9, <2>1 DEF Loop
<1> QED
  BY <1>3, <1>10 DEF base, Round, L

\* FuzzingCheckBind selects what the filters match, each property once.
LEMMA SelectedIs ==
    ASSUME registry \in Seq(Properties), IsInjective(registry), NEW q
    PROVE  /\ Selected(q) \in Seq(Properties)
           /\ ToSet(Selected(q)) = {p \in ToSet(registry) : Matches(q, p)}
           /\ IsInjective(Selected(q))
<1> DEFINE L == Len(registry)
<1>1. PICK h : /\ h[0] = <<>>
               /\ \A n \in 1..L : h[n] = IF Matches(q, registry[n]) THEN Append(h[n - 1],
                    registry[n]) ELSE h[n - 1]
               /\ Selected(q) = h[L]
  BY SelectedLoop
<1>2. L \in Nat /\ DOMAIN registry = 1..L /\ \A n \in 1..L : registry[n] \in Properties
  OBVIOUS
<1> DEFINE Good(n) == h[n] \in Seq(Properties) /\ ToSet(h[n]) = Hits(q, n) /\ IsInjective(h[n])
           K == {n \in Nat : n <= L => Good(n)}
<1>3. 0 \in K
  <2>1. ToSet(<<>>) = {} /\ IsInjective(<<>>) /\ Hits(q, 0) = {} /\ <<>> \in Seq(Properties)
    BY DEF ToSet, IsInjective, Hits
  <2> QED
    BY <1>1, <2>1
<1>4. ASSUME NEW n \in Nat, n \in K
      PROVE  n + 1 \in K
  <2> SUFFICES ASSUME n + 1 <= L PROVE Good(n + 1)
    OBVIOUS
  <2>1. Good(n) /\ n + 1 \in 1..L
    BY <1>2, <1>4
  <2>2. h[n + 1] = IF Matches(q, registry[n + 1]) THEN Append(h[n], registry[n + 1]) ELSE h[n]
    BY <1>1, <2>1
  <2>3. \A i \in 1..n + 1 : i \in 1..n \/ i = n + 1
    OBVIOUS
  <2>4. CASE Matches(q, registry[n + 1])
    <3>1. Hits(q, n + 1) = Hits(q, n) \cup {registry[n + 1]}
      BY <2>3, <2>4 DEF Hits
    <3>2. registry[n + 1] \notin Hits(q, n)
      BY <1>2, <2>1 DEF Hits, IsInjective
    <3> DEFINE e == registry[n + 1]
               s == h[n]
    <3>3. h[n + 1] = Append(s, e) /\ s \in Seq(Properties) /\ e \in Properties
      BY <1>2, <2>1, <2>2, <2>4
    <3>4. e \notin ToSet(s)
      BY <2>1, <3>2
    <3> HIDE DEF e, s
    <3>5. /\ Append(s, e) \in Seq(Properties) /\ ToSet(Append(s, e)) = ToSet(s) \cup {e}
          /\ IsInjective(s) => IsInjective(Append(s, e))
      BY <3>3, <3>4, AppendElement
    <3>6. h[n + 1] = Append(s, e)
      BY <3>3
    <3> QED
      BY <2>1, <3>1, <3>5, <3>6 DEF s, e
  <2>5. CASE ~Matches(q, registry[n + 1])
    <3>1. Hits(q, n + 1) = Hits(q, n)
      BY <2>3, <2>5 DEF Hits
    <3> QED
      BY <2>1, <2>2, <2>5, <3>1
  <2> QED
    BY <2>4, <2>5
<1> HIDE DEF K
<1>5. Nat \subseteq K
  BY <1>3, <1>4, InductionOverSet
<1>6. L \in K
  BY <1>2, <1>5
<1>7. Good(L)
  BY <1>2, <1>6 DEF K
<1>8. Hits(q, L) = {p \in ToSet(registry) : Matches(q, p)}
  BY <1>2 DEF Hits, ToSet
<1> QED
  BY <1>1, <1>7, <1>8

-----------------------------------------------------------------------------
\* The loop of PropertyRegistry::Suites(), round by round.
LEMMA SuitesLoop ==
    ASSUME registry \in Seq(Properties)
    PROVE  \E h : /\ h[0] = <<>>
                  /\ \A n \in 1..Len(registry) :
                        h[n] = IF Contains(h[n - 1], registry[n].suite) THEN h[n - 1]
                               ELSE Append(h[n - 1], registry[n].suite)
                  /\ Suites = h[Len(registry)]
<1> DEFINE L == Len(registry)
           S == Seq({registry[i].suite : i \in 1..L})
           base == <<>>
           Round(s, n) == IF Contains(s, registry[n].suite) THEN s ELSE Append(s, registry[n].suite)
           step == [n \in 1..L |-> [s \in S |-> Round(s, n)]]
           Loop(h) == h = [n \in 0..L |-> IF n = 0 THEN base ELSE Round(h[n - 1], n)]
           upTo == CHOOSE h : Loop(h)
<1>1. L \in Nat /\ base \in S
  OBVIOUS
<1>2. \A n \in 1..L, s \in S : Round(s, n) \in S
  <2> TAKE n \in 1..L, s \in S
  <2>1. registry[n].suite \in {registry[i].suite : i \in 1..L}
    OBVIOUS
  <2>2. Append(s, registry[n].suite) \in S
    <3> DEFINE T == {registry[i].suite : i \in 1..L}
               e == registry[n].suite
    <3>1. s \in Seq(T) /\ e \in T
      BY <2>1
    <3> HIDE DEF T, e
    <3>2. Append(s, e) \in Seq(T)
      BY <3>1
    <3> QED
      BY <3>2 DEF T, e
  <2> QED
    BY <2>2
<1>3. Suites = upTo[L]
  BY DEF Suites
<1> HIDE DEF S, base, L, Round
<1>4. step \in [1..L -> [S -> S]]
  BY <1>2
<1>5. PICK h \in [0..L -> S] : h[0] = base /\ \A n \in 1..L : h[n] = step[n][h[n - 1]]
  <2> HIDE DEF step
  <2> QED
    BY <1>1, <1>4, RecursiveFunction
<1>6. \A n \in 0..L : n = 0 \/ (n \in 1..L /\ n - 1 \in 0..L)
  BY <1>1
<1>7. \A n \in 0..L : h[n] = IF n = 0 THEN base ELSE Round(h[n - 1], n)
  BY <1>5, <1>6
<1>8. Loop(h)
  BY <1>5, <1>7
<1> HIDE DEF Loop
<1>9. Loop(upTo)
  BY <1>8
<1> HIDE DEF upTo
<1>10. upTo[0] = base /\ \A n \in 1..L : upTo[n] = Round(upTo[n - 1], n)
  <2>1. 0 \in 0..L /\ \A n \in 1..L : n \in 0..L /\ n # 0
    BY <1>1
  <2> QED
    BY <1>9, <2>1 DEF Loop
<1> QED
  BY <1>3, <1>10 DEF base, Round, L

\* The suites of the first n entries.
SuitesOf(n) == {registry[i].suite : i \in 1..n}

\* Suites() names the suite of every registered property, and each only once.
LEMMA SuitesIs ==
    ASSUME registry \in Seq(Properties)
    PROVE  /\ ToSet(Suites) = {c.suite : c \in ToSet(registry)}
           /\ IsInjective(Suites)
<1> DEFINE L == Len(registry)
           T == SuitesOf(L)
<1>1. PICK h : /\ h[0] = <<>>
               /\ \A n \in 1..L : h[n] = IF Contains(h[n - 1], registry[n].suite) THEN h[n - 1]
                                         ELSE Append(h[n - 1], registry[n].suite)
               /\ Suites = h[L]
  BY SuitesLoop
<1>2. L \in Nat /\ DOMAIN registry = 1..L
  OBVIOUS
<1>a. \A n \in 1..L : registry[n].suite \in T
  BY DEF SuitesOf
<1> HIDE DEF T
<1> DEFINE Good(n) == h[n] \in Seq(T) /\ ToSet(h[n]) = SuitesOf(n) /\ IsInjective(h[n])
           K == {n \in Nat : n <= L => Good(n)}
<1>3. 0 \in K
  <2>1. ToSet(<<>>) = {} /\ IsInjective(<<>>) /\ SuitesOf(0) = {} /\ <<>> \in Seq(T)
    BY DEF ToSet, IsInjective, SuitesOf
  <2> QED
    BY <1>1, <2>1
<1>4. ASSUME NEW n \in Nat, n \in K
      PROVE  n + 1 \in K
  <2> SUFFICES ASSUME n + 1 <= L PROVE Good(n + 1)
    OBVIOUS
  <2>1. Good(n) /\ n + 1 \in 1..L
    BY <1>2, <1>4
  <2> DEFINE e == registry[n + 1].suite
             s == h[n]
  <2>2. h[n + 1] = IF Contains(s, e) THEN s ELSE Append(s, e)
    BY <1>1, <2>1
  <2>3. SuitesOf(n + 1) = SuitesOf(n) \cup {e}
    <3>1. \A i \in 1..n + 1 : i \in 1..n \/ i = n + 1
      OBVIOUS
    <3> QED
      BY <3>1 DEF SuitesOf
  <2>4. s \in Seq(T) /\ e \in T /\ ToSet(s) = SuitesOf(n) /\ IsInjective(s)
    BY <1>a, <2>1
  <2>5. ASSUME h[n + 1] \in Seq(T) /\ ToSet(h[n + 1]) = SuitesOf(n) \cup {e} /\ IsInjective(h[n + 1])
        PROVE  Good(n + 1)
    BY <2>3, <2>5
  <2> HIDE DEF e, s, K, Good
  <2>6. Contains(s, e) <=> e \in ToSet(s)
    <3>1. DOMAIN s = 1..Len(s)
      BY <2>4
    <3> QED
      BY <3>1 DEF Contains, ToSet
  <2>7. CASE Contains(s, e)
    <3>1. SuitesOf(n) \cup {e} = SuitesOf(n)
      BY <2>4, <2>6, <2>7
    <3> QED
      BY <2>2, <2>4, <2>5, <2>7, <3>1
  <2>8. CASE ~Contains(s, e)
    <3>1. e \notin ToSet(s)
      BY <2>6, <2>8
    <3>2. /\ Append(s, e) \in Seq(T) /\ ToSet(Append(s, e)) = ToSet(s) \cup {e}
          /\ IsInjective(Append(s, e))
      BY <2>4, <3>1, AppendElement
    <3> QED
      BY <2>2, <2>4, <2>5, <2>8, <3>2
  <2> QED
    BY <2>7, <2>8
<1> HIDE DEF K
<1>5. Nat \subseteq K
  BY <1>3, <1>4, InductionOverSet
<1>6. L \in K
  BY <1>2, <1>5
<1>7. Good(L)
  BY <1>2, <1>6 DEF K
<1>8. SuitesOf(L) = {c.suite : c \in ToSet(registry)}
  BY <1>2 DEF SuitesOf, ToSet
<1> QED
  BY <1>1, <1>7, <1>8

-----------------------------------------------------------------------------
\* What registration has left in the registry so far, file by file.
RegistryTyped ==
    /\ linked = PropertyFiles
    /\ registered \in [PropertyFiles -> Nat]
    /\ \A f \in PropertyFiles : registered[f] <= Len(CasesOf[f])
    /\ registry \in Seq(Properties)
    /\ loaded \in BOOLEAN
    /\ loaded => \A f \in PropertyFiles : Initialised(f)

BlocksRegistered ==
    \A f \in PropertyFiles : Started(f) =>
        \E i \in 0..Len(registry) :
            /\ i + registered[f] <= Len(registry)
            /\ \A k \in 1..registered[f] : registry[i + k] = CasesOf[f][k]
            /\ ~Initialised(f) => i + registered[f] = Len(registry)

RegisteredOnce ==
    /\ IsInjective(registry)
    /\ \A p : p \in ToSet(registry)
         <=> \E f \in PropertyFiles : \E k \in 1..registered[f] : p = CasesOf[f][k]

Slots == UNION {{f} \X (1..registered[f]) : f \in PropertyFiles}

SlotsCounted == IsFiniteSet(Slots) /\ Cardinality(Slots) = Len(registry)

RegistryInv == RegistryTyped /\ BlocksRegistered /\ RegisteredOnce /\ SlotsCounted

\* The cases of a file are properties.
LEMMA CasesType ==
    ASSUME NEW f \in PropertyFiles
    PROVE  /\ CasesOf[f] \in Seq(Properties)
           /\ Len(CasesOf[f]) \in Nat /\ DOMAIN CasesOf[f] = 1..Len(CasesOf[f])
           /\ ToSet(CasesOf[f]) = {CasesOf[f][k] : k \in 1..Len(CasesOf[f])}
<1>1. CasesOf[f] \in Seq(Properties)
  BY CasesOfAssumption, CheckAssumption
<1> QED
  BY <1>1 DEF ToSet

\* Before static initialisation every object with an anchor is linked and nothing is registered.
LEMMA RegistryInvInit == RegistryInit => RegistryInv
<1> SUFFICES ASSUME RegistryInit PROVE RegistryInv
  OBVIOUS
<1>1. linked = PropertyFiles
  BY DEF RegistryInit, Linkable, TouchPropertyFiles
<1>2. /\ registered = [f \in PropertyFiles |-> 0] /\ registry = <<>> /\ loaded = FALSE
  BY DEF RegistryInit
<1>3. RegistryTyped
  <2>1. registered \in [PropertyFiles -> Nat] /\ registry \in Seq(Properties)
    BY <1>2
  <2>2. \A f \in PropertyFiles : registered[f] = 0 /\ Len(CasesOf[f]) \in Nat
    BY <1>2, CasesType
  <2>3. \A f \in PropertyFiles : registered[f] <= Len(CasesOf[f])
    BY <2>2
  <2> QED
    BY <1>1, <1>2, <2>1, <2>3 DEF RegistryTyped
<1>4. BlocksRegistered
  BY <1>2 DEF BlocksRegistered, Started
<1>5. RegisteredOnce
  BY <1>2 DEF RegisteredOnce, IsInjective, ToSet
<1>6. Slots = {}
  BY <1>2 DEF Slots
<1>7. SlotsCounted
  BY <1>2, <1>6, FS_EmptySet DEF SlotsCounted
<1> QED
  BY <1>3, <1>4, <1>5, <1>7 DEF RegistryInv

\* One static initializer keeps the blocks together and adds a property not registered yet.
LEMMA RegisterStep ==
    ASSUME RegistryInv, NEW f \in PropertyFiles, Register(f)
    PROVE  RegistryInv'
<1> DEFINE n == registered[f]
           e == CasesOf[f][n + 1]
           L == Len(registry)
<1>1. RegistryTyped /\ BlocksRegistered /\ RegisteredOnce /\ SlotsCounted
  BY DEF RegistryInv
<1>2. /\ ~loaded /\ f \in linked /\ ~Initialised(f)
      /\ \A g \in linked \ {f} : Started(g) => Initialised(g)
      /\ registry' = Append(registry, e)
      /\ registered' = [registered EXCEPT ![f] = n + 1]
      /\ linked' = linked /\ loaded' = loaded
  BY DEF Register
<1>3. /\ linked = PropertyFiles /\ registered \in [PropertyFiles -> Nat] /\ n \in Nat
      /\ registry \in Seq(Properties) /\ L \in Nat /\ DOMAIN registry = 1..L
  BY <1>1 DEF RegistryTyped
<1>4. n + 1 \in 1..Len(CasesOf[f])
  <2>1. n <= Len(CasesOf[f]) /\ n # Len(CasesOf[f]) /\ Len(CasesOf[f]) \in Nat
    BY <1>1, <1>2, CasesType DEF RegistryTyped, Initialised
  <2> QED
    BY <1>3, <2>1
<1>5. e \in Properties
  BY <1>4, CasesType
<1>6. /\ registry' \in Seq(Properties) /\ Len(registry') = L + 1
      /\ DOMAIN registry' = 1..L + 1
      /\ \A i \in 1..L : registry'[i] = registry[i]
      /\ registry'[L + 1] = e
  BY <1>2, <1>3, <1>5
<1>7. /\ registered' \in [PropertyFiles -> Nat]
      /\ registered'[f] = n + 1
      /\ \A g \in PropertyFiles \ {f} : registered'[g] = registered[g]
  BY <1>2, <1>3
<1>8. RegistryTyped'
  <2>1. ASSUME NEW g \in PropertyFiles PROVE registered'[g] <= Len(CasesOf[g])
    <3>1. CASE g = f
      BY <1>4, <1>7, <3>1, CasesType
    <3>2. CASE g # f
      BY <1>1, <1>7, <3>2 DEF RegistryTyped
    <3> QED
      BY <3>1, <3>2
  <2>2. linked' = PropertyFiles /\ registry' \in Seq(Properties) /\ loaded' = FALSE
    BY <1>1, <1>2, <1>3, <1>6 DEF RegistryTyped
  <2> QED
    BY <1>7, <2>1, <2>2 DEF RegistryTyped
<1>9. BlocksRegistered'
  <2> SUFFICES ASSUME NEW g \in PropertyFiles, Started(g)'
               PROVE  \E i \in 0..L + 1 :
                         /\ i + registered'[g] <= L + 1
                         /\ \A k \in 1..registered'[g] : registry'[i + k] = CasesOf[g][k]
                         /\ ~Initialised(g)' => i + registered'[g] = L + 1
    BY <1>6 DEF BlocksRegistered
  <2>1. CASE g = f
    <3>1. PICK i \in 0..L : i + n = L /\ \A k \in 1..n : registry[i + k] = CasesOf[f][k]
      <4>1. CASE n = 0
        <5>1. L \in 0..L /\ L + n = L /\ 1..n = {}
          BY <1>3, <4>1
        <5> QED
          BY <5>1
      <4>2. CASE n # 0
        <5>1. Started(f)
          BY <1>3, <4>2 DEF Started
        <5> QED
          BY <1>1, <1>2, <5>1 DEF BlocksRegistered
      <4> QED
        BY <4>1, <4>2
    <3>2. \A k \in 1..n + 1 : k = n + 1 \/ (k \in 1..n /\ i + k \in 1..L)
      BY <1>3, <3>1
    <3>3. i + (n + 1) = L + 1
      <4>1. i \in Int /\ n \in Int /\ i + n = L
        BY <1>3, <3>1
      <4> HIDE DEF n, L
      <4> QED
        BY <4>1
    <3>4. \A k \in 1..n + 1 : registry'[i + k] = CasesOf[f][k]
      BY <1>6, <3>1, <3>2, <3>3
    <3>5. i \in 0..L + 1
      BY <1>3
    <3> QED
      BY <1>7, <2>1, <3>3, <3>4, <3>5
  <2>2. CASE g # f
    <3>1. registered'[g] = registered[g] /\ registered[g] \in Nat
      BY <1>3, <1>7, <2>2
    <3>2. Started(g) /\ Initialised(g) /\ Initialised(g)'
      BY <1>2, <1>3, <2>2, <3>1 DEF Started, Initialised
    <3>3. PICK i \in 0..L : /\ i + registered[g] <= L
                            /\ \A k \in 1..registered[g] : registry[i + k] = CasesOf[g][k]
      BY <1>1, <3>2 DEF BlocksRegistered
    <3>4. \A k \in 1..registered[g] : i + k \in 1..L
      BY <1>3, <3>1, <3>3
    <3>5. i \in 0..L + 1 /\ i + registered[g] <= L + 1
      BY <1>3, <3>1, <3>3
    <3> QED
      BY <1>6, <3>1, <3>2, <3>3, <3>4, <3>5
  <2> QED
    BY <2>1, <2>2
<1>10. e \notin ToSet(registry)
  <2> SUFFICES ASSUME e \in ToSet(registry) PROVE FALSE
    OBVIOUS
  <2>1. PICK g \in PropertyFiles : \E k \in 1..registered[g] : e = CasesOf[g][k]
    BY <1>1 DEF RegisteredOnce
  <2>2. PICK k \in 1..registered[g] : e = CasesOf[g][k]
    BY <2>1
  <2>3. k \in 1..Len(CasesOf[g])
    BY <1>1, CasesType DEF RegistryTyped
  <2>4. g = f
    <3>1. e \in ToSet(CasesOf[g]) /\ e \in ToSet(CasesOf[f])
      BY <1>4, <2>2, <2>3, CasesType
    <3> QED
      BY <3>1, UniqueNames
  <2>5. k = n + 1
    BY <1>4, <2>2, <2>3, <2>4, CasesType, UniqueNames DEF IsInjective
  <2> QED
    BY <1>3, <2>4, <2>5
<1>11. RegisteredOnce'
  <2>1. /\ ToSet(registry') = ToSet(registry) \cup {e}
        /\ IsInjective(registry')
    <3>1. IsInjective(registry)
      BY <1>1 DEF RegisteredOnce
    <3> HIDE DEF e
    <3> QED
      BY <1>2, <1>3, <1>5, <1>10, <3>1, AppendElement
  <2>2. ASSUME NEW p
        PROVE  p \in ToSet(registry')
          <=> \E g \in PropertyFiles : \E k \in 1..registered'[g] : p = CasesOf[g][k]
    <3>1. p \in ToSet(registry)
            <=> \E g \in PropertyFiles : \E k \in 1..registered[g] : p = CasesOf[g][k]
      BY <1>1 DEF RegisteredOnce
    <3>2. \A k \in 1..n + 1 : k = n + 1 \/ k \in 1..n
      BY <1>3
    <3>3. ASSUME NEW g \in PropertyFiles, NEW k \in 1..registered[g]
          PROVE  k \in 1..registered'[g]
      BY <1>3, <1>7
    <3>4. CASE p = e
      BY <1>3, <1>7, <2>1, <3>4
    <3>5. CASE p # e
      <4>1. ASSUME NEW g \in PropertyFiles, NEW k \in 1..registered'[g], p = CasesOf[g][k]
            PROVE  k \in 1..registered[g]
        BY <1>7, <3>2, <3>5, <4>1
      <4> QED
        BY <2>1, <3>1, <3>3, <3>5, <4>1
    <3> QED
      BY <3>4, <3>5
  <2> QED
    BY <2>1, <2>2 DEF RegisteredOnce
<1>12. SlotsCounted'
  <2>1. Slots' = Slots \cup {<<f, n + 1>>}
    <3>1. \A k \in 1..n + 1 : k = n + 1 \/ k \in 1..n
      BY <1>3
    <3>2. ASSUME NEW g \in PropertyFiles
          PROVE  {g} \X (1..registered'[g]) =
                 IF g = f THEN ({g} \X (1..registered[g])) \cup {<<f, n + 1>>}
                   ELSE {g} \X (1..registered[g])
      BY <1>3, <1>7, <3>1
    <3>3. ASSUME NEW x PROVE x \in Slots' <=> x \in Slots \/ x = <<f, n + 1>>
      BY <3>2 DEF Slots
    <3> QED
      BY <3>3
  <2>2. <<f, n + 1>> \notin Slots
    BY <1>3 DEF Slots
  <2>3. IsFiniteSet(Slots) /\ Cardinality(Slots) = L
    BY <1>1 DEF SlotsCounted
  <2>4. IsFiniteSet(Slots \cup {<<f, n + 1>>}) /\ Cardinality(Slots \cup {<<f, n + 1>>}) = L + 1
    BY <2>2, <2>3, FS_AddElement
  <2> QED
    BY <1>6, <2>1, <2>4 DEF SlotsCounted
<1> QED
  BY <1>8, <1>9, <1>11, <1>12 DEF RegistryInv

\* Static initialisation, and LoadInternal after it.
LEMMA RegistryInvStep == RegistryInv /\ [RegistryNext]_registryVars => RegistryInv'
<1> SUFFICES ASSUME RegistryInv, [RegistryNext]_registryVars PROVE RegistryInv'
  OBVIOUS
<1>0. RegistryTyped /\ BlocksRegistered /\ RegisteredOnce /\ SlotsCounted
  BY DEF RegistryInv
<1>1. CASE LoadInternal
  <2>1. /\ \A f \in linked : Initialised(f)
        /\ loaded' = TRUE /\ UNCHANGED <<linked, registered, registry>>
    BY <1>1 DEF LoadInternal
  <2>2. RegistryTyped'
    BY <1>0, <2>1 DEF RegistryTyped, Initialised
  <2>3. BlocksRegistered' /\ RegisteredOnce' /\ SlotsCounted'
    BY <1>0, <2>1 DEF BlocksRegistered, Started, Initialised, RegisteredOnce, SlotsCounted, Slots
  <2> QED
    BY <2>2, <2>3 DEF RegistryInv
<1>2. CASE UNCHANGED registryVars
  <2>1. UNCHANGED <<linked, registered, registry, loaded>>
    BY <1>2 DEF registryVars
  <2>2. RegistryTyped'
    BY <1>0, <2>1 DEF RegistryTyped, Initialised
  <2>3. BlocksRegistered' /\ RegisteredOnce' /\ SlotsCounted'
    BY <1>0, <2>1 DEF BlocksRegistered, Started, Initialised, RegisteredOnce, SlotsCounted, Slots
  <2> QED
    BY <2>2, <2>3 DEF RegistryInv
<1>3. ASSUME NEW f \in PropertyFiles, Register(f)
      PROVE  RegistryInv'
  BY <1>3, RegisterStep
<1> QED
  BY <1>1, <1>2, <1>3 DEF RegistryNext

\* When all units are initialised, what is registered is what the files hold.
LEMMA CasesRegistered ==
    ASSUME RegistryTyped, RegisteredOnce, loaded, NEW p
    PROVE  p \in ToSet(registry) <=> \E f \in PropertyFiles : p \in ToSet(CasesOf[f])
<1>1. ASSUME NEW f \in PropertyFiles
      PROVE  p \in ToSet(CasesOf[f]) <=> \E k \in 1..registered[f] : p = CasesOf[f][k]
  <2>1. registered[f] = Len(CasesOf[f])
    BY DEF RegistryTyped, Initialised
  <2>2. ToSet(CasesOf[f]) = {CasesOf[f][k] : k \in 1..Len(CasesOf[f])}
    BY CasesType
  <2> QED
    BY <2>1, <2>2
<1>2. p \in ToSet(registry) <=> \E f \in PropertyFiles : \E k \in 1..registered[f] : p = CasesOf[f][k]
  BY DEF RegisteredOnce
<1> QED
  BY <1>1, <1>2

\* RegistryComplete is what the invariant says of a loaded extension.
LEMMA CompleteHolds == RegistryInv => RegistryComplete
<1> SUFFICES ASSUME RegistryInv, loaded PROVE RegistryComplete
  BY DEF RegistryComplete
<1>1. RegistryTyped /\ BlocksRegistered /\ RegisteredOnce /\ SlotsCounted
  BY DEF RegistryInv
<1>2. \A f \in PropertyFiles : registered[f] = Len(CasesOf[f])
  BY <1>1 DEF RegistryTyped, Initialised
<1>3. registry \in Seq(Properties) /\ Len(registry) \in Nat /\ DOMAIN registry = 1..Len(registry)
  BY <1>1 DEF RegistryTyped
<1>4. Len(registry) = Cardinality(UNION {{f} \X DOMAIN CasesOf[f] : f \in PropertyFiles})
  <2>1. Slots = UNION {{f} \X DOMAIN CasesOf[f] : f \in PropertyFiles}
    BY <1>2, CasesType DEF Slots
  <2> QED
    BY <1>1, <2>1 DEF SlotsCounted
<1>5. ASSUME NEW f \in PropertyFiles
      PROVE  \E i \in 0..Len(registry) :
                /\ i + Len(CasesOf[f]) <= Len(registry)
                /\ SubSeq(registry, i + 1, i + Len(CasesOf[f])) = CasesOf[f]
  <2> DEFINE n == Len(CasesOf[f])
  <2>1. n \in Nat /\ CasesOf[f] \in Seq(Properties)
    BY CasesType
  <2>2. PICK i \in 0..Len(registry) : i + n <= Len(registry)
          /\ \A k \in 1..n : registry[i + k] = CasesOf[f][k]
    <3>1. CASE n = 0
      BY <1>3, <3>1
    <3>2. CASE n # 0
      <4>1. Started(f)
        BY <1>2, <2>1, <3>2 DEF Started
      <4> QED
        BY <1>1, <1>2, <4>1 DEF BlocksRegistered
    <3> QED
      BY <3>1, <3>2
  <2>3. /\ SubSeq(registry, i + 1, i + n) \in Seq(Properties)
        /\ Len(SubSeq(registry, i + 1, i + n)) = n
        /\ \A k \in 1..n : SubSeq(registry, i + 1, i + n)[k] = registry[i + k]
    BY <1>3, <2>1, <2>2
  <2>4. SubSeq(registry, i + 1, i + n) = CasesOf[f]
    BY <2>1, <2>2, <2>3
  <2> QED
    BY <2>2, <2>4
<1>6. ToSet(registry) = UNION {ToSet(CasesOf[f]) : f \in PropertyFiles}
  <2>1. ASSUME NEW p
        PROVE  p \in ToSet(registry) <=> \E f \in PropertyFiles : p \in ToSet(CasesOf[f])
    BY <1>1, CasesRegistered
  <2> QED
    BY <2>1
<1>7. IsInjective(Suites) /\ ToSet(Suites) = {c.suite : c \in UNION {ToSet(CasesOf[f]) : f \in PropertyFiles}}
  BY <1>3, <1>6, SuitesIs
<1> QED
  BY <1>4, <1>5, <1>7 DEF RegistryComplete

\* The registry of a loaded extension.
LEMMA LoadedRegistry ==
    ASSUME RegistryInv, loaded
    PROVE  /\ registry \in Seq(Properties) /\ IsInjective(registry) /\ ToSet(registry) = Properties
<1>1. RegistryTyped /\ RegisteredOnce
  BY DEF RegistryInv
<1>2. \A f \in PropertyFiles : registered[f] = Len(CasesOf[f])
  BY <1>1 DEF RegistryTyped, Initialised
<1>3. ASSUME NEW p
      PROVE  p \in ToSet(registry) <=> \E f \in PropertyFiles : p \in ToSet(CasesOf[f])
  BY <1>1, CasesRegistered
<1>4. ToSet(registry) = Properties
  BY <1>3, CheckAssumption
<1> QED
  BY <1>1, <1>4 DEF RegistryTyped, RegisteredOnce

-----------------------------------------------------------------------------
\* The types of the variables of the scan.
ScanTyped ==
    /\ query \in Queries
    /\ scan \in {"none", "scanning", "finished", "failed"}
    /\ bound \in Seq(Properties)
    /\ offset \in 0..Len(bound)
    /\ chunk \in Seq(Results) /\ Len(chunk) <= VectorSize
    /\ delivered \in Seq(Results)
    /\ interrupted \in BOOLEAN
    /\ replayOf.row \in Results /\ replayOf.options \in Options /\ replayOf.exists \in BOOLEAN

\* RunProperty runs only for the next property of a scan that has room for its row.
RunOfScan ==
    /\ pc # "idle" =>
          /\ scan = "scanning"
          /\ MoreToRun
          /\ property = bound[offset + 1]
          /\ options = query.options
    /\ pc = "returned" => result.property = property

\* A scan answers what its query selects, row by row.
RowsInOrder ==
    /\ scan \in {"scanning", "finished"} =>
          /\ loaded
          /\ bound = Selected(query)
          /\ Len(delivered) + Len(chunk) = offset
          /\ \A i \in 1..Len(delivered) : delivered[i].property = bound[i]
          /\ \A i \in 1..Len(chunk) : chunk[i].property = bound[Len(delivered) + i]
    /\ scan = "finished" => offset = Len(bound) /\ chunk = <<>>

ScanInv == RunnerInv /\ RegistryInv /\ ScanTyped /\ RunOfScan /\ RowsInOrder

\* What a query selects depends on the registry and the query alone.
LEMMA SelectedStays ==
    ASSUME registry' = registry, query' = query
    PROVE  Selected(query)' = Selected(query)
BY DEF Selected, Matches

\* The same for a query that has just been bound.
LEMMA SelectedByQuery ==
    ASSUME registry' = registry, NEW STATE q, query' = q
    PROVE  Selected(query)' = Selected(q)
BY DEF Selected, Matches

\* The call printed for a row is a query.
LEMMA ReproduceType ==
    ASSUME NEW row \in Results
    PROVE  ReproduceSql(row) \in Queries
<1>1. row.property \in Properties /\ row.reproduce \in Reproduces
  BY DEF Results
<1>2. row.property.suite \in Names /\ row.property.name \in Names
  BY <1>1, CheckAssumption
<1>3. [max_success |-> row.reproduce.max_success,
       max_size |-> row.reproduce.max_size,
       max_discard_ratio |-> DefaultDiscardRatio,
       no_shrink |-> row.reproduce.noshrink,
       seed |-> row.reproduce.seed] \in Options
  BY <1>1, CheckAssumption DEF Reproduces, Options
<1> QED
  BY <1>2, <1>3 DEF ReproduceSql, Queries, Filters

\* What a step of the whole is for the runner and for the registry.
LEMMA RunnerSteps ==
    ASSUME ScanTyped, RunOfScan, [Next]_vars
    PROVE  [RunnerNext]_runnerVars
<1>1. CASE StartProperty
  <2>1. Call(bound[offset + 1], query.options) /\ offset < Len(bound)
    BY <1>1 DEF StartProperty, MoreToRun
  <2>2. bound[offset + 1] \in Properties /\ query.options \in Options
    BY <2>1 DEF ScanTyped, Queries
  <2> QED
    BY <2>1, <2>2 DEF RunnerNext
<1>2. CASE RunProperty
  BY <1>2 DEF RunProperty, RunnerNext
<1>3. CASE EmitRow \/ PropertyThrew
  BY <1>3 DEF EmitRow, PropertyThrew, RunnerNext
<1>4. CASE Ask \/ Replay
  <2>1. UNCHANGED runnerVars
    BY <1>4 DEF Ask, Replay, FuzzingCheckBind
  <2> QED
    BY <2>1
<1>5. CASE LoadExtension \/ InterruptCheck \/ FlushChunk \/ EndScan \/ Interrupt \/ UNCHANGED vars
  <2>1. UNCHANGED runnerVars
    BY <1>5 DEF LoadExtension, InterruptCheck, FlushChunk, EndScan, Interrupt, vars
  <2> QED
    BY <2>1
<1> QED
  BY <1>1, <1>2, <1>3, <1>4, <1>5 DEF Next

\* Only loading the extension touches the registry.
LEMMA RegistrySteps ==
    ASSUME [Next]_vars
    PROVE  [RegistryNext]_registryVars
<1>1. CASE LoadExtension
  BY <1>1 DEF LoadExtension
<1>2. CASE Ask \/ Replay
  BY <1>2 DEF Ask, Replay, FuzzingCheckBind
<1>3. CASE StartProperty \/ RunProperty \/ EmitRow \/ PropertyThrew \/ InterruptCheck \/ UNCHANGED vars
  BY <1>3 DEF StartProperty, RunProperty, EmitRow, PropertyThrew, InterruptCheck, Abort, vars
<1>4. CASE FlushChunk \/ EndScan \/ Interrupt
  BY <1>4 DEF FlushChunk, EndScan, Interrupt
<1> QED
  BY <1>1, <1>2, <1>3, <1>4 DEF Next

\* Once the extension is loaded the registry stays as it is.
LEMMA LoadedStays ==
    ASSUME RegistryInv, loaded, [RegistryNext]_registryVars
    PROVE  UNCHANGED <<registry, loaded>>
BY DEF RegistryNext, Register, LoadInternal, registryVars

\* Within a run its arguments stay, and a run that ends has a result of its own.
LEMMA RunKeeps ==
    ASSUME RunnerStep
    PROVE  /\ property' = property /\ options' = options
           /\ pc # "idle"
           /\ pc' = "returned" => result'.property = property
<1>1. CASE PrepareThrows \/ Prepare \/ StartSearch
  BY <1>1 DEF PrepareThrows, Prepare, StartSearch
<1>2. ASSUME NEW s, NEW d, NEW c, NEW k, Report(s, d, c, k)
      PROVE  property' = property /\ options' = options /\ result'.property = property
  BY <1>2 DEF Report
<1>3. CASE SkipProperty \/ EngineError \/ UncaughtException
  BY <1>2, <1>3 DEF SkipProperty, EngineError, UncaughtException
<1>4. CASE Succeed
  <2>1. pc = "search" /\ (Report("fixed", "fixed upstream", numSuccess, 0) \/ Report("pass", "",
          numSuccess, 0))
    BY <1>4 DEF Succeed
  <2> QED
    BY <1>2, <2>1
<1>5. ASSUME NEW o \in Outcomes, CaseSucceeds(o) \/ CaseDiscarded(o)
      PROVE  /\ property' = property /\ options' = options /\ pc = "search" /\ pc' = "search"
  BY <1>5 DEF CaseSucceeds, CaseDiscarded, Generate
<1>6. ASSUME NEW o \in Outcomes, GiveUp(o) \/ CaseFails(o)
      PROVE  /\ property' = property /\ options' = options /\ pc = "search"
        /\ result'.property = property
  BY <1>2, <1>6 DEF GiveUp, CaseFails, Generate
<1> QED
  BY <1>1, <1>3, <1>4, <1>5, <1>6 DEF RunnerStep

\* The initial state satisfies the invariant of the scan.
LEMMA ScanInit == Init => ScanInv
<1> SUFFICES ASSUME Init PROVE ScanInv
  OBVIOUS
<1>1. RunnerInv /\ RegistryInv
  BY InvInit, RegistryInvInit DEF Init
<1>2. /\ query = NoQuery /\ scan = "none" /\ bound = <<>> /\ offset = 0 /\ chunk = <<>>
      /\ delivered = <<>> /\ interrupted = FALSE /\ replayOf = NoRow /\ pc = "idle"
  BY DEF Init, RunnerInit
<1>3. NoQuery \in Queries
  BY SetsInhabited DEF NoQuery, Queries, Filters
<1>4. NoRow.row \in Results /\ NoRow.options \in Options /\ NoRow.exists \in BOOLEAN
  BY SetsInhabited DEF NoRow
<1>5. bound \in Seq(Properties) /\ offset \in 0..Len(bound) /\ delivered \in Seq(Results)
  BY <1>2
<1>6. chunk \in Seq(Results) /\ Len(chunk) <= VectorSize
  BY <1>2, CheckAssumption
<1>7. ScanTyped
  BY <1>2, <1>3, <1>4, <1>5, <1>6 DEF ScanTyped
<1> QED
  BY <1>1, <1>2, <1>7 DEF ScanInv, RunOfScan, RowsInOrder

\* A call that has been bound starts with no rows, and with what it selects.
LEMMA BindStep ==
    ASSUME ScanInv, NEW STATE q, q \in Queries, NEW STATE replayed,
           replayed.row \in Results, replayed.options \in Options, replayed.exists \in BOOLEAN,
           scan # "scanning", FuzzingCheckBind(q, replayed)
    PROVE  ScanTyped' /\ RunOfScan' /\ RowsInOrder'
<1>1. /\ loaded /\ query' = q /\ replayOf' = replayed
      /\ bound' = IF Rejected(q) THEN <<>> ELSE Selected(q)
      /\ scan' = IF Rejected(q) THEN "failed" ELSE "scanning"
      /\ offset' = 0 /\ chunk' = <<>> /\ delivered' = <<>> /\ interrupted' = FALSE
      /\ UNCHANGED <<registry, loaded>> /\ UNCHANGED runnerVars
  BY DEF FuzzingCheckBind, registryVars
<1>2. Selected(q) \in Seq(Properties)
  BY <1>1, LoadedRegistry, SelectedIs DEF ScanInv
<1>3. bound' \in Seq(Properties) /\ Len(bound') \in Nat
  BY <1>1, <1>2
<1>4. ScanTyped'
  <2>1. chunk' \in Seq(Results) /\ Len(chunk') <= VectorSize /\ delivered' \in Seq(Results)
    BY <1>1, CheckAssumption
  <2>2. offset' \in 0..Len(bound')
    BY <1>1, <1>3
  <2>3. /\ replayOf'.row \in Results /\ replayOf'.options \in Options /\ replayOf'.exists \in BOOLEAN
        /\ query' \in Queries /\ interrupted' \in BOOLEAN
    BY <1>1
  <2>4. scan' \in {"none", "scanning", "finished", "failed"}
    BY <1>1
  <2> QED
    BY <1>3, <2>1, <2>2, <2>3, <2>4 DEF ScanTyped
<1>5. pc' = "idle"
  BY <1>1 DEF ScanInv, RunOfScan, runnerVars
<1>6. RunOfScan'
  BY <1>5 DEF RunOfScan
<1>7. Selected(query)' = Selected(q)
  BY <1>1, SelectedByQuery
<1>8. RowsInOrder'
  <2>1. scan' # "finished"
    BY <1>1
  <2>2. ASSUME scan' = "scanning"
        PROVE  /\ loaded' /\ bound' = Selected(query)'
               /\ Len(delivered') + Len(chunk') = offset'
               /\ Len(delivered') = 0 /\ Len(chunk') = 0
    BY <1>1, <1>7, <2>2
  <2> QED
    BY <2>1, <2>2 DEF RowsInOrder
<1> QED
  BY <1>4, <1>6, <1>8

-----------------------------------------------------------------------------
\* Every step of a client, of DuckDB and of RunProperty keeps the invariant of the scan.
LEMMA ScanStep == ScanInv /\ [Next]_vars => ScanInv'
<1> SUFFICES ASSUME ScanInv, [Next]_vars PROVE ScanInv'
  OBVIOUS
<1>0. RunnerInv /\ RegistryInv /\ ScanTyped /\ RunOfScan /\ RowsInOrder
  BY DEF ScanInv
<1>1. [RunnerNext]_runnerVars /\ [RegistryNext]_registryVars
  BY <1>0, RunnerSteps, RegistrySteps
<1>2. RunnerInv' /\ RegistryInv'
  BY <1>0, <1>1, InvStep, RegistryInvStep
<1>3. loaded => UNCHANGED <<registry, loaded>>
  BY <1>0, <1>1, LoadedStays
<1> SUFFICES ScanTyped' /\ RunOfScan' /\ RowsInOrder'
  BY <1>2 DEF ScanInv
<1>4. ASSUME UNCHANGED <<query, scan, bound, offset, chunk, delivered, replayOf>>,
        interrupted' \in BOOLEAN
      PROVE  ScanTyped' /\ RowsInOrder'
  <2>1. ScanTyped'
    BY <1>0, <1>4 DEF ScanTyped
  <2>2. scan \in {"scanning", "finished"} => Selected(query)' = Selected(query)
    BY <1>0, <1>3, <1>4, SelectedStays DEF RowsInOrder
  <2>3. RowsInOrder'
    BY <1>0, <1>3, <1>4, <2>2 DEF RowsInOrder
  <2> QED
    BY <2>1, <2>3
<1>5. ASSUME UNCHANGED scanVars
      PROVE  ScanTyped' /\ RowsInOrder'
  BY <1>0, <1>4, <1>5 DEF scanVars, ScanTyped
<1>6. RunnerTypeOK /\ result \in Results /\ result' \in Results
  BY <1>0, <1>2 DEF RunnerInv, RunnerTypeOK
<1>7. /\ chunk \in Seq(Results) /\ Len(chunk) \in Nat /\ delivered \in Seq(Results)
           /\ Len(delivered) \in Nat
      /\ bound \in Seq(Properties) /\ Len(bound) \in Nat /\ offset \in Nat /\ offset <= Len(bound)
      /\ VectorSize \in Nat /\ Len(chunk) <= VectorSize
  BY <1>0, CheckAssumption DEF ScanTyped
<1>8. CASE LoadExtension
  <2>1. UNCHANGED runnerVars /\ UNCHANGED scanVars
    BY <1>8 DEF LoadExtension
  <2> QED
    BY <1>0, <1>5, <2>1 DEF RunOfScan, runnerVars, scanVars, MoreToRun
<1>9. CASE Ask
  <2>1. PICK q \in Asked : FuzzingCheckBind(q, NoRow)
    BY <1>9 DEF Ask
  <2>2. scan # "scanning" /\ q \in Queries
    BY <1>9, AskedAssumption DEF Ask
  <2>3. NoRow.row \in Results /\ NoRow.options \in Options /\ NoRow.exists \in BOOLEAN
    BY SetsInhabited DEF NoRow
  <2> QED
    BY <2>1, <2>2, <2>3, BindStep
<1>10. CASE Replay
  <2>1. PICK i \in DOMAIN delivered :
           FuzzingCheckBind(ReproduceSql(delivered[i]),
                            [row |-> delivered[i], options |-> query.options, exists |-> TRUE])
    BY <1>10 DEF Replay
  <2>2. scan # "scanning" /\ delivered[i] \in Results /\ query.options \in Options
    BY <1>0, <1>7, <1>10 DEF Replay, ScanTyped, Queries
  <2>3. ReproduceSql(delivered[i]) \in Queries
    BY <2>2, ReproduceType
  <2> DEFINE replayed == [row |-> delivered[i], options |-> query.options, exists |-> TRUE]
  <2>4. replayed.row \in Results /\ replayed.options \in Options /\ replayed.exists \in BOOLEAN
    BY <2>2
  <2>5. FuzzingCheckBind(ReproduceSql(delivered[i]), replayed)
    BY <2>1
  <2> HIDE DEF replayed
  <2> QED
    BY <2>2, <2>3, <2>4, <2>5, BindStep
<1>11. CASE StartProperty
  <2>1. /\ scan = "scanning" /\ MoreToRun /\ UNCHANGED scanVars
        /\ pc' = "called" /\ property' = bound[offset + 1] /\ options' = query.options
    BY <1>11 DEF StartProperty, Call
  <2> QED
    BY <1>5, <2>1 DEF RunOfScan, scanVars, MoreToRun
<1>12. CASE RunProperty
  <2>1. RunnerStep /\ UNCHANGED scanVars
    BY <1>12 DEF RunProperty
  <2>2. /\ property' = property /\ options' = options /\ pc # "idle"
        /\ pc' = "returned" => result'.property = property
    BY <2>1, RunKeeps
  <2> QED
    BY <1>0, <1>5, <2>1, <2>2 DEF RunOfScan, scanVars, MoreToRun
<1>13. CASE EmitRow
  <2>1. /\ pc = "returned" /\ pc' = "idle"
        /\ offset' = offset + 1 /\ chunk' = Append(chunk, result)
        /\ UNCHANGED <<query, scan, bound, delivered, interrupted, replayOf>>
    BY <1>13 DEF EmitRow, Return
  <2>2. /\ scan = "scanning" /\ Len(chunk) < VectorSize /\ offset < Len(bound)
        /\ result.property = bound[offset + 1]
    BY <1>0, <2>1 DEF RunOfScan, MoreToRun
  <2>3. /\ chunk' \in Seq(Results) /\ Len(chunk') = Len(chunk) + 1
        /\ \A i \in 1..Len(chunk) : chunk'[i] = chunk[i]
        /\ chunk'[Len(chunk) + 1] = result
    BY <1>6, <1>7, <2>1
  <2>4. ScanTyped'
    <3>1. Len(chunk') <= VectorSize /\ offset' \in 0..Len(bound)
      BY <1>7, <2>1, <2>2, <2>3
    <3> QED
      BY <1>0, <2>1, <2>3, <3>1 DEF ScanTyped
  <2>5. /\ loaded /\ bound = Selected(query) /\ Len(delivered) + Len(chunk) = offset
        /\ \A i \in 1..Len(delivered) : delivered[i].property = bound[i]
        /\ \A i \in 1..Len(chunk) : chunk[i].property = bound[Len(delivered) + i]
    BY <1>0, <2>2 DEF RowsInOrder
  <2>6. loaded' /\ Selected(query)' = Selected(query)
    BY <1>3, <2>1, <2>5, SelectedStays
  <2>7. Len(delivered) + (Len(chunk) + 1) = offset + 1
    BY <1>7, <2>5
  <2>8. \A i \in 1..Len(chunk) + 1 : chunk'[i].property = bound[Len(delivered) + i]
    <3>1. \A i \in 1..Len(chunk) + 1 : i \in 1..Len(chunk) \/ i = Len(chunk) + 1
      BY <1>7
    <3> QED
      BY <2>2, <2>3, <2>5, <2>7, <3>1
  <2>9. RowsInOrder'
    BY <2>1, <2>2, <2>3, <2>5, <2>6, <2>7, <2>8 DEF RowsInOrder
  <2> QED
    BY <2>1, <2>4, <2>9 DEF RunOfScan
<1>14. ASSUME Abort, pc' = "idle"
       PROVE  ScanTyped' /\ RunOfScan' /\ RowsInOrder'
  <2>1. /\ scan' = "failed" /\ chunk' = <<>>
        /\ UNCHANGED <<query, bound, offset, delivered, interrupted, replayOf>>
    BY <1>14 DEF Abort
  <2>2. chunk' \in Seq(Results) /\ Len(chunk') <= VectorSize
    BY <1>7, <2>1
  <2>3. ScanTyped'
    BY <1>0, <2>1, <2>2 DEF ScanTyped
  <2> QED
    BY <1>14, <2>1, <2>3 DEF RunOfScan, RowsInOrder
<1>15. CASE PropertyThrew
  BY <1>14, <1>15 DEF PropertyThrew, Return
<1>16. CASE InterruptCheck
  BY <1>14, <1>16 DEF InterruptCheck, runnerVars
<1>17. CASE FlushChunk
  <2>1. /\ scan = "scanning" /\ pc' = "idle" /\ delivered' = delivered \o chunk /\ chunk' = <<>>
        /\ UNCHANGED <<query, scan, bound, offset, interrupted, replayOf>>
    BY <1>17 DEF FlushChunk, runnerVars
  <2>2. /\ delivered' \in Seq(Results) /\ Len(delivered') = Len(delivered) + Len(chunk)
        /\ \A i \in 1..Len(delivered) : delivered'[i] = delivered[i]
        /\ \A i \in 1..Len(chunk) : delivered'[Len(delivered) + i] = chunk[i]
    BY <1>7, <2>1
  <2>3. chunk' \in Seq(Results) /\ Len(chunk') = 0
    BY <2>1
  <2>4. ScanTyped'
    BY <1>0, <1>7, <2>1, <2>2, <2>3 DEF ScanTyped
  <2>5. /\ loaded /\ bound = Selected(query) /\ Len(delivered) + Len(chunk) = offset
        /\ \A i \in 1..Len(delivered) : delivered[i].property = bound[i]
        /\ \A i \in 1..Len(chunk) : chunk[i].property = bound[Len(delivered) + i]
    BY <1>0, <2>1 DEF RowsInOrder
  <2>6. loaded' /\ Selected(query)' = Selected(query)
    BY <1>3, <2>1, <2>5, SelectedStays
  <2>7. \A i \in 1..Len(delivered') : delivered'[i].property = bound[i]
    <3>1. ASSUME NEW i \in 1..Len(delivered')
          PROVE  i \in 1..Len(delivered) \/ \E j \in 1..Len(chunk) : i = Len(delivered) + j
      <4>1. i \in 1..Len(delivered) \/ (i - Len(delivered) \in 1..Len(chunk)
              /\ i = Len(delivered) + (i - Len(delivered)))
        BY <1>7, <2>2
      <4> QED
        BY <4>1
    <3> SUFFICES ASSUME NEW i \in 1..Len(delivered') PROVE delivered'[i].property = bound[i]
      OBVIOUS
    <3>2. CASE i \in 1..Len(delivered)
      BY <2>2, <2>5, <3>2
    <3>3. ASSUME NEW j \in 1..Len(chunk), i = Len(delivered) + j
          PROVE  delivered'[i].property = bound[i]
      BY <2>2, <2>5, <3>3
    <3> QED
      BY <3>1, <3>2, <3>3
  <2>8. RowsInOrder'
    <3>1. Len(delivered') + Len(chunk') = offset'
      BY <1>7, <2>1, <2>2, <2>3, <2>5
    <3>2. 1..Len(chunk') = {}
      BY <2>3
    <3>3. scan' = "scanning" /\ bound' = bound
      BY <2>1
    <3> QED
      BY <2>5, <2>6, <2>7, <3>1, <3>2, <3>3 DEF RowsInOrder
  <2> QED
    BY <2>1, <2>4, <2>8 DEF RunOfScan
<1>18. CASE EndScan
  <2>1. /\ scan = "scanning" /\ scan' = "finished" /\ pc' = "idle" /\ ~MoreToRun /\ chunk = <<>>
        /\ UNCHANGED <<query, bound, offset, chunk, delivered, interrupted, replayOf>>
    BY <1>18 DEF EndScan, runnerVars
  <2>2. offset = Len(bound)
    BY <1>7, <2>1, CheckAssumption DEF MoreToRun
  <2>3. ScanTyped'
    BY <1>0, <2>1 DEF ScanTyped
  <2>4. loaded' /\ Selected(query)' = Selected(query)
    BY <1>0, <1>3, <2>1, SelectedStays DEF RowsInOrder
  <2>5. RowsInOrder'
    BY <1>0, <2>1, <2>2, <2>4 DEF RowsInOrder
  <2> QED
    BY <2>1, <2>3, <2>5 DEF RunOfScan
<1>19. CASE Interrupt
  <2>1. /\ interrupted' = TRUE /\ UNCHANGED runnerVars
        /\ UNCHANGED <<query, scan, bound, offset, chunk, delivered, replayOf>>
    BY <1>19 DEF Interrupt
  <2>2. ScanTyped' /\ RowsInOrder'
    BY <1>4, <2>1
  <2> QED
    BY <1>0, <2>1, <2>2 DEF RunOfScan, runnerVars, MoreToRun
<1>20. CASE UNCHANGED vars
  <2>1. UNCHANGED runnerVars /\ UNCHANGED scanVars
    BY <1>20 DEF vars
  <2> QED
    BY <1>0, <1>5, <2>1 DEF RunOfScan, runnerVars, scanVars, MoreToRun
<1> QED
  BY <1>8, <1>9, <1>10, <1>11, <1>12, <1>13, <1>15, <1>16, <1>17, <1>18, <1>19, <1>20 DEF Next

\* The invariant of the scan holds throughout.
THEOREM ScanInvHolds == Spec => []ScanInv
BY ScanInit, ScanStep, PTL DEF Spec

\* Every variable of fuzzing_check() keeps its type (FuzzingCheckBind and
\* FuzzingCheckFunction with RunProperty below them).
THEOREM TypesHold == Spec => []TypeOK
<1>1. ScanInv => TypeOK
  BY DEF ScanInv, RunnerInv, RegistryInv, RegistryTyped, ScanTyped, TypeOK
<1> QED
  BY <1>1, ScanInvHolds, PTL

\* Once the extension is loaded every property of every file is registered once,
\* next to its neighbours in the file, whatever the linker drops and whatever the order of the units.
THEOREM RegistryIsComplete == Spec => []RegistryComplete
<1>1. ScanInv => RegistryComplete
  BY CompleteHolds DEF ScanInv
<1> QED
  BY <1>1, ScanInvHolds, PTL

\* RunProperty backs its verdicts also where fuzzing_check() calls it.
THEOREM CheckVerdictsBacked == Spec => []VerdictBacked
<1>1. ScanInv => VerdictBacked
  BY DEF ScanInv, RunnerInv
<1> QED
  BY <1>1, ScanInvHolds, PTL

\* An injective sequence has as many elements as positions.
LEMMA InjectiveLength ==
    ASSUME NEW T, NEW s \in Seq(T), IsInjective(s)
    PROVE  IsFiniteSet(ToSet(s)) /\ Cardinality(ToSet(s)) = Len(s)
<1>1. Len(s) \in Nat /\ DOMAIN s = 1..Len(s)
  OBVIOUS
<1> DEFINE f == [i \in 1..Len(s) |-> s[i]]
<1>2. f \in Bijection(1..Len(s), ToSet(s))
  BY <1>1 DEF Bijection, Injection, Surjection, ToSet, IsInjective
<1>3. IsFiniteSet(1..Len(s)) /\ Cardinality(1..Len(s)) = Len(s)
  BY <1>1, FS_Interval
<1>4. ExistsBijection(1..Len(s), ToSet(s))
  BY <1>2 DEF ExistsBijection
<1> QED
  BY <1>3, <1>4, FS_Bijection

\* What the invariant says of the rows of a query.
LEMMA OneRowInv == ScanInv => OneRowEach
<1>1. ASSUME ScanInv PROVE OneRowEach
  <2>1. RegistryInv /\ ScanTyped /\ RowsInOrder
    BY <1>1 DEF ScanInv
  <2>2. /\ chunk \in Seq(Results) /\ delivered \in Seq(Results) /\ bound \in Seq(Properties)
        /\ Len(chunk) \in Nat /\ Len(delivered) \in Nat /\ offset \in Nat
    BY <2>1 DEF ScanTyped
  <2>3. ASSUME scan \in {"scanning", "finished"}
        PROVE  Len(Rows) = offset /\ \A i \in 1..offset : Rows[i].property = bound[i]
    <3>1. /\ Len(delivered) + Len(chunk) = offset
          /\ \A i \in 1..Len(delivered) : delivered[i].property = bound[i]
          /\ \A i \in 1..Len(chunk) : chunk[i].property = bound[Len(delivered) + i]
      BY <2>1, <2>3 DEF RowsInOrder
    <3>2. /\ Len(Rows) = Len(delivered) + Len(chunk)
          /\ \A i \in 1..Len(delivered) : Rows[i] = delivered[i]
          /\ \A i \in 1..Len(chunk) : Rows[Len(delivered) + i] = chunk[i]
      BY <2>2 DEF Rows
    <3>3. ASSUME NEW i \in 1..offset
          PROVE  i \in 1..Len(delivered) \/ \E j \in 1..Len(chunk) : i = Len(delivered) + j
      <4>1. i \in 1..Len(delivered) \/ (i - Len(delivered) \in 1..Len(chunk)
              /\ i = Len(delivered) + (i - Len(delivered)))
        BY <2>2, <3>1
      <4> QED
        BY <4>1
    <3>4. ASSUME NEW i \in 1..offset
          PROVE  Rows[i].property = bound[i]
      <4>1. CASE i \in 1..Len(delivered)
        BY <3>1, <3>2, <4>1
      <4>2. ASSUME NEW j \in 1..Len(chunk), i = Len(delivered) + j
            PROVE  Rows[i].property = bound[i]
        BY <3>1, <3>2, <4>2
      <4> QED
        BY <3>3, <4>1, <4>2
    <3> QED
      BY <3>1, <3>2, <3>4
  <2>4. ASSUME scan = "finished"
        PROVE  /\ {r.property : r \in ToSet(delivered)} = {p \in Properties : Matches(query, p)}
               /\ Len(delivered) = Cardinality({p \in Properties : Matches(query, p)})
    <3>1. /\ loaded /\ bound = Selected(query) /\ Len(delivered) = Len(bound)
          /\ \A i \in 1..Len(delivered) : delivered[i].property = bound[i]
      <4>1. Len(delivered) + Len(chunk) = offset /\ offset = Len(bound) /\ chunk = <<>>
        BY <2>1, <2>4 DEF RowsInOrder
      <4>2. Len(delivered) = Len(bound)
        BY <2>2, <4>1
      <4> QED
        BY <2>1, <2>4, <4>2 DEF RowsInOrder
    <3>2. registry \in Seq(Properties) /\ IsInjective(registry) /\ ToSet(registry) = Properties
      BY <2>1, <3>1, LoadedRegistry
    <3>3. ToSet(bound) = {p \in Properties : Matches(query, p)} /\ IsInjective(bound)
      BY <3>1, <3>2, SelectedIs
    <3>4. {r.property : r \in ToSet(delivered)} = ToSet(bound)
      <4>1. DOMAIN delivered = 1..Len(delivered) /\ DOMAIN bound = 1..Len(delivered)
        BY <2>2, <3>1
      <4> QED
        BY <3>1, <4>1 DEF ToSet
    <3>5. Cardinality(ToSet(bound)) = Len(bound)
      BY <2>2, <3>3, InjectiveLength
    <3> QED
      BY <3>1, <3>3, <3>4, <3>5
  <2> QED
    BY <2>3, <2>4 DEF OneRowEach
<1> QED
  BY <1>1

\* Across chunks the rows of a query are those of the selected properties, one each
\* and in order, and a query that finishes has delivered all of them (FuzzingCheckFunction).
THEOREM OneRowForEach == Spec => []OneRowEach
BY OneRowInv, ScanInvHolds, PTL

-----------------------------------------------------------------------------
\* The cases among the first n of a tape that passed, and those that were discarded.
Passed(t, n) == Cardinality({i \in 1..n : t[i].kind = "success"})
Discarded(t, n) == Cardinality({i \in 1..n : t[i].kind = "discard"})

\* A search for k passing cases that allows that many discards has gone past n cases.
WentOn(t, k, allowed, n) ==
    /\ n <= Len(t)
    /\ \A m \in 0..n - 1 :
          Passed(t, m) < k /\ t[m + 1].kind # "failure" /\ Discarded(t, m + 1) <= allowed

\* After n cases the search ended, and the row says how.
Held(t, k, n, row) ==
    /\ Passed(t, n) >= k
    /\ row.shrinks = 0
    /\ row.status = IF row.property.expectation = "known_fail" THEN "fixed" ELSE "pass"

Fell(t, k, n, row) ==
    /\ Passed(t, n) < k
    /\ n < Len(t)
    /\ t[n + 1].kind = "failure"
    /\ row.shrinks = IF row.reproduce.noshrink THEN 0 ELSE t[n + 1].shrinks
    /\ row.status = IF row.property.expectation = "known_fail" THEN "known_fail" ELSE "fail"

GaveUp(t, k, allowed, n, row) ==
    /\ Passed(t, n) < k
    /\ n < Len(t)
    /\ t[n + 1].kind = "discard"
    /\ Discarded(t, n + 1) > allowed
    /\ row.shrinks = 0
    /\ row.status = "gave_up"

EndedAt(t, k, allowed, n, row) ==
    /\ WentOn(t, k, allowed, n)
    /\ row.cases = Passed(t, n)
    /\ Held(t, k, n, row) \/ Fell(t, k, n, row) \/ GaveUp(t, k, allowed, n, row)

\* A later tape of the same key.
Extends(u, t) == Len(t) <= Len(u) /\ \A i \in 1..Len(t) : u[i] = t[i]

RowKey(row) ==
    [property |-> row.property, seed |-> row.reproduce.seed,
     maxSuccess |-> row.reproduce.max_success, maxSize |-> row.reproduce.max_size]

\* What RapidCheck decided about the row can be read off the tape of its key.
Backed(row, ratio, tapes) ==
    Searched(row) =>
        \E n \in Nat : EndedAt(tapes[RowKey(row)], row.reproduce.max_success,
                               ratio * row.reproduce.max_success, n, row)

\* The reproduction of the row follows the options of its run.
Follows(row, o) ==
    /\ row.reproduce.max_success = IF row.property.deterministic THEN 1 ELSE o.max_success
    /\ row.reproduce.max_size = o.max_size
    /\ row.reproduce.noshrink = o.no_shrink
    /\ o.seed # 0 => row.reproduce.seed = o.seed

\* Of no cases none passed.
LEMMA CountZero == ASSUME NEW t PROVE Passed(t, 0) = 0 /\ Discarded(t, 0) = 0
<1>1. {i \in 1..0 : t[i].kind = "success"} = {} /\ {i \in 1..0 : t[i].kind = "discard"} = {}
  OBVIOUS
<1> QED
  BY <1>1, FS_EmptySet DEF Passed, Discarded

\* Counts are numbers.
LEMMA CountType == ASSUME NEW t, NEW n \in Nat PROVE Passed(t, n) \in Nat /\ Discarded(t, n) \in Nat
<1>1. IsFiniteSet(1..n)
  BY FS_Interval
<1>2. ASSUME NEW T \in SUBSET (1..n) PROVE IsFiniteSet(T) /\ Cardinality(T) \in Nat
  BY <1>1, FS_Subset, FS_CardinalityType
<1> QED
  BY <1>2 DEF Passed, Discarded

\* One more case counts if it is of the kind counted.
LEMMA CountNext ==
    ASSUME NEW t, NEW n \in Nat
    PROVE  /\ Passed(t, n + 1) = IF t[n + 1].kind = "success" THEN Passed(t, n) + 1 ELSE Passed(t, n)
           /\ Discarded(t, n + 1) = IF t[n + 1].kind = "discard" THEN Discarded(t, n) + 1
                ELSE Discarded(t, n)
<1> DEFINE Those(m, kind) == {i \in 1..m : t[i].kind = kind}
<1>1. \A kind : IsFiniteSet(Those(n, kind))
  <2>1. IsFiniteSet(1..n)
    BY FS_Interval
  <2> QED
    BY <2>1, FS_Subset
<1>2. \A i \in 1..n + 1 : i \in 1..n \/ i = n + 1
  OBVIOUS
<1>3. ASSUME NEW kind
      PROVE  Cardinality(Those(n + 1, kind)) =
             IF t[n + 1].kind = kind THEN Cardinality(Those(n, kind)) + 1 ELSE Cardinality(Those(n,
               kind))
  <2>1. CASE t[n + 1].kind = kind
    <3>1. Those(n + 1, kind) = Those(n, kind) \cup {n + 1}
      BY <1>2, <2>1
    <3>2. n + 1 \notin Those(n, kind)
      OBVIOUS
    <3> HIDE DEF Those
    <3> QED
      BY <1>1, <2>1, <3>1, <3>2, FS_AddElement
  <2>2. CASE t[n + 1].kind # kind
    <3>1. Those(n + 1, kind) = Those(n, kind)
      BY <1>2, <2>2
    <3> HIDE DEF Those
    <3> QED
      BY <2>2, <3>1
  <2> QED
    BY <2>1, <2>2
<1>4. /\ Passed(t, n) = Cardinality(Those(n, "success")) /\ Passed(t,
           n + 1) = Cardinality(Those(n + 1, "success"))
      /\ Discarded(t, n) = Cardinality(Those(n, "discard")) /\ Discarded(t,
           n + 1) = Cardinality(Those(n + 1, "discard"))
  BY DEF Passed, Discarded
<1> HIDE DEF Those
<1> QED
  BY <1>3, <1>4

\* Tapes that agree on n cases have the same counts.
LEMMA CountSame ==
    ASSUME NEW t, NEW u, NEW n \in Nat, \A i \in 1..n : u[i] = t[i]
    PROVE  Passed(u, n) = Passed(t, n) /\ Discarded(u, n) = Discarded(t, n)
<1>1. /\ {i \in 1..n : u[i].kind = "success"} = {i \in 1..n : t[i].kind = "success"}
      /\ {i \in 1..n : u[i].kind = "discard"} = {i \in 1..n : t[i].kind = "discard"}
  OBVIOUS
<1> QED
  BY <1>1 DEF Passed, Discarded

\* A tape that grows tells the same about the cases it already had.
LEMMA WentOnStays ==
    ASSUME NEW t, NEW u, NEW k, NEW allowed, NEW n \in Nat,
           Len(t) \in Nat, Len(u) \in Nat, Extends(u, t), WentOn(t, k, allowed, n)
    PROVE  WentOn(u, k, allowed, n) /\ Passed(u, n) = Passed(t, n) /\ Discarded(u, n) = Discarded(t, n)
<1>1. n <= Len(t) /\ Len(t) <= Len(u) /\ \A i \in 1..Len(t) : u[i] = t[i]
  BY DEF WentOn, Extends
<1>2. ASSUME NEW m \in Nat, m <= Len(t)
      PROVE  Passed(u, m) = Passed(t, m) /\ Discarded(u, m) = Discarded(t, m)
  <2>1. \A i \in 1..m : i \in 1..Len(t)
    BY <1>2
  <2> QED
    BY <1>1, <2>1, CountSame
<1>3. ASSUME NEW m \in 0..n - 1
      PROVE  Passed(u, m) < k /\ u[m + 1].kind # "failure" /\ Discarded(u, m + 1) <= allowed
  <2>1. m \in Nat /\ m + 1 \in Nat /\ m <= Len(t) /\ m + 1 <= Len(t) /\ m + 1 \in 1..Len(t)
    BY <1>1
  <2>2. Passed(t, m) < k /\ t[m + 1].kind # "failure" /\ Discarded(t, m + 1) <= allowed
    BY DEF WentOn
  <2> QED
    BY <1>1, <1>2, <2>1, <2>2
<1>4. n <= Len(u)
  BY <1>1
<1>5. Passed(u, n) = Passed(t, n) /\ Discarded(u, n) = Discarded(t, n)
  BY <1>1, <1>2
<1> QED
  BY <1>3, <1>4, <1>5 DEF WentOn

\* How a search ended can still be read off a tape that has grown.
LEMMA EndedAtStays ==
    ASSUME NEW t, NEW u, NEW k, NEW allowed, NEW n \in Nat, NEW row,
           Len(t) \in Nat, Len(u) \in Nat, Extends(u, t), EndedAt(t, k, allowed, n, row)
    PROVE  EndedAt(u, k, allowed, n, row)
<1>1. WentOn(t, k, allowed, n)
  BY DEF EndedAt
<1>2. WentOn(u, k, allowed, n) /\ Passed(u, n) = Passed(t, n)
  BY <1>1, WentOnStays
<1>3. Len(t) <= Len(u) /\ \A i \in 1..Len(t) : u[i] = t[i]
  BY DEF Extends
<1>4. ASSUME n < Len(t)
      PROVE  n < Len(u) /\ u[n + 1] = t[n + 1] /\ Discarded(u, n + 1) = Discarded(t, n + 1)
  <2>1. n < Len(u) /\ n + 1 \in 1..Len(t) /\ \A i \in 1..n + 1 : i \in 1..Len(t)
    BY <1>3, <1>4
  <2> QED
    BY <1>3, <2>1, CountSame
<1>5. Held(t, k, n, row) => Held(u, k, n, row)
  BY <1>2 DEF Held
<1>6. Fell(t, k, n, row) => Fell(u, k, n, row)
  BY <1>2, <1>4 DEF Fell
<1>7. GaveUp(t, k, allowed, n, row) => GaveUp(u, k, allowed, n, row)
  BY <1>2, <1>4 DEF GaveUp
<1> QED
  BY <1>2, <1>5, <1>6, <1>7 DEF EndedAt

\* A search does not go on after a case that ends it.
LEMMA NotPast ==
    ASSUME NEW t, NEW k \in Nat, NEW allowed \in Nat, NEW n \in Nat, NEW m \in Nat, NEW row,
           EndedAt(t, k, allowed, m, row), WentOn(t, k, allowed, n)
    PROVE  n <= m
<1> SUFFICES ASSUME m < n PROVE FALSE
  OBVIOUS
<1>1. m \in 0..n - 1
  OBVIOUS
<1>2. Passed(t, m) < k /\ t[m + 1].kind # "failure" /\ Discarded(t, m + 1) <= allowed
  BY <1>1 DEF WentOn
<1>3. Passed(t, m) \in Nat /\ Discarded(t, m + 1) \in Nat
  BY CountType
<1> QED
  BY <1>2, <1>3 DEF EndedAt, Held, Fell, GaveUp

\* One tape, one end: two rows of the same property read off the same tape agree.
LEMMA EndIsUnique ==
    ASSUME NEW t, NEW k \in Nat, NEW allowed \in Nat, NEW n \in Nat, NEW m \in Nat, NEW row, NEW other,
           EndedAt(t, k, allowed, n, row), EndedAt(t, k, allowed, m, other),
           row.property = other.property, row.reproduce.noshrink = other.reproduce.noshrink
    PROVE  SameRun(other, row)
<1>1. n = m
  <2>1. n <= m /\ m <= n
    BY NotPast DEF EndedAt
  <2> QED
    BY <2>1
<1>2. Passed(t, n) \in Nat
  BY CountType
<1>3. other.cases = row.cases
  BY <1>1 DEF EndedAt
<1>4. CASE Held(t, k, n, row)
  BY <1>1, <1>2, <1>3, <1>4 DEF EndedAt, Held, Fell, GaveUp, SameRun
<1>5. CASE Fell(t, k, n, row)
  BY <1>1, <1>2, <1>3, <1>5 DEF EndedAt, Held, Fell, GaveUp, SameRun
<1>6. CASE GaveUp(t, k, allowed, n, row)
  BY <1>1, <1>2, <1>3, <1>6 DEF EndedAt, Held, Fell, GaveUp, SameRun
<1> QED
  BY <1>4, <1>5, <1>6 DEF EndedAt

-----------------------------------------------------------------------------
\* The parameters of a run follow its options.
ParamsOfOptions ==
    pc \in {"open", "search", "returned"} =>
        /\ params.maxSize = options.max_size
        /\ params.disableShrinking = options.no_shrink
        /\ options.seed # 0 => params.seed = options.seed

\* The counters are the counts on the tape, and nothing before ended the search.
SearchOnTape ==
    pc = "search" =>
        /\ WentOn(tape[Key], params.maxSuccess, MaxDiscard, Attempts)
        /\ numSuccess = Passed(tape[Key], Attempts)
        /\ numDiscarded = Discarded(tape[Key], Attempts)

ResultOnTape ==
    pc = "returned" =>
        Backed(result, options.max_discard_ratio, tape) /\ Follows(result, options)

TapeInv == ParamsOfOptions /\ SearchOnTape /\ ResultOnTape

\* Tapes only grow.
LEMMA TapesGrow ==
    ASSUME RunnerTypeOK, [RunnerNext]_runnerVars
    PROVE  \A key \in Keys : Extends(tape'[key], tape[key])
<1>1. ASSUME tape' = tape
      PROVE  \A key \in Keys : Extends(tape'[key], tape[key])
  <2>1. \A key \in Keys : Len(tape[key]) \in Nat
    BY DEF RunnerTypeOK
  <2> QED
    BY <1>1, <2>1 DEF Extends
<1>2. ASSUME NEW o \in Outcomes, Generate(o)
      PROVE  \A key \in Keys : Extends(tape'[key], tape[key])
  <2>1. CASE Attempts < Len(tape[Key])
    BY <1>1, <1>2, <2>1 DEF Generate
  <2>2. CASE ~(Attempts < Len(tape[Key]))
    <3>1. tape \in [Keys -> Seq(Outcomes)] /\ Key \in Keys
      BY KeyType DEF RunnerTypeOK
    <3>2. tape' = [tape EXCEPT ![Key] = Append(@, o)]
      BY <1>2, <2>2 DEF Generate
    <3> SUFFICES ASSUME NEW key \in Keys PROVE Extends(tape'[key], tape[key])
      OBVIOUS
    <3> DEFINE t == tape[key]
    <3>3. t \in Seq(Outcomes) /\ (tape'[key] = t \/ tape'[key] = Append(t, o))
      BY <3>1, <3>2
    <3> HIDE DEF t
    <3>4. Extends(t, t) /\ Extends(Append(t, o), t)
      BY <3>3 DEF Extends
    <3> QED
      BY <3>3, <3>4 DEF t
  <2> QED
    BY <2>1, <2>2
<1>3. CASE UNCHANGED runnerVars
  BY <1>1, <1>3 DEF runnerVars
<1>4. CASE PrepareThrows \/ Prepare \/ SkipProperty \/ StartSearch \/ Succeed \/ EngineError
        \/ UncaughtException \/ Return
  BY <1>1, <1>4 DEF PrepareThrows, Prepare, SkipProperty, StartSearch, Succeed, EngineError,
                    UncaughtException, Return
<1>5. ASSUME NEW p \in Properties, NEW o \in Options, Call(p, o)
      PROVE  \A key \in Keys : Extends(tape'[key], tape[key])
  BY <1>1, <1>5 DEF Call
<1>6. ASSUME NEW o \in Outcomes, CaseSucceeds(o) \/ CaseDiscarded(o) \/ GiveUp(o) \/ CaseFails(o)
      PROVE  \A key \in Keys : Extends(tape'[key], tape[key])
  BY <1>2, <1>6 DEF CaseSucceeds, CaseDiscarded, GiveUp, CaseFails
<1> QED
  BY <1>3, <1>4, <1>5, <1>6 DEF RunnerNext, RunnerStep

\* The reproduction of a row names a tape.
LEMMA RowKeyType == ASSUME NEW row \in Results PROVE RowKey(row) \in Keys
<1>1. row.property \in Properties /\ row.reproduce \in Reproduces
  BY DEF Results
<1> QED
  BY <1>1 DEF RowKey, Keys, Reproduces

\* A row that is backed stays backed while other runs go on.
LEMMA BackedStays ==
    ASSUME RunnerTypeOK, [RunnerNext]_runnerVars, RunnerTypeOK',
           NEW row \in Results, NEW ratio, Backed(row, ratio, tape)
    PROVE  Backed(row, ratio, tape')
<1> SUFFICES ASSUME Searched(row)
             PROVE  \E n \in Nat : EndedAt(tape'[RowKey(row)], row.reproduce.max_success,
                                           ratio * row.reproduce.max_success, n, row)
  BY DEF Backed
<1>1. PICK n \in Nat : EndedAt(tape[RowKey(row)], row.reproduce.max_success,
                               ratio * row.reproduce.max_success, n, row)
  BY DEF Backed
<1>2. RowKey(row) \in Keys
  BY RowKeyType
<1>3. Extends(tape'[RowKey(row)], tape[RowKey(row)])
  BY <1>2, TapesGrow
<1>4. Len(tape[RowKey(row)]) \in Nat /\ Len(tape'[RowKey(row)]) \in Nat
  BY <1>2 DEF RunnerTypeOK
<1> QED
  BY <1>1, <1>3, <1>4, EndedAtStays

\* What is on the tape once a case has been generated.
LEMMA GeneratedOnTape ==
    ASSUME RunnerInv, SearchOnTape, NEW o \in Outcomes, Generate(o)
    PROVE  LET t == tape'[Key] IN
           /\ t \in Seq(Outcomes)
           /\ WentOn(t, params.maxSuccess, MaxDiscard, Attempts)
           /\ numSuccess = Passed(t, Attempts)
           /\ numDiscarded = Discarded(t, Attempts)
           /\ Attempts \in Nat /\ Attempts < Len(t)
           /\ t[Attempts + 1] = o
           /\ Passed(t, Attempts + 1) = IF o.kind = "success" THEN numSuccess + 1 ELSE numSuccess
           /\ Discarded(t, Attempts + 1) = IF o.kind = "discard" THEN numDiscarded + 1 ELSE numDiscarded
<1> DEFINE t == tape[Key]
           u == tape'[Key]
<1>1. RunnerTypeOK /\ SearchSound /\ pc = "search"
  BY DEF RunnerInv, Generate
<1>2. Attempts \in Nat /\ Attempts <= Len(t) /\ t \in Seq(Outcomes) /\ Len(t) \in Nat
  BY <1>1, KeyType, Numbers DEF SearchSound, RunnerTypeOK
<1>3. /\ u \in Seq(Outcomes) /\ Attempts + 1 <= Len(u) /\ u[Attempts + 1] = o
      /\ \A i \in 1..Attempts : u[i] = t[i]
  BY <1>1, <1>2, GenerateExtends
<1>4. Len(u) \in Nat
  BY <1>3
<1>5. /\ WentOn(t, params.maxSuccess, MaxDiscard, Attempts)
      /\ numSuccess = Passed(t, Attempts) /\ numDiscarded = Discarded(t, Attempts)
  BY <1>1 DEF SearchOnTape
<1>6. Extends(u, t)
  <2>1. CASE Attempts < Len(t)
    <3>1. u = t
      BY <2>1 DEF Generate
    <3> QED
      BY <1>2, <3>1 DEF Extends
  <2>2. CASE ~(Attempts < Len(t))
    <3>1. Attempts = Len(t)
      BY <1>2, <2>2
    <3> QED
      BY <1>2, <1>3, <1>4, <3>1 DEF Extends
  <2> QED
    BY <2>1, <2>2
<1> HIDE DEF t, u
<1>7. /\ WentOn(u, params.maxSuccess, MaxDiscard, Attempts)
      /\ Passed(u, Attempts) = numSuccess /\ Discarded(u, Attempts) = numDiscarded
  BY <1>2, <1>4, <1>5, <1>6, WentOnStays
<1>8. Attempts < Len(u)
  BY <1>2, <1>3, <1>4
<1>9. /\ Passed(u, Attempts + 1) = IF o.kind = "success" THEN numSuccess + 1 ELSE numSuccess
      /\ Discarded(u, Attempts + 1) = IF o.kind = "discard" THEN numDiscarded + 1 ELSE numDiscarded
  BY <1>2, <1>3, <1>7, CountNext
<1> QED
  BY <1>2, <1>3, <1>7, <1>8, <1>9 DEF u

\* One more case that does not end the search.
LEMMA WentOnNext ==
    ASSUME NEW t, NEW k, NEW allowed, NEW n \in Nat, WentOn(t, k, allowed, n),
           Len(t) \in Nat, n < Len(t), Passed(t, n) < k, t[n + 1].kind # "failure", Discarded(t,
             n + 1) <= allowed
    PROVE  WentOn(t, k, allowed, n + 1)
<1>1. \A m \in 0..(n + 1) - 1 : m \in 0..n - 1 \/ m = n
  OBVIOUS
<1> QED
  BY <1>1 DEF WentOn

\* A reported row has the key of the run and follows its options.
LEMMA ReportedRow ==
    ASSUME ParamsFollowOptions, ParamsOfOptions, pc \in {"open", "search"},
           NEW s, NEW d, NEW c, NEW k, Report(s, d, c, k)
    PROVE  /\ pc' = "returned" /\ UNCHANGED <<property, options, params>>
           /\ result'.status = s /\ result'.description = d /\ result'.cases = c /\ result'.shrinks = k
           /\ result'.property = property
           /\ result'.reproduce.max_success = params.maxSuccess
           /\ result'.reproduce.noshrink = params.disableShrinking
           /\ RowKey(result') = Key
           /\ options.max_discard_ratio * params.maxSuccess = MaxDiscard
           /\ Follows(result', options')
<1>1. /\ pc' = "returned" /\ UNCHANGED <<property, options, params>>
      /\ result' = [property |-> property, status |-> s, cases |-> c, shrinks |-> k,
                    description |-> d, reproduce |-> FormatReproduce(params)]
  BY DEF Report
<1>2. /\ result'.property = property /\ result'.reproduce = FormatReproduce(params)
      /\ result'.status = s /\ result'.description = d /\ result'.cases = c /\ result'.shrinks = k
  BY <1>1
<1>3. /\ result'.reproduce.max_success = params.maxSuccess
           /\ result'.reproduce.noshrink = params.disableShrinking
      /\ result'.reproduce.max_size = params.maxSize /\ result'.reproduce.seed = params.seed
  BY <1>2 DEF FormatReproduce
<1>4. RowKey(result') = Key
  BY <1>2, <1>3 DEF RowKey, Key
<1>5. options.max_discard_ratio * params.maxSuccess = MaxDiscard
  BY DEF ParamsFollowOptions, MaxDiscard
<1>6. Follows(result', options')
  BY <1>1, <1>2, <1>3 DEF Follows, ParamsFollowOptions, ParamsOfOptions
<1> QED
  BY <1>1, <1>2, <1>3, <1>4, <1>5, <1>6

-----------------------------------------------------------------------------
\* Nothing has been searched at first.
LEMMA TapeInvInit == RunnerInit => TapeInv
BY DEF RunnerInit, TapeInv, ParamsOfOptions, SearchOnTape, ResultOnTape

\* A row that claims nothing about the search is backed.
LEMMA NotSearched ==
    ASSUME ParamsFollowOptions, ParamsOfOptions, pc \in {"open", "search"},
           NEW s, NEW d, NEW c, NEW k, Report(s, d, c, k),
           d \notin {"", "fixed upstream", "falsified", "gave up"}
    PROVE  TapeInv'
<1>1. /\ pc' = "returned" /\ UNCHANGED <<property, options, params>>
      /\ result'.description = d /\ Follows(result', options')
  BY ReportedRow
<1>2. Backed(result', options'.max_discard_ratio, tape')
  BY <1>1 DEF Backed, Searched
<1>3. ParamsOfOptions'
  BY <1>1 DEF ParamsOfOptions
<1> QED
  BY <1>1, <1>2, <1>3 DEF TapeInv, SearchOnTape, ResultOnTape

\* A row that says how the search ended is backed.
LEMMA EndReported ==
    ASSUME ParamsFollowOptions, ParamsOfOptions, pc \in {"open", "search"},
           NEW s, NEW d, NEW c, NEW k, Report(s, d, c, k),
           NEW n \in Nat, EndedAt(tape'[Key], params.maxSuccess, MaxDiscard, n, result')
    PROVE  TapeInv'
<1>1. /\ pc' = "returned" /\ UNCHANGED <<property, options, params>>
      /\ result'.reproduce.max_success = params.maxSuccess
      /\ RowKey(result') = Key /\ Follows(result', options')
      /\ options.max_discard_ratio * params.maxSuccess = MaxDiscard
  BY ReportedRow
<1>2. Backed(result', options'.max_discard_ratio, tape')
  <2>1. options'.max_discard_ratio * result'.reproduce.max_success = MaxDiscard
    BY <1>1
  <2>2. EndedAt(tape'[RowKey(result')], result'.reproduce.max_success,
                options'.max_discard_ratio * result'.reproduce.max_success, n, result')
    BY <1>1, <2>1
  <2> QED
    BY <2>2 DEF Backed
<1>3. ParamsOfOptions'
  BY <1>1 DEF ParamsOfOptions
<1> QED
  BY <1>1, <1>2, <1>3 DEF TapeInv, SearchOnTape, ResultOnTape

\* Every step of RunProperty and of RapidCheck keeps counters, tape and result together.
LEMMA TapeInvStep == RunnerInv /\ TapeInv /\ [RunnerNext]_runnerVars => TapeInv'
<1> SUFFICES ASSUME RunnerInv, TapeInv, [RunnerNext]_runnerVars PROVE TapeInv'
  OBVIOUS
<1>0. /\ RunnerTypeOK /\ ParamsFollowOptions /\ CountersStart /\ SearchSound
      /\ ParamsOfOptions /\ SearchOnTape /\ ResultOnTape
  BY DEF RunnerInv, TapeInv
<1>1. ASSUME NEW p \in Properties, NEW o \in Options, Call(p, o)
      PROVE  TapeInv'
  BY <1>1 DEF Call, TapeInv, ParamsOfOptions, SearchOnTape, ResultOnTape
<1>2. CASE PrepareThrows
  BY <1>2 DEF PrepareThrows, TapeInv, ParamsOfOptions, SearchOnTape, ResultOnTape
<1>3. CASE Prepare
  <2>1. pc' = "open" /\ options' = options
    BY <1>3 DEF Prepare
  <2>2. PICK seed \in IF options.seed = 0 THEN Seeds ELSE {options.seed} :
           params' = [seed |-> seed,
                      maxSuccess |-> IF property.deterministic THEN 1 ELSE options.max_success,
                      maxSize |-> options.max_size,
                      maxDiscardRatio |-> options.max_discard_ratio,
                      disableShrinking |-> options.no_shrink]
    BY <1>3 DEF Prepare
  <2>3. params'.maxSize = options.max_size /\ params'.disableShrinking = options.no_shrink
          /\ params'.seed = seed
    BY <2>2
  <2>4. ParamsOfOptions'
    BY <2>1, <2>3 DEF ParamsOfOptions
  <2> QED
    BY <2>1, <2>4 DEF TapeInv, SearchOnTape, ResultOnTape
<1>4. CASE SkipProperty
  BY <1>0, <1>4, NotSearched DEF SkipProperty
<1>5. CASE StartSearch
  <2>1. /\ pc = "open" /\ pc' = "search"
        /\ UNCHANGED <<property, options, params, numSuccess, numDiscarded, tape>>
    BY <1>5 DEF StartSearch
  <2>2. numSuccess = 0 /\ numDiscarded = 0 /\ Attempts = 0
    BY <1>0, <2>1 DEF CountersStart, Attempts
  <2>3. Key' = Key /\ Attempts' = 0 /\ MaxDiscard' = MaxDiscard
    BY <2>1, <2>2 DEF Key, Attempts, MaxDiscard
  <2>4. Len(tape[Key]) \in Nat
    BY <1>0, KeyType DEF RunnerTypeOK
  <2>5. WentOn(tape[Key], params.maxSuccess, MaxDiscard, 0)
    BY <2>4 DEF WentOn
  <2>6. SearchOnTape'
    BY <2>1, <2>2, <2>3, <2>5, CountZero DEF SearchOnTape
  <2>7. ParamsOfOptions'
    BY <1>0, <2>1 DEF ParamsOfOptions
  <2> QED
    BY <2>1, <2>6, <2>7 DEF TapeInv, ResultOnTape
<1>6. ASSUME NEW o \in Outcomes, CaseSucceeds(o) \/ CaseDiscarded(o)
      PROVE  TapeInv'
  <2> DEFINE t == tape'[Key]
  <2>1. /\ Generate(o) /\ pc = "search" /\ pc' = "search" /\ UNCHANGED <<property, options, params>>
        /\ o.kind \in {"success", "discard"}
        /\ numSuccess < params.maxSuccess
    BY <1>6 DEF CaseSucceeds, CaseDiscarded, Generate
  <2>2. /\ t \in Seq(Outcomes)
        /\ WentOn(t, params.maxSuccess, MaxDiscard, Attempts)
        /\ numSuccess = Passed(t, Attempts)
        /\ Attempts \in Nat /\ Attempts < Len(t)
        /\ t[Attempts + 1] = o
        /\ Passed(t, Attempts + 1) = IF o.kind = "success" THEN numSuccess + 1 ELSE numSuccess
        /\ Discarded(t, Attempts + 1) = IF o.kind = "discard" THEN numDiscarded + 1 ELSE numDiscarded
    BY <1>0, <2>1, GeneratedOnTape
  <2>3. /\ numSuccess' = IF o.kind = "success" THEN numSuccess + 1 ELSE numSuccess
        /\ numDiscarded' = IF o.kind = "discard" THEN numDiscarded + 1 ELSE numDiscarded
        /\ o.kind = "discard" => numDiscarded < MaxDiscard
    BY <1>6 DEF CaseSucceeds, CaseDiscarded
  <2>4. /\ numSuccess \in Nat /\ numDiscarded \in Nat /\ MaxDiscard \in Nat /\ params.maxSuccess \in Nat
        /\ numDiscarded <= MaxDiscard
    BY <1>0, <2>1, Numbers DEF SearchSound
  <2>5. Attempts' = Attempts + 1 /\ Key' = Key /\ MaxDiscard' = MaxDiscard
    <3>1. numSuccess' + numDiscarded' = (numSuccess + numDiscarded) + 1
      BY <2>1, <2>3, <2>4
    <3> QED
      BY <2>1, <3>1 DEF Attempts, Key, MaxDiscard
  <2> HIDE DEF t
  <2>6. Discarded(t, Attempts + 1) <= MaxDiscard
    BY <2>2, <2>3, <2>4
  <2>7. WentOn(t, params.maxSuccess, MaxDiscard, Attempts + 1)
    <3>1. Len(t) \in Nat /\ t[Attempts + 1].kind # "failure" /\ Passed(t, Attempts) < params.maxSuccess
      BY <2>1, <2>2
    <3> QED
      BY <2>2, <2>6, <3>1, WentOnNext
  <2>8. SearchOnTape'
    BY <2>1, <2>2, <2>3, <2>5, <2>7 DEF SearchOnTape, t
  <2>9. ParamsOfOptions'
    BY <1>0, <2>1 DEF ParamsOfOptions
  <2> QED
    BY <2>1, <2>8, <2>9 DEF TapeInv, ResultOnTape
<1>7. ASSUME NEW o \in Outcomes, GiveUp(o)
      PROVE  TapeInv'
  <2> DEFINE t == tape'[Key]
  <2>1. /\ Generate(o) /\ pc = "search" /\ o.kind = "discard" /\ numDiscarded >= MaxDiscard
        /\ numSuccess < params.maxSuccess
        /\ Report("gave_up", "gave up", numSuccess, 0)
    BY <1>7 DEF GiveUp, Generate
  <2>2. /\ WentOn(t, params.maxSuccess, MaxDiscard, Attempts)
        /\ numSuccess = Passed(t, Attempts)
        /\ Attempts \in Nat /\ Attempts < Len(t)
        /\ t[Attempts + 1] = o
        /\ Discarded(t, Attempts + 1) = numDiscarded + 1
    BY <1>0, <2>1, GeneratedOnTape
  <2>3. numDiscarded \in Nat /\ MaxDiscard \in Nat
    BY <1>0, Numbers
  <2>4. result'.status = "gave_up" /\ result'.cases = numSuccess /\ result'.shrinks = 0
    BY <1>0, <2>1, ReportedRow
  <2> HIDE DEF t
  <2>5. GaveUp(t, params.maxSuccess, MaxDiscard, Attempts, result')
    <3>1. numDiscarded + 1 > MaxDiscard
      <4>1. numDiscarded >= MaxDiscard
        BY <2>1
      <4> QED
        BY <2>3, <4>1
    <3>2. Discarded(t, Attempts + 1) > MaxDiscard /\ Passed(t, Attempts) < params.maxSuccess
      BY <2>1, <2>2, <3>1
    <3>3. t[Attempts + 1].kind = "discard"
      BY <2>1, <2>2
    <3> QED
      BY <2>2, <2>4, <3>2, <3>3 DEF GaveUp
  <2>6. EndedAt(t, params.maxSuccess, MaxDiscard, Attempts, result')
    BY <2>2, <2>4, <2>5 DEF EndedAt
  <2> QED
    BY <1>0, <2>1, <2>2, <2>6, EndReported DEF t
<1>8. ASSUME NEW o \in Outcomes, CaseFails(o)
      PROVE  TapeInv'
  <2> DEFINE t == tape'[Key]
             shrinks == IF params.disableShrinking THEN 0 ELSE o.shrinks
  <2>1. /\ Generate(o) /\ pc = "search" /\ o.kind = "failure"
        /\ numSuccess < params.maxSuccess
        /\ Report(FailureStatus, "falsified", numSuccess, shrinks)
    BY <1>8 DEF CaseFails, Generate
  <2>2. /\ WentOn(t, params.maxSuccess, MaxDiscard, Attempts)
        /\ numSuccess = Passed(t, Attempts)
        /\ Attempts \in Nat /\ Attempts < Len(t)
        /\ t[Attempts + 1] = o
    BY <1>0, <2>1, GeneratedOnTape
  <2>3. /\ result'.status = FailureStatus /\ result'.cases = numSuccess /\ result'.shrinks = shrinks
        /\ result'.property = property /\ result'.reproduce.noshrink = params.disableShrinking
    <3> HIDE DEF shrinks
    <3> QED
      BY <1>0, <2>1, ReportedRow
  <2> HIDE DEF t
  <2>5. Fell(t, params.maxSuccess, Attempts, result')
    BY <2>1, <2>2, <2>3 DEF Fell, FailureStatus, ExpectsFailure
  <2>6. EndedAt(t, params.maxSuccess, MaxDiscard, Attempts, result')
    BY <2>2, <2>3, <2>5 DEF EndedAt
  <2> HIDE DEF shrinks
  <2> QED
    BY <1>0, <2>1, <2>2, <2>6, EndReported DEF t
<1>9. CASE Succeed
  <2> DEFINE t == tape[Key]
             status == IF ExpectsFailure THEN "fixed" ELSE "pass"
             description == IF ExpectsFailure THEN "fixed upstream" ELSE ""
  <2>1. /\ pc = "search" /\ numSuccess >= params.maxSuccess /\ tape' = tape
        /\ Report(status, description, numSuccess, 0)
    BY <1>9 DEF Succeed
  <2>2. /\ WentOn(t, params.maxSuccess, MaxDiscard, Attempts)
        /\ numSuccess = Passed(t, Attempts) /\ Attempts \in Nat
    BY <1>0, <2>1, Numbers DEF SearchOnTape
  <2>3. /\ result'.status = status /\ result'.cases = numSuccess /\ result'.shrinks = 0
        /\ result'.property = property
    <3> HIDE DEF status, description
    <3> QED
      BY <1>0, <2>1, ReportedRow
  <2> HIDE DEF t
  <2>5. Held(t, params.maxSuccess, Attempts, result')
    BY <2>1, <2>2, <2>3 DEF Held, ExpectsFailure
  <2>6. EndedAt(t, params.maxSuccess, MaxDiscard, Attempts, result')
    BY <2>2, <2>3, <2>5 DEF EndedAt
  <2> HIDE DEF status, description
  <2> QED
    BY <1>0, <2>1, <2>2, <2>6, EndReported DEF t
<1>10. CASE EngineError
  BY <1>0, <1>10, NotSearched DEF EngineError
<1>11. CASE UncaughtException
  BY <1>0, <1>11, NotSearched DEF UncaughtException
<1>12. CASE Return
  BY <1>12 DEF Return, TapeInv, ParamsOfOptions, SearchOnTape, ResultOnTape
<1>13. CASE UNCHANGED runnerVars
  <2>1. UNCHANGED <<pc, property, options, params, numSuccess, numDiscarded, tape, result>>
    BY <1>13 DEF runnerVars
  <2>2. UNCHANGED <<Key, Attempts, MaxDiscard>>
    BY <2>1 DEF Key, Attempts, MaxDiscard
  <2> QED
    BY <1>0, <2>1, <2>2 DEF TapeInv, ParamsOfOptions, SearchOnTape, ResultOnTape
<1> QED
  BY <1>1, <1>2, <1>3, <1>4, <1>5, <1>6, <1>7, <1>8, <1>9, <1>10, <1>11, <1>12, <1>13
  DEF RunnerNext, RunnerStep

-----------------------------------------------------------------------------
\* A row of the current query.
OfQuery(row, o, tapes) == Backed(row, o.max_discard_ratio, tapes) /\ Follows(row, o)

RowsOnTape ==
    /\ \A i \in 1..Len(delivered) : OfQuery(delivered[i], query.options, tape)
    /\ \A i \in 1..Len(chunk) : OfQuery(chunk[i], query.options, tape)

\* The row being replayed is backed too, and the query is the call printed for it.
ReplayOnTape ==
    replayOf.exists =>
        /\ query = ReproduceSql(replayOf.row)
        /\ Backed(replayOf.row, replayOf.options.max_discard_ratio, tape)
        /\ replayOf.row.property.deterministic => replayOf.row.reproduce.max_success = 1

ReplayInv == ScanInv /\ TapeInv /\ RowsOnTape /\ ReplayOnTape

\* At first there are no rows.
LEMMA ReplayInvInit == Init => ReplayInv
<1> SUFFICES ASSUME Init PROVE ReplayInv
  OBVIOUS
<1>1. ScanInv /\ TapeInv
  BY ScanInit, TapeInvInit DEF Init
<1>2. Len(delivered) = 0 /\ Len(chunk) = 0 /\ replayOf.exists = FALSE
  BY DEF Init, NoRow
<1> QED
  BY <1>1, <1>2 DEF ReplayInv, RowsOnTape, ReplayOnTape

\* Every step keeps the rows, and the row that is replayed, backed by the tapes.
LEMMA ReplayInvStep == ReplayInv /\ [Next]_vars => ReplayInv'
<1> SUFFICES ASSUME ReplayInv, [Next]_vars PROVE ReplayInv'
  OBVIOUS
<1>0. /\ ScanInv /\ TapeInv /\ RowsOnTape /\ ReplayOnTape
      /\ RunnerInv /\ RunnerTypeOK /\ ScanTyped /\ RunOfScan /\ RowsInOrder
  BY DEF ReplayInv, ScanInv, RunnerInv
<1>1. ScanInv' /\ RunnerTypeOK' /\ [RunnerNext]_runnerVars
  BY <1>0, ScanStep, RunnerSteps DEF ScanInv, RunnerInv
<1>2. TapeInv'
  BY <1>0, <1>1, TapeInvStep
<1> SUFFICES RowsOnTape' /\ ReplayOnTape'
  BY <1>1, <1>2 DEF ReplayInv
<1>3. /\ chunk \in Seq(Results) /\ Len(chunk) \in Nat /\ delivered \in Seq(Results)
           /\ Len(delivered) \in Nat
      /\ replayOf.row \in Results /\ result \in Results
  BY <1>0 DEF ScanTyped, RunnerTypeOK
\* What the rows of the query and the replayed row had they have after the step.
<1>4. ASSUME NEW row \in Results, NEW o, OfQuery(row, o, tape)
      PROVE  OfQuery(row, o, tape')
  <2>1. Backed(row, o.max_discard_ratio, tape')
    BY <1>0, <1>1, <1>4, BackedStays DEF OfQuery
  <2> QED
    BY <1>4, <2>1 DEF OfQuery
<1>5. ASSUME query' = query, replayOf' = replayOf
      PROVE  ReplayOnTape'
  <2> SUFFICES ASSUME replayOf.exists
               PROVE  /\ query = ReproduceSql(replayOf.row)
                      /\ Backed(replayOf.row, replayOf.options.max_discard_ratio, tape')
                      /\ replayOf.row.property.deterministic => replayOf.row.reproduce.max_success = 1
    BY <1>5 DEF ReplayOnTape
  <2>1. /\ query = ReproduceSql(replayOf.row)
        /\ Backed(replayOf.row, replayOf.options.max_discard_ratio, tape)
        /\ replayOf.row.property.deterministic => replayOf.row.reproduce.max_success = 1
    BY <1>0 DEF ReplayOnTape
  <2>2. Backed(replayOf.row, replayOf.options.max_discard_ratio, tape')
    BY <1>0, <1>1, <1>3, <2>1, BackedStays
  <2> QED
    BY <2>1, <2>2
<1>6. ASSUME UNCHANGED <<query, replayOf, delivered, chunk>>
      PROVE  RowsOnTape' /\ ReplayOnTape'
  <2>1. RowsOnTape'
    BY <1>0, <1>3, <1>4, <1>6 DEF RowsOnTape
  <2> QED
    BY <1>5, <1>6, <2>1
<1>7. ASSUME UNCHANGED <<query, replayOf, delivered>>, chunk' = <<>>
      PROVE  RowsOnTape' /\ ReplayOnTape'
  <2>1. Len(chunk') = 0
    BY <1>7
  <2>2. RowsOnTape'
    BY <1>0, <1>3, <1>4, <1>7, <2>1 DEF RowsOnTape
  <2> QED
    BY <1>5, <1>7, <2>2
<1>8. CASE LoadExtension \/ StartProperty \/ RunProperty \/ EndScan \/ Interrupt \/ UNCHANGED vars
  <2>1. UNCHANGED <<query, replayOf, delivered, chunk>>
    BY <1>8 DEF LoadExtension, StartProperty, RunProperty, EndScan, Interrupt, vars, scanVars
  <2> QED
    BY <1>6, <2>1
<1>9. CASE PropertyThrew \/ InterruptCheck
  BY <1>7, <1>9 DEF PropertyThrew, InterruptCheck, Abort
<1>10. CASE Ask
  <2>1. delivered' = <<>> /\ chunk' = <<>> /\ replayOf' = NoRow
    BY <1>10 DEF Ask, FuzzingCheckBind
  <2>2. Len(delivered') = 0 /\ Len(chunk') = 0 /\ replayOf'.exists = FALSE
    BY <2>1 DEF NoRow
  <2> QED
    BY <2>2 DEF RowsOnTape, ReplayOnTape
<1>11. CASE Replay
  <2>1. PICK i \in DOMAIN delivered :
           FuzzingCheckBind(ReproduceSql(delivered[i]),
                            [row |-> delivered[i], options |-> query.options, exists |-> TRUE])
    BY <1>11 DEF Replay
  <2> DEFINE row == delivered[i]
             o == query.options
  <2>2. /\ delivered' = <<>> /\ chunk' = <<>> /\ query' = ReproduceSql(row)
        /\ replayOf' = [row |-> row, options |-> o, exists |-> TRUE]
        /\ UNCHANGED runnerVars
    BY <2>1 DEF FuzzingCheckBind
  <2>3. tape' = tape
    BY <2>2 DEF runnerVars
  <2>4. OfQuery(row, o, tape)
    BY <1>0, <1>3 DEF RowsOnTape
  <2> HIDE DEF row, o
  <2>5. replayOf'.row = row /\ replayOf'.options = o
    BY <2>2
  <2>6. row.property.deterministic => row.reproduce.max_success = 1
    BY <2>4 DEF OfQuery, Follows
  <2>7. ReplayOnTape'
    BY <2>2, <2>3, <2>4, <2>5, <2>6 DEF ReplayOnTape, OfQuery
  <2>8. Len(delivered') = 0 /\ Len(chunk') = 0
    BY <2>2
  <2> QED
    BY <2>7, <2>8 DEF RowsOnTape
<1>12. CASE EmitRow
  <2>1. /\ pc = "returned" /\ chunk' = Append(chunk, result) /\ tape' = tape
        /\ UNCHANGED <<query, replayOf, delivered>>
    BY <1>12 DEF EmitRow, Return
  <2>2. options = query.options
    BY <1>0, <2>1 DEF RunOfScan
  <2>3. OfQuery(result, query.options, tape)
    BY <1>0, <2>1, <2>2 DEF TapeInv, ResultOnTape, OfQuery
  <2>4. /\ Len(chunk') = Len(chunk) + 1 /\ chunk'[Len(chunk) + 1] = result
        /\ \A i \in 1..Len(chunk) : chunk'[i] = chunk[i]
        /\ \A i \in 1..Len(chunk) + 1 : i \in 1..Len(chunk) \/ i = Len(chunk) + 1
    BY <1>3, <2>1
  <2>5. \A i \in 1..Len(chunk') : OfQuery(chunk'[i], query.options, tape)
    BY <1>0, <2>3, <2>4 DEF RowsOnTape
  <2>6. RowsOnTape'
    BY <1>0, <2>1, <2>5 DEF RowsOnTape
  <2> QED
    BY <1>5, <2>1, <2>6
<1>13. CASE FlushChunk
  <2>1. /\ delivered' = delivered \o chunk /\ chunk' = <<>>
        /\ UNCHANGED <<query, replayOf>> /\ UNCHANGED runnerVars
    BY <1>13 DEF FlushChunk
  <2>2. tape' = tape
    BY <2>1 DEF runnerVars
  <2>3. /\ Len(delivered') = Len(delivered) + Len(chunk)
        /\ \A i \in 1..Len(delivered) : delivered'[i] = delivered[i]
        /\ \A i \in 1..Len(chunk) : delivered'[Len(delivered) + i] = chunk[i]
        /\ Len(chunk') = 0
    BY <1>3, <2>1
  <2>4. \A i \in 1..Len(delivered') : OfQuery(delivered'[i], query.options, tape)
    <3> SUFFICES ASSUME NEW i \in 1..Len(delivered') PROVE OfQuery(delivered'[i], query.options, tape)
      OBVIOUS
    <3>1. CASE i \in 1..Len(delivered)
      BY <1>0, <2>3, <3>1 DEF RowsOnTape
    <3>2. ASSUME NEW j \in 1..Len(chunk), i = Len(delivered) + j
          PROVE  OfQuery(delivered'[i], query.options, tape)
      BY <1>0, <2>3, <3>2 DEF RowsOnTape
    <3>3. i \in 1..Len(delivered) \/ (i - Len(delivered) \in 1..Len(chunk)
            /\ i = Len(delivered) + (i - Len(delivered)))
      BY <1>3, <2>3
    <3> QED
      BY <3>1, <3>2, <3>3
  <2>5. RowsOnTape'
    BY <2>1, <2>2, <2>3, <2>4 DEF RowsOnTape
  <2> QED
    BY <1>5, <2>1, <2>5
<1> QED
  BY <1>8, <1>9, <1>10, <1>11, <1>12, <1>13 DEF Next

\* The replay selects the one property of the row and reads the same tape to the same end.
LEMMA ReplayHolds == ReplayInv => ReplayReproduces
<1> SUFFICES ASSUME ReplayInv, replayOf.exists, scan = "finished"
             PROVE  /\ Len(delivered) = 1 /\ delivered[1].property = replayOf.row.property
                    /\ Replayed /\ replayOf.options.max_discard_ratio = DefaultDiscardRatio =>
                          SameRun(delivered[1], replayOf.row)
  BY DEF ReplayReproduces, Replayed
<1> DEFINE row == replayOf.row
           p == row.property
<1>1. /\ ScanInv /\ RowsOnTape /\ ReplayOnTape /\ ScanTyped
  BY DEF ReplayInv, ScanInv
<1>2. OneRowEach
  BY <1>1, OneRowInv
<1>3. row \in Results /\ p \in Properties
  BY <1>1 DEF ScanTyped, Results
<1>4. /\ query = ReproduceSql(row)
      /\ Backed(row, replayOf.options.max_discard_ratio, tape)
      /\ p.deterministic => row.reproduce.max_success = 1
  BY <1>1 DEF ReplayOnTape
<1> HIDE DEF row
<1>5. {x \in Properties : Matches(query, x)} = {p}
  <2>1. query.suite = p.suite /\ query.property = p.name
    BY <1>4 DEF ReproduceSql
  <2>2. p.suite # "" /\ p.name # ""
    BY <1>3, CheckAssumption DEF Names
  <2>3. \A x \in Properties : Matches(query, x) <=> x = p
    BY <1>3, <2>1, <2>2, UniqueNames DEF Matches
  <2> QED
    BY <1>3, <2>3
<1>6. Len(delivered) = 1
  <2>1. Cardinality({p}) = 1
    BY FS_Singleton
  <2> QED
    BY <1>2, <1>5, <2>1 DEF OneRowEach
<1>7. delivered[1].property = p /\ delivered[1] \in Results
  <2>1. delivered \in Seq(Results) /\ 1 \in DOMAIN delivered
    BY <1>1, <1>6 DEF ScanTyped
  <2>2. delivered[1] \in ToSet(delivered)
    BY <2>1 DEF ToSet
  <2>3. {r.property : r \in ToSet(delivered)} = {p}
    BY <1>2, <1>5 DEF OneRowEach
  <2> QED
    BY <2>1, <2>2, <2>3
<1>8. ASSUME Replayed, replayOf.options.max_discard_ratio = DefaultDiscardRatio
      PROVE  SameRun(delivered[1], row)
  <2> DEFINE again == delivered[1]
             o == query.options
  <2>1. OfQuery(again, o, tape)
    BY <1>1, <1>6 DEF RowsOnTape
  <2>2. Searched(row) /\ Searched(again) /\ row.reproduce.seed # 0
    BY <1>8 DEF Replayed, row
  <2>3. again.property = p
    BY <1>7
  <2> HIDE DEF again, o
  <2>4. /\ o.max_success = row.reproduce.max_success /\ o.max_size = row.reproduce.max_size
        /\ o.max_discard_ratio = DefaultDiscardRatio /\ o.no_shrink = row.reproduce.noshrink
        /\ o.seed = row.reproduce.seed
    BY <1>4 DEF ReproduceSql, o
  <2>5. /\ again.reproduce.max_success = row.reproduce.max_success
        /\ again.reproduce.max_size = row.reproduce.max_size
        /\ again.reproduce.noshrink = row.reproduce.noshrink
        /\ again.reproduce.seed = row.reproduce.seed
    BY <1>4, <2>1, <2>2, <2>3, <2>4 DEF OfQuery, Follows
  <2>6. RowKey(again) = RowKey(row)
    BY <2>3, <2>5 DEF RowKey
  <2> DEFINE t == tape[RowKey(row)]
             k == row.reproduce.max_success
             allowed == DefaultDiscardRatio * k
  <2>7. PICK n \in Nat : EndedAt(t, k, allowed, n, row)
    BY <1>4, <1>8, <2>2 DEF Backed
  <2>8. PICK m \in Nat : EndedAt(t, k, allowed, m, again)
    BY <2>1, <2>2, <2>4, <2>5, <2>6 DEF OfQuery, Backed
  <2>9. k \in Nat /\ allowed \in Nat
    <3>1. k \in Nat /\ DefaultDiscardRatio \in Nat
      <4>1. row.reproduce \in Reproduces
        BY <1>3 DEF Results
      <4> QED
        BY <4>1, CheckAssumption, OptionsAssumption DEF Reproduces
    <3> QED
      BY <3>1
  <2> HIDE DEF t, k, allowed
  <2> QED
    BY <2>3, <2>5, <2>7, <2>8, <2>9, EndIsUnique DEF again
<1> QED
  BY <1>6, <1>7, <1>8 DEF row

\* The call triage.py prints for a row runs that one property again, and comes to the
\* same status, cases and shrink steps if the row's query left max_discard_ratio alone.
THEOREM ReplaysReproduce == Spec => []ReplayReproduces
BY ReplayInvInit, ReplayInvStep, ReplayHolds, PTL DEF Spec

-----------------------------------------------------------------------------
\* The line of a property and the fields of the call made for it.
LineFor(p) == <<p.suite, p.expectation, p.issue, p.name>>
CallFor(p) == [suite |-> p.suite, expectation |-> p.expectation, issue |-> p.issue, property |-> p.name]

ListingTyped ==
    /\ listing \in {"none", "scanning", "finished"}
    /\ listOffset \in Nat /\ index \in Nat
    /\ listChunk \in Seq({RowOf(p) : p \in Properties})
    /\ lines \in Seq({LineFor(p) : p \in Properties})
    /\ calls \in Seq({CallFor(p) : p \in Properties})
    /\ listing # "none" => loaded

\* The rows and lines so far are those of the first entries of the registry.
LinesInOrder ==
    /\ listOffset = Len(lines) + Len(listChunk)
    /\ listOffset <= Len(registry)
    /\ \A i \in 1..Len(lines) : lines[i] = LineFor(registry[i])
    /\ \A i \in 1..Len(listChunk) : listChunk[i] = RowOf(registry[Len(lines) + i])
    /\ listing = "none" => listOffset = 0
    /\ listing = "finished" => listOffset = Len(registry) /\ listChunk = <<>>

\* The script has made a call for each of the lines it has read.
CallsInOrder ==
    /\ Len(calls) = index /\ index <= Len(lines)
    /\ index > 0 => listing = "finished"
    /\ \A n \in 1..index : calls[n] = CallFor(registry[n])

ListingInv == ScanInv /\ ListingTyped /\ LinesInOrder /\ CallsInOrder

\* The empty issue survives its way through a NULL.
LEMMA LineOfRow == ASSUME NEW p \in Properties PROVE LineOf(RowOf(p)) = LineFor(p)
<1>1. p.issue # Null
  BY ListingAssumption
<1>2. /\ RowOf(p).suite = p.suite /\ RowOf(p).expectation = p.expectation
      /\ RowOf(p).issue = NullableString(p.issue) /\ RowOf(p).property = p.name
  BY DEF RowOf
<1>3. (IF NullableString(p.issue) = Null THEN "" ELSE NullableString(p.issue)) = p.issue
  BY <1>1 DEF NullableString
<1> QED
  BY <1>2, <1>3 DEF LineOf, LineFor

\* Nothing has been listed at first.
LEMMA ListingInitInv == ListingInit => ListingInv
<1> SUFFICES ASSUME ListingInit PROVE ListingInv
  OBVIOUS
<1>1. /\ listing = "none" /\ listOffset = 0 /\ listChunk = <<>> /\ lines = <<>> /\ calls = <<>>
           /\ index = 0
      /\ registry = <<>>
  BY DEF ListingInit, Init, RegistryInit
<1>2. ScanInv
  BY ScanInit DEF ListingInit
<1>3. ListingTyped
  BY <1>1 DEF ListingTyped
<1>4. Len(lines) = 0 /\ Len(listChunk) = 0 /\ Len(registry) = 0 /\ Len(calls) = 0
  BY <1>1
<1>5. LinesInOrder /\ CallsInOrder
  BY <1>1, <1>4 DEF LinesInOrder, CallsInOrder
<1> QED
  BY <1>2, <1>3, <1>5 DEF ListingInv

\* Listing, printing and reading follow the registry entry by entry.
LEMMA ListingStepInv == ListingInv /\ [ListingNext]_<<vars, listingVars>> => ListingInv'
<1> SUFFICES ASSUME ListingInv, [ListingNext]_<<vars, listingVars>> PROVE ListingInv'
  OBVIOUS
<1>0. ScanInv /\ ListingTyped /\ LinesInOrder /\ CallsInOrder
  BY DEF ListingInv
<1>1. [Next]_vars
  BY DEF ListingNext, StartListing, ListRow, PrintChunk, ReadEntry
<1>2. ScanInv'
  BY <1>0, <1>1, ScanStep
<1>3. /\ registry \in Seq(Properties) /\ Len(registry) \in Nat
      /\ VectorSize \in Nat \ {0}
  BY <1>0, CheckAssumption DEF ScanInv, RegistryInv, RegistryTyped
<1>4. /\ listOffset \in Nat /\ index \in Nat
      /\ listChunk \in Seq({RowOf(p) : p \in Properties}) /\ Len(listChunk) \in Nat
      /\ lines \in Seq({LineFor(p) : p \in Properties}) /\ Len(lines) \in Nat
      /\ calls \in Seq({CallFor(p) : p \in Properties}) /\ Len(calls) \in Nat
  BY <1>0 DEF ListingTyped
<1>5. ASSUME UNCHANGED vars PROVE UNCHANGED <<registry, loaded>>
  BY <1>5 DEF vars, registryVars
<1> SUFFICES ListingTyped' /\ LinesInOrder' /\ CallsInOrder'
  BY <1>2 DEF ListingInv
<1>6. CASE listing = "none" /\ Next /\ UNCHANGED listingVars
  <2>1. UNCHANGED <<listing, listOffset, listChunk, lines, index, calls>>
    BY <1>6 DEF listingVars
  <2>2. Len(lines) = 0 /\ Len(listChunk) = 0 /\ listOffset = 0 /\ index = 0 /\ listing = "none"
    BY <1>0, <1>4, <1>6 DEF LinesInOrder, CallsInOrder
  <2>3. Len(registry') \in Nat
    BY <1>2 DEF ScanInv, RegistryInv, RegistryTyped
  <2>4. ListingTyped'
    BY <1>0, <2>1, <2>2 DEF ListingTyped
  <2>5. LinesInOrder' /\ CallsInOrder'
    BY <1>0, <2>1, <2>2, <2>3 DEF LinesInOrder, CallsInOrder
  <2> QED
    BY <2>4, <2>5
<1>7. CASE StartListing
  <2>1. /\ loaded /\ listing = "none" /\ listing' = "scanning"
        /\ UNCHANGED <<listOffset, listChunk, lines, index, calls, registry, loaded>>
    BY <1>5, <1>7 DEF StartListing
  <2>2. ListingTyped'
    BY <1>0, <2>1 DEF ListingTyped
  <2>3. index = 0
    BY <1>0, <1>4, <2>1 DEF CallsInOrder
  <2>4. LinesInOrder'
    BY <1>0, <2>1 DEF LinesInOrder
  <2>5. CallsInOrder'
    BY <1>0, <2>1, <2>3 DEF CallsInOrder
  <2> QED
    BY <2>2, <2>4, <2>5
<1>8. CASE ListRow
  <2> DEFINE row == RowOf(registry[listOffset + 1])
  <2>1. /\ listing = "scanning" /\ listOffset < Len(registry)
        /\ listChunk' = Append(listChunk, row) /\ listOffset' = listOffset + 1
        /\ UNCHANGED <<listing, lines, index, calls, registry, loaded>>
    BY <1>5, <1>8 DEF ListRow, MoreToList
  <2>2. row \in {RowOf(p) : p \in Properties}
    <3>1. registry[listOffset + 1] \in Properties
      BY <1>3, <1>4, <2>1
    <3> QED
      BY <3>1
  <2> HIDE DEF row
  <2>3. /\ listChunk' \in Seq({RowOf(p) : p \in Properties})
        /\ Len(listChunk') = Len(listChunk) + 1
        /\ \A i \in 1..Len(listChunk) : listChunk'[i] = listChunk[i]
        /\ listChunk'[Len(listChunk) + 1] = row
    BY <1>4, <2>1, <2>2
  <2>4. ListingTyped'
    <3>1. listOffset' \in Nat
      BY <1>4, <2>1
    <3> QED
      BY <1>0, <2>1, <2>3, <3>1 DEF ListingTyped
  <2>5. listOffset = Len(lines) + Len(listChunk)
    BY <1>0 DEF LinesInOrder
  <2>6. listOffset' = Len(lines) + Len(listChunk') /\ listOffset' <= Len(registry)
    BY <1>3, <1>4, <2>1, <2>3, <2>5
  <2>7. \A i \in 1..Len(listChunk') : listChunk'[i] = RowOf(registry[Len(lines) + i])
    <3> SUFFICES ASSUME NEW i \in 1..Len(listChunk')
                 PROVE listChunk'[i] = RowOf(registry[Len(lines) + i])
      OBVIOUS
    <3>1. CASE i \in 1..Len(listChunk)
      <4>1. listChunk[i] = RowOf(registry[Len(lines) + i])
        BY <1>0, <3>1 DEF LinesInOrder
      <4> QED
        BY <2>3, <3>1, <4>1
    <3>2. CASE i = Len(listChunk) + 1
      <4>1. Len(lines) + i = listOffset + 1
        BY <1>4, <2>5, <3>2
      <4>2. row = RowOf(registry[Len(lines) + i])
        BY <4>1 DEF row
      <4> QED
        BY <2>3, <3>2, <4>2
    <3>3. i \in 1..Len(listChunk) \/ i = Len(listChunk) + 1
      BY <1>4, <2>3
    <3> QED
      BY <3>1, <3>2, <3>3
  <2>8. LinesInOrder'
    <3>1. \A i \in 1..Len(lines) : lines[i] = LineFor(registry[i])
      BY <1>0 DEF LinesInOrder
    <3>2. listing' = "scanning"
      BY <2>1
    <3> QED
      BY <2>1, <2>6, <2>7, <3>1, <3>2 DEF LinesInOrder
  <2>9. CallsInOrder'
    BY <1>0, <2>1 DEF CallsInOrder
  <2> QED
    BY <2>4, <2>8, <2>9
<1>9. CASE PrintChunk
  <2> DEFINE printed == [i \in DOMAIN listChunk |-> LineOf(listChunk[i])]
  <2>1. /\ listing = "scanning" /\ ~MoreToList
        /\ lines' = lines \o printed
        /\ listing' = IF listChunk = <<>> THEN "finished" ELSE listing
        /\ listChunk' = <<>>
        /\ UNCHANGED <<listOffset, index, calls, registry, loaded>>
    BY <1>5, <1>9 DEF PrintChunk
  <2>2. /\ listOffset = Len(lines) + Len(listChunk) /\ listOffset <= Len(registry)
        /\ \A i \in 1..Len(lines) : lines[i] = LineFor(registry[i])
        /\ \A i \in 1..Len(listChunk) : listChunk[i] = RowOf(registry[Len(lines) + i])
    BY <1>0 DEF LinesInOrder
  <2>3. \A i \in 1..Len(listChunk) :
           /\ registry[Len(lines) + i] \in Properties
           /\ LineOf(listChunk[i]) = LineFor(registry[Len(lines) + i])
    <3> SUFFICES ASSUME NEW i \in 1..Len(listChunk)
                 PROVE  /\ registry[Len(lines) + i] \in Properties
                        /\ LineOf(listChunk[i]) = LineFor(registry[Len(lines) + i])
      OBVIOUS
    <3>1. Len(lines) + i \in 1..Len(registry)
      BY <1>3, <1>4, <2>2
    <3>2. registry[Len(lines) + i] \in Properties
      BY <1>3, <3>1
    <3> QED
      BY <2>2, <3>2, LineOfRow
  <2>4. /\ printed \in Seq({LineFor(p) : p \in Properties})
        /\ Len(printed) = Len(listChunk)
        /\ \A i \in 1..Len(listChunk) : printed[i] = LineFor(registry[Len(lines) + i])
    <3>1. DOMAIN listChunk = 1..Len(listChunk)
      BY <1>4
    <3>2. printed \in [1..Len(listChunk) -> {LineFor(p) : p \in Properties}]
      BY <2>3, <3>1
    <3> QED
      BY <1>4, <2>3, <3>1, <3>2
  <2> HIDE DEF printed
  <2>5. /\ lines' \in Seq({LineFor(p) : p \in Properties})
        /\ Len(lines') = Len(lines) + Len(listChunk)
        /\ \A i \in 1..Len(lines) : lines'[i] = lines[i]
        /\ \A i \in 1..Len(listChunk) : lines'[Len(lines) + i] = printed[i]
    <3> DEFINE T == {LineFor(p) : p \in Properties}
    <3>1. lines \in Seq(T) /\ printed \in Seq(T)
      BY <1>4, <2>4
    <3>5. lines' = lines \o printed /\ Len(printed) = Len(listChunk)
      BY <2>1, <2>4
    <3> HIDE DEF T
    <3>2. lines \o printed \in Seq(T)
      BY <3>1
    <3>6. Len(lines \o printed) = Len(lines) + Len(printed)
      BY <3>1
    <3>3. \A i \in 1..Len(lines) : (lines \o printed)[i] = lines[i]
      BY <3>1
    <3>4. \A i \in 1..Len(printed) : (lines \o printed)[Len(lines) + i] = printed[i]
      BY <3>1
    <3> QED
      BY <3>2, <3>3, <3>4, <3>5, <3>6 DEF T
  <2>6. listChunk' \in Seq({RowOf(p) : p \in Properties}) /\ Len(listChunk') = 0
    BY <2>1
  <2>7. ListingTyped'
    BY <1>0, <2>1, <2>5, <2>6 DEF ListingTyped
  <2>8. \A i \in 1..Len(lines') : lines'[i] = LineFor(registry[i])
    <3> SUFFICES ASSUME NEW i \in 1..Len(lines') PROVE lines'[i] = LineFor(registry[i])
      OBVIOUS
    <3>1. CASE i \in 1..Len(lines)
      BY <2>2, <2>5, <3>1
    <3>2. ASSUME NEW j \in 1..Len(listChunk), i = Len(lines) + j
          PROVE  lines'[i] = LineFor(registry[i])
      BY <2>4, <2>5, <3>2
    <3>3. i \in 1..Len(lines) \/ (i - Len(lines) \in 1..Len(listChunk)
            /\ i = Len(lines) + (i - Len(lines)))
      BY <1>4, <2>5
    <3> QED
      BY <3>1, <3>2, <3>3
  <2>9. listing' = "finished" => listOffset = Len(registry)
    BY <1>3, <1>4, <2>1, <2>2 DEF MoreToList
  <2>10. LinesInOrder'
    <3>1. listOffset' = Len(lines') + Len(listChunk') /\ listOffset' <= Len(registry')
            /\ listing' # "none"
      BY <1>4, <2>1, <2>2, <2>5, <2>6
    <3>2. 1..Len(listChunk') = {}
      BY <2>6
    <3> QED
      BY <2>1, <2>8, <2>9, <3>1, <3>2 DEF LinesInOrder
  <2>11. CallsInOrder'
    <3>1. index = 0
      BY <1>0, <1>4, <2>1 DEF CallsInOrder
    <3> QED
      BY <1>0, <1>4, <2>1, <2>5, <3>1 DEF CallsInOrder
  <2> QED
    BY <2>7, <2>10, <2>11
<1>10. CASE ReadEntry
  <2> DEFINE p == registry[index + 1]
             fields == Fields(lines[index + 1])
  <2>1. /\ listing = "finished" /\ index < Len(lines) /\ index' = index + 1
        /\ UNCHANGED <<listOffset, listChunk, lines, registry, loaded>>
    BY <1>5, <1>10 DEF ReadEntry
  <2>2. p \in Properties /\ lines[index + 1] = LineFor(p)
    <3>1. index + 1 \in 1..Len(lines) /\ index + 1 \in 1..Len(registry)
      BY <1>0, <1>3, <1>4, <2>1 DEF LinesInOrder
    <3>2. lines[index + 1] = LineFor(p)
      BY <1>0, <3>1 DEF LinesInOrder
    <3> QED
      BY <1>3, <3>1, <3>2
  <2> HIDE DEF p
  <2>3. fields[1] = p.suite /\ fields[2] = p.expectation /\ fields[3] = p.issue /\ fields[4] = p.name
    BY <2>2 DEF Fields, LineFor
  <2>4. fields[1] # "" /\ fields[4] # ""
    BY <2>2, <2>3, CheckAssumption DEF Names
  <2>5. calls' = Append(calls, CallFor(p)) /\ listing' = listing
    BY <1>10, <2>3, <2>4 DEF ReadEntry, CallFor
  <2>6. /\ calls' \in Seq({CallFor(r) : r \in Properties})
        /\ Len(calls') = Len(calls) + 1
        /\ \A n \in 1..Len(calls) : calls'[n] = calls[n]
        /\ calls'[Len(calls) + 1] = CallFor(p)
    <3> DEFINE e == CallFor(p)
               T == {CallFor(r) : r \in Properties}
    <3>1. e \in T /\ calls \in Seq(T) /\ calls' = Append(calls, e)
      BY <1>4, <2>2, <2>5
    <3> HIDE DEF e, T
    <3>2. /\ calls' \in Seq(T)
          /\ Len(calls') = Len(calls) + 1
          /\ \A n \in 1..Len(calls) : calls'[n] = calls[n]
          /\ calls'[Len(calls) + 1] = e
      BY <3>1
    <3> QED
      BY <3>2 DEF e, T
  <2>7. ListingTyped'
    <3>1. index' \in Nat
      BY <1>4, <2>1
    <3> QED
      BY <1>0, <2>1, <2>5, <2>6, <3>1 DEF ListingTyped
  <2>8. LinesInOrder'
    BY <1>0, <2>1, <2>5 DEF LinesInOrder
  <2>9. CallsInOrder'
    <3>1. Len(calls) = index /\ \A n \in 1..index : calls[n] = CallFor(registry[n])
      BY <1>0 DEF CallsInOrder
    <3>2. \A n \in 1..index + 1 : n \in 1..index \/ n = index + 1
      BY <1>4
    <3>3. \A n \in 1..index + 1 : calls'[n] = CallFor(registry[n])
      BY <2>6, <3>1, <3>2 DEF p
    <3>4. index + 1 <= Len(lines) /\ Len(calls') = index + 1
      BY <1>4, <2>1, <2>6, <3>1
    <3> QED
      BY <2>1, <2>5, <3>3, <3>4 DEF CallsInOrder
  <2> QED
    BY <2>7, <2>8, <2>9
<1>11. CASE UNCHANGED <<vars, listingVars>>
  <2>1. UNCHANGED <<listing, listOffset, listChunk, lines, index, calls, registry, loaded>>
    BY <1>5, <1>11 DEF listingVars
  <2> QED
    BY <1>0, <2>1 DEF ListingTyped, LinesInOrder, CallsInOrder
<1> QED
  BY <1>6, <1>7, <1>8, <1>9, <1>10, <1>11 DEF ListingNext

\* Each call of run_properties.sh selects the one property it was listed for, with its
\* expectation and issue, and none is left out.
THEOREM EveryCallSelectsOne == ListingSpec => []EveryCallIsOneProperty
<1>1. ASSUME ListingInv PROVE EveryCallIsOneProperty
  <2>1. RegistryInv /\ ListingTyped /\ LinesInOrder /\ CallsInOrder
    BY <1>1 DEF ListingInv, ScanInv
  <2>2. /\ listing \in {"none", "scanning", "finished"}
        /\ DOMAIN calls = 1..index /\ index \in Nat /\ Len(lines) \in Nat
    <3>1. calls \in Seq({CallFor(p) : p \in Properties}) /\ Len(calls) = index
      BY <2>1 DEF ListingTyped, CallsInOrder
    <3> QED
      BY <2>1, <3>1 DEF ListingTyped
  <2>3. ASSUME listing = "finished"
        PROVE  /\ registry \in Seq(Properties) /\ IsInjective(registry) /\ ToSet(registry) = Properties
               /\ DOMAIN registry = 1..Len(registry) /\ Len(registry) \in Nat
                    /\ Len(registry) = Len(lines)
    <3>1. registry \in Seq(Properties) /\ IsInjective(registry) /\ ToSet(registry) = Properties
      BY <2>1, <2>3, LoadedRegistry DEF ListingTyped
    <3>2. Len(lines) + Len(listChunk) = Len(registry) /\ listChunk = <<>>
      BY <2>1, <2>3 DEF LinesInOrder
    <3>3. Len(registry) = Len(lines)
      BY <2>2, <3>2
    <3> QED
      BY <3>1, <3>3
  <2>4. ASSUME NEW n \in DOMAIN calls
        PROVE  /\ {i \in DOMAIN registry :
                      registry[i].suite = calls[n].suite /\ registry[i].name = calls[n].property} = {n}
               /\ registry[n].expectation = calls[n].expectation
               /\ registry[n].issue = calls[n].issue
    <3>1. n \in 1..index /\ index > 0 /\ index <= Len(lines)
      BY <2>1, <2>2 DEF CallsInOrder
    <3>2. calls[n] = CallFor(registry[n]) /\ listing = "finished"
      BY <2>1, <3>1 DEF CallsInOrder
    <3>3. n \in DOMAIN registry
      BY <2>2, <2>3, <3>1, <3>2
    <3>4. /\ calls[n].suite = registry[n].suite /\ calls[n].property = registry[n].name
          /\ calls[n].expectation = registry[n].expectation /\ calls[n].issue = registry[n].issue
      BY <3>2 DEF CallFor
    <3>5. ASSUME NEW i \in DOMAIN registry,
                 registry[i].suite = registry[n].suite, registry[i].name = registry[n].name
          PROVE  i = n
      <4>1. registry[i] \in Properties /\ registry[n] \in Properties
        BY <2>3, <3>2, <3>3
      <4>2. registry[i] = registry[n]
        BY <3>5, <4>1, UniqueNames
      <4> QED
        BY <2>3, <3>2, <3>3, <4>2 DEF IsInjective
    <3> QED
      BY <3>3, <3>4, <3>5
  <2>5. ASSUME listing = "finished", index = Len(lines)
        PROVE  Len(calls) = Cardinality(Properties)
    <3>1. Len(calls) = Len(registry)
      BY <2>1, <2>3, <2>5 DEF CallsInOrder
    <3> QED
      BY <2>3, <2>5, <3>1, InjectiveLength
  <2> QED
    BY <2>2, <2>4, <2>5 DEF EveryCallIsOneProperty
<1> QED
  BY <1>1, ListingInitInv, ListingStepInv, PTL DEF ListingSpec
=============================================================================
