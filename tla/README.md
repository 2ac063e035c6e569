# Verification of duckdb-fuzzing

TLA+ specifications of the DuckDB property-testing extension, of the scripts that
run it and of the workflow that files its findings, with the TLC runs that check
them and TLAPS proofs of the central results. Paths below are relative to the
repository; line numbers are in `PROJECT.json`.

## 1. The system

| component | source | state it keeps | operations |
|---|---|---|---|
| property registry | `fuzzing_property.hpp` (macros, anchors), `property_runner.cpp`, `fuzzing_extension.cpp` | the vector of `PropertyCase`s, filled by static initializers | `Register`, `All`, `Suites`, `LoadInternal` |
| property runner | `property_runner.cpp/.hpp` | per call: RapidCheck's parameters, counters, the result | `RunProperty` |
| `fuzzing_check()` | `fuzzing_extension.cpp` | bind data (properties, options), scan offset, output chunk | bind, init, fetch a chunk |
| `fuzzing_properties()`, `fuzzing_version()` | `fuzzing_extension.cpp` | scan offset | listing only |
| run scripts | `scripts/run_properties.sh`, `crash_record.py`, `annotate_sanitizer.py` | output directory, logs, index, exit status | list, launch, keep, annotate, record a crash |
| triage | `scripts/triage.py` | result rows, known issues, findings to go | load, ensure label, list issues, comment, create, summarise |
| nightly workflow | `.github/workflows/NightlyPropertyRun.yml` | queued and running jobs | trigger, build, run suites, triage, conclude |
| suites | `src/properties/prop_*.cpp` | oracles; `storage` also scratch files, `arithmetic` a setting of the shared connection, `roundtrip` a table in the shared database | one body per property |
| generators | `src/properties/generators.cpp` | none | random types and values; UTF-8 conversion |
| database wrapper | `fuzzing_property.hpp` (`PropDB`, `ValuesEqual`) | one connection | query, compare |
| release plumbing | `extension-upload.sh`, `MainDistributionPipeline.yml`, build files | none | - |

How they interact. Static initializers fill the registry before `LoadInternal`
runs. A query on `fuzzing_check()` selects properties from the registry and calls
`RunProperty` for each, which runs the body through RapidCheck against a database
of its own; a body compares DuckDB's answers with its oracle. `run_properties.sh`
starts one DuckDB process per property, which writes its row to a JSON file; the
script decides from the file and the log what that process reported. `triage.py`
reads the files and files issues on GitHub, which outlive the workflow run. The
workflow runs the two one after the other, every night and by hand.

What is hard: a process may die or be killed at any point of writing its result,
and everything it left is still interpreted; the output directory and GitHub keep
what earlier runs left; `triage.py` looks up issues and creates them later, while
people, other runs and failing calls interfere; both steps of the workflow that
could notice a failure continue on error; a scratch file outlives a killed
process; a setting of a connection, a table and an invalid database outlive a case; the
guards of the suites have to follow which issues of DuckDB are open. And the oracles are the kind of
arithmetic (calendars, bounded integers, 1-based positions from either end, bytes
against characters) that is wrong for inputs nobody tries. `PROJECT.json` lists
each hazard with its line and the properties that would catch it.

What makes each part correct, in short: the registry is complete and in order; a
verdict is backed by the cases behind it; a query has one row per selected property
and its printed reproduction reproduces it; a report belongs to this run and this
property, and what died is a finding; there is one open issue per finding, and a
finding that persists has one; a suite raises an alarm if and only if DuckDB was
wrong, known issues aside; a probe tells whether its issue is open.

## 2. Modules

| module | models | state and actions against the code |
|---|---|---|
| `PropertyRegistry` | link anchors, static registration, `LoadInternal`, `Suites` | `linked` is the linker's choice among the sets that hold every anchored file; `Register(f)` is one static initializer, units in any order |
| `PropertyRunner` | `RunProperty` | `pc` follows the function: `called` (parameters, before the `try`), `open` (database, extension test), `search` (RapidCheck), `returned` or `threw`. One action per branch of the result |
| `FuzzingCheck` | `fuzzing_check()`; extends the two above | `FuzzingCheckBind`, then `StartProperty` / `RunProperty` / `EmitRow` per iteration of the loop, `FlushChunk` and `EndScan` when it is left; `Interrupt` and `InterruptCheck`; `Replay` runs the call that `reproduce_sql` prints |
| `PropertyListing` | `fuzzing_properties()` and the loop of `run_properties.sh` that reads it; extends `FuzzingCheck` | `ListRow` and `PrintChunk` per iteration and chunk of the scan, `ReadEntry` per line; a process either lists or answers `fuzzing_check()` |
| `RunProperties` | the three run scripts | one iteration is `Launch`, the process's own actions (external: `CreateFile`, `WriteSome`, `WriteRow`, `Diagnose`, exit, death, `ProcessKilled` by the timer) and one of `Keep`, `Annotate`, `RecordCrash` |
| `SuiteReport` | abstract: what a run promises the reader of its directory | - |
| `Triage` | `triage.py`, one instance per workflow run, against GitHub | one action per call of `gh`, because anything may happen between two calls |
| `Nightly` | the workflow; extends `Triage` | `phase` is queued, building (all steps up to the suites), triage; `Conclude` stands for the last three steps and the end of the runner |
| `IssueQueue` | abstract: the triage queue. Findings come up, and each gets an issue if it has none at that moment, is passed over if it has one (or people just closed it), or is given up | - |
| `Storage` | the property of `prop_storage.cpp` over several processes | one action per statement of the body and per open/close of the file |
| `Arithmetic` | `prop_arithmetic.cpp`, integer and HUGEINT properties | one action per query and per check; `nullOnZero` is the setting of the shared connection |
| `Decimals` | `prop_arithmetic.cpp`, DECIMAL + and - | `CheckWidth` is the precondition, then the two queries and the checks |
| `Calendar`, `Clock` | oracles of `prop_datetime.cpp` | the oracles are operators; the actions walk a calendar, and a clock, beside them, from starts given by the calendar's own rule |
| `CIntegers` | C++ division, remainder and conversions; `Power` is a loop that multiplies | operators |
| `Numbers` | composes the four: what a process of the suites `arithmetic` and `datetime` tests | `Decimals` is an instance that shares the program counter and the answers of `Arithmetic` |
| `Utf8`, `LikeOracle`, `TextOracles`, `EditDistance`, `ListOracles` | oracles of `prop_strings.cpp` and `prop_lists.cpp` and the conversions of `generators.cpp` | operators; loops are sets, folds or recursive functions |
| `Texts` | the suites `strings` and `lists` as TLC runs them | grows the inputs element by element |
| `Values` | the types and values of `generators.cpp`, with the options that are passed down, and the walks, filters and comparisons of `fuzzing_property.hpp` | operators; a walk is the levels of a type or value, each made of the parts of the one before, down to the depth that `GenType(2)` allows |
| `Roundtrip` | the five properties of `prop_roundtrip.cpp` | `Draw` a case, `CheckPrecondition`, one action per statement; `table` stays from case to case |
| `OpenIssues` | external: which issues are open in the version of DuckDB | `open` |
| `KnownIssues` | the probes of `prop_known_issues.cpp` and what is reported of them | one action per query, `RecordCrash` for a process that died |
| `SharedDatabase` | the one `PropDB` under all cases and shrinks of a run of `RunProperty` | one action per case or shrink that RapidCheck tries; `effect` is what each case does to a usable database |
| `Suites` | composes the three on one version of DuckDB: `open` are the issues that are open in it | extends the three; a process is of one of them; guards and probes are about the same issues; #24975 is open in parts, one per probe of it |
| `FuzzingCheckProofs`, `RunPropertiesProofs`, `NightlyProofs`, `StorageProofs`, `SuiteProofs`, `NumbersProofs`, `TextsProofs` | theorems about the module of that name, with `FuzzingCheckProofs` also about `PropertyRegistry`, `PropertyRunner` and `PropertyListing`, `TextsProofs` about the oracles that `Texts` composes, and `SuiteProofs` about `KnownIssues`, `SharedDatabase`, `Roundtrip` with `Values`, and `Suites` | - |
| `Induction` | theorems the proofs share: induction over the natural numbers, that a loop has a value, and what sequences of sequences come to when they are put together or spread | - |

The control is kept whole; data is reduced to what the properties tell apart. A
description is its kind, a counterexample is left out, an issue is its fingerprint,
a result file is absent, empty, partly written or complete. A conversion is
modelled by what it does: `FormatReproduce` drops `max_discard_ratio` as in the
code, `MakeTyped` wraps, UTF-8 is encoded bit by bit, `Fields` keeps an empty field, a
TIMETZ offset is printed and read again field by field (`PrintedOffset`,
`ParsedOffset`), a DECIMAL is rendered digit by digit.

External, modelled from its use: RapidCheck (generates cases; what a seed, a size
and a number of cases produce is a `tape` per such key, written the first time and
read the next), DuckDB (answers, files, logs), the linker, the C++ integer
operations, GitHub and the people on it. Of DuckDB the models assume what
`docs/FINDINGS.md` and the comments say it loses by design or by an open issue
(`Survives`, `Answers`, `RightModulos`), and beside that it may answer anything, which
then counts as wrong. What DuckDB has written to a result file
when it dies is any prefix: a nondeterministic choice of the environment.

## 3. Runs

All bounds are constants in the `.cfg` files or definitions of the `MC` modules.

| run | states | what it shows |
|---|---|---|
| `fuzzing_check` | 466 k | `RegistryComplete`: nothing the linker drops or reorders loses a property. `VerdictBacked`: no pass without its cases, no give-up without its discards. `OneRowEach`: rows across chunk boundaries, interrupts and exceptions. `ReplayReproduces`: the printed call gives the same verdict. `EveryCallIsOneProperty`: the script calls every property once, with its own issue and expectation |
| `run_properties` | 142 k | `ReportsAreFresh`, `SilentDeathIsReported`, `StatusIsNews`, `RunEnds`, and that the script implements `SuiteReport` |
| `nightly` | 31 k | `OneOpenIssue`, `EveryFindingIsFiled`, `IssuesAreFindings`, `GreenMeansNoFinding`, `PersistentFindingIsFiled`, and that the workflow implements `IssueQueue`. Deadlock is checked |
| `storage` | 782 k | `NoFalseAlarm` and `DamageIsFound` over kills and pid reuse |
| `numbers` | 1.4 M | `AlarmsAreTrue`, `WrongAnswersAreFound` for every operand of integers, HUGEINT and DECIMALs; `OraclesFollowTheCalendar`, `OraclesFollowTheClock`; `OnlyUnsafePartsAreDiscarded` |
| `texts` | 79 k | ten properties of the string and list oracles, for every input up to the bounds |
| `suites` | 521 k | `RoundtripVerdictsAreTrue`: the guards and filters keep out everything that is lost, at any depth of a value. `DiscardsAreLossy`: the two `RC_PRE` guards keep out nothing else (of the `suchThat` filters and of wide UHUGEINTs that is not claimed). `VerdictTellsIssue` for probes that are asked, skipped or never begun. `FailuresHaveACulprit` for runs on a shared database |

Why the bounds are enough.
- `fuzzing_check`: up to three properties in two files with chunks of two rows, so a
  query needs a second chunk; `max_success` 0 (rejected), 1, 2 and 4, with
  `IntMax` 3, so 4 is the option that does not fit; discard ratios below, at and
  above the default; seed 0 (random) and 1. One call and one replay: no state other
  than the registry outlives a call. Only the probe has an issue, so that an empty field
  occurs in a line, and the third property is listed in a chunk of its own.
- `run_properties`: three properties, one of them a known failure, listed in
  different orders and with an entry that cannot be parsed; two runs over one
  directory. The script's only memory is its index, its status and the files.
- `nightly`: one scheduled run and one by hand at a time, because the concurrency
  group keeps one in progress and one waiting; two fingerprints, one expected to
  fail, so that a triage can fail between two findings. Either may report anything its
  expectation allows, nothing, or a file that cannot be decoded.
- `storage`: ids 0 to 3 reach both the deleted residue 1 and updated rows after it;
  two processes and two pids reach a path used twice.
- `numbers`: types of 2 bits and a HUGEINT of 5 against an `__int128` of 5, which
  keeps the relations that matter: a HUGEINT is as wide as the wide type, whose minimum
  is reserved, and a product of two of them overflows it (that a product of integers does, the
  branch `int128_overflow`, needs wider types than 2 bits and is left to the proof). DECIMALs of up to four binary
  digits just fit into 5 bits, as 38 decimal digits just fit into 128, and every pair of
  widths and scales occurs. Six walks of 900 days start at an era boundary, before year
  0, at 1970, at leap and century years; the range of DATE begins and ends within two of
  them, in the middle of a month. The clock has units of two to four smaller ones and
  ticks from two days before the epoch to two after, so that every hand turns on both
  sides.
- `texts`: LIKE subjects up to 3 and patterns up to 4 characters over wildcards, an
  escape, an upper and a lower case letter; characters of one to four bytes that
  share continuation bytes; words up to 3 letters of 3; lists up to 5 with NULLs; all
  ranges over 4-bit integers (`IntLimit`).
- `suites`: the thirteen probes of `prop_known_issues.cpp`, the three of #24975 each about
  a part of it that is open by itself, on four versions (all issues
  open, those `docs/FINDINGS.md` has open, one part of #24975, none); every scalar type a filter
  mentions with the values on both sides of each limit, below every nested type, some two
  deep, which is as deep as `GenType` goes by default (`MaxDepth`); columns of up to two
  values of four types; four cases, of which a run generates two, and two runs with one
  seed.

Deadlock is not checked where the system stops: the bounds end the sessions, runs,
processes or inputs. The nightly model has no such end.

Fairness. `RunProperties`: the shell goes on to its next command (`WF(Script)`) and
the timer of `timeout --signal=KILL` expires (`WF(ProcessKilled)`); nothing is
assumed of DuckDB. `Nightly`: GitHub runs what it queued (`WF(JobStep(j))`), and
`timeout-minutes` ends whatever hangs. That there are nights at all, that builds succeed and
what is reported is left to the antecedent of `PersistentFindingIsFiled`: again and again some
run that is to file issues reports the finding and has results that `triage.py` can read.
Besides, `calm` has to hold from some point on, which is exactly that calls of `gh` succeed and
no triage in progress is cancelled. Also under `calm` builds fail, runs break off, properties
report nothing and files are torn or cannot be decoded, as long as not every time. A finding
whose own process leaves a torn file every night is never filed: `triage.py:47-51` drops
the file, which is the other half of the run `dead_process_is_recorded`. A file that is cut
inside a character raises `UnicodeDecodeError` there and ends the triage of that night
(`Readable`).

### Runs that end in a violation

Each states what a document or comment says, and TLC finds what the code does.

| run | statement | what the code does |
|---|---|---|
| `reproduces_exact_run` | `property_runner.hpp:59`, "Named arguments that reproduce this exact run" | `max_discard_ratio` is not among them |
| `never_throws` | `property_runner.hpp:66`, "Never throws" | the casts of the options are outside the `try` |
| `sanitizer_means_passed` | `README.md:42`, "the property passed but ASan/UBSan reported a diagnostic" | every row is re-stamped, a failed one too |
| `dead_process_is_recorded` | `README.md:128`, "A property whose process dies is recorded as `crash`" | only if it left no byte in its result file |
| `issues_only_for_fail_and_crash` | `triage.py:18`, "Issues are opened only for `fail` and `crash`" | and for `sanitizer` |

`ReplayReproduces`, `SilentDeathIsReported` and `IssuesAreFindings` are the
statements that do hold in their place.

Three more observations came up while the suites were modelled; no run is spent on
them, because the properties that do hold are the more telling ones.
- `HasKnownTextIssue` (`prop_roundtrip.cpp:20-24`) still discards TIMETZ values with
  sub-minute offsets, which `FINDINGS.md:22` lists as fixed upstream; `README.md:45` says
  to retire a guard once the fix has landed. `DiscardsAreLossy` is therefore stated for
  versions in which the guarded issues are open.
- A case that invalidates the database makes every shrink fail, so the counterexample that is
  reported need not be the "minimal counterexample" of `README.md:13-14`, nor a failure at all.
  `FailuresHaveACulprit` is what holds of it: it is bad by itself, or a bigger case, no bigger
  than the one that was generated, breaks the database.
- The division property asserts issue #25112 (`prop_arithmetic.cpp:202-207`): once it
  is fixed upstream a right answer fails a property that must pass. `AlarmsAreTrue` is
  checked and proved with `ModuloIssueOpen = TRUE`.

## 4. Theorems

For every value of the constants (under the named ASSUMEs of the modules).

- `FuzzingCheckProofs!TypeCorrect` and `VerdictsBacked`, about the runner by itself: `RunnerSpec => []VerdictBacked`
  for all properties, options, `IntMax` and discard ratios. `VerdictBacked` is
  about the moment of return, so it is strengthened to `RunnerInv`: the parameters
  follow the options (`ParamsFollowOptions`), the counters start at zero
  (`CountersStart`), and throughout the search no outcome on the read part of the
  tape is a failure and the discards are within the allowance (`SearchSound`). The
  delicate step is the tape, which a run both extends and re-reads: the lemmas
  `GenerateType`, `GenerateExtends` and `GenerateSound` say that generating a case
  leaves the outcomes already read in place.
- The rest of `FuzzingCheckProofs`, for any files, properties and linker, calls and chunk size, about
  the whole of `fuzzing_check()` and the script that lists and calls properties.
  - `TypesHold`, `RegistryIsComplete`, `CheckVerdictsBacked` and `OneRowForEach` from one
    invariant, `ScanInv`: `RunnerInv`; `RegistryInv`, where a file that is registered is a
    block of the registry (`BlocksRegistered`), no property occurs twice
    (`RegisteredOnce`) and the length is that of the files registered (`SlotsCounted`), so
    that with the last file nothing is missing; and of the scan, that the row in work is
    the next of the selected properties (`RunOfScan`) and that the chunks delivered and the
    open one are, one after the other, the rows of those before it (`RowsInOrder`).
  - `ReplaysReproduce` compares two calls. What both have in common is the `tape` of
    RapidCheck for a seed, size and number of cases: `ReplayInv` says that every outcome of
    a finished run is the one its tape leads to (`RowsOnTape`), and that of a replay
    likewise (`ReplayOnTape`). `EndIsUnique` says a tape leads to one outcome, and the
    steps lemmas that tapes are only ever extended, so that a replay of a seed that was
    used cannot come to another end.
  - `EveryCallSelectsOne` from `ListingInv`: the lines are the registry in its order
    (`LinesInOrder`) and the calls are the lines in theirs (`CallsInOrder`).
- `RunPropertiesProofs!ReportsStayFresh`, `SilentDeathsAreReported`, `ExitStatusIsNews` and
  `RunsReport`, for any listing and any number of runs over one directory: `ReportsAreFresh`,
  `SilentDeathIsReported`, `StatusIsNews` and the refinement of `SuiteReport`. None of the
  three is inductive, for they speak of properties that have been dealt with and are decided
  while one is in progress. `Inv` adds that what was launched is named and what was not has
  no verdict (`LaunchedAreNamed`), that the properties dealt with are the first n, where n is
  `index` between two properties and `index - 1` during one (`FirstOnesReported`), and that
  the current file is complete exactly if there is a verdict, which it then holds
  (`CurrentFile`: this is where the `rm -f` of the launch is needed). `Keep`, `Annotate` and
  `RecordCrash` go through one lemma, `CollectedKeepsInv`, that says what a file has to be
  to be collected; every other step leaves the reports alone (`ReportsStay`). The refinement
  counts the reports by `FirstOnesReported`.
- `NightlyProofs!TypeCorrect`, `IssuesAreSingle`, `FindingsAreFiled`, `GreenIsClean`,
  `FindingsOpenIssues` and `WorkflowImplementsIssueQueue`, for any number of runs and
  properties. The inductive invariant `Inv` adds to the properties: at most one run is in
  progress (`OneInProgress`, from the concurrency group), `todo` holds findings that are
  due (`TodoIsDue`), what was not in `known` when a finding is filed is not open
  (`KnownIsComplete`, which needs `LimitAssumption`: the open issues fit on one page
  of 200), what was in `known` is open or was closed by people (`KnownWasOpen`), and
  the findings that left `todo` have an issue (`FiledSoFar`). `OneOpenIssue` alone is
  not inductive: it is the pair of `OneInProgress` and `KnownIsComplete` that keeps
  `Create` from filing twice. `GreenIsClean` rests on `ZeroIsClean`: a triage exits
  with 0 only after rows none of which is a finding. `TypeOK` is needed with
  `TodoIsDue`, because `todo` has to be within the findings. `FindingsOpenIssues` is about
  steps: only `Create` and people add issues, and `Create` takes from `todo`, which
  `FilingIsAsked` keeps within what may be filed. The refinement maps `due` to what the triage
  in progress has yet to deal with and `gone` to what people closed since it listed the issues;
  that no second triage is at work (`DueOfOne`) is what makes the sets of all runs those of one,
  and `EndsGiveUp` says that however a triage ends it gives up the rest.
- `StorageProofs!AlarmsAreDuckDBs` and `PassesAreTrue`: `NoFalseAlarm` and `DamageIsFound`
  for any number of processes, pids, ids and kills. Both are about the moment of the
  verdict. `Inv` follows a case up to it: the path of a case holds nothing when the case
  starts (`FreshFile`: whatever a killed process with the same pid left
  there is gone, log and all), the expected table is what the statements so far make of the input
  (`TruthFollowsInput`), an open table is that one unless DuckDB damaged it (`OpenTable`),
  and a file that was closed has an empty log and holds it (`ClosedTable`).
- `NumbersProofs!NumbersAlarmsAreTrue`, `NoWrongNumberPasses`, `ClockIsFollowed`,
  `CalendarIsFollowed` and `DiscardsAreNeeded`: for every width of the integers, every width
  and scale of a DECIMAL, every operand of `Numbers`, any range of DATE and any walk.
  - The first two from `NumbersInv`, which is `IntegersInv` or `DecimalsInv` by what the
    process tests: a case goes on only with nothing wrong, and the check is reached with
    `wrong` exactly if DuckDB's answers were not the right ones. Around it are lemmas about
    the C++ the oracles compute in: a quotient that CHOOSE determines is the one C++
    truncates to, nothing the oracles compute wraps while it is in range
    (`OracleIsExact`), HUGEINT quotients avoid the reserved minimum, and two DECIMALs with
    the same digits and scale are the same (`SameDigits`, `DigitsTell`, `RenderedTells`).
    `NumbersAlarmsAreTrue` has the hypothesis `ModuloIssueOpen`: once that issue is fixed
    a right answer fails the property that expects it, which is the last of the
    observations of section 3.
  - The third from `ClockInv`: the hands are in their ranges and, wound into one another,
    count the microseconds since the epoch. The oracles' floor divisions then take off one
    hand after the other, also before the epoch.
  - The last two from `CalendarInv`: the date is a date, `day` is its number, and the oracles
    give the weekday, the ISO year and week and the day of the year that the walk has
    counted. The oracles are first shown to be the calendar's rule (`NewYear`,
    `MonthsBefore`): `SameDays` for DaysFromCivil; for CivilFromDays that
    its divisions find the year of the era (`YearOfDay`) and the month (`MonthOfDay`), so
    that there and back is the identity for every date (`RoundTrip`). The ISO week is the number of its
    Thursday in the Thursday's year, which is the year of a day between two January 1sts
    (`YearOfWeek`). `DiscardsAreNeeded` needs no step of the walk but that dates are in the
    order of their years and months (`YearsInOrder`, `MonthsInOrder`): January 1st is before
    the range only in its first year (`YearIsCut`), the first of the next month beyond it
    only from its last month on (`MonthIsCut`).
- `SuiteProofs!VerdictsTell`: `Spec => []VerdictTellsIssue` for any probes, any
  version of DuckDB, and anything an open issue makes it answer. `VerdictTellsIssue` is
  about finished probes; the inductive `ProbeInv` adds `ProbeRuns`: the database is usable
  and nothing has been answered when the probe is about to ask, an invalid one at the health
  check means that the issue is open, and only an open issue aborts. A probe that ended before
  (skipped, an exception, an error of RapidCheck) is never good. The lemmas `RightCellsOnly`
  and `RightErrorOnly` say that the assertions of a probe hold of the right reply and of no other.
- `SuiteProofs!OwnCasesDecide`: `FailuresHaveACulprit` for any number of runs, cases and
  effects on the shared database. `RunInv` says that while a run generates, the cases passed so
  far are good and the database is usable (`GoodSoFar`), that a run that shrinks has found its
  culprit (`CulpritFound`), and that the counterexample in work is bad itself or below a
  case, not above the culprit, that has broken the database (`ShrinkingExplained`). For the step
  to a smaller one this needs that all shrinks still to be tried are smaller, and that a
  database that is not usable was broken by a case no smaller than the one in work.
- `SuiteProofs!RoundtripVerdictsHold` and `OnlyLossyAreDiscarded`: `RoundtripVerdictsAreTrue` and
  `DiscardsAreLossy` for any types that `GenType` may generate at any depth, any values of
  them, any numbers for the limits, and any version of DuckDB. Both are about the end of a
  case. `RoundtripInv` says on the way there that the value (or each of a column) was drawn from a type the
  filter let through and has passed its guard (`CaseInv`), that the rows of the
  table are the values inserted so far, altered exactly if something is wrong (`TableInv`),
  and that a discarded value has a known issue (`DoneInv`). What carries it is about the data:
  - What a walk visits. `PartsAreVisited`: with a type its parts are visited, because types
    nest no deeper than they were generated. `VisitedAreDrawn`: what is visited n levels
    within a value was itself drawn, of a type the walk over the types visits and with the options of
    the value or those for keys, or it is the entry of a MAP, which is of no type that was
    generated. A level of the type takes at most two of the value, because of the entries,
    so that `ValueDepth` is deep enough.
  - `GuardedSurvive`: so everything in a value that passed is kept by DuckDB, case by case for
    the five ways. An offset survives exactly if its guard says so (`OffsetsKept`), and hours
    do (`HoursKept`); a UHUGEINT that is too wide is caught one level below the list that
    it would spoil; the names of an entry, which no filter sees, are safe.
  - `AllAreLegal`: no key is NULL or there twice, because of the options for keys.
  - `RepliesAreJudged` and `RowsAreJudged`: what a property accepts is what a healthy DuckDB
    answers, no less and no more. Rows in the wrong order can only be accepted when they are
    equal: two that changed places would each have to be the other altered, but what is altered
    twice is not what it was (`AlteredTwiceDiffers`).
  - `GuardsAreNeeded` is the other direction of `OffsetsKept` and `HoursKept`.
- `SuiteProofs!SuitesAreSound`: all four for `SuitesSpec`, which the run checks, because it
  implements the specification of each suite (`SuitesTakeTurns`).
- `TextsProofs`, for texts, patterns and lists of any length and content, and BIGINTs of any
  width. A state of `Texts` is an input, so that its type (`TypesHold`) is all that has to be
  invariant; the theorems are about the oracles.
  - `LikeIsMatching` (`LikeMatchesReference`). The oracle and the matching it is held against
    are recursive functions; each is shown to have a solution (`LikeExists`, `MatchesIs`: a
    round looks only further on in the pattern, so there is one for the last k places for
    every k). `LikeDecides` then looks at the last place of the pattern at which the two
    differ. The delicate step is '%': the code skips a run of them and tries the places in
    order, `PercentsReach` says that a run of '%' reaches what one does. ILIKE is the same
    lemma for other texts (`Alike`): characters of the lowered texts are equal where those of
    the texts match, and the lowered pattern has its escapes and wildcards in the same
    places (`LowerKeeps`, which needs that no escape is a letter).
  - `SlicesAreTaken` and `SlicesFitTogether` (`SlicesAreWindows`, `SlicesTile`): every oracle is
    the part of the text between two places, cut at its ends (`SubstringTo`,
    `SubstringBack`, `SliceIs`, `LeftRight`), and parts that meet are a part (`Adjacent`).
  - `PadsComeOff` (`PadsAreTrimmed`): a trim is the part from the first to the last place it
    keeps (`TrimIs`), and what is added at an end and is to be trimmed leaves these places
    what they were (`PaddedFront`, `PaddedBack`).
  - `RangesAreCounted` (`RangesCountElements`): the values are a progression
    (`OnSteps`), which has as many values as steps (`ProgressionCount`), and the counts
    of the code, which divides as C++ does, are that number (`CountsAreQuotients`).
  - `StrPosIsTrue` (`StrPosCountsCharacters`). A string is related to its text by the places
    behind which its characters end (`Encodes`); a lead byte tells the length
    of a character, so that each is decoded as it was encoded (`DecodedIs`, `DecodesBack`). The
    delicate step is `BytesAligned`: where the bytes of a text are found in a string, they
    begin where a character does, because a continuation byte is never a lead byte, and
    character by character they are the same (`SameCharacters`), as no character's
    bytes begin those of another.
  - `SplitsAreParts` (`SplitsRejoin`): split and replace walk over the same places
    (`Stops`, `PieceOf`, `NextOf`), from the right (`InductionFromTheRight`) as the recursion
    does. What is joined is what the walk passed over (`SplitJoins`), no part holds
    the separator (`PiecesHoldNone`), and by alignment none begins inside a character
    (`PartsBegin`).
  - `TranslationsAreReplacements` (`TranslateReplacesInTurn`): both spread every character into what
    comes for it (`Spread`). A replacement in bytes is one in characters (`ReplaceCharacter`, by
    alignment again), two spreads are one (`SpreadTwice`), and a round of the code for the
    next character leaves alone what came before (`TurnsOn`).
  - `SortsAreMirrored` (`SortsAgree`): a place in a stable sort is the number of values
    that come before, and each place is taken (`EveryPlaceIsTaken`), because the comparisons
    are strict weak orders (`OrdersAreWeak`). The value at a place is then known by how many
    are less and how many no greater (`SortOf`), which are the same
    counts from the other end (`CountsFromBelow`).
  - `DistancesAreSteps` (`DistancesCountEdits`): both distances are cells of a table of the
    distances of beginnings (`Table`): each cell comes from another by a removal, an insertion,
    a substitution or a swap of two letters with what is between them taken out and put in,
    and none of these would have made it less. For the code's loops this is
    `LevenshteinTable` and `DamerauTable`; the code looks back only to the last
    two letters that could have been swapped, which is enough (`LastPairIsBest`).
    Two facts about such tables do not mention the code. No neighbour of a word is nearer by
    more than one step (`NoneIsMuchNearer`): cell by cell the table of one follows that of the
    other within 1 (`CellByCell`). The delicate case is the swap (`SwapFollows`). And some neighbour is nearer
    by one (`OneIsNearer`): from the last cell back over letters that agree, to the first that
    came from elsewhere, whose edit is that neighbour. No sequence of edits is ever reordered.

Assumptions worth knowing:
- `LimitAssumption`: no more open issues than the limit of the listing. `UniqueNames`: the
  source says "unique within the suite" and nothing enforces it. A triage of a concluded run
  does nothing more. DuckDB reserves INT128_MIN as the comment at `prop_arithmetic.cpp:291`
  says (were it a HUGEINT, the `x % y` at line 340 would be undefined for it and -1).
- `ScriptKilled`: the DuckDB process in work dies with the script, as when a job is cancelled and
  its processes are ended. An orphan that goes on writing while a second run uses the
  directory is not modelled.
- `StartsAssumption`: a walk of `Calendar` starts on a day as the calendar's rule has it,
  which does not mention the oracles. `RangeAssumption`: the ends of DATE are dates, and the
  first is not a January 1st (else the condition at `prop_datetime.cpp:74` would discard a
  year whose parts can be found).
- `EscapesAssumption`: an escape is a character that is no letter, or there is none. The code
  draws '\\', '$' and '#'; a letter would be lowered in the pattern and not in the escape.
- `GenTypeAssumption`: the types are ones that `GenType` generates: a nested one has the
  parts and names it needs, and is within at most `MaxDepth` others. `LeavesAssumption`: names
  of the fields of a MAP entry, "key" and "value", are alphanumeric.
- The others give constants their types or say that the bounds of a model are meant:
  `CheckAssumption` (which also names the strings of a row, because the provers do
  not know that a string literal is in STRING), `CasesOfAssumption`, `AskedAssumption`,
  `ListingAssumption`, `ProbesAssumption`, `SharedDatabaseAssumption`, `StorageAssumption`,
  `TypesAssumption`, `DecimalsAssumption`, `ClockAssumption`, `TopicsAssumption`,
  `ValuesAssumption`, `RoundtripAssumption`. TLC evaluates each of them
  on the constants of a run.

How induction is used. The library's induction theorems take an operator as a parameter and
are out of the provers' reach. `Induction` therefore states induction of a set of numbers
(`InductionOverSet`, from `LeastElement`), and says that a loop written as a
recursive function has a value (`RecursiveFunction`): that is enough for `Power` and for
the digits of a number. The levels of a type or value are shown to exist in the same way
(`LevelsAre`), and so are the values (`ValuesAre`). RECURSIVE operators would not be within reach in this
way; no module has one.

Only model-checked:
- liveness (`RunEnds`, `PersistentFindingIsFiled`), because fairness needs ENABLED.

## 5. Not modelled

- Arithmetic: bitwise operators, `greatest`/`least` and floating point, which compare
  DuckDB with the C++ operator or library function of the same name.
- Date and time: date arithmetic (one exact sum is compared) and the `strftime` round
  trip, which has no oracle.
- Strings and lists: `repeat`, `reverse`, case mapping, the encodings and number formatting;
  list resize, concat and aggregates, for the same reason.
- Generators: the weights and the extremes each scalar generator prefers. What can be
  generated is modelled, how often is not.
- The SQL text of the probes and of the round trips.
- `fuzzing_version()` returns a constant. Upload script, distribution pipeline, build
  files and the SQL smoke test have no state of this program.
- Two queries at once in one process: `fuzzing_check` has `MaxThreads` 1, and the
  scripts start a process per property.
- Wording and layout of issues, reports and logs; the reason given for a crash.

## 6. Plan

Done, in the order of importance: runner and `fuzzing_check`, run scripts, triage and
workflow, storage, arithmetic and calendar, strings and lists, round trips, probes, the
shared database, HUGEINT and DECIMAL, timestamps and times, the listing; proofs of all the
safety properties of all of these and of both refinements.

Next:
1. date arithmetic at the limits of the date range;
2. `to_base` and the remaining list properties in `Texts`.
