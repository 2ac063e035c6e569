---------------------------- MODULE FuzzingCheck ----------------------------
(***************************************************************************)
(* The table function fuzzing_check(): a client's query is bound against   *)
(* the registry, then DuckDB fetches its rows chunk by chunk, and each row *)
(* is one RunProperty.  A client may replay a row it got with the call     *)
(* triage.py prints in the issue (reproduce_sql).                          *)
(***************************************************************************)
EXTENDS PropertyRegistry, PropertyRunner

CONSTANTS
    Asked,                  \* the calls clients make, replays aside
    DefaultDiscardRatio,    \* the default of max_discard_ratio
    VectorSize              \* STANDARD_VECTOR_SIZE

Names == STRING \ {""}

ASSUME CheckAssumption ==
    /\ DefaultDiscardRatio \in DiscardRatios
    /\ VectorSize \in Nat \ {0}
    /\ Properties = UNION {ToSet(CasesOf[f]) : f \in PropertyFiles}
    /\ \A p \in Properties : p.suite \in Names /\ p.name \in Names

\* A filter selects by a name, or with "" (a NULL suite) everything.
Filters == Names \cup {""}

\* null: a named parameter is NULL.
Queries == [suite : Filters, property : Filters, options : Options, null : BOOLEAN]

ASSUME AskedAssumption == Asked \subseteq Queries

\* "Human readable, unique within the suite."
ASSUME UniqueNames ==
    /\ \A p, q \in Properties : p.suite = q.suite /\ p.name = q.name => p = q
    /\ \A f, g \in PropertyFiles : f # g => ToSet(CasesOf[f]) \cap ToSet(CasesOf[g]) = {}
    /\ \A f \in PropertyFiles : IsInjective(CasesOf[f])

VARIABLES
    query,        \* the query being answered
    scan,         \* "none", "scanning", "finished" or "failed"
    bound,        \* FuzzingCheckBindData.properties
    offset,       \* FuzzingCheckState.offset
    chunk,        \* the rows of the output chunk being filled
    delivered,    \* the rows of the chunks DuckDB has taken
    interrupted,  \* whether the client has asked to cancel the query
    replayOf      \* the row the query replays and the options behind it, or NoRow

scanVars == <<query, scan, bound, offset, chunk, delivered, interrupted, replayOf>>
vars == <<registryVars, runnerVars, scanVars>>

NoQuery == [suite |-> "", property |-> "", options |-> Some(Options), null |-> FALSE]

NoRow == [row |-> DefaultResult, options |-> Some(Options), exists |-> FALSE]

Init ==
    /\ RegistryInit
    /\ RunnerInit
    /\ query = NoQuery
    /\ scan = "none"
    /\ bound = <<>>
    /\ offset = 0
    /\ chunk = <<>>
    /\ delivered = <<>>
    /\ interrupted = FALSE
    /\ replayOf = NoRow

-----------------------------------------------------------------------------
Matches(q, c) ==
    /\ q.suite # "" => c.suite = q.suite
    /\ q.property # "" => c.name = q.property

\* The properties the filter loop of FuzzingCheckBind selects.
Selected(q) ==
    LET upTo[n \in 0..Len(registry)] ==
            IF n = 0 THEN <<>>
            ELSE IF Matches(q, registry[n]) THEN Append(upTo[n - 1], registry[n])
            ELSE upTo[n - 1]
    IN upTo[Len(registry)]

\* A NULL parameter, max_success = 0 and a filter nothing matches are errors.
Rejected(q) ==
    \/ q.null
    \/ q.options.max_success = 0
    \/ Selected(q) = <<>>

FuzzingCheckBind(q, replayed) ==
    /\ loaded
    /\ query' = q
    /\ replayOf' = replayed
    /\ bound' = IF Rejected(q) THEN <<>> ELSE Selected(q)
    /\ scan' = IF Rejected(q) THEN "failed" ELSE "scanning"
    /\ offset' = 0
    /\ chunk' = <<>>
    /\ delivered' = <<>>
    /\ interrupted' = FALSE
    /\ UNCHANGED <<registryVars, runnerVars>>

\* Bound: a session is one call and one replay.  No state outlives a call.
Ask ==
    /\ scan = "none"
    /\ \E q \in Asked : FuzzingCheckBind(q, NoRow)

\* reproduce_sql: the call triage.py prints for a row.
ReproduceSql(row) ==
    [suite |-> row.property.suite, property |-> row.property.name, null |-> FALSE,
     options |-> [max_success |-> row.reproduce.max_success,
                  max_size |-> row.reproduce.max_size,
                  max_discard_ratio |-> DefaultDiscardRatio,
                  no_shrink |-> row.reproduce.noshrink,
                  seed |-> row.reproduce.seed]]

Replay ==
    /\ scan = "finished"
    /\ ~replayOf.exists
    /\ \E i \in DOMAIN delivered :
         FuzzingCheckBind(ReproduceSql(delivered[i]),
                          [row |-> delivered[i], options |-> query.options, exists |-> TRUE])

-----------------------------------------------------------------------------
\* Mutants of MoreToRun: the chunk is never full; the last property is not run.
MoreToRunUnbounded == offset < Len(bound)
MoreToRunOffByOne == Len(chunk) < VectorSize /\ offset + 1 < Len(bound)

\* The condition of the loop in FuzzingCheckFunction.
MoreToRun == Len(chunk) < VectorSize /\ offset < Len(bound)

StartProperty ==
    /\ scan = "scanning"
    /\ pc = "idle"
    /\ MoreToRun
    /\ ~interrupted
    /\ Call(bound[offset + 1], query.options)
    /\ UNCHANGED <<registryVars, scanVars>>

RunProperty ==
    /\ RunnerStep
    /\ UNCHANGED <<registryVars, scanVars>>

\* RunProperty returned: its result is a row of the chunk.
EmitRow ==
    /\ pc = "returned"
    /\ Return
    /\ offset' = offset + 1
    /\ chunk' = Append(chunk, result)
    /\ UNCHANGED <<registryVars, query, scan, bound, delivered, interrupted, replayOf>>

\* The query fails, and the rows of the chunk that was being filled are lost.
Abort ==
    /\ scan' = "failed"
    /\ chunk' = <<>>
    /\ UNCHANGED <<registryVars, query, bound, offset, delivered, interrupted, replayOf>>

PropertyThrew ==
    /\ pc = "threw"
    /\ Return
    /\ Abort

\* InterruptCheck throws: only between two properties.
InterruptCheck ==
    /\ scan = "scanning"
    /\ pc = "idle"
    /\ MoreToRun
    /\ interrupted
    /\ Abort
    /\ UNCHANGED runnerVars

\* The chunk is full, or there is nothing left: DuckDB takes it.
FlushChunk ==
    /\ scan = "scanning"
    /\ pc = "idle"
    /\ ~MoreToRun
    /\ chunk # <<>>
    /\ delivered' = delivered \o chunk
    /\ chunk' = <<>>
    /\ UNCHANGED <<registryVars, runnerVars, query, scan, bound, offset, interrupted, replayOf>>

\* An empty chunk ends the scan.
EndScan ==
    /\ scan = "scanning"
    /\ pc = "idle"
    /\ ~MoreToRun
    /\ chunk = <<>>
    /\ scan' = "finished"
    /\ UNCHANGED <<registryVars, runnerVars, query, bound, offset, chunk, delivered, interrupted,
                   replayOf>>

\* (external) The client cancels the query.
Interrupt ==
    /\ scan = "scanning"
    /\ ~interrupted
    /\ interrupted' = TRUE
    /\ UNCHANGED <<registryVars, runnerVars, query, scan, bound, offset, chunk, delivered, replayOf>>

LoadExtension == RegistryNext /\ UNCHANGED <<runnerVars, scanVars>>

Next ==
    \/ LoadExtension
    \/ Ask
    \/ Replay
    \/ StartProperty
    \/ RunProperty
    \/ EmitRow
    \/ PropertyThrew
    \/ InterruptCheck
    \/ FlushChunk
    \/ EndScan
    \/ Interrupt

Spec == Init /\ [][Next]_vars

-----------------------------------------------------------------------------
Rows == delivered \o chunk

\* Every variable has the type the code gives it.
TypeOK ==
    /\ RunnerTypeOK
    /\ linked \subseteq PropertyFiles
    /\ registered \in [PropertyFiles -> Nat]
    /\ registry \in Seq(Properties)
    /\ loaded \in BOOLEAN
    /\ query \in Queries
    /\ scan \in {"none", "scanning", "finished", "failed"}
    /\ bound \in Seq(Properties)
    /\ offset \in 0..Len(bound)
    /\ chunk \in Seq(Results) /\ Len(chunk) <= VectorSize
    /\ delivered \in Seq(Results)
    /\ interrupted \in BOOLEAN
    /\ replayOf.row \in Results /\ replayOf.options \in Options /\ replayOf.exists \in BOOLEAN

\* "Runs properties and returns one row each": across chunk boundaries the rows
\* of a query are those of the properties its filters select, one each, in
\* registration order, and a query that finishes has delivered all of them.
OneRowEach ==
    /\ scan \in {"scanning", "finished"} =>
          /\ Len(Rows) = offset
          /\ \A i \in 1..offset : Rows[i].property = bound[i]
    /\ scan = "finished" =>
          /\ {r.property : r \in ToSet(delivered)} = {p \in Properties : Matches(query, p)}
          /\ Len(delivered) = Cardinality({p \in Properties : Matches(query, p)})

\* RapidCheck decided the row's status: the run was neither skipped nor broken off.
Searched(row) == row.description \in {"", "fixed upstream", "falsified", "gave up"}

SameRun(row, other) ==
    /\ row.status = other.status
    /\ row.cases = other.cases
    /\ row.shrinks = other.shrinks

\* The replay of a row has finished, its seed is a concrete one and RapidCheck
\* decided both runs.
Replayed ==
    /\ replayOf.exists
    /\ scan = "finished"
    /\ replayOf.row.reproduce.seed # 0
    /\ Searched(replayOf.row)
    /\ Searched(delivered[1])

\* The call printed for a row of a query that left max_discard_ratio alone runs
\* that one property again and comes to the same status, with as many cases
\* and shrink steps, though it goes through other filters and options.
ReplayReproduces ==
    /\ replayOf.exists /\ scan = "finished" =>
          Len(delivered) = 1 /\ delivered[1].property = replayOf.row.property
    /\ Replayed /\ replayOf.options.max_discard_ratio = DefaultDiscardRatio =>
          SameRun(delivered[1], replayOf.row)

\* property_runner.hpp:59: "Named arguments that reproduce this exact run".
ReproducesExactRun == Replayed => SameRun(delivered[1], replayOf.row)

\* property_runner.hpp:66: "Never throws: any escaping exception becomes a FAIL".
NeverThrows == pc # "threw"
=============================================================================
