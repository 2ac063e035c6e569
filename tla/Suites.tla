-------------------------------- MODULE Suites --------------------------------
(***************************************************************************)
(* What the properties of different suites do with the database of their   *)
(* run, on one version of DuckDB: the probes of "known", the round trips   *)
(* with their guards against the issues that are open in that version, and *)
(* in any suite the cases and shrinks that share a database.               *)
(***************************************************************************)
EXTENDS KnownIssues, SharedDatabase, Roundtrip

VARIABLES
    suite     \* whose property is run

\* Each suite is run from all of its own initial states.
SuitesInit ==
    /\ Init /\ RoundtripInit /\ SharedInit
    /\ suite \in {"known", "roundtrip", "any"}
    /\ suite # "roundtrip" => way = "text"
    /\ suite = "any" => open = CHOOSE issues \in Versions : TRUE
    /\ suite # "any" => /\ effect = [c \in Cases |-> "holds"]
                        /\ generated = [n \in 1..MaxSuccess |-> 0]
                        /\ ~noShrink

SuitesNext ==
    \/ suite = "known" /\ Next /\ UNCHANGED <<suite, roundtripVars, sharedVars>>
    \/ suite = "roundtrip" /\ RoundtripNext /\ UNCHANGED <<suite, vars, sharedVars>>
    \/ suite = "any" /\ SharedNext /\ UNCHANGED <<suite, vars, roundtripVars>>

SuitesSpec == SuitesInit /\ [][SuitesNext]_<<suite, vars, roundtripVars, sharedVars>>
=============================================================================
