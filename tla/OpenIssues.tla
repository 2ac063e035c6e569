------------------------------ MODULE OpenIssues ------------------------------
(***************************************************************************)
(* (external) The version of DuckDB under test: which of the issues that   *)
(* the suites know of, by their number upstream, are open in it.  An issue *)
(* about several things is open in parts.                                  *)
(***************************************************************************)
CONSTANTS
    Versions    \* the versions of DuckDB: which issues are open in it

VARIABLES
    open        \* the issues that are open in this one
=============================================================================
