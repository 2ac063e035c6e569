------------------------------ MODULE MCStorage ------------------------------
(***************************************************************************)
(* Up to four rows of two values, so that deleting id 1 moves the rows     *)
(* that are overwritten; two processes that may get the same of two pids.  *)
(***************************************************************************)
EXTENDS Storage

MCInputs ==
    [values : {<<>>, <<"x">>, <<"x", "y">>, <<"x", "y", "y", "y">>},
     do_delete : BOOLEAN, do_update : BOOLEAN]
=============================================================================
