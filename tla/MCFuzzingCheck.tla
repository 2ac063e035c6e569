--------------------------- MODULE MCFuzzingCheck ---------------------------
(***************************************************************************)
(* Two property files: one with a property of each of two suites (the      *)
(* second needs an extension that is not loaded), and the known issues.    *)
(* Two properties of different suites share a name; only the probe has an  *)
(* issue.                                                                  *)
(***************************************************************************)
EXTENDS PropertyListing

Case(suite, name, issue, expectation, extension, deterministic) ==
    [suite |-> suite, name |-> name, issue |-> issue, expectation |-> expectation,
     requires_extension |-> extension, deterministic |-> deterministic]

Trim == Case("strings", "trim", "", "pass", "", FALSE)
JsonTrim == Case("roundtrip", "trim", "", "pass", "json", FALSE)
Probe == Case("known", "probe", "25107", "known_fail", "", TRUE)

MCPropertyFiles == {"strings", "known_issues"}
MCCasesOf == [f \in MCPropertyFiles |-> IF f = "strings" THEN <<Trim, JsonTrim>> ELSE <<Probe>>]
MCProperties == {Trim, JsonTrim, Probe}

Request(suite, name, success, ratio, noShrink, seed) ==
    [suite |-> suite, property |-> name, null |-> FALSE,
     options |-> [max_success |-> success, max_size |-> 1, max_discard_ratio |-> ratio,
                  no_shrink |-> noShrink, seed |-> seed]]

\* Everything with one case each; every filter; a seed of the client's own;
\* no shrinking; another discard ratio; and each error: max_success = 0, one
\* that does not fit an int, a filter nothing matches, a NULL parameter.
MCAsked ==
    { Request("", "", 1, 1, FALSE, 0),
      Request("strings", "", 2, 1, FALSE, 0),
      Request("strings", "trim", 2, 0, FALSE, 1),
      Request("", "trim", 1, 2, FALSE, 1),
      Request("", "trim", 2, 1, TRUE, 1),
      Request("known", "", 2, 1, FALSE, 0),
      Request("", "", 4, 1, FALSE, 1),
      Request("known", "", 4, 1, TRUE, 1),
      Request("", "", 0, 1, FALSE, 1),
      Request("strings", "probe", 1, 1, FALSE, 1),
      [Request("", "", 1, 1, FALSE, 1) EXCEPT !.null = TRUE] }
=============================================================================
