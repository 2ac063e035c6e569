----------------------------- MODULE SuiteReport -----------------------------
(***************************************************************************)
(* What a property run promises whoever reads its output directory: the    *)
(* properties are reported in the order they are listed in, each of them   *)
(* once, and a report is final.  A run may be broken off and done again    *)
(* from the start.                                                         *)
(***************************************************************************)
EXTENDS Naturals, Sequences

CONSTANTS
    Entry,        \* the properties there are, each with its expectation
    EntryReports  \* the reports a run may make of a property

VARIABLES
    listing,   \* the properties of this run, in order
    reports,   \* the reports made so far, one per property from the first on
    ended      \* "no", "complete" or "aborted"

Init ==
    /\ listing = <<>>
    /\ reports = <<>>
    /\ ended = "aborted"

Start ==
    /\ listing' \in Seq(Entry)
    /\ ended # "no"
    /\ reports' = <<>>
    /\ ended' = "no"

Report ==
    /\ ended = "no"
    /\ Len(reports) < Len(listing)
    /\ \E report \in EntryReports[listing[Len(reports) + 1]] : reports' = Append(reports, report)
    /\ UNCHANGED <<listing, ended>>

\* A run that completes has reported every property.
Complete ==
    /\ ended = "no"
    /\ Len(reports) = Len(listing)
    /\ ended' = "complete"
    /\ UNCHANGED <<listing, reports>>

Abort ==
    /\ ended = "no"
    /\ ended' = "aborted"
    /\ UNCHANGED <<listing, reports>>

Next == Start \/ Report \/ Complete \/ Abort

Spec == Init /\ [][Next]_<<listing, reports, ended>>
=============================================================================
