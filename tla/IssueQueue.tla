----------------------------- MODULE IssueQueue -----------------------------
(***************************************************************************)
(* The triage queue the nightly run keeps on GitHub, as its users see it:  *)
(* now and then some findings come up, and each is dealt with by a look at *)
(* the issues as they are at that moment.  Only people close an issue.     *)
(***************************************************************************)
EXTENDS Naturals

CONSTANT Fingerprints   \* what a finding is known by: suite/property

VARIABLES
    open,   \* the number of open issues of each fingerprint
    due,    \* the findings that are to be dealt with
    gone    \* whose issues people closed since the findings came up

vars == <<open, due, gone>>

Init ==
    /\ open = [f \in Fingerprints |-> 0]
    /\ due = {}
    /\ gone = {}

\* New findings come up, once those before are dealt with or given up.
ComeUp(findings) ==
    /\ due = {} /\ gone = {}
    /\ findings # {}
    /\ due' = findings
    /\ UNCHANGED <<open, gone>>

\* A finding without an open issue gets one.
File(f) ==
    /\ f \in due
    /\ open[f] = 0
    /\ open' = [open EXCEPT ![f] = 1]
    /\ due' = due \ {f}
    /\ UNCHANGED gone

\* A finding gets no second issue while it has one, or had when it came up.
Update(f) ==
    /\ f \in due
    /\ open[f] = 1 \/ f \in gone
    /\ due' = due \ {f}
    /\ UNCHANGED <<open, gone>>

\* What is left is given up, perhaps after one more issue.
GiveUp ==
    /\ due' = {} /\ gone' = {}
    /\ \/ UNCHANGED open
       \/ \E f \in due : open[f] = 0 /\ open' = [open EXCEPT ![f] = 1]

Close(f) ==
    /\ open[f] = 1
    /\ open' = [open EXCEPT ![f] = 0]
    /\ gone' \in {gone, gone \cup {f}}
    /\ UNCHANGED due

Next ==
    \/ \E findings \in SUBSET Fingerprints : ComeUp(findings)
    \/ \E f \in Fingerprints : File(f) \/ Update(f) \/ Close(f)
    \/ GiveUp

Spec == Init /\ [][Next]_vars
=============================================================================
