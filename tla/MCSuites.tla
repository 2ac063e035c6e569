------------------------------- MODULE MCSuites -------------------------------
(***************************************************************************)
(* The probes of prop_known_issues.cpp, in its order, on the version they  *)
(* were written for, on the one FINDINGS.md was checked against, on one    *)
(* with a part of #24975 back, and on one without these issues.            *)
(*                                                                         *)
(* For the round trips every scalar type any filter mentions, with the     *)
(* values around each limit, every nested type over each of them, and a    *)
(* few nested twice.  An hour is 10 micros and has one digit that can be   *)
(* parsed.                                                                 *)
(***************************************************************************)
EXTENDS Suites

Regression(form, issue, cells) ==
    [form |-> form, issue |-> issue, expectation |-> "pass", cells |-> cells, requires |-> FALSE]
RegressionRequires(form, issue, cells) == [Regression(form, issue, cells) EXCEPT !.requires = TRUE]
KnownFail(form, issue, cells) == [Regression(form, issue, cells) EXCEPT !.expectation = "known_fail"]

MCProbes ==
    {Regression("recoverable", "24973", 1), Regression("scalar", TimetzText, 1),
     Regression("literal", StructLiteral, 2), Regression("literal", BitLiteral, 2),
     Regression("literal", UnionLiteral, 2), RegressionRequires("scalar", JsonDecimal, 1),
     KnownFail("recoverable", "25107", 1), KnownFail("scalar", "25108", 2),
     KnownFail("scalar", IntervalText, 1), KnownFail("row", "25110", 3),
     KnownFail("scalar", "25111", 2), KnownFail("scalar", "25112", 1),
     KnownFail("row", "25113", 3)}

MCVersions ==
    {{p.issue : p \in MCProbes}, {p.issue : p \in {q \in MCProbes : q.expectation = "known_fail"}},
     {BitLiteral}, {}}

-----------------------------------------------------------------------------
MCLeaves ==
    [id \in {"INTEGER", "DOUBLE", "TIMESTAMP_TZ", "BIT"} |-> {0}] @@
    [id \in {"VARCHAR", "BLOB", "FLOAT"} |-> {0, 1}] @@
    "UHUGEINT" :> {3, 4} @@
    "TIME_TZ" :> {0, 1, -59, 60, 61, 3600, -3601, 3660, 7201} @@
    "INTERVAL" :> {99, 100, -99, -100} @@
    "DECIMAL" :> {0}

MCScalars ==
    {Scalar(id) : id \in DOMAIN MCLeaves \ {"DECIMAL"}} \cup
    {Decimal(15), Decimal(16), Enum(<<"a", "b">>), Enum(<<"a", "quote">>)}

Plain == Scalar("INTEGER")

\* Every scalar below every nested type, on either side of one with two.
Over(t) ==
    {List(t), Array(t, 2), Struct(<<"a">>, <<t>>), Struct(<<"quote">>, <<t>>), Struct(<<"space">>, <<t>>),
     Struct(<<"a", "b">>, <<Plain, t>>), MapType(t, Plain), MapType(Plain, t),
     Union(<<"a", "b">>, <<Plain, t>>)}

MCTwice ==
    UNION {Over(MapType(Plain, t)) \cup Over(List(t)) \cup {List(s) : s \in Over(t)} :
              t \in {Scalar("VARCHAR"), Scalar("BIT"), Decimal(16)}}

MCStored == {Scalar("VARCHAR"), List(Plain), MapType(Plain, Plain), Struct(<<"quote">>, <<Plain>>)}

MCTypes == MCScalars \cup UNION {Over(t) : t \in MCScalars} \cup MCTwice
=============================================================================
