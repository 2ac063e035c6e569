------------------------------- MODULE Decimals -------------------------------
(***************************************************************************)
(* "decimal addition/subtraction is exact" of prop_arithmetic.cpp: two     *)
(* DECIMALs of different widths and scales are added in an __int128 at the *)
(* scale of the result, and its text compared with that of DuckDB's.  The  *)
(* base, the largest width (38) and the __int128 are scaled down.          *)
(*                                                                         *)
(* DuckDB is external: it answers what arithmetic says, or, if it is wrong,*)
(* something else.                                                         *)
(***************************************************************************)
EXTENDS CIntegers, Sequences

CONSTANTS
    Base,       \* of the digits
    MaxWidth,   \* the most digits a DECIMAL has
    WideBits    \* the width of an __int128

DecimalTypes == {t \in [width : 1..MaxWidth, scale : 0..MaxWidth] : t.scale <= t.width}

\* GenDecimalValue: anything of so many digits, by a remainder or one of the extremes.
Raws(t) == 1 - Power(Base, t.width)..Power(Base, t.width) - 1

VARIABLES
    pc,        \* "idle", "check width", "run" or "check"
    case,      \* the operands: their types and raw values
    sum,       \* what DuckDB answers to + and ...
    diff,      \* ... to -: [kind, raw, type]
    outcome,   \* "none", "pass", "fail" or "discard"
    wrong      \* (history) whether DuckDB answered anything wrong in this case

vars == <<pc, case, sum, diff, outcome, wrong>>

Cases == UNION {[t1 : {t1}, t2 : {t2}, a : Raws(t1), b : Raws(t2)] : t1, t2 \in DecimalTypes}
NoCase ==
    LET t == [width |-> 1, scale |-> 0] IN [t1 |-> t, t2 |-> t, a |-> 0, b |-> 0]

Larger(x, y) == IF x > y THEN x ELSE y

ResultScale(c) == Larger(c.t1.scale, c.t2.scale)
ResultWidth(c) == Larger(c.t1.width - c.t1.scale, c.t2.width - c.t2.scale) + ResultScale(c) + 1
ResultType(c) == [width |-> ResultWidth(c), scale |-> ResultScale(c)]

-----------------------------------------------------------------------------
\* (external) The answer to an operator whose exact result is this.  A width beyond the
\* largest is cut to it, and an error if the result is as well.
RightAnswer(c, exact) ==
    IF ResultWidth(c) <= MaxWidth THEN [kind |-> "value", raw |-> exact, type |-> ResultType(c)]
    ELSE IF AbsOf(exact) < Power(Base, MaxWidth)
    THEN [kind |-> "value", raw |-> exact, type |-> [ResultType(c) EXCEPT !.width = MaxWidth]]
    ELSE [kind |-> "error", raw |-> 0, type |-> ResultType(c)]

AtScale(raw, t, c) == raw * Power(Base, ResultScale(c) - t.scale)
RightSum(c) == RightAnswer(c, AtScale(c.a, c.t1, c) + AtScale(c.b, c.t2, c))
RightDiff(c) == RightAnswer(c, AtScale(c.a, c.t1, c) - AtScale(c.b, c.t2, c))

\* (external) Wrong answers: an error, another value, the opposite one, or another type.
WrongAnswers(right) ==
    {[right EXCEPT !.kind = "error"], [right EXCEPT !.raw = @ + 1], [right EXCEPT !.raw = -@],
     [right EXCEPT !.type.width = @ + 1], [right EXCEPT !.type.scale = @ + 1]}

Digits(u) ==
    LET n == CHOOSE n \in 1..WideBits : u < Power(Base, n) /\ (n > 1 => u >= Power(Base, n - 1))
    IN [i \in 1..n |-> (u \div Power(Base, n - i)) % Base]

\* (external) How DuckDB renders a DECIMAL: its whole part and as many digits as its scale.
Rendered(answer) ==
    LET u == AbsOf(answer.raw)
        scale == answer.type.scale
    IN [minus |-> answer.raw < 0, whole |-> Digits(u \div Power(Base, scale)),
        fraction |-> [i \in 1..scale |-> (u \div Power(Base, scale - i)) % Base]]

-----------------------------------------------------------------------------
\* The digits, with zeros before them up to one more than the scale, and the point.
DecimalToStringValue(raw, scale) ==
    LET u == Digits(AbsOf(raw))
        digits == [i \in 1..Larger(0, scale + 1 - Len(u)) |-> 0] \o u
        point == Len(digits) - scale
    IN [minus |-> raw < 0, whole |-> SubSeq(digits, 1, point),
        fraction |-> SubSeq(digits, point + 1, Len(digits))]

\* xa *= 10 and the sum, in an __int128.
Scaled(raw, t) == Wrapped(raw * Power(Base, ResultScale(case) - t.scale), WideBits)
OracleSum == Wrapped(Scaled(case.a, case.t1) + Scaled(case.b, case.t2), WideBits)
OracleDiff == Wrapped(Scaled(case.a, case.t1) - Scaled(case.b, case.t2), WideBits)

Init ==
    /\ pc = "idle"
    /\ case = NoCase
    /\ sum = RightSum(NoCase) /\ diff = RightDiff(NoCase)
    /\ outcome = "none"
    /\ wrong = FALSE

StartCase ==
    /\ pc = "idle"
    /\ case' \in Cases
    /\ outcome' = "none"
    /\ wrong' = FALSE
    /\ pc' = "check width"
    /\ UNCHANGED <<sum, diff>>

\* The case ends; its locals are gone.
Ends(result) ==
    /\ outcome' = result
    /\ pc' = "idle"
    /\ case' = NoCase
    /\ sum' = RightSum(NoCase) /\ diff' = RightDiff(NoCase)
    /\ UNCHANGED wrong

\* RC_PRE(rw <= 38)
CheckWidth ==
    /\ pc = "check width"
    /\ IF ResultWidth(case) > MaxWidth THEN Ends("discard")
       ELSE pc' = "run" /\ UNCHANGED <<case, sum, diff, outcome, wrong>>

RunOps ==
    /\ pc = "run"
    /\ LET rightSum == RightSum(case)
           rightDiff == RightDiff(case)
       IN /\ sum' \in {rightSum} \cup WrongAnswers(rightSum)
          /\ diff' \in {rightDiff} \cup WrongAnswers(rightDiff)
          \* of - only the value is compared, whose text shows its scale
          /\ wrong' = (sum' # rightSum \/ diff'.kind # rightDiff.kind
                         \/ diff'.raw # rightDiff.raw \/ diff'.type.scale # rightDiff.type.scale)
    /\ pc' = "check"
    /\ UNCHANGED <<case, outcome>>

\* Mutant: of the difference only the error is looked at.
CheckSumOnly ==
    /\ pc = "check"
    /\ Ends(IF /\ sum.kind = "value" /\ diff.kind = "value"
               /\ Rendered(sum) = DecimalToStringValue(OracleSum, ResultScale(case))
               /\ sum.type = ResultType(case)
            THEN "pass" ELSE "fail")

CheckOps ==
    /\ pc = "check"
    /\ Ends(IF /\ sum.kind = "value" /\ diff.kind = "value"
               /\ Rendered(sum) = DecimalToStringValue(OracleSum, ResultScale(case))
               /\ Rendered(diff) = DecimalToStringValue(OracleDiff, ResultScale(case))
               /\ sum.type = ResultType(case)
            THEN "pass" ELSE "fail")

Next ==
    \/ StartCase
    \/ CheckWidth
    \/ RunOps
    \/ CheckOps
=============================================================================
