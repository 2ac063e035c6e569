------------------------------ MODULE Arithmetic ------------------------------
(***************************************************************************)
(* The integer properties of prop_arithmetic.cpp: case after case on one   *)
(* database, the answers of DuckDB are compared with what an oracle        *)
(* computes in __int128.  Widths are scaled down: an __int128 has WideBits *)
(* bits, at least twice those of a type, or as many as a HUGEINT has.  The *)
(* properties about division turn a setting of their connection on and off  *)
(* again.                                                                   *)
(*                                                                         *)
(* DuckDB is external: it answers what arithmetic says, or, if it is wrong,*)
(* anything else.                                                          *)
(***************************************************************************)
EXTENDS CIntegers

CONSTANTS
    Types,            \* [bits, signed]; HUGEINT has WideBits
    WideBits,         \* the width of an __int128
    ModuloIssueOpen   \* whether the smallest value % -1 errors (duckdb/duckdb#25112)

ASSUME TypesAssumption ==
    /\ Types \subseteq [bits : Nat \ {0}, signed : BOOLEAN]
    /\ \A t \in Types : 2 * t.bits <= WideBits \/ (t.bits = WideBits /\ t.signed)
    /\ WideBits \in Nat /\ ModuloIssueOpen \in BOOLEAN

VARIABLES
    pc,         \* where the property is: "idle" between two cases
    case,       \* the type, the operator and the operands of the case
    answer,     \* what the first statement answered
    modAnswer,  \* what the second one answered, the modulo
    nullOnZero, \* the setting null_on_division_by_zero of the connection
    outcome,    \* what the case came to: "none", "pass" or "fail"
    wrong       \* (history) whether DuckDB answered anything wrong in this case

arithmeticVars == <<pc, case, answer, modAnswer, nullOnZero, outcome, wrong>>

IsHugeint(t) == t.bits = WideBits

\* (external) Of an __int128 the smallest is not a HUGEINT: DuckDB reserves it.
Smallest(t) ==
    IF IsHugeint(t) THEN 1 - Power(2, t.bits - 1) ELSE IF t.signed THEN -Power(2, t.bits - 1) ELSE 0

TypeRange(t) == Smallest(t)..IF t.signed THEN Power(2, t.bits - 1) - 1 ELSE Power(2, t.bits) - 1

BinaryOperators == {"+", "-", "*"}
Operators == BinaryOperators \cup {"neg", "abs", "//"}

\* Negation, abs and division are run on signed types, HUGEINT is only divided.
OperatorsOf(t) ==
    IF IsHugeint(t) THEN Operators \ {"neg", "abs"}
    ELSE IF t.signed THEN Operators ELSE BinaryOperators

Cases ==
    UNION {[type : {t}, op : OperatorsOf(t), a : TypeRange(t), b : TypeRange(t)] : t \in Types}

\* What a statement answers.
Error == [kind |-> "error", value |-> 0]
Null == [kind |-> "null", value |-> 0]
ValueOf(x) == [kind |-> "value", value |-> x]
Answers(t) == {Error, Null} \cup {ValueOf(x) : x \in TypeRange(t)}

NoCase == CHOOSE c \in Cases : TRUE

ArithmeticInit ==
    /\ pc = "idle"
    /\ case = NoCase
    /\ answer = Null
    /\ modAnswer = Null
    /\ nullOnZero = FALSE
    /\ outcome = "none"
    /\ wrong = FALSE

-----------------------------------------------------------------------------
\* (external) What arithmetic says.
Exactly(t, x) == IF x \in TypeRange(t) THEN ValueOf(x) ELSE Error

Quotient(x, y) ==
    CHOOSE q \in -AbsOf(x)..AbsOf(x) :
        /\ AbsOf(q * y) <= AbsOf(x)
        /\ AbsOf(x) < AbsOf(q * y) + AbsOf(y)
        /\ q # 0 => (q > 0 <=> (x > 0 <=> y > 0))

\* The one division that errors, for HUGEINT too.
SmallestByMinusOne(c) == c.op = "//" /\ c.a = Smallest(c.type) /\ c.b = -1

RightAnswer(c) ==
    CASE c.op = "+" -> Exactly(c.type, c.a + c.b)
      [] c.op = "-" -> Exactly(c.type, c.a - c.b)
      [] c.op = "*" -> Exactly(c.type, c.a * c.b)
      [] c.op = "neg" -> Exactly(c.type, -c.a)
      [] c.op = "abs" -> Exactly(c.type, IF c.a < 0 THEN -c.a ELSE c.a)
      [] c.op = "//" -> IF c.b = 0 THEN IF nullOnZero THEN Null ELSE Error
                        ELSE IF SmallestByMinusOne(c) THEN Error
                        ELSE Exactly(c.type, Quotient(c.a, c.b))

\* Where the division errors the modulo does so too while the issue is open; whether a
\* HUGEINT has it is not known.
RightModulos(c) ==
    IF c.b = 0 THEN {RightAnswer(c)}
    ELSE IF SmallestByMinusOne(c) /\ ModuloIssueOpen
         THEN {Error} \cup IF IsHugeint(c.type) THEN {ValueOf(0)} ELSE {}
    ELSE {ValueOf(c.a - c.b * Quotient(c.a, c.b))}

\* DuckDB answers a statement, or two.
Answer(next) ==
    /\ answer' \in Answers(case.type)
    /\ modAnswer' \in IF case.op = "//" THEN Answers(case.type) ELSE {Null}
    /\ wrong' = \/ wrong
                \/ answer' # RightAnswer(case)
                \/ case.op = "//" /\ modAnswer' \notin RightModulos(case)
    /\ pc' = next
    /\ UNCHANGED <<case, nullOnZero, outcome>>

-----------------------------------------------------------------------------
\* __builtin_add_overflow and its like.
Builtin(x) == [overflow |-> Wrapped(x, WideBits) # x, exact |-> Wrapped(x, WideBits)]

InRange(x, t) ==
    IF t.signed THEN x >= -Power(2, t.bits - 1) /\ x <= Power(2, t.bits - 1) - 1
                ELSE x >= 0 /\ x <= Power(2, t.bits) - 1

\* A cast of the __int128 to the C++ type of t.
MakeTyped(x, t) == ValueOf(IF t.signed THEN Wrapped(x, t.bits) ELSE x % Power(2, t.bits))

\* What the oracle computes for an operator other than division.
Oracle(c) ==
    CASE c.op = "+" -> Builtin(c.a + c.b)
      [] c.op = "-" -> Builtin(c.a - c.b)
      [] c.op = "*" -> Builtin(c.a * c.b)
      [] c.op = "neg" -> Builtin(-c.a)
      [] c.op = "abs" -> Builtin(IF c.a < 0 THEN -c.a ELSE c.a)

\* An answer is accepted if it is an error as expected, or the value expected.
Accepts(got, expectError, x) ==
    /\ expectError <=> got.kind = "error"
    /\ ~expectError => got = MakeTyped(x, case.type)

\* The case ends; its locals are gone.
Ends(pass) ==
    /\ outcome' = IF pass THEN "pass" ELSE "fail"
    /\ pc' = "idle"
    /\ case' = NoCase
    /\ answer' = Null
    /\ modAnswer' = Null
    /\ UNCHANGED <<nullOnZero, wrong>>

\* RapidCheck runs one more case, or a shrunk one, on the same database.
StartCase ==
    /\ pc = "idle"
    /\ case' \in Cases
    /\ outcome' = "none"
    /\ wrong' = FALSE
    /\ pc' = "run"
    /\ UNCHANGED <<answer, modAnswer, nullOnZero>>

RunOp == pc = "run" /\ Answer("check")

CheckOp ==
    /\ pc = "check"
    /\ case.op # "//" /\ ~IsHugeint(case.type)
    /\ LET oracle == Oracle(case)
           expectError == oracle.overflow \/ ~InRange(oracle.exact, case.type)
       IN Ends(Accepts(answer, expectError, oracle.exact))

CheckQuotient ==
    /\ pc = "check"
    /\ case.op = "//" /\ case.b # 0 /\ ~IsHugeint(case.type)
    /\ LET q == CDiv(case.a, case.b)
           r == CMod(case.a, case.b)
           expectError == ~InRange(q, case.type)
       IN Ends(Accepts(answer, expectError, q) /\ Accepts(modAnswer, expectError, r))

\* Mutant: what DuckDB reserves is taken for a HUGEINT.
CheckHugeintOpUnreserved ==
    /\ pc = "check"
    /\ case.op # "//" /\ IsHugeint(case.type)
    /\ LET oracle == Oracle(case)
       IN Ends(/\ oracle.overflow <=> answer.kind = "error"
               /\ answer.kind # "error" => answer = ValueOf(oracle.exact))

\* "DuckDB reserves true INT128_MIN": then the smallest HUGEINT is one more.
CheckHugeintOp ==
    /\ pc = "check"
    /\ case.op # "//" /\ IsHugeint(case.type)
    /\ LET oracle == Oracle(case)
           overflow == oracle.overflow \/ oracle.exact < Smallest(case.type)
       IN Ends(/\ overflow <=> answer.kind = "error"
               /\ answer.kind # "error" => answer = ValueOf(oracle.exact))

\* The modulo may error where the division does, but need not.
CheckHugeintQuotient ==
    /\ pc = "check"
    /\ case.op = "//" /\ case.b # 0 /\ IsHugeint(case.type)
    /\ LET overflow == case.b = -1 /\ case.a = Smallest(case.type)
       IN Ends(/\ overflow <=> answer.kind = "error"
               /\ ~overflow => answer = ValueOf(CDiv(case.a, case.b))
               /\ IF modAnswer.kind = "error" THEN overflow
                  ELSE modAnswer = ValueOf(CMod(case.a, case.b)))

\* Without the setting both statements have to error; then it is turned on.
CheckZero ==
    /\ pc = "check"
    /\ case.op = "//" /\ case.b = 0
    /\ IF answer.kind = "error" /\ modAnswer.kind = "error"
       THEN nullOnZero' = TRUE /\ pc' = "null" /\ UNCHANGED <<case, answer, modAnswer, outcome, wrong>>
       ELSE Ends(FALSE)

RunNull == pc = "null" /\ Answer("reset")

ResetSetting ==
    /\ pc = "reset"
    /\ nullOnZero' = FALSE
    /\ pc' = "check null"
    /\ UNCHANGED <<case, answer, modAnswer, outcome, wrong>>

CheckNull ==
    /\ pc = "check null"
    /\ Ends(answer = Null /\ modAnswer = Null)

ArithmeticNext ==
    \/ StartCase
    \/ RunOp
    \/ CheckOp
    \/ CheckQuotient
    \/ CheckHugeintOp
    \/ CheckHugeintQuotient
    \/ CheckZero
    \/ RunNull
    \/ ResetSetting
    \/ CheckNull

-----------------------------------------------------------------------------
\* "Errors iff the exact result is out of range": a case fails only if DuckDB
\* answered something wrong in that very case, whatever the cases before it did
\* to the setting and though the oracle itself computes in a bounded width.
AlarmsAreTrue == outcome = "fail" => wrong

\* And no wrong answer passes: not a wrapped result, an error that should not be
\* there, a quotient rounded the other way, or a NULL.
WrongAnswersAreFound == outcome = "pass" => ~wrong
=============================================================================
