------------------------------ MODULE CIntegers ------------------------------
(***************************************************************************)
(* (external) Integers as C++ computes with them, which the oracles rely   *)
(* on: division truncates, and so the remainder has the dividend's sign;   *)
(* __builtin_*_overflow tells whether a result fits and stores it wrapped. *)
(***************************************************************************)
EXTENDS Integers

\* A loop that multiplies.
Power(b, n) ==
    LET power[i \in Nat] == IF i = 0 THEN 1 ELSE b * power[i - 1]
    IN power[n]

AbsOf(x) == IF x < 0 THEN -x ELSE x

CDiv(x, y) == IF (x < 0) = (y < 0) THEN AbsOf(x) \div AbsOf(y) ELSE -(AbsOf(x) \div AbsOf(y))

CMod(x, y) == x - y * CDiv(x, y)

\* The value of x in a signed integer of so many bits.
Wrapped(x, bits) == ((x + Power(2, bits - 1)) % Power(2, bits)) - Power(2, bits - 1)
=============================================================================
