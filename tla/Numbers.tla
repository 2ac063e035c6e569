------------------------------- MODULE Numbers -------------------------------
(***************************************************************************)
(* What the suites "arithmetic" and "datetime" compute their expectations  *)
(* with.  A process tests one of their parts: integers, DECIMALs, dates, or *)
(* timestamps and times.  The cases of the first two run alike, by one     *)
(* program counter, and are judged by one pair of properties.              *)
(***************************************************************************)
EXTENDS Arithmetic, Calendar, Clock

CONSTANTS
    DecimalBase,   \* of the digits of a DECIMAL
    DecimalWidth,  \* the most digits it has
    DecimalBits    \* the width of the __int128 it is in

\* Any DECIMAL fits into an __int128.
ASSUME DecimalsAssumption ==
    /\ DecimalBase \in Nat \ {0, 1} /\ DecimalWidth \in Nat \ {0} /\ DecimalBits \in Nat \ {0}
    /\ Power(DecimalBase, DecimalWidth) <= Power(2, DecimalBits - 1)

D == INSTANCE Decimals WITH Base <- DecimalBase, MaxWidth <- DecimalWidth, WideBits <- DecimalBits,
                            sum <- answer, diff <- modAnswer

VARIABLE part   \* what is tested: "integers", "decimals", "dates" or "times"

vars == <<part, arithmeticVars, calendarVars, clockVars>>

Init ==
    /\ \/ part \in {"integers", "dates", "times"} /\ ArithmeticInit
       \/ part = "decimals" /\ D!Init /\ nullOnZero = FALSE
    /\ CalendarInit
    /\ ClockInit

Next ==
    \/ part = "integers" /\ ArithmeticNext /\ UNCHANGED <<part, calendarVars, clockVars>>
    \/ part = "decimals" /\ D!Next /\ UNCHANGED <<part, nullOnZero, calendarVars, clockVars>>
    \/ part = "dates" /\ CalendarNext /\ UNCHANGED <<part, arithmeticVars, clockVars>>
    \/ part = "times" /\ ClockNext /\ UNCHANGED <<part, arithmeticVars, calendarVars>>

Spec == Init /\ [][Next]_vars
=============================================================================
