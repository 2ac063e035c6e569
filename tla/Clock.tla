-------------------------------- MODULE Clock --------------------------------
(***************************************************************************)
(* The oracles of prop_datetime.cpp for timestamps and times, held against *)
(* a clock that ticks from before the epoch to after it, its hands turning *)
(* one into the next.  The units are scaled down.                          *)
(***************************************************************************)
EXTENDS CIntegers

CONSTANTS
    MicrosPerMsec, MsecsPerSec, SecsPerMinute, MinutesPerHour, HoursPerDay,
    FirstDay,   \* the clock starts at midnight of this day, counted from the epoch
    MaxTicks    \* bound: how long it ticks

ASSUME ClockAssumption ==
    /\ {MicrosPerMsec, MsecsPerSec, SecsPerMinute, MinutesPerHour, HoursPerDay} \subseteq Nat \ {0}
    /\ MicrosPerMsec % 2 = 0
    /\ FirstDay \in Int /\ MaxTicks \in Nat

MicrosPerSec == MicrosPerMsec * MsecsPerSec
MicrosPerMinute == MicrosPerSec * SecsPerMinute
MicrosPerHour == MicrosPerMinute * MinutesPerHour
MicrosPerDay == MicrosPerHour * HoursPerDay

VARIABLES
    ts,      \* the micros since the epoch
    hands,   \* [day, hour, minute, second, msec, micro]
    ticks    \* how many ticks there were

clockVars == <<ts, hands, ticks>>

ClockInit ==
    /\ ts = FirstDay * MicrosPerDay
    /\ hands = [day |-> FirstDay, hour |-> 0, minute |-> 0, second |-> 0, msec |-> 0, micro |-> 0]
    /\ ticks = 0

\* A hand that has turned once moves the next one on.
Tick ==
    /\ ticks < MaxTicks
    /\ ticks' = ticks + 1
    /\ ts' = ts + 1
    /\ hands' =
        IF hands.micro + 1 < MicrosPerMsec THEN [hands EXCEPT !.micro = @ + 1]
        ELSE IF hands.msec + 1 < MsecsPerSec THEN [hands EXCEPT !.micro = 0, !.msec = @ + 1]
        ELSE IF hands.second + 1 < SecsPerMinute
        THEN [hands EXCEPT !.micro = 0, !.msec = 0, !.second = @ + 1]
        ELSE IF hands.minute + 1 < MinutesPerHour
        THEN [hands EXCEPT !.micro = 0, !.msec = 0, !.second = 0, !.minute = @ + 1]
        ELSE IF hands.hour + 1 < HoursPerDay
        THEN [hands EXCEPT !.micro = 0, !.msec = 0, !.second = 0, !.minute = 0, !.hour = @ + 1]
        ELSE [day |-> hands.day + 1, hour |-> 0, minute |-> 0, second |-> 0, msec |-> 0, micro |-> 0]

ClockNext == Tick

-----------------------------------------------------------------------------
\* "epoch_ms rounds half away from zero"
EpochMs(t) ==
    LET rem == CMod(t, MicrosPerMsec)
    IN CDiv(t, MicrosPerMsec) + (IF rem >= MicrosPerMsec \div 2 THEN 1
                                 ELSE IF rem <= -(MicrosPerMsec \div 2) THEN -1 ELSE 0)

\* The DATE of a timestamp: a division that rounds down, made from one that truncates.
DayOf(t) == CDiv(t - (IF t < 0 THEN MicrosPerDay - 1 ELSE 0), MicrosPerDay)

\* The TIME of a timestamp.
TimeOf(t) == t - DayOf(t) * MicrosPerDay

\* Mutant of TimeParts: the seconds are not part of the milliseconds.
TimePartsWithoutSeconds(time) ==
    [hour |-> CDiv(time, MicrosPerHour),
     minute |-> CDiv(CMod(time, MicrosPerHour), MicrosPerMinute),
     second |-> CDiv(CMod(time, MicrosPerMinute), MicrosPerSec),
     millisecond |-> CDiv(CMod(time, MicrosPerSec), MicrosPerMsec),
     microsecond |-> CMod(time, MicrosPerMinute)]

\* The parts of a TIME.
TimeParts(time) ==
    [hour |-> CDiv(time, MicrosPerHour),
     minute |-> CDiv(CMod(time, MicrosPerHour), MicrosPerMinute),
     second |-> CDiv(CMod(time, MicrosPerMinute), MicrosPerSec),
     millisecond |-> CDiv(CMod(time, MicrosPerMinute), MicrosPerMsec),
     microsecond |-> CMod(time, MicrosPerMinute)]

-----------------------------------------------------------------------------
\* A timestamp, also one before the epoch or at its midnights, is split into the day the
\* clock shows and a time within the day, and the parts of that time are those the
\* hands show, seconds included in milliseconds and microseconds.  Its millisecond is
\* the nearest one, and of two that are equally near the one further from the epoch, on
\* both sides of it alike.
OraclesFollowTheClock ==
    LET msecs == hands.second * MsecsPerSec + hands.msec
        off == AbsOf(EpochMs(ts) * MicrosPerMsec - ts)
        half == MicrosPerMsec \div 2
    IN /\ DayOf(ts) = hands.day
       /\ TimeParts(TimeOf(ts)) =
            [hour |-> hands.hour, minute |-> hands.minute, second |-> hands.second,
             millisecond |-> msecs, microsecond |-> msecs * MicrosPerMsec + hands.micro]
       /\ off <= half
       /\ off = half => AbsOf(EpochMs(ts)) * MicrosPerMsec > AbsOf(ts)
       /\ EpochMs(-ts) = -EpochMs(ts)
=============================================================================
