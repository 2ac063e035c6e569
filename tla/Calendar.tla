------------------------------- MODULE Calendar -------------------------------
(***************************************************************************)
(* The calendar oracles of prop_datetime.cpp, held against a calendar that *)
(* is walked day by day: a date, its day of the year and the ISO week it   *)
(* is in, which change at the end of a day as calendars say they do.       *)
(***************************************************************************)
EXTENDS CIntegers, Sequences

CONSTANTS
    Starts,   \* days to start walking from: [day, date, weekday, iso]
    MaxWalk,  \* bound: how many days are walked from each
    MinDate,  \* the first DATE there is, and ...
    MaxDate   \* ... the last: [y, m, d]

\* Days since 1970-01-01, by eras of 400 years that start on March 1st.
DaysFromCivil(year, m, d) ==
    LET y == IF m <= 2 THEN year - 1 ELSE year
        era == CDiv(IF y >= 0 THEN y ELSE y - 399, 400)
        yoe == y - era * 400
        doy == CDiv(153 * (m + (IF m > 2 THEN -3 ELSE 9)) + 2, 5) + d - 1
        doe == yoe * 365 + CDiv(yoe, 4) - CDiv(yoe, 100) + doy
    IN era * 146097 + doe - 719468

CivilFromDays(days) ==
    LET z == days + 719468
        era == CDiv(IF z >= 0 THEN z ELSE z - 146096, 146097)
        doe == z - era * 146097
        yoe == CDiv(doe - CDiv(doe, 1460) + CDiv(doe, 36524) - CDiv(doe, 146096), 365)
        doy == doe - (365 * yoe + CDiv(yoe, 4) - CDiv(yoe, 100))
        mp == CDiv(5 * doy + 2, 153)
        m == IF mp < 10 THEN mp + 3 ELSE mp - 9
        y == yoe + era * 400
    IN [y |-> IF m <= 2 THEN y + 1 ELSE y, m |-> m, d |-> doy - CDiv(153 * mp + 2, 5) + 1]

IsLeap(y) == CMod(y, 4) = 0 /\ (CMod(y, 100) # 0 \/ CMod(y, 400) = 0)

LastDayOfMonth(y, m) ==
    IF m = 2 /\ IsLeap(y) THEN 29 ELSE <<31, 28, 31, 30, 31, 30, 31, 31, 30, 31, 30, 31>>[m]

\* Mutant of Weekday: without the addition a remainder can be negative.
WeekdayOfRemainder(days) == CMod(days + 3, 7) + 1

\* Monday = 1 to Sunday = 7; 1970-01-01 was a Thursday.
Weekday(days) == CMod(CMod(days, 7) + 10, 7) + 1

\* ISO 8601: the year and week of a day are those of the Thursday of its week.
IsoWeek(days) ==
    LET thursday == days - (Weekday(days) - 4)
        year == CivilFromDays(thursday).y
    IN [year |-> year, week |-> CDiv(thursday - DaysFromCivil(year, 1, 1), 7) + 1]

DayOfYear(days, y) == days - DaysFromCivil(y, 1, 1) + 1

-----------------------------------------------------------------------------
\* The dates there are, and the days since 1970-01-01 by the rule of the calendar: a year
\* has 365, one more every fourth, but not every hundredth, but every four hundredth.
Dates == {c \in [y : Int, m : 1..12, d : 1..31] : c.d <= LastDayOfMonth(c.y, c.m)}

NewYear(y) == 365 * (y - 1970) + ((y - 1) \div 4) - ((y - 1) \div 100) + ((y - 1) \div 400) - 477

MonthsBefore(y, m) ==
    <<0, 31, 59, 90, 120, 151, 181, 212, 243, 273, 304, 334>>[m]
    + (IF m > 2 THEN NewYear(y + 1) - NewYear(y) - 365 ELSE 0)

\* A walk starts on a day as it is in that calendar, 1970-01-01 being a Thursday.
ASSUME StartsAssumption ==
    /\ Starts # {}
    /\ \A s \in Starts :
          LET thursday == s.day + 4 - s.weekday
          IN /\ s.date \in Dates
             /\ s.day = NewYear(s.date.y) + MonthsBefore(s.date.y, s.date.m) + s.date.d - 1
             /\ s.weekday = ((s.day + 3) % 7) + 1
             /\ s.iso = [year |-> s.iso.year, week |-> (thursday - NewYear(s.iso.year)) \div 7 + 1]
             /\ s.iso.year \in Int
             /\ thursday >= NewYear(s.iso.year) /\ thursday < NewYear(s.iso.year + 1)

\* DATE does not begin with a year.
ASSUME RangeAssumption ==
    /\ {MinDate, MaxDate} \subseteq Dates
    /\ ~(MinDate.m = 1 /\ MinDate.d = 1)

\* Mutant of HasSafeParts: the last month is let through.
HasSafePartsOfWeeks(c) == c.y > MinDate.y

\* The preconditions of "date part extraction", for two issues of DuckDB.
HasSafeParts(c) ==
    /\ c.y > MinDate.y
    /\ ~(c.y = MaxDate.y /\ c.m >= MaxDate.m)

-----------------------------------------------------------------------------
VARIABLES
    day,       \* days since 1970-01-01
    date,      \* the date of that day
    weekday,   \* Monday = 1 to Sunday = 7
    iso,       \* the ISO year and week
    yearDay,   \* the day of the year, 0 until a year has begun on the walk
    walked     \* how many days have been walked

calendarVars == <<day, date, weekday, iso, yearDay, walked>>

CalendarInit ==
    LET s == CHOOSE s \in Starts : TRUE
    IN /\ day = s.day
       /\ date = s.date
       /\ weekday = s.weekday
       /\ iso = s.iso
       /\ yearDay = 0
       /\ walked = 0

\* The walk starts somewhere else.
JumpTo(s) ==
    /\ walked = 0
    /\ day' = s.day
    /\ date' = s.date
    /\ weekday' = s.weekday
    /\ iso' = s.iso
    /\ UNCHANGED <<yearDay, walked>>

NextDate ==
    IF date.d < LastDayOfMonth(date.y, date.m) THEN [date EXCEPT !.d = @ + 1]
    ELSE IF date.m < 12 THEN [date EXCEPT !.m = @ + 1, !.d = 1]
    ELSE [y |-> date.y + 1, m |-> 1, d |-> 1]

\* On a Monday a week begins.  It is the first of its ISO year if January 4th is in it.
NextIso ==
    IF weekday # 7 THEN iso
    ELSE IF \/ NextDate.m = 12 /\ NextDate.d >= 29
            \/ NextDate.m = 1 /\ NextDate.d <= 4
         THEN [year |-> iso.year + 1, week |-> 1]
         ELSE [iso EXCEPT !.week = @ + 1]

NextDay ==
    /\ walked < MaxWalk
    /\ walked' = walked + 1
    /\ day' = day + 1
    /\ date' = NextDate
    /\ weekday' = IF weekday = 7 THEN 1 ELSE weekday + 1
    /\ iso' = NextIso
    /\ yearDay' = IF NextDate.m = 1 /\ NextDate.d = 1 THEN 1
                  ELSE IF yearDay = 0 THEN 0 ELSE yearDay + 1

CalendarNext == NextDay \/ \E s \in Starts : JumpTo(s)

-----------------------------------------------------------------------------
\* "Independent calendar algorithms": from day to day across leap years, the
\* turns of centuries and eras, and before 1970 and the year 0, both directions
\* of the conversion, the weekday and the day of the year agree with the calendar, and
\* so do the ISO year and week by the Thursday rule with those counted Monday by
\* Monday, in years of 52 and of 53 weeks and in weeks that belong to another year.
OraclesFollowTheCalendar ==
    /\ CivilFromDays(day) = date
    /\ DaysFromCivil(date.y, date.m, date.d) = day
    /\ Weekday(day) = weekday
    /\ yearDay # 0 => DayOfYear(day, date.y) = yearDay
    /\ IsoWeek(day) = iso

Days(c) == DaysFromCivil(c.y, c.m, c.d)
IsDate(c) == Days(c) \in Days(MinDate)..Days(MaxDate)

\* (external) DuckDB makes dates of January 1st and of the first of the next month to
\* find the parts of a date.
NeededDates(c) ==
    {[y |-> c.y, m |-> 1, d |-> 1],
     IF c.m = 12 THEN [y |-> c.y + 1, m |-> 1, d |-> 1] ELSE [y |-> c.y, m |-> c.m + 1, d |-> 1]}

\* Of the dates there are, those are discarded, and only those, whose parts DuckDB cannot
\* find because of the two issues: no case blows up and none is left out for nothing.
OnlyUnsafePartsAreDiscarded ==
    IsDate(date) => (HasSafeParts(date) <=> \A c \in NeededDates(date) : IsDate(c))
=============================================================================
