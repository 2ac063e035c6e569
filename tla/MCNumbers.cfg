SPECIFICATION Spec
CONSTANTS
    Types <- MCTypes
    WideBits = 5
    ModuloIssueOpen = TRUE
    DecimalBase = 2
    DecimalWidth = 4
    DecimalBits = 5
    Starts <- MCStarts
    MaxWalk = 900
    MinDate <- MCMinDate
    MaxDate <- MCMaxDate
    MicrosPerMsec = 4
    MsecsPerSec = 3
    SecsPerMinute = 4
    MinutesPerHour = 3
    HoursPerDay = 2
    FirstDay <- MCFirstDay
    MaxTicks = 1200
INVARIANTS
    AlarmsAreTrue
    WrongAnswersAreFound
    OraclesFollowTheCalendar
    OnlyUnsafePartsAreDiscarded
    OraclesFollowTheClock
CHECK_DEADLOCK FALSE
