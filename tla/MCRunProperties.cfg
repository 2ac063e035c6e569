SPECIFICATION Spec
CONSTANTS
    Entry <- MCEntry
    Expectation <- MCExpectation
    Listings <- MCListings
    NoName = ""
    MaxListed = 3
    MaxRuns = 2
INVARIANTS
    ReportsAreFresh
    SilentDeathIsReported
    StatusIsNews
PROPERTIES
    RunEnds
    ImplementsSuiteReport
CHECK_DEADLOCK FALSE
