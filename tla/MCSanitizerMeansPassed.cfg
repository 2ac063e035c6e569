SPECIFICATION Spec
CONSTANTS
    Entry <- MCEntry
    Expectation <- MCExpectation
    Listings <- MCListings
    NoName = ""
    MaxListed = 3
    MaxRuns = 2
INVARIANT SanitizerMeansPassed
CHECK_DEADLOCK FALSE
