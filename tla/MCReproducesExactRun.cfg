SPECIFICATION ListingSpec
CONSTANTS
    PropertyFiles <- MCPropertyFiles
    CasesOf <- MCCasesOf
    Properties <- MCProperties
    Loaded = {}
    MaxSuccesses = {0, 1, 2, 4}
    MaxSizes = {1}
    DiscardRatios = {0, 1, 2}
    Seeds = {0, 1}
    IntMax = 3
    MaxShrinks = 1
    Asked <- MCAsked
    DefaultDiscardRatio = 1
    VectorSize = 2
    Null = Null
INVARIANT ReproducesExactRun
CHECK_DEADLOCK FALSE
