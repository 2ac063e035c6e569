SPECIFICATION SuitesSpec
CONSTANTS
    Probes <- MCProbes
    Versions <- MCVersions
    Leaves <- MCLeaves
    SafeNames = {"a", "b", "key", "value"}
    MaxLen = 2
    MaxDepth = 2
    Names = {"a", "b", "key", "value", "quote", "space"}
    Types <- MCTypes
    StoredTypes <- MCStored
    QuotedNames = {"quote"}
    HugeintMax = 3
    MicrosPerHour = 10
    HourLimit = 10
    Cases = {0, 1, 2, 3}
    MaxSuccess = 2
    MaxRuns = 2
INVARIANTS
    VerdictTellsIssue
    RoundtripVerdictsAreTrue
    DiscardsAreLossy
    
CHECK_DEADLOCK FALSE
