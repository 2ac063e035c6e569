SPECIFICATION Spec
CONSTANTS
    Jobs = {"schedule", "dispatch"}
    Scheduled = "schedule"
    Fingerprints = {"probe", "sort"}
    Position <- MCPosition
    KnownFail = {"probe"}
    ListLimit = 2
INVARIANTS
    TypeOK
    OneOpenIssue
    EveryFindingIsFiled
PROPERTIES
    ImplementsIssueQueue
    IssuesAreFindings
    GreenMeansNoFinding
    PersistentFindingIsFiled
