SPECIFICATION Spec
CONSTANTS
    Jobs = {"schedule", "dispatch"}
    Scheduled = "schedule"
    Fingerprints = {"probe", "sort"}
    Position <- MCPosition
    KnownFail = {"probe"}
    ListLimit = 2
PROPERTY
    IssuesOnlyForFailAndCrash
