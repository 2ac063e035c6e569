SPECIFICATION Spec
CONSTANTS
    NoValue = NoValue
    NullValue <- NoValue
    Topics <- MCTopics
    Escapes <- MCEscapes
    IntLimit = 8
INVARIANTS
    LikeMatchesReference
    StrPosCountsCharacters
    SplitsRejoin
    SlicesTile
    PadsAreTrimmed
    TranslateReplacesInTurn
    DistancesCountEdits
    SortsAgree
    SlicesAreWindows
    RangesCountElements
CHECK_DEADLOCK FALSE
