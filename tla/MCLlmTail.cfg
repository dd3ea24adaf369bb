CONSTANTS
    ambiguous = ambiguous
    told = told
    untold = untold
    mislabelled = mislabelled
    c1 = c1
    c2 = c2
    other = other
    Events = {ambiguous, told, untold, mislabelled}
    Label <- MCLabel
    ErrorCode <- MCErrorCode
    REAL_CAUSES = {c1, c2}
    Unknown = unknown
    MaxRetries = 2
SPECIFICATION FairSpec
INVARIANTS
    MoneyIsEarned
    AnswerIsCurrent
PROPERTIES
    EventsSettle
CHECK_DEADLOCK FALSE
