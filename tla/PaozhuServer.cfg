SPECIFICATION Spec
CONSTANTS
    Workers = {w1, w2}
    Ids = {1, 2}
    Numbers = {1}
    Fortunes = {1, 2}
    Message <- MCMessage
    Counts <- MCCounts
    MaxQueries = 2
    MaxRequests = 2
    MaxFaults = 1
INVARIANTS
    OwnRows
    UpdatesWritten
    CachedAnswers
PROPERTIES
    Answered
CHECK_DEADLOCK FALSE
