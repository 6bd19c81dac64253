SPECIFICATION MCSpec
CONSTANTS
    Requests = {r1, r2}
    Long = r1
    Ids = {1, 2, 3}
    MaxQueries = 3
    Window = 2
INVARIANTS
    InProgressCounted
    ResultIds
    BodyAlive
    PopulateOnce
PROPERTIES
    LifecycleSpec
    EventuallyFreed
CHECK_DEADLOCK FALSE
