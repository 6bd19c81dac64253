SPECIFICATION FairSpec
CONSTANT Requests = {r1, r2, r3}
INVARIANTS
    TypeOK
    BodyAlive
PROPERTIES
    LifecycleSpec
    EventuallyFreed
CHECK_DEADLOCK FALSE
