SPECIFICATION Spec
CONSTANTS
    Objs = {o1}
    Ids = {1, 2}
    Tables <- MCTables
    Conditions <- MCConditions
    Pages = {3}
    PerPages = {1}
    ListNums = {2}
    MaxRecord = 2
    MaxCache = 1
    MaxCalls = 5
INVARIANTS
    MixedUpOnlyAfterLock
    CachedIsReply
    PageInWindow
PROPERTIES
    SilentAfterError
CHECK_DEADLOCK FALSE
