SPECIFICATION FairSpec
CONSTANTS
    ThreadNum = 2
    MaxAccept = 2
    MaxConn = 2
    MaxCalls = 2
INVARIANTS
    ToldToStop
PROPERTIES
    AllStopListening
    EventuallyExits
CHECK_DEADLOCK FALSE
