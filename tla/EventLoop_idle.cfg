SPECIFICATION Spec
CONSTANTS
    ThreadNum = 2
    MaxAccept = 1
    MaxConn = 1
    MaxCalls = 1
INVARIANTS
    PoolIdle
CHECK_DEADLOCK FALSE
