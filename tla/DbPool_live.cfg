SPECIFICATION FairSpec
CONSTANTS
    Slots = {c1}
    NoConn = NoConn
    Params = {p1, p2, p3, p4}
    MaxConn = 1
    MaxQuery = 2
    MaxPipeline = 2
    Prepared = TRUE
INVARIANT NoLostConnection
PROPERTY EventuallyAnswered
