SPECIFICATION Spec
CONSTANTS
    Slots = {c1, c2}
    NoConn = NoConn
    Params = {p1, p2, p3}
    MaxConn = 2
    MaxQuery = 2
    MaxPipeline = 2
    Prepared = FALSE
SYMMETRY Symmetry
INVARIANTS
    QueueAccounting
    ConnAccounting
    OneOwner
    ReplyOrder
    TimerCoversWork
    ListUsable
    FlushPromised
