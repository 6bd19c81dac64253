SPECIFICATION Spec
CONSTANTS
    Slots = {c1, c2}
    NoConn = NoConn
    Params = {p1, p2}
    MaxConn = 2
    MaxQuery = 2
    MaxPipeline = 1
    Prepared = FALSE
INVARIANT TailAssertion
