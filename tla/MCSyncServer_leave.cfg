CONSTANTS
    Workers = {w1}
    Conns = {c1}
    NoConn = NoConn
    MaxFds = 1
    RcvCap = 2
    MaxReqs = 2
    MaxParts = 0
    MaxMisbehaved = 1
    Malformed = FALSE
    Leaving = TRUE
    Idling = FALSE
    BadLength = FALSE
SPECIFICATION Spec
SYMMETRY Symmetry
INVARIANTS
    KeepsServing
CHECK_DEADLOCK FALSE
