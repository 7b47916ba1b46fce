CONSTANTS
    Workers = {w1, w2}
    Conns = {c1, c2, c3}
    NoConn = NoConn
    MaxFds = 2
    RcvCap = 2
    MaxReqs = 2
    MaxParts = 1
    MaxMisbehaved = 1
    Malformed = TRUE
    Leaving = TRUE
    Idling = TRUE
    BadLength = TRUE
SPECIFICATION FairSpec
INVARIANTS
  ServesInOrder
  EndsOnlyForCause
PROPERTIES
  RequestsAnswered
CHECK_DEADLOCK FALSE
