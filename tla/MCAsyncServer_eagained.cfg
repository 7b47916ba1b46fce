CONSTANTS
    Conns = {c1}
    Listener = Listener
    RcvCap = 2
    SndCap = 1
    RecvMax = 2
    RespLen = 2
    MaxReqs = 2
    MaxParts = 1
    Window = 1
    Closing = FALSE
    Malformed = FALSE
    Resets = FALSE
    AcceptErrors = FALSE
SPECIFICATION Spec
INVARIANT
    EagainedIsDrained
CHECK_DEADLOCK FALSE
