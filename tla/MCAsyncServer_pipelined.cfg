CONSTANTS
    Conns = {c1}
    Listener = Listener
    RcvCap = 2
    SndCap = 1
    RecvMax = 2
    RespLen = 2
    MaxReqs = 2
    MaxParts = 0
    Window = 2
    Closing = FALSE
    Malformed = FALSE
    Resets = FALSE
    AcceptErrors = FALSE
SPECIFICATION Spec
INVARIANT
    AllAnswered
CHECK_DEADLOCK FALSE
