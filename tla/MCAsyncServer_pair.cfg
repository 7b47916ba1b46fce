CONSTANTS
    Conns = {c1, c2}
    Listener = Listener
    RcvCap = 2
    SndCap = 1
    RecvMax = 2
    RespLen = 2
    MaxReqs = 1
    MaxParts = 1
    Window = 1
    Closing = TRUE
    Malformed = TRUE
    Resets = TRUE
    AcceptErrors = TRUE
SPECIFICATION Spec
SYMMETRY Symmetry
INVARIANTS
  OneContinuation
  NothingOutlivesConnection
  NoForgottenOutput
CHECK_DEADLOCK FALSE
