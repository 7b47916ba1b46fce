CONSTANTS
    Conns = {c1, c2}
    Listener = Listener
    RcvCap = 2
    SndCap = 1
    RecvMax = 2
    RespLen = 2
    MaxReqs = 2
    MaxParts = 0
    Window = 1
    Closing = FALSE
    Malformed = FALSE
    Resets = FALSE
    AcceptErrors = FALSE
SPECIFICATION FairSpec
INVARIANTS
  NoForgottenInput
PROPERTIES
  RequestsAnswered
  ClosedWhenPeerCloses
CHECK_DEADLOCK FALSE
