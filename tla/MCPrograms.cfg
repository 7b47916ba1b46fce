SPECIFICATION Spec
CONSTANTS
    Loops = {t1, t2, t3}
    MainLoop = t1
    MaxConnects = 3
    MaxSignals = 3
    Workers = {w1, w2}
    Main = Main
    Conns = {c1, c2, c3}
    Terminate = Terminate
    NoOne = NoOne
    Capacity = 2
    NULL = NULL
    Wires <- MCWires
    Units = 2
    SndCap = 3
    NbrThreads = 2
    NbrConnections = 2
    NbrRequests = 2
    NbrAddresses = 2
    Garbage = Garbage
INVARIANTS
  LoopsKeepServing
  QueuedAreServed
  EchoInOrder
  DemoGoesOn
  RoundTripsCounted
PROPERTIES
  BacklogDrained
  SigintEnds
  FramesAnswered
  VerifierEnds
CHECK_DEADLOCK FALSE
