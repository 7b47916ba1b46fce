SPECIFICATION Spec
CONSTANTS
  Timers = {t}
  Eventfds = {e}
  Streams = {s}
  Listeners = {l}
  Queues = {q}
  Intervals <- HalfSeconds
  Programs <- Pairs
  OneShot = 3
  MaxCalls = 4
  MaxFires = 1
  None = None
  p1 = p1
  p2 = p2
  OwnConns <- MCConns
  OwnLoops = {l1, l2}
  MaxMessages <- MCMessages
INVARIANTS
  LoopKeepsTable
  StopsOnlyWhen
  TimersNotEarly
  OwnedOnce
PROPERTIES
  RepeatingTimersRun
CHECK_DEADLOCK FALSE
