\* One producer, as in the server, and two consumers on a ring of two slots: the ring wraps,
\* is full and is empty, and threads wait on both condition variables.
CONSTANTS
    Producers = {p1}
    Consumers = {c1, c2}
    Sockets = {s1, s2}
    NoSocket = NoSocket
    NoThread = NoThread
    MaxSize = 2
SPECIFICATION FairSpec
INVARIANTS
  NoLostWakeup
PROPERTIES
  IsFifo
  EntriesPass
