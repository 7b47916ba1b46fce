CONSTANTS
    NoFunctor = NoFunctor
    NoThread = NoThread
    Loop = Loop
    Posters = {p1, p2}
    Capacity = 3
    MaxPosts = 2
    Window = 2
    Ending = FALSE
SPECIFICATION FairSpec
PROPERTY
    EveryPostRuns
CHECK_DEADLOCK FALSE
