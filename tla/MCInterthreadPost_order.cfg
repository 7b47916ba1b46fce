CONSTANTS
    NoFunctor = NoFunctor
    NoThread = NoThread
    Loop = Loop
    Posters = {p1, p2}
    Capacity = 3
    MaxPosts = 3
    Window = 3
    Ending = TRUE
SPECIFICATION FairSpec
INVARIANTS
  PostsInOrder
PROPERTIES
  PostWakesLoop
CHECK_DEADLOCK FALSE
