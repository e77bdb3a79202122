SPECIFICATION FairSpec
CONSTANTS
    Posters = {p1, p2}
    Workers = {w1, w2}
    Embedder = e
    NULL = NULL
    MaxPosts = 2
    MaxPaused = 1
    MaxLive = 1
    MaxRuns = 1
    PauseFlags = {TRUE, FALSE}
INVARIANTS
    OneTaskAtATime
    EndsOnce
    NothingIsStranded
PROPERTIES
    MessagesHandled
