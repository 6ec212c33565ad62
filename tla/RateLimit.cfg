SPECIFICATION FairSpec
CONSTANTS
    Workers = {w1}
    Handlers = {h1, h2}
    Limits = {1, 2}
    MaxLimit = 2
    Window = 2
    MaxWait = 1
    MaxBlind = 1
    NULL = NULL
INVARIANTS
    WorkerBound
    CounterBounded
    CounterExpires
    RateInv
PROPERTIES
    RefusalEnds
