SPECIFICATION FairSpec
CONSTANTS
    Keys = {k1, k2}
    Handlers = {h1, h2}
    Polls = 2
    MaxRequests = 3
    MaxSyncs = 2
    NULL = NULL
    Nobody = Nobody
CHECK_DEADLOCK FALSE
INVARIANTS
    RedisInv
    OneAtATime
    HashEnds
PROPERTIES
    SuccessOnce
    RequestsEnd
