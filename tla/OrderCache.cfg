SPECIFICATION FairSpec
CONSTANTS
    Keys = {k1, k2}
    Sheets = {k2}
    Workers = {w1}
    Handlers = {h1, h2}
    Kinds = {"put", "status"}
    L1TTL = 1
    ListTTL = 1
    SheetTTL = 1
    L1Size = 1
    MaxWait = 1
    MaxPlaces = 1
    MaxWrites = 1
    NULL = NULL
INVARIANTS
    StaleBounded
    L2StaleExcused
    CacheInv
PROPERTIES
    EventuallyFresh
