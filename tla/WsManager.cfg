SPECIFICATION FairSpec
CONSTANTS
    Workers = {w1, w2}
    Sockets = {s1, s2}
    Cleaners = {c1}
    Broadcasts = {b1}
    Failing = {"subscribe", "unsubscribe", "close", "publish", "read"}
    NULL = NULL
CHECK_DEADLOCK FALSE
INVARIANTS
    ListensUnlessDisturbed
    TablesAgree
    WsInv
PROPERTIES
    MessageArrives
