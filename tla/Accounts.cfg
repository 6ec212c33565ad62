SPECIFICATION Spec
CONSTANTS
    Hosts = {u1, u2}
    Cleaners = {c1}
    Properties = {p1}
    Orders = {o1, o2}
    Handlers = {h1, h2}
    ShortCodes = {s1}
    LongCodes = {l1}
    NULL = NULL
    Unborn = Unborn
    Deleted = Deleted
SYMMETRY IdSymmetry
INVARIANTS
    References
    SharedCodeExcused
    DeadlockNeedsSharedRows
    AccountsInv
PROPERTIES
    TableImplemented
