SPECIFICATION Spec
CONSTANTS
    Orders = {o1}
    Cleaners = {c1}
    Handlers = {h1, h2}
    Slots = {}
    Photos = {p1}
    Kinds = {"create", "accept", "put", "status", "cancel", "delete", "upload", "deleteCleaner"}
    Statuses = {"open", "completed"}
    MaxVersion = 2
    MaxJobs = 1
    NULL = NULL
    Keep = Keep
SYMMETRY RequestSymmetry
INVARIANTS
    TypeOK
    AcceptHolds
    NoLockLeak
    IInv
PROPERTIES
    ClaimsRefined
    AcceptGives
