SPECIFICATION Spec
CONSTANTS
    Orders = {o1}
    Files = {f1, f2, f3}
    Handlers = {h1, h2}
    NULL = NULL
    Unreadable = Unreadable
    Unborn = Unborn
    Deleted = Deleted
SYMMETRY IdSymmetry
CHECK_DEADLOCK FALSE
INVARIANTS
    NoDeadLink
    UploadsAddUp
    UploadsInv
