SPECIFICATION Spec
CONSTANTS
    Orders = {o1, o2}
    Cleaners = {c1}
    Handlers = {h1, h2}
    Slots = {s1}
    Photos = {}
    Kinds = {"create"}
    Statuses = {"completed"}
    MaxVersion = 1
    MaxJobs = 1
    NULL = NULL
    Keep = Keep
INVARIANTS
    OneOpenOrderPerSlot
