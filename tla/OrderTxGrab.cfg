SPECIFICATION Spec
CONSTANTS
    Orders = {o1}
    Cleaners = {c1, c2}
    Handlers = {h1, h2}
    Slots = {}
    Photos = {}
    Kinds = {"create", "put"}
    Statuses = {"accepted"}
    MaxVersion = 1
    MaxJobs = 2
    NULL = NULL
    Keep = Keep
INVARIANTS
    GrabIsExclusive
