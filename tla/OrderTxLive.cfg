SPECIFICATION FairSpec
CONSTANTS
    Orders = {o1, o2}
    Cleaners = {c1}
    Handlers = {h1, h2}
    Slots = {}
    Photos = {}
    Kinds = {"create", "accept", "status", "deleteCleaner"}
    Statuses = {"completed"}
    MaxVersion = 1
    MaxJobs = 1
    NULL = NULL
    Keep = Keep
INVARIANTS
    OneWinner
    CleanerExists
    DeadlockNeedsDeleteCleaner
PROPERTIES
    EveryRequestAnswered
