SPECIFICATION Spec
CONSTANTS
    Orders = {o1}
    Cleaners = {c1}
    Handlers = {h1, h2}
    Slots = {}
    Photos = {}
    Kinds = {"create", "status", "cancel"}
    Statuses = {"completed"}
    MaxVersion = 1
    MaxJobs = 1
    NULL = NULL
    Keep = Keep
PROPERTIES
    CompletedNotCancelled
