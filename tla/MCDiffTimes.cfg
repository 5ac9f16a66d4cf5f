CONSTANTS
    Handlers = {h1, h2}
    a1 = a1
    Users = {a1}
    Catalog = {}
    Requests = {}
    Fields = {"name", "email"}
    LocalIsUTC = TRUE
    Nil = Nil
    TTL = 1
    SearchLimit = 1
    MaxEvents = 2
    MaxSnapshots = 1
    MaxLag = 0
    MaxClock = 3
    MaxCalls = 1
    Clients = {c1}
    Limit = 1
    Window = 1
    MaxTime = 1
    MaxRequests = 1
SPECIFICATION QueriesSpec
INVARIANT DiffOnlyOfEvents
CHECK_DEADLOCK FALSE
