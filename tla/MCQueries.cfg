CONSTANTS
    Handlers = {h1, h2}
    a1 = a1
    Users = {a1}
    Catalog = {}
    Requests = {}
    Fields = {"name", "email"}
    LocalIsUTC = TRUE
    Nil = Nil
    TTL = 1
    SearchLimit = 1
    MaxEvents = 3
    MaxSnapshots = 2
    MaxLag = 1
    MaxClock = 4
    MaxCalls = 3
    Clients = {c1, c2}
    Limit = 2
    Window = 2
    MaxTime = 5
    MaxRequests = 4
SPECIFICATION QueriesSpec
INVARIANTS
    TypeOK
    StalenessBounded
    DiffTellsEvents
    SearchComplete
    WindowExact
SYMMETRY HandlerSymmetry
CHECK_DEADLOCK FALSE
