CONSTANTS
    Handlers = {h1, h2}
    u1 = u1
    p1 = p1
    Nil = Nil
    Unreadable = Unreadable
    Aggregates = {u1, p1}
    KeyedAggregates = {u1}
    Requests <- SentRequests
    CreatedType = "Created"
    TTL = 1
    MaxRuns = 4
    MaxClock = 1
    MaxFailures = 1
SPECIFICATION Spec
INVARIANTS
    TypeOK
    ReplaysTruthful
    ReplaysAgree
    ConditionalOnce
    AnsweredRunsOnce
SYMMETRY HandlerSymmetry
CHECK_DEADLOCK FALSE
