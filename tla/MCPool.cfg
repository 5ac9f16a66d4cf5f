CONSTANTS
    c1 = c1
    c2 = c2
    q1 = q1
    Commands = {c1, c2}
    Queries = {q1}
    Rows = {1}
    PoolSize = 5
    Instances = {i1, i2, i3}
    Releases = {1, 2}
    MaxFailures = 1
    w1 = w1
    w2 = w2
    u1 = u1
    u2 = u2
    Nil = Nil
    NoTx = NoTx
SPECIFICATION PoolSpec
INVARIANTS
    AppliedOnceInOrder
    ServesMigrated
    RequestsFinished
    MarkedIsSent
PROPERTIES
    InstancesServe
    Answered
    ShutdownEnds
    CommandsAnswered
CHECK_DEADLOCK FALSE
