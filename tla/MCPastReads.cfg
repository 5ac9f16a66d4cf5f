CONSTANTS
    Writers = {w1, w2}
    u1 = u1
    Nil = Nil
    Aggregates = {u1}
    Requests <- UserCmds
    CreatedType = "UserCreated"
    NoExpectation <- Nil
    Fresh <- New
    ApplyEvent <- Apply
    TableColumns <- Columns
    NoTx = NoTx
    PoolSize = 3
    MaxClock = 3
SPECIFICATION Spec
PROPERTY PastIsSettled
CHECK_DEADLOCK FALSE
