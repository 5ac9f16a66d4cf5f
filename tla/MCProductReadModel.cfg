CONSTANTS
    Writers = {w1, w2}
    p1 = p1
    Nil = Nil
    Aggregates = {p1}
    Requests <- ProductCmds
    CreatedType = "ProductCreated"
    NoExpectation <- Nil
    Fresh <- New
    ApplyEvent <- Apply
    TableColumns <- Columns
    NoTx = NoTx
    PoolSize = 3
    MaxClock = 3
SPECIFICATION Spec
INVARIANT ReadModelMatchesHistory
CHECK_DEADLOCK FALSE
