CONSTANTS
    o1 = o1
    Nil = Nil
    Aggregates = {o1}
    Changes <- OrderChanges
    CreatedType = "OrderCreated"
    Fresh <- New
    ApplyEvent <- Apply
    TableColumns <- Columns
    Readers = {r1}
    Builders = {b1}
    Queries <- TimeQueries
    SnapshotEvery = 0
    BatchLimit = 1
    MaxEvents = 3
    MaxLag = 0
    MaxFailures = 1
SPECIFICATION Spec
INVARIANTS
    TimeQueryExact
CHECK_DEADLOCK FALSE
