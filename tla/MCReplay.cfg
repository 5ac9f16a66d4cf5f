CONSTANTS
    o1 = o1
    u1 = u1
    u2 = u2
    b1 = b1
    Nil = Nil
    Aggregates = {o1}
    Changes <- OrderChanges
    CreatedType = "OrderCreated"
    Fresh <- New
    ApplyEvent <- Apply
    TableColumns <- Columns
    Readers = {r1}
    Builders = {b1}
    Queries <- OrderQueries
    SnapshotEvery = 0
    BatchLimit = 1
    MaxEvents = 3
    MaxLag = 2
    MaxFailures = 1
SPECIFICATION ReplaySpec
INVARIANTS
    TypeOK
    SnapshotSound
    VersionQueryExact
    TimeQuerySound
PROPERTY UsersCatchUp
CHECK_DEADLOCK FALSE
