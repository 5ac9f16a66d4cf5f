CONSTANTS
    u1 = u1
    u2 = u2
    Nil = Nil
    Aggregates = {u1, u2}
    Changes <- UserChanges
    CreatedType = "UserCreated"
    Fresh <- New
    ApplyEvent <- Apply
    TableColumns <- Columns
    Readers = {}
    Builders = {b1}
    Queries = {}
    SnapshotEvery = 2
    BatchLimit = 1
    MaxEvents = 2
    MaxLag = 0
    MaxFailures = 0
SPECIFICATION Spec
INVARIANT SnapshotSound
CHECK_DEADLOCK FALSE
