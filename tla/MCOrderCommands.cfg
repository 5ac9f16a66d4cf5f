CONSTANTS
    Writers = {w1, w2}
    o1 = o1
    Nil = Nil
    Aggregates = {o1}
    Requests <- OrderCmds
    CreatedType = "OrderCreated"
    NoExpectation <- Nil
    Fresh <- New
    ApplyEvent <- Apply
    TableColumns <- Columns
    NoTx = NoTx
    PoolSize = 3
    MaxClock = 4
SPECIFICATION Spec
INVARIANTS
    TypeOK
    HistoryContiguous
    InFlightSound
    CreatedOnceAndFirst
    ReadModelFresh
    IdsFollowVersions
    RepliesTruthful
    NoLostUpdate
    ReadYourWrites
    TotalsAgree
PROPERTY AppendsAtomically
SYMMETRY WriterSymmetry
CHECK_DEADLOCK FALSE
