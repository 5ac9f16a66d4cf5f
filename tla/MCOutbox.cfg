CONSTANTS
    a1 = a1
    a2 = a2
    i1 = i1
    i2 = i2
    Aggregates = {a1, a2}
    Instances = {i1}
    BatchLimit = 2
    BrokerAtStart = {"open"}
    Oversized = {3}
    MaxRows = 3
    MaxStops = 1
    MaxBreaks = 1
    MaxFailures = 1
SPECIFICATION OutboxSpec
INVARIANTS
    TypeOK
    FirstDeliveriesInOrder
PROPERTIES
    OvertakenOnlyInBuffers
    TwoOvertakeOnlyInBuffers
    AllDelivered
    AllDrain
CHECK_DEADLOCK FALSE
