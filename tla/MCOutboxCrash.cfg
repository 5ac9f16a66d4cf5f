CONSTANTS
    Aggregates = {a1}
    Instances = {i1}
    BatchLimit = 2
    BrokerAtStart = {"open"}
    Oversized = {}
    MaxRows = 1
    MaxStops = 1
    MaxBreaks = 0
    MaxFailures = 0
SPECIFICATION FairSpec
PROPERTY DeliveredAtLeastOnce
CHECK_DEADLOCK FALSE
