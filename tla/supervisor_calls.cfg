SPECIFICATION FairSpec
CONSTANTS
    Capacity = 2
    MaxCalls = 4
    MaxViews = 1
    MaxConnections = 2
    MaxSequence = 1
    PipeCapacity = 1
    Kinds = {"assemble"}
    Faults = {"exit", "garbage", "deadline", "resources"}
PROPERTIES ImplementsCalls CallsSettle
CHECK_DEADLOCK FALSE
